--------------------------- MODULE LRUCacheProofs ---------------------------
(***************************************************************************)
(* Proofs about module LRUCache, for any keys, elements and size.          *)
(*                                                                         *)
(* IInv is inductive.  IteratorsAreValid alone is not: that a node is free *)
(* when one is inserted needs the bound on the list, and that the node of  *)
(* one key is not taken with that of another needs their types.  Order,    *)
(* which rests on it, says that the list is the order of the last uses;    *)
(* with it every step is one of a least-recently-used cache.               *)
(***************************************************************************)
EXTENDS LRUCache, FiniteSetTheorems, FunctionTheorems, SequenceTheorems, WellFoundedInduction, TLAPS

\* What is left of a sequence from which one place is removed
LEMMA Removing ==
  ASSUME NEW S, NEW s \in Seq(S), NEW i \in 1 .. Len(s)
  PROVE  /\ Lists!RemoveAt(s, i) \in Seq(S)
         /\ Len(Lists!RemoveAt(s, i)) = Len(s) - 1
         /\ \A j \in 1 .. Len(s) - 1 :
              Lists!RemoveAt(s, i)[j] = IF j < i THEN s[j] ELSE s[j + 1]
<1>. DEFINE a == SubSeq(s, 1, i - 1)
            b == SubSeq(s, i + 1, Len(s))
<1>1. Len(s) \in Nat /\ \A j \in 1 .. Len(s) : s[j] \in S
  BY LenProperties, ElementOfSeq
<1>2. /\ a \in Seq(S) /\ Len(a) = i - 1
      /\ \A j \in 1 .. i - 1 : a[j] = s[j]
  BY <1>1, SubSeqProperties
<1>3. /\ b \in Seq(S) /\ Len(b) = Len(s) - i
      /\ \A j \in 1 .. Len(s) - i : b[j] = s[i + j]
  BY <1>1, SubSeqProperties
<1>. HIDE DEF a, b
<1>4. /\ a \o b \in Seq(S) /\ Len(a \o b) = Len(a) + Len(b)
      /\ \A j \in 1 .. Len(a) + Len(b) : (a \o b)[j] = IF j <= Len(a) THEN a[j] ELSE b[j - Len(a)]
  BY <1>2, <1>3, ConcatProperties
<1>5. ASSUME NEW j \in 1 .. Len(s) - 1
      PROVE  (a \o b)[j] = IF j < i THEN s[j] ELSE s[j + 1]
  <2>1. j \in 1 .. Len(a) + Len(b)
    BY <1>1, <1>2, <1>3
  <2>2. CASE j < i
    BY <1>1, <1>2, <1>4, <2>1, <2>2
  <2>3. CASE ~(j < i)
    <3>1. j - Len(a) \in 1 .. Len(s) - i /\ i + (j - Len(a)) = j + 1 /\ ~(j <= Len(a))
      BY <1>1, <1>2, <2>3
    <3>. QED
      BY <1>3, <1>4, <2>1, <2>3, <3>1
  <2>. QED
    BY <2>2, <2>3
<1>6. Lists!RemoveAt(s, i) = a \o b
  BY DEF Lists!RemoveAt, a, b
<1>7. Len(a) + Len(b) = Len(s) - 1
  BY <1>1, <1>2, <1>3
<1>. QED
  BY <1>4, <1>5, <1>6, <1>7

-----------------------------------------------------------------------------
\* The list of an LRUCache, and one whose nodes are all different
ListNodes == [node : Nodes, key : Keys]
Different(list) == \A i, j \in DOMAIN list : list[i].node = list[j].node => i = j

\* An iterator points to the one place that has its node.
LEMMA PlaceIs ==
  ASSUME NEW list \in Seq(ListNodes), Different(list), NEW i \in 1 .. Len(list)
  PROVE  Place(list, list[i].node) = i
<1>. DEFINE I == {j \in 1 .. Len(list) : list[j].node = list[i].node}
<1>1. I = {i}
  BY LenProperties DEF Different
<1>2. Lists!Min({i}) = i
  BY DEF Lists!Min
<1>. QED
  BY <1>1, <1>2 DEF Place, Lists!SelectInSeq

\* Erasing a node keeps all others, and nothing else.
LEMMA Erasing ==
  ASSUME NEW list \in Seq(ListNodes), Different(list), NEW i \in 1 .. Len(list)
  PROVE  LET rest == Erased(list, list[i].node)
         IN /\ rest \in Seq(ListNodes) /\ Len(rest) = Len(list) - 1 /\ Different(rest)
            /\ \A j \in 1 .. Len(list) : j # i => \E m \in 1 .. Len(rest) : rest[m] = list[j]
            /\ \A m \in 1 .. Len(rest) : rest[m].node # list[i].node
<1>. DEFINE rest == Lists!RemoveAt(list, i)
<1>0. Erased(list, list[i].node) = rest
  BY PlaceIs DEF Erased
<1>1. /\ rest \in Seq(ListNodes) /\ Len(rest) = Len(list) - 1 /\ Len(list) \in Nat
      /\ \A j \in 1 .. Len(list) - 1 : rest[j] = IF j < i THEN list[j] ELSE list[j + 1]
      /\ DOMAIN list = 1 .. Len(list) /\ DOMAIN rest = 1 .. Len(rest)
  BY Removing, LenProperties
<1>. HIDE DEF rest
<1>. DEFINE Was(m) == IF m < i THEN m ELSE m + 1
<1>2. \A m \in 1 .. Len(rest) : Was(m) \in 1 .. Len(list) /\ Was(m) # i /\ rest[m] = list[Was(m)]
  BY <1>1
<1>3. \A m, n \in 1 .. Len(rest) : Was(m) = Was(n) => m = n
  BY <1>1
<1>4. \A j \in 1 .. Len(list) : j # i => \E m \in 1 .. Len(rest) : Was(m) = j
  <2>. SUFFICES ASSUME NEW j \in 1 .. Len(list), j # i PROVE \E m \in 1 .. Len(rest) : Was(m) = j
    OBVIOUS
  <2>1. CASE j < i
    <3>1. j \in 1 .. Len(rest) /\ Was(j) = j
      BY <1>1, <2>1
    <3>. QED
      BY <3>1
  <2>2. CASE j > i
    <3>1. j - 1 \in 1 .. Len(rest) /\ Was(j - 1) = j
      BY <1>1, <2>2
    <3>. QED
      BY <3>1
  <2>. QED
    BY <1>1, <2>1, <2>2
<1>. HIDE DEF Was
<1>5. Different(rest)
  <2>1. ASSUME NEW m \in 1 .. Len(rest), NEW n \in 1 .. Len(rest), rest[m].node = rest[n].node
        PROVE  m = n
    <3>1. /\ Was(m) \in DOMAIN list /\ Was(n) \in DOMAIN list
          /\ list[Was(m)].node = list[Was(n)].node
      BY <1>1, <1>2, <2>1
    <3>2. Was(m) = Was(n)
      BY <3>1 DEF Different
    <3>. QED
      BY <1>3, <3>2
  <2>. QED
    BY <1>1, <2>1 DEF Different
<1>6. ASSUME NEW m \in 1 .. Len(rest)
      PROVE  rest[m].node # list[i].node
  <2>1. Was(m) \in DOMAIN list /\ Was(m) # i /\ rest[m] = list[Was(m)] /\ i \in DOMAIN list
    BY <1>1, <1>2
  <2>. QED
    BY <2>1 DEF Different
<1>7. \A j \in 1 .. Len(list) : j # i => \E m \in 1 .. Len(rest) : rest[m] = list[j]
  BY <1>2, <1>4
<1>. QED
  BY <1>0, <1>1, <1>5, <1>6, <1>7

\* A node is pushed to the front.
LEMMA Pushing ==
  ASSUME NEW list \in Seq(ListNodes), Different(list),
         NEW x \in ListNodes, \A i \in 1 .. Len(list) : list[i].node # x.node
  PROVE  LET all == <<x>> \o list
         IN /\ all \in Seq(ListNodes) /\ Len(all) = Len(list) + 1 /\ Different(all)
            /\ all[1] = x /\ \A i \in 1 .. Len(list) : all[i + 1] = list[i]
<1>. DEFINE all == <<x>> \o list
<1>1. /\ all \in Seq(ListNodes) /\ Len(all) = Len(list) + 1 /\ Len(list) \in Nat
      /\ all[1] = x /\ \A i \in 1 .. Len(list) : all[i + 1] = list[i]
  <2>1. <<x>> \in Seq(ListNodes) /\ Len(<<x>>) = 1 /\ <<x>>[1] = x /\ Len(list) \in Nat
    BY LenProperties
  <2>2. /\ all \in Seq(ListNodes) /\ Len(all) = 1 + Len(list)
        /\ \A i \in 1 .. 1 + Len(list) : all[i] = IF i <= 1 THEN <<x>>[i] ELSE list[i - 1]
    BY <2>1, ConcatProperties
  <2>. HIDE DEF all
  <2>3. ASSUME NEW i \in 1 .. Len(list) PROVE all[i + 1] = list[i]
    <3>1. i + 1 \in 1 .. 1 + Len(list) /\ ~(i + 1 <= 1) /\ i + 1 - 1 = i
      BY <2>1
    <3>. QED
      BY <2>2, <3>1
  <2>. QED
    BY <2>1, <2>2, <2>3
<1>2. DOMAIN all = 1 .. Len(all) /\ DOMAIN list = 1 .. Len(list)
  BY <1>1, LenProperties
<1>. HIDE DEF all
<1>3. \A j \in DOMAIN all : j = 1 \/ (j - 1 \in 1 .. Len(list) /\ all[j] = list[j - 1])
  <2>. SUFFICES ASSUME NEW j \in DOMAIN all, j # 1
                PROVE  j - 1 \in 1 .. Len(list) /\ all[j] = list[j - 1]
    OBVIOUS
  <2>1. j - 1 \in 1 .. Len(list) /\ j - 1 + 1 = j
    BY <1>1, <1>2
  <2>. QED
    BY <1>1, <2>1
<1>4. Different(all)
  <2>. SUFFICES ASSUME NEW i \in DOMAIN all, NEW j \in DOMAIN all, all[i].node = all[j].node
                PROVE  i = j
    BY DEF Different
  <2>1. CASE i = 1 \/ j = 1
    BY <1>1, <1>2, <1>3, <2>1
  <2>2. CASE i # 1 /\ j # 1
    <3>1. i - 1 = j - 1
      BY <1>2, <1>3, <2>2 DEF Different
    <3>. QED
      BY <1>1, <1>2, <3>1
  <2>. QED
    BY <2>1, <2>2
<1>. QED
  BY <1>1, <1>4 DEF all

\* pop_back leaves what is in front.
LEMMA FrontIs ==
  ASSUME NEW list \in Seq(ListNodes), Different(list)
  PROVE  /\ Front(list) \in Seq(ListNodes) /\ Different(Front(list))
         /\ Len(Front(list)) <= Len(list) /\ Len(Front(list)) < MaxSize
         /\ \A i \in 1 .. Len(Front(list)) : Front(list)[i] = list[i]
         /\ \A i \in 1 .. Len(list) : i > Len(Front(list)) => list[i].key \in KeysOf(Back(list))
<1>. DEFINE m == IF Len(list) >= MaxSize THEN MaxSize - 1 ELSE Len(list)
            front == SubSeq(list, 1, m)
            back == SubSeq(list, m + 1, Len(list))
<1>1. /\ Len(list) \in Nat /\ DOMAIN list = 1 .. Len(list) /\ m \in Nat /\ m <= Len(list) /\ m < MaxSize
      /\ \A i \in 1 .. Len(list) : list[i] \in ListNodes
  BY LenProperties, ElementOfSeq, MaxSizeAssumption
<1>. HIDE DEF m
<1>2. /\ front \in Seq(ListNodes) /\ Len(front) = m /\ DOMAIN front = 1 .. m
      /\ \A i \in 1 .. m : front[i] = list[i]
  BY <1>1, SubSeqProperties, LenProperties
<1>3. /\ back \in Seq(ListNodes) /\ Len(back) = Len(list) - m /\ DOMAIN back = 1 .. Len(list) - m
      /\ \A i \in 1 .. Len(list) - m : back[i] = list[m + i]
  <2>1. m + 1 \in Int /\ Len(list) \in Int /\ \A i \in m + 1 .. Len(list) : list[i] \in ListNodes
    BY <1>1
  <2>2. /\ back \in Seq(ListNodes)
        /\ Len(back) = IF m + 1 <= Len(list) THEN Len(list) - (m + 1) + 1 ELSE 0
        /\ \A i \in 1 .. Len(list) - (m + 1) + 1 : back[i] = list[(m + 1) + i - 1]
    BY <2>1, SubSeqProperties
  <2>. HIDE DEF back
  <2>3. Len(back) = Len(list) - m /\ DOMAIN back = 1 .. Len(back)
    <3>1. \A n \in Nat : m <= n => n - m = IF m + 1 <= n THEN n - (m + 1) + 1 ELSE 0
      BY <1>1
    <3>. QED
      BY <1>1, <2>2, <3>1, LenProperties
  <2>4. ASSUME NEW i \in 1 .. Len(list) - m PROVE back[i] = list[m + i]
    <3>1. i \in 1 .. Len(list) - (m + 1) + 1 /\ (m + 1) + i - 1 = m + i
      BY <1>1
    <3>. QED
      BY <2>2, <3>1
  <2>. QED
    BY <2>2, <2>3, <2>4
<1>4. Front(list) = front
  BY DEF Front, m
<1>5. Back(list) = back
  BY <1>2, <1>4 DEF Back
<1>. HIDE DEF front, back
<1>6. Different(front)
  BY <1>1, <1>2 DEF Different
<1>7. ASSUME NEW i \in 1 .. Len(list), i > m
      PROVE  list[i].key \in KeysOf(back)
  <2>1. i - m \in 1 .. Len(list) - m /\ m + (i - m) = i
    BY <1>1, <1>7
  <2>2. back[i - m] = list[i] /\ i - m \in DOMAIN back
    BY <1>3, <2>1
  <2>. QED
    BY <2>2 DEF KeysOf
<1>. QED
  BY <1>1, <1>2, <1>4, <1>5, <1>6, <1>7

\* There is a node for a list that has room for one.
LEMMA FreeNode ==
  ASSUME NEW list \in Seq(ListNodes), Len(list) < MaxSize
  PROVE  \E n \in Nodes : n \notin NodesOf(list)
<1>. SUFFICES ASSUME \A n \in Nodes : n \in NodesOf(list) PROVE FALSE
  OBVIOUS
<1>. DEFINE m == Len(list)
            f == [n \in Nodes |-> CHOOSE i \in 1 .. m : list[i].node = n]
<1>1. m \in Nat /\ DOMAIN list = 1 .. m /\ MaxSize \in Nat
  BY LenProperties, MaxSizeAssumption
<1>2. \A n \in Nodes : \E i \in 1 .. m : list[i].node = n
  BY <1>1 DEF NodesOf
<1>3. f \in [Nodes -> 1 .. m] /\ \A n \in Nodes : list[f[n]].node = n
  BY <1>2
<1>4. /\ IsFiniteSet(Nodes) /\ Cardinality(Nodes) = MaxSize
      /\ IsFiniteSet(1 .. m) /\ Cardinality(1 .. m) = m
  <2>1. 1 \in Int /\ MaxSize \in Int /\ m \in Int /\ ~(1 > MaxSize)
    BY <1>1, MaxSizeAssumption
  <2>2. /\ IsFiniteSet(1 .. MaxSize)
        /\ Cardinality(1 .. MaxSize) = IF 1 > MaxSize THEN 0 ELSE MaxSize - 1 + 1
        /\ IsFiniteSet(1 .. m) /\ Cardinality(1 .. m) = IF 1 > m THEN 0 ELSE m - 1 + 1
    BY <2>1, FS_Interval
  <2>3. MaxSize - 1 + 1 = MaxSize /\ m = IF 1 > m THEN 0 ELSE m - 1 + 1
    BY <1>1
  <2>. QED
    BY <2>1, <2>2, <2>3 DEF Nodes
<1>. HIDE DEF f
<1>5. \E n, k \in Nodes : n # k /\ f[n] = f[k]
  BY <1>1, <1>3, <1>4, FS_PigeonHole
<1>. QED
  BY <1>3, <1>5

-----------------------------------------------------------------------------
IInv == TypeOK /\ Len(lru) <= MaxSize /\ IteratorsAreValid

LEMMA Facts ==
  ASSUME IInv
  PROVE  /\ lru \in Seq(ListNodes) /\ Different(lru) /\ Len(lru) \in Nat /\ Len(lru) <= MaxSize
         /\ DOMAIN lru = 1 .. Len(lru) /\ DOMAIN store \subseteq Keys /\ used \in Seq(Keys)
         /\ \A k \in DOMAIN store :
              /\ store[k] \in Entries
              /\ \E i \in 1 .. Len(lru) : lru[i] = [node |-> store[k].node, key |-> k]
BY LenProperties DEF IInv, TypeOK, IteratorsAreValid, ListNodes, Different

LEMMA Initially == Init => IInv
<1>. SUFFICES ASSUME Init PROVE IInv
  OBVIOUS
<1>1. lru = << >> /\ DOMAIN lru = {} /\ Len(lru) = 0 /\ DOMAIN store = {} /\ used = << >>
  BY DEF Init
<1>2. lru \in Seq(ListNodes) /\ used \in Seq(Keys) /\ reinserted \in BOOLEAN
  BY <1>1, EmptySeq DEF Init
<1>3. TypeOK
  BY <1>1, <1>2 DEF TypeOK, ListNodes
<1>4. IteratorsAreValid
  BY <1>1 DEF IteratorsAreValid
<1>. QED
  BY <1>1, <1>3, <1>4, MaxSizeAssumption DEF IInv

\* A set of natural numbers has a least one.
LEMMA LeastIs ==
  ASSUME NEW I \in SUBSET Nat, I # {}
  PROVE  Lists!Min(I) \in I /\ \A j \in I : Lists!Min(I) <= j
<1>1. PICK i \in I : \A j \in I : ~(<<j, i>> \in OpToRel(<, Nat))
  BY NatLessThanWellFounded, WFMin
<1>2. \A j, k \in Nat : <<j, k>> \in OpToRel(<, Nat) <=> j < k
  BY DEF OpToRel
<1>3. ASSUME NEW j \in I PROVE i <= j
  <2>1. i \in Nat /\ j \in Nat
    OBVIOUS
  <2>2. ~(j < i)
    BY <1>1, <1>2, <2>1
  <2>. QED
    BY <2>1, <2>2
<1>4. Lists!Min(I) = CHOOSE x \in I : \A y \in I : x <= y
  BY DEF Lists!Min
<1>5. \E x \in I : \A y \in I : x <= y
  BY <1>3
<1>. QED
  BY <1>4, <1>5

\* The history of uses is one of keys.
LEMMA WithoutIs ==
  ASSUME NEW S, NEW s \in Seq(S), NEW x
  PROVE  Without(s, x) \in Seq(S)
<1>1. CASE \E i \in 1 .. Len(s) : s[i] = x
  <2>. DEFINE I == {i \in 1 .. Len(s) : s[i] = x}
  <2>1. I \in SUBSET (1 .. Len(s)) /\ I # {} /\ Len(s) \in Nat
    BY <1>1, LenProperties
  <2>2. I \in SUBSET Nat
    BY <2>1
  <2>3. Lists!Min(I) \in 1 .. Len(s)
    BY <2>1, <2>2, LeastIs
  <2>. QED
    BY <1>1, <2>1, <2>3, Removing DEF Without, Lists!RemoveFirst, Lists!SelectInSeq
<1>2. CASE ~ \E i \in 1 .. Len(s) : s[i] = x
  BY <1>2 DEF Without, Lists!RemoveFirst
<1>. QED
  BY <1>1, <1>2

LEMMA UsingTyped ==
  ASSUME IInv, NEW k \in Keys, Using(k)
  PROVE  used' \in Seq(Keys)
<1>. DEFINE others == Without(used, k)
            more == Without(others, CHOOSE x \in DOMAIN store \ DOMAIN store' : TRUE)
<1>1. others \in Seq(Keys)
  BY Facts, WithoutIs
<1>2. more \in Seq(Keys)
  BY <1>1, WithoutIs
<1>3. used' = <<k>> \o (IF DOMAIN store \subseteq DOMAIN store' THEN others ELSE more)
  BY DEF Using
<1>4. <<k>> \in Seq(Keys)
  OBVIOUS
<1>. HIDE DEF others, more
<1>. QED
  BY <1>1, <1>2, <1>3, <1>4, ConcatProperties

-----------------------------------------------------------------------------
(* Each operation, in the words of the list and the store *)

\* A node in front of those that are left; the keys of the others are gone.
LEMMA Inserting ==
  ASSUME IInv, NEW k \in Keys, NEW e \in Elements, Insert(k, e)
  PROVE  /\ lru' \in Seq(ListNodes) /\ Different(lru') /\ Len(lru') <= MaxSize
         /\ DOMAIN store' = (DOMAIN store \ KeysOf(Back(lru))) \cup {k}
         /\ store'[k] \in Entries /\ store'[k].element = e
         /\ \A x \in DOMAIN store' : x # k => store'[x] = store[x]
         /\ \A x \in DOMAIN store' : \E i \in 1 .. Len(lru') : lru'[i] = [node |-> store'[x].node, key |-> x]
<1>. DEFINE front == Front(lru)
            node == CHOOSE n \in Nodes : n \notin NodesOf(front)
            x0 == [node |-> node, key |-> k]
            new == [node |-> node, element |-> e]
<1>0. lru' = <<x0>> \o front /\ store' = MapInsert(MapErase(store, KeysOf(Back(lru))), k, new)
  BY DEF Insert
<1>1. /\ front \in Seq(ListNodes) /\ Different(front)
      /\ Len(front) <= Len(lru) /\ Len(front) < MaxSize
      /\ \A i \in 1 .. Len(front) : front[i] = lru[i]
      /\ \A i \in 1 .. Len(lru) : i > Len(front) => lru[i].key \in KeysOf(Back(lru))
  BY Facts, FrontIs
<1>. HIDE DEF front
<1>2. Len(front) \in Nat /\ DOMAIN front = 1 .. Len(front)
  BY <1>1, LenProperties
<1>3. node \in Nodes /\ node \notin NodesOf(front)
  BY <1>1, FreeNode
<1>. HIDE DEF node
<1>4. x0 \in ListNodes /\ \A i \in 1 .. Len(front) : front[i].node # x0.node
  BY <1>2, <1>3 DEF ListNodes, NodesOf
<1>5. /\ lru' \in Seq(ListNodes) /\ Len(lru') = Len(front) + 1 /\ Different(lru')
      /\ lru'[1] = x0 /\ \A i \in 1 .. Len(front) : lru'[i + 1] = front[i]
  BY <1>0, <1>1, <1>4, Pushing
<1>6. /\ DOMAIN store' = (DOMAIN store \ KeysOf(Back(lru))) \cup {k}
      /\ store'[k] = new
      /\ \A x \in DOMAIN store' : x # k => store'[x] = store[x]
  BY <1>0, Zenon DEF MapInsert, MapErase
<1>7. new \in Entries /\ new.element = e /\ new.node = node
  BY <1>3 DEF Entries
<1>8. ASSUME NEW x \in DOMAIN store', x # k
      PROVE  \E i \in 1 .. Len(lru') : lru'[i] = [node |-> store'[x].node, key |-> x]
  <2>1. x \in DOMAIN store /\ x \notin KeysOf(Back(lru)) /\ store'[x] = store[x]
    BY <1>6, <1>8
  <2>2. PICK i \in 1 .. Len(lru) : lru[i] = [node |-> store[x].node, key |-> x]
    BY <2>1, Facts
  <2>3. Len(lru) \in Nat /\ ~(i > Len(front))
    BY <1>1, <2>1, <2>2, Facts
  <2>4. i \in 1 .. Len(front) /\ i + 1 \in 1 .. Len(lru')
    BY <1>2, <1>5, <2>3
  <2>. QED
    BY <1>1, <1>5, <2>1, <2>2, <2>4
<1>9. 1 \in 1 .. Len(lru') /\ lru'[1] = [node |-> store'[k].node, key |-> k]
  BY <1>2, <1>5, <1>6, <1>7
<1>10. Len(lru') <= MaxSize
  BY <1>1, <1>2, <1>5, MaxSizeAssumption
<1>. QED
  BY <1>5, <1>6, <1>7, <1>8, <1>9, <1>10

\* The node of a key is found, and none other is lost.
LEMMA Taking ==
  ASSUME IInv, NEW k \in Keys, Holds(k)
  PROVE  LET rest == Erased(lru, store[k].node)
         IN /\ rest \in Seq(ListNodes) /\ Different(rest) /\ Len(rest) = Len(lru) - 1
            /\ lru[Place(lru, store[k].node)] = [node |-> store[k].node, key |-> k]
            /\ \A m \in 1 .. Len(rest) : rest[m].node # store[k].node
            /\ \A x \in DOMAIN store : x # k =>
                 \E m \in 1 .. Len(rest) : rest[m] = [node |-> store[x].node, key |-> x]
<1>1. PICK i \in 1 .. Len(lru) : lru[i] = [node |-> store[k].node, key |-> k]
  BY Facts DEF Holds
<1>2. lru[i].node = store[k].node
  BY <1>1
<1>. DEFINE rest == Erased(lru, store[k].node)
<1>3. /\ rest \in Seq(ListNodes) /\ Different(rest) /\ Len(rest) = Len(lru) - 1
      /\ \A j \in 1 .. Len(lru) : j # i => \E m \in 1 .. Len(rest) : rest[m] = lru[j]
      /\ \A m \in 1 .. Len(rest) : rest[m].node # store[k].node
  <2>1. lru \in Seq(ListNodes) /\ Different(lru)
    BY Facts
  <2>. HIDE DEF rest
  <2>2. rest = Erased(lru, lru[i].node)
    BY <1>2 DEF rest
  <2>3. LET r == Erased(lru, lru[i].node)
        IN /\ r \in Seq(ListNodes) /\ Len(r) = Len(lru) - 1 /\ Different(r)
           /\ \A j \in 1 .. Len(lru) : j # i => \E m \in 1 .. Len(r) : r[m] = lru[j]
           /\ \A m \in 1 .. Len(r) : r[m].node # lru[i].node
    BY <2>1, Erasing
  <2>. QED
    BY <1>2, <2>2, <2>3
<1>4. Place(lru, store[k].node) = i
  BY <1>2, Facts, PlaceIs
<1>. HIDE DEF rest
<1>5. ASSUME NEW x \in DOMAIN store, x # k
      PROVE  \E m \in 1 .. Len(rest) : rest[m] = [node |-> store[x].node, key |-> x]
  <2>1. PICK j \in 1 .. Len(lru) : lru[j] = [node |-> store[x].node, key |-> x]
    BY Facts
  <2>2. j # i
    BY <1>1, <1>5, <2>1
  <2>. QED
    BY <1>3, <2>1, <2>2
<1>. QED
  BY <1>1, <1>3, <1>4, <1>5 DEF rest

-----------------------------------------------------------------------------
LEMMA InsertKeeps ==
  ASSUME IInv, NEW k \in Keys, NEW e \in Elements, Insert(k, e)
  PROVE  IInv'
<1>1. used' \in Seq(Keys) /\ reinserted' \in BOOLEAN
  BY UsingTyped DEF Insert, IInv, TypeOK
<1>2. DOMAIN lru' = 1 .. Len(lru')
  BY Inserting, LenProperties
<1>3. /\ lru' \in Seq(ListNodes)
      /\ DOMAIN store' \subseteq Keys
      /\ \A x \in DOMAIN store' : store'[x] \in Entries
  <2>1. DOMAIN store' \subseteq DOMAIN store \cup {k}
    BY Inserting
  <2>2. ASSUME NEW x \in DOMAIN store' PROVE store'[x] \in Entries
    <3>1. CASE x = k
      BY <3>1, Inserting
    <3>2. CASE x # k
      BY <2>1, <3>2, Inserting, Facts
    <3>. QED
      BY <3>1, <3>2
  <2>. QED
    BY <2>1, <2>2, Inserting, Facts
<1>4. TypeOK'
  BY <1>1, <1>3 DEF TypeOK, ListNodes
<1>5. IteratorsAreValid'
  BY <1>2, Inserting DEF IteratorsAreValid, Different
<1>. QED
  BY <1>4, <1>5, Inserting DEF IInv

LEMMA GetKeeps ==
  ASSUME IInv, NEW k \in Keys, Holds(k), Get(k)
  PROVE  IInv'
<1>. DEFINE rest == Erased(lru, store[k].node)
            x0 == lru[Place(lru, store[k].node)]
<1>1. used' \in Seq(Keys) /\ reinserted' \in BOOLEAN /\ store' = store /\ lru' = <<x0>> \o rest
  BY UsingTyped DEF Get, IInv, TypeOK, Spliced
<1>2. /\ rest \in Seq(ListNodes) /\ Different(rest) /\ Len(rest) = Len(lru) - 1
      /\ x0 = [node |-> store[k].node, key |-> k]
      /\ \A m \in 1 .. Len(rest) : rest[m].node # store[k].node
      /\ \A x \in DOMAIN store : x # k =>
           \E m \in 1 .. Len(rest) : rest[m] = [node |-> store[x].node, key |-> x]
  BY Taking
<1>. HIDE DEF rest, x0
<1>3. x0 \in ListNodes /\ x0.node = store[k].node
  <2>1. k \in DOMAIN store
    BY DEF Holds
  <2>2. store[k].node \in Nodes
    BY <2>1, Facts DEF Entries
  <2>. QED
    BY <1>2, <2>2 DEF ListNodes
<1>4. /\ lru' \in Seq(ListNodes) /\ Len(lru') = Len(rest) + 1 /\ Different(lru')
      /\ lru'[1] = x0 /\ \A i \in 1 .. Len(rest) : lru'[i + 1] = rest[i]
  <2>1. \A m \in 1 .. Len(rest) : rest[m].node # x0.node
    BY <1>2, <1>3
  <2>2. rest \in Seq(ListNodes) /\ Different(rest) /\ x0 \in ListNodes
    BY <1>2, <1>3
  <2>3. lru' = <<x0>> \o rest
    BY <1>1
  <2>. QED
    BY <2>1, <2>2, <2>3, Pushing
<1>5. Len(rest) \in Nat /\ Len(lru) \in Nat /\ DOMAIN lru' = 1 .. Len(lru')
  BY <1>2, <1>4, LenProperties, Facts
<1>6. ASSUME NEW x \in DOMAIN store
      PROVE  \E i \in 1 .. Len(lru') : lru'[i] = [node |-> store[x].node, key |-> x]
  <2>1. CASE x = k
    BY <1>2, <1>4, <1>5, <2>1
  <2>2. CASE x # k
    <3>1. PICK m \in 1 .. Len(rest) : rest[m] = [node |-> store[x].node, key |-> x]
      BY <1>2, <2>2
    <3>2. m + 1 \in 1 .. Len(lru') /\ lru'[m + 1] = rest[m]
      BY <1>4, <1>5, <3>1
    <3>. QED
      BY <3>1, <3>2
  <2>. QED
    BY <2>1, <2>2
<1>7. TypeOK'
  BY <1>1, <1>4, Facts DEF TypeOK, ListNodes
<1>8. IteratorsAreValid'
  BY <1>1, <1>4, <1>5, <1>6 DEF IteratorsAreValid, Different
<1>9. Len(lru') <= MaxSize
  BY <1>2, <1>4, <1>5, Facts
<1>. QED
  BY <1>7, <1>8, <1>9 DEF IInv

LEMMA RemoveKeeps ==
  ASSUME IInv, NEW k \in Keys, Holds(k), Remove(k)
  PROVE  IInv'
<1>. DEFINE rest == Erased(lru, store[k].node)
<1>1. lru' = rest /\ store' = MapErase(store, {k}) /\ used' = Without(used, k) /\ reinserted' = reinserted
  BY DEF Remove
<1>2. /\ rest \in Seq(ListNodes) /\ Different(rest) /\ Len(rest) = Len(lru) - 1
      /\ \A x \in DOMAIN store : x # k =>
           \E m \in 1 .. Len(rest) : rest[m] = [node |-> store[x].node, key |-> x]
  BY Taking
<1>. HIDE DEF rest
<1>3. used' \in Seq(Keys) /\ reinserted' \in BOOLEAN
  BY <1>1, Facts, WithoutIs DEF IInv, TypeOK
<1>4. DOMAIN store' = DOMAIN store \ {k} /\ \A x \in DOMAIN store' : store'[x] = store[x]
  BY <1>1 DEF MapErase
<1>5. DOMAIN lru' = 1 .. Len(lru')
  BY <1>1, <1>2, LenProperties
<1>6. TypeOK'
  BY <1>1, <1>2, <1>3, <1>4, Facts DEF TypeOK, ListNodes
<1>7. IteratorsAreValid'
  <2>1. Different(lru')
    BY <1>1, <1>2
  <2>2. ASSUME NEW x \in DOMAIN store'
        PROVE  \E m \in DOMAIN lru' : lru'[m] = [node |-> store'[x].node, key |-> x]
    <3>1. x \in DOMAIN store /\ x # k /\ store'[x] = store[x]
      BY <1>4, <2>2
    <3>2. PICK m \in 1 .. Len(rest) : rest[m] = [node |-> store[x].node, key |-> x]
      BY <1>2, <3>1
    <3>. QED
      BY <1>1, <1>5, <3>1, <3>2
  <2>. QED
    BY <2>1, <2>2 DEF IteratorsAreValid, Different
<1>8. Len(lru') <= MaxSize
  BY <1>1, <1>2, Facts, MaxSizeAssumption
<1>. QED
  BY <1>6, <1>7, <1>8 DEF IInv

LEMMA Stepping == IInv /\ [Next]_vars => IInv'
<1>1. ASSUME IInv, UNCHANGED vars PROVE IInv'
  BY <1>1 DEF vars, IInv, TypeOK, IteratorsAreValid
<1>2. ASSUME IInv, NEW k \in Keys, Get(k) PROVE IInv'
  BY <1>1, <1>2, GetKeeps DEF Get
<1>3. ASSUME IInv, NEW k \in Keys, Remove(k) PROVE IInv'
  BY <1>1, <1>3, RemoveKeeps DEF Remove
<1>4. ASSUME IInv, NEW k \in Keys, NEW e \in Elements, Insert(k, e) PROVE IInv'
  BY <1>4, InsertKeeps
<1>. QED
  BY <1>1, <1>2, <1>3, <1>4 DEF Next

-----------------------------------------------------------------------------
\* IInv holds in every state.
THEOREM Invariance == Spec => []IInv
<1>. QED
  BY Initially, Stepping, PTL DEF Spec

\* The list, the store and the history of uses keep their types.
THEOREM TypeCorrect == Spec => []TypeOK
<1>1. IInv => TypeOK
  BY DEF IInv
<1>. QED
  BY Invariance, <1>1, PTL

\* Whatever callers do, no iterator that is stored dangles: it points to a node
\* of the list with the key it is stored for, and no two nodes are the same.
THEOREM NoDanglingIterator == Spec => []IteratorsAreValid
<1>1. IInv => IteratorsAreValid
  BY DEF IInv
<1>. QED
  BY Invariance, <1>1, PTL

-----------------------------------------------------------------------------
\* A list has a node for each of at most as many keys as it is long.
LEMMA KeysFit ==
  ASSUME NEW list \in Seq(ListNodes), NEW D,
         \A x \in D : \E i \in 1 .. Len(list) : list[i].key = x
  PROVE  IsFiniteSet(D) /\ Cardinality(D) \in Nat /\ Cardinality(D) <= Len(list)
<1>. DEFINE m == Len(list)
            f == [x \in D |-> CHOOSE i \in 1 .. m : list[i].key = x]
<1>1. m \in Nat
  BY LenProperties
<1>2. f \in [D -> 1 .. m] /\ \A x \in D : list[f[x]].key = x
  OBVIOUS
<1>. HIDE DEF f, m
<1>3. f \in Injection(D, 1 .. m)
  BY <1>2 DEF Injection, IsInjective
<1>4. IsFiniteSet(1 .. m) /\ Cardinality(1 .. m) = m
  <2>1. /\ IsFiniteSet(1 .. m)
        /\ Cardinality(1 .. m) = IF 1 > m THEN 0 ELSE m - 1 + 1
    BY <1>1, FS_Interval
  <2>2. m = IF 1 > m THEN 0 ELSE m - 1 + 1
    BY <1>1
  <2>. QED
    BY <2>1, <2>2
<1>. QED
  BY <1>3, <1>4, FS_Injection, FS_CardinalityType DEF m

\* What a user sees of the cache
Held == [k \in DOMAIN store |-> store[k].element]

\* Inserting puts the entry, whatever has to make room for it.
LEMMA InsertPuts ==
  ASSUME IInv, NEW k \in Keys, NEW e \in Elements, Insert(k, e)
  PROVE  Lossy!Put(k, e)
<1>. DEFINE kept == DOMAIN store' \ {k}
<1>1. /\ DOMAIN store' = (DOMAIN store \ KeysOf(Back(lru))) \cup {k}
      /\ store'[k].element = e
      /\ \A x \in DOMAIN store' : x # k => store'[x] = store[x]
      /\ lru' \in Seq(ListNodes) /\ Len(lru') <= MaxSize
      /\ \A x \in DOMAIN store' : \E i \in 1 .. Len(lru') : lru'[i] = [node |-> store'[x].node, key |-> x]
  BY Inserting
<1>2. kept \in SUBSET (DOMAIN Held \ {k}) /\ DOMAIN store' = kept \cup {k} /\ k \notin kept
  BY <1>1 DEF Held
<1>3. /\ IsFiniteSet(DOMAIN store') /\ Cardinality(DOMAIN store') \in Nat
      /\ Cardinality(DOMAIN store') <= Len(lru')
  <2>1. ASSUME NEW x \in DOMAIN store' PROVE \E i \in 1 .. Len(lru') : lru'[i].key = x
    <3>1. PICK i \in 1 .. Len(lru') : lru'[i] = [node |-> store'[x].node, key |-> x]
      BY <1>1
    <3>. QED
      BY <3>1
  <2>. QED
    BY <1>1, <2>1, KeysFit
<1>4. IsFiniteSet(kept)
  BY <1>3, FS_Subset
<1>5. Cardinality(DOMAIN store') = Cardinality(kept) + 1 /\ Cardinality(kept) \in Nat
  BY <1>2, <1>4, FS_AddElement, FS_CardinalityType
<1>6. Cardinality(kept) < MaxSize
  <2>1. Len(lru') \in Nat
    BY <1>1, LenProperties
  <2>. QED
    BY <1>1, <1>3, <1>5, <2>1, MaxSizeAssumption
<1>7. [x \in DOMAIN store' |-> store'[x].element]
        = [x \in kept \cup {k} |-> IF x = k THEN e ELSE Held[x]]
  <2>1. ASSUME NEW x \in DOMAIN store'
        PROVE  store'[x].element = IF x = k THEN e ELSE Held[x]
    BY <1>1, <1>2 DEF Held
  <2>. QED
    BY <1>2, <2>1
<1>. HIDE DEF kept
<1>8. Lossy!Cardinality(kept) = Cardinality(kept)
  BY DEF Lossy!Cardinality, Cardinality
<1>. QED
  BY <1>2, <1>6, <1>7, <1>8 DEF Lossy!Put, Held

LEMMA RemoveDrops ==
  ASSUME NEW k \in Keys, Holds(k), Remove(k)
  PROVE  Lossy!Drop(k)
<1>1. store' = [x \in DOMAIN store \ {k} |-> store[x]] /\ k \in DOMAIN store
  BY DEF Remove, MapErase, Holds
<1>2. DOMAIN store' = DOMAIN store \ {k}
  BY <1>1
<1>3. [x \in DOMAIN store' |-> store'[x].element]
        = [x \in DOMAIN Held \ {k} |-> Held[x]]
  BY <1>1, <1>2 DEF Held
<1>. QED
  BY <1>1, <1>3 DEF Lossy!Drop, Held

\* The cache implements the bounded cache its users rely on: it keeps at most
\* MaxSize entries, each the one inserted last for its key, and what has just
\* been inserted is in it.
THEOREM Implementation == Spec => ImplementsLossyCache
<1>1. Init => Lossy!Init
  BY DEF Init, Lossy!Init
<1>2. IInv /\ [Next]_vars => [Lossy!Next]_Held
  <2>. SUFFICES ASSUME IInv, [Next]_vars PROVE Lossy!Next \/ Held' = Held
    OBVIOUS
  <2>1. CASE UNCHANGED vars
    BY <2>1 DEF vars, Held
  <2>2. ASSUME NEW k \in Keys, Get(k) PROVE Held' = Held
    BY <2>2 DEF Get, vars, Held
  <2>3. ASSUME NEW k \in Keys, Remove(k) PROVE Lossy!Next \/ Held' = Held
    <3>1. CASE Holds(k)
      BY <2>3, <3>1, RemoveDrops DEF Lossy!Next
    <3>2. CASE ~Holds(k)
      BY <2>3, <3>2 DEF Remove, vars, Held
    <3>. QED
      BY <3>1, <3>2
  <2>4. ASSUME NEW k \in Keys, NEW e \in Elements, Insert(k, e) PROVE Lossy!Next
    BY <2>4, InsertPuts DEF Lossy!Next
  <2>. QED
    BY <2>1, <2>2, <2>3, <2>4 DEF Next
<1>3. IInv => \A k \in Keys, e \in Elements : Insert(k, e) => Lossy!Put(k, e)
  BY InsertPuts
<1>. DEFINE Puts == \A k \in Keys, e \in Elements : Insert(k, e) => Lossy!Put(k, e)
<1>. HIDE DEF Puts
<1>4. Spec => [][Lossy!Next]_Held
  BY Invariance, <1>2, PTL DEF Spec
<1>5. Spec => [][Puts]_vars
  BY Invariance, <1>3, PTL DEF Puts
<1>. QED
  BY <1>1, <1>4, <1>5, PTL DEF Spec, ImplementsLossyCache, Lossy!Spec, Held, Puts

-----------------------------------------------------------------------------
(* As long as no key is inserted that is in the cache, the list shows the   *)
(* order of the last uses, and all keys.                                    *)
Mirrors(list, s, D) ==
  /\ Len(s) = Len(list)
  /\ \A i \in 1 .. Len(s) : s[i] = list[i].key
  /\ \A i, j \in 1 .. Len(s) : s[i] = s[j] => i = j
  /\ D = {s[i] : i \in 1 .. Len(s)}

\* A key that occurs once is removed at its place, one that does not is not.
LEMMA WithoutOnly ==
  ASSUME NEW S, NEW s \in Seq(S), \A i, j \in 1 .. Len(s) : s[i] = s[j] => i = j,
         NEW i \in 1 .. Len(s)
  PROVE  Without(s, s[i]) = Lists!RemoveAt(s, i)
<1>. DEFINE I == {j \in 1 .. Len(s) : s[j] = s[i]}
<1>1. I = {i}
  OBVIOUS
<1>2. Lists!Min({i}) = i
  BY DEF Lists!Min
<1>3. Lists!SelectInSeq(s, LAMBDA v : v = s[i]) = i
  BY <1>1, <1>2 DEF Lists!SelectInSeq
<1>. QED
  BY <1>3 DEF Without, Lists!RemoveFirst

LEMMA WithoutNone ==
  ASSUME NEW s, NEW x, ~ \E i \in 1 .. Len(s) : s[i] = x
  PROVE  Without(s, x) = s
BY DEF Without, Lists!RemoveFirst

LEMMA MirrorTaken ==
  ASSUME NEW list \in Seq(ListNodes), NEW s \in Seq(Keys), NEW D, Mirrors(list, s, D),
         NEW i \in 1 .. Len(s)
  PROVE  Mirrors(Lists!RemoveAt(list, i), Lists!RemoveAt(s, i), D \ {s[i]})
<1>. DEFINE t == Lists!RemoveAt(s, i)
            rest == Lists!RemoveAt(list, i)
            Was(m) == IF m < i THEN m ELSE m + 1
<1>1. /\ t \in Seq(Keys) /\ Len(t) = Len(s) - 1
      /\ \A m \in 1 .. Len(t) : t[m] = s[Was(m)]
  BY Removing
<1>2. /\ Len(rest) = Len(t) /\ \A m \in 1 .. Len(t) : rest[m] = list[Was(m)]
  <2>1. i \in 1 .. Len(list) /\ Len(s) = Len(list)
    BY DEF Mirrors
  <2>2. Len(rest) = Len(list) - 1 /\ \A m \in 1 .. Len(list) - 1 : rest[m] = list[Was(m)]
    BY <2>1, Removing
  <2>. QED
    BY <1>1, <2>1, <2>2
<1>. HIDE DEF t, rest
<1>3. Len(s) \in Nat /\ Len(t) \in Nat
  BY <1>1, LenProperties
<1>4. \A m \in 1 .. Len(t) : Was(m) \in 1 .. Len(s) /\ Was(m) # i
  BY <1>1, <1>3
<1>5. \A m, n \in 1 .. Len(t) : Was(m) = Was(n) => m = n
  BY <1>3
<1>6. ASSUME NEW j \in 1 .. Len(s), j # i
      PROVE  \E m \in 1 .. Len(t) : Was(m) = j
  <2>1. CASE j < i
    <3>1. j \in 1 .. Len(t) /\ Was(j) = j
      BY <1>1, <1>3, <2>1
    <3>. QED
      BY <3>1
  <2>2. CASE j > i
    <3>1. j - 1 \in 1 .. Len(t) /\ Was(j - 1) = j
      BY <1>1, <1>3, <2>2
    <3>. QED
      BY <3>1
  <2>3. j < i \/ j > i
    BY <1>3, <1>6
  <2>. QED
    BY <2>1, <2>2, <2>3
<1>. HIDE DEF Was
<1>7. ASSUME NEW m \in 1 .. Len(t)
      PROVE  t[m] = rest[m].key
  <2>1. Was(m) \in 1 .. Len(s) /\ t[m] = s[Was(m)] /\ rest[m] = list[Was(m)]
    BY <1>1, <1>2, <1>4
  <2>. QED
    BY <2>1 DEF Mirrors
<1>8. ASSUME NEW m \in 1 .. Len(t), NEW n \in 1 .. Len(t), t[m] = t[n]
      PROVE  m = n
  <2>1. s[Was(m)] = s[Was(n)] /\ Was(m) \in 1 .. Len(s) /\ Was(n) \in 1 .. Len(s)
    BY <1>1, <1>4, <1>8
  <2>2. Was(m) = Was(n)
    BY <2>1 DEF Mirrors
  <2>. QED
    BY <1>5, <2>2
<1>9. D \ {s[i]} = {t[m] : m \in 1 .. Len(t)}
  <2>1. ASSUME NEW x \in D \ {s[i]} PROVE \E m \in 1 .. Len(t) : t[m] = x
    <3>1. PICK j \in 1 .. Len(s) : s[j] = x
      BY DEF Mirrors
    <3>2. PICK m \in 1 .. Len(t) : Was(m) = j
      BY <1>6, <2>1, <3>1
    <3>. QED
      BY <1>1, <3>1, <3>2
  <2>2. ASSUME NEW m \in 1 .. Len(t) PROVE t[m] \in D \ {s[i]}
    <3>1. Was(m) \in 1 .. Len(s) /\ Was(m) # i /\ t[m] = s[Was(m)]
      BY <1>1, <1>4
    <3>2. s[Was(m)] \in D
      BY <3>1 DEF Mirrors
    <3>3. s[Was(m)] # s[i]
      BY <3>1 DEF Mirrors
    <3>. QED
      BY <3>1, <3>2, <3>3
  <2>. QED
    BY <2>1, <2>2
<1>. QED
  BY <1>2, <1>7, <1>8, <1>9 DEF Mirrors, t, rest

LEMMA MirrorPushed ==
  ASSUME NEW list \in Seq(ListNodes), NEW s \in Seq(Keys), NEW D, Mirrors(list, s, D),
         NEW x \in ListNodes, x.key \notin D, x.key \in Keys
  PROVE  Mirrors(<<x>> \o list, <<x.key>> \o s, D \cup {x.key})
<1>. DEFINE t == <<x.key>> \o s
            all == <<x>> \o list
            m == Len(s)
<1>1. m \in Nat /\ Len(list) = m
  BY LenProperties DEF Mirrors
<1>2. /\ Len(t) = m + 1 /\ t[1] = x.key /\ \A i \in 2 .. m + 1 : t[i] = s[i - 1]
  <2>1. <<x.key>> \in Seq(Keys) /\ Len(<<x.key>>) = 1 /\ <<x.key>>[1] = x.key
    OBVIOUS
  <2>2. /\ Len(t) = 1 + m
        /\ \A i \in 1 .. 1 + m : t[i] = IF i <= 1 THEN <<x.key>>[i] ELSE s[i - 1]
    BY <2>1, ConcatProperties
  <2>. HIDE DEF t
  <2>. QED
    BY <1>1, <2>1, <2>2
<1>3. /\ Len(all) = m + 1 /\ all[1] = x /\ \A i \in 2 .. m + 1 : all[i] = list[i - 1]
  <2>1. <<x>> \in Seq(ListNodes) /\ Len(<<x>>) = 1 /\ <<x>>[1] = x
    OBVIOUS
  <2>2. /\ Len(all) = 1 + Len(list)
        /\ \A i \in 1 .. 1 + Len(list) : all[i] = IF i <= 1 THEN <<x>>[i] ELSE list[i - 1]
    BY <2>1, ConcatProperties
  <2>. HIDE DEF all
  <2>. QED
    BY <1>1, <2>1, <2>2
<1>. HIDE DEF t, all, m
<1>4. \A i \in 1 .. m + 1 : i = 1 \/ (i \in 2 .. m + 1 /\ i - 1 \in 1 .. m)
  BY <1>1
<1>5. \A i \in 1 .. m : s[i] = list[i].key /\ s[i] \in D
  BY DEF Mirrors, m
<1>6. \A i \in 1 .. m + 1 : t[i] = all[i].key
  BY <1>2, <1>3, <1>4, <1>5
<1>7. ASSUME NEW i \in 1 .. m + 1, NEW j \in 1 .. m + 1, t[i] = t[j]
      PROVE  i = j
  <2>1. CASE i = 1 \/ j = 1
    BY <1>2, <1>4, <1>5, <1>7, <2>1
  <2>2. CASE i # 1 /\ j # 1
    <3>1. s[i - 1] = s[j - 1] /\ i - 1 \in 1 .. m /\ j - 1 \in 1 .. m
      BY <1>2, <1>4, <1>7, <2>2
    <3>2. i - 1 = j - 1
      BY <3>1 DEF Mirrors, m
    <3>. QED
      BY <1>1, <3>2
  <2>. QED
    BY <2>1, <2>2
<1>8. D \cup {x.key} = {t[i] : i \in 1 .. m + 1}
  <2>1. ASSUME NEW y \in D PROVE \E i \in 1 .. m + 1 : t[i] = y
    <3>1. PICK j \in 1 .. m : s[j] = y
      BY DEF Mirrors, m
    <3>2. j + 1 \in 2 .. m + 1 /\ j + 1 - 1 = j /\ j + 1 \in 1 .. m + 1
      BY <1>1, <3>1
    <3>3. t[j + 1] = y
      BY <1>2, <3>1, <3>2
    <3>. QED
      BY <3>2, <3>3
  <2>2. 1 \in 1 .. m + 1 /\ t[1] = x.key
    BY <1>1, <1>2
  <2>3. ASSUME NEW i \in 1 .. m + 1 PROVE t[i] \in D \cup {x.key}
    BY <1>2, <1>4, <1>5
  <2>. QED
    BY <2>1, <2>2, <2>3
<1>. QED
  BY <1>2, <1>3, <1>6, <1>7, <1>8 DEF Mirrors, t, all

\* The last node goes if the list is full, and with it its key.
LEMMA FullOrNot ==
  ASSUME NEW list \in Seq(ListNodes), Len(list) <= MaxSize
  PROVE  /\ Len(list) < MaxSize => Front(list) = list /\ KeysOf(Back(list)) = {}
         /\ Len(list) = MaxSize => /\ Front(list) = Lists!RemoveAt(list, Len(list))
                                   /\ KeysOf(Back(list)) = {list[Len(list)].key}
<1>. DEFINE m == Len(list)
<1>1. m \in Nat /\ m <= MaxSize /\ MaxSize \in Nat /\ MaxSize > 0
  BY LenProperties, MaxSizeAssumption
<1>2. \A i \in 1 .. m : list[i] \in ListNodes
  BY ElementOfSeq
<1>3. CASE m < MaxSize
  <2>. DEFINE front == SubSeq(list, 1, m)
              back == SubSeq(list, m + 1, m)
  <2>1. Front(list) = front
    BY <1>1, <1>3 DEF Front
  <2>2. /\ front \in Seq(ListNodes)
        /\ Len(front) = IF 1 <= m THEN m - 1 + 1 ELSE 0
        /\ \A i \in 1 .. m - 1 + 1 : front[i] = list[1 + i - 1]
    BY <1>1, <1>2, SubSeqProperties
  <2>. HIDE DEF front
  <2>3. front = list
    <3>1. Len(front) = m /\ \A i \in 1 .. m : i \in 1 .. m - 1 + 1 /\ 1 + i - 1 = i
      BY <1>1, <2>2
    <3>2. \A i \in 1 .. m : front[i] = list[i]
      BY <2>2, <3>1
    <3>. QED
      BY <2>2, <3>1, <3>2, SeqEqual
  <2>4. Back(list) = back
    BY <2>1, <2>3 DEF Back
  <2>5. /\ back \in Seq(ListNodes) /\ Len(back) = 0
    <3>1. ~(m + 1 <= m) /\ \A i \in m + 1 .. m : list[i] \in ListNodes
      BY <1>1
    <3>. QED
      BY <1>1, <3>1, SubSeqProperties
  <2>. HIDE DEF back
  <2>6. DOMAIN back = {}
    BY <2>5, LenProperties
  <2>. QED
    BY <1>3, <2>1, <2>3, <2>4, <2>6 DEF KeysOf
<1>4. CASE m = MaxSize
  <2>. DEFINE front == SubSeq(list, 1, m - 1)
              back == SubSeq(list, m, m)
              rest == Lists!RemoveAt(list, m)
  <2>1. Front(list) = front
    BY <1>1, <1>4 DEF Front
  <2>2. /\ front \in Seq(ListNodes)
        /\ Len(front) = IF 1 <= m - 1 THEN m - 1 - 1 + 1 ELSE 0
        /\ \A i \in 1 .. m - 1 - 1 + 1 : front[i] = list[1 + i - 1]
    BY <1>1, <1>2, SubSeqProperties
  <2>3. /\ rest \in Seq(ListNodes) /\ Len(rest) = m - 1
        /\ \A i \in 1 .. m - 1 : rest[i] = IF i < m THEN list[i] ELSE list[i + 1]
    <3>1. m \in 1 .. Len(list)
      BY <1>1, <1>4
    <3>. QED
      BY <3>1, Removing
  <2>. HIDE DEF front, rest
  <2>4. Len(front) = m - 1
    BY <1>1, <1>4, <2>2
  <2>5. front = rest
    <3>1. \A i \in 1 .. m - 1 : i \in 1 .. m - 1 - 1 + 1 /\ 1 + i - 1 = i /\ i < m
      BY <1>1
    <3>2. \A i \in 1 .. m - 1 : front[i] = rest[i]
      BY <2>2, <2>3, <3>1
    <3>. QED
      BY <2>2, <2>3, <2>4, <3>2, SeqEqual
  <2>6. Back(list) = back
    <3>1. m - 1 + 1 = m
      BY <1>1
    <3>. QED
      BY <2>1, <2>4, <3>1 DEF Back
  <2>7. /\ back \in Seq(ListNodes) /\ Len(back) = 1 /\ back[1] = list[m]
    <3>1. m \in 1 .. m /\ m <= m /\ m - m + 1 = 1 /\ m + 1 - 1 = m /\ m \in Int
          /\ \A i \in m .. m : list[i] \in ListNodes
      BY <1>1, <1>2, <1>4
    <3>2. /\ back \in Seq(ListNodes) /\ Len(back) = m - m + 1
          /\ \A i \in 1 .. m - m + 1 : back[i] = list[m + i - 1]
      BY <3>1, SubSeqProperties
    <3>3. 1 \in 1 .. m - m + 1
      BY <3>1
    <3>. HIDE DEF back
    <3>. QED
      BY <3>1, <3>2, <3>3
  <2>. HIDE DEF back
  <2>8. DOMAIN back = {1}
    BY <2>7, LenProperties
  <2>. QED
    BY <1>4, <2>1, <2>5, <2>6, <2>7, <2>8 DEF KeysOf, rest
<1>. QED
  BY <1>1, <1>3, <1>4

\* Using a key that is held: it is taken out of the list and of the order alike.
LEMMA TakenInOrder ==
  ASSUME IInv, Mirrors(lru, used, DOMAIN store), NEW k \in Keys, Holds(k)
  PROVE  Mirrors(Erased(lru, store[k].node), Without(used, k), DOMAIN store \ {k})
<1>1. PICK i \in 1 .. Len(lru) : lru[i] = [node |-> store[k].node, key |-> k]
  BY Facts DEF Holds
<1>2. lru[i].node = store[k].node /\ lru[i].key = k
  BY <1>1
<1>3. Place(lru, lru[i].node) = i
  BY Facts, PlaceIs
<1>4. Erased(lru, store[k].node) = Lists!RemoveAt(lru, i)
  BY <1>2, <1>3 DEF Erased
<1>5. i \in 1 .. Len(used) /\ used[i] = k /\ used \in Seq(Keys) /\ lru \in Seq(ListNodes)
  BY <1>2, Facts DEF Mirrors
<1>6. Without(used, used[i]) = Lists!RemoveAt(used, i)
  BY <1>5, WithoutOnly DEF Mirrors
<1>7. Mirrors(Lists!RemoveAt(lru, i), Lists!RemoveAt(used, i), DOMAIN store \ {used[i]})
  BY <1>5, MirrorTaken
<1>. QED
  BY <1>4, <1>5, <1>6, <1>7

\* Making room: the node that goes is that of the key used longest ago.
LEMMA RoomInOrder ==
  ASSUME IInv, Mirrors(lru, used, DOMAIN store), NEW k \in Keys, NEW e \in Elements,
         ~Holds(k), Insert(k, e)
  PROVE  \E base \in Seq(Keys) :
           /\ used' = <<k>> \o base
           /\ Mirrors(Front(lru), base, DOMAIN store \ KeysOf(Back(lru)))
           /\ \A i \in 1 .. Len(base) : base[i] = used[i]
           /\ Len(base) = IF Len(used) < MaxSize THEN Len(used) ELSE MaxSize - 1
<1>1. /\ lru \in Seq(ListNodes) /\ Len(lru) \in Nat /\ Len(lru) <= MaxSize /\ used \in Seq(Keys)
      /\ Len(used) = Len(lru)
  BY Facts DEF Mirrors
<1>2. DOMAIN store' = (DOMAIN store \ KeysOf(Back(lru))) \cup {k}
  BY Inserting
<1>3. Without(used, k) = used
  <2>1. ~ \E i \in 1 .. Len(used) : used[i] = k
    BY DEF Mirrors, Holds
  <2>. QED
    BY <2>1, WithoutNone
<1>4. used' = <<k>> \o IF DOMAIN store \subseteq DOMAIN store' THEN used
                       ELSE Without(used, CHOOSE x \in DOMAIN store \ DOMAIN store' : TRUE)
  BY <1>3 DEF Insert, Using
<1>5. CASE Len(lru) < MaxSize
  <2>1. Front(lru) = lru /\ KeysOf(Back(lru)) = {}
    BY <1>1, <1>5, FullOrNot
  <2>2. DOMAIN store \subseteq DOMAIN store'
    BY <1>2, <2>1
  <2>3. used' = <<k>> \o used
    BY <1>4, <2>2
  <2>4. Mirrors(Front(lru), used, DOMAIN store \ KeysOf(Back(lru)))
    BY <2>1
  <2>. QED
    BY <1>1, <1>5, <2>3, <2>4
<1>6. CASE Len(lru) = MaxSize
  <2>. DEFINE n == Len(lru)
              base == Lists!RemoveAt(used, n)
  <2>1. n \in 1 .. Len(used) /\ used[n] = lru[n].key
    BY <1>1, <1>6, MaxSizeAssumption DEF Mirrors
  <2>2. Front(lru) = Lists!RemoveAt(lru, n) /\ KeysOf(Back(lru)) = {used[n]}
    BY <1>1, <1>6, <2>1, FullOrNot
  <2>3. DOMAIN store \ DOMAIN store' = {used[n]}
    <3>1. used[n] \in DOMAIN store /\ used[n] # k
      BY <2>1 DEF Mirrors, Holds
    <3>. QED
      BY <1>2, <2>2, <3>1
  <2>4. used' = <<k>> \o Without(used, used[n])
    <3>1. ~(DOMAIN store \subseteq DOMAIN store')
      BY <2>3
    <3>2. (CHOOSE x \in DOMAIN store \ DOMAIN store' : TRUE) = used[n]
      BY <2>3
    <3>. QED
      BY <1>4, <3>1, <3>2
  <2>5. Without(used, used[n]) = base
    BY <1>1, <2>1, WithoutOnly DEF Mirrors
  <2>6. Mirrors(Lists!RemoveAt(lru, n), base, DOMAIN store \ {used[n]})
    BY <1>1, <2>1, MirrorTaken
  <2>7. /\ base \in Seq(Keys) /\ Len(base) = Len(used) - 1
        /\ \A i \in 1 .. Len(used) - 1 : base[i] = IF i < n THEN used[i] ELSE used[i + 1]
    BY <1>1, <2>1, Removing
  <2>. HIDE DEF base
  <2>8. \A i \in 1 .. Len(base) : base[i] = used[i]
    BY <1>1, <2>7
  <2>9. Len(base) = IF Len(used) < MaxSize THEN Len(used) ELSE MaxSize - 1
    BY <1>1, <1>6, <2>7
  <2>. QED
    BY <2>2, <2>4, <2>5, <2>6, <2>7, <2>8, <2>9
<1>7. Len(lru) < MaxSize \/ Len(lru) = MaxSize
  BY <1>1, MaxSizeAssumption
<1>. QED
  BY <1>5, <1>6, <1>7

Order == ~reinserted => Mirrors(lru, used, DOMAIN store)

LEMMA InsertInOrder ==
  ASSUME IInv, Mirrors(lru, used, DOMAIN store), NEW k \in Keys, NEW e \in Elements,
         ~Holds(k), Insert(k, e)
  PROVE  /\ Mirrors(lru', used', DOMAIN store')
         /\ LET later == <<k>> \o used
            IN used' = SubSeq(later, 1, IF Len(later) > MaxSize THEN MaxSize ELSE Len(later))
<1>1. PICK base \in Seq(Keys) :
        /\ used' = <<k>> \o base
        /\ Mirrors(Front(lru), base, DOMAIN store \ KeysOf(Back(lru)))
        /\ \A i \in 1 .. Len(base) : base[i] = used[i]
        /\ Len(base) = IF Len(used) < MaxSize THEN Len(used) ELSE MaxSize - 1
  BY RoomInOrder
<1>2. used \in Seq(Keys) /\ Len(used) \in Nat /\ Len(base) \in Nat /\ <<k>> \in Seq(Keys)
  BY Facts, LenProperties
<1>. DEFINE node == CHOOSE n \in Nodes : n \notin NodesOf(Front(lru))
            x0 == [node |-> node, key |-> k]
            D == DOMAIN store \ KeysOf(Back(lru))
            later == <<k>> \o used
            m == IF Len(later) > MaxSize THEN MaxSize ELSE Len(later)
            kept == SubSeq(later, 1, m)
<1>3. Mirrors(lru', used', DOMAIN store')
  <2>1. Front(lru) \in Seq(ListNodes) /\ Len(Front(lru)) < MaxSize
    BY Facts, FrontIs
  <2>2. node \in Nodes
    BY <2>1, FreeNode
  <2>3. x0 \in ListNodes /\ x0.key = k
    BY <2>2 DEF ListNodes
  <2>4. k \notin D
    BY DEF Holds
  <2>5. Mirrors(<<x0>> \o Front(lru), <<x0.key>> \o base, D \cup {x0.key})
    BY <1>1, <2>1, <2>3, <2>4, MirrorPushed
  <2>6. lru' = <<x0>> \o Front(lru)
    BY DEF Insert
  <2>7. DOMAIN store' = D \cup {k}
    BY Inserting
  <2>. QED
    BY <1>1, <2>3, <2>5, <2>6, <2>7
<1>4. /\ later \in Seq(Keys) /\ Len(later) = Len(used) + 1
      /\ \A i \in 1 .. Len(used) + 1 : later[i] = IF i <= 1 THEN k ELSE used[i - 1]
  <2>1. <<k>> \in Seq(Keys) /\ Len(<<k>>) = 1 /\ \A i \in 1 .. 1 : <<k>>[i] = k
    OBVIOUS
  <2>2. /\ later \in Seq(Keys) /\ Len(later) = 1 + Len(used)
        /\ \A i \in 1 .. 1 + Len(used) : later[i] = IF i <= 1 THEN <<k>>[i] ELSE used[i - 1]
    BY <1>2, <2>1, ConcatProperties
  <2>. HIDE DEF later
  <2>. QED
    BY <1>2, <2>1, <2>2
<1>5. /\ used' \in Seq(Keys) /\ Len(used') = Len(base) + 1
      /\ \A i \in 1 .. Len(base) + 1 : used'[i] = IF i <= 1 THEN k ELSE base[i - 1]
  <2>1. <<k>> \in Seq(Keys) /\ Len(<<k>>) = 1 /\ \A i \in 1 .. 1 : <<k>>[i] = k
    OBVIOUS
  <2>. DEFINE all == <<k>> \o base
  <2>2. /\ all \in Seq(Keys) /\ Len(all) = 1 + Len(base)
        /\ \A i \in 1 .. 1 + Len(base) : all[i] = IF i <= 1 THEN <<k>>[i] ELSE base[i - 1]
    BY <1>2, <2>1, ConcatProperties
  <2>. HIDE DEF all
  <2>3. used' = all
    BY <1>1 DEF all
  <2>. QED
    BY <1>2, <2>1, <2>2, <2>3
<1>. HIDE DEF later
<1>6. m = Len(base) + 1 /\ m \in Nat /\ m <= Len(later) /\ 1 <= m
  BY <1>1, <1>2, <1>4, MaxSizeAssumption
<1>. HIDE DEF m
<1>7. /\ kept \in Seq(Keys) /\ Len(kept) = m /\ \A i \in 1 .. m : kept[i] = later[i]
  <2>1. \A i \in 1 .. m : later[i] \in Keys
    BY <1>4, <1>6, ElementOfSeq
  <2>2. /\ kept \in Seq(Keys) /\ Len(kept) = IF 1 <= m THEN m - 1 + 1 ELSE 0
        /\ \A i \in 1 .. m - 1 + 1 : kept[i] = later[1 + i - 1]
    BY <1>6, <2>1, SubSeqProperties
  <2>. HIDE DEF kept
  <2>3. m - 1 + 1 = m /\ \A i \in 1 .. m : 1 + i - 1 = i
    BY <1>6
  <2>. QED
    BY <1>6, <2>2, <2>3
<1>. HIDE DEF kept
<1>8. ASSUME NEW i \in 1 .. m PROVE kept[i] = used'[i]
  <2>1. i \in 1 .. Len(base) + 1 /\ i \in 1 .. Len(used) + 1
    BY <1>2, <1>4, <1>6
  <2>2. CASE i = 1
    BY <1>4, <1>5, <1>7, <2>1, <2>2
  <2>3. CASE i # 1
    <3>1. i - 1 \in 1 .. Len(base) /\ ~(i <= 1)
      BY <1>2, <2>1, <2>3
    <3>. QED
      BY <1>1, <1>4, <1>5, <1>7, <2>1, <3>1
  <2>. QED
    BY <2>2, <2>3
<1>9. used' = kept
  BY <1>5, <1>6, <1>7, <1>8, SeqEqual
<1>. QED
  BY <1>3, <1>9 DEF kept, m, later

LEMMA OrderInitially == Init => Order
<1>. SUFFICES ASSUME Init PROVE Mirrors(lru, used, DOMAIN store)
  BY DEF Order
<1>1. lru = << >> /\ used = << >> /\ DOMAIN store = {} /\ Len(lru) = 0 /\ Len(used) = 0
  BY DEF Init
<1>2. 1 .. 0 = {}
  OBVIOUS
<1>. QED
  BY <1>1, <1>2 DEF Mirrors

LEMMA OrderKept == IInv /\ Order /\ [Next]_vars => Order'
<1>. SUFFICES ASSUME IInv, Order, [Next]_vars, ~reinserted' PROVE Mirrors(lru', used', DOMAIN store')
  BY DEF Order
<1>1. CASE UNCHANGED vars
  BY <1>1 DEF vars, Order
<1>2. ASSUME NEW k \in Keys, Get(k), Holds(k) PROVE Mirrors(lru', used', DOMAIN store')
  <2>. DEFINE rest == Erased(lru, store[k].node)
              x0 == lru[Place(lru, store[k].node)]
              others == Without(used, k)
  <2>1. lru' = <<x0>> \o rest /\ store' = store /\ used' = <<k>> \o others /\ ~reinserted
    BY <1>2 DEF Get, Spliced, Using
  <2>2. Mirrors(rest, others, DOMAIN store \ {k})
    BY <1>2, <2>1, TakenInOrder DEF Order
  <2>3. rest \in Seq(ListNodes) /\ x0 = [node |-> store[k].node, key |-> k]
    BY <1>2, Taking
  <2>4. others \in Seq(Keys)
    BY Facts, WithoutIs
  <2>5. x0 \in ListNodes /\ x0.key = k /\ (DOMAIN store \ {k}) \cup {k} = DOMAIN store
    <3>1. k \in DOMAIN store
      BY <1>2 DEF Holds
    <3>2. store[k].node \in Nodes
      BY <3>1, Facts DEF Entries
    <3>. HIDE DEF x0
    <3>3. x0 \in ListNodes /\ x0.key = k
      BY <2>3, <3>2 DEF ListNodes
    <3>. QED
      BY <3>1, <3>3
  <2>. HIDE DEF rest, x0, others
  <2>6. Mirrors(<<x0>> \o rest, <<x0.key>> \o others, (DOMAIN store \ {k}) \cup {x0.key})
    BY <2>2, <2>3, <2>4, <2>5, MirrorPushed
  <2>. QED
    BY <2>1, <2>5, <2>6
<1>3. ASSUME NEW k \in Keys, Remove(k), Holds(k) PROVE Mirrors(lru', used', DOMAIN store')
  <2>1. Mirrors(lru, used, DOMAIN store)
    BY <1>3 DEF Order, Remove
  <2>2. DOMAIN store' = DOMAIN store \ {k}
    BY <1>3 DEF Remove, MapErase
  <2>. QED
    BY <1>3, <2>1, <2>2, TakenInOrder DEF Remove
<1>4. ASSUME NEW k \in Keys, NEW e \in Elements, Insert(k, e)
      PROVE  Mirrors(lru', used', DOMAIN store')
  <2>1. ~reinserted /\ ~Holds(k)
    BY <1>4 DEF Insert
  <2>. QED
    BY <1>4, <2>1, InsertInOrder DEF Order
<1>5. ASSUME NEW k \in Keys, ~Holds(k), Get(k) \/ Remove(k) PROVE UNCHANGED vars
  BY <1>5 DEF Get, Remove
<1>. QED
  BY <1>1, <1>2, <1>3, <1>4, <1>5 DEF Next

-----------------------------------------------------------------------------
LEMMA SameRemoval == \A s, x : Recency!RemoveFirst(s, x) = Without(s, x)
BY DEF Recency!RemoveFirst, Recency!RemoveAt, Recency!SelectInSeq, Recency!Min,
       Without, Lists!RemoveFirst, Lists!RemoveAt, Lists!SelectInSeq, Lists!Min

LEMMA InsertIsPut ==
  ASSUME IInv, Mirrors(lru, used, DOMAIN store), NEW k \in Keys, NEW e \in Elements,
         ~Holds(k), Insert(k, e)
  PROVE  Recency!Put(k, e)
<1>. DEFINE later == <<k>> \o used
            kept == SubSeq(later, 1, IF Len(later) > MaxSize THEN MaxSize ELSE Len(later))
<1>1. used' = kept /\ Mirrors(lru', used', DOMAIN store')
  BY InsertInOrder
<1>2. Without(used, k) = used
  <2>1. ~ \E i \in 1 .. Len(used) : used[i] = k
    BY DEF Mirrors, Holds
  <2>. QED
    BY <2>1, WithoutNone
<1>3. Recency!Later(k) = later
  BY <1>2, SameRemoval DEF Recency!Later
<1>4. Recency!ToSet(used') = DOMAIN store'
  <2>1. used' \in Seq(Keys)
    BY UsingTyped DEF Insert
  <2>2. DOMAIN used' = 1 .. Len(used')
    BY <2>1, LenProperties
  <2>. QED
    BY <1>1, <2>2 DEF Recency!ToSet, Mirrors
<1>5. Held' = [x \in DOMAIN store' |-> IF x = k THEN e ELSE Held[x]]
  <2>1. /\ DOMAIN store' = (DOMAIN store \ KeysOf(Back(lru))) \cup {k}
        /\ store'[k].element = e
        /\ \A x \in DOMAIN store' : x # k => store'[x] = store[x]
    BY Inserting
  <2>2. ASSUME NEW x \in DOMAIN store'
        PROVE  store'[x].element = IF x = k THEN e ELSE Held[x]
    BY <2>1 DEF Held
  <2>. QED
    BY <2>2 DEF Held
<1>. HIDE DEF later
<1>. QED
  BY <1>1, <1>3, <1>4, <1>5 DEF Recency!Put, Held, kept

\* As long as callers insert only keys that are not in the cache, it is a
\* least-recently-used cache: what makes room is the key used longest ago.
THEOREM RecencyImplementation == Spec => IsRecencyCache
<1>1. Init => Recency!Init
  BY DEF Init, Recency!Init
<1>. DEFINE Abstract == ~reinserted' => [Recency!Next]_(Recency!vars)
<1>2. IInv /\ Order /\ [Next]_vars => Abstract
  <2>. SUFFICES ASSUME IInv, Order, [Next]_vars, ~reinserted'
                PROVE  Recency!Next \/ (used' = used /\ Held' = Held)
    BY DEF Recency!vars, Held
  <2>1. CASE UNCHANGED vars
    BY <2>1 DEF vars, Held
  <2>2. ASSUME NEW k \in Keys, Get(k), Holds(k) PROVE Recency!Use(k)
    <3>1. used' = <<k>> \o Without(used, k) /\ store' = store /\ k \in DOMAIN Held
      BY <2>2 DEF Get, Using, Holds, Held
    <3>2. Held' = Held
      BY <3>1 DEF Held
    <3>. QED
      BY <3>1, <3>2, SameRemoval DEF Recency!Use, Recency!Later, Held
  <2>3. ASSUME NEW k \in Keys, Remove(k), Holds(k) PROVE Recency!Drop(k)
    <3>1. used' = Without(used, k) /\ k \in DOMAIN Held
      BY <2>3 DEF Remove, Holds, Held
    <3>2. Held' = [x \in DOMAIN Held \ {k} |-> Held[x]]
      <4>1. store' = [x \in DOMAIN store \ {k} |-> store[x]] /\ DOMAIN store' = DOMAIN store \ {k}
        BY <2>3 DEF Remove, MapErase
      <4>. QED
        BY <4>1 DEF Held
    <3>. QED
      BY <3>1, <3>2, SameRemoval DEF Recency!Drop, Held
  <2>4. ASSUME NEW k \in Keys, NEW e \in Elements, Insert(k, e) PROVE Recency!Put(k, e)
    <3>1. ~reinserted /\ ~Holds(k)
      BY <2>4 DEF Insert
    <3>. QED
      BY <2>4, <3>1, InsertIsPut DEF Order
  <2>5. ASSUME NEW k \in Keys, ~Holds(k), Get(k) \/ Remove(k) PROVE UNCHANGED vars
    BY <2>5 DEF Get, Remove
  <2>. QED
    BY <2>1, <2>2, <2>3, <2>4, <2>5 DEF Next, Recency!Next
<1>. HIDE DEF Abstract
<1>3. Spec => [][Abstract]_vars
  BY Invariance, OrderInitially, OrderKept, <1>2, PTL DEF Spec
<1>. QED
  BY <1>1, <1>3, PTL DEF Spec, IsRecencyCache, Abstract
=============================================================================
