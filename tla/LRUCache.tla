------------------------------ MODULE LRUCache ------------------------------
(***************************************************************************)
(* LRUCache over an UnorderedMapCache.  The decorator keeps a std::list of *)
(* keys, the most recently used in front, and stores with each element the *)
(* list iterator of its key.  Every operation runs under one exclusive     *)
(* lock, so it is one step.                                                *)
(*                                                                         *)
(* An iterator is modelled by the identity of the list node it points to.  *)
(***************************************************************************)
EXTENDS Naturals, Sequences, FiniteSets

Lists == INSTANCE SequencesExt

CONSTANTS Keys,
          Elements,     \* what callers cache: data, status and insertion time
          MaxSize       \* _maxSize

ASSUME MaxSizeAssumption == MaxSize \in Nat \ {0}

VARIABLES lru,        \* _lru: the nodes, front first, each with its key
          store,      \* _realCache->_data: key -> node and element of the key
          used,       \* the keys of store, last used first (history)
          reinserted  \* has a key been inserted that was in the cache? (history)

vars == <<lru, store, used, reinserted>>

-----------------------------------------------------------------------------
Nodes == 1 .. MaxSize
Entries == [node : Nodes, element : Elements]

\* Mutants: slips the properties must catch.
MapInsertOnce(data, k, entry) ==
  [x \in DOMAIN data \cup {k} |-> IF x \in DOMAIN data THEN data[x] ELSE entry]
SplicedNowhere(list, n) == list
ErasedNothing(list, n) == list
BackForgotten(list) == << >>

\* UnorderedMapCache::Insert and Remove, as functions on its _data
MapInsert(data, k, entry) ==
  [x \in DOMAIN data \cup {k} |-> IF x = k THEN entry ELSE data[x]]
MapErase(data, ks) == [x \in DOMAIN data \ ks |-> data[x]]

\* UnorderedMapCache::Get finds the key.
Holds(k) == k \in DOMAIN store

NodesOf(list) == {list[i].node : i \in DOMAIN list}
KeysOf(list) == {list[i].key : i \in DOMAIN list}

\* Where an iterator points to; std::list::erase, and splice to the front
Place(list, n) == Lists!SelectInSeq(list, LAMBDA x : x.node = n)
Erased(list, n) == Lists!RemoveAt(list, Place(list, n))
Spliced(list, n) == <<list[Place(list, n)]>> \o Erased(list, n)

\* The nodes that pop_back leaves, one place below MaxSize, and the others
Front(list) == SubSeq(list, 1, IF Len(list) >= MaxSize THEN MaxSize - 1 ELSE Len(list))
Back(list) == SubSeq(list, Len(Front(list)) + 1, Len(list))

\* History: k is used, and the key that makes room for it, if one does, leaves.
Without(s, x) == Lists!RemoveFirst(s, x)
Using(k) == LET others == Without(used, k)
            IN used' = <<k>> \o IF DOMAIN store \subseteq DOMAIN store' THEN others
                                ELSE Without(others, CHOOSE x \in DOMAIN store \ DOMAIN store' : TRUE)

-----------------------------------------------------------------------------
Init == lru = << >> /\ store = [k \in {} |-> 0] /\ used = << >> /\ reinserted = FALSE

\* Mutant: no room is made.
InsertWithoutLimit(k, e) ==
  /\ lru' = <<[node |-> Len(lru) + 1, key |-> k]>> \o lru
  /\ store' = MapInsert(store, k, [node |-> Len(lru) + 1, element |-> e])
  /\ Using(k)
  /\ reinserted' = (reinserted \/ Holds(k))

Insert(k, e) ==
  LET node == CHOOSE n \in Nodes : n \notin NodesOf(Front(lru))
  IN /\ lru' = <<[node |-> node, key |-> k]>> \o Front(lru)
     /\ store' = MapInsert(MapErase(store, KeysOf(Back(lru))),
                           k, [node |-> node, element |-> e])
     /\ Using(k)
     /\ reinserted' = (reinserted \/ Holds(k))

\* Get of a key that is found moves its node; otherwise nothing changes.
Get(k) == IF Holds(k)
          THEN /\ lru' = Spliced(lru, store[k].node)
               /\ UNCHANGED <<store, reinserted>>
               /\ Using(k)
          ELSE UNCHANGED vars

Remove(k) == IF Holds(k)
             THEN /\ lru' = Erased(lru, store[k].node)
                  /\ store' = MapErase(store, {k})
                  /\ used' = Without(used, k)
                  /\ UNCHANGED reinserted
             ELSE UNCHANGED vars

Next == \E k \in Keys :
          \/ Get(k)
          \/ Remove(k)
          \/ \E e \in Elements : Insert(k, e)

Spec == Init /\ [][Next]_vars

-----------------------------------------------------------------------------
TypeOK == /\ lru \in Seq([node : Nodes, key : Keys])
          /\ DOMAIN store \subseteq Keys
          /\ \A k \in DOMAIN store : store[k] \in Entries
          /\ used \in Seq(Keys) /\ reinserted \in BOOLEAN

\* No stored iterator dangles: it points to a node of the list that carries
\* the key it is stored for, and no two nodes are the same.
IteratorsAreValid ==
  /\ \A i, j \in DOMAIN lru : lru[i].node = lru[j].node => i = j
  /\ \A k \in DOMAIN store :
       \E i \in DOMAIN lru : lru[i] = [node |-> store[k].node, key |-> k]

\* Whatever callers do, the cache returns what was inserted last for a key
\* or nothing, and keeps at most MaxSize entries; what is inserted is in it.
Lossy == INSTANCE LossyCache WITH
  Capacity <- MaxSize,
  held <- [k \in DOMAIN store |-> store[k].element]
ImplementsLossyCache ==
  /\ Lossy!Spec
  /\ [][\A k \in Keys, e \in Elements : Insert(k, e) => Lossy!Put(k, e)]_vars

\* As long as callers insert only keys that are not in the cache, it is a
\* least-recently-used cache: only the key whose last use is the oldest makes
\* room for a new one.
Recency == INSTANCE RecencyCache WITH
  Capacity <- MaxSize,
  order <- used,
  held <- [k \in DOMAIN store |-> store[k].element]
IsRecencyCache ==
  Recency!Init /\ [][~reinserted' => [Recency!Next]_(Recency!vars)]_vars
=============================================================================
