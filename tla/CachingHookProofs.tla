-------------------------- MODULE CachingHookProofs --------------------------
(***************************************************************************)
(* Proofs about module CachingHook, for any number of threads and keys.    *)
(*                                                                         *)
(* The operations of the hook on the cache are steps of LRUCache, so its   *)
(* inductive invariant is kept, and so it is when the elements grow older. *)
(* For that, a thread that inserts must have fetched an element.           *)
(* What a thread missed stays missing until another thread inserts it;     *)
(* that is what FetchedIsMissing says of every step between the lookup and *)
(* the insertion.                                                          *)
(***************************************************************************)
EXTENDS CachingHook, TLAPS

CacheProofs == INSTANCE LRUCacheProofs WITH Elements <- CacheElements

Fetching == {"func", "fetched", "stamped"}

\* The variables of the hook, without those of the cache
HookTypeOK == /\ version \in [Keys -> Versions]
              /\ pc \in [Threads -> {"idle", "lookup", "found", "expired"} \cup Fetching]
              /\ key \in [Threads -> Keys]
              /\ element \in [Threads -> CacheElements \cup {Some}]
              /\ \A t \in Threads :
                   pc[t] \in {"found", "expired", "fetched", "stamped"} => element[t] \in CacheElements
              /\ raced \in [Threads -> BOOLEAN]

FetchedIsMissing ==
  \A t \in Threads : pc[t] \in Fetching /\ ~raced[t] => ~Cache!Holds(key[t])

IInv == CacheProofs!IInv /\ HookTypeOK /\ FetchedIsMissing

\* What the operations of the cache do to its keys.
LEMMA KeysAfter ==
  ASSUME NEW k
  PROVE  /\ Cache!Get(k) => DOMAIN store' = DOMAIN store
         /\ Cache!Remove(k) => DOMAIN store' = DOMAIN store \ {k}
         /\ \A e : Cache!Insert(k, e) => DOMAIN store' \subseteq DOMAIN store \cup {k}
<1>1. ASSUME Cache!Get(k)  PROVE DOMAIN store' = DOMAIN store
  BY <1>1 DEF Cache!Get, Cache!vars
<1>2. ASSUME Cache!Remove(k)  PROVE DOMAIN store' = DOMAIN store \ {k}
  BY <1>2 DEF Cache!Remove, Cache!Holds, Cache!MapErase, Cache!vars
<1>3. ASSUME NEW e, Cache!Insert(k, e)  PROVE DOMAIN store' \subseteq DOMAIN store \cup {k}
  BY <1>3 DEF Cache!Insert, Cache!MapInsert, Cache!MapErase
<1> QED  BY <1>1, <1>2, <1>3

\* Each use of the cache keeps its iterators valid.
LEMMA CacheKept ==
  ASSUME CacheProofs!IInv, NEW k \in Keys,
         \/ Cache!Get(k) \/ Cache!Remove(k)
         \/ \E e \in CacheElements : Cache!Insert(k, e)
         \/ UNCHANGED cacheVars
  PROVE  CacheProofs!IInv'
<1>1. \A S : Cache!Lists!Min(S) = CacheProofs!Lists!Min(S)
  BY DEF Cache!Lists!Min, CacheProofs!Lists!Min
<1>2. \A list, n : Cache!Place(list, n) = CacheProofs!Place(list, n)
  BY <1>1 DEF Cache!Place, CacheProofs!Place, Cache!Lists!SelectInSeq, CacheProofs!Lists!SelectInSeq
<1>3. \A list, n : /\ Cache!Erased(list, n) = CacheProofs!Erased(list, n)
                   /\ Cache!Spliced(list, n) = CacheProofs!Spliced(list, n)
  BY <1>2 DEF Cache!Erased, CacheProofs!Erased, Cache!Spliced, CacheProofs!Spliced,
              Cache!Lists!RemoveAt, CacheProofs!Lists!RemoveAt
<1>4. \A s, x : Cache!Without(s, x) = CacheProofs!Without(s, x)
  BY <1>1 DEF Cache!Without, CacheProofs!Without, Cache!Lists!RemoveFirst, CacheProofs!Lists!RemoveFirst,
              Cache!Lists!RemoveAt, CacheProofs!Lists!RemoveAt,
              Cache!Lists!SelectInSeq, CacheProofs!Lists!SelectInSeq
<1>5. Cache!Using(k) => CacheProofs!Using(k)
  BY <1>4 DEF Cache!Using, CacheProofs!Using
<1>6. Cache!Get(k) => CacheProofs!Get(k)
  BY <1>3, <1>5 DEF Cache!Get, CacheProofs!Get, Cache!Holds, CacheProofs!Holds, Cache!vars, CacheProofs!vars
<1>7. Cache!Remove(k) => CacheProofs!Remove(k)
  BY <1>3, <1>4 DEF Cache!Remove, CacheProofs!Remove, Cache!Holds, CacheProofs!Holds,
                    Cache!MapErase, CacheProofs!MapErase, Cache!vars, CacheProofs!vars
<1>8. ASSUME NEW e  PROVE Cache!Insert(k, e) => CacheProofs!Insert(k, e)
  BY <1>5 DEF Cache!Insert, CacheProofs!Insert, Cache!Holds, CacheProofs!Holds,
              Cache!MapErase, CacheProofs!MapErase, Cache!MapInsert, CacheProofs!MapInsert,
              Cache!Front, CacheProofs!Front, Cache!Back, CacheProofs!Back,
              Cache!NodesOf, CacheProofs!NodesOf, Cache!KeysOf, CacheProofs!KeysOf,
              Cache!Nodes, CacheProofs!Nodes
<1>9. [CacheProofs!Next]_(CacheProofs!vars)
  BY <1>6, <1>7, <1>8 DEF CacheProofs!Next, CacheProofs!vars, cacheVars
<1> QED  BY <1>9, CacheProofs!Stepping, MaxSizeAssumption

\* Elements that grow older stay elements.
LEMMA OlderTyped ==
  ASSUME NEW e \in CacheElements
  PROVE  Older(e) \in CacheElements
BY BoundsAssumption DEF Older, CacheElements, Ages

LEMMA Initially == Init => IInv
<1> SUFFICES ASSUME Init  PROVE IInv
  OBVIOUS
<1>1. CacheProofs!IInv
  BY CacheProofs!Initially, MaxSizeAssumption DEF Init, Cache!Init, CacheProofs!Init
<1>3. HookTypeOK
  BY BoundsAssumption DEF Init, HookTypeOK, Versions
<1>4. FetchedIsMissing
  BY DEF Init, FetchedIsMissing, Fetching
<1> QED  BY <1>1, <1>3, <1>4 DEF IInv

\* A step of one thread outside of the cache.
LEMMA OtherwiseMissing ==
  ASSUME IInv, NEW t \in Threads, UNCHANGED <<store, key, raced>>,
         \A u \in Threads \ {t} : pc'[u] = pc[u],
         pc'[t] \in Fetching /\ ~raced[t] => pc[t] \in Fetching \/ ~Cache!Holds(key[t])
  PROVE  FetchedIsMissing'
BY DEF IInv, FetchedIsMissing, Cache!Holds

LEMMA Inductive == IInv /\ [Next]_vars => IInv'
<1> SUFFICES ASSUME IInv, [Next]_vars  PROVE IInv'
  OBVIOUS
<1>0. CacheProofs!IInv /\ HookTypeOK /\ FetchedIsMissing
  BY DEF IInv
<1>1. ASSUME NEW t \in Threads, NEW k \in Keys, Begin(t, k)  PROVE IInv'
  <2>1. CacheProofs!IInv'
    BY <1>0, <1>1, CacheKept DEF Begin
  <2>2. HookTypeOK'
    BY <1>0, <1>1 DEF HookTypeOK, Begin, At
  <2>3. FetchedIsMissing'
    BY <1>0, <1>1 DEF HookTypeOK, FetchedIsMissing, Fetching, Begin, At, cacheVars, Cache!Holds
  <2> QED  BY <2>1, <2>2, <2>3 DEF IInv
<1>2. ASSUME NEW t \in Threads, Find(t)  PROVE IInv'
  <2>1. key[t] \in Keys /\ Cache!Get(key[t])
    BY <1>0, <1>2 DEF HookTypeOK, Find
  <2>2. CacheProofs!IInv' /\ DOMAIN store' = DOMAIN store
    BY <1>0, <2>1, CacheKept, KeysAfter
  <2>3. store[key[t]].element \in CacheElements
    BY <1>0, <1>2 DEF Find, Cache!Holds, CacheProofs!IInv, CacheProofs!TypeOK, CacheProofs!Entries
  <2>4. HookTypeOK'
    BY <1>0, <1>2, <2>3 DEF HookTypeOK, Find, At
  <2>5. FetchedIsMissing'
    BY <1>0, <1>2, <2>2 DEF HookTypeOK, FetchedIsMissing, Fetching, Find, At, Cache!Holds
  <2> QED  BY <2>2, <2>4, <2>5 DEF IInv
<1>3. ASSUME NEW t \in Threads, \/ Miss(t) \/ Hit(t) \/ Expire(t) \/ Stamp(t)
                                \/ \E s \in Statuses : FetchToCache(t, s) \/ FetchOnly(t, s)
      PROVE  IInv'
  <2>1. UNCHANGED <<cacheVars, version, key, raced>>
    BY <1>3 DEF Miss, Hit, Expire, Stamp, FetchToCache, FetchOnly
  <2>2. CacheProofs!IInv'
    BY <1>0, <2>1, <1>3, CacheKept DEF HookTypeOK
  <2>3. /\ element' \in [Threads -> CacheElements \cup {Some}]
        /\ \A u \in Threads \ {t} : element'[u] = element[u]
        /\ pc'[t] \in {"found", "expired", "fetched", "stamped"} => element'[t] \in CacheElements
    <3> DEFINE Typed == /\ element' \in [Threads -> CacheElements \cup {Some}]
                        /\ \A u \in Threads \ {t} : element'[u] = element[u]
                        /\ pc'[t] \in {"found", "expired", "fetched", "stamped"} => element'[t] \in CacheElements
    <3>1. ASSUME Stamp(t)  PROVE Typed
      <4>1. element[t] \in CacheElements /\ element' = [element EXCEPT ![t] = [element[t] EXCEPT !.age = 0]]
        BY <1>0, <3>1 DEF HookTypeOK, Stamp, At
      <4>2. [element[t] EXCEPT !.age = 0] \in CacheElements
        BY <4>1, BoundsAssumption DEF CacheElements, Ages
      <4> QED  BY <1>0, <4>1, <4>2 DEF HookTypeOK
    <3>2. ASSUME NEW s \in Statuses, FetchToCache(t, s)  PROVE Typed
      <4>1. [version |-> version[key[t]], status |-> s, age |-> MaxAge + 1] \in CacheElements
        BY <1>0, <3>2, BoundsAssumption DEF HookTypeOK, FetchToCache, CacheElements, Ages
      <4> QED  BY <1>0, <3>2, <4>1 DEF HookTypeOK, FetchToCache
    <3>3. ASSUME Miss(t) \/ Hit(t) \/ Expire(t) \/ \E s \in Statuses : FetchOnly(t, s)  PROVE Typed
      BY <1>0, <3>3 DEF HookTypeOK, Miss, Hit, Expire, FetchOnly, At
    <3> QED  BY <1>3, <3>1, <3>2, <3>3
  <2>4. /\ pc' \in [Threads -> {"idle", "lookup", "found", "expired"} \cup Fetching]
        /\ \A u \in Threads \ {t} : pc'[u] = pc[u]
        /\ pc'[t] \in Fetching => pc[t] \in Fetching \/ ~Cache!Holds(key[t])
    BY <1>0, <1>3 DEF HookTypeOK, Fetching, Miss, Hit, Expire, Stamp, FetchToCache, FetchOnly, At
  <2>5. HookTypeOK'
    BY <1>0, <2>1, <2>3, <2>4 DEF HookTypeOK
  <2>6. FetchedIsMissing'
    BY <2>1, <2>4, OtherwiseMissing DEF cacheVars
  <2> QED  BY <2>2, <2>5, <2>6 DEF IInv
<1>4. ASSUME NEW t \in Threads, RemoveExpired(t)  PROVE IInv'
  <2>1. key[t] \in Keys /\ Cache!Remove(key[t])
    BY <1>0, <1>4 DEF HookTypeOK, RemoveExpired
  <2>2. CacheProofs!IInv' /\ DOMAIN store' = DOMAIN store \ {key[t]}
    BY <1>0, <2>1, CacheKept, KeysAfter
  <2>3. HookTypeOK'
    BY <1>0, <1>4 DEF HookTypeOK, Fetching, RemoveExpired, At
  <2>4. FetchedIsMissing'
    BY <1>0, <1>4, <2>2 DEF HookTypeOK, FetchedIsMissing, RemoveExpired, At, Cache!Holds
  <2> QED  BY <2>2, <2>3, <2>4 DEF IInv
<1>5. ASSUME NEW t \in Threads, Insert(t)  PROVE IInv'
  <2>1. key[t] \in Keys /\ element[t] \in CacheElements /\ Cache!Insert(key[t], element[t])
    BY <1>0, <1>5 DEF HookTypeOK, Insert, At
  <2>2. CacheProofs!IInv' /\ DOMAIN store' \subseteq DOMAIN store \cup {key[t]}
    BY <1>0, <2>1, CacheKept, KeysAfter
  <2>3. HookTypeOK'
    BY <1>0, <1>5 DEF HookTypeOK, Insert, Racing, At
  <2>4. ASSUME NEW u \in Threads, pc'[u] \in Fetching, ~raced'[u]
        PROVE  ~Cache!Holds(key[u])'
    <3>1. u # t /\ pc[u] \in Fetching
      BY <1>0, <1>5, <2>4 DEF HookTypeOK, Fetching, Insert, At
    <3>2. ~raced[u] /\ key[u] # key[t]
      BY <1>5, <2>4, <3>1 DEF Insert, Racing, Fetching
    <3>3. key[u] \notin DOMAIN store
      BY <1>0, <3>1, <3>2 DEF FetchedIsMissing, Cache!Holds
    <3> QED  BY <1>5, <2>2, <3>2, <3>3 DEF Insert, Cache!Holds
  <2> QED  BY <2>2, <2>3, <2>4 DEF IInv, FetchedIsMissing
<1>6. ASSUME NEW k \in Keys, Update(k)  PROVE IInv'
  <2>1. CacheProofs!IInv'
    BY <1>0, <1>6, CacheKept DEF Update
  <2>2. HookTypeOK'
    BY <1>0, <1>6, BoundsAssumption DEF HookTypeOK, Update, Versions
  <2>3. FetchedIsMissing'
    BY <1>0, <1>6 DEF FetchedIsMissing, Update, cacheVars, Cache!Holds
  <2> QED  BY <2>1, <2>2, <2>3 DEF IInv
<1>7. CASE Tick
  <2>1. DOMAIN store' = DOMAIN store
    BY <1>7 DEF Tick
  <2>2. ASSUME NEW k \in DOMAIN store
        PROVE  store'[k] \in CacheProofs!Entries /\ store'[k].node = store[k].node
    <3>1. store[k] \in CacheProofs!Entries
      BY <1>0, <2>2 DEF CacheProofs!IInv, CacheProofs!TypeOK
    <3>2. store'[k] = [store[k] EXCEPT !.element = Older(store[k].element)]
      BY <1>7 DEF Tick
    <3>3. Older(store[k].element) \in CacheElements
      BY <3>1, OlderTyped DEF CacheProofs!Entries
    <3> QED  BY <3>1, <3>2, <3>3 DEF CacheProofs!Entries
  <2>3. CacheProofs!IInv'
    <3>1. UNCHANGED lru /\ UNCHANGED used /\ UNCHANGED reinserted
      BY <1>7 DEF Tick
    <3>2. CacheProofs!TypeOK' /\ Len(lru') <= MaxSize
      BY <1>0, <2>1, <2>2, <3>1 DEF CacheProofs!IInv, CacheProofs!TypeOK
    <3>3. CacheProofs!IteratorsAreValid'
      BY <1>0, <2>1, <2>2, <3>1 DEF CacheProofs!IInv, CacheProofs!IteratorsAreValid
    <3> QED  BY <3>1, <3>2, <3>3 DEF CacheProofs!IInv
  <2>4. /\ element' \in [Threads -> CacheElements \cup {Some}]
        /\ \A t \in Threads : element[t] \in CacheElements => element'[t] \in CacheElements
    <3> SUFFICES ASSUME NEW t \in Threads
                 PROVE  /\ element'[t] \in CacheElements \cup {Some}
                        /\ element[t] \in CacheElements => element'[t] \in CacheElements
      BY <1>7 DEF Tick
    <3>1. CASE pc[t] \in {"found", "stamped"}
      <4>1. element[t] \in CacheElements /\ element'[t] = Older(element[t])
        BY <1>0, <1>7, <3>1 DEF HookTypeOK, Tick
      <4> QED  BY <4>1, OlderTyped
    <3>2. CASE pc[t] \notin {"found", "stamped"}
      BY <1>0, <1>7, <3>2 DEF HookTypeOK, Tick
    <3> QED  BY <3>1, <3>2
  <2>5. HookTypeOK'
    BY <1>0, <1>7, <2>4 DEF HookTypeOK, Tick
  <2>6. FetchedIsMissing'
    BY <1>0, <1>7, <2>1 DEF FetchedIsMissing, Tick, Cache!Holds
  <2> QED  BY <2>3, <2>5, <2>6 DEF IInv
<1>8. CASE UNCHANGED vars
  <2>1. UNCHANGED <<lru, store, used, reinserted>>
    BY <1>8 DEF vars, cacheVars
  <2>2. CacheProofs!IInv'
    BY <1>0, <2>1 DEF CacheProofs!IInv, CacheProofs!TypeOK, CacheProofs!IteratorsAreValid
  <2> QED  BY <1>0, <1>8, <2>1, <2>2 DEF vars, IInv, HookTypeOK, FetchedIsMissing, Cache!Holds
<1> QED  BY <1>1, <1>2, <1>3, <1>4, <1>5, <1>6, <1>7, <1>8 DEF Next, Proceed

\* The cache, the threads' places in Process and what they hold fit together.
THEOREM Invariance == Spec => []IInv
BY Initially, Inductive, PTL DEF Spec

\* However threads interleave, the cache they share keeps its structure.
THEOREM TypeCorrect == Spec => []TypeOK
<1>1. IInv => TypeOK
  BY DEF IInv, HookTypeOK, Fetching, TypeOK, Cache!TypeOK, Cache!Nodes, Cache!Entries,
         CacheProofs!IInv, CacheProofs!TypeOK, CacheProofs!Nodes, CacheProofs!Entries
<1> QED  BY <1>1, Invariance, PTL

\* A thread inserts a key that the cache holds only if another thread has
\* inserted it while this one fetched the data.
THEOREM OnlyRacesInsertTwice == Spec => InsertsTwiceOnlyInRaces
<1>1. IInv => \A t \in Threads : Insert(t) /\ Cache!Holds(key[t]) => raced[t]
  BY DEF IInv, FetchedIsMissing, Fetching, Insert, At
<1>2. IInv /\ [Next]_vars =>
        [\A t \in Threads : Insert(t) /\ Cache!Holds(key[t]) => raced[t]]_vars
  BY <1>1
<1> QED  BY <1>2, Invariance, PTL DEF Spec, InsertsTwiceOnlyInRaces
=============================================================================
