----------------------------- MODULE CachingHook -----------------------------
(***************************************************************************)
(* CachingRequestHook: threads that answer requests from one shared        *)
(* LRUCache, and otherwise call a function that fetches the data and cache *)
(* what it returned.  Looking up, judging the age, removing an expired     *)
(* element, fetching, and inserting are separate steps, between which      *)
(* other threads act, the data changes, and time passes.                   *)
(*                                                                         *)
(* The insertion time of an element is modelled by its age, which stops    *)
(* growing once it exceeds MaxAge: older elements are all treated alike.   *)
(***************************************************************************)
EXTENDS Naturals, Sequences, FiniteSets

CONSTANTS Threads,
          Keys,         \* what key_generator may produce
          MaxVersion,   \* bound: how often the data of a key may change
          MaxAge,       \* max_age, in ticks
          MaxSize,      \* size of the LRUCache
          Statuses,     \* status codes the function may return
          CodesToCache  \* status_codes_to_cache

ASSUME CodesAssumption == CodesToCache \subseteq Statuses
ASSUME BoundsAssumption == MaxAge \in Nat /\ MaxVersion \in Nat
ASSUME MaxSizeAssumption == MaxSize \in Nat \ {0}

VARIABLES lru, store, used, reinserted,  \* the LRUCache
          version,     \* version[k]: the data to be fetched for k
          pc, key,     \* where each thread is in Process, and with which key
          element,     \* the element it has read, or is about to insert
          raced        \* has another thread inserted the key since the thread
                       \* began to fetch it? (history)

cacheVars == <<lru, store, used, reinserted>>
vars == <<cacheVars, version, pc, key, element, raced>>

Versions == 0 .. MaxVersion
Ages == 0 .. MaxAge + 1
CacheElements == [version : Versions, status : CodesToCache, age : Ages]

Cache == INSTANCE LRUCache WITH Elements <- CacheElements

-----------------------------------------------------------------------------
At(t, from, to) == pc[t] = from /\ pc' = [pc EXCEPT ![t] = to]

Older(e) == [e EXCEPT !.age = IF @ > MaxAge THEN @ ELSE @ + 1]

\* History: threads that fetch what t inserts
Racing(t) ==
  raced' = [u \in Threads |-> raced[u] \/ (/\ u # t /\ key[u] = key[t]
                                          /\ pc[u] \in {"func", "fetched", "stamped"})]

\* No element was read yet.
Some == [version |-> 0, status |-> "ok", age |-> 0]

\* Mutants: slips the properties must catch.
FetchAnyToCache(t, s) ==
  /\ At(t, "func", "fetched")
  /\ element' = [element EXCEPT ![t] = [version |-> version[key[t]], status |-> s,
                                        age |-> MaxAge + 1]]
  /\ UNCHANGED <<cacheVars, version, key, raced>>
ExpireAndKeep(t) == /\ element[t].age > MaxAge
                    /\ At(t, "found", "func")
                    /\ UNCHANGED <<cacheVars, version, key, element, raced>>
HitAnyAge(t) == /\ At(t, "found", "idle")
                /\ UNCHANGED <<cacheVars, version, key, element, raced>>

-----------------------------------------------------------------------------
Init == /\ Cache!Init
        /\ version = [k \in Keys |-> 0]
        /\ pc = [t \in Threads |-> "idle"]
        /\ key \in [Threads -> Keys]
        /\ element = [t \in Threads |-> Some]
        /\ raced = [t \in Threads |-> FALSE]

Begin(t, k) == /\ At(t, "idle", "lookup")
               /\ key' = [key EXCEPT ![t] = k]
               /\ raced' = [raced EXCEPT ![t] = FALSE]
               /\ UNCHANGED <<cacheVars, version, element>>

\* cache->Get returns a valid element
Find(t) == /\ Cache!Holds(key[t])
           /\ At(t, "lookup", "found")
           /\ Cache!Get(key[t])
           /\ element' = [element EXCEPT ![t] = store[key[t]].element]
           /\ UNCHANGED <<version, key, raced>>

Miss(t) == /\ ~Cache!Holds(key[t])
           /\ At(t, "lookup", "func")
           /\ UNCHANGED <<cacheVars, version, key, element, raced>>

\* The element is young enough: cache_reader gets it, its status is returned.
Hit(t) == /\ element[t].age <= MaxAge
          /\ At(t, "found", "idle")
          /\ UNCHANGED <<cacheVars, version, key, element, raced>>

Expire(t) == /\ element[t].age > MaxAge
             /\ At(t, "found", "expired")
             /\ UNCHANGED <<cacheVars, version, key, element, raced>>

RemoveExpired(t) == /\ At(t, "expired", "func")
                    /\ Cache!Remove(key[t])
                    /\ UNCHANGED <<version, key, element, raced>>

\* func fetches the data and returns a status that is cached...
FetchToCache(t, s) ==
  /\ s \in CodesToCache
  /\ At(t, "func", "fetched")
  /\ element' = [element EXCEPT ![t] = [version |-> version[key[t]], status |-> s,
                                        age |-> MaxAge + 1]]
  /\ UNCHANGED <<cacheVars, version, key, raced>>

\* ... or one that is not, or throws
FetchOnly(t, s) == /\ s \notin CodesToCache
                   /\ At(t, "func", "idle")
                   /\ UNCHANGED <<cacheVars, version, key, element, raced>>

\* Clock::now(), read before Insert takes the lock
Stamp(t) == /\ At(t, "fetched", "stamped")
            /\ element' = [element EXCEPT ![t].age = 0]
            /\ UNCHANGED <<cacheVars, version, key, raced>>

Insert(t) == /\ At(t, "stamped", "idle")
             /\ Cache!Insert(key[t], element[t])
             /\ Racing(t)
             /\ UNCHANGED <<version, key, element>>

Proceed(t) == \/ Find(t) \/ Miss(t)
              \/ Hit(t) \/ Expire(t)
              \/ RemoveExpired(t)
              \/ \E s \in Statuses : FetchToCache(t, s) \/ FetchOnly(t, s)
              \/ Stamp(t)
              \/ Insert(t)

\* Somebody else changes the data; the cache is not told.
Update(k) == /\ version[k] < MaxVersion
             /\ version' = [version EXCEPT ![k] = @ + 1]
             /\ UNCHANGED <<cacheVars, pc, key, element, raced>>

Tick == /\ store' = [k \in DOMAIN store |-> [store[k] EXCEPT !.element = Older(@)]]
        /\ element' = [t \in Threads |->
                         IF pc[t] \in {"found", "stamped"} THEN Older(element[t])
                         ELSE element[t]]
        /\ UNCHANGED <<lru, used, reinserted, version, pc, key, raced>>

Next == \/ \E t \in Threads : Proceed(t) \/ \E k \in Keys : Begin(t, k)
        \/ \E k \in Keys : Update(k)
        \/ Tick

Spec == Init /\ [][Next]_vars

\* Time passes, and a call that was begun goes on; func is assumed to end.
Fairness == /\ WF_vars(Tick)
            /\ \A t \in Threads : WF_vars(Proceed(t))

FairSpec == Spec /\ Fairness

-----------------------------------------------------------------------------
TypeOK == /\ Cache!TypeOK
          /\ version \in [Keys -> Versions]
          /\ pc \in [Threads -> {"idle", "lookup", "found", "expired", "func",
                                 "fetched", "stamped"}]
          /\ key \in [Threads -> Keys]
          /\ element \in [Threads -> CacheElements \cup {Some}]
          /\ raced \in [Threads -> BOOLEAN]

\* Whatever is inserted late or twice and whatever is removed by mistake, once
\* the data has stopped changing no answer from the cache is out of date for ever.
CacheCatchesUp ==
  <>[][\A t \in Threads : Hit(t) => element[t].version = version[key[t]]]_vars

\* An insertion makes room only if the cache is full, and then it removes the
\* least recently used key.
EvictsLeastRecentlyUsed ==
  [][\A t \in Threads : Insert(t) =>
       \A k \in DOMAIN store \ DOMAIN store' :
         Cardinality(DOMAIN store) = MaxSize /\ k = used[Len(used)]]_vars

\* A key that is in the cache is inserted again only if two threads fetched it
\* at the same time; in particular, one thread alone never does.
InsertsTwiceOnlyInRaces ==
  [][\A t \in Threads : Insert(t) /\ Cache!Holds(key[t]) => raced[t]]_vars
=============================================================================
