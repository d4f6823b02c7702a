---------------------------- MODULE RecencyCache ----------------------------
(***************************************************************************)
(* A least-recently-used cache as a user thinks of it: the keys held, the  *)
(* most recently used first, each once.  Putting an entry into a full      *)
(* cache drops the last key, and no other.                                 *)
(***************************************************************************)
EXTENDS Naturals, Sequences, SequencesExt

CONSTANTS Keys, Elements, Capacity

VARIABLES order,  \* the keys held, in order of their last use
          held    \* their elements

vars == <<order, held>>

Later(k) == <<k>> \o RemoveFirst(order, k)

Init == order = << >> /\ held = [k \in {} |-> 0]

Put(k, e) ==
  LET used == Later(k)
      kept == SubSeq(used, 1, IF Len(used) > Capacity THEN Capacity ELSE Len(used))
  IN /\ order' = kept
     /\ held' = [x \in ToSet(kept) |-> IF x = k THEN e ELSE held[x]]

Use(k) == /\ k \in DOMAIN held
          /\ order' = Later(k)
          /\ UNCHANGED held

Drop(k) == /\ k \in DOMAIN held
           /\ order' = RemoveFirst(order, k)
           /\ held' = [x \in DOMAIN held \ {k} |-> held[x]]

Next == \E k \in Keys : Use(k) \/ Drop(k) \/ \E e \in Elements : Put(k, e)

Spec == Init /\ [][Next]_vars
=============================================================================
