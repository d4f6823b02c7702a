----------------------------- MODULE LossyCache -----------------------------
(***************************************************************************)
(* The least a user of a bounded cache relies on: it holds at most         *)
(* Capacity entries, an entry that is held is the one put last for its     *)
(* key, and putting an entry may drop others, but not that one.            *)
(***************************************************************************)
EXTENDS Naturals, FiniteSets

CONSTANTS Keys, Elements, Capacity

VARIABLE held   \* a function from the keys that are held to their elements

Put(k, e) ==
  \E kept \in SUBSET (DOMAIN held \ {k}) :
    /\ Cardinality(kept) < Capacity
    /\ held' = [x \in kept \cup {k} |-> IF x = k THEN e ELSE held[x]]

Drop(k) == /\ k \in DOMAIN held
           /\ held' = [x \in DOMAIN held \ {k} |-> held[x]]

Init == held = [k \in {} |-> 0]

Next == \E k \in Keys : Drop(k) \/ \E e \in Elements : Put(k, e)

Spec == Init /\ [][Next]_held
=============================================================================
