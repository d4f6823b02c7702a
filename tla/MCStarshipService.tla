-------------------------- MODULE MCStarshipService --------------------------
(* Instances of StarshipService for TLC. *)
EXTENDS StarshipService

\* No hook is registered globally, a request may use any hooks in any order.
NoGlobals == [l \in Levels |-> << >>]
HandlerOrIssuerKinds ==
  [handler |-> {"logging", "claim", "caching", "exceptions", "recovery"},
   issuer  |-> {"logging", "breaker", "forwarding", "retry", "caching", "exceptions", "recovery"}]
NoKinds == [l \in Levels |-> {}]

\* Any status or exception, except the one only ErrorForwarding throws
AnyOutcome == Outcomes \ {Thrown("forwarded")}
=============================================================================
