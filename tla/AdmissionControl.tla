-------------------------- MODULE AdmissionControl --------------------------
(***************************************************************************)
(* What a circuit breaker that limits the calls of each request promises:  *)
(* whoever asks is let in or refused, and never more than Limit callers    *)
(* are inside on behalf of the same request.  How the decision is reached  *)
(* is left open; CircuitBreaker implements this specification.             *)
(***************************************************************************)
EXTENDS Naturals, FiniteSets

CONSTANTS Callers,   \* whoever may ask
          Requests,  \* what is asked for
          Limit      \* callers that may be inside for one request

VARIABLES phase,     \* phase[c]: "out", "asking" or "inside"
          wants      \* wants[c]: the request c asks for, when it is not out

vars == <<phase, wants>>

Inside(r) == {c \in Callers : phase[c] = "inside" /\ wants[c] = r}

Init == /\ phase = [c \in Callers |-> "out"]
        /\ wants \in [Callers -> Requests]

Ask(c, r) == /\ phase[c] = "out"
             /\ phase' = [phase EXCEPT ![c] = "asking"]
             /\ wants' = [wants EXCEPT ![c] = r]

Admit(c) == /\ phase[c] = "asking"
            /\ Cardinality(Inside(wants[c])) < Limit
            /\ phase' = [phase EXCEPT ![c] = "inside"]
            /\ UNCHANGED wants

Refuse(c) == /\ phase[c] = "asking"
             /\ phase' = [phase EXCEPT ![c] = "out"]
             /\ UNCHANGED wants

\* Once out, what the caller asked for no longer matters.
Leave(c) == /\ phase[c] = "inside"
            /\ phase' = [phase EXCEPT ![c] = "out"]
            /\ \E r \in Requests : wants' = [wants EXCEPT ![c] = r]

Next == \E c \in Callers :
          \/ \E r \in Requests : Ask(c, r)
          \/ Admit(c)
          \/ Refuse(c)
          \/ Leave(c)

Spec == Init /\ [][Next]_vars
=============================================================================
