------------------------ MODULE StarshipServiceProofs ------------------------
(***************************************************************************)
(* Proofs about modules RequestPipeline and StarshipService: for any hooks *)
(* in any order, any number of requests, pages and retries, any answers of *)
(* the external service, and any other service with hooks of its own.      *)
(*                                                                         *)
(* The steps of the processors are proved about as AnyStep, which leaves   *)
(* open what the functions, the caches and the callees do, so that the     *)
(* lemmas also hold for the service that StarshipService refines them to.  *)
(*                                                                         *)
(* IInv is inductive.  PipelineInv says where the two processors are, and  *)
(* that `pending' holds, in order, the hooks entered and not left; it is   *)
(* needed at every hook, since PostsMirrorPres looks at it only when all   *)
(* hooks are left.  AnswersInv and ForwardsInv follow an exception and the *)
(* error of a callee on their way up, hook by hook.                        *)
(*                                                                         *)
(* ServiceInv is inductive, too.  It adds where the claim, the pages, the  *)
(* ship and its status are on their way, and what the caches hold, since   *)
(* one request reads what another left.                                    *)
(***************************************************************************)
EXTENDS StarshipService, SequenceTheorems, TLAPS

\* What the default status codes and exceptions are good for.
LEMMA CodesAre ==
  /\ {"ok", "unknown", "invalid_argument", "not_found", "permission_denied", "out_of_range",
      "unavailable", "internal", "unauthenticated", "invalid"} \subseteq Codes
  /\ AllErrorCodes \subseteq Codes /\ "ok" \notin AllErrorCodes /\ "invalid" \notin AllErrorCodes
  /\ \A c \in Codes : c \in AllErrorCodes \cup {"ok", "invalid"}
BY DEF Codes, ToHttpStatusCode, AllErrorCodes

\* The HTTP status codes that the responses below come down to.
LEMMA HttpStatusCodes ==
  /\ ToHttpStatusCode["ok"] = 200
  /\ ToHttpStatusCode["unavailable"] = 503
  /\ ToHttpStatusCode["out_of_range"] = 400
  /\ \A c \in Codes \ {"ok", "invalid"} : ToHttpStatusCode[c] # 200
BY DEF ToHttpStatusCode, Codes

LEMMA OutcomesAre ==
  /\ \A c \in Codes : Status(c) \in Outcomes /\ ~Status(c).thrown /\ Status(c).what = c
  /\ \A x \in Exceptions : Thrown(x) \in Outcomes /\ Thrown(x).thrown /\ Thrown(x).what = x
  /\ \A o \in Outcomes : \/ ~o.thrown /\ o.what \in Codes /\ o = Status(o.what)
                         \/ o.thrown /\ o.what \in Exceptions /\ o = Thrown(o.what)
<1>1. \A c \in Codes : Status(c) \in Outcomes /\ ~Status(c).thrown /\ Status(c).what = c
  BY DEF Outcomes, Status
<1>2. \A x \in Exceptions : Thrown(x) \in Outcomes /\ Thrown(x).thrown /\ Thrown(x).what = x
  BY DEF Outcomes, Thrown
<1>3. ASSUME NEW o \in Outcomes
      PROVE  (\E c \in Codes : o = Status(c)) \/ (\E x \in Exceptions : o = Thrown(x))
  BY DEF Outcomes
<1>. QED
  BY <1>1, <1>2, <1>3

\* Whatever a hook's post_process gets, it returns or throws an outcome; only
\* StatusCode::invalid, or a hook that forwards, makes it throw.
LEMMA PostProcesses ==
  ASSUME NEW kind \in Kinds, NEW code \in Codes
  PROVE  /\ PostProcess(kind, code) \in Outcomes
         /\ Named(PostProcess(kind, code)) \in Outcomes
         /\ Named(PostProcess(kind, code)) # Status("invalid")
         /\ code \notin ForwardedCodes(kind) /\ code # "invalid" =>
              Named(PostProcess(kind, code)) = Status(code)
         /\ kind \notin Forwarding => ForwardedCodes(kind) = {}
         /\ Named(PostProcess(kind, code)) = Status("ok") => code = "ok"
         /\ PostProcess(kind, code) = Status("ok") => code = "ok"
         /\ code = "invalid" /\ kind # "recovery" =>
              PostProcess(kind, code) = Status("invalid") \/ PostProcess(kind, code).thrown
<1>. USE CodesAre, OutcomesAre
<1>1. /\ Unnamed \in Outcomes /\ Unnamed # Status("invalid") /\ Unnamed # Status("ok")
      /\ Thrown("forwarded") \in Outcomes /\ Thrown("forwarded") # Status("invalid")
      /\ Thrown("forwarded") # Status("ok") /\ Unnamed.thrown
  BY DEF Unnamed, Exceptions, Thrown, Status
<1>2. \A c \in Codes : \A d \in Codes : Status(c) = Status(d) => c = d
  OBVIOUS
<1>3. \A o \in Outcomes : /\ Named(o) \in Outcomes /\ Named(o) # Status("invalid")
                          /\ o # Status("invalid") => Named(o) = o
                          /\ Named(o) = Status("ok") => o = Status("ok")
  BY <1>1 DEF Named
<1>4. CASE kind \in Forwarding
  <2>1. PostProcess(kind, code) = IF code \in ForwardedCodes(kind) THEN Thrown("forwarded")
                                  ELSE Status(code)
    BY <1>4 DEF PostProcess, Forwarding, ForwardingPost
  <2>2. CASE code \in ForwardedCodes(kind)
    <3>1. code # "ok" /\ code # "invalid" /\ PostProcess(kind, code) = Thrown("forwarded")
      BY <2>1, <2>2 DEF ForwardedCodes
    <3>. QED
      BY <1>1, <1>3, <1>4, <2>2, <3>1
  <2>3. CASE code \notin ForwardedCodes(kind)
    <3>1. PostProcess(kind, code) = Status(code)
      BY <2>1, <2>3
    <3>. QED
      BY <1>1, <1>2, <1>3, <1>4, <2>3, <3>1
  <2>. QED
    BY <2>2, <2>3
<1>5. CASE kind \notin Forwarding
  <2>1. ForwardedCodes(kind) = {}
    BY <1>5 DEF ForwardedCodes, Forwarding
  <2>2. \/ PostProcess(kind, code) = Status(code)
        \/ kind = "logging" /\ PostProcess(kind, code) = Named(Status(code))
        \/ /\ kind = "recovery"
           /\ PostProcess(kind, code) = Status(IF code = "invalid" THEN "internal" ELSE code)
    BY <1>5 DEF PostProcess, LoggingPost, RecoveryPost
  <2>3. code = "invalid" /\ kind # "recovery" =>
          PostProcess(kind, code) \in {Status("invalid"), Unnamed}
    BY <2>2 DEF Named
  <2>4. CASE PostProcess(kind, code) = Status(code)
    BY <1>1, <1>2, <1>3, <1>5, <2>1, <2>3, <2>4
  <2>5. CASE kind = "logging" /\ PostProcess(kind, code) = Named(Status(code))
    BY <1>1, <1>2, <1>3, <1>5, <2>1, <2>3, <2>5
  <2>6. CASE /\ kind = "recovery"
             /\ PostProcess(kind, code) = Status(IF code = "invalid" THEN "internal" ELSE code)
    BY <1>1, <1>2, <1>3, <1>5, <2>1, <2>6
  <2>. QED
    BY <2>2, <2>4, <2>5, <2>6
<1>. QED
  BY <1>4, <1>5

-----------------------------------------------------------------------------
\* The steps of the processors, for any function, cache and callee.
AnyCall == \/ \E code \in Codes \ {"invalid"} : CacheHit(code)
           \/ \E o \in Outcomes : FuncEnds(o) \/ CallEnds(o)
           \/ Refuse
Descends == Process \/ PreProcess \/ Issue \/ RetryRequest
Ascent == \/ PostAfterStatus \/ NoPostAfterInvalid \/ PostAfterException
          \/ HandleException \/ CacheMissed
Leaves == CallOver \/ RequestOver
Composes == \E kind \in Kinds : With(kind) \/ BeginWith(kind)
AnyStep == AnyCall \/ Descends \/ Ascent \/ Leaves \/ Composes \/ UNCHANGED vars

LEMMA NextIsAnyStep == ASSUME TypeOK, [Next]_vars PROVE AnyStep
<1>1. Lasts[level] \subseteq Kinds /\ Firsts[level] \subseteq Kinds
  BY HooksAssumption DEF TypeOK
<1>2. Cached \subseteq Codes \ {"invalid"}
  BY CodesAre DEF Cached
<1>. QED
  BY <1>1, <1>2, OutcomesAssumption
     DEF Next, AnyStep, AnyCall, Descends, Ascent, Leaves, Composes, Done

\* Each call of what is inside a processor's hooks ends with an outcome, and
\* says so in the history.
LEMMA Returns ==
  ASSUME TypeOK, AnyCall
  PROVE  /\ stage = "down" /\ stage' = "up"
         /\ at' = [at EXCEPT ![level] = at[level] - 1]
         /\ outcome' \in Outcomes /\ ends' = [ends EXCEPT ![level] = outcome']
         /\ UNCHANGED <<level, hooks, retries, pending>>
         /\ at[level] <= Len(hooks[level]) =>
              /\ Hook \in Guards \cup {"caching"}
              /\ outcome' # Status("invalid") /\ ~outcome'.thrown
<1>. USE OutcomesAre DEF Return, Up, Innermost
<1>1. ASSUME NEW code \in Codes \ {"invalid"}, CacheHit(code)
      PROVE  /\ outcome' \in Outcomes /\ Hook = "caching" /\ ~Innermost(level)
             /\ outcome' # Status("invalid") /\ ~outcome'.thrown
  BY <1>1, CodesAre DEF CacheHit
<1>2. ASSUME NEW o \in Outcomes, FuncEnds(o) \/ CallEnds(o)
      PROVE  outcome' \in Outcomes /\ Innermost(level)
  BY <1>2 DEF FuncEnds, CallEnds
<1>3. ASSUME Refuse
      PROVE  /\ outcome' \in Outcomes /\ Hook \in Guards /\ ~Innermost(level)
             /\ outcome' # Status("invalid") /\ ~outcome'.thrown
  <2>1. Hook \in Guards /\ outcome' = Refusal(Hook)
    BY <1>3 DEF Refuse
  <2>2. \E c \in Codes \ {"invalid"} : Refusal(Hook) = Status(c)
    BY <2>1, CodesAre DEF Refusal, Guards
  <2>. QED
    BY <1>3, <2>1, <2>2, CodesAre DEF Refuse
<1>4. stage = "down" /\ Return(outcome')
  BY DEF AnyCall, CacheHit, FuncEnds, CallEnds, Refuse
<1>5. outcome' \in Outcomes
  BY <1>1, <1>2, <1>3 DEF AnyCall
<1>6. ~Innermost(level) => /\ Hook \in Guards \cup {"caching"}
                           /\ outcome' # Status("invalid") /\ ~outcome'.thrown
  BY <1>1, <1>2, <1>3 DEF AnyCall
<1>. QED
  BY <1>4, <1>5, <1>6 DEF TypeOK

\* What a hook's post_process, or its own Process, makes of an outcome: only a
\* hook that forwards changes a status, and only StatusCode::invalid and
\* exceptions are changed by others.
LEMMA PostProcessed ==
  ASSUME TypeOK, Ascent, Hook \in Kinds
  PROVE  /\ outcome' \in Outcomes
         /\ outcome' = Status("invalid") => outcome = Status("invalid")
         /\ outcome' = Status("ok") => outcome = Status("ok")
         /\ ~outcome.thrown /\ outcome # Status("invalid")
              /\ outcome.what \notin ForwardedCodes(Hook) => outcome' = outcome
         /\ ~outcome.thrown /\ outcome.what \in ForwardedCodes(Hook) =>
              outcome' = Thrown("forwarded")
         /\ Hook \in Guards \cup {"caching"} /\ outcome.thrown => outcome' = outcome
         /\ Hook \notin {"exceptions", "recovery"} /\ outcome.thrown => outcome'.thrown
         /\ Hook = "exceptions" /\ outcome.thrown => outcome' = Status(MappedCode(outcome.what))
         /\ Hook \notin Forwarding => ForwardedCodes(Hook) = {}
<1>. USE OutcomesAre, CodesAre
<1>0. /\ outcome \in Outcomes /\ "invalid" \in Codes
      /\ Hook \notin Forwarding => ForwardedCodes(Hook) = {}
      /\ "invalid" \notin ForwardedCodes(Hook)
  BY DEF TypeOK, ForwardedCodes, Forwarding
<1>1. CASE PostAfterStatus
  <2>1. outcome.what \in Codes /\ outcome = Status(outcome.what) /\ ~outcome.thrown
    BY <1>0, <1>1 DEF PostAfterStatus
  <2>2. Hook \notin Overriding /\ outcome' = Named(PostProcess(Hook, outcome.what))
    BY <1>1 DEF PostAfterStatus, Up
  <2>3. outcome.what # "invalid"
    BY <1>1 DEF PostAfterStatus
  <2>4. outcome.what \in ForwardedCodes(Hook) => outcome' = Thrown("forwarded")
    <3>. SUFFICES ASSUME outcome.what \in ForwardedCodes(Hook)
                  PROVE  outcome' = Thrown("forwarded")
      OBVIOUS
    <3>1. Hook \in Forwarding
      BY <1>0
    <3>2. PostProcess(Hook, outcome.what) = Thrown("forwarded")
      BY <3>1 DEF PostProcess, ForwardingPost, Forwarding
    <3>. QED
      BY <2>2, <3>2 DEF Named, Thrown, Status
  <2>. QED
    BY <1>0, <2>1, <2>2, <2>3, <2>4, PostProcesses DEF Overriding
<1>2. CASE NoPostAfterInvalid
  <2>1. outcome' = Unnamed /\ outcome = Status("invalid") /\ Hook \notin Overriding
    BY <1>2 DEF NoPostAfterInvalid, Up
  <2>2. Unnamed \in Outcomes /\ Unnamed # Status("invalid") /\ Unnamed # Status("ok")
    BY DEF Unnamed, Exceptions, Thrown, Status
  <2>. QED
    BY <1>0, <2>1, <2>2 DEF Overriding
<1>3. CASE PostAfterException
  <2>1. outcome.thrown /\ Hook \notin Overriding
    BY <1>3 DEF PostAfterException
  <2>2. outcome' = IF PostProcess(Hook, "invalid") = Status("invalid")
                   THEN outcome ELSE PostProcess(Hook, "invalid")
    BY <1>3 DEF PostAfterException, Up
  <2>3. Hook \in Guards => PostProcess(Hook, "invalid") = Status("invalid")
    BY DEF PostProcess, Guards, Forwarding
  <2>4. /\ PostProcess(Hook, "invalid") \in Outcomes
        /\ PostProcess(Hook, "invalid") # Status("ok")
        /\ Hook # "recovery" => \/ PostProcess(Hook, "invalid") = Status("invalid")
                                \/ PostProcess(Hook, "invalid").thrown
    BY <1>0, PostProcesses
  <2>. QED
    BY <1>0, <2>1, <2>2, <2>3, <2>4 DEF Overriding
<1>4. CASE HandleException
  <2>1. Hook = "exceptions" /\ Hook \notin Forwarding \cup Guards \cup {"caching"}
    BY <1>4 DEF HandleException, Forwarding, Guards
  <2>2. outcome' = IF outcome.thrown THEN Status(MappedCode(outcome.what)) ELSE outcome
    BY <1>4 DEF HandleException, Up
  <2>3. MappedCode(outcome.what) \in Codes \ {"invalid", "ok"}
    BY DEF MappedCode
  <2>. QED
    BY <1>0, <2>1, <2>2, <2>3
<1>5. CASE CacheMissed
  <2>1. Hook = "caching" /\ outcome' = outcome /\ Hook \notin Forwarding
    BY <1>5 DEF CacheMissed, Up, Forwarding
  <2>. QED
    BY <1>0, <2>1
<1>. QED
  BY <1>1, <1>2, <1>3, <1>4, <1>5 DEF Ascent

\* The hook is left.
LEMMA PostLeaves ==
  ASSUME TypeOK, Ascent
  PROVE  /\ stage = "up" /\ stage' = "up" /\ at[level] > 0
         /\ at' = [at EXCEPT ![level] = at[level] - 1]
         /\ UNCHANGED <<level, hooks, retries, ends>>
         /\ IF Hook \in Overriding THEN UNCHANGED pending ELSE Left
BY DEF Ascent, PostAfterStatus, NoPostAfterInvalid, PostAfterException, HandleException,
       CacheMissed, Ascends, Up, Overriding

-----------------------------------------------------------------------------
\* p holds, in their order, those of the first n hooks of h that have a
\* pre_process.
Mirrors(p, h, n) ==
  /\ p \in Seq(Nat)
  /\ \A j, k \in 1 .. Len(p) : j < k => p[j] < p[k]
  /\ \A j \in 1 .. Len(p) : p[j] \in 1 .. n /\ h[p[j]] \notin Overriding
  /\ \A i \in 1 .. n : h[i] \notin Overriding => \E j \in 1 .. Len(p) : p[j] = i

\* Nothing is mirrored before the first hook.
LEMMA MirrorsNothing ==
  ASSUME NEW h
  PROVE  Mirrors(<< >>, h, 0) /\ \A p : Mirrors(p, h, 0) => p = << >>
<1>1. Mirrors(<< >>, h, 0)
  BY DEF Mirrors
<1>2. ASSUME NEW p, Mirrors(p, h, 0) PROVE p = << >>
  <2>1. Len(p) \in Nat /\ \A j \in 1 .. Len(p) : FALSE
    BY <1>2 DEF Mirrors
  <2>2. Len(p) = 0
    BY <2>1
  <2>. QED
    BY <1>2, <2>2, EmptySeq DEF Mirrors
<1>. QED
  BY <1>1, <1>2

\* On the way down a hook is entered, and noted if it has a pre_process ...
LEMMA MirrorsEntry ==
  ASSUME NEW p, NEW h, NEW n \in Nat, Mirrors(p, h, n)
  PROVE  /\ h[n + 1] \notin Overriding => Mirrors(Append(p, n + 1), h, n + 1)
         /\ h[n + 1] \in Overriding => Mirrors(p, h, n + 1)
<1>. USE DEF Mirrors
<1>1. ASSUME h[n + 1] \notin Overriding PROVE Mirrors(Append(p, n + 1), h, n + 1)
  <2>. DEFINE q == Append(p, n + 1)
  <2>1. /\ q \in Seq(Nat) /\ Len(q) = Len(p) + 1 /\ Len(p) \in Nat
        /\ \A j \in 1 .. Len(p) : q[j] = p[j]
        /\ q[Len(p) + 1] = n + 1
    BY AppendProperties
  <2>. HIDE DEF q
  <2>2. ASSUME NEW j \in 1 .. Len(q), NEW k \in 1 .. Len(q), j < k
        PROVE  q[j] < q[k]
    <3>1. j \in 1 .. Len(p) /\ q[j] = p[j] /\ p[j] \in 1 .. n
      BY <2>1, <2>2
    <3>2. CASE k \in 1 .. Len(p)
      BY <2>1, <2>2, <3>1, <3>2
    <3>3. CASE k = Len(p) + 1
      BY <2>1, <3>1, <3>3
    <3>. QED
      BY <2>1, <3>2, <3>3
  <2>3. \A j \in 1 .. Len(q) : q[j] \in 1 .. n + 1 /\ h[q[j]] \notin Overriding
    <3>1. \A j \in 1 .. Len(p) : q[j] \in 1 .. n + 1 /\ h[q[j]] \notin Overriding
      <4>1. \A j \in 1 .. Len(p) : p[j] \in 1 .. n /\ h[p[j]] \notin Overriding
        OBVIOUS
      <4>2. 1 .. n \subseteq 1 .. n + 1
        OBVIOUS
      <4>. QED
        BY <2>1, <4>1, <4>2
    <3>2. q[Len(p) + 1] \in 1 .. n + 1 /\ h[q[Len(p) + 1]] \notin Overriding
      BY <1>1, <2>1
    <3>3. \A j \in 1 .. Len(q) : j \in 1 .. Len(p) \/ j = Len(p) + 1
      BY <2>1
    <3>. QED
      BY <3>1, <3>2, <3>3
  <2>4. \A i \in 1 .. n + 1 : h[i] \notin Overriding => \E j \in 1 .. Len(q) : q[j] = i
    <3>1. ASSUME NEW i \in 1 .. n, h[i] \notin Overriding PROVE \E j \in 1 .. Len(q) : q[j] = i
      <4>1. PICK j \in 1 .. Len(p) : p[j] = i
        BY <3>1
      <4>2. j \in 1 .. Len(q) /\ q[j] = i
        BY <2>1, <4>1
      <4>. QED
        BY <4>2
    <3>2. \E j \in 1 .. Len(q) : q[j] = n + 1
      BY <2>1
    <3>. QED
      BY <3>1, <3>2
  <2>. QED
    BY <2>1, <2>2, <2>3, <2>4 DEF q
<1>2. ASSUME h[n + 1] \in Overriding PROVE Mirrors(p, h, n + 1)
  <2>1. \A j \in 1 .. Len(p) : p[j] \in 1 .. n + 1 /\ h[p[j]] \notin Overriding
    OBVIOUS
  <2>2. \A i \in 1 .. n + 1 : h[i] \notin Overriding => \E j \in 1 .. Len(p) : p[j] = i
    <3>1. \A i \in 1 .. n + 1 : h[i] \notin Overriding => i \in 1 .. n
      BY <1>2
    <3>. QED
      BY <3>1
  <2>. QED
    BY <2>1, <2>2
<1>. HIDE DEF Mirrors
<1>. QED
  BY <1>1, <1>2

\* ... and on the way up it is left, and is the last one noted if it is noted.
LEMMA MirrorsExit ==
  ASSUME NEW p, NEW h, NEW n \in Nat, n > 0, Mirrors(p, h, n)
  PROVE  /\ h[n] \in Overriding => Mirrors(p, h, n - 1)
         /\ h[n] \notin Overriding =>
              p # << >> /\ Last(p) = n /\ Mirrors(Front(p), h, n - 1)
<1>. USE DEF Mirrors
<1>0. Len(p) \in Nat /\ \A j \in 1 .. Len(p) : p[j] \in Nat /\ 1 <= p[j] /\ p[j] <= n
  OBVIOUS
<1>1. ASSUME h[n] \in Overriding PROVE Mirrors(p, h, n - 1)
  BY <1>0, <1>1
<1>2. ASSUME h[n] \notin Overriding
      PROVE  p # << >> /\ Last(p) = n /\ Mirrors(Front(p), h, n - 1)
  <2>1. PICK j \in 1 .. Len(p) : p[j] = n
    BY <1>2
  <2>2. j = Len(p)
    BY <1>0, <2>1
  <2>3. p # << >> /\ Len(p) > 0
    BY <1>0, <2>1, EmptySeq
  <2>4. Last(p) = n
    BY <2>1, <2>2 DEF Last
  <2>. DEFINE q == Front(p)
  <2>5. /\ q \in Seq(Nat) /\ Len(q) = Len(p) - 1
        /\ \A k \in 1 .. Len(q) : k \in 1 .. Len(p) /\ q[k] = p[k]
    <3>1. q = [k \in 1 .. Len(p) - 1 |-> p[k]]
      BY DEF Front
    <3>. QED
      BY <1>0, <2>3, <3>1
  <2>. HIDE DEF q
  <2>6. \A k \in 1 .. Len(q) : q[k] \in 1 .. n - 1 /\ h[q[k]] \notin Overriding
    <3>1. ASSUME NEW k \in 1 .. Len(q)
          PROVE  q[k] \in 1 .. n - 1 /\ h[q[k]] \notin Overriding
      <4>1. k \in 1 .. Len(p) /\ k < Len(p) /\ q[k] = p[k] /\ Len(p) \in 1 .. Len(p)
        BY <1>0, <2>5
      <4>2. p[k] \in 1 .. n /\ h[p[k]] \notin Overriding /\ p[k] < p[Len(p)]
        BY <2>1, <4>1
      <4>3. p[k] < n
        BY <2>2, <4>2
      <4>. QED
        BY <4>1, <4>2, <4>3
    <3>. QED
      BY <3>1
  <2>7. ASSUME NEW i \in 1 .. Len(q), NEW k \in 1 .. Len(q), i < k
        PROVE  q[i] < q[k]
    <3>1. /\ i \in 1 .. Len(p) /\ q[i] = p[i]
          /\ k \in 1 .. Len(p) /\ q[k] = p[k]
      BY <2>5
    <3>. QED
      BY <2>7, <3>1
  <2>8. ASSUME NEW i \in 1 .. n - 1, h[i] \notin Overriding
        PROVE  \E k \in 1 .. Len(q) : q[k] = i
    <3>1. PICK k \in 1 .. Len(p) : p[k] = i
      BY <2>8
    <3>2. k # Len(p)
      BY <2>1, <2>2, <3>1
    <3>3. k \in 1 .. Len(q)
      BY <1>0, <2>5, <3>1, <3>2
    <3>4. q[k] = i
      BY <2>5, <3>1, <3>3
    <3>. QED
      BY <3>3, <3>4
  <2>. QED
    BY <2>3, <2>4, <2>5, <2>6, <2>7, <2>8 DEF q
<1>. QED
  BY <1>1, <1>2

\* How many hooks of a processor the request has entered and not left.
Entered(l) == IF level = l /\ stage = "up" THEN at[l]
              ELSE IF at[l] = 0 THEN 0 ELSE at[l] - 1

\* Where the two processors may be: the issuer runs inside of the function of
\* the handler, and has left all of its hooks when the handler goes on.
Nested == /\ level = "handler" => at["issuer"] = 0
          /\ level = "issuer" => at["handler"] = Len(hooks["handler"]) + 1
          /\ stage = "compose" => at[level] = 0
          /\ stage = "down" => at[level] \in 1 .. Len(hooks[level]) + 1
          /\ stage = "up" => at[level] \in 0 .. Len(hooks[level])
          /\ stage = "done" => level = "handler" /\ at["handler"] = 0

Mirrored == \A l \in Levels : Mirrors(pending[l], hooks[l], Entered(l))

PipelineInv == TypeOK /\ Nested /\ Mirrored

\* While a processor is at a hook, it is one of its hooks.
LEMMA HookIs ==
  ASSUME PipelineInv, at[level] > 0, at[level] <= Len(hooks[level])
  PROVE  /\ Hook \in Kinds /\ level \in Levels
         /\ at[level] \in 1 .. Len(hooks[level]) /\ Len(hooks[level]) \in Nat
BY ElementOfSeq, LenProperties DEF PipelineInv, TypeOK, Hook

LEMMA AscentAt ==
  ASSUME PipelineInv, Ascent
  PROVE  /\ stage = "up" /\ at[level] \in 1 .. Len(hooks[level])
         /\ Hook = hooks[level][at[level]] /\ Hook \in Kinds
<1>1. stage = "up" /\ at[level] > 0
  BY DEF Ascent, PostAfterStatus, NoPostAfterInvalid, PostAfterException,
         HandleException, CacheMissed, Ascends
<1>2. at[level] \in 1 .. Len(hooks[level])
  BY <1>1, LenProperties DEF PipelineInv, TypeOK, Nested
<1>. QED
  BY <1>1, <1>2, HookIs, LenProperties DEF Hook, PipelineInv, TypeOK

LEMMA ReturnsKeepPlaces ==
  ASSUME PipelineInv, AnyCall
  PROVE  PipelineInv'
<1>. DEFINE l == level
<1>1. /\ TypeOK /\ Nested /\ Mirrored /\ l \in Levels /\ Len(hooks[l]) \in Nat
  BY LenProperties DEF PipelineInv, TypeOK
<1>2. /\ at' = [at EXCEPT ![l] = at[l] - 1] /\ UNCHANGED <<level, hooks, retries, pending>>
      /\ stage = "down" /\ stage' = "up"
      /\ outcome' \in Outcomes /\ ends' = [ends EXCEPT ![l] = outcome']
  BY <1>1, Returns
<1>3. at[l] \in 1 .. Len(hooks[l]) + 1
  BY <1>1, <1>2 DEF Nested
<1>4. TypeOK'
  BY <1>1, <1>2, <1>3 DEF TypeOK
<1>5. Nested'
  BY <1>1, <1>2, <1>3 DEF Nested, TypeOK, Levels
<1>6. \A k \in Levels : Entered(k)' = Entered(k)
  BY <1>1, <1>2, <1>3 DEF Entered, TypeOK
<1>7. Mirrored'
  BY <1>1, <1>2, <1>6 DEF Mirrored
<1>. QED
  BY <1>4, <1>5, <1>7 DEF PipelineInv

LEMMA AscentKeepsPlaces ==
  ASSUME PipelineInv, Ascent
  PROVE  PipelineInv'
<1>. DEFINE l == level
            n == at[level]
            h == hooks[level]
<1>1. /\ TypeOK /\ Nested /\ Mirrored /\ l \in Levels /\ Len(hooks[l]) \in Nat
  BY LenProperties DEF PipelineInv, TypeOK
<1>2. stage = "up"
  BY AscentAt
<1>3. at[l] \in 1 .. Len(hooks[l]) /\ Hook \in Kinds /\ Hook = h[n]
  BY AscentAt
<1>4. /\ stage' = "up" /\ at' = [at EXCEPT ![l] = n - 1]
      /\ UNCHANGED <<level, hooks, retries, ends>>
      /\ IF Hook \in Overriding THEN UNCHANGED pending ELSE Left
      /\ outcome' \in Outcomes
  BY <1>1, <1>3, PostProcessed, PostLeaves
<1>5. Mirrors(pending[l], h, n) /\ Entered(l)' = n - 1
  BY <1>1, <1>2, <1>3, <1>4 DEF Mirrored, Entered, TypeOK
<1>6. /\ Mirrors(pending'[l], h, n - 1)
      /\ pending' \in [Levels -> Seq(Nat)]
      /\ \A k \in Levels : k # l => pending'[k] = pending[k]
  <2>1. CASE h[n] \in Overriding
    BY <1>1, <1>3, <1>4, <1>5, <2>1, MirrorsExit DEF TypeOK
  <2>2. CASE h[n] \notin Overriding
    <3>1. /\ pending[l] # << >> /\ Last(pending[l]) = n
          /\ Mirrors(Front(pending[l]), h, n - 1)
      BY <1>1, <1>3, <1>5, <2>2, MirrorsExit
    <3>2. pending' = [pending EXCEPT ![l] = Front(pending[l])]
      BY <1>1, <1>3, <1>4, <2>2, <3>1 DEF Left, TypeOK
    <3>. QED
      BY <1>1, <3>1, <3>2 DEF TypeOK, Mirrors
  <2>. QED
    BY <2>1, <2>2
<1>7. TypeOK'
  <2>1. n - 1 \in Nat
    BY <1>1, <1>3
  <2>. QED
    BY <1>1, <1>4, <1>6, <2>1 DEF TypeOK
<1>8. Nested'
  <2>1. at'[l] = n - 1 /\ \A k \in Levels : k # l => at'[k] = at[k]
    BY <1>1, <1>4 DEF TypeOK
  <2>2. n - 1 \in 0 .. Len(hooks[l])
    BY <1>1, <1>3
  <2>. QED
    BY <1>1, <1>2, <1>4, <2>1, <2>2 DEF Nested, Levels
<1>9. \A k \in Levels : k # l => Entered(k)' = Entered(k)
  BY <1>1, <1>4 DEF Entered, TypeOK
<1>10. Mirrored'
  BY <1>1, <1>4, <1>5, <1>6, <1>9 DEF Mirrored
<1>. QED
  BY <1>7, <1>8, <1>10 DEF PipelineInv

LEMMA DescentKeepsPlaces ==
  ASSUME PipelineInv, Descends
  PROVE  PipelineInv'
<1>. DEFINE l == level
            n == at[level]
<1>0. /\ TypeOK /\ Nested /\ Mirrored /\ l \in Levels /\ n \in Nat
      /\ \A k \in Levels : Len(hooks[k]) \in Nat /\ at[k] \in Nat
  BY LenProperties DEF PipelineInv, TypeOK
<1>1. CASE Process
  <2>1. /\ n = 0 /\ stage = "compose" /\ stage' = "down" /\ at' = [at EXCEPT ![l] = 1]
        /\ UNCHANGED <<level, hooks, outcome, retries, pending, ends>>
    BY <1>0, <1>1 DEF Process, Down, Nested
  <2>2. \A k \in Levels : Entered(k)' = Entered(k)
    BY <1>0, <2>1 DEF Entered, TypeOK
  <2>3. TypeOK' /\ Nested'
    BY <1>0, <2>1 DEF TypeOK, Nested, Levels
  <2>. QED
    BY <1>0, <2>1, <2>2, <2>3 DEF PipelineInv, Mirrored
<1>2. CASE PreProcess
  <2>1. /\ stage = "down" /\ stage' = "down" /\ at' = [at EXCEPT ![l] = n + 1]
        /\ UNCHANGED <<level, hooks, outcome, ends>>
        /\ retries' = IF Hook = "retry" THEN [retries EXCEPT ![l] = 0] ELSE retries
        /\ pending' = IF Hook \in Overriding THEN pending
                      ELSE [pending EXCEPT ![l] = Append(pending[l], n)]
    BY <1>0, <1>2 DEF PreProcess, Down, TypeOK
  <2>2. n \in 1 .. Len(hooks[l]) /\ Hook = hooks[l][n]
    BY <1>0, <1>2, <2>1 DEF PreProcess, Innermost, Nested, Hook
  <2>3. Entered(l) = n - 1 /\ Entered(l)' = n /\ Mirrors(pending[l], hooks[l], n - 1)
    BY <1>0, <2>1, <2>2 DEF Entered, Mirrored, TypeOK
  <2>4. /\ Mirrors(pending'[l], hooks[l], n)
        /\ \A k \in Levels : k # l => pending'[k] = pending[k]
    <3>1. n - 1 \in Nat /\ n - 1 + 1 = n
      BY <1>0, <2>2
    <3>2. /\ hooks[l] \in Seq(Kinds) /\ pending \in [Levels -> Seq(Nat)]
          /\ pending[l] \in Seq(Nat)
      BY <1>0 DEF TypeOK
    <3>3. /\ Hook \in Overriding => Mirrors(pending[l], hooks[l], n)
          /\ Hook \notin Overriding => Mirrors(Append(pending[l], n), hooks[l], n)
      BY <2>2, <2>3, <3>1, <3>2, MirrorsEntry
    <3>4. CASE Hook \in Overriding
      BY <2>1, <3>3, <3>4
    <3>5. CASE Hook \notin Overriding
      BY <1>0, <2>1, <3>2, <3>3, <3>5
    <3>. QED
      BY <3>4, <3>5
  <2>5. \A k \in Levels : k # l => Entered(k)' = Entered(k)
    BY <1>0, <2>1 DEF Entered, TypeOK
  <2>6. Mirrored'
    BY <1>0, <2>1, <2>3, <2>4, <2>5 DEF Mirrored
  <2>7. pending' \in [Levels -> Seq(Nat)]
    <3>1. Append(pending[l], n) \in Seq(Nat)
      BY <1>0, AppendProperties DEF TypeOK
    <3>2. pending \in [Levels -> Seq(Nat)]
      BY <1>0 DEF TypeOK
    <3>3. [pending EXCEPT ![l] = Append(pending[l], n)] \in [Levels -> Seq(Nat)]
      BY <3>1, <3>2
    <3>. QED
      BY <2>1, <3>2, <3>3
  <2>8. TypeOK' /\ Nested'
    BY <1>0, <2>1, <2>2, <2>7 DEF TypeOK, Nested, Levels
  <2>. QED
    BY <2>6, <2>8 DEF PipelineInv
<1>3. CASE Issue
  <2>1. /\ level = "handler" /\ level' = "issuer" /\ stage = "down" /\ stage' = "compose"
        /\ UNCHANGED <<hooks, at, outcome, retries, pending, ends>>
        /\ n > Len(hooks[l])
    BY <1>3 DEF Issue, Innermost
  <2>2. TypeOK' /\ Nested'
    BY <1>0, <2>1 DEF TypeOK, Nested, Levels
  <2>3. \A k \in Levels : Entered(k)' = Entered(k)
    BY <1>0, <2>1 DEF Entered, Levels
  <2>. QED
    BY <1>0, <2>1, <2>2, <2>3 DEF PipelineInv, Mirrored
<1>4. CASE RetryRequest
  <2>1. /\ stage = "up" /\ n > 0 /\ stage' = "down" /\ at' = [at EXCEPT ![l] = n + 1]
        /\ UNCHANGED <<level, hooks, outcome, pending, ends>>
        /\ retries' = [retries EXCEPT ![l] = retries[l] + 1]
    BY <1>0, <1>4 DEF RetryRequest, Ascends, Down, TypeOK
  <2>2. n \in 1 .. Len(hooks[l])
    BY <1>0, <2>1 DEF Nested
  <2>3. TypeOK' /\ Nested'
    BY <1>0, <2>1, <2>2 DEF TypeOK, Nested, Levels
  <2>4. \A k \in Levels : Entered(k)' = Entered(k)
    BY <1>0, <2>1, <2>2 DEF Entered, TypeOK
  <2>. QED
    BY <1>0, <2>1, <2>3, <2>4 DEF PipelineInv, Mirrored
<1>. QED
  BY <1>1, <1>2, <1>3, <1>4 DEF Descends

LEMMA LeavingKeepsPlaces ==
  ASSUME PipelineInv, Leaves
  PROVE  PipelineInv'
<1>0. /\ TypeOK /\ Nested /\ Mirrored
      /\ \A k \in Levels : Len(hooks[k]) \in Nat /\ at[k] \in Nat
  BY LenProperties DEF PipelineInv, TypeOK
<1>1. CASE CallOver
  <2>1. /\ level = "issuer" /\ at["issuer"] = 0 /\ stage = "up" /\ level' = "handler"
        /\ at' = [at EXCEPT !["handler"] = at["handler"] - 1]
        /\ UNCHANGED <<stage, hooks, retries, pending>>
        /\ at["handler"] = Len(hooks["handler"]) + 1
    BY <1>0, <1>1 DEF CallOver, Nested, TypeOK, Levels
  <2>2. outcome' \in Outcomes
    <3>1. outcome' \in {outcome, Status("ok"), Thrown("out_of_range")}
      BY <1>1 DEF CallOver, AfterCall
    <3>. QED
      BY <1>0, <3>1, CodesAre, OutcomesAre DEF TypeOK, Exceptions
  <2>3. ends' = [ends EXCEPT !["handler"] = outcome']
    BY <1>1 DEF CallOver
  <2>4. TypeOK' /\ Nested'
    BY <1>0, <2>1, <2>2, <2>3 DEF TypeOK, Nested, Levels
  <2>5. \A k \in Levels : Entered(k)' = Entered(k)
    BY <1>0, <2>1 DEF Entered, Levels, TypeOK
  <2>. QED
    BY <1>0, <2>1, <2>4, <2>5 DEF PipelineInv, Mirrored
<1>2. CASE RequestOver
  <2>1. /\ level = "handler" /\ at["handler"] = 0 /\ stage' = "done"
        /\ UNCHANGED <<level, hooks, at, outcome, retries, pending, ends>>
    BY <1>2 DEF RequestOver
  <2>2. TypeOK' /\ Nested'
    BY <1>0, <2>1 DEF TypeOK, Nested
  <2>3. \A k \in Levels : Entered(k)' = Entered(k)
    BY <1>0, <2>1 DEF Entered, Levels
  <2>. QED
    BY <1>0, <2>1, <2>2, <2>3 DEF PipelineInv, Mirrored
<1>. QED
  BY <1>1, <1>2 DEF Leaves

LEMMA ComposingKeepsPlaces ==
  ASSUME PipelineInv, Composes
  PROVE  PipelineInv'
<1>0. /\ TypeOK /\ Nested /\ Mirrored /\ level \in Levels /\ hooks[level] \in Seq(Kinds)
  BY DEF PipelineInv, TypeOK
<1>1. PICK kind \in Kinds : With(kind) \/ BeginWith(kind)
  BY DEF Composes
<1>2. Append(hooks[level], kind) \in Seq(Kinds) /\ <<kind>> \o hooks[level] \in Seq(Kinds)
  BY <1>0, AppendProperties, ConcatProperties
<1>3. /\ stage = "compose" /\ at[level] = 0
      /\ UNCHANGED <<level, stage, at, outcome, retries, pending, ends>>
      /\ hooks' \in [Levels -> Seq(Kinds)]
      /\ \A k \in Levels : k # level => hooks'[k] = hooks[k]
  BY <1>0, <1>1, <1>2 DEF With, BeginWith, MayAdd, Nested, TypeOK
<1>4. TypeOK' /\ Nested'
  BY <1>0, <1>3 DEF TypeOK, Nested, Levels
<1>5. \A k \in Levels : Entered(k)' = Entered(k)
  BY <1>3 DEF Entered
<1>6. Mirrors(pending[level], hooks'[level], 0)
  BY <1>0, <1>3, MirrorsNothing DEF Mirrored, Entered
<1>7. Mirrored'
  BY <1>0, <1>3, <1>5, <1>6 DEF Mirrored, Entered
<1>. QED
  BY <1>4, <1>7 DEF PipelineInv

LEMMA PlacesAreKept ==
  ASSUME PipelineInv, AnyStep
  PROVE  PipelineInv'
<1>1. CASE UNCHANGED vars
  BY <1>1 DEF vars, PipelineInv, TypeOK, Nested, Mirrored, Entered
<1>. QED
  BY <1>1, ReturnsKeepPlaces, AscentKeepsPlaces, DescentKeepsPlaces, LeavingKeepsPlaces,
     ComposingKeepsPlaces
     DEF AnyStep

\* A request begins with the hooks it is composed of.
LEMMA PlacesInitially ==
  ASSUME NEW composed \in [Levels -> Seq(Kinds)], Begins(composed)
  PROVE  PipelineInv
<1>1. TypeOK
  BY OutcomesAre, CodesAre DEF Begins, TypeOK, Levels
<1>2. Nested
  BY DEF Begins, Nested, Levels
<1>3. Mirrored
  BY MirrorsNothing DEF Begins, Mirrored, Entered
<1>. QED
  BY <1>1, <1>2, <1>3 DEF PipelineInv

-----------------------------------------------------------------------------
\* On the way up through the handler's hooks, nothing is thrown any more once
\* the ExceptionHandling hook is left.
AnswersInv ==
  level = "handler" /\ stage \in {"up", "done"} =>
    /\ outcome = Status("invalid") => ends["handler"] = Status("invalid")
    /\ ends["handler"] # Status("invalid") =>
         \A e \in DOMAIN hooks["handler"] :
           HandlesAt(e) /\ at["handler"] < e => ~outcome.thrown

LEMMA AnswersAreKept ==
  ASSUME PipelineInv, AnswersInv, AnyStep
  PROVE  AnswersInv'
<1>. DEFINE h == hooks["handler"]
            n == at["handler"]
<1>0. /\ TypeOK /\ Nested /\ Len(h) \in Nat /\ n \in Nat /\ DOMAIN h = 1 .. Len(h)
      /\ h \in Seq(Kinds)
  BY LenProperties DEF PipelineInv, TypeOK, Levels
<1>1. CASE AnyCall
  <2>. SUFFICES ASSUME level = "handler" PROVE AnswersInv'
    BY <1>0, <1>1, Returns DEF AnswersInv
  <2>1. /\ n \in 1 .. Len(h) + 1 /\ at'["handler"] = n - 1 /\ UNCHANGED <<level, hooks>>
        /\ ends'["handler"] = outcome'
        /\ n <= Len(h) => ~outcome'.thrown
    BY <1>0, <1>1, Returns DEF Nested, TypeOK
  <2>2. \A e \in DOMAIN h : n - 1 < e => ~outcome'.thrown
    BY <1>0, <2>1
  <2>. QED
    BY <2>1, <2>2 DEF AnswersInv
<1>2. CASE Ascent
  <2>. SUFFICES ASSUME level = "handler" PROVE AnswersInv'
    BY <1>0, <1>2, AscentAt, PostProcessed, PostLeaves DEF AnswersInv
  <2>1. stage = "up" /\ n \in 1 .. Len(h) /\ Hook = h[n] /\ Hook \in Kinds
    BY <1>2, AscentAt
  <2>2. /\ at'["handler"] = n - 1 /\ UNCHANGED <<level, hooks, ends>> /\ stage' = "up"
        /\ outcome' = Status("invalid") => outcome = Status("invalid")
        /\ Hook \notin Forwarding /\ ~outcome.thrown /\ outcome # Status("invalid") =>
             outcome' = outcome
        /\ Hook = "exceptions" /\ outcome.thrown => outcome' = Status(MappedCode(outcome.what))
    BY <1>0, <1>2, <2>1, PostProcessed, PostLeaves DEF TypeOK
  <2>3. ASSUME ends["handler"] # Status("invalid"), NEW e \in DOMAIN h, HandlesAt(e), n - 1 < e
        PROVE  ~outcome'.thrown
    <3>1. outcome # Status("invalid")
      BY <2>1, <2>3 DEF AnswersInv
    <3>2. CASE n = e
      <4>1. Hook = "exceptions" /\ Hook \notin Forwarding
        BY <2>1, <2>3, <3>2 DEF HandlesAt, Forwarding
      <4>. QED
        BY <2>2, <3>1, <4>1 DEF Status
    <3>3. CASE n < e
      <4>1. Hook \notin Forwarding /\ ~outcome.thrown
        BY <1>0, <2>1, <2>3, <3>3 DEF HandlesAt, AnswersInv
      <4>. QED
        BY <2>2, <3>1, <4>1
    <3>. QED
      BY <1>0, <2>3, <3>2, <3>3
  <2>. QED
    BY <2>1, <2>2, <2>3 DEF AnswersInv, HandlesAt
<1>3. CASE Descends \/ Composes
  BY <1>3 DEF Descends, Composes, Process, PreProcess, Issue, RetryRequest, Down,
              With, BeginWith, MayAdd, AnswersInv
<1>4. CASE CallOver
  <2>1. /\ at'["handler"] = Len(h) /\ ends'["handler"] = outcome' /\ UNCHANGED hooks
    BY <1>0, <1>4 DEF CallOver, Nested, TypeOK, Levels
  <2>. QED
    BY <1>0, <2>1 DEF AnswersInv
<1>5. CASE RequestOver \/ UNCHANGED vars
  BY <1>5 DEF RequestOver, vars, AnswersInv, HandlesAt
<1>. QED
  BY <1>1, <1>2, <1>3, <1>4, <1>5 DEF AnyStep, Leaves

\* The service answers when the request is done.
LEMMA AnswersWhenDone ==
  ASSUME PipelineInv, AnswersInv
  PROVE  HandlerAnswers
<1>. SUFFICES ASSUME stage = "done", HandlesExceptions, ends["handler"] # Status("invalid")
              PROVE  ~outcome.thrown /\ outcome.what # "invalid"
  BY DEF HandlerAnswers
<1>1. level = "handler" /\ at["handler"] = 0 /\ outcome \in Outcomes
  BY DEF PipelineInv, Nested, TypeOK
<1>2. PICK e \in DOMAIN hooks["handler"] : HandlesAt(e)
  BY DEF HandlesExceptions
<1>3. e > 0
  BY <1>2, LenProperties DEF PipelineInv, TypeOK, Levels
<1>4. ~outcome.thrown /\ outcome # Status("invalid")
  BY <1>1, <1>2, <1>3 DEF AnswersInv
<1>. QED
  BY <1>1, <1>4, OutcomesAre

-----------------------------------------------------------------------------
\* The function of the issued request ended with an error that ErrorForwarding
\* is to forward.
CalleeFailed == /\ ForwardsOnce
                /\ ~ends["issuer"].thrown
                /\ ends["issuer"].what \in ForwardedCodes(hooks["issuer"][1])

\* Where the error of the callee is on its way up: in the issuer it is a status
\* until ErrorForwarding throws it, and in the handler an exception until
\* ExceptionHandling makes it a status again.  Before there is none.
ForwardsInv ==
  /\ level = "handler" /\ stage = "compose" => ends["issuer"] = Status("ok")
  /\ level = "handler" /\ stage = "down" =>
       \A e \in DOMAIN hooks["handler"] : ForwardedAt(e) => ends["issuer"] = Status("ok")
  /\ level = "issuer" /\ stage = "up" /\ CalleeFailed =>
       outcome = IF at["issuer"] > 0 THEN ends["issuer"] ELSE Thrown("forwarded")
  /\ level = "handler" /\ stage \in {"up", "done"} /\ CalleeFailed =>
       \A e \in DOMAIN hooks["handler"] : ForwardedAt(e) =>
         outcome = IF at["handler"] >= e THEN Thrown("forwarded") ELSE Status("unavailable")

\* What is forwarded is an error, and no status of the service's own.
LEMMA FailedMeans ==
  ASSUME TypeOK, CalleeFailed
  PROVE  /\ ends["issuer"] # Status("ok") /\ ends["issuer"] # Status("invalid")
         /\ ends["issuer"] \in Outcomes
         /\ Len(hooks["issuer"]) > 0 /\ hooks["issuer"][1] \in Forwarding
<1>1. ForwardedCodes(hooks["issuer"][1]) \subseteq AllErrorCodes
  BY DEF ForwardedCodes
<1>. QED
  BY <1>1, CodesAre, OutcomesAre DEF CalleeFailed, ForwardsOnce, TypeOK, Levels

LEMMA ForwardingInIssuer ==
  ASSUME PipelineInv, ForwardsInv, AnyCall \/ Ascent, level = "issuer"
  PROVE  ForwardsInv'
<1>. DEFINE h == hooks["issuer"]
            n == at["issuer"]
<1>0. /\ TypeOK /\ Nested /\ Len(h) \in Nat /\ n \in Nat /\ h \in Seq(Kinds)
  BY LenProperties DEF PipelineInv, TypeOK, Levels
<1>1. CASE AnyCall
  <2>1. /\ n \in 1 .. Len(h) + 1 /\ at'["issuer"] = n - 1 /\ UNCHANGED <<level, hooks>>
        /\ ends'["issuer"] = outcome' /\ stage' = "up"
        /\ n <= Len(h) => Hook \in Guards \cup {"caching"}
    BY <1>0, <1>1, Returns DEF Nested, TypeOK
  <2>2. ASSUME CalleeFailed' PROVE at'["issuer"] > 0
    <3>1. Len(h) > 0 /\ h[1] \in Forwarding
      BY <2>1, <2>2 DEF CalleeFailed, ForwardsOnce
    <3>2. n # 1
      BY <1>0, <2>1, <3>1 DEF Hook, Forwarding, Guards
    <3>. QED
      BY <1>0, <2>1, <3>2
  <2>. QED
    BY <2>1, <2>2 DEF ForwardsInv
<1>2. CASE Ascent
  <2>1. stage = "up" /\ n \in 1 .. Len(h) /\ Hook = h[n] /\ Hook \in Kinds
    BY <1>2, AscentAt
  <2>2. /\ at'["issuer"] = n - 1 /\ UNCHANGED <<level, hooks, ends>> /\ stage' = "up"
        /\ Hook \notin Forwarding /\ ~outcome.thrown /\ outcome # Status("invalid") =>
             outcome' = outcome
        /\ ~outcome.thrown /\ outcome.what \in ForwardedCodes(Hook) =>
             outcome' = Thrown("forwarded")
    BY <1>0, <1>2, <2>1, PostProcessed, PostLeaves DEF TypeOK
  <2>3. ASSUME CalleeFailed
        PROVE  outcome' = IF n - 1 > 0 THEN ends["issuer"] ELSE Thrown("forwarded")
    <3>1. outcome = ends["issuer"] /\ outcome # Status("invalid")
      BY <1>0, <2>1, <2>3, FailedMeans DEF ForwardsInv
    <3>2. ~outcome.thrown /\ outcome.what \in ForwardedCodes(h[1])
      BY <2>3, <3>1 DEF CalleeFailed
    <3>3. CASE n = 1
      BY <1>0, <2>1, <2>2, <2>3, <3>2, <3>3, FailedMeans
    <3>4. CASE n > 1
      <4>1. Hook \notin Forwarding /\ n - 1 > 0
        BY <1>0, <2>1, <2>3, <3>4 DEF CalleeFailed, ForwardsOnce
      <4>. QED
        BY <2>2, <3>1, <3>2, <4>1
    <3>. QED
      BY <1>0, <2>1, <3>3, <3>4
  <2>. QED
    BY <2>1, <2>2, <2>3 DEF ForwardsInv, CalleeFailed, ForwardsOnce
<1>. QED
  BY <1>1, <1>2

LEMMA ForwardingInHandler ==
  ASSUME PipelineInv, ForwardsInv, AnyCall \/ Ascent, level = "handler"
  PROVE  ForwardsInv'
<1>. DEFINE h == hooks["handler"]
            n == at["handler"]
<1>0. /\ TypeOK /\ Nested /\ Len(h) \in Nat /\ n \in Nat /\ DOMAIN h = 1 .. Len(h)
      /\ h \in Seq(Kinds)
  BY LenProperties DEF PipelineInv, TypeOK, Levels
<1>1. CASE AnyCall
  <2>1. /\ stage = "down" /\ stage' = "up" /\ UNCHANGED <<level, hooks>>
        /\ ends'["issuer"] = ends["issuer"]
    BY <1>0, <1>1, Returns DEF TypeOK, Levels
  <2>2. CalleeFailed' = CalleeFailed /\ \A e : ForwardedAt(e)' = ForwardedAt(e)
    BY <2>1 DEF CalleeFailed, ForwardsOnce, ForwardedAt, HandlesAt
  <2>3. CalleeFailed => \A e \in DOMAIN h : ~ForwardedAt(e)
    BY <1>0, <2>1, FailedMeans DEF ForwardsInv
  <2>. QED
    BY <2>1, <2>2, <2>3 DEF ForwardsInv
<1>2. CASE Ascent
  <2>1. stage = "up" /\ n \in 1 .. Len(h) /\ Hook = h[n] /\ Hook \in Kinds
    BY <1>2, AscentAt
  <2>2. /\ at'["handler"] = n - 1 /\ UNCHANGED <<level, hooks, ends>> /\ stage' = "up"
        /\ Hook \notin Forwarding /\ ~outcome.thrown /\ outcome # Status("invalid") =>
             outcome' = outcome
        /\ Hook \in Guards \cup {"caching"} /\ outcome.thrown => outcome' = outcome
        /\ Hook = "exceptions" /\ outcome.thrown => outcome' = Status(MappedCode(outcome.what))
    BY <1>0, <1>2, <2>1, PostProcessed, PostLeaves DEF TypeOK
  <2>3. CalleeFailed' = CalleeFailed /\ \A e : ForwardedAt(e)' = ForwardedAt(e)
    BY <2>2 DEF CalleeFailed, ForwardsOnce, ForwardedAt, HandlesAt
  <2>4. ASSUME CalleeFailed, NEW e \in DOMAIN h, ForwardedAt(e)
        PROVE  outcome' = IF n - 1 >= e THEN Thrown("forwarded") ELSE Status("unavailable")
    <3>0. /\ outcome = IF n >= e THEN Thrown("forwarded") ELSE Status("unavailable")
          /\ Thrown("forwarded").thrown /\ Thrown("forwarded").what = "forwarded"
          /\ ~Status("unavailable").thrown /\ Status("unavailable") # Status("invalid")
      BY <2>1, <2>4 DEF ForwardsInv, Thrown, Status
    <3>1. CASE n > e
      <4>1. Hook \in Guards \cup {"caching"}
        BY <1>0, <2>1, <2>4, <3>1 DEF ForwardedAt
      <4>. QED
        BY <1>0, <2>2, <2>4, <3>0, <3>1, <4>1
    <3>2. CASE n = e
      <4>1. Hook = "exceptions" /\ MappedCode("forwarded") = "unavailable"
        BY <2>1, <2>4, <3>2 DEF ForwardedAt, HandlesAt, MappedCode
      <4>. QED
        BY <1>0, <2>2, <2>4, <3>0, <3>2, <4>1
    <3>3. CASE n < e
      <4>1. Hook \notin Forwarding
        BY <1>0, <2>1, <2>4, <3>3 DEF ForwardedAt, HandlesAt
      <4>. QED
        BY <1>0, <2>2, <2>4, <3>0, <3>3, <4>1
    <3>. QED
      BY <1>0, <2>4, <3>1, <3>2, <3>3
  <2>. QED
    BY <2>1, <2>2, <2>3, <2>4 DEF ForwardsInv
<1>. QED
  BY <1>1, <1>2

LEMMA ForwardingElsewhere ==
  ASSUME PipelineInv, ForwardsInv, Descends \/ Leaves \/ Composes \/ UNCHANGED vars
  PROVE  ForwardsInv'
<1>. DEFINE h == hooks["handler"]
<1>0. /\ TypeOK /\ Nested /\ Len(h) \in Nat /\ h \in Seq(Kinds)
      /\ DOMAIN h = 1 .. Len(h) /\ level \in Levels /\ at["handler"] \in Nat
  BY LenProperties DEF PipelineInv, TypeOK, Levels
<1>1. CASE UNCHANGED hooks
  <2>1. ForwardsOnce' = ForwardsOnce /\ \A e : ForwardedAt(e)' = ForwardedAt(e)
    BY <1>1 DEF ForwardsOnce, ForwardedAt, HandlesAt
  <2>2. CASE Process \/ PreProcess \/ Issue
    BY <1>1, <2>1, <2>2 DEF Process, PreProcess, Issue, Down, ForwardsInv
  <2>3. CASE RetryRequest
    <3>1. /\ stage = "up" /\ stage' = "down" /\ UNCHANGED <<level, hooks, ends>>
          /\ Hook = "retry" /\ at[level] > 0
      BY <2>3 DEF RetryRequest, Ascends, Retries, Down
    <3>2. ASSUME level = "handler", NEW e \in DOMAIN h, ForwardedAt(e) PROVE FALSE
      <4>1. at["handler"] \in 1 .. Len(h) /\ h[at["handler"]] = "retry"
        BY <1>0, <3>1, <3>2 DEF Nested, Hook
      <4>. QED
        BY <1>0, <3>2, <4>1 DEF ForwardedAt, HandlesAt, Guards
    <3>. QED
      BY <2>1, <3>1, <3>2 DEF ForwardsInv
  <2>4. CASE CallOver
    <3>1. /\ level = "issuer" /\ at["issuer"] = 0 /\ stage = "up" /\ stage' = "up"
          /\ level' = "handler" /\ outcome' \in AfterCall(outcome)
          /\ at'["handler"] = Len(h) /\ ends'["issuer"] = ends["issuer"]
      BY <1>0, <2>4 DEF CallOver, Nested, TypeOK, Levels
    <3>2. CalleeFailed' = CalleeFailed
      BY <1>1, <2>1, <3>1 DEF CalleeFailed
    <3>3. CalleeFailed => outcome' = Thrown("forwarded")
      <4>1. CalleeFailed => outcome = Thrown("forwarded")
        BY <3>1 DEF ForwardsInv
      <4>. QED
        BY <3>1, <4>1 DEF AfterCall, Thrown
    <3>. QED
      BY <1>0, <1>1, <3>1, <3>2, <3>3 DEF ForwardsInv
  <2>5. CASE RequestOver \/ UNCHANGED vars
    BY <1>1, <2>1, <2>5 DEF RequestOver, vars, ForwardsInv, CalleeFailed
  <2>6. CASE Composes
    BY <1>1, <2>1, <2>6 DEF Composes, With, BeginWith, MayAdd, ForwardsInv
  <2>. QED
    BY <2>2, <2>3, <2>4, <2>5, <2>6 DEF Descends, Leaves
<1>2. CASE Composes
  BY <1>2 DEF Composes, With, BeginWith, MayAdd, ForwardsInv
<1>. QED
  BY <1>1, <1>2
     DEF Descends, Leaves, Process, PreProcess, Issue, RetryRequest, CallOver, RequestOver, vars

LEMMA ForwardingIsKept ==
  ASSUME PipelineInv, ForwardsInv, AnyStep
  PROVE  ForwardsInv'
BY ForwardingInIssuer, ForwardingInHandler, ForwardingElsewhere
   DEF AnyStep, PipelineInv, TypeOK, Levels

LEMMA ForwardedWhenDone ==
  ASSUME PipelineInv, ForwardsInv
  PROVE  CalleeErrorsAreForwarded
<1>. SUFFICES ASSUME stage = "done", ForwardsErrors, CalleeFailed
              PROVE  Response = 503
  BY DEF CalleeErrorsAreForwarded, CalleeFailed, ForwardsErrors
<1>1. level = "handler" /\ at["handler"] = 0
  BY DEF PipelineInv, Nested
<1>2. PICK e \in DOMAIN hooks["handler"] : ForwardedAt(e)
  BY DEF ForwardsErrors
<1>3. ~(0 >= e)
  BY <1>2, LenProperties DEF PipelineInv, TypeOK, Levels
<1>4. outcome = Status("unavailable")
  BY <1>1, <1>2, <1>3 DEF ForwardsInv
<1>. QED
  BY <1>4, HttpStatusCodes DEF Response, Status

-----------------------------------------------------------------------------
IInv == PipelineInv /\ AnswersInv /\ ForwardsInv

\* It holds of a request that begins, ...
LEMMA Beginning ==
  ASSUME NEW composed \in [Levels -> Seq(Kinds)], Begins(composed)
  PROVE  IInv
<1>1. AnswersInv /\ ForwardsInv
  BY DEF Begins, AnswersInv, ForwardsInv, Levels
<1>. QED
  BY <1>1, PlacesInitially DEF IInv

LEMMA BeginningNext == (\A composed \in [Levels -> Seq(Kinds)] : Begins(composed) => IInv)'
<1>1. \A composed \in [Levels -> Seq(Kinds)] : Begins(composed) => IInv
  BY Beginning
<1>. QED
  BY <1>1, PTL

\* ... and after every step.
LEMMA Stepping == ASSUME IInv, AnyStep PROVE IInv'
BY PlacesAreKept, AnswersAreKept, ForwardingIsKept DEF IInv

\* When a processor is left, it has no hook that was entered.
LEMMA NothingPends == ASSUME PipelineInv PROVE PostsMirrorPres
<1>. SUFFICES ASSUME stage = "up", at[level] = 0 PROVE pending[level] = << >>
  BY DEF PostsMirrorPres
<1>1. level \in Levels /\ Entered(level) = 0
  BY DEF PipelineInv, TypeOK, Entered
<1>. QED
  BY <1>1, MirrorsNothing DEF PipelineInv, Mirrored

\* What the invariant means for whoever calls the service
LEMMA Consequences ==
  ASSUME IInv
  PROVE  TypeOK /\ PostsMirrorPres /\ HandlerAnswers /\ CalleeErrorsAreForwarded
BY NothingPends, AnswersWhenDone, ForwardedWhenDone DEF IInv, PipelineInv

\* Whatever hooks a request goes through, the processors keep to their places,
\* exceptions are answered, and errors of callees are forwarded.
THEOREM Invariance == Spec => []IInv
<1>1. Init => IInv
  BY Beginning, HooksAssumption DEF Init
<1>2. IInv /\ [Next]_vars => IInv'
  <2>1. IInv => TypeOK
    BY Consequences
  <2>. QED
    BY <2>1, Stepping, NextIsAnyStep
<1>. QED
  BY <1>1, <1>2, PTL DEF Spec

-----------------------------------------------------------------------------
\* The client makes an error status or an exception of whatever is no success.
LEMMA CalleeErrorsAre ==
  \A o \in CalleeErrors : o \in Outcomes /\ (o.thrown \/ o.what \in AllErrorCodes)
<1>1. \A c \in DOMAIN SpecificCodes : SpecificCodes[c] \in AllErrorCodes
  BY DEF SpecificCodes, AllErrorCodes, Codes, ToHttpStatusCode
<1>2. \A i \in DOMAIN GenericCodes : GenericCodes[i] \in {"ok", "invalid_argument", "internal"}
  BY DEF GenericCodes
<1>3. {"invalid_argument", "internal", "unknown"} \subseteq AllErrorCodes
  BY DEF AllErrorCodes, Codes, ToHttpStatusCode
<1>4. {"out_of_range", "other"} \subseteq Exceptions
  BY DEF Exceptions
<1>. QED
  BY <1>1, <1>2, <1>3, <1>4, CodesAre, OutcomesAre DEF CalleeErrors, FromHttpStatusCode

-----------------------------------------------------------------------------
\* The hooks of the requests of this service, one by one.
LEMMA HooksAre ==
  ASSUME NEW r \in Requests
  PROVE  /\ HooksOf(r) \in [Levels -> Seq(Kinds)]
         /\ LET h == HooksOf(r)["handler"]
                i == HooksOf(r)["issuer"]
            IN /\ h[1] = "logging" /\ h[2] = "token" /\ h[3] = "exceptions" /\ h[4] = "claim"
               /\ IF r = "listStarShips"
                  THEN /\ Len(h) = 5 /\ h[5] = "caching"
                       /\ Len(i) = 4 /\ i[1] = "forwarding" /\ i[2] = "logging"
                       /\ i[3] = "breaker" /\ i[4] = "retry"
                  ELSE /\ Len(h) = 4
                       /\ Len(i) = 5 /\ i[1] = "forwarding_except_not_found"
                       /\ i[2] = "logging" /\ i[3] = "breaker" /\ i[4] = "caching"
                       /\ i[5] = "retry"
<1>. DEFINE h == HandlerHooks(r)
            i == IssuerHooks(r)
<1>1. HooksOf(r) = [handler |-> h, issuer |-> i]
  BY DEF HooksOf, Requests
<1>2. {"logging", "token", "exceptions", "claim", "caching", "breaker", "retry",
       "forwarding", "forwarding_except_not_found"} \subseteq Kinds
  BY DEF Kinds, Guards, Forwarding, Overriding
<1>3. CASE r = "listStarShips"
  <2>1. h = <<"logging", "token", "exceptions", "claim", "caching">>
    BY <1>3 DEF HandlerHooks
  <2>2. /\ Len(h) = 5 /\ h[1] = "logging" /\ h[2] = "token"
        /\ h[3] = "exceptions" /\ h[4] = "claim" /\ h[5] = "caching"
    BY <2>1
  <2>3. i = <<"forwarding", "logging", "breaker", "retry">>
    BY <1>3 DEF IssuerHooks
  <2>4. h \in Seq(Kinds) /\ i \in Seq(Kinds)
    BY <1>2, <2>1, <2>3
  <2>5. /\ Len(i) = 4 /\ i[1] = "forwarding" /\ i[2] = "logging"
        /\ i[3] = "breaker" /\ i[4] = "retry"
    BY <2>3
  <2>. HIDE DEF h, i
  <2>6. HooksOf(r) \in [Levels -> Seq(Kinds)]
    BY <1>1, <2>4 DEF Levels
  <2>. QED
    BY <1>1, <1>3, <2>2, <2>5, <2>6
<1>4. CASE r # "listStarShips"
  <2>2. h = <<"logging", "token", "exceptions", "claim">>
    BY <1>4 DEF HandlerHooks
  <2>3. i = <<"forwarding_except_not_found", "logging", "breaker", "caching", "retry">>
    BY <1>4 DEF IssuerHooks
  <2>4. h \in Seq(Kinds) /\ i \in Seq(Kinds)
    BY <1>2, <2>2, <2>3
  <2>. HIDE DEF h, i
  <2>5. HooksOf(r) \in [Levels -> Seq(Kinds)]
    BY <1>1, <2>4 DEF Levels
  <2>. QED
    BY <1>1, <1>4, <2>2, <2>3, <2>5
<1>. QED
  BY <1>3, <1>4

-----------------------------------------------------------------------------
\* The invariant of the service.  A request of ours has the hooks of its kind.
Composed == request # "other" => hooks = HooksOf(request)

\* Past the token's hook the claim in the context is that of the token, and
\* past the claim's hook, so wherever data come from, it grants what is required.
Authorized ==
  request # "other" =>
    /\ level = "handler" /\ stage = "down" /\ at["handler"] > 2 => scope = Granted[token]
    /\ level = "issuer" \/ (stage = "down" /\ at["handler"] > 4) =>
         Required(request) \in Granted[token]
    /\ data # Nothing => Required(request) \in Granted[token]

\* The pages of this attempt are among the ones fetched.  In the issuer, success
\* means that all were, and an error is still to be forwarded; in the handler,
\* that the listing is complete.
Listed ==
  request = "listStarShips" =>
    /\ \A p \in 1 .. page : p \in ToSet(fetched)
    /\ level = "issuer" /\ stage = "up" /\ ~outcome.thrown =>
         IF outcome = Status("ok") THEN AllPages
                                   ELSE at["issuer"] > 0 /\ outcome.what \in AllErrorCodes
    /\ level = "handler" /\ stage \in {"up", "done"} /\ outcome = Status("ok") =>
         data = "listing"

\* A ship is found only if the issued request succeeds, and a ship that is not
\* known comes up through the issuer as the status that says so, and through the
\* handler as the exception that the core makes of it, until that is handled.
Ships == Requests \ {"listStarShips"}
Known ==
  request \in Ships =>
    /\ level = "handler" /\ stage \in {"compose", "down"} =>
         found = Nothing /\ ends["issuer"] = Status("ok")
    /\ level = "issuer" /\ stage \in {"compose", "down"} => found = Nothing
    /\ level = "issuer" /\ stage = "up" =>
         /\ found # Nothing => outcome = Status("ok")
         /\ ends["issuer"] = Status("not_found") => outcome = Status("not_found")
    /\ level = "handler" /\ stage \in {"up", "done"} /\ ends["issuer"] = Status("not_found") =>
         outcome = IF at["handler"] >= 3 THEN Thrown("out_of_range") ELSE Status("out_of_range")

\* What the caches hold was answered with success.
CachesHold ==
  /\ \A l \in Levels : cache[l].code # "invalid"
  /\ cache["handler"] # InvalidElement => cache["handler"].value = "listing"
  /\ cache["issuer"].value \in {Nothing, "ship"}
  /\ cache["issuer"].value # Nothing => cache["issuer"].code = "ok"

ServiceInv == /\ IInv /\ TypeOKService /\ Composed
              /\ Authorized /\ Listed /\ Known /\ CachesHold

LEMMA ServiceTypes ==
  ASSUME ServiceInv
  PROVE  /\ IInv /\ PipelineInv /\ TypeOK /\ Nested /\ level \in Levels /\ Levels = {"handler", "issuer"}
         /\ TypeOKService /\ Composed /\ Authorized /\ Listed /\ Known /\ CachesHold
         /\ \A l \in Levels : at[l] \in Nat /\ Len(hooks[l]) \in Nat /\ hooks[l] \in Seq(Kinds)
<1>1. PipelineInv /\ TypeOK /\ Nested
  BY DEF ServiceInv, IInv, PipelineInv
<1>. QED
  BY <1>1, LenProperties DEF ServiceInv, TypeOK, Levels

\* Where a request of ours meets which hook
LEMMA HookOfOurs ==
  ASSUME ServiceInv, request \in Requests, at[level] \in 1 .. Len(hooks[level])
  PROVE  /\ Hook \in Kinds /\ Hook = hooks[level][at[level]]
         /\ level = "handler" => \/ at[level] = 1 /\ Hook = "logging"
                                 \/ at[level] = 2 /\ Hook = "token"
                                 \/ at[level] = 3 /\ Hook = "exceptions"
                                 \/ at[level] = 4 /\ Hook = "claim"
                                 \/ at[level] = 5 /\ Hook = "caching" /\ request = "listStarShips"
         /\ level = "issuer" => \/ /\ at[level] = 1
                                   /\ Hook = (IF request = "listStarShips" THEN "forwarding"
                                              ELSE "forwarding_except_not_found")
                                \/ at[level] = 2 /\ Hook = "logging"
                                \/ at[level] = 3 /\ Hook = "breaker"
                                \/ at[level] = 4 /\ Hook = "caching" /\ request # "listStarShips"
                                \/ at[level] \in {4, 5} /\ Hook = "retry"
<1>. DEFINE n == at[level]
<1>1. hooks = HooksOf(request) /\ level \in Levels /\ n \in Nat
  BY ServiceTypes DEF Composed, Requests
<1>2. Hook \in Kinds /\ Hook = hooks[level][n]
  BY ServiceTypes, HookIs DEF Hook
<1>3. CASE level = "handler"
  <2>1. n \in 1 .. IF request = "listStarShips" THEN 5 ELSE 4
    BY <1>1, <1>3, HooksAre
  <2>2. /\ hooks[level][1] = "logging" /\ hooks[level][2] = "token"
        /\ hooks[level][3] = "exceptions" /\ hooks[level][4] = "claim"
        /\ request = "listStarShips" => hooks[level][5] = "caching"
    BY <1>1, <1>3, HooksAre
  <2>. QED
    BY <1>2, <1>3, <2>1, <2>2
<1>4. CASE level = "issuer"
  <2>1. n \in 1 .. IF request = "listStarShips" THEN 4 ELSE 5
    BY <1>1, <1>4, HooksAre
  <2>2. /\ hooks[level][1] = IF request = "listStarShips" THEN "forwarding"
                             ELSE "forwarding_except_not_found"
        /\ hooks[level][2] = "logging" /\ hooks[level][3] = "breaker"
        /\ hooks[level][4] = IF request = "listStarShips" THEN "retry" ELSE "caching"
        /\ request # "listStarShips" => hooks[level][5] = "retry"
    BY <1>1, <1>4, HooksAre
  <2>. QED
    BY <1>2, <1>4, <2>1, <2>2
<1>5. level = "handler" \/ level = "issuer"
  BY <1>1 DEF Levels
<1>6. hooks = HooksOf(request) /\ Hook = hooks[level][n]
  BY <1>1, <1>2
<1>. QED
  BY <1>3, <1>4, <1>5, <1>6

LEMMA LensOfOurs ==
  ASSUME ServiceInv, request \in Requests
  PROVE  Len(hooks["handler"]) \in 4 .. 5 /\ Len(hooks["issuer"]) \in 4 .. 5
BY ServiceTypes, HooksAre DEF Composed, Requests

\* The steps of a request of ours, by where it goes
GoesOn == /\ Process \/ PreProcess \/ Issue \/ RetryRequest
          /\ UNCHANGED <<request, token, fetched, page, found, data, cache>>
IsRefused == Refuse /\ UNCHANGED <<request, token, fetched, page, found, data, cache>>
ComesUp == Ascent /\ UNCHANGED <<request, token, scope, fetched, page, found, data>>
Returning == IsRefused \/ UseCache \/ BadBody \/ CallSucceeds \/ CallFails

LEMMA OurSteps ==
  ASSUME OurRequest
  PROVE  GoesOn \/ Returning \/ ComesUp \/ CoreEnds \/ Respond \/ FetchPage \/ NextRequest
BY DEF OurRequest, GoesOn, Returning, IsRefused, ComesUp, Authenticate, Authorize, Enter, MissCache,
       FillCache, IssueToShips, Ascend, Ascent, serviceVars

\* They are steps of the processors, with the hooks composed before.
LEMMA OursAreSteps ==
  ASSUME ServiceInv, request # "other", OurRequest, ~NextRequest
  PROVE  AnyStep /\ UNCHANGED <<request, token, hooks>>
<1>1. CASE GoesOn
  BY <1>1 DEF GoesOn, Process, PreProcess, Issue, RetryRequest, AnyStep, Descends
<1>2. CASE Returning
  <2>1. UNCHANGED <<request, token, hooks>>
    BY <1>2 DEF Returning, IsRefused, UseCache, BadBody, CallSucceeds, CallFails, serviceVars,
                Refuse, CacheHit, FuncEnds, CallEnds, Return
  <2>2. UseCache => \E code \in Codes \ {"invalid"} : CacheHit(code)
    <3>1. cache[level].code \in Codes \ {"invalid"}
      BY ServiceTypes DEF TypeOKService, CachesHold
    <3>. QED
      BY <3>1 DEF UseCache
  <2>3. BadBody => \E o \in Outcomes : FuncEnds(o)
    BY OutcomesAre DEF BadBody, Exceptions
  <2>4. CallSucceeds \/ CallFails => \E o \in Outcomes : CallEnds(o)
    BY OutcomesAre, CodesAre, CalleeErrorsAre DEF CallSucceeds, CallFails
  <2>. QED
    BY <1>2, <2>1, <2>2, <2>3, <2>4 DEF Returning, IsRefused, AnyStep, AnyCall
<1>3. CASE ComesUp
  BY <1>3, ServiceTypes, PostLeaves DEF ComesUp, AnyStep
<1>4. CASE CoreEnds \/ Respond \/ FetchPage
  BY <1>4 DEF CoreEnds, Respond, FetchPage, CallOver, RequestOver, AnyStep, Leaves, vars, serviceVars
<1>. QED
  BY <1>1, <1>2, <1>3, <1>4, OurSteps

\* The function of a request of ours is reached past all of its hooks.
LEMMA FunctionIs ==
  ASSUME ServiceInv, request \in Requests, stage = "down", Innermost(level)
  PROVE  at[level] = Len(hooks[level]) + 1 /\ at[level] > 4
<1>1. /\ at[level] \in 1 .. Len(hooks[level]) + 1 /\ at[level] > Len(hooks[level])
      /\ Len(hooks[level]) \in Nat
  BY ServiceTypes DEF Nested, Innermost
<1>2. Len(hooks[level]) \in 4 .. 5
  BY LensOfOurs, ServiceTypes
<1>3. \A m \in 4 .. 5 : \A n \in 1 .. m + 1 : n > m => n = m + 1 /\ n > 4
  OBVIOUS
<1>. QED
  BY <1>1, <1>2, <1>3

\* Every call in a request of ours comes up from inside ...
LEMMA ReturningIs ==
  ASSUME ServiceInv, request \in Requests, Returning
  PROVE  /\ AnyCall /\ stage = "down" /\ stage' = "up" /\ at[level] \in 1 .. Len(hooks[level]) + 1
         /\ at'[level] = at[level] - 1 /\ \A l \in Levels : l # level => at'[l] = at[l]
         /\ ends'[level] = outcome' /\ \A l \in Levels : l # level => ends'[l] = ends[l]
         /\ UNCHANGED <<level, hooks, request, token, fetched>>
<1>1. AnyCall
  <2>1. UseCache => \E code \in Codes \ {"invalid"} : CacheHit(code)
    <3>1. cache[level].code \in Codes \ {"invalid"}
      BY ServiceTypes DEF TypeOKService, CachesHold
    <3>. QED
      BY <3>1 DEF UseCache
  <2>2. BadBody => \E o \in Outcomes : FuncEnds(o)
    BY OutcomesAre DEF BadBody, Exceptions
  <2>3. CallSucceeds \/ CallFails => \E o \in Outcomes : CallEnds(o)
    BY OutcomesAre, CodesAre, CalleeErrorsAre DEF CallSucceeds, CallFails
  <2>. QED
    BY <2>1, <2>2, <2>3 DEF Returning, IsRefused, AnyCall
<1>2. UNCHANGED <<request, token, fetched>>
  BY DEF Returning, IsRefused, UseCache, BadBody, CallSucceeds, CallFails, serviceVars
<1>. QED
  BY <1>1, <1>2, Returns, ServiceTypes DEF Nested, TypeOK

\* ... and every hook that is left is one of its hooks.
LEMMA ComesUpIs ==
  ASSUME ServiceInv, request \in Requests, ComesUp
  PROVE  /\ Ascent /\ stage = "up" /\ stage' = "up" /\ at[level] \in 1 .. Len(hooks[level])
         /\ at'[level] = at[level] - 1 /\ \A l \in Levels : l # level => at'[l] = at[l]
         /\ UNCHANGED <<level, hooks, ends, request, token, scope, fetched, page, found, data>>
         /\ Hook \in Kinds
BY AscentAt, PostLeaves, ServiceTypes DEF ComesUp, TypeOK

\* Only what is answered with success is cached with its value.
LEMMA FillCacheIs ==
  ASSUME ServiceInv, request \in Requests, FillCache
  PROVE  \/ UNCHANGED cache
         \/ /\ level = "handler"
            /\ cache' = [cache EXCEPT !["handler"] = [code |-> "ok", value |-> "listing"]]
         \/ /\ level = "issuer" /\ Code \in {"ok", "not_found"}
            /\ found \in {Nothing, "ship"} /\ (found # Nothing => Code = "ok")
            /\ cache' = [cache EXCEPT !["issuer"] = [code |-> Code, value |-> found]]
<1>. USE ServiceTypes
<1>1. Ascent /\ Hook = "caching"
  BY DEF FillCache, Ascent, CacheMissed
<1>2. stage = "up" /\ at[level] \in 1 .. Len(hooks[level])
  BY <1>1, AscentAt
<1>. SUFFICES ASSUME Code \in CodesToCache[level]
              PROVE  \/ /\ level = "handler"
                        /\ cache' = [cache EXCEPT !["handler"] = [code |-> "ok", value |-> "listing"]]
                     \/ /\ level = "issuer" /\ Code \in {"ok", "not_found"}
                        /\ found \in {Nothing, "ship"} /\ (found # Nothing => Code = "ok")
                        /\ cache' = [cache EXCEPT !["issuer"] = [code |-> Code, value |-> found]]
  BY DEF FillCache
<1>3. Code \in {"ok", "not_found"}
  BY DEF CodesToCache
<1>4. outcome = Status(Code)
  BY <1>3, OutcomesAre DEF Code, TypeOK
<1>5. CASE level = "handler"
  <2>1. Code = "ok" /\ request = "listStarShips"
    BY <1>1, <1>2, <1>5, HookOfOurs DEF CodesToCache
  <2>2. data = "listing"
    BY <1>2, <1>4, <1>5, <2>1 DEF Listed
  <2>. QED
    BY <1>5, <2>1, <2>2 DEF FillCache
<1>6. CASE level = "issuer"
  <2>1. request \in Ships
    BY <1>1, <1>2, <1>6, HookOfOurs DEF Ships
  <2>2. found # Nothing => outcome = Status("ok")
    BY <1>2, <1>6, <2>1 DEF Known
  <2>3. found # Nothing => Code = "ok"
    BY <1>4, <2>2 DEF Status
  <2>. QED
    BY <1>3, <1>6, <2>3 DEF FillCache, TypeOKService
<1>. QED
  BY <1>5, <1>6

LEMMA TypesAreKept ==
  ASSUME ServiceInv, request # "other", OurRequest
  PROVE  TypeOKService'
<1>. USE ServiceTypes
<1>1. CASE NextRequest
  <2>1. Begins(HooksOf(request))'
    BY <1>1 DEF NextRequest, Begins
  <2>2. HooksOf(request') \in [Levels -> Seq(Kinds)]
    BY <1>1, HooksAre DEF NextRequest
  <2>3. TypeOK'
    BY <1>1, <2>2, OutcomesAre, CodesAre DEF NextRequest, TypeOK
  <2>4. InvalidElement \in [code : Codes, value : {Nothing, "listing", "part", "ship"}]
    BY CodesAre DEF InvalidElement
  <2>5. cache' \in [Levels -> [code : Codes, value : {Nothing, "listing", "part", "ship"}]]
    BY <1>1, <2>4 DEF NextRequest, TypeOKService
  <2>6. page' \in 0 .. MaxPages /\ fetched' \in Seq(1 .. MaxPages)
    BY <1>1, ServiceAssumption DEF NextRequest
  <2>. QED
    BY <1>1, <2>3, <2>5, <2>6 DEF NextRequest, TypeOKService
<1>2. CASE ~NextRequest
  <2>0. TypeOK' /\ UNCHANGED <<request, token>>
    BY <1>2, OursAreSteps, Stepping, Consequences DEF IInv, PipelineInv
  <2>1. scope' \subseteq {"read", "write"}
    <3>1. CASE Authenticate
      BY <3>1 DEF Authenticate, TypeOKService, Granted
    <3>2. CASE UNCHANGED scope
      BY <3>2 DEF TypeOKService
    <3>. QED
      BY <1>2, <3>1, <3>2
         DEF OurRequest, Authorize, Enter, UseCache, MissCache, FillCache, BadBody, IssueToShips,
             FetchPage, CallSucceeds, CallFails, Ascend, CoreEnds, Respond, serviceVars
  <2>2. page' \in 0 .. MaxPages /\ fetched' \in Seq(1 .. MaxPages)
    <3>1. CASE FetchPage
      <4>1. page' = page + 1 /\ page < MaxPages /\ page \in 0 .. MaxPages /\ MaxPages \in Nat
        BY <3>1, ServiceAssumption DEF FetchPage, TypeOKService
      <4>2. page + 1 \in 1 .. MaxPages /\ fetched' = Append(fetched, page + 1)
        BY <3>1, <4>1 DEF FetchPage
      <4>. QED
        BY <4>1, <4>2, AppendProperties DEF TypeOKService
    <3>2. CASE UNCHANGED fetched /\ page' \in {page, 0}
      BY <3>2, ServiceAssumption DEF TypeOKService
    <3>. QED
      BY <1>2, <3>1, <3>2, OurSteps
         DEF GoesOn, Returning, IsRefused, UseCache, BadBody, CallSucceeds, CallFails, ComesUp,
             CoreEnds, Respond, serviceVars
  <2>3. found' \in {Nothing, "ship"} /\ data' \in {Nothing, "listing", "part", "ship", "update"}
    <3>1. CASE UseCache
      <4>1. cache[level].value \in {Nothing, "listing", "part", "ship"}
        BY DEF TypeOKService
      <4>2. /\ level = "handler" => cache[level].value = "listing"
            /\ level = "issuer" => cache[level].value \in {Nothing, "ship"}
        BY <3>1 DEF UseCache, CachesHold
      <4>. QED
        BY <3>1, <4>1, <4>2 DEF UseCache, TypeOKService
    <3>2. CASE ~UseCache
      BY <1>2, <3>2, OurSteps
         DEF GoesOn, Returning, IsRefused, BadBody, CallSucceeds, CallFails, ComesUp,
             CoreEnds, Respond, FetchPage, serviceVars, TypeOKService
    <3>. QED
      BY <3>1, <3>2
  <2>4. cache' \in [Levels -> [code : Codes, value : {Nothing, "listing", "part", "ship"}]]
    <3>1. CASE FillCache
      <4>1. request \in Requests
        BY DEF TypeOKService
      <4>. QED
        BY <3>1, <4>1, FillCacheIs, CodesAre DEF TypeOKService
    <3>2. CASE UNCHANGED cache
      BY <3>2 DEF TypeOKService
    <3>. QED
      BY <1>2, <3>1, <3>2
         DEF OurRequest, Authenticate, Authorize, Enter, UseCache, MissCache, BadBody, IssueToShips,
             FetchPage, CallSucceeds, CallFails, Ascend, CoreEnds, Respond, serviceVars
  <2>. QED
    BY <2>0, <2>1, <2>2, <2>3, <2>4 DEF TypeOKService
<1>. QED
  BY <1>1, <1>2

-----------------------------------------------------------------------------
\* The way down: the next hook is reached.
LEMMA PreProcessIs ==
  ASSUME ServiceInv, PreProcess
  PROVE  /\ stage = "down" /\ stage' = "down" /\ at[level] \in 1 .. Len(hooks[level])
         /\ at'[level] = at[level] + 1 /\ \A l \in Levels : l # level => at'[l] = at[l]
         /\ UNCHANGED <<level, hooks, outcome, ends>>
BY ServiceTypes DEF PreProcess, Down, Innermost, Nested, TypeOK

\* Only the claim's hook, and what is past it, gives way to a request.
LEMMA AuthorizedIsKept ==
  ASSUME ServiceInv, request # "other", OurRequest, ~NextRequest
  PROVE  Authorized'
<1>. USE ServiceTypes
<1>0. request \in Requests /\ UNCHANGED <<request, token, hooks>>
  BY OursAreSteps DEF TypeOKService
<1>1. CASE Authenticate
  <2>1. level = "handler" /\ at["handler"] = 2 /\ scope' = Granted[token] /\ UNCHANGED data
    <3>1. stage = "down" /\ Hook = "token" /\ at[level] \in 1 .. Len(hooks[level])
      BY <1>1 DEF Authenticate, Reached, Innermost, Nested
    <3>. QED
      BY <1>0, <1>1, <3>1, HookOfOurs DEF Authenticate
  <2>2. CASE PreProcess
    BY <1>0, <2>1, <2>2, PreProcessIs DEF Authorized
  <2>3. CASE Refuse
    BY <1>0, <2>1, <2>3 DEF Refuse, Return, Up, Authorized
  <2>. QED
    BY <1>1, <2>2, <2>3 DEF Authenticate
<1>2. CASE Authorize
  <2>1. level = "handler" /\ at["handler"] = 4 /\ UNCHANGED <<scope, data>> /\ stage = "down"
    <3>1. stage = "down" /\ Hook = "claim" /\ at[level] \in 1 .. Len(hooks[level])
      BY <1>2 DEF Authorize, Reached, Innermost, Nested
    <3>. QED
      BY <1>0, <1>2, <3>1, HookOfOurs DEF Authorize, serviceVars
  <2>2. CASE PreProcess /\ Required(request) \in scope
    BY <1>0, <2>1, <2>2, PreProcessIs DEF Authorized, Required
  <2>3. CASE Refuse
    BY <1>0, <2>1, <2>3 DEF Refuse, Return, Up, Authorized, Required
  <2>. QED
    BY <1>2, <2>2, <2>3 DEF Authorize
<1>3. CASE PreProcess /\ Hook \notin {"token", "claim"} /\ UNCHANGED serviceVars
  <2>1. CASE level = "issuer"
    BY <1>0, <1>3, <2>1, PreProcessIs DEF Authorized, Required, serviceVars
  <2>2. CASE level = "handler"
    <3>1. at["handler"] \in {1, 3, 5}
      BY <1>0, <1>3, <2>2, PreProcessIs, HookOfOurs
    <3>. QED
      BY <1>0, <1>3, <2>2, <3>1, PreProcessIs DEF Authorized, Required, serviceVars
  <2>. QED
    BY <2>1, <2>2
<1>4. CASE Process /\ UNCHANGED serviceVars
  BY <1>0, <1>4 DEF Process, Down, Authorized, Required, serviceVars, TypeOK
<1>5. CASE Issue /\ UNCHANGED serviceVars
  <2>1. level = "handler" /\ stage = "down" /\ at["handler"] > 4
    BY <1>0, <1>5, FunctionIs DEF Issue
  <2>. QED
    BY <1>0, <1>5, <2>1 DEF Issue, Authorized, Required, serviceVars
<1>6. CASE RetryRequest /\ UNCHANGED serviceVars
  <2>1. level = "issuer"
    <3>1. Hook = "retry" /\ at[level] \in 1 .. Len(hooks[level])
      BY <1>6 DEF RetryRequest, Ascends, Retries, Nested
    <3>. QED
      BY <1>0, <3>1, HookOfOurs
  <2>. QED
    BY <1>0, <1>6, <2>1 DEF RetryRequest, Authorized, Required, serviceVars
<1>7. CASE Returning
  <2>1. UNCHANGED data \/ (level = "handler" /\ at["handler"] > 4 /\ stage = "down")
    <3>1. CASE UseCache /\ level = "handler"
      <4>1. stage = "down" /\ Hook = "caching" /\ at[level] \in 1 .. Len(hooks[level])
        BY <3>1 DEF UseCache, Reached, Innermost, Nested
      <4>. QED
        BY <1>0, <3>1, <4>1, HookOfOurs
    <3>. QED
      BY <1>7, <3>1 DEF Returning, IsRefused, UseCache, BadBody, CallSucceeds, CallFails, serviceVars
  <2>. QED
    BY <1>0, <1>7, <2>1, ReturningIs DEF Authorized, Required
<1>8. CASE ComesUp
  BY <1>0, <1>8, ComesUpIs DEF Authorized, Required
<1>9. CASE CoreEnds
  BY <1>0, <1>9 DEF CoreEnds, CallOver, Authorized, Required
<1>10. CASE Respond \/ FetchPage
  BY <1>0, <1>10 DEF Respond, RequestOver, FetchPage, Authorized, Required, vars, serviceVars
<1>. QED
  <2>1. CASE Enter
    <3>1. CASE Refuse
      <4>1. IsRefused
        BY <2>1, <3>1 DEF Enter, IsRefused, serviceVars
      <4>. QED
        BY <1>7, <4>1 DEF Returning
    <3>2. CASE ~Refuse /\ ~Process
      <4>1. Hook \notin {"token", "claim"} /\ PreProcess /\ UNCHANGED serviceVars
        BY <2>1, <3>2 DEF Enter, Reached
      <4>. QED
        BY <1>3, <4>1
    <3>. QED
      BY <1>4, <2>1, <3>1, <3>2 DEF Enter
  <2>2. CASE MissCache
    BY <1>3, <2>2 DEF MissCache, Reached
  <2>3. CASE IssueToShips
    BY <1>5, <2>3 DEF IssueToShips
  <2>4. CASE Ascend
    <3>1. RetryRequest \/ ComesUp
      BY <2>4 DEF Ascend, ComesUp, Ascent, serviceVars
    <3>. QED
      BY <1>6, <1>8, <2>4, <3>1 DEF Ascend
  <2>5. CASE FillCache
    BY <1>8, <2>5 DEF FillCache, ComesUp, Ascent
  <2>. QED
    BY <1>1, <1>2, <1>7, <1>9, <1>10, <2>1, <2>2, <2>3, <2>4, <2>5 DEF OurRequest, Returning

\* Whoever goes on goes down.
LEMMA GoesOnIs ==
  ASSUME GoesOn
  PROVE  /\ stage' \in {"compose", "down"}
         /\ UNCHANGED <<hooks, outcome, ends, request, token, fetched, page, found, data, cache>>
BY DEF GoesOn, Process, PreProcess, Issue, RetryRequest, Down

\* The statuses with which the guards of this service refuse
LEMMA Refusals ==
  ASSUME ServiceInv, request \in Requests, Refuse
  PROVE  /\ outcome' \in {Status("unauthenticated"), Status("permission_denied"), Status("unavailable")}
         /\ stage = "down" /\ at[level] \in 1 .. Len(hooks[level])
         /\ level = "issuer" => at[level] = 3 /\ outcome' = Status("unavailable")
<1>1. /\ stage = "down" /\ at[level] \in 1 .. Len(hooks[level])
      /\ Hook \in Guards /\ outcome' = Refusal(Hook)
  BY ServiceTypes DEF Refuse, Innermost, Nested, Return, Up
<1>. QED
  BY <1>1, HookOfOurs DEF Guards, Refusal

\* The parts of a listing, and what its success stands for
LEMMA ListedIsKept ==
  ASSUME ServiceInv, request # "other", OurRequest, ~NextRequest
  PROVE  Listed'
<1>. USE ServiceTypes
<1>. SUFFICES ASSUME request = "listStarShips" PROVE Listed'
  BY OursAreSteps DEF Listed
<1>0. request \in Requests /\ UNCHANGED <<request, token, hooks>>
  BY OursAreSteps DEF Requests
<1>1. CASE GoesOn
  BY <1>0, <1>1, GoesOnIs DEF Listed
<1>2. CASE Returning
  <2>0. /\ \A p \in 1 .. page' : p \in ToSet(fetched)
        /\ UNCHANGED <<level, fetched>> /\ stage = "down" /\ stage' = "up"
    <3>1. page' \in {page, 0}
      BY <1>2 DEF Returning, IsRefused, UseCache, BadBody, CallSucceeds, CallFails, serviceVars
    <3>. QED
      BY <1>0, <1>2, <3>1, ReturningIs DEF Listed
  <2>1. CASE IsRefused
    <3>1. /\ outcome' # Status("ok")
          /\ level = "issuer" => at["issuer"] = 3 /\ outcome' = Status("unavailable")
      BY <1>0, <2>1, Refusals DEF IsRefused, Status
    <3>2. level = "issuer" => at'["issuer"] = 2 /\ outcome'.what \in AllErrorCodes
      BY <1>0, <1>2, <3>1, ReturningIs DEF Status, AllErrorCodes, Codes, ToHttpStatusCode
    <3>. QED
      BY <1>0, <2>0, <3>1, <3>2 DEF Listed
  <2>2. CASE UseCache
    <3>1. level = "handler"
      <4>1. stage = "down" /\ Hook = "caching" /\ at[level] \in 1 .. Len(hooks[level])
        BY <2>2 DEF UseCache, Reached, Innermost, Nested
      <4>. QED
        BY <1>0, <4>1, HookOfOurs
    <3>2. data' = "listing"
      BY <2>2, <3>1 DEF UseCache, CachesHold
    <3>. QED
      BY <1>0, <2>0, <3>1, <3>2 DEF Listed
  <2>3. CASE CallSucceeds
    <3>1. level = "issuer" /\ outcome' = Status("ok") /\ page = MaxPages
      BY <2>3 DEF CallSucceeds, FunctionOf, CallEnds, Return, Up
    <3>2. AllPages'
      BY <1>0, <2>0, <3>1 DEF AllPages, Listed
    <3>. QED
      BY <1>0, <2>0, <3>1, <3>2 DEF Listed
  <2>4. CASE CallFails
    <3>1. /\ level = "issuer" /\ at["issuer"] > 4
          /\ outcome'.thrown \/ outcome'.what \in AllErrorCodes
      <4>1. level = "issuer" /\ outcome' \in CalleeErrors /\ stage = "down" /\ Innermost(level)
        BY <2>4 DEF CallFails, FunctionOf, CallEnds, Return, Up
      <4>. QED
        BY <1>0, <4>1, FunctionIs, CalleeErrorsAre
    <3>2. at'["issuer"] > 0
      BY <1>0, <1>2, <3>1, ReturningIs
    <3>3. ~outcome'.thrown => outcome' # Status("ok")
      BY <3>1, CodesAre DEF Status
    <3>. QED
      BY <1>0, <2>0, <3>1, <3>2, <3>3 DEF Listed
  <2>5. ~BadBody
    BY DEF BadBody
  <2>. QED
    BY <1>2, <2>1, <2>2, <2>3, <2>4, <2>5 DEF Returning
<1>3. CASE ComesUp
  <2>0. /\ stage = "up" /\ stage' = "up" /\ at[level] \in 1 .. Len(hooks[level]) /\ Hook \in Kinds
        /\ UNCHANGED <<level, hooks, ends, request, token, scope, fetched, page, found, data>>
        /\ at'[level] = at[level] - 1 /\ Ascent
    BY <1>0, <1>3, ComesUpIs
  <2>1. outcome' = Status("ok") => outcome = Status("ok")
    BY <2>0, PostProcessed
  <2>2. CASE level = "handler"
    BY <1>0, <2>0, <2>1, <2>2 DEF Listed
  <2>3. CASE level = "issuer"
    <3>1. Hook \notin {"exceptions", "recovery"} /\ (at[level] = 1 \/ Hook \notin Forwarding)
      BY <1>0, <2>0, <2>3, HookOfOurs DEF Forwarding
    <3>. SUFFICES ASSUME ~outcome'.thrown
                  PROVE  IF outcome' = Status("ok") THEN AllPages
                         ELSE at'["issuer"] > 0 /\ outcome'.what \in AllErrorCodes
      BY <1>0, <2>0, <2>3 DEF Listed, AllPages
    <3>2. ~outcome.thrown
      BY <2>0, <3>1, PostProcessed
    <3>3. CASE outcome = Status("ok")
      <4>1. outcome.what \notin ForwardedCodes(Hook) /\ outcome # Status("invalid")
        BY <3>3, CodesAre DEF Status, ForwardedCodes
      <4>2. outcome' = outcome
        BY <2>0, <3>2, <4>1, PostProcessed
      <4>. QED
        BY <2>0, <2>3, <3>2, <3>3, <4>2 DEF Listed
    <3>4. CASE outcome # Status("ok")
      <4>1. outcome.what \in AllErrorCodes /\ outcome # Status("invalid")
        BY <2>0, <2>3, <3>2, <3>4, CodesAre DEF Listed, Status
      <4>2. Hook \notin Forwarding
        <5>1. ASSUME at[level] = 1 PROVE FALSE
          <6>1. Hook = "forwarding"
            BY <1>0, <2>0, <2>3, <5>1, HookOfOurs
          <6>2. outcome' = Thrown("forwarded")
            BY <2>0, <3>2, <4>1, <6>1, PostProcessed DEF ForwardedCodes
          <6>. QED
            BY <6>2 DEF Thrown
        <5>. QED
          BY <3>1, <5>1
      <4>3. at[level] # 1
        BY <1>0, <2>0, <2>3, <4>2, HookOfOurs DEF Forwarding
      <4>4. outcome' = outcome
        BY <2>0, <3>2, <4>1, <4>2, PostProcessed
      <4>. QED
        BY <2>0, <2>3, <3>4, <4>1, <4>3, <4>4
    <3>. QED
      BY <3>3, <3>4
  <2>. QED
    BY <2>2, <2>3
<1>4. CASE CoreEnds
  <2>1. level = "issuer" /\ stage = "up" /\ at["issuer"] = 0 /\ level' = "handler" /\ stage' = "up"
    BY <1>4 DEF CoreEnds, CallOver
  <2>2. outcome' = Status("ok") => data' = "listing"
    <3>1. CASE outcome.thrown
      BY <1>4, <3>1 DEF CoreEnds, Status
    <3>2. CASE ~outcome.thrown
      <4>1. AllPages
        BY <2>1, <3>2 DEF Listed
      <4>. QED
        BY <1>4, <3>2, <4>1 DEF CoreEnds
    <3>. QED
      BY <3>1, <3>2
  <2>. QED
    BY <1>0, <1>4, <2>1, <2>2 DEF CoreEnds, Listed
<1>5. CASE Respond
  BY <1>0, <1>5 DEF Respond, RequestOver, Listed, serviceVars
<1>6. CASE FetchPage
  <2>1. /\ page' = page + 1 /\ fetched' = Append(fetched, page + 1) /\ UNCHANGED <<vars, data>>
        /\ level = "issuer" /\ stage = "down" /\ page \in Nat /\ fetched \in Seq(1 .. MaxPages)
    BY <1>6, ServiceAssumption DEF FetchPage, FunctionOf, TypeOKService
  <2>2. \A p \in 1 .. page' : p \in ToSet(fetched')
    <3>1. Len(fetched) \in Nat /\ \A i \in 1 .. Len(fetched) : fetched'[i] = fetched[i]
      BY <2>1, AppendProperties
    <3>2. Len(fetched') = Len(fetched) + 1 /\ fetched'[Len(fetched) + 1] = page + 1
      BY <2>1, AppendProperties
    <3>3. ToSet(fetched) \cup {page + 1} \subseteq ToSet(fetched')
      BY <2>1, <3>1, <3>2 DEF ToSet
    <3>4. \A p \in 1 .. page : p \in ToSet(fetched)
      BY DEF Listed
    <3>. QED
      BY <2>1, <3>3, <3>4
  <2>. QED
    BY <1>0, <2>1, <2>2 DEF Listed, vars
<1>. QED
  BY <1>1, <1>2, <1>3, <1>4, <1>5, <1>6, OurSteps

\* A ship that is found, and one that is not known
LEMMA KnownIsKept ==
  ASSUME ServiceInv, request # "other", OurRequest, ~NextRequest
  PROVE  Known'
<1>. USE ServiceTypes
<1>. SUFFICES ASSUME request \in Ships PROVE Known'
  BY OursAreSteps DEF Known
<1>0. request \in Requests /\ request # "listStarShips" /\ UNCHANGED <<request, token, hooks>>
  BY OursAreSteps DEF Ships
<1>1. CASE GoesOn
  <2>1. /\ stage' \in {"compose", "down"}
        /\ UNCHANGED <<hooks, outcome, ends, request, token, fetched, page, found, data, cache>>
    BY <1>1, GoesOnIs
  <2>2. CASE RetryRequest
    <3>1. stage = "up" /\ Code \in Retried /\ UNCHANGED level
      BY <2>2 DEF RetryRequest, Ascends, Retries
    <3>2. level = "issuer"
      <4>1. Hook = "retry" /\ at[level] \in 1 .. Len(hooks[level])
        BY <2>2 DEF RetryRequest, Ascends, Retries, Nested
      <4>. QED
        BY <1>0, <4>1, HookOfOurs
    <3>3. outcome # Status("ok")
      BY <3>1 DEF Code, Retried, Status
    <3>. QED
      BY <1>0, <2>1, <3>1, <3>2, <3>3 DEF Known
  <2>3. CASE Process \/ PreProcess \/ Issue
    <3>1. /\ stage \in {"compose", "down"}
          /\ UNCHANGED level \/ (level = "handler" /\ level' = "issuer")
      BY <2>3 DEF Process, PreProcess, Issue
    <3>. QED
      BY <1>0, <2>1, <3>1 DEF Known
  <2>. QED
    BY <1>1, <2>2, <2>3 DEF GoesOn
<1>2. CASE Returning
  <2>0. /\ UNCHANGED level /\ stage = "down" /\ stage' = "up" /\ ends'[level] = outcome'
        /\ level = "handler" => ends'["issuer"] = Status("ok")
    BY <1>0, <1>2, ReturningIs DEF Known
  <2>1. level = "issuer" /\ found' # Nothing => outcome' = Status("ok")
    <3>1. CASE UseCache
      BY <3>1 DEF UseCache, CacheHit, Return, Up, CachesHold
    <3>2. CASE CallSucceeds
      BY <3>2 DEF CallSucceeds, CallEnds, Return, Up
    <3>3. CASE UNCHANGED found
      BY <2>0, <3>3 DEF Known
    <3>. QED
      BY <1>2, <3>1, <3>2, <3>3
         DEF Returning, IsRefused, BadBody, CallFails, serviceVars
  <2>2. Status("ok") # Status("not_found")
    BY DEF Status
  <2>. QED
    BY <1>0, <2>0, <2>1, <2>2 DEF Known
<1>3. CASE ComesUp
  <2>0. /\ stage = "up" /\ stage' = "up" /\ at[level] \in 1 .. Len(hooks[level]) /\ Hook \in Kinds
        /\ UNCHANGED <<level, hooks, ends, request, token, scope, fetched, page, found, data>>
        /\ at'[level] = at[level] - 1 /\ Ascent
    BY <1>0, <1>3, ComesUpIs
  <2>1. CASE level = "issuer"
    <3>1. outcome \in {Status("ok"), Status("not_found")} => outcome' = outcome
      <4>1. "ok" \notin ForwardedCodes(Hook) /\ "not_found" \notin ForwardedCodes(Hook)
        BY <1>0, <2>0, <2>1, HookOfOurs, CodesAre DEF ForwardedCodes
      <4>. QED
        BY <2>0, <4>1, PostProcessed DEF Status
    <3>2. Status("ok") # Status("not_found")
      BY DEF Status
    <3>. QED
      BY <1>0, <2>0, <2>1, <3>1, <3>2 DEF Known
  <2>2. CASE level = "handler"
    <3>1. ASSUME ends["issuer"] = Status("not_found")
          PROVE  outcome' = IF at["handler"] - 1 >= 3 THEN Thrown("out_of_range")
                            ELSE Status("out_of_range")
      <4>0. outcome = IF at["handler"] >= 3 THEN Thrown("out_of_range") ELSE Status("out_of_range")
        BY <2>0, <2>2, <3>1 DEF Known
      <4>1. CASE at["handler"] = 4
        <5>1. Hook = "claim" /\ outcome = Thrown("out_of_range") /\ outcome.thrown
          BY <1>0, <2>0, <2>2, <4>0, <4>1, HookOfOurs DEF Thrown
        <5>2. outcome' = outcome
          BY <2>0, <5>1, PostProcessed DEF Guards
        <5>. QED
          BY <4>1, <5>1, <5>2
      <4>2. CASE at["handler"] = 3
        <5>1. /\ Hook = "exceptions" /\ outcome = Thrown("out_of_range") /\ outcome.thrown
              /\ MappedCode(outcome.what) = "out_of_range"
          BY <1>0, <2>0, <2>2, <4>0, <4>2, HookOfOurs DEF Thrown, MappedCode
        <5>2. outcome' = Status("out_of_range")
          BY <2>0, <5>1, PostProcessed
        <5>. QED
          BY <4>2, <5>2
      <4>3. CASE at["handler"] \in {1, 2}
        <5>1. /\ Hook \in {"logging", "token"} /\ outcome = Status("out_of_range")
              /\ ~outcome.thrown /\ outcome # Status("invalid")
          BY <1>0, <2>0, <2>2, <4>0, <4>3, HookOfOurs DEF Status
        <5>2. outcome' = outcome
          BY <2>0, <5>1, PostProcessed DEF Forwarding
        <5>. QED
          BY <4>3, <5>1, <5>2
      <4>. QED
        BY <1>0, <2>0, <2>2, <4>1, <4>2, <4>3, HookOfOurs
    <3>. QED
      BY <1>0, <2>0, <2>2, <3>1 DEF Known
  <2>. QED
    BY <2>1, <2>2
<1>4. CASE CoreEnds
  <2>1. /\ level = "issuer" /\ stage = "up" /\ at["issuer"] = 0 /\ level' = "handler" /\ stage' = "up"
        /\ at'["handler"] = at["handler"] - 1 /\ ends'["issuer"] = ends["issuer"]
    BY <1>4 DEF CoreEnds, CallOver, TypeOK
  <2>2. at'["handler"] >= 3
    <3>1. at["handler"] = Len(hooks["handler"]) + 1 /\ Len(hooks["handler"]) \in 4 .. 5
      BY <1>0, <2>1, LensOfOurs DEF Nested
    <3>2. /\ \A m \in 4 .. 5 : m + 1 \in 5 .. 6
          /\ \A n \in 5 .. 6 : n - 1 >= 3
      OBVIOUS
    <3>3. at["handler"] \in 5 .. 6
      BY <3>1, <3>2
    <3>. QED
      BY <2>1, <3>2, <3>3
  <2>3. ends["issuer"] = Status("not_found") => outcome' = Thrown("out_of_range")
    <3>. SUFFICES ASSUME ends["issuer"] = Status("not_found") PROVE outcome' = Thrown("out_of_range")
      OBVIOUS
    <3>1. outcome = Status("not_found")
      BY <2>1 DEF Known
    <3>2. ~outcome.thrown /\ outcome # Status("ok")
      BY <3>1 DEF Status
    <3>3. found = Nothing
      BY <2>1, <3>2 DEF Known
    <3>. QED
      BY <1>0, <1>4, <3>2, <3>3 DEF CoreEnds
  <2>. QED
    BY <1>0, <2>1, <2>2, <2>3 DEF Known
<1>5. CASE Respond
  BY <1>0, <1>5 DEF Respond, RequestOver, Known, serviceVars
<1>6. CASE FetchPage
  BY <1>0, <1>6 DEF FetchPage, vars, Known
<1>. QED
  BY <1>1, <1>2, <1>3, <1>4, <1>5, <1>6, OurSteps

LEMMA CachesAreKept ==
  ASSUME ServiceInv, request # "other", OurRequest
  PROVE  CachesHold'
<1>. USE ServiceTypes
<1>0. request \in Requests /\ cache \in [Levels -> [code : Codes, value : {Nothing, "listing", "part", "ship"}]]
  BY DEF TypeOKService
<1>1. CASE UNCHANGED cache
  BY <1>1 DEF CachesHold
<1>2. CASE FillCache
  <2>1. CASE cache' = [cache EXCEPT !["handler"] = [code |-> "ok", value |-> "listing"]]
    BY <1>0, <2>1 DEF CachesHold
  <2>2. CASE /\ Code \in {"ok", "not_found"} /\ found \in {Nothing, "ship"}
             /\ (found # Nothing => Code = "ok")
             /\ cache' = [cache EXCEPT !["issuer"] = [code |-> Code, value |-> found]]
    BY <1>0, <2>2 DEF CachesHold
  <2>. QED
    BY <1>0, <1>1, <1>2, <2>1, <2>2, FillCacheIs
<1>3. CASE NextRequest
  BY <1>0, <1>3 DEF NextRequest, CachesHold, InvalidElement
<1>. QED
  BY <1>1, <1>2, <1>3
     DEF OurRequest, Authenticate, Authorize, Enter, UseCache, MissCache, BadBody, IssueToShips,
         FetchPage, CallSucceeds, CallFails, Ascend, CoreEnds, Respond, serviceVars

\* The next request begins like the first one, but for the caches.
LEMMA NextBegins ==
  ASSUME ServiceInv, NextRequest
  PROVE  IInv' /\ Composed' /\ Authorized' /\ Listed' /\ Known'
<1>1. Begins(HooksOf(request))' /\ request' \in Requests
  BY DEF NextRequest, Begins
<1>2. HooksOf(request') \in [Levels -> Seq(Kinds)]
  BY <1>1, HooksAre
<1>3. IInv'
  BY <1>1, <1>2, BeginningNext
<1>4. /\ level' = "handler" /\ stage' = "compose" /\ hooks' = HooksOf(request') /\ page' = 0
      /\ data' = Nothing /\ found' = Nothing /\ ends'["issuer"] = Status("ok") /\ page' = 0
  BY DEF NextRequest, Levels
<1>. QED
  BY <1>3, <1>4 DEF Composed, Authorized, Listed, Known

-----------------------------------------------------------------------------
LEMMA InitiallyServed == InitService => ServiceInv
<1>. SUFFICES ASSUME InitService PROVE ServiceInv
  OBVIOUS
<1>1. request \in Requests \cup {"other"} /\ Begins(HooksOf(request))
  BY DEF InitService
<1>2. HooksOf(request) \in [Levels -> Seq(Kinds)]
  <2>1. request = "other" => HooksOf(request) = Globals
    BY DEF HooksOf
  <2>. QED
    BY <1>1, <2>1, HooksAre, HooksAssumption
<1>3. IInv /\ TypeOK
  BY <1>1, <1>2, Beginning, Consequences
<1>4. TypeOKService /\ CachesHold
  <2>1. /\ token \in DOMAIN Granted /\ scope \subseteq {"read", "write"}
        /\ fetched = << >> /\ page = 0 /\ found = Nothing /\ data = Nothing
        /\ cache = [l \in Levels |-> InvalidElement]
    BY DEF InitService, Granted
  <2>2. InvalidElement \in [code : Codes, value : {Nothing, "listing", "part", "ship"}]
    BY CodesAre DEF InvalidElement
  <2>3. cache \in [Levels -> [code : Codes, value : {Nothing, "listing", "part", "ship"}]]
    BY <2>1, <2>2
  <2>4. TypeOKService
    BY <1>1, <1>3, <2>1, <2>3, ServiceAssumption DEF TypeOKService
  <2>5. CachesHold
    BY <2>1 DEF CachesHold, InvalidElement, Levels
  <2>. QED
    BY <2>4, <2>5
<1>5. Composed /\ Authorized /\ Listed /\ Known
  <2>1. /\ level = "handler" /\ stage = "compose" /\ page = 0 /\ data = Nothing /\ found = Nothing
        /\ hooks = HooksOf(request) /\ ends["issuer"] = Status("ok")
    BY <1>1 DEF Begins, InitService, Levels
  <2>. QED
    BY <2>1 DEF Composed, Authorized, Listed, Known
<1>. QED
  BY <1>3, <1>4, <1>5 DEF ServiceInv

\* A request of another service is one that the pipeline takes care of.
LEMMA OthersAreServed ==
  ASSUME ServiceInv, OtherRequest
  PROVE  ServiceInv'
<1>1. IInv' /\ TypeOK'
  BY ServiceTypes, NextIsAnyStep, Stepping, Consequences DEF OtherRequest, IInv, PipelineInv
<1>2. request' = "other" /\ UNCHANGED serviceVars
  BY DEF OtherRequest, serviceVars
<1>3. TypeOKService' /\ CachesHold'
  BY <1>1, <1>2, ServiceTypes DEF TypeOKService, CachesHold, serviceVars
<1>. QED
  BY <1>1, <1>2, <1>3 DEF ServiceInv, Composed, Authorized, Listed, Known, Ships, Requests

LEMMA OursAreServed ==
  ASSUME ServiceInv, request # "other", OurRequest
  PROVE  ServiceInv'
<1>1. CASE NextRequest
  BY <1>1, NextBegins, TypesAreKept, CachesAreKept DEF ServiceInv
<1>2. CASE ~NextRequest
  <2>1. IInv'
    BY <1>2, OursAreSteps, Stepping, ServiceTypes
  <2>2. Composed'
    BY <1>2, OursAreSteps, ServiceTypes DEF Composed
  <2>. QED
    BY <1>2, <2>1, <2>2, TypesAreKept, AuthorizedIsKept, ListedIsKept, KnownIsKept, CachesAreKept
       DEF ServiceInv
<1>. QED
  BY <1>1, <1>2

\* The service keeps its invariant, whatever the callee answers, whatever the
\* metadata bring, and whatever another service does with the same hooks.
THEOREM ServiceInvariance == SpecService => []ServiceInv
<1>1. ServiceInv /\ [NextService]_allVars => ServiceInv'
  <2>. SUFFICES ASSUME ServiceInv, [NextService]_allVars PROVE ServiceInv'
    OBVIOUS
  <2>1. CASE OtherRequest
    BY <2>1, OthersAreServed
  <2>2. CASE OurRequest
    BY <2>2, OursAreServed DEF OurRequest
  <2>3. CASE UNCHANGED allVars
    <3>1. UNCHANGED vars /\ UNCHANGED serviceVars
      BY <2>3 DEF allVars
    <3>2. IInv' /\ TypeOK'
      BY <3>1, ServiceTypes, Stepping DEF AnyStep, IInv, PipelineInv
    <3>. QED
      BY <3>1, <3>2, ServiceTypes
         DEF vars, serviceVars, ServiceInv, TypeOKService, Composed, Authorized, Listed, AllPages,
             Known, CachesHold
  <2>. QED
    BY <2>1, <2>2, <2>3 DEF NextService
<1>. QED
  BY <1>1, InitiallyServed, PTL DEF SpecService

-----------------------------------------------------------------------------
\* Whatever hooks a request of any service goes through, the ones that were
\* entered are left again before the processor is: RequestProcessor::Process
\* nests its hooks.
THEOREM HooksAreNested == SpecService => []PostsMirrorPres
<1>1. ServiceInv => PostsMirrorPres
  BY Consequences DEF ServiceInv
<1>. QED
  BY <1>1, ServiceInvariance, PTL

\* With an ExceptionHandling hook that no ErrorForwarding hook is outside of,
\* the handler answers with a status.
THEOREM HandlersAnswer == SpecService => []HandlerAnswers
<1>1. ServiceInv => HandlerAnswers
  BY Consequences DEF ServiceInv
<1>. QED
  BY <1>1, ServiceInvariance, PTL

\* With ErrorForwarding and ExceptionHandling used as they are meant to be, the
\* error status of a callee reaches the caller as "unavailable".
THEOREM CalleeErrorsReachTheCaller == SpecService => []CalleeErrorsAreForwarded
<1>1. ServiceInv => CalleeErrorsAreForwarded
  BY Consequences DEF ServiceInv
<1>. QED
  BY <1>1, ServiceInvariance, PTL

\* The order of the hooks of the handler is what keeps data, cached ones too,
\* from requests whose token does not grant the scope required.
THEOREM NothingForTheUnauthorized == SpecService => []OnlyAuthorizedAreServed
<1>1. ServiceInv => OnlyAuthorizedAreServed
  BY ServiceTypes DEF Authorized, OnlyAuthorizedAreServed
<1>. QED
  BY <1>1, ServiceInvariance, PTL

\* However many attempts it takes, and whatever the callee answers to each, a
\* listing that is answered with success, now or from the cache, is complete.
THEOREM ListingsAreComplete == SpecService => []AnsweredListingIsComplete
<1>1. ServiceInv => AnsweredListingIsComplete
  <2>. SUFFICES ASSUME ServiceInv, stage = "done", request = "listStarShips", Response = 200
                PROVE  data = "listing"
    BY ServiceTypes DEF AnsweredListingIsComplete, CachesHold
  <2>1. level = "handler" /\ outcome \in Outcomes
    BY ServiceTypes DEF Nested, TypeOK
  <2>2. ~outcome.thrown /\ outcome.what # "invalid" /\ ToHttpStatusCode[outcome.what] = 200
    BY DEF Response
  <2>3. outcome = Status("ok")
    BY <2>1, <2>2, OutcomesAre, HttpStatusCodes
  <2>. QED
    BY <2>1, <2>3, ServiceTypes DEF Listed
<1>. QED
  BY <1>1, ServiceInvariance, PTL

\* A ship that the callee does not know, which ErrorForwarding lets pass, is a
\* bad request of the caller, from the cache or not.
THEOREM UnknownShipsAreTheClients == SpecService => []UnknownShipIsAClientError
<1>1. ServiceInv => UnknownShipIsAClientError
  <2>. SUFFICES ASSUME ServiceInv, stage = "done", request \in {"getStarShip", "updateStatus"},
                       ends["issuer"] = Status("not_found")
                PROVE  Response = 400
    BY DEF UnknownShipIsAClientError
  <2>1. level = "handler" /\ at["handler"] = 0 /\ request \in Ships
    BY ServiceTypes DEF Nested, Ships, Requests
  <2>2. ~(0 >= 3)
    OBVIOUS
  <2>3. outcome = Status("out_of_range")
    BY <2>1, <2>2, ServiceTypes DEF Known
  <2>4. Response = 400
    BY <2>3, HttpStatusCodes DEF Response, Status
  <2>. QED
    BY <2>4
<1>. QED
  BY <1>1, ServiceInvariance, PTL
=============================================================================
