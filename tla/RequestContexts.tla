--------------------------- MODULE RequestContexts ---------------------------
(***************************************************************************)
(* The contexts that requests construct, on top of module Context.  A      *)
(* RequestProcessor holds the context it was given; a RequestHandler       *)
(* assigns it to the thread-local context; Process constructs one more     *)
(* context for the request, a child of the one the processor holds.  The   *)
(* function of a request may process further requests, and may construct   *)
(* contexts of its own.  One thread is modelled: threads share nothing but *)
(* the global context, which the program changes between requests only.    *)
(* The places in memory bound how many requests and contexts are nested.   *)
(*                                                                         *)
(* Every step is a step of a program over contexts (module Context), which *)
(* has to keep the parents of contexts alive.                              *)
(***************************************************************************)
EXTENDS Context, Naturals, Sequences, FiniteSets

VARIABLE frames   \* the processors of the thread, the innermost one last

requestVars == <<vars, frames>>

\* own, request: the processor's _context and the request_context of Process;
\* current: the thread-local context was last assigned from this frame;
\* visible (history): what the thread-local context should hold then.
Frame == [kind: {"handler", "issuer"}, own: Objects, request: Objects \cup {None},
          stage: {"constructed", "stored", "running", "ended"},
          current: BOOLEAN, visible: Values \cup {None}]

TypeOKRequests == TypeOK /\ frames \in Seq(Frame)

Depth == Len(frames)
Top == frames[Depth]
Running == frames # << >> => Top.stage = "running"

\* The contexts of the program itself
Locals == (live \ {Global, ThreadLocal}) \ UNION {{f.own, f.request} : f \in {frames[i] : i \in DOMAIN frames}}

\* The program's obligations.  The parent of a context that is given to a
\* handler is the thread-local context or below it, or outlives the thread;
\* and a function's own contexts end before it does.
MayGive(p) == p = Global \/ ThreadLocal \in Chain(p)
NoLocalBelow(c) == \A x \in Locals : parent[x] # c

TopGoes(from, to) == frames # << >> /\ Top.stage = from
                       /\ frames' = [frames EXCEPT ![Depth].stage = to]

-----------------------------------------------------------------------------
InitRequests == Init /\ frames = << >>

\* RequestHandler or RequestIssuer: the context it is given, with its parent
\* and metadata, is moved into _context.
ConstructProcessor(kind, c, p, v) ==
  /\ Running
  /\ Cardinality(Objects \ live) > 1   \* room for request_context, too
  /\ MayGive(p)
  /\ Construct(c, p, v)
  /\ frames' = Append(frames, [kind |-> kind, own |-> c, request |-> None, stage |-> "constructed",
                               current |-> FALSE, visible |-> v])

\* The thread-local context now belongs to the innermost frame.
TakesThread(stage) ==
  frames' = [i \in DOMAIN frames |->
               IF i = Depth THEN [frames[i] EXCEPT !.stage = stage, !.current = (stage = "stored")]
                            ELSE [frames[i] EXCEPT !.current = FALSE]]

\* Mutant: metadata of an earlier request remain if the new one brings none.
StoreAdding == /\ frames # << >> /\ Top.stage = "constructed" /\ Top.kind = "handler"
               /\ IF data[Top.own] # None
                  THEN \/ AssignFromChild(ThreadLocal, Top.own, FALSE)
                       \/ AssignWithParent(ThreadLocal, Top.own, FALSE)
                  ELSE UNCHANGED vars
               /\ TakesThread("stored")

\* RequestHandler::Process: the thread-local context is assigned ...
Store == /\ frames # << >> /\ Top.stage = "constructed" /\ Top.kind = "handler"
         /\ \/ AssignFromChild(ThreadLocal, Top.own, FALSE)
            \/ AssignWithParent(ThreadLocal, Top.own, FALSE)
         /\ TakesThread("stored")

\* ... which throws for a context that is further below the thread-local
\* context than its children; the metadata have been replaced all the same.
StoreThrows == /\ frames # << >> /\ Top.stage = "constructed" /\ Top.kind = "handler"
               /\ AssignThrows(ThreadLocal, Top.own, FALSE)
               /\ TakesThread("ended")

\* RequestProcessor::Process: the name of the request is not the key modelled.
ConstructRequest(c) ==
  /\ frames # << >>
  /\ Top.stage = IF Top.kind = "handler" THEN "stored" ELSE "constructed"
  /\ Construct(c, Top.own, None)
  /\ frames' = [frames EXCEPT ![Depth].stage = "running", ![Depth].request = c]

\* Hooks are allowed to change the context of the request ...
HookChanges(v) == /\ frames # << >> /\ Running
                  /\ IF v = None THEN Erase(Top.request) ELSE Insert(Top.request, v)
                  /\ UNCHANGED frames

\* ... and any code adds to the thread-local one.
Annotate(v) == /\ frames # << >> /\ Running
               /\ Insert(ThreadLocal, v)
               /\ frames' = [i \in DOMAIN frames |->
                               IF frames[i].current /\ frames[i].visible = None
                               THEN [frames[i] EXCEPT !.visible = v] ELSE frames[i]]

\* Mutant: the processor is destroyed while the context of the request lives.
EndRequestLast == /\ TopGoes("running", "ended")
                  /\ NoLocalBelow(Top.request) /\ NoLocalBelow(Top.own)
                  /\ Destroyed(Top.own)

\* Process ends, with a status or an exception: request_context is destroyed,
EndRequest == /\ TopGoes("running", "ended")
              /\ NoLocalBelow(Top.request) /\ NoLocalBelow(Top.own)
              /\ Destroyed(Top.request)

\* and, at the end of the statement, the processor with its _context.
EndProcessor == /\ frames # << >> /\ Top.stage = "ended"
                /\ Destroyed(Top.own)
                /\ frames' = SubSeq(frames, 1, Depth - 1)

\* The program's own contexts
Local(c) == /\ Running
            /\ \/ \E p \in live, v \in Values \cup {None} : Construct(c, p, v)
               \/ \E other \in live, moved \in BOOLEAN :
                    /\ moved => other \in Locals
                    /\ ConstructFrom(c, other, moved) \/ (c \in Locals /\ Assign(c, other, moved))
               \/ c \in Locals /\ Destroy(c)
            /\ UNCHANGED frames

\* The global context is changed between requests only.
ChangeGlobal == /\ frames = << >>
                /\ \/ \E v \in Values : Insert(Global, v)
                   \/ Erase(Global)
                   \/ \E c \in Locals, moved \in BOOLEAN : AssignToGlobal(c, moved)
                /\ UNCHANGED frames

NextRequests ==
  \/ \E kind \in {"handler", "issuer"}, c \in Objects, p \in live, v \in Values \cup {None} :
       ConstructProcessor(kind, c, p, v)
  \/ Store \/ StoreThrows
  \/ \E c \in Objects : ConstructRequest(c)
  \/ \E v \in Values \cup {None} : HookChanges(v)
  \/ \E v \in Values : Annotate(v)
  \/ EndRequest \/ EndProcessor
  \/ \E c \in Objects : Local(c)
  \/ ChangeGlobal

SpecRequests == InitRequests /\ [][NextRequests]_requestVars

-----------------------------------------------------------------------------
\* Whatever requests and functions do, it is a program over contexts: above
\* all, no context is destroyed before those that refer to it as their parent,
\* nor is the thread-local context left with a parent that is gone.
KeepsParentsAlive == Spec

\* While the innermost handler runs, the metadata its request brought, and
\* nothing of an earlier request of the thread, is found in the thread-local
\* context and by the requests issued with a default context.
Visible(i) == IF frames[i].visible # None THEN {frames[i].visible} ELSE Found(Global)
IssuedPlainly(j) == /\ frames[j].kind = "issuer" /\ frames[j].stage = "running"
                    /\ parent[frames[j].own] = ThreadLocal
                    /\ data[frames[j].own] = None /\ data[frames[j].request] = None
RequestIsVisible ==
  \A i \in DOMAIN frames : frames[i].current =>
    /\ Found(ThreadLocal) = Visible(i)
    /\ \A j \in i + 1 .. Depth : IssuedPlainly(j) => Found(frames[j].request) = Visible(i)
=============================================================================
