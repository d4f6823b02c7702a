------------------------------- MODULE Context -------------------------------
(***************************************************************************)
(* The Context objects one thread can reach: the global context, the       *)
(* thread-local context of the thread, and contexts the program constructs *)
(* and destroys.  A context refers to its parent by a plain pointer;       *)
(* assigning one context to another copies the pointer, too.  Lookups and  *)
(* GetAllMetadata follow the pointers without any check, so that a cycle   *)
(* would make them run for ever.                                           *)
(*                                                                         *)
(* The metadata are abstracted to one key, and to the first of its values. *)
(***************************************************************************)
CONSTANTS Objects,      \* places in memory for contexts
          Global,       \* the one of GetGlobalContext()
          ThreadLocal,  \* the one of GetThreadLocalContext()
          None,         \* nullptr, and no value
          Values,       \* values of the key
          MayCopyGlobal \* is the global context ever copied to another one?

ASSUME ObjectsAssumption == /\ Global \in Objects /\ ThreadLocal \in Objects
                            /\ Global # ThreadLocal
                            /\ None \notin Objects
ASSUME CopyAssumption == MayCopyGlobal \in BOOLEAN

VARIABLES live,    \* the contexts that exist
          parent,  \* _parent_context, None for those that do not exist
          data     \* _metadata

vars == <<live, parent, data>>

TypeOK == /\ live \subseteq Objects /\ {Global, ThreadLocal} \subseteq live
          /\ parent \in [Objects -> Objects \cup {None}]
          /\ data \in [Objects -> Values \cup {None}]

-----------------------------------------------------------------------------
\* The objects reached through parents: the least set that contains the
\* parent of c and the parents of its members.
Closed(S) == \A x \in S : parent[x] \in S \cup {None}
Ancestors(c) ==
  {a \in Objects : \A S \in SUBSET (Objects \ {a}) :
                      parent[c] \in S \cup {None} => ~Closed(S)}
Chain(c) == {c} \cup Ancestors(c)

\* At, AtOr and Contains: the value in the nearest context of the chain that
\* has one; empty if there is none.
Found(c) == LET holders == {x \in Chain(c) : data[x] # None}
            IN {data[x] : x \in {y \in holders : holders \ {y} \subseteq Ancestors(y)}}

Init == /\ live = {Global, ThreadLocal}
        /\ parent = [c \in Objects |-> IF c = ThreadLocal THEN Global ELSE None]
        /\ data = [c \in Objects |-> None]

\* With a parent that is given; by default it is the thread-local context.
Construct(c, p, v) == /\ c \in Objects \ live /\ p \in live
                      /\ live' = live \cup {c}
                      /\ parent' = [parent EXCEPT ![c] = p]
                      /\ data' = [data EXCEPT ![c] = v]

Source(other) == other \in live /\ (other = Global => MayCopyGlobal)

\* The metadata are copied or moved in any case.
Transfer(c, other, moved) ==
  data' = [data EXCEPT ![c] = data[other], ![other] = IF moved THEN None ELSE @]

\* Copy and move constructor
ConstructFrom(c, other, moved) ==
  /\ c \in Objects \ live /\ Source(other)
  /\ live' = live \cup {c}
  /\ parent' = [parent EXCEPT ![c] = parent[other]]
  /\ Transfer(c, other, moved)

\* operator=: the global context never gets a parent ...
AssignToGlobal(other, moved) ==
  /\ Source(other) /\ other # Global
  /\ parent' = [parent EXCEPT ![Global] = None]
  /\ Transfer(Global, other, moved)
  /\ UNCHANGED live

\* Mutant: the child's parent is not spared.
AssignFromChildDetaches(c, other, moved) ==
  /\ c \in live \ {Global} /\ Source(other) /\ other # c
  /\ parent[other] = c
  /\ parent' = [parent EXCEPT ![c] = None]
  /\ Transfer(c, other, moved)
  /\ UNCHANGED live

\* ... a child leaves the parent of its parent as it is ...
AssignFromChild(c, other, moved) ==
  /\ c \in live \ {Global} /\ Source(other) /\ other # c
  /\ parent[other] = c
  /\ Transfer(c, other, moved)
  /\ UNCHANGED <<live, parent>>

\* Mutant: further descendants are not refused.
AssignFromDescendant(c, other, moved) ==
  /\ c \in live \ {Global} /\ Source(other) /\ other # c
  /\ parent[other] # c
  /\ parent' = [parent EXCEPT ![c] = parent[other]]
  /\ Transfer(c, other, moved)
  /\ UNCHANGED live

\* ... and otherwise the parent is copied,
AssignWithParent(c, other, moved) ==
  /\ c \in live \ {Global} /\ Source(other) /\ other # c
  /\ UNCHANGED live
  /\ Transfer(c, other, moved)
  /\ parent' = [parent EXCEPT ![c] = parent[other]]
  /\ parent[other] # c /\ c \notin Ancestors(other)

\* unless a cycle would arise: an exception is thrown, but the metadata are
\* not restored.
AssignThrows(c, other, moved) ==
  /\ c \in live \ {Global} /\ Source(other) /\ other # c
  /\ Transfer(c, other, moved)
  /\ UNCHANGED <<live, parent>>
  /\ parent[other] # c /\ c \in Ancestors(other)

\* The metadata are a multimap: of several values for a key, At finds the one
\* that was inserted first.  Erase and Clear remove all of them.
Insert(c, v) == /\ c \in live
                /\ data' = [data EXCEPT ![c] = IF @ = None THEN v ELSE @]
                /\ UNCHANGED <<live, parent>>

Erase(c) == /\ c \in live
            /\ data' = [data EXCEPT ![c] = None]
            /\ UNCHANGED <<live, parent>>

Destroyed(c) == /\ live' = live \ {c}
                /\ parent' = [parent EXCEPT ![c] = None]
                /\ data' = [data EXCEPT ![c] = None]

\* The program's obligation: a parent outlives its children.
Destroy(c) == /\ c \in live \ {Global, ThreadLocal}
              /\ \A x \in live : parent[x] # c
              /\ Destroyed(c)

Assign(c, other, moved) == \/ AssignFromChild(c, other, moved)
                           \/ AssignWithParent(c, other, moved)
                           \/ AssignThrows(c, other, moved)

Next == \E c \in Objects :
          \/ \E p \in Objects, v \in Values \cup {None} : Construct(c, p, v)
          \/ \E other \in Objects, moved \in BOOLEAN :
               ConstructFrom(c, other, moved) \/ Assign(c, other, moved)
          \/ \E moved \in BOOLEAN : AssignToGlobal(c, moved)
          \/ \E v \in Values : Insert(c, v)
          \/ Erase(c)
          \/ Destroy(c)

Spec == Init /\ [][Next]_vars

-----------------------------------------------------------------------------
\* Whatever is assigned to whatever, no context becomes its own ancestor, so
\* that lookups and GetAllMetadata end.
NoContextIsItsOwnAncestor == \A c \in Objects : c \notin Ancestors(c)

\* Every context inherits the metadata of the global context.
AllInheritGlobal == \A c \in live \ {Global} : Global \in Ancestors(c)

\* A copy sees what the original saw, its parents' metadata included (unless a
\* child is assigned to its parent, which then loses its own metadata).
CopiesSeeTheSame ==
  [][\A c \in live', other \in live :
       (\E moved \in BOOLEAN : ConstructFrom(c, other, moved) \/ AssignWithParent(c, other, moved))
         => Found(c)' = Found(other)]_vars
=============================================================================
