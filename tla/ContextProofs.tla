---------------------------- MODULE ContextProofs ----------------------------
(***************************************************************************)
(* Proofs about modules Context and RequestContexts, for any number of     *)
(* contexts, and of requests that are nested.                              *)
(*                                                                         *)
(* IInv is inductive for any program over contexts: the parents are        *)
(* well-founded, so that no context is its own ancestor.  The lemmas about *)
(* lookups do not mention a state, so that they apply before a step and    *)
(* after it; what a copy finds follows from them.                          *)
(*                                                                         *)
(* RInv is inductive for requests: it says how the contexts of the frames  *)
(* are nested, who may have one of them as a parent, and what the          *)
(* thread-local context holds.  From it follows that a request never       *)
(* destroys a parent, hence that requests are programs over contexts.      *)
(***************************************************************************)
EXTENDS RequestContexts, SequenceTheorems, TLAPS

\* No set of contexts is closed without a way out: each nonempty set has a
\* member whose parent is not in it.
WellFounded == \A S \in SUBSET Objects : S # {} => \E x \in S : parent[x] \notin S

ParentsLive == \A c \in Objects : parent[c] # None => c \in live /\ parent[c] \in live

GlobalParent == parent[Global] = None

IInv == TypeOK /\ ParentsLive /\ GlobalParent /\ WellFounded

-----------------------------------------------------------------------------
(* Lookups, for parents and metadata before a step and after it alike      *)
Parents == [Objects -> Objects \cup {None}]
Data == [Objects -> Values \cup {None}]

ClosedIn(up, S) == \A x \in S : up[x] \in S \cup {None}
Above(up, c) ==
  {a \in Objects : \A S \in SUBSET (Objects \ {a}) :
                      up[c] \in S \cup {None} => ~ClosedIn(up, S)}
Acyclic(up) == \A c \in Objects : c \notin Above(up, c)

LookedUp(up, held, c) ==
  LET holders == {x \in {c} \cup Above(up, c) : held[x] # None}
  IN {held[x] : x \in {y \in holders : holders \ {y} \subseteq Above(up, y)}}

LEMMA Before ==
  ASSUME NEW c
  PROVE  /\ Ancestors(c) = Above(parent, c)
         /\ Found(c) = LookedUp(parent, data, c)
BY DEF Ancestors, Closed, Found, Chain, Above, ClosedIn, LookedUp

LEMMA After ==
  ASSUME NEW c
  PROVE  /\ Ancestors(c)' = Above(parent', c)
         /\ Found(c)' = LookedUp(parent', data', c)
BY DEF Ancestors, Closed, Found, Chain, Above, ClosedIn, LookedUp

LEMMA AboveClosed ==
  ASSUME NEW up \in Parents, NEW c \in Objects
  PROVE  /\ Above(up, c) \in SUBSET Objects /\ ClosedIn(up, Above(up, c))
         /\ up[c] \in Above(up, c) \cup {None}
<1> DEFINE A == Above(up, c)
<1>1. A \in SUBSET Objects
  BY DEF Above
<1>2. up[c] \in A \cup {None}
  BY DEF Above, Parents
<1>3. ASSUME NEW x \in A, up[x] # None, up[x] \notin A  PROVE FALSE
  <2>1. up[x] \in Objects
    BY <1>1, <1>3 DEF Parents
  <2>2. PICK S \in SUBSET (Objects \ {up[x]}) : up[c] \in S \cup {None} /\ ClosedIn(up, S)
    BY <1>3, <2>1 DEF Above
  <2>3. x \notin S
    BY <1>3, <2>2 DEF ClosedIn
  <2>4. S \in SUBSET (Objects \ {x})
    BY <2>2, <2>3
  <2> QED  BY <1>3, <2>2, <2>4 DEF Above
<1> QED  BY <1>1, <1>2, <1>3 DEF ClosedIn

LEMMA AboveLeast ==
  ASSUME NEW up, NEW c, NEW S \in SUBSET Objects, ClosedIn(up, S), up[c] \in S \cup {None}
  PROVE  Above(up, c) \subseteq S
BY DEF Above

LEMMA AboveTransitive ==
  ASSUME NEW up \in Parents, NEW c \in Objects, NEW y \in Above(up, c)
  PROVE  Above(up, y) \subseteq Above(up, c)
<1>1. Above(up, c) \in SUBSET Objects /\ ClosedIn(up, Above(up, c))
  BY AboveClosed
<1>2. up[y] \in Above(up, c) \cup {None}
  BY <1>1 DEF ClosedIn
<1> QED  BY <1>1, <1>2, AboveLeast

LEMMA AboveIs ==
  ASSUME NEW up \in Parents, NEW c \in Objects
  PROVE  Above(up, c) = IF up[c] = None THEN {} ELSE {up[c]} \cup Above(up, up[c])
<1>1. CASE up[c] = None
  <2>1. {} \in SUBSET Objects /\ ClosedIn(up, {})
    BY DEF ClosedIn
  <2>2. Above(up, c) \subseteq {}
    BY <1>1, <2>1, AboveLeast
  <2> QED  BY <1>1, <2>2
<1>2. CASE up[c] # None
  <2> DEFINE p == up[c]
             T == {p} \cup Above(up, p)
  <2>1. p \in Objects /\ p \in Above(up, c)
    BY <1>2, AboveClosed DEF Parents
  <2>2. T \in SUBSET Objects /\ ClosedIn(up, T) /\ p \in T
    BY <2>1, AboveClosed DEF ClosedIn
  <2>3. Above(up, c) \subseteq T
    BY <2>2, AboveLeast
  <2>4. Above(up, p) \subseteq Above(up, c)
    BY <2>1, AboveTransitive
  <2> QED  BY <1>2, <2>1, <2>3, <2>4
<1> QED  BY <1>1, <1>2

\* Context::AtOr: a context that lacks the key asks its parent.
LEMMA Lookup ==
  ASSUME NEW up \in Parents, Acyclic(up), NEW held, NEW c \in Objects
  PROVE  LookedUp(up, held, c) =
           IF held[c] # None THEN {held[c]}
           ELSE IF up[c] = None THEN {} ELSE LookedUp(up, held, up[c])
<1> DEFINE H(x) == {y \in {x} \cup Above(up, x) : held[y] # None}
           N(x) == {y \in H(x) : H(x) \ {y} \subseteq Above(up, y)}
<1>0. \A x : LookedUp(up, held, x) = {held[y] : y \in N(x)}
  BY DEF LookedUp
<1>1. CASE held[c] # None
  <2>1. c \in H(c) /\ H(c) \ {c} \subseteq Above(up, c)
    BY <1>1
  <2>2. ASSUME NEW y \in N(c), y # c  PROVE FALSE
    <3>1. y \in Above(up, c) /\ c \in Above(up, y)
      BY <2>1, <2>2
    <3>2. c \in Above(up, c)
      BY <3>1, AboveTransitive
    <3> QED  BY <3>2 DEF Acyclic
  <2>3. N(c) = {c}
    BY <2>1, <2>2
  <2> QED  BY <1>0, <1>1, <2>3
<1>2. CASE held[c] = None /\ up[c] = None
  <2>1. Above(up, c) = {}
    BY <1>2, AboveIs
  <2>2. N(c) = {}
    BY <1>2, <2>1
  <2> QED  BY <1>0, <1>2, <2>2
<1>3. CASE held[c] = None /\ up[c] # None
  <2>1. Above(up, c) = {up[c]} \cup Above(up, up[c])
    BY <1>3, AboveIs
  <2>2. H(c) = H(up[c])
    BY <1>3, <2>1
  <2>3. N(c) = N(up[c])
    BY <2>2
  <2> QED  BY <1>0, <1>3, <2>3
<1> QED  BY <1>1, <1>2, <1>3

\* What is not in a closed set does not change the lookups in it.
LEMMA SameAbove ==
  ASSUME NEW up \in Parents, NEW to \in Parents, NEW S \in SUBSET Objects, ClosedIn(up, S),
         \A x \in S : to[x] = up[x], NEW c \in S
  PROVE  Above(to, c) = Above(up, c) /\ Above(up, c) \subseteq S
<1> DEFINE A == Above(up, c)
           B == Above(to, c)
<1>1. c \in Objects /\ up[c] \in S \cup {None} /\ to[c] = up[c] /\ ClosedIn(to, S)
  BY DEF ClosedIn
<1>2. A \subseteq S /\ B \subseteq S
  BY <1>1, AboveLeast
<1>3. ClosedIn(up, A) /\ up[c] \in A \cup {None} /\ ClosedIn(to, B) /\ to[c] \in B \cup {None}
  BY <1>1, AboveClosed
<1>4. ClosedIn(to, A) /\ ClosedIn(up, B) /\ A \in SUBSET Objects /\ B \in SUBSET Objects
  BY <1>2, <1>3 DEF ClosedIn
<1>5. B \subseteq A
  BY <1>1, <1>3, <1>4, AboveLeast
<1>6. A \subseteq B
  BY <1>1, <1>3, <1>4, AboveLeast
<1> QED  BY <1>2, <1>5, <1>6

LEMMA SameLookup ==
  ASSUME NEW up \in Parents, NEW to \in Parents, NEW S \in SUBSET Objects, ClosedIn(up, S),
         NEW held, NEW holding,
         \A x \in S : to[x] = up[x] /\ holding[x] = held[x], NEW c \in S
  PROVE  LookedUp(to, holding, c) = LookedUp(up, held, c)
<1>1. \A x \in S : Above(to, x) = Above(up, x) /\ Above(up, x) \subseteq S
  BY SameAbove
<1> DEFINE chain == {c} \cup Above(up, c)
           H(h) == {x \in chain : h[x] # None}
<1>2. chain \subseteq S /\ H(held) = H(holding) /\ H(held) \subseteq S
  BY <1>1
<1>3. LookedUp(up, held, c) = {held[x] : x \in {y \in H(held) : H(held) \ {y} \subseteq Above(up, y)}}
  BY DEF LookedUp
<1>4. LookedUp(to, holding, c) = {holding[x] : x \in {y \in H(holding) : H(holding) \ {y} \subseteq Above(to, y)}}
  BY <1>1 DEF LookedUp
<1> QED  BY <1>1, <1>2, <1>3, <1>4

-----------------------------------------------------------------------------
\* Ancestors(c) is closed, contains the parent of c, and is the least such set.
LEMMA AncestorsClosed ==
  ASSUME TypeOK, NEW c \in Objects
  PROVE  /\ Ancestors(c) \in SUBSET Objects
         /\ Closed(Ancestors(c))
         /\ parent[c] \in Ancestors(c) \cup {None}
BY Before, AboveClosed DEF TypeOK, Parents, Closed, ClosedIn

LEMMA AncestorsLeast ==
  ASSUME NEW c \in Objects, NEW S \in SUBSET Objects,
         Closed(S), parent[c] \in S \cup {None}
  PROVE  Ancestors(c) \subseteq S
BY DEF Ancestors

-----------------------------------------------------------------------------
\* Changing the parent of c to p keeps the parents well-founded if p lies in a
\* closed set that does not contain c.
LEMMA Redirected ==
  ASSUME TypeOK, WellFounded,
         NEW c \in Objects, NEW A \in SUBSET Objects, Closed(A), c \notin A,
         NEW p \in A \cup {None},
         parent' = [parent EXCEPT ![c] = p]
  PROVE  WellFounded'
<1>1. SUFFICES ASSUME NEW S \in SUBSET Objects, S # {},
                      \A x \in S : parent'[x] \in S
               PROVE  FALSE
  BY DEF WellFounded
<1>2. \A x \in Objects \ {c} : parent'[x] = parent[x]
  BY DEF TypeOK
<1>3. c \in S
  <2>1. SUFFICES ASSUME c \notin S  PROVE FALSE
    OBVIOUS
  <2>2. \A x \in S : parent[x] \in S
    BY <1>1, <1>2, <2>1
  <2> QED  BY <1>1, <2>2 DEF WellFounded
<1>4. parent'[c] = p
  BY DEF TypeOK
<1>5. p \in S
  BY <1>1, <1>3, <1>4
<1>6. p \in A
  BY <1>5, ObjectsAssumption
<1> DEFINE T == S \cap A
<1>7. T \in SUBSET Objects /\ T # {}
  BY <1>5, <1>6
<1>8. ASSUME NEW x \in T  PROVE parent[x] \in T
  <2>1. x # c /\ x \in Objects
    OBVIOUS
  <2>2. parent[x] \in S
    BY <1>1, <1>2, <2>1
  <2>3. parent[x] \in A
    BY <2>2, ObjectsAssumption DEF Closed
  <2> QED  BY <2>2, <2>3
<1> QED  BY <1>7, <1>8 DEF WellFounded

\* A context whose parent is removed, or that is new, does no harm either.
LEMMA Detached ==
  ASSUME TypeOK, WellFounded, NEW c \in Objects, parent' = [parent EXCEPT ![c] = None]
  PROVE  WellFounded'
<1>1. Closed({}) /\ {} \in SUBSET Objects
  BY DEF Closed
<1> QED  BY <1>1, Redirected

\* The contexts that exist are closed under parents.
LEMMA LiveClosed ==
  ASSUME TypeOK, ParentsLive
  PROVE  live \in SUBSET Objects /\ Closed(live)
BY DEF TypeOK, ParentsLive, Closed

-----------------------------------------------------------------------------
\* The global and the thread-local context, as they are constructed.
LEMMA Initially == Init => IInv
<1> SUFFICES ASSUME Init  PROVE IInv
  OBVIOUS
<1> USE ObjectsAssumption DEF Init
<1>1. TypeOK
  BY DEF TypeOK
<1>2. ParentsLive /\ GlobalParent
  BY DEF ParentsLive, GlobalParent
<1>3. WellFounded
  <2> SUFFICES ASSUME NEW S \in SUBSET Objects, S # {}
               PROVE  \E x \in S : parent[x] \notin S
    BY DEF WellFounded
  <2>1. CASE Global \in S
    BY <2>1
  <2>2. CASE Global \notin S
    BY <2>2
  <2> QED  BY <2>1, <2>2
<1> QED  BY <1>1, <1>2, <1>3 DEF IInv

\* A context that is constructed, with a parent or as a copy, does not yet
\* belong to the closed set of those that exist.
LEMMA Constructed ==
  ASSUME IInv, NEW c \in Objects \ live, NEW p \in live \cup {None},
         live' = live \cup {c}, parent' = [parent EXCEPT ![c] = p],
         data' \in [Objects -> Values \cup {None}]
  PROVE  IInv'
<1> USE ObjectsAssumption DEF IInv
<1>1. TypeOK'
  BY DEF TypeOK
<1>2. ParentsLive' /\ GlobalParent'
  BY DEF TypeOK, ParentsLive, GlobalParent
<1>3. WellFounded'
  BY LiveClosed, Redirected
<1> QED  BY <1>1, <1>2, <1>3

\* Assigning the parent of other to c is harmless if c is no ancestor of other.
LEMMA Assigned ==
  ASSUME IInv, NEW c \in live \ {Global}, NEW other \in live,
         c \notin Ancestors(other), parent' = [parent EXCEPT ![c] = parent[other]],
         UNCHANGED live, data' \in [Objects -> Values \cup {None}]
  PROVE  IInv'
<1> USE ObjectsAssumption DEF IInv
<1>0. c \in Objects /\ other \in Objects
  BY DEF TypeOK
<1>1. parent[other] \in live \cup {None}
  BY <1>0 DEF ParentsLive
<1>2. TypeOK'
  BY <1>1 DEF TypeOK
<1>3. ParentsLive' /\ GlobalParent'
  BY <1>1 DEF TypeOK, ParentsLive, GlobalParent
<1>4. WellFounded'
  BY <1>0, AncestorsClosed, Redirected
<1> QED  BY <1>2, <1>3, <1>4

\* A step that touches the metadata only.
LEMMA DataOnly ==
  ASSUME IInv, UNCHANGED <<live, parent>>, data' \in [Objects -> Values \cup {None}]
  PROVE  IInv'
BY DEF IInv, TypeOK, ParentsLive, GlobalParent, WellFounded

\* Copying or moving metadata keeps their type.
LEMMA Transferred ==
  ASSUME TypeOK, NEW c \in Objects, NEW other \in Objects, NEW moved \in BOOLEAN,
         Transfer(c, other, moved)
  PROVE  data' \in [Objects -> Values \cup {None}]
BY DEF TypeOK, Transfer

\* Every operation of Context keeps the inductive invariant.
LEMMA Inductive == IInv /\ [Next]_vars => IInv'
<1> SUFFICES ASSUME IInv, [Next]_vars  PROVE IInv'
  OBVIOUS
<1> USE ObjectsAssumption
<1>0. TypeOK
  BY DEF IInv
<1>1. ASSUME NEW c \in Objects, NEW p \in Objects, NEW v \in Values \cup {None},
             Construct(c, p, v)
      PROVE  IInv'
  <2>1. data' \in [Objects -> Values \cup {None}]
    BY <1>0, <1>1 DEF TypeOK, Construct
  <2> QED  BY <1>1, <2>1, Constructed DEF Construct
<1>2. ASSUME NEW c \in Objects, NEW other \in Objects, NEW moved \in BOOLEAN,
             ConstructFrom(c, other, moved)
      PROVE  IInv'
  <2>1. data' \in [Objects -> Values \cup {None}]
    BY <1>0, <1>2, Transferred DEF ConstructFrom
  <2>2. parent[other] \in live \cup {None}
    BY <1>0, <1>2 DEF IInv, ParentsLive, ConstructFrom, Source
  <2> QED  BY <1>2, <2>1, <2>2, Constructed DEF ConstructFrom
<1>3. ASSUME NEW c \in Objects, NEW other \in Objects, NEW moved \in BOOLEAN,
             Assign(c, other, moved)
      PROVE  IInv'
  <2>1. data' \in [Objects -> Values \cup {None}]
    BY <1>0, <1>3, Transferred DEF Assign, AssignFromChild, AssignWithParent, AssignThrows
  <2>2. CASE AssignWithParent(c, other, moved)
    BY <2>1, <2>2, Assigned DEF AssignWithParent, Source
  <2>3. CASE UNCHANGED <<live, parent>>
    BY <2>1, <2>3, DataOnly
  <2> QED  BY <1>3, <2>2, <2>3 DEF Assign, AssignFromChild, AssignThrows
<1>4. ASSUME NEW other \in Objects, NEW moved \in BOOLEAN, AssignToGlobal(other, moved)
      PROVE  IInv'
  <2>1. data' \in [Objects -> Values \cup {None}]
    BY <1>0, <1>4, Transferred DEF AssignToGlobal
  <2>2. parent' = parent
    BY <1>0, <1>4 DEF IInv, GlobalParent, TypeOK, AssignToGlobal
  <2> QED  BY <1>4, <2>1, <2>2, DataOnly DEF AssignToGlobal
<1>5. ASSUME NEW c \in Objects, NEW v \in Values, Insert(c, v)  PROVE IInv'
  <2>1. data' \in [Objects -> Values \cup {None}]
    BY <1>0, <1>5 DEF TypeOK, Insert
  <2> QED  BY <1>5, <2>1, DataOnly DEF Insert
<1>6. ASSUME NEW c \in Objects, Erase(c)  PROVE IInv'
  <2>1. data' \in [Objects -> Values \cup {None}]
    BY <1>0, <1>6 DEF TypeOK, Erase
  <2> QED  BY <1>6, <2>1, DataOnly DEF Erase
<1>7. ASSUME NEW c \in Objects, Destroy(c)  PROVE IInv'
  <2>1. TypeOK'
    BY <1>0, <1>7 DEF TypeOK, Destroy, Destroyed
  <2>2. ParentsLive'
    BY <1>0, <1>7 DEF IInv, TypeOK, ParentsLive, Destroy, Destroyed
  <2>3. GlobalParent'
    BY <1>0, <1>7 DEF IInv, TypeOK, GlobalParent, Destroy, Destroyed
  <2>4. WellFounded'
    BY <1>0, <1>7, Detached DEF IInv, Destroy, Destroyed
  <2> QED  BY <2>1, <2>2, <2>3, <2>4 DEF IInv
<1>8. CASE UNCHANGED vars
  BY <1>8 DEF vars, IInv, TypeOK, ParentsLive, GlobalParent, WellFounded
<1> QED  BY <1>1, <1>2, <1>3, <1>4, <1>5, <1>6, <1>7, <1>8 DEF Next

\* Contexts are well-typed, refer to existing contexts, and form no cycle.
THEOREM Invariance == Spec => []IInv
BY Initially, Inductive, PTL DEF Spec

-----------------------------------------------------------------------------
\* A cycle would be a set of contexts without a way out.
LEMMA NoOwnAncestor == IInv => NoContextIsItsOwnAncestor
<1> SUFFICES ASSUME IInv, NEW c \in Objects, c \in Ancestors(c)  PROVE FALSE
  BY DEF NoContextIsItsOwnAncestor
<1>0. TypeOK /\ WellFounded
  BY DEF IInv
<1> DEFINE S == {y \in Ancestors(c) : c \in Ancestors(y)}
<1>1. S \in SUBSET Objects /\ c \in S
  BY <1>0, AncestorsClosed
<1>2. ASSUME NEW y \in S  PROVE parent[y] \in S
  <2> DEFINE p == parent[y]
  <2>1. y \in Objects /\ y \in Ancestors(c) /\ c \in Ancestors(y)
    BY <1>1
  <2>2. p # None
    <3>1. SUFFICES ASSUME p = None  PROVE FALSE
      OBVIOUS
    <3>2. Closed({}) /\ {} \in SUBSET Objects
      BY DEF Closed
    <3>3. Ancestors(y) \subseteq {}
      BY <2>1, <3>1, <3>2, AncestorsLeast
    <3> QED  BY <2>1, <3>3
  <2>3. p \in Ancestors(c) /\ p \in Objects
    BY <1>0, <2>1, <2>2, AncestorsClosed DEF Closed, TypeOK
  <2>4. c = p \/ c \in Ancestors(p)
    <3> DEFINE T == {p} \cup Ancestors(p)
    <3>1. Closed(T) /\ T \in SUBSET Objects
      BY <1>0, <2>3, AncestorsClosed DEF Closed
    <3>2. Ancestors(y) \subseteq T
      BY <2>1, <3>1, AncestorsLeast
    <3> QED  BY <2>1, <3>2
  <2> QED  BY <1>1, <2>3, <2>4
<1> QED  BY <1>0, <1>1, <1>2 DEF WellFounded

\* Whatever the program does with contexts, as long as it keeps parents alive,
\* no context is its own ancestor (the checks in initParentContext suffice).
THEOREM NoCycles == Spec => []NoContextIsItsOwnAncestor
BY NoOwnAncestor, Invariance, PTL

\* The only context without a parent is the global one.
Rooted == \A c \in live : parent[c] = None => c = Global

\* If the global context is never copied to another one, every other context
\* inherits its metadata, as context.h says.
THEOREM GlobalInherited == MayCopyGlobal = FALSE => (Spec => []AllInheritGlobal)
<1> SUFFICES ASSUME MayCopyGlobal = FALSE  PROVE Spec => []AllInheritGlobal
  OBVIOUS
<1> USE ObjectsAssumption
<1>1. Init => Rooted
  BY DEF Init, Rooted
<1>2. IInv /\ Rooted /\ [Next]_vars => Rooted'
  <2> SUFFICES ASSUME IInv, Rooted, [Next]_vars  PROVE Rooted'
    OBVIOUS
  <2>0. TypeOK
    BY DEF IInv
  <2>1. ASSUME NEW c \in Objects, NEW p \in Objects, NEW v \in Values \cup {None},
               Construct(c, p, v)
        PROVE  Rooted'
    BY <2>0, <2>1 DEF TypeOK, Rooted, Construct
  <2>2. ASSUME NEW c \in Objects, NEW other \in Objects, NEW moved \in BOOLEAN,
               ConstructFrom(c, other, moved)
        PROVE  Rooted'
    BY <2>0, <2>2 DEF TypeOK, Rooted, ConstructFrom, Source
  <2>3. ASSUME NEW c \in Objects, NEW other \in Objects, NEW moved \in BOOLEAN,
               Assign(c, other, moved)
        PROVE  Rooted'
    BY <2>0, <2>3 DEF TypeOK, Rooted, Assign, AssignFromChild, AssignWithParent,
                      AssignThrows, Source
  <2>4. ASSUME NEW other \in Objects, NEW moved \in BOOLEAN, AssignToGlobal(other, moved)
        PROVE  Rooted'
    BY <2>0, <2>4 DEF TypeOK, Rooted, AssignToGlobal
  <2>5. ASSUME NEW c \in Objects, Destroy(c)  PROVE Rooted'
    BY <2>0, <2>5 DEF TypeOK, Rooted, Destroy, Destroyed
  <2>6. CASE UNCHANGED <<live, parent>>
    BY <2>6 DEF Rooted
  <2> QED  BY <2>1, <2>2, <2>3, <2>4, <2>5, <2>6 DEF Next, Insert, Erase, vars
<1>3. IInv /\ Rooted => AllInheritGlobal
  <2> SUFFICES ASSUME IInv, Rooted, NEW c \in live \ {Global}
               PROVE  Global \in Ancestors(c)
    BY DEF AllInheritGlobal
  <2>0. TypeOK /\ WellFounded /\ ParentsLive /\ c \in Objects
    BY DEF IInv, TypeOK
  <2> DEFINE A == {c} \cup Ancestors(c)
  <2>1. A \in SUBSET Objects /\ Closed(A)
    BY <2>0, AncestorsClosed DEF Closed
  <2>2. Ancestors(c) \subseteq live
    BY <2>0, LiveClosed, AncestorsLeast DEF ParentsLive
  <2>3. PICK x \in A : parent[x] \notin A
    BY <2>0, <2>1 DEF WellFounded
  <2>4. parent[x] = None /\ x \in live
    BY <2>1, <2>2, <2>3 DEF Closed
  <2> QED  BY <2>3, <2>4 DEF Rooted
<1> QED  BY <1>1, <1>2, <1>3, Invariance, PTL DEF Spec

-----------------------------------------------------------------------------
LEMMA CopiedLookup ==
  ASSUME NEW up \in Parents, NEW to \in Parents, NEW held \in Data, NEW holding \in Data,
         NEW c \in Objects, NEW other \in Objects,
         Acyclic(up), Acyclic(to), to[c] = up[other], holding[c] = held[other],
         \A x \in Above(up, other) : to[x] = up[x] /\ holding[x] = held[x]
  PROVE  LookedUp(to, holding, c) = LookedUp(up, held, other)
<1> DEFINE p == up[other]
<1>1. /\ Above(up, other) \in SUBSET Objects /\ ClosedIn(up, Above(up, other))
      /\ p \in Above(up, other) \cup {None}
  BY AboveClosed
<1>2. CASE p = None
  <2>1. LookedUp(up, held, other) = IF held[other] # None THEN {held[other]} ELSE {}
    BY <1>2, Lookup
  <2>2. LookedUp(to, holding, c) = IF holding[c] # None THEN {holding[c]} ELSE {}
    BY <1>2, Lookup
  <2> QED  BY <2>1, <2>2
<1>3. CASE p # None
  <2>1. LookedUp(up, held, other) = IF held[other] # None THEN {held[other]} ELSE LookedUp(up, held, p)
    BY <1>3, Lookup
  <2>2. LookedUp(to, holding, c) = IF holding[c] # None THEN {holding[c]} ELSE LookedUp(to, holding, p)
    BY <1>3, Lookup
  <2>3. LookedUp(to, holding, p) = LookedUp(up, held, p)
    BY <1>1, <1>3, SameLookup
  <2> QED  BY <2>1, <2>2, <2>3
<1> QED  BY <1>2, <1>3

LEMMA NoCycle == IInv => parent \in Parents /\ Acyclic(parent)
BY NoOwnAncestor, Before DEF IInv, TypeOK, Parents, Acyclic, NoContextIsItsOwnAncestor

\* A copy has the parent and the metadata of the original, and nothing above
\* the original changes.
LEMMA CopySeesTheSame ==
  ASSUME IInv, IInv', NEW c \in Objects, NEW other \in Objects, c # other,
         c \notin Ancestors(other), NEW moved \in BOOLEAN, Transfer(c, other, moved),
         parent'[c] = parent[other], \A x \in Objects \ {c} : parent'[x] = parent[x]
  PROVE  Found(c)' = Found(other)
<1>1. parent \in Parents /\ Acyclic(parent)
  BY NoCycle
<1>2. parent' \in Parents /\ Acyclic(parent')
  <2>1. IInv' => (parent \in Parents /\ Acyclic(parent))'
    BY NoCycle, PTL
  <2> QED  BY <2>1 DEF Parents
<1>3. Above(parent, other) \in SUBSET Objects /\ c \notin Above(parent, other)
      /\ other \notin Above(parent, other)
  BY <1>1, AboveClosed, Before DEF Acyclic
<1>4. data \in [Objects -> Values \cup {None}]
  BY DEF IInv, TypeOK
<1>5. \A x \in Above(parent, other) : parent'[x] = parent[x] /\ data'[x] = data[x]
  BY <1>1, <1>3, <1>4 DEF Parents, Transfer
<1>6. parent'[c] = parent[other] /\ data'[c] = data[other]
  BY <1>4 DEF Transfer
<1>7. data \in Data /\ data' \in Data
  BY DEF IInv, TypeOK, Data
<1>8. LookedUp(parent', data', c) = LookedUp(parent, data, other)
  BY <1>1, <1>2, <1>5, <1>6, <1>7, CopiedLookup
<1> QED  BY <1>8, Before, After

\* A context that is constructed or assigned as a copy of another one finds
\* what the other one found, in its own metadata or in those above it.
THEOREM CopiesAgree == Spec => CopiesSeeTheSame
<1> DEFINE Copied == \A c \in live', other \in live :
             (\E moved \in BOOLEAN : ConstructFrom(c, other, moved) \/ AssignWithParent(c, other, moved))
               => Found(c)' = Found(other)
<1>1. IInv /\ IInv' => Copied
  <2> SUFFICES ASSUME IInv, IInv', NEW c \in live', NEW other \in live, NEW moved \in BOOLEAN,
                      ConstructFrom(c, other, moved) \/ AssignWithParent(c, other, moved)
               PROVE  Found(c)' = Found(other)
    OBVIOUS
  <2>1. TypeOK /\ ParentsLive /\ other \in Objects
    BY DEF IInv, TypeOK
  <2>2. CASE ConstructFrom(c, other, moved)
    <3>1. /\ c \in Objects \ live /\ Transfer(c, other, moved)
          /\ parent'[c] = parent[other] /\ \A x \in Objects \ {c} : parent'[x] = parent[x]
      BY <2>1, <2>2 DEF ConstructFrom, TypeOK
    <3>2. parent[other] \in live \cup {None} /\ live \in SUBSET Objects /\ Closed(live)
      BY <2>1, LiveClosed DEF ParentsLive
    <3>3. Ancestors(other) \subseteq live
      BY <2>1, <3>2, AncestorsLeast
    <3> QED  BY <2>1, <3>1, <3>3, CopySeesTheSame
  <2>3. CASE AssignWithParent(c, other, moved)
    <3>1. /\ c \in Objects /\ c # other /\ c \notin Ancestors(other) /\ Transfer(c, other, moved)
          /\ parent'[c] = parent[other] /\ \A x \in Objects \ {c} : parent'[x] = parent[x]
      BY <2>1, <2>3 DEF AssignWithParent, TypeOK
    <3> QED  BY <2>1, <3>1, CopySeesTheSame
  <2> QED  BY <2>2, <2>3
<1> HIDE DEF Copied
<1>2. Spec => [][Copied]_vars
  BY Invariance, <1>1, PTL DEF Spec
<1> QED  BY <1>2 DEF CopiesSeeTheSame, Copied

-----------------------------------------------------------------------------
(* The contexts of requests.  Mine: those of a frame that exist.           *)
Mine(f) == {f.own} \cup (IF f.stage = "running" THEN {f.request} ELSE {})
Places == 1 .. Depth

\* Each frame but the innermost one is running; no two share a context, and
\* none has the global or the thread-local one.
Nested ==
  /\ frames \in Seq(Frame)
  /\ \A i \in Places : i < Depth => frames[i].stage = "running"
  /\ \A i \in Places : Mine(frames[i]) \subseteq live \ {Global, ThreadLocal}
  /\ \A i, j \in Places : i # j => Mine(frames[i]) \cap Mine(frames[j]) = {}
  /\ \A i \in Places : frames[i].stage = "running" =>
       frames[i].request # frames[i].own /\ parent[frames[i].request] = frames[i].own

\* The contexts of a frame have those of inner frames below them, never above;
\* the thread-local context never refers to one that a request destroys.
ParentsOutlive ==
  /\ \A i, j \in Places : i <= j => parent[frames[i].own] \notin Mine(frames[j])
  /\ parent[ThreadLocal] = Global
  /\ frames # << >> /\ Top.stage # "running" => \A x \in Objects : parent[x] # Top.own
  /\ frames # << >> /\ Top.stage = "constructed" =>
       parent[Top.own] = Global \/ ThreadLocal \in Above(parent, Top.own)

\* What a request brings is in its own context, and then in the thread-local one.
Brought ==
  /\ frames # << >> /\ Top.stage = "constructed" => data[Top.own] = Top.visible
  /\ \A i \in Places : frames[i].current => data[ThreadLocal] = frames[i].visible

RInv == IInv /\ Nested /\ ParentsOutlive /\ Brought

LEMMA Frames ==
  ASSUME Nested
  PROVE  /\ Depth \in Nat /\ DOMAIN frames = Places
         /\ \A i \in Places :
              /\ frames[i] \in Frame /\ frames[i].own \in Objects
              /\ frames[i].own \in Mine(frames[i])
              /\ frames[i].stage = "running" => frames[i].request \in Mine(frames[i])
         /\ frames # << >> => Depth \in Places /\ Depth > 0
         /\ frames = << >> => Places = {}
<1>1. frames \in Seq(Frame) /\ Depth \in Nat /\ DOMAIN frames = Places
  BY LenProperties DEF Nested, Depth, Places
<1>2. \A i \in Places : frames[i] \in Frame
  BY <1>1, ElementOfSeq DEF Places, Depth
<1>3. frames # << >> => Depth > 0
  BY <1>1, EmptySeq DEF Depth
<1>4. frames = << >> => Depth = 0
  BY DEF Depth
<1> QED  BY <1>1, <1>2, <1>3, <1>4 DEF Frame, Mine, Places

\* The program's own contexts are none of a frame.
LEMMA LocalsAreOthers ==
  ASSUME RInv, NEW x \in Locals
  PROVE  /\ x \in live /\ x # Global /\ x # ThreadLocal
         /\ \A i \in Places : x \notin Mine(frames[i])
BY Frames DEF RInv, Locals, Mine

\* As long as a function is running, steps that leave the contexts of frames,
\* the global and the thread-local one alone preserve everything.
LEMMA OthersChange ==
  ASSUME RInv, IInv', UNCHANGED frames, Running,
         \A x \in {Global, ThreadLocal} \cup UNION {Mine(frames[i]) : i \in Places} :
           x \in live' /\ parent'[x] = parent[x] /\ data'[x] = data[x]
  PROVE  RInv'
<1> USE Frames DEF RInv
<1>1. \A i \in Places : \A x \in Mine(frames[i]) :
        x \in live' /\ parent'[x] = parent[x] /\ data'[x] = data[x]
  OBVIOUS
<1>2. Places' = Places /\ Depth' = Depth /\ Top' = Top
  BY DEF Places, Depth, Top
<1>3. Nested'
  BY <1>1, <1>2 DEF Nested
<1>4. ParentsOutlive'
  BY <1>1, <1>2 DEF ParentsOutlive, Running
<1>5. Brought'
  BY <1>1, <1>2 DEF Brought, Running
<1> QED  BY <1>3, <1>4, <1>5

\* No requests at first: only the parent of the thread-local context matters.
LEMMA InitiallyRequests == InitRequests => RInv
<1> SUFFICES ASSUME InitRequests  PROVE RInv
  OBVIOUS
<1>1. frames = << >> /\ Init /\ frames \in Seq(Frame) /\ Len(frames) = 0
  BY EmptySeq DEF InitRequests
<1>2. Places = {}
  BY <1>1 DEF Places, Depth
<1>3. parent[ThreadLocal] = Global
  BY <1>1, ObjectsAssumption DEF Init
<1>4. Nested /\ ParentsOutlive /\ Brought
  BY <1>1, <1>2, <1>3 DEF Nested, ParentsOutlive, Brought
<1> QED  BY <1>1, <1>4, Initially DEF RInv

\* What the constructor of a context leaves alone.
LEMMA Fresh ==
  ASSUME RInv, NEW c \in Objects, NEW p, NEW v, Construct(c, p, v)
  PROVE  /\ c \notin live /\ c # Global /\ c # ThreadLocal /\ c # p /\ p \in live
         /\ live' = live \cup {c}
         /\ parent'[c] = p /\ data'[c] = v
         /\ \A x \in Objects \ {c} : parent'[x] = parent[x] /\ data'[x] = data[x]
         /\ \A x \in Objects : parent[x] # c
         /\ \A i \in Places : c \notin Mine(frames[i])
<1>1. TypeOK /\ ParentsLive /\ Nested
  BY DEF RInv, IInv
<1>2. c \notin live /\ live' = live \cup {c} /\ p \in live
  BY DEF Construct
<1>3. \A x \in Objects : parent[x] # c
  BY <1>1, <1>2, ObjectsAssumption DEF ParentsLive
<1>4. \A i \in Places : c \notin Mine(frames[i])
  BY <1>1, <1>2 DEF Nested
<1> QED  BY <1>1, <1>2, <1>3, <1>4 DEF TypeOK, Construct

\* A context that exists has the same ancestors after a construction.
LEMMA FreshIsBelow ==
  ASSUME RInv, NEW c \in Objects, NEW p, NEW v, Construct(c, p, v), parent' \in Parents,
         NEW x \in live
  PROVE  Above(parent', x) = Above(parent, x)
<1>1. parent \in Parents /\ live \in SUBSET Objects /\ ClosedIn(parent, live)
  BY LiveClosed DEF RInv, IInv, TypeOK, Parents, Closed, ClosedIn
<1>2. \A y \in live : parent'[y] = parent[y]
  BY <1>1, Fresh
<1> QED  BY <1>1, <1>2, SameAbove

\* A processor takes the context it is given.
LEMMA ProcessorConstructed ==
  ASSUME RInv, IInv', NEW kind \in {"handler", "issuer"}, NEW c \in Objects, NEW p \in live,
         NEW v \in Values \cup {None}, ConstructProcessor(kind, c, p, v)
  PROVE  RInv'
<1> DEFINE n == Depth + 1
           f == [kind |-> kind, own |-> c, request |-> None, stage |-> "constructed",
                 current |-> FALSE, visible |-> v]
<1>1. /\ Nested /\ ParentsOutlive /\ Brought /\ TypeOK /\ parent' \in Parents
      /\ Construct(c, p, v)
      /\ p = Global \/ ThreadLocal \in {p} \cup Above(parent, p)
  BY Before DEF RInv, IInv, TypeOK, Parents, ConstructProcessor, MayGive, Chain
<1>2. /\ f \in Frame /\ Mine(f) = {c} /\ f.own = c /\ f.stage = "constructed"
      /\ f.current = FALSE /\ f.visible = v
  BY DEF Frame, Mine
<1>0. /\ frames' = Append(frames, f) /\ Running
  BY DEF ConstructProcessor
<1> HIDE DEF f
<1>3. /\ frames' \in Seq(Frame) /\ frames' # << >> /\ Len(frames') = n
      /\ \A i \in Places : frames'[i] = frames[i]
      /\ frames'[n] = f
  BY <1>1, <1>2, <1>0, AppendProperties DEF Nested, Places, Depth
<1>4. Depth \in Nat /\ Places = 1 .. Depth /\ \A i \in Places : frames[i] \in Frame
  BY <1>1, Frames DEF Places
<1>5. /\ Depth' = n /\ Places' = Places \cup {n} /\ n \notin Places /\ Top' = f
      /\ \A i \in Places : i < n
  BY <1>3, <1>4 DEF Depth, Places, Top
<1>6. \A i \in Places : frames[i].stage = "running"
  <2> SUFFICES ASSUME NEW i \in Places  PROVE frames[i].stage = "running"
    OBVIOUS
  <2>1. i < Depth \/ (i = Depth /\ frames # << >>)
    BY <1>1, <1>4, Frames
  <2> QED  BY <1>1, <1>0, <2>1 DEF Nested, Running, Top
<1>7. /\ c \notin live /\ c # Global /\ c # ThreadLocal /\ c # p /\ p \in Objects
      /\ live' = live \cup {c}
      /\ parent'[c] = p /\ data'[c] = v
      /\ \A x \in Objects \ {c} : parent'[x] = parent[x] /\ data'[x] = data[x]
      /\ \A x \in Objects : parent[x] # c
      /\ \A i \in Places : c \notin Mine(frames[i])
  BY <1>1, Fresh DEF TypeOK
<1>8. \A i \in Places : Mine(frames[i]) \subseteq live \ {c, Global, ThreadLocal}
  BY <1>1, <1>7 DEF Nested
<1>9. \A x \in live : x \in Objects \ {c}
  BY <1>1, <1>7 DEF TypeOK
<1>10. Nested'
  <2>1. \A i \in Places' : Mine(frames'[i]) \subseteq live' \ {Global, ThreadLocal}
    BY <1>2, <1>3, <1>5, <1>7, <1>8
  <2>2. ASSUME NEW i \in Places', NEW j \in Places', i # j
        PROVE  Mine(frames'[i]) \cap Mine(frames'[j]) = {}
    <3>1. CASE i = n \/ j = n
      BY <1>2, <1>3, <1>5, <1>7, <2>2, <3>1
    <3>2. CASE i \in Places /\ j \in Places
      BY <1>1, <1>3, <2>2, <3>2 DEF Nested
    <3> QED  BY <1>5, <3>1, <3>2
  <2>3. ASSUME NEW i \in Places', frames'[i].stage = "running"
        PROVE  frames'[i].request # frames'[i].own /\ parent'[frames'[i].request] = frames'[i].own
    <3>1. i \in Places /\ frames'[i] = frames[i] /\ frames[i].stage = "running"
      BY <1>2, <1>3, <1>5, <2>3
    <3>2. frames[i].request \in Objects \ {c}
      BY <1>1, <1>8, <1>9, <3>1, Frames
    <3> QED  BY <1>1, <1>7, <3>1, <3>2 DEF Nested
  <2>4. \A i \in Places' : i < Depth' => frames'[i].stage = "running"
    BY <1>3, <1>5, <1>6
  <2> QED  BY <1>3, <2>1, <2>2, <2>3, <2>4 DEF Nested
<1>11. ParentsOutlive'
  <2>1. ASSUME NEW i \in Places', NEW j \in Places', i <= j
        PROVE  parent'[frames'[i].own] \notin Mine(frames'[j])
    <3>1. CASE i = n
      BY <1>2, <1>3, <1>4, <1>5, <1>7, <2>1, <3>1
    <3>2. CASE i \in Places
      <4>1. frames[i].own \in Objects \ {c} /\ frames'[i] = frames[i]
        BY <1>1, <1>3, <1>8, <1>9, <3>2, Frames
      <4>2. CASE j = n
        BY <1>2, <1>3, <1>7, <4>1, <4>2
      <4>3. CASE j \in Places
        BY <1>1, <1>3, <1>7, <2>1, <3>2, <4>1, <4>3 DEF ParentsOutlive
      <4> QED  BY <1>5, <4>2, <4>3
    <3> QED  BY <1>5, <3>1, <3>2
  <2>2. parent'[ThreadLocal] = Global
    BY <1>1, <1>7, ObjectsAssumption DEF ParentsOutlive
  <2>3. \A x \in Objects : parent'[x] # c
    BY <1>7
  <2>4. parent'[c] = Global \/ ThreadLocal \in Above(parent', c)
    <3>1. Above(parent', p) = Above(parent, p)
      BY <1>1, FreshIsBelow
    <3>2. Above(parent', c) = {p} \cup Above(parent', p)
      BY <1>1, <1>7, AboveIs, ObjectsAssumption
    <3> QED  BY <1>1, <1>7, <3>1, <3>2
  <2> QED  BY <1>2, <1>5, <2>1, <2>2, <2>3, <2>4 DEF ParentsOutlive
<1>12. Brought'
  <2>1. data'[ThreadLocal] = data[ThreadLocal]
    BY <1>7, ObjectsAssumption
  <2>2. \A i \in Places' : frames'[i].current => i \in Places /\ frames[i].current
    BY <1>2, <1>3, <1>5
  <2> QED  BY <1>1, <1>2, <1>3, <1>5, <1>7, <2>1, <2>2 DEF Brought
<1> QED  BY <1>10, <1>11, <1>12 DEF RInv

\* Steps that change what is noted in the frames, but not their number.
LEMMA SameDepth ==
  ASSUME Nested, frames' \in [Places -> Frame]
  PROVE  /\ frames' \in Seq(Frame) /\ Depth' = Depth /\ Places' = Places
         /\ Top' = frames'[Depth] /\ (frames' = << >> <=> frames = << >>)
<1>1. Depth \in Nat /\ Places = 1 .. Depth /\ (frames = << >> <=> Depth = 0)
  BY Frames DEF Places, Depth
<1>2. frames' \in Seq(Frame)
  BY <1>1, SeqDef
<1>3. DOMAIN frames' = 1 .. Len(frames') /\ DOMAIN frames' = 1 .. Depth /\ Len(frames') \in Nat
  BY <1>1, <1>2, LenProperties
<1>4. Len(frames') = Depth
  BY <1>1, <1>3
<1>5. frames' = << >> <=> Len(frames') = 0
  BY <1>2, EmptySeq
<1> QED  BY <1>1, <1>2, <1>4, <1>5 DEF Depth, Places, Top

\* RequestHandler::Process, until request_context is constructed.
LEMMA ThreadTaken ==
  ASSUME RInv, IInv', frames # << >>, Top.stage = "constructed", Top.kind = "handler",
         NEW stage \in {"stored", "ended"}, TakesThread(stage),
         UNCHANGED <<live, parent>>,
         data'[ThreadLocal] = data[Top.own]
  PROVE  RInv'
<1>1. Nested /\ ParentsOutlive /\ Brought
  BY DEF RInv
<1>2. /\ Depth \in Nat /\ Depth \in Places /\ Depth > 0 /\ DOMAIN frames = Places
      /\ \A i \in Places : i # Depth => i < Depth
      /\ \A i \in Places : frames[i] \in Frame /\ frames[i].own \in Objects
  BY <1>1, Frames DEF Places
<1>3. ASSUME NEW i \in Places
      PROVE  /\ frames'[i] \in Frame /\ frames'[i].own = frames[i].own
             /\ frames'[i].request = frames[i].request /\ frames'[i].visible = frames[i].visible
             /\ frames'[i].stage = (IF i = Depth THEN stage ELSE frames[i].stage)
             /\ frames'[i].current => i = Depth
             /\ Mine(frames'[i]) = Mine(frames[i])
  <2>1. CASE i = Depth
    <3>1. frames'[i] = [frames[i] EXCEPT !.stage = stage, !.current = (stage = "stored")]
      BY <1>2, <2>1 DEF TakesThread
    <3>2. frames[i].stage = "constructed" /\ frames[i] \in Frame
      BY <1>2, <2>1 DEF Top
    <3> QED  BY <2>1, <3>1, <3>2 DEF Frame, Mine
  <2>2. CASE i # Depth
    <3>1. frames'[i] = [frames[i] EXCEPT !.current = FALSE] /\ frames[i] \in Frame
      BY <1>2, <2>2 DEF TakesThread
    <3> QED  BY <2>2, <3>1 DEF Frame, Mine
  <2> QED  BY <2>1, <2>2
<1>4. frames' \in [Places -> Frame]
  BY <1>2, <1>3 DEF TakesThread
<1>5. /\ frames' \in Seq(Frame) /\ Depth' = Depth /\ Places' = Places
      /\ Top' = frames'[Depth] /\ (frames' = << >> <=> frames = << >>)
  BY <1>1, <1>4, SameDepth
<1>6. Top'.own = Top.own /\ Top'.stage = stage /\ Top'.visible = Top.visible
  BY <1>2, <1>3, <1>5 DEF Top
<1>7. Nested'
  <2>1. ASSUME NEW i \in Places, frames'[i].stage = "running"
        PROVE  frames'[i].request # frames'[i].own /\ parent[frames'[i].request] = frames'[i].own
    <3>1. frames[i].stage = "running"
      BY <1>2, <1>3, <2>1
    <3> QED  BY <1>1, <1>3, <3>1 DEF Nested
  <2>2. \A i \in Places : i < Depth => frames'[i].stage = "running"
    BY <1>1, <1>2, <1>3 DEF Nested
  <2> QED  BY <1>1, <1>3, <1>5, <2>1, <2>2 DEF Nested
<1>8. ParentsOutlive'
  BY <1>1, <1>3, <1>5, <1>6 DEF ParentsOutlive
<1>9. Brought'
  <2>1. \A i \in Places : frames'[i].current => i = Depth
    BY <1>3
  <2>2. data'[ThreadLocal] = frames'[Depth].visible
    BY <1>1, <1>5, <1>6 DEF Brought
  <2> QED  BY <1>5, <1>6, <2>1, <2>2 DEF Brought
<1> QED  BY <1>7, <1>8, <1>9 DEF RInv

\* initParentContext finds the same parent that the thread-local context had.
LEMMA Stored ==
  ASSUME RInv, IInv', Store \/ StoreThrows
  PROVE  RInv'
<1>1. /\ Nested /\ ParentsOutlive /\ TypeOK /\ TypeOK' /\ frames # << >>
      /\ Top.stage = "constructed" /\ Top.kind = "handler"
  BY DEF RInv, IInv, Store, StoreThrows
<1>2. Top.own \in Objects /\ Top.own # ThreadLocal
  BY <1>1, Frames DEF Nested, Top
<1>3. ASSUME Transfer(ThreadLocal, Top.own, FALSE)
      PROVE  data'[ThreadLocal] = data[Top.own]
  BY <1>1, <1>2, <1>3, ObjectsAssumption DEF Transfer, TypeOK
<1>4. CASE Store
  <2>1. CASE AssignFromChild(ThreadLocal, Top.own, FALSE)
    BY <1>1, <1>3, <1>4, <2>1, ThreadTaken DEF AssignFromChild, Store
  <2>2. CASE AssignWithParent(ThreadLocal, Top.own, FALSE)
    <3>1. /\ live' = live /\ Transfer(ThreadLocal, Top.own, FALSE)
          /\ parent' = [parent EXCEPT ![ThreadLocal] = parent[Top.own]]
          /\ ThreadLocal \notin Above(parent, Top.own)
      BY <2>2, Before DEF AssignWithParent
    <3>2. parent[Top.own] = Global
      BY <1>1, <3>1 DEF ParentsOutlive
    <3>3. parent' = parent
      BY <1>1, <3>1, <3>2 DEF ParentsOutlive, TypeOK
    <3> QED  BY <1>1, <1>3, <1>4, <3>1, <3>3, ThreadTaken DEF Store
  <2> QED  BY <1>4, <2>1, <2>2 DEF Store
<1>5. CASE StoreThrows
  BY <1>1, <1>3, <1>5, ThreadTaken DEF StoreThrows, AssignThrows
<1> QED  BY <1>4, <1>5

\* RequestProcessor::Process: request_context is the innermost context.
LEMMA RequestConstructed ==
  ASSUME RInv, IInv', NEW c \in Objects, ConstructRequest(c)
  PROVE  RInv'
<1>1. /\ Nested /\ ParentsOutlive /\ Brought /\ ParentsLive /\ TypeOK /\ frames # << >>
      /\ Construct(c, Top.own, None) /\ Top.stage \in {"stored", "constructed"}
      /\ frames' = [frames EXCEPT ![Depth].stage = "running", ![Depth].request = c]
  BY DEF RInv, IInv, ConstructRequest
<1>2. /\ Depth \in Nat /\ Depth \in Places /\ Depth > 0 /\ DOMAIN frames = Places
      /\ \A i \in Places : i # Depth => i < Depth
      /\ \A i \in Places : frames[i] \in Frame /\ frames[i].own \in Objects
      /\ \A i \in Places : frames[i].own \in Mine(frames[i])
      /\ Top.own \in Objects
  BY <1>1, Frames DEF Places, Top
<1>3. /\ c \notin live /\ c # Global /\ c # ThreadLocal /\ c # Top.own
      /\ live' = live \cup {c}
      /\ parent'[c] = Top.own
      /\ \A x \in Objects \ {c} : parent'[x] = parent[x] /\ data'[x] = data[x]
      /\ \A x \in Objects : parent[x] # c
      /\ \A i \in Places : c \notin Mine(frames[i])
  BY <1>1, <1>2, Fresh
<1>4. ASSUME NEW i \in Places, i # Depth
      PROVE  frames'[i] = frames[i] /\ frames[i].stage = "running"
  BY <1>1, <1>2, <1>4 DEF Nested
<1>5. /\ frames'[Depth] \in Frame /\ frames'[Depth].own = Top.own
      /\ frames'[Depth].request = c /\ frames'[Depth].stage = "running"
      /\ frames'[Depth].current = Top.current /\ frames'[Depth].visible = Top.visible
  BY <1>1, <1>2 DEF Frame, Top
<1>6. Mine(frames'[Depth]) = {Top.own, c} /\ Mine(frames[Depth]) = {Top.own}
  BY <1>1, <1>5 DEF Mine, Top
<1>7. frames' \in [Places -> Frame]
  BY <1>1, <1>2, <1>4, <1>5
<1>8. /\ frames' \in Seq(Frame) /\ Depth' = Depth /\ Places' = Places
      /\ Top' = frames'[Depth] /\ frames' # << >>
  BY <1>1, <1>7, SameDepth
<1>9. \A i \in Places : Mine(frames[i]) \subseteq live \ {Global, ThreadLocal}
  BY <1>1 DEF Nested
<1>10. Nested'
  <2>1. ASSUME NEW i \in Places
        PROVE  Mine(frames'[i]) \subseteq live' \ {Global, ThreadLocal}
    <3>1. CASE i = Depth
      BY <1>3, <1>6, <1>9, <3>1
    <3>2. CASE i # Depth
      BY <1>3, <1>4, <1>9, <3>2
    <3> QED  BY <3>1, <3>2
  <2>2. ASSUME NEW i \in Places, NEW j \in Places, i # j
        PROVE  Mine(frames'[i]) \cap Mine(frames'[j]) = {}
    <3>1. Mine(frames[i]) \cap Mine(frames[j]) = {}
      BY <1>1, <2>2 DEF Nested
    <3>2. c \notin Mine(frames[i]) /\ c \notin Mine(frames[j])
      BY <1>3
    <3>3. CASE i # Depth /\ j # Depth
      BY <1>4, <3>1, <3>3
    <3>4. CASE i = Depth /\ j # Depth
      BY <1>4, <1>6, <3>1, <3>2, <3>4
    <3>5. CASE i # Depth /\ j = Depth
      BY <1>4, <1>6, <3>1, <3>2, <3>5
    <3> QED  BY <2>2, <3>3, <3>4, <3>5
  <2>3. ASSUME NEW i \in Places
        PROVE  frames'[i].request # frames'[i].own /\ parent'[frames'[i].request] = frames'[i].own
    <3>1. CASE i = Depth
      BY <1>3, <1>5, <3>1
    <3>2. CASE i # Depth
      <4>1. frames'[i] = frames[i] /\ frames[i].stage = "running"
        BY <1>4, <3>2
      <4>2. frames[i].request \in Objects \ {c}
        BY <1>1, <1>3, <1>9, <4>1, Frames DEF TypeOK
      <4>3. /\ frames[i].request # frames[i].own
            /\ parent[frames[i].request] = frames[i].own
        BY <1>1, <4>1 DEF Nested
      <4> QED  BY <1>3, <4>1, <4>2, <4>3
    <3> QED  BY <3>1, <3>2
  <2>4. \A i \in Places : i < Depth => frames'[i].stage = "running"
    BY <1>2, <1>4
  <2> QED  BY <1>8, <2>1, <2>2, <2>3, <2>4 DEF Nested
<1>11. ParentsOutlive'
  <2>1. ASSUME NEW i \in Places, NEW j \in Places, i <= j
        PROVE  parent'[frames'[i].own] \notin Mine(frames'[j])
    <3>1. frames'[i].own = frames[i].own
      BY <1>4, <1>5 DEF Top
    <3>2. frames[i].own \in Objects \ {c}
      BY <1>2, <1>3
    <3>3. parent[frames[i].own] \notin Mine(frames[j]) \cup {c}
      BY <1>1, <1>3, <2>1, <3>2 DEF ParentsOutlive
    <3>4. Mine(frames'[j]) \subseteq Mine(frames[j]) \cup {c}
      BY <1>4, <1>6
    <3> QED  BY <1>3, <3>1, <3>2, <3>3, <3>4
  <2>2. parent'[ThreadLocal] = Global
    BY <1>1, <1>3, ObjectsAssumption DEF ParentsOutlive
  <2> QED  BY <1>5, <1>8, <2>1, <2>2 DEF ParentsOutlive
<1>12. Brought'
  <2>1. data'[ThreadLocal] = data[ThreadLocal]
    BY <1>3, ObjectsAssumption
  <2>2. \A i \in Places : frames'[i].current = frames[i].current /\ frames'[i].visible = frames[i].visible
    BY <1>4, <1>5 DEF Top
  <2> QED  BY <1>1, <1>5, <1>8, <2>1, <2>2 DEF Brought
<1> QED  BY <1>10, <1>11, <1>12 DEF RInv

\* While a function runs, metadata change without any change of the parents.
LEMMA MetadataChanged ==
  ASSUME RInv, IInv', UNCHANGED <<live, parent>>, Running,
         frames' \in [Places -> Frame],
         \A i \in Places : /\ frames'[i].own = frames[i].own
                           /\ frames'[i].request = frames[i].request
                           /\ frames'[i].stage = frames[i].stage
                           /\ frames'[i].current => data'[ThreadLocal] = frames'[i].visible
  PROVE  RInv'
<1>1. Nested /\ ParentsOutlive /\ frames \in Seq(Frame)
  BY DEF RInv, Nested
<1>2. /\ frames' \in Seq(Frame) /\ Depth' = Depth /\ Places' = Places
      /\ Top' = frames'[Depth] /\ (frames' = << >> <=> frames = << >>)
  BY <1>1, SameDepth
<1>3. \A i \in Places : Mine(frames'[i]) = Mine(frames[i])
  BY DEF Mine
<1>4. frames # << >> => Depth \in Places /\ Top'.stage = "running"
  BY <1>1, <1>2, Frames DEF Running, Top
<1>5. Nested'
  BY <1>1, <1>2, <1>3 DEF Nested
<1>6. ParentsOutlive'
  BY <1>1, <1>2, <1>3, <1>4 DEF ParentsOutlive
<1>7. Brought'
  BY <1>2, <1>4 DEF Brought
<1> QED  BY <1>5, <1>6, <1>7 DEF RInv

\* Hooks change the context of the request, which is not the thread-local one.
LEMMA HookChanged ==
  ASSUME RInv, IInv', NEW v, HookChanges(v)
  PROVE  RInv'
<1>1. /\ Nested /\ Brought /\ TypeOK /\ frames # << >> /\ Running /\ frames' = frames
      /\ UNCHANGED <<live, parent>>
  BY DEF RInv, IInv, HookChanges, Insert, Erase
<1>2. /\ Depth \in Places /\ frames \in [Places -> Frame] /\ Top.request \in Objects \ {ThreadLocal}
  <2>1. Depth \in Places /\ DOMAIN frames = Places /\ \A i \in Places : frames[i] \in Frame
    BY <1>1, Frames
  <2>2. frames \in [Places -> Frame]
    BY <1>1, <2>1, LenProperties DEF Nested, Places, Depth
  <2>3. Top.request \in Mine(frames[Depth])
    BY <1>1, <2>1, Frames DEF Running, Top
  <2> QED  BY <1>1, <2>1, <2>2, <2>3 DEF Nested, TypeOK
<1>3. data'[ThreadLocal] = data[ThreadLocal]
  BY <1>1, <1>2, ObjectsAssumption DEF HookChanges, Insert, Erase, TypeOK
<1> QED  BY <1>1, <1>2, <1>3, MetadataChanged DEF Brought

\* What is added to the thread-local context is noted where it belongs.
LEMMA Annotated ==
  ASSUME RInv, IInv', NEW v \in Values, Annotate(v)
  PROVE  RInv'
<1>1. /\ Nested /\ Brought /\ TypeOK /\ frames # << >> /\ Running
      /\ UNCHANGED <<live, parent>>
      /\ frames' = [i \in DOMAIN frames |->
                      IF frames[i].current /\ frames[i].visible = None
                      THEN [frames[i] EXCEPT !.visible = v] ELSE frames[i]]
  BY DEF RInv, IInv, Annotate, Insert
<1>2. DOMAIN frames = Places /\ \A i \in Places : frames[i] \in Frame
  BY <1>1, Frames
<1>3. data'[ThreadLocal] = IF data[ThreadLocal] = None THEN v ELSE data[ThreadLocal]
  BY <1>1, ObjectsAssumption DEF Annotate, Insert, TypeOK
<1>4. ASSUME NEW i \in Places
      PROVE  /\ frames'[i] \in Frame
             /\ frames'[i].own = frames[i].own
             /\ frames'[i].request = frames[i].request
             /\ frames'[i].stage = frames[i].stage
             /\ frames'[i].current => data'[ThreadLocal] = frames'[i].visible
  <2>1. CASE frames[i].current /\ frames[i].visible = None
    <3>1. frames'[i] = [frames[i] EXCEPT !.visible = v] /\ frames[i] \in Frame
      BY <1>1, <1>2, <2>1
    <3>2. data'[ThreadLocal] = v
      BY <1>1, <1>3, <2>1 DEF Brought
    <3> QED  BY <3>1, <3>2 DEF Frame
  <2>2. CASE ~(frames[i].current /\ frames[i].visible = None)
    <3>1. frames'[i] = frames[i] /\ frames[i] \in Frame
      BY <1>1, <1>2, <2>2
    <3>2. frames[i].current => data'[ThreadLocal] = frames[i].visible
      BY <1>1, <1>3, <2>2 DEF Brought
    <3> QED  BY <3>1, <3>2
  <2> QED  BY <2>1, <2>2
<1>5. frames' \in [Places -> Frame]
  BY <1>1, <1>2, <1>4
<1> QED  BY <1>1, <1>4, <1>5, MetadataChanged

\* What the destruction of a context leaves alone.
LEMMA Gone ==
  ASSUME TypeOK, NEW c \in Objects, Destroyed(c)
  PROVE  /\ live' = live \ {c} /\ parent'[c] = None
         /\ \A x \in Objects \ {c} : parent'[x] = parent[x] /\ data'[x] = data[x]
BY DEF TypeOK, Destroyed

\* Only request_context has the processor's context as its parent, and nothing
\* has request_context.
LEMMA NothingBelow ==
  ASSUME RInv, frames # << >>, Top.stage = "running",
         NoLocalBelow(Top.request), NoLocalBelow(Top.own)
  PROVE  /\ \A x \in Objects : parent[x] # Top.request
         /\ \A x \in Objects \ {Top.request} : parent[x] # Top.own
<1>1. /\ Nested /\ ParentsOutlive /\ ParentsLive /\ TypeOK /\ GlobalParent
  BY DEF RInv, IInv
<1>2. /\ Depth \in Nat /\ Depth \in Places /\ DOMAIN frames = Places /\ Places = 1 .. Depth
      /\ \A i \in Places : i <= Depth /\ frames[i].stage = "running"
      /\ Top.own \in Mine(frames[Depth]) /\ Top.request \in Mine(frames[Depth])
  <2>1. Depth \in Nat /\ Depth \in Places /\ DOMAIN frames = Places /\ Places = 1 .. Depth
    BY <1>1, Frames DEF Places
  <2>2. \A i \in Places : i <= Depth /\ (i = Depth \/ i < Depth)
    BY <2>1
  <2>3. \A i \in Places : frames[i].stage = "running"
    BY <1>1, <2>2 DEF Nested, Top
  <2>4. Top.own \in Mine(frames[Depth]) /\ Top.request \in Mine(frames[Depth])
    BY DEF Mine, Top
  <2> QED  BY <2>1, <2>2, <2>3, <2>4
<1>3. /\ Mine(frames[Depth]) = {Top.own, Top.request}
      /\ Mine(frames[Depth]) \subseteq Objects \ {Global, ThreadLocal}
      /\ Top.own # Top.request /\ parent[Top.request] = Top.own
  BY <1>1, <1>2 DEF Mine, Nested, Top, TypeOK
<1>4. ASSUME NEW x \in Objects, parent[x] \in {Top.own, Top.request}
      PROVE  x = Top.request /\ parent[x] = Top.own
  <2>1. x \in live /\ parent[x] # None
    BY <1>1, <1>3, <1>4, ObjectsAssumption DEF ParentsLive
  <2>2. x # Global /\ x # ThreadLocal
    BY <1>1, <1>3, <1>4, <2>1 DEF GlobalParent, ParentsOutlive
  <2>3. CASE x \in Locals
    BY <1>4, <2>3 DEF NoLocalBelow
  <2>4. CASE x \notin Locals
    <3>1. PICK i \in Places : x \in {frames[i].own, frames[i].request}
      BY <1>2, <2>1, <2>2, <2>4 DEF Locals
    <3>2. x # frames[i].own
      BY <1>1, <1>2, <1>3, <1>4, <3>1 DEF ParentsOutlive
    <3>3. x = frames[i].request /\ parent[x] = frames[i].own /\ frames[i].own \in Mine(frames[i])
      BY <1>1, <1>2, <3>1, <3>2, Frames DEF Nested
    <3>4. i = Depth
      BY <1>1, <1>2, <1>3, <1>4, <3>3 DEF Nested
    <3> QED  BY <3>3, <3>4 DEF Top
  <2> QED  BY <2>3, <2>4
<1> QED  BY <1>3, <1>4

\* Process ends: request_context is destroyed before the processor's context.
LEMMA RequestEnded ==
  ASSUME RInv, IInv', EndRequest
  PROVE  RInv'
<1> DEFINE c == Top.request
<1>1. /\ Nested /\ ParentsOutlive /\ Brought /\ TypeOK /\ frames # << >> /\ Top.stage = "running"
      /\ frames' = [frames EXCEPT ![Depth].stage = "ended"] /\ Destroyed(c)
  BY DEF RInv, IInv, EndRequest, TopGoes
<1>2. /\ Depth \in Places /\ DOMAIN frames = Places
      /\ \A i \in Places : frames[i] \in Frame /\ frames[i].own \in Mine(frames[i])
      /\ \A i \in Places : Mine(frames[i]) \subseteq live \ {Global, ThreadLocal}
  BY <1>1, Frames DEF Nested
<1>3. Mine(frames[Depth]) = {Top.own, c} /\ Top.own # c /\ c \in Objects \ {Global, ThreadLocal}
  BY <1>1, <1>2 DEF Mine, Nested, Top, TypeOK
<1>4. /\ live' = live \ {c} /\ parent'[c] = None
      /\ \A x \in Objects \ {c} : parent'[x] = parent[x] /\ data'[x] = data[x]
  BY <1>1, <1>3, Gone
<1>5. \A x \in Objects : parent'[x] # Top.own
  <2>1. \A x \in Objects \ {c} : parent[x] # Top.own
    BY <1>1, NothingBelow DEF EndRequest
  <2>2. Top.own # None
    BY <1>1, <1>3, <1>2, ObjectsAssumption DEF TypeOK
  <2> QED  BY <1>4, <2>1, <2>2
<1>6. ASSUME NEW i \in Places, i # Depth
      PROVE  frames'[i] = frames[i] /\ c \notin Mine(frames[i])
  BY <1>1, <1>2, <1>3, <1>6 DEF Nested
<1>7. /\ frames'[Depth] \in Frame /\ frames'[Depth].own = Top.own /\ frames'[Depth].stage = "ended"
      /\ frames'[Depth].current = Top.current /\ frames'[Depth].visible = Top.visible
  BY <1>1, <1>2 DEF Frame, Top
<1>8. Mine(frames'[Depth]) = {Top.own}
  BY <1>7 DEF Mine
<1>9. frames' \in [Places -> Frame]
  BY <1>1, <1>2, <1>6, <1>7
<1>10. /\ frames' \in Seq(Frame) /\ Depth' = Depth /\ Places' = Places
       /\ Top' = frames'[Depth] /\ frames' # << >>
  BY <1>1, <1>9, SameDepth
<1>11. \A i \in Places : /\ Mine(frames'[i]) \subseteq Mine(frames[i]) \ {c}
                         /\ frames'[i].own = frames[i].own
  BY <1>3, <1>6, <1>8, <1>7 DEF Top
<1>12. Nested'
  <2>1. \A i \in Places : Mine(frames'[i]) \subseteq live' \ {Global, ThreadLocal}
    BY <1>2, <1>4, <1>11
  <2>2. \A i, j \in Places : i # j => Mine(frames'[i]) \cap Mine(frames'[j]) = {}
    BY <1>1, <1>11 DEF Nested
  <2>3. ASSUME NEW i \in Places, frames'[i].stage = "running"
        PROVE  frames'[i].request # frames'[i].own /\ parent'[frames'[i].request] = frames'[i].own
    <3>1. i # Depth
      BY <1>7, <2>3
    <3>2. frames'[i] = frames[i] /\ frames[i].request \in Mine(frames[i]) /\ c \notin Mine(frames[i])
      BY <1>6, <2>3, <3>1 DEF Mine
    <3>3. frames[i].request \in Objects \ {c}
      BY <1>1, <1>2, <3>2 DEF TypeOK
    <3> QED  BY <1>1, <1>4, <2>3, <3>2, <3>3 DEF Nested
  <2>4. Depth \in Nat /\ \A i \in Places : i < Depth => i # Depth
    BY <1>1, Frames DEF Places
  <2>5. \A i \in Places : i < Depth => frames'[i].stage = "running"
    BY <1>1, <1>6, <2>4 DEF Nested
  <2> QED  BY <1>10, <2>1, <2>2, <2>3, <2>5 DEF Nested
<1>13. ParentsOutlive'
  <2>1. ASSUME NEW i \in Places, NEW j \in Places, i <= j
        PROVE  parent'[frames'[i].own] \notin Mine(frames'[j])
    <3>1. frames[i].own \in Objects \ {c} /\ frames'[i].own = frames[i].own
      BY <1>1, <1>2, <1>3, <1>6, <1>11 DEF Top, TypeOK
    <3> QED  BY <1>1, <1>4, <1>11, <2>1, <3>1 DEF ParentsOutlive
  <2>2. parent'[ThreadLocal] = Global
    BY <1>1, <1>3, <1>4, ObjectsAssumption DEF ParentsOutlive
  <2> QED  BY <1>5, <1>7, <1>10, <2>1, <2>2 DEF ParentsOutlive
<1>14. Brought'
  <2>1. data'[ThreadLocal] = data[ThreadLocal]
    BY <1>3, <1>4, ObjectsAssumption
  <2>2. \A i \in Places : frames'[i].current = frames[i].current /\ frames'[i].visible = frames[i].visible
    BY <1>6, <1>7 DEF Top
  <2> QED  BY <1>1, <1>7, <1>10, <2>1, <2>2 DEF Brought
<1> QED  BY <1>12, <1>13, <1>14 DEF RInv

\* The end of the statement: the processor is destroyed, and its function's
\* caller, if it is a request, too, goes on.
LEMMA ProcessorEnded ==
  ASSUME RInv, IInv', EndProcessor
  PROVE  RInv'
<1> DEFINE c == Top.own
           n == Depth - 1
<1>1. /\ Nested /\ ParentsOutlive /\ Brought /\ TypeOK /\ frames # << >> /\ Top.stage = "ended"
      /\ frames' = SubSeq(frames, 1, n) /\ Destroyed(c)
  BY DEF RInv, IInv, EndProcessor
<1>2. /\ Depth \in Nat /\ Depth > 0 /\ Depth \in Places /\ DOMAIN frames = Places /\ Places = 1 .. Depth
      /\ \A i \in Places : frames[i] \in Frame /\ frames[i].own \in Mine(frames[i])
      /\ \A i \in Places : Mine(frames[i]) \subseteq live \ {Global, ThreadLocal}
  BY <1>1, Frames DEF Nested, Places
<1>3. c \in Mine(frames[Depth]) /\ c \in Objects \ {Global, ThreadLocal}
  BY <1>1, <1>2 DEF Top, TypeOK
<1>4. /\ live' = live \ {c} /\ parent'[c] = None
      /\ \A x \in Objects \ {c} : parent'[x] = parent[x] /\ data'[x] = data[x]
  BY <1>1, <1>3, Gone
<1>5. /\ frames' \in Seq(Frame) /\ Len(frames') = n
      /\ \A i \in 1 .. n : frames'[i] = frames[i]
  <2>1. \A i \in 1 .. n : frames[i] \in Frame
    BY <1>2
  <2>2. /\ SubSeq(frames, 1, n) \in Seq(Frame)
        /\ Len(SubSeq(frames, 1, n)) = IF 1 <= n THEN n - 1 + 1 ELSE 0
        /\ \A i \in 1 .. n - 1 + 1 : SubSeq(frames, 1, n)[i] = frames[1 + i - 1]
    BY <1>2, <2>1, SubSeqProperties
  <2> QED  BY <1>1, <1>2, <2>2
<1>6. /\ Depth' = n /\ Places' = 1 .. n /\ Places' = Places \ {Depth} /\ n \in Nat
      /\ \A i \in Places' : i \in Places /\ i # Depth /\ i < Depth
  <2>1. Depth' = n /\ Places' = 1 .. n
    BY <1>5 DEF Depth, Places
  <2>2. n \in Nat /\ 1 .. n = (1 .. Depth) \ {Depth} /\ \A i \in 1 .. n : i # Depth /\ i < Depth
    BY <1>2
  <2> QED  BY <1>2, <2>1, <2>2
<1>7. \A i \in Places' : /\ frames'[i] = frames[i] /\ frames[i].stage = "running"
                         /\ c \notin Mine(frames[i])
                         /\ frames[i].own \in Objects \ {c} /\ frames[i].request \in Objects \ {c}
  <2> SUFFICES ASSUME NEW i \in Places'
               PROVE  /\ frames'[i] = frames[i] /\ frames[i].stage = "running"
                      /\ c \notin Mine(frames[i])
                      /\ frames[i].own \in Objects \ {c} /\ frames[i].request \in Objects \ {c}
    OBVIOUS
  <2>1. i \in Places /\ i # Depth /\ frames'[i] = frames[i] /\ frames[i].stage = "running"
    BY <1>1, <1>5, <1>6 DEF Nested
  <2>2. c \notin Mine(frames[i])
    BY <1>1, <1>2, <1>3, <2>1 DEF Nested
  <2>3. frames[i].own \in Mine(frames[i]) /\ frames[i].request \in Mine(frames[i])
    BY <2>1 DEF Mine
  <2> QED  BY <1>1, <1>2, <2>1, <2>2, <2>3 DEF TypeOK
<1>8. frames' # << >> => Top'.stage = "running"
  <2>1. frames' # << >> => n \in Places'
    BY <1>5, <1>6, EmptySeq
  <2> QED  BY <1>6, <1>7, <2>1 DEF Top
<1>9. Nested'
  <2>1. \A i \in Places' : Mine(frames'[i]) \subseteq live' \ {Global, ThreadLocal}
    BY <1>2, <1>4, <1>6, <1>7
  <2>2. \A i, j \in Places' : i # j => Mine(frames'[i]) \cap Mine(frames'[j]) = {}
    BY <1>1, <1>6, <1>7 DEF Nested
  <2>3. \A i \in Places' : frames'[i].stage = "running" =>
          frames'[i].request # frames'[i].own /\ parent'[frames'[i].request] = frames'[i].own
    <3> SUFFICES ASSUME NEW i \in Places'
                 PROVE  frames'[i].request # frames'[i].own /\ parent'[frames'[i].request] = frames'[i].own
      OBVIOUS
    <3>1. frames[i].request # frames[i].own /\ parent[frames[i].request] = frames[i].own
      BY <1>1, <1>6, <1>7 DEF Nested
    <3> QED  BY <1>4, <1>7, <3>1
  <2>4. \A i \in Places' : i < Depth' => frames'[i].stage = "running"
    BY <1>7
  <2> QED  BY <1>5, <2>1, <2>2, <2>3, <2>4 DEF Nested
<1>10. ParentsOutlive'
  <2>1. \A i, j \in Places' : i <= j => parent'[frames'[i].own] \notin Mine(frames'[j])
    BY <1>1, <1>4, <1>6, <1>7 DEF ParentsOutlive
  <2>2. parent'[ThreadLocal] = Global
    BY <1>1, <1>3, <1>4, ObjectsAssumption DEF ParentsOutlive
  <2> QED  BY <1>8, <2>1, <2>2 DEF ParentsOutlive
<1>11. Brought'
  <2>1. data'[ThreadLocal] = data[ThreadLocal]
    BY <1>3, <1>4, ObjectsAssumption
  <2> QED  BY <1>1, <1>6, <1>7, <1>8, <2>1 DEF Brought
<1> QED  BY <1>9, <1>10, <1>11 DEF RInv

\* The contexts of the functions are others than those of the requests.
LEMMA LocalChanged ==
  ASSUME RInv, IInv', NEW c \in Objects, Local(c)
  PROVE  RInv'
<1> DEFINE kept == {Global, ThreadLocal} \cup UNION {Mine(frames[i]) : i \in Places}
<1>1. /\ Nested /\ TypeOK /\ Running /\ frames' = frames
  BY DEF RInv, IInv, Local
<1>2. kept \subseteq live /\ kept \subseteq Objects /\ Locals \cap kept = {}
  BY <1>1, LocalsAreOthers DEF Nested, TypeOK
<1>3. c \notin kept /\ \A x \in kept : x \in live' /\ parent'[x] = parent[x] /\ data'[x] = data[x]
  <2>1. ASSUME NEW p \in live, NEW v \in Values \cup {None}, Construct(c, p, v)
        PROVE  c \notin kept /\ \A x \in kept : x \in live' /\ parent'[x] = parent[x] /\ data'[x] = data[x]
    BY <1>1, <1>2, <2>1 DEF TypeOK, Construct
  <2>2. ASSUME NEW other \in live, NEW moved \in BOOLEAN, moved => other \in Locals,
               ConstructFrom(c, other, moved) \/ (c \in Locals /\ Assign(c, other, moved))
        PROVE  c \notin kept /\ \A x \in kept : x \in live' /\ parent'[x] = parent[x] /\ data'[x] = data[x]
    <3>1. Transfer(c, other, moved) /\ c \notin kept
      BY <1>2, <2>2 DEF ConstructFrom, Assign, AssignFromChild, AssignWithParent, AssignThrows
    <3>2. \A x \in kept : data'[x] = data[x]
      BY <1>1, <1>2, <2>2, <3>1 DEF TypeOK, Transfer
    <3>3. \A x \in kept : x \in live' /\ parent'[x] = parent[x]
      BY <1>1, <1>2, <2>2, <3>1
         DEF TypeOK, ConstructFrom, Assign, AssignFromChild, AssignWithParent, AssignThrows
    <3> QED  BY <3>1, <3>2, <3>3
  <2>3. ASSUME c \in Locals, Destroy(c)
        PROVE  c \notin kept /\ \A x \in kept : x \in live' /\ parent'[x] = parent[x] /\ data'[x] = data[x]
    BY <1>1, <1>2, <2>3, Gone DEF Destroy
  <2> QED  BY <2>1, <2>2, <2>3 DEF Local
<1> QED  BY <1>1, <1>3, OthersChange

\* The global context gets new metadata, and never a parent.
LEMMA GlobalChanged ==
  ASSUME RInv, IInv', ChangeGlobal
  PROVE  RInv'
<1>1. frames = << >> /\ frames' = << >> /\ TypeOK /\ GlobalParent /\ parent[ThreadLocal] = Global
  BY DEF RInv, IInv, ParentsOutlive, ChangeGlobal
<1>2. parent'[ThreadLocal] = Global
  BY <1>1, ObjectsAssumption DEF ChangeGlobal, Insert, Erase, AssignToGlobal, TypeOK
<1>3. Places' = {} /\ frames' \in Seq(Frame)
  BY <1>1, EmptySeq DEF Places, Depth
<1> QED  BY <1>1, <1>2, <1>3 DEF RInv, Nested, ParentsOutlive, Brought

\* Each step of requests is one of a program over contexts: what is destroyed
\* is no context's parent.
LEMMA StepsOverContexts == RInv /\ [NextRequests]_requestVars => [Next]_vars
<1> SUFFICES ASSUME RInv, NextRequests  PROVE [Next]_vars
  BY DEF requestVars, vars
<1>1. /\ Nested /\ ParentsOutlive /\ TypeOK /\ live \subseteq Objects
      /\ {Global, ThreadLocal} \subseteq live
  BY DEF RInv, IInv, TypeOK
<1>2. frames # << >> => /\ Top.own \in live \ {Global, ThreadLocal} /\ Top.own \in Objects
                        /\ Top.stage = "running" =>
                             Top.request \in live \ {Global, ThreadLocal} /\ Top.request \in Objects
  BY <1>1, Frames DEF Nested, Top
<1>3. ASSUME NEW kind, NEW c \in Objects, NEW p \in live, NEW v \in Values \cup {None},
             ConstructProcessor(kind, c, p, v)
      PROVE  Next
  BY <1>1, <1>3 DEF ConstructProcessor, Next
<1>4. CASE Store \/ StoreThrows
  BY <1>1, <1>2, <1>4 DEF Store, StoreThrows, Assign, Next
<1>5. ASSUME NEW c \in Objects, ConstructRequest(c)  PROVE Next
  BY <1>1, <1>2, <1>5 DEF ConstructRequest, Next
<1>6. ASSUME NEW v \in Values \cup {None}, HookChanges(v)  PROVE Next
  BY <1>1, <1>2, <1>6 DEF HookChanges, Running, Next
<1>7. ASSUME NEW v \in Values, Annotate(v)  PROVE Next
  BY <1>1, <1>7 DEF Annotate, Next
<1>8. CASE EndRequest
  <2>1. Destroy(Top.request)
    BY <1>1, <1>2, <1>8, NothingBelow DEF EndRequest, TopGoes, Destroy
  <2> QED  BY <1>2, <1>8, <2>1 DEF Next, EndRequest, TopGoes
<1>9. CASE EndProcessor
  <2>1. Destroy(Top.own)
    BY <1>1, <1>2, <1>9 DEF EndProcessor, ParentsOutlive, Destroy
  <2> QED  BY <1>2, <1>9, <2>1 DEF Next, EndProcessor
<1>10. ASSUME NEW c \in Objects, Local(c)  PROVE Next
  BY <1>1, <1>10 DEF Local, Next
<1>11. CASE ChangeGlobal
  <2>1. \A c \in Locals : c \in Objects
    BY <1>1 DEF Locals
  <2> QED  BY <1>1, <1>11, <2>1 DEF ChangeGlobal, Next
<1> QED  BY <1>3, <1>4, <1>5, <1>6, <1>7, <1>8, <1>9, <1>10, <1>11 DEF NextRequests

LEMMA InductiveRequests == RInv /\ [NextRequests]_requestVars => RInv'
<1> SUFFICES ASSUME RInv, [NextRequests]_requestVars  PROVE RInv'
  OBVIOUS
<1>1. IInv'
  BY StepsOverContexts, Inductive DEF RInv
<1>2. CASE UNCHANGED requestVars
  <2>1. /\ UNCHANGED frames /\ UNCHANGED live /\ UNCHANGED parent /\ UNCHANGED data
        /\ UNCHANGED Places /\ UNCHANGED Depth /\ UNCHANGED Top
    BY <1>2 DEF requestVars, vars, Places, Depth, Top
  <2> QED  BY <1>1, <2>1 DEF RInv, Nested, ParentsOutlive, Brought
<1>3. ASSUME NEW kind \in {"handler", "issuer"}, NEW c \in Objects, NEW p \in live,
             NEW v \in Values \cup {None}, ConstructProcessor(kind, c, p, v)
      PROVE  RInv'
  BY <1>1, <1>3, ProcessorConstructed
<1>4. CASE Store \/ StoreThrows
  BY <1>1, <1>4, Stored
<1>5. ASSUME NEW c \in Objects, ConstructRequest(c)  PROVE RInv'
  BY <1>1, <1>5, RequestConstructed
<1>6. ASSUME NEW v \in Values \cup {None}, HookChanges(v)  PROVE RInv'
  BY <1>1, <1>6, HookChanged
<1>7. ASSUME NEW v \in Values, Annotate(v)  PROVE RInv'
  BY <1>1, <1>7, Annotated
<1>8. CASE EndRequest
  BY <1>1, <1>8, RequestEnded
<1>9. CASE EndProcessor
  BY <1>1, <1>9, ProcessorEnded
<1>10. ASSUME NEW c \in Objects, Local(c)  PROVE RInv'
  BY <1>1, <1>10, LocalChanged
<1>11. CASE ChangeGlobal
  BY <1>1, <1>11, GlobalChanged
<1> QED  BY <1>2, <1>3, <1>4, <1>5, <1>6, <1>7, <1>8, <1>9, <1>10, <1>11 DEF NextRequests

\* However requests are nested, and whatever contexts their functions construct:
\* the frames are as described, and no parent is destroyed before its children.
THEOREM InvarianceRequests == SpecRequests => []RInv
BY InitiallyRequests, InductiveRequests, PTL DEF SpecRequests

THEOREM RequestsKeepParents == SpecRequests => KeepsParentsAlive
<1>1. InitRequests => Init
  BY DEF InitRequests
<1> QED  BY <1>1, InvarianceRequests, StepsOverContexts, PTL DEF SpecRequests, Spec, KeepsParentsAlive

\* What the request brought is the first a lookup finds in the thread-local
\* context, and whatever is below it without metadata of its own finds the same.
LEMMA FoundFirst == RInv => RequestIsVisible
<1> SUFFICES ASSUME RInv, NEW i \in DOMAIN frames, frames[i].current
             PROVE  /\ Found(ThreadLocal) = Visible(i)
                    /\ \A j \in i + 1 .. Depth : IssuedPlainly(j) => Found(frames[j].request) = Visible(i)
  BY DEF RequestIsVisible
<1>1. /\ Nested /\ ParentsOutlive /\ Brought /\ i \in Places /\ Depth \in Nat /\ Places = 1 .. Depth
      /\ parent \in Parents /\ Acyclic(parent) /\ TypeOK
  BY Frames, NoCycle DEF RInv, IInv, Places
<1>2. \A x \in Objects : LookedUp(parent, data, x) =
        IF data[x] # None THEN {data[x]}
        ELSE IF parent[x] = None THEN {} ELSE LookedUp(parent, data, parent[x])
  BY <1>1, Lookup
<1>3. Found(ThreadLocal) = Visible(i)
  <2>1. data[ThreadLocal] = frames[i].visible /\ parent[ThreadLocal] = Global /\ Global # None
    BY <1>1, ObjectsAssumption DEF Brought, ParentsOutlive
  <2>2. LookedUp(parent, data, ThreadLocal) =
          IF frames[i].visible # None THEN {frames[i].visible} ELSE LookedUp(parent, data, Global)
    BY <1>2, <2>1, ObjectsAssumption
  <2> QED  BY <2>2, Before DEF Visible
<1>4. ASSUME NEW j \in i + 1 .. Depth, IssuedPlainly(j)
      PROVE  Found(frames[j].request) = Found(ThreadLocal)
  <2>1. j \in Places /\ frames[j].stage = "running"
    BY <1>1, <1>4 DEF IssuedPlainly
  <2>2. frames[j].own \in Objects /\ frames[j].request \in Objects
    BY <1>1, <2>1, Frames DEF Nested, TypeOK
  <2>3. parent[frames[j].request] = frames[j].own /\ parent[frames[j].own] = ThreadLocal
    BY <1>1, <1>4, <2>1 DEF Nested, IssuedPlainly
  <2>4. data[frames[j].request] = None /\ data[frames[j].own] = None
    BY <1>4 DEF IssuedPlainly
  <2>5. LookedUp(parent, data, frames[j].request) = LookedUp(parent, data, ThreadLocal)
    BY <1>2, <2>2, <2>3, <2>4, ObjectsAssumption
  <2> QED  BY <2>5, Before
<1> QED  BY <1>3, <1>4

\* While a handler is the last one the thread-local context was assigned from,
\* its metadata are found there and by the requests issued with a default context.
THEOREM HandlersMetadataAreFound == SpecRequests => []RequestIsVisible
BY FoundFirst, InvarianceRequests, PTL
=============================================================================
