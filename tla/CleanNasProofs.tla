--------------------------- MODULE CleanNasProofs ---------------------------
(***************************************************************************)
(* The safety properties of CleanNas, for any tree of directories, any     *)
(* files and any STATEs.                                                   *)
(***************************************************************************)
EXTENDS CleanNas, SequenceTheorems, WellFoundedInduction, TLAPS

Has(e, key) == StateAt[e] # None /\ StateAt[e][key] # None

\* The rules of a directory, by the STATEs on the path to it and not by the
\* calls that lead there.
RulesAt(d) ==
  [keep        |-> InForce(d, "KEEP", {}),
   purge       |-> [p \in Periods |->
                      UNION {NamesFor(StateAt[e].REMOVE, p) : e \in With(d, "REMOVE")}],
   removeEmpty |-> InForce(d, "REMOVE_EMPTY_DIRS", FALSE),
   skip        |-> FALSE]

SubdirsAt(d) == IF StateAt[d] = None THEN <<>> ELSE StateAt[d].SUBDIRS

Below(d) == {c \in Dirs \ {Root} : Parent[c] = d}

Call == [dir : Dirs, rules : {RulesAt(d) : d \in Dirs}, subdirs : {SubdirsAt(d) : d \in Dirs},
         phase : Phases, todo : (SUBSET Dirs) \cup SUBSET Files]

\* The variables but for the calls.
TreeInv ==
  /\ patterns \in Patterns
  /\ Root \in dirs /\ dirs \subseteq Dirs /\ \A d \in dirs : Path[d] \subseteq dirs
  /\ files \in [Files -> 0..MaxAge \cup {None}]
  /\ \A f \in Files : files[f] # None => Dir[f] \in dirs

\* A call has the rules of its directory, and what it has still to do is in
\* there; a directory it is going to enter is there, and it looks at none for
\* being empty but where the empty ones are to go.
CallInv(call, there) ==
  /\ call.dir \in there /\ ~Skipped(call.dir)
  /\ call.rules = RulesAt(call.dir) /\ call.subdirs = SubdirsAt(call.dir)
  /\ call.phase = "files" => call.todo \subseteq {f \in Files : Dir[f] = call.dir}
  /\ call.phase = "dirs" => call.todo \subseteq Below(call.dir) \cap there
  /\ call.phase = "empty" =>
       call.todo \subseteq Below(call.dir) /\ (call.todo # {} => call.rules.removeEmpty)

\* The calls go down a path, and all but the last are among their directories.
PathInv(calls) ==
  /\ \A i \in DOMAIN calls :
       /\ calls[i].dir = Root <=> i = 1
       /\ i > 1 => Parent[calls[i].dir] = calls[i - 1].dir
  /\ \A i, j \in DOMAIN calls : i < j =>
       /\ calls[i].dir \in Path[calls[j].dir] /\ calls[i].dir # calls[j].dir
       /\ calls[i].phase = "dirs"

WalkInv(calls, there) ==
  /\ calls \in Seq(Call) /\ PathInv(calls)
  /\ \A i \in DOMAIN calls : CallInv(calls[i], there)

IInv == TreeInv /\ WalkInv(stack, dirs)

\* A call is going to come to file f.
WillPurge(call, f) ==
  \/ /\ call.phase = "files" /\ call.dir \in Path[Dir[f]]
     /\ call.dir = Dir[f] => f \in call.todo
  \/ call.phase = "dirs" /\ call.todo \cap Path[Dir[f]] # {}

\* While a walk is on, it is going to come to every file that has expired.
LeftInv ==
  stack # <<>> =>
    \A f \in Files : Expired(f) => \E i \in DOMAIN stack : WillPurge(stack[i], f)

Removable(d) == EmptiesGo(Parent[d]) /\ Empty(d)

\* A call is going to look whether directory d is empty.
WillRemove(call, d) ==
  \/ call.phase = "files" /\ call.dir \in Path[Parent[d]]
  \/ call.phase = "dirs" /\ (call.dir = Parent[d] \/ call.todo \cap Path[Parent[d]] # {})
  \/ call.phase = "empty" /\ call.dir = Parent[d] /\ d \in call.todo

\* And to every directory that is empty and to be removed.
EmptyInv ==
  stack # <<>> =>
    \A d \in dirs \ {Root} : Removable(d) => \E i \in DOMAIN stack : WillRemove(stack[i], d)

-----------------------------------------------------------------------------
\* Numbers, and the tree.

LEMMA LeastOf ==
  ASSUME NEW S \in SUBSET Nat, S # {}
  PROVE  Min(S) \in S /\ \A n \in S : Min(S) <= n
<1>1. PICK x \in S : \A y \in S : <<y, x>> \notin OpToRel(<, Nat)
  BY NatLessThanWellFounded, WFMin
<1>2. \A y \in S : ~(y < x)
  BY <1>1 DEF OpToRel
<1>3. \A y \in S : x <= y
  BY <1>2
<1> QED
  BY <1>3, Zenon DEF Min

LEMMA LeastIs ==
  ASSUME NEW S \in SUBSET Nat, NEW n \in S, \A m \in S : n <= m
  PROVE  Min(S) = n
<1>1. Min(S) \in S /\ Min(S) <= n
  BY LeastOf
<1>2. Min(S) \in Nat /\ n \in Nat /\ n <= Min(S)
  BY <1>1
<1> QED
  BY <1>1, <1>2

LEMMA ParentIn == ASSUME NEW d \in Dirs, d # Root PROVE Parent[d] \in Dirs
BY RetentionAssumption

\* What holds of the root, and of a directory if it does of its parent, holds
\* of all.
LEMMA TreeInduction ==
  ASSUME NEW S, Root \in S, \A d \in Dirs \ {Root} : Parent[d] \in S => d \in S
  PROVE  Dirs \subseteq S
<1> DEFINE T == Dirs \ S
<1>1. CASE T = {}
  BY <1>1
<1>2. CASE T # {}
  <2>1. T \in (SUBSET (Dirs \ {Root})) \ {{}}
    BY <1>2
  <2>2. PICK d \in T : Parent[d] \notin T
    BY <2>1, TreeAssumption
  <2>3. Parent[d] \in S
    BY <2>2, ParentIn
  <2> QED
    BY <2>2, <2>3
<1> QED
  BY <1>1, <1>2

\* The sets of directories that have the parents of their members.
Upward == {S \in SUBSET Dirs : \A x \in S : x # Root => Parent[x] \in S}

LEMMA PathDef ==
  ASSUME NEW d \in Dirs
  PROVE  Path[d] = IF d = Root THEN {Root} ELSE Path[Parent[d]] \cup {d}
<1> DEFINE Up(x) == {e \in Dirs : \A S \in Upward : x \in S => e \in S}
           P == [x \in Dirs |-> Up(x)]
           Rec(f) == f = [x \in Dirs |-> IF x = Root THEN {Root} ELSE f[Parent[x]] \cup {x}]
<1>1. Up(Root) = {Root}
  <2>1. {Root} \in Upward /\ Root \in Dirs
    BY RetentionAssumption DEF Upward
  <2> QED
    BY <2>1
<1>2. ASSUME NEW x \in Dirs, x # Root
      PROVE  Up(x) = Up(Parent[x]) \cup {x}
  <2>1. Parent[x] \in Dirs
    BY <1>2, ParentIn
  <2>2. ASSUME NEW e \in Up(x), e # x
        PROVE  e \in Up(Parent[x])
    <3> SUFFICES ASSUME NEW S \in Upward, Parent[x] \in S
                 PROVE  e \in S
      OBVIOUS
    <3>1. S \cup {x} \in Upward
      BY <1>2 DEF Upward
    <3> QED
      BY <2>2, <3>1
  <2>3. ASSUME NEW e \in Up(Parent[x])
        PROVE  e \in Up(x)
    BY <1>2 DEF Upward
  <2>4. x \in Up(x)
    OBVIOUS
  <2> QED
    BY <2>2, <2>3, <2>4
<1>3. Rec(P)
  <2>1. \A x \in Dirs : P[x] = IF x = Root THEN {Root} ELSE P[Parent[x]] \cup {x}
    BY <1>1, <1>2, ParentIn
  <2> HIDE DEF Up
  <2> QED
    BY <2>1
<1>4. Path = CHOOSE f : Rec(f)
  BY DEF Path
<1>5. Rec(Path)
  <2> HIDE DEF Rec
  <2> QED
    BY <1>3, <1>4, Zenon
<1> QED
  BY <1>5

LEMMA RootPath == Root \in Dirs /\ Path[Root] = {Root}
BY PathDef, RetentionAssumption

LEMMA PathIn ==
  ASSUME NEW d \in Dirs
  PROVE  Path[d] \subseteq Dirs /\ d \in Path[d] /\ Root \in Path[d]
<1> DEFINE S == {x \in Dirs : Path[x] \subseteq Dirs /\ x \in Path[x] /\ Root \in Path[x]}
<1>1. Root \in S
  BY RootPath
<1>2. ASSUME NEW x \in Dirs \ {Root}, Parent[x] \in S
      PROVE  x \in S
  <2>1. Path[x] = Path[Parent[x]] \cup {x}
    BY PathDef
  <2> QED
    BY <1>2, <2>1
<1> QED
  BY <1>1, <1>2, TreeInduction

LEMMA PathMono ==
  ASSUME NEW d \in Dirs, NEW e \in Path[d]
  PROVE  Path[e] \subseteq Path[d]
<1> DEFINE S == {x \in Dirs : \A y \in Path[x] : Path[y] \subseteq Path[x]}
<1>1. Root \in S
  BY RootPath
<1>2. ASSUME NEW x \in Dirs \ {Root}, Parent[x] \in S
      PROVE  x \in S
  <2>1. Path[x] = Path[Parent[x]] \cup {x}
    BY PathDef
  <2> QED
    BY <1>2, <2>1
<1> QED
  BY <1>1, <1>2, TreeInduction

\* The tree has no cycles.
LEMMA NotOwn ==
  ASSUME NEW d \in Dirs, d # Root
  PROVE  d \notin Path[Parent[d]]
<1> DEFINE S == {x \in Dirs : x # Root => x \notin Path[Parent[x]]}
<1>1. Root \in S
  BY RetentionAssumption
<1>2. ASSUME NEW x \in Dirs \ {Root}, Parent[x] \in S
      PROVE  x \in S
  <2> SUFFICES ASSUME x \in Path[Parent[x]]
               PROVE  FALSE
    OBVIOUS
  <2> DEFINE p == Parent[x]
  <2>1. p \in Dirs /\ p \in Path[p]
    BY PathIn, ParentIn
  <2>2. p # Root
    BY <2>1, PathDef
  <2>3. p \notin Path[Parent[p]] /\ Parent[p] \in Dirs
    BY <1>2, <2>1, <2>2, ParentIn
  <2>4. x \in Path[Parent[p]]
    <3>1. Path[p] = Path[Parent[p]] \cup {p}
      BY <2>1, <2>2, PathDef
    <3>2. x # p
      BY <2>3, <2>2
    <3> QED
      BY <3>1, <3>2
  <2>5. p \in Path[x]
    BY <2>1, PathDef
  <2>6. Path[x] \subseteq Path[Parent[p]]
    BY <2>3, <2>4, PathMono
  <2> QED
    BY <2>3, <2>5, <2>6
<1> QED
  BY <1>1, <1>2, TreeInduction

LEMMA ParentOnPath ==
  ASSUME NEW d \in Dirs, NEW e \in Path[d], e # Root
  PROVE  Parent[e] \in Path[d] /\ Parent[e] \in Dirs
<1>1. e \in Dirs /\ Parent[e] \in Dirs
  BY PathIn, ParentIn
<1>2. Parent[e] \in Path[e]
  BY <1>1, PathDef, PathIn
<1> QED
  BY <1>1, <1>2, PathMono

LEMMA ChildOnPath ==
  ASSUME NEW d \in Dirs, NEW e \in Path[d], e # d
  PROVE  \E c \in Path[d] : c # Root /\ Parent[c] = e
<1> DEFINE S == {x \in Dirs : \A y \in Path[x] :
                   y # x => \E c \in Path[x] : c # Root /\ Parent[c] = y}
<1>1. Root \in S
  BY RootPath
<1>2. ASSUME NEW x \in Dirs \ {Root}, Parent[x] \in S
      PROVE  x \in S
  <2>1. Path[x] = Path[Parent[x]] \cup {x}
    BY PathDef
  <2>2. ASSUME NEW y \in Path[x], y # x
        PROVE  \E c \in Path[x] : c # Root /\ Parent[c] = y
    <3>1. y \in Path[Parent[x]]
      BY <2>1, <2>2
    <3>2. CASE y = Parent[x]
      BY <2>1, <3>2
    <3>3. CASE y # Parent[x]
      BY <1>2, <2>1, <3>1, <3>3
    <3> QED
      BY <3>2, <3>3
  <2> QED
    BY <2>2
<1> QED
  BY <1>1, <1>2, TreeInduction

LEMMA Antisymmetric ==
  ASSUME NEW d \in Dirs, NEW e \in Path[d], d \in Path[e]
  PROVE  e = d
<1> SUFFICES ASSUME e # d
             PROVE  FALSE
  OBVIOUS
<1>1. d # Root
  BY RootPath
<1>2. e \in Path[Parent[d]] /\ Parent[d] \in Dirs
  BY <1>1, PathDef, ParentIn
<1>3. Path[e] \subseteq Path[Parent[d]]
  BY <1>2, PathMono
<1> QED
  BY <1>1, <1>3, NotOwn

-----------------------------------------------------------------------------
\* The STATEs of the directories, and what they make of the rules.

\* g gives the STATEs of the directories on the path to d.
AreStates(d, g) ==
  g = [e \in Path[d] |-> IF e = Root THEN patterns ELSE StateUnder(g[Parent[e]], e)]

LEMMA StatesExist == ASSUME NEW d \in Dirs PROVE \E g : AreStates(d, g)
<1> DEFINE S == {x \in Dirs : \E g : AreStates(x, g)}
<1>1. Root \in S
  <2> DEFINE g == [e \in {Root} |-> patterns]
  <2>1. g = [e \in {Root} |-> IF e = Root THEN patterns ELSE StateUnder(g[Parent[e]], e)]
    OBVIOUS
  <2>2. AreStates(Root, g)
    BY <2>1, RootPath, Zenon DEF AreStates
  <2> HIDE DEF g
  <2> QED
    BY <2>2, RootPath
<1>2. ASSUME NEW x \in Dirs \ {Root}, Parent[x] \in S
      PROVE  x \in S
  <2>1. PICK g : AreStates(Parent[x], g)
    BY <1>2
  <2> DEFINE p == Parent[x]
             h == [e \in Path[x] |-> IF e = x THEN StateUnder(g[p], x) ELSE g[e]]
  <2>2. p \in Dirs /\ p \in Path[p] /\ x \notin Path[p] /\ Path[x] = Path[p] \cup {x}
    BY ParentIn, PathIn, NotOwn, PathDef
  <2>3. ASSUME NEW e \in Path[x]
        PROVE  h[e] = IF e = Root THEN patterns ELSE StateUnder(h[Parent[e]], e)
    <3>1. CASE e = x
      <4>1. h[p] = g[p]
        BY <2>2
      <4> QED
        BY <3>1, <4>1
    <3>2. CASE e # x
      <4>1. e \in Path[p]
        BY <2>2, <3>2
      <4>2. g[e] = IF e = Root THEN patterns ELSE StateUnder(g[Parent[e]], e)
        BY <2>1, <4>1 DEF AreStates
      <4>3. e # Root => Parent[e] \in Path[p]
        BY <2>2, <4>1, ParentOnPath
      <4>4. e # Root => h[Parent[e]] = g[Parent[e]]
        BY <2>2, <4>3
      <4>5. h[e] = g[e]
        BY <3>2
      <4> QED
        BY <4>2, <4>4, <4>5
    <3> QED
      BY <3>1, <3>2
  <2>4. h = [e \in Path[x] |-> h[e]]
    OBVIOUS
  <2> HIDE DEF h
  <2>5. AreStates(x, h)
    BY <2>3, <2>4 DEF AreStates
  <2> QED
    BY <2>5
<1> QED
  BY <1>1, <1>2, TreeInduction

LEMMA StatesAgree ==
  ASSUME NEW c \in Dirs, NEW d \in Dirs, NEW g, NEW h, AreStates(c, g), AreStates(d, h),
         NEW x \in Path[c] \cap Path[d]
  PROVE  g[x] = h[x]
<1> DEFINE T == {e \in Path[c] \cap Path[d] : g[e] # h[e]}
<1> SUFFICES ASSUME T # {}
             PROVE  FALSE
  OBVIOUS
<1>1. \A e \in Path[c] : g[e] = IF e = Root THEN patterns ELSE StateUnder(g[Parent[e]], e)
  BY DEF AreStates
<1>2. \A e \in Path[d] : h[e] = IF e = Root THEN patterns ELSE StateUnder(h[Parent[e]], e)
  BY DEF AreStates
<1>3. T \in (SUBSET (Dirs \ {Root})) \ {{}}
  <2>1. Root \notin T
    BY <1>1, <1>2
  <2> QED
    BY <2>1, PathIn
<1>4. PICK e \in T : Parent[e] \notin T
  BY <1>3, TreeAssumption
<1>5. e # Root /\ Parent[e] \in Path[c] \cap Path[d]
  BY <1>3, <1>4, ParentOnPath
<1>6. g[Parent[e]] = h[Parent[e]]
  BY <1>4, <1>5
<1> QED
  BY <1>1, <1>2, <1>4, <1>5, <1>6

LEMMA StateAtDef ==
  ASSUME NEW d \in Dirs
  PROVE  StateAt[d] = IF d = Root THEN patterns ELSE StateUnder(StateAt[Parent[d]], d)
<1> DEFINE G(x) == CHOOSE g : AreStates(x, g)
           F == [x \in Dirs |-> G(x)[x]]
           Rec(f) == f = [x \in Dirs |-> IF x = Root THEN patterns ELSE StateUnder(f[Parent[x]], x)]
<1>1. \A x \in Dirs : AreStates(x, G(x))
  BY StatesExist
<1> HIDE DEF G
<1>2. ASSUME NEW x \in Dirs
      PROVE  F[x] = IF x = Root THEN patterns ELSE StateUnder(F[Parent[x]], x)
  <2>1. G(x)[x] = IF x = Root THEN patterns ELSE StateUnder(G(x)[Parent[x]], x)
    BY <1>1, PathIn DEF AreStates
  <2>2. CASE x # Root
    <3>1. Parent[x] \in Dirs /\ Parent[x] \in Path[x] \cap Path[Parent[x]]
      BY <2>2, PathIn, ParentOnPath
    <3>2. G(x)[Parent[x]] = G(Parent[x])[Parent[x]]
      BY <1>1, <3>1, StatesAgree
    <3> QED
      BY <2>1, <2>2, <3>1, <3>2
  <2>3. CASE x = Root
    BY <2>1, <2>3
  <2> QED
    BY <2>2, <2>3
<1>3. F = [x \in Dirs |-> F[x]]
  OBVIOUS
<1> HIDE DEF F
<1>4. Rec(F)
  BY <1>2, <1>3
<1>5. StateAt = CHOOSE f : Rec(f)
  BY DEF StateAt
<1>6. Rec(StateAt)
  <2> HIDE DEF Rec
  <2> QED
    BY <1>4, <1>5, Zenon
<1> QED
  BY <1>6

LEMMA WithRoot ==
  ASSUME NEW key
  PROVE  With(Root, key) = IF Has(Root, key) THEN {Root} ELSE {}
BY RootPath DEF With, Has

LEMMA WithParent ==
  ASSUME NEW d \in Dirs, d # Root, NEW key
  PROVE  /\ With(d, key) = With(Parent[d], key) \cup (IF Has(d, key) THEN {d} ELSE {})
         /\ With(Parent[d], key) \subseteq Path[Parent[d]] /\ With(d, key) \subseteq Path[d]
<1>1. Path[d] = Path[Parent[d]] \cup {d}
  BY PathDef
<1> QED
  BY <1>1 DEF With, Has

\* A directory whose STATE has the key goes before those above it.
LEMMA InForceAt ==
  ASSUME NEW d \in Dirs, NEW key, NEW default
  PROVE  InForce(d, key, default) =
           IF Has(d, key) THEN StateAt[d][key]
           ELSE IF d = Root THEN default ELSE InForce(Parent[d], key, default)
<1>1. CASE Has(d, key)
  <2>1. d \in With(d, key) /\ With(d, key) \subseteq Path[d]
    BY <1>1, PathIn DEF With, Has
  <2>2. ASSUME NEW e \in With(d, key), With(d, key) \subseteq Path[e]
        PROVE  e = d
    BY <2>1, <2>2, Antisymmetric
  <2>3. Innermost(With(d, key)) = d
    BY <2>1, <2>2, Zenon DEF Innermost
  <2> QED
    BY <1>1, <2>1, <2>3 DEF InForce
<1>2. CASE ~Has(d, key) /\ d = Root
  BY <1>2, WithRoot DEF InForce
<1>3. CASE ~Has(d, key) /\ d # Root
  <2>1. With(d, key) = With(Parent[d], key)
    BY <1>3, WithParent
  <2> QED
    BY <1>3, <2>1 DEF InForce
<1> QED
  BY <1>1, <1>2, <1>3

\* The names that the REMOVE entries on the path to d give the age p.
Removed(d, p) == UNION {NamesFor(StateAt[e].REMOVE, p) : e \in With(d, "REMOVE")}

RemovedAbove(d, p) == IF d = Root THEN {} ELSE Removed(Parent[d], p)

LEMMA RemovedAt ==
  ASSUME NEW d \in Dirs, NEW p
  PROVE  Removed(d, p) = RemovedAbove(d, p)
                           \cup (IF Has(d, "REMOVE") THEN NamesFor(StateAt[d].REMOVE, p) ELSE {})
<1> DEFINE N(e) == NamesFor(StateAt[e].REMOVE, p)
<1>1. With(d, "REMOVE") = (IF d = Root THEN {} ELSE With(Parent[d], "REMOVE"))
                             \cup (IF Has(d, "REMOVE") THEN {d} ELSE {})
  BY WithRoot, WithParent
<1> HIDE DEF N
<1>2. UNION {N(e) : e \in With(d, "REMOVE")}
        = (IF d = Root THEN {} ELSE UNION {N(e) : e \in With(Parent[d], "REMOVE")})
            \cup (IF Has(d, "REMOVE") THEN N(d) ELSE {})
  BY <1>1
<1> QED
  BY <1>2 DEF Removed, RemovedAbove, N

\* Nothing is skipped on the way to d.
LEMMA SkippedAt ==
  ASSUME NEW d \in Dirs
  PROVE  Skipped(d) <=> \/ d # Root /\ Skipped(Parent[d])
                        \/ Has(d, "SKIP") /\ StateAt[d].SKIP
<1>1. CASE d = Root
  BY <1>1, WithRoot DEF Skipped
<1>2. CASE d # Root
  BY <1>2, WithParent DEF Skipped
<1> QED
  BY <1>1, <1>2

LEMMA ElementOf == ASSUME NEW S, NEW s \in Seq(S), NEW i \in DOMAIN s PROVE s[i] \in S
OBVIOUS

LEMMA EntryState ==
  ASSUME NEW subdirs \in Seq([dirs : SUBSET Dirs, state : States \cup {None}])
  PROVE  \A i \in DOMAIN subdirs : subdirs[i].state \in States \cup {None}
<1>1. \A i \in DOMAIN subdirs : subdirs[i] \in [dirs : SUBSET Dirs, state : States \cup {None}]
  BY ElementOf, Zenon
<1> QED
  BY <1>1

\* The STATEs are STATEs, or none.
LEMMA StateAtType ==
  ASSUME patterns \in Patterns, NEW d \in Dirs
  PROVE  StateAt[d] \in States \cup {None}
<1> DEFINE S == {x \in Dirs : StateAt[x] \in States \cup {None}}
<1>1. Root \in S
  BY RootPath, StateAtDef, StatesAssumption
<1>2. ASSUME NEW x \in Dirs \ {Root}, Parent[x] \in S
      PROVE  x \in S
  <2> DEFINE above == StateAt[Parent[x]]
             M == {i \in DOMAIN above.SUBDIRS : x \in above.SUBDIRS[i].dirs}
  <2>1. StateAt[x] = IF above = None THEN None
                     ELSE IF M = {} THEN None ELSE above.SUBDIRS[Min(M)].state
    BY StateAtDef DEF StateUnder
  <2>2. ASSUME above # None, M # {}
        PROVE  above.SUBDIRS[Min(M)].state \in States \cup {None}
    <3>1. above.SUBDIRS \in Seq([dirs : SUBSET Dirs, state : States \cup {None}])
      BY <1>2, <2>2, StatesAssumption
    <3>2. DOMAIN above.SUBDIRS \subseteq Nat
      BY <3>1
    <3>3. Min(M) \in M
      BY <2>2, <3>2, LeastOf
    <3>4. \A i \in DOMAIN above.SUBDIRS : above.SUBDIRS[i].state \in States \cup {None}
      BY <3>1, EntryState, Zenon
    <3>5. Min(M) \in DOMAIN above.SUBDIRS
      BY <3>3
    <3> QED
      BY <3>4, <3>5
  <2> QED
    BY <2>1, <2>2
<1> QED
  BY <1>1, <1>2, TreeInduction

\* The first entry of SUBDIRS that matches is the one the README means.
LEMMA SubdirStateIs ==
  ASSUME patterns \in Patterns, NEW d \in Dirs, d # Root
  PROVE  SubdirState(SubdirsAt(Parent[d]), d) = StateAt[d]
<1> DEFINE above == StateAt[Parent[d]]
           M == {i \in DOMAIN above.SUBDIRS : d \in above.SUBDIRS[i].dirs}
<1>1. StateAt[d] = IF above = None THEN None
                   ELSE IF M = {} THEN None ELSE above.SUBDIRS[Min(M)].state
  BY StateAtDef DEF StateUnder
<1>2. CASE above = None
  <2>1. SelectInSeq(<<>>, LAMBDA s : d \in s.dirs) = 0
    BY DEF SelectInSeq
  <2> QED
    BY <1>1, <1>2, <2>1 DEF SubdirState, SubdirsAt
<1>3. CASE above # None
  <2>1. above.SUBDIRS \in Seq([dirs : SUBSET Dirs, state : States \cup {None}])
    BY <1>3, ParentIn, StateAtType, StatesAssumption
  <2>2. DOMAIN above.SUBDIRS = 1..Len(above.SUBDIRS)
    BY <2>1
  <2>3. SelectInSeq(above.SUBDIRS, LAMBDA s : d \in s.dirs) = IF M # {} THEN Min(M) ELSE 0
    BY <2>2 DEF SelectInSeq
  <2>4. M # {} => Min(M) # 0
    <3>1. M \subseteq 1..Len(above.SUBDIRS) /\ Len(above.SUBDIRS) \in Nat
      BY <2>1, <2>2
    <3>2. M \in SUBSET Nat /\ \A i \in M : i # 0
      BY <3>1
    <3> QED
      BY <3>2, LeastOf
  <2> QED
    BY <1>1, <1>3, <2>3, <2>4 DEF SubdirState, SubdirsAt
<1> QED
  BY <1>2, <1>3

LEMMA HasKey ==
  ASSUME NEW d, StateAt[d] # None
  PROVE  /\ Has(d, "KEEP") <=> StateAt[d].KEEP # None
         /\ Has(d, "REMOVE") <=> StateAt[d].REMOVE # None
         /\ Has(d, "REMOVE_EMPTY_DIRS") <=> StateAt[d].REMOVE_EMPTY_DIRS # None
         /\ Has(d, "SKIP") <=> StateAt[d].SKIP # None
         /\ StateAt[d]["KEEP"] = StateAt[d].KEEP
         /\ StateAt[d]["REMOVE_EMPTY_DIRS"] = StateAt[d].REMOVE_EMPTY_DIRS
BY DEF Has

\* The rules a directory is entered with.
RulesAbove(d) == IF d = Root THEN NewRules ELSE RulesAt(Parent[d])

LEMMA RulesParts ==
  ASSUME NEW d \in Dirs
  PROVE  /\ RulesAt(d) = [keep |-> RulesAt(d).keep, purge |-> RulesAt(d).purge,
                          removeEmpty |-> RulesAt(d).removeEmpty, skip |-> FALSE]
         /\ RulesAt(d).keep = IF Has(d, "KEEP") THEN StateAt[d]["KEEP"] ELSE RulesAbove(d).keep
         /\ RulesAt(d).purge = [p \in Periods |-> Removed(d, p)]
         /\ RulesAbove(d).purge = [p \in Periods |-> RemovedAbove(d, p)]
         /\ RulesAt(d).removeEmpty = IF Has(d, "REMOVE_EMPTY_DIRS")
                                     THEN StateAt[d]["REMOVE_EMPTY_DIRS"]
                                     ELSE RulesAbove(d).removeEmpty
         /\ RulesAbove(d).skip = FALSE
<1>1. RulesAt(d).keep = IF Has(d, "KEEP") THEN StateAt[d]["KEEP"] ELSE RulesAbove(d).keep
  BY InForceAt DEF RulesAt, RulesAbove, NewRules
<1>2. RulesAt(d).removeEmpty = IF Has(d, "REMOVE_EMPTY_DIRS")
                               THEN StateAt[d]["REMOVE_EMPTY_DIRS"] ELSE RulesAbove(d).removeEmpty
  BY InForceAt DEF RulesAt, RulesAbove, NewRules
<1>3. RulesAt(d).purge = [p \in Periods |-> Removed(d, p)]
  BY DEF RulesAt, Removed
<1>4. RulesAbove(d).purge = [p \in Periods |-> RemovedAbove(d, p)]
  BY DEF RulesAt, RulesAbove, NewRules, Removed, RemovedAbove
<1>5. RulesAbove(d).skip = FALSE
  BY DEF RulesAt, RulesAbove, NewRules
<1>6. RulesAt(d) = [keep |-> RulesAt(d).keep, purge |-> RulesAt(d).purge,
                    removeEmpty |-> RulesAt(d).removeEmpty, skip |-> FALSE]
  BY DEF RulesAt
<1> QED
  BY <1>1, <1>2, <1>3, <1>4, <1>5, <1>6

LEMMA RulesSame ==
  ASSUME NEW d \in Dirs, StateAt[d] = None
  PROVE  RulesAt(d) = RulesAbove(d)
<1>1. \A key : ~Has(d, key)
  BY DEF Has
<1>2. /\ RulesAt(d).keep = RulesAbove(d).keep
      /\ RulesAt(d).removeEmpty = RulesAbove(d).removeEmpty
  BY <1>1, RulesParts
<1>3. RulesAt(d).purge = RulesAbove(d).purge
  <2>1. \A p : Removed(d, p) = RemovedAbove(d, p)
    <3> TAKE p
    <3>1. ~Has(d, "REMOVE")
      BY <1>1
    <3> QED
      BY <3>1, RemovedAt
  <2>2. [p \in Periods |-> Removed(d, p)] = [p \in Periods |-> RemovedAbove(d, p)]
    BY <2>1
  <2> QED
    BY <2>2, RulesParts, Zenon
<1>4. RulesAbove(d) = [keep |-> RulesAbove(d).keep, purge |-> RulesAbove(d).purge,
                       removeEmpty |-> RulesAbove(d).removeEmpty, skip |-> FALSE]
  BY DEF RulesAbove, RulesAt, NewRules
<1> QED
  BY <1>2, <1>3, <1>4, RulesParts

LEMMA RulesDerived ==
  ASSUME patterns \in Patterns, NEW d \in Dirs, StateAt[d] # None
  PROVE  /\ Derived(RulesAbove(d), StateAt[d]).skip = (Has(d, "SKIP") /\ StateAt[d].SKIP)
         /\ ~(Has(d, "SKIP") /\ StateAt[d].SKIP) => Derived(RulesAbove(d), StateAt[d]) = RulesAt(d)
<1> DEFINE state == StateAt[d]
           new == Derived(RulesAbove(d), state)
<1>1. state.SKIP \in BOOLEAN \cup {None}
  BY StateAtType, StatesAssumption
<1>2. new.skip = (Has(d, "SKIP") /\ state.SKIP)
  <2>1. new.skip = IF state.SKIP = None THEN FALSE ELSE state.SKIP
    BY RulesParts DEF Derived, Override
  <2>2. Has(d, "SKIP") <=> state.SKIP # None
    BY HasKey
  <2> QED
    BY <1>1, <2>1, <2>2
<1>3. new.keep = RulesAt(d).keep
  <2>1. new.keep = IF state.KEEP = None THEN RulesAbove(d).keep ELSE state.KEEP
    BY DEF Derived, Override
  <2> QED
    BY <2>1, HasKey, RulesParts
<1>4. new.removeEmpty = RulesAt(d).removeEmpty
  <2>1. new.removeEmpty = IF state.REMOVE_EMPTY_DIRS = None THEN RulesAbove(d).removeEmpty
                          ELSE state.REMOVE_EMPTY_DIRS
    BY DEF Derived, Override
  <2> QED
    BY <2>1, HasKey, RulesParts
<1>5. new.purge = RulesAt(d).purge
  <2>1. new.purge = IF state.REMOVE = None THEN RulesAbove(d).purge
                    ELSE [p \in Periods |-> RulesAbove(d).purge[p] \cup NamesFor(state.REMOVE, p)]
    BY DEF Derived
  <2>2. Has(d, "REMOVE") <=> state.REMOVE # None
    BY HasKey
  <2>3. \A p : Removed(d, p) = RemovedAbove(d, p)
                                 \cup (IF Has(d, "REMOVE") THEN NamesFor(state.REMOVE, p) ELSE {})
    BY RemovedAt
  <2>4. CASE state.REMOVE = None
    <3>1. \A p : Removed(d, p) = RemovedAbove(d, p)
      BY <2>2, <2>3, <2>4
    <3>2. [p \in Periods |-> Removed(d, p)] = [p \in Periods |-> RemovedAbove(d, p)]
      BY <3>1
    <3> QED
      BY <2>1, <2>4, <3>2, RulesParts, Zenon
  <2>5. CASE state.REMOVE # None
    <3>1. \A p \in Periods : RulesAbove(d).purge[p] \cup NamesFor(state.REMOVE, p) = Removed(d, p)
      BY <2>2, <2>3, <2>5, RulesParts
    <3>2. [p \in Periods |-> RulesAbove(d).purge[p] \cup NamesFor(state.REMOVE, p)]
            = [p \in Periods |-> Removed(d, p)]
      BY <3>1
    <3> QED
      BY <2>1, <2>5, <3>2, RulesParts, Zenon
  <2> QED
    BY <2>4, <2>5
<1>6. new = [keep |-> new.keep, purge |-> new.purge, removeEmpty |-> new.removeEmpty,
             skip |-> new.skip]
  BY DEF Derived
<1> HIDE DEF new
<1>7. ~(Has(d, "SKIP") /\ state.SKIP) => new = RulesAt(d)
  BY <1>2, <1>3, <1>4, <1>5, <1>6, RulesParts
<1> QED
  BY <1>2, <1>7 DEF new

Called(d) ==
  [dir |-> d, rules |-> RulesAt(d), subdirs |-> SubdirsAt(d),
   phase |-> "files", todo |-> FilesIn(d)]

\* A directory that is not skipped is entered with its own rules.
LEMMA EnteredIs ==
  ASSUME patterns \in Patterns, NEW d \in Dirs, NEW calls, d # Root => ~Skipped(Parent[d])
  PROVE  Entered(calls, d, RulesAbove(d), StateAt[d]) =
           IF Skipped(d) THEN calls ELSE Append(calls, Called(d))
<1>1. CASE StateAt[d] = None
  <2>1. ~Skipped(d)
    BY <1>1, SkippedAt DEF Has
  <2> QED
    BY <1>1, <2>1, RulesSame DEF Entered, Called, SubdirsAt
<1>2. CASE StateAt[d] # None
  <2> DEFINE new == Derived(RulesAbove(d), StateAt[d])
  <2>1. new.skip <=> Skipped(d)
    BY <1>2, RulesDerived, SkippedAt
  <2>2. ~Skipped(d) => new = RulesAt(d)
    BY <1>2, RulesDerived, SkippedAt
  <2>3. Entered(calls, d, RulesAbove(d), StateAt[d]) =
          IF new.skip THEN calls
          ELSE Append(calls, [dir |-> d, rules |-> new, subdirs |-> StateAt[d].SUBDIRS,
                              phase |-> "files", todo |-> FilesIn(d)])
    BY <1>2 DEF Entered
  <2> HIDE DEF new
  <2> QED
    BY <1>2, <2>1, <2>2, <2>3 DEF Called, SubdirsAt
<1> QED
  BY <1>1, <1>2

LEMMA PeriodsIn ==
  ASSUME patterns \in Patterns, NEW f \in Files
  PROVE  PeriodsOf(f) \subseteq Periods
<1>1. Dir[f] \in Dirs
  BY RetentionAssumption
<1>2. \A e \in With(Dir[f], "REMOVE") : \A r \in StateAt[e].REMOVE : r.age \in Periods
  <2> TAKE e \in With(Dir[f], "REMOVE")
  <2>1. e \in Dirs /\ StateAt[e] # None /\ Has(e, "REMOVE")
    BY <1>1, PathIn DEF With, Has
  <2> QED
    BY <2>1, HasKey, StateAtType, StatesAssumption
<1> QED
  BY <1>2 DEF PeriodsOf

\* What the rules of its directory purge has expired, and the other way round.
LEMMA PurgesIs ==
  ASSUME patterns \in Patterns, NEW f \in Files, files[f] # None, ~Skipped(Dir[f])
  PROVE  Purges(f, RulesAt(Dir[f])) <=> Expired(f)
<1> DEFINE d == Dir[f]
           R == PeriodsOf(f)
<1>1. d \in Dirs
  BY RetentionAssumption
<1>2. R \subseteq Periods
  BY PeriodsIn
<1>3. \A p \in Periods : Name[f] \in RulesAt(d).purge[p] <=> p \in R
  <2>1. \A p \in Periods : RulesAt(d).purge[p] = Removed(d, p)
    BY <1>1, RulesParts
  <2>2. \A p : Name[f] \in Removed(d, p) <=>
          \E e \in With(d, "REMOVE") : \E r \in StateAt[e].REMOVE : r.age = p /\ Name[f] \in r.names
    BY DEF Removed, NamesFor
  <2>3. \A p : p \in R <=>
          \E e \in With(d, "REMOVE") : \E r \in StateAt[e].REMOVE : r.age = p /\ Name[f] \in r.names
    BY DEF PeriodsOf
  <2> QED
    BY <2>1, <2>2, <2>3
<1> HIDE DEF R
<1>4. \A p \in Periods : Decides(p, f, RulesAt(d)) <=> p \in R /\ \A q \in R : ~(q < p)
  BY <1>2, <1>3 DEF Decides
<1>5. Periods \subseteq Nat
  BY RetentionAssumption
<1>6. \A p \in Periods : Decides(p, f, RulesAt(d)) <=> R # {} /\ p = Min(R)
  <2> TAKE p \in Periods
  <2>1. ASSUME p \in R, \A q \in R : ~(q < p)
        PROVE  p = Min(R)
    <3>1. \A q \in R : p <= q
      BY <1>2, <1>5, <2>1
    <3> QED
      BY <1>2, <1>5, <2>1, <3>1, LeastIs
  <2>2. ASSUME R # {}, p = Min(R)
        PROVE  p \in R /\ \A q \in R : ~(q < p)
    <3>1. Min(R) \in R /\ \A q \in R : Min(R) <= q
      BY <1>2, <1>5, <2>2, LeastOf
    <3> QED
      BY <1>2, <1>5, <2>2, <3>1
  <2> QED
    BY <1>4, <2>1, <2>2
<1>7. R # {} => Min(R) \in Periods
  BY <1>2, <1>5, LeastOf
<1>8. RulesAt(d).keep = InForce(d, "KEEP", {})
  BY DEF RulesAt
<1> QED
  BY <1>6, <1>7, <1>8 DEF Purges, Expired, R

-----------------------------------------------------------------------------
\* The calls.

LEMMA RulesStay ==
  ASSUME patterns' = patterns
  PROVE  /\ StateAt' = StateAt
         /\ \A d : RulesAt(d)' = RulesAt(d) /\ SubdirsAt(d)' = SubdirsAt(d)
         /\ \A d : Skipped(d)' <=> Skipped(d)
         /\ \A d, key, default : InForce(d, key, default)' = InForce(d, key, default)
         /\ \A f : PeriodsOf(f)' = PeriodsOf(f)
<1>1. StateAt' = StateAt
  BY DEF StateAt
<1>2. \A d, key : With(d, key)' = With(d, key)
  BY <1>1 DEF With
<1>3. \A d, key, default : InForce(d, key, default)' = InForce(d, key, default)
  BY <1>1, <1>2 DEF InForce
<1>4. \A d : RulesAt(d)' = RulesAt(d) /\ SubdirsAt(d)' = SubdirsAt(d)
  BY <1>1, <1>2, <1>3, Zenon DEF RulesAt, SubdirsAt
<1>5. \A d : Skipped(d)' <=> Skipped(d)
  BY <1>1, <1>2 DEF Skipped
<1>6. \A f : PeriodsOf(f)' = PeriodsOf(f)
  BY <1>1, <1>2, Zenon DEF PeriodsOf
<1> QED
  BY <1>1, <1>3, <1>4, <1>5, <1>6

LEMMA WalkStays ==
  ASSUME patterns' = patterns, WalkInv(stack', dirs')
  PROVE  WalkInv(stack, dirs)'
<1>1. Call' = Call
  BY RulesStay, Zenon DEF Call
<1>2. \A i \in DOMAIN stack' : CallInv(stack[i], dirs)'
  BY RulesStay DEF WalkInv, CallInv, Below
<1>3. PathInv(stack)'
  BY DEF WalkInv, PathInv
<1>4. (stack \in Seq(Call))'
  BY <1>1 DEF WalkInv
<1> QED
  BY <1>2, <1>3, <1>4 DEF WalkInv

NewTop(phase, todo) == [Top EXCEPT !.phase = phase, !.todo = todo]

LEMMA TopIs ==
  ASSUME stack \in Seq(Call), stack # <<>>
  PROVE  /\ Len(stack) \in Nat \ {0} /\ DOMAIN stack = 1..Len(stack) /\ Len(stack) \in DOMAIN stack
         /\ Top = stack[Len(stack)] /\ Top \in Call
         /\ Top.dir \in Dirs /\ Top.phase \in Phases
<1>1. Len(stack) \in Nat \ {0} /\ DOMAIN stack = 1..Len(stack) /\ Top = stack[Len(stack)]
  BY DEF Last, Top
<1>2. Len(stack) \in DOMAIN stack
  BY <1>1
<1>3. Top \in Call
  BY <1>1, <1>2, ElementOf
<1> QED
  BY <1>1, <1>2, <1>3 DEF Call

LEMMA NewCall ==
  ASSUME NEW D, NEW R, NEW B, NEW P, NEW T, NEW phase \in P, NEW todo \in T,
         NEW call \in [dir : D, rules : R, subdirs : B, phase : P, todo : T]
  PROVE  /\ [call EXCEPT !.phase = phase, !.todo = todo]
              = [dir |-> call.dir, rules |-> call.rules, subdirs |-> call.subdirs,
                 phase |-> phase, todo |-> todo]
         /\ [call EXCEPT !.phase = phase, !.todo = todo]
              \in [dir : D, rules : R, subdirs : B, phase : P, todo : T]
<1> DEFINE new == [[call EXCEPT !.phase = phase] EXCEPT !.todo = todo]
<1>1. [call EXCEPT !.phase = phase, !.todo = todo] = new
  OBVIOUS
<1>2. new = [dir |-> call.dir, rules |-> call.rules, subdirs |-> call.subdirs,
             phase |-> phase, todo |-> todo]
  <2> DEFINE mid == [call EXCEPT !.phase = phase]
  <2>1. mid \in [dir : D, rules : R, subdirs : B, phase : P, todo : T] /\ mid.phase = phase
        /\ mid.dir = call.dir /\ mid.rules = call.rules /\ mid.subdirs = call.subdirs
    OBVIOUS
  <2> HIDE DEF mid
  <2>2. [mid EXCEPT !.todo = todo] = [dir |-> mid.dir, rules |-> mid.rules,
                                      subdirs |-> mid.subdirs, phase |-> mid.phase, todo |-> todo]
    BY <2>1
  <2> QED
    BY <2>1, <2>2 DEF mid
<1>3. [dir |-> call.dir, rules |-> call.rules, subdirs |-> call.subdirs, phase |-> phase,
       todo |-> todo] \in [dir : D, rules : R, subdirs : B, phase : P, todo : T]
  OBVIOUS
<1> QED
  BY <1>1, <1>2, <1>3, Zenon

\* InTop changes the phase and the list of the last call, and no other call.
LEMMA InTopIs ==
  ASSUME stack \in Seq(Call), stack # <<>>,
         NEW phase \in Phases, NEW todo \in (SUBSET Dirs) \cup SUBSET Files
  PROVE  /\ InTop(phase, todo) \in Seq(Call) /\ DOMAIN InTop(phase, todo) = DOMAIN stack
         /\ Len(InTop(phase, todo)) = Len(stack) /\ InTop(phase, todo) # <<>>
         /\ \A i \in DOMAIN stack :
              InTop(phase, todo)[i] = IF i = Len(stack) THEN NewTop(phase, todo) ELSE stack[i]
         /\ NewTop(phase, todo) = [dir |-> Top.dir, rules |-> Top.rules, subdirs |-> Top.subdirs,
                                   phase |-> phase, todo |-> todo]
<1> DEFINE n == Len(stack)
           new == NewTop(phase, todo)
<1>1. new \in Call /\ new = [dir |-> Top.dir, rules |-> Top.rules, subdirs |-> Top.subdirs,
                             phase |-> phase, todo |-> todo]
  <2>1. Top \in Call
    BY TopIs
  <2> HIDE DEF new
  <2>2. new = [Top EXCEPT !.phase = phase, !.todo = todo]
    BY DEF new, NewTop
  <2> QED
    BY <2>1, <2>2, NewCall, Zenon DEF Call
<1>2. /\ Front(stack) \in Seq(Call) /\ Len(Front(stack)) = n - 1 /\ n \in Nat \ {0}
      /\ \A i \in 1..(n - 1) : Front(stack)[i] = stack[i]
  BY TopIs DEF Front
<1>3. InTop(phase, todo) = Append(Front(stack), new)
  BY DEF InTop, NewTop
<1> HIDE DEF new
<1>4. /\ InTop(phase, todo) \in Seq(Call) /\ Len(InTop(phase, todo)) = n
      /\ \A i \in 1..(n - 1) : InTop(phase, todo)[i] = stack[i]
      /\ InTop(phase, todo)[n] = new
  BY <1>1, <1>2, <1>3, AppendProperties
<1>5. DOMAIN InTop(phase, todo) = DOMAIN stack
  BY <1>4
<1>6. \A i \in DOMAIN stack : i # n => i \in 1..(n - 1)
  BY <1>2
<1> QED
  BY <1>1, <1>2, <1>4, <1>5, <1>6 DEF new

LEMMA InTopWalk ==
  ASSUME WalkInv(stack, dirs), stack # <<>>,
         NEW phase \in Phases, NEW todo \in (SUBSET Dirs) \cup SUBSET Files, NEW there,
         \A i \in DOMAIN stack : /\ stack[i].dir \in there
                                 /\ i # Len(stack) => stack[i].todo \subseteq there,
         CallInv(NewTop(phase, todo), there)
  PROVE  WalkInv(InTop(phase, todo), there)
<1> DEFINE s == InTop(phase, todo)
<1>1. stack \in Seq(Call) /\ PathInv(stack) /\ \A i \in DOMAIN stack : CallInv(stack[i], dirs)
  BY DEF WalkInv
<1>2. /\ s \in Seq(Call) /\ DOMAIN s = DOMAIN stack
      /\ \A i \in DOMAIN stack : s[i] = IF i = Len(stack) THEN NewTop(phase, todo) ELSE stack[i]
      /\ NewTop(phase, todo).dir = Top.dir
  BY <1>1, InTopIs
<1>3. \A i \in DOMAIN s : s[i].dir = stack[i].dir
  BY <1>1, <1>2, TopIs
<1> HIDE DEF s
<1>4. ASSUME NEW i \in DOMAIN s
      PROVE  CallInv(s[i], there)
  <2>1. CASE i = Len(stack)
    BY <1>2, <2>1
  <2>2. CASE i # Len(stack)
    <3>1. /\ s[i] = stack[i] /\ CallInv(stack[i], dirs) /\ stack[i].dir \in there
          /\ stack[i].todo \subseteq there
      BY <1>1, <1>2, <2>2
    <3> QED
      BY <3>1 DEF CallInv
  <2> QED
    BY <2>1, <2>2
<1>5. PathInv(s)
  <2>1. ASSUME NEW i \in DOMAIN s, i > 1
        PROVE  s[i - 1].dir = stack[i - 1].dir
    <3>1. i - 1 \in DOMAIN s
      BY <1>1, <1>2, <2>1, TopIs
    <3> QED
      BY <1>3, <3>1
  <2>2. ASSUME NEW i \in DOMAIN s, NEW j \in DOMAIN s, i < j
        PROVE  s[i].phase = stack[i].phase
    <3>1. i # Len(stack)
      BY <1>1, <1>2, <2>2, TopIs
    <3> QED
      BY <1>2, <3>1
  <2>3. ASSUME NEW i \in DOMAIN s
        PROVE  (s[i].dir = Root <=> i = 1) /\ (i > 1 => Parent[s[i].dir] = s[i - 1].dir)
    BY <1>1, <1>2, <1>3, <2>1 DEF PathInv
  <2>4. ASSUME NEW i \in DOMAIN s, NEW j \in DOMAIN s, i < j
        PROVE  s[i].dir \in Path[s[j].dir] /\ s[i].dir # s[j].dir /\ s[i].phase = "dirs"
    BY <1>1, <1>2, <1>3, <2>2, <2>4 DEF PathInv
  <2> QED
    BY <2>3, <2>4 DEF PathInv
<1> QED
  BY <1>2, <1>4, <1>5 DEF WalkInv, s

\* A call enters a directory in its own.
LEMMA CalledWalk ==
  ASSUME NEW calls, NEW there \in SUBSET Dirs, WalkInv(calls, there), NEW d \in there, ~Skipped(d),
         IF calls = <<>> THEN d = Root
         ELSE d # Root /\ Parent[d] = Last(calls).dir /\ Last(calls).phase = "dirs"
  PROVE  WalkInv(Append(calls, Called(d)), there)
<1> DEFINE s == Append(calls, Called(d))
           n == Len(calls)
<1>1. calls \in Seq(Call) /\ PathInv(calls) /\ \A i \in DOMAIN calls : CallInv(calls[i], there)
  BY DEF WalkInv
<1>2. /\ Called(d) \in Call /\ CallInv(Called(d), there) /\ Called(d).dir = d
      /\ Called(d).phase = "files"
  BY DEF Called, Call, CallInv, Phases, FilesIn
<1>3. n \in Nat /\ DOMAIN calls = 1..n /\ (calls = <<>> <=> n = 0)
  BY <1>1
<1>4. /\ s \in Seq(Call) /\ DOMAIN s = 1..(n + 1)
      /\ \A i \in DOMAIN calls : s[i] = calls[i]
      /\ s[n + 1] = Called(d)
  BY <1>1, <1>2, <1>3, AppendProperties
<1> HIDE DEF s
<1>5. \A i \in DOMAIN s : i \in DOMAIN calls \/ i = n + 1
  BY <1>3, <1>4
<1>6. \A i \in DOMAIN s : CallInv(s[i], there)
  BY <1>1, <1>2, <1>4, <1>5
<1>7. calls # <<>> => n \in DOMAIN calls /\ calls[n].dir = Parent[d] /\ calls[n].phase = "dirs"
  BY <1>3 DEF Last
<1>8. ASSUME NEW i \in DOMAIN s
      PROVE  (s[i].dir = Root <=> i = 1) /\ (i > 1 => Parent[s[i].dir] = s[i - 1].dir)
  <2>1. CASE i \in DOMAIN calls
    <3>1. i > 1 => i - 1 \in DOMAIN calls
      BY <1>3, <2>1
    <3>2. (calls[i].dir = Root <=> i = 1) /\ (i > 1 => Parent[calls[i].dir] = calls[i - 1].dir)
      BY <1>1, <2>1 DEF PathInv
    <3> QED
      BY <1>4, <2>1, <3>1, <3>2
  <2>2. CASE i = n + 1 /\ calls = <<>>
    BY <1>2, <1>3, <1>4, <2>2
  <2>3. CASE i = n + 1 /\ calls # <<>>
    <3>1. n # 0 /\ i # 1 /\ i - 1 = n /\ n \in DOMAIN calls
      BY <1>3, <2>3
    <3> QED
      BY <1>2, <1>4, <1>7, <2>3, <3>1
  <2> QED
    BY <1>5, <2>1, <2>2, <2>3
<1>9. ASSUME NEW i \in DOMAIN s, NEW j \in DOMAIN s, i < j
      PROVE  s[i].dir \in Path[s[j].dir] /\ s[i].dir # s[j].dir /\ s[i].phase = "dirs"
  <2>1. CASE j \in DOMAIN calls
    <3>1. i \in DOMAIN calls
      BY <1>3, <1>4, <1>9, <2>1
    <3> QED
      BY <1>1, <1>4, <1>9, <2>1, <3>1 DEF PathInv
  <2>2. CASE j = n + 1
    <3>1. i \in 1..n /\ i \in DOMAIN calls /\ calls # <<>>
      BY <1>3, <1>4, <1>9, <2>2
    <3>2. calls[i].dir \in Path[Parent[d]] /\ calls[i].phase = "dirs" /\ Parent[d] \in Dirs
      <4>1. Parent[d] \in Dirs
        BY <3>1, ParentIn
      <4>2. CASE i = n
        BY <1>7, <3>1, <4>1, <4>2, PathIn
      <4>3. CASE i # n
        <5>1. i < n
          BY <1>3, <3>1, <4>3
        <5> QED
          BY <1>1, <1>7, <3>1, <4>1, <5>1 DEF PathInv
      <4> QED
        BY <4>2, <4>3
    <3>3. d # Root /\ d \in Dirs
      BY <3>1
    <3>4. calls[i].dir \in Path[d] /\ calls[i].dir # d
      BY <3>2, <3>3, PathDef, NotOwn
    <3> QED
      BY <1>2, <1>4, <2>2, <3>1, <3>2, <3>4
  <2> QED
    BY <1>5, <2>1, <2>2
<1>10. PathInv(s)
  BY <1>8, <1>9 DEF PathInv
<1> QED
  BY <1>4, <1>6, <1>10 DEF WalkInv, s

LEMMA FrontWalk ==
  ASSUME WalkInv(stack, dirs), stack # <<>>
  PROVE  /\ WalkInv(Front(stack), dirs) /\ DOMAIN Front(stack) = DOMAIN stack \ {Len(stack)}
         /\ \A i \in DOMAIN Front(stack) : Front(stack)[i] = stack[i]
<1> DEFINE n == Len(stack)
           s == Front(stack)
<1>1. stack \in Seq(Call) /\ PathInv(stack) /\ \A i \in DOMAIN stack : CallInv(stack[i], dirs)
  BY DEF WalkInv
<1>2. n \in Nat \ {0} /\ DOMAIN stack = 1..n
  BY <1>1, TopIs
<1>3. s \in Seq(Call) /\ Len(s) = n - 1 /\ \A i \in 1..(n - 1) : s[i] = stack[i]
  BY <1>1, <1>2 DEF Front
<1>4. DOMAIN s = 1..(n - 1)
  BY <1>3
<1>5. DOMAIN s = DOMAIN stack \ {n}
  BY <1>2, <1>4
<1>6. \A i \in DOMAIN s : s[i] = stack[i] /\ i \in DOMAIN stack
  BY <1>3, <1>4, <1>5
<1> HIDE DEF s
<1>7. PathInv(s)
  <2>1. ASSUME NEW i \in DOMAIN s, i > 1
        PROVE  i - 1 \in DOMAIN s
    BY <1>2, <1>4, <2>1
  <2> QED
    BY <1>1, <1>6, <2>1 DEF PathInv
<1> QED
  BY <1>1, <1>3, <1>5, <1>6, <1>7 DEF WalkInv, s

-----------------------------------------------------------------------------
\* The inductive invariant.

LEMMA TypeHolds == IInv => TypeOK
<1> SUFFICES ASSUME IInv
             PROVE  TypeOK
  OBVIOUS
<1>1. stack \in Seq(Call) /\ PathInv(stack) /\ \A i \in DOMAIN stack : CallInv(stack[i], dirs)
  BY DEF IInv, WalkInv
<1>2. \A i \in DOMAIN stack : stack[i].phase \in Phases
  <2>1. \A i \in DOMAIN stack : stack[i] \in Call
    BY <1>1, ElementOf
  <2> QED
    BY <2>1 DEF Call
<1>3. \A i \in DOMAIN stack :
        /\ stack[i].dir \in dirs /\ stack[i].phase \in Phases
        /\ stack[i].dir = Root <=> i = 1
        /\ i > 1 => Parent[stack[i].dir] = stack[i - 1].dir
  BY <1>1, <1>2 DEF CallInv, PathInv
<1> QED
  BY <1>3 DEF IInv, TreeInv, TypeOK

LEMMA InitIInv == Init => IInv
<1> SUFFICES ASSUME Init
             PROVE  IInv
  OBVIOUS
<1>1. TreeInv
  BY RootPath, RetentionAssumption DEF Init, RetentionInit, TreeInv
<1>2. WalkInv(stack, dirs)
  BY DEF Init, RetentionInit, WalkInv, PathInv
<1> QED
  BY <1>1, <1>2 DEF IInv

LEMMA TopInv ==
  ASSUME IInv, stack # <<>>
  PROVE  /\ stack \in Seq(Call) /\ CallInv(Top, dirs) /\ Top \in Call /\ Top.dir \in Dirs
         /\ \A i \in DOMAIN stack : i # Len(stack) =>
              /\ i < Len(stack) /\ stack[i].phase = "dirs"
              /\ stack[i].dir \in Path[Top.dir] /\ stack[i].dir # Top.dir
              /\ stack[i].todo \subseteq Below(stack[i].dir) \cap dirs
<1>1. stack \in Seq(Call) /\ PathInv(stack) /\ \A i \in DOMAIN stack : CallInv(stack[i], dirs)
  BY DEF IInv, WalkInv
<1>2. ASSUME NEW i \in DOMAIN stack, i # Len(stack)
      PROVE  i < Len(stack)
  BY <1>1, <1>2, TopIs
<1>3. ASSUME NEW i \in DOMAIN stack, i # Len(stack)
      PROVE  /\ stack[i].phase = "dirs"
             /\ stack[i].dir \in Path[Top.dir] /\ stack[i].dir # Top.dir
  BY <1>1, <1>2, <1>3, TopIs DEF PathInv
<1> QED
  BY <1>1, <1>2, <1>3, TopIs DEF CallInv

\* A step that changes nothing but the last call.
LEMMA TopStep ==
  ASSUME IInv, stack # <<>>, UNCHANGED <<patterns, dirs>>, TreeInv',
         NEW phase \in Phases, NEW todo \in (SUBSET Dirs) \cup SUBSET Files,
         stack' = InTop(phase, todo), CallInv(NewTop(phase, todo), dirs)
  PROVE  IInv'
<1>1. WalkInv(stack, dirs) /\ \A i \in DOMAIN stack : stack[i].dir \in dirs
  BY DEF IInv, WalkInv, CallInv
<1>2. \A i \in DOMAIN stack : i # Len(stack) => stack[i].todo \subseteq dirs
  BY TopInv
<1>3. WalkInv(InTop(phase, todo), dirs)
  BY <1>1, <1>2, InTopWalk
<1>4. WalkInv(stack', dirs')
  BY <1>3
<1> QED
  BY <1>4, WalkStays DEF IInv

LEMMA NewTopInv ==
  ASSUME IInv, stack # <<>>, NEW there, Top.dir \in there,
         NEW phase \in Phases, NEW todo \in (SUBSET Dirs) \cup SUBSET Files,
         phase = "files" => todo \subseteq {f \in Files : Dir[f] = Top.dir},
         phase = "dirs" => todo \subseteq Below(Top.dir) \cap there,
         phase = "empty" => todo \subseteq Below(Top.dir) /\ (todo # {} => Top.rules.removeEmpty)
  PROVE  CallInv(NewTop(phase, todo), there)
<1>1. NewTop(phase, todo) = [dir |-> Top.dir, rules |-> Top.rules, subdirs |-> Top.subdirs,
                             phase |-> phase, todo |-> todo]
  BY TopInv, InTopIs
<1>2. CallInv(Top, dirs)
  BY TopInv
<1> QED
  BY <1>1, <1>2 DEF CallInv

LEMMA StartIs ==
  ASSUME IInv, Start
  PROVE  stack' = IF Skipped(Root) THEN <<>> ELSE <<Called(Root)>>
<1>1. StateAt[Root] = patterns /\ RulesAbove(Root) = NewRules
  BY RootPath, StateAtDef DEF RulesAbove
<1>2. Entered(<<>>, Root, NewRules, patterns) =
        IF Skipped(Root) THEN <<>> ELSE Append(<<>>, Called(Root))
  BY <1>1, EnteredIs, RootPath DEF IInv, TreeInv
<1> QED
  BY <1>2 DEF Start, Age

LEMMA StartInv == ASSUME IInv, Start PROVE IInv'
<1>1. WalkInv(<<>>, dirs)
  BY DEF WalkInv, PathInv
<1>2. WalkInv(stack', dirs)
  <2>1. CASE Skipped(Root)
    BY <1>1, <2>1, StartIs
  <2>2. CASE ~Skipped(Root)
    <3>1. stack' = Append(<<>>, Called(Root))
      BY <2>2, StartIs
    <3>2. dirs \in SUBSET Dirs /\ Root \in dirs
      BY DEF IInv, TreeInv
    <3> QED
      BY <1>1, <2>2, <3>1, <3>2, CalledWalk
  <2> QED
    BY <2>1, <2>2
<1>3. WalkInv(stack, dirs)'
  <2>1. patterns' = patterns /\ dirs' = dirs
    BY DEF Start, Age
  <2>2. WalkInv(stack', dirs')
    BY <1>2, <2>1
  <2> QED
    BY <2>1, <2>2, WalkStays
<1>4. files' \in [Files -> 0..MaxAge \cup {None}]
      /\ \A f \in Files : files'[f] # None => files[f] # None
  <2>1. \A f \in Files : files[f] \in 0..MaxAge \cup {None}
    BY DEF IInv, TreeInv
  <2>2. ASSUME NEW f \in Files, files[f] \notin {None, MaxAge}
        PROVE  files[f] + 1 \in 0..MaxAge
    BY <2>1, <2>2, RetentionAssumption
  <2> QED
    BY <2>1, <2>2 DEF Start, Age
<1>5. TreeInv'
  BY <1>4 DEF Start, Age, IInv, TreeInv
<1> QED
  BY <1>3, <1>5 DEF IInv

LEMMA PurgeFileInv == ASSUME IInv, NEW f \in Files, PurgeFile(f) PROVE IInv'
<1>1. TreeInv'
  <2>1. files' \in [Files -> 0..MaxAge \cup {None}]
        /\ \A g \in Files : files'[g] # None => files[g] # None
    BY DEF PurgeFile, IInv, TreeInv
  <2> QED
    BY <2>1 DEF PurgeFile, IInv, TreeInv
<1>2. stack # <<>> /\ stack' = InTop("files", Top.todo \ {f}) /\ UNCHANGED <<patterns, dirs>>
  BY DEF PurgeFile
<1>3. /\ Top.todo \ {f} \subseteq {g \in Files : Dir[g] = Top.dir}
      /\ Top.dir \in dirs
  BY TopInv DEF PurgeFile, CallInv
<1>4. Top.todo \ {f} \in (SUBSET Dirs) \cup SUBSET Files /\ "files" \in Phases
  BY <1>3 DEF Phases
<1>5. CallInv(NewTop("files", Top.todo \ {f}), dirs)
  BY <1>2, <1>3, <1>4, NewTopInv
<1> QED
  BY <1>1, <1>2, <1>4, <1>5, TopStep

LEMMA ListSubdirsInv == ASSUME IInv, ListSubdirs PROVE IInv'
<1>1. TreeInv'
  BY DEF ListSubdirs, IInv, TreeInv
<1>2. stack # <<>> /\ stack' = InTop("dirs", Subdirs(Top.dir)) /\ UNCHANGED <<patterns, dirs>>
  BY DEF ListSubdirs
<1>3. Subdirs(Top.dir) \subseteq Below(Top.dir) \cap dirs /\ Top.dir \in dirs
  <2>1. dirs \subseteq Dirs
    BY DEF IInv, TreeInv
  <2> QED
    BY <1>2, <2>1, TopInv DEF Subdirs, Below, CallInv
<1>4. Subdirs(Top.dir) \in (SUBSET Dirs) \cup SUBSET Files /\ "dirs" \in Phases
  BY <1>3 DEF Phases, Below
<1>5. CallInv(NewTop("dirs", Subdirs(Top.dir)), dirs)
  BY <1>2, <1>3, <1>4, NewTopInv
<1> QED
  BY <1>1, <1>2, <1>4, <1>5, TopStep

LEMMA ListEmptyInv == ASSUME IInv, ListEmpty PROVE IInv'
<1> DEFINE todo == IF Top.rules.removeEmpty THEN Subdirs(Top.dir) ELSE {}
<1>1. TreeInv'
  BY DEF ListEmpty, IInv, TreeInv
<1>2. stack # <<>> /\ stack' = InTop("empty", todo) /\ UNCHANGED <<patterns, dirs>>
  BY DEF ListEmpty
<1>3. todo \subseteq Below(Top.dir) /\ Top.dir \in dirs
  <2>1. dirs \subseteq Dirs
    BY DEF IInv, TreeInv
  <2> QED
    BY <1>2, <2>1, TopInv DEF Subdirs, Below, CallInv
<1>4. todo \in (SUBSET Dirs) \cup SUBSET Files /\ "empty" \in Phases
  BY <1>3 DEF Phases, Below
<1>5. todo # {} => Top.rules.removeEmpty
  OBVIOUS
<1> HIDE DEF todo
<1>6. CallInv(NewTop("empty", todo), dirs)
  BY <1>2, <1>3, <1>4, <1>5, NewTopInv
<1> QED
  BY <1>1, <1>2, <1>4, <1>6, TopStep

\* The calls once a directory is entered from the last call.
LEMMA EnterIs ==
  ASSUME IInv, NEW d \in Dirs, EnterSubdir(d)
  PROVE  LET calls == InTop("dirs", Top.todo \ {d}) IN
         /\ d \in dirs /\ d # Root /\ Parent[d] = Top.dir /\ Top.todo \ {d} \in SUBSET Dirs
         /\ WalkInv(calls, dirs) /\ Last(calls).dir = Top.dir /\ Last(calls).phase = "dirs"
         /\ stack' = IF Skipped(d) THEN calls ELSE Append(calls, Called(d))
<1> DEFINE todo == Top.todo \ {d}
           calls == InTop("dirs", todo)
<1>1. stack # <<>> /\ Top.phase = "dirs" /\ d \in Top.todo
  BY DEF EnterSubdir
<1>2. CallInv(Top, dirs) /\ stack \in Seq(Call)
  BY <1>1, TopInv
<1>3. Top.todo \subseteq Below(Top.dir) \cap dirs /\ ~Skipped(Top.dir) /\ Top.dir \in dirs
      /\ Top.rules = RulesAt(Top.dir) /\ Top.subdirs = SubdirsAt(Top.dir)
  BY <1>1, <1>2 DEF CallInv
<1>4. d \in dirs /\ d # Root /\ Parent[d] = Top.dir
  BY <1>1, <1>3 DEF Below
<1>5. todo \in SUBSET Dirs /\ todo \in (SUBSET Dirs) \cup SUBSET Files /\ "dirs" \in Phases
  BY <1>3 DEF Phases, Below
<1>6. CallInv(NewTop("dirs", todo), dirs)
  <2>1. todo \subseteq Below(Top.dir) \cap dirs
    BY <1>3
  <2> HIDE DEF todo
  <2> QED
    BY <1>1, <1>3, <1>5, <2>1, NewTopInv
<1>7. WalkInv(calls, dirs)
  <2>1. WalkInv(stack, dirs) /\ \A i \in DOMAIN stack : stack[i].dir \in dirs
    BY DEF IInv, WalkInv, CallInv
  <2>2. \A i \in DOMAIN stack : i # Len(stack) => stack[i].todo \subseteq dirs
    BY <1>1, TopInv
  <2> HIDE DEF todo
  <2> QED
    BY <1>1, <1>5, <1>6, <2>1, <2>2, InTopWalk
<1>8. Last(calls).dir = Top.dir /\ Last(calls).phase = "dirs"
  <2> HIDE DEF todo
  <2>1. Len(calls) = Len(stack) /\ calls[Len(stack)] = NewTop("dirs", todo)
        /\ NewTop("dirs", todo) = [dir |-> Top.dir, rules |-> Top.rules, subdirs |-> Top.subdirs,
                                   phase |-> "dirs", todo |-> todo]
    BY <1>1, <1>2, <1>5, InTopIs, TopIs
  <2> QED
    BY <2>1 DEF Last
<1>9. RulesAbove(d) = Top.rules /\ StateAt[d] = SubdirState(Top.subdirs, d)
  BY <1>3, <1>4, SubdirStateIs DEF RulesAbove, IInv, TreeInv
<1>10. stack' = Entered(calls, d, RulesAbove(d), StateAt[d])
  BY <1>9 DEF EnterSubdir
<1>11. stack' = IF Skipped(d) THEN calls ELSE Append(calls, Called(d))
  BY <1>3, <1>4, <1>10, EnteredIs DEF IInv, TreeInv
<1> QED
  BY <1>4, <1>5, <1>7, <1>8, <1>11

LEMMA EnterSubdirInv == ASSUME IInv, NEW d \in Dirs, EnterSubdir(d) PROVE IInv'
<1> DEFINE calls == InTop("dirs", Top.todo \ {d})
<1>1. TreeInv'
  BY DEF EnterSubdir, IInv, TreeInv
<1>2. /\ d \in dirs /\ d # Root /\ Parent[d] = Top.dir
      /\ WalkInv(calls, dirs) /\ Last(calls).dir = Top.dir /\ Last(calls).phase = "dirs"
      /\ stack' = IF Skipped(d) THEN calls ELSE Append(calls, Called(d))
  BY EnterIs
<1>3. dirs \in SUBSET Dirs /\ calls # <<>>
  <2>1. Top.todo \ {d} \in SUBSET Dirs /\ "dirs" \in Phases /\ stack # <<>> /\ stack \in Seq(Call)
    BY EnterIs, TopInv DEF Phases, EnterSubdir
  <2>2. calls # <<>>
    BY <2>1, InTopIs
  <2> QED
    BY <2>2 DEF IInv, TreeInv
<1> HIDE DEF calls
<1>4. WalkInv(stack', dirs)
  BY <1>2, <1>3, CalledWalk
<1>5. patterns' = patterns /\ dirs' = dirs
  BY DEF EnterSubdir
<1>6. WalkInv(stack', dirs')
  BY <1>4, <1>5
<1> QED
  BY <1>1, <1>5, <1>6, WalkStays DEF IInv

LEMMA RemoveEmptyInv == ASSUME IInv, NEW d \in Dirs, RemoveEmpty(d) PROVE IInv'
<1> DEFINE todo == Top.todo \ {d}
<1>1. stack # <<>> /\ Top.phase = "empty" /\ d \in Top.todo /\ stack' = InTop("empty", todo)
      /\ patterns' = patterns /\ files' = files /\ dirs' = IF Empty(d) THEN dirs \ {d} ELSE dirs
  BY DEF RemoveEmpty
<1>2. CallInv(Top, dirs) /\ stack \in Seq(Call) /\ Top.dir \in Dirs
  BY <1>1, TopInv
<1>3. /\ todo \subseteq Below(Top.dir) /\ Top.rules.removeEmpty
      /\ d # Root /\ Parent[d] = Top.dir /\ Top.dir \in dirs
  BY <1>1, <1>2 DEF CallInv, Below
<1>4. todo \in (SUBSET Dirs) \cup SUBSET Files /\ "empty" \in Phases
  BY <1>3 DEF Phases, Below
<1>5. TreeInv'
  <2>1. CASE ~Empty(d)
    BY <1>1, <2>1 DEF IInv, TreeInv
  <2>2. CASE Empty(d)
    <3>1. ASSUME NEW e \in dirs, e # d
          PROVE  d \notin Path[e]
      <4> SUFFICES ASSUME d \in Path[e]
                   PROVE  FALSE
        OBVIOUS
      <4>1. e \in Dirs /\ Path[e] \subseteq dirs
        BY DEF IInv, TreeInv
      <4>2. \E c \in Path[e] : c # Root /\ Parent[c] = d
        BY <3>1, <4>1, ChildOnPath
      <4> QED
        BY <2>2, <4>1, <4>2 DEF Empty, Subdirs
    <3>2. \A f \in Files : files[f] # None => Dir[f] # d
      BY <2>2 DEF Empty, FilesIn
    <3> QED
      BY <1>1, <1>3, <2>2, <3>1, <3>2 DEF IInv, TreeInv
  <2> QED
    BY <2>1, <2>2
<1>6. \A i \in DOMAIN stack : stack[i].dir \in dirs'
  <2>1. \A i \in DOMAIN stack : stack[i].dir \in dirs
    BY DEF IInv, WalkInv, CallInv
  <2>2. \A i \in DOMAIN stack : stack[i].dir \in Path[Top.dir]
    BY <1>1, <1>2, TopInv, TopIs, PathIn
  <2>3. d \notin Path[Top.dir]
    BY <1>3, NotOwn
  <2> QED
    BY <1>1, <2>1, <2>2, <2>3
<1>7. ASSUME NEW i \in DOMAIN stack, i # Len(stack)
      PROVE  stack[i].todo \subseteq dirs'
  <2>1. stack[i].todo \subseteq Below(stack[i].dir) \cap dirs /\ stack[i].dir # Top.dir
    BY <1>1, <1>7, TopInv
  <2>2. d \notin Below(stack[i].dir)
    BY <1>3, <2>1 DEF Below
  <2> QED
    BY <1>1, <2>1, <2>2
<1>8. Top.dir \in dirs'
  BY <1>1, <1>2, <1>6, TopIs
<1> HIDE DEF todo
<1>9. CallInv(NewTop("empty", todo), dirs')
  BY <1>1, <1>3, <1>4, <1>8, NewTopInv
<1>10. WalkInv(stack', dirs')
  <2>1. WalkInv(stack, dirs)
    BY DEF IInv
  <2> QED
    BY <1>1, <1>4, <1>6, <1>7, <1>9, <2>1, InTopWalk
<1> QED
  BY <1>1, <1>5, <1>10, WalkStays DEF IInv

LEMMA ReturnInv == ASSUME IInv, Return \/ Abort PROVE IInv'
<1>1. patterns' = patterns /\ dirs' = dirs /\ files' = files
  BY DEF Return, Abort
<1>2. WalkInv(stack', dirs')
  <2>1. CASE Return
    BY <1>1, <2>1, FrontWalk DEF Return, IInv
  <2>2. CASE Abort
    BY <1>1, <2>2 DEF Abort, WalkInv, PathInv
  <2> QED
    BY <2>1, <2>2
<1> QED
  BY <1>1, <1>2, WalkStays DEF IInv, TreeInv

LEMMA WriteFileInv == ASSUME IInv, NEW f \in Files, WriteFile(f) PROVE IInv'
<1>1. patterns' = patterns /\ stack' = stack /\ dirs' = dirs \cup Path[Dir[f]]
      /\ files' = [files EXCEPT ![f] = 0]
  BY DEF WriteFile, Write
<1>2. Dir[f] \in Dirs /\ Path[Dir[f]] \subseteq Dirs /\ Dir[f] \in Path[Dir[f]]
  BY PathIn, RetentionAssumption
<1>3. TreeInv'
  <2>1. \A d \in dirs' : Path[d] \subseteq dirs'
    BY <1>1, <1>2, PathMono DEF IInv, TreeInv
  <2>2. files' \in [Files -> 0..MaxAge \cup {None}]
    <3>1. 0 \in 0..MaxAge
      BY RetentionAssumption
    <3> QED
      BY <1>1, <3>1 DEF IInv, TreeInv
  <2>3. \A g \in Files : files'[g] # None => Dir[g] \in dirs'
    BY <1>1, <1>2 DEF IInv, TreeInv
  <2> QED
    BY <1>1, <1>2, <2>1, <2>2, <2>3 DEF IInv, TreeInv
<1>4. WalkInv(stack', dirs')
  <2>1. \A i \in DOMAIN stack : CallInv(stack[i], dirs) => CallInv(stack[i], dirs')
    BY <1>1 DEF CallInv
  <2> QED
    BY <1>1, <2>1 DEF IInv, WalkInv
<1> QED
  BY <1>1, <1>3, <1>4, WalkStays DEF IInv

LEMMA StepIInv == IInv /\ [Next]_vars => IInv'
<1> SUFFICES ASSUME IInv, [Next]_vars
             PROVE  IInv'
  OBVIOUS
<1>1. CASE UNCHANGED vars
  <2>1. WalkInv(stack', dirs') /\ patterns' = patterns
    BY <1>1 DEF vars, nas, IInv
  <2> QED
    BY <1>1, <2>1, WalkStays DEF vars, nas, IInv, TreeInv
<1>2. CASE Next
  BY <1>2, StartInv, ListSubdirsInv, ListEmptyInv, ReturnInv, PurgeFileInv, WriteFileInv,
     EnterSubdirInv, RemoveEmptyInv, Zenon DEF Next
<1> QED
  BY <1>1, <1>2

LEMMA InvHolds == Spec => []IInv
BY InitIInv, StepIInv, PTL DEF Spec

\* Every variable keeps its type: the calls are a path down from the root, and
\* no directory is removed that another, or a file, is in.
THEOREM TypeCorrect == Spec => []TypeOK
BY InvHolds, TypeHolds, PTL

-----------------------------------------------------------------------------
\* What is removed, and what is left when a walk comes to its end.

LEMMA PurgedHasExpired ==
  ASSUME IInv, NEW f \in Files, PurgeFile(f), files[f] # None
  PROVE  /\ ~Skipped(Dir[f]) /\ Top.dir = Dir[f]
         /\ Purges(f, Top.rules) <=> Expired(f)
<1>1. f \in Top.todo /\ Top.phase = "files" /\ stack # <<>>
  BY DEF PurgeFile
<1>2. Top.dir = Dir[f] /\ ~Skipped(Dir[f]) /\ Top.rules = RulesAt(Dir[f])
  BY <1>1, TopInv DEF CallInv
<1> QED
  BY <1>2, PurgesIs DEF IInv, TreeInv

LEMMA OnlyExpiredStep ==
  ASSUME IInv, [Next]_vars, NEW f \in Files, files[f] # None, files'[f] = None
  PROVE  Expired(f)
<1>1. files \in [Files -> 0..MaxAge \cup {None}]
  BY DEF IInv, TreeInv
<1>2. CASE Start
  <2>1. files[f] \in 0..MaxAge
    BY <1>1
  <2>2. files[f] + 1 # None
    BY <2>1, RetentionAssumption
  <2> QED
    BY <1>2, <2>2 DEF Start, Age
<1>3. ASSUME NEW g \in Files, PurgeFile(g)
      PROVE  Expired(f)
  <2>1. g = f /\ Purges(f, Top.rules)
    BY <1>1, <1>3 DEF PurgeFile
  <2> QED
    BY <1>3, <2>1, PurgedHasExpired
<1>4. ASSUME NEW g \in Files, WriteFile(g)
      PROVE  FALSE
  BY <1>1, <1>4, RetentionAssumption DEF WriteFile, Write
<1>5. CASE UNCHANGED files
  BY <1>5
<1>6. CASE \/ ListSubdirs \/ ListEmpty \/ Return \/ Abort
           \/ \E d \in Dirs : EnterSubdir(d) \/ RemoveEmpty(d)
  BY <1>6 DEF ListSubdirs, ListEmpty, Return, Abort, EnterSubdir, RemoveEmpty
<1> QED
  BY <1>2, <1>3, <1>4, <1>5, <1>6 DEF Next, vars, nas

\* The walk (purge_files) removes no file but an expired one, whatever calls
\* the rules came down through.
THEOREM OnlyExpiredRemoved ==
  Spec => [][\A f \in Files : files[f] # None /\ files'[f] = None => Expired(f)]_vars
<1>1. IInv /\ [Next]_vars =>
        [\A f \in Files : files[f] # None /\ files'[f] = None => Expired(f)]_vars
  BY OnlyExpiredStep
<1> QED
  BY <1>1, InvHolds, PTL DEF Spec

\* A directory is removed only where the STATEs say so, and when it is empty.
LEMMA RemoveEmptyStep ==
  ASSUME IInv, NEW d \in Dirs, RemoveEmpty(d)
  PROVE  RemoveDir(d) \/ UNCHANGED nas
<1>1. stack # <<>> /\ Top.phase = "empty" /\ d \in Top.todo
  BY DEF RemoveEmpty
<1>2. CallInv(Top, dirs)
  BY <1>1, TopInv
<1>3. Parent[d] = Top.dir /\ d # Root /\ ~Skipped(Top.dir)
      /\ Top.rules = RulesAt(Top.dir) /\ Top.rules.removeEmpty
  BY <1>1, <1>2 DEF CallInv, Below
<1>4. EmptiesGo(Parent[d])
  <2>1. RulesAt(Top.dir).removeEmpty = InForce(Top.dir, "REMOVE_EMPTY_DIRS", FALSE)
    BY DEF RulesAt
  <2>2. InForce(Top.dir, "REMOVE_EMPTY_DIRS", FALSE)
    BY <1>3, <2>1, Zenon
  <2> QED
    BY <1>3, <2>2, Zenon DEF EmptiesGo
<1>5. CASE Empty(d) /\ d \in dirs
  BY <1>3, <1>4, <1>5 DEF RemoveEmpty, RemoveDir
<1>6. CASE ~(Empty(d) /\ d \in dirs)
  <2>1. dirs' = dirs
    BY <1>6 DEF RemoveEmpty
  <2> QED
    BY <2>1 DEF RemoveEmpty, nas
<1> QED
  BY <1>5, <1>6

LEMMA PurgeFileStep ==
  ASSUME IInv, NEW f \in Files, PurgeFile(f)
  PROVE  Expire(f) \/ UNCHANGED nas
<1>1. CASE files[f] # None /\ Purges(f, Top.rules)
  <2>1. Expired(f)
    BY <1>1, PurgedHasExpired
  <2> QED
    BY <1>1, <2>1 DEF PurgeFile, Expire
<1>2. CASE ~(files[f] # None /\ Purges(f, Top.rules))
  <2>1. files \in [Files -> 0..MaxAge \cup {None}]
    BY DEF IInv, TreeInv
  <2>2. files' = files
    BY <1>2, <2>1 DEF PurgeFile
  <2> QED
    BY <2>2 DEF PurgeFile, nas
<1> QED
  BY <1>1, <1>2

\* Every step of the walk and of the builds is one of what is promised, or none.
LEMMA RetentionStep ==
  ASSUME IInv, [Next]_vars
  PROVE  [RetentionNext]_nas
<1>1. CASE Start
  BY <1>1 DEF Start, RetentionNext
<1>2. CASE ListSubdirs \/ ListEmpty \/ Return \/ Abort \/ UNCHANGED vars
  BY <1>2 DEF ListSubdirs, ListEmpty, Return, Abort, vars, nas
<1>3. ASSUME NEW f \in Files, PurgeFile(f)
      PROVE  [RetentionNext]_nas
  BY <1>3, PurgeFileStep DEF RetentionNext
<1>4. ASSUME NEW f \in Files, WriteFile(f)
      PROVE  [RetentionNext]_nas
  BY <1>4 DEF WriteFile, RetentionNext
<1>5. ASSUME NEW d \in Dirs, EnterSubdir(d)
      PROVE  [RetentionNext]_nas
  BY <1>5 DEF EnterSubdir, nas
<1>6. ASSUME NEW d \in Dirs, RemoveEmpty(d)
      PROVE  [RetentionNext]_nas
  BY <1>6, RemoveEmptyStep DEF RetentionNext
<1> QED
  BY <1>1, <1>2, <1>3, <1>4, <1>5, <1>6 DEF Next

\* The cleaner takes from the NAS what RetentionSpec lets it, and nothing else:
\* enter_dir implements it, for every tree and all STATEs.
THEOREM ImplementsRetention == Spec => RetentionSpec
<1>1. Init => RetentionInit
  BY DEF Init
<1>2. IInv /\ [Next]_vars => [RetentionNext]_nas
  BY RetentionStep
<1> QED
  BY <1>1, <1>2, InvHolds, PTL DEF Spec, RetentionSpec

LEMMA SkippedBelow ==
  ASSUME NEW d \in Dirs, NEW e \in Path[d], Skipped(e)
  PROVE  Skipped(d)
BY PathMono DEF Skipped, With

LEMMA MinPeriod ==
  ASSUME patterns \in Patterns, NEW f \in Files, PeriodsOf(f) # {}
  PROVE  Min(PeriodsOf(f)) \in Nat
<1>1. PeriodsOf(f) \in SUBSET Nat
  BY PeriodsIn, RetentionAssumption
<1> QED
  BY <1>1, LeastOf

LEMMA ExpiredStays ==
  ASSUME patterns' = patterns, NEW f \in Files, files'[f] = files[f]
  PROVE  Expired(f)' <=> Expired(f)
BY RulesStay DEF Expired

LEMMA RemovableStays ==
  ASSUME patterns' = patterns, NEW d, Removable(d)', Empty(d)
  PROVE  Removable(d)
BY RulesStay DEF Removable, EmptiesGo

\* The call above the last is in the parent of its directory.
LEMMA CallAbove ==
  ASSUME IInv, stack # <<>>, Top.dir # Root
  PROVE  \E i \in DOMAIN stack :
           i # Len(stack) /\ stack[i].dir = Parent[Top.dir] /\ stack[i].phase = "dirs"
<1>1. stack \in Seq(Call) /\ PathInv(stack)
  BY DEF IInv, WalkInv
<1> DEFINE n == Len(stack)
<1>2. n \in DOMAIN stack /\ DOMAIN stack = 1..n /\ Top = stack[n] /\ n \in Nat
  BY <1>1, TopIs
<1> HIDE DEF n
<1>3. n # 1
  BY <1>1, <1>2 DEF PathInv
<1>4. n > 1 /\ n - 1 \in DOMAIN stack /\ n - 1 # n
  BY <1>2, <1>3
<1>5. stack[n - 1].dir = Parent[Top.dir]
  BY <1>1, <1>2, <1>4 DEF PathInv
<1>6. stack[n - 1].phase = "dirs"
  BY <1>4, TopInv DEF n
<1> QED
  BY <1>4, <1>5, <1>6 DEF n

\* A file or directory a call is going to come to is not lost by a step of the
\* last call that does not lose it.
LEMMA InTopKeeps ==
  ASSUME stack \in Seq(Call), stack # <<>>,
         NEW phase \in Phases, NEW todo \in (SUBSET Dirs) \cup SUBSET Files
  PROVE  LET calls == InTop(phase, todo) IN
         /\ \A f : /\ \E i \in DOMAIN stack : WillPurge(stack[i], f)
                   /\ WillPurge(Top, f) => WillPurge(NewTop(phase, todo), f)
                   => \E i \in DOMAIN calls : WillPurge(calls[i], f)
         /\ \A d : /\ \E i \in DOMAIN stack : WillRemove(stack[i], d)
                   /\ WillRemove(Top, d) => WillRemove(NewTop(phase, todo), d)
                   => \E i \in DOMAIN calls : WillRemove(calls[i], d)
         /\ \A i \in DOMAIN stack : i # Len(stack) => i \in DOMAIN calls /\ calls[i] = stack[i]
         /\ Len(stack) \in DOMAIN calls /\ calls[Len(stack)] = NewTop(phase, todo)
<1> DEFINE calls == InTop(phase, todo)
<1>1. /\ DOMAIN calls = DOMAIN stack
      /\ \A i \in DOMAIN stack : calls[i] = IF i = Len(stack) THEN NewTop(phase, todo) ELSE stack[i]
      /\ Len(stack) \in DOMAIN stack /\ Top = stack[Len(stack)]
  BY InTopIs, TopIs
<1> HIDE DEF calls
<1>2. ASSUME NEW f, NEW i \in DOMAIN stack, WillPurge(stack[i], f),
             WillPurge(Top, f) => WillPurge(NewTop(phase, todo), f)
      PROVE  \E j \in DOMAIN calls : WillPurge(calls[j], f)
  <2>1. WillPurge(calls[i], f)
    BY <1>1, <1>2
  <2> QED
    BY <1>1, <2>1
<1>3. ASSUME NEW d, NEW i \in DOMAIN stack, WillRemove(stack[i], d),
             WillRemove(Top, d) => WillRemove(NewTop(phase, todo), d)
      PROVE  \E j \in DOMAIN calls : WillRemove(calls[j], d)
  <2>1. WillRemove(calls[i], d)
    BY <1>1, <1>3
  <2> QED
    BY <1>1, <2>1
<1> QED
  BY <1>1, <1>2, <1>3 DEF calls

LEMMA NewTopIs ==
  ASSUME IInv, stack # <<>>, NEW phase \in Phases, NEW todo \in (SUBSET Dirs) \cup SUBSET Files
  PROVE  /\ NewTop(phase, todo).dir = Top.dir /\ NewTop(phase, todo).phase = phase
         /\ NewTop(phase, todo).todo = todo
<1>1. NewTop(phase, todo) = [dir |-> Top.dir, rules |-> Top.rules, subdirs |-> Top.subdirs,
                             phase |-> phase, todo |-> todo]
  BY TopInv, InTopIs
<1> QED
  BY <1>1

LEMMA StartLeft ==
  ASSUME IInv, Start, stack' # <<>>
  PROVE  LeftInv' /\ EmptyInv'
<1>1. stack' = <<Called(Root)>>
  BY StartIs
<1>2. 1 \in DOMAIN stack' /\ stack'[1] = Called(Root)
  BY <1>1
<1>3. ASSUME NEW f \in Files, Expired(f)'
      PROVE  WillPurge(Called(Root), f)
  <2>1. files[f] # None
    BY <1>3 DEF Expired, Start, Age
  <2>2. Root \in Path[Dir[f]]
    BY PathIn, RetentionAssumption
  <2> QED
    BY <2>1, <2>2 DEF WillPurge, Called, FilesIn
<1>4. ASSUME NEW d \in dirs' \ {Root}
      PROVE  WillRemove(Called(Root), d)
  <2>1. d \in Dirs /\ d # Root
    BY <1>4 DEF Start, Age, IInv, TreeInv
  <2>2. Root \in Path[Parent[d]]
    BY <2>1, PathIn, ParentIn
  <2> QED
    BY <2>2 DEF WillRemove, Called
<1>5. LeftInv'
  BY <1>2, <1>3 DEF LeftInv
<1>6. EmptyInv'
  BY <1>2, <1>4 DEF EmptyInv
<1> QED
  BY <1>5, <1>6

LEMMA PurgeFileLeft ==
  ASSUME IInv, LeftInv, EmptyInv, NEW f \in Files, PurgeFile(f)
  PROVE  LeftInv' /\ EmptyInv'
<1> DEFINE todo == Top.todo \ {f}
<1>1. /\ stack # <<>> /\ Top.phase = "files" /\ f \in Top.todo /\ stack' = InTop("files", todo)
      /\ patterns' = patterns /\ dirs' = dirs
      /\ files' = IF Purges(f, Top.rules) THEN [files EXCEPT ![f] = None] ELSE files
  BY DEF PurgeFile
<1>2. stack \in Seq(Call) /\ CallInv(Top, dirs)
  BY <1>1, TopInv
<1>3. /\ todo \in (SUBSET Dirs) \cup SUBSET Files /\ "files" \in Phases /\ Top.dir = Dir[f]
      /\ todo \subseteq Files
  BY <1>1, <1>2 DEF CallInv, Phases
<1>4. files \in [Files -> 0..MaxAge \cup {None}]
  BY DEF IInv, TreeInv
<1> DEFINE new == NewTop("files", todo)
<1>5. todo = Top.todo \ {f}
  OBVIOUS
<1> HIDE DEF todo
<1>6. new.dir = Top.dir /\ new.phase = "files" /\ new.todo = todo
  BY <1>1, <1>3, NewTopIs
<1> HIDE DEF new
<1>7. LeftInv'
  <2> SUFFICES ASSUME NEW g \in Files, Expired(g)'
               PROVE  \E i \in DOMAIN stack' : WillPurge(stack'[i], g)
    BY DEF LeftInv
  <2>1. files'[g] # None /\ files'[g] = files[g]
    <3>1. files'[g] # None
      BY DEF Expired
    <3> QED
      BY <1>1, <1>4, <3>1
  <2>2. Expired(g)
    BY <1>1, <2>1, ExpiredStays
  <2>3. g # f
    <3> SUFFICES ASSUME g = f
                 PROVE  FALSE
      OBVIOUS
    <3>1. Purges(f, Top.rules)
      BY <2>1, <2>2, PurgedHasExpired
    <3> QED
      BY <1>1, <1>4, <2>1, <3>1
  <2>4. WillPurge(Top, g) => WillPurge(new, g)
    BY <1>1, <1>5, <1>6, <2>3 DEF WillPurge
  <2>5. \E i \in DOMAIN stack : WillPurge(stack[i], g)
    BY <1>1, <2>2 DEF LeftInv
  <2> QED
    BY <1>1, <1>2, <1>3, <2>4, <2>5, InTopKeeps DEF new
<1>8. EmptyInv'
  <2> SUFFICES ASSUME NEW d \in dirs' \ {Root}, Removable(d)'
               PROVE  \E i \in DOMAIN stack' : WillRemove(stack'[i], d)
    BY DEF EmptyInv
  <2>1. CASE Empty(d)
    <3>1. \E i \in DOMAIN stack : WillRemove(stack[i], d)
      BY <1>1, <2>1, RemovableStays DEF EmptyInv
    <3>2. WillRemove(Top, d) => WillRemove(new, d)
      BY <1>1, <1>6 DEF WillRemove
    <3> QED
      BY <1>1, <1>2, <1>3, <3>1, <3>2, InTopKeeps DEF new
  <2>2. CASE ~Empty(d)
    <3>1. Empty(d)'
      BY DEF Removable, EmptiesGo
    <3>2. d = Top.dir
      <4>1. Subdirs(d) = {} /\ \A g \in Files : files'[g] # None => Dir[g] # d
        BY <1>1, <3>1 DEF Empty, FilesIn, Subdirs
      <4>2. PICK g \in Files : Dir[g] = d /\ files[g] # None
        BY <2>2, <4>1 DEF Empty, FilesIn
      <4>3. g = f
        BY <1>1, <1>4, <4>1, <4>2
      <4> QED
        BY <1>3, <4>2, <4>3
    <3>3. PICK i \in DOMAIN stack :
            i # Len(stack) /\ stack[i].dir = Parent[d] /\ stack[i].phase = "dirs"
      BY <1>1, <3>2, CallAbove
    <3>4. WillRemove(stack[i], d)
      BY <3>3 DEF WillRemove
    <3>5. i \in DOMAIN stack' /\ stack'[i] = stack[i]
      BY <1>1, <1>2, <1>3, <3>3, InTopKeeps
    <3> QED
      BY <3>4, <3>5
  <2> QED
    BY <2>1, <2>2
<1> QED
  BY <1>7, <1>8

LEMMA ListSubdirsLeft ==
  ASSUME IInv, LeftInv, EmptyInv, ListSubdirs
  PROVE  LeftInv' /\ EmptyInv'
<1> DEFINE todo == Subdirs(Top.dir)
           new == NewTop("dirs", todo)
<1>1. /\ stack # <<>> /\ Top.phase = "files" /\ Top.todo = {} /\ stack' = InTop("dirs", todo)
      /\ patterns' = patterns /\ dirs' = dirs /\ files' = files
  BY DEF ListSubdirs
<1>2. stack \in Seq(Call) /\ CallInv(Top, dirs) /\ dirs \subseteq Dirs
      /\ \A d \in dirs : Path[d] \subseteq dirs
  BY <1>1, TopInv DEF IInv, TreeInv
<1>3. todo \in (SUBSET Dirs) \cup SUBSET Files /\ "dirs" \in Phases
  BY <1>2 DEF Subdirs, Phases
<1>4. \A c \in dirs : c # Root /\ Parent[c] = Top.dir => c \in todo
  BY DEF Subdirs
<1> HIDE DEF todo
<1>5. new.dir = Top.dir /\ new.phase = "dirs" /\ new.todo = todo
  BY <1>1, <1>3, NewTopIs
<1> HIDE DEF new
\* A directory below is listed, or one on the way to it.
<1>6. ASSUME NEW d \in dirs, Top.dir \in Path[d], d # Top.dir
      PROVE  todo \cap Path[d] # {}
  <2>1. \E c \in Path[d] : c # Root /\ Parent[c] = Top.dir
    BY <1>2, <1>6, ChildOnPath
  <2> QED
    BY <1>2, <1>4, <2>1
<1>7. LeftInv'
  <2> SUFFICES ASSUME NEW f \in Files, Expired(f)'
               PROVE  \E i \in DOMAIN stack' : WillPurge(stack'[i], f)
    BY DEF LeftInv
  <2>1. Expired(f)
    BY <1>1, ExpiredStays
  <2>2. Dir[f] \in dirs
    BY <2>1 DEF Expired, IInv, TreeInv
  <2>3. WillPurge(Top, f) => WillPurge(new, f)
    BY <1>1, <1>5, <1>6, <2>2 DEF WillPurge
  <2>4. \E i \in DOMAIN stack : WillPurge(stack[i], f)
    BY <1>1, <2>1 DEF LeftInv
  <2> QED
    BY <1>1, <1>2, <1>3, <2>3, <2>4, InTopKeeps DEF new
<1>8. EmptyInv'
  <2> SUFFICES ASSUME NEW d \in dirs' \ {Root}, Removable(d)'
               PROVE  \E i \in DOMAIN stack' : WillRemove(stack'[i], d)
    BY DEF EmptyInv
  <2>1. Empty(d)
    BY <1>1 DEF Removable, EmptiesGo, Empty, Subdirs, FilesIn
  <2>2. Parent[d] \in dirs
    BY <1>1, <1>2, ParentOnPath, PathIn
  <2>3. WillRemove(Top, d) => WillRemove(new, d)
    BY <1>1, <1>5, <1>6, <2>2 DEF WillRemove
  <2>4. \E i \in DOMAIN stack : WillRemove(stack[i], d)
    BY <1>1, <2>1, RemovableStays DEF EmptyInv
  <2> QED
    BY <1>1, <1>2, <1>3, <2>3, <2>4, InTopKeeps DEF new
<1> QED
  BY <1>7, <1>8

LEMMA EnterSubdirLeft ==
  ASSUME IInv, LeftInv, EmptyInv, NEW e \in Dirs, EnterSubdir(e)
  PROVE  LeftInv' /\ EmptyInv'
<1> DEFINE todo == Top.todo \ {e}
           calls == InTop("dirs", todo)
           new == NewTop("dirs", todo)
<1>1. /\ stack # <<>> /\ Top.phase = "dirs" /\ e \in Top.todo
      /\ patterns' = patterns /\ dirs' = dirs /\ files' = files
  BY DEF EnterSubdir
<1>2. /\ e \in dirs /\ todo \in SUBSET Dirs /\ "dirs" \in Phases /\ WalkInv(calls, dirs)
      /\ stack' = IF Skipped(e) THEN calls ELSE Append(calls, Called(e))
  BY EnterIs DEF Phases
<1>3. todo = Top.todo \ {e} /\ todo \in (SUBSET Dirs) \cup SUBSET Files
  BY <1>2
<1>4. stack \in Seq(Call) /\ calls \in Seq(Call) /\ dirs \subseteq Dirs
  BY <1>1, <1>2, TopInv DEF IInv, TreeInv, WalkInv
<1> HIDE DEF todo
<1>5. new.dir = Top.dir /\ new.phase = "dirs" /\ new.todo = todo
  BY <1>1, <1>2, <1>3, NewTopIs
<1>6. \A f : /\ \E i \in DOMAIN stack : WillPurge(stack[i], f)
             /\ WillPurge(Top, f) => WillPurge(new, f)
             => \E i \in DOMAIN calls : WillPurge(calls[i], f)
  BY <1>1, <1>2, <1>3, <1>4, InTopKeeps
<1>7. \A d : /\ \E i \in DOMAIN stack : WillRemove(stack[i], d)
             /\ WillRemove(Top, d) => WillRemove(new, d)
             => \E i \in DOMAIN calls : WillRemove(calls[i], d)
  BY <1>1, <1>2, <1>3, <1>4, InTopKeeps
<1> HIDE DEF calls, new
<1>8. \A i \in DOMAIN calls : i \in DOMAIN stack' /\ stack'[i] = calls[i]
  <2>1. Called(e) \in Call
    BY <1>2, <1>4 DEF Called, Call, Phases, FilesIn
  <2> QED
    BY <1>2, <1>4, <2>1, AppendProperties
<1>9. ~Skipped(e) => \E i \in DOMAIN stack' : stack'[i] = Called(e)
  <2>1. Called(e) \in Call
    BY <1>2, <1>4 DEF Called, Call, Phases, FilesIn
  <2> SUFFICES ASSUME ~Skipped(e)
               PROVE  \E i \in DOMAIN stack' : stack'[i] = Called(e)
    OBVIOUS
  <2>2. stack' = Append(calls, Called(e))
    BY <1>2
  <2>3. Len(calls) + 1 \in DOMAIN stack' /\ stack'[Len(calls) + 1] = Called(e)
    BY <1>4, <2>1, <2>2, AppendProperties
  <2> QED
    BY <2>3
<1>10. Called(e).phase = "files" /\ Called(e).dir = e /\ Called(e).todo = FilesIn(e)
  BY DEF Called
<1>11. LeftInv'
  <2> SUFFICES ASSUME NEW f \in Files, Expired(f)'
               PROVE  \E i \in DOMAIN stack' : WillPurge(stack'[i], f)
    BY DEF LeftInv
  <2>1. Expired(f) /\ ~Skipped(Dir[f]) /\ files[f] # None /\ Dir[f] \in Dirs
    BY <1>1, ExpiredStays, RetentionAssumption DEF Expired
  <2>2. \E i \in DOMAIN stack : WillPurge(stack[i], f)
    BY <1>1, <2>1 DEF LeftInv
  <2>3. CASE e \in Path[Dir[f]]
    <3>1. ~Skipped(e)
      BY <2>1, <2>3, SkippedBelow
    <3>2. WillPurge(Called(e), f)
      BY <1>10, <2>1, <2>3 DEF WillPurge, FilesIn
    <3> QED
      BY <1>9, <3>1, <3>2
  <2>4. CASE e \notin Path[Dir[f]]
    <3>1. WillPurge(Top, f) => WillPurge(new, f)
      BY <1>1, <1>3, <1>5, <2>4 DEF WillPurge
    <3> QED
      BY <1>6, <1>8, <2>2, <3>1
  <2> QED
    BY <2>3, <2>4
<1>12. EmptyInv'
  <2> SUFFICES ASSUME NEW d \in dirs' \ {Root}, Removable(d)'
               PROVE  \E i \in DOMAIN stack' : WillRemove(stack'[i], d)
    BY DEF EmptyInv
  <2>1. Empty(d)
    BY <1>1 DEF Removable, EmptiesGo, Empty, Subdirs, FilesIn
  <2>2. Removable(d) /\ Parent[d] \in Dirs
    BY <1>1, <1>4, <2>1, RemovableStays, ParentIn
  <2>3. \E i \in DOMAIN stack : WillRemove(stack[i], d)
    BY <1>1, <2>2 DEF EmptyInv
  <2>4. CASE e \in Path[Parent[d]]
    <3>1. ~Skipped(e)
      BY <2>2, <2>4, SkippedBelow DEF Removable, EmptiesGo
    <3>2. WillRemove(Called(e), d)
      BY <1>10, <2>4 DEF WillRemove
    <3> QED
      BY <1>9, <3>1, <3>2
  <2>5. CASE e \notin Path[Parent[d]]
    <3>1. WillRemove(Top, d) => WillRemove(new, d)
      BY <1>1, <1>3, <1>5, <2>5 DEF WillRemove
    <3> QED
      BY <1>7, <1>8, <2>3, <3>1
  <2> QED
    BY <2>4, <2>5
<1> QED
  BY <1>11, <1>12

LEMMA ListEmptyLeft ==
  ASSUME IInv, LeftInv, EmptyInv, ListEmpty
  PROVE  LeftInv' /\ EmptyInv'
<1> DEFINE todo == IF Top.rules.removeEmpty THEN Subdirs(Top.dir) ELSE {}
           new == NewTop("empty", todo)
<1>1. /\ stack # <<>> /\ Top.phase = "dirs" /\ Top.todo = {} /\ stack' = InTop("empty", todo)
      /\ patterns' = patterns /\ dirs' = dirs /\ files' = files
  BY DEF ListEmpty
<1>2. stack \in Seq(Call) /\ CallInv(Top, dirs) /\ dirs \subseteq Dirs
  BY <1>1, TopInv DEF IInv, TreeInv
<1>3. todo \in (SUBSET Dirs) \cup SUBSET Files /\ "empty" \in Phases
  BY <1>2 DEF Subdirs, Phases
<1>4. InForce(Top.dir, "REMOVE_EMPTY_DIRS", FALSE) => todo = Subdirs(Top.dir)
  <2>1. Top.rules.removeEmpty = InForce(Top.dir, "REMOVE_EMPTY_DIRS", FALSE)
    BY <1>2 DEF CallInv, RulesAt
  <2> QED
    BY <2>1
<1> HIDE DEF todo
<1>5. new.dir = Top.dir /\ new.phase = "empty" /\ new.todo = todo
  BY <1>1, <1>3, NewTopIs
<1> HIDE DEF new
<1>6. LeftInv'
  <2> SUFFICES ASSUME NEW f \in Files, Expired(f)'
               PROVE  \E i \in DOMAIN stack' : WillPurge(stack'[i], f)
    BY DEF LeftInv
  <2>1. Expired(f)
    BY <1>1, ExpiredStays
  <2>2. ~WillPurge(Top, f)
    BY <1>1 DEF WillPurge
  <2>3. \E i \in DOMAIN stack : WillPurge(stack[i], f)
    BY <1>1, <2>1 DEF LeftInv
  <2> QED
    BY <1>1, <1>2, <1>3, <2>2, <2>3, InTopKeeps
<1>7. EmptyInv'
  <2> SUFFICES ASSUME NEW d \in dirs' \ {Root}, Removable(d)'
               PROVE  \E i \in DOMAIN stack' : WillRemove(stack'[i], d)
    BY DEF EmptyInv
  <2>1. Empty(d)
    BY <1>1 DEF Removable, EmptiesGo, Empty, Subdirs, FilesIn
  <2>2. Removable(d)
    BY <1>1, <2>1, RemovableStays
  <2>3. ASSUME WillRemove(Top, d)
        PROVE  WillRemove(new, d)
    <3>1. Top.dir = Parent[d]
      BY <1>1, <2>3 DEF WillRemove
    <3>2. d \in todo
      BY <1>1, <1>4, <2>2, <3>1 DEF Removable, EmptiesGo, Subdirs
    <3> QED
      BY <1>5, <3>1, <3>2 DEF WillRemove
  <2>4. \E i \in DOMAIN stack : WillRemove(stack[i], d)
    BY <1>1, <2>2 DEF EmptyInv
  <2> QED
    BY <1>1, <1>2, <1>3, <2>3, <2>4, InTopKeeps DEF new
<1> QED
  BY <1>6, <1>7

LEMMA RemoveEmptyLeft ==
  ASSUME IInv, LeftInv, EmptyInv, NEW e \in Dirs, RemoveEmpty(e)
  PROVE  LeftInv' /\ EmptyInv'
<1> DEFINE todo == Top.todo \ {e}
           new == NewTop("empty", todo)
<1>1. /\ stack # <<>> /\ Top.phase = "empty" /\ e \in Top.todo /\ stack' = InTop("empty", todo)
      /\ patterns' = patterns /\ files' = files /\ dirs' = IF Empty(e) THEN dirs \ {e} ELSE dirs
  BY DEF RemoveEmpty
<1>2. stack \in Seq(Call) /\ CallInv(Top, dirs)
  BY <1>1, TopInv
<1>3. /\ Top.todo \subseteq Below(Top.dir) /\ Parent[e] = Top.dir
      /\ todo = Top.todo \ {e} /\ todo \in (SUBSET Dirs) \cup SUBSET Files /\ "empty" \in Phases
  BY <1>1, <1>2 DEF CallInv, Below, Phases
<1> HIDE DEF todo
<1>4. new.dir = Top.dir /\ new.phase = "empty" /\ new.todo = todo
  BY <1>1, <1>3, NewTopIs
<1> HIDE DEF new
<1>5. LeftInv'
  <2> SUFFICES ASSUME NEW f \in Files, Expired(f)'
               PROVE  \E i \in DOMAIN stack' : WillPurge(stack'[i], f)
    BY DEF LeftInv
  <2>1. Expired(f)
    BY <1>1, ExpiredStays
  <2>2. ~WillPurge(Top, f)
    BY <1>1 DEF WillPurge
  <2>3. \E i \in DOMAIN stack : WillPurge(stack[i], f)
    BY <1>1, <2>1 DEF LeftInv
  <2> QED
    BY <1>1, <1>2, <1>3, <2>2, <2>3, InTopKeeps
<1>6. EmptyInv'
  <2> SUFFICES ASSUME NEW d \in dirs' \ {Root}, Removable(d)'
               PROVE  \E i \in DOMAIN stack' : WillRemove(stack'[i], d)
    BY DEF EmptyInv
  <2>1. d \in dirs \ {Root}
    BY <1>1
  <2>2. CASE Empty(d)
    <3>1. d # e
      BY <1>1, <2>2
    <3>2. WillRemove(Top, d) => WillRemove(new, d)
      BY <1>1, <1>3, <1>4, <3>1 DEF WillRemove
    <3>3. \E i \in DOMAIN stack : WillRemove(stack[i], d)
      BY <1>1, <2>1, <2>2, RemovableStays DEF EmptyInv
    <3> QED
      BY <1>1, <1>2, <1>3, <3>2, <3>3, InTopKeeps DEF new
  <2>3. CASE ~Empty(d)
    <3>1. d = Top.dir
      <4>1. Empty(d)'
        BY DEF Removable, EmptiesGo
      <4>2. FilesIn(d) = {} /\ {c \in dirs' \ {Root} : Parent[c] = d} = {}
        BY <1>1, <4>1 DEF Empty, FilesIn, Subdirs
      <4>3. PICK c \in dirs : c # Root /\ Parent[c] = d
        BY <2>3, <4>2 DEF Empty, Subdirs
      <4>4. c = e
        BY <1>1, <4>2, <4>3
      <4> QED
        BY <1>3, <4>3, <4>4
    <3>2. PICK i \in DOMAIN stack :
            i # Len(stack) /\ stack[i].dir = Parent[d] /\ stack[i].phase = "dirs"
      BY <1>1, <2>1, <3>1, CallAbove
    <3>3. WillRemove(stack[i], d)
      BY <3>2 DEF WillRemove
    <3>4. i \in DOMAIN stack' /\ stack'[i] = stack[i]
      BY <1>1, <1>2, <1>3, <3>2, InTopKeeps
    <3> QED
      BY <3>3, <3>4
  <2> QED
    BY <2>2, <2>3
<1> QED
  BY <1>5, <1>6

LEMMA ReturnLeft ==
  ASSUME IInv, LeftInv, EmptyInv, Return
  PROVE  LeftInv' /\ EmptyInv'
<1>1. /\ stack # <<>> /\ Top.phase = "empty" /\ Top.todo = {} /\ stack' = Front(stack)
      /\ patterns' = patterns /\ dirs' = dirs /\ files' = files
  BY DEF Return
<1>2. stack \in Seq(Call)
  BY <1>1, TopInv
<1>3. \A i \in DOMAIN stack : \/ i \in DOMAIN stack' /\ stack'[i] = stack[i]
                              \/ stack[i] = Top
  <2>1. /\ DOMAIN Front(stack) = DOMAIN stack \ {Len(stack)}
        /\ \A i \in DOMAIN Front(stack) : Front(stack)[i] = stack[i]
    BY <1>1, FrontWalk DEF IInv
  <2> QED
    BY <1>1, <1>2, <2>1, TopIs
<1>4. LeftInv'
  <2> SUFFICES ASSUME NEW f \in Files, Expired(f)'
               PROVE  \E i \in DOMAIN stack' : WillPurge(stack'[i], f)
    BY DEF LeftInv
  <2>1. \E i \in DOMAIN stack : WillPurge(stack[i], f)
    BY <1>1, ExpiredStays DEF LeftInv
  <2>2. ~WillPurge(Top, f)
    BY <1>1 DEF WillPurge
  <2> QED
    BY <1>3, <2>1, <2>2
<1>5. EmptyInv'
  <2> SUFFICES ASSUME NEW d \in dirs' \ {Root}, Removable(d)'
               PROVE  \E i \in DOMAIN stack' : WillRemove(stack'[i], d)
    BY DEF EmptyInv
  <2>1. Empty(d)
    BY <1>1 DEF Removable, EmptiesGo, Empty, Subdirs, FilesIn
  <2>2. \E i \in DOMAIN stack : WillRemove(stack[i], d)
    BY <1>1, <2>1, RemovableStays DEF EmptyInv
  <2>3. ~WillRemove(Top, d)
    BY <1>1 DEF WillRemove
  <2> QED
    BY <1>3, <2>2, <2>3
<1> QED
  BY <1>4, <1>5

LEMMA WriteFileLeft ==
  ASSUME IInv, LeftInv, EmptyInv, NEW g \in Files, WriteFile(g)
  PROVE  LeftInv' /\ EmptyInv'
<1>1. /\ patterns' = patterns /\ stack' = stack /\ dirs' = dirs \cup Path[Dir[g]]
      /\ files[g] = None /\ files' = [files EXCEPT ![g] = 0]
  BY DEF WriteFile, Write
<1>2. files \in [Files -> 0..MaxAge \cup {None}] /\ Dir[g] \in Dirs
  BY RetentionAssumption DEF IInv, TreeInv
<1>3. LeftInv'
  <2> SUFFICES ASSUME NEW f \in Files, stack' # <<>>, Expired(f)'
               PROVE  \E i \in DOMAIN stack' : WillPurge(stack'[i], f)
    BY DEF LeftInv
  <2>1. f # g
    <3> SUFFICES ASSUME f = g
                 PROVE  FALSE
      OBVIOUS
    <3>1. files'[f] = 0 /\ PeriodsOf(f)' = PeriodsOf(f)
      BY <1>1, <1>2, RulesStay
    <3>2. PeriodsOf(f) # {} /\ 0 > Min(PeriodsOf(f))
      BY <3>1 DEF Expired
    <3>3. Min(PeriodsOf(f)) \in Nat
      BY <3>2, MinPeriod DEF IInv, TreeInv
    <3> QED
      BY <3>2, <3>3
  <2>2. Expired(f)
    BY <1>1, <1>2, <2>1, ExpiredStays
  <2> QED
    BY <1>1, <2>2 DEF LeftInv
<1>4. EmptyInv'
  <2> SUFFICES ASSUME NEW d \in dirs' \ {Root}, stack' # <<>>, Removable(d)'
               PROVE  \E i \in DOMAIN stack' : WillRemove(stack'[i], d)
    BY DEF EmptyInv
  <2>1. Empty(d)'
    BY DEF Removable, EmptiesGo
  <2>2. /\ {c \in dirs' \ {Root} : Parent[c] = d} = {}
        /\ \A f \in Files : files'[f] # None => Dir[f] # d
    BY <2>1 DEF Empty, Subdirs, FilesIn
  \* Of the directories that are made, none is empty.
  <2>3. d \notin Path[Dir[g]]
    <3> SUFFICES ASSUME d \in Path[Dir[g]]
                 PROVE  FALSE
      OBVIOUS
    <3>1. d # Dir[g]
      <4>1. files'[g] # None
        BY <1>1, <1>2, RetentionAssumption
      <4> QED
        BY <2>2, <4>1
    <3>2. PICK c \in Path[Dir[g]] : c # Root /\ Parent[c] = d
      BY <1>2, <3>1, ChildOnPath
    <3> QED
      BY <1>1, <2>2, <3>2
  <2>4. d \in dirs \ {Root} /\ Empty(d)
    <3>1. \A f \in Files : files[f] # None => files'[f] # None
      BY <1>1, <1>2
    <3> QED
      BY <1>1, <2>2, <2>3, <3>1 DEF Empty, Subdirs, FilesIn
  <2> QED
    BY <1>1, <2>4, RemovableStays DEF EmptyInv
<1> QED
  BY <1>3, <1>4

LEMMA StepLeft ==
  IInv /\ LeftInv /\ EmptyInv /\ [Next]_vars => LeftInv' /\ EmptyInv'
<1> SUFFICES ASSUME IInv, LeftInv, EmptyInv, [Next]_vars
             PROVE  LeftInv' /\ EmptyInv'
  OBVIOUS
<1>1. CASE stack' = <<>>
  BY <1>1 DEF LeftInv, EmptyInv
<1>2. CASE stack' # <<>> /\ UNCHANGED vars
  <2>1. \A f \in Files : Expired(f)' <=> Expired(f)
    BY <1>2, ExpiredStays DEF vars, nas
  <2>2. \A d : Removable(d)' => Removable(d)
    BY <1>2, RemovableStays DEF vars, nas, Removable, EmptiesGo, Empty, Subdirs, FilesIn
  <2> QED
    BY <1>2, <2>1, <2>2 DEF vars, nas, LeftInv, EmptyInv
<1>3. CASE stack' # <<>> /\ Next
  <2>1. ~Abort
    BY <1>3 DEF Abort
  <2> QED
    BY <1>3, <2>1, StartLeft, ListSubdirsLeft, ListEmptyLeft, ReturnLeft, PurgeFileLeft,
       WriteFileLeft, EnterSubdirLeft, RemoveEmptyLeft, Zenon DEF Next
<1> QED
  BY <1>1, <1>2, <1>3

LEMMA InitLeft == Init => LeftInv /\ EmptyInv
BY DEF Init, RetentionInit, LeftInv, EmptyInv

LEMMA LeftHolds == Spec => [](LeftInv /\ EmptyInv)
BY InitLeft, InvHolds, StepLeft, PTL DEF Spec

\* At the end of a walk there is one call, and it has nothing to do.
LEMMA AtEnd ==
  ASSUME IInv, AtRoot
  PROVE  /\ stack # <<>>
         /\ \A i \in DOMAIN stack : stack[i].phase = "empty" /\ stack[i].todo = {}
<1>1. stack \in Seq(Call) /\ Len(stack) = 1 /\ Top.phase = "empty" /\ Top.todo = {}
  BY DEF IInv, WalkInv, AtRoot
<1>2. stack # <<>> /\ DOMAIN stack = {1}
  BY <1>1
<1>3. stack[1] = Top
  BY <1>1, <1>2, TopIs
<1> QED
  BY <1>1, <1>2, <1>3

\* When a walk has come to its end, no expired file is left.
THEOREM LeftCorrect == Spec => []NoneLeft
<1>1. IInv /\ LeftInv => NoneLeft
  <2> SUFFICES ASSUME IInv, LeftInv, AtRoot, NEW f \in Files, Expired(f)
               PROVE  FALSE
    BY DEF NoneLeft
  <2>1. \E i \in DOMAIN stack : WillPurge(stack[i], f)
    BY AtEnd DEF LeftInv
  <2> QED
    BY <2>1, AtEnd DEF WillPurge
<1> QED
  BY <1>1, InvHolds, LeftHolds, PTL

\* Nor an empty directory where they are to be removed.
THEOREM EmptyCorrect == Spec => []NoneEmpty
<1>1. IInv /\ EmptyInv => NoneEmpty
  <2> SUFFICES ASSUME IInv, EmptyInv, AtRoot, NEW d \in dirs \ {Root}, Removable(d)
               PROVE  FALSE
    BY DEF NoneEmpty, Removable, EmptiesGo
  <2>1. \E i \in DOMAIN stack : WillRemove(stack[i], d)
    BY AtEnd DEF EmptyInv
  <2> QED
    BY <2>1, AtEnd DEF WillRemove
<1> QED
  BY <1>1, InvHolds, LeftHolds, PTL
=============================================================================
