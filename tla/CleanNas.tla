------------------------------ MODULE CleanNas ------------------------------
(***************************************************************************)
(* The NAS cleaner, cleanup/nas/clean_nas.py.  Once a day it walks the     *)
(* directory tree of the builds, and deletes files by name and age and     *)
(* directories that are empty.  What applies in a directory is derived on  *)
(* the way down from the STATEs in patterns.yaml.  Builds go on writing    *)
(* files while it walks.                                                   *)
(*                                                                         *)
(* A regex is the set of the names it matches in full, so that one         *)
(* extended by another is their union.  --dry-run, a walk that removes     *)
(* nothing, is left out.                                                   *)
(***************************************************************************)
EXTENDS NasRetention

VARIABLE
  stack      \* the calls of enter_dir, the innermost last; empty between walks

vars == <<nas, stack>>

Init == RetentionInit /\ stack = <<>>

-----------------------------------------------------------------------------
\* PurgeRules

NewRules ==
  [keep |-> {}, purge |-> [p \in Periods |-> {}], removeEmpty |-> FALSE, skip |-> FALSE]

Override(new, old) == IF new = None THEN old ELSE new

NamesFor(remove, p) == UNION {r.names : r \in {r \in remove : r.age = p}}

\* (mutated: what the STATE does not say is not inherited)
DerivedAfresh(rules, state) ==
  [keep        |-> Override(state.KEEP, {}),
   purge       |-> IF state.REMOVE = None THEN rules.purge
                   ELSE [p \in Periods |-> rules.purge[p] \cup NamesFor(state.REMOVE, p)],
   removeEmpty |-> Override(state.REMOVE_EMPTY_DIRS, FALSE),
   skip        |-> Override(state.SKIP, rules.skip)]

\* PurgeRules.derived: removal is extended, the rest is replaced.
Derived(rules, state) ==
  [keep        |-> Override(state.KEEP, rules.keep),
   purge       |-> IF state.REMOVE = None THEN rules.purge
                   ELSE [p \in Periods |-> rules.purge[p] \cup NamesFor(state.REMOVE, p)],
   removeEmpty |-> Override(state.REMOVE_EMPTY_DIRS, rules.removeEmpty),
   skip        |-> Override(state.SKIP, rules.skip)]

\* (mutated: the longest period decides)
DecidesLongest(p, f, rules) ==
  Name[f] \in rules.purge[p] /\ \A q \in Periods : q > p => Name[f] \notin rules.purge[q]

\* The shortest period a name matches decides.
Decides(p, f, rules) ==
  Name[f] \in rules.purge[p] /\ \A q \in Periods : q < p => Name[f] \notin rules.purge[q]

Purges(f, rules) ==
  /\ Name[f] \notin rules.keep
  /\ \E p \in Periods : Decides(p, f, rules) /\ files[f] > p

-----------------------------------------------------------------------------
\* enter_dir

Top == Last(stack)
InTop(phase, todo) == Append(Front(stack), [Top EXCEPT !.phase = phase, !.todo = todo])

\* The calls once d is entered: a directory is not entered under SKIP.
Entered(calls, d, rules, state) ==
  LET derived == IF state = None THEN rules ELSE Derived(rules, state)
  IN IF state # None /\ derived.skip
       THEN calls
       ELSE Append(calls, [dir |-> d, rules |-> derived,
                           subdirs |-> IF state = None THEN <<>> ELSE state.SUBDIRS,
                           phase |-> "files", todo |-> FilesIn(d)])

\* The STATE of the first entry of SUBDIRS that matches.
SubdirState(subdirs, d) ==
  LET i == SelectInSeq(subdirs, LAMBDA s : d \in s.dirs)
  IN IF i = 0 THEN None ELSE subdirs[i].state

\* main, a day after the last walk.
Start ==
  /\ stack = <<>>
  /\ stack' = Entered(<<>>, Root, NewRules, patterns)
  /\ Age

\* One iteration of PurgeRules.purge_files. The age is the one when the files
\* of the directory were listed, or less.
PurgeFile(f) ==
  /\ stack # <<>> /\ Top.phase = "files" /\ f \in Top.todo
  /\ files' = IF Purges(f, Top.rules) THEN [files EXCEPT ![f] = None] ELSE files
  /\ stack' = InTop("files", Top.todo \ {f})
  /\ UNCHANGED <<patterns, dirs>>

ListSubdirs ==
  /\ stack # <<>> /\ Top.phase = "files" /\ Top.todo = {}
  /\ stack' = InTop("dirs", Subdirs(Top.dir))
  /\ UNCHANGED <<patterns, dirs, files>>

EnterSubdir(d) ==
  /\ stack # <<>> /\ Top.phase = "dirs" /\ d \in Top.todo
  /\ stack' = Entered(InTop("dirs", Top.todo \ {d}), d, Top.rules, SubdirState(Top.subdirs, d))
  /\ UNCHANGED <<patterns, dirs, files>>

\* (mutated: purge_empty_subdirs is called whatever the rules say)
ListEmptyAlways ==
  /\ stack # <<>> /\ Top.phase = "dirs" /\ Top.todo = {}
  /\ stack' = InTop("empty", Subdirs(Top.dir))
  /\ UNCHANGED <<patterns, dirs, files>>

\* PurgeRules.purge_empty_subdirs begins.
ListEmpty ==
  /\ stack # <<>> /\ Top.phase = "dirs" /\ Top.todo = {}
  /\ stack' = InTop("empty", IF Top.rules.removeEmpty THEN Subdirs(Top.dir) ELSE {})
  /\ UNCHANGED <<patterns, dirs, files>>

\* One iteration of purge_empty_subdirs; rmdir refuses what is not empty.
RemoveEmpty(d) ==
  /\ stack # <<>> /\ Top.phase = "empty" /\ d \in Top.todo
  /\ dirs' = IF Empty(d) THEN dirs \ {d} ELSE dirs
  /\ stack' = InTop("empty", Top.todo \ {d})
  /\ UNCHANGED <<patterns, files>>

Return ==
  /\ stack # <<>> /\ Top.phase = "empty" /\ Top.todo = {}
  /\ stack' = Front(stack)
  /\ UNCHANGED <<patterns, dirs, files>>

\* The walk is killed, or an error of the file system ends it: nothing is
\* caught.
Abort ==
  /\ stack # <<>>
  /\ stack' = <<>>
  /\ UNCHANGED <<patterns, dirs, files>>

WriteFile(f) == Write(f) /\ UNCHANGED stack

Next ==
  \/ Start \/ ListSubdirs \/ ListEmpty \/ Return \/ Abort
  \/ \E f \in Files : PurgeFile(f) \/ WriteFile(f)
  \/ \E d \in Dirs : EnterSubdir(d) \/ RemoveEmpty(d)

Spec == Init /\ [][Next]_vars

-----------------------------------------------------------------------------
AtRoot == Len(stack) = 1 /\ Top.phase = "empty" /\ Top.todo = {}

Phases == {"files", "dirs", "empty"}

\* What each variable holds: the calls are a path down from the root, and every
\* directory but the root is in one that is there.
TypeOK ==
  /\ patterns \in Patterns
  /\ dirs \subseteq Dirs /\ \A d \in dirs : Path[d] \subseteq dirs
  /\ files \in [Files -> 0..MaxAge \cup {None}]
  /\ \A f \in Files : files[f] # None => Dir[f] \in dirs
  /\ \A i \in DOMAIN stack :
       /\ stack[i].dir \in dirs /\ stack[i].phase \in Phases
       /\ stack[i].dir = Root <=> i = 1
       /\ i > 1 => Parent[stack[i].dir] = stack[i - 1].dir

\* When a walk has come to its end (enter_dir of the root), no expired file is
\* left: none was passed over on account of STATEs of other directories.
NoneLeft == AtRoot => \A f \in Files : ~Expired(f)

\* Nor is there an empty directory left where they are to be removed, including
\* those that became empty on the way (purge_empty_subdirs).
NoneEmpty ==
  AtRoot => \A d \in dirs \ {Root} : EmptiesGo(Parent[d]) => ~Empty(d)
=============================================================================
