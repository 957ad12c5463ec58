---------------------------- MODULE NasRetention ----------------------------
(***************************************************************************)
(* What the NAS cleaner, cleanup/nas/clean_nas.py, promises to the builds  *)
(* that write to the NAS: what patterns.yaml lets disappear, read as the   *)
(* README of the cleaner puts it, by the STATEs on the path to a           *)
(* directory.  How and when the tree is walked is of no interest here.     *)
(*                                                                         *)
(* A regex is the set of the names it matches in full.  A STATE is a       *)
(* record of its keys, None for one that is not there, and None itself     *)
(* when it is empty.                                                       *)
(***************************************************************************)
EXTENDS Integers, SequencesExt

CONSTANTS
  Dirs, Root, Parent,
  Files, Dir, Name,
  Periods,           \* the ages, in days, a REMOVE gives to names
  MaxAge,            \* the age at which files are as old as can be
  States,            \* the STATEs there may be
  Patterns,          \* those of the root that are tried
  None

ASSUME RetentionAssumption ==
  /\ Root \in Dirs /\ Parent \in [Dirs \ {Root} -> Dirs]
  /\ Dir \in [Files -> Dirs]
  /\ Periods \subseteq Nat /\ MaxAge \in Nat /\ \A p \in Periods : p < MaxAge
  /\ None \notin Nat

\* Every way up leads to the root.
ASSUME TreeAssumption ==
  \A S \in (SUBSET (Dirs \ {Root})) \ {{}} : \E d \in S : Parent[d] \notin S

\* What a STATE says, and that those below it are STATEs or empty.
ASSUME StatesAssumption ==
  /\ None \notin States /\ Patterns \subseteq States \cup {None}
  /\ \A s \in States :
       /\ s.REMOVE # None => \A r \in s.REMOVE : r.age \in Periods
       /\ {s.REMOVE_EMPTY_DIRS, s.SKIP} \subseteq BOOLEAN \cup {None}
       /\ s.SUBDIRS \in Seq([dirs : SUBSET Dirs, state : States \cup {None}])

VARIABLES
  patterns,  \* patterns.yaml, the STATE of the root
  dirs,      \* the directories there are
  files      \* the ages of the files, None for one that is not there

nas == <<patterns, dirs, files>>

Path[d \in Dirs] == IF d = Root THEN {Root} ELSE Path[Parent[d]] \cup {d}

Subdirs(d) == {e \in dirs \ {Root} : Parent[e] = d}
FilesIn(d) == {f \in Files : Dir[f] = d /\ files[f] # None}
Empty(d) == Subdirs(d) = {} /\ FilesIn(d) = {}

-----------------------------------------------------------------------------
\* What applies to a directory.

StateUnder(above, d) ==
  LET matching == {i \in DOMAIN above.SUBDIRS : d \in above.SUBDIRS[i].dirs}
  IN IF above = None THEN None
     ELSE IF matching = {} THEN None ELSE above.SUBDIRS[Min(matching)].state

StateAt[d \in Dirs] ==
  IF d = Root THEN patterns ELSE StateUnder(StateAt[Parent[d]], d)

\* The directories on the path to d whose STATE has the key.
With(d, key) == {e \in Path[d] : StateAt[e] # None /\ StateAt[e][key] # None}

Innermost(S) == CHOOSE d \in S : S \subseteq Path[d]

InForce(d, key, default) ==
  IF With(d, key) = {} THEN default ELSE StateAt[Innermost(With(d, key))][key]

Skipped(d) == \E e \in With(d, "SKIP") : StateAt[e].SKIP

\* The periods of the REMOVE entries on the path that match the name.
PeriodsOf(f) ==
  UNION {{r.age : r \in {r \in StateAt[e].REMOVE : Name[f] \in r.names}} : e \in With(Dir[f], "REMOVE")}

\* The file has expired, and should be removed.
Expired(f) ==
  /\ files[f] # None /\ ~Skipped(Dir[f])
  /\ Name[f] \notin InForce(Dir[f], "KEEP", {})
  /\ PeriodsOf(f) # {} /\ files[f] > Min(PeriodsOf(f))

\* The empty directories of this one are to be removed.
EmptiesGo(d) == ~Skipped(d) /\ InForce(d, "REMOVE_EMPTY_DIRS", FALSE)

-----------------------------------------------------------------------------
RetentionInit ==
  /\ patterns \in Patterns
  /\ dirs = {Root}
  /\ files = [f \in Files |-> None]

\* A day passes.
Age ==
  /\ files' = [f \in Files |-> IF files[f] \in {None, MaxAge} THEN files[f] ELSE files[f] + 1]
  /\ UNCHANGED <<patterns, dirs>>

\* A build writes a file, and makes the directories on the way to it.
Write(f) ==
  /\ files[f] = None
  /\ files' = [files EXCEPT ![f] = 0]
  /\ dirs' = dirs \cup Path[Dir[f]]
  /\ UNCHANGED patterns

Expire(f) ==
  /\ Expired(f)
  /\ files' = [files EXCEPT ![f] = None]
  /\ UNCHANGED <<patterns, dirs>>

RemoveDir(d) ==
  /\ d \in dirs \ {Root} /\ Empty(d) /\ EmptiesGo(Parent[d])
  /\ dirs' = dirs \ {d}
  /\ UNCHANGED <<patterns, files>>

RetentionNext ==
  \/ Age
  \/ \E f \in Files : Write(f) \/ Expire(f)
  \/ \E d \in Dirs : RemoveDir(d)

\* The walk (enter_dir, with what it calls) takes nothing from the NAS but, one
\* at a time, files that have expired and directories that are empty and are to
\* be removed then, by the STATEs on the path to them; whatever it had read of
\* the tree before, and wherever it was stopped.
RetentionSpec == RetentionInit /\ [][RetentionNext]_nas
=============================================================================
