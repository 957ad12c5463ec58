------------------------ MODULE BuildDBLoaderProofs ------------------------
(***************************************************************************)
(* The build database loader, for every manifest repository: its safety,   *)
(* and that it implements BuildHistory.                                    *)
(***************************************************************************)
EXTENDS BuildDiff, WellFoundedInduction, TLAPS

-----------------------------------------------------------------------------
(* What the operators on commits and manifests return. *)

LEMMA ManifestsLen ==
  Len(Manifests) \in Nat /\ DOMAIN Manifests = 1..Len(Manifests)
BY ManifestsAssumption

LEMMA BuildNameType ==
  ASSUME NEW m, IsBuild(m)
  PROVE  /\ BuildName(m) \in BuildNames
         /\ Manifests[m] \in Manifest
         /\ BuildName(m) = <<Manifests[m].index_key, Manifests[m].build_num>>
BY ManifestsAssumption DEF IsBuild, BuildNames, BuildName

LEMMA ReachableType ==
  ASSUME NEW shas \in SUBSET Commits
  PROVE  Reachable(shas) \subseteq Commits \ Missing
BY CommitsAssumption DEF Reachable

\* The commits linked for a project are some of the difference.
LEMMA LinkedCommitsType ==
  ASSUME NEW old \in SUBSET Commits, NEW new \in SUBSET Commits
  PROVE  LinkedCommits(old, new) \subseteq DiffCommits(old, new)
<1>1. DiffCommits(old, new) \subseteq Commits
  BY ReachableType DEF DiffCommits
<1>2. CASE old = {} /\ DiffCommits(old, new) # {}
  <2>1. \E c \in DiffCommits(old, new) : \A d \in DiffCommits(old, new) : d <= c
    BY <1>1, <1>2, NewestAssumption
  <2>2. Newest(DiffCommits(old, new)) \in DiffCommits(old, new)
    BY <2>1 DEF Newest
  <2> QED
    BY <1>2, <2>2 DEF LinkedCommits
<1>3. CASE ~(old = {} /\ DiffCommits(old, new) # {})
  BY <1>3 DEF LinkedCommits
<1> QED
  BY <1>2, <1>3

-----------------------------------------------------------------------------
(* The inductive invariant.  Type correctness is not inductive alone: that   *)
(* LinkBuild reads a document that is there needs what the index and the     *)
(* document at hand say of the builds written so far.                        *)

Loading == pc \in {"index", "commits", "link", "linkCommits"}

\* The index in memory names written builds, and so does the document at hand,
\* which is written itself.
IndexInv ==
  /\ IndexNamesBuilds
  /\ \A v \in ProdVers :
       prod_ver_index[v] # NoBuild => <<v, prod_ver_index[v]>> \in Built
  /\ Loading => /\ build_name \in Built
                /\ builds[build_name].prev_build_num = build_data.prev_build_num
  /\ Loading /\ pc # "index" =>
       (first_prod_ver_build <=> build_data.prev_build_num = NoBuild)
  /\ pc \in {"link", "linkCommits"} /\ first_prod_ver_build => todo = {}

-----------------------------------------------------------------------------
(* Type correctness. *)

LEMMA DownTypeOK == Down => ProcTypeOK'
<1>1. Down => (cur \in 0..Len(Manifests) /\ prod_ver_index \in [ProdVers -> Nat \cup {NoBuild}])'
  BY ManifestsLen DEF Down, NoIndex
<1> QED
  BY <1>1 DEF Down, ProcTypeOK

LEMMA InitTypeOK == Init => TypeOK
<1>1. Init => DBTypeOK
  BY ManifestsLen DEF Init, DBTypeOK, NoIndex
<1>2. Init => cur \in 0..Len(Manifests) /\ prod_ver_index \in [ProdVers -> Nat \cup {NoBuild}]
  BY ManifestsLen DEF Init, NoIndex
<1>3. Init => ProcTypeOK
  BY <1>2 DEF Init, ProcTypeOK
<1> QED
  BY <1>1, <1>3 DEF TypeOK

\* While commits are linked, the build and its predecessor have documents.
LEMMA LinkedBuilds ==
  ASSUME TypeOK, IndexInv, NEW p \in Projects, pc = "link", p \in todo
  PROVE  build_data \in BuildDoc /\ build_name \in Built /\ PrevBuildName \in Built
<1>1. build_data \in BuildDoc /\ build_name \in Built /\ build_name[1] = manifest.index_key
  BY BuildNameType DEF TypeOK, ProcTypeOK, IndexInv, Loading, build_name, manifest
<1>2. /\ builds[build_name].prev_build_num # NoBuild
      /\ builds[build_name].prev_build_num = build_data.prev_build_num
  BY DEF IndexInv, Loading
<1> QED
  BY <1>1, <1>2 DEF IndexInv, IndexNamesBuilds, PrevBuildName

LEMMA NextTypeOK ==
  ASSUME TypeOK, IndexInv, [Next]_vars
  PROVE  TypeOK'
<1> USE DEF TypeOK
<1>1. CASE Start
  BY <1>1 DEF Start, db, DBTypeOK, ProcTypeOK
<1>2. CASE TakeManifest
  BY ManifestsLen, <1>2 DEF TakeManifest, db, IsBuild, ProjectsOf, DBTypeOK, ProcTypeOK
<1>3. CASE WalkDone
  BY <1>3, DownTypeOK DEF WalkDone, db, DBTypeOK
<1>4. ASSUME NEW p \in Projects, UpdateProject(p)
      PROVE  TypeOK'
  BY <1>4 DEF UpdateProject, DBTypeOK, ProcTypeOK
<1>5. CASE WriteBuild
  <2>1. IsBuild(cur) /\ build_name \in BuildNames /\ manifest \in Manifest
    BY <1>5, BuildNameType DEF WriteBuild, build_name, manifest, ProcTypeOK
  <2>2. PrevBuildNum \in Nat \cup {NoBuild}
    BY <2>1 DEF PrevBuildNum, Manifest, BuildDoc, DBTypeOK, ProcTypeOK
  <2>3. NewBuild \in BuildDoc
    BY <2>1, <2>2 DEF NewBuild, BuildDoc, Manifest, NoInvalid, NoCommits
  <2> QED
    BY <1>5, <2>1, <2>3 DEF WriteBuild, DBTypeOK, ProcTypeOK
<1>6. CASE WriteIndex
  <2>1. manifest \in Manifest
    BY <1>6, BuildNameType DEF WriteIndex, manifest, ProcTypeOK
  <2> QED
    BY <1>6, <2>1 DEF WriteIndex, Manifest, ProjectsOf, DBTypeOK, ProcTypeOK
<1>7. ASSUME NEW p \in Projects, CommitProject(p)
      PROVE  TypeOK'
  <2>1. build_data \in BuildDoc /\ build_data.manifest[p] \in SUBSET Commits
    BY <1>7 DEF CommitProject, BuildDoc, ProcTypeOK
  <2>2. NewCommits(p) \subseteq Commits \ Missing
    BY <2>1, ReachableType DEF NewCommits
  <2>3. CASE InvalidShas(p) # {}
    <3>1. InvalidShas(p) \in SUBSET Commits
      BY <2>1 DEF InvalidShas
    <3>2. /\ [build_data.manifest EXCEPT ![p] = @ \ Missing] \in [Projects -> SUBSET Commits]
          /\ [build_data.invalid_shas EXCEPT ![p] = InvalidShas(p)]
               \in [Projects -> SUBSET Commits]
      BY <2>1, <3>1 DEF BuildDoc
    <3>3. build_data' = [build_data EXCEPT
                           !.manifest = [build_data.manifest EXCEPT ![p] = @ \ Missing],
                           !.invalid_shas = [build_data.invalid_shas EXCEPT ![p] = InvalidShas(p)]]
      BY <1>7, <2>3 DEF CommitProject
    <3>4. build_data' \in BuildDoc
      BY <2>1, <3>2, <3>3 DEF BuildDoc
    <3> QED
      BY <1>7, <2>3, <3>4 DEF CommitProject, DBTypeOK, ProcTypeOK
  <2>4. CASE InvalidShas(p) = {}
    BY <1>7, <2>2, <2>4 DEF CommitProject, WriteCommits, DBTypeOK, ProcTypeOK
  <2> QED
    BY <2>3, <2>4
<1>8. ASSUME NEW p \in Projects, PartialCommits(p)
      PROVE  TypeOK'
  <2>1. build_data \in BuildDoc /\ build_data.manifest[p] \in SUBSET Commits
    BY <1>8 DEF PartialCommits, BuildDoc, ProcTypeOK
  <2>2. NewCommits(p) \subseteq Commits \ Missing
    BY <2>1, ReachableType DEF NewCommits
  <2>3. DBTypeOK'
    BY <1>8, <2>2 DEF PartialCommits, WriteCommits, DBTypeOK
  <2> QED
    BY <1>8, <2>3, DownTypeOK DEF PartialCommits
<1>9. CASE CommitsDone
  <2>1. build_name \in BuildNames
    BY <1>9, BuildNameType DEF CommitsDone, build_name, ProcTypeOK
  <2>2. DBTypeOK'
    BY <1>9, <2>1 DEF CommitsDone, DBTypeOK, ProcTypeOK
  <2>3. CASE Down
    BY <2>2, <2>3, DownTypeOK
  <2>4. CASE ~Down
    BY <1>9, <2>2, <2>4 DEF CommitsDone, ProjectsOf, ProcTypeOK
  <2> QED
    BY <2>3, <2>4
<1>10. ASSUME NEW p \in Projects, LinkBuild(p)
       PROVE  TypeOK'
  <2>1. /\ build_data \in BuildDoc
        /\ build_name \in Built
        /\ PrevBuildName \in Built
    BY <1>10, LinkedBuilds DEF LinkBuild
  <2>2. builds[build_name] \in BuildDoc /\ builds[PrevBuildName] \in BuildDoc
    BY <2>1 DEF Built, DBTypeOK
  <2>3. /\ builds[PrevBuildName].manifest[p] \in SUBSET Commits
        /\ build_data.manifest[p] \in SUBSET Commits
    BY <2>1, <2>2 DEF BuildDoc
  <2>4. commit_ids' \subseteq Commits
    <3>1. commit_ids' \subseteq DiffCommits(builds[PrevBuildName].manifest[p],
                                           build_data.manifest[p])
      BY <1>10, <2>3, LinkedCommitsType DEF LinkBuild
    <3> QED
      BY <2>3, <3>1, ReachableType DEF DiffCommits
  <2>5. builds' \in [BuildNames -> BuildDoc \cup {NoDoc}]
    <3>1. [c \in Commits |-> IF c \in commit_ids' THEN builds[build_name].commits[c] + 1
                             ELSE builds[build_name].commits[c]] \in [Commits -> Nat]
      BY <2>2 DEF BuildDoc
    <3> QED
      BY <1>10, <2>1, <2>2, <3>1 DEF LinkBuild, BuildDoc, DBTypeOK
  <2>6. DBTypeOK'
    BY <1>10, <2>5 DEF LinkBuild, DBTypeOK
  <2> QED
    BY <1>10, <2>4, <2>6 DEF LinkBuild, AfterDiff, ProcTypeOK
<1>11. ASSUME NEW c \in Commits, LinkCommit(c)
       PROVE  TypeOK'
  <2>1. build_name \in BuildNames
    BY <1>11, BuildNameType DEF LinkCommit, build_name, ProcTypeOK
  <2>2. in_build' \in [Commits -> [BuildNames -> Nat]]
    <3>1. [in_build[c] EXCEPT ![build_name] = 1] \in [BuildNames -> Nat]
      BY <2>1 DEF DBTypeOK
    <3>2. \/ in_build' = in_build
          \/ in_build' = [in_build EXCEPT ![c] = [in_build[c] EXCEPT ![build_name] = 1]]
      BY <1>11 DEF LinkCommit
    <3> QED
      BY <3>1, <3>2 DEF DBTypeOK
  <2>3. DBTypeOK'
    BY <1>11, <2>2 DEF LinkCommit, DBTypeOK
  <2>4. CASE Down
    BY <2>3, <2>4, DownTypeOK
  <2>5. CASE ~Down
    BY <1>11, <2>3, <2>5 DEF LinkCommit, AfterDiff, ProcTypeOK
  <2> QED
    BY <2>4, <2>5
<1>12. CASE FinishManifest
  BY <1>12 DEF FinishManifest, proc, DBTypeOK, ProcTypeOK
<1>13. CASE Crash
  BY <1>13, DownTypeOK DEF Crash, db, DBTypeOK
<1>14. CASE UNCHANGED vars
  BY <1>14 DEF vars, db, proc, DBTypeOK, ProcTypeOK
<1> QED
  BY <1>1, <1>2, <1>3, <1>4, <1>5, <1>6, <1>7, <1>8, <1>9, <1>10, <1>11,
     <1>12, <1>13, <1>14 DEF Next, Step, Stop

-----------------------------------------------------------------------------
(* The index and the predecessors. *)

LEMMA InitIndexInv == Init => IndexInv
BY DEF Init, IndexInv, IndexNamesBuilds, NoIndex, Built, Loading

\* A dead process leaves only the database to speak of.
LEMMA DownIndexInv ==
  ASSUME Down, IndexNamesBuilds'
  PROVE  IndexInv'
BY DEF Down, IndexInv, NoIndex, Loading

LEMMA SameBuilds ==
  ASSUME IndexNamesBuilds, UNCHANGED <<builds, index_doc>>
  PROVE  IndexNamesBuilds' /\ Built' = Built
BY DEF IndexNamesBuilds, Built

LEMMA NextIndexInv ==
  ASSUME TypeOK, TypeOK', IndexInv, [Next]_vars
  PROVE  IndexInv'
<1>1. CASE Start
  <2>1. IndexNamesBuilds' /\ Built' = Built
    BY <1>1, SameBuilds DEF Start, db, IndexInv
  <2> QED
    BY <1>1, <2>1 DEF Start, db, IndexInv, IndexNamesBuilds, Loading
<1>2. CASE TakeManifest
  <2>1. IndexNamesBuilds' /\ Built' = Built
    BY <1>2, SameBuilds DEF TakeManifest, db, IndexInv
  <2> QED
    BY <1>2, <2>1 DEF TakeManifest, IndexInv, Loading
<1>3. CASE WalkDone
  BY <1>3, SameBuilds, DownIndexInv DEF WalkDone, db, IndexInv
<1>4. ASSUME NEW p \in Projects, UpdateProject(p)
      PROVE  IndexInv'
  <2>1. IndexNamesBuilds' /\ Built' = Built
    BY <1>4, SameBuilds DEF UpdateProject, IndexInv
  <2> QED
    BY <1>4, <2>1 DEF UpdateProject, IndexInv, Loading
<1>5. CASE WriteBuild
  <2>1. /\ build_name \in BuildNames /\ build_name' = build_name
        /\ build_name = <<manifest.index_key, manifest.build_num>>
        /\ manifest.index_key \in ProdVers
    BY <1>5, BuildNameType DEF WriteBuild, build_name, manifest, TypeOK, ProcTypeOK, Manifest
  <2>2. build_data' \in BuildDoc /\ build_data'.prev_build_num = PrevBuildNum
    BY <1>5 DEF WriteBuild, NewBuild, TypeOK, ProcTypeOK
  <2>3. builds'[build_name] = build_data' /\ Built' = Built \cup {build_name}
    BY <1>5, <2>1, <2>2, SentinelsAssumption DEF WriteBuild, Built, TypeOK, DBTypeOK
  <2>4. PrevBuildNum # NoBuild => <<build_name[1], PrevBuildNum>> \in Built
    BY <2>1 DEF PrevBuildNum, IndexInv, IndexNamesBuilds, Built
  <2>5. IndexNamesBuilds'
    <3>1. \A b \in Built' : builds'[b].prev_build_num # NoBuild =>
            <<b[1], builds'[b].prev_build_num>> \in Built'
      <4> SUFFICES ASSUME NEW b \in Built', builds'[b].prev_build_num # NoBuild
                   PROVE  <<b[1], builds'[b].prev_build_num>> \in Built'
        OBVIOUS
      <4>1. CASE b = build_name
        BY <2>2, <2>3, <2>4, <4>1
      <4>2. CASE b # build_name
        <5>1. b \in Built /\ builds'[b] = builds[b]
          BY <1>5, <2>1, <2>3, <4>2 DEF WriteBuild, Built, TypeOK, DBTypeOK
        <5> QED
          BY <2>3, <5>1 DEF IndexInv, IndexNamesBuilds
      <4> QED
        BY <4>1, <4>2
    <3>2. \A v \in ProdVers : index_doc'[v] # NoBuild => <<v, index_doc'[v]>> \in Built'
      BY <1>5, <2>3 DEF WriteBuild, IndexInv, IndexNamesBuilds
    <3> QED
      BY <3>1, <3>2 DEF IndexNamesBuilds
  <2> QED
    BY <1>5, <2>1, <2>2, <2>3, <2>5 DEF WriteBuild, IndexInv, Loading
<1>6. CASE WriteIndex
  <2>1. /\ build_name = <<manifest.index_key, manifest.build_num>>
        /\ build_name' = build_name /\ build_name \in Built
    BY <1>6, BuildNameType
       DEF WriteIndex, build_name, manifest, TypeOK, ProcTypeOK, IndexInv, Loading
  <2>2. Built' = Built
    BY <1>6 DEF WriteIndex, Built
  <2>3. \A v \in ProdVers :
          prod_ver_index'[v] # NoBuild => <<v, prod_ver_index'[v]>> \in Built'
    BY <1>6, <2>1, <2>2 DEF WriteIndex, IndexInv, TypeOK, ProcTypeOK
  <2>4. IndexNamesBuilds'
    BY <1>6, <2>2, <2>3 DEF WriteIndex, IndexInv, IndexNamesBuilds
  <2> QED
    BY <1>6, <2>1, <2>2, <2>3, <2>4 DEF WriteIndex, IndexInv, Loading
<1>7. ASSUME NEW p \in Projects, CommitProject(p)
      PROVE  IndexInv'
  <2>1. IndexNamesBuilds' /\ Built' = Built
    BY <1>7, SameBuilds DEF CommitProject, IndexInv
  <2>2. build_data'.prev_build_num = build_data.prev_build_num
    BY <1>7 DEF CommitProject, TypeOK, ProcTypeOK, BuildDoc
  <2>3. build_name' = build_name
    BY <1>7 DEF CommitProject, build_name
  <2> QED
    BY <1>7, <2>1, <2>2, <2>3 DEF CommitProject, IndexInv, Loading
<1>8. ASSUME NEW p \in Projects, PartialCommits(p)
      PROVE  IndexInv'
  BY <1>8, SameBuilds, DownIndexInv DEF PartialCommits, IndexInv
<1>9. CASE CommitsDone
  <2>1. /\ build_name \in Built /\ build_name \in BuildNames
        /\ builds[build_name].prev_build_num = build_data.prev_build_num
        /\ build_data \in BuildDoc
    BY <1>9 DEF CommitsDone, IndexInv, Loading, Built, TypeOK, ProcTypeOK
  <2>2. /\ Built' = Built
        /\ \A b \in Built : builds'[b].prev_build_num = builds[b].prev_build_num
    BY <1>9, <2>1, SentinelsAssumption DEF CommitsDone, Built, TypeOK, DBTypeOK
  <2>3. IndexNamesBuilds'
    BY <1>9, <2>2 DEF CommitsDone, IndexInv, IndexNamesBuilds
  <2>4. CASE Down
    BY <2>3, <2>4, DownIndexInv
  <2>5. CASE ~Down
    <3>1. build_name' = build_name
      BY <1>9, <2>5 DEF CommitsDone, build_name
    <3> QED
      BY <1>9, <2>1, <2>2, <2>3, <2>5, <3>1 DEF CommitsDone, IndexInv, Loading
  <2> QED
    BY <2>4, <2>5
<1>10. ASSUME NEW p \in Projects, LinkBuild(p)
       PROVE  IndexInv'
  <2>1. build_name \in Built /\ build_name \in BuildNames /\ builds[build_name] \in BuildDoc
    BY <1>10 DEF LinkBuild, IndexInv, Loading, Built, TypeOK, DBTypeOK
  <2>2. /\ \A b \in BuildNames \ {build_name} : builds'[b] = builds[b]
        /\ builds'[build_name].prev_build_num = builds[build_name].prev_build_num
    BY <1>10, <2>1 DEF LinkBuild, BuildDoc, TypeOK, DBTypeOK
  <2>3. builds'[build_name] # NoDoc
    <3>1. builds'[build_name] = [builds[build_name] EXCEPT !.commits = builds'[build_name].commits]
      BY <1>10, <2>1 DEF LinkBuild, BuildDoc, TypeOK, DBTypeOK
    <3>2. [c \in Commits |-> IF c \in commit_ids' THEN builds[build_name].commits[c] + 1
                             ELSE builds[build_name].commits[c]] \in [Commits -> Nat]
      BY <2>1 DEF BuildDoc
    <3>3. builds'[build_name] \in BuildDoc
      BY <1>10, <2>1, <3>2 DEF LinkBuild, BuildDoc, TypeOK, DBTypeOK
    <3> QED
      BY <3>3, SentinelsAssumption
  <2>4. Built' = Built
    BY <2>1, <2>2, <2>3 DEF Built
  <2>5. IndexNamesBuilds'
    BY <1>10, <2>2, <2>4 DEF LinkBuild, IndexInv, IndexNamesBuilds, Built
  <2>6. build_name' = build_name
    BY <1>10 DEF LinkBuild, build_name
  <2> QED
    BY <1>10, <2>1, <2>2, <2>4, <2>5, <2>6 DEF LinkBuild, IndexInv, Loading, AfterDiff
<1>11. ASSUME NEW c \in Commits, LinkCommit(c)
       PROVE  IndexInv'
  <2>1. IndexNamesBuilds' /\ Built' = Built
    BY <1>11, SameBuilds DEF LinkCommit, IndexInv
  <2>2. CASE Down
    BY <2>1, <2>2, DownIndexInv
  <2>3. CASE ~Down
    <3>1. build_name' = build_name
      BY <1>11, <2>3 DEF LinkCommit, build_name
    <3> QED
      BY <1>11, <2>1, <2>3, <3>1 DEF LinkCommit, IndexInv, Loading, AfterDiff
  <2> QED
    BY <2>2, <2>3
<1>12. CASE FinishManifest
  BY <1>12, SameBuilds DEF FinishManifest, proc, IndexInv, Loading
<1>13. CASE Crash
  BY <1>13, SameBuilds, DownIndexInv DEF Crash, db, IndexInv
<1>14. CASE UNCHANGED vars
  <2>1. IndexNamesBuilds' /\ Built' = Built /\ build_name' = build_name
    BY <1>14, SameBuilds DEF vars, db, proc, IndexInv, build_name
  <2> QED
    BY <1>14, <2>1 DEF vars, db, proc, IndexInv, Loading
<1> QED
  BY <1>1, <1>2, <1>3, <1>4, <1>5, <1>6, <1>7, <1>8, <1>9, <1>10, <1>11,
     <1>12, <1>13, <1>14 DEF Next, Step, Stop

-----------------------------------------------------------------------------
(* The links between builds and commits. *)

\* What links there are is no more than one of each kind; a commit that is in a
\* build has a document; and the commits that the build at hand already has are
\* those of the projects that are done.
LinkInv ==
  /\ NoDuplicateLinks
  /\ \A c \in Commits, b \in BuildNames : in_build[c][b] > 0 => c \in commits
  /\ Loading => \A p \in Projects : \A c \in build_data.manifest[p] : ProjectOf[c] = p
  /\ pc \in {"index", "commits"} =>
       build_data.commits = NoCommits /\ builds[build_name].commits = NoCommits
  /\ pc \in {"link", "linkCommits"} =>
       \A c \in Commits : builds[build_name].commits[c] > 0 => ProjectOf[c] \notin todo

LEMMA InitLinkInv == Init => LinkInv
BY DEF Init, LinkInv, NoDuplicateLinks, Built, Loading

LEMMA SameLinks ==
  ASSUME LinkInv, UNCHANGED <<builds, commits, in_build>>
  PROVE  /\ NoDuplicateLinks'
         /\ \A c \in Commits, b \in BuildNames : in_build'[c][b] > 0 => c \in commits'
BY DEF LinkInv, NoDuplicateLinks, Built

\* A dead process leaves only the database to speak of.
LEMMA DownLinkInv ==
  ASSUME Down, NoDuplicateLinks',
         \A c \in Commits, b \in BuildNames : in_build'[c][b] > 0 => c \in commits'
  PROVE  LinkInv'
BY DEF Down, LinkInv, Loading

\* Only a commit that has no document yet gets one, and it has no links to lose.
LEMMA WriteCommitsLinks ==
  ASSUME TypeOK, LinkInv, UNCHANGED builds,
         NEW new \in SUBSET (Commits \ commits), WriteCommits(new)
  PROVE  /\ NoDuplicateLinks'
         /\ \A c \in Commits, b \in BuildNames : in_build'[c][b] > 0 => c \in commits'
         /\ \A c \in Commits, b \in BuildNames : in_build'[c][b] >= in_build[c][b]
<1>1. \A c \in Commits, b \in BuildNames : in_build[c][b] \in Nat
  BY DEF TypeOK, DBTypeOK
<1>2. \A c \in new, b \in BuildNames : in_build[c][b] = 0
  BY <1>1 DEF LinkInv
<1>3. \A c \in Commits, b \in BuildNames : in_build'[c][b] = in_build[c][b]
  BY <1>1, <1>2 DEF WriteCommits
<1> QED
  BY <1>1, <1>3 DEF WriteCommits, LinkInv, NoDuplicateLinks, Built

LEMMA NewCommitsNew ==
  ASSUME TypeOK, Loading, NEW p \in Projects
  PROVE  NewCommits(p) \in SUBSET (Commits \ commits)
<1>1. build_data.manifest[p] \in SUBSET Commits
  BY DEF TypeOK, ProcTypeOK, Loading, BuildDoc
<1> QED
  BY <1>1, ReachableType DEF NewCommits

\* The commits linked for a project are commits of that project.
LEMMA LinkedCommitsProject ==
  ASSUME TypeOK, IndexInv, LinkInv, NEW p \in Projects, LinkBuild(p)
  PROVE  \A c \in commit_ids' : c \in Commits /\ ProjectOf[c] = p
<1>1. build_data \in BuildDoc /\ build_name \in Built /\ PrevBuildName \in Built
  BY LinkedBuilds DEF LinkBuild
<1>2. /\ builds[PrevBuildName].manifest[p] \in SUBSET Commits
      /\ build_data.manifest[p] \in SUBSET Commits
  BY <1>1 DEF Built, BuildDoc, TypeOK, DBTypeOK
<1>3. commit_ids' \subseteq DiffCommits(builds[PrevBuildName].manifest[p], build_data.manifest[p])
  BY <1>2, LinkedCommitsType DEF LinkBuild
<1>4. commit_ids' \subseteq Reachable(build_data.manifest[p])
  BY <1>3 DEF DiffCommits
<1>5. \A c \in build_data.manifest[p] : ProjectOf[c] = p
  BY DEF LinkInv, LinkBuild, Loading
<1>6. ASSUME NEW c \in commit_ids'
      PROVE  c \in Commits /\ ProjectOf[c] = p
  <2>1. PICK d \in build_data.manifest[p] \ Missing : c \in Ancestors[d]
    BY <1>4 DEF Reachable
  <2> QED
    BY <1>2, <1>5, <2>1, CommitsAssumption
<1> QED
  BY <1>6

LEMMA NextLinkInv ==
  ASSUME TypeOK, TypeOK', IndexInv, LinkInv, [Next]_vars
  PROVE  LinkInv'
<1>1. CASE Start
  BY <1>1, SameLinks DEF Start, db, LinkInv, Loading
<1>2. CASE TakeManifest
  BY <1>2, SameLinks DEF TakeManifest, db, LinkInv, Loading
<1>3. CASE WalkDone
  BY <1>3, SameLinks, DownLinkInv DEF WalkDone, db
<1>4. ASSUME NEW p \in Projects, UpdateProject(p)
      PROVE  LinkInv'
  BY <1>4, SameLinks DEF UpdateProject, LinkInv, Loading
<1>5. CASE WriteBuild
  <2>1. IsBuild(cur) /\ build_name \in BuildNames /\ build_name' = build_name
    BY <1>5, BuildNameType DEF WriteBuild, build_name, TypeOK, ProcTypeOK
  <2>2. builds' = [builds EXCEPT ![build_name] = NewBuild] /\ build_data' = NewBuild
    BY <1>5 DEF WriteBuild
  <2>3. /\ builds'[build_name] = NewBuild
        /\ \A b \in BuildNames \ {build_name} : builds'[b] = builds[b]
    BY <2>1, <2>2 DEF TypeOK, DBTypeOK
  <2>4. NewBuild.commits = NoCommits /\ NewBuild.manifest = manifest.shas
    BY DEF NewBuild
  <2>5. \A p \in Projects : \A c \in NewBuild.manifest[p] : ProjectOf[c] = p
    BY <2>1, <2>4, ManifestsAssumption DEF IsBuild, manifest
  <2>6. NoDuplicateLinks'
    BY <1>5, <2>1, <2>3, <2>4 DEF WriteBuild, LinkInv, NoDuplicateLinks, Built, NoCommits
  <2> QED
    BY <1>5, <2>1, <2>2, <2>3, <2>4, <2>5, <2>6 DEF WriteBuild, LinkInv, Loading
<1>6. CASE WriteIndex
  <2>1. build_name' = build_name
    BY <1>6 DEF WriteIndex, build_name
  <2> QED
    BY <1>6, <2>1, SameLinks DEF WriteIndex, LinkInv, Loading
<1>7. ASSUME NEW p \in Projects, CommitProject(p)
      PROVE  LinkInv'
  <2>1. build_name' = build_name /\ Loading /\ build_data \in BuildDoc
    BY <1>7 DEF CommitProject, build_name, Loading, TypeOK, ProcTypeOK
  <2>2. CASE InvalidShas(p) # {}
    <3>1. /\ build_data'.commits = build_data.commits
          /\ \A q \in Projects : build_data'.manifest[q] \subseteq build_data.manifest[q]
      <4>1. build_data' = [build_data EXCEPT
                             !.manifest = [build_data.manifest EXCEPT ![p] = @ \ Missing],
                             !.invalid_shas = [build_data.invalid_shas EXCEPT ![p] = InvalidShas(p)]]
        BY <1>7, <2>2 DEF CommitProject
      <4> QED
        BY <2>1, <4>1 DEF BuildDoc
    <3> QED
      BY <1>7, <2>1, <2>2, <3>1, SameLinks DEF CommitProject, LinkInv, Loading
  <2>3. CASE InvalidShas(p) = {}
    <3>1. /\ NoDuplicateLinks'
          /\ \A c \in Commits, b \in BuildNames : in_build'[c][b] > 0 => c \in commits'
      BY <1>7, <2>1, <2>3, NewCommitsNew, WriteCommitsLinks DEF CommitProject
    <3> QED
      BY <1>7, <2>1, <2>3, <3>1 DEF CommitProject, LinkInv, Loading
  <2> QED
    BY <2>2, <2>3
<1>8. ASSUME NEW p \in Projects, PartialCommits(p)
      PROVE  LinkInv'
  <2>1. PICK new \in SUBSET NewCommits(p) : WriteCommits(new)
    BY <1>8 DEF PartialCommits
  <2>2. new \in SUBSET (Commits \ commits)
    BY <1>8, <2>1, NewCommitsNew DEF PartialCommits, Loading
  <2> QED
    BY <1>8, <2>1, <2>2, WriteCommitsLinks, DownLinkInv DEF PartialCommits
<1>9. CASE CommitsDone
  <2>1. /\ build_name \in BuildNames /\ build_data.commits = NoCommits
        /\ builds[build_name].commits = NoCommits /\ build_data \in BuildDoc
        /\ build_name \in Built
    BY <1>9 DEF CommitsDone, IndexInv, LinkInv, Loading, Built, TypeOK, ProcTypeOK
  <2>2. /\ builds'[build_name].commits = NoCommits
        /\ \A b \in BuildNames \ {build_name} : builds'[b] = builds[b]
    BY <1>9, <2>1 DEF CommitsDone, TypeOK, DBTypeOK
  <2>3. NoDuplicateLinks'
    BY <1>9, <2>1, <2>2 DEF CommitsDone, LinkInv, NoDuplicateLinks, Built, NoCommits
  <2>4. \A c \in Commits, b \in BuildNames : in_build'[c][b] > 0 => c \in commits'
    BY <1>9 DEF CommitsDone, LinkInv
  <2>5. CASE Down
    BY <2>3, <2>4, <2>5, DownLinkInv
  <2>6. CASE ~Down
    <3>1. build_name' = build_name
      BY <1>9, <2>6 DEF CommitsDone, build_name
    <3> QED
      BY <1>9, <2>2, <2>3, <2>4, <2>6, <3>1 DEF CommitsDone, LinkInv, Loading, NoCommits
  <2> QED
    BY <2>5, <2>6
<1>10. ASSUME NEW p \in Projects, LinkBuild(p)
       PROVE  LinkInv'
  <2>1. /\ build_name \in BuildNames /\ builds[build_name] \in BuildDoc
        /\ build_name' = build_name /\ build_name \in Built
    BY <1>10 DEF LinkBuild, IndexInv, Loading, Built, TypeOK, DBTypeOK, build_name
  <2>2. /\ \A b \in BuildNames \ {build_name} : builds'[b] = builds[b]
        /\ builds'[build_name].commits =
             [c \in Commits |-> IF c \in commit_ids' THEN builds[build_name].commits[c] + 1
                               ELSE builds[build_name].commits[c]]
    BY <1>10, <2>1 DEF LinkBuild, BuildDoc, TypeOK, DBTypeOK
  <2>3. \A c \in commit_ids' : c \in Commits /\ ProjectOf[c] = p
    BY <1>10, LinkedCommitsProject
  <2>4. \A c \in Commits : builds[build_name].commits[c] \in Nat
    BY <2>1 DEF BuildDoc
  <2>5. \A c \in commit_ids' : builds[build_name].commits[c] = 0
    BY <1>10, <2>3, <2>4 DEF LinkBuild, LinkInv
  <2>6. NoDuplicateLinks'
    BY <1>10, <2>1, <2>2, <2>3, <2>4, <2>5 DEF LinkBuild, LinkInv, NoDuplicateLinks, Built
  <2>7. \A c \in Commits : builds'[build_name].commits[c] > 0 => ProjectOf[c] \notin todo'
    BY <1>10, <2>2, <2>3, <2>4 DEF LinkBuild, LinkInv
  <2> QED
    BY <1>10, <2>1, <2>6, <2>7 DEF LinkBuild, LinkInv, Loading, AfterDiff
<1>11. ASSUME NEW c \in Commits, LinkCommit(c)
       PROVE  LinkInv'
  <2>1. build_name \in BuildNames
    BY <1>11, BuildNameType DEF LinkCommit, build_name, TypeOK, ProcTypeOK
  <2>2. \A d \in Commits, b \in BuildNames :
          \/ in_build'[d][b] = in_build[d][b]
          \/ d = c /\ b = build_name /\ in_build'[d][b] = 1 /\ c \in commits
    BY <1>11, <2>1 DEF LinkCommit, TypeOK, DBTypeOK
  <2>3. NoDuplicateLinks'
    BY <1>11, <2>2 DEF LinkCommit, LinkInv, NoDuplicateLinks, Built
  <2>4. \A d \in Commits, b \in BuildNames : in_build'[d][b] > 0 => d \in commits'
    BY <1>11, <2>2 DEF LinkCommit, LinkInv
  <2>5. CASE Down
    BY <2>3, <2>4, <2>5, DownLinkInv
  <2>6. CASE ~Down
    <3>1. build_name' = build_name
      BY <1>11, <2>6 DEF LinkCommit, build_name
    <3> QED
      BY <1>11, <2>3, <2>4, <2>6, <3>1 DEF LinkCommit, LinkInv, Loading, AfterDiff
  <2> QED
    BY <2>5, <2>6
<1>12. CASE FinishManifest
  BY <1>12, SameLinks DEF FinishManifest, proc, LinkInv, Loading
<1>13. CASE Crash
  BY <1>13, SameLinks, DownLinkInv DEF Crash, db
<1>14. CASE UNCHANGED vars
  <2>1. build_name' = build_name
    BY <1>14 DEF vars, proc, build_name
  <2> QED
    BY <1>14, <2>1, SameLinks DEF vars, db, proc, LinkInv, Loading
<1> QED
  BY <1>1, <1>2, <1>3, <1>4, <1>5, <1>6, <1>7, <1>8, <1>9, <1>10, <1>11,
     <1>12, <1>13, <1>14 DEF Next, Step, Stop

-----------------------------------------------------------------------------

IInv == TypeOK /\ IndexInv /\ LinkInv

LEMMA Inductive == Spec => []IInv
<1>1. Init => IInv
  BY InitTypeOK, InitIndexInv, InitLinkInv DEF IInv
<1>2. IInv /\ [Next]_vars => IInv'
  BY NextTypeOK, NextIndexInv, NextLinkInv DEF IInv
<1> QED
  BY <1>1, <1>2, PTL DEF Spec

\* Every variable keeps its type in every run of the loader.
THEOREM TypeCorrect == Spec => []TypeOK
BY Inductive, PTL DEF IInv

\* However often the loader is interrupted, the product-version index and the
\* predecessors name builds that have a document.
THEOREM IndexCorrect == Spec => []IndexNamesBuilds
<1>1. IInv => IndexNamesBuilds
  BY DEF IInv, IndexInv
<1> QED
  BY <1>1, Inductive, PTL

\* However often a manifest is loaded again, a build and a commit are linked
\* once at most, in either document.
THEOREM LinksCorrect == Spec => []NoDuplicateLinks
<1>1. IInv => NoDuplicateLinks
  BY DEF IInv, LinkInv
<1> QED
  BY <1>1, Inductive, PTL

\* No step takes a build out of a commit document.
THEOREM InBuildCorrect == Spec => InBuildKept
<1> DEFINE Kept == \A c \in Commits, b \in BuildNames : in_build[c][b] > 0 => in_build'[c][b] > 0
<1>1. ASSUME IInv, [Next]_vars
      PROVE  Kept
  <2> USE <1>1 DEF IInv
  <2>1. \A c \in Commits, b \in BuildNames : in_build[c][b] \in Nat
    BY DEF TypeOK, DBTypeOK
  <2>2. CASE UNCHANGED in_build
    BY <2>2
  <2>3. ASSUME NEW p \in Projects, NEW new \in SUBSET NewCommits(p),
               WriteCommits(new), pc = "commits", UNCHANGED builds
        PROVE  Kept
    <3>1. new \in SUBSET (Commits \ commits)
      BY <2>3, NewCommitsNew DEF Loading
    <3> QED
      BY <2>1, <2>3, <3>1 DEF WriteCommits, LinkInv
  <2>4. ASSUME NEW p \in Projects, CommitProject(p)
        PROVE  Kept
    BY <2>2, <2>3, <2>4 DEF CommitProject
  <2>5. ASSUME NEW p \in Projects, PartialCommits(p)
        PROVE  Kept
    BY <2>3, <2>5 DEF PartialCommits
  <2>6. ASSUME NEW c \in Commits, LinkCommit(c)
        PROVE  Kept
    <3>1. build_name \in BuildNames
      BY <2>6, BuildNameType DEF LinkCommit, build_name, TypeOK, ProcTypeOK
    <3>2. in_build' # in_build =>
            in_build' = [in_build EXCEPT ![c] = [in_build[c] EXCEPT ![build_name] = 1]]
      BY <2>6 DEF LinkCommit
    <3>3. in_build \in [Commits -> [BuildNames -> Nat]]
      BY DEF TypeOK, DBTypeOK
    <3>4. CASE in_build' = [in_build EXCEPT ![c] = [in_build[c] EXCEPT ![build_name] = 1]]
      BY <2>1, <3>1, <3>3, <3>4
    <3> QED
      BY <2>2, <3>2, <3>4
  <2> QED
    BY <2>2, <2>4, <2>5, <2>6
       DEF Next, Step, Stop, vars, db, Start, TakeManifest, WalkDone, UpdateProject, WriteBuild,
           WriteIndex, CommitsDone, LinkBuild, FinishManifest, Crash
<1>2. []IInv /\ [][Next]_vars => [][Kept]_vars
  BY <1>1, PTL
<1> QED
  BY <1>2, Inductive, PTL DEF Spec, InBuildKept

\* No step replaces a predecessor that an earlier run determined.
THEOREM PrevBuildCorrect == Spec => PrevBuildKept
<1> DEFINE Kept == \A b \in Built : builds[b].prev_build_num # NoBuild =>
                     builds'[b].prev_build_num = builds[b].prev_build_num
<1>1. ASSUME IInv, [Next]_vars
      PROVE  Kept
  <2> USE <1>1 DEF IInv
  <2>1. CASE UNCHANGED builds
    BY <2>1
  <2>2. CASE WriteBuild
    <3>1. build_name \in BuildNames
      BY <2>2, BuildNameType DEF WriteBuild, build_name, TypeOK, ProcTypeOK
    <3>2. /\ builds'[build_name].prev_build_num = PrevBuildNum
          /\ \A b \in BuildNames \ {build_name} : builds'[b] = builds[b]
      BY <2>2, <3>1 DEF WriteBuild, NewBuild, TypeOK, DBTypeOK
    <3> QED
      BY <3>1, <3>2 DEF PrevBuildNum, Built
  <2>3. CASE CommitsDone
    <3>1. /\ build_name \in BuildNames
          /\ builds[build_name].prev_build_num = build_data.prev_build_num
      BY <2>3 DEF CommitsDone, IndexInv, Loading, Built
    <3> QED
      BY <2>3, <3>1 DEF CommitsDone, Built, TypeOK, DBTypeOK
  <2>4. ASSUME NEW p \in Projects, LinkBuild(p)
        PROVE  Kept
    <3>1. build_name \in BuildNames /\ builds[build_name] \in BuildDoc
      BY <2>4 DEF LinkBuild, IndexInv, Loading, Built, TypeOK, DBTypeOK
    <3>2. \A b \in BuildNames \ {build_name} : builds'[b] = builds[b]
      BY <2>4 DEF LinkBuild, TypeOK, DBTypeOK
    <3>3. PICK f : builds'[build_name] = [builds[build_name] EXCEPT !.commits = f]
      BY <2>4, <3>1 DEF LinkBuild, TypeOK, DBTypeOK
    <3>4. builds'[build_name].prev_build_num = builds[build_name].prev_build_num
      BY <3>1, <3>3 DEF BuildDoc
    <3> QED
      BY <3>1, <3>2, <3>4 DEF Built
  <2> QED
    BY <2>1, <2>2, <2>3, <2>4
       DEF Next, Step, Stop, vars, db, Start, TakeManifest, WalkDone, UpdateProject, WriteIndex,
           CommitProject, PartialCommits, LinkCommit, FinishManifest, Crash
<1>2. []IInv /\ [][Next]_vars => [][Kept]_vars
  BY <1>1, PTL
<1> QED
  BY <1>2, Inductive, PTL DEF Spec, PrevBuildKept

-----------------------------------------------------------------------------
(* The history: what the state says of the manifests that are loaded. *)

\* The builds of the manifest repository by their positions in it, those that
\* are loaded, and the next one to be.
Positions == {m \in DOMAIN Manifests : IsBuild(m)}
Done == {m \in Positions : m <= last_manifest}
IsNext(m) ==
  m \in Positions /\ m > last_manifest /\ \A k \in Positions : k > last_manifest => m <= k

OfVersion(m, v) == Manifests[m].index_key = v

\* The walk is at the first build that is not loaded yet, and what it knows of
\* the index is what is in the database.
WalkInv ==
  /\ pc # "down" => last_manifest <= cur /\ prod_ver_index = index_doc
  /\ pc = "walk" => \A k \in Positions : k > last_manifest => k > cur
  /\ pc \notin {"down", "walk"} => IsNext(cur)

\* The index has for a version the last build that is loaded, or the next one
\* once that has a document.
IsIndex(v, num) ==
  \/ num = NoBuild /\ \A j \in Done : ~OfVersion(j, v)
  \/ \E k \in Positions :
       /\ k \in Done \/ IsNext(k)
       /\ OfVersion(k, v) /\ BuildName(k) \in Built /\ num = Manifests[k].build_num
       /\ \A j \in Done : OfVersion(j, v) => j <= k

\* The predecessor of m: a first build has none, or itself.
IsPrev(m, num) ==
  IF History!Earlier(m) = {}
    THEN num = NoBuild \/ num = Manifests[m].build_num
    ELSE num = Manifests[History!Previous(m)].build_num

PrevInv ==
  /\ \A v \in ProdVers : IsIndex(v, index_doc[v])
  /\ \A m \in Positions : BuildName(m) \in Built => IsPrev(m, builds[BuildName(m)].prev_build_num)
  /\ pc \in {"commits", "link", "linkCommits"} => index_doc[manifest.index_key] = manifest.build_num

\* What the document d of the build m has for the project p: the SHAs of the
\* manifest, or the valid ones with the others set apart.
Raw(d, m, p) ==
  d.manifest[p] = Manifests[m].shas[p] /\ d.invalid_shas[p] = {}
Sorted(d, m, p) ==
  /\ d.manifest[p] = Manifests[m].shas[p] \ Missing
  /\ d.invalid_shas[p] = Manifests[m].shas[p] \cap Missing

\* The commits of the projects P that are new in m.
NewTo(m, P) == UNION {History!NewIn(m, p) : p \in P}

HasCommits(d, m, P) ==
  \A c \in Commits : d.commits[c] = IF c \in NewTo(m, P) THEN 1 ELSE 0

DocInv ==
  /\ \A m \in Done :
       /\ BuildName(m) \in Built
       /\ \A p \in Projects : Sorted(builds[BuildName(m)], m, p)
       /\ HasCommits(builds[BuildName(m)], m, Projects)
  /\ pc \in {"index", "commits"} => \A p \in Projects : Raw(builds[build_name], cur, p)
  /\ pc = "index" => \A p \in Projects : Raw(build_data, cur, p)
  /\ pc = "commits" => \A p \in Projects :
       IF p \in todo THEN Raw(build_data, cur, p) ELSE Sorted(build_data, cur, p)
  /\ pc \in {"link", "linkCommits"} =>
       /\ \A p \in Projects : Sorted(build_data, cur, p) /\ Sorted(builds[build_name], cur, p)
       /\ HasCommits(builds[build_name], cur, Projects \ todo)

\* A commit that is in a build is new in it; while commits are linked, those of
\* the projects that are done are in it or about to be.
MemberInv ==
  /\ \A m \in Positions, c \in Commits : in_build[c][BuildName(m)] > 0 => c \in NewTo(m, Projects)
  /\ pc = "link" => \A c \in NewTo(cur, Projects \ todo) : in_build[c][build_name] > 0
  /\ pc = "linkCommits" =>
       \A c \in NewTo(cur, Projects \ todo) \ commit_ids : in_build[c][build_name] > 0
  /\ pc = "linkCommits" => commit_ids \subseteq NewTo(cur, Projects)

\* The new commits of the projects that are done have documents.
CommitInv ==
  /\ HistoryComplete
  /\ pc \in {"commits", "link", "linkCommits"} =>
       \A p \in Projects :
         (pc = "commits" => p \notin todo) /\ Manifests[cur].shas[p] \cap Missing = {} =>
           Reachable(Manifests[cur].shas[p]) \subseteq commits

-----------------------------------------------------------------------------
(* Numbers: the least-number principle, and the positions of the builds. *)

LEMMA LeastOf ==
  ASSUME NEW T \in SUBSET Nat, T # {}
  PROVE  \E x \in T : \A y \in T : x <= y
<1>1. PICK x \in T : \A y \in T : <<y, x>> \notin OpToRel(<, Nat)
  BY WFMin, NatLessThanWellFounded
<1>2. \A y \in T : ~(y < x)
  BY <1>1 DEF OpToRel
<1> QED
  BY <1>2

LEMMA GreatestOf ==
  ASSUME NEW n \in Nat, NEW T \in SUBSET Nat, T # {}, \A k \in T : k <= n
  PROVE  \E x \in T : \A y \in T : y <= x
<1> DEFINE U == {k \in Nat : \A y \in T : y <= k}
<1>1. PICK k \in U : \A j \in U : k <= j
  BY LeastOf
<1>2. k \in T
  <2> SUFFICES ASSUME k \notin T PROVE FALSE
    OBVIOUS
  <2>1. \A y \in T : y < k
    BY <1>1
  <2>2. PICK y \in T : TRUE
    OBVIOUS
  <2>3. k # 0
    BY <2>1, <2>2
  <2>4. k - 1 \in U
    BY <2>1, <2>3
  <2> QED
    BY <1>1, <2>4
<1> QED
  BY <1>1, <1>2

LEMMA PositionsType ==
  /\ Positions \subseteq Nat
  /\ \A m \in Positions :
       /\ m \in Nat /\ 1 <= m /\ m <= Len(Manifests) /\ IsBuild(m) /\ Manifests[m] \in Manifest
       /\ BuildName(m) \in BuildNames
  /\ \A m : IsBuild(m) => m \in Positions
BY ManifestsLen, BuildNameType DEF Positions, IsBuild

LEMMA ManifestType ==
  ASSUME NEW m \in Positions
  PROVE  /\ Manifests[m].index_key \in ProdVers /\ Manifests[m].build_num \in Nat
         /\ \A p \in Projects : Manifests[m].shas[p] \in SUBSET Commits
         /\ BuildName(m) = <<Manifests[m].index_key, Manifests[m].build_num>>
BY PositionsType DEF Manifest, BuildName

LEMMA NamesDiffer ==
  ASSUME NEW m \in Positions, NEW n \in Positions,
         Manifests[m].index_key = Manifests[n].index_key,
         Manifests[m].build_num = Manifests[n].build_num
  PROVE  m = n
BY NamesAssumption DEF Positions, BuildName

LEMMA EarlierIs ==
  ASSUME NEW m \in Positions
  PROVE  History!Earlier(m) =
           {k \in Positions : k < m /\ Manifests[k].index_key = Manifests[m].index_key}
<1>1. \A k : k \in 1..(m - 1) /\ IsBuild(k) <=> k \in Positions /\ k < m
  BY PositionsType DEF Positions
<1>2. \A k : k \in History!Earlier(m) <=>
             k \in 1..(m - 1) /\ IsBuild(k) /\ Manifests[k].index_key = Manifests[m].index_key
  BY DEF History!Earlier, History!IsBuild, IsBuild
<1> QED
  BY <1>1, <1>2

LEMMA PreviousIs ==
  ASSUME NEW m \in Positions, History!Earlier(m) # {}
  PROVE  /\ History!Previous(m) \in History!Earlier(m)
         /\ \A j \in History!Earlier(m) : j <= History!Previous(m)
<1> DEFINE E == History!Earlier(m)
<1>1. m \in Nat /\ E \in SUBSET Nat /\ \A k \in E : k <= m
  <2>1. m \in Nat /\ Positions \subseteq Nat
    BY PositionsType
  <2>2. \A k \in E : k \in Positions /\ k < m
    BY EarlierIs
  <2>3. ASSUME NEW k \in E PROVE k \in Nat /\ k <= m
    <3>1. k \in Nat /\ m \in Nat
      BY <2>1, <2>2
    <3>2. k < m
      BY <2>2
    <3> QED
      BY <3>1, <3>2
  <2> QED
    BY <2>1, <2>3
<1>2. \E k \in E : \A j \in E : j <= k
  BY <1>1, GreatestOf
<1> QED
  BY <1>2 DEF History!Previous

LEMMA OneNext ==
  ASSUME TypeOK, NEW m, NEW n, IsNext(m), IsNext(n)
  PROVE  m = n
<1>1. m \in Nat /\ n \in Nat /\ m <= n /\ n <= m
  BY PositionsType DEF IsNext
<1> QED
  BY <1>1

LEMMA BeforeNext ==
  ASSUME TypeOK, NEW m, IsNext(m), NEW k \in Positions
  PROVE  k < m <=> k \in Done
<1>1. m \in Nat /\ k \in Nat /\ last_manifest \in Nat
  BY PositionsType, ManifestsLen DEF IsNext, TypeOK, DBTypeOK
<1> QED
  BY <1>1 DEF IsNext, Done

-----------------------------------------------------------------------------
(* The commits that are new in a build. *)

LEMMA ReachableProject ==
  ASSUME NEW shas \in SUBSET Commits, NEW p, \A c \in shas : ProjectOf[c] = p
  PROVE  \A c \in Reachable(shas) : c \in Commits /\ ProjectOf[c] = p
BY CommitsAssumption DEF Reachable

LEMMA NewestIn ==
  ASSUME NEW S \in SUBSET Commits, S # {}
  PROVE  Newest(S) \in S
<1>1. \E c \in S : \A d \in S : d <= c
  BY NewestAssumption
<1> QED
  BY <1>1 DEF Newest

LEMMA NewInCases ==
  ASSUME NEW m, NEW p,
         NEW old, old = History!ValidShas(History!Previous(m), p),
         NEW diff, diff = DiffCommits(old, History!ValidShas(m, p))
  PROVE  /\ History!Earlier(m) = {} \/ diff = {} => History!NewIn(m, p) = {}
         /\ History!Earlier(m) # {} => History!NewIn(m, p) = LinkedCommits(old, History!ValidShas(m, p))
BY DEF History!NewIn, LinkedCommits, History!DiffCommits, DiffCommits, History!Reachable, Reachable,
       History!Newest, Newest

LEMMA NewInType ==
  ASSUME NEW m \in Positions, NEW p \in Projects, NEW c \in History!NewIn(m, p)
  PROVE  c \in Commits /\ ProjectOf[c] = p
<1> DEFINE old  == History!ValidShas(History!Previous(m), p)
           new  == History!ValidShas(m, p)
           diff == DiffCommits(old, new)
<1>1. new \in SUBSET Commits /\ \A d \in new : ProjectOf[d] = p
  BY ManifestType, ManifestsAssumption DEF History!ValidShas, Positions
<1>2. \A d \in diff : d \in Commits /\ ProjectOf[d] = p
  BY <1>1, ReachableProject DEF DiffCommits
<1>3. History!Earlier(m) # {} /\ diff # {} /\ c \in LinkedCommits(old, new)
  BY NewInCases
<1>4. diff \in SUBSET Commits
  BY <1>2
<1>5. LinkedCommits(old, new) \subseteq diff
  BY <1>3, <1>4, NewestIn DEF LinkedCommits
<1> QED
  BY <1>2, <1>3, <1>5

LEMMA NewToIs ==
  ASSUME NEW m \in Positions, NEW P \in SUBSET Projects, NEW c
  PROVE  /\ c \in NewTo(m, P) <=> \E p \in P : c \in History!NewIn(m, p)
         /\ c \in NewTo(m, P) => c \in Commits /\ ProjectOf[c] \in P
BY NewInType DEF NewTo

-----------------------------------------------------------------------------
(* The walk: it is at the first build that is not loaded. *)

LEMMA CurType ==
  ASSUME TypeOK
  PROVE  cur \in Nat /\ last_manifest \in Nat
BY ManifestsLen DEF TypeOK, DBTypeOK, ProcTypeOK

LEMMA InitWalkInv == Init => WalkInv
BY DEF Init, WalkInv

LEMMA SameWalk ==
  ASSUME WalkInv, UNCHANGED <<cur, last_manifest, prod_ver_index, index_doc>>,
         pc \notin {"down", "walk"}, pc' \notin {"down", "walk"}
  PROVE  WalkInv'
BY DEF WalkInv, IsNext

LEMMA DownWalkInv ==
  ASSUME Down
  PROVE  WalkInv'
BY DEF Down, WalkInv

LEMMA NextWalkInv ==
  ASSUME TypeOK, WalkInv, [Next]_vars
  PROVE  WalkInv'
<1> USE CurType
<1>1. CASE Start
  BY <1>1 DEF Start, db, WalkInv
<1>2. CASE TakeManifest
  <2>1. \A k \in Positions : k \in Nat /\ (k > last_manifest => k >= cur + 1)
    BY <1>2, PositionsType DEF TakeManifest, WalkInv
  <2>2. cur + 1 \in 1..Len(Manifests) /\ last_manifest <= cur
    BY <1>2, ManifestsLen DEF TakeManifest, WalkInv
  <2>3. CASE Manifests[cur + 1].xml
    <3>1. IsNext(cur + 1)
      BY <2>1, <2>2, <2>3, ManifestsLen DEF IsNext, Positions, IsBuild
    <3> QED
      BY <1>2, <2>2, <2>3, <3>1 DEF TakeManifest, db, WalkInv, IsNext
  <2>4. CASE ~Manifests[cur + 1].xml
    <3>1. \A k \in Positions : k > last_manifest => k > cur + 1
      <4>1. cur + 1 \notin Positions
        BY <2>4 DEF Positions, IsBuild
      <4> QED
        BY <2>1, <4>1
    <3> QED
      BY <1>2, <2>2, <2>4, <3>1 DEF TakeManifest, db, WalkInv
  <2> QED
    BY <2>3, <2>4
<1>3. CASE WalkDone
  BY <1>3, DownWalkInv DEF WalkDone
<1>4. ASSUME NEW p \in Projects, UpdateProject(p) \/ CommitProject(p) \/ LinkBuild(p)
      PROVE  WalkInv'
  BY <1>4, SameWalk DEF UpdateProject, CommitProject, LinkBuild, AfterDiff
<1>5. CASE WriteBuild
  BY <1>5, SameWalk DEF WriteBuild
<1>6. CASE WriteIndex
  BY <1>6 DEF WriteIndex, WalkInv, IsNext
<1>7. ASSUME NEW p \in Projects, PartialCommits(p)
      PROVE  WalkInv'
  BY <1>7, DownWalkInv DEF PartialCommits
<1>8. CASE CommitsDone
  BY <1>8, SameWalk, DownWalkInv DEF CommitsDone
<1>9. ASSUME NEW c \in Commits, LinkCommit(c)
      PROVE  WalkInv'
  BY <1>9, SameWalk, DownWalkInv DEF LinkCommit, AfterDiff
<1>10. CASE FinishManifest
  <2>1. WalkInv => IsNext(cur)
    BY <1>10 DEF FinishManifest, WalkInv
  <2> QED
    BY <1>10, <2>1 DEF FinishManifest, proc, WalkInv
<1>11. CASE Crash
  BY <1>11, DownWalkInv DEF Crash
<1>12. CASE UNCHANGED vars
  BY <1>12 DEF vars, db, proc, WalkInv, IsNext
<1> QED
  BY <1>1, <1>2, <1>3, <1>4, <1>5, <1>6, <1>7, <1>8, <1>9, <1>10, <1>11, <1>12 DEF Next, Step, Stop

-----------------------------------------------------------------------------
(* The predecessors. *)

LEMMA InitPrevInv == Init => PrevInv
<1> SUFFICES ASSUME Init PROVE PrevInv
  OBVIOUS
<1>1. \A m \in Positions : ~(m <= last_manifest)
  BY PositionsType DEF Init
<1> QED
  BY <1>1 DEF Init, PrevInv, IsIndex, NoIndex, Built, Done

\* What a step says of the predecessors, where it neither writes a new document
\* nor the index, nor ends a build.
LEMMA SamePrev ==
  ASSUME PrevInv, UNCHANGED <<last_manifest, index_doc>>,
         Built' = Built, \A b \in Built : builds'[b].prev_build_num = builds[b].prev_build_num
  PROVE  /\ \A v \in ProdVers : IsIndex(v, index_doc[v])'
         /\ \A m \in Positions :
              BuildName(m) \in Built' => IsPrev(m, builds'[BuildName(m)].prev_build_num)
BY DEF PrevInv, IsIndex, Done, IsNext

LEMMA KeptPrev ==
  ASSUME PrevInv, UNCHANGED <<last_manifest, index_doc, cur>>,
         Built' = Built, \A b \in Built : builds'[b].prev_build_num = builds[b].prev_build_num,
         pc' \in {"commits", "link", "linkCommits"} => pc \in {"commits", "link", "linkCommits"}
  PROVE  PrevInv'
BY SamePrev DEF PrevInv, manifest

LEMMA DownPrev ==
  ASSUME PrevInv, UNCHANGED <<last_manifest, index_doc>>, Down,
         Built' = Built, \A b \in Built : builds'[b].prev_build_num = builds[b].prev_build_num
  PROVE  PrevInv'
BY SamePrev DEF PrevInv, Down

\* A step that is not generate_build_document keeps every predecessor.
LEMMA BuiltKept ==
  ASSUME IInv, [Next]_vars, ~WriteBuild
  PROVE  /\ Built' = Built
         /\ \A b \in Built : builds'[b].prev_build_num = builds[b].prev_build_num
<1> USE DEF IInv
<1>1. CASE UNCHANGED builds
  BY <1>1 DEF Built
<1>2. CASE CommitsDone
  <2>1. /\ build_name \in Built /\ build_name \in BuildNames
        /\ builds[build_name].prev_build_num = build_data.prev_build_num
        /\ build_data \in BuildDoc
    BY <1>2 DEF CommitsDone, IndexInv, Loading, Built, TypeOK, ProcTypeOK
  <2> QED
    BY <1>2, <2>1, SentinelsAssumption DEF CommitsDone, Built, TypeOK, DBTypeOK
<1>3. ASSUME NEW p \in Projects, LinkBuild(p)
      PROVE  /\ Built' = Built
             /\ \A b \in Built : builds'[b].prev_build_num = builds[b].prev_build_num
  <2>1. /\ build_name \in BuildNames /\ builds[build_name] \in BuildDoc
        /\ build_name \in Built
    BY <1>3 DEF LinkBuild, IndexInv, Loading, Built, TypeOK, DBTypeOK
  <2>2. \A b \in BuildNames \ {build_name} : builds'[b] = builds[b]
    BY <1>3 DEF LinkBuild, TypeOK, DBTypeOK
  <2>3. PICK f : builds'[build_name] = [builds[build_name] EXCEPT !.commits = f]
    BY <1>3, <2>1 DEF LinkBuild, TypeOK, DBTypeOK
  <2>4. builds'[build_name].prev_build_num = builds[build_name].prev_build_num
    BY <2>1, <2>3 DEF BuildDoc
  <2>5. builds'[build_name] # NoDoc
    <3>1. TypeOK'
      BY NextTypeOK
    <3>2. builds'[build_name] = [manifest |-> builds[build_name].manifest,
                                 invalid_shas |-> builds[build_name].invalid_shas,
                                 prev_build_num |-> builds[build_name].prev_build_num,
                                 commits |-> f]
      BY <2>1, <2>3 DEF BuildDoc
    <3>3. f \in [Commits -> Nat]
      <4>1. builds'[build_name].commits = f
        BY <3>2
      <4>2. builds'[build_name].commits =
              [c \in Commits |-> IF c \in commit_ids' THEN builds[build_name].commits[c] + 1
                                 ELSE builds[build_name].commits[c]]
        BY <1>3, <2>1 DEF LinkBuild, BuildDoc, TypeOK, DBTypeOK
      <4>3. builds[build_name].commits \in [Commits -> Nat]
        BY <2>1 DEF BuildDoc
      <4> QED
        BY <4>1, <4>2, <4>3
    <3>4. builds'[build_name] \in BuildDoc
      BY <2>1, <3>2, <3>3 DEF BuildDoc
    <3> QED
      BY <3>4, SentinelsAssumption
  <2> QED
    BY <2>1, <2>2, <2>4, <2>5 DEF Built
<1> QED
  BY <1>1, <1>2, <1>3
     DEF Next, Step, Stop, vars, db, Start, TakeManifest, WalkDone, UpdateProject, WriteIndex,
         CommitProject, PartialCommits, LinkCommit, FinishManifest, Crash

\* The predecessor that WriteBuild gives its build is the one it has.
LEMMA PrevWritten ==
  ASSUME IInv, WalkInv, PrevInv, WriteBuild
  PROVE  IsPrev(cur, PrevBuildNum)
<1> USE DEF IInv
<1>1. IsNext(cur) /\ cur \in Positions
  BY DEF WriteBuild, WalkInv, IsNext
<1>2. /\ manifest = Manifests[cur] /\ build_name = BuildName(cur)
      /\ manifest.index_key \in ProdVers /\ prod_ver_index = index_doc
  BY <1>1, ManifestType DEF WriteBuild, WalkInv, manifest, build_name
<1> DEFINE num == index_doc[manifest.index_key]
           E   == History!Earlier(cur)
<1>3. IsIndex(manifest.index_key, num)
  BY <1>2 DEF PrevInv
<1>4. \A j : j \in E <=> j \in Done /\ OfVersion(j, manifest.index_key)
  BY <1>1, <1>2, EarlierIs, BeforeNext DEF OfVersion, Done
<1>5. ASSUME build_name \notin Built \/ E = {}
      PROVE  IsPrev(cur, num)
  <2>1. CASE num = NoBuild /\ \A j \in Done : ~OfVersion(j, manifest.index_key)
    BY <1>4, <2>1 DEF IsPrev
  <2>2. CASE \E k \in Positions :
               /\ k \in Done \/ IsNext(k)
               /\ OfVersion(k, manifest.index_key) /\ BuildName(k) \in Built
               /\ num = Manifests[k].build_num
               /\ \A j \in Done : OfVersion(j, manifest.index_key) => j <= k
    <3>1. PICK k \in Positions :
            /\ k \in Done \/ IsNext(k)
            /\ OfVersion(k, manifest.index_key) /\ BuildName(k) \in Built
            /\ num = Manifests[k].build_num
            /\ \A j \in Done : OfVersion(j, manifest.index_key) => j <= k
      BY <2>2
    <3>2. CASE k \in Done
      <4>1. k \in E /\ \A j \in E : j <= k
        BY <1>4, <3>1, <3>2
      <4>2. History!Previous(cur) \in E /\ k <= History!Previous(cur)
        BY <1>1, <4>1, PreviousIs
      <4>3. History!Previous(cur) \in Nat /\ k \in Nat /\ History!Previous(cur) <= k
        BY <1>4, <4>1, <4>2, PositionsType DEF Done
      <4>4. History!Previous(cur) = k
        BY <4>2, <4>3
      <4> QED
        BY <3>1, <4>1, <4>4 DEF IsPrev
    <3>3. CASE IsNext(k)
      <4>1. k = cur
        BY <1>1, <3>3, OneNext
      <4> QED
        BY <1>2, <1>5, <3>1, <4>1 DEF IsPrev
    <3> QED
      BY <3>1, <3>2, <3>3
  <2> QED
    BY <1>3, <2>1, <2>2 DEF IsIndex
<1>6. CASE build_name \notin Built
  <2>1. builds[build_name] = NoDoc
    BY <1>1, <1>2, <1>6, PositionsType DEF Built
  <2> QED
    BY <1>2, <1>5, <1>6, <2>1 DEF PrevBuildNum
<1>7. CASE build_name \in Built
  <2>1. IsPrev(cur, builds[build_name].prev_build_num) /\ builds[build_name] # NoDoc
    BY <1>1, <1>2, <1>7 DEF PrevInv, Built
  <2>2. CASE builds[build_name].prev_build_num = NoBuild
    <3>1. E = {}
      <4> SUFFICES ASSUME E # {} PROVE FALSE
        OBVIOUS
      <4>1. History!Previous(cur) \in Positions
        BY <1>1, <1>4, PreviousIs DEF Done
      <4> QED
        BY <2>1, <2>2, <4>1, ManifestType, SentinelsAssumption DEF IsPrev
    <3> QED
      BY <1>2, <1>5, <2>2, <3>1 DEF PrevBuildNum
  <2>3. CASE builds[build_name].prev_build_num # NoBuild
    BY <2>1, <2>3 DEF PrevBuildNum
  <2> QED
    BY <2>2, <2>3
<1> QED
  BY <1>6, <1>7

LEMMA NextPrevInv ==
  ASSUME IInv, WalkInv, PrevInv, [Next]_vars
  PROVE  PrevInv'
<1> USE DEF IInv
<1>1. CASE WriteBuild
  <2>1. IsNext(cur) /\ cur \in Positions /\ build_name = BuildName(cur) /\ build_name \in BuildNames
    BY <1>1, PositionsType DEF WriteBuild, WalkInv, IsNext, build_name
  <2>2. IsPrev(cur, PrevBuildNum)
    BY <1>1, PrevWritten
  <2>3. /\ builds'[build_name].prev_build_num = PrevBuildNum
        /\ \A b \in BuildNames \ {build_name} : builds'[b] = builds[b]
    BY <1>1, <2>1 DEF WriteBuild, NewBuild, TypeOK, DBTypeOK
  <2>4. \A b \in Built' : b = build_name \/ b \in Built
    BY <2>3 DEF Built
  <2>5. \A m \in Positions : BuildName(m) \in Built' => IsPrev(m, builds'[BuildName(m)].prev_build_num)
    <3> SUFFICES ASSUME NEW m \in Positions, BuildName(m) \in Built'
                 PROVE  IsPrev(m, builds'[BuildName(m)].prev_build_num)
      OBVIOUS
    <3>1. CASE m = cur
      BY <2>1, <2>2, <2>3, <3>1
    <3>2. CASE m # cur
      <4>1. BuildName(m) # build_name
        BY <2>1, <3>2, NamesAssumption DEF Positions
      <4>2. BuildName(m) \in Built /\ builds'[BuildName(m)] = builds[BuildName(m)]
        BY <2>3, <2>4, <4>1, PositionsType
      <4> QED
        BY <4>2 DEF PrevInv
    <3> QED
      BY <3>1, <3>2
  <2>6. Built \subseteq Built'
    <3>1. TypeOK'
      BY NextTypeOK
    <3>2. builds'[build_name] \in BuildDoc
      BY <1>1, <2>1, <3>1 DEF WriteBuild, TypeOK, DBTypeOK, ProcTypeOK
    <3> QED
      BY <2>3, <3>2, SentinelsAssumption DEF Built
  <2>7. \A v \in ProdVers : IsIndex(v, index_doc[v])'
    BY <1>1, <2>6 DEF WriteBuild, PrevInv, IsIndex, Done, IsNext
  <2> QED
    BY <1>1, <2>5, <2>7 DEF WriteBuild, PrevInv
<1>2. CASE WriteIndex
  <2>1. /\ IsNext(cur) /\ cur \in Positions /\ build_name = BuildName(cur) /\ build_name \in Built
        /\ manifest = Manifests[cur] /\ manifest.index_key \in ProdVers /\ prod_ver_index = index_doc
    BY <1>2, ManifestType DEF WriteIndex, WalkInv, IsNext, build_name, manifest, IndexInv, Loading
  <2>2. Built' = Built /\ \A b \in Built : builds'[b].prev_build_num = builds[b].prev_build_num
    BY <1>2 DEF WriteIndex, Built
  <2>3. index_doc' = [index_doc EXCEPT ![manifest.index_key] = manifest.build_num]
    BY <1>2, <2>1 DEF WriteIndex
  <2>4. ASSUME NEW v \in ProdVers
        PROVE  IsIndex(v, index_doc[v])'
    <3>1. CASE v = manifest.index_key
      <4>1. index_doc'[v] = Manifests[cur].build_num
        BY <2>1, <2>3, <3>1 DEF TypeOK, DBTypeOK
      <4>2. \A j \in Done : j <= cur
        BY <2>1, CurType, PositionsType DEF Done, IsNext
      <4>3. OfVersion(cur, v)
        BY <2>1, <3>1 DEF OfVersion
      <4>4. Done' = Done /\ \A k : IsNext(k)' <=> IsNext(k)
        BY <1>2 DEF WriteIndex, Done, IsNext
      <4> QED
        BY <2>1, <2>2, <4>1, <4>2, <4>3, <4>4 DEF IsIndex
    <3>2. CASE v # manifest.index_key
      <4>1. index_doc'[v] = index_doc[v]
        BY <2>3, <3>2 DEF TypeOK, DBTypeOK
      <4>2. IsIndex(v, index_doc[v])
        BY DEF PrevInv
      <4>3. Done' = Done /\ \A k : IsNext(k)' <=> IsNext(k)
        BY <1>2 DEF WriteIndex, Done, IsNext
      <4> QED
        BY <2>2, <4>1, <4>2, <4>3 DEF IsIndex
    <3> QED
      BY <3>1, <3>2
  <2>5. index_doc'[manifest.index_key] = manifest.build_num /\ manifest' = manifest
    BY <1>2, <2>1, <2>3 DEF WriteIndex, manifest, TypeOK, DBTypeOK
  <2> QED
    BY <2>2, <2>4, <2>5 DEF PrevInv
<1>3. CASE FinishManifest
  <2>1. /\ IsNext(cur) /\ cur \in Positions /\ build_name = BuildName(cur) /\ build_name \in Built
        /\ index_doc[Manifests[cur].index_key] = Manifests[cur].build_num
    BY <1>3 DEF FinishManifest, WalkInv, IsNext, build_name, manifest, IndexInv, Loading, PrevInv
  <2>2. Done' = Done \cup {cur}
    <3>1. last_manifest' = cur
      BY <1>3 DEF FinishManifest
    <3>2. \A k \in Positions : k <= cur <=> k \in Done \/ k = cur
      BY <2>1, CurType, BeforeNext, PositionsType
    <3> QED
      BY <2>1, <3>1, <3>2 DEF Done
  <2>3. Built' = Built /\ builds' = builds
    BY <1>3 DEF FinishManifest, Built
  <2>4. ASSUME NEW v \in ProdVers
        PROVE  IsIndex(v, index_doc[v])'
    <3>1. CASE OfVersion(cur, v)
      <4>1. \A j \in Done' : j <= cur
        BY <2>1, <2>2, CurType, PositionsType DEF Done, IsNext
      <4>2. index_doc'[v] = Manifests[cur].build_num
        BY <1>3, <2>1, <3>1 DEF FinishManifest, OfVersion
      <4> QED
        BY <2>1, <2>2, <2>3, <3>1, <4>1, <4>2 DEF IsIndex
    <3>2. CASE ~OfVersion(cur, v)
      <4>1. \A k : IsNext(k) => k = cur
        BY <2>1, OneNext
      <4>2. index_doc'[v] = index_doc[v]
        BY <1>3 DEF FinishManifest
      <4>3. IsIndex(v, index_doc[v])
        BY DEF PrevInv
      <4> QED
        BY <2>2, <2>3, <3>2, <4>1, <4>2, <4>3 DEF IsIndex
    <3> QED
      BY <3>1, <3>2
  <2> QED
    BY <1>3, <2>3, <2>4 DEF FinishManifest, PrevInv
<1>4. CASE ~WriteBuild /\ ~WriteIndex /\ ~FinishManifest
  <2>1. /\ Built' = Built
        /\ \A b \in Built : builds'[b].prev_build_num = builds[b].prev_build_num
    BY <1>4, BuiltKept
  <2>2. UNCHANGED <<last_manifest, index_doc>>
    BY <1>4 DEF Next, Step, Stop, vars, db, Start, TakeManifest, WalkDone, UpdateProject, CommitProject,
                LinkBuild, CommitsDone, PartialCommits, LinkCommit, Crash
  <2>3. \/ Down
        \/ pc' \notin {"commits", "link", "linkCommits"}
        \/ cur' = cur /\ pc \in {"commits", "link", "linkCommits"}
    BY <1>4 DEF Next, Step, Stop, vars, proc, Start, TakeManifest, WalkDone, UpdateProject, CommitProject,
                LinkBuild, CommitsDone, PartialCommits, LinkCommit, Crash
  <2> QED
    BY <2>1, <2>2, <2>3, SamePrev, KeptPrev, DownPrev DEF PrevInv
<1> QED
  BY <1>1, <1>2, <1>3, <1>4

-----------------------------------------------------------------------------
(* The commits that led to a build have documents. *)

Known(m, p) ==
  Manifests[m].shas[p] \cap Missing = {} => Reachable(Manifests[m].shas[p]) \subseteq commits

LEMMA HistoryIs ==
  ASSUME TypeOK
  PROVE  HistoryComplete <=> \A m \in Done, p \in Projects : Known(m, p)
<1>1. \A m : m \in 1..last_manifest /\ IsBuild(m) <=> m \in Done
  BY CurType, PositionsType DEF Done, Positions
<1> QED
  BY <1>1 DEF HistoryComplete, Known

LEMMA InitCommitInv == Init => CommitInv
BY DEF Init, CommitInv, HistoryComplete

LEMMA CommitsGrow ==
  ASSUME [Next]_vars
  PROVE  commits \subseteq commits'
<1>1. CASE UNCHANGED commits
  BY <1>1
<1>2. CASE \E new : WriteCommits(new)
  BY <1>2 DEF WriteCommits
<1> QED
  BY <1>1, <1>2
     DEF Next, Step, Stop, vars, db, Start, TakeManifest, WalkDone, UpdateProject, WriteBuild, WriteIndex,
         CommitProject, PartialCommits, CommitsDone, LinkBuild, LinkCommit, FinishManifest, Crash

\* The builds that are loaded stay known.
LEMMA DoneKnown ==
  ASSUME TypeOK, TypeOK', CommitInv, [Next]_vars, UNCHANGED last_manifest
  PROVE  HistoryComplete'
<1>1. \A m \in Done, p \in Projects : Known(m, p)
  BY HistoryIs DEF CommitInv
<1>2. \A m \in Done', p \in Projects : Known(m, p)'
  BY <1>1, CommitsGrow DEF Known, Done
<1>3. (HistoryComplete <=> \A m \in Done, p \in Projects : Known(m, p))'
  BY HistoryIs, PTL
<1> QED
  BY <1>2, <1>3

LEMMA NextCommitInv ==
  ASSUME TypeOK, TypeOK', WalkInv, DocInv, CommitInv, [Next]_vars
  PROVE  CommitInv'
<1>1. CASE WriteIndex
  <2>1. \A p \in Projects : build_data.manifest[p] = Manifests[cur].shas[p]
    BY <1>1 DEF WriteIndex, DocInv, Raw
  <2>2. \A p \in Projects \ todo' : Reachable(Manifests[cur].shas[p]) = {}
    BY <1>1, <2>1 DEF WriteIndex, ProjectsOf, Reachable
  <2> QED
    BY <1>1, <2>2, DoneKnown DEF WriteIndex, CommitInv
<1>2. ASSUME NEW p \in Projects, CommitProject(p)
      PROVE  CommitInv'
  <2>1. build_data.manifest[p] = Manifests[cur].shas[p]
    BY <1>2 DEF CommitProject, DocInv, Raw
  <2>2. Manifests[cur].shas[p] \cap Missing = {} => Reachable(Manifests[cur].shas[p]) \subseteq commits'
    BY <1>2, <2>1 DEF CommitProject, InvalidShas, WriteCommits, NewCommits
  <2> QED
    BY <1>2, <2>2, CommitsGrow, DoneKnown DEF CommitProject, CommitInv
<1>3. CASE CommitsDone
  BY <1>3, DoneKnown DEF CommitsDone, Down, CommitInv
<1>4. CASE FinishManifest
  <2>1. IsNext(cur) /\ cur \in Positions /\ last_manifest' = cur
    BY <1>4 DEF FinishManifest, WalkInv, IsNext
  <2>2. \A m \in Done' : m \in Done \/ m = cur
    BY <2>1, CurType, BeforeNext, PositionsType DEF Done
  <2>3. \A m \in Done, p \in Projects : Known(m, p)
    BY HistoryIs DEF CommitInv
  <2>4. \A p \in Projects : Known(cur, p)
    BY <1>4 DEF FinishManifest, CommitInv, Known
  <2>5. \A m \in Done', p \in Projects : Known(m, p)'
    BY <1>4, <2>2, <2>3, <2>4 DEF FinishManifest, Known
  <2>6. (HistoryComplete <=> \A m \in Done, p \in Projects : Known(m, p))'
    BY HistoryIs, PTL
  <2> QED
    BY <1>4, <2>5, <2>6 DEF FinishManifest, CommitInv
<1>5. CASE ~WriteIndex /\ ~CommitsDone /\ ~FinishManifest /\ ~\E p \in Projects : CommitProject(p)
  <2>1. UNCHANGED last_manifest
    BY <1>5 DEF Next, Step, Stop, vars, db, Start, TakeManifest, WalkDone, UpdateProject, WriteBuild,
                LinkBuild, PartialCommits, LinkCommit, Crash
  <2>2. \/ pc' \notin {"commits", "link", "linkCommits"}
        \/ cur' = cur /\ pc' = "commits" /\ pc = "commits" /\ todo' = todo
        \/ cur' = cur /\ pc' \in {"link", "linkCommits"} /\ pc \in {"link", "linkCommits"}
    BY <1>5 DEF Next, Step, Stop, vars, proc, Start, TakeManifest, WalkDone, UpdateProject, WriteBuild,
                LinkBuild, PartialCommits, LinkCommit, Crash, Down, AfterDiff
  <2> QED
    BY <2>1, <2>2, CommitsGrow, DoneKnown DEF CommitInv
<1> QED
  BY <1>1, <1>2, <1>3, <1>4, <1>5

-----------------------------------------------------------------------------
(* What the documents hold. *)

LEMMA InitDocInv == Init => DocInv
<1> SUFFICES ASSUME Init PROVE DocInv
  OBVIOUS
<1>1. \A m \in Positions : ~(m <= last_manifest)
  BY PositionsType DEF Init
<1> QED
  BY <1>1 DEF Init, DocInv, Done

\* The build document of a loaded build is whole.
Whole(m) ==
  /\ BuildName(m) \in Built
  /\ \A p \in Projects : Sorted(builds[BuildName(m)], m, p)
  /\ HasCommits(builds[BuildName(m)], m, Projects)

\* No step but the last one of a manifest is about a loaded build.
LEMMA DoneBuilds ==
  ASSUME IInv, WalkInv, [Next]_vars, UNCHANGED last_manifest
  PROVE  \A m \in Done : builds'[BuildName(m)] = builds[BuildName(m)]
<1> SUFFICES ASSUME NEW m \in Done PROVE builds'[BuildName(m)] = builds[BuildName(m)]
  OBVIOUS
<1> USE DEF IInv
<1>1. m \in Positions /\ BuildName(m) \in BuildNames
  BY PositionsType DEF Done
<1>2. CASE UNCHANGED builds
  BY <1>2
<1>3. ASSUME IsNext(cur)
      PROVE  BuildName(m) # build_name
  <2>1. m # cur
    BY <1>3, CurType DEF IsNext, Done
  <2> QED
    BY <1>1, <1>3, <2>1, NamesAssumption DEF IsNext, Positions, build_name
<1>4. CASE WriteBuild
  BY <1>1, <1>3, <1>4 DEF WriteBuild, WalkInv, TypeOK, DBTypeOK
<1>5. CASE CommitsDone
  BY <1>1, <1>3, <1>5 DEF CommitsDone, WalkInv, TypeOK, DBTypeOK
<1>6. ASSUME NEW p \in Projects, LinkBuild(p)
      PROVE  builds'[BuildName(m)] = builds[BuildName(m)]
  BY <1>1, <1>3, <1>6 DEF LinkBuild, WalkInv, TypeOK, DBTypeOK
<1> QED
  BY <1>2, <1>4, <1>5, <1>6
     DEF Next, Step, Stop, vars, db, Start, TakeManifest, WalkDone, UpdateProject, WriteIndex,
         CommitProject, PartialCommits, LinkCommit, FinishManifest, Crash

LEMMA DoneWhole ==
  ASSUME IInv, WalkInv, DocInv, [Next]_vars, UNCHANGED last_manifest
  PROVE  \A m \in Done' : Whole(m)'
<1> SUFFICES ASSUME NEW m \in Done PROVE Whole(m)'
  BY DEF Done
<1>1. Whole(m)
  BY DEF DocInv, Whole
<1>2. builds'[BuildName(m)] = builds[BuildName(m)]
  BY DoneBuilds
<1> QED
  BY <1>1, <1>2 DEF Whole, Built, Sorted, HasCommits

\* With no valid SHA for a project, or no predecessor, there is nothing new.
LEMMA NothingNew ==
  ASSUME NEW m \in Positions, NEW p \in Projects,
         History!Earlier(m) = {} \/ Manifests[m].shas[p] \ Missing = {}
  PROVE  History!NewIn(m, p) = {}
<1>1. History!ValidShas(m, p) = Manifests[m].shas[p] \ Missing
  BY DEF History!ValidShas
<1>2. Manifests[m].shas[p] \ Missing = {} =>
        DiffCommits(History!ValidShas(History!Previous(m), p), History!ValidShas(m, p)) = {}
  BY <1>1 DEF DiffCommits, Reachable
<1> QED
  BY <1>2, NewInCases

\* When its commits come to be linked, the predecessor of the build is known, so
\* that with none nothing is new.
LEMMA FirstOrPrevious ==
  ASSUME IInv, WalkInv, PrevInv, pc \in {"commits", "link", "linkCommits"}
  PROVE  /\ cur \in Positions /\ IsNext(cur) /\ build_name = BuildName(cur)
         /\ build_name \in Built /\ build_data \in BuildDoc
         /\ first_prod_ver_build => History!Earlier(cur) = {}
         /\ ~first_prod_ver_build /\ History!Earlier(cur) = {} => PrevBuildName = build_name
         /\ ~first_prod_ver_build /\ History!Earlier(cur) # {} =>
              /\ History!Previous(cur) \in Done
              /\ PrevBuildName = BuildName(History!Previous(cur))
<1> USE DEF IInv
<1>1. /\ cur \in Positions /\ IsNext(cur) /\ build_name = BuildName(cur)
      /\ build_name \in Built /\ build_data \in BuildDoc
      /\ manifest = Manifests[cur]
  BY DEF WalkInv, IsNext, build_name, manifest, IndexInv, Loading, TypeOK, ProcTypeOK
<1>2. IsPrev(cur, build_data.prev_build_num)
  BY <1>1 DEF PrevInv, IndexInv, Loading
<1>3. first_prod_ver_build <=> build_data.prev_build_num = NoBuild
  BY DEF IndexInv, Loading
<1>4. PrevBuildName = <<Manifests[cur].index_key, build_data.prev_build_num>>
  BY <1>1 DEF PrevBuildName
<1>5. CASE History!Earlier(cur) = {}
  BY <1>1, <1>2, <1>3, <1>4, <1>5 DEF IsPrev, BuildName
<1>6. CASE History!Earlier(cur) # {}
  <2>1. History!Previous(cur) \in History!Earlier(cur)
    BY <1>1, <1>6, PreviousIs
  <2>2. /\ History!Previous(cur) \in Positions /\ History!Previous(cur) < cur
        /\ Manifests[History!Previous(cur)].index_key = Manifests[cur].index_key
    BY <1>1, <2>1, EarlierIs
  <2>3. History!Previous(cur) \in Done
    BY <1>1, <2>2, BeforeNext
  <2>4. build_data.prev_build_num = Manifests[History!Previous(cur)].build_num
    BY <1>2, <1>6 DEF IsPrev
  <2>5. build_data.prev_build_num # NoBuild
    BY <2>2, <2>4, ManifestType, SentinelsAssumption
  <2> QED
    BY <1>1, <1>3, <1>4, <1>6, <2>2, <2>3, <2>4, <2>5 DEF BuildName
<1> QED
  BY <1>1, <1>5, <1>6

\* What is linked for a project is what is new in the build, whether or not an
\* earlier run got that far.
LEMMA LinksNew ==
  ASSUME IInv, WalkInv, PrevInv, DocInv, NEW p \in Projects, LinkBuild(p)
  PROVE  commit_ids' = History!NewIn(cur, p)
<1>1. pc = "link" /\ p \in todo /\ ~first_prod_ver_build
  BY DEF LinkBuild, IInv, IndexInv
<1>2. commit_ids' = LinkedCommits(builds[PrevBuildName].manifest[p], build_data.manifest[p])
  BY DEF LinkBuild
<1>3. build_data.manifest[p] = History!ValidShas(cur, p)
  BY <1>1 DEF DocInv, Sorted, History!ValidShas
<1>4. CASE History!Earlier(cur) = {}
  <2>1. builds[PrevBuildName].manifest[p] = build_data.manifest[p]
    BY <1>1, <1>4, FirstOrPrevious DEF DocInv, Sorted
  <2>2. commit_ids' = {}
    BY <1>2, <2>1 DEF LinkedCommits, DiffCommits
  <2> QED
    BY <1>4, <2>2, NewInCases
<1>5. CASE History!Earlier(cur) # {}
  <2>1. builds[PrevBuildName].manifest[p] = History!ValidShas(History!Previous(cur), p)
    BY <1>1, <1>5, FirstOrPrevious DEF DocInv, Sorted, History!ValidShas
  <2> QED
    BY <1>2, <1>3, <1>5, <2>1, NewInCases
<1> QED
  BY <1>4, <1>5

LEMMA NextDocInv ==
  ASSUME IInv, IInv', WalkInv, PrevInv, DocInv, [Next]_vars
  PROVE  DocInv'
<1> USE DEF IInv
<1>1. CASE WriteBuild
  <2>1. /\ IsNext(cur) /\ cur \in Positions /\ build_name \in BuildNames /\ manifest = Manifests[cur]
        /\ build_name' = build_name
    BY <1>1, PositionsType DEF WriteBuild, WalkInv, IsNext, build_name, manifest
  <2>2. build_data' = NewBuild /\ builds'[build_name] = NewBuild
    BY <1>1, <2>1 DEF WriteBuild, TypeOK, DBTypeOK
  <2>3. \A p \in Projects : Raw(NewBuild, cur, p)
    BY <2>1 DEF Raw, NewBuild, NoInvalid
  <2>4. \A m \in Done' : Whole(m)'
    BY <1>1, DoneWhole DEF WriteBuild
  <2> QED
    BY <1>1, <2>1, <2>2, <2>3, <2>4 DEF WriteBuild, DocInv, Whole, Raw
<1>2. CASE WriteIndex
  <2>1. \A m \in Done' : Whole(m)'
    BY <1>2, DoneWhole DEF WriteIndex
  <2>2. build_name' = build_name
    BY <1>2 DEF WriteIndex, build_name
  <2>3. \A p \in Projects : /\ Raw(build_data, cur, p) /\ Raw(builds[build_name], cur, p)
                            /\ p \notin todo' => Sorted(build_data, cur, p)
    BY <1>2 DEF WriteIndex, DocInv, Raw, Sorted, ProjectsOf
  <2> QED
    BY <1>2, <2>1, <2>2, <2>3 DEF WriteIndex, DocInv, Whole, Raw, Sorted
<1>3. ASSUME NEW p \in Projects, CommitProject(p)
      PROVE  DocInv'
  <2>1. \A m \in Done' : Whole(m)'
    BY <1>3, DoneWhole DEF CommitProject
  <2>2. build_name' = build_name /\ \A q \in Projects : Raw(builds[build_name], cur, q)
    BY <1>3 DEF CommitProject, DocInv, build_name
  <2>3. build_data \in BuildDoc /\ Raw(build_data, cur, p)
    BY <1>3 DEF CommitProject, DocInv, TypeOK, ProcTypeOK
  <2>4. Sorted(build_data', cur, p)
    <3>1. CASE InvalidShas(p) # {}
      <4>1. build_data' = [build_data EXCEPT
                             !.manifest = [build_data.manifest EXCEPT ![p] = @ \ Missing],
                             !.invalid_shas = [build_data.invalid_shas EXCEPT ![p] = InvalidShas(p)]]
        BY <1>3, <3>1 DEF CommitProject
      <4> QED
        BY <2>3, <4>1 DEF BuildDoc, Raw, Sorted, InvalidShas
    <3>2. CASE InvalidShas(p) = {}
      BY <1>3, <2>3, <3>2 DEF CommitProject, Raw, Sorted, InvalidShas
    <3> QED
      BY <3>1, <3>2
  <2>5. \A q \in Projects \ {p} : /\ build_data'.manifest[q] = build_data.manifest[q]
                                  /\ build_data'.invalid_shas[q] = build_data.invalid_shas[q]
    <3>1. CASE InvalidShas(p) # {}
      <4>1. build_data' = [build_data EXCEPT
                             !.manifest = [build_data.manifest EXCEPT ![p] = @ \ Missing],
                             !.invalid_shas = [build_data.invalid_shas EXCEPT ![p] = InvalidShas(p)]]
        BY <1>3, <3>1 DEF CommitProject
      <4> QED
        BY <2>3, <4>1 DEF BuildDoc
    <3>2. CASE InvalidShas(p) = {}
      BY <1>3, <3>2 DEF CommitProject
    <3> QED
      BY <3>1, <3>2
  <2>6. \A q \in Projects : IF q \in todo' THEN Raw(build_data', cur, q) ELSE Sorted(build_data', cur, q)
    BY <1>3, <2>4, <2>5 DEF CommitProject, DocInv, Raw, Sorted
  <2> QED
    BY <1>3, <2>1, <2>2, <2>6 DEF CommitProject, DocInv, Whole, Raw, Sorted
<1>4. CASE CommitsDone
  <2>1. \A m \in Done' : Whole(m)'
    BY <1>4, DoneWhole DEF CommitsDone
  <2>2. CASE Down
    BY <2>1, <2>2 DEF Down, DocInv, Whole
  <2>3. CASE ~Down
    <3>1. /\ cur \in Positions /\ build_name = BuildName(cur) /\ build_name' = build_name
          /\ build_data' = build_data /\ cur' = cur /\ pc' = "link" /\ build_data \in BuildDoc
          /\ build_name \in BuildNames
      BY <1>4, <2>3, FirstOrPrevious, PositionsType DEF CommitsDone, build_name
    <3>2. \A p \in Projects : Sorted(build_data, cur, p) /\ Raw(builds[build_name], cur, p)
      BY <1>4 DEF CommitsDone, DocInv
    <3>3. \A p \in Projects : Sorted(builds'[build_name], cur, p)
      <4>1. CASE build_data.invalid_shas = NoInvalid
        BY <1>4, <3>2, <4>1 DEF CommitsDone, Raw, Sorted, NoInvalid
      <4>2. CASE build_data.invalid_shas # NoInvalid
        BY <1>4, <3>1, <3>2, <4>2 DEF CommitsDone, TypeOK, DBTypeOK
      <4> QED
        BY <4>1, <4>2
    <3>4. builds'[build_name].commits = NoCommits
      BY <1>4, <3>1 DEF CommitsDone, LinkInv, TypeOK, DBTypeOK
    <3>5. \A c : c \notin NewTo(cur, Projects \ todo')
      <4>1. \A p \in Projects \ todo' :
              History!Earlier(cur) = {} \/ Manifests[cur].shas[p] \ Missing = {}
        BY <1>4, <2>3, <3>1, <3>2, FirstOrPrevious DEF CommitsDone, ProjectsOf, Sorted
      <4>2. \A p \in Projects \ todo' : History!NewIn(cur, p) = {}
        BY <3>1, <4>1, NothingNew
      <4> QED
        BY <4>2 DEF NewTo
    <3>6. HasCommits(builds'[build_name], cur, Projects \ todo')
      BY <3>4, <3>5 DEF HasCommits, NoCommits
    <3> QED
      BY <2>1, <3>1, <3>2, <3>3, <3>6 DEF DocInv, Whole, Sorted, HasCommits
  <2> QED
    BY <2>2, <2>3
<1>5. ASSUME NEW p \in Projects, LinkBuild(p)
      PROVE  DocInv'
  <2>1. \A m \in Done' : Whole(m)'
    BY <1>5, DoneWhole DEF LinkBuild
  <2>2. /\ cur \in Positions /\ build_name \in BuildNames /\ builds[build_name] \in BuildDoc
        /\ build_name' = build_name
    BY <1>5, FirstOrPrevious DEF LinkBuild, Built, TypeOK, DBTypeOK, build_name
  <2>3. commit_ids' = History!NewIn(cur, p)
    BY <1>5, LinksNew
  <2>4. PICK f : /\ f = [c \in Commits |-> IF c \in commit_ids' THEN builds[build_name].commits[c] + 1
                                           ELSE builds[build_name].commits[c]]
                 /\ builds' = [builds EXCEPT ![build_name] = [builds[build_name] EXCEPT !.commits = f]]
    BY <1>5, <2>2 DEF LinkBuild, BuildDoc, TypeOK, DBTypeOK
  <2>5. builds'[build_name] = [builds[build_name] EXCEPT !.commits = f]
    BY <2>2, <2>4 DEF TypeOK, DBTypeOK
  <2>6. /\ builds'[build_name].manifest = builds[build_name].manifest
        /\ builds'[build_name].invalid_shas = builds[build_name].invalid_shas
        /\ builds'[build_name].commits = f
    BY <2>2, <2>5 DEF BuildDoc
  <2>7. HasCommits(builds'[build_name], cur, Projects \ todo')
    <3> SUFFICES ASSUME NEW c \in Commits
                 PROVE  f[c] = IF c \in NewTo(cur, Projects \ todo') THEN 1 ELSE 0
      BY <2>6 DEF HasCommits
    <3>1. builds[build_name].commits[c] = IF c \in NewTo(cur, Projects \ todo) THEN 1 ELSE 0
      BY <1>5 DEF LinkBuild, DocInv, HasCommits
    <3>2. /\ c \in NewTo(cur, Projects \ todo') <=>
               c \in NewTo(cur, Projects \ todo) \/ c \in History!NewIn(cur, p)
          /\ c \in History!NewIn(cur, p) => c \notin NewTo(cur, Projects \ todo)
      <4>1. p \in todo /\ Projects \ todo' = (Projects \ todo) \cup {p}
        BY <1>5 DEF LinkBuild
      <4>2. \A q \in Projects : c \in History!NewIn(cur, q) => ProjectOf[c] = q
        BY <2>2, NewInType
      <4> QED
        BY <4>1, <4>2 DEF NewTo
    <3>3. f[c] = IF c \in History!NewIn(cur, p) THEN builds[build_name].commits[c] + 1
                 ELSE builds[build_name].commits[c]
      BY <2>3, <2>4
    <3> QED
      BY <3>1, <3>2, <3>3
  <2>8. \A q \in Projects : Sorted(build_data, cur, q) /\ Sorted(builds[build_name], cur, q)
    BY <1>5 DEF LinkBuild, DocInv
  <2>9. /\ pc' \in {"link", "linkCommits"} /\ cur' = cur /\ build_data' = build_data
    BY <1>5 DEF LinkBuild, AfterDiff
  <2> QED
    BY <2>1, <2>2, <2>6, <2>7, <2>8, <2>9 DEF DocInv, Whole, Sorted, HasCommits
<1>6. ASSUME NEW c \in Commits, LinkCommit(c)
      PROVE  DocInv'
  <2>1. \A m \in Done' : Whole(m)'
    BY <1>6, DoneWhole DEF LinkCommit
  <2>2. build_name' = build_name \/ pc' = "down"
    BY <1>6 DEF LinkCommit, Down, build_name
  <2> QED
    BY <1>6, <2>1, <2>2 DEF LinkCommit, Down, DocInv, Whole, Sorted, HasCommits, AfterDiff
<1>7. CASE FinishManifest
  <2>1. IsNext(cur) /\ cur \in Positions /\ build_name = BuildName(cur) /\ build_name \in Built
    BY <1>7, FirstOrPrevious DEF FinishManifest
  <2>2. \A m \in Done' : m \in Done \/ m = cur
    BY <1>7, <2>1, CurType, BeforeNext, PositionsType DEF FinishManifest, Done
  <2>3. \A m \in Done : Whole(m)
    BY DEF DocInv, Whole
  <2>4. Whole(cur)
    <3>1. /\ \A p \in Projects : Sorted(builds[build_name], cur, p)
          /\ HasCommits(builds[build_name], cur, Projects \ {})
      BY <1>7 DEF FinishManifest, DocInv
    <3>2. Projects \ {} = Projects
      OBVIOUS
    <3> QED
      BY <2>1, <3>1, <3>2 DEF Whole
  <2>5. \A m \in Done' : Whole(m)'
    BY <1>7, <2>2, <2>3, <2>4 DEF FinishManifest, Whole, Built, Sorted, HasCommits
  <2> QED
    BY <1>7, <2>5 DEF FinishManifest, DocInv, Whole
<1>8. CASE ~WriteBuild /\ ~WriteIndex /\ ~CommitsDone /\ ~FinishManifest
           /\ (~\E p \in Projects : CommitProject(p) \/ LinkBuild(p))
           /\ ~\E c \in Commits : LinkCommit(c)
  <2>1. UNCHANGED <<last_manifest, builds>>
    BY <1>8 DEF Next, Step, Stop, vars, db, Start, TakeManifest, WalkDone, UpdateProject,
                PartialCommits, Crash
  <2>2. \A m \in Done' : Whole(m)'
    BY <2>1, DoneWhole
  <2>3. pc' \in {"down", "walk", "projects"} \/ UNCHANGED <<pc, proc>>
    BY <1>8 DEF Next, Step, Stop, vars, Start, TakeManifest, WalkDone, UpdateProject,
                PartialCommits, Crash, Down
  <2>4. CASE pc' \in {"down", "walk", "projects"}
    BY <2>2, <2>4 DEF DocInv, Whole
  <2>5. CASE UNCHANGED <<pc, proc>>
    BY <2>1, <2>2, <2>5 DEF proc, DocInv, Whole, Raw, Sorted, HasCommits, build_name
  <2> QED
    BY <2>3, <2>4, <2>5
<1> QED
  BY <1>1, <1>2, <1>3, <1>4, <1>5, <1>6, <1>7, <1>8

-----------------------------------------------------------------------------
(* What the commit documents hold. *)

LEMMA InitMemberInv == Init => MemberInv
BY PositionsType DEF Init, MemberInv

\* New commits are in no build, before and after they are written.
LEMMA WriteCommitsUnlinked ==
  ASSUME TypeOK, LinkInv, NEW new \in SUBSET (Commits \ commits), WriteCommits(new)
  PROVE  \A c \in Commits, b \in BuildNames : in_build'[c][b] = in_build[c][b]
<1>1. \A c \in new, b \in BuildNames : in_build[c][b] \in Nat /\ in_build[c][b] = 0
  BY DEF TypeOK, DBTypeOK, LinkInv
<1> QED
  BY <1>1 DEF WriteCommits

LEMMA NextMemberInv ==
  ASSUME IInv, WalkInv, PrevInv, DocInv, MemberInv, [Next]_vars
  PROVE  MemberInv'
<1> USE DEF IInv
<1> DEFINE Members == \A m \in Positions, c \in Commits :
                        in_build[c][BuildName(m)] > 0 => c \in NewTo(m, Projects)
<1>2. ASSUME \A c \in Commits, b \in BuildNames : in_build'[c][b] = in_build[c][b]
      PROVE  Members'
  BY <1>2, PositionsType DEF MemberInv
<1>3. ASSUME NEW p \in Projects, CommitProject(p)
      PROVE  MemberInv'
  <2>1. \A c \in Commits, b \in BuildNames : in_build'[c][b] = in_build[c][b]
    BY WriteCommitsUnlinked, <1>3, NewCommitsNew DEF CommitProject, Loading
  <2> QED
    BY <1>2, <1>3, <2>1 DEF CommitProject, MemberInv
<1>4. ASSUME NEW p \in Projects, PartialCommits(p)
      PROVE  MemberInv'
  <2>1. \A c \in Commits, b \in BuildNames : in_build'[c][b] = in_build[c][b]
    <3>1. PICK new \in SUBSET NewCommits(p) : WriteCommits(new)
      BY <1>4 DEF PartialCommits
    <3>2. new \in SUBSET (Commits \ commits)
      BY <1>4, <3>1, NewCommitsNew DEF PartialCommits, Loading
    <3> QED
      BY WriteCommitsUnlinked, <3>1, <3>2
  <2> QED
    BY <1>2, <1>4, <2>1 DEF PartialCommits, Down, MemberInv
<1>5. CASE CommitsDone
  <2>1. Members'
    BY <1>2, <1>5 DEF CommitsDone
  <2>2. CASE Down
    BY <2>1, <2>2 DEF Down, MemberInv
  <2>3. CASE ~Down
    <3>1. cur \in Positions /\ cur' = cur /\ pc' = "link"
      BY <1>5, <2>3, FirstOrPrevious DEF CommitsDone
    <3>2. \A p \in Projects \ todo' :
            History!Earlier(cur) = {} \/ Manifests[cur].shas[p] \ Missing = {}
      BY <1>5, <2>3, FirstOrPrevious DEF CommitsDone, ProjectsOf, DocInv, Sorted
    <3>3. \A p \in Projects \ todo' : History!NewIn(cur, p) = {}
      BY <3>1, <3>2, NothingNew
    <3> QED
      BY <2>1, <3>1, <3>3 DEF MemberInv, NewTo
  <2> QED
    BY <2>2, <2>3
<1>6. ASSUME NEW p \in Projects, LinkBuild(p)
      PROVE  MemberInv'
  <2>1. Members'
    BY <1>2, <1>6 DEF LinkBuild
  <2>2. cur \in Positions /\ cur' = cur /\ build_name' = build_name /\ pc = "link" /\ in_build' = in_build
    BY <1>6, FirstOrPrevious DEF LinkBuild, build_name
  <2>3. commit_ids' = History!NewIn(cur, p)
    BY <1>6, LinksNew
  <2>4. \A c : c \in NewTo(cur, Projects \ todo') =>
                 c \in NewTo(cur, Projects \ todo) \/ c \in commit_ids'
    BY <1>6, <2>3 DEF LinkBuild, NewTo
  <2>5. commit_ids' \subseteq NewTo(cur, Projects)
    BY <2>3 DEF NewTo
  <2>6. pc' = IF commit_ids' = {} THEN "link" ELSE "linkCommits"
    BY <1>6 DEF LinkBuild, AfterDiff
  <2> QED
    BY <2>1, <2>2, <2>4, <2>5, <2>6 DEF MemberInv
<1>7. ASSUME NEW c \in Commits, LinkCommit(c)
      PROVE  MemberInv'
  <2>1. /\ cur \in Positions /\ build_name = BuildName(cur) /\ build_name \in BuildNames
        /\ c \in commit_ids /\ commit_ids \subseteq NewTo(cur, Projects)
    BY <1>7, FirstOrPrevious DEF LinkCommit, MemberInv, Built
  <2>2. \A d \in Commits, b \in BuildNames :
          \/ in_build'[d][b] = in_build[d][b]
          \/ d = c /\ b = build_name /\ in_build'[d][b] = 1
    BY <1>7, <2>1 DEF LinkCommit, TypeOK, DBTypeOK
  <2>3. Members'
    <3> SUFFICES ASSUME NEW m \in Positions, NEW d \in Commits, in_build'[d][BuildName(m)] > 0
                 PROVE  d \in NewTo(m, Projects)
      OBVIOUS
    <3>1. CASE in_build'[d][BuildName(m)] = in_build[d][BuildName(m)]
      BY <3>1 DEF MemberInv
    <3>2. CASE d = c /\ BuildName(m) = build_name
      BY <2>1, <3>2, NamesAssumption DEF Positions
    <3> QED
      BY <2>2, <3>1, <3>2, PositionsType
  <2>4. CASE Down
    BY <2>3, <2>4 DEF Down, MemberInv
  <2>5. CASE ~Down
    <3>1. /\ cur' = cur /\ build_name' = build_name /\ todo' = todo /\ commit_ids' = commit_ids \ {c}
          /\ pc = "linkCommits" /\ pc' = IF commit_ids' = {} THEN "link" ELSE "linkCommits"
      BY <1>7, <2>5 DEF LinkCommit, AfterDiff, build_name
    <3>2. in_build'[c][build_name] > 0
      <4>1. in_build[c][build_name] \in Nat
        BY <2>1 DEF TypeOK, DBTypeOK
      <4>2. CASE in_build[c][build_name] = 0
        <5>1. in_build' = [in_build EXCEPT ![c][build_name] = 1]
          BY <1>7, <2>5, <4>2 DEF LinkCommit
        <5> QED
          BY <2>1, <5>1 DEF TypeOK, DBTypeOK
      <4>3. CASE in_build[c][build_name] # 0
        BY <1>7, <2>5, <4>1, <4>3 DEF LinkCommit
      <4> QED
        BY <4>2, <4>3
    <3>3. \A d \in NewTo(cur, Projects \ todo) \ commit_ids' : in_build'[d][build_name] > 0
      <4> SUFFICES ASSUME NEW d \in NewTo(cur, Projects \ todo) \ commit_ids'
                   PROVE  in_build'[d][build_name] > 0
        OBVIOUS
      <4>1. CASE d = c
        BY <3>2, <4>1
      <4>2. CASE d # c
        <5>1. d \in Commits
          BY <2>1, NewToIs
        <5>2. in_build[d][build_name] > 0
          BY <3>1, <4>2 DEF MemberInv
        <5> QED
          BY <2>1, <2>2, <4>2, <5>1, <5>2
      <4> QED
        BY <4>1, <4>2
    <3> QED
      BY <2>1, <2>3, <3>1, <3>3 DEF MemberInv
  <2> QED
    BY <2>4, <2>5
<1>8. CASE /\ ~CommitsDone /\ ~\E c \in Commits : LinkCommit(c)
           /\ ~\E p \in Projects : CommitProject(p) \/ LinkBuild(p) \/ PartialCommits(p)
  <2>1. in_build' = in_build
    BY <1>8 DEF Next, Step, Stop, vars, db, Start, TakeManifest, WalkDone, UpdateProject, WriteBuild,
                WriteIndex, FinishManifest, Crash
  <2>2. pc' \notin {"link", "linkCommits"} \/ UNCHANGED <<pc, proc>>
    BY <1>8 DEF Next, Step, Stop, vars, db, Start, TakeManifest, WalkDone, UpdateProject, WriteBuild,
                WriteIndex, FinishManifest, Crash, Down
  <2>3. Members'
    BY <1>2, <2>1
  <2> QED
    BY <2>1, <2>2, <2>3 DEF MemberInv, proc, build_name
<1> QED
  BY <1>3, <1>4, <1>5, <1>6, <1>7, <1>8

-----------------------------------------------------------------------------
(* The history, and what it implies. *)

HistoryInv == WalkInv /\ PrevInv /\ DocInv /\ MemberInv /\ CommitInv

LEMMA HistoryInductive == Spec => []HistoryInv
<1>1. Init => HistoryInv
  BY InitWalkInv, InitPrevInv, InitDocInv, InitMemberInv, InitCommitInv DEF HistoryInv
<1>2. ASSUME IInv, IInv', HistoryInv, [Next]_vars
      PROVE  HistoryInv'
  BY <1>2, NextWalkInv, NextPrevInv, NextDocInv, NextMemberInv, NextCommitInv DEF IInv, HistoryInv
<1>3. IInv /\ IInv' /\ HistoryInv /\ [Next]_vars => HistoryInv'
  BY <1>2
<1> QED
  BY <1>1, <1>3, Inductive, PTL DEF Spec

\* When a build is loaded, every commit that led to it has a document, whatever
\* the loader was interrupted in on the way there.
THEOREM HistoryCorrect == Spec => []HistoryComplete
<1>1. HistoryInv => HistoryComplete
  BY DEF HistoryInv, CommitInv
<1> QED
  BY <1>1, HistoryInductive, PTL

\* What the changeset endpoint works out from the manifests of two builds is
\* linked to the builds from one to the other, for any number of them.
THEOREM DiffCorrect == Spec => []DiffIsLinked
<1>1. ASSUME TypeOK, HistoryInv
      PROVE  DiffIsLinked
  <2> SUFFICES ASSUME NEW m \in Done, NEW n \in Done, NEW p \in Projects,
                      n \in Between(m, n),
                      \A k \in {m} \cup Between(m, n) : p \in ProjectsIn(BuildName(k)),
                      NEW c \in builds[BuildName(m)].manifest[p],
                      builds[BuildName(m)].manifest[p] = {c},
                      NEW d \in builds[BuildName(n)].manifest[p],
                      NEW new \in NewCommitsOf(c, d)
               PROVE  \E k \in Between(m, n) : builds[BuildName(k)].commits[new] > 0
    <3>1. \A k : k \in {j \in 1..last_manifest : IsBuild(j)} => k \in Done
      BY CurType, <1>1, PositionsType DEF Done, Positions
    <3> QED
      BY <3>1 DEF DiffIsLinked
  <2> DEFINE Shas(k) == Manifests[k].shas[p] \ Missing
             Since   == {k \in Between(m, n) : new \in Reachable(Shas(k))}
  <2>1. \A k : k \in Between(m, n) <=>
               /\ k \in Positions /\ m < k /\ k <= n
               /\ Manifests[k].index_key = Manifests[m].index_key
    <3>1. m \in Nat /\ n \in Nat /\ 1 <= m /\ n <= Len(Manifests)
      BY PositionsType DEF Done
    <3>2. \A k : k \in (m + 1)..n /\ IsBuild(k) <=> k \in Positions /\ m < k /\ k <= n
      BY <3>1, PositionsType DEF Positions
    <3>3. \A k : k \in Between(m, n) <=>
                   k \in (m + 1)..n /\ IsBuild(k) /\ Manifests[k].index_key = Manifests[m].index_key
      BY DEF Between
    <3> QED
      BY <3>2, <3>3
  <2>2. \A k \in {m} \cup Between(m, n) :
          k \in Done /\ builds[BuildName(k)].manifest[p] = Shas(k) /\ Shas(k) # {}
    <3> SUFFICES ASSUME NEW k \in {m} \cup Between(m, n)
                 PROVE  k \in Done /\ builds[BuildName(k)].manifest[p] = Shas(k) /\ Shas(k) # {}
      OBVIOUS
    <3>1. k \in Positions /\ k \in Nat /\ n \in Nat /\ k <= n /\ n <= last_manifest
      BY <2>1, PositionsType DEF Done
    <3>2. k \in Done
      BY <1>1, <3>1, CurType DEF Done
    <3>3. builds[BuildName(k)].manifest[p] = Shas(k)
      BY <1>1, <3>2 DEF HistoryInv, DocInv, Sorted
    <3>4. p \in ProjectsIn(BuildName(k))
      OBVIOUS
    <3> QED
      BY <3>2, <3>3, <3>4 DEF ProjectsIn, ProjectsOf
  <2>3. new \in Reachable({d}) /\ new \notin Reachable({c})
    BY DEF NewCommitsOf, DiffCommits
  <2>4. n \in Since
    BY <2>2, <2>3 DEF Reachable
  <2>5. Since \in SUBSET Nat
    BY <2>1, PositionsType
  <2>6. PICK k \in Since : \A j \in Since : k <= j
    BY <2>4, <2>5, LeastOf
  <2>7. k \in Positions /\ m \in Positions /\ m \in History!Earlier(k)
    BY <2>1, <2>2, <2>6, EarlierIs DEF Done
  <2> DEFINE prev == History!Previous(k)
  <2>8. /\ prev \in Positions /\ prev < k /\ m <= prev
        /\ Manifests[prev].index_key = Manifests[k].index_key
    BY <2>7, PreviousIs, EarlierIs
  <2>9. prev \in {m} \cup Between(m, n)
    <3>1. prev \in Nat /\ k \in Nat /\ n \in Nat /\ m \in Nat /\ k <= n
      BY <2>1, <2>6, <2>7, <2>8, PositionsType DEF Done
    <3>2. prev = m \/ (m < prev /\ prev <= n)
      BY <2>8, <3>1
    <3> QED
      BY <2>1, <2>6, <2>8, <3>2
  <2>10. new \notin Reachable(Shas(prev))
    <3>1. CASE prev = m
      BY <2>2, <2>3, <3>1
    <3>2. CASE prev # m
      <4>1. prev \in Between(m, n) /\ prev \in Nat /\ k \in Nat /\ ~(k <= prev)
        BY <2>7, <2>8, <2>9, <3>2, PositionsType
      <4> QED
        BY <2>6, <4>1
    <3> QED
      BY <3>1, <3>2
  <2>11. new \in DiffCommits(Shas(prev), Shas(k)) /\ Shas(prev) # {}
    BY <2>2, <2>6, <2>9, <2>10 DEF DiffCommits
  <2>12. new \in History!NewIn(k, p)
    <3>1. History!ValidShas(prev, p) = Shas(prev) /\ History!ValidShas(k, p) = Shas(k)
      BY DEF History!ValidShas
    <3> QED
      BY <2>7, <2>11, <3>1, NewInCases DEF LinkedCommits
  <2>13. new \in NewTo(k, Projects) /\ new \in Commits
    BY <2>7, <2>12, NewInType DEF NewTo
  <2>14. builds[BuildName(k)].commits[new] = 1
    BY <1>1, <2>2, <2>6, <2>13 DEF HistoryInv, DocInv, HasCommits
  <2> QED
    BY <2>6, <2>14
<1>2. IInv /\ HistoryInv => DiffIsLinked
  BY <1>1 DEF IInv
<1> QED
  BY <1>2, Inductive, HistoryInductive, PTL

-----------------------------------------------------------------------------
(* The refinement. *)

DocsSeen  == [b \in BuildNames |-> IF b \in Loaded THEN LoadedDoc(b) ELSE NoDoc]
LinksSeen == [c \in Commits |-> {b \in Loaded : in_build[c][b] > 0}]

LEMMA LoadedIs ==
  ASSUME TypeOK
  PROVE  Loaded = {BuildName(m) : m \in Done}
<1>1. \A m : m \in 1..last_manifest /\ IsBuild(m) <=> m \in Done
  BY CurType, PositionsType DEF Done, Positions
<1>2. {k \in 1..last_manifest : IsBuild(k)} = Done
  BY <1>1
<1> QED
  BY <1>2 DEF Loaded

\* What is to be seen of the document of a loaded build is what BuildHistory
\* says of the build.
LEMMA DocLoaded ==
  ASSUME TypeOK, PrevInv, NEW m \in Positions, Whole(m)
  PROVE  LoadedDoc(BuildName(m)) = History!Doc(m)
<1> DEFINE b == BuildName(m)
<1>1. b \in BuildNames /\ builds[b] \in BuildDoc /\ b[2] = Manifests[m].build_num
  BY PositionsType, ManifestType DEF Whole, Built, TypeOK, DBTypeOK
<1>2. builds[b].manifest = [p \in Projects |-> History!ValidShas(m, p)]
  <2>1. builds[b].manifest \in [Projects -> SUBSET Commits]
    BY <1>1 DEF BuildDoc
  <2>2. \A p \in Projects : builds[b].manifest[p] = History!ValidShas(m, p)
    BY DEF Whole, Sorted, History!ValidShas
  <2> QED
    BY <2>1, <2>2
<1>3. builds[b].invalid_shas = [p \in Projects |-> Manifests[m].shas[p] \cap Missing]
  <2>1. builds[b].invalid_shas \in [Projects -> SUBSET Commits]
    BY <1>1 DEF BuildDoc
  <2>2. \A p \in Projects : builds[b].invalid_shas[p] = Manifests[m].shas[p] \cap Missing
    BY DEF Whole, Sorted
  <2> QED
    BY <2>1, <2>2
<1>4. builds[b].commits =
        [c \in Commits |-> IF \E p \in Projects : c \in History!NewIn(m, p) THEN 1 ELSE 0]
  <2>1. builds[b].commits \in [Commits -> Nat]
    BY <1>1 DEF BuildDoc
  <2>2. \A c \in Commits :
          builds[b].commits[c] = IF \E p \in Projects : c \in History!NewIn(m, p) THEN 1 ELSE 0
    BY DEF Whole, HasCommits, NewTo
  <2> QED
    BY <2>1, <2>2
<1>5. IsPrev(m, builds[b].prev_build_num)
  BY DEF PrevInv, Whole
<1> DEFINE prev == IF History!Earlier(m) = {} THEN NoBuild
                   ELSE Manifests[History!Previous(m)].build_num
<1>6. LoadedDoc(b).prev_build_num = prev /\ LoadedDoc(b) \in BuildDoc
  <2>1. CASE builds[b].prev_build_num = b[2]
    <3>1. LoadedDoc(b) = [builds[b] EXCEPT !.prev_build_num = NoBuild]
      BY <2>1 DEF LoadedDoc
    <3>2. LoadedDoc(b).prev_build_num = NoBuild /\ LoadedDoc(b) \in BuildDoc
      BY <1>1, <3>1 DEF BuildDoc
    <3>3. History!Earlier(m) = {}
      <4> SUFFICES ASSUME History!Earlier(m) # {} PROVE FALSE
        OBVIOUS
      <4>1. History!Previous(m) \in History!Earlier(m)
        BY PreviousIs
      <4>2. /\ History!Previous(m) \in Positions /\ History!Previous(m) < m
            /\ Manifests[History!Previous(m)].index_key = Manifests[m].index_key
        BY <4>1, EarlierIs
      <4>3. Manifests[History!Previous(m)].build_num = Manifests[m].build_num
        BY <1>1, <1>5, <2>1 DEF IsPrev
      <4>4. History!Previous(m) = m
        BY <4>2, <4>3, NamesDiffer
      <4> QED
        BY <4>2, <4>4, PositionsType
    <3> QED
      BY <3>2, <3>3
  <2>2. CASE builds[b].prev_build_num # b[2]
    <3>1. LoadedDoc(b) = builds[b]
      BY <2>2 DEF LoadedDoc
    <3> QED
      BY <1>1, <1>5, <2>2, <3>1 DEF IsPrev
  <2> QED
    BY <2>1, <2>2
<1>7. /\ LoadedDoc(b).manifest = builds[b].manifest
      /\ LoadedDoc(b).invalid_shas = builds[b].invalid_shas
      /\ LoadedDoc(b).commits = builds[b].commits
  BY <1>1 DEF LoadedDoc, BuildDoc
<1>8. LoadedDoc(b) = [manifest |-> LoadedDoc(b).manifest,
                      invalid_shas |-> LoadedDoc(b).invalid_shas,
                      prev_build_num |-> LoadedDoc(b).prev_build_num,
                      commits |-> LoadedDoc(b).commits]
  BY <1>6 DEF BuildDoc
<1> QED
  BY <1>2, <1>3, <1>4, <1>6, <1>7, <1>8 DEF History!Doc

LEMMA NamesAgree == History!BuildNames = BuildNames
BY DEF History!BuildNames, BuildNames, History!BuildName, BuildName, History!IsBuild, IsBuild

\* To a reader of the loaded builds, only the last step of a manifest changes
\* anything.
LEMMA DoneLinks ==
  ASSUME IInv, WalkInv, [Next]_vars, UNCHANGED last_manifest
  PROVE  \A m \in Done, c \in Commits : in_build'[c][BuildName(m)] = in_build[c][BuildName(m)]
<1> SUFFICES ASSUME NEW m \in Done, NEW c \in Commits
             PROVE  in_build'[c][BuildName(m)] = in_build[c][BuildName(m)]
  OBVIOUS
<1> USE DEF IInv
<1>1. m \in Positions /\ BuildName(m) \in BuildNames
  BY PositionsType DEF Done
<1>2. CASE UNCHANGED in_build
  BY <1>2
<1>3. ASSUME NEW p \in Projects, CommitProject(p)
      PROVE  in_build'[c][BuildName(m)] = in_build[c][BuildName(m)]
  BY <1>1, <1>2, <1>3, WriteCommitsUnlinked, NewCommitsNew DEF CommitProject, Loading
<1>4. ASSUME NEW p \in Projects, PartialCommits(p)
      PROVE  in_build'[c][BuildName(m)] = in_build[c][BuildName(m)]
  <2>1. PICK new \in SUBSET NewCommits(p) : WriteCommits(new)
    BY <1>4 DEF PartialCommits
  <2>2. new \in SUBSET (Commits \ commits)
    BY <1>4, <2>1, NewCommitsNew DEF PartialCommits, Loading
  <2> QED
    BY <1>1, <2>1, <2>2, WriteCommitsUnlinked
<1>5. ASSUME NEW d \in Commits, LinkCommit(d)
      PROVE  in_build'[c][BuildName(m)] = in_build[c][BuildName(m)]
  <2>1. IsNext(cur)
    BY <1>5 DEF LinkCommit, WalkInv
  <2>2. m # cur
    BY <2>1, CurType DEF IsNext, Done
  <2>3. BuildName(m) # build_name
    BY <1>1, <2>1, <2>2, NamesAssumption DEF IsNext, Positions, build_name
  <2> QED
    BY <1>1, <1>5, <2>3 DEF LinkCommit, TypeOK, DBTypeOK
<1> QED
  BY <1>2, <1>3, <1>4, <1>5
     DEF Next, Step, Stop, vars, db, Start, TakeManifest, WalkDone, UpdateProject, WriteBuild,
         WriteIndex, CommitsDone, LinkBuild, FinishManifest, Crash

LEMMA UnseenStep ==
  ASSUME IInv, HistoryInv, [Next]_vars, UNCHANGED last_manifest
  PROVE  UNCHANGED <<DocsSeen, LinksSeen>>
<1>1. Loaded' = Loaded
  BY DEF Loaded
<1>2. \A b \in Loaded : \E m \in Done : b = BuildName(m)
  BY LoadedIs DEF IInv
<1>3. \A b \in Loaded : builds'[b] = builds[b]
  BY <1>2, DoneBuilds DEF HistoryInv
<1>4. \A b \in Loaded, c \in Commits : in_build'[c][b] = in_build[c][b]
  BY <1>2, DoneLinks DEF HistoryInv
<1>5. DocsSeen' = DocsSeen
  BY <1>1, <1>3 DEF DocsSeen, LoadedDoc
<1>6. LinksSeen' = LinksSeen
  BY <1>1, <1>4 DEF LinksSeen
<1> QED
  BY <1>5, <1>6

\* The last step of a manifest loads the build, all of it at once.
LEMMA LoadStep ==
  ASSUME IInv, IInv', HistoryInv, FinishManifest
  PROVE  /\ cur \in Positions /\ IsNext(cur)
         /\ last_manifest' = cur
         /\ DocsSeen' = [DocsSeen EXCEPT ![BuildName(cur)] = History!Doc(cur)]
         /\ LinksSeen' = [c \in Commits |-> IF History!Doc(cur).commits[c] = 1
                                            THEN LinksSeen[c] \cup {BuildName(cur)} ELSE LinksSeen[c]]
<1> DEFINE b == BuildName(cur)
<1>1. /\ cur \in Positions /\ IsNext(cur) /\ build_name = b /\ b \in BuildNames /\ b \in Built
      /\ pc = "link" /\ todo = {} /\ last_manifest' = cur /\ UNCHANGED <<builds, in_build>>
  BY FirstOrPrevious, PositionsType DEF FinishManifest, HistoryInv
<1>2. Whole(cur)
  <2>1. /\ \A p \in Projects : Sorted(builds[b], cur, p)
        /\ HasCommits(builds[b], cur, Projects \ {})
    BY <1>1 DEF HistoryInv, DocInv
  <2>2. Projects \ {} = Projects
    OBVIOUS
  <2> QED
    BY <1>1, <2>1, <2>2 DEF Whole
<1>3. LoadedDoc(b) = History!Doc(cur)
  BY <1>1, <1>2, DocLoaded DEF IInv, HistoryInv
<1>4. Loaded' = Loaded \cup {b} /\ Loaded \subseteq BuildNames
  <2>1. \A m : m \in Done' <=> m \in Done \/ m = cur
    <3>1. cur \in Nat /\ last_manifest \in Nat /\ last_manifest < cur
      BY <1>1, CurType DEF IInv, IsNext
    <3>2. \A m \in Positions : m \in Nat
      BY PositionsType
    <3>3. \A m \in Positions : m < cur <=> m \in Done
      BY <1>1, BeforeNext DEF IInv
    <3>4. \A m \in Positions : m <= cur <=> m \in Done \/ m = cur
      BY <3>1, <3>2, <3>3
    <3> QED
      BY <1>1, <3>4 DEF Done
  <2>2. Loaded = {BuildName(m) : m \in Done}
    BY LoadedIs DEF IInv
  <2>3. (Loaded = {BuildName(m) : m \in Done})'
    <3>1. TypeOK'
      BY DEF IInv
    <3> QED
      BY <3>1, LoadedIs, PTL
  <2>4. Loaded' = {BuildName(m) : m \in Done'}
    BY <2>3 DEF BuildName
  <2> QED
    BY <2>1, <2>2, <2>4, PositionsType DEF Done
<1>5. \A c : LoadedDoc(c)' = LoadedDoc(c)
  BY <1>1 DEF LoadedDoc
<1>6. DocsSeen' = [DocsSeen EXCEPT ![b] = History!Doc(cur)]
  <2>1. DocsSeen' = [c \in BuildNames |-> IF c \in Loaded' THEN LoadedDoc(c) ELSE NoDoc]
    BY <1>5 DEF DocsSeen
  <2> QED
    BY <1>1, <1>3, <1>4, <2>1 DEF DocsSeen
<1>7. \A c \in Commits : in_build[c][b] > 0 <=> History!Doc(cur).commits[c] = 1
  <2> SUFFICES ASSUME NEW c \in Commits
               PROVE  in_build[c][b] > 0 <=> History!Doc(cur).commits[c] = 1
    OBVIOUS
  <2>1. History!Doc(cur).commits[c] = IF \E p \in Projects : c \in History!NewIn(cur, p) THEN 1 ELSE 0
    BY DEF History!Doc
  <2>2. History!Doc(cur).commits[c] = 1 <=> c \in NewTo(cur, Projects)
    BY <2>1 DEF NewTo
  <2>3. Projects \ todo = Projects
    BY <1>1
  <2> QED
    BY <1>1, <2>2, <2>3 DEF HistoryInv, MemberInv
<1>8. LinksSeen' = [c \in Commits |-> IF History!Doc(cur).commits[c] = 1
                                      THEN LinksSeen[c] \cup {b} ELSE LinksSeen[c]]
  <2>1. LinksSeen' = [c \in Commits |-> {d \in Loaded \cup {b} : in_build[c][d] > 0}]
    BY <1>1, <1>4 DEF LinksSeen
  <2>2. \A c \in Commits :
          {d \in Loaded \cup {b} : in_build[c][d] > 0} =
            IF in_build[c][b] > 0 THEN {d \in Loaded : in_build[c][d] > 0} \cup {b}
            ELSE {d \in Loaded : in_build[c][d] > 0}
    OBVIOUS
  <2> QED
    BY <1>7, <2>1, <2>2 DEF LinksSeen
<1> QED
  BY <1>1, <1>6, <1>8

\* The loader, whatever it is interrupted in, keeps the promise of BuildHistory
\* for every manifest repository: builds are loaded whole and in order, and what
\* a build holds depends on the history alone.
THEOREM Refines == Spec => ImplementsBuildHistory
<1>1. Init => History!Init
  <2> SUFFICES ASSUME Init PROVE History!Init
    OBVIOUS
  <2>1. Loaded = {}
    <3>1. {k \in 1..last_manifest : IsBuild(k)} = {}
      BY DEF Init
    <3> QED
      BY <3>1 DEF Loaded
  <2> QED
    BY <2>1, NamesAgree DEF Init, History!Init
<1>2. ASSUME IInv, IInv', HistoryInv, [Next]_vars
      PROVE  History!Next \/ UNCHANGED <<last_manifest, DocsSeen, LinksSeen>>
  <2>1. CASE UNCHANGED last_manifest
    BY <1>2, <2>1, UnseenStep
  <2>2. CASE FinishManifest
    <3>1. cur \in DOMAIN Manifests /\ IsNext(cur)
      BY <1>2, <2>2, LoadStep DEF Positions
    <3>2. cur \in Nat /\ last_manifest \in Nat /\ cur > last_manifest /\ History!IsBuild(cur)
      BY <1>2, <3>1, CurType, PositionsType DEF IsNext, IInv, History!IsBuild, IsBuild
    <3>3. \A k \in (last_manifest + 1)..(cur - 1) : ~History!IsBuild(k)
      <4> SUFFICES ASSUME NEW k \in (last_manifest + 1)..(cur - 1), IsBuild(k) PROVE FALSE
        BY DEF History!IsBuild, IsBuild
      <4>1. k \in Positions /\ k > last_manifest /\ k < cur /\ k \in Nat
        BY <3>2, PositionsType
      <4> QED
        BY <3>1, <3>2, <4>1 DEF IsNext
    <3> PICK m \in DOMAIN Manifests : m = cur
      BY <3>1
    <3>4. History!Load(m)
      BY <1>2, <2>2, <3>2, <3>3, LoadStep
         DEF History!Load, DocsSeen, LinksSeen, History!BuildName, BuildName
    <3>5. History!Next
      BY <3>4 DEF History!Next
    <3> QED
      BY <3>5
  <2> QED
    BY <1>2, <2>1, <2>2
       DEF Next, Step, Stop, vars, db, Start, TakeManifest, WalkDone, UpdateProject, WriteBuild,
           WriteIndex, CommitProject, PartialCommits, CommitsDone, LinkBuild, LinkCommit, Crash
<1>3. IInv /\ IInv' /\ HistoryInv /\ [Next]_vars
        => [History!Next]_<<last_manifest, DocsSeen, LinksSeen>>
  BY <1>2
<1> QED
  BY <1>1, <1>3, Inductive, HistoryInductive, PTL
     DEF Spec, ImplementsBuildHistory, History!Spec, DocsSeen, LinksSeen
-----------------------------------------------------------------------------
(* What EventuallyLoaded rests on: every step of a run leads on.  A place in *)
(* the work is the last manifest, the one at hand, the stage and what is     *)
(* left of its loops; each of them is bounded.                               *)

\* A loader that is not running is at no manifest.
DownInv == pc = "down" => cur = 0

LEMMA NextDownInv == DownInv /\ [Next]_vars => DownInv'
<1> SUFFICES ASSUME DownInv, [Next]_vars, pc' = "down"
             PROVE  cur' = 0
  BY DEF DownInv
<1>1. CASE Step
  <2>1. CASE Start \/ TakeManifest \/ WalkDone \/ WriteBuild \/ WriteIndex \/ FinishManifest
    BY <2>1 DEF Start, TakeManifest, WalkDone, WriteBuild, WriteIndex, FinishManifest, Down
  <2>2. ASSUME NEW p \in Projects, UpdateProject(p) \/ CommitProject(p) \/ LinkBuild(p)
        PROVE  cur' = 0
    BY <2>2 DEF UpdateProject, CommitProject, LinkBuild, AfterDiff
  <2>3. CASE CommitsDone
    BY <2>3 DEF CommitsDone, Down
  <2>4. ASSUME NEW c \in Commits, LinkCommit(c)
        PROVE  cur' = 0
    BY <2>4 DEF LinkCommit, AfterDiff, Down
  <2> QED
    BY <1>1, <2>1, <2>2, <2>3, <2>4 DEF Step
<1>2. CASE Stop
  BY <1>2 DEF Stop, Crash, PartialCommits, Down
<1>3. CASE UNCHANGED vars
  BY <1>3 DEF vars, proc, DownInv
<1> QED
  BY <1>1, <1>2, <1>3 DEF Next

LEMMA DownHolds == Spec => []DownInv
<1>1. Init => DownInv
  BY DEF Init, DownInv
<1> QED
  BY <1>1, NextDownInv, PTL DEF Spec

\* The predecessor of the build at hand has a document.
LEMMA PreviousBuilt ==
  ASSUME IInv, HistoryInv, pc = "commits"
  PROVE  first_prod_ver_build \/ PrevBuildName \in Built
BY FirstOrPrevious DEF HistoryInv, DocInv

\* A commit to be linked has a document, unless one of the SHAs that its project
\* has in the manifest is invalid, and another is not.
LEMMA LinkedKnown ==
  ASSUME IInv, HistoryInv, NEW c \in commit_ids \ commits, pc = "linkCommits"
  PROVE  Mixed(cur, ProjectOf[c])
<1>1. cur \in Positions /\ c \in NewTo(cur, Projects)
  BY FirstOrPrevious DEF HistoryInv, MemberInv
<1>2. PICK p \in Projects : c \in History!NewIn(cur, p)
  BY <1>1 DEF NewTo
<1>3. ProjectOf[c] = p
  BY <1>1, <1>2, NewInType
<1> DEFINE shas == Manifests[cur].shas[p]
<1>4. c \in DiffCommits(History!ValidShas(History!Previous(cur), p), shas \ Missing)
  <2> DEFINE old  == History!ValidShas(History!Previous(cur), p)
             diff == DiffCommits(old, shas \ Missing)
  <2>1. History!ValidShas(cur, p) = shas \ Missing
    BY DEF History!ValidShas
  <2>2. shas \in SUBSET Commits
    BY <1>1, ManifestType
  <2>3. diff \in SUBSET Commits
    BY <2>2, ReachableType DEF DiffCommits
  <2>4. c \in LinkedCommits(old, shas \ Missing)
    BY <1>2, <2>1, NewInCases
  <2> QED
    BY <2>3, <2>4, NewestIn DEF LinkedCommits
<1>5. PICK d \in shas \ Missing : c \in Ancestors[d]
  BY <1>4 DEF DiffCommits, Reachable
<1>6. c \in Reachable(shas)
  BY <1>5 DEF Reachable
<1>7. shas \cap Missing # {}
  BY <1>6 DEF HistoryInv, CommitInv
<1> QED
  BY <1>3, <1>5, <1>7 DEF Mixed

AllLoaded == \A m \in (last_manifest + 1)..Len(Manifests) : ~IsBuild(m)

LEMMA StepLeads ==
  ASSUME IInv, HistoryInv, DownInv, Step
  PROVE  \/ Further
         \/ WalkDone /\ AllLoaded
         \/ \E c \in commit_ids \ commits : LinkCommit(c) /\ Mixed(cur, ProjectOf[c])
<1> USE DEF IInv
<1>1. CASE Start
  <2>1. cur = 0 /\ cur' = last_manifest /\ last_manifest' = last_manifest /\ last_manifest \in Nat
    BY <1>1, CurType DEF Start, DownInv, db
  <2>2. Stage[pc'] > Stage[pc]
    BY <1>1 DEF Start, Stage
  <2> QED
    BY <2>1, <2>2 DEF Further
<1>2. CASE TakeManifest
  BY <1>2, CurType DEF TakeManifest, db, Further
<1>3. CASE WalkDone
  <2>1. ASSUME NEW m \in (last_manifest + 1)..Len(Manifests), IsBuild(m)
        PROVE  FALSE
    <3>1. m \in Positions /\ m \in Nat /\ m > last_manifest /\ m <= Len(Manifests)
      BY <2>1, CurType, ManifestsLen DEF Positions, IsBuild
    <3>2. m > cur /\ cur = Len(Manifests)
      BY <1>3, <3>1 DEF WalkDone, HistoryInv, WalkInv
    <3> QED
      BY <3>1, <3>2, ManifestsLen
  <2> QED
    BY <1>3, <2>1 DEF AllLoaded
<1>4. ASSUME NEW p \in Projects, UpdateProject(p) \/ CommitProject(p)
      PROVE  Further
  BY <1>4 DEF UpdateProject, CommitProject, Further
<1>5. ASSUME NEW p \in Projects, LinkBuild(p)
      PROVE  Further
  <2>1. Stage[pc'] = Stage[pc]
    BY <1>5 DEF LinkBuild, AfterDiff, Stage
  <2> QED
    BY <1>5, <2>1 DEF LinkBuild, Further
<1>6. CASE WriteBuild
  BY <1>6 DEF WriteBuild, Further, Stage
<1>7. CASE WriteIndex
  BY <1>7 DEF WriteIndex, Further, Stage
<1>8. CASE CommitsDone
  <2>1. first_prod_ver_build \/ PrevBuildName \in Built
    BY <1>8, PreviousBuilt DEF CommitsDone
  <2> QED
    BY <1>8, <2>1 DEF CommitsDone, Further, Stage
<1>9. ASSUME NEW c \in Commits, LinkCommit(c)
      PROVE  Further \/ (c \in commit_ids \ commits /\ Mixed(cur, ProjectOf[c]))
  <2>1. CASE c \in commits
    <3>1. pc = "linkCommits" /\ pc' \in {"link", "linkCommits"}
      BY <1>9, <2>1 DEF LinkCommit, AfterDiff
    <3>2. Stage[pc'] = Stage[pc]
      BY <3>1 DEF Stage
    <3>3. /\ last_manifest' = last_manifest /\ cur' = cur /\ todo' = todo
          /\ c \in commit_ids /\ commit_ids' = commit_ids \ {c}
      BY <1>9, <2>1 DEF LinkCommit
    <3>4. commit_ids' \subseteq commit_ids /\ commit_ids' # commit_ids
      BY <3>3
    <3> QED
      BY <3>2, <3>3, <3>4 DEF Further
  <2>2. CASE c \notin commits
    BY <1>9, <2>2, LinkedKnown DEF LinkCommit
  <2> QED
    BY <2>1, <2>2
<1>10. CASE FinishManifest
  <2>1. cur > last_manifest
    BY <1>10 DEF FinishManifest, HistoryInv, WalkInv, IsNext
  <2> QED
    BY <1>10, <2>1 DEF FinishManifest, Further
<1> QED
  BY <1>1, <1>2, <1>3, <1>4, <1>5, <1>6, <1>7, <1>8, <1>9, <1>10 DEF Step

\* Every step of a run leads on until all is loaded, however many runs before it
\* were interrupted, and wherever: only a project whose SHAs in a manifest are
\* in part invalid can stop it.
THEOREM LeadsOnHolds == Spec => LeadsOn
<1>1. IInv /\ HistoryInv /\ DownInv /\ [Next]_vars =>
        [Step => \/ Further
                 \/ WalkDone /\ \A m \in (last_manifest + 1)..Len(Manifests) : ~IsBuild(m)
                 \/ \E c \in commit_ids \ commits :
                      LinkCommit(c) /\ Mixed(cur, ProjectOf[c])]_vars
  BY StepLeads DEF AllLoaded
<1> QED
  BY <1>1, Inductive, HistoryInductive, DownHolds, PTL DEF Spec, LeadsOn
=============================================================================
