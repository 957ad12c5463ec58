--------------------------- MODULE BuildDBLoader ---------------------------
(***************************************************************************)
(* The build database loader, build_database/scripts/                      *)
(* load_build_database.py: it walks the manifest repository from the last  *)
(* manifest it finished, and for each manifest writes the project          *)
(* documents, the build document, the product-version index, the commit    *)
(* documents of every new commit, the links between the build and its      *)
(* commits, and last of all the last-manifest document.                    *)
(*                                                                         *)
(* Every database write is a step of its own and the process may stop      *)
(* between any two of them.  A later run starts again from last-manifest.  *)
(* One loader runs at a time; no other writer is modelled here.            *)
(***************************************************************************)
EXTENDS ManifestRepo

CONSTANTS NoDoc, NoBuild   \* no such document; a JSON null prev_build_num

VARIABLES
  \* the database
  remotes,         \* the projects that have a 'project:' document
  builds,          \* build documents
  commits,         \* the commits that have a document
  in_build,        \* in_build[c][b]: how often b is in the document of c
  index_doc,       \* the product-version index document
  last_manifest,   \* the last-manifest document, 0 if there is none
  \* the loader process
  pc, cur, prod_ver_index, build_data, first_prod_ver_build, todo, commit_ids

db == <<remotes, builds, commits, in_build, index_doc, last_manifest>>
proc == <<cur, prod_ver_index, build_data, first_prod_ver_build, todo, commit_ids>>
vars == <<db, pc, proc>>

NoIndex == [v \in ProdVers |-> NoBuild]

NoCommits == [c \in Commits |-> 0]
NoInvalid == [p \in Projects |-> {}]

BuildDoc == [manifest : [Projects -> SUBSET Commits],
             invalid_shas : [Projects -> SUBSET Commits],
             prev_build_num : Nat \cup {NoBuild},
             commits : [Commits -> Nat]]

ASSUME SentinelsAssumption == NoDoc \notin BuildDoc /\ NoBuild \notin Nat

Init ==
  /\ remotes = {}
  /\ builds = [b \in BuildNames |-> NoDoc]
  /\ commits = {}
  /\ in_build = [c \in Commits |-> [b \in BuildNames |-> 0]]
  /\ index_doc = NoIndex
  /\ last_manifest = 0
  /\ pc = "down"
  /\ cur = 0
  /\ prod_ver_index = NoIndex
  /\ build_data = NoDoc
  /\ first_prod_ver_build = FALSE
  /\ todo = {}
  /\ commit_ids = {}

manifest == Manifests[cur]
build_name == BuildName(cur)

\* The process is gone and its memory with it.
Down ==
  /\ pc' = "down"
  /\ cur' = 0
  /\ prod_ver_index' = NoIndex
  /\ build_data' = NoDoc
  /\ first_prod_ver_build' = FALSE
  /\ todo' = {}
  /\ commit_ids' = {}

\* BuildDBLoader.__init__ reads the index, main reads last-manifest and walks
\* what comes after it.
Start ==
  /\ pc = "down"
  /\ pc' = "walk"
  /\ cur' = last_manifest
  /\ prod_ver_index' = index_doc
  /\ UNCHANGED <<db, build_data, first_prod_ver_build, todo, commit_ids>>

\* The next manifest of the walk. A file that is no manifest is passed over,
\* and last-manifest does not move.
TakeManifest ==
  /\ pc = "walk" /\ cur < Len(Manifests)
  /\ cur' = cur + 1
  /\ IF Manifests[cur + 1].xml
       THEN /\ pc' = "projects"
            /\ todo' = ProjectsOf(Manifests[cur + 1].shas)
       ELSE UNCHANGED <<pc, todo>>
  /\ UNCHANGED <<db, prod_ver_index, build_data, first_prod_ver_build, commit_ids>>

WalkDone ==
  /\ pc = "walk" /\ cur = Len(Manifests)
  /\ Down
  /\ UNCHANGED db

\* One turn of update_project_documents. The remotes of a project are kept as
\* the fact that its document is there.
UpdateProject(p) ==
  /\ pc = "projects" /\ p \in todo
  /\ remotes' = remotes \cup {p}
  /\ todo' = todo \ {p}
  /\ UNCHANGED <<builds, commits, in_build, index_doc, last_manifest, pc, cur,
                 prod_ver_index, build_data, first_prod_ver_build, commit_ids>>

\* (mutated: an earlier run's prev_build_num is overwritten)
PrevBuildNumAlways == prod_ver_index[manifest.index_key]

\* 'Don't overwrite prev_build_num if it was set by an earlier run.'
PrevBuildNum ==
  IF builds[build_name] = NoDoc \/ builds[build_name].prev_build_num = NoBuild
    THEN prod_ver_index[manifest.index_key]
    ELSE builds[build_name].prev_build_num

\* (mutated: the commits of an earlier run are kept)
NewBuildKeepsCommits ==
  [manifest |-> manifest.shas, invalid_shas |-> NoInvalid, prev_build_num |-> PrevBuildNum,
   commits |-> IF builds[build_name] = NoDoc THEN NoCommits ELSE builds[build_name].commits]

\* The document is built anew but for prev_build_num, so the commits that an
\* earlier run put in it are gone.
NewBuild ==
  [manifest |-> manifest.shas, invalid_shas |-> NoInvalid, prev_build_num |-> PrevBuildNum,
   commits |-> NoCommits]

\* (mutated: the index is written first and the build document later)
WriteBuildLater ==
  /\ pc = "projects" /\ todo = {}
  /\ build_data' = NewBuild
  /\ index_doc' = [index_doc EXCEPT ![manifest.index_key] = manifest.build_num]
  /\ pc' = "index"
  /\ UNCHANGED <<remotes, builds, commits, in_build, last_manifest, cur,
                 prod_ver_index, first_prod_ver_build, todo, commit_ids>>

\* generate_build_document up to its upsert.
WriteBuild ==
  /\ pc = "projects" /\ todo = {}
  /\ build_data' = NewBuild
  /\ builds' = [builds EXCEPT ![build_name] = build_data']
  /\ pc' = "index"
  /\ UNCHANGED <<remotes, commits, in_build, index_doc, last_manifest, cur,
                 prod_ver_index, first_prod_ver_build, todo, commit_ids>>

\* The rest of generate_build_document: the index is changed in memory and
\* written back whole.
WriteIndex ==
  /\ pc = "index"
  /\ first_prod_ver_build' = (build_data.prev_build_num = NoBuild)
  /\ prod_ver_index' = [prod_ver_index EXCEPT ![manifest.index_key] = manifest.build_num]
  /\ index_doc' = prod_ver_index'
  /\ pc' = "commits"
  /\ todo' = ProjectsOf(build_data.manifest)
  /\ UNCHANGED <<remotes, builds, commits, in_build, last_manifest, cur,
                 build_data, commit_ids>>

\* (mutated: commits that are in the database are written again)
NewCommitsAll(p) == Reachable(build_data.manifest[p])

\* (mutated: a walk that goes no further where it finds a known commit)
NewCommitsPruned(p) ==
  UNION {Ancestors[c] : c \in build_data.manifest[p] \ (Missing \cup commits)} \ commits

\* find_commits: the commits that are not in the database yet, and the SHAs
\* that no repository holds.
NewCommits(p) == Reachable(build_data.manifest[p]) \ commits
InvalidShas(p) == build_data.manifest[p] \cap Missing

\* A new commit document is in no build.
WriteCommits(new) ==
  /\ commits' = commits \cup new
  /\ in_build' = [c \in Commits |-> IF c \in new THEN [b \in BuildNames |-> 0]
                                    ELSE in_build[c]]

\* One turn of the loop of generate_commit_documents. A project with an
\* invalid SHA loses it, and none of its new commits is written.
CommitProject(p) ==
  /\ pc = "commits" /\ p \in todo
  /\ todo' = todo \ {p}
  /\ IF InvalidShas(p) # {}
       THEN /\ build_data' = [build_data EXCEPT
                                !.manifest[p] = @ \ Missing,
                                !.invalid_shas[p] = InvalidShas(p)]
            /\ UNCHANGED <<commits, in_build>>
       ELSE /\ WriteCommits(NewCommits(p))
            /\ UNCHANGED build_data
  /\ UNCHANGED <<remotes, builds, index_doc, last_manifest, pc, cur,
                 prod_ver_index, first_prod_ver_build, commit_ids>>

\* The process stops within the upsert of a project's commits, some of them
\* written.
PartialCommits(p) ==
  /\ pc = "commits" /\ p \in todo
  /\ InvalidShas(p) = {}
  /\ \E new \in SUBSET NewCommits(p) : WriteCommits(new)
  /\ Down
  /\ UNCHANGED <<remotes, builds, index_doc, last_manifest>>

\* The build documents that are there.
Built == {b \in BuildNames : builds[b] # NoDoc}

PrevBuildName == <<manifest.index_key, build_data.prev_build_num>>

\* The end of generate_commit_documents, which writes the build document again
\* if a SHA was invalid, and the start of update_build_commit_documents. A
\* previous build that has no document raises NotFoundError.
CommitsDone ==
  /\ pc = "commits" /\ todo = {}
  /\ builds' = IF build_data.invalid_shas = NoInvalid THEN builds
               ELSE [builds EXCEPT ![build_name] = build_data]
  /\ IF first_prod_ver_build \/ PrevBuildName \in Built
       THEN /\ pc' = "link"
            /\ todo' = IF first_prod_ver_build THEN {} ELSE ProjectsOf(build_data.manifest)
            /\ UNCHANGED <<cur, prod_ver_index, build_data, first_prod_ver_build, commit_ids>>
       ELSE Down
  /\ UNCHANGED <<remotes, commits, in_build, index_doc, last_manifest>>

\* (mutated: a project that is new to the product links its whole history)
LinkedCommitsAll(old, new) == DiffCommits(old, new)

\* All of the difference for a project the previous build has, its newest
\* commit for one it has not.
LinkedCommits(old, new) ==
  LET diff == DiffCommits(old, new)
  IN IF old = {} /\ diff # {} THEN {Newest(diff)} ELSE diff

\* (mutated: no `continue` for an empty difference)
AfterDiffAlways(ids) == "linkCommits"

\* 'if not diff_commits: continue', and the end of the loop over the commits.
AfterDiff(ids) == IF ids = {} THEN "link" ELSE "linkCommits"

\* One turn of update_build_commit_documents, up to the upsert of the build.
LinkBuild(p) ==
  /\ pc = "link" /\ p \in todo
  /\ todo' = todo \ {p}
  /\ commit_ids' = LinkedCommits(builds[PrevBuildName].manifest[p], build_data.manifest[p])
  /\ builds' = [builds EXCEPT ![build_name].commits =
                  [c \in Commits |-> IF c \in commit_ids' THEN @[c] + 1 ELSE @[c]]]
  /\ pc' = AfterDiff(commit_ids')
  /\ UNCHANGED <<remotes, commits, in_build, index_doc, last_manifest, cur,
                 prod_ver_index, build_data, first_prod_ver_build>>

\* One commit of that turn. A commit that has no document raises NotFoundError.
LinkCommit(c) ==
  /\ pc = "linkCommits" /\ c \in commit_ids
  /\ IF c \in commits
       THEN /\ in_build' = IF in_build[c][build_name] = 0
                           THEN [in_build EXCEPT ![c][build_name] = 1] ELSE in_build
            /\ commit_ids' = commit_ids \ {c}
            /\ pc' = AfterDiff(commit_ids')
            /\ UNCHANGED <<cur, prod_ver_index, build_data, first_prod_ver_build, todo>>
       ELSE Down /\ UNCHANGED in_build
  /\ UNCHANGED <<remotes, builds, commits, index_doc, last_manifest>>

\* (mutated: last-manifest is never written)
FinishWithoutMark ==
  /\ pc = "link" /\ todo = {}
  /\ pc' = "walk"
  /\ UNCHANGED <<db, proc>>

\* update_last_manifest, and back to the walk.
FinishManifest ==
  /\ pc = "link" /\ todo = {}
  /\ last_manifest' = cur
  /\ pc' = "walk"
  /\ UNCHANGED <<remotes, builds, commits, in_build, index_doc, proc>>

\* The process is killed, or a connection error nobody catches ends it.
Crash ==
  /\ pc # "down"
  /\ Down
  /\ UNCHANGED db

Step ==
  \/ Start \/ TakeManifest \/ WalkDone
  \/ \E p \in Projects : UpdateProject(p) \/ CommitProject(p) \/ LinkBuild(p)
  \/ WriteBuild \/ WriteIndex \/ CommitsDone
  \/ \E c \in Commits : LinkCommit(c)
  \/ FinishManifest

Stop == Crash \/ \E p \in Projects : PartialCommits(p)

Next == Step \/ Stop

Spec == Init /\ [][Next]_vars

\* The scheduled job runs the loader again whenever it is not running.
FairSpec == Spec /\ WF_vars(Step)

-----------------------------------------------------------------------------

DBTypeOK ==
  /\ remotes \subseteq Projects
  /\ builds \in [BuildNames -> BuildDoc \cup {NoDoc}]
  /\ commits \subseteq Commits \ Missing
  /\ in_build \in [Commits -> [BuildNames -> Nat]]
  /\ index_doc \in [ProdVers -> Nat \cup {NoBuild}]
  /\ last_manifest \in 0..Len(Manifests)

ProcTypeOK ==
  /\ pc \in {"down", "walk", "projects", "index", "commits", "link", "linkCommits"}
  /\ cur \in 0..Len(Manifests)
  /\ pc \notin {"down", "walk"} => IsBuild(cur)
  /\ prod_ver_index \in [ProdVers -> Nat \cup {NoBuild}]
  /\ build_data \in BuildDoc \cup {NoDoc}
  /\ pc \in {"index", "commits", "link", "linkCommits"} => build_data \in BuildDoc
  /\ first_prod_ver_build \in BOOLEAN
  /\ todo \subseteq Projects
  /\ commit_ids \subseteq Commits
  /\ pc = "linkCommits" => commit_ids # {}

\* What each variable holds, and that a project is only left in the middle of
\* its commits when there are some: `diff_commits[0]` is never of an empty list.
TypeOK == DBTypeOK /\ ProcTypeOK

\* However often a manifest is loaded again, no commit is twice in a build
\* document and no build is twice in a commit document.
NoDuplicateLinks ==
  \A b \in BuildNames, c \in Commits :
    /\ in_build[c][b] <= 1
    /\ b \in Built => builds[b].commits[c] <= 1

\* The product-version index and every prev_build_num name a build that has a
\* document, so that update_build_commit_documents finds its predecessor.
IndexNamesBuilds ==
  /\ \A v \in ProdVers : index_doc[v] # NoBuild => <<v, index_doc[v]>> \in Built
  /\ \A b \in Built : builds[b].prev_build_num # NoBuild =>
       <<b[1], builds[b].prev_build_num>> \in Built

\* When a build is loaded, every commit that led to it has a document, but for
\* the projects whose manifest entry had an invalid SHA.
HistoryComplete ==
  \A m \in 1..last_manifest : IsBuild(m) =>
    \A p \in Projects :
      Manifests[m].shas[p] \cap Missing = {} => Reachable(Manifests[m].shas[p]) \subseteq commits

\* A build is never taken out of the document of a commit, which only a commit
\* seen for the first time has empty.
InBuildKept ==
  [][\A c \in Commits, b \in BuildNames : in_build[c][b] > 0 => in_build'[c][b] > 0]_vars

\* A predecessor that an earlier run determined is never replaced.
PrevBuildKept ==
  [][\A b \in Built : builds[b].prev_build_num # NoBuild =>
       builds'[b].prev_build_num = builds[b].prev_build_num]_vars

\* If the loader is only interrupted finitely often, it gets to the end of the
\* manifest repository.
LastBuild == {m \in DOMAIN Manifests : IsBuild(m) /\ \A k \in (m + 1)..Len(Manifests) : ~IsBuild(k)}
EventuallyLoaded == <>[][Step]_vars => <>(last_manifest \in LastBuild)

\* How far a run is within a manifest.
Stage == [down |-> 0, walk |-> 1, projects |-> 2, index |-> 3, commits |-> 4,
          link |-> 5, linkCommits |-> 5]

Further ==
  \/ last_manifest' > last_manifest
  \/ /\ last_manifest' = last_manifest
     /\ \/ cur' > cur
        \/ cur' = cur /\ Stage[pc'] > Stage[pc]
        \/ /\ cur' = cur /\ Stage[pc'] = Stage[pc]
           /\ \/ todo' \subseteq todo /\ todo' # todo
              \/ todo' = todo /\ commit_ids' \subseteq commit_ids /\ commit_ids' # commit_ids

\* A project that is in the manifest with a valid SHA beside an invalid one.
Mixed(m, p) ==
  Manifests[m].shas[p] \cap Missing # {} /\ Manifests[m].shas[p] \ Missing # {}

\* Every step of a run (main) leads on, to the next manifest in the end, and
\* none stops it for want of a document (update_build_commit_documents), but
\* for that of a commit of a project whose SHAs are in part invalid; or all is
\* loaded. Runs that were interrupted leave nothing that a later one stops at.
LeadsOn ==
  [][Step => \/ Further
             \/ WalkDone /\ \A m \in (last_manifest + 1)..Len(Manifests) : ~IsBuild(m)
             \/ \E c \in commit_ids \ commits : LinkCommit(c) /\ Mixed(cur, ProjectOf[c])]_vars

\* Its readers see the builds up to last-manifest, and see them loaded whole
\* and in order, as BuildHistory promises. A first build may have itself for
\* predecessor (PrevIsEarlier below); it counts as having none.
Loaded == {BuildName(m) : m \in {k \in 1..last_manifest : IsBuild(k)}}
LoadedDoc(b) ==
  IF builds[b].prev_build_num = b[2]
    THEN [builds[b] EXCEPT !.prev_build_num = NoBuild] ELSE builds[b]
History == INSTANCE BuildHistory WITH
  last  <- last_manifest,
  docs  <- [b \in BuildNames |-> IF b \in Loaded THEN LoadedDoc(b) ELSE NoDoc],
  links <- [c \in Commits |-> {b \in Loaded : in_build[c][b] > 0}]
ImplementsBuildHistory == History!Spec

\* No build is its own predecessor: what generate_build_document's comment
\* asks for when the earlier run found that the build is the first.
PrevIsEarlier == \A b \in Built : builds[b].prev_build_num # b[2]
=============================================================================
