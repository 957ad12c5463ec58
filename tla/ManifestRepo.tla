---------------------------- MODULE ManifestRepo ----------------------------
(***************************************************************************)
(* What the build database loader reads and never writes: the history of   *)
(* build manifests, and the Git repositories of the projects they name.    *)
(* Both are reached through the cbbuild library, which is not under src/,  *)
(* and are modelled from how load_build_database.py uses them.             *)
(***************************************************************************)
EXTENDS Naturals, Sequences

CONSTANTS
  ProdVers,   \* the keys '<product>-<version>' of the product-version index
  Projects,
  Commits,    \* commit ids '<project>-<sha>', as numbers that grow with time
  ProjectOf,  \* the project in a commit id
  Missing,    \* the SHAs that no repository holds
  Ancestors,  \* what is reachable from a commit, itself included
  Manifests   \* the commits of the manifest repository, oldest first

\* One commit of the manifest repository: a file that is a manifest (xml) or
\* is not, and the build it describes.
Manifest == [xml : BOOLEAN, index_key : ProdVers, build_num : Nat,
             shas : [Projects -> SUBSET Commits]]

ASSUME CommitsAssumption ==
  /\ Commits \subseteq Nat
  /\ ProjectOf \in [Commits -> Projects]
  /\ Missing \subseteq Commits
  /\ Ancestors \in [Commits -> SUBSET (Commits \ Missing)]
  /\ \A c \in Commits : \A d \in Ancestors[c] : ProjectOf[d] = ProjectOf[c]

\* There are finitely many commits: any of them have a most recent one.
ASSUME NewestAssumption ==
  \A S \in (SUBSET Commits) \ {{}} : \E c \in S : \A d \in S : d <= c

ASSUME ManifestsAssumption ==
  /\ Manifests \in Seq(Manifest)
  /\ \A m \in DOMAIN Manifests : \A p \in Projects :
       \A c \in Manifests[m].shas[p] : ProjectOf[c] = p

\* manifest_info.name: the key of the build document.
BuildName(m) == <<Manifests[m].index_key, Manifests[m].build_num>>

IsBuild(m) == m \in DOMAIN Manifests /\ Manifests[m].xml

BuildNames == {BuildName(m) : m \in {k \in DOMAIN Manifests : Manifests[k].xml}}

\* Every manifest names a build of its own: what is never re-issued is the
\* build number within a product and version.
ASSUME NamesAssumption ==
  \A m, n \in DOMAIN Manifests :
    IsBuild(m) /\ IsBuild(n) /\ BuildName(m) = BuildName(n) => m = n

\* The projects a list of SHAs per project has an entry for.
ProjectsOf(shas) == {p \in Projects : shas[p] # {}}

\* CommitWalker.walk: what is reachable from the given commits. A SHA that is
\* not in the repository raises MissingCommitError and contributes nothing.
Reachable(shas) == UNION {Ancestors[c] : c \in shas \ Missing}

\* DiffWalker.walk: reachable from the new commits and not from the old ones.
DiffCommits(old, new) == Reachable(new) \ Reachable(old)

\* diff_commits[0], the most recent commit of a non-empty difference.
Newest(commits) == CHOOSE c \in commits : \A d \in commits : d <= c
=============================================================================
