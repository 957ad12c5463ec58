------------------------------ MODULE BuildDiff ------------------------------
(***************************************************************************)
(* The changeset endpoint of the REST service (builddb_rest/changeset.py   *)
(* and util/build_diff.py), a reader of what the loader writes: the        *)
(* difference of two builds, worked out from their manifests and from Git. *)
(* It is worked out anew, and does not use the links between builds and    *)
(* commits, which claim to say the same.                                   *)
(***************************************************************************)
EXTENDS BuildDBLoader

\* (mutated: from and to are the wrong way round)
NewCommitsSwapped(from, to) == DiffCommits({to}, {from})

\* _new_commits: what is in `to` and not in `from`.
NewCommitsOf(from, to) == DiffCommits({from}, {to})

\* The projects of a build's manifest, as it is in the database.
ProjectsIn(b) == ProjectsOf(builds[b].manifest)

\* get_diff takes the first commit that a manifest has for a project; which of
\* several is the first is left open.
Removed(from, to) ==
  UNION {builds[from].manifest[p] : p \in ProjectsIn(from) \ ProjectsIn(to)}
Added(from, to) ==
  UNION {builds[to].manifest[p] : p \in ProjectsIn(to) \ ProjectsIn(from)}
Changed(c, d) == {c, d} \cup NewCommitsOf(c, d) \cup NewCommitsOf(d, c)

-----------------------------------------------------------------------------

\* The SHAs of p are all valid, or there is no document of its new commits.
Valid(m, p) == Manifests[m].shas[p] \cap Missing = {}

\* The builds of a version after m, up to n.
Between(m, n) ==
  {k \in (m + 1)..n : IsBuild(k) /\ Manifests[k].index_key = Manifests[m].index_key}

\* What get_diff finds added to a project is what the loader has linked to the
\* builds from one to the other, however often it was interrupted: the two
\* ways to ask what is new agree. Only for a project all of these builds have,
\* as a project that is new to a build is linked with one commit.
DiffIsLinked ==
  \A m, n \in {k \in 1..last_manifest : IsBuild(k)} :
    \A p \in Projects :
      (/\ n \in Between(m, n)
       /\ \A k \in {m} \cup Between(m, n) : p \in ProjectsIn(BuildName(k))
       /\ \E c \in Commits : builds[BuildName(m)].manifest[p] = {c}) =>
      \A c \in builds[BuildName(m)].manifest[p], d \in builds[BuildName(n)].manifest[p] :
        \A new \in NewCommitsOf(c, d) :
          \E k \in Between(m, n) : builds[BuildName(k)].commits[new] > 0
=============================================================================
