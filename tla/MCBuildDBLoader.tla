-------------------------- MODULE MCBuildDBLoader --------------------------
(***************************************************************************)
(* A small manifest repository for the loader.  Project "kv" has commits   *)
(* 1 <- 2 <- 5 and 1 <- 3 <- 4 <- 5 (5 is a merge), project "ui" 11 <- 12; *)
(* 9 and 20 are SHAs that no repository holds.                             *)
(***************************************************************************)
EXTENDS BuildDiff

MCProdVers == {"A-1.0", "B-2.0"}
MCProjects == {"kv", "ui"}
MCCommits == {1, 2, 3, 4, 5, 9, 11, 12, 20}
MCProjectOf == [c \in MCCommits |-> IF c < 10 THEN "kv" ELSE "ui"]
MCMissing == {9, 20}
MCAncestors ==
  [c \in MCCommits |->
     CASE c = 1  -> {1}
       [] c = 2  -> {1, 2}
       [] c = 3  -> {1, 3}
       [] c = 4  -> {1, 3, 4}
       [] c = 5  -> {1, 2, 3, 4, 5}
       [] c = 11 -> {11}
       [] c = 12 -> {11, 12}
       [] OTHER  -> {}]

Entry(v, n, kv, ui) ==
  [xml |-> TRUE, index_key |-> v, build_num |-> n,
   shas |-> [p \in MCProjects |-> IF p = "kv" THEN kv ELSE ui]]
NotXml(v) == [Entry(v, 0, {}, {}) EXCEPT !.xml = FALSE]

\* Two versions interleaved; a file that is no manifest; a project that joins
\* with an invalid SHA, then with a valid one, then with nothing new; a project
\* with two SHAs; and a merge.
MCManifests ==
  << Entry("A-1.0", 1, {2}, {}), NotXml("A-1.0"), Entry("B-2.0", 1, {4}, {12}),
     Entry("A-1.0", 2, {2, 4}, {20}), Entry("A-1.0", 3, {5}, {12}),
     Entry("B-2.0", 2, {5}, {}) >>

=============================================================================
