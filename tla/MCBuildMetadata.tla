-------------------------- MODULE MCBuildMetadata --------------------------
(***************************************************************************)
(* A first build with a commit of testrunner and an invalid SHA, and a     *)
(* second build with a commit of another project.                          *)
(***************************************************************************)
EXTENDS BuildMetadata

MCNewCommits == [b \in 1..2 |-> IF b = 1 THEN {"tr"} ELSE {"kv"}]
=============================================================================
