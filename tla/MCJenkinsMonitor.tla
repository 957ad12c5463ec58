-------------------------- MODULE MCJenkinsMonitor --------------------------
(***************************************************************************)
(* Two servers.  The first has a node and a build of a job that is new,    *)
(* the second a node and a build of a job whose builds took 2, 5 and 4.    *)
(***************************************************************************)
EXTENDS JenkinsMonitor

MCNodeServer == [n \in {"n1", "n2"} |-> IF n = "n1" THEN 1 ELSE 2]
MCBuildServer == [b \in {"new/1", "old/9"} |-> IF b = "new/1" THEN 1 ELSE 2]
MCBuildJob == [b \in {"new/1", "old/9"} |-> IF b = "new/1" THEN "new" ELSE "old"]
MCHistory == [j \in {"new", "old"} |-> IF j = "new" THEN <<3>> ELSE <<2, 5, 4>>]
=============================================================================
