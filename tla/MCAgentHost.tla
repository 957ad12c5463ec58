---------------------------- MODULE MCAgentHost ----------------------------
(***************************************************************************)
(* One agent that uses both mounts, with two runs of the restart script;   *)
(* or two, of which the other uses the second mount, with one run.         *)
(***************************************************************************)
EXTENDS AgentHost

CONSTANTS a1, a2

MCFstab == <<"latestbuilds", "releases">>
MCBinds == [a \in Agents |-> IF a = a1 THEN {"latestbuilds", "releases"} ELSE {"releases"}]
=============================================================================
