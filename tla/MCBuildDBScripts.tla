-------------------------- MODULE MCBuildDBScripts --------------------------
(***************************************************************************)
(* One project that moves to another URL with the second manifest, and a   *)
(* commit from before the new key that both builds bring with them, beside *)
(* a new one in each.                                                      *)
(***************************************************************************)
EXTENDS BuildDBScripts

CONSTANTS old, c1, c2, p1

MCProjectOf == [c \in {old, c1, c2} |-> p1]
MCUrl == [m \in 1..2 |-> [p \in {p1} |-> IF m = 1 THEN "http" ELSE "ssh"]]
MCNew == [m \in 1..2 |-> IF m = 1 THEN {old, c1} ELSE {old, c2}]
=============================================================================
