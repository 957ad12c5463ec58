----------------------------- MODULE MCPathdiff -----------------------------
(***************************************************************************)
(* Two workers and two threads for their posts, so that the posts of both, *)
(* or of one before and after it was stopped, may overlap, and few enough  *)
(* tasks that the states can be enumerated.                                *)
(***************************************************************************)
EXTENDS Pathdiff
=============================================================================
