----------------------------- MODULE MCJiraHook -----------------------------
(***************************************************************************)
(* Two changes, of which the URL of the first is a part of the URL of the  *)
(* second, and two tickets, which a summary may name alone, together, or   *)
(* not at all.                                                             *)
(***************************************************************************)
EXTENDS JiraHook

CONSTANTS c12, c123, t1, t2

MCSummaries == {<<>>, <<t1>>, <<t1, t2>>, <<t2, t2>>}
MCWithin == {<<c12, c12>>, <<c123, c123>>, <<c12, c123>>}
=============================================================================
