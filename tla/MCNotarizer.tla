----------------------------- MODULE MCNotarizer -----------------------------
(***************************************************************************)
(* Two requests for one bundle, as two builds of a product, of which one   *)
(* is to be notarized, and a request for another bundle.                   *)
(***************************************************************************)
EXTENDS Notarizer

CONSTANTS a1, a2, b1

MCBundle == [r \in {a1, a2, b1} |-> IF r = b1 THEN "b" ELSE "a"]
MCArchive == [r \in {a1, a2, b1} |-> IF r = a2 THEN "2.zip" ELSE "1.zip"]
=============================================================================
