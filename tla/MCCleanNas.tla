----------------------------- MODULE MCCleanNas -----------------------------
(***************************************************************************)
(* The tree latest/product/release, with a tarball and an installer in the *)
(* release and a tarball in the product, and STATEs for each of the three  *)
(* that say this or that or nothing.                                       *)
(***************************************************************************)
EXTENDS CleanNas

MCParent == [d \in {"product", "release"} |-> IF d = "product" THEN "latest" ELSE "product"]
MCDir == [f \in {"source", "src/release", "deb/release"} |-> IF f = "source" THEN "product" ELSE "release"]
MCName == [f \in {"source", "src/release", "deb/release"} |-> IF f = "deb/release" THEN "deb" ELSE "source"]

Entry(names, age) == [names |-> names, age |-> age]

State(remove, keep, removeEmpty, skip, subdirs) ==
  [REMOVE |-> remove, KEEP |-> keep, REMOVE_EMPTY_DIRS |-> removeEmpty, SKIP |-> skip, SUBDIRS |-> subdirs]

\* The STATE of the release.
Releases ==
  {None} \cup {State({Entry({"deb"}, 1)}, keep, None, skip, <<>>) :
                 keep \in {None, {"deb"}}, skip \in {None, TRUE}}

Other == State(None, None, None, TRUE, <<>>)

\* The STATE of the product, with another entry for its releases after theirs.
Products ==
  {None} \cup {State(remove, keep, empty, None,
                     <<[dirs |-> {"release"}, state |-> r],
                       [dirs |-> {"product", "release"}, state |-> Other]>>) :
                 remove \in {None, {Entry({"source", "deb"}, 2)}}, keep \in {None, {"source"}},
                 empty \in {None, FALSE}, r \in Releases}

MCPatterns ==
  {State({Entry({"source"}, 1)}, None, empty, None, <<[dirs |-> {"product"}, state |-> p]>>) :
     empty \in {None, TRUE}, p \in Products}

MCStates == (MCPatterns \cup Products \cup Releases \cup {Other}) \ {None}
=============================================================================
