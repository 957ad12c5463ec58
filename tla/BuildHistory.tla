---------------------------- MODULE BuildHistory ----------------------------
(***************************************************************************)
(* What the build database loader promises to its readers: builds are      *)
(* loaded whole, one after the other, in the order of the manifest         *)
(* repository, and what a build holds depends on that history alone, never *)
(* on how often the loader was interrupted on the way.                     *)
(***************************************************************************)
EXTENDS ManifestRepo

CONSTANTS NoDoc, NoBuild

VARIABLES
  last,   \* the position of the last manifest loaded
  docs,   \* the documents of the loaded builds
  links   \* links[c]: the loaded builds that commit c is new in

\* The earlier builds of the product and version of m.
Earlier(m) ==
  {k \in 1..(m - 1) : IsBuild(k) /\ Manifests[k].index_key = Manifests[m].index_key}

Previous(m) == CHOOSE k \in Earlier(m) : \A j \in Earlier(m) : j <= k

ValidShas(m, p) == Manifests[m].shas[p] \ Missing

\* The commits of project p that are new in m: none in the first build of a
\* version, the newest alone for a project its predecessor does not have.
NewIn(m, p) ==
  LET old  == ValidShas(Previous(m), p)
      diff == DiffCommits(old, ValidShas(m, p))
  IN IF Earlier(m) = {} \/ diff = {} THEN {}
     ELSE IF old = {} THEN {Newest(diff)} ELSE diff

Doc(m) ==
  [manifest       |-> [p \in Projects |-> ValidShas(m, p)],
   invalid_shas   |-> [p \in Projects |-> Manifests[m].shas[p] \cap Missing],
   prev_build_num |-> IF Earlier(m) = {} THEN NoBuild ELSE Manifests[Previous(m)].build_num,
   commits        |-> [c \in Commits |->
                         IF \E p \in Projects : c \in NewIn(m, p) THEN 1 ELSE 0]]

Init ==
  /\ last = 0
  /\ docs = [b \in BuildNames |-> NoDoc]
  /\ links = [c \in Commits |-> {}]

\* The next manifest that is one, everything of it at once.
Load(m) ==
  /\ IsBuild(m) /\ m > last
  /\ \A k \in (last + 1)..(m - 1) : ~IsBuild(k)
  /\ last' = m
  /\ docs' = [docs EXCEPT ![BuildName(m)] = Doc(m)]
  /\ links' = [c \in Commits |-> IF Doc(m).commits[c] = 1
                                 THEN links[c] \cup {BuildName(m)} ELSE links[c]]

Next == \E m \in DOMAIN Manifests : Load(m)

Spec == Init /\ [][Next]_<<last, docs, links>>
=============================================================================
