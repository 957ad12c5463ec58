------------------------ MODULE BuildDBScriptsProofs ------------------------
(***************************************************************************)
(* The properties of BuildDBScripts, for any projects, commits, manifests  *)
(* and URLs.  The loader, generate_projects.py, the schema update and      *)
(* regenerate_repositories.py take their steps in any order.               *)
(***************************************************************************)
EXTENDS BuildDBScripts, TLAPS

\* TypeOK but for the walkers.
DataOK ==
  /\ remotes \in [Projects -> SUBSET Urls] /\ repos \in [Projects -> SUBSET Urls]
  /\ commits \in [Commits -> Document \cup {None}]
  /\ update = None \/ \E S \in SUBSET Commits : update \in [S -> Document]
  /\ fetching = None \/ fetching \subseteq Projects
  /\ lost \subseteq Projects /\ met \subseteq Commits
  /\ skipped \in [Projects -> SUBSET Urls]

WalkersOK == walk = [w \in Walkers |-> walk[w]] /\ \A w \in Walkers : Walker(w, walk[w])

LEMMA TypeParts == TypeOK <=> DataOK /\ WalkersOK
BY DEF TypeOK, DataOK, WalkersOK

LEMMA UrlType == ASSUME NEW m \in Manifests, NEW p \in Projects PROVE Url[m][p] \in Urls
BY DEF Urls

LEMMA NextManifestType == ASSUME NEW m \in Manifests PROVE m + 1 \in Turns /\ m \in Turns
BY BuildDBScriptsAssumption DEF Manifests, Turns

LEMMA FirstType == 1 \in Manifests /\ 1 \in Turns
BY BuildDBScriptsAssumption DEF Manifests, Turns

\* What a walker may be, in the projects and in the links.
Any == [pc : {"idle", "projects", "links"}, manifest : Turns,
        todo : SUBSET (Projects \cup Commits), item : Projects \cup Commits \cup {None},
        doc : (SUBSET Urls) \cup Document \cup {None}]

ProjectsFields(s) ==
  /\ s.pc = "projects" /\ s.manifest \in Manifests /\ s.todo \in SUBSET Projects
  /\ \/ s.item = None /\ s.doc = None
     \/ s.item \in s.todo /\ s.doc \in SUBSET Urls

LinksFields(s) ==
  /\ s.pc = "links" /\ s.manifest \in Manifests /\ s.todo \in SUBSET Commits
  /\ \/ s.item = None /\ s.doc = None
     \/ s.item \in s.todo /\ s.doc \in Document

LEMMA StartFields ==
  ASSUME NEW m
  PROVE  /\ Start(m).pc = "idle" /\ Start(m).manifest = m /\ Start(m).todo = {}
         /\ Start(m).item = None /\ Start(m).doc = None
BY DEF Start

LEMMA ManifestsPart == Manifests \subseteq Turns
BY NextManifestType

LEMMA AnyWalker == ASSUME NEW w, NEW s, Walker(w, s) PROVE s \in Any
<1>1. CASE \E m \in Turns : s = Start(m)
  <2>1. PICK m \in Turns : s = Start(m)
    BY <1>1
  <2>2. {} \in SUBSET (Projects \cup Commits) /\ None \in Projects \cup Commits \cup {None}
          /\ None \in (SUBSET Urls) \cup Document \cup {None}
    OBVIOUS
  <2>3. [pc |-> "idle", manifest |-> m, todo |-> {}, item |-> None, doc |-> None] \in Any
    BY <2>2 DEF Any
  <2> QED
    BY <2>1, <2>3, Zenon DEF Start
<1>2. CASE s \in [pc : {"projects"}, manifest : Manifests, todo : SUBSET Projects,
                  item : Projects \cup {None}, doc : (SUBSET Urls) \cup {None}]
  <2>1. /\ s = [pc |-> s.pc, manifest |-> s.manifest, todo |-> s.todo, item |-> s.item, doc |-> s.doc]
        /\ s.pc = "projects" /\ s.manifest \in Manifests /\ s.todo \in SUBSET Projects
        /\ s.item \in Projects \cup {None} /\ s.doc \in (SUBSET Urls) \cup {None}
    BY <1>2
  <2>2. /\ s.manifest \in Turns /\ s.todo \in SUBSET (Projects \cup Commits)
        /\ s.item \in Projects \cup Commits \cup {None}
        /\ s.doc \in (SUBSET Urls) \cup Document \cup {None}
    BY <2>1, ManifestsPart
  <2> QED
    BY <2>1, <2>2 DEF Any
<1>3. CASE s \in [pc : {"links"}, manifest : Manifests, todo : SUBSET Commits,
                  item : Commits \cup {None}, doc : Document \cup {None}]
  <2>1. /\ s = [pc |-> s.pc, manifest |-> s.manifest, todo |-> s.todo, item |-> s.item, doc |-> s.doc]
        /\ s.pc = "links" /\ s.manifest \in Manifests /\ s.todo \in SUBSET Commits
        /\ s.item \in Commits \cup {None} /\ s.doc \in Document \cup {None}
    BY <1>3
  <2>2. /\ s.manifest \in Turns /\ s.todo \in SUBSET (Projects \cup Commits)
        /\ s.item \in Projects \cup Commits \cup {None}
        /\ s.doc \in (SUBSET Urls) \cup Document \cup {None}
    BY <2>1, ManifestsPart
  <2> QED
    BY <2>1, <2>2 DEF Any
<1> QED
  BY <1>1, <1>2, <1>3 DEF Walker

LEMMA WalkerParts ==
  ASSUME NEW w, NEW s, Walker(w, s)
  PROVE  /\ s.pc = "idle" => \E m \in Turns : s = Start(m)
         /\ s.pc = "projects" => ProjectsFields(s)
         /\ s.pc = "links" => w = "loader" /\ LinksFields(s)
         /\ s.pc \in {"idle", "projects", "links"}
<1>1. \A m : Start(m).pc = "idle"
  BY StartFields
<1>2. CASE \E m \in Turns : s = Start(m)
  BY <1>1, <1>2
<1>3. CASE /\ s.pc = "projects"
           /\ s \in [pc : {"projects"}, manifest : Manifests, todo : SUBSET Projects,
                     item : Projects \cup {None}, doc : (SUBSET Urls) \cup {None}]
           /\ \/ s.item = None /\ s.doc = None
              \/ s.item \in s.todo /\ s.doc \in SUBSET Urls
  BY <1>3 DEF ProjectsFields
<1>4. CASE /\ w = "loader" /\ s.pc = "links"
           /\ s \in [pc : {"links"}, manifest : Manifests, todo : SUBSET Commits,
                     item : Commits \cup {None}, doc : Document \cup {None}]
           /\ \/ s.item = None /\ s.doc = None
              \/ s.item \in s.todo /\ s.doc \in Document
  BY <1>4 DEF LinksFields
<1> QED
  BY <1>2, <1>3, <1>4, Zenon DEF Walker

LEMMA PartsWalker ==
  ASSUME NEW s \in Any, ProjectsFields(s) \/ LinksFields(s)
  PROVE  \A w : ProjectsFields(s) \/ w = "loader" => Walker(w, s)
<1> SUFFICES ASSUME NEW w, ProjectsFields(s) \/ w = "loader" PROVE Walker(w, s)
  OBVIOUS
<1>1. s = [pc |-> s.pc, manifest |-> s.manifest, todo |-> s.todo, item |-> s.item, doc |-> s.doc]
  BY DEF Any
<1>2. CASE ProjectsFields(s)
  <2>1. s.item \in Projects \cup {None} /\ s.doc \in (SUBSET Urls) \cup {None}
    BY <1>2 DEF ProjectsFields
  <2>2. s \in [pc : {"projects"}, manifest : Manifests, todo : SUBSET Projects,
               item : Projects \cup {None}, doc : (SUBSET Urls) \cup {None}]
    BY <1>1, <1>2, <2>1 DEF ProjectsFields
  <2> QED
    BY <1>2, <2>2 DEF ProjectsFields, Walker
<1>3. CASE LinksFields(s) /\ w = "loader"
  <2>1. s.item \in Commits \cup {None} /\ s.doc \in Document \cup {None}
    BY <1>3 DEF LinksFields
  <2>2. s \in [pc : {"links"}, manifest : Manifests, todo : SUBSET Commits,
               item : Commits \cup {None}, doc : Document \cup {None}]
    BY <1>1, <1>3, <2>1 DEF LinksFields
  <2> QED
    BY <1>3, <2>2 DEF LinksFields, Walker
<1> QED
  BY <1>2, <1>3

\* A step of one walker, by its new state.
LEMMA WalkTo ==
  ASSUME WalkersOK, NEW w \in Walkers, NEW s, walk' = [walk EXCEPT ![w] = s]
  PROVE  /\ walk'[w] = s
         /\ \A o \in Walkers \ {w} : walk'[o] = walk[o]
         /\ Walker(w, s) => WalkersOK'
<1>1. walk'[w] = s /\ \A o \in Walkers \ {w} : walk'[o] = walk[o]
  BY DEF WalkersOK
<1>2. walk' = [o \in Walkers |-> walk'[o]]
  BY DEF WalkersOK
<1> QED
  BY <1>1, <1>2 DEF WalkersOK

LEMMA WalkStep ==
  ASSUME WalkersOK, NEW w \in Walkers, NEW s, walk' = [walk EXCEPT ![w] = s],
         \/ \E m \in Turns : s = Start(m)
         \/ s \in Any /\ ProjectsFields(s)
         \/ s \in Any /\ w = "loader" /\ LinksFields(s)
  PROVE  WalkersOK' /\ walk'[w] = s /\ \A o \in Walkers \ {w} : walk'[o] = walk[o]
<1>1. Walker(w, s)
  <2>1. CASE \E m \in Turns : s = Start(m)
    BY <2>1 DEF Walker
  <2> QED
    BY <2>1, PartsWalker
<1> QED
  BY <1>1, WalkTo

LEMMA WalkerIn ==
  ASSUME WalkersOK, NEW w \in Walkers
  PROVE  /\ walk[w] \in Any
         /\ walk[w].pc = "idle" => \E m \in Turns : walk[w] = Start(m)
         /\ walk[w].pc = "projects" => ProjectsFields(walk[w])
         /\ walk[w].pc = "links" => w = "loader" /\ LinksFields(walk[w])
BY AnyWalker, WalkerParts DEF WalkersOK

LEMMA LoaderIn == "loader" \in Walkers /\ "generator" \in Walkers
BY DEF Walkers

\* What each step makes of its walker.
Moves(w, pc, m, todo, item, doc) ==
  /\ WalkersOK' /\ \A o \in Walkers \ {w} : walk'[o] = walk[o]
  /\ walk'[w].pc = pc /\ walk'[w].manifest = m /\ walk'[w].todo = todo
  /\ walk'[w].item = item /\ walk'[w].doc = doc

LEMMA BeginWalk ==
  ASSUME WalkersOK, NEW w \in Walkers, Begin(w)
  PROVE  Moves(w, "projects", walk[w].manifest, Projects, None, None)
<1>1. PICK m \in Turns : walk[w] = Start(m)
  BY WalkerIn DEF Begin
<1>2. walk[w] \in Any /\ walk[w].manifest \in Manifests /\ walk[w].item = None /\ walk[w].doc = None
  BY <1>1, WalkerIn, StartFields DEF Begin
<1> DEFINE s == [walk[w] EXCEPT !.pc = "projects", !.todo = Projects]
<1>3. /\ s \in Any /\ s.pc = "projects" /\ s.manifest = walk[w].manifest /\ s.todo = Projects
      /\ s.item = None /\ s.doc = None
  BY <1>2 DEF Any
<1>4. walk' = [walk EXCEPT ![w] = s]
  BY DEF Begin
<1> HIDE DEF s
<1>5. ProjectsFields(s)
  BY <1>2, <1>3 DEF ProjectsFields
<1> QED
  BY <1>3, <1>4, <1>5, WalkStep DEF Moves

LEMMA ReadProjectWalk ==
  ASSUME TypeOK, NEW w \in Walkers, NEW p \in Projects, ReadProject(w, p)
  PROVE  Moves(w, "projects", walk[w].manifest, walk[w].todo, p, remotes[p])
<1>1. walk[w] \in Any /\ ProjectsFields(walk[w]) /\ p \in walk[w].todo
  BY WalkerIn, TypeParts DEF ReadProject
<1> DEFINE s == [walk[w] EXCEPT !.item = p, !.doc = remotes[p]]
<1>2. remotes[p] \in SUBSET Urls
  BY DEF TypeOK
<1>3. /\ s \in Any /\ s.pc = walk[w].pc /\ s.manifest = walk[w].manifest /\ s.todo = walk[w].todo
      /\ s.item = p /\ s.doc = remotes[p]
  BY <1>1, <1>2 DEF Any
<1>4. walk' = [walk EXCEPT ![w] = s]
  BY DEF ReadProject
<1> HIDE DEF s
<1>5. ProjectsFields(s)
  BY <1>1, <1>2, <1>3 DEF ProjectsFields
<1> QED
  BY <1>1, <1>3, <1>4, <1>5, WalkStep, TypeParts DEF Moves, ProjectsFields

LEMMA WriteProjectWalk ==
  ASSUME TypeOK, NEW w \in Walkers, WriteProject(w)
  PROVE  Moves(w, "projects", walk[w].manifest, walk[w].todo \ {walk[w].item}, None, None)
<1>1. walk[w] \in Any /\ ProjectsFields(walk[w])
  BY WalkerIn, TypeParts DEF WriteProject
<1> DEFINE t == walk[w].todo \ {walk[w].item}
           s == [walk[w] EXCEPT !.todo = t, !.item = None, !.doc = None]
<1>2. t \in SUBSET Projects
  BY <1>1 DEF ProjectsFields
<1>3. walk' = [walk EXCEPT ![w] = s]
  BY DEF WriteProject
<1> HIDE DEF t
<1>4. /\ s \in Any /\ s.pc = walk[w].pc /\ s.manifest = walk[w].manifest /\ s.todo = t
      /\ s.item = None /\ s.doc = None
  BY <1>1, <1>2 DEF Any
<1> HIDE DEF s
<1>5. ProjectsFields(s)
  BY <1>1, <1>2, <1>4 DEF ProjectsFields
<1> QED
  BY <1>1, <1>3, <1>4, <1>5, WalkStep, TypeParts DEF Moves, ProjectsFields, t

LEMMA AddCommitsWalk ==
  ASSUME TypeOK, AddCommits
  PROVE  LET m == walk["loader"].manifest IN m \in Manifests /\ Moves("loader", "links", m, New[m], None, None)
<1>1. walk["loader"] \in Any /\ ProjectsFields(walk["loader"])
  BY WalkerIn, TypeParts, LoaderIn DEF AddCommits
<1>2. walk["loader"].item = None /\ walk["loader"].doc = None
  BY <1>1 DEF AddCommits, ProjectsFields
<1> DEFINE m == walk["loader"].manifest
           s == [walk["loader"] EXCEPT !.pc = "links", !.todo = New[m]]
<1>3. m \in Manifests /\ New[m] \in SUBSET Commits
  BY <1>1, BuildDBScriptsAssumption DEF ProjectsFields
<1>4. walk' = [walk EXCEPT !["loader"] = s]
  BY DEF AddCommits
<1> HIDE DEF m
<1>5. /\ s \in Any /\ s.pc = "links" /\ s.manifest = walk["loader"].manifest /\ s.todo = New[m]
      /\ s.item = None /\ s.doc = None
  BY <1>1, <1>2, <1>3 DEF Any
<1> HIDE DEF s
<1>6. LinksFields(s)
  BY <1>3, <1>5 DEF LinksFields, m
<1> QED
  BY <1>3, <1>4, <1>5, <1>6, WalkStep, LoaderIn, TypeParts DEF Moves, m

LEMMA ReadCommitWalk ==
  ASSUME TypeOK, NEW c \in Commits, ReadCommit(c), commits[c] \in Document
  PROVE  Moves("loader", "links", walk["loader"].manifest, walk["loader"].todo, c, commits[c])
<1> DEFINE l == walk["loader"]
           s == [l EXCEPT !.item = c, !.doc = commits[c]]
<1>1. l \in Any /\ LinksFields(l) /\ c \in l.todo
  BY WalkerIn, TypeParts, LoaderIn DEF ReadCommit
<1>2. walk' = [walk EXCEPT !["loader"] = s]
  BY DEF ReadCommit
<1> HIDE DEF l
<1>3. /\ s \in Any /\ s.pc = l.pc /\ s.manifest = l.manifest /\ s.todo = l.todo
      /\ s.item = c /\ s.doc = commits[c]
  BY <1>1 DEF Any
<1> HIDE DEF s
<1>4. LinksFields(s)
  BY <1>1, <1>3 DEF LinksFields
<1> QED
  BY <1>1, <1>2, <1>3, <1>4, WalkStep, LoaderIn, TypeParts DEF Moves, LinksFields, l

LEMMA WriteCommitWalk ==
  ASSUME TypeOK, WriteCommit
  PROVE  Moves("loader", "links", walk["loader"].manifest,
               walk["loader"].todo \ {walk["loader"].item}, None, None)
<1> DEFINE l == walk["loader"]
           t == l.todo \ {l.item}
           s == [l EXCEPT !.todo = t, !.item = None, !.doc = None]
<1>1. l \in Any /\ LinksFields(l)
  BY WalkerIn, TypeParts, LoaderIn DEF WriteCommit
<1>2. walk' = [walk EXCEPT !["loader"] = s]
  BY DEF WriteCommit
<1> HIDE DEF l
<1>3. t \in SUBSET Commits
  BY <1>1 DEF LinksFields
<1> HIDE DEF t
<1>4. /\ s \in Any /\ s.pc = l.pc /\ s.manifest = l.manifest /\ s.todo = t
      /\ s.item = None /\ s.doc = None
  BY <1>1, <1>3 DEF Any
<1> HIDE DEF s
<1>5. LinksFields(s)
  BY <1>1, <1>3, <1>4 DEF LinksFields
<1> QED
  BY <1>1, <1>2, <1>4, <1>5, WalkStep, LoaderIn, TypeParts DEF Moves, LinksFields, l, t

\* A walker that begins a manifest, or goes back to its beginning.
LEMMA StartWalk ==
  ASSUME TypeOK, NEW w \in Walkers, NEW m \in Turns, walk' = [walk EXCEPT ![w] = Start(m)]
  PROVE  Moves(w, "idle", m, {}, None, None)
<1>1. WalkersOK' /\ walk'[w] = Start(m) /\ \A o \in Walkers \ {w} : walk'[o] = walk[o]
  BY WalkStep, TypeParts
<1> QED
  BY <1>1, StartFields DEF Moves

LEMMA StopsWalk ==
  ASSUME TypeOK, NEW w \in Walkers, Stops(w)
  PROVE  \E m \in Turns : /\ walk' = [walk EXCEPT ![w] = Start(m)]
                          /\ w = "loader" => m = walk["loader"].manifest
<1>1. walk[w].manifest \in Turns
  BY TypeParts, WalkerIn DEF Any
<1> QED
  BY <1>1, FirstType DEF Stops

LEMMA NextManifestWalk ==
  ASSUME TypeOK, NextManifest
  PROVE  \E m \in Turns : walk' = [walk EXCEPT !["generator"] = Start(m)]
<1>1. walk["generator"].manifest \in Manifests
  BY TypeParts, WalkerIn, LoaderIn DEF NextManifest, ProjectsFields
<1>2. walk["generator"].manifest + 1 \in Turns
  BY <1>1, NextManifestType
<1> QED
  BY <1>2, FirstType DEF NextManifest

LEMMA LoadedWalk ==
  ASSUME TypeOK, Loaded
  PROVE  LET m == walk["loader"].manifest IN
         m \in Manifests /\ m + 1 \in Turns /\ walk' = [walk EXCEPT !["loader"] = Start(m + 1)]
<1>1. walk["loader"].manifest \in Manifests
  BY TypeParts, WalkerIn, LoaderIn DEF Loaded, LinksFields
<1>2. walk["loader"].manifest + 1 \in Turns
  BY <1>1, NextManifestType
<1> QED
  BY <1>1, <1>2 DEF Loaded

-----------------------------------------------------------------------------
\* The types. The loader reads only commit documents that are there, and whatever
\* writes one back has read the URL that it keeps.

DocsInv ==
  /\ walk["loader"].pc = "links" =>
       /\ \A c \in walk["loader"].todo : commits[c] # None
       /\ \A c \in Commits : c = walk["loader"].item => walk["loader"].doc.remote = commits[c].remote
  /\ update # None =>
       \A c \in DOMAIN update : commits[c] # None /\ update[c].remote = commits[c].remote

LEMMA DocumentNone == None \notin Document /\ None \notin Projects /\ None \notin Commits
BY BuildDBScriptsAssumption

LEMMA UpdateType ==
  ASSUME TypeOK, update # None
  PROVE  DOMAIN update \subseteq Commits /\ \A c \in DOMAIN update : update[c] \in Document
BY DEF TypeOK

LEMMA WithBuildType ==
  ASSUME NEW d \in Document, NEW m \in Manifests
  PROVE  /\ WithBuild(d, m) \in Document /\ WithBuild(d, m).remote = d.remote
         /\ WithBuild(d, m).author = d.author /\ WithBuild(d, m).in_build = d.in_build \cup {m}
<1>1. d.in_build \cup {m} \in SUBSET Manifests
  BY DEF Document
<1> QED
  BY <1>1 DEF WithBuild, Document

LEMMA WithAuthorType ==
  ASSUME NEW d \in Document
  PROVE  /\ WithAuthor(d) \in Document /\ WithAuthor(d).remote = d.remote
         /\ WithAuthor(d).author /\ WithAuthor(d).in_build = d.in_build
BY DEF WithAuthor, Document

LEMMA NewDocumentType ==
  ASSUME NEW m \in Manifests, NEW c \in Commits, NEW a \in BOOLEAN
  PROVE  [in_build |-> {}, author |-> a, remote |-> Url[m][ProjectOf[c]]] \in Document
<1>1. Url[m][ProjectOf[c]] \in Urls
  BY UrlType, BuildDBScriptsAssumption
<1> QED
  BY <1>1 DEF Document

LEMMA InitType == Init => TypeOK /\ DocsInv
<1> SUFFICES ASSUME Init PROVE TypeOK /\ DocsInv
  OBVIOUS
<1>1. ASSUME NEW c \in Commits PROVE Url[1][ProjectOf[c]] \in Urls
  BY UrlType, FirstType, BuildDBScriptsAssumption
<1>2. remotes \in [Projects -> SUBSET Urls] /\ repos \in [Projects -> SUBSET Urls]
  <2>1. \A p \in Projects : {Url[1][ProjectOf[c]] : c \in {o \in Old : ProjectOf[o] = p}} \subseteq Urls
    BY <1>1, BuildDBScriptsAssumption
  <2> QED
    BY <2>1 DEF Init
<1>3. commits \in [Commits -> Document \cup {None}]
  <2> DEFINE Before(c) == [in_build |-> {}, author |-> FALSE, remote |-> Url[1][ProjectOf[c]]]
  <2>1. \A c \in Commits : Before(c) \in Document
    BY NewDocumentType, FirstType
  <2>2. commits = [c \in Commits |-> IF c \in Old THEN Before(c) ELSE None]
    BY DEF Init
  <2> HIDE DEF Before
  <2> QED
    BY <2>1, <2>2
<1>4. walk = [w \in Walkers |-> Start(1)]
  BY DEF Init
<1>5. WalkersOK
  <2>1. \A w : Walker(w, Start(1))
    BY FirstType DEF Walker
  <2> QED
    BY <1>4, <2>1 DEF WalkersOK
<1>6. DataOK
  BY <1>2, <1>3 DEF Init, DataOK
<1>7. DocsInv
  BY <1>4, LoaderIn, StartFields DEF Init, DocsInv
<1> QED
  BY <1>5, <1>6, <1>7, TypeParts

\* Only these steps change a commit document, and none its remote.
LEMMA CommitsStep ==
  ASSUME TypeOK, DocsInv, [Next]_vars
  PROVE  /\ commits' \in [Commits -> Document \cup {None}]
         /\ \A c \in Commits :
              commits[c] # None => commits'[c] # None /\ commits'[c].remote = commits[c].remote
<1>1. CASE AddCommits
  <2>1. walk["loader"].manifest \in Manifests
    BY <1>1, AddCommitsWalk
  <2>2. \A c \in Commits :
          /\ commits'[c] \in Document \cup {None}
          /\ commits[c] # None => commits'[c] = commits[c]
    BY <1>1, <2>1, NewDocumentType DEF AddCommits, TypeOK
  <2>3. commits' = [c \in Commits |-> commits'[c]]
    BY <1>1 DEF AddCommits
  <2> QED
    BY <2>2, <2>3
<1>2. CASE WriteCommit
  <2> DEFINE l == walk["loader"]
  <2>1. LinksFields(l) /\ l.item # None
    BY <1>2, WalkerIn, LoaderIn, TypeParts DEF WriteCommit
  <2>2. l.item \in Commits /\ l.doc \in Document /\ l.manifest \in Manifests
    BY <2>1 DEF LinksFields
  <2>3. WithBuild(l.doc, l.manifest) \in Document /\ WithBuild(l.doc, l.manifest).remote = l.doc.remote
    BY <2>2, WithBuildType
  <2>4. l.doc.remote = commits[l.item].remote
    BY <2>1, <2>2 DEF DocsInv, LinksFields
  <2>5. commits' = [commits EXCEPT ![l.item] = WithBuild(l.doc, l.manifest)]
    BY <1>2 DEF WriteCommit
  <2> HIDE DEF l
  <2> QED
    BY <2>2, <2>3, <2>4, <2>5, DocumentNone DEF TypeOK
<1>3. ASSUME NEW d \in Commits, UpdateDocument(d)
      PROVE  /\ commits' \in [Commits -> Document \cup {None}]
             /\ \A c \in Commits :
                  commits[c] # None => commits'[c] # None /\ commits'[c].remote = commits[c].remote
  <2>1. update[d] \in Document /\ update[d].remote = commits[d].remote
    BY <1>3, UpdateType DEF UpdateDocument, DocsInv
  <2>2. commits' = commits \/ commits' = [commits EXCEPT ![d] = WithAuthor(update[d])]
    BY <1>3 DEF UpdateDocument
  <2> QED
    BY <2>1, <2>2, WithAuthorType, DocumentNone DEF TypeOK
<1>4. CASE UNCHANGED commits
  BY <1>4 DEF TypeOK
<1> QED
  BY <1>1, <1>2, <1>3, <1>4
     DEF Next, Begin, WriteProject, Stops, ReadProject, NextManifest, Loaded, ReadCommit, Query,
         UpdateEnds, UpdateExits, Regenerate, RegenerateEnds, Fetch, vars

LEMMA DataStep ==
  ASSUME TypeOK, DocsInv, [Next]_vars
  PROVE  DataOK'
<1>1. commits' \in [Commits -> Document \cup {None}]
  BY CommitsStep
<1>2. ASSUME NEW w \in Walkers, WriteProject(w)
      PROVE  DataOK'
  <2>1. ProjectsFields(walk[w]) /\ walk[w].item # None
    BY <1>2, WalkerIn, TypeParts DEF WriteProject
  <2>2. /\ walk[w].item \in Projects /\ walk[w].doc \in SUBSET Urls
        /\ Url[walk[w].manifest][walk[w].item] \in Urls
    BY <2>1, UrlType DEF ProjectsFields
  <2>3. remotes' \in [Projects -> SUBSET Urls]
    BY <1>2, <2>2 DEF WriteProject, WithUrl, TypeOK
  <2> QED
    BY <1>1, <1>2, <2>2, <2>3 DEF WriteProject, TypeOK, DataOK
<1>3. CASE AddCommits
  <2>1. walk["loader"].manifest \in Manifests
    BY <1>3, AddCommitsWalk
  <2>2. repos' \in [Projects -> SUBSET Urls]
    BY <1>3, <2>1, UrlType DEF AddCommits, TypeOK
  <2> QED
    BY <1>1, <1>3, <2>2 DEF AddCommits, TypeOK, DataOK
<1>4. CASE WriteCommit
  <2>1. walk["loader"].item \in Commits
    BY <1>4, WalkerIn, LoaderIn, TypeParts DEF WriteCommit, LinksFields
  <2> QED
    BY <1>1, <1>4, <2>1 DEF WriteCommit, TypeOK, DataOK
<1>5. CASE Query
  <2>1. update' \in [{d \in Commits : commits[d] # None} -> Document]
    BY <1>5 DEF Query, TypeOK
  <2> QED
    BY <1>1, <1>5, <2>1 DEF Query, TypeOK, DataOK
<1>6. ASSUME NEW c \in Commits, UpdateDocument(c)
      PROVE  DataOK'
  <2>1. update[c] \in Document /\ ProjectOf[c] \in Projects
    BY <1>6, UpdateType, BuildDBScriptsAssumption DEF UpdateDocument
  <2>2. repos' \in [Projects -> SUBSET Urls] /\ met' \subseteq Commits
    BY <1>6, <2>1 DEF UpdateDocument, TypeOK, Document
  <2>3. update' \in [(DOMAIN update) \ {c} -> Document] /\ (DOMAIN update) \ {c} \in SUBSET Commits
    BY <1>6, UpdateType DEF UpdateDocument, Rest
  <2> QED
    BY <1>1, <1>6, <2>2, <2>3 DEF UpdateDocument, TypeOK, DataOK
<1>7. CASE Regenerate \/ RegenerateEnds
  BY <1>1, <1>7 DEF Regenerate, RegenerateEnds, TypeOK, DataOK
<1>8. ASSUME NEW p \in Projects, Fetch(p)
      PROVE  DataOK'
  BY <1>1, <1>8 DEF Fetch, ToFetch, TypeOK, DataOK
<1>9. CASE UpdateEnds \/ UpdateExits
  BY <1>1, <1>9 DEF UpdateEnds, UpdateExits, TypeOK, DataOK
<1>10. CASE UNCHANGED <<remotes, repos, update, fetching, lost, met, skipped>>
  BY <1>1, <1>10 DEF TypeOK, DataOK
<1> QED
  BY <1>2, <1>3, <1>4, <1>5, <1>6, <1>7, <1>8, <1>9, <1>10
     DEF Next, Begin, Stops, ReadProject, NextManifest, Loaded, ReadCommit, vars

LEMMA WalkersStep ==
  ASSUME TypeOK, DocsInv, [Next]_vars
  PROVE  WalkersOK'
<1>1. ASSUME NEW w \in Walkers, Begin(w) \/ WriteProject(w) \/ Stops(w) \/ \E p \in Projects : ReadProject(w, p)
      PROVE  WalkersOK'
  BY <1>1, TypeParts, BeginWalk, WriteProjectWalk, StopsWalk, StartWalk, ReadProjectWalk DEF Moves
<1>2. CASE NextManifest \/ AddCommits \/ WriteCommit \/ Loaded
  BY <1>2, NextManifestWalk, AddCommitsWalk, WriteCommitWalk, LoadedWalk, StartWalk, LoaderIn DEF Moves
<1>3. CASE \E c \in Commits : ReadCommit(c)
  <2>1. PICK c \in Commits : ReadCommit(c)
    BY <1>3
  <2>2. commits[c] \in Document
    BY <2>1 DEF ReadCommit, DocsInv, TypeOK
  <2> QED
    BY <2>1, <2>2, ReadCommitWalk DEF Moves
<1>4. CASE UNCHANGED walk
  BY <1>4, TypeParts DEF WalkersOK
<1> QED
  BY <1>1, <1>2, <1>3, <1>4
     DEF Next, UpdateDocument, Query, UpdateEnds, UpdateExits, Regenerate, RegenerateEnds, Fetch, vars

LEMMA NextTypeOK == TypeOK /\ DocsInv /\ [Next]_vars => TypeOK'
<1> SUFFICES ASSUME TypeOK, DocsInv, [Next]_vars PROVE TypeOK'
  OBVIOUS
<1> QED
  BY DataStep, WalkersStep DEF TypeOK, DataOK, WalkersOK

LEMMA NextDocsInv == TypeOK /\ DocsInv /\ [Next]_vars => DocsInv'
<1> SUFFICES ASSUME TypeOK, DocsInv, [Next]_vars PROVE DocsInv'
  OBVIOUS
<1> DEFINE l == walk["loader"]
           Loader == l.pc = "links" =>
                       /\ \A c \in l.todo : commits[c] # None
                       /\ \A c \in Commits : c = l.item => l.doc.remote = commits[c].remote
           Update == update # None =>
                       \A c \in DOMAIN update : commits[c] # None /\ update[c].remote = commits[c].remote
<1>0. \A c \in Commits :
        commits[c] # None => commits'[c] # None /\ commits'[c].remote = commits[c].remote
  BY CommitsStep
<1>1. Loader'
  <2>1. CASE UNCHANGED walk
    <3>1. l.pc = "links" => LinksFields(l)
      BY WalkerIn, LoaderIn, TypeParts
    <3>2. l.pc = "links" => \A c \in Commits : c = l.item => commits[c] # None
      BY <3>1, DocumentNone DEF DocsInv, LinksFields
    <3>3. l.pc = "links" => l.todo \subseteq Commits
      BY <3>1 DEF LinksFields
    <3> QED
      BY <1>0, <2>1, <3>2, <3>3 DEF DocsInv
  <2>2. CASE \E w \in Walkers : Begin(w) \/ WriteProject(w) \/ Stops(w) \/ \E p \in Projects : ReadProject(w, p)
    <3>1. PICK w \in Walkers : Begin(w) \/ WriteProject(w) \/ Stops(w) \/ \E p \in Projects : ReadProject(w, p)
      BY <2>2
    <3>2. walk'[w].pc # "links" /\ \A o \in Walkers \ {w} : walk'[o] = walk[o]
      BY <3>1, TypeParts, BeginWalk, WriteProjectWalk, StopsWalk, StartWalk, ReadProjectWalk DEF Moves
    <3>3. UNCHANGED commits
      BY <3>1 DEF Begin, WriteProject, Stops, ReadProject
    <3> QED
      BY <3>2, <3>3, LoaderIn DEF DocsInv
  <2>3. CASE NextManifest
    <3>1. walk'["loader"] = walk["loader"]
      BY <2>3, NextManifestWalk, StartWalk, LoaderIn DEF Moves
    <3> QED
      BY <2>3, <3>1 DEF NextManifest, DocsInv
  <2>4. CASE AddCommits
    <3>1. /\ walk'["loader"].todo = New[walk["loader"].manifest] /\ walk'["loader"].item = None
          /\ walk["loader"].manifest \in Manifests
      BY <2>4, AddCommitsWalk DEF Moves
    <3>2. \A c \in New[walk["loader"].manifest] : commits'[c] # None
      <4>1. \A c \in New[walk["loader"].manifest] : c \in Commits
        BY <3>1, BuildDBScriptsAssumption
      <4>2. \A c \in Commits :
              [in_build |-> {}, author |-> TRUE, remote |-> Url[walk["loader"].manifest][ProjectOf[c]]] # None
        BY <3>1, NewDocumentType, DocumentNone
      <4> QED
        BY <2>4, <4>1, <4>2 DEF AddCommits
    <3> QED
      BY <3>1, <3>2, DocumentNone
  <2>5. CASE \E c \in Commits : ReadCommit(c)
    <3>1. PICK c \in Commits : ReadCommit(c)
      BY <2>5
    <3>2. /\ c \in l.todo /\ l.pc = "links" /\ UNCHANGED commits
      BY <3>1 DEF ReadCommit
    <3>3. commits[c] \in Document
      BY <3>2 DEF DocsInv, TypeOK
    <3>4. walk'["loader"].item = c /\ walk'["loader"].doc = commits[c] /\ walk'["loader"].todo = l.todo
      BY <3>1, <3>3, ReadCommitWalk DEF Moves
    <3> QED
      BY <3>2, <3>4 DEF DocsInv
  <2>6. CASE WriteCommit
    <3>1. /\ walk'["loader"].todo = l.todo \ {l.item} /\ walk'["loader"].item = None
      BY <2>6, WriteCommitWalk DEF Moves
    <3>2. l.pc = "links" /\ l.todo \subseteq Commits
      BY <2>6, WalkerIn, LoaderIn, TypeParts DEF WriteCommit, LinksFields
    <3> QED
      BY <1>0, <3>1, <3>2, DocumentNone DEF DocsInv
  <2>7. CASE Loaded
    <3>1. walk'["loader"].pc = "idle"
      BY <2>7, LoadedWalk, StartWalk, LoaderIn DEF Moves
    <3> QED
      BY <3>1
  <2> QED
    BY <2>1, <2>2, <2>3, <2>4, <2>5, <2>6, <2>7
       DEF Next, UpdateDocument, Query, UpdateEnds, UpdateExits, Regenerate, RegenerateEnds, Fetch, vars
<1>2. Update'
  <2>1. CASE UNCHANGED update
    BY <1>0, <2>1, UpdateType DEF DocsInv
  <2>2. CASE Query
    <3>1. update' = [c \in {d \in Commits : commits[d] # None} |-> commits[c]] /\ UNCHANGED commits
      BY <2>2 DEF Query
    <3>2. \A c \in DOMAIN update' : commits[c] # None /\ update'[c] = commits[c]
      BY <3>1
    <3> QED
      BY <3>1, <3>2
  <2>3. CASE \E c \in Commits : UpdateDocument(c)
    <3>1. PICK c \in Commits : UpdateDocument(c)
      BY <2>3
    <3>2. update # None /\ update' = [d \in (DOMAIN update) \ {c} |-> update[d]]
      BY <3>1 DEF UpdateDocument, Rest
    <3> QED
      BY <1>0, <3>2, UpdateType DEF DocsInv
  <2>4. CASE UpdateEnds \/ UpdateExits
    BY <2>4 DEF UpdateEnds, UpdateExits
  <2> QED
    BY <2>1, <2>2, <2>3, <2>4
       DEF Next, Begin, WriteProject, Stops, ReadProject, NextManifest, AddCommits, WriteCommit, Loaded,
           ReadCommit, Regenerate, RegenerateEnds, Fetch, vars
<1> QED
  BY <1>1, <1>2 DEF DocsInv

\* Every variable keeps its type: no writer makes a commit document without having
\* read one (update_build_commit_documents, add_author_to_commit).
THEOREM TypeCorrect == Spec => []TypeOK
BY InitType, NextTypeOK, NextDocsInv, PTL DEF Spec

-----------------------------------------------------------------------------
\* The URLs of the commits are in the project documents.

Known(p, url) == url \in remotes[p] \/ p \in lost

\* The loader has added the URLs of the projects that it has come to.
Added ==
  walk["loader"].pc = "projects" =>
    \A p \in Projects \ walk["loader"].todo : Known(p, Url[walk["loader"].manifest][p])

LEMMA KnownStays ==
  ASSUME TypeOK, [Next]_vars, NEW p \in Projects, NEW url, Known(p, url)
  PROVE  Known(p, url)'
<1>1. ASSUME NEW w \in Walkers, WriteProject(w)
      PROVE  Known(p, url)'
  <2>1. \/ remotes'[p] = remotes[p]
        \/ remotes'[p] = walk[w].doc \cup {Url[walk[w].manifest][p]} /\ remotes[p] = walk[w].doc
        \/ p \in lost'
    BY <1>1 DEF WriteProject, WithUrl, TypeOK
  <2>2. lost \subseteq lost'
    BY <1>1 DEF WriteProject
  <2> QED
    BY <2>1, <2>2 DEF Known
<1>2. CASE UNCHANGED <<remotes, lost>>
  BY <1>2 DEF Known
<1> QED
  BY <1>1, <1>2
     DEF Next, Begin, Stops, ReadProject, NextManifest, AddCommits, WriteCommit, Loaded, ReadCommit,
         UpdateDocument, Query, UpdateEnds, UpdateExits, Regenerate, RegenerateEnds, Fetch, vars

LEMMA NextAdded == TypeOK /\ DocsInv /\ Added /\ [Next]_vars => Added'
<1> SUFFICES ASSUME TypeOK, DocsInv, Added, [Next]_vars PROVE Added'
  OBVIOUS
<1> DEFINE l == walk["loader"]
<1>1. CASE UNCHANGED walk
  BY <1>1, KnownStays DEF Added
<1>2. ASSUME NEW w \in Walkers, Begin(w) \/ Stops(w) \/ \E p \in Projects : ReadProject(w, p)
      PROVE  Added'
  <2>1. CASE w = "loader"
    <3>1. CASE Begin(w)
      BY <2>1, <3>1, BeginWalk, TypeParts DEF Moves, Added
    <3>2. CASE Stops(w)
      BY <1>2, <2>1, <3>2, StopsWalk, StartWalk DEF Moves, Added
    <3>3. CASE \E p \in Projects : ReadProject(w, p)
      <4>1. walk'[w].todo = walk[w].todo /\ walk'[w].manifest = walk[w].manifest /\ walk[w].pc = "projects"
        BY <3>3, ReadProjectWalk DEF Moves, ReadProject
      <4> QED
        BY <2>1, <4>1, KnownStays DEF Added
    <3> QED
      BY <1>2, <3>1, <3>2, <3>3
  <2>2. CASE w # "loader"
    <3>1. walk'["loader"] = walk["loader"]
      BY <1>2, <2>2, LoaderIn, BeginWalk, StopsWalk, StartWalk, ReadProjectWalk, TypeParts DEF Moves
    <3> QED
      BY <3>1, KnownStays DEF Added
  <2> QED
    BY <2>1, <2>2
<1>3. ASSUME NEW w \in Walkers, WriteProject(w)
      PROVE  Added'
  <2>1. CASE w = "loader"
    <3>1. /\ walk'["loader"].todo = l.todo \ {l.item} /\ walk'["loader"].manifest = l.manifest
          /\ l.pc = "projects" /\ ProjectsFields(l) /\ l.item # None
      BY <1>3, <2>1, WriteProjectWalk, WalkerIn, LoaderIn, TypeParts DEF Moves, WriteProject
    <3>2. l.item \in Projects
      BY <3>1 DEF ProjectsFields
    <3>3. Url[l.manifest][l.item] \in remotes'[l.item]
      BY <1>3, <2>1, <3>2 DEF WriteProject, WithUrl, TypeOK
    <3>4. \A p \in Projects \ l.todo : Known(p, Url[l.manifest][p])'
                                        \/ walk'["loader"].manifest # l.manifest
      BY <3>1, KnownStays DEF Added
    <3> QED
      BY <3>1, <3>3, KnownStays DEF Added, Known
  <2>2. CASE w # "loader"
    <3>1. walk'["loader"] = walk["loader"]
      BY <1>3, <2>2, LoaderIn, WriteProjectWalk DEF Moves
    <3> QED
      BY <3>1, KnownStays DEF Added
  <2> QED
    BY <2>1, <2>2
<1>4. CASE NextManifest
  <2>1. walk'["loader"] = walk["loader"]
    BY <1>4, NextManifestWalk, StartWalk, LoaderIn DEF Moves
  <2> QED
    BY <2>1, KnownStays DEF Added
<1>5. CASE AddCommits \/ WriteCommit \/ Loaded \/ \E c \in Commits : ReadCommit(c)
  <2>1. \A c \in Commits : ReadCommit(c) => commits[c] \in Document
    BY DEF ReadCommit, DocsInv, TypeOK
  <2>2. walk'["loader"].pc # "projects"
    BY <1>5, <2>1, AddCommitsWalk, WriteCommitWalk, LoadedWalk, StartWalk, ReadCommitWalk, LoaderIn DEF Moves
  <2> QED
    BY <2>2 DEF Added
<1> QED
  BY <1>1, <1>2, <1>3, <1>4, <1>5
     DEF Next, UpdateDocument, Query, UpdateEnds, UpdateExits, Regenerate, RegenerateEnds, Fetch, vars

LEMMA InitKnown == Init => Added /\ RemoteKnown
<1> SUFFICES ASSUME Init PROVE Added /\ RemoteKnown
  OBVIOUS
<1>1. Added
  BY LoaderIn, StartFields DEF Init, Added
<1>2. ASSUME NEW c \in Commits, commits[c] # None
      PROVE  commits[c].remote \in remotes[ProjectOf[c]]
  <2>1. c \in Old /\ commits[c].remote = Url[1][ProjectOf[c]] /\ ProjectOf[c] \in Projects
    BY <1>2, BuildDBScriptsAssumption DEF Init
  <2>2. remotes[ProjectOf[c]] = {Url[1][ProjectOf[d]] : d \in {o \in Old : ProjectOf[o] = ProjectOf[c]}}
    BY <2>1 DEF Init
  <2> QED
    BY <2>1, <2>2
<1> QED
  BY <1>1, <1>2 DEF RemoteKnown

\* A commit document that was not there is one that the loader adds.
LEMMA OnlyAdded ==
  ASSUME TypeOK, DocsInv, [Next]_vars, NEW c \in Commits, commits[c] = None, commits'[c] # None
  PROVE  AddCommits
<1>1. ~WriteCommit
  <2> SUFFICES ASSUME WriteCommit PROVE FALSE
    OBVIOUS
  <2>1. LinksFields(walk["loader"]) /\ walk["loader"].item # None
    BY WalkerIn, LoaderIn, TypeParts DEF WriteCommit
  <2>2. commits'[c] = commits[c] \/ c = walk["loader"].item
    BY DEF WriteCommit, TypeOK
  <2> QED
    BY <2>1, <2>2 DEF LinksFields, DocsInv, WriteCommit
<1>2. \A d \in Commits : UpdateDocument(d) => commits'[c] = commits[c]
  <2> SUFFICES ASSUME NEW d \in Commits, UpdateDocument(d) PROVE commits'[c] = commits[c]
    OBVIOUS
  <2>1. commits[d] # None
    BY DEF UpdateDocument, DocsInv
  <2>2. commits' = commits \/ commits' = [commits EXCEPT ![d] = WithAuthor(update[d])]
    BY DEF UpdateDocument
  <2> QED
    BY <2>1, <2>2 DEF TypeOK
<1> QED
  BY <1>1, <1>2
     DEF Next, Begin, WriteProject, Stops, ReadProject, NextManifest, Loaded, ReadCommit, Query,
         UpdateEnds, UpdateExits, Regenerate, RegenerateEnds, Fetch, vars

LEMMA NextRemoteKnown == TypeOK /\ DocsInv /\ Added /\ RemoteKnown /\ [Next]_vars => RemoteKnown'
<1> SUFFICES ASSUME TypeOK, DocsInv, Added, RemoteKnown, [Next]_vars,
                    NEW c \in Commits, commits'[c] # None
             PROVE  commits'[c].remote \in remotes'[ProjectOf[c]] \/ ProjectOf[c] \in lost'
  BY DEF RemoteKnown
<1>1. ProjectOf[c] \in Projects
  BY BuildDBScriptsAssumption
<1>2. CASE commits[c] # None
  <2>1. commits'[c].remote = commits[c].remote
    BY <1>2, CommitsStep
  <2>2. Known(ProjectOf[c], commits[c].remote)
    BY <1>2 DEF RemoteKnown, Known
  <2> QED
    BY <1>1, <2>1, <2>2, KnownStays DEF Known
<1>3. CASE commits[c] = None
  <2>1. AddCommits
    BY <1>3, OnlyAdded
  <2>2. commits'[c].remote = Url[walk["loader"].manifest][ProjectOf[c]]
    BY <1>3, <2>1 DEF AddCommits
  <2>3. walk["loader"].pc = "projects" /\ walk["loader"].todo = {}
    BY <2>1 DEF AddCommits
  <2>4. Known(ProjectOf[c], Url[walk["loader"].manifest][ProjectOf[c]])
    BY <1>1, <2>3 DEF Added
  <2> QED
    BY <1>1, <2>2, <2>4, KnownStays DEF Known
<1> QED
  BY <1>2, <1>3

\* The URL in a commit document is in that of its project (get_remote), whatever
\* else writes the project documents, unless two that write them have met over it.
THEOREM RemoteCorrect == Spec => []RemoteKnown
BY InitType, NextTypeOK, NextDocsInv, InitKnown, NextAdded, NextRemoteKnown, PTL DEF Spec

-----------------------------------------------------------------------------
\* What is in a commit document stays there, unless two that write it have met.

LEMMA DocStays ==
  ASSUME TypeOK, DocsInv, [Next]_vars, NEW c \in Commits, commits[c] # None, c \notin met'
  PROVE  /\ c \notin met /\ commits'[c] # None
         /\ commits[c].in_build \subseteq commits'[c].in_build
         /\ commits[c].author => commits'[c].author
<1>0. commits'[c] # None /\ commits[c] \in Document
  BY CommitsStep DEF TypeOK
<1>1. CASE WriteCommit
  <2> DEFINE l == walk["loader"]
  <2>1. LinksFields(l) /\ l.item # None
    BY <1>1, WalkerIn, LoaderIn, TypeParts DEF WriteCommit
  <2>2. l.item \in Commits /\ l.doc \in Document /\ l.manifest \in Manifests
    BY <2>1 DEF LinksFields
  <2>3. c \notin met /\ (c = l.item => commits[c] = l.doc)
    BY <1>1 DEF WriteCommit
  <2>4. commits'[c] = IF c = l.item THEN WithBuild(l.doc, l.manifest) ELSE commits[c]
    BY <1>1 DEF WriteCommit, TypeOK
  <2> HIDE DEF l
  <2> QED
    BY <1>0, <2>2, <2>3, <2>4, WithBuildType
<1>2. ASSUME NEW d \in Commits, UpdateDocument(d)
      PROVE  /\ c \notin met /\ commits[c].in_build \subseteq commits'[c].in_build
             /\ commits[c].author => commits'[c].author
  <2>1. update[d] \in Document
    BY <1>2, UpdateType DEF UpdateDocument
  <2>2. CASE UNCHANGED <<commits, met>>
    BY <2>2
  <2>3. CASE /\ commits' = [commits EXCEPT ![d] = WithAuthor(update[d])]
             /\ met' = IF commits[d] = update[d] THEN met ELSE met \cup {d}
    <3>1. c \notin met /\ (c = d => commits[c] = update[d])
      BY <2>3
    <3>2. commits'[c] = IF c = d THEN WithAuthor(update[d]) ELSE commits[c]
      BY <2>3 DEF TypeOK
    <3> QED
      BY <2>1, <3>1, <3>2, WithAuthorType
  <2> QED
    BY <1>2, <2>2, <2>3 DEF UpdateDocument
<1>3. CASE AddCommits
  BY <1>3 DEF AddCommits
<1>4. CASE UNCHANGED <<commits, met>>
  BY <1>4
<1> QED
  BY <1>0, <1>1, <1>2, <1>3, <1>4
     DEF Next, Begin, WriteProject, Stops, ReadProject, NextManifest, Loaded, ReadCommit, Query,
         UpdateEnds, UpdateExits, Regenerate, RegenerateEnds, Fetch, vars

LEMMA MetStays == ASSUME [Next]_vars PROVE met \subseteq met'
BY DEF Next, Begin, WriteProject, Stops, ReadProject, NextManifest, AddCommits, WriteCommit, Loaded,
       ReadCommit, UpdateDocument, Query, UpdateEnds, UpdateExits, Regenerate, RegenerateEnds, Fetch, vars

\* The builds in the documents of the commits the loader has come to.
Linked(m, c) == commits[c] # None /\ (m \in commits[c].in_build \/ c \in met)

Done(m, c) ==
  \/ m < walk["loader"].manifest
  \/ m = walk["loader"].manifest /\ walk["loader"].pc = "links" /\ c \notin walk["loader"].todo

LinkInv == \A m \in Manifests : \A c \in New[m] : Done(m, c) => Linked(m, c)

LEMMA LinkStays ==
  ASSUME TypeOK, DocsInv, [Next]_vars, NEW m, NEW c \in Commits, Linked(m, c)
  PROVE  Linked(m, c)'
<1>1. commits'[c] # None
  BY CommitsStep DEF Linked
<1> QED
  BY <1>1, DocStays, MetStays DEF Linked

LEMMA InitLinkInv == Init => LinkInv
<1> SUFFICES ASSUME Init PROVE LinkInv
  OBVIOUS
<1>1. walk["loader"].pc = "idle" /\ walk["loader"].manifest = 1
  BY LoaderIn, StartFields DEF Init
<1>2. \A m \in Manifests : ~(m < 1)
  BY DEF Manifests
<1> QED
  BY <1>1, <1>2 DEF LinkInv, Done

LEMMA NextLinkInv == TypeOK /\ DocsInv /\ LinkInv /\ [Next]_vars => LinkInv'
<1> SUFFICES ASSUME TypeOK, DocsInv, LinkInv, [Next]_vars,
                    NEW m \in Manifests, NEW c \in New[m], Done(m, c)'
             PROVE  Linked(m, c)'
  BY DEF LinkInv
<1> DEFINE l == walk["loader"]
<1>1. c \in Commits
  BY BuildDBScriptsAssumption
<1>2. CASE Done(m, c)
  BY <1>1, <1>2, LinkStays DEF LinkInv
<1>3. CASE ~Done(m, c)
  <2>1. WriteCommit \/ Loaded
    <3>1. ASSUME NEW w \in Walkers, Begin(w) \/ WriteProject(w) \/ Stops(w) \/ \E p \in Projects : ReadProject(w, p)
          PROVE  Done(m, c)
      <4>1. CASE w = "loader"
        <5>1. walk'["loader"].manifest = l.manifest /\ walk'["loader"].pc # "links"
          BY <3>1, <4>1, TypeParts, BeginWalk, WriteProjectWalk, StopsWalk, StartWalk, ReadProjectWalk DEF Moves
        <5> QED
          BY <5>1 DEF Done
      <4>2. CASE w # "loader"
        <5>1. walk'["loader"] = walk["loader"]
          BY <3>1, <4>2, LoaderIn, TypeParts, BeginWalk, WriteProjectWalk, StopsWalk, StartWalk, ReadProjectWalk
             DEF Moves
        <5> QED
          BY <5>1 DEF Done
      <4> QED
        BY <4>1, <4>2
    <3>2. ~NextManifest
      <4> SUFFICES ASSUME NextManifest PROVE FALSE
        OBVIOUS
      <4>1. walk'["loader"] = walk["loader"]
        BY NextManifestWalk, StartWalk, LoaderIn DEF Moves
      <4> QED
        BY <1>3, <4>1 DEF Done
    <3>3. ~AddCommits
      <4> SUFFICES ASSUME AddCommits PROVE FALSE
        OBVIOUS
      <4>1. walk'["loader"].manifest = l.manifest /\ walk'["loader"].todo = New[l.manifest]
        BY AddCommitsWalk DEF Moves
      <4> QED
        BY <1>3, <4>1 DEF Done
    <3>4. \A d \in Commits : ~ReadCommit(d)
      <4> SUFFICES ASSUME NEW d \in Commits, ReadCommit(d) PROVE FALSE
        OBVIOUS
      <4>1. commits[d] \in Document
        BY DEF ReadCommit, DocsInv, TypeOK
      <4>2. /\ walk'["loader"].manifest = l.manifest /\ walk'["loader"].todo = l.todo
            /\ l.pc = "links"
        BY <4>1, ReadCommitWalk DEF Moves, ReadCommit
      <4> QED
        BY <1>3, <4>2 DEF Done
    <3>5. walk' # walk
      BY <1>3 DEF Done
    <3> QED
      BY <1>3, <3>1, <3>2, <3>3, <3>4, <3>5
         DEF Next, UpdateDocument, Query, UpdateEnds, UpdateExits, Regenerate, RegenerateEnds, Fetch, vars
  <2>2. CASE WriteCommit
    <3>1. /\ walk'["loader"].todo = l.todo \ {l.item} /\ walk'["loader"].manifest = l.manifest
          /\ LinksFields(l)
      BY <2>2, WriteCommitWalk, WalkerIn, LoaderIn, TypeParts DEF Moves, WriteCommit
    <3>2. c = l.item /\ m = l.manifest
      BY <1>3, <3>1 DEF Done, LinksFields
    <3>3. l.doc \in Document
      BY <3>1, <3>2, <1>1, DocumentNone DEF LinksFields
    <3>4. commits'[c] = WithBuild(l.doc, m)
      BY <1>1, <2>2, <3>2 DEF WriteCommit, TypeOK
    <3>5. WithBuild(l.doc, m) # None /\ m \in WithBuild(l.doc, m).in_build
      BY <3>3, WithBuildType, DocumentNone
    <3> QED
      BY <3>4, <3>5 DEF Linked
  <2>3. CASE Loaded
    <3>1. l.manifest \in Manifests /\ walk'["loader"].manifest = l.manifest + 1 /\ walk'["loader"].pc = "idle"
      BY <2>3, LoadedWalk, StartWalk, LoaderIn DEF Moves
    <3>2. m < l.manifest + 1
      BY <3>1 DEF Done
    <3>3. m < l.manifest \/ m = l.manifest
      BY <3>1, <3>2, BuildDBScriptsAssumption DEF Manifests
    <3> QED
      BY <1>3, <2>3, <3>3 DEF Loaded, Done
  <2> QED
    BY <2>1, <2>2, <2>3
<1> QED
  BY <1>2, <1>3

\* A build that is loaded is named by each of its commits (update_build_commit_documents),
\* unless the schema update has written the commit back meanwhile.
THEOREM LinksCorrect == Spec => []LinksKept
<1>1. LinkInv => LinksKept
  BY DEF LinkInv, LinksKept, Done, Linked
<1> QED
  BY <1>1, InitType, NextTypeOK, NextDocsInv, InitLinkInv, NextLinkInv, PTL DEF Spec

-----------------------------------------------------------------------------
\* The key that the schema update adds.

AuthorInv ==
  update # None =>
    \A c \in Commits \ met :
      commits[c] # None /\ (c \in DOMAIN update => update[c].author) => commits[c].author

LEMMA NextAuthorInv == TypeOK /\ DocsInv /\ AuthorInv /\ [Next]_vars => AuthorInv'
<1> SUFFICES ASSUME TypeOK, DocsInv, AuthorInv, [Next]_vars, update' # None,
                    NEW c \in Commits, c \notin met', commits'[c] # None,
                    c \in DOMAIN update' => update'[c].author
             PROVE  commits'[c].author
  BY DEF AuthorInv
<1>1. CASE commits[c] = None
  <2>1. AddCommits
    BY <1>1, OnlyAdded
  <2> QED
    BY <1>1, <2>1 DEF AddCommits
<1>2. CASE commits[c] # None
  <2>1. c \notin met /\ (commits[c].author => commits'[c].author)
    BY <1>2, DocStays
  <2>2. CASE Query
    BY <1>2, <2>1, <2>2 DEF Query
  <2>3. ASSUME NEW d \in Commits, UpdateDocument(d)
        PROVE  commits'[c].author
    <3>1. update # None /\ update' = [e \in (DOMAIN update) \ {d} |-> update[e]] /\ update[d] \in Document
      BY <2>3, UpdateType DEF UpdateDocument, Rest
    <3>2. CASE c = d /\ ~update[d].author
      <4>1. commits'[c] = WithAuthor(update[d])
        BY <2>3, <3>2 DEF UpdateDocument, TypeOK
      <4> QED
        BY <3>1, <4>1, WithAuthorType
    <3>3. CASE c = d /\ update[d].author
      BY <1>2, <2>1, <3>1, <3>3 DEF AuthorInv
    <3>4. CASE c # d
      BY <1>2, <2>1, <3>1, <3>4 DEF AuthorInv
    <3> QED
      BY <3>2, <3>3, <3>4
  <2>4. CASE UNCHANGED update
    BY <1>2, <2>1, <2>4 DEF AuthorInv
  <2> QED
    BY <2>2, <2>3, <2>4
       DEF Next, Begin, WriteProject, Stops, ReadProject, NextManifest, AddCommits, WriteCommit, Loaded,
           ReadCommit, UpdateEnds, UpdateExits, Regenerate, RegenerateEnds, Fetch, vars
<1> QED
  BY <1>1, <1>2

\* A schema update that runs to its end leaves no commit without the new key
\* (add_author_to_commit.py:38-128), but those that the loader wrote back meanwhile.
THEOREM AuthorsCorrect == Spec => AuthorsAdded
<1>1. Init => AuthorInv
  BY DEF Init, AuthorInv
<1>2. TypeOK /\ AuthorInv /\ [Next]_vars =>
        (UpdateEnds => \A c \in Commits \ met : commits[c] # None => commits[c].author)
  BY DEF UpdateEnds, AuthorInv
<1> QED
  BY <1>1, <1>2, InitType, NextTypeOK, NextDocsInv, NextAuthorInv, PTL DEF Spec, AuthorsAdded

-----------------------------------------------------------------------------
\* What regenerate_repositories.py has fetched.

FetchInv ==
  fetching # None =>
    \A c \in Commits : commits[c] # None /\ ProjectOf[c] \notin fetching =>
      \/ commits[c].remote \in repos[ProjectOf[c]] \cup skipped[ProjectOf[c]]
      \/ ProjectOf[c] \in lost

LEMMA NextFetchInv == TypeOK /\ DocsInv /\ RemoteKnown /\ FetchInv /\ [Next]_vars => FetchInv'
<1> SUFFICES ASSUME TypeOK, DocsInv, RemoteKnown, FetchInv, [Next]_vars, fetching' # None,
                    NEW c \in Commits, commits'[c] # None, ProjectOf[c] \notin fetching'
             PROVE  \/ commits'[c].remote \in repos'[ProjectOf[c]] \cup skipped'[ProjectOf[c]]
                    \/ ProjectOf[c] \in lost'
  BY DEF FetchInv
<1>1. PICK p \in Projects : p = ProjectOf[c]
  BY BuildDBScriptsAssumption
<1>2. CASE commits[c] = None
  <2>1. AddCommits
    BY <1>2, OnlyAdded
  <2> QED
    BY <1>1, <1>2, <2>1 DEF AddCommits
<1>3. CASE commits[c] # None
  <2>1. commits'[c].remote = commits[c].remote
    BY <1>3, CommitsStep
  <2>2. commits[c].remote \in remotes[p] \/ p \in lost
    BY <1>1, <1>3 DEF RemoteKnown
  <2>3. lost \subseteq lost'
    BY DEF Next, Begin, WriteProject, Stops, ReadProject, NextManifest, AddCommits, WriteCommit, Loaded,
           ReadCommit, UpdateDocument, Query, UpdateEnds, UpdateExits, Regenerate, RegenerateEnds, Fetch, vars
  <2>4. CASE Regenerate
    <3>1. remotes[p] = {}
      BY <1>1, <2>4 DEF Regenerate
    <3> QED
      BY <1>1, <2>2, <2>3, <3>1
  <2>5. ASSUME NEW q \in Projects, Fetch(q), q = p
        PROVE  commits[c].remote \in repos'[p] \cup skipped'[p] \/ p \in lost
    <3>1. remotes[p] \subseteq repos'[p] \cup skipped'[p]
      BY <2>5 DEF Fetch, ToFetch, TypeOK
    <3> QED
      BY <2>2, <3>1
  <2>6. CASE RegenerateEnds
    BY <2>6 DEF RegenerateEnds
  <2>7. CASE /\ repos[p] \subseteq repos'[p] /\ skipped'[p] = skipped[p] /\ fetching # None
             /\ p \in fetching => p \in fetching'
    BY <1>1, <1>3, <2>1, <2>3, <2>7 DEF FetchInv
  <2>8. ASSUME NEW q \in Projects, Fetch(q), q # p
        PROVE  /\ repos[p] \subseteq repos'[p] /\ skipped'[p] = skipped[p] /\ fetching # None
               /\ p \in fetching => p \in fetching'
    BY <2>8 DEF Fetch, TypeOK
  <2>9. CASE AddCommits \/ \E d \in Commits : UpdateDocument(d)
    <3>1. repos[p] \subseteq repos'[p]
      BY <2>9 DEF AddCommits, UpdateDocument, TypeOK
    <3> QED
      BY <2>7, <2>9, <3>1 DEF AddCommits, UpdateDocument
  <2>10. CASE UNCHANGED <<repos, skipped, fetching>>
    BY <2>7, <2>10
  <2> QED
    BY <1>1, <2>1, <2>3, <2>4, <2>5, <2>6, <2>7, <2>8, <2>9, <2>10
       DEF Next, Begin, WriteProject, Stops, ReadProject, NextManifest, WriteCommit, Loaded,
           ReadCommit, Query, UpdateEnds, UpdateExits, vars
<1> QED
  BY <1>2, <1>3

\* After regenerate_repositories each repository has been fetched from where its
\* commits came from, unless that is no longer valid or was lost
\* (regenerate_repositories.py:44-92).
THEOREM RepositoriesCorrect == Spec => RepositoriesBack
<1>1. Init => FetchInv
  BY DEF Init, FetchInv
<1>2. FetchInv =>
        (RegenerateEnds =>
           \A c \in Commits : commits[c] # None =>
             LET p == ProjectOf[c] IN
             commits[c].remote \in repos[p] \cup skipped[p] \/ p \in lost)
  BY DEF RegenerateEnds, FetchInv
<1> QED
  BY <1>1, <1>2, InitType, NextTypeOK, NextDocsInv, InitKnown, NextAdded, NextRemoteKnown, NextFetchInv, PTL
     DEF Spec, RepositoriesBack
=============================================================================
