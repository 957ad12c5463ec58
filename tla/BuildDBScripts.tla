--------------------------- MODULE BuildDBScripts ---------------------------
(***************************************************************************)
(* The project and commit documents of the build database, with all that   *)
(* writes them: the loader, and the scripts that are run by hand beside    *)
(* it, generate_projects.py (project documents of all manifests),          *)
(* update_build_database.py with add_author_to_commit (a new key in old    *)
(* commit documents) and regenerate_repositories.py (repositories from     *)
(* the project documents).  No two of them know of each other, and each    *)
(* writes back documents that it has read before.                          *)
(*                                                                         *)
(* The loader is the one of BuildDBLoader, reduced to what it does to      *)
(* these documents.  A URL stands for a remote with its name, and every    *)
(* project is taken to be in every manifest.                               *)
(***************************************************************************)
EXTENDS Naturals

CONSTANTS
  Projects,
  Commits,
  ProjectOf,  \* the project of each commit
  Last,       \* manifests are numbered 1..Last, and builds likewise
  Url,        \* of each project in each manifest
  New,        \* the commits that are linked with each build
  Old,        \* commits whose documents are from before there was the new key
  None

Manifests == 1..Last
Urls == {Url[m][p] : m \in Manifests, p \in Projects}
Document == [in_build : SUBSET Manifests, author : BOOLEAN, remote : Urls]

ASSUME BuildDBScriptsAssumption ==
  /\ Last \in Nat \ {0}
  /\ ProjectOf \in [Commits -> Projects] /\ Old \subseteq Commits
  /\ New \in [Manifests -> SUBSET Commits]
  /\ None \notin Document \cup Projects \cup Commits

Walkers == {"loader", "generator"}

VARIABLES
  remotes,   \* the URLs in the document of each project
  commits,   \* the commit documents, None for one that is not there
  repos,     \* the URLs each repository has been fetched from
  walk,      \* the state of the two programs that walk the manifests
  update,    \* the documents the schema update has queried and not come to yet
  fetching,  \* the projects regenerate_repositories has not come to yet
  \* history
  lost,      \* projects whose document lost a URL, as two writers met
  met,       \* commits on whose document the loader and the schema update met
  skipped    \* URLs that could not be fetched, by project

vars == <<remotes, commits, repos, walk, update, fetching, lost, met, skipped>>

\* A walker is at a manifest, has `todo` left of it, and has read the document
\* `doc` of `item`.
Start(m) == [pc |-> "idle", manifest |-> m, todo |-> {}, item |-> None, doc |-> None]

Init ==
  /\ commits = [c \in Commits |->
       IF c \in Old THEN [in_build |-> {}, author |-> FALSE, remote |-> Url[1][ProjectOf[c]]]
                    ELSE None]
  /\ remotes = [p \in Projects |-> {Url[1][ProjectOf[c]] : c \in {o \in Old : ProjectOf[o] = p}}]
  /\ repos = remotes
  /\ walk = [w \in Walkers |-> Start(1)]
  /\ update = None /\ fetching = None
  /\ lost = {} /\ met = {} /\ skipped = [p \in Projects |-> {}]

-----------------------------------------------------------------------------
(* update_project_documents, of the loader and of generate_projects.py *)

Begin(w) ==
  /\ walk[w].pc = "idle" /\ walk[w].manifest \in Manifests
  /\ walk' = [walk EXCEPT ![w] = [@ EXCEPT !.pc = "projects", !.todo = Projects]]
  /\ UNCHANGED <<remotes, commits, repos, update, fetching, lost, met, skipped>>

ReadProject(w, p) ==
  /\ walk[w].pc = "projects" /\ walk[w].item = None /\ p \in walk[w].todo
  /\ walk' = [walk EXCEPT ![w] = [@ EXCEPT !.item = p, !.doc = remotes[p]]]
  /\ UNCHANGED <<remotes, commits, repos, update, fetching, lost, met, skipped>>

\* (mutated: the list of a remote is replaced, not added to)
WithUrlOnly(doc, url) == {url}

WithUrl(doc, url) == doc \cup {url}

WriteProject(w) ==
  LET s == walk[w]
      p == s.item
  IN
  /\ s.pc = "projects" /\ p # None
  /\ remotes' = [remotes EXCEPT ![p] = WithUrl(s.doc, Url[s.manifest][p])]
  /\ lost' = IF remotes[p] = s.doc THEN lost ELSE lost \cup {p}
  /\ walk' = [walk EXCEPT ![w] = [s EXCEPT !.todo = s.todo \ {p}, !.item = None, !.doc = None]]
  /\ UNCHANGED <<commits, repos, update, fetching, met, skipped>>

\* generate_projects.py goes on to the next manifest, and begins with the first
\* one when it is run again.
NextManifest ==
  LET g == walk["generator"] IN
  /\ g.pc = "projects" /\ g.todo = {}
  /\ walk' = [walk EXCEPT !["generator"] = Start(IF g.manifest = Last THEN 1 ELSE g.manifest + 1)]
  /\ UNCHANGED <<remotes, commits, repos, update, fetching, lost, met, skipped>>

-----------------------------------------------------------------------------
(* The loader, with the commits of the manifest *)

\* generate_commit_documents, which fetches the repositories first.
AddCommits ==
  LET m == walk["loader"].manifest IN
  /\ walk["loader"].pc = "projects" /\ walk["loader"].todo = {}
  /\ repos' = [p \in Projects |-> repos[p] \cup {Url[m][p]}]
  /\ commits' = [c \in Commits |->
       IF c \in New[m] /\ commits[c] = None
       THEN [in_build |-> {}, author |-> TRUE, remote |-> Url[m][ProjectOf[c]]]
       ELSE commits[c]]
  /\ walk' = [walk EXCEPT !["loader"] = [@ EXCEPT !.pc = "links", !.todo = New[m]]]
  /\ UNCHANGED <<remotes, update, fetching, lost, met, skipped>>

\* update_build_commit_documents: the document of a commit is read, and written
\* with the build.
ReadCommit(c) ==
  LET l == walk["loader"] IN
  /\ l.pc = "links" /\ l.item = None /\ c \in l.todo
  /\ walk' = [walk EXCEPT !["loader"] = [@ EXCEPT !.item = c, !.doc = commits[c]]]
  /\ UNCHANGED <<remotes, commits, repos, update, fetching, lost, met, skipped>>

\* (mutated: the builds that are there are not kept)
WithBuildOnly(doc, m) == [doc EXCEPT !.in_build = {m}]

WithBuild(doc, m) == [doc EXCEPT !.in_build = @ \cup {m}]

WriteCommit ==
  LET l == walk["loader"] IN
  /\ l.pc = "links" /\ l.item # None
  /\ commits' = [commits EXCEPT ![l.item] = WithBuild(l.doc, l.manifest)]
  /\ met' = IF commits[l.item] = l.doc THEN met ELSE met \cup {l.item}
  /\ walk' = [walk EXCEPT !["loader"] =
                [l EXCEPT !.todo = l.todo \ {l.item}, !.item = None, !.doc = None]]
  /\ UNCHANGED <<remotes, repos, update, fetching, lost, skipped>>

\* update_last_manifest
Loaded ==
  LET l == walk["loader"] IN
  /\ l.pc = "links" /\ l.todo = {}
  /\ walk' = [walk EXCEPT !["loader"] = Start(l.manifest + 1)]
  /\ UNCHANGED <<remotes, commits, repos, update, fetching, lost, met, skipped>>

\* Either program stops: the loader begins the manifest again.
Stops(w) ==
  /\ walk[w].pc # "idle"
  /\ walk' = [walk EXCEPT ![w] = Start(IF w = "loader" THEN walk[w].manifest ELSE 1)]
  /\ UNCHANGED <<remotes, commits, repos, update, fetching, lost, met, skipped>>

-----------------------------------------------------------------------------
(* update_build_database.py add_author_to_commit *)

\* The query: the documents as they are now.
Query ==
  /\ update = None
  /\ update' = [c \in {d \in Commits : commits[d] # None} |-> commits[c]]
  /\ UNCHANGED <<remotes, commits, repos, walk, fetching, lost, met, skipped>>

Rest(c) == [d \in (DOMAIN update) \ {c} |-> update[d]]

\* (mutated: the new document is made without the key)
WithAuthorLost(doc) == doc

WithAuthor(doc) == [doc EXCEPT !.author = TRUE]

\* get_remote, in the document of the project.
RemoteFound(c) == update[c].remote \in remotes[ProjectOf[c]]

\* update_documents: what it writes is, but for the author, what the query gave.
UpdateDocument(c) ==
  LET p == ProjectOf[c] IN
  /\ update # None /\ c \in DOMAIN update
  /\ update' = Rest(c)
  /\ IF update[c].author
     THEN UNCHANGED <<commits, repos, met>>
     ELSE /\ RemoteFound(c)
          /\ repos' = [repos EXCEPT ![p] = @ \cup {update[c].remote}]
          /\ commits' = [commits EXCEPT ![c] = WithAuthor(update[c])]
          /\ met' = IF commits[c] = update[c] THEN met ELSE met \cup {c}
  /\ UNCHANGED <<remotes, walk, fetching, lost, skipped>>

UpdateEnds ==
  /\ update # None /\ DOMAIN update = {}
  /\ update' = None
  /\ UNCHANGED <<remotes, commits, repos, walk, fetching, lost, met, skipped>>

\* It exits without the project or its remote, and without the commit in the
\* repository; or it is stopped.
UpdateExits ==
  /\ update # None /\ update' = None
  /\ UNCHANGED <<remotes, commits, repos, walk, fetching, lost, met, skipped>>

-----------------------------------------------------------------------------
(* regenerate_repositories.py *)

\* It is run because repositories were corrupted, or deleted, which the script
\* itself does not see.
Regenerate ==
  /\ fetching = None
  /\ fetching' = {p \in Projects : remotes[p] # {}}
  /\ \E gone \in SUBSET Projects :
       repos' = [p \in Projects |-> IF p \in gone THEN {} ELSE repos[p]]
  /\ UNCHANGED <<remotes, commits, walk, update, lost, met, skipped>>

\* (mutated: one URL of each remote)
ToFetchOne(p) == {CHOOSE u \in remotes[p] : TRUE}

ToFetch(p) == remotes[p]

\* The URLs that are no longer valid are passed over.
Fetch(p) ==
  /\ fetching # None /\ p \in fetching
  /\ \E valid \in SUBSET ToFetch(p) :
       /\ repos' = [repos EXCEPT ![p] = @ \cup valid]
       /\ skipped' = [skipped EXCEPT ![p] = ToFetch(p) \ valid]
  /\ fetching' = fetching \ {p}
  /\ UNCHANGED <<remotes, commits, walk, update, lost, met>>

RegenerateEnds ==
  /\ fetching # None /\ fetching = {} /\ fetching' = None
  /\ skipped' = [p \in Projects |-> {}]
  /\ UNCHANGED <<remotes, commits, repos, walk, update, lost, met>>

-----------------------------------------------------------------------------

Next ==
  \/ \E w \in Walkers :
       Begin(w) \/ WriteProject(w) \/ Stops(w) \/ \E p \in Projects : ReadProject(w, p)
  \/ NextManifest \/ AddCommits \/ WriteCommit \/ Loaded
  \/ \E c \in Commits : ReadCommit(c) \/ UpdateDocument(c)
  \/ Query \/ UpdateEnds \/ UpdateExits
  \/ Regenerate \/ RegenerateEnds \/ \E p \in Projects : Fetch(p)

Spec == Init /\ [][Next]_vars

-----------------------------------------------------------------------------

\* A walker is at a manifest, or past the last one.
Turns == 1..(Last + 1)

\* In the projects of a manifest a walker reads project documents, in its links
\* the loader reads commit documents.
Walker(w, s) ==
  \/ \E m \in Turns : s = Start(m)
  \/ /\ s.pc = "projects"
     /\ s \in [pc : {"projects"}, manifest : Manifests, todo : SUBSET Projects,
               item : Projects \cup {None}, doc : (SUBSET Urls) \cup {None}]
     /\ \/ s.item = None /\ s.doc = None
        \/ s.item \in s.todo /\ s.doc \in SUBSET Urls
  \/ /\ w = "loader" /\ s.pc = "links"
     /\ s \in [pc : {"links"}, manifest : Manifests, todo : SUBSET Commits,
               item : Commits \cup {None}, doc : Document \cup {None}]
     /\ \/ s.item = None /\ s.doc = None
        \/ s.item \in s.todo /\ s.doc \in Document

\* What each variable holds.
TypeOK ==
  /\ remotes \in [Projects -> SUBSET Urls] /\ repos \in [Projects -> SUBSET Urls]
  /\ commits \in [Commits -> Document \cup {None}]
  /\ walk = [w \in Walkers |-> walk[w]] /\ \A w \in Walkers : Walker(w, walk[w])
  /\ update = None \/ \E S \in SUBSET Commits : update \in [S -> Document]
  /\ fetching = None \/ fetching \subseteq Projects
  /\ lost \subseteq Projects /\ met \subseteq Commits
  /\ skipped \in [Projects -> SUBSET Urls]

\* The URL in the document of a commit is in that of its project, so that the
\* schema update (get_remote) and the queries by it find it: unless two programs
\* that write project documents have met over it.
RemoteKnown ==
  \A c \in Commits : commits[c] # None =>
    commits[c].remote \in remotes[ProjectOf[c]] \/ ProjectOf[c] \in lost

\* When a build is loaded, each of its commits names it (in_build), unless the
\* schema update has written the commit back meanwhile.
LinksKept ==
  \A m \in Manifests : m < walk["loader"].manifest =>
    \A c \in New[m] : m \in commits[c].in_build \/ c \in met

\* A schema update that runs to its end leaves no commit without the new key, but
\* those that the loader wrote back meanwhile: a second one is not needed.
AuthorsAdded ==
  [][UpdateEnds => \A c \in Commits \ met : commits[c] # None => commits[c].author]_vars

\* After regenerate_repositories each repository has been fetched from where its
\* commits came from, unless that is no longer valid or was lost: the project
\* documents are enough to make the repositories again.
RepositoriesBack ==
  [][RegenerateEnds =>
       \A c \in Commits : commits[c] # None =>
         LET p == ProjectOf[c] IN
         commits[c].remote \in repos[p] \cup skipped[p] \/ p \in lost]_vars
=============================================================================
