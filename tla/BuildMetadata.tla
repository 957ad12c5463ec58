--------------------------- MODULE BuildMetadata ---------------------------
(***************************************************************************)
(* The three writers of a build document, each of which reads the document *)
(* and writes all of it back:                                              *)
(*   - the replicas of the build database REST service, which add metadata *)
(*     to it and remove metadata from it (builddb_rest/metadata.py);       *)
(*   - the loader, which writes it anew, takes invalid SHAs out of it and  *)
(*     adds commits to it, project by project (see BuildDBLoader);         *)
(*   - the JIRA commenter, which runs after the loader in the same job and *)
(*     marks the builds it has commented on (jira_commenter.py).           *)
(* Nothing locks the document and no write is conditional.                 *)
(***************************************************************************)
EXTENDS Naturals, Functions

CONSTANTS
  NBuilds,         \* builds are numbered in the order of the manifests
  Commits,
  NewCommits,      \* NewCommits[b]: what b has new, one commit per project
  WithInvalidSha,  \* builds whose document is written a second time
  Master,          \* builds of version 0.0.0
  Testrunner,      \* commits of project testrunner
  Keys, JiraComments,
  Allowed,         \* the whitelist of metadata keys
  Bodies,          \* the sets of keys that clients send
  Workers,         \* the threads of the REST replicas
  NoDoc, NoRequest

Builds == 1..NBuilds

Doc == [commits : SUBSET Commits, metadata : SUBSET Keys]

ASSUME DocumentsAssumption ==
  /\ NBuilds \in Nat
  /\ NewCommits \in [Builds -> SUBSET Commits]
  /\ JiraComments \in Keys \ Allowed
  /\ Allowed \subseteq Keys /\ Bodies \subseteq SUBSET Keys
  /\ NoDoc \notin Doc

\* A request for the metadata of a build. validate_metadata refuses to add a
\* key that is not on the whitelist; one that is not may be removed.
Requests == [op : {"post"}, keys : Bodies \cap SUBSET Allowed] \cup [op : {"delete"}, keys : Bodies]

VARIABLES
  docs,       \* the build documents
  pushed,     \* the manifests in the manifest repository
  last,       \* the last manifest loaded
  pc, head, at, base, data, todo, found,   \* the job: loader, then commenter
  req,        \* what each REST worker is doing
  comments,   \* comments[b][c]: how often the tickets of c were gone through for b
  \* history, for the properties only
  entered,    \* the metadata that users and the commenter have entered
  spoiled,    \* the builds a writer has written from an old copy
  redo,       \* the builds that lost their mark or were left half commented
  refused,    \* the commits for whose tickets JIRA failed, by build
  unmarked    \* the builds a client took the mark from since the query of the
              \* commenter that runs

job == <<pc, head, at, base, data, todo, found>>
history == <<entered, spoiled, redo, refused, unmarked>>
vars == <<docs, pushed, last, job, req, comments, history>>

Init ==
  /\ docs = [b \in Builds |-> NoDoc]
  /\ pushed = 0 /\ last = 0
  /\ pc = "idle" /\ head = 0 /\ at = 0 /\ base = NoDoc /\ data = NoDoc
  /\ todo = {} /\ found = << >>
  /\ req = [w \in Workers |-> NoRequest]
  /\ comments = [b \in Builds |-> [c \in Commits |-> 0]]
  /\ entered = [b \in Builds |-> {}]
  /\ spoiled = {} /\ redo = {} /\ refused = [b \in Builds |-> {}] /\ unmarked = {}

\* A build is made and its manifest committed.
NewManifest ==
  /\ pushed < NBuilds
  /\ pushed' = pushed + 1
  /\ UNCHANGED <<docs, last, job, req, comments, history>>

\* b is written from a copy that is no longer what is in the database.
Spoil(b, copy) == spoiled' = IF docs[b] = copy THEN spoiled ELSE spoiled \cup {b}

Marked(b) == docs[b] # NoDoc /\ JiraComments \in docs[b].metadata

-----------------------------------------------------------------------------
\* The REST service

\* update_metadata and remove_metadata.
Changed(doc, request) ==
  [doc EXCEPT !.metadata = IF request.op = "post" THEN @ \cup request.keys
                                                  ELSE @ \ request.keys]

\* A request that validate_metadata lets pass, up to get_document. One for a
\* build that has no document is answered with 404 and changes nothing.
ReadMetadata(w, b, request) ==
  /\ req[w] = NoRequest /\ docs[b] # NoDoc
  /\ req' = [req EXCEPT ![w] = [build |-> b, base |-> docs[b], request |-> request]]
  /\ UNCHANGED <<docs, pushed, last, job, comments, history>>

\* The upsert of the changed document.
WriteMetadata(w) ==
  LET r == req[w] IN
  /\ r # NoRequest
  /\ docs' = [docs EXCEPT ![r.build] = Changed(r.base, r.request)]
  /\ req' = [req EXCEPT ![w] = NoRequest]
  /\ Spoil(r.build, r.base)
  /\ entered' = [entered EXCEPT ![r.build] =
                   IF r.request.op = "post" THEN @ \cup r.request.keys ELSE @ \ r.request.keys]
  /\ redo' = IF r.request.op = "delete" /\ JiraComments \in r.request.keys
             THEN redo \cup {r.build} ELSE redo
  /\ unmarked' = IF /\ pc \in {"comment", "post"} /\ Marked(r.build)
                    /\ JiraComments \notin docs'[r.build].metadata
                 THEN unmarked \cup {r.build} ELSE unmarked
  /\ UNCHANGED <<pushed, last, job, comments, refused>>

\* The replica is stopped, or the database does not answer.
FailRequest(w) ==
  /\ req[w] # NoRequest
  /\ req' = [req EXCEPT ![w] = NoRequest]
  /\ UNCHANGED <<docs, pushed, last, job, comments, history>>

-----------------------------------------------------------------------------
\* The loader

\* The loader walks the manifests that are there when it starts.
StartJob ==
  /\ pc = "idle"
  /\ head' = pushed
  /\ IF last < pushed THEN pc' = "load" /\ at' = last + 1
                      ELSE pc' = "query" /\ UNCHANGED at
  /\ UNCHANGED <<docs, pushed, last, base, data, todo, found, req, comments, history>>

\* (mutated: the metadata of an earlier run is not preserved)
NewDataBlank(doc) == [commits |-> {}, metadata |-> {}]

\* 'preserve any existing data'
NewData(doc) == [commits |-> {}, metadata |-> IF doc = NoDoc THEN {} ELSE doc.metadata]

\* generate_build_document: the document is read, and built anew.
ReadBuild ==
  /\ pc = "load"
  /\ base' = docs[at] /\ data' = NewData(base')
  /\ pc' = "build"
  /\ UNCHANGED <<docs, pushed, last, head, at, todo, found, req, comments, history>>

WriteBuild ==
  /\ pc = "build"
  /\ docs' = [docs EXCEPT ![at] = data] /\ base' = data
  /\ Spoil(at, base)
  /\ pc' = "commits"
  /\ UNCHANGED <<pushed, last, head, at, data, todo, found, req, comments, entered, redo, refused,
                 unmarked>>

\* generate_commit_documents: the same copy is written again if a project had
\* an invalid SHA, after all of the Git work for the build.
WriteInvalid ==
  /\ pc = "commits"
  /\ IF at \in WithInvalidSha
       THEN docs' = [docs EXCEPT ![at] = data] /\ Spoil(at, base)
       ELSE UNCHANGED <<docs, spoiled>>
  /\ base' = NoDoc /\ data' = NoDoc
  /\ todo' = NewCommits[at]
  /\ pc' = "link"
  /\ UNCHANGED <<pushed, last, head, at, found, req, comments, entered, redo, refused,
                 unmarked>>

\* update_build_commit_documents: the document is read and written again for
\* each project that has new commits.
ReadLink(c) ==
  /\ pc = "link" /\ c \in todo
  /\ base' = docs[at] /\ data' = [base' EXCEPT !.commits = @ \cup {c}]
  /\ todo' = todo \ {c}
  /\ pc' = "linkWrite"
  /\ UNCHANGED <<docs, pushed, last, head, at, found, req, comments, history>>

WriteLink ==
  /\ pc = "linkWrite"
  /\ docs' = [docs EXCEPT ![at] = data] /\ Spoil(at, base)
  /\ base' = NoDoc /\ data' = NoDoc
  /\ pc' = "link"
  /\ UNCHANGED <<pushed, last, head, at, todo, found, req, comments, entered, redo, refused,
                 unmarked>>

\* last-manifest is written, and the next manifest taken.
FinishBuild ==
  /\ pc = "link" /\ todo = {}
  /\ last' = at
  /\ IF at < head THEN pc' = "load" /\ at' = at + 1
                  ELSE pc' = "query" /\ at' = 0
  /\ UNCHANGED <<docs, pushed, head, base, data, todo, found, req, comments, history>>

-----------------------------------------------------------------------------
\* The JIRA commenter

\* (mutated: the query takes every build)
UncommentedAll == {b \in Builds : docs[b] # NoDoc}

\* (mutated: a build without the key is not taken for one with the value false)
UncommentedNone == {}

\* ifmissingornull(metadata.jira_comments, false) = false
Uncommented == {b \in Builds : docs[b] # NoDoc /\ ~Marked(b)}

\* The query returns the documents, and the commits are read from them later.
QueryBuilds ==
  /\ pc = "query"
  /\ found' = [b \in Uncommented |-> docs[b].commits]
  /\ pc' = "comment"
  /\ UNCHANGED <<docs, pushed, last, head, at, base, data, todo, req, comments, history>>

\* One turn of the loop over the builds. Builds of version 0.0.0 and commits
\* of testrunner are not commented on.
TakeBuild(b) ==
  /\ pc = "comment" /\ b \in DOMAIN found
  /\ at' = b
  /\ todo' = IF b \in Master THEN {} ELSE found[b] \ Testrunner
  /\ pc' = "post"
  /\ UNCHANGED <<docs, pushed, last, head, base, data, found, req, comments, history>>

\* make_ticket_comments. A ticket that JIRA does not give, be it that there is
\* none or that JIRA does not answer, is logged and passed over. Counted up to
\* two, the least that is more than once.
PostComments(c) ==
  /\ pc = "post" /\ c \in todo
  /\ \/ /\ comments' = [comments EXCEPT ![at][c] = IF @ = 2 THEN 2 ELSE @ + 1]
        /\ UNCHANGED refused
     \/ /\ refused' = [refused EXCEPT ![at] = @ \cup {c}]
        /\ UNCHANGED comments
  /\ todo' = todo \ {c}
  /\ UNCHANGED <<docs, pushed, last, pc, head, at, base, data, found, req, entered, spoiled,
                 redo, unmarked>>

\* Build.set_metadata of the cbbuild library, taken to change the one key of
\* the document at once.
MarkBuild ==
  /\ pc = "post" /\ todo = {}
  /\ docs' = [docs EXCEPT ![at].metadata = @ \cup {JiraComments}]
  /\ entered' = [entered EXCEPT ![at] = @ \cup {JiraComments}]
  /\ found' = Restrict(found, DOMAIN found \ {at})
  /\ pc' = "comment" /\ at' = 0
  /\ UNCHANGED <<pushed, last, head, base, data, todo, req, comments, spoiled, redo, refused,
                 unmarked>>

FinishJob ==
  /\ pc = "comment" /\ DOMAIN found = {}
  /\ pc' = "idle" /\ head' = 0 /\ unmarked' = {}
  /\ UNCHANGED <<docs, pushed, last, at, base, data, todo, found, req, comments, entered, spoiled,
                 redo, refused>>

\* (mutated: the job goes on to the commenter when the loader has died)
CrashJobOn ==
  /\ pc # "idle"
  /\ pc' = IF pc \in {"query", "comment", "post"} THEN "idle" ELSE "query"
  /\ head' = 0 /\ at' = 0 /\ base' = NoDoc /\ data' = NoDoc
  /\ todo' = {} /\ found' = << >>
  /\ redo' = IF pc = "post" THEN redo \cup {at} ELSE redo
  /\ unmarked' = {}
  /\ UNCHANGED <<docs, pushed, last, req, comments, entered, spoiled, refused>>

\* The loader or the commenter dies. The job stops at the first command that
\* fails, so that there are no comments after a loader that died.
CrashJob ==
  /\ pc # "idle"
  /\ pc' = "idle" /\ head' = 0 /\ at' = 0 /\ base' = NoDoc /\ data' = NoDoc
  /\ todo' = {} /\ found' = << >>
  /\ redo' = IF pc = "post" THEN redo \cup {at} ELSE redo
  /\ unmarked' = {}
  /\ UNCHANGED <<docs, pushed, last, req, comments, entered, spoiled, refused>>

JobStep ==
  \/ StartJob \/ ReadBuild \/ WriteBuild \/ WriteInvalid \/ WriteLink \/ FinishBuild
  \/ QueryBuilds \/ MarkBuild \/ FinishJob
  \/ \E c \in Commits : ReadLink(c) \/ PostComments(c)
  \/ \E b \in Builds : TakeBuild(b)

RestStep ==
  \E w \in Workers :
    \/ \E b \in Builds, request \in Requests : ReadMetadata(w, b, request)
    \/ WriteMetadata(w) \/ FailRequest(w)

Running == NewManifest \/ JobStep \/ RestStep

Next == Running \/ CrashJob

Spec == Init /\ [][Next]_vars

\* The job is scheduled again and again.
FairSpec == Spec /\ WF_vars(JobStep)

-----------------------------------------------------------------------------

Copy == [build : Builds, base : Doc, request : Requests]

\* What each variable holds; last-manifest never gets ahead of the manifests.
TypeOK ==
  /\ docs \in [Builds -> Doc \cup {NoDoc}]
  /\ pushed \in 0..NBuilds /\ last \in 0..pushed
  /\ pc \in {"idle", "load", "build", "commits", "link", "linkWrite", "query", "comment", "post"}
  /\ head \in 0..pushed /\ at \in 0..NBuilds
  /\ pc \in {"load", "build", "commits", "link", "linkWrite", "post"} => at \in Builds
  /\ pc \in {"commits", "link", "linkWrite", "post"} => docs[at] # NoDoc
  /\ base \in Doc \cup {NoDoc} /\ data \in Doc \cup {NoDoc}
  /\ todo \subseteq Commits
  /\ DOMAIN found \subseteq Builds /\ \A b \in DOMAIN found : found[b] \subseteq Commits
  /\ req \in [Workers -> Copy \cup {NoRequest}]
  /\ comments \in [Builds -> [Commits -> 0..2]]
  /\ entered \in [Builds -> SUBSET Keys]
  /\ spoiled \subseteq Builds /\ redo \subseteq Builds /\ unmarked \subseteq Builds
  /\ refused \in [Builds -> SUBSET Commits]

\* As long as no two writers of a build are between read and write at a time,
\* its metadata is what was entered: the loader, which rebuilds the document,
\* also when it loads the build again, takes nothing away and adds nothing.
MetadataKept ==
  \A b \in Builds \ spoiled : docs[b] # NoDoc => docs[b].metadata = entered[b]

\* A build is marked as commented only when the commenter has gone through all
\* of its commits, so that each has been commented on or JIRA has failed for it:
\* a build that the loader has not finished is not marked.
MarkedIsCommented ==
  \A b \in Builds \ (spoiled \cup Master) :
    Marked(b) => \A c \in NewCommits[b] \ Testrunner : comments[b][c] > 0 \/ c \in refused[b]

\* No build is commented on twice, unless the commenter died in the middle of
\* it or its mark was deleted or written over.
CommentedOnce ==
  \A b \in Builds \ (spoiled \cup redo) : \A c \in Commits : comments[b][c] <= 1

\* Every build is commented on in the end, if the job does not die for ever.
EventuallyMarked ==
  <>[][Running]_vars => \A b \in Builds : b <= pushed ~> Marked(b)
=============================================================================
