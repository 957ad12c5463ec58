------------------------- MODULE BuildDBRestProofs -------------------------
(***************************************************************************)
(* What is proved of the endpoints of the build database REST service that *)
(* write:                                                                  *)
(*   - the safety properties of BuildMetadata, for any number of builds,   *)
(*     commits, metadata keys and REST workers;                            *)
(*   - HeldIsRecorded of Reservations, for any machines, clients and hours.*)
(***************************************************************************)
EXTENDS BuildMetadata, Reservations, TLAPS

Loading == {"load", "build", "commits", "link", "linkWrite"}
AtBuild == Loading \cup {"post"}
Pcs == {"idle", "query", "comment"} \cup AtBuild

\* TypeOK by its parts: how far the job has come, and what it and the others hold.
PlaceOK ==
  /\ pushed \in 0..NBuilds /\ last \in 0..pushed
  /\ pc \in Pcs /\ head \in 0..pushed /\ at \in 0..NBuilds
  /\ pc \in AtBuild => at \in Builds

\* The manifest that is loaded is the one after the last.
LoadInv == pc \in Loading => at = last + 1 /\ at <= head

DataOK ==
  /\ docs \in [Builds -> Doc \cup {NoDoc}]
  /\ pc \in {"commits", "link", "linkWrite", "post"} => docs[at] # NoDoc
  /\ base \in Doc \cup {NoDoc} /\ data \in Doc \cup {NoDoc}
  /\ todo \subseteq Commits
  /\ DOMAIN found \subseteq Builds /\ \A b \in DOMAIN found : found[b] \subseteq Commits
  /\ req \in [Workers -> Copy \cup {NoRequest}]

HistoryOK ==
  /\ comments \in [Builds -> [Commits -> 0..2]]
  /\ entered \in [Builds -> SUBSET Keys]
  /\ spoiled \subseteq Builds /\ redo \subseteq Builds /\ unmarked \subseteq Builds
  /\ refused \in [Builds -> SUBSET Commits]

LEMMA TypeParts == TypeOK <=> PlaceOK /\ DataOK /\ HistoryOK
BY DEF TypeOK, PlaceOK, DataOK, HistoryOK, Loading, AtBuild, Pcs

\* What the job and the workers hold, beyond its type: which copy of which
\* document. Whoever writes a document has one that is there.
HeldInv ==
  /\ LoadInv
  /\ pc = "build" => data = NewData(base)
  /\ pc = "commits" => data \in Doc /\ base = data
  /\ pc = "linkWrite" => base \in Doc /\ data \in Doc /\ data.metadata = base.metadata
  /\ \A b \in DOMAIN found : docs[b] # NoDoc
  /\ pc = "post" => at \in DOMAIN found
  /\ \A w \in Workers : req[w] # NoRequest => docs[req[w].build] # NoDoc

LEMMA DocNone == NoDoc \notin Doc /\ NBuilds \in Nat
BY DocumentsAssumption

LEMMA NewDataType ==
  ASSUME NEW d \in Doc \cup {NoDoc}
  PROVE  /\ NewData(d) \in Doc /\ NewData(d).commits = {}
         /\ NewData(d).metadata = IF d = NoDoc THEN {} ELSE d.metadata
<1>1. (IF d = NoDoc THEN {} ELSE d.metadata) \in SUBSET Keys
  BY DEF Doc
<1> QED
  BY <1>1 DEF NewData, Doc

LEMMA ChangedType ==
  ASSUME NEW d \in Doc, NEW request \in Requests
  PROVE  /\ Changed(d, request) \in Doc /\ Changed(d, request).commits = d.commits
         /\ Changed(d, request).metadata = IF request.op = "post" THEN d.metadata \cup request.keys
                                                                  ELSE d.metadata \ request.keys
<1>1. request.keys \in SUBSET Keys
  BY DocumentsAssumption DEF Requests
<1>2. (IF request.op = "post" THEN d.metadata \cup request.keys ELSE d.metadata \ request.keys) \in SUBSET Keys
  BY <1>1 DEF Doc
<1> QED
  BY <1>2 DEF Changed, Doc

LEMMA LinkType ==
  ASSUME NEW d \in Doc, NEW c \in Commits
  PROVE  LET e == [d EXCEPT !.commits = @ \cup {c}] IN
         e \in Doc /\ e.commits = d.commits \cup {c} /\ e.metadata = d.metadata
BY DEF Doc

LEMMA MarkType ==
  ASSUME NEW d \in Doc
  PROVE  LET e == [d EXCEPT !.metadata = @ \cup {JiraComments}] IN
         e \in Doc /\ e.commits = d.commits /\ e.metadata = d.metadata \cup {JiraComments}
BY DocumentsAssumption DEF Doc

LEMMA CopyType ==
  ASSUME TypeOK, NEW w \in Workers, req[w] # NoRequest
  PROVE  req[w].build \in Builds /\ req[w].base \in Doc /\ req[w].request \in Requests
BY DEF TypeOK, Copy

-----------------------------------------------------------------------------

\* What each step does to the documents: one build at most gets a new document.
Writes(b, d) == b \in Builds /\ d \in Doc /\ docs' = [docs EXCEPT ![b] = d]

LEMMA DocsStep ==
  ASSUME TypeOK, HeldInv, [Next]_vars
  PROVE  \/ docs' = docs
         \/ \E w \in Workers : WriteMetadata(w) /\ Writes(req[w].build, Changed(req[w].base, req[w].request))
         \/ WriteBuild /\ Writes(at, data)
         \/ WriteInvalid /\ Writes(at, data)
         \/ WriteLink /\ Writes(at, data)
         \/ MarkBuild /\ Writes(at, [docs[at] EXCEPT !.metadata = @ \cup {JiraComments}])
<1>1. ASSUME NEW w \in Workers, WriteMetadata(w)
      PROVE  Writes(req[w].build, Changed(req[w].base, req[w].request))
  BY <1>1, CopyType, ChangedType DEF WriteMetadata, Writes
<1>2. ASSUME WriteBuild \/ WriteInvalid \/ WriteLink, docs' # docs
      PROVE  Writes(at, data)
  <2>1. at \in Builds
    BY <1>2 DEF WriteBuild, WriteInvalid, WriteLink, TypeOK
  <2>2. data \in Doc
    BY <1>2, NewDataType DEF WriteBuild, WriteInvalid, WriteLink, HeldInv, TypeOK
  <2> QED
    BY <1>2, <2>1, <2>2 DEF WriteBuild, WriteInvalid, WriteLink, Writes
<1>3. ASSUME MarkBuild
      PROVE  Writes(at, [docs[at] EXCEPT !.metadata = @ \cup {JiraComments}])
  <2>1. at \in Builds /\ docs[at] \in Doc
    BY <1>3 DEF MarkBuild, TypeOK
  <2>2. docs' = [docs EXCEPT ![at] = [docs[at] EXCEPT !.metadata = @ \cup {JiraComments}]]
    BY <1>3 DEF MarkBuild
  <2> QED
    BY <2>1, <2>2, MarkType DEF Writes
<1> QED
  BY <1>1, <1>2, <1>3
     DEF Next, Running, JobStep, RestStep, NewManifest, ReadMetadata, FailRequest, StartJob, ReadBuild,
         ReadLink, FinishBuild, QueryBuilds, TakeBuild, PostComments, FinishJob, CrashJob, vars

LEMMA DocsStay ==
  ASSUME TypeOK, HeldInv, [Next]_vars
  PROVE  /\ docs' \in [Builds -> Doc \cup {NoDoc}]
         /\ \A b \in Builds : docs[b] # NoDoc => docs'[b] # NoDoc
<1>1. docs \in [Builds -> Doc \cup {NoDoc}]
  BY DEF TypeOK
<1>2. docs' = docs \/ \E b, d : Writes(b, d)
  BY DocsStep
<1> QED
  BY <1>1, <1>2, DocNone DEF Writes

LEMMA PlaceStep == ASSUME TypeOK, HeldInv, [Next]_vars PROVE PlaceOK' /\ LoadInv'
<1>1. /\ NBuilds \in Nat /\ pushed \in Nat /\ last \in Nat /\ head \in Nat /\ at \in Nat
      /\ pushed <= NBuilds /\ last <= pushed /\ head <= pushed /\ at <= NBuilds
      /\ pc \in Pcs /\ (pc \in AtBuild => at >= 1)
      /\ pc \in Loading => at = last + 1 /\ at <= head
  BY TypeParts, DocNone DEF PlaceOK, Builds, HeldInv, LoadInv
<1>2. CASE NewManifest
  BY <1>1, <1>2 DEF NewManifest, job, PlaceOK, LoadInv, Builds
<1>3. CASE StartJob
  <2>1. /\ head' = pushed /\ UNCHANGED <<pushed, last>>
        /\ \/ last < pushed /\ pc' = "load" /\ at' = last + 1
           \/ pc' = "query" /\ at' = at
    BY <1>3, Zenon DEF StartJob
  <2>2. pc' \in Pcs /\ (pc' \in AtBuild => pc' = "load") /\ (pc' \in Loading => pc' = "load")
    BY <2>1 DEF Pcs, AtBuild, Loading
  <2>3. CASE pc' = "load"
    BY <1>1, <2>1, <2>2, <2>3 DEF PlaceOK, LoadInv, Builds
  <2>4. CASE pc' # "load"
    BY <1>1, <2>1, <2>2, <2>4 DEF PlaceOK, LoadInv
  <2> QED
    BY <2>3, <2>4
<1>4. CASE FinishBuild
  <2>1. /\ last' = at /\ UNCHANGED <<pushed, head>> /\ pc = "link"
        /\ \/ at < head /\ pc' = "load" /\ at' = at + 1
           \/ pc' = "query" /\ at' = 0
    BY <1>4, Zenon DEF FinishBuild
  <2>2. pc' \in Pcs /\ (pc' \in AtBuild => pc' = "load") /\ (pc' \in Loading => pc' = "load")
    BY <2>1 DEF Pcs, AtBuild, Loading
  <2>3. pc \in Loading
    BY <2>1 DEF Loading
  <2>4. CASE pc' = "load"
    BY <1>1, <2>1, <2>2, <2>3, <2>4 DEF PlaceOK, LoadInv, Builds
  <2>5. CASE pc' # "load"
    BY <1>1, <2>1, <2>2, <2>3, <2>5 DEF PlaceOK, LoadInv
  <2> QED
    BY <2>4, <2>5
<1>5. CASE ReadBuild \/ WriteBuild \/ WriteInvalid \/ WriteLink \/ \E c \in Commits : ReadLink(c)
  <2>1. UNCHANGED <<pushed, last, head, at>> /\ pc \in Loading /\ pc' \in Loading
    BY <1>5 DEF ReadBuild, WriteBuild, WriteInvalid, WriteLink, ReadLink, Loading
  <2>2. pc \in AtBuild /\ pc' \in Pcs
    BY <2>1 DEF AtBuild, Pcs
  <2> QED
    BY <1>1, <2>1, <2>2 DEF PlaceOK, LoadInv, Builds
<1>6. CASE \E b \in Builds : TakeBuild(b)
  <2>1. UNCHANGED <<pushed, last, head>> /\ at' \in Builds /\ pc' = "post"
    BY <1>6 DEF TakeBuild
  <2>2. pc' \in Pcs /\ pc' \notin Loading
    BY <2>1 DEF AtBuild, Pcs, Loading
  <2> QED
    BY <1>1, <2>1, <2>2 DEF PlaceOK, LoadInv, Builds
<1>7. CASE QueryBuilds \/ MarkBuild \/ FinishJob \/ CrashJob
  <2>1. /\ UNCHANGED <<pushed, last>> /\ pc' \in {"idle", "comment"} /\ head' \in {head, 0}
        /\ at' \in {at, 0}
    BY <1>7 DEF QueryBuilds, MarkBuild, FinishJob, CrashJob
  <2>2. pc' \in Pcs /\ pc' \notin AtBuild /\ pc' \notin Loading
    BY <2>1 DEF Pcs, AtBuild, Loading
  <2> QED
    BY <1>1, <2>1, <2>2 DEF PlaceOK, LoadInv
<1>8. CASE UNCHANGED <<pushed, last, pc, head, at>>
  BY <1>1, <1>8 DEF PlaceOK, LoadInv, Builds
<1> QED
  BY <1>2, <1>3, <1>4, <1>5, <1>6, <1>7, <1>8
     DEF Next, Running, JobStep, RestStep, ReadMetadata, WriteMetadata, FailRequest, PostComments, job,
         vars

LEMMA ReqStep == ASSUME TypeOK, HeldInv, [Next]_vars
                 PROVE  /\ req' \in [Workers -> Copy \cup {NoRequest}]
                        /\ \A w \in Workers : req'[w] # NoRequest => docs'[req'[w].build] # NoDoc
<1>1. CASE \E w \in Workers, b \in Builds, request \in Requests : ReadMetadata(w, b, request)
  <2>1. PICK w \in Workers, b \in Builds, request \in Requests : ReadMetadata(w, b, request)
    BY <1>1
  <2> DEFINE r == [build |-> b, base |-> docs[b], request |-> request]
  <2>2. r \in Copy /\ r.build = b /\ docs[b] # NoDoc
    BY <2>1 DEF ReadMetadata, TypeOK, Copy
  <2>3. req' = [req EXCEPT ![w] = r] /\ UNCHANGED docs
    BY <2>1 DEF ReadMetadata
  <2> HIDE DEF r
  <2> QED
    BY <2>2, <2>3 DEF TypeOK, HeldInv
<1>2. CASE \E w \in Workers : WriteMetadata(w) \/ FailRequest(w)
  BY <1>2, DocsStay, CopyType DEF WriteMetadata, FailRequest, TypeOK, HeldInv
<1>3. CASE UNCHANGED req
  BY <1>3, DocsStay, CopyType DEF TypeOK, HeldInv
<1> QED
  BY <1>1, <1>2, <1>3
     DEF Next, Running, JobStep, RestStep, NewManifest, StartJob, ReadBuild, WriteBuild, WriteInvalid,
         ReadLink, WriteLink, FinishBuild, QueryBuilds, TakeBuild, PostComments, MarkBuild, FinishJob,
         CrashJob, vars

\* What the commenter has found.
LEMMA FoundStep ==
  ASSUME TypeOK, HeldInv, [Next]_vars
  PROVE  /\ DOMAIN found' \subseteq Builds /\ \A b \in DOMAIN found' : found'[b] \subseteq Commits
         /\ \A b \in DOMAIN found' : docs'[b] # NoDoc
         /\ pc' = "post" => at' \in DOMAIN found'
<1>1. CASE QueryBuilds
  <2>1. /\ DOMAIN found' = Uncommented /\ UNCHANGED docs /\ pc' = "comment"
        /\ \A b \in Uncommented : found'[b] = docs[b].commits
    BY <1>1 DEF QueryBuilds
  <2>2. \A b \in Uncommented : docs[b] \in Doc /\ b \in Builds
    BY DEF Uncommented, TypeOK
  <2>3. \A b \in Uncommented : docs[b].commits \subseteq Commits /\ docs[b] # NoDoc
    BY <2>2 DEF Doc, Uncommented
  <2> QED
    BY <2>1, <2>2, <2>3
<1>2. CASE MarkBuild
  <2>1. /\ DOMAIN found' = (DOMAIN found) \ {at} /\ pc' = "comment"
        /\ \A b \in (DOMAIN found) \ {at} : found'[b] = found[b]
    BY <1>2 DEF MarkBuild, Restrict
  <2> QED
    BY <2>1, DocsStay DEF TypeOK, HeldInv
<1>3. CASE CrashJob
  <2>1. DOMAIN found' = {} /\ pc' = "idle"
    BY <1>3 DEF CrashJob
  <2> QED
    BY <2>1
<1>4. CASE \E b \in Builds : TakeBuild(b)
  BY <1>4 DEF TakeBuild, TypeOK, HeldInv
<1>5. CASE UNCHANGED found /\ (pc' = "post" => pc = "post" /\ at' = at)
  BY <1>5, DocsStay DEF TypeOK, HeldInv
<1> QED
  BY <1>1, <1>2, <1>3, <1>4, <1>5
     DEF Next, Running, JobStep, RestStep, NewManifest, ReadMetadata, WriteMetadata, FailRequest, StartJob,
         ReadBuild, WriteBuild, WriteInvalid, ReadLink, WriteLink, FinishBuild, PostComments, FinishJob,
         job, vars

\* The copies of the loader.
LEMMA CopiesStep ==
  ASSUME TypeOK, HeldInv, [Next]_vars
  PROVE  /\ base' \in Doc \cup {NoDoc} /\ data' \in Doc \cup {NoDoc}
         /\ pc' = "build" => data' = NewData(base')
         /\ pc' = "commits" => data' \in Doc /\ base' = data'
         /\ pc' = "linkWrite" => base' \in Doc /\ data' \in Doc /\ data'.metadata = base'.metadata
<1>1. CASE ReadBuild
  <2>1. base' \in Doc \cup {NoDoc} /\ data' = NewData(base') /\ pc' = "build"
    BY <1>1 DEF ReadBuild, TypeOK
  <2> QED
    BY <2>1, NewDataType
<1>2. CASE WriteBuild
  <2>1. base \in Doc \cup {NoDoc} /\ data = NewData(base) /\ data' = data /\ base' = data /\ pc' = "commits"
    BY <1>2 DEF WriteBuild, TypeOK, HeldInv
  <2> QED
    BY <2>1, NewDataType
<1>3. CASE \E c \in Commits : ReadLink(c)
  <2>1. PICK c \in Commits : ReadLink(c)
    BY <1>3
  <2>2. /\ docs[at] \in Doc /\ pc' = "linkWrite" /\ base' = docs[at]
        /\ data' = [docs[at] EXCEPT !.commits = @ \cup {c}]
    BY <2>1 DEF ReadLink, TypeOK
  <2> QED
    BY <2>2, LinkType
<1>4. CASE WriteInvalid \/ WriteLink \/ CrashJob
  BY <1>4 DEF WriteInvalid, WriteLink, CrashJob
<1>5. CASE UNCHANGED <<base, data>> /\ (pc' = pc \/ pc' \in {"load", "query", "comment", "post", "idle"})
  BY <1>5 DEF TypeOK, HeldInv
<1> QED
  BY <1>1, <1>2, <1>3, <1>4, <1>5
     DEF Next, Running, JobStep, RestStep, NewManifest, ReadMetadata, WriteMetadata, FailRequest, StartJob,
         FinishBuild, QueryBuilds, TakeBuild, PostComments, MarkBuild, FinishJob, job, vars

LEMMA TodoStep == ASSUME TypeOK, HeldInv, [Next]_vars PROVE todo' \subseteq Commits
<1>1. CASE WriteInvalid
  BY <1>1, DocumentsAssumption DEF WriteInvalid, TypeOK
<1>2. CASE \E b \in Builds : TakeBuild(b)
  BY <1>2 DEF TakeBuild, TypeOK
<1> QED
  BY <1>1, <1>2
     DEF Next, Running, JobStep, RestStep, NewManifest, ReadMetadata, WriteMetadata, FailRequest, StartJob,
         ReadBuild, WriteBuild, ReadLink, WriteLink, FinishBuild, QueryBuilds, PostComments, MarkBuild,
         FinishJob, CrashJob, job, vars, TypeOK

LEMMA WrittenStep ==
  ASSUME TypeOK, HeldInv, [Next]_vars
  PROVE  pc' \in {"commits", "link", "linkWrite", "post"} => docs'[at'] # NoDoc
<1>1. CASE WriteBuild
  <2>1. Writes(at, data) /\ at' = at
    BY <1>1, NewDataType DEF WriteBuild, Writes, HeldInv, TypeOK
  <2> QED
    BY <2>1, DocNone DEF Writes, TypeOK
<1>2. CASE \E b \in Builds : TakeBuild(b)
  BY <1>2 DEF TakeBuild, HeldInv
<1>3. CASE /\ pc' \in {"commits", "link", "linkWrite", "post"} =>
                pc \in {"commits", "link", "linkWrite", "post"} /\ at' = at
  <2>1. pc \in {"commits", "link", "linkWrite", "post"} => at \in Builds /\ docs[at] # NoDoc
    BY DEF TypeOK
  <2> QED
    BY <1>3, <2>1, DocsStay
<1> QED
  BY <1>1, <1>2, <1>3
     DEF Next, Running, JobStep, RestStep, NewManifest, ReadMetadata, WriteMetadata, FailRequest, StartJob,
         ReadBuild, WriteInvalid, ReadLink, WriteLink, FinishBuild, QueryBuilds, PostComments, MarkBuild,
         FinishJob, CrashJob, job, vars

LEMMA HistoryStep == ASSUME TypeOK, HeldInv, [Next]_vars PROVE HistoryOK'
<1>1. CASE \E w \in Workers : WriteMetadata(w)
  <2>1. PICK w \in Workers : WriteMetadata(w)
    BY <1>1
  <2>2. req[w].build \in Builds /\ req[w].request.keys \in SUBSET Keys
    BY <2>1, CopyType, DocumentsAssumption DEF WriteMetadata, Requests
  <2>3. entered' \in [Builds -> SUBSET Keys]
    BY <2>1, <2>2 DEF WriteMetadata, TypeOK
  <2> QED
    BY <2>1, <2>2, <2>3 DEF WriteMetadata, Spoil, TypeOK, HistoryOK
<1>2. CASE WriteBuild \/ WriteInvalid \/ WriteLink
  BY <1>2 DEF WriteBuild, WriteInvalid, WriteLink, Spoil, TypeOK, HistoryOK
<1>3. CASE MarkBuild
  <2>1. JiraComments \in Keys /\ at \in Builds
    BY <1>3, DocumentsAssumption DEF MarkBuild, TypeOK
  <2> QED
    BY <1>3, <2>1 DEF MarkBuild, TypeOK, HistoryOK
<1>4. CASE \E c \in Commits : PostComments(c)
  <2>1. PICK c \in Commits : PostComments(c)
    BY <1>4
  <2>2. at \in Builds /\ comments[at][c] \in 0..2
    BY <2>1 DEF PostComments, TypeOK
  <2>3. \A n \in 0..2 : (IF n = 2 THEN 2 ELSE n + 1) \in 0..2
    OBVIOUS
  <2>4. \/ comments' = comments
        \/ comments' = [comments EXCEPT ![at] = [comments[at] EXCEPT ![c] =
                          IF comments[at][c] = 2 THEN 2 ELSE comments[at][c] + 1]]
    BY <2>1 DEF PostComments
  <2>5. comments' \in [Builds -> [Commits -> 0..2]]
    <3>1. PICK n \in 0..2 : n = IF comments[at][c] = 2 THEN 2 ELSE comments[at][c] + 1
      BY <2>2, <2>3
    <3>2. PICK N : N = 0..2
      OBVIOUS
    <3> QED
      BY <2>2, <2>4, <3>1, <3>2 DEF TypeOK
  <2> QED
    BY <2>1, <2>2, <2>5 DEF PostComments, TypeOK, HistoryOK
<1>5. CASE CrashJob \/ FinishJob
  BY <1>5 DEF CrashJob, FinishJob, TypeOK, HistoryOK
<1>6. CASE UNCHANGED <<comments, history>>
  BY <1>6 DEF history, TypeOK, HistoryOK
<1> QED
  BY <1>1, <1>2, <1>3, <1>4, <1>5, <1>6
     DEF Next, Running, JobStep, RestStep, NewManifest, ReadMetadata, FailRequest, StartJob,
         ReadBuild, ReadLink, FinishBuild, QueryBuilds, TakeBuild, vars

LEMMA InitType == Init => TypeOK /\ HeldInv
<1> SUFFICES ASSUME Init PROVE PlaceOK /\ DataOK /\ HistoryOK /\ HeldInv
  BY TypeParts
<1>1. PlaceOK
  BY DocNone DEF Init, PlaceOK, Pcs, AtBuild, Loading
<1>2. DataOK
  BY DEF Init, DataOK
<1>3. HistoryOK
  BY DEF Init, HistoryOK
<1>4. HeldInv
  BY DEF Init, HeldInv, LoadInv, Loading
<1> QED
  BY <1>1, <1>2, <1>3, <1>4

LEMMA NextType == TypeOK /\ HeldInv /\ [Next]_vars => TypeOK' /\ HeldInv'
<1> SUFFICES ASSUME TypeOK, HeldInv, [Next]_vars PROVE TypeOK' /\ HeldInv'
  OBVIOUS
<1>1. DataOK'
  BY DocsStay, ReqStep, FoundStep, CopiesStep, TodoStep, WrittenStep DEF DataOK
<1>2. HeldInv'
  BY PlaceStep, ReqStep, FoundStep, CopiesStep DEF HeldInv
<1>3. TypeOK'
  BY <1>1, PlaceStep, HistoryStep
     DEF TypeOK, PlaceOK, DataOK, HistoryOK, Loading, AtBuild, Pcs
<1> QED
  BY <1>2, <1>3

\* Every variable keeps its type, and last-manifest never gets ahead of the
\* manifests (load_build_database.py, jira_commenter.py, metadata.py).
THEOREM TypeCorrect == Spec => []TypeOK
BY InitType, NextType, PTL DEF Spec

-----------------------------------------------------------------------------

\* Nothing that was spoiled is made good, and the mark is entered by the
\* commenter only: clients may not add it, but they may remove it.
LEMMA HistoryGrows ==
  ASSUME TypeOK, HeldInv, [Next]_vars
  PROVE  /\ spoiled \subseteq spoiled' /\ redo \subseteq redo'
         /\ \A b \in Builds : JiraComments \in entered'[b] /\ JiraComments \notin entered[b] =>
              MarkBuild /\ b = at
         /\ \A b \in Builds : JiraComments \in entered[b] /\ JiraComments \notin entered'[b] => b \in redo'
<1>1. CASE \E w \in Workers : WriteMetadata(w)
  <2>1. PICK w \in Workers : WriteMetadata(w)
    BY <1>1
  <2> DEFINE r == req[w]
  <2>2. r.build \in Builds /\ r.request \in Requests
    BY <2>1, CopyType DEF WriteMetadata
  <2>3. r.request.op = "post" => JiraComments \notin r.request.keys
    BY <2>2, DocumentsAssumption DEF Requests
  <2>4. /\ entered' = [entered EXCEPT ![r.build] = IF r.request.op = "post" THEN entered[r.build] \cup r.request.keys
                                                                            ELSE entered[r.build] \ r.request.keys]
        /\ redo' = IF r.request.op = "delete" /\ JiraComments \in r.request.keys
                   THEN redo \cup {r.build} ELSE redo
        /\ spoiled' = IF docs[r.build] = r.base THEN spoiled ELSE spoiled \cup {r.build}
    BY <2>1 DEF WriteMetadata, Spoil
  <2>5. r.request.op \in {"post", "delete"}
    BY <2>2 DEF Requests
  <2>6. entered \in [Builds -> SUBSET Keys]
    BY DEF TypeOK
  <2> HIDE DEF r
  <2> QED
    BY <2>2, <2>3, <2>4, <2>5, <2>6
<1>2. CASE MarkBuild
  <2>1. at \in Builds /\ entered \in [Builds -> SUBSET Keys]
    BY <1>2 DEF MarkBuild, TypeOK
  <2> QED
    BY <1>2, <2>1 DEF MarkBuild
<1>3. CASE /\ entered' = entered
           /\ spoiled \subseteq spoiled' /\ redo \subseteq redo'
  BY <1>3
<1> QED
  BY <1>1, <1>2, <1>3
     DEF Next, Running, JobStep, RestStep, NewManifest, ReadMetadata, FailRequest, StartJob, ReadBuild,
         WriteBuild, WriteInvalid, ReadLink, WriteLink, FinishBuild, QueryBuilds, TakeBuild, PostComments,
         FinishJob, CrashJob, history, vars, Spoil

\* The metadata of a build is what was entered, until a writer writes from an
\* old copy; where there is no document nothing was entered.
MetaInv ==
  \A b \in Builds \ spoiled : entered[b] = IF docs[b] = NoDoc THEN {} ELSE docs[b].metadata

LEMMA InitMeta == Init => MetaInv
BY DEF Init, MetaInv

LEMMA NextMeta == TypeOK /\ HeldInv /\ MetaInv /\ [Next]_vars => MetaInv'
<1> SUFFICES ASSUME TypeOK, HeldInv, MetaInv, [Next]_vars, NEW b \in Builds, b \notin spoiled'
             PROVE  entered'[b] = IF docs'[b] = NoDoc THEN {} ELSE docs'[b].metadata
  BY DEF MetaInv
<1>1. b \notin spoiled /\ entered[b] = IF docs[b] = NoDoc THEN {} ELSE docs[b].metadata
  BY HistoryGrows DEF MetaInv
<1>2. docs \in [Builds -> Doc \cup {NoDoc}] /\ entered \in [Builds -> SUBSET Keys]
  BY DEF TypeOK
<1>3. CASE \E w \in Workers : WriteMetadata(w)
  <2>1. PICK w \in Workers : WriteMetadata(w)
    BY <1>3
  <2> DEFINE r == req[w]
  <2> DEFINE d == Changed(r.base, r.request)
  <2>2. /\ r.build \in Builds /\ r.base \in Doc
        /\ d \in Doc
        /\ d.metadata = IF r.request.op = "post" THEN r.base.metadata \cup r.request.keys
                                                 ELSE r.base.metadata \ r.request.keys
    BY <2>1, CopyType, ChangedType DEF WriteMetadata
  <2>3. /\ docs' = [docs EXCEPT ![r.build] = d]
        /\ entered' = [entered EXCEPT ![r.build] = IF r.request.op = "post" THEN entered[r.build] \cup r.request.keys
                                                                            ELSE entered[r.build] \ r.request.keys]
        /\ spoiled' = IF docs[r.build] = r.base THEN spoiled ELSE spoiled \cup {r.build}
    BY <2>1 DEF WriteMetadata, Spoil
  <2> HIDE DEF d, r
  <2> QED
    BY <1>1, <1>2, <2>2, <2>3, DocNone
<1>4. CASE (WriteBuild \/ WriteInvalid \/ WriteLink) /\ docs' # docs
  <2>1. at \in Builds /\ Writes(at, data) /\ docs' = [docs EXCEPT ![at] = data] /\ entered' = entered
    BY <1>4, DocsStep, NewDataType DEF WriteBuild, WriteInvalid, WriteLink, MarkBuild, Writes, HeldInv, TypeOK
  <2>2. data.metadata = (IF base = NoDoc THEN {} ELSE base.metadata) /\ data \in Doc
    BY <1>4, <2>1, NewDataType, DocNone DEF WriteBuild, WriteInvalid, WriteLink, HeldInv, TypeOK, Writes
  <2>3. spoiled' = IF docs[at] = base THEN spoiled ELSE spoiled \cup {at}
    BY <1>4 DEF WriteBuild, WriteInvalid, WriteLink, Spoil
  <2> QED
    BY <1>1, <1>2, <2>1, <2>2, <2>3, DocNone
<1>5. CASE MarkBuild
  <2>1. /\ at \in Builds /\ docs[at] \in Doc
        /\ docs' = [docs EXCEPT ![at] = [docs[at] EXCEPT !.metadata = @ \cup {JiraComments}]]
        /\ entered' = [entered EXCEPT ![at] = entered[at] \cup {JiraComments}]
    BY <1>5 DEF MarkBuild, TypeOK
  <2> DEFINE e == [docs[at] EXCEPT !.metadata = @ \cup {JiraComments}]
  <2>2. e \in Doc /\ e.metadata = docs[at].metadata \cup {JiraComments}
    BY <2>1, MarkType
  <2>3. docs' = [docs EXCEPT ![at] = e]
    BY <2>1
  <2> HIDE DEF e
  <2> QED
    BY <1>1, <1>2, <2>1, <2>2, <2>3, DocNone
<1>6. CASE UNCHANGED <<docs, entered>>
  BY <1>1, <1>6
<1> QED
  BY <1>3, <1>4, <1>5, <1>6
     DEF Next, Running, JobStep, RestStep, NewManifest, ReadMetadata, FailRequest, StartJob, ReadBuild,
         WriteBuild, WriteInvalid, WriteLink, ReadLink, FinishBuild, QueryBuilds, TakeBuild, PostComments,
         FinishJob, CrashJob, history, vars

\* As long as no two writers of a build are between read and write at a time,
\* its metadata is what was entered (load_build_database.py, metadata.py).
THEOREM MetadataCorrect == Spec => []MetadataKept
<1>1. TypeOK /\ MetaInv => MetadataKept
  BY DEF MetaInv, MetadataKept
<1> QED
  BY <1>1, InitType, NextType, InitMeta, NextMeta, PTL DEF Spec

-----------------------------------------------------------------------------

\* Which builds have a document: those that were loaded, and the one at which
\* the loader is or has died; none of the latter when the commenter runs.
ThereInv ==
  \A b \in Builds : docs[b] # NoDoc =>
    /\ b <= last + 1 /\ b <= pushed
    /\ pc \in {"query", "comment", "post"} => b <= last

LEMMA ThereNew ==
  ASSUME TypeOK, HeldInv, [Next]_vars, NEW b \in Builds, docs[b] = NoDoc, docs'[b] # NoDoc
  PROVE  WriteBuild /\ b = at
<1>1. docs \in [Builds -> Doc \cup {NoDoc}]
  BY DEF TypeOK
<1>2. ASSUME NEW k, NEW d, Writes(k, d)
      PROVE  b = k
  BY <1>1, <1>2 DEF Writes
<1>3. \A w \in Workers : ~ (WriteMetadata(w) /\ b = req[w].build)
  BY DEF WriteMetadata, HeldInv
<1>4. ~ ((WriteInvalid \/ WriteLink \/ MarkBuild) /\ b = at)
  BY DEF WriteInvalid, WriteLink, MarkBuild, TypeOK
<1> QED
  BY <1>2, <1>3, <1>4, DocsStep

LEMMA InitThere == Init => ThereInv
BY DEF Init, ThereInv

LEMMA NextThere == TypeOK /\ HeldInv /\ ThereInv /\ [Next]_vars => ThereInv'
<1> SUFFICES ASSUME TypeOK, HeldInv, ThereInv, [Next]_vars, NEW b \in Builds, docs'[b] # NoDoc
             PROVE  /\ b <= last' + 1 /\ b <= pushed'
                    /\ pc' \in {"query", "comment", "post"} => b <= last'
  BY DEF ThereInv
<1>1. /\ NBuilds \in Nat /\ pushed \in Nat /\ last \in Nat /\ head \in Nat /\ at \in Nat
      /\ last <= pushed /\ head <= pushed /\ b \in Nat
      /\ pc \in Loading => at = last + 1 /\ at <= head
  BY TypeParts, DocNone DEF PlaceOK, Builds, HeldInv, LoadInv
<1>2. docs[b] # NoDoc => b <= last + 1 /\ b <= pushed /\ (pc \in {"query", "comment", "post"} => b <= last)
  BY DEF ThereInv
<1>3. CASE WriteBuild
  <2>1. UNCHANGED <<pushed, last>> /\ pc' = "commits" /\ pc \in Loading
    BY <1>3 DEF WriteBuild, Loading
  <2>2. docs[b] = NoDoc => b = at
    BY ThereNew
  <2> QED
    BY <1>1, <1>2, <2>1, <2>2
<1>4. CASE ~ WriteBuild
  <2>1. docs[b] # NoDoc
    BY <1>4, ThereNew
  <2>2. CASE NewManifest
    BY <1>1, <1>2, <2>1, <2>2 DEF NewManifest, job
  <2>3. CASE StartJob
    <3>1. UNCHANGED <<pushed, last>> /\ pc' \in {"load", "query"}
      BY <2>3 DEF StartJob
    <3>2. last < pushed => pc' = "load"
      BY <2>3, Zenon DEF StartJob
    <3> QED
      BY <1>1, <1>2, <2>1, <3>1, <3>2
  <2>4. CASE FinishBuild
    <3>1. last' = at /\ pushed' = pushed /\ pc \in Loading
      BY <2>4 DEF FinishBuild, Loading
    <3> QED
      BY <1>1, <1>2, <2>1, <3>1
  <2>5. CASE /\ UNCHANGED <<pushed, last>>
             /\ pc' \in {"query", "comment", "post"} => pc \in {"query", "comment", "post"}
    BY <1>1, <1>2, <2>1, <2>5
  <2> QED
    BY <1>4, <2>2, <2>3, <2>4, <2>5
       DEF Next, Running, JobStep, RestStep, ReadMetadata, WriteMetadata, FailRequest, ReadBuild,
           WriteInvalid, ReadLink, WriteLink, QueryBuilds, TakeBuild, PostComments, MarkBuild,
           FinishJob, CrashJob, job, history, vars
<1> QED
  BY <1>3, <1>4

\* The commits of a build that is not spoiled stay, but for the loader's writes.
LEMMA CommitsStay ==
  ASSUME TypeOK, HeldInv, [Next]_vars, NEW b \in Builds, b \notin spoiled', docs[b] # NoDoc
  PROVE  \/ (WriteBuild \/ WriteInvalid \/ WriteLink) /\ b = at
         \/ docs'[b].commits = docs[b].commits
<1>1. docs \in [Builds -> Doc \cup {NoDoc}] /\ docs[b] \in Doc
  BY DEF TypeOK
<1>2. CASE \E w \in Workers : WriteMetadata(w)
  <2>1. PICK w \in Workers : WriteMetadata(w)
    BY <1>2
  <2> DEFINE r == req[w]
  <2> DEFINE d == Changed(r.base, r.request)
  <2>2. /\ r.build \in Builds /\ r.base \in Doc
        /\ d \in Doc /\ d.commits = r.base.commits
    BY <2>1, CopyType, ChangedType DEF WriteMetadata
  <2>3. /\ docs' = [docs EXCEPT ![r.build] = d]
        /\ spoiled' = IF docs[r.build] = r.base THEN spoiled ELSE spoiled \cup {r.build}
    BY <2>1 DEF WriteMetadata, Spoil
  <2> HIDE DEF d, r
  <2> QED
    BY <1>1, <2>2, <2>3
<1>3. CASE WriteBuild \/ WriteInvalid \/ WriteLink
  BY <1>1, <1>3 DEF WriteBuild, WriteInvalid, WriteLink
<1>4. CASE MarkBuild
  <2>1. /\ at \in Builds /\ docs[at] \in Doc
        /\ docs' = [docs EXCEPT ![at] = [docs[at] EXCEPT !.metadata = @ \cup {JiraComments}]]
    BY <1>4 DEF MarkBuild, TypeOK
  <2> DEFINE e == [docs[at] EXCEPT !.metadata = @ \cup {JiraComments}]
  <2>2. e \in Doc /\ e.commits = docs[at].commits
    BY <2>1, MarkType
  <2>3. docs' = [docs EXCEPT ![at] = e]
    BY <2>1
  <2> HIDE DEF e
  <2> QED
    BY <1>1, <2>1, <2>2, <2>3
<1> QED
  BY <1>2, <1>3, <1>4, DocsStep

\* A build that was loaded has all of its commits, and one that is loaded has
\* those that are not still to be linked.
LinkedInv ==
  \A b \in Builds \ spoiled :
    /\ b <= last /\ docs[b] # NoDoc => NewCommits[b] \subseteq docs[b].commits
    /\ b = at /\ pc = "link" => NewCommits[b] \subseteq docs[b].commits \cup todo
    /\ b = at /\ pc = "linkWrite" => NewCommits[b] \subseteq data.commits \cup todo

LEMMA InitLinked == Init => LinkedInv
BY DEF Init, LinkedInv, Builds

LEMMA NextLinked == TypeOK /\ HeldInv /\ ThereInv /\ LinkedInv /\ [Next]_vars => LinkedInv'
<1> SUFFICES ASSUME TypeOK, HeldInv, ThereInv, LinkedInv, [Next]_vars, NEW b \in Builds, b \notin spoiled'
             PROVE  /\ b <= last' /\ docs'[b] # NoDoc => NewCommits[b] \subseteq docs'[b].commits
                    /\ b = at' /\ pc' = "link" => NewCommits[b] \subseteq docs'[b].commits \cup todo'
                    /\ b = at' /\ pc' = "linkWrite" => NewCommits[b] \subseteq data'.commits \cup todo'
  BY DEF LinkedInv
<1>1. /\ b <= last /\ docs[b] # NoDoc => NewCommits[b] \subseteq docs[b].commits
      /\ b = at /\ pc = "link" => NewCommits[b] \subseteq docs[b].commits \cup todo
      /\ b = at /\ pc = "linkWrite" => NewCommits[b] \subseteq data.commits \cup todo
      /\ b \notin spoiled
  BY HistoryGrows DEF LinkedInv
<1>2. /\ last \in Nat /\ b \in Nat /\ (b = at /\ pc \in Loading => ~ (b <= last))
      /\ docs \in [Builds -> Doc \cup {NoDoc}]
  BY TypeParts, DocNone DEF PlaceOK, DataOK, Builds, HeldInv, LoadInv
<1>3. b = at /\ pc \in {"commits", "link", "linkWrite"} => docs[b] # NoDoc
  BY DEF TypeOK
<1>4. CASE WriteBuild
  <2>1. /\ UNCHANGED <<last, at>> /\ pc' = "commits" /\ pc \in Loading
        /\ docs' = [docs EXCEPT ![at] = data]
    BY <1>4 DEF WriteBuild, Loading
  <2> QED
    BY <1>1, <1>2, <2>1
<1>5. CASE WriteInvalid
  <2>1. /\ UNCHANGED <<last, at>> /\ pc' = "link" /\ pc \in Loading /\ todo' = NewCommits[at]
        /\ docs' = docs \/ docs' = [docs EXCEPT ![at] = data]
    BY <1>5 DEF WriteInvalid, Loading
  <2> QED
    BY <1>1, <1>2, <2>1
<1>6. CASE WriteLink
  <2>1. /\ UNCHANGED <<last, at, todo>> /\ pc = "linkWrite" /\ pc' = "link"
        /\ docs' = [docs EXCEPT ![at] = data]
    BY <1>6 DEF WriteLink
  <2> QED
    BY <1>1, <1>2, <2>1 DEF Loading
<1>7. CASE ~ (WriteBuild \/ WriteInvalid \/ WriteLink)
  <2>1. docs'[b] # NoDoc => docs[b] # NoDoc /\ docs'[b].commits = docs[b].commits
    BY <1>7, ThereNew, CommitsStay
  <2>2. docs[b] # NoDoc => docs'[b].commits = docs[b].commits
    BY <1>7, CommitsStay
  <2>3. CASE \E c \in Commits : ReadLink(c)
    <3>1. PICK c \in Commits : ReadLink(c)
      BY <2>3
    <3>2. /\ UNCHANGED <<last, at>> /\ pc = "link" /\ pc' = "linkWrite" /\ todo' = todo \ {c}
          /\ docs[at] \in Doc /\ data' = [docs[at] EXCEPT !.commits = @ \cup {c}]
      BY <3>1 DEF ReadLink, TypeOK
    <3>3. data'.commits = docs[at].commits \cup {c}
      BY <3>2, LinkType
    <3> QED
      BY <1>1, <2>1, <3>2, <3>3
  <2>4. CASE FinishBuild
    <3>1. /\ last' = at /\ pc = "link" /\ todo = {}
          /\ pc' \in {"load", "query"}
      BY <2>4 DEF FinishBuild
    <3>2. pc \in Loading
      BY <3>1 DEF Loading
    <3>3. at = last + 1
      BY <3>2 DEF HeldInv, LoadInv
    <3>4. b <= last' => b <= last \/ b = at
      BY <1>2, <3>1, <3>3
    <3> QED
      BY <1>1, <2>1, <3>1, <3>4
  <2>5. CASE /\ last' = last
             /\ pc' = "link" => pc = "link" /\ UNCHANGED <<at, todo>>
             /\ pc' = "linkWrite" => pc = "linkWrite" /\ UNCHANGED <<at, data, todo>>
    BY <1>1, <1>3, <2>1, <2>2, <2>5
  <2> QED
    BY <1>7, <2>3, <2>4, <2>5
       DEF Next, Running, JobStep, RestStep, NewManifest, ReadMetadata, WriteMetadata, FailRequest, StartJob,
           ReadBuild, QueryBuilds, TakeBuild, PostComments, MarkBuild, FinishJob, CrashJob, job, history, vars
<1> QED
  BY <1>4, <1>5, <1>6, <1>7

\* What the commenter has found and goes through: all the commits of a build,
\* those that are still to be looked at and those that it has looked at.
Looked(b) == {c \in Commits : comments[b][c] > 0} \cup refused[b]

FoundInv ==
  /\ \A b \in (DOMAIN found) \ spoiled : NewCommits[b] \subseteq found[b]
  /\ pc = "post" /\ at \notin spoiled \cup Master =>
       NewCommits[at] \ Testrunner \subseteq todo \cup Looked(at)
  /\ \A b \in Builds \ (spoiled \cup Master) :
       JiraComments \in entered[b] => NewCommits[b] \ Testrunner \subseteq Looked(b)

LEMMA LookedGrows ==
  ASSUME TypeOK, HeldInv, [Next]_vars, NEW b \in Builds
  PROVE  Looked(b) \subseteq Looked(b)'
<1>1. CASE \E c \in Commits : PostComments(c)
  <2>1. PICK c \in Commits : PostComments(c)
    BY <1>1
  <2>2. CASE refused' = [refused EXCEPT ![at] = @ \cup {c}] /\ UNCHANGED comments
    <3>1. refused[b] \subseteq refused'[b]
      BY <2>2 DEF TypeOK
    <3> QED
      BY <2>2, <3>1 DEF Looked
  <2>3. CASE /\ comments' = [comments EXCEPT ![at][c] = IF @ = 2 THEN 2 ELSE @ + 1]
             /\ UNCHANGED refused
    <3>1. /\ comments \in [Builds -> [Commits -> 0..2]]
          /\ comments' = [comments EXCEPT ![at] = [comments[at] EXCEPT ![c] =
                            IF comments[at][c] = 2 THEN 2 ELSE comments[at][c] + 1]]
      BY <2>3 DEF TypeOK
    <3>2. at \in Builds
      BY <2>1 DEF PostComments, TypeOK
    <3>3. comments[at][c] \in 0..2
      BY <3>1, <3>2
    <3>4. PICK n : n = IF comments[at][c] = 2 THEN 2 ELSE comments[at][c] + 1
      OBVIOUS
    <3>5. n > 0
      BY <3>3, <3>4
    <3>6. \A d \in Commits : comments'[b][d] = comments[b][d] \/ comments'[b][d] = n
      BY <3>1, <3>2, <3>4
    <3> QED
      BY <2>3, <3>5, <3>6 DEF Looked
  <2> QED
    BY <2>1, <2>2, <2>3 DEF PostComments
<1>2. CASE UNCHANGED <<comments, refused>>
  BY <1>2 DEF Looked
<1> QED
  BY <1>1, <1>2
     DEF Next, Running, JobStep, RestStep, NewManifest, ReadMetadata, WriteMetadata, FailRequest, StartJob,
         ReadBuild, WriteBuild, WriteInvalid, ReadLink, WriteLink, FinishBuild, QueryBuilds, TakeBuild,
         MarkBuild, FinishJob, CrashJob, history, vars

LEMMA InitFound == Init => FoundInv
BY DEF Init, FoundInv

LEMMA NextFound ==
  TypeOK /\ HeldInv /\ ThereInv /\ LinkedInv /\ FoundInv /\ [Next]_vars => FoundInv'
<1> SUFFICES ASSUME TypeOK, HeldInv, ThereInv, LinkedInv, FoundInv, [Next]_vars
             PROVE  FoundInv'
  OBVIOUS
<1>1. \A b \in (DOMAIN found') \ spoiled' : NewCommits[b] \subseteq found'[b]
  <2>1. CASE QueryBuilds
    <3>1. /\ DOMAIN found' = Uncommented /\ pc = "query"
          /\ \A b \in Uncommented : found'[b] = docs[b].commits
      BY <2>1 DEF QueryBuilds
    <3>2. \A b \in Uncommented : b \in Builds /\ docs[b] # NoDoc
      BY DEF Uncommented
    <3>3. \A b \in Uncommented : b <= last
      BY <3>1, <3>2 DEF ThereInv
    <3> QED
      BY <3>1, <3>2, <3>3, HistoryGrows DEF LinkedInv
  <2>2. CASE MarkBuild
    <3>1. /\ DOMAIN found' = (DOMAIN found) \ {at}
          /\ \A b \in (DOMAIN found) \ {at} : found'[b] = found[b]
      BY <2>2 DEF MarkBuild, Restrict
    <3> QED
      BY <3>1, HistoryGrows DEF FoundInv
  <2>3. CASE CrashJob
    <3>1. DOMAIN found' = {}
      BY <2>3 DEF CrashJob
    <3> QED
      BY <3>1
  <2>4. CASE UNCHANGED found
    BY <2>4, HistoryGrows DEF FoundInv
  <2> QED
    BY <2>1, <2>2, <2>3, <2>4
       DEF Next, Running, JobStep, RestStep, NewManifest, ReadMetadata, WriteMetadata, FailRequest, StartJob,
           ReadBuild, WriteBuild, WriteInvalid, ReadLink, WriteLink, FinishBuild, TakeBuild, PostComments,
           FinishJob, job, vars
<1>2. ASSUME NEW k, k = at', pc' = "post", k \notin spoiled' \cup Master
      PROVE  NewCommits[k] \ Testrunner \subseteq todo' \cup Looked(k)'
  <2>1. CASE \E b \in Builds : TakeBuild(b)
    <3>1. PICK b \in Builds : TakeBuild(b)
      BY <2>1
    <3>2. /\ b \in DOMAIN found /\ at' = b
          /\ todo' = IF b \in Master THEN {} ELSE found[b] \ Testrunner
      BY <3>1 DEF TakeBuild
    <3> QED
      BY <1>2, <3>2, HistoryGrows DEF FoundInv
  <2>2. CASE \E c \in Commits : PostComments(c)
    <3>1. PICK c \in Commits : PostComments(c)
      BY <2>2
    <3>2. pc = "post" /\ k = at /\ k \in Builds /\ todo' = todo \ {c} /\ spoiled' = spoiled
      BY <1>2, <3>1 DEF PostComments, TypeOK
    <3>3. NewCommits[k] \ Testrunner \subseteq todo \cup Looked(k)
      BY <1>2, <3>2 DEF FoundInv
    <3>4. c \in Looked(k)'
      <4>1. CASE refused' = [refused EXCEPT ![at] = @ \cup {c}]
        <5>1. c \in refused'[k]
          BY <3>2, <4>1 DEF TypeOK
        <5> QED
          BY <3>2, <5>1 DEF Looked
      <4>2. CASE comments' = [comments EXCEPT ![at][c] = IF @ = 2 THEN 2 ELSE @ + 1]
        <5>1. /\ comments \in [Builds -> [Commits -> 0..2]]
              /\ comments' = [comments EXCEPT ![at] = [comments[at] EXCEPT ![c] =
                                IF comments[at][c] = 2 THEN 2 ELSE comments[at][c] + 1]]
          BY <4>2 DEF TypeOK
        <5>2. comments[at][c] \in 0..2
          BY <3>2, <5>1
        <5>3. PICK n : n = IF comments[at][c] = 2 THEN 2 ELSE comments[at][c] + 1
          OBVIOUS
        <5>4. n > 0
          BY <5>2, <5>3
        <5>5. comments'[k][c] = n
          BY <3>2, <5>1, <5>3
        <5> QED
          BY <3>2, <5>4, <5>5 DEF Looked
      <4> QED
        BY <3>1, <4>1, <4>2 DEF PostComments
    <3>5. Looked(k) \subseteq Looked(k)'
      BY <3>2, LookedGrows
    <3> QED
      BY <3>2, <3>3, <3>4, <3>5
  <2>3. CASE pc = "post" /\ UNCHANGED <<at, todo>>
    <3>1. k = at /\ k \in Builds
      BY <1>2, <2>3 DEF TypeOK
    <3>2. Looked(k) \subseteq Looked(k)'
      BY <3>1, LookedGrows
    <3> QED
      BY <1>2, <2>3, <3>1, <3>2, HistoryGrows DEF FoundInv
  <2> QED
    BY <1>2, <2>1, <2>2, <2>3
       DEF Next, Running, JobStep, RestStep, NewManifest, ReadMetadata, WriteMetadata, FailRequest, StartJob,
           ReadBuild, WriteBuild, WriteInvalid, ReadLink, WriteLink, FinishBuild, QueryBuilds, MarkBuild,
           FinishJob, CrashJob, job, vars
<1>3. ASSUME NEW b \in Builds \ (spoiled' \cup Master), JiraComments \in entered'[b]
      PROVE  NewCommits[b] \ Testrunner \subseteq Looked(b)'
  <2>1. CASE JiraComments \in entered[b]
    BY <1>3, <2>1, HistoryGrows, LookedGrows DEF FoundInv
  <2>2. CASE MarkBuild /\ b = at
    BY <1>3, <2>2, HistoryGrows, LookedGrows DEF FoundInv, MarkBuild
  <2> QED
    BY <1>3, <2>1, <2>2, HistoryGrows
<1>4. PICK k : k = at'
  OBVIOUS
<1>5. pc' = "post" /\ at' \notin spoiled' \cup Master =>
        NewCommits[at'] \ Testrunner \subseteq todo' \cup {c \in Commits : comments'[at'][c] > 0} \cup refused'[at']
  BY <1>2, <1>4 DEF Looked
<1> QED
  BY <1>1, <1>3, <1>5 DEF FoundInv, Looked

\* A build is marked as commented only when the commenter has gone through all
\* of its commits (jira_commenter.py; run_load_build_database.sh stops before
\* the commenter when the loader dies).
THEOREM MarkedCorrect == Spec => []MarkedIsCommented
<1>1. TypeOK /\ MetaInv /\ FoundInv => MarkedIsCommented
  <2> SUFFICES ASSUME TypeOK, MetaInv, FoundInv, NEW b \in Builds \ (spoiled \cup Master), Marked(b),
                      NEW c \in NewCommits[b] \ Testrunner
               PROVE  comments[b][c] > 0 \/ c \in refused[b]
    BY DEF MarkedIsCommented
  <2>1. JiraComments \in entered[b]
    BY DEF Marked, MetaInv
  <2> QED
    BY <2>1 DEF FoundInv, Looked
<1> QED
  BY <1>1, InitType, NextType, InitMeta, NextMeta, InitThere, NextThere, InitLinked, NextLinked, InitFound,
     NextFound, PTL DEF Spec

-----------------------------------------------------------------------------

\* A commit of a build has been commented on once, if the build is marked or
\* the commenter is at it and past that commit; what the commenter has found
\* and not finished is not marked.
OnceInv ==
  \A b \in Builds \ (spoiled \cup redo) :
    /\ b \in DOMAIN found => JiraComments \notin entered[b]
    /\ \A c \in Commits : comments[b][c] > 0 =>
         /\ comments[b][c] = 1
         /\ JiraComments \in entered[b] \/ (pc = "post" /\ at = b /\ c \notin todo)

LEMMA InitOnce == Init => OnceInv
BY DEF Init, OnceInv

LEMMA NextOnce == TypeOK /\ HeldInv /\ MetaInv /\ OnceInv /\ [Next]_vars => OnceInv'
<1> SUFFICES ASSUME TypeOK, HeldInv, MetaInv, OnceInv, [Next]_vars,
                    NEW b \in Builds, b \notin spoiled' \cup redo'
             PROVE  /\ b \in DOMAIN found' => JiraComments \notin entered'[b]
                    /\ \A c \in Commits : comments'[b][c] > 0 =>
                         /\ comments'[b][c] = 1
                         /\ JiraComments \in entered'[b] \/ (pc' = "post" /\ at' = b /\ c \notin todo')
  BY DEF OnceInv
<1>1. /\ b \notin spoiled \cup redo
      /\ JiraComments \in entered'[b] /\ JiraComments \notin entered[b] => MarkBuild /\ b = at
      /\ JiraComments \in entered[b] => JiraComments \in entered'[b]
  BY HistoryGrows
<1>2. /\ b \in DOMAIN found => JiraComments \notin entered[b]
      /\ \A c \in Commits : comments[b][c] > 0 =>
           /\ comments[b][c] = 1
           /\ JiraComments \in entered[b] \/ (pc = "post" /\ at = b /\ c \notin todo)
  BY <1>1 DEF OnceInv
<1>3. b \in DOMAIN found' => JiraComments \notin entered'[b]
  <2>1. CASE QueryBuilds
    <3>1. DOMAIN found' = Uncommented /\ entered' = entered
      BY <2>1 DEF QueryBuilds, history
    <3>2. b \in Uncommented => JiraComments \notin entered[b]
      BY <1>1 DEF Uncommented, Marked, MetaInv
    <3> QED
      BY <3>1, <3>2
  <2>2. CASE MarkBuild
    <3>1. DOMAIN found' = (DOMAIN found) \ {at}
      BY <2>2 DEF MarkBuild, Restrict
    <3> QED
      BY <1>1, <1>2, <3>1
  <2>3. CASE CrashJob
    <3>1. DOMAIN found' = {}
      BY <2>3 DEF CrashJob
    <3> QED
      BY <3>1
  <2>4. CASE UNCHANGED found /\ ~ MarkBuild
    BY <1>1, <1>2, <2>4
  <2> QED
    BY <2>1, <2>2, <2>3, <2>4
       DEF Next, Running, JobStep, RestStep, NewManifest, ReadMetadata, WriteMetadata, FailRequest, StartJob,
           ReadBuild, WriteBuild, WriteInvalid, ReadLink, WriteLink, FinishBuild, TakeBuild, PostComments,
           FinishJob, job, vars
<1>4. ASSUME NEW c \in Commits, comments'[b][c] > 0
      PROVE  /\ comments'[b][c] = 1
             /\ JiraComments \in entered'[b] \/ (pc' = "post" /\ at' = b /\ c \notin todo')
  <2>1. CASE \E d \in Commits : PostComments(d)
    <3>1. PICK d \in Commits : PostComments(d)
      BY <2>1
    <3>2. /\ pc = "post" /\ pc' = "post" /\ at' = at /\ at \in Builds /\ todo' = todo \ {d} /\ d \in todo
          /\ entered' = entered
      BY <3>1 DEF PostComments, TypeOK
    <3>3. CASE UNCHANGED comments
      BY <1>2, <1>4, <3>2, <3>3
    <3>4. CASE comments' = [comments EXCEPT ![at][d] = IF @ = 2 THEN 2 ELSE @ + 1]
      <4>1. /\ comments \in [Builds -> [Commits -> 0..2]]
            /\ comments' = [comments EXCEPT ![at] = [comments[at] EXCEPT ![d] =
                              IF comments[at][d] = 2 THEN 2 ELSE comments[at][d] + 1]]
        BY <3>4 DEF TypeOK
      <4>2. PICK n : n = IF comments[at][d] = 2 THEN 2 ELSE comments[at][d] + 1
        OBVIOUS
      <4>3. comments'[b][c] = IF b = at /\ c = d THEN n ELSE comments[b][c]
        BY <3>2, <4>1, <4>2
      <4>4. CASE b = at /\ c = d
        <5>1. b \in DOMAIN found
          BY <3>2, <4>4 DEF HeldInv
        <5>2. ~ (comments[b][c] > 0)
          BY <1>2, <3>2, <4>4, <5>1
        <5>3. comments[b][c] \in 0..2
          BY <4>1
        <5>4. n = 1
          BY <4>2, <4>4, <5>2, <5>3
        <5> QED
          BY <3>2, <4>3, <4>4, <5>4
      <4>5. CASE ~ (b = at /\ c = d)
        BY <1>2, <1>4, <3>2, <4>3, <4>5
      <4> QED
        BY <4>4, <4>5
    <3> QED
      BY <3>1, <3>3, <3>4 DEF PostComments
  <2>2. CASE UNCHANGED comments
    <3>1. comments[b][c] = 1 /\ (JiraComments \in entered[b] \/ (pc = "post" /\ at = b /\ c \notin todo))
      BY <1>2, <1>4, <2>2
    <3>2. CASE JiraComments \in entered[b]
      BY <1>1, <2>2, <3>1, <3>2
    <3>3. CASE MarkBuild /\ at = b
      <4>1. JiraComments \in entered'[b]
        BY <3>3 DEF MarkBuild, TypeOK
      <4> QED
        BY <2>2, <3>1, <4>1
    <3>4. CASE pc = "post" /\ at = b /\ c \notin todo /\ ~ MarkBuild
      <4>1. ~ CrashJob
        BY <1>1, <3>4 DEF CrashJob
      <4>2. CASE UNCHANGED <<pc, at, todo>>
        BY <2>2, <3>1, <3>4, <4>2
      <4>3. CASE \E d \in Commits : PostComments(d)
        BY <2>1, <4>3
      <4> QED
        BY <3>4, <4>1, <4>2, <4>3
           DEF Next, Running, JobStep, RestStep, NewManifest, ReadMetadata, WriteMetadata, FailRequest,
               StartJob, ReadBuild, WriteBuild, WriteInvalid, ReadLink, WriteLink, FinishBuild, QueryBuilds,
               TakeBuild, FinishJob, job, vars
    <3> QED
      BY <3>1, <3>2, <3>3, <3>4
  <2> QED
    BY <2>1, <2>2
       DEF Next, Running, JobStep, RestStep, NewManifest, ReadMetadata, WriteMetadata, FailRequest, StartJob,
           ReadBuild, WriteBuild, WriteInvalid, ReadLink, WriteLink, FinishBuild, QueryBuilds, TakeBuild,
           MarkBuild, FinishJob, CrashJob, vars
<1> QED
  BY <1>3, <1>4

\* No build is commented on twice, unless the commenter died in the middle of it
\* or its mark was deleted or written over (jira_commenter.py).
THEOREM OnceCorrect == Spec => []CommentedOnce
<1>1. TypeOK /\ OnceInv => CommentedOnce
  <2> SUFFICES ASSUME TypeOK, OnceInv, NEW b \in Builds \ (spoiled \cup redo), NEW c \in Commits
               PROVE  comments[b][c] <= 1
    BY DEF CommentedOnce
  <2>1. comments[b][c] \in 0..2
    BY DEF TypeOK
  <2> QED
    BY <2>1 DEF OnceInv
<1> QED
  BY <1>1, InitType, NextType, InitMeta, NextMeta, InitOnce, NextOnce, PTL DEF Spec

-----------------------------------------------------------------------------

\* While the commenter runs it is still to come to each build that has no mark,
\* but for those a client has taken it from since the query.
ToCommentInv ==
  pc \in {"comment", "post"} =>
    \A b \in Builds \ unmarked : docs[b] # NoDoc => Marked(b) \/ b \in DOMAIN found

LEMMA InitToComment == Init => ToCommentInv
BY DEF Init, ToCommentInv

LEMMA NextToComment == TypeOK /\ HeldInv /\ ToCommentInv /\ [Next]_vars => ToCommentInv'
<1> SUFFICES ASSUME TypeOK, HeldInv, ToCommentInv, [Next]_vars, pc' \in {"comment", "post"},
                    NEW b \in Builds, b \notin unmarked', docs'[b] # NoDoc, ~Marked(b)'
             PROVE  b \in DOMAIN found'
  BY DEF ToCommentInv
<1>1. CASE QueryBuilds
  BY <1>1 DEF QueryBuilds, Uncommented, Marked
<1>2. CASE MarkBuild
  <2>1. /\ at \in Builds /\ docs[at] \in Doc
        /\ docs' = [docs EXCEPT ![at] = [docs[at] EXCEPT !.metadata = @ \cup {JiraComments}]]
    BY <1>2 DEF MarkBuild, TypeOK
  <2>2. b # at /\ docs'[b] = docs[b]
    BY <2>1, MarkType DEF Marked, TypeOK
  <2>3. DOMAIN found' = (DOMAIN found) \ {at}
    BY <1>2 DEF MarkBuild, Restrict
  <2> QED
    BY <1>2, <2>2, <2>3 DEF MarkBuild, ToCommentInv, Marked
<1>3. CASE \E w \in Workers : WriteMetadata(w)
  <2>1. PICK w \in Workers : WriteMetadata(w)
    BY <1>3
  <2>2. UNCHANGED <<pc, found>> /\ pc \in {"comment", "post"}
    BY <2>1 DEF WriteMetadata, job
  <2>3. CASE b = req[w].build
    <3>1. docs[b] # NoDoc
      BY <2>1, <2>3 DEF WriteMetadata, HeldInv
    <3>2. JiraComments \notin docs'[b].metadata
      BY DEF Marked
    <3>3. unmarked' = IF pc \in {"comment", "post"} /\ Marked(b) /\ JiraComments \notin docs'[b].metadata
                      THEN unmarked \cup {b} ELSE unmarked
      BY <2>1, <2>3 DEF WriteMetadata
    <3>4. ~Marked(b) /\ b \notin unmarked
      BY <2>2, <3>2, <3>3
    <3> QED
      BY <2>2, <3>1, <3>4 DEF ToCommentInv
  <2>4. CASE b # req[w].build
    <3>1. docs'[b] = docs[b]
      BY <2>1, <2>4 DEF WriteMetadata, TypeOK
    <3>2. b \notin unmarked
      BY <2>1 DEF WriteMetadata
    <3> QED
      BY <2>2, <3>1, <3>2 DEF ToCommentInv, Marked
  <2> QED
    BY <2>3, <2>4
<1>4. CASE pc \in {"comment", "post"} /\ UNCHANGED <<docs, found, unmarked>>
  BY <1>4 DEF ToCommentInv, Marked
<1> QED
  BY <1>1, <1>2, <1>3, <1>4
     DEF Next, Running, JobStep, RestStep, NewManifest, ReadMetadata, FailRequest, StartJob,
         ReadBuild, WriteBuild, WriteInvalid, ReadLink, WriteLink, FinishBuild, TakeBuild, PostComments,
         FinishJob, CrashJob, job, history, vars

\* A commenter that comes to its end (jira_commenter.py) leaves no build without
\* a mark but those whose mark a client deleted, or wrote over, since its query:
\* whatever earlier commenters died at, and whoever wrote from an old copy
\* before. It is what EventuallyMarked rests on.
THEOREM JobMarks ==
  Spec => [][FinishJob => \A b \in Builds \ unmarked : docs[b] # NoDoc => Marked(b)]_vars
<1>1. ToCommentInv =>
        [FinishJob => \A b \in Builds \ unmarked : docs[b] # NoDoc => Marked(b)]_vars
  BY DEF FinishJob, ToCommentInv
<1> QED
  BY <1>1, InitType, NextType, InitToComment, NextToComment, PTL DEF Spec

-----------------------------------------------------------------------------
\* Reservations.

Recorded(c, v) ==
  vms[v].who = c /\ vms[v].state = "reserved" /\ vms[v].expires = left[c][v]

\* A client without a request has nothing selected or written.
RequestInv == \A c \in Clients : hours[c] = 0 => selected[c] = {} /\ done[c] = {}

\* HeldIsRecorded, and the same of what a request has written so far.
WrittenInv ==
  \A c \in Clients : \A v \in (held[c] \cup done[c]) \ disputed :
    left[c][v] > 0 => Recorded(c, v)

\* A machine that is about to be written is nobody else's.
SelectedInv ==
  \A c, d \in Clients : \A v \in selected[c] \ disputed :
    c # d => /\ v \notin selected[d] \cup done[d]
             /\ v \in held[d] => left[d][v] = 0

ReservationsInv == ReservationsTypeOK /\ RequestInv /\ WrittenInv /\ SelectedInv

-----------------------------------------------------------------------------

LEMMA LongestIsLongest == Longest \in Hours /\ \A h \in Hours : h \in 1..Longest
<1>1. Longest \in Hours /\ \A i \in Hours : i <= Longest
  BY ReservationsAssumption, Zenon DEF Longest
<1>2. \A h \in Hours : h \in Nat /\ h # 0
  BY ReservationsAssumption
<1> QED
  BY <1>1, <1>2

LEMMA LessType == ASSUME NEW n \in 0..Longest PROVE Less(n) \in 0..Longest
BY LongestIsLongest, ReservationsAssumption DEF Less

LEMMA ReservationsInitInv == ReservationsInit => ReservationsInv
<1> SUFFICES ASSUME ReservationsInit PROVE ReservationsInv
  OBVIOUS
<1>1. 0 \in 0..Longest
  BY LongestIsLongest, ReservationsAssumption
<1>2. vms \in [VMs -> VM] /\ left \in [Clients -> [VMs -> 0..Longest]]
  BY <1>1 DEF ReservationsInit, VM
<1>3. ReservationsTypeOK
  BY <1>2 DEF ReservationsInit, ReservationsTypeOK
<1> QED
  BY <1>3 DEF ReservationsInit, ReservationsInv, RequestInv, WrittenInv, SelectedInv

-----------------------------------------------------------------------------
\* Types, and RequestInv on which the disjointness of selected and done rests.

LEMMA SelectType ==
  ASSUME ReservationsTypeOK, RequestInv, NEW c \in Clients, NEW total \in Totals, NEW h \in Hours,
         Select(c, total, h)
  PROVE  ReservationsTypeOK' /\ RequestInv'
<1> PICK S \in SUBSET Reservable :
      /\ selected' = [selected EXCEPT ![c] = S]
      /\ disputed' = disputed \cup (S \cap Pending(c))
  BY DEF Select
<1>1. S \subseteq VMs /\ h # 0
  BY ReservationsAssumption DEF Reservable
<1>2. done[c] = {}
  BY DEF Select, RequestInv
<1>3. hours' \in [Clients -> Hours \cup {0}] /\ selected' \in [Clients -> SUBSET VMs]
  BY <1>1 DEF Select, ReservationsTypeOK
<1>4. \A d \in Clients : selected'[d] \cap done'[d] = {}
  BY <1>2 DEF Select, ReservationsTypeOK
<1>5. disputed' \subseteq VMs
  BY <1>1 DEF ReservationsTypeOK
<1>6. ReservationsTypeOK'
  BY <1>3, <1>4, <1>5 DEF Select, ReservationsTypeOK
<1>7. RequestInv'
  BY <1>1 DEF Select, ReservationsTypeOK, RequestInv
<1> QED
  BY <1>6, <1>7

LEMMA WriteType ==
  ASSUME ReservationsTypeOK, RequestInv, NEW c \in Clients, NEW v \in VMs, Write(c, v)
  PROVE  ReservationsTypeOK' /\ RequestInv'
<1>1. hours[c] \in Hours
  BY DEF Write, ReservationsTypeOK, RequestInv
<1>2. hours[c] \in 0..Longest
  BY <1>1, LongestIsLongest
<1>3. [state |-> "reserved", who |-> c, expires |-> hours[c]] \in VM
  BY <1>2 DEF VM
<1>4. vms' \in [VMs -> VM]
  BY <1>3 DEF Write, ReservationsTypeOK
<1>5. \A u \in VMs : vms'[u].who = Nobody => vms'[u].state = "available"
  BY ReservationsAssumption DEF Write, ReservationsTypeOK
<1>6. left' \in [Clients -> [VMs -> 0..Longest]]
  BY <1>2 DEF Write, ReservationsTypeOK
<1>7. /\ selected' \in [Clients -> SUBSET VMs] /\ done' \in [Clients -> SUBSET VMs]
      /\ \A d \in Clients : selected'[d] \cap done'[d] = {}
  BY DEF Write, ReservationsTypeOK
<1>8. ReservationsTypeOK'
  BY <1>4, <1>5, <1>6, <1>7 DEF Write, ReservationsTypeOK
<1>9. RequestInv'
  <2>1. hours[c] # 0
    BY <1>1, ReservationsAssumption
  <2> QED
    BY <2>1 DEF Write, ReservationsTypeOK, RequestInv
<1> QED
  BY <1>8, <1>9

LEMMA AnswerType ==
  ASSUME ReservationsTypeOK, RequestInv, NEW c \in Clients, Answer(c) \/ Fail(c)
  PROVE  ReservationsTypeOK' /\ RequestInv'
<1>1. 0 \in 0..Longest
  BY LongestIsLongest, ReservationsAssumption
<1>2. CASE Answer(c)
  BY <1>2 DEF Answer, ReservationsTypeOK, RequestInv
<1>3. CASE Fail(c)
  <2>1. left' \in [Clients -> [VMs -> 0..Longest]]
    BY <1>1, <1>3 DEF Fail, ReservationsTypeOK
  <2> QED
    BY <1>3, <2>1 DEF Fail, ReservationsTypeOK, RequestInv
<1> QED
  BY <1>2, <1>3

LEMMA ReleaseType ==
  ASSUME ReservationsTypeOK, RequestInv, NEW c \in Clients \cup {Nobody}, NEW v \in VMs, Release(c, v)
  PROVE  ReservationsTypeOK' /\ RequestInv'
<1>1. 0 \in 0..Longest
  BY LongestIsLongest, ReservationsAssumption
<1>2. [state |-> "available", who |-> Nobody, expires |-> 0] \in VM
  BY <1>1 DEF VM
<1>3. /\ vms' \in [VMs -> VM]
      /\ \A u \in VMs : vms'[u].who = Nobody => vms'[u].state = "available"
  BY <1>2 DEF Release, ReservationsTypeOK
<1>4. left' \in [Clients -> [VMs -> 0..Longest]]
  BY <1>1 DEF Release, ReservationsTypeOK
<1>5. ReservationsTypeOK'
  BY <1>3, <1>4 DEF Release, ReservationsTypeOK
<1>6. RequestInv'
  BY DEF Release, RequestInv
<1> QED
  BY <1>5, <1>6

LEMMA TickType ==
  ASSUME ReservationsTypeOK, RequestInv, Tick
  PROVE  ReservationsTypeOK' /\ RequestInv'
<1>1. \A v \in VMs : vms'[v] \in VM /\ (vms'[v].who = Nobody => vms'[v].state = "available")
  <2> TAKE v \in VMs
  <2>1. vms[v] \in VM
    BY DEF ReservationsTypeOK
  <2>2. Less(vms[v].expires) \in 0..Longest
    BY <2>1, LessType DEF VM
  <2>3. vms'[v] = [vms[v] EXCEPT !.expires = Less(vms[v].expires)]
    BY DEF Tick
  <2> QED
    BY <2>1, <2>2, <2>3 DEF VM, ReservationsTypeOK
<1>2. vms' \in [VMs -> VM]
  BY <1>1 DEF Tick
<1>3. left' \in [Clients -> [VMs -> 0..Longest]]
  <2>1. \A c \in Clients, v \in VMs : Less(left[c][v]) \in 0..Longest
    BY LessType DEF ReservationsTypeOK
  <2> QED
    BY <2>1 DEF Tick
<1>4. disputed' \subseteq VMs
  BY DEF Tick, ReservationsTypeOK
<1>5. ReservationsTypeOK'
  BY <1>1, <1>2, <1>3, <1>4 DEF Tick, ReservationsTypeOK
<1>6. RequestInv'
  BY DEF Tick, RequestInv
<1> QED
  BY <1>5, <1>6

-----------------------------------------------------------------------------
\* What is written, and what is about to be.

LEMMA SelectStep ==
  ASSUME ReservationsInv, NEW c \in Clients, NEW total \in Totals, NEW h \in Hours, Select(c, total, h)
  PROVE  WrittenInv' /\ SelectedInv'
<1> PICK S \in SUBSET Reservable :
      /\ selected' = [selected EXCEPT ![c] = S]
      /\ disputed' = disputed \cup (S \cap Pending(c))
  BY DEF Select
<1> USE DEF ReservationsInv
<1>1. WrittenInv'
  BY DEF Select, WrittenInv, Recorded
<1>2. ASSUME NEW d \in Clients, NEW e \in Clients, d # e, NEW v \in selected'[d] \ disputed'
      PROVE  v \notin selected'[e] \cup done'[e] /\ (v \in held'[e] => left'[e][v] = 0)
  <2>1. CASE d = c
    <3>1. v \in S /\ v \notin disputed /\ v \notin Pending(c)
      BY <1>2, <2>1 DEF ReservationsTypeOK
    <3>2. v \notin selected'[e] \cup done'[e]
      BY <1>2, <2>1, <3>1 DEF Select, Pending, ReservationsTypeOK
    <3>3. ASSUME v \in held[e], left[e][v] # 0
          PROVE  FALSE
      <4>1. v \in VMs /\ (vms[v].state = "available" \/ vms[v].expires = 0)
        BY <3>1 DEF Reservable
      <4>2. left[e][v] \in 0..Longest
        BY <4>1 DEF ReservationsTypeOK
      <4>3. Longest \in Nat
        BY LongestIsLongest, ReservationsAssumption
      <4>4. left[e][v] > 0
        BY <3>3, <4>2, <4>3
      <4>5. Recorded(e, v)
        BY <3>1, <3>3, <4>4 DEF WrittenInv
      <4> QED
        BY <3>3, <4>1, <4>5 DEF Recorded
    <3> QED
      BY <3>2, <3>3 DEF Select
  <2>2. CASE d # c /\ e = c
    <3>1. v \in selected[d]
      BY <1>2, <2>2 DEF ReservationsTypeOK
    <3>2. v \in Pending(c)
      BY <2>2, <3>1 DEF Pending
    <3>3. v \notin S
      BY <1>2, <3>2
    <3>4. v \notin done[c] /\ (v \in held[c] => left[c][v] = 0)
      BY <1>2, <2>2, <3>1 DEF SelectedInv
    <3> QED
      BY <2>2, <3>3, <3>4 DEF Select, ReservationsTypeOK
  <2>3. CASE d # c /\ e # c
    BY <1>2, <2>3 DEF Select, ReservationsTypeOK, SelectedInv
  <2> QED
    BY <2>1, <2>2, <2>3
<1>3. SelectedInv'
  BY <1>2 DEF SelectedInv
<1> QED
  BY <1>1, <1>3

LEMMA WriteStep ==
  ASSUME ReservationsInv, NEW c \in Clients, NEW v \in VMs, Write(c, v)
  PROVE  WrittenInv' /\ SelectedInv'
<1> USE DEF ReservationsInv
<1>1. ASSUME NEW d \in Clients, NEW u \in (held'[d] \cup done'[d]) \ disputed', left'[d][u] > 0
      PROVE  Recorded(d, u)'
  <2>0. u \in VMs
    BY <1>1, WriteType DEF ReservationsTypeOK
  <2>1. CASE d = c /\ u = v
    BY <2>1 DEF Write, ReservationsTypeOK, Recorded
  <2>2. CASE d # c /\ u = v
    <3>1. v \in selected[c] \ disputed /\ v \in held[d] \cup done[d] /\ left[d][v] > 0
      BY <1>1, <2>2 DEF Write, ReservationsTypeOK
    <3>2. v \notin done[d] /\ (v \in held[d] => left[d][v] = 0)
      BY <2>2, <3>1 DEF SelectedInv
    <3> QED
      BY <3>1, <3>2
  <2>3. CASE u # v
    <3>1. u \in (held[d] \cup done[d]) \ disputed /\ left'[d][u] = left[d][u]
      BY <1>1, <2>0, <2>3 DEF Write, ReservationsTypeOK
    <3>2. Recorded(d, u)
      BY <1>1, <3>1 DEF WrittenInv
    <3>3. vms'[u] = vms[u]
      BY <2>0, <2>3 DEF Write, ReservationsTypeOK
    <3> QED
      BY <3>1, <3>2, <3>3 DEF Recorded
  <2> QED
    BY <2>1, <2>2, <2>3
<1>2. ASSUME NEW d \in Clients, NEW e \in Clients, d # e, NEW u \in selected'[d] \ disputed'
      PROVE  u \notin selected'[e] \cup done'[e] /\ (u \in held'[e] => left'[e][u] = 0)
  <2>1. u \in selected[d] \ disputed /\ u \in VMs
    BY <1>2 DEF Write, ReservationsTypeOK
  <2>2. u \notin selected[e] \cup done[e] /\ (u \in held[e] => left[e][u] = 0)
    BY <1>2, <2>1 DEF SelectedInv
  <2>3. e = c => u # v
    BY <2>2 DEF Write
  <2> QED
    BY <2>1, <2>2, <2>3 DEF Write, ReservationsTypeOK
<1> QED
  BY <1>1, <1>2 DEF WrittenInv, SelectedInv

LEMMA AnswerStep ==
  ASSUME ReservationsInv, NEW c \in Clients, Answer(c)
  PROVE  WrittenInv' /\ SelectedInv'
<1> USE DEF ReservationsInv
<1>1. WrittenInv'
  BY DEF Answer, ReservationsTypeOK, WrittenInv, Recorded
<1>2. SelectedInv'
  BY DEF Answer, ReservationsTypeOK, SelectedInv
<1> QED
  BY <1>1, <1>2

LEMMA FailStep ==
  ASSUME ReservationsInv, NEW c \in Clients, Fail(c)
  PROVE  WrittenInv' /\ SelectedInv'
<1> USE DEF ReservationsInv
<1>1. ASSUME NEW d \in Clients, NEW u \in (held'[d] \cup done'[d]) \ disputed', left'[d][u] > 0
      PROVE  Recorded(d, u)'
  <2>1. u \in VMs
    BY <1>1, AnswerType DEF ReservationsTypeOK
  <2>2. d # c
    BY <1>1, <2>1 DEF Fail, ReservationsTypeOK
  <2>3. Recorded(d, u) /\ left'[d] = left[d]
    BY <1>1, <2>2 DEF Fail, ReservationsTypeOK, WrittenInv
  <2> QED
    BY <2>3 DEF Fail, Recorded
<1>2. ASSUME NEW d \in Clients, NEW e \in Clients, d # e, NEW u \in selected'[d] \ disputed'
      PROVE  u \notin selected'[e] \cup done'[e] /\ (u \in held'[e] => left'[e][u] = 0)
  <2>1. u \in selected[d] \ disputed /\ u \in VMs
    BY <1>2 DEF Fail, ReservationsTypeOK
  <2>2. u \notin selected[e] \cup done[e] /\ (u \in held[e] => left[e][u] = 0)
    BY <1>2, <2>1 DEF SelectedInv
  <2> QED
    BY <2>1, <2>2 DEF Fail, ReservationsTypeOK
<1> QED
  BY <1>1, <1>2 DEF WrittenInv, SelectedInv

LEMMA ReleaseStep ==
  ASSUME ReservationsInv, NEW c \in Clients \cup {Nobody}, NEW v \in VMs, Release(c, v)
  PROVE  WrittenInv' /\ SelectedInv'
<1> USE DEF ReservationsInv
<1>1. ASSUME NEW d \in Clients, NEW u \in (held'[d] \cup done'[d]) \ disputed', left'[d][u] > 0
      PROVE  Recorded(d, u)'
  <2>0. u \in VMs /\ u \in (held[d] \cup done[d]) \ disputed
    BY <1>1 DEF Release, ReservationsTypeOK
  <2>1. CASE d = c /\ u = v
    BY <1>1, <2>1 DEF Release, ReservationsTypeOK
  <2>2. CASE d # c /\ u = v
    <3>1. left[d][v] > 0
      BY <1>1, <2>2 DEF Release, ReservationsTypeOK
    <3>2. vms[v].who = d
      BY <2>0, <2>2, <3>1 DEF WrittenInv, Recorded
    <3>3. v \in disputed'
      BY <2>2, <3>2, ReservationsAssumption DEF Release
    <3> QED
      BY <1>1, <2>2, <3>3
  <2>3. CASE u # v
    <3>1. left'[d][u] = left[d][u] /\ vms'[u] = vms[u]
      BY <2>0, <2>3 DEF Release, ReservationsTypeOK
    <3>2. Recorded(d, u)
      BY <1>1, <2>0, <3>1 DEF WrittenInv
    <3> QED
      BY <3>1, <3>2 DEF Recorded
  <2> QED
    BY <2>1, <2>2, <2>3
<1>2. ASSUME NEW d \in Clients, NEW e \in Clients, d # e, NEW u \in selected'[d] \ disputed'
      PROVE  u \notin selected'[e] \cup done'[e] /\ (u \in held'[e] => left'[e][u] = 0)
  <2>1. u \in selected[d] \ disputed /\ u \in VMs
    BY <1>2 DEF Release, ReservationsTypeOK
  <2>2. u \notin selected[e] \cup done[e] /\ (u \in held[e] => left[e][u] = 0)
    BY <1>2, <2>1 DEF SelectedInv
  <2> QED
    BY <2>1, <2>2 DEF Release, ReservationsTypeOK
<1> QED
  BY <1>1, <1>2 DEF WrittenInv, SelectedInv

LEMMA TickStep ==
  ASSUME ReservationsInv, Tick
  PROVE  WrittenInv' /\ SelectedInv'
<1> USE DEF ReservationsInv
<1>0. \A d \in Clients, u \in VMs : left'[d][u] = Less(left[d][u]) /\ left[d][u] \in Nat
  <2>1. Longest \in Nat
    BY LongestIsLongest, ReservationsAssumption
  <2>2. \A d \in Clients, u \in VMs : left[d][u] \in 0..Longest
    BY DEF ReservationsTypeOK
  <2>3. \A d \in Clients, u \in VMs : left[d][u] \in Nat
    BY <2>1, <2>2
  <2> QED
    BY <2>3 DEF Tick
<1>1. ASSUME NEW d \in Clients, NEW u \in (held'[d] \cup done'[d]) \ disputed', left'[d][u] > 0
      PROVE  Recorded(d, u)'
  <2>1. u \in VMs /\ u \in held[d] \cup done[d]
    BY <1>1 DEF Tick, ReservationsTypeOK
  <2>2. u \in Had'
    BY <1>1, <2>1 DEF Had
  <2>3. u \notin disputed
    BY <1>1, <2>2 DEF Tick
  <2>4. left[d][u] > 0
    BY <1>0, <1>1, <2>1 DEF Less
  <2>5. Recorded(d, u)
    BY <2>1, <2>3, <2>4 DEF WrittenInv
  <2>6. vms'[u] = [vms[u] EXCEPT !.expires = Less(vms[u].expires)] /\ vms[u] \in VM
    BY <2>1 DEF Tick, ReservationsTypeOK
  <2>7. /\ vms'[u].who = vms[u].who /\ vms'[u].state = vms[u].state
        /\ vms'[u].expires = Less(vms[u].expires)
    BY <2>6 DEF VM
  <2> QED
    BY <1>0, <2>1, <2>5, <2>7 DEF Recorded
<1>2. ASSUME NEW d \in Clients, NEW e \in Clients, d # e, NEW u \in selected'[d] \ disputed'
      PROVE  u \notin selected'[e] \cup done'[e] /\ (u \in held'[e] => left'[e][u] = 0)
  <2>1. u \in selected[d] /\ u \in VMs
    BY <1>2 DEF Tick, ReservationsTypeOK
  <2>2. u \notin disputed
    BY <1>2, <2>1 DEF Tick
  <2>3. u \notin selected[e] \cup done[e] /\ (u \in held[e] => left[e][u] = 0)
    BY <1>2, <2>1, <2>2 DEF SelectedInv
  <2>4. u \in held[e] => left'[e][u] = 0
    BY <1>0, <2>1, <2>3 DEF Less
  <2> QED
    BY <2>3, <2>4 DEF Tick
<1> QED
  BY <1>1, <1>2 DEF WrittenInv, SelectedInv

-----------------------------------------------------------------------------

LEMMA ReservationsNextInv == ReservationsInv /\ [ReservationsNext]_reservationVars => ReservationsInv'
<1> SUFFICES ASSUME ReservationsInv, [ReservationsNext]_reservationVars PROVE ReservationsInv'
  OBVIOUS
<1> USE DEF ReservationsInv
<1>1. CASE \E c \in Clients, total \in Totals, h \in Hours : Select(c, total, h)
  BY <1>1, SelectType, SelectStep
<1>2. CASE \E c \in Clients, v \in VMs : Write(c, v)
  BY <1>2, WriteType, WriteStep
<1>3. CASE \E c \in Clients \cup {Nobody}, v \in VMs : Release(c, v)
  BY <1>3, ReleaseType, ReleaseStep
<1>4. CASE \E c \in Clients : Answer(c)
  BY <1>4, AnswerType, AnswerStep
<1>5. CASE \E c \in Clients : Fail(c)
  BY <1>5, AnswerType, FailStep
<1>6. CASE Tick
  BY <1>6, TickType, TickStep
<1>7. CASE UNCHANGED reservationVars
  BY <1>7 DEF reservationVars, ReservationsTypeOK, RequestInv, WrittenInv, SelectedInv, Recorded
<1> QED
  BY <1>1, <1>2, <1>3, <1>4, <1>5, <1>6, <1>7 DEF ReservationsNext

\* Every variable keeps its type; a request never has a machine both to write
\* and written.
THEOREM ReservationsTypeCorrect == ReservationsSpec => []ReservationsTypeOK
<1>1. ReservationsInv => ReservationsTypeOK
  BY DEF ReservationsInv
<1> QED
  BY <1>1, ReservationsInitInv, ReservationsNextInv, PTL DEF ReservationsSpec

\* What a client may have by what it was told is what the database says it
\* has, but for machines that two requests were after at a time, or that a
\* request gave back that was not its own or not for this reservation:
\* whatever the clients, the machines and the hours.
THEOREM HeldCorrect == ReservationsSpec => []HeldIsRecorded
<1>1. ReservationsInv => HeldIsRecorded
  BY DEF ReservationsInv, WrittenInv, HeldIsRecorded, Recorded
<1> QED
  BY <1>1, ReservationsInitInv, ReservationsNextInv, PTL DEF ReservationsSpec
=============================================================================
