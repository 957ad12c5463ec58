------------------------------ MODULE Notarizer ------------------------------
(***************************************************************************)
(* The notarizer, apple/notarizer/index.js: a service that is posted an    *)
(* archive, signs the binaries in it and then the archive, has Apple       *)
(* notarize it, and answers the request with it.  All of that happens in   *)
(* the directory of the bundle the request names, which every request for  *)
(* that bundle begins by deleting.                                         *)
(*                                                                         *)
(* The service has one thread.  A step is what it does from one            *)
(* asynchronous call to the next, with the effect of the first on the      *)
(* files; between two steps of a request, other requests go on.            *)
(* A request with a wrong token, which is refused at once, is left out.    *)
(***************************************************************************)
EXTENDS FiniteSets

CONSTANTS
  Requests,
  Bundle,      \* the bundle a request is for
  Archive,     \* the name of the archive it uploads
  Notarizing,  \* the requests that ask for notarization
  None

Bundles == {Bundle[r] : r \in Requests}
Archives == {Archive[r] : r \in Requests}

\* An archive: whose upload is in it, whether its binaries are signed, and
\* whether it is signed itself.
ZipFile == [of : Requests, signed : BOOLEAN, sealed : BOOLEAN]

\* The extracted contents of an archive.
Tree == [of : Requests, signed : BOOLEAN]

Directory == [zips : [Archives -> ZipFile \cup {None}], tree : Tree \cup {None}]

ASSUME RequestsAssumption ==
  Notarizing \subseteq Requests /\ None \notin ZipFile \cup Tree \cup Directory \cup Bundles

VARIABLES
  dir,         \* the directories of the bundles, None for one that is not there
  sessionDir,  \* the global variable
  pc,          \* how far each request is
  target,      \* the directory it is about to make
  found,       \* whether what it found extracted is the extracted directory
  submitted,   \* the archive that Apple has, or has approved
  \* history of the requests in progress
  overlapped,  \* those during which there was another for the bundle
  unfreshened  \* those whose archive zip failed to update

vars == <<dir, sessionDir, pc, target, found, submitted, overlapped, unfreshened>>

Init ==
  /\ dir = [b \in Bundles |-> None]
  /\ sessionDir = None
  /\ pc = [r \in Requests |-> "idle"]
  /\ target = [r \in Requests |-> None]
  /\ found = [r \in Requests |-> FALSE]
  /\ submitted = [r \in Requests |-> None]
  /\ overlapped = {} /\ unfreshened = {}

At(r, here) == pc[r] = here
Goto(r, there) == pc' = [pc EXCEPT ![r] = there]

\* A request is answered, and nothing of it is left in memory.
Answer(r) ==
  /\ Goto(r, "idle")
  /\ target' = [target EXCEPT ![r] = None]
  /\ found' = [found EXCEPT ![r] = FALSE]
  /\ submitted' = [submitted EXCEPT ![r] = None]
  /\ overlapped' = overlapped \ {r} /\ unfreshened' = unfreshened \ {r}

\* With an error: the catch at the end of the chain of promises.
Reject(r) == Answer(r) /\ UNCHANGED <<dir, sessionDir>>

\* The requests in progress. One that was given up on does nothing any more.
Busy == {r \in Requests : pc[r] \notin {"idle", "abandoned"}}

ZipOf(r) == IF dir[Bundle[r]] = None THEN None ELSE dir[Bundle[r]].zips[Archive[r]]
TreeOf(r) == IF dir[Bundle[r]] = None THEN None ELSE dir[Bundle[r]].tree

PutZip(r, zip) == dir' = [dir EXCEPT ![Bundle[r]].zips[Archive[r]] = zip]
PutTree(r, tree) == dir' = [dir EXCEPT ![Bundle[r]].tree = tree]

-----------------------------------------------------------------------------

\* The handler, up to its first asynchronous call: with no directory to delete
\* it goes on to mkdirp without letting others in between.
Post(r) ==
  LET b == Bundle[r]
      others == {o \in Busy : Bundle[o] = b}
  IN
  /\ At(r, "idle")
  /\ sessionDir' = b
  /\ IF dir[b] = None THEN Goto(r, "mkdir") /\ target' = [target EXCEPT ![r] = b]
                      ELSE Goto(r, "delete") /\ UNCHANGED target
  /\ overlapped' = IF others = {} THEN overlapped ELSE overlapped \cup others \cup {r}
  /\ UNCHANGED <<dir, found, submitted, unfreshened>>

\* deleteBundleData has deleted the directory. What mkdirp is called with is
\* the global as it is now.
Delete(r) ==
  /\ At(r, "delete")
  /\ dir' = [dir EXCEPT ![Bundle[r]] = None]
  /\ target' = [target EXCEPT ![r] = sessionDir]
  /\ Goto(r, "mkdir")
  /\ UNCHANGED <<sessionDir, found, submitted, overlapped, unfreshened>>

\* mkdirp
Mkdir(r) ==
  /\ At(r, "mkdir")
  /\ dir' = IF dir[target[r]] # None THEN dir
            ELSE [dir EXCEPT ![target[r]] = [zips |-> [a \in Archives |-> None], tree |-> None]]
  /\ Goto(r, "copy")
  /\ UNCHANGED <<sessionDir, target, found, submitted, overlapped, unfreshened>>

Copy(r) ==
  /\ At(r, "copy") /\ dir[Bundle[r]] # None
  /\ PutZip(r, [of |-> r, signed |-> FALSE, sealed |-> FALSE])
  /\ Goto(r, "extract")
  /\ UNCHANGED <<sessionDir, target, found, submitted, overlapped, unfreshened>>

\* unzip -o writes over what is there.
Extract(r) ==
  /\ At(r, "extract") /\ ZipOf(r) # None
  /\ PutTree(r, [of |-> ZipOf(r).of, signed |-> ZipOf(r).signed])
  /\ Goto(r, "list")
  /\ UNCHANGED <<sessionDir, target, found, submitted, overlapped, unfreshened>>

\* The archives of others in the directory.
OtherZips(r) == {a \in Archives \ {Archive[r]} : dir[Bundle[r]].zips[a] # None}

\* getExtractedDirName takes the first entry that is not the archive. Without
\* one the name is 'undefined'.
List(r) ==
  /\ At(r, "list") /\ dir[Bundle[r]] # None
  /\ \E first \in BOOLEAN :
       /\ first => TreeOf(r) # None
       /\ ~first => TreeOf(r) = None \/ OtherZips(r) # {}
       /\ found' = [found EXCEPT ![r] = first]
  /\ Goto(r, "sign")
  /\ UNCHANGED <<dir, sessionDir, target, submitted, overlapped, unfreshened>>

\* (mutated: no binary is found)
SignBinariesNone(r) ==
  /\ At(r, "sign")
  /\ Goto(r, "freshen")
  /\ UNCHANGED <<dir, sessionDir, target, found, submitted, overlapped, unfreshened>>

\* signBinaries; where nothing is found there is nothing to sign.
SignBinaries(r) ==
  /\ At(r, "sign")
  /\ IF found[r] /\ TreeOf(r) # None THEN PutTree(r, [TreeOf(r) EXCEPT !.signed = TRUE])
                                     ELSE UNCHANGED dir
  /\ Goto(r, "freshen")
  /\ UNCHANGED <<sessionDir, target, found, submitted, overlapped, unfreshened>>

\* zip -f puts the signed binaries into the archive.
Freshen(r) ==
  /\ At(r, "freshen") /\ ZipOf(r) # None /\ TreeOf(r) # None
  /\ PutZip(r, [of |-> TreeOf(r).of, signed |-> TreeOf(r).signed, sealed |-> FALSE])
  /\ Goto(r, "seal")
  /\ UNCHANGED <<sessionDir, target, found, submitted, overlapped, unfreshened>>

\* zip fails. Its exit code is not looked at, and the archive stays as it is.
FreshenFails(r) ==
  /\ At(r, "freshen")
  /\ unfreshened' = unfreshened \cup {r}
  /\ Goto(r, "seal")
  /\ UNCHANGED <<dir, sessionDir, target, found, submitted, overlapped>>

\* (mutated: the test of the field is the wrong way round)
SealInverted(r) ==
  /\ At(r, "seal") /\ ZipOf(r) # None
  /\ PutZip(r, [ZipOf(r) EXCEPT !.sealed = TRUE])
  /\ Goto(r, IF r \in Notarizing THEN "serve" ELSE "notarize")
  /\ UNCHANGED <<sessionDir, target, found, submitted, overlapped, unfreshened>>

\* The archive is signed.
Seal(r) ==
  /\ At(r, "seal") /\ ZipOf(r) # None
  /\ PutZip(r, [ZipOf(r) EXCEPT !.sealed = TRUE])
  /\ Goto(r, IF r \in Notarizing THEN "notarize" ELSE "serve")
  /\ UNCHANGED <<sessionDir, target, found, submitted, overlapped, unfreshened>>

\* notarize uploads the archive as it is now.
Notarize(r) ==
  /\ At(r, "notarize") /\ ZipOf(r) # None
  /\ submitted' = [submitted EXCEPT ![r] = ZipOf(r)]
  /\ Goto(r, "wait")
  /\ UNCHANGED <<dir, sessionDir, target, found, overlapped, unfreshened>>

\* waitForNotarization: a poll that finds the status 'success'. Those that find
\* it 'in progress', or fail, change nothing.
Approved(r) ==
  /\ At(r, "wait")
  /\ Goto(r, "serve")
  /\ UNCHANGED <<dir, sessionDir, target, found, submitted, overlapped, unfreshened>>

\* A poll that finds 'invalid' or 'failed'.
Invalid(r) ==
  /\ At(r, "wait")
  /\ Reject(r)

\* After six hours there are no more polls. The promise is left as it is.
GiveUp(r) ==
  /\ At(r, "wait")
  /\ Goto(r, "abandoned")
  /\ UNCHANGED <<dir, sessionDir, target, found, submitted, overlapped, unfreshened>>

\* sendFile
Serve(r) ==
  /\ At(r, "serve") /\ ZipOf(r) # None
  /\ Answer(r)
  /\ UNCHANGED <<dir, sessionDir>>

\* (mutated: only a copy that fails is noticed)
GoneCopy(r) == At(r, "copy") /\ dir[Bundle[r]] = None

\* What a step works on is gone: another request has deleted it, or this one
\* has made another directory.
Gone(r) ==
  \/ At(r, "copy") /\ dir[Bundle[r]] = None
  \/ pc[r] \in {"extract", "seal", "notarize", "serve"} /\ ZipOf(r) = None

FileGone(r) ==
  /\ Gone(r)
  /\ Reject(r)

\* rmdir, unzip, codesign or altool fails.
ToolFails(r) ==
  /\ pc[r] \in {"delete", "mkdir", "copy", "extract", "sign", "seal", "notarize"}
  /\ Reject(r)

\* The process ends and every connection with it. The directories stay.
Exit ==
  /\ pc' = [r \in Requests |-> "idle"]
  /\ sessionDir' = None
  /\ target' = [r \in Requests |-> None]
  /\ found' = [r \in Requests |-> FALSE]
  /\ submitted' = [r \in Requests |-> None]
  /\ overlapped' = {} /\ unfreshened' = {}
  /\ UNCHANGED dir

\* readdir fails: its callback uses the list before it looks at the error, and
\* what it throws nobody catches.
ListThrows(r) ==
  /\ At(r, "list") /\ dir[Bundle[r]] = None
  /\ Exit

\* The service is stopped, or altool prints what a regular expression does not
\* match, and the callback throws.
Crash == (\E r \in Requests : pc[r] # "idle") /\ Exit

\* What a request does of itself, whatever comes of it.
Step(r) ==
  \/ Delete(r) \/ Mkdir(r) \/ Copy(r) \/ Extract(r) \/ List(r) \/ ListThrows(r)
  \/ SignBinaries(r) \/ Freshen(r) \/ FreshenFails(r) \/ Seal(r) \/ Notarize(r)
  \/ Approved(r) \/ Invalid(r) \/ Serve(r) \/ FileGone(r)

Next ==
  \/ \E r \in Requests : Post(r) \/ Step(r) \/ GiveUp(r) \/ ToolFails(r)
  \/ Crash

Spec == Init /\ [][Next]_vars

-----------------------------------------------------------------------------

Phases ==
  {"idle", "delete", "mkdir", "copy", "extract", "list", "sign", "freshen", "seal",
   "notarize", "wait", "serve", "abandoned"}

\* What each variable holds: a request knows the directory it makes and, while
\* it waits, the archive that Apple has.
TypeOK ==
  /\ dir \in [Bundles -> Directory \cup {None}]
  /\ sessionDir \in Bundles \cup {None}
  /\ pc \in [Requests -> Phases]
  /\ target \in [Requests -> Bundles \cup {None}]
  /\ \A r \in Requests : pc[r] = "mkdir" => target[r] # None
  /\ found \in [Requests -> BOOLEAN]
  /\ submitted \in [Requests -> ZipFile \cup {None}]
  /\ \A r \in Requests : pc[r] = "wait" => submitted[r] # None
  /\ overlapped \subseteq Requests /\ unfreshened \subseteq Requests

\* A request (app.post of /zip/) that is alone with its bundle, and for which
\* zip does what it should, is never answered with an archive but its own,
\* signed inside and out, whatever requests for other bundles and earlier ones
\* for this one did.
OwnArchive ==
  [][\A r \in Requests \ overlapped :
       Serve(r) => /\ ZipOf(r).of = r /\ ZipOf(r).sealed
                   /\ r \notin unfreshened => ZipOf(r).signed]_vars

\* What it is answered with (serveFile) is what Apple has notarized, to the
\* last byte.
ApprovedServed ==
  [][\A r \in Notarizing \ overlapped : Serve(r) => ZipOf(r) = submitted[r]]_vars

\* Whatever other requests have deleted, one in progress has a step of its own
\* to take (an action of the chain of promises, or its catch): no promise on the
\* way is left unsettled but that of waitForNotarization after six hours.
NeverStuck == \A r \in Busy : ENABLED Step(r)
=============================================================================
