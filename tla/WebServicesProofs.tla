------------------------- MODULE WebServicesProofs -------------------------
(***************************************************************************)
(* What is proved of the two services whose requests interleave:           *)
(*   - Notarizer: what a request is answered with, for any requests,       *)
(*     bundles and archives;                                               *)
(*   - Pathdiff: its variables keep their types, a post leaves no more     *)
(*     rows than there were posts of the listing at a time, and a poll of  *)
(*     the queue misses only the tasks that moved while it went on.        *)
(***************************************************************************)
EXTENDS Notarizer, Pathdiff, FiniteSetTheorems, TLAPS

-----------------------------------------------------------------------------
\* Notarizer.

\* The requests that have been alone with their bundle so far.
Alone == Busy \ overlapped

\* Two requests in progress for one bundle know of each other, and while there
\* is a request, the global is some bundle.
RequestsInv ==
  /\ \A r, o \in Busy : r # o /\ Bundle[r] = Bundle[o] => r \in overlapped
  /\ (\E r \in Requests : pc[r] # "idle") => sessionDir # None

HasOwn(r) == dir[Bundle[r]] # None /\ ZipOf(r) # None /\ ZipOf(r).of = r
HasTree(r) == TreeOf(r) # None /\ TreeOf(r).of = r

\* What is in the directory of a request, by how far it is. It may have been made
\* by another, whose own it was to be.
OwnDirectory(r) ==
  /\ pc[r] \in {"mkdir", "copy"} /\ dir[Bundle[r]] # None => ZipOf(r) = None /\ OtherZips(r) = {}
  /\ pc[r] \in {"extract", "list"} => OtherZips(r) = {}
  /\ pc[r] \in {"extract", "list", "sign", "freshen", "seal", "notarize", "wait", "serve"} =>
       HasOwn(r)
  /\ pc[r] \in {"list", "sign", "freshen"} => HasTree(r)
  /\ pc[r] = "sign" => found[r]
  /\ pc[r] = "freshen" => TreeOf(r).signed
  /\ pc[r] \in {"seal", "notarize", "wait", "serve"} => r \in unfreshened \/ ZipOf(r).signed
  /\ pc[r] \in {"notarize", "wait", "serve"} => ZipOf(r).sealed
  /\ pc[r] = "wait" \/ (pc[r] = "serve" /\ r \in Notarizing) => submitted[r] = ZipOf(r)

DirectoryInv == \A r \in Alone : OwnDirectory(r)

IInv == TypeOK /\ RequestsInv /\ DirectoryInv

\* What a request does, but for an exception that ends the process.
Act(r) ==
  \/ Post(r) \/ Delete(r) \/ Mkdir(r) \/ Copy(r) \/ Extract(r) \/ List(r) \/ SignBinaries(r)
  \/ Freshen(r) \/ FreshenFails(r) \/ Seal(r) \/ Notarize(r) \/ Approved(r) \/ Invalid(r)
  \/ Serve(r) \/ FileGone(r) \/ GiveUp(r) \/ ToolFails(r)

LEMMA NextIs == Next <=> (\E r \in Requests : Act(r) \/ ListThrows(r)) \/ Crash
BY Zenon DEF Next, Step, Act

-----------------------------------------------------------------------------
\* The directories.

LEMMA BundleType ==
  ASSUME NEW r \in Requests
  PROVE  Bundle[r] \in Bundles /\ Archive[r] \in Archives
BY DEF Bundles, Archives

LEMMA ZipType ==
  ASSUME TypeOK, NEW r \in Requests
  PROVE  ZipOf(r) \in ZipFile \cup {None} /\ TreeOf(r) \in Tree \cup {None}
BY BundleType DEF TypeOK, ZipOf, TreeOf, Directory

\* An archive or a tree that is put into a directory, which is there.
LEMMA PutZipIs ==
  ASSUME TypeOK, NEW r \in Requests, dir[Bundle[r]] # None, NEW zip \in ZipFile, PutZip(r, zip)
  PROVE  /\ dir' \in [Bundles -> Directory \cup {None}]
         /\ dir'[Bundle[r]] # None
         /\ ZipOf(r)' = zip /\ TreeOf(r)' = TreeOf(r) /\ OtherZips(r)' = OtherZips(r)
         /\ \A b \in Bundles \ {Bundle[r]} : dir'[b] = dir[b]
<1> DEFINE b == Bundle[r]
           a == Archive[r]
<1>1. b \in Bundles /\ a \in Archives /\ dir[b] \in Directory
  BY BundleType DEF TypeOK
<1>2. dir \in [Bundles -> Directory \cup {None}]
  BY DEF TypeOK
<1>3. dir' = [dir EXCEPT ![b] = [dir[b] EXCEPT !.zips = [dir[b].zips EXCEPT ![a] = zip]]]
  BY DEF PutZip
<1>4. PICK zips, tree :
        /\ zips \in [Archives -> ZipFile \cup {None}] /\ tree \in Tree \cup {None}
        /\ dir[b] = [zips |-> zips, tree |-> tree]
  BY <1>1 DEF Directory
<1>5. [dir[b] EXCEPT !.zips = [dir[b].zips EXCEPT ![a] = zip]]
        = [zips |-> [zips EXCEPT ![a] = zip], tree |-> tree]
  BY <1>4
<1>6. [zips |-> [zips EXCEPT ![a] = zip], tree |-> tree] \in Directory
  BY <1>1, <1>4 DEF Directory
<1>7. /\ dir' \in [Bundles -> Directory \cup {None}]
      /\ dir'[b] = [zips |-> [zips EXCEPT ![a] = zip], tree |-> tree]
      /\ \A c \in Bundles \ {b} : dir'[c] = dir[c]
  BY <1>1, <1>2, <1>3, <1>5, <1>6
<1>8. dir'[b] # None
  BY <1>6, <1>7, RequestsAssumption
<1>9. ZipOf(r)' = zip /\ TreeOf(r)' = TreeOf(r)
  BY <1>1, <1>4, <1>7, <1>8 DEF ZipOf, TreeOf
<1>10. OtherZips(r)' = OtherZips(r)
  BY <1>1, <1>4, <1>7 DEF OtherZips
<1> QED
  BY <1>7, <1>8, <1>9, <1>10

LEMMA PutTreeIs ==
  ASSUME TypeOK, NEW r \in Requests, dir[Bundle[r]] # None, NEW tree \in Tree, PutTree(r, tree)
  PROVE  /\ dir' \in [Bundles -> Directory \cup {None}]
         /\ dir'[Bundle[r]] # None
         /\ ZipOf(r)' = ZipOf(r) /\ TreeOf(r)' = tree /\ OtherZips(r)' = OtherZips(r)
         /\ \A b \in Bundles \ {Bundle[r]} : dir'[b] = dir[b]
<1> DEFINE b == Bundle[r]
<1>1. b \in Bundles /\ Archive[r] \in Archives /\ dir[b] \in Directory
  BY BundleType DEF TypeOK
<1>2. dir \in [Bundles -> Directory \cup {None}]
  BY DEF TypeOK
<1>3. dir' = [dir EXCEPT ![b] = [dir[b] EXCEPT !.tree = tree]]
  BY DEF PutTree
<1>4. [dir[b] EXCEPT !.tree = tree] = [zips |-> dir[b].zips, tree |-> tree]
  BY <1>1 DEF Directory
<1>5. [zips |-> dir[b].zips, tree |-> tree] \in Directory
  BY <1>1 DEF Directory
<1>6. /\ dir' \in [Bundles -> Directory \cup {None}]
      /\ dir'[b] = [zips |-> dir[b].zips, tree |-> tree]
      /\ \A c \in Bundles \ {b} : dir'[c] = dir[c]
  BY <1>1, <1>2, <1>3, <1>4, <1>5
<1>7. dir'[b] # None
  BY <1>5, <1>6, RequestsAssumption
<1>8. ZipOf(r)' = ZipOf(r) /\ TreeOf(r)' = tree
  BY <1>6, <1>7 DEF ZipOf, TreeOf
<1>9. OtherZips(r)' = OtherZips(r)
  BY <1>6 DEF OtherZips
<1> QED
  BY <1>6, <1>7, <1>8, <1>9

\* A directory that is made is empty.
LEMMA MkdirIs ==
  ASSUME TypeOK, NEW r \in Requests, Mkdir(r)
  PROVE  /\ dir' \in [Bundles -> Directory \cup {None}]
         /\ \A o \in Requests :
              \/ dir'[Bundle[o]] = dir[Bundle[o]]
              \/ dir[Bundle[o]] = None /\ ZipOf(o)' = None /\ OtherZips(o)' = {}
<1> DEFINE new == [zips |-> [a \in Archives |-> None], tree |-> None]
<1>1. new \in Directory
  BY DEF Directory
<1>2. target[r] \in Bundles
  BY DEF TypeOK, Mkdir, At
<1>3. CASE dir[target[r]] # None
  BY <1>3 DEF Mkdir, TypeOK
<1>4. CASE dir[target[r]] = None
  <2>1. dir' = [dir EXCEPT ![target[r]] = new]
    BY <1>4 DEF Mkdir
  <2>2. dir' \in [Bundles -> Directory \cup {None}]
    BY <1>1, <1>2, <2>1 DEF TypeOK
  <2>3. ASSUME NEW o \in Requests, dir'[Bundle[o]] # dir[Bundle[o]]
        PROVE  dir[Bundle[o]] = None /\ ZipOf(o)' = None /\ OtherZips(o)' = {}
    <3>1. Bundle[o] = target[r] /\ dir'[Bundle[o]] = new
      BY <1>2, <2>1, <2>3, BundleType DEF TypeOK
    <3>2. new.zips = [a \in Archives |-> None] /\ Archive[o] \in Archives
      BY BundleType
    <3>3. ZipOf(o)' = None
      BY <3>1, <3>2 DEF ZipOf
    <3>4. OtherZips(o)' = {}
      BY <3>1, <3>2 DEF OtherZips
    <3> QED
      BY <1>4, <3>1, <3>3, <3>4
  <2> QED
    BY <2>2, <2>3
<1> QED
  BY <1>3, <1>4

-----------------------------------------------------------------------------
\* Types.

LEMMA InitIInv == Init => IInv
<1> SUFFICES ASSUME Init PROVE IInv
  OBVIOUS
<1>1. TypeOK
  BY DEF Init, TypeOK, Phases
<1> QED
  BY <1>1 DEF Init, IInv, RequestsInv, DirectoryInv, Alone, Busy

\* How far the requests are, and what they know.
ProgressOK ==
  /\ sessionDir \in Bundles \cup {None}
  /\ pc \in [Requests -> Phases]
  /\ target \in [Requests -> Bundles \cup {None}]
  /\ \A r \in Requests : pc[r] = "mkdir" => target[r] # None
  /\ found \in [Requests -> BOOLEAN]
  /\ submitted \in [Requests -> ZipFile \cup {None}]
  /\ \A r \in Requests : pc[r] = "wait" => submitted[r] # None
  /\ overlapped \subseteq Requests /\ unfreshened \subseteq Requests

LEMMA TypeIs == TypeOK <=> dir \in [Bundles -> Directory \cup {None}] /\ ProgressOK
BY DEF TypeOK, ProgressOK

LEMMA AnswerType ==
  ASSUME ProgressOK, NEW r \in Requests, Answer(r), UNCHANGED sessionDir
  PROVE  ProgressOK'
BY DEF ProgressOK, Answer, Goto, Phases

LEMMA ActProgress ==
  ASSUME TypeOK, RequestsInv, NEW r \in Requests, Act(r)
  PROVE  ProgressOK'
<1>0. ProgressOK
  BY TypeIs
<1>1. CASE Post(r)
  BY <1>0, <1>1, BundleType, RequestsAssumption DEF Post, ProgressOK, Goto, Phases, Busy
<1>2. CASE Delete(r)
  <2>1. sessionDir # None
    BY <1>2 DEF Delete, At, RequestsInv
  <2> QED
    BY <1>0, <1>2, <2>1 DEF Delete, ProgressOK, Goto, Phases
<1>3. CASE Mkdir(r)
  BY <1>0, <1>3 DEF Mkdir, ProgressOK, Goto, Phases
<1>4. CASE Copy(r) \/ Extract(r) \/ SignBinaries(r) \/ Freshen(r) \/ FreshenFails(r) \/ Seal(r)
  BY <1>0, <1>4
     DEF Copy, Extract, SignBinaries, Freshen, FreshenFails, Seal, ProgressOK, Goto, Phases
<1>5. CASE List(r)
  BY <1>0, <1>5 DEF List, ProgressOK, Goto, Phases
<1>6. CASE Notarize(r)
  BY <1>0, <1>6, ZipType DEF Notarize, ProgressOK, Goto, Phases
<1>7. CASE Approved(r) \/ GiveUp(r)
  BY <1>0, <1>7 DEF Approved, GiveUp, ProgressOK, Goto, Phases
<1>8. CASE Invalid(r) \/ Serve(r) \/ FileGone(r) \/ ToolFails(r)
  BY <1>0, <1>8, AnswerType DEF Invalid, Serve, FileGone, ToolFails, Reject
<1> QED
  BY <1>1, <1>2, <1>3, <1>4, <1>5, <1>6, <1>7, <1>8, Zenon DEF Act

\* Where a step puts something, the directory is there.
LEMMA Written ==
  ASSUME TypeOK, NEW r \in Requests
  PROVE  /\ ZipOf(r) # None \/ TreeOf(r) # None => dir[Bundle[r]] # None
         /\ Copy(r) => [of |-> r, signed |-> FALSE, sealed |-> FALSE] \in ZipFile
         /\ Extract(r) => [of |-> ZipOf(r).of, signed |-> ZipOf(r).signed] \in Tree
         /\ TreeOf(r) # None => [TreeOf(r) EXCEPT !.signed = TRUE] \in Tree
         /\ Freshen(r) =>
              [of |-> TreeOf(r).of, signed |-> TreeOf(r).signed, sealed |-> FALSE] \in ZipFile
         /\ ZipOf(r) # None => [ZipOf(r) EXCEPT !.sealed = TRUE] \in ZipFile
<1>1. ZipOf(r) # None \/ TreeOf(r) # None => dir[Bundle[r]] # None
  BY DEF ZipOf, TreeOf
<1>2. /\ ZipOf(r) # None => ZipOf(r) \in ZipFile
      /\ TreeOf(r) # None => TreeOf(r) \in Tree
  BY ZipType
<1>3. Extract(r) => [of |-> ZipOf(r).of, signed |-> ZipOf(r).signed] \in Tree
  BY <1>2 DEF Extract, ZipFile, Tree
<1>4. TreeOf(r) # None => [TreeOf(r) EXCEPT !.signed = TRUE] \in Tree
  BY <1>2 DEF Tree
<1>5. Freshen(r) => [of |-> TreeOf(r).of, signed |-> TreeOf(r).signed, sealed |-> FALSE] \in ZipFile
  BY <1>2 DEF Freshen, ZipFile, Tree
<1>6. ZipOf(r) # None => [ZipOf(r) EXCEPT !.sealed = TRUE] \in ZipFile
  BY <1>2 DEF ZipFile
<1> QED
  BY <1>1, <1>3, <1>4, <1>5, <1>6 DEF ZipFile

\* What the step of a request leaves of the directories: but for mkdirp, it writes
\* to that of its own bundle.
LEMMA ActDir ==
  ASSUME TypeOK, NEW r \in Requests, Act(r)
  PROVE  /\ dir' \in [Bundles -> Directory \cup {None}]
         /\ ~Mkdir(r) => \A b \in Bundles \ {Bundle[r]} : dir'[b] = dir[b]
<1>0. dir \in [Bundles -> Directory \cup {None}]
  BY DEF TypeOK
<1>1. CASE UNCHANGED dir
  BY <1>0, <1>1
<1>2. CASE Delete(r)
  BY <1>0, <1>2 DEF Delete
<1>3. CASE Mkdir(r)
  BY <1>3, MkdirIs
<1>4. CASE Copy(r)
  BY <1>4, Written, PutZipIs DEF Copy
<1>5. CASE Extract(r)
  BY <1>5, Written, PutTreeIs DEF Extract
<1>6. CASE SignBinaries(r)
  <2>1. CASE TreeOf(r) # None /\ found[r]
    BY <1>6, <2>1, Written, PutTreeIs DEF SignBinaries
  <2>2. CASE ~(TreeOf(r) # None /\ found[r])
    BY <1>1, <1>6, <2>2 DEF SignBinaries
  <2> QED
    BY <2>1, <2>2
<1>7. CASE Freshen(r)
  BY <1>7, Written, PutZipIs DEF Freshen
<1>8. CASE Seal(r)
  BY <1>8, Written, PutZipIs DEF Seal
<1>9. CASE \/ Post(r) \/ List(r) \/ FreshenFails(r) \/ Notarize(r) \/ Approved(r)
           \/ Invalid(r) \/ Serve(r) \/ FileGone(r) \/ GiveUp(r) \/ ToolFails(r)
  BY <1>1, <1>9 DEF Post, List, FreshenFails, Notarize, Approved, Invalid, Serve, FileGone, GiveUp,
                   ToolFails, Reject
<1> QED
  BY <1>2, <1>3, <1>4, <1>5, <1>6, <1>7, <1>8, <1>9, Zenon DEF Act

LEMMA ActType ==
  ASSUME TypeOK, RequestsInv, NEW r \in Requests, Act(r)
  PROVE  TypeOK'
<1>1. dir' \in [Bundles -> Directory \cup {None}] /\ ProgressOK'
  BY ActDir, ActProgress
<1> QED
  BY <1>1 DEF TypeOK, ProgressOK

LEMMA ExitKeeps == ASSUME TypeOK, Exit PROVE IInv'
<1>1. TypeOK'
  BY DEF Exit, TypeOK, Phases
<1> QED
  BY <1>1 DEF Exit, IInv, RequestsInv, DirectoryInv, Alone, Busy

-----------------------------------------------------------------------------
\* A request and the others.

LEMMA OthersSame ==
  ASSUME TypeOK, NEW r \in Requests, Act(r), NEW o \in Requests \ {r}
  PROVE  /\ pc'[o] = pc[o] /\ found'[o] = found[o] /\ submitted'[o] = submitted[o]
         /\ o \in unfreshened' <=> o \in unfreshened
         /\ o \in overlapped => o \in overlapped'
<1>1. CASE Invalid(r) \/ Serve(r) \/ FileGone(r) \/ ToolFails(r)
  BY <1>1 DEF Invalid, Serve, FileGone, ToolFails, Reject, Answer, Goto, TypeOK
<1>2. CASE Post(r) \/ Delete(r) \/ Mkdir(r) \/ Copy(r) \/ Extract(r) \/ List(r)
  BY <1>2 DEF Post, Delete, Mkdir, Copy, Extract, List, Goto, TypeOK
<1>3. CASE SignBinaries(r) \/ Freshen(r) \/ FreshenFails(r) \/ Seal(r) \/ Notarize(r)
  BY <1>3 DEF SignBinaries, Freshen, FreshenFails, Seal, Notarize, Goto, TypeOK
<1>4. CASE Approved(r) \/ GiveUp(r)
  BY <1>4 DEF Approved, GiveUp, Goto, TypeOK
<1> QED
  BY <1>1, <1>2, <1>3, <1>4, Zenon DEF Act

\* A request that does something but begin is in progress, and stays as alone as
\* it is or is answered.
LEMMA ActBusy ==
  ASSUME TypeOK, NEW r \in Requests, Act(r), ~Post(r)
  PROVE  r \in Busy /\ (r \in overlapped /\ r \in Busy' => r \in overlapped')
                    /\ sessionDir' = sessionDir
<1>1. CASE Invalid(r) \/ Serve(r) \/ FileGone(r) \/ ToolFails(r)
  BY <1>1 DEF Invalid, Serve, FileGone, Gone, ToolFails, Reject, Answer, Goto, At, TypeOK, Busy
<1>2. CASE Delete(r) \/ Mkdir(r) \/ Copy(r) \/ Extract(r) \/ List(r)
  BY <1>2 DEF Delete, Mkdir, Copy, Extract, List, Goto, At, TypeOK, Busy
<1>3. CASE SignBinaries(r) \/ Freshen(r) \/ FreshenFails(r) \/ Seal(r) \/ Notarize(r)
  BY <1>3 DEF SignBinaries, Freshen, FreshenFails, Seal, Notarize, Goto, At, TypeOK, Busy
<1>4. CASE Approved(r) \/ GiveUp(r)
  BY <1>4 DEF Approved, GiveUp, Goto, At, TypeOK, Busy
<1> QED
  BY <1>1, <1>2, <1>3, <1>4, Zenon DEF Act

LEMMA ActRequests ==
  ASSUME TypeOK, RequestsInv, NEW r \in Requests, Act(r)
  PROVE  RequestsInv'
<1>1. ASSUME NEW o \in Busy', NEW q \in Busy', o # q, Bundle[o] = Bundle[q]
      PROVE  o \in overlapped'
  <2>0. o \in Requests /\ q \in Requests
    BY <1>1 DEF Busy
  <2>1. CASE Post(r)
    <3>1. \A s \in Requests \ {r} : s \in Busy' => s \in Busy
      BY OthersSame DEF Busy
    <3>2. CASE o = r \/ q = r
      <4>1. o \in {r} \cup {s \in Busy : Bundle[s] = Bundle[r]}
        BY <1>1, <2>0, <3>1, <3>2
      <4>2. {s \in Busy : Bundle[s] = Bundle[r]} # {}
        BY <1>1, <2>0, <3>1, <3>2
      <4> QED
        BY <2>1, <4>1, <4>2 DEF Post
    <3>3. CASE o # r /\ q # r
      BY <1>1, <2>0, <3>1, <3>3, OthersSame DEF RequestsInv
    <3> QED
      BY <3>2, <3>3
  <2>2. CASE ~Post(r)
    <3>1. \A s \in Requests : s \in Busy' => s \in Busy
      BY <2>2, ActBusy, OthersSame DEF Busy
    <3>2. o \in overlapped
      BY <1>1, <2>0, <3>1 DEF RequestsInv
    <3> QED
      BY <1>1, <2>0, <2>2, <3>2, ActBusy, OthersSame
  <2> QED
    BY <2>1, <2>2
<1>2. (\E s \in Requests : pc'[s] # "idle") => sessionDir' # None
  <2>1. CASE Post(r)
    BY <2>1, BundleType, RequestsAssumption DEF Post
  <2>2. CASE ~Post(r)
    <3>1. pc[r] # "idle" /\ sessionDir' = sessionDir
      BY <2>2, ActBusy DEF Busy
    <3> QED
      BY <3>1 DEF RequestsInv
  <2> QED
    BY <2>1, <2>2
<1> QED
  BY <1>1, <1>2 DEF RequestsInv

\* A request that is alone is left alone: what others do is in other directories,
\* but that they may make one that is not there.
LEMMA OthersKeep ==
  ASSUME IInv, NEW r \in Requests, Act(r), NEW o \in Alone', o # r
  PROVE  OwnDirectory(o)'
<1> USE DEF IInv
<1>0. o \in Requests /\ TypeOK
  BY DEF Alone, Busy
<1>1. o \in Alone /\ OwnDirectory(o)
  BY <1>0, OthersSame DEF Alone, Busy, DirectoryInv
<1>2. /\ pc'[o] = pc[o] /\ found'[o] = found[o] /\ submitted'[o] = submitted[o]
      /\ o \in unfreshened' <=> o \in unfreshened
  BY <1>0, OthersSame
<1>3. Bundle[o] # Bundle[r]
  <2>1. CASE Post(r)
    BY <1>1, <2>1 DEF Post, Alone, Busy
  <2>2. CASE ~Post(r)
    BY <1>1, <2>2, ActBusy DEF RequestsInv, Alone
  <2> QED
    BY <2>1, <2>2
<1>4. CASE dir'[Bundle[o]] = dir[Bundle[o]]
  <2>1. ZipOf(o)' = ZipOf(o) /\ TreeOf(o)' = TreeOf(o) /\ OtherZips(o)' = OtherZips(o)
    BY <1>4 DEF ZipOf, TreeOf, OtherZips
  <2> QED
    BY <1>1, <1>2, <1>4, <2>1 DEF OwnDirectory, HasOwn, HasTree
<1>5. CASE dir'[Bundle[o]] # dir[Bundle[o]]
  <2>1. Mkdir(r)
    BY <1>0, <1>3, <1>5, ActDir, BundleType
  <2>2. dir[Bundle[o]] = None /\ ZipOf(o)' = None /\ OtherZips(o)' = {}
    BY <1>0, <1>5, <2>1, MkdirIs
  <2>3. pc[o] \notin {"extract", "list", "sign", "freshen", "seal", "notarize", "wait", "serve"}
    BY <1>1, <2>2 DEF OwnDirectory, HasOwn
  <2> QED
    BY <1>2, <2>2, <2>3 DEF OwnDirectory
<1> QED
  BY <1>4, <1>5

-----------------------------------------------------------------------------
\* A request in its own directory, step by step.

LEMMA OwnUntilCopied ==
  ASSUME TypeOK, NEW r \in Alone, OwnDirectory(r), Delete(r) \/ Mkdir(r) \/ Copy(r)
  PROVE  OwnDirectory(r)'
<1>0. r \in Requests /\ Bundle[r] \in Bundles
  BY BundleType DEF Alone, Busy
<1>1. CASE Delete(r)
  <2>1. pc'[r] = "mkdir" /\ dir'[Bundle[r]] = None
    BY <1>0, <1>1 DEF Delete, Goto, TypeOK
  <2> QED
    BY <2>1 DEF OwnDirectory
<1>2. CASE Mkdir(r)
  <2>1. pc[r] = "mkdir" /\ pc'[r] = "copy"
    BY <1>0, <1>2 DEF Mkdir, At, Goto, TypeOK
  <2>2. CASE dir'[Bundle[r]] = dir[Bundle[r]]
    <3>1. ZipOf(r)' = ZipOf(r) /\ OtherZips(r)' = OtherZips(r)
      BY <2>2 DEF ZipOf, OtherZips
    <3> QED
      BY <2>1, <2>2, <3>1 DEF OwnDirectory
  <2>3. CASE dir'[Bundle[r]] # dir[Bundle[r]]
    <3>1. ZipOf(r)' = None /\ OtherZips(r)' = {}
      BY <1>0, <1>2, <2>3, MkdirIs
    <3> QED
      BY <2>1, <3>1 DEF OwnDirectory
  <2> QED
    BY <2>2, <2>3
<1>3. CASE Copy(r)
  <2> DEFINE zip == [of |-> r, signed |-> FALSE, sealed |-> FALSE]
  <2>1. pc[r] = "copy" /\ pc'[r] = "extract" /\ dir[Bundle[r]] # None
    BY <1>0, <1>3 DEF Copy, At, Goto, TypeOK
  <2>2. OtherZips(r) = {}
    BY <2>1 DEF OwnDirectory
  <2>3. zip \in ZipFile /\ PutZip(r, zip)
    BY <1>0, <1>3, Written DEF Copy
  <2>4. dir'[Bundle[r]] # None /\ ZipOf(r)' = zip /\ OtherZips(r)' = {}
    BY <1>0, <2>1, <2>2, <2>3, PutZipIs
  <2>5. zip.of = r /\ zip # None
    BY <2>3, RequestsAssumption
  <2> QED
    BY <2>1, <2>4, <2>5 DEF OwnDirectory, HasOwn
<1> QED
  BY <1>1, <1>2, <1>3

LEMMA OwnUntilSigned ==
  ASSUME TypeOK, NEW r \in Alone, OwnDirectory(r), Extract(r) \/ List(r) \/ SignBinaries(r)
  PROVE  OwnDirectory(r)'
<1>0. r \in Requests /\ Bundle[r] \in Bundles
  BY BundleType DEF Alone, Busy
<1>1. CASE Extract(r)
  <2> DEFINE tree == [of |-> ZipOf(r).of, signed |-> ZipOf(r).signed]
  <2>1. pc[r] = "extract" /\ pc'[r] = "list"
    BY <1>0, <1>1 DEF Extract, At, Goto, TypeOK
  <2>2. OtherZips(r) = {} /\ HasOwn(r)
    BY <2>1 DEF OwnDirectory
  <2>3. tree \in Tree /\ PutTree(r, tree)
    BY <1>0, <1>1, Written DEF Extract
  <2>4. /\ dir'[Bundle[r]] # None /\ ZipOf(r)' = ZipOf(r) /\ TreeOf(r)' = tree
        /\ OtherZips(r)' = {}
    BY <1>0, <2>2, <2>3, PutTreeIs DEF HasOwn
  <2>5. tree.of = r /\ tree # None
    BY <2>2, <2>3, RequestsAssumption DEF HasOwn
  <2> QED
    BY <2>1, <2>2, <2>4, <2>5 DEF OwnDirectory, HasOwn, HasTree
<1>2. CASE List(r)
  <2>1. pc[r] = "list" /\ pc'[r] = "sign" /\ dir' = dir
    BY <1>0, <1>2 DEF List, At, Goto, TypeOK
  <2>2. OtherZips(r) = {} /\ HasOwn(r) /\ HasTree(r)
    BY <2>1 DEF OwnDirectory
  <2>3. found'[r] = TRUE
    BY <1>0, <1>2, <2>2 DEF List, HasTree, TypeOK
  <2>4. HasOwn(r)' /\ HasTree(r)'
    BY <2>1, <2>2 DEF HasOwn, HasTree, ZipOf, TreeOf
  <2> QED
    BY <2>1, <2>3, <2>4 DEF OwnDirectory
<1>3. CASE SignBinaries(r)
  <2> DEFINE tree == [TreeOf(r) EXCEPT !.signed = TRUE]
  <2>1. pc[r] = "sign" /\ pc'[r] = "freshen"
    BY <1>0, <1>3 DEF SignBinaries, At, Goto, TypeOK
  <2>2. HasOwn(r) /\ HasTree(r) /\ found[r]
    BY <2>1 DEF OwnDirectory
  <2>3. tree \in Tree /\ PutTree(r, tree)
    BY <1>0, <1>3, <2>2, Written DEF SignBinaries, HasTree
  <2>4. dir'[Bundle[r]] # None /\ ZipOf(r)' = ZipOf(r) /\ TreeOf(r)' = tree
    BY <1>0, <2>2, <2>3, PutTreeIs DEF HasOwn
  <2>5. tree.of = r /\ tree.signed /\ tree # None
    <3>1. TreeOf(r) \in Tree
      BY <1>0, <2>2, ZipType DEF HasTree
    <3> QED
      BY <2>2, <2>3, <3>1, RequestsAssumption DEF HasTree, Tree
  <2> QED
    BY <2>1, <2>2, <2>4, <2>5 DEF OwnDirectory, HasOwn, HasTree
<1> QED
  BY <1>1, <1>2, <1>3

LEMMA OwnUntilSealed ==
  ASSUME TypeOK, NEW r \in Alone, OwnDirectory(r), Freshen(r) \/ FreshenFails(r) \/ Seal(r)
  PROVE  OwnDirectory(r)'
<1>0. r \in Requests /\ Bundle[r] \in Bundles
  BY BundleType DEF Alone, Busy
<1>1. CASE Freshen(r)
  <2> DEFINE zip == [of |-> TreeOf(r).of, signed |-> TreeOf(r).signed, sealed |-> FALSE]
  <2>1. pc[r] = "freshen" /\ pc'[r] = "seal"
    BY <1>0, <1>1 DEF Freshen, At, Goto, TypeOK
  <2>2. HasOwn(r) /\ HasTree(r) /\ TreeOf(r).signed
    BY <2>1 DEF OwnDirectory
  <2>3. zip \in ZipFile /\ PutZip(r, zip)
    BY <1>0, <1>1, Written DEF Freshen
  <2>4. dir'[Bundle[r]] # None /\ ZipOf(r)' = zip
    BY <1>0, <2>2, <2>3, PutZipIs DEF HasOwn
  <2>5. zip.of = r /\ zip.signed /\ zip # None
    BY <2>2, <2>3, RequestsAssumption DEF HasTree
  <2> QED
    BY <2>1, <2>4, <2>5 DEF OwnDirectory, HasOwn
<1>2. CASE FreshenFails(r)
  <2>1. pc[r] = "freshen" /\ pc'[r] = "seal" /\ dir' = dir /\ r \in unfreshened'
    BY <1>0, <1>2 DEF FreshenFails, At, Goto, TypeOK
  <2>2. HasOwn(r)'
    BY <2>1 DEF OwnDirectory, HasOwn, ZipOf
  <2> QED
    BY <2>1, <2>2 DEF OwnDirectory
<1>3. CASE Seal(r)
  <2> DEFINE zip == [ZipOf(r) EXCEPT !.sealed = TRUE]
  <2>1. /\ pc[r] = "seal" /\ unfreshened' = unfreshened
        /\ pc'[r] = "notarize" \/ (pc'[r] = "serve" /\ r \notin Notarizing)
    BY <1>0, <1>3 DEF Seal, At, Goto, TypeOK
  <2>2. HasOwn(r) /\ (r \in unfreshened \/ ZipOf(r).signed)
    BY <2>1 DEF OwnDirectory
  <2>3. zip \in ZipFile /\ PutZip(r, zip)
    BY <1>0, <1>3, <2>2, Written DEF Seal, HasOwn
  <2>4. dir'[Bundle[r]] # None /\ ZipOf(r)' = zip
    BY <1>0, <2>2, <2>3, PutZipIs DEF HasOwn
  <2>5. zip.of = r /\ zip.signed = ZipOf(r).signed /\ zip.sealed /\ zip # None
    <3>1. ZipOf(r) \in ZipFile
      BY <1>0, <2>2, ZipType DEF HasOwn
    <3> QED
      BY <2>2, <2>3, <3>1, RequestsAssumption DEF HasOwn, ZipFile
  <2> QED
    BY <2>1, <2>2, <2>4, <2>5 DEF OwnDirectory, HasOwn
<1> QED
  BY <1>1, <1>2, <1>3

LEMMA OwnUntilServed ==
  ASSUME TypeOK, NEW r \in Alone, OwnDirectory(r), Notarize(r) \/ Approved(r)
  PROVE  OwnDirectory(r)'
<1>0. r \in Requests
  BY DEF Alone, Busy
<1>1. dir' = dir /\ unfreshened' = unfreshened
  BY DEF Notarize, Approved
<1>2. ZipOf(r)' = ZipOf(r) /\ (HasOwn(r) => HasOwn(r)')
  BY <1>1 DEF ZipOf, HasOwn
<1>3. CASE Notarize(r)
  <2>1. pc[r] = "notarize" /\ pc'[r] = "wait" /\ submitted'[r] = ZipOf(r)
    BY <1>0, <1>3 DEF Notarize, At, Goto, TypeOK
  <2> QED
    BY <1>1, <1>2, <2>1 DEF OwnDirectory
<1>4. CASE Approved(r)
  <2>1. pc[r] = "wait" /\ pc'[r] = "serve" /\ submitted'[r] = submitted[r]
    BY <1>0, <1>4 DEF Approved, At, Goto, TypeOK
  <2> QED
    BY <1>1, <1>2, <2>1 DEF OwnDirectory
<1> QED
  BY <1>3, <1>4

LEMMA OwnKept ==
  ASSUME IInv, NEW r \in Requests, Act(r), r \in Alone'
  PROVE  OwnDirectory(r)'
<1>0. TypeOK
  BY DEF IInv
<1>1. CASE Post(r)
  <2>1. \/ pc'[r] = "mkdir" /\ dir'[Bundle[r]] = None
        \/ pc'[r] = "delete"
    BY <1>0, <1>1 DEF Post, Goto, TypeOK
  <2> QED
    BY <2>1 DEF OwnDirectory
<1>2. CASE Invalid(r) \/ Serve(r) \/ FileGone(r) \/ ToolFails(r) \/ GiveUp(r)
  <2>1. pc'[r] \in {"idle", "abandoned"}
    BY <1>0, <1>2 DEF Invalid, Serve, FileGone, ToolFails, GiveUp, Reject, Answer, Goto, TypeOK
  <2> QED
    BY <2>1 DEF Alone, Busy
<1>3. CASE ~Post(r) /\ ~(Invalid(r) \/ Serve(r) \/ FileGone(r) \/ ToolFails(r) \/ GiveUp(r))
  <2>1. r \in Alone
    BY <1>0, <1>3, ActBusy DEF Alone
  <2>2. OwnDirectory(r)
    BY <2>1 DEF IInv, DirectoryInv
  <2> QED
    BY <1>0, <1>3, <2>1, <2>2, OwnUntilCopied, OwnUntilSigned, OwnUntilSealed, OwnUntilServed,
       Zenon DEF Act
<1> QED
  BY <1>1, <1>2, <1>3

LEMMA NextIInv == IInv /\ [Next]_vars => IInv'
<1> SUFFICES ASSUME IInv, [Next]_vars PROVE IInv'
  OBVIOUS
<1>1. ASSUME NEW r \in Requests, Act(r)
      PROVE  IInv'
  <2>1. TypeOK' /\ RequestsInv'
    BY <1>1, ActType, ActRequests DEF IInv
  <2>2. DirectoryInv'
    BY <1>1, OthersKeep, OwnKept DEF DirectoryInv, Alone, Busy
  <2> QED
    BY <2>1, <2>2 DEF IInv
<1>2. CASE Crash \/ \E r \in Requests : ListThrows(r)
  BY <1>2, ExitKeeps DEF Crash, ListThrows, IInv
<1>3. CASE UNCHANGED vars
  BY <1>3 DEF vars, IInv, TypeOK, RequestsInv, DirectoryInv, Alone, Busy, OwnDirectory, HasOwn,
              HasTree, ZipOf, TreeOf, OtherZips
<1> QED
  BY <1>1, <1>2, <1>3, NextIs

LEMMA Invariant == Spec => []IInv
BY InitIInv, NextIInv, PTL DEF Spec

\* Every variable keeps its type: a request knows the directory it makes, and
\* while it waits, what Apple has.
THEOREM TypeCorrect == Spec => []TypeOK
<1>1. IInv => TypeOK
  BY DEF IInv
<1> QED
  BY <1>1, Invariant, PTL

LEMMA ServeIs ==
  ASSUME IInv, NEW r \in Requests \ overlapped, Serve(r)
  PROVE  pc[r] = "serve" /\ OwnDirectory(r)
BY DEF IInv, DirectoryInv, Alone, Busy, Serve, At

\* A request that is alone with its bundle is answered with its own archive,
\* signed inside and out.
THEOREM OwnCorrect == Spec => OwnArchive
<1>1. IInv /\ [Next]_vars =>
        [\A r \in Requests \ overlapped :
           Serve(r) => /\ ZipOf(r).of = r /\ ZipOf(r).sealed
                       /\ r \notin unfreshened => ZipOf(r).signed]_vars
  BY ServeIs DEF OwnDirectory, HasOwn
<1> QED
  BY <1>1, Invariant, PTL DEF Spec, OwnArchive

\* What it is answered with is what Apple has notarized.
THEOREM ApprovedCorrect == Spec => ApprovedServed
<1>1. IInv /\ [Next]_vars =>
        [\A r \in Notarizing \ overlapped : Serve(r) => ZipOf(r) = submitted[r]]_vars
  BY ServeIs, RequestsAssumption DEF OwnDirectory
<1> QED
  BY <1>1, Invariant, PTL DEF Spec, ApprovedServed

-----------------------------------------------------------------------------
\* What EveryEnds rests on: a request in progress has a step of its own, and
\* its steps lead on.

\* A state in which the request has gone on to a phase.
Ahead(r, there, d, t, f, s, u) ==
  <<d, sessionDir, [pc EXCEPT ![r] = there], t, f, s, overlapped, u>>

\* One in which it has ended with an error, and one after an exception.
Ended(r) ==
  <<dir, sessionDir, [pc EXCEPT ![r] = "idle"], [target EXCEPT ![r] = None],
    [found EXCEPT ![r] = FALSE], [submitted EXCEPT ![r] = None],
    overlapped \ {r}, unfreshened \ {r}>>

AllEnded ==
  <<dir, None, [r \in Requests |-> "idle"], [r \in Requests |-> None],
    [r \in Requests |-> FALSE], [r \in Requests |-> None], {}, {}>>

\* One that a request in progress can step to by itself, in every phase.
Onward(r) ==
  IF Gone(r) THEN Ended(r)
  ELSE IF At(r, "list") /\ dir[Bundle[r]] = None THEN AllEnded
  ELSE
    CASE At(r, "delete") ->
           Ahead(r, "mkdir", [dir EXCEPT ![Bundle[r]] = None], [target EXCEPT ![r] = sessionDir],
                 found, submitted, unfreshened)
      [] At(r, "mkdir") ->
           Ahead(r, "copy",
                 IF dir[target[r]] # None THEN dir
                 ELSE [dir EXCEPT ![target[r]] =
                         [zips |-> [a \in Archives |-> None], tree |-> None]],
                 target, found, submitted, unfreshened)
      [] At(r, "copy") ->
           Ahead(r, "extract",
                 [dir EXCEPT ![Bundle[r]].zips[Archive[r]] =
                    [of |-> r, signed |-> FALSE, sealed |-> FALSE]],
                 target, found, submitted, unfreshened)
      [] At(r, "extract") ->
           Ahead(r, "list",
                 [dir EXCEPT ![Bundle[r]].tree = [of |-> ZipOf(r).of, signed |-> ZipOf(r).signed]],
                 target, found, submitted, unfreshened)
      [] At(r, "list") ->
           Ahead(r, "sign", dir, target,
                 [found EXCEPT ![r] = IF TreeOf(r) # None THEN TRUE ELSE FALSE],
                 submitted, unfreshened)
      [] At(r, "sign") ->
           Ahead(r, "freshen",
                 IF found[r] /\ TreeOf(r) # None
                 THEN [dir EXCEPT ![Bundle[r]].tree = [TreeOf(r) EXCEPT !.signed = TRUE]] ELSE dir,
                 target, found, submitted, unfreshened)
      [] At(r, "freshen") ->
           Ahead(r, "seal", dir, target, found, submitted, unfreshened \cup {r})
      [] At(r, "seal") ->
           Ahead(r, IF r \in Notarizing THEN "notarize" ELSE "serve",
                 [dir EXCEPT ![Bundle[r]].zips[Archive[r]] = [ZipOf(r) EXCEPT !.sealed = TRUE]],
                 target, found, submitted, unfreshened)
      [] At(r, "notarize") ->
           Ahead(r, "wait", dir, target, found, [submitted EXCEPT ![r] = ZipOf(r)], unfreshened)
      [] At(r, "wait") -> Ahead(r, "serve", dir, target, found, submitted, unfreshened)
      [] OTHER -> Ended(r)

LEMMA OnwardGone ==
  ASSUME NEW r \in Requests, Gone(r), vars' = Onward(r)
  PROVE  FileGone(r)
BY DEF Onward, Ended, vars, FileGone, Reject, Answer, Goto

LEMMA OnwardThrows ==
  ASSUME NEW r \in Requests, At(r, "list"), dir[Bundle[r]] = None, vars' = Onward(r)
  PROVE  ListThrows(r)
BY DEF Onward, AllEnded, Gone, At, vars, ListThrows, Exit

LEMMA OnwardMakes ==
  ASSUME NEW r \in Requests, ~Gone(r), vars' = Onward(r)
  PROVE  /\ At(r, "delete") => Delete(r)
         /\ At(r, "mkdir") => Mkdir(r)
         /\ At(r, "copy") => Copy(r)
         /\ At(r, "extract") => Extract(r)
<1>1. CASE At(r, "delete")
  BY <1>1 DEF Onward, Ahead, At, vars, Delete, Goto
<1>2. CASE At(r, "mkdir")
  BY <1>2 DEF Onward, Ahead, At, vars, Mkdir, Goto
<1>3. CASE At(r, "copy")
  BY <1>3 DEF Onward, Ahead, At, vars, Copy, Goto, PutZip, Gone
<1>4. CASE At(r, "extract")
  BY <1>4 DEF Onward, Ahead, At, vars, Extract, Goto, PutTree, Gone
<1> QED
  BY <1>1, <1>2, <1>3, <1>4

LEMMA OnwardSigns ==
  ASSUME NEW r \in Requests, ~Gone(r), vars' = Onward(r)
  PROVE  /\ At(r, "list") /\ dir[Bundle[r]] # None => List(r)
         /\ At(r, "sign") => SignBinaries(r)
         /\ At(r, "freshen") => FreshenFails(r)
         /\ At(r, "seal") => Seal(r)
<1>1. CASE At(r, "list") /\ dir[Bundle[r]] # None
  <2>1. /\ TreeOf(r) # None => found' = [found EXCEPT ![r] = TRUE]
        /\ TreeOf(r) = None => found' = [found EXCEPT ![r] = FALSE]
        /\ pc' = [pc EXCEPT ![r] = "sign"]
        /\ UNCHANGED <<dir, sessionDir, target, submitted, overlapped, unfreshened>>
    BY <1>1 DEF Onward, Ahead, At, vars
  <2>2. \E first \in BOOLEAN :
          /\ first => TreeOf(r) # None
          /\ ~first => TreeOf(r) = None \/ OtherZips(r) # {}
          /\ found' = [found EXCEPT ![r] = first]
    <3>1. CASE TreeOf(r) # None
      <4> WITNESS TRUE \in BOOLEAN
      <4> QED
        BY <2>1, <3>1
    <3>2. CASE TreeOf(r) = None
      <4> WITNESS FALSE \in BOOLEAN
      <4> QED
        BY <2>1, <3>2
    <3> QED
      BY <3>1, <3>2
  <2>3. Goto(r, "sign")
    BY <2>1 DEF Goto
  <2>4. UNCHANGED <<dir, sessionDir, target, submitted, overlapped, unfreshened>>
    BY <2>1
  <2>5. List(r)
    BY <1>1, <2>2, <2>3, <2>4, Zenon DEF List
  <2> QED
    BY <1>1, <2>5 DEF At
<1>2. CASE At(r, "sign")
  BY <1>2 DEF Onward, Ahead, At, vars, SignBinaries, Goto, PutTree
<1>3. CASE At(r, "freshen")
  BY <1>3 DEF Onward, Ahead, At, vars, FreshenFails, Goto
<1>4. CASE At(r, "seal")
  BY <1>4 DEF Onward, Ahead, At, vars, Seal, Goto, PutZip, Gone
<1> QED
  BY <1>1, <1>2, <1>3, <1>4

LEMMA OnwardEnds ==
  ASSUME NEW r \in Requests, ~Gone(r), vars' = Onward(r)
  PROVE  /\ At(r, "notarize") => Notarize(r)
         /\ At(r, "wait") => Approved(r)
         /\ At(r, "serve") => Serve(r)
<1>1. CASE At(r, "notarize")
  BY <1>1 DEF Onward, Ahead, At, vars, Notarize, Goto, Gone
<1>2. CASE At(r, "wait")
  BY <1>2 DEF Onward, Ahead, At, vars, Approved, Goto
<1>3. CASE At(r, "serve")
  BY <1>3 DEF Onward, Ended, At, vars, Serve, Answer, Goto, Gone
<1> QED
  BY <1>1, <1>2, <1>3

\* Whatever others have deleted, a request in progress has a step of its own
\* (an action of the chain of promises, or its catch): the state Onward(r),
\* which is another than this one, is always one it can step to.
THEOREM OnwardStep ==
  ASSUME TypeOK, NEW r \in Busy
  PROVE  Onward(r) # vars /\ (vars' = Onward(r) => Step(r))
<1>1. r \in Requests /\ pc[r] \in Phases \ {"idle", "abandoned"} /\ pc \in [Requests -> Phases]
  BY DEF Busy, TypeOK
<1>2. ASSUME vars' = Onward(r)
      PROVE  Step(r)
  <2>1. CASE Gone(r)
    BY <1>1, <1>2, <2>1, OnwardGone DEF Step
  <2>2. CASE At(r, "list") /\ dir[Bundle[r]] = None
    BY <1>1, <1>2, <2>2, OnwardThrows DEF Step
  <2>3. CASE ~Gone(r) /\ ~(At(r, "list") /\ dir[Bundle[r]] = None)
    <3>1. CASE pc[r] \in {"delete", "mkdir", "copy", "extract"}
      BY <1>1, <1>2, <2>3, <3>1, OnwardMakes DEF At, Step
    <3>2. CASE pc[r] \in {"list", "sign", "freshen", "seal"}
      BY <1>1, <1>2, <2>3, <3>2, OnwardSigns DEF At, Step
    <3>3. CASE pc[r] \in {"notarize", "wait", "serve"}
      BY <1>1, <1>2, <2>3, <3>3, OnwardEnds DEF At, Step
    <3> QED
      BY <1>1, <3>1, <3>2, <3>3 DEF Phases
  <2> QED
    BY <2>1, <2>2, <2>3
<1>3. Onward(r) # vars
  <2>1. Onward(r)[3][r] # pc[r]
    <3>1. CASE Gone(r)
      BY <1>1, <3>1 DEF Onward, Ended
    <3>2. CASE ~Gone(r) /\ At(r, "list") /\ dir[Bundle[r]] = None
      BY <1>1, <3>2 DEF Onward, AllEnded
    <3>3. CASE ~Gone(r) /\ ~(At(r, "list") /\ dir[Bundle[r]] = None)
      <4>1. CASE pc[r] \in {"delete", "mkdir", "copy", "extract"}
        BY <1>1, <3>3, <4>1 DEF Onward, Ahead, At
      <4>2. CASE pc[r] \in {"list", "sign", "freshen", "seal"}
        BY <1>1, <3>3, <4>2 DEF Onward, Ahead, At
      <4>3. CASE pc[r] \in {"notarize", "wait", "serve"}
        BY <1>1, <3>3, <4>3 DEF Onward, Ahead, Ended, At
      <4> QED
        BY <1>1, <4>1, <4>2, <4>3 DEF Phases
    <3> QED
      BY <3>1, <3>2, <3>3
  <2> QED
    BY <2>1 DEF vars
<1> QED
  BY <1>2, <1>3

\* The phases in the order of the chain of promises.
Rank == [delete |-> 1, mkdir |-> 2, copy |-> 3, extract |-> 4, list |-> 5, sign |-> 6,
         freshen |-> 7, seal |-> 8, notarize |-> 9, wait |-> 10, serve |-> 11]

\* A request in progress is where it was, has gone on, or is at its end, and its
\* own steps leave none of them where it was.
Forward ==
  \A r \in Busy :
    /\ pc'[r] = pc[r] \/ r \notin Busy' \/ Rank[pc'[r]] > Rank[pc[r]]
    /\ Step(r) \/ GiveUp(r) => pc'[r] # pc[r]

LEMMA ActForward ==
  ASSUME TypeOK, NEW r \in Busy, Act(r)
  PROVE  pc'[r] # pc[r] /\ (r \notin Busy' \/ Rank[pc'[r]] > Rank[pc[r]])
<1>1. pc \in [Requests -> Phases] /\ r \in Requests /\ pc[r] \notin {"idle", "abandoned"}
  BY DEF TypeOK, Busy
<1>2. CASE Post(r)
  BY <1>1, <1>2 DEF Post, At
<1>3. CASE Invalid(r) \/ Serve(r) \/ FileGone(r) \/ ToolFails(r) \/ GiveUp(r)
  <2>1. pc' = [pc EXCEPT ![r] = "idle"] \/ pc' = [pc EXCEPT ![r] = "abandoned"]
    BY <1>3 DEF Invalid, Serve, FileGone, ToolFails, GiveUp, Reject, Answer, Goto
  <2> QED
    BY <1>1, <2>1 DEF Busy
<1>4. CASE Delete(r) \/ Mkdir(r) \/ Copy(r) \/ Extract(r)
  BY <1>1, <1>4 DEF Delete, Mkdir, Copy, Extract, At, Goto, Rank
<1>5. CASE List(r) \/ SignBinaries(r) \/ Freshen(r) \/ FreshenFails(r)
  BY <1>1, <1>5 DEF List, SignBinaries, Freshen, FreshenFails, At, Goto, Rank
<1>6. CASE Seal(r) \/ Notarize(r) \/ Approved(r)
  BY <1>1, <1>6 DEF Seal, Notarize, Approved, At, Goto, Rank
<1> QED
  BY <1>2, <1>3, <1>4, <1>5, <1>6 DEF Act

LEMMA NextForward == TypeOK /\ [Next]_vars => [Forward]_vars
<1> SUFFICES ASSUME TypeOK, Next
             PROVE  Forward
  BY DEF vars
<1>1. ASSUME Exit, NEW r \in Busy
      PROVE  pc'[r] # pc[r] /\ r \notin Busy'
  BY <1>1 DEF Exit, Busy
<1>2. ASSUME NEW r \in Busy
      PROVE  pc'[r] = pc[r] \/ r \notin Busy' \/ Rank[pc'[r]] > Rank[pc[r]]
  <2>1. CASE \E o \in Requests : Act(o)
    <3>1. PICK o \in Requests : Act(o)
      BY <2>1
    <3>2. CASE o = r
      BY <3>1, <3>2, ActForward
    <3>3. CASE o # r
      BY <3>1, <3>3, OthersSame DEF Busy
    <3> QED
      BY <3>2, <3>3
  <2>2. CASE (\E o \in Requests : ListThrows(o)) \/ Crash
    BY <1>1, <1>2, <2>2 DEF ListThrows, Crash
  <2> QED
    BY <2>1, <2>2, NextIs
<1>3. ASSUME NEW r \in Busy, Step(r) \/ GiveUp(r)
      PROVE  pc'[r] # pc[r]
  <2>1. Act(r) \/ ListThrows(r)
    BY <1>3 DEF Step, Act
  <2> QED
    BY <1>1, <1>3, <2>1, ActForward DEF ListThrows
<1> QED
  BY <1>2, <1>3 DEF Forward

\* The chain of promises never goes back: a request has at most eleven steps, of
\* which each that is its own takes it further.
THEOREM StepsLeadOn == Spec => [][Forward]_vars
<1>1. TypeOK /\ [Next]_vars => [Forward]_vars
  BY NextForward
<1> QED
  BY <1>1, TypeCorrect, PTL DEF Spec

-----------------------------------------------------------------------------
\* Pathdiff.

\* ToSet of a sequence of keys holds nothing but keys.
LEMMA ToSetType == ASSUME NEW s \in Seq(Keys) PROVE ToSet(s) \subseteq Keys
BY DEF ToSet

LEMMA ActiveType == PathdiffTypeOK => Active \subseteq Keys
BY DEF PathdiffTypeOK, Active

LEMMA ReservedType == PathdiffTypeOK => Reserved \subseteq Keys
BY ToSetType DEF PathdiffTypeOK, Reserved

LEMMA InitTypeOK == PathdiffInit => PathdiffTypeOK
BY DEF PathdiffInit, PathdiffTypeOK

LEMMA ClientSteps ==
  ASSUME PathdiffTypeOK, NEW c \in Clients, NEW k \in Keys, NEW force \in BOOLEAN,
         Get(c, k, force) \/ Query(c) \/ Send(c)
  PROVE  PathdiffTypeOK'
<1>1. steady' \subseteq Keys
  BY DEF Get, Query, Send, PathdiffTypeOK
<1>2. CASE Get(c, k, force)
  <2>1. client' \in [Clients -> Request \cup {Idle}]
    BY <1>2 DEF Get, PathdiffTypeOK, Request
  <2> QED
    BY <1>1, <1>2, <2>1 DEF Get, PathdiffTypeOK, tasks, poll, posts
<1>3. CASE Query(c)
  <2>1. client[c] \in Request
    BY <1>3 DEF Query, PathdiffTypeOK
  <2>2. [client[c] EXCEPT !.pc = "send"] \in Request
    BY <2>1 DEF Request
  <2>3. client' \in [Clients -> Request \cup {Idle}]
    BY <1>3, <2>2 DEF Query, PathdiffTypeOK
  <2> QED
    BY <1>1, <1>3, <2>3 DEF Query, PathdiffTypeOK, tasks, poll, posts
<1>4. CASE Send(c)
  <2>1. client[c] \in Request
    BY <1>4 DEF Send, PathdiffTypeOK
  <2>2. client[c].key \in Keys
    BY <2>1 DEF Request
  <2>3. broker' \in Seq(Keys)
    BY <1>4, <2>2 DEF Send, PathdiffTypeOK
  <2>4. client' \in [Clients -> Request \cup {Idle}]
    BY <1>4 DEF Send, PathdiffTypeOK
  <2> QED
    BY <1>1, <1>4, <2>3, <2>4 DEF Send, PathdiffTypeOK, poll, posts
<1> QED
  BY <1>2, <1>3, <1>4

LEMMA MonitorSteps ==
  ASSUME PathdiffTypeOK, MonitorStep \/ MonitorDies
  PROVE  PathdiffTypeOK'
<1>1. CASE PollBroker
  <2>1. ToSet(broker) \subseteq Keys /\ Unfinished \subseteq Keys
    BY ToSetType, ActiveType, ReservedType DEF PathdiffTypeOK, Unfinished
  <2> QED
    BY <1>1, <2>1 DEF PollBroker, PathdiffTypeOK, tasks, posts
<1>2. CASE PollActive
  BY <1>2, ActiveType DEF PollActive, PathdiffTypeOK, tasks, posts
<1>3. CASE PollReserved
  BY <1>3, ReservedType DEF PollReserved, PathdiffTypeOK, tasks, posts
<1>4. CASE MonitorDies
  BY <1>4 DEF MonitorDies, PathdiffTypeOK, tasks, posts
<1> QED
  BY <1>1, <1>2, <1>3, <1>4 DEF MonitorStep

\* There is a number of posts of a listing.
LEMMA OpenType ==
  ASSUME NEW k
  PROVE  /\ IsFiniteSet(Open(k)) /\ Cardinality(Open(k)) \in Nat
         /\ \A S \in SUBSET Open(k) : /\ IsFiniteSet(S) /\ Cardinality(S) \in Nat
                                      /\ Cardinality(S) <= Cardinality(Open(k))
<1>1. Open(k) \subseteq Threads /\ IsFiniteSet(Threads)
  BY PathdiffAssumption DEF Open
<1>2. IsFiniteSet(Open(k))
  BY <1>1, FS_Subset
<1> QED
  BY <1>2, FS_Subset, FS_CardinalityType

LEMMA WorkerSteps ==
  ASSUME PathdiffTypeOK, NEW w \in Workers,
         Reserve(w) \/ WorkerStep(w) \/ FailTask(w) \/ CrashWorker(w)
  PROVE  PathdiffTypeOK'
<1> USE PathdiffAssumption
<1>1. steady' \subseteq Keys
  BY DEF PathdiffTypeOK, Reserve, WorkerStep, Begin, PostListing, FailTask, CrashWorker
<1>2. CASE Reserve(w)
  <2>1. Head(broker) \in Keys /\ Tail(broker) \in Seq(Keys)
    BY <1>2 DEF Reserve, PathdiffTypeOK
  <2>2. Append(reserved[w], Head(broker)) \in Seq(Keys)
    BY <2>1 DEF PathdiffTypeOK
  <2>3. broker' \in Seq(Keys) /\ reserved' \in [Workers -> Seq(Keys)]
    BY <1>2, <2>1, <2>2 DEF Reserve, PathdiffTypeOK
  <2> QED
    BY <1>1, <1>2, <2>3 DEF Reserve, PathdiffTypeOK, poll, posts
<1>3. CASE Begin(w)
  <2>1. Head(reserved[w]) \in Keys /\ Tail(reserved[w]) \in Seq(Keys)
    BY <1>3 DEF Begin, PathdiffTypeOK
  <2>2. reserved' \in [Workers -> Seq(Keys)]
    BY <1>3, <2>1 DEF Begin, PathdiffTypeOK
  <2>3. /\ active' \in [Workers -> Keys \cup {NoTask}]
        /\ phase' \in [Workers -> {"none", "run", "post"}]
        /\ \A v \in Workers : active'[v] = NoTask <=> phase'[v] = "none"
    BY <1>3, <2>1 DEF Begin, PathdiffTypeOK
  <2> QED
    BY <1>1, <1>3, <2>2, <2>3 DEF Begin, PathdiffTypeOK, poll, posts
<1>4. CASE PostListing(w)
  <2>1. active[w] \in Keys
    BY <1>4 DEF PostListing, PathdiffTypeOK
  <2>2. PICK t \in Threads : post' = [post EXCEPT ![t] = [key |-> active[w], pc |-> "delete", from |-> w]]
    BY <1>4 DEF PostListing
  <2>3. post' \in [Threads -> Posting \cup {Idle}]
    BY <2>1, <2>2 DEF Posting, PathdiffTypeOK
  <2>4. met' \in [Threads -> Nat]
    <3>1. Cardinality(Open(active[w])) + 1 \in Nat
      BY <2>1, OpenType
    <3> QED
      BY <1>4, <3>1 DEF PostListing, PathdiffTypeOK
  <2> QED
    BY <1>1, <1>4, <2>3, <2>4 DEF PostListing, PathdiffTypeOK, poll
<1>5. CASE FailTask(w)
  BY <1>1, <1>5 DEF FailTask, EndTask, PathdiffTypeOK, poll, posts
<1>6. CASE CrashWorker(w)
  <2>1. broker' \in Seq(Keys) /\ reserved' \in [Workers -> Seq(Keys)]
    BY <1>6 DEF CrashWorker, PathdiffTypeOK
  <2>2. \A t \in Threads : post'[t] \in Posting \cup {Idle}
    BY <1>6 DEF CrashWorker, PathdiffTypeOK, Posting
  <2>3. post' \in [Threads -> Posting \cup {Idle}]
    BY <1>6, <2>2 DEF CrashWorker
  <2> QED
    BY <1>1, <1>6, <2>1, <2>3 DEF CrashWorker, EndTask, PathdiffTypeOK, poll
<1> QED
  BY <1>2, <1>3, <1>4, <1>5, <1>6 DEF WorkerStep

\* What the answer of a post leaves.
LEMMA AnswerKeeps ==
  ASSUME PathdiffTypeOK, NEW t \in Threads, Answered(t), rows' \in [Keys -> Nat], post[t] # Idle
  PROVE  PathdiffTypeOK'
<1>1. post' \in [Threads -> Posting \cup {Idle}] /\ met' \in [Threads -> Nat]
  BY DEF Answered, PathdiffTypeOK
<1>2. /\ active' \in [Workers -> Keys \cup {NoTask}] /\ phase' \in [Workers -> {"none", "run", "post"}]
      /\ \A w \in Workers : active'[w] = NoTask <=> phase'[w] = "none"
      /\ steady' \subseteq Keys
  BY DEF Answered, EndTask, PathdiffTypeOK
<1> QED
  BY <1>1, <1>2 DEF Answered, PathdiffTypeOK, poll

LEMMA PostSteps ==
  ASSUME PathdiffTypeOK, NEW t \in Threads, PostStep(t) \/ PostFails(t)
  PROVE  PathdiffTypeOK'
<1>1. post[t] \in Posting /\ post[t].key \in Keys
  BY DEF PostStep, DeleteRows, InsertRow, PostFails, Serves, PathdiffTypeOK, Posting
<1>2. CASE DeleteRows(t)
  <2>1. rows' \in [Keys -> Nat]
    BY <1>1, <1>2 DEF DeleteRows, PathdiffTypeOK
  <2>2. [post[t] EXCEPT !.pc = "insert"] \in Posting
    BY <1>1 DEF Posting
  <2>3. post' \in [Threads -> Posting \cup {Idle}]
    BY <1>2, <2>2 DEF DeleteRows, PathdiffTypeOK
  <2> QED
    BY <1>2, <2>1, <2>3 DEF DeleteRows, PathdiffTypeOK, tasks, poll
<1>3. CASE InsertRow(t)
  <2>1. rows' \in [Keys -> Nat]
    BY <1>1, <1>3 DEF InsertRow, PathdiffTypeOK
  <2> QED
    BY <1>3, <2>1, AnswerKeeps DEF InsertRow, Serves
<1>4. CASE PostFails(t)
  BY <1>4, AnswerKeeps DEF PostFails, PathdiffTypeOK
<1> QED
  BY <1>2, <1>3, <1>4 DEF PostStep

LEMMA RestartStep == PathdiffTypeOK /\ RestartAPI => PathdiffTypeOK'
BY PathdiffAssumption DEF PathdiffTypeOK, RestartAPI

LEMMA NextTypeOK == PathdiffTypeOK /\ [PathdiffNext]_pathdiffVars => PathdiffTypeOK'
<1> SUFFICES ASSUME PathdiffTypeOK, [PathdiffNext]_pathdiffVars PROVE PathdiffTypeOK'
  OBVIOUS
<1>1. CASE UNCHANGED pathdiffVars
  BY <1>1 DEF pathdiffVars, tasks, poll, posts, PathdiffTypeOK
<1>2. CASE Running
  <2>1. ASSUME NEW c \in Clients, Query(c) \/ Send(c) PROVE PathdiffTypeOK'
    <3>1. PICK k \in Keys : TRUE
      BY <2>1 DEF Query, Send, PathdiffTypeOK, Request
    <3> QED
      BY <2>1, ClientSteps
  <2>2. ASSUME NEW c \in Clients, NEW k \in Keys, NEW force \in BOOLEAN, Get(c, k, force)
        PROVE  PathdiffTypeOK'
    BY <2>2, ClientSteps
  <2> QED
    BY <1>2, <2>1, <2>2, MonitorSteps, WorkerSteps, PostSteps DEF Running
<1>3. CASE Failure
  BY <1>3, MonitorSteps, WorkerSteps, PostSteps, RestartStep DEF Failure
<1> QED
  BY <1>1, <1>2, <1>3 DEF PathdiffNext

-----------------------------------------------------------------------------

(* How many rows a post leaves. *)

Inserting(k) == {t \in Open(k) : post[t].pc = "insert"}

\* A post that is under way has met all there are, and one that has come as far as
\* its INSERT has met one for each row there is and for each that is about to be.
PostsInv ==
  \A t \in Threads : post[t] # Idle =>
    LET k == post[t].key IN
    /\ Cardinality(Open(k)) <= met[t]
    /\ post[t].pc = "insert" => rows[k] + Cardinality(Inserting(k)) <= met[t]

\* A step by which no post comes nearer to its INSERT, and none begins.
LEMMA FewerPosts ==
  ASSUME PathdiffTypeOK, PostsInv, rows' = rows,
         \A t \in Threads :
           \/ post'[t] = Idle
           \/ /\ post[t] # Idle /\ post'[t].key = post[t].key /\ post'[t].pc = post[t].pc
              /\ met'[t] = met[t]
  PROVE  PostsInv'
<1> SUFFICES ASSUME NEW t \in Threads, post'[t] # Idle, NEW k, k = post[t].key
             PROVE  /\ Cardinality(Open(k)') <= met[t]
                    /\ post[t].pc = "insert" => rows[k] + Cardinality(Inserting(k)') <= met[t]
  BY DEF PostsInv
<1>1. Open(k)' \subseteq Open(k) /\ Inserting(k)' \subseteq Inserting(k)
  BY DEF Open, Inserting
<1>2. /\ Cardinality(Open(k)') <= Cardinality(Open(k)) /\ Cardinality(Open(k)') \in Nat
      /\ Cardinality(Open(k)) \in Nat
  BY <1>1, OpenType
<1>3. IsFiniteSet(Inserting(k)) /\ Cardinality(Inserting(k)) \in Nat
  BY OpenType DEF Inserting
<1>4. Cardinality(Inserting(k)') <= Cardinality(Inserting(k)) /\ Cardinality(Inserting(k)') \in Nat
  BY <1>1, <1>3, FS_Subset, FS_CardinalityType
<1>5. met[t] \in Nat /\ (k \in Keys => rows[k] \in Nat) /\ k \in Keys
  BY DEF PathdiffTypeOK, Posting
<1> QED
  BY <1>2, <1>3, <1>4, <1>5 DEF PostsInv

\* One that begins is met by all that are under way.
LEMMA BeginsPost ==
  ASSUME PathdiffTypeOK, PostsInv, NEW w \in Workers, PostListing(w)
  PROVE  PostsInv'
<1>0. PICK k \in Keys : k = active[w]
  BY DEF PostListing, PathdiffTypeOK
<1>a. PICK n : n = Cardinality(Open(k)) + 1
  OBVIOUS
<1>1. PICK t \in Threads :
        /\ post[t] = Idle
        /\ post' = [post EXCEPT ![t] = [key |-> k, pc |-> "delete", from |-> w]]
        /\ met' = [u \in Threads |-> IF u = t \/ (u \in Open(k) /\ met[u] < n) THEN n ELSE met[u]]
  BY <1>0, <1>a DEF PostListing
<1>2. rows' = rows
  BY DEF PostListing
<1>3. /\ post'[t].key = k /\ post'[t].pc = "delete" /\ met'[t] = n
      /\ \A u \in Threads \ {t} : post'[u] = post[u]
  BY <1>1 DEF PathdiffTypeOK
<1>4. \A j : Open(j)' \subseteq Open(j) \cup {t} /\ Inserting(j)' = Inserting(j)
  BY <1>1, <1>3 DEF Open, Inserting
<1>5. Cardinality(Open(k)') \in Nat /\ Cardinality(Open(k)') <= n /\ n \in Nat
  <2>1. t \notin Open(k) /\ IsFiniteSet(Open(k)) /\ Cardinality(Open(k)) \in Nat
    BY <1>1, OpenType DEF Open
  <2>2. IsFiniteSet(Open(k) \cup {t}) /\ Cardinality(Open(k) \cup {t}) = n
    BY <1>a, <2>1, FS_AddElement
  <2> QED
    BY <1>a, <1>4, <2>1, <2>2, FS_Subset, FS_CardinalityType
<1>6. ASSUME NEW u \in Threads, post'[u] # Idle, NEW j, j = post'[u].key
      PROVE  /\ Cardinality(Open(j)') <= met'[u]
             /\ post'[u].pc = "insert" => rows'[j] + Cardinality(Inserting(j)') <= met'[u]
  <2>1. CASE u = t
    BY <1>3, <1>5, <1>6, <2>1
  <2>2. CASE u # t
    <3>1. /\ post[u] # Idle /\ post'[u] = post[u] /\ met[u] \in Nat
          /\ j = post[u].key /\ j \in Keys
      BY <1>3, <1>6, <2>2 DEF PathdiffTypeOK, Posting
    <3>2. met'[u] = IF u \in Open(k) /\ met[u] < n THEN n ELSE met[u]
      BY <1>1, <2>2
    <3>3. /\ Cardinality(Open(j)) <= met[u]
          /\ post[u].pc = "insert" => rows[j] + Cardinality(Inserting(j)) <= met[u]
      BY <3>1 DEF PostsInv
    <3>4. rows[j] \in Nat /\ Cardinality(Inserting(j)) \in Nat
      BY <3>1, OpenType DEF PathdiffTypeOK, Inserting
    <3>5. met[u] <= met'[u] /\ met'[u] \in Nat
      BY <1>5, <3>1, <3>2
    <3>6. CASE j = k
      <4>1. u \in Open(k)
        BY <3>1, <3>6 DEF Open
      <4>2. n <= met'[u]
        BY <1>5, <3>1, <3>2, <4>1
      <4>3. Cardinality(Open(j)') <= met'[u]
        BY <1>5, <3>5, <3>6, <4>2
      <4> QED
        BY <1>2, <1>4, <3>1, <3>3, <3>4, <3>5, <4>3
    <3>7. CASE j # k
      <4>1. Open(j)' = Open(j)
        BY <1>1, <1>3, <3>7 DEF Open
      <4>2. Cardinality(Open(j)) \in Nat
        BY OpenType
      <4> QED
        BY <1>2, <1>4, <3>1, <3>3, <3>4, <3>5, <4>1, <4>2
    <3> QED
      BY <3>6, <3>7
  <2> QED
    BY <2>1, <2>2
<1> QED
  BY <1>6 DEF PostsInv

\* What a step of a post does to the others.
LEMMA OthersPosts ==
  ASSUME PathdiffTypeOK, NEW t \in Threads, PostStep(t), NEW k, k = post[t].key
  PROVE  /\ \A u \in Threads \ {t} : post'[u] = post[u] /\ met'[u] = met[u]
         /\ post[t] # Idle /\ k \in Keys
         /\ \A j \in Keys \ {k} :
              rows'[j] = rows[j] /\ Open(j)' = Open(j) /\ Inserting(j)' = Inserting(j)
<1>1. post[t] # Idle /\ post[t] \in Posting /\ k \in Keys
  BY DEF PostStep, DeleteRows, InsertRow, Serves, PathdiffTypeOK, Posting
<1>2. /\ \A u \in Threads \ {t} : post'[u] = post[u] /\ met'[u] = met[u]
      /\ post'[t] = Idle \/ post'[t].key = k
  BY <1>1 DEF PostStep, DeleteRows, InsertRow, Answered, PathdiffTypeOK, Posting
<1>3. \A j \in Keys \ {k} : rows'[j] = rows[j]
  BY <1>1 DEF PostStep, DeleteRows, InsertRow, PathdiffTypeOK
<1>4. \A j \in Keys \ {k} : Open(j)' = Open(j)
  BY <1>2 DEF Open
<1>5. \A j \in Keys \ {k} : Inserting(j)' = Inserting(j)
  <2> SUFFICES ASSUME NEW j \in Keys \ {k}, NEW u \in Open(j)
               PROVE  post'[u].pc = post[u].pc
    BY <1>4 DEF Inserting
  <2>1. u # t /\ u \in Threads
    BY DEF Open
  <2> QED
    BY <1>2, <2>1
<1> QED
  BY <1>1, <1>2, <1>3, <1>4, <1>5

\* DELETE leaves no row, and no more are about to insert one than are under way.
LEMMA DeletesRows ==
  ASSUME PathdiffTypeOK, PostsInv, NEW t \in Threads, DeleteRows(t)
  PROVE  PostsInv'
<1>0. PICK k : k = post[t].key
  OBVIOUS
<1>1. /\ \A u \in Threads \ {t} : post'[u] = post[u]
      /\ post[t] # Idle /\ k \in Keys
      /\ \A j \in Keys \ {k} :
           rows'[j] = rows[j] /\ Open(j)' = Open(j) /\ Inserting(j)' = Inserting(j)
  BY <1>0, OthersPosts DEF PostStep
<1>2. post'[t].key = k /\ met' = met /\ rows'[k] = 0
  BY <1>0, <1>1 DEF DeleteRows, PathdiffTypeOK, Posting
<1>3. Open(k)' \subseteq Open(k) /\ Inserting(k)' \subseteq Open(k)
  BY <1>0, <1>1, <1>2 DEF Open, Inserting
<1>4. /\ Cardinality(Open(k)') \in Nat /\ Cardinality(Open(k)') <= Cardinality(Open(k))
      /\ Cardinality(Inserting(k)') \in Nat /\ Cardinality(Inserting(k)') <= Cardinality(Open(k))
      /\ Cardinality(Open(k)) \in Nat
  BY <1>3, OpenType
<1>5. ASSUME NEW u \in Threads, post'[u] # Idle, NEW j, j = post'[u].key
      PROVE  /\ Cardinality(Open(j)') <= met'[u]
             /\ post'[u].pc = "insert" => rows'[j] + Cardinality(Inserting(j)') <= met'[u]
  <2>1. /\ post[u] # Idle /\ j = post[u].key /\ j \in Keys
        /\ met'[u] = met[u] /\ met[u] \in Nat
    BY <1>0, <1>1, <1>2, <1>5 DEF PathdiffTypeOK, Posting
  <2>2. CASE j = k
    <3>1. Cardinality(Open(k)) <= met[u]
      BY <2>1, <2>2 DEF PostsInv
    <3> QED
      BY <1>2, <1>4, <2>1, <2>2, <3>1
  <2>3. CASE j # k
    <3>1. post'[u] = post[u]
      BY <1>0, <1>1, <2>1, <2>3
    <3> QED
      BY <1>1, <2>1, <2>3, <3>1 DEF PostsInv
  <2> QED
    BY <2>2, <2>3
<1> QED
  BY <1>5 DEF PostsInv

\* INSERT turns one that is about to insert into one row.
LEMMA InsertsRow ==
  ASSUME PathdiffTypeOK, PostsInv, NEW t \in Threads, InsertRow(t)
  PROVE  PostsInv' /\ rows'[post[t].key] <= met[t]
<1>0. PICK k : k = post[t].key
  OBVIOUS
<1>1. /\ \A u \in Threads \ {t} : post'[u] = post[u] /\ met'[u] = met[u]
      /\ post[t] # Idle /\ k \in Keys
      /\ \A j \in Keys \ {k} :
           rows'[j] = rows[j] /\ Open(j)' = Open(j) /\ Inserting(j)' = Inserting(j)
  BY <1>0, OthersPosts DEF PostStep
<1>2. /\ post'[t] = Idle /\ post[t].pc = "insert" /\ rows'[k] = rows[k] + 1
      /\ rows[k] \in Nat /\ met[t] \in Nat
  BY <1>0, <1>1 DEF InsertRow, Answered, Serves, PathdiffTypeOK
<1>3. /\ Open(k)' \subseteq Open(k)
      /\ t \in Inserting(k) /\ Inserting(k)' = Inserting(k) \ {t}
  BY <1>0, <1>1, <1>2 DEF Open, Inserting
<1>4. /\ Cardinality(Open(k)') \in Nat /\ Cardinality(Open(k)') <= Cardinality(Open(k))
      /\ Cardinality(Open(k)) \in Nat
  BY <1>3, OpenType
<1>5. /\ IsFiniteSet(Inserting(k)) /\ Cardinality(Inserting(k)) \in Nat
      /\ Cardinality(Inserting(k)') \in Nat
  BY <1>3, OpenType, FS_Subset, FS_CardinalityType DEF Inserting
<1>6. Cardinality(Inserting(k)') = Cardinality(Inserting(k)) - 1
  BY <1>3, <1>5, FS_RemoveElement
<1>7. rows'[k] + Cardinality(Inserting(k)') = rows[k] + Cardinality(Inserting(k))
  BY <1>2, <1>5, <1>6
<1>8. rows'[k] <= met[t]
  <2>1. rows[k] + Cardinality(Inserting(k)) <= met[t]
    BY <1>0, <1>1, <1>2 DEF PostsInv
  <2> QED
    BY <1>2, <1>5, <1>7, <2>1
<1>9. ASSUME NEW u \in Threads, post'[u] # Idle, NEW j, j = post'[u].key
      PROVE  /\ Cardinality(Open(j)') <= met'[u]
             /\ post'[u].pc = "insert" => rows'[j] + Cardinality(Inserting(j)') <= met'[u]
  <2>1. /\ post'[u] = post[u] /\ met'[u] = met[u] /\ met[u] \in Nat
        /\ j = post[u].key /\ j \in Keys
    BY <1>1, <1>2, <1>9 DEF PathdiffTypeOK, Posting
  <2>2. CASE j = k
    <3>1. /\ Cardinality(Open(k)) <= met[u]
          /\ post[u].pc = "insert" => rows[k] + Cardinality(Inserting(k)) <= met[u]
      BY <1>9, <2>1, <2>2 DEF PostsInv
    <3> QED
      BY <1>4, <1>7, <2>1, <2>2, <3>1
  <2>3. CASE j # k
    BY <1>1, <1>9, <2>1, <2>3 DEF PostsInv
  <2> QED
    BY <2>2, <2>3
<1> QED
  BY <1>0, <1>8, <1>9 DEF PostsInv

LEMMA NextPostsInv == PathdiffTypeOK /\ PostsInv /\ [PathdiffNext]_pathdiffVars => PostsInv'
<1> SUFFICES ASSUME PathdiffTypeOK, PostsInv, [PathdiffNext]_pathdiffVars PROVE PostsInv'
  OBVIOUS
<1>1. CASE UNCHANGED <<rows, post, met>>
  BY <1>1, FewerPosts
<1>2. ASSUME NEW w \in Workers, CrashWorker(w)
      PROVE  PostsInv'
  BY <1>2, FewerPosts DEF CrashWorker, PathdiffTypeOK, Posting
<1>3. ASSUME NEW t \in Threads, PostFails(t)
      PROVE  PostsInv'
  BY <1>3, FewerPosts DEF PostFails, Answered, PathdiffTypeOK
<1>4. CASE RestartAPI
  BY <1>4, FewerPosts DEF RestartAPI
<1> QED
  BY <1>1, <1>2, <1>3, <1>4, BeginsPost, DeletesRows, InsertsRow
     DEF PathdiffNext, Running, Failure, MonitorStep, WorkerStep, PostStep, Get, Query, Send,
         PollBroker, PollActive, PollReserved, MonitorDies, Reserve, Begin, FailTask, pathdiffVars,
         tasks, poll, posts

\* Every variable of the service keeps its type.
THEOREM PathdiffTypeCorrect == PathdiffSpec => []PathdiffTypeOK
BY InitTypeOK, NextTypeOK, PTL DEF PathdiffSpec

\* A post leaves no more rows of its listing than posts of it were under way at a
\* time since it began (api.py:106-118), for any number of workers and threads,
\* wherever they, the API or the database fail.
THEOREM RowsCorrect == PathdiffSpec => RowsBounded
<1>1. PathdiffInit => PostsInv
  BY DEF PathdiffInit, PostsInv
<1>2. PathdiffTypeOK /\ PostsInv /\ [PathdiffNext]_pathdiffVars => PostsInv'
  BY NextPostsInv
<1>3. ASSUME PathdiffTypeOK, PostsInv
      PROVE  \A t \in Threads : InsertRow(t) => rows'[post[t].key] <= met[t]
  BY <1>3, InsertsRow
<1>4. PathdiffSpec => [](PathdiffTypeOK /\ PostsInv)
  BY <1>1, <1>2, PathdiffTypeCorrect, PTL DEF PathdiffSpec
<1> QED
  BY <1>3, <1>4, PTL DEF RowsBounded, PathdiffSpec

-----------------------------------------------------------------------------
(* What a poll of the queue finds. *)

LEMMA ToSetAppend ==
  ASSUME NEW s \in Seq(Keys), NEW k \in Keys
  PROVE  ToSet(s) \subseteq ToSet(Append(s, k))
BY DEF ToSet

LEMMA ToSetHeadTail ==
  ASSUME NEW s \in Seq(Keys), s # << >>
  PROVE  ToSet(s) \subseteq {Head(s)} \cup ToSet(Tail(s))
<1> SUFFICES ASSUME NEW i \in 1..Len(s), i # 1
             PROVE  s[i] \in ToSet(Tail(s))
  BY DEF ToSet
<1>1. i - 1 \in 1..Len(Tail(s)) /\ Tail(s)[i - 1] = s[i]
  OBVIOUS
<1>2. 1..Len(Tail(s)) = DOMAIN Tail(s)
  OBVIOUS
<1> QED
  BY <1>1, <1>2 DEF ToSet

\* While a poll is under way, what is steady was found by it or is still where it
\* is going to look: a task moves towards what is asked for later, but from the
\* reserved to the active ones once these were asked for.
PollInv ==
  /\ monitor = "active" => steady \subseteq newqueue \cup Active \cup Reserved
  /\ monitor = "reserved" => steady \subseteq newqueue \cup Reserved

LEMMA ReservedGrows ==
  ASSUME PathdiffTypeOK, NEW w \in Workers, Reserve(w)
  PROVE  Reserved \subseteq Reserved'
<1>1. Head(broker) \in Keys
  BY DEF PathdiffTypeOK, Reserve
<1>2. \A v \in Workers : ToSet(reserved[v]) \subseteq ToSet(reserved'[v])
  BY <1>1, ToSetAppend DEF PathdiffTypeOK, Reserve
<1> QED
  BY <1>2 DEF Reserved

LEMMA BeginMoves ==
  ASSUME PathdiffTypeOK, NEW w \in Workers, Begin(w)
  PROVE  /\ Reserved \subseteq Reserved' \cup {Head(reserved[w])}
         /\ Head(reserved[w]) \in Active' /\ Active \subseteq Active'
<1>1. ToSet(reserved[w]) \subseteq {Head(reserved[w])} \cup ToSet(reserved'[w])
  BY ToSetHeadTail DEF PathdiffTypeOK, Begin
<1>2. \A v \in Workers \ {w} : reserved'[v] = reserved[v]
  BY DEF PathdiffTypeOK, Begin
<1>3. Reserved \subseteq Reserved' \cup {Head(reserved[w])}
  BY <1>1, <1>2 DEF Reserved
<1>4. Head(reserved[w]) \in Keys /\ Head(reserved[w]) # NoTask
  BY PathdiffAssumption DEF PathdiffTypeOK, Begin
<1>5. /\ active'[w] = Head(reserved[w]) /\ active[w] = NoTask
      /\ \A v \in Workers \ {w} : active'[v] = active[v]
  BY DEF PathdiffTypeOK, Begin
<1> QED
  BY <1>3, <1>4, <1>5 DEF Active

\* A task that ends is not steady any more, nor one its worker has given back.
LEMMA EndInv ==
  ASSUME PathdiffTypeOK, PollInv, NEW w \in Workers, EndTask(w), UNCHANGED <<monitor, newqueue>>,
         \/ reserved' = reserved /\ steady' = steady \ {active[w]}
         \/ CrashWorker(w)
  PROVE  PollInv'
<1>1. \A v \in Workers \ {w} : active'[v] = active[v]
  BY DEF PathdiffTypeOK, EndTask
<1>2. Active \subseteq Active' \cup {active[w]}
  BY <1>1 DEF Active
<1>3. CASE reserved' = reserved /\ steady' = steady \ {active[w]}
  BY <1>2, <1>3 DEF PollInv, Reserved
<1>4. CASE CrashWorker(w)
  <2>1. \A v \in Workers \ {w} : reserved'[v] = reserved[v]
    BY <1>4 DEF PathdiffTypeOK, CrashWorker
  <2>2. Reserved \subseteq Reserved' \cup ToSet(reserved[w])
    BY <2>1 DEF Reserved
  <2> QED
    BY <1>2, <1>4, <2>2 DEF PollInv, CrashWorker
<1> QED
  BY <1>3, <1>4

LEMMA NextPollInv == PathdiffTypeOK /\ PollInv /\ [PathdiffNext]_pathdiffVars => PollInv'
<1> SUFFICES ASSUME PathdiffTypeOK, PollInv, [PathdiffNext]_pathdiffVars PROVE PollInv'
  OBVIOUS
<1>1. CASE UNCHANGED <<reserved, active, monitor, newqueue, steady>>
  BY <1>1 DEF PollInv, Active, Reserved
<1>2. CASE PollBroker
  BY <1>2 DEF PollBroker, PollInv, Unfinished, Active, Reserved, tasks
<1>3. CASE PollActive
  BY <1>3 DEF PollActive, PollInv, Active, Reserved, tasks
<1>4. CASE PollReserved \/ MonitorDies \/ RestartAPI
  BY <1>4 DEF PollReserved, MonitorDies, RestartAPI, PollInv
<1>5. ASSUME NEW w \in Workers, Reserve(w)
      PROVE  PollInv'
  <2>1. Active' = Active
    BY <1>5 DEF Reserve, Active
  <2> QED
    BY <1>5, <2>1, ReservedGrows DEF Reserve, PollInv, poll
<1>6. ASSUME NEW w \in Workers, Begin(w)
      PROVE  PollInv'
  BY <1>6, BeginMoves DEF Begin, PollInv, poll
<1>7. ASSUME NEW w \in Workers, FailTask(w) \/ CrashWorker(w)
      PROVE  PollInv'
  BY <1>7, EndInv DEF FailTask, CrashWorker, poll
<1>8. ASSUME NEW t \in Threads, InsertRow(t) \/ PostFails(t)
      PROVE  PollInv'
  <2>1. Answered(t) /\ post[t] # Idle
    BY <1>8 DEF InsertRow, PostFails, Serves
  <2>2. CASE post[t].from = Nobody
    BY <1>1, <2>1, <2>2 DEF Answered, poll
  <2>3. CASE post[t].from # Nobody
    <3>1. post[t].from \in Workers
      BY <2>1, <2>3 DEF PathdiffTypeOK, Posting
    <3> QED
      BY <2>1, <2>3, <3>1, EndInv DEF Answered, poll
  <2> QED
    BY <2>2, <2>3
<1> QED
  BY <1>1, <1>2, <1>3, <1>4, <1>5, <1>6, <1>7, <1>8
     DEF PathdiffNext, Running, Failure, MonitorStep, WorkerStep, PostStep, Get, Query, Send,
         PostListing, DeleteRows, pathdiffVars, tasks, poll

\* A poll finds every task that was there all the time and did not slip behind it,
\* for any number of workers, clients and tasks.
THEOREM QueueCorrect == PathdiffSpec => QueueComplete
<1>1. PathdiffInit => PollInv
  BY DEF PathdiffInit, PollInv
<1>2. PathdiffTypeOK /\ PollInv /\ [PathdiffNext]_pathdiffVars => PollInv'
  BY NextPollInv
<1>3. ASSUME PollInv
      PROVE  PollReserved => steady \subseteq queue'
  BY <1>3 DEF PollInv, PollReserved
<1>4. PathdiffSpec => [](PathdiffTypeOK /\ PollInv)
  BY <1>1, <1>2, PathdiffTypeCorrect, PTL DEF PathdiffSpec
<1> QED
  BY <1>3, <1>4, PTL DEF QueueComplete, PathdiffSpec
=============================================================================
