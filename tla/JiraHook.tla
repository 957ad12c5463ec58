------------------------------ MODULE JiraHook ------------------------------
(***************************************************************************)
(* The Gerrit hooks, terraform/gerrit/files/hooks: for each event of a     *)
(* change jira_hook.py goes through the tickets that the summary of its    *)
(* commit names, and brings the list of reviews in a field of each up to   *)
(* date.                                                                   *)
(*                                                                         *)
(* The list is modelled as a set of entries: the order has no meaning, and *)
(* the only part of an entry that is looked for is the URL of its change.  *)
(* Gerrit itself is not in this repository.  It is taken to run the hooks  *)
(* of its events one at a time and in order, and to forget those that are  *)
(* outstanding when it stops.                                              *)
(***************************************************************************)
EXTENDS Naturals, Sequences, SequencesExt

CONSTANTS
  Changes,
  Tickets,
  Summaries,  \* what get_tickets finds in a commit: sequences of tickets
  Within,     \* the pairs of changes where the URL of the first is a part of
              \* the URL of the second, as that of 12 is of that of 123
  MaxEvents,  \* bound: what happens to changes
  None

ASSUME JiraHookAssumption ==
  /\ Summaries \subseteq Seq(Tickets)
  /\ Within \subseteq Changes \X Changes
  /\ \A c \in Changes : <<c, c>> \in Within
  /\ MaxEvents \in Nat

Markers == {"", "(/) ", "(x) "}
Entry == [of : Changes, marker : Markers]
Events == {"patchset-created", "change-merged", "change-abandoned", "change-restored",
           "change-deleted"}
Hook == [event : Events, change : Changes, tickets : Seq(Tickets)]

ASSUME NoneAssumption == None \notin Hook

VARIABLES
  status,    \* the state of each change in Gerrit
  summary,   \* the tickets in the summary of its current commit
  queue,     \* the hooks that Gerrit has to run
  hook,      \* the one that runs, with the tickets it has still to update
  field,     \* the entries in the field of each ticket
  \* history
  doubtful,  \* the changes and tickets for which an update has failed
  events     \* how many events there were

gerrit == <<status, summary, events>>
vars == <<gerrit, queue, hook, field, doubtful>>

Init ==
  /\ status = [c \in Changes |-> "none"]
  /\ summary = [c \in Changes |-> <<>>]
  /\ queue = <<>> /\ hook = None
  /\ field = [t \in Tickets |-> {}]
  /\ doubtful = {}
  /\ events = 0

-----------------------------------------------------------------------------
(* Gerrit *)

\* The change gets another state, and the hook is queued with the summary of
\* its commit.
Happens(c, event, from, to, tickets) ==
  /\ events < MaxEvents /\ events' = events + 1
  /\ status[c] \in from
  /\ status' = [status EXCEPT ![c] = to]
  /\ summary' = [summary EXCEPT ![c] = tickets]
  /\ queue' = Append(queue, [event |-> event, change |-> c, tickets |-> tickets])
  /\ UNCHANGED <<hook, field, doubtful>>

\* A patch set is free to name other tickets than the one before.
Upload(c) == \E s \in Summaries : Happens(c, "patchset-created", {"none", "open"}, "open", s)
Merge(c) == Happens(c, "change-merged", {"open"}, "merged", summary[c])
Abandon(c) == Happens(c, "change-abandoned", {"open"}, "abandoned", summary[c])
Restore(c) == Happens(c, "change-restored", {"abandoned"}, "open", summary[c])
Delete(c) == Happens(c, "change-deleted", {"open", "abandoned"}, "deleted", summary[c])

\* What a hook has not updated.
Outstanding(h) == {<<h.change, t>> : t \in ToSet(h.tickets)}

Unfinished == ToSet(queue) \cup ({hook} \ {None})

\* Gerrit stops, and its hooks with it.
Stop ==
  /\ queue # <<>> \/ hook # None
  /\ doubtful' = doubtful \cup UNION {Outstanding(h) : h \in Unfinished}
  /\ queue' = <<>> /\ hook' = None
  /\ UNCHANGED <<gerrit, field>>

-----------------------------------------------------------------------------
(* jira_hook.py *)

Start ==
  /\ hook = None /\ queue # <<>>
  /\ hook' = Head(queue)
  /\ queue' = Tail(queue)
  /\ UNCHANGED <<gerrit, field, doubtful>>

\* With no ticket, or none left, the script ends.
End ==
  /\ hook # None /\ hook.tickets = <<>>
  /\ hook' = None
  /\ UNCHANGED <<gerrit, queue, field, doubtful>>

\* (mutated: a review that is restored keeps its cross)
MarkerStale(event) ==
  CASE event = "change-merged" -> "(/) "
    [] event \in {"change-abandoned", "change-restored"} -> "(x) "
    [] OTHER -> ""

Marker(event) ==
  CASE event = "change-merged" -> "(/) "
    [] event = "change-abandoned" -> "(x) "
    [] OTHER -> ""

\* (mutated: duplicates are not removed)
OthersAll(c, t) == field[t]

\* (mutated: of the list that is there nothing is kept)
OthersNone(c, t) == {}

\* The entries in which the URL of the change is not found.
Others(c, t) == {e \in field[t] : <<c, e.of>> \notin Within}

Mine(h) == IF h.event = "change-deleted" THEN {}
           ELSE {[of |-> h.change, marker |-> Marker(h.event)]}

\* update_gerrit_reviews: the field as it is written; with nothing in the list
\* there is nothing to write.
NewField(h, t) ==
  LET list == Others(h.change, t) \cup Mine(h) IN IF list = {} THEN field[t] ELSE list

EntriesOf(c, list) == {e \in list : e.of = c}

\* What is in doubt after an update: the changes that were taken for this one,
\* and this one if it was deleted and stays.
InDoubt(h, t) ==
  LET taken == {d \in Changes \ {h.change} :
                  EntriesOf(d, field[t]) # EntriesOf(d, NewField(h, t))}
      stays == {d \in {h.change} :
                  h.event = "change-deleted" /\ EntriesOf(d, NewField(h, t)) # {}}
  IN (doubtful \ {<<h.change, t>>}) \cup {<<d, t>> : d \in taken \cup stays}

\* One turn of the loop.
Update ==
  /\ hook # None /\ hook.tickets # <<>>
  /\ LET t == Head(hook.tickets) IN
       /\ field' = [field EXCEPT ![t] = NewField(hook, t)]
       /\ doubtful' = InDoubt(hook, t)
  /\ hook' = [hook EXCEPT !.tickets = Tail(@)]
  /\ UNCHANGED <<gerrit, queue>>

\* JIRA does not give the ticket, for whatever reason: it is taken not to exist.
NoIssue ==
  /\ hook # None /\ hook.tickets # <<>>
  /\ doubtful' = doubtful \cup {<<hook.change, Head(hook.tickets)>>}
  /\ hook' = [hook EXCEPT !.tickets = Tail(@)]
  /\ UNCHANGED <<gerrit, queue, field>>

\* JIRA does not take the field, or its answer is lost, or the script fails before
\* the first ticket (init_jira): nothing catches that, and the tickets that are
\* left are not updated.
UpdateThrows ==
  /\ hook # None /\ hook.tickets # <<>>
  /\ LET t == Head(hook.tickets) IN
       \E applied \in BOOLEAN :
         /\ field' = IF applied THEN [field EXCEPT ![t] = NewField(hook, t)] ELSE field
         /\ doubtful' = (IF applied THEN InDoubt(hook, t) ELSE doubtful) \cup Outstanding(hook)
  /\ hook' = None
  /\ UNCHANGED <<gerrit, queue>>

Next ==
  \/ \E c \in Changes : Upload(c) \/ Merge(c) \/ Abandon(c) \/ Restore(c) \/ Delete(c)
  \/ Stop \/ Start \/ End \/ Update \/ NoIssue \/ UpdateThrows

Spec == Init /\ [][Next]_vars

-----------------------------------------------------------------------------

\* What each variable holds.
TypeOK ==
  /\ status \in [Changes -> {"none", "open", "merged", "abandoned", "deleted"}]
  /\ summary \in [Changes -> Seq(Tickets)]
  /\ queue \in Seq(Hook)
  /\ hook \in Hook \cup {None}
  /\ field \in [Tickets -> SUBSET Entry]
  /\ doubtful \subseteq Changes \X Tickets
  /\ events \in Nat

\* A ticket never lists a change twice ("Remove duplicates"), whichever patch
\* sets and events named it, and whatever failed.
OneEntry == \A t \in Tickets : \A e, f \in field[t] : e.of = f.of => e = f

\* No event of the change is outstanding.
Quiet(c) ==
  /\ \A h \in ToSet(queue) : h.change # c
  /\ hook # None => hook.change # c

\* The entry a change should have.
DueIn(c, state) ==
  CASE state = "merged" -> {[of |-> c, marker |-> "(/) "]}
    [] state = "abandoned" -> {[of |-> c, marker |-> "(x) "]}
    [] state = "open" -> {[of |-> c, marker |-> ""]}
    [] state \in {"none", "deleted"} -> {}

Due(c) == DueIn(c, status[c])

\* Once its hooks have run, a change is listed as it is, with the mark of its
\* state, in the tickets that its commit names (update_gerrit_reviews): unless
\* an update failed or was lost and none has followed, its URL is found in that
\* of another, or it was deleted as the last of the list.
FieldCurrent ==
  \A c \in Changes : Quiet(c) =>
    \A t \in ToSet(summary[c]) :
      <<c, t>> \notin doubtful => EntriesOf(c, field[t]) = Due(c)

\* A review disappears from a ticket, be it one that its commit names no more,
\* by nothing but a hook of its own, or of a change whose URL is a part of its.
OnlyOwnRemoved ==
  [][\A t \in Tickets, c \in Changes :
       EntriesOf(c, field[t]) # {} /\ EntriesOf(c, field'[t]) = {}
         => \/ hook.event = "change-deleted" /\ hook.change = c
            \/ hook.change # c /\ <<hook.change, c>> \in Within]_vars
=============================================================================
