--------------------------- MODULE JiraHookProofs ---------------------------
(***************************************************************************)
(* The safety properties of JiraHook, for any changes, tickets, summaries  *)
(* and URLs, and without a bound on the events.                            *)
(***************************************************************************)
EXTENDS JiraHook, TLAPS

-----------------------------------------------------------------------------
\* The lists of tickets, and what a hook writes.

LEMMA ToSetType == ASSUME NEW S, NEW s \in Seq(S) PROVE ToSet(s) \subseteq S
BY DEF ToSet

LEMMA ToSetTail ==
  ASSUME NEW S, NEW s \in Seq(S), s # <<>>
  PROVE  /\ Head(s) \in S /\ Tail(s) \in Seq(S)
         /\ Head(s) \in ToSet(s)
         /\ \A x \in ToSet(s) : x = Head(s) \/ x \in ToSet(Tail(s))
         /\ ToSet(Tail(s)) \subseteq ToSet(s)
<1>1. Head(s) \in S /\ Tail(s) \in Seq(S) /\ Len(Tail(s)) = Len(s) - 1 /\ Len(s) # 0 /\ Len(s) \in Nat
  OBVIOUS
<1>2. Head(s) = s[1] /\ \A i \in 1..Len(Tail(s)) : Tail(s)[i] = s[i + 1]
  OBVIOUS
<1>3. \A x \in ToSet(s) : x = Head(s) \/ x \in ToSet(Tail(s))
  <2> SUFFICES ASSUME NEW i \in DOMAIN s, i # 1 PROVE s[i] \in ToSet(Tail(s))
    BY <1>1, <1>2 DEF ToSet
  <2>1. i - 1 \in 1..Len(Tail(s)) /\ Tail(s)[i - 1] = s[i]
    BY <1>1, <1>2
  <2>2. i - 1 \in DOMAIN Tail(s)
    BY <1>1, <2>1
  <2> QED
    BY <2>1, <2>2 DEF ToSet
<1>4. ToSet(Tail(s)) \subseteq ToSet(s) /\ Head(s) \in ToSet(s)
  BY <1>1, <1>2 DEF ToSet
<1> QED
  BY <1>1, <1>3, <1>4

LEMMA MarkerCases ==
  /\ Marker("change-merged") = "(/) "
  /\ Marker("change-abandoned") = "(x) "
  /\ Marker("patchset-created") = "" /\ Marker("change-restored") = ""
  /\ \A event \in Events : Marker(event) \in Markers
BY DEF Marker, Markers, Events

LEMMA MineType == ASSUME NEW h \in Hook PROVE Mine(h) \subseteq Entry
<1>1. CASE h.event = "change-deleted"
  BY <1>1 DEF Mine
<1>2. CASE h.event # "change-deleted"
  <2>1. Marker(h.event) \in Markers /\ h.change \in Changes
    BY MarkerCases DEF Hook
  <2>2. [of |-> h.change, marker |-> Marker(h.event)] \in Entry
    BY <2>1 DEF Entry
  <2> QED
    BY <1>2, <2>2 DEF Mine
<1> QED
  BY <1>1, <1>2

\* A hook that runs, and has a ticket left.
Turn ==
  /\ hook \in Hook /\ hook.change \in Changes
  /\ hook.tickets \in Seq(Tickets) /\ hook.tickets # <<>>
  /\ Head(hook.tickets) \in Tickets

LEMMA TurnType == ASSUME TypeOK, hook # None, hook.tickets # <<>> PROVE Turn
BY ToSetTail DEF TypeOK, Turn, Hook

LEMMA NewFieldType ==
  ASSUME TypeOK, NEW h \in Hook, NEW t \in Tickets
  PROVE  NewField(h, t) \subseteq Entry
BY MineType DEF NewField, Others, TypeOK

LEMMA InDoubtType ==
  ASSUME TypeOK, NEW h \in Hook, NEW t \in Tickets
  PROVE  InDoubt(h, t) \subseteq Changes \X Tickets
BY DEF InDoubt, TypeOK, Hook

LEMMA OutstandingType == ASSUME NEW h \in Hook PROVE Outstanding(h) \subseteq Changes \X Tickets
BY ToSetType DEF Outstanding, Hook

-----------------------------------------------------------------------------
\* Types

LEMMA HappensType ==
  ASSUME TypeOK, NEW c \in Changes, NEW event \in Events, NEW from,
         NEW to \in {"none", "open", "merged", "abandoned", "deleted"},
         NEW tickets \in Seq(Tickets), Happens(c, event, from, to, tickets)
  PROVE  TypeOK'
<1>1. [event |-> event, change |-> c, tickets |-> tickets] \in Hook
  BY DEF Hook
<1>2. queue' \in Seq(Hook)
  BY <1>1 DEF Happens, TypeOK
<1> QED
  BY <1>2 DEF Happens, TypeOK

LEMMA DueCases ==
  ASSUME NEW c \in Changes
  PROVE  /\ DueIn(c, "merged") = {[of |-> c, marker |-> "(/) "]}
         /\ DueIn(c, "abandoned") = {[of |-> c, marker |-> "(x) "]}
         /\ DueIn(c, "open") = {[of |-> c, marker |-> ""]}
         /\ DueIn(c, "none") = {} /\ DueIn(c, "deleted") = {}
BY DEF DueIn

\* What happens to a change is one of Happens, and its hook writes what is due.
Fitting(c, event, to, tickets) ==
  /\ event \in Events /\ tickets \in Seq(Tickets)
  /\ to \in {"none", "open", "merged", "abandoned", "deleted"}
  /\ \A h \in Hook : h.event = event /\ h.change = c => Mine(h) = DueIn(c, to)

LEMMA EventSteps ==
  ASSUME TypeOK, NEW c \in Changes,
         Upload(c) \/ Merge(c) \/ Abandon(c) \/ Restore(c) \/ Delete(c)
  PROVE  \E event, from, to, tickets :
           Fitting(c, event, to, tickets) /\ Happens(c, event, from, to, tickets)
<1>1. summary[c] \in Seq(Tickets) /\ Summaries \subseteq Seq(Tickets)
  BY JiraHookAssumption DEF TypeOK
<1>2. \A tickets \in Seq(Tickets) :
        /\ Fitting(c, "patchset-created", "open", tickets)
        /\ Fitting(c, "change-merged", "merged", tickets)
        /\ Fitting(c, "change-abandoned", "abandoned", tickets)
        /\ Fitting(c, "change-restored", "open", tickets)
        /\ Fitting(c, "change-deleted", "deleted", tickets)
  BY MarkerCases, DueCases DEF Fitting, Mine, Events
<1>3. CASE Upload(c)
  BY <1>1, <1>2, <1>3 DEF Upload
<1>4. CASE Merge(c)
  BY <1>1, <1>2, <1>4 DEF Merge
<1>5. CASE Abandon(c)
  BY <1>1, <1>2, <1>5 DEF Abandon
<1>6. CASE Restore(c)
  BY <1>1, <1>2, <1>6 DEF Restore
<1>7. CASE Delete(c)
  BY <1>1, <1>2, <1>7 DEF Delete
<1> QED
  BY <1>3, <1>4, <1>5, <1>6, <1>7

LEMMA InitTypeOK == Init => TypeOK
BY DEF Init, TypeOK

LEMMA ScriptType ==
  ASSUME TypeOK, Start \/ End \/ Update \/ NoIssue \/ UpdateThrows \/ Stop
  PROVE  TypeOK'
<1>1. CASE Start
  BY <1>1, ToSetTail DEF Start, gerrit, TypeOK
<1>2. CASE End
  BY <1>2 DEF End, gerrit, TypeOK
<1>3. CASE Update
  <2>1. Turn
    BY <1>3, TurnType DEF Update
  <2>2. [hook EXCEPT !.tickets = Tail(@)] \in Hook
    BY <2>1, ToSetTail DEF Turn, Hook
  <2> QED
    BY <1>3, <2>1, <2>2, NewFieldType, InDoubtType DEF Update, gerrit, TypeOK, Turn
<1>4. CASE NoIssue
  <2>1. Turn
    BY <1>4, TurnType DEF NoIssue
  <2>2. [hook EXCEPT !.tickets = Tail(@)] \in Hook
    BY <2>1, ToSetTail DEF Turn, Hook
  <2> QED
    BY <1>4, <2>1, <2>2 DEF NoIssue, gerrit, TypeOK, Turn
<1>5. CASE UpdateThrows
  <2>1. Turn
    BY <1>5, TurnType DEF UpdateThrows
  <2>2. /\ NewField(hook, Head(hook.tickets)) \subseteq Entry
        /\ InDoubt(hook, Head(hook.tickets)) \subseteq Changes \X Tickets
        /\ Outstanding(hook) \subseteq Changes \X Tickets
    BY <2>1, NewFieldType, InDoubtType, OutstandingType DEF Turn
  <2>3. PICK applied \in BOOLEAN :
          /\ field' = IF applied THEN [field EXCEPT ![Head(hook.tickets)] =
                                         NewField(hook, Head(hook.tickets))] ELSE field
          /\ doubtful' = (IF applied THEN InDoubt(hook, Head(hook.tickets)) ELSE doubtful)
                            \cup Outstanding(hook)
    BY <1>5 DEF UpdateThrows
  <2>4. field' \in [Tickets -> SUBSET Entry]
    BY <2>1, <2>2, <2>3 DEF TypeOK, Turn
  <2>5. doubtful' \subseteq Changes \X Tickets
    BY <2>2, <2>3 DEF TypeOK
  <2> QED
    BY <1>5, <2>4, <2>5 DEF UpdateThrows, gerrit, TypeOK
<1>6. CASE Stop
  <2>1. Unfinished \subseteq Hook
    BY ToSetType DEF Unfinished, TypeOK
  <2>2. UNION {Outstanding(h) : h \in Unfinished} \subseteq Changes \X Tickets
    BY <2>1, OutstandingType
  <2>3. doubtful' \subseteq Changes \X Tickets
    BY <1>6, <2>2 DEF Stop, TypeOK
  <2> QED
    BY <1>6, <2>3 DEF Stop, gerrit, TypeOK
<1> QED
  BY <1>1, <1>2, <1>3, <1>4, <1>5, <1>6

LEMMA NextTypeOK == TypeOK /\ [Next]_vars => TypeOK'
<1> SUFFICES ASSUME TypeOK, [Next]_vars PROVE TypeOK'
  OBVIOUS
<1>1. CASE UNCHANGED vars
  BY <1>1 DEF vars, gerrit, TypeOK
<1>2. ASSUME NEW c \in Changes, Upload(c) \/ Merge(c) \/ Abandon(c) \/ Restore(c) \/ Delete(c)
      PROVE  TypeOK'
  BY <1>2, EventSteps, HappensType DEF Fitting
<1> QED
  BY <1>1, <1>2, ScriptType DEF Next

\* Every variable keeps its type (jira_hook.py), whatever the summaries name.
THEOREM TypeCorrect == Spec => []TypeOK
BY InitTypeOK, NextTypeOK, PTL DEF Spec

-----------------------------------------------------------------------------
\* One entry of each change, and who takes it out.

LEMMA NewFieldHas ==
  ASSUME TypeOK, NEW h \in Hook, NEW t \in Tickets
  PROVE  /\ NewField(h, t) \subseteq Others(h.change, t) \cup Mine(h) \/ NewField(h, t) = field[t]
         /\ \A e \in Others(h.change, t) : e \in field[t] /\ e.of # h.change
         /\ \A e, f \in Mine(h) : e = f /\ e.of = h.change
         /\ Others(h.change, t) \cup Mine(h) \subseteq NewField(h, t)
<1>1. \A e \in field[t] : e.of \in Changes
  BY DEF TypeOK, Entry
<1>2. \A e \in Others(h.change, t) : e \in field[t] /\ e.of # h.change
  BY <1>1, JiraHookAssumption DEF Others
<1>3. \A e, f \in Mine(h) : e = f /\ e.of = h.change
  BY DEF Mine
<1> QED
  BY <1>2, <1>3 DEF NewField

LEMMA InitOneEntry == Init => OneEntry
BY DEF Init, OneEntry

\* The field of one ticket at most is written, and by NewField.
LEMMA FieldStep ==
  ASSUME TypeOK, [Next]_vars
  PROVE  \/ UNCHANGED field
         \/ /\ Turn
            /\ field' = [field EXCEPT ![Head(hook.tickets)] = NewField(hook, Head(hook.tickets))]
<1>1. \A c \in Changes : Upload(c) \/ Merge(c) \/ Abandon(c) \/ Restore(c) \/ Delete(c) => UNCHANGED field
  BY DEF Upload, Merge, Abandon, Restore, Delete, Happens
<1>2. Start \/ End \/ Stop \/ NoIssue \/ UNCHANGED vars => UNCHANGED field
  BY DEF Start, End, Stop, NoIssue, vars
<1>3. CASE Update
  BY <1>3, TurnType DEF Update
<1>4. CASE UpdateThrows
  BY <1>4, TurnType DEF UpdateThrows
<1> QED
  BY <1>1, <1>2, <1>3, <1>4 DEF Next

LEMMA NextOneEntry == TypeOK /\ OneEntry /\ [Next]_vars => OneEntry'
<1> SUFFICES ASSUME TypeOK, OneEntry, [Next]_vars, NEW t \in Tickets, NEW e \in field'[t],
                    NEW f \in field'[t], e.of = f.of
             PROVE  e = f
  BY DEF OneEntry
<1>1. CASE field'[t] = field[t]
  BY <1>1 DEF OneEntry
<1>2. CASE field'[t] # field[t]
  <2>1. Turn /\ t = Head(hook.tickets) /\ field'[t] = NewField(hook, t)
    BY <1>2, FieldStep DEF TypeOK, Turn
  <2>2. field'[t] \subseteq Others(hook.change, t) \cup Mine(hook)
    BY <1>2, <2>1, NewFieldHas DEF Turn
  <2> QED
    BY <2>1, <2>2, NewFieldHas DEF Turn, OneEntry
<1> QED
  BY <1>1, <1>2

\* A ticket lists a change once (update_gerrit_reviews), for any summaries, URLs
\* and failures.
THEOREM OneEntryCorrect == Spec => []OneEntry
BY InitTypeOK, NextTypeOK, InitOneEntry, NextOneEntry, PTL DEF Spec

\* A review is taken out of a ticket by nothing but its own deletion, or a hook of
\* a change whose URL is a part of its (update_gerrit_reviews).
THEOREM RemovalCorrect == Spec => OnlyOwnRemoved
<1> DEFINE Removed == \A t \in Tickets, c \in Changes :
             EntriesOf(c, field[t]) # {} /\ EntriesOf(c, field'[t]) = {}
               => \/ hook.event = "change-deleted" /\ hook.change = c
                  \/ hook.change # c /\ <<hook.change, c>> \in Within
<1>1. TypeOK /\ [Next]_vars => Removed
  <2> SUFFICES ASSUME TypeOK, [Next]_vars, NEW t \in Tickets, NEW c \in Changes,
                      EntriesOf(c, field[t]) # {}, EntriesOf(c, field'[t]) = {}
               PROVE  \/ hook.event = "change-deleted" /\ hook.change = c
                      \/ hook.change # c /\ <<hook.change, c>> \in Within
    OBVIOUS
  <2>1. Turn /\ t = Head(hook.tickets) /\ field'[t] = NewField(hook, t)
    BY FieldStep DEF TypeOK, Turn
  <2>2. Others(hook.change, t) \cup Mine(hook) \subseteq field'[t]
    BY <2>1, NewFieldHas DEF Turn
  <2>3. PICK e \in field[t] : e.of = c
    BY DEF EntriesOf
  <2>4. e \notin Others(hook.change, t)
    BY <2>2, <2>3 DEF EntriesOf
  <2>5. <<hook.change, c>> \in Within
    BY <2>3, <2>4 DEF Others
  <2>6. ASSUME hook.change = c, hook.event # "change-deleted"
        PROVE  FALSE
    <3> DEFINE new == [of |-> c, marker |-> Marker(hook.event)]
    <3>1. new \in Mine(hook)
      BY <2>6 DEF Mine
    <3>2. new.of = c /\ new \in field'[t]
      BY <2>2, <3>1
    <3> QED
      BY <3>2 DEF EntriesOf
  <2> QED
    BY <2>5, <2>6
<1>2. Spec => [][Removed]_vars
  BY <1>1, InitTypeOK, NextTypeOK, PTL DEF Spec
<1> QED
  BY <1>2 DEF OnlyOwnRemoved

-----------------------------------------------------------------------------
\* FieldCurrent. What makes it inductive: of the hooks of a change that are
\* queued, the last brings what the change is due to all its tickets, and so does
\* the hook that runs, to those that it has left, if it is the last one.

InQueue(c) == \E i \in DOMAIN queue : queue[i].change = c

LastFits ==
  \A c \in Changes : InQueue(c) =>
    \E i \in DOMAIN queue :
      /\ queue[i].change = c /\ queue[i].tickets = summary[c] /\ Mine(queue[i]) = Due(c)
      /\ \A j \in DOMAIN queue : j > i => queue[j].change # c

Settled(c, t) == <<c, t>> \in doubtful \/ EntriesOf(c, field[t]) = Due(c)

HookFits ==
  hook # None /\ ~InQueue(hook.change) =>
    /\ Mine(hook) = Due(hook.change)
    /\ \A t \in ToSet(summary[hook.change]) :
         t \in ToSet(hook.tickets) \/ Settled(hook.change, t)

QuietSettled ==
  \A c \in Changes : ~InQueue(c) /\ (hook # None => hook.change # c) =>
    \A t \in ToSet(summary[c]) : Settled(c, t)

IInv == TypeOK /\ LastFits /\ HookFits /\ QuietSettled

LEMMA InitIInv == Init => IInv
<1> SUFFICES ASSUME Init PROVE IInv
  OBVIOUS
<1>1. TypeOK
  BY InitTypeOK
<1>2. ~\E c \in Changes : InQueue(c)
  BY DEF Init, InQueue
<1>3. \A c \in Changes : ToSet(summary[c]) = {}
  BY DEF Init, ToSet
<1> QED
  BY <1>1, <1>2, <1>3 DEF Init, IInv, LastFits, HookFits, QuietSettled

\* An update by which the hook writes a ticket.
Writes(t) ==
  /\ field' = [field EXCEPT ![t] = NewField(hook, t)]
  /\ InDoubt(hook, t) \subseteq doubtful'
  /\ UNCHANGED <<status, summary>>

\* It settles the ticket for its change, if that is what is due, and unsettles
\* nothing else.
LEMMA WritesSettles ==
  ASSUME TypeOK, Turn, NEW t \in Tickets, Writes(t), NEW c \in Changes, c = hook.change
  PROVE  /\ \A d \in Changes, u \in Tickets :
              d # c \/ u # t => (Settled(d, u) => Settled(d, u)')
         /\ Mine(hook) = Due(c) => Settled(c, t)'
<1>1. \A d \in Changes : Due(d)' = Due(d)
  BY DEF Writes, Due
<1>2. /\ field'[t] = NewField(hook, t)
      /\ \A u \in Tickets \ {t} : field'[u] = field[u]
  BY DEF Writes, TypeOK
<1>3. doubtful \ {<<c, t>>} \subseteq doubtful'
  BY DEF Writes, InDoubt
<1>4. ASSUME NEW d \in Changes, NEW u \in Tickets, d # c \/ u # t, Settled(d, u)
      PROVE  Settled(d, u)'
  <2>1. CASE <<d, u>> \in doubtful
    BY <1>3, <1>4, <2>1 DEF Settled
  <2>2. CASE u # t /\ EntriesOf(d, field[u]) = Due(d)
    BY <1>1, <1>2, <2>2 DEF Settled, EntriesOf
  <2>3. CASE u = t /\ EntriesOf(d, field[u]) = Due(d)
    <3>1. d # c
      BY <1>4, <2>3
    <3>2. CASE EntriesOf(d, field[t]) = EntriesOf(d, NewField(hook, t))
      BY <1>1, <1>2, <2>3, <3>2 DEF Settled, EntriesOf
    <3>3. CASE EntriesOf(d, field[t]) # EntriesOf(d, NewField(hook, t))
      <4>1. <<d, t>> \in InDoubt(hook, t)
        BY <3>1, <3>3 DEF InDoubt
      <4> QED
        BY <2>3, <4>1 DEF Writes, Settled
    <3> QED
      BY <3>2, <3>3
  <2> QED
    BY <1>4, <2>1, <2>2, <2>3 DEF Settled
<1>5. ASSUME Mine(hook) = Due(c)
      PROVE  Settled(c, t)'
  <2>1. EntriesOf(c, Others(c, t)) = {} /\ EntriesOf(c, Mine(hook)) = Mine(hook)
    BY NewFieldHas DEF Turn, EntriesOf
  <2>2. EntriesOf(c, Others(c, t) \cup Mine(hook)) = Mine(hook)
    BY <2>1 DEF EntriesOf
  <2>3. CASE Others(c, t) \cup Mine(hook) # {}
    <3>1. NewField(hook, t) = Others(c, t) \cup Mine(hook)
      BY <2>3 DEF NewField
    <3> QED
      BY <1>1, <1>2, <1>5, <2>2, <3>1 DEF Settled, EntriesOf
  <2>4. CASE Others(c, t) \cup Mine(hook) = {}
    <3>1. Mine(hook) = {} /\ hook.event = "change-deleted" /\ NewField(hook, t) = field[t]
      BY <2>4 DEF NewField, Mine
    <3>2. CASE EntriesOf(c, NewField(hook, t)) = {}
      BY <1>1, <1>2, <1>5, <3>1, <3>2 DEF Settled, EntriesOf, Turn
    <3>3. CASE EntriesOf(c, NewField(hook, t)) # {}
      <4>1. <<c, t>> \in InDoubt(hook, t)
        BY <3>1, <3>3 DEF InDoubt
      <4> QED
        BY <4>1 DEF Writes, Settled
    <3> QED
      BY <3>2, <3>3
  <2> QED
    BY <2>3, <2>4
<1> QED
  BY <1>4, <1>5

LEMMA HappensIInv ==
  ASSUME IInv, NEW c \in Changes, NEW event, NEW from, NEW to, NEW tickets,
         Fitting(c, event, to, tickets), Happens(c, event, from, to, tickets)
  PROVE  LastFits' /\ HookFits' /\ QuietSettled'
<1> DEFINE new == [event |-> event, change |-> c, tickets |-> tickets]
<1>1. new \in Hook /\ Mine(new) = DueIn(c, to)
  BY DEF Hook, Fitting
<1>2. queue \in Seq(Hook) /\ queue' = Append(queue, new)
  BY DEF IInv, TypeOK, Happens
<1>3. /\ DOMAIN queue = 1..Len(queue) /\ DOMAIN queue' = 1..(Len(queue) + 1) /\ Len(queue) \in Nat
      /\ queue'[Len(queue) + 1] = new
      /\ \A i \in 1..Len(queue) : queue'[i] = queue[i]
  BY <1>1, <1>2
<1>4. \A d \in Changes : InQueue(d)' <=> (InQueue(d) \/ d = c)
  BY <1>3 DEF InQueue
<1>5. /\ summary'[c] = tickets /\ Due(c)' = Mine(new)
      /\ \A d \in Changes \ {c} : summary'[d] = summary[d] /\ Due(d)' = Due(d)
  BY <1>1 DEF Happens, IInv, TypeOK, Due
<1>6. \A d \in Changes \ {c}, t \in Tickets : Settled(d, t) => Settled(d, t)'
  BY <1>5 DEF Settled, EntriesOf, Happens
<1>7. \A d \in Changes : ToSet(summary[d]) \subseteq Tickets
  BY ToSetType DEF IInv, TypeOK
<1>8. LastFits'
  <2> SUFFICES ASSUME NEW d \in Changes, InQueue(d)'
               PROVE  \E i \in DOMAIN queue' :
                        /\ queue'[i].change = d /\ queue'[i].tickets = summary'[d]
                        /\ Mine(queue'[i]) = Due(d)'
                        /\ \A j \in DOMAIN queue' : j > i => queue'[j].change # d
    BY DEF LastFits, Mine
  <2>1. CASE d = c
    <3>1. Len(queue) + 1 \in DOMAIN queue' /\ \A j \in DOMAIN queue' : ~(j > Len(queue) + 1)
      BY <1>3
    <3>2. new.change = c /\ new.tickets = tickets
      OBVIOUS
    <3> QED
      BY <1>3, <1>5, <2>1, <3>1, <3>2
  <2>2. CASE d # c
    <3>1. PICK i \in DOMAIN queue :
            /\ queue[i].change = d /\ queue[i].tickets = summary[d] /\ Mine(queue[i]) = Due(d)
            /\ \A j \in DOMAIN queue : j > i => queue[j].change # d
      BY <1>4, <2>2 DEF IInv, LastFits
    <3>2. i \in DOMAIN queue' /\ queue'[i] = queue[i]
      BY <1>3
    <3>3. \A j \in DOMAIN queue' : j > i => queue'[j].change # d
      BY <1>3, <2>2, <3>1
    <3> QED
      BY <1>5, <2>2, <3>1, <3>2, <3>3
  <2> QED
    BY <2>1, <2>2
<1>9. HookFits'
  BY <1>4, <1>5, <1>6, <1>7 DEF HookFits, IInv, Happens, TypeOK, Hook, Mine
<1>10. QuietSettled'
  BY <1>4, <1>5, <1>6, <1>7 DEF QuietSettled, IInv, Happens
<1> QED
  BY <1>8, <1>9, <1>10

\* A step that leaves Gerrit and the queue alone leaves LastFits.
LEMMA QueueSame == LastFits /\ UNCHANGED <<gerrit, queue>> => LastFits'
BY DEF LastFits, InQueue, gerrit, Due, Mine

LEMMA StartIInv ==
  ASSUME IInv, Start
  PROVE  LastFits' /\ HookFits' /\ QuietSettled'
<1>1. queue \in Seq(Hook) /\ queue # <<>> /\ queue' = Tail(queue) /\ hook' = Head(queue)
  BY DEF Start, IInv, TypeOK
<1>2. /\ DOMAIN queue = 1..Len(queue) /\ Len(queue) \in Nat \ {0}
      /\ DOMAIN queue' = 1..(Len(queue) - 1)
      /\ \A i \in 1..(Len(queue) - 1) : queue'[i] = queue[i + 1]
      /\ hook' = queue[1] /\ queue[1] \in Hook
  BY <1>1
<1>3. /\ \A d \in Changes : Due(d)' = Due(d) /\ summary'[d] = summary[d]
      /\ \A d \in Changes, t \in Tickets : Settled(d, t)' <=> Settled(d, t)
  BY DEF Start, gerrit, Due, Settled, EntriesOf
<1>4. \A d \in Changes : InQueue(d) <=> (InQueue(d)' \/ hook'.change = d)
  <2> TAKE d \in Changes
  <2>1. ASSUME InQueue(d), hook'.change # d
        PROVE  InQueue(d)'
    <3>1. PICK i \in DOMAIN queue : queue[i].change = d
      BY <2>1 DEF InQueue
    <3>2. i - 1 \in DOMAIN queue' /\ queue'[i - 1] = queue[i]
      BY <1>2, <2>1, <3>1
    <3> QED
      BY <3>1, <3>2 DEF InQueue
  <2>2. ASSUME InQueue(d)'
        PROVE  InQueue(d)
    <3>1. PICK i \in DOMAIN queue' : queue'[i].change = d
      BY <2>2 DEF InQueue
    <3>2. i + 1 \in DOMAIN queue /\ queue'[i] = queue[i + 1]
      BY <1>2
    <3> QED
      BY <3>1, <3>2 DEF InQueue
  <2>3. hook'.change = d => InQueue(d)
    BY <1>2 DEF InQueue
  <2> QED
    BY <2>1, <2>2, <2>3
<1>5. ASSUME NEW d \in Changes, InQueue(d)
      PROVE  \/ /\ queue[1].change = d /\ queue[1].tickets = summary[d]
                /\ Mine(queue[1]) = Due(d) /\ ~InQueue(d)'
             \/ \E i \in DOMAIN queue' :
                  /\ queue'[i].change = d /\ queue'[i].tickets = summary[d]
                  /\ Mine(queue'[i]) = Due(d)
                  /\ \A j \in DOMAIN queue' : j > i => queue'[j].change # d
  <2>1. PICK i \in DOMAIN queue :
          /\ queue[i].change = d /\ queue[i].tickets = summary[d] /\ Mine(queue[i]) = Due(d)
          /\ \A j \in DOMAIN queue : j > i => queue[j].change # d
    BY <1>5 DEF IInv, LastFits
  <2>2. CASE i = 1
    <3>1. \A j \in DOMAIN queue' : queue'[j].change # d
      BY <1>2, <2>1, <2>2
    <3> QED
      BY <2>1, <2>2, <3>1 DEF InQueue
  <2>3. CASE i # 1
    <3>1. i - 1 \in DOMAIN queue' /\ queue'[i - 1] = queue[i]
      BY <1>2, <2>3
    <3>2. \A j \in DOMAIN queue' : j > i - 1 => queue'[j].change # d
      BY <1>2, <2>1
    <3> QED
      BY <2>1, <3>1, <3>2
  <2> QED
    BY <2>2, <2>3
<1>6. LastFits'
  BY <1>3, <1>4, <1>5 DEF LastFits, InQueue, Mine
<1>7. HookFits'
  <2> SUFFICES ASSUME NEW c \in Changes, c = hook'.change, ~InQueue(c)'
               PROVE  /\ Mine(hook') = Due(c)'
                      /\ \A t \in ToSet(summary'[c]) : t \in ToSet(hook'.tickets)
    BY <1>2 DEF HookFits, Hook, Mine, InQueue
  <2>1. InQueue(c) /\ ~\E i \in DOMAIN queue' : queue'[i].change = c
    BY <1>4 DEF InQueue
  <2>2. queue[1].tickets = summary[c] /\ Mine(queue[1]) = Due(c)
    BY <1>5, <2>1
  <2> QED
    BY <1>2, <1>3, <2>2
<1>8. QuietSettled'
  <2>1. \A d \in Changes : ToSet(summary[d]) \subseteq Tickets
    BY ToSetType DEF IInv, TypeOK
  <2>2. hook' # None
    BY <1>2, NoneAssumption
  <2> QED
    BY <1>3, <1>4, <2>1, <2>2 DEF QuietSettled, IInv, Start
<1> QED
  BY <1>6, <1>7, <1>8

LEMMA EndIInv ==
  ASSUME IInv, End
  PROVE  LastFits' /\ HookFits' /\ QuietSettled'
<1>1. /\ \A d \in Changes, t \in Tickets : Settled(d, t)' <=> Settled(d, t)
      /\ \A d \in Changes : InQueue(d)' <=> InQueue(d)
  BY DEF End, gerrit, Due, Settled, EntriesOf, InQueue
<1>2. \A d \in Changes : ToSet(summary[d]) \subseteq Tickets
  BY ToSetType DEF IInv, TypeOK
<1>3. ToSet(hook.tickets) = {}
  BY DEF End, ToSet
<1>4. LastFits' /\ HookFits'
  BY QueueSame DEF IInv, End, HookFits
<1>5. QuietSettled'
  BY <1>1, <1>2, <1>3 DEF QuietSettled, HookFits, IInv, End, gerrit
<1> QED
  BY <1>4, <1>5

\* A turn that settles the ticket it takes, if the hook fits, or leaves it in doubt.
LEMMA TurnIInv ==
  ASSUME IInv, Turn, UNCHANGED <<gerrit, queue>>,
         hook' = [hook EXCEPT !.tickets = Tail(@)],
         \/ Writes(Head(hook.tickets))
         \/ /\ UNCHANGED field
            /\ doubtful' = doubtful \cup {<<hook.change, Head(hook.tickets)>>}
  PROVE  LastFits' /\ HookFits' /\ QuietSettled'
<1> PICK c \in Changes, t \in Tickets : c = hook.change /\ t = Head(hook.tickets)
  BY DEF Turn
<1>1. /\ hook # None
      /\ hook'.change = c /\ hook'.tickets = Tail(hook.tickets) /\ hook' # None
      /\ hook'.event = hook.event
  <2>1. hook' \in Hook
    BY ToSetTail DEF Turn, Hook
  <2> QED
    BY <2>1, NoneAssumption DEF Turn, Hook
<1>2. \A u \in ToSet(hook.tickets) : u = t \/ u \in ToSet(hook'.tickets)
  BY <1>1, ToSetTail DEF Turn
<1>3. /\ \A d \in Changes, u \in Tickets : d # c \/ u # t => (Settled(d, u) => Settled(d, u)')
      /\ Mine(hook) = Due(c) => Settled(c, t)'
  <2>1. CASE Writes(t)
    BY <1>1, <2>1, WritesSettles DEF IInv
  <2>2. CASE UNCHANGED field /\ doubtful' = doubtful \cup {<<c, t>>}
    BY <2>2 DEF Settled, EntriesOf, Due, gerrit
  <2> QED
    BY <2>1, <2>2
<1>4. /\ \A d \in Changes : InQueue(d)' <=> InQueue(d)
      /\ \A d \in Changes : summary'[d] = summary[d] /\ Due(d)' = Due(d)
  BY DEF InQueue, gerrit, Due
<1>5. \A d \in Changes : ToSet(summary[d]) \subseteq Tickets
  BY ToSetType DEF IInv, TypeOK
<1>6. LastFits'
  BY QueueSame DEF IInv
<1>7. HookFits'
  <2> SUFFICES ASSUME ~InQueue(c)
               PROVE  /\ Mine(hook') = Due(c)'
                      /\ \A u \in ToSet(summary'[c]) :
                           u \in ToSet(hook'.tickets) \/ Settled(c, u)'
    BY <1>1, <1>4 DEF HookFits, Mine, Settled, InQueue
  <2>1. /\ Mine(hook) = Due(c)
        /\ \A u \in ToSet(summary[c]) : u \in ToSet(hook.tickets) \/ Settled(c, u)
    BY <1>1 DEF HookFits, IInv
  <2>2. Mine(hook') = Mine(hook)
    BY <1>1 DEF Mine
  <2> QED
    BY <1>1, <1>2, <1>3, <1>4, <1>5, <2>1, <2>2
<1>8. QuietSettled'
  BY <1>1, <1>3, <1>4, <1>5 DEF QuietSettled, IInv
<1> QED
  BY <1>6, <1>7, <1>8

LEMMA ThrowsIInv ==
  ASSUME IInv, UpdateThrows
  PROVE  LastFits' /\ HookFits' /\ QuietSettled'
<1>1. Turn
  BY TurnType DEF UpdateThrows, IInv
<1> PICK c \in Changes, t \in Tickets : c = hook.change /\ t = Head(hook.tickets)
  BY <1>1 DEF Turn
<1>2. /\ hook # None /\ hook' = None
      /\ t \in ToSet(hook.tickets) /\ UNCHANGED <<gerrit, queue>>
  BY <1>1, ToSetTail DEF Turn, UpdateThrows
<1>3. \A u \in ToSet(hook.tickets) : Settled(c, u)'
  <2>1. Outstanding(hook) \subseteq doubtful'
    BY DEF UpdateThrows
  <2> QED
    BY <2>1 DEF Outstanding, Settled
<1>4. \A d \in Changes, u \in Tickets : d # c \/ u # t => (Settled(d, u) => Settled(d, u)')
  <2>1. CASE Writes(t)
    BY <1>1, <1>2, <2>1, WritesSettles DEF IInv
  <2>2. CASE UNCHANGED field /\ doubtful \subseteq doubtful'
    BY <1>2, <2>2 DEF Settled, EntriesOf, Due, gerrit
  <2>3. Writes(t) \/ (UNCHANGED field /\ doubtful \subseteq doubtful')
    BY <1>2 DEF UpdateThrows, Writes, gerrit
  <2> QED
    BY <2>1, <2>2, <2>3
<1>5. /\ \A d \in Changes : InQueue(d)' <=> InQueue(d)
      /\ \A d \in Changes : summary'[d] = summary[d]
  BY <1>2 DEF InQueue, gerrit
<1>6. \A d \in Changes : ToSet(summary[d]) \subseteq Tickets
  BY ToSetType DEF IInv, TypeOK
<1>7. LastFits' /\ HookFits'
  BY <1>2, QueueSame DEF IInv, HookFits
<1>8. QuietSettled'
  <2> SUFFICES ASSUME NEW d \in Changes, ~InQueue(d), NEW u \in ToSet(summary[d])
               PROVE  Settled(d, u)'
    BY <1>5 DEF QuietSettled, Settled
  <2>1. CASE d # c
    BY <1>2, <1>4, <1>6, <2>1 DEF QuietSettled, IInv
  <2>2. CASE d = c
    BY <1>2, <1>3, <1>4, <1>6, <2>2 DEF HookFits, IInv
  <2> QED
    BY <2>1, <2>2
<1> QED
  BY <1>7, <1>8

LEMMA StopIInv ==
  ASSUME IInv, Stop
  PROVE  LastFits' /\ HookFits' /\ QuietSettled'
<1>1. /\ queue' = <<>> /\ hook' = None /\ UNCHANGED <<gerrit, field>>
      /\ doubtful' = doubtful \cup UNION {Outstanding(h) : h \in Unfinished}
  BY DEF Stop
<1>2. \A h \in Unfinished : \A u \in ToSet(h.tickets) : Settled(h.change, u)'
  <2> TAKE h \in Unfinished
  <2>1. Outstanding(h) \subseteq doubtful'
    BY <1>1
  <2> SUFFICES ASSUME NEW u \in ToSet(h.tickets) PROVE <<h.change, u>> \in doubtful'
    BY DEF Settled
  <2> QED
    BY <2>1 DEF Outstanding
<1>3. \A d \in Changes, u \in Tickets : Settled(d, u) => Settled(d, u)'
  BY <1>1 DEF Settled, EntriesOf, Due, gerrit
<1>4. \A d \in Changes : ToSet(summary[d]) \subseteq Tickets /\ summary'[d] = summary[d]
  BY <1>1, ToSetType DEF IInv, TypeOK, gerrit
<1>5. \A d \in Changes : ~InQueue(d)'
  BY <1>1 DEF InQueue
<1>6. ASSUME NEW d \in Changes, NEW u \in ToSet(summary[d])
      PROVE  Settled(d, u)'
  <2>1. CASE InQueue(d)
    <3>1. PICK i \in DOMAIN queue : queue[i].change = d /\ queue[i].tickets = summary[d]
      BY <2>1 DEF IInv, LastFits
    <3>2. queue[i] \in Unfinished
      BY <3>1 DEF Unfinished, ToSet
    <3> QED
      BY <1>2, <3>1, <3>2
  <2>2. CASE ~InQueue(d) /\ hook # None /\ hook.change = d
    <3>1. hook \in Unfinished
      BY <2>2 DEF Unfinished
    <3>2. u \in ToSet(hook.tickets) \/ Settled(d, u)
      BY <2>2 DEF HookFits, IInv
    <3> QED
      BY <1>2, <1>3, <1>4, <2>2, <3>1, <3>2
  <2>3. CASE ~InQueue(d) /\ (hook # None => hook.change # d)
    BY <1>3, <1>4, <2>3 DEF QuietSettled, IInv
  <2> QED
    BY <2>1, <2>2, <2>3
<1>7. QuietSettled'
  BY <1>4, <1>6 DEF QuietSettled
<1> QED
  BY <1>1, <1>5, <1>7 DEF LastFits, HookFits

LEMMA NextIInv == IInv /\ [Next]_vars => IInv'
<1> SUFFICES ASSUME IInv, [Next]_vars PROVE LastFits' /\ HookFits' /\ QuietSettled'
  BY NextTypeOK DEF IInv
<1>1. CASE UNCHANGED vars
  <2>1. \A c \in Changes : InQueue(c)' <=> InQueue(c)
    BY <1>1 DEF vars, InQueue
  <2>2. \A c, t : Settled(c, t)' <=> Settled(c, t)
    BY <1>1 DEF vars, gerrit, Settled, EntriesOf, Due
  <2>3. LastFits'
    BY <1>1, QueueSame DEF vars, IInv
  <2>4. HookFits'
    <3> SUFFICES ASSUME hook # None, ~InQueue(hook.change)'
                 PROVE  /\ Mine(hook) = Due(hook.change)
                        /\ \A t \in ToSet(summary[hook.change]) :
                             t \in ToSet(hook.tickets) \/ Settled(hook.change, t)
      BY <1>1, <2>2 DEF vars, gerrit, HookFits, Mine, Due, Settled, EntriesOf
    <3> QED
      BY <1>1 DEF vars, InQueue, HookFits, IInv
  <2>5. QuietSettled'
    BY <1>1, <2>1, <2>2 DEF vars, gerrit, QuietSettled, IInv
  <2> QED
    BY <2>3, <2>4, <2>5
<1>2. ASSUME NEW c \in Changes, Upload(c) \/ Merge(c) \/ Abandon(c) \/ Restore(c) \/ Delete(c)
      PROVE  LastFits' /\ HookFits' /\ QuietSettled'
  BY <1>2, EventSteps, HappensIInv DEF IInv
<1>3. CASE Update
  <2>1. Turn
    BY <1>3, TurnType DEF Update, IInv
  <2>2. Writes(Head(hook.tickets))
    BY <1>3 DEF Update, Writes, gerrit
  <2>3. UNCHANGED <<gerrit, queue>> /\ hook' = [hook EXCEPT !.tickets = Tail(@)]
    BY <1>3 DEF Update
  <2> QED
    BY <2>1, <2>2, <2>3, TurnIInv
<1>4. CASE NoIssue
  <2>1. Turn
    BY <1>4, TurnType DEF NoIssue, IInv
  <2> QED
    BY <1>4, <2>1, TurnIInv DEF NoIssue
<1> QED
  BY <1>1, <1>2, <1>3, <1>4, StartIInv, EndIInv, ThrowsIInv, StopIInv DEF Next

LEMMA IInvFieldCurrent == IInv => FieldCurrent
<1> SUFFICES ASSUME IInv, NEW c \in Changes, Quiet(c)
             PROVE  ~InQueue(c) /\ (hook # None => hook.change # c)
  BY DEF IInv, QuietSettled, Settled, FieldCurrent
<1> QED
  BY DEF Quiet, InQueue, ToSet

\* Once its hooks have run, a change is listed in its tickets as it is
\* (update_gerrit_reviews), for any number of changes and events, or the history
\* names what has failed.
THEOREM FieldCorrect == Spec => []FieldCurrent
BY InitIInv, NextIInv, IInvFieldCurrent, PTL DEF Spec
=============================================================================
