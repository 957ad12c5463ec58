---------------------------- MODULE Reservations ----------------------------
(***************************************************************************)
(* The reservation endpoints of the build database REST service            *)
(* (builddb_rest/reservations.py and util/db.py): a client asks for a      *)
(* number of virtual machines with an operating system, is told which it   *)
(* has, and gives them back; a reservation that is not given back expires. *)
(*                                                                         *)
(* The machines of one operating system are modelled, and all of them      *)
(* known: a request for another, or for more machines than there are, is   *)
(* answered without a change.  Machines are selected by one query and then *)
(* written one by one; nothing locks them.  Time is counted in hours that  *)
(* are left, which the database and the service count alike.               *)
(***************************************************************************)
EXTENDS Integers, FiniteSets

CONSTANTS
  VMs,
  Clients,
  Totals,   \* the numbers of machines that are asked for
  Hours,    \* the numbers of hours they are asked for
  Nobody    \* the `who` of a machine that was given back

Longest == CHOOSE h \in Hours : \A i \in Hours : i <= h

ASSUME ReservationsAssumption ==
  /\ IsFiniteSet(VMs) /\ Totals \subseteq Nat
  /\ Hours \subseteq Nat \ {0} /\ \E h \in Hours : \A i \in Hours : i <= h
  /\ Nobody \notin Clients

VARIABLES
  vms,      \* the documents of the machines
  selected, \* the machines each request has selected and not written yet
  done,     \* those it has written
  hours,    \* the hours it asked for, 0 if there is no request
  held,     \* the machines each client was told it has and has not given back
  left,     \* how much longer it may have them
  \* history
  disputed  \* the machines that two requests were after at a time, or that were
            \* given back by another than who the database says has them

reservationVars == <<vms, selected, done, hours, held, left, disputed>>

VM == [state : {"available", "reserved"}, who : Clients \cup {Nobody}, expires : 0..Longest]

ReservationsInit ==
  /\ vms = [v \in VMs |-> [state |-> "available", who |-> Nobody, expires |-> 0]]
  /\ selected = [c \in Clients |-> {}] /\ done = [c \in Clients |-> {}]
  /\ hours = [c \in Clients |-> 0]
  /\ held = [c \in Clients |-> {}]
  /\ left = [c \in Clients |-> [v \in VMs |-> 0]]
  /\ disputed = {}

\* (mutated: only what was given back can be reserved)
ReservableAvailable == {v \in VMs : vms[v].state = "available"}

\* (mutated: the state is not looked at but the time)
ReservableAll == VMs

\* get_reservable_vms, without its limit
Reservable == {v \in VMs : vms[v].state = "available" \/ vms[v].expires = 0}

\* The machines another request is about to write, or has written without an
\* answer yet.
Pending(c) == UNION {selected[d] \cup done[d] : d \in Clients \ {c}}

\* collection_post, up to the query. The database may return any of the
\* machines up to the limit; with too few the request is over.
Select(c, total, h) ==
  /\ hours[c] = 0 /\ held[c] = {}
  /\ \E S \in SUBSET Reservable :
       /\ Cardinality(S) = total
       /\ selected' = [selected EXCEPT ![c] = S]
       /\ disputed' = disputed \cup (S \cap Pending(c))
  /\ hours' = [hours EXCEPT ![c] = h]
  /\ UNCHANGED <<vms, done, held, left>>

\* One turn of its loop.
Write(c, v) ==
  /\ v \in selected[c]
  /\ vms' = [vms EXCEPT ![v] = [state |-> "reserved", who |-> c, expires |-> hours[c]]]
  /\ selected' = [selected EXCEPT ![c] = @ \ {v}]
  /\ done' = [done EXCEPT ![c] = @ \cup {v}]
  /\ left' = [left EXCEPT ![c][v] = hours[c]]
  /\ UNCHANGED <<hours, held, disputed>>

\* The client is told what it has.
Answer(c) ==
  /\ hours[c] # 0 /\ selected[c] = {}
  /\ held' = [held EXCEPT ![c] = done[c]]
  /\ done' = [done EXCEPT ![c] = {}]
  /\ hours' = [hours EXCEPT ![c] = 0]
  /\ UNCHANGED <<vms, selected, left, disputed>>

\* The service is stopped, or the database fails: what was written stays, and
\* nobody is told of it.
Fail(c) ==
  /\ hours[c] # 0
  /\ selected' = [selected EXCEPT ![c] = {}]
  /\ done' = [done EXCEPT ![c] = {}]
  /\ hours' = [hours EXCEPT ![c] = 0]
  /\ left' = [left EXCEPT ![c] = [v \in VMs |-> 0]]
  /\ UNCHANGED <<vms, held, disputed>>

\* One turn of the loop of collection_delete, which gives back any machine,
\* whoever has it by now. The document is read before, for the fields that
\* are not these three. The request is that of the client c, for a machine it
\* has; or of Nobody who has it: one that is repeated, comes late, or is for
\* a machine the client never had.
Release(c, v) ==
  /\ c # Nobody => v \in held[c]
  /\ vms' = [vms EXCEPT ![v] = [state |-> "available", who |-> Nobody, expires |-> 0]]
  /\ held' = [d \in Clients |-> IF d = c THEN held[d] \ {v} ELSE held[d]]
  /\ left' = [d \in Clients |-> IF d = c THEN [left[d] EXCEPT ![v] = 0] ELSE left[d]]
  /\ disputed' = IF vms[v].who \in {c, Nobody} THEN disputed ELSE disputed \cup {v}
  /\ UNCHANGED <<selected, done, hours>>

Less(n) == IF n = 0 THEN 0 ELSE n - 1

\* The machines some client may have at this time.
Had == {v \in VMs : \E c \in Clients : left[c][v] > 0}

\* An hour goes by. What no request or client has any more is not disputed.
Tick ==
  /\ \E v \in VMs : vms[v].expires > 0
  /\ vms' = [v \in VMs |-> [vms[v] EXCEPT !.expires = Less(@)]]
  /\ left' = [c \in Clients |-> [v \in VMs |-> Less(left[c][v])]]
  /\ disputed' = disputed \cap (Had' \cup UNION {selected[c] \cup done[c] : c \in Clients})
  /\ UNCHANGED <<selected, done, hours, held>>

ReservationsNext ==
  \/ \E c \in Clients :
       \/ \E total \in Totals, h \in Hours : Select(c, total, h)
       \/ \E v \in VMs : Write(c, v)
       \/ Answer(c) \/ Fail(c)
  \/ \E c \in Clients \cup {Nobody}, v \in VMs : Release(c, v)
  \/ Tick

ReservationsSpec == ReservationsInit /\ [][ReservationsNext]_reservationVars

\* Time goes by. Nothing is assumed of the clients and of their requests.
FairReservations == ReservationsSpec /\ WF_reservationVars(Tick)

-----------------------------------------------------------------------------

\* What each variable holds.
ReservationsTypeOK ==
  /\ vms \in [VMs -> VM]
  /\ \A v \in VMs : vms[v].who = Nobody => vms[v].state = "available"
  /\ selected \in [Clients -> SUBSET VMs] /\ done \in [Clients -> SUBSET VMs]
  /\ \A c \in Clients : selected[c] \cap done[c] = {}
  /\ hours \in [Clients -> Hours \cup {0}]
  /\ held \in [Clients -> SUBSET VMs]
  /\ left \in [Clients -> [VMs -> 0..Longest]]
  /\ disputed \subseteq VMs

\* What a client may have by what it was told (collection_post) is what the
\* database says it has, until it gives it back or its time is over, unless
\* two requests were after the machine at a time, or a request gave it back
\* (collection_delete) that was not its own or not meant for this reservation:
\* a client that is slow, silent, or stopped half way takes it from nobody.
HeldIsRecorded ==
  \A c \in Clients : \A v \in held[c] \ disputed :
    left[c][v] > 0 => vms[v].who = c /\ vms[v].state = "reserved" /\ vms[v].expires = left[c][v]

\* A machine can be reserved again in the end (get_reservable_vms), whether its
\* client gives it back, forgets it, or was never told.
Reusable == \A v \in VMs : []<>(v \in Reservable)
=============================================================================
