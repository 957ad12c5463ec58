------------------------------ MODULE Pathdiff ------------------------------
(***************************************************************************)
(* The pathdiff service: an API that answers with the file listing of a    *)
(* build, or queues a task that makes it (containers/api); workers that    *)
(* run the task in a container and post the listing back to the API        *)
(* (containers/worker), where a thread of its own serves the request, even *)
(* when its worker is gone; and a thread of the API that polls the task    *)
(* queue and keeps what it saw in memory.  Celery and Redis, which hold    *)
(* the tasks, are modelled from how the two use them.                      *)
(*                                                                         *)
(* A listing that reports an error is a listing like any other.            *)
(***************************************************************************)
EXTENDS Naturals, Sequences, FiniteSets, SequencesExt

CONSTANTS
  Keys,       \* distro, product, edition, version and build of a listing
  Workers, Clients,
  Threads,    \* of the API, those that handle a POST
  NoTask, Idle, Nobody,
  Prefetch,   \* how many tasks a worker reserves beyond the one it runs
  MaxTasks    \* the bound on tasks in the system

\* The request of a worker, or of one that was stopped meanwhile.
Posting == [key : Keys, pc : {"delete", "insert"}, from : Workers \cup {Nobody}]

ASSUME PathdiffAssumption ==
  /\ IsFiniteSet(Threads)
  /\ NoTask \notin Keys /\ Idle \notin Posting /\ Nobody \notin Workers

VARIABLES
  rows,       \* the rows of the listings table for each key
  broker,     \* the Redis list of tasks, oldest first
  reserved,   \* the tasks each worker has fetched and not begun
  active,     \* the task each worker runs
  phase,      \* how far that task is
  queue,      \* the API's in-memory view of the queue
  monitor,    \* what monitor_queue asks next
  newqueue,   \* what it has gathered
  client,     \* what each thread that handles a GET is doing
  post,       \* what each thread that handles a POST is doing
  \* history
  met,        \* the most posts of the listing under way at a time since that of the
              \* thread began
  steady      \* the tasks there ever since the poll began, but for those that moved
              \* behind it

tasks == <<broker, reserved, active, phase>>
poll == <<queue, monitor, newqueue>>
posts == <<post, met>>
pathdiffVars == <<rows, tasks, poll, client, posts, steady>>

PathdiffInit ==
  /\ rows = [k \in Keys |-> 0]
  /\ broker = << >>
  /\ reserved = [w \in Workers |-> << >>]
  /\ active = [w \in Workers |-> NoTask]
  /\ phase = [w \in Workers |-> "none"]
  /\ queue = {} /\ monitor = "broker" /\ newqueue = {}
  /\ client = [c \in Clients |-> Idle]
  /\ post = [t \in Threads |-> Idle] /\ met = [t \in Threads |-> 0]
  /\ steady = {}

Active == {active[w] : w \in Workers} \ {NoTask}
Reserved == UNION {ToSet(reserved[w]) : w \in Workers}
Unfinished == ToSet(broker) \cup Reserved \cup Active

TaskCount ==
  Len(broker) + FoldFunction(LAMBDA q, n : Len(q) + n, 0, reserved)
    + Cardinality({w \in Workers : active[w] # NoTask})

-----------------------------------------------------------------------------
\* The API: GET

\* api_listing or api_compare calls get_files with the queue as it is now.
Get(c, k, force) ==
  /\ client[c] = Idle
  /\ client' = [client EXCEPT ![c] = [key |-> k, force |-> force, queue |-> queue, pc |-> "query"]]
  /\ UNCHANGED <<rows, posts, tasks, poll, steady>>

\* get_files: a listing in the database is the answer unless `force`; a task
\* in the queue is answered with 'pending'.
Query(c) ==
  LET r == client[c] IN
  /\ r # Idle /\ r.pc = "query"
  /\ client' = [client EXCEPT ![c] =
                  IF (rows[r.key] > 0 /\ ~r.force) \/ r.key \in r.queue
                    THEN Idle ELSE [r EXCEPT !.pc = "send"]]
  /\ UNCHANGED <<rows, posts, tasks, poll, steady>>

\* celery.send_task
Send(c) ==
  LET r == client[c] IN
  /\ r # Idle /\ r.pc = "send"
  /\ TaskCount < MaxTasks
  /\ broker' = Append(broker, r.key)
  /\ client' = [client EXCEPT ![c] = Idle]
  /\ UNCHANGED <<rows, posts, reserved, active, phase, poll, steady>>

-----------------------------------------------------------------------------
\* The API: the thread that runs monitor_queue

\* (mutated: what the last poll gathered is kept)
PollBrokerKeeps ==
  /\ monitor = "broker"
  /\ newqueue' = newqueue \cup ToSet(broker)
  /\ monitor' = "active"
  /\ steady' = Unfinished
  /\ UNCHANGED <<rows, posts, tasks, queue, client>>

PollBroker ==
  /\ monitor = "broker"
  /\ newqueue' = ToSet(broker)
  /\ monitor' = "active"
  /\ steady' = Unfinished
  /\ UNCHANGED <<rows, posts, tasks, queue, client>>

\* (mutated: the tasks that run are not asked for)
PollActiveNothing ==
  /\ monitor = "active"
  /\ monitor' = "reserved"
  /\ UNCHANGED <<rows, posts, tasks, queue, newqueue, client, steady>>

PollActive ==
  /\ monitor = "active"
  /\ newqueue' = newqueue \cup Active
  /\ monitor' = "reserved"
  /\ UNCHANGED <<rows, posts, tasks, queue, client, steady>>

PollReserved ==
  /\ monitor = "reserved"
  /\ newqueue' = newqueue \cup Reserved
  /\ queue' = newqueue'
  /\ monitor' = "broker"
  /\ UNCHANGED <<rows, posts, tasks, client, steady>>

\* Redis is not reached, or no worker answers the second of two inspections:
\* nothing catches the exception, and the thread is gone.
MonitorDies ==
  /\ monitor # "dead"
  /\ monitor' = "dead"
  /\ UNCHANGED <<rows, posts, tasks, queue, newqueue, client, steady>>

-----------------------------------------------------------------------------
\* Celery and the workers

Reserve(w) ==
  /\ broker # << >> /\ Len(reserved[w]) < Prefetch
  /\ broker' = Tail(broker)
  /\ reserved' = [reserved EXCEPT ![w] = Append(@, Head(broker))]
  /\ UNCHANGED <<rows, posts, active, phase, poll, client, steady>>

\* The task is acknowledged when it begins. The poll misses it between its
\* two inspections.
Begin(w) ==
  /\ active[w] = NoTask /\ reserved[w] # << >>
  /\ active' = [active EXCEPT ![w] = Head(reserved[w])]
  /\ reserved' = [reserved EXCEPT ![w] = Tail(@)]
  /\ phase' = [phase EXCEPT ![w] = "run"]
  /\ steady' = IF monitor = "reserved" THEN steady \ {Head(reserved[w])} ELSE steady
  /\ UNCHANGED <<rows, posts, broker, poll, client>>

EndTask(w) ==
  /\ active' = [active EXCEPT ![w] = NoTask]
  /\ phase' = [phase EXCEPT ![w] = "none"]

\* The posts of a listing that are under way.
Open(k) == {t \in Threads : post[t] # Idle /\ post[t].key = k}

\* The container has ended, with files or with a RuntimeError, and add_listing
\* posts what came of it.
PostListing(w) ==
  LET k == active[w]
      n == Cardinality(Open(k)) + 1
  IN
  /\ phase[w] = "run"
  /\ \E t \in Threads :
       /\ post[t] = Idle
       /\ post' = [post EXCEPT ![t] = [key |-> k, pc |-> "delete", from |-> w]]
       /\ met' = [u \in Threads |-> IF u = t \/ (u \in Open(k) /\ met[u] < n) THEN n ELSE met[u]]
  /\ phase' = [phase EXCEPT ![w] = "post"]
  /\ UNCHANGED <<rows, broker, reserved, active, poll, client, steady>>

\* Any other exception ends the task without a listing.
FailTask(w) ==
  /\ phase[w] = "run"
  /\ EndTask(w)
  /\ steady' = steady \ {active[w]}
  /\ UNCHANGED <<rows, broker, reserved, poll, client, posts>>

\* The worker is stopped, be it while its container runs or while its post is
\* served, which goes on. A task that has begun is gone, one that has not is given
\* out again.
CrashWorker(w) ==
  /\ active[w] # NoTask \/ reserved[w] # << >>
  /\ EndTask(w)
  /\ broker' = broker \o reserved[w]
  /\ reserved' = [reserved EXCEPT ![w] = << >>]
  /\ post' = [t \in Threads |-> IF post[t] # Idle /\ post[t].from = w
                                  THEN [post[t] EXCEPT !.from = Nobody] ELSE post[t]]
  /\ steady' = steady \ ({active[w]} \cup ToSet(reserved[w]))
  /\ UNCHANGED <<rows, poll, client, met>>

-----------------------------------------------------------------------------
\* The API: POST

Serves(t, pc) == post[t] # Idle /\ post[t].pc = pc

\* (mutated: an existing row is not removed)
DeleteRowsNothing(t) ==
  /\ Serves(t, "delete")
  /\ post' = [post EXCEPT ![t].pc = "insert"]
  /\ UNCHANGED <<rows, tasks, poll, client, met, steady>>

\* DELETE, committed on its own
DeleteRows(t) ==
  /\ Serves(t, "delete")
  /\ rows' = [rows EXCEPT ![post[t].key] = 0]
  /\ post' = [post EXCEPT ![t].pc = "insert"]
  /\ UNCHANGED <<tasks, poll, client, met, steady>>

\* The request is answered, and with that the task of the worker that waits ends.
Answered(t) ==
  LET w == post[t].from IN
  /\ post' = [post EXCEPT ![t] = Idle] /\ met' = [met EXCEPT ![t] = 0]
  /\ \/ w = Nobody /\ UNCHANGED <<active, phase, steady>>
     \/ w # Nobody /\ EndTask(w) /\ steady' = steady \ {active[w]}
  /\ UNCHANGED <<broker, reserved, poll, client>>

\* INSERT
InsertRow(t) ==
  /\ Serves(t, "insert")
  /\ rows' = [rows EXCEPT ![post[t].key] = @ + 1]
  /\ Answered(t)

\* The database refuses one of the two, and the worker does not look at the status
\* of the answer.
PostFails(t) ==
  /\ post[t] # Idle
  /\ Answered(t)
  /\ UNCHANGED rows

\* The API stops and starts again with an empty queue. Requests on their way
\* fail, those of the workers with them.
RestartAPI ==
  /\ queue' = {} /\ newqueue' = {} /\ monitor' = "broker" /\ steady' = {}
  /\ client' = [c \in Clients |-> Idle]
  /\ post' = [t \in Threads |-> Idle] /\ met' = [t \in Threads |-> 0]
  /\ active' = [w \in Workers |-> IF phase[w] = "post" THEN NoTask ELSE active[w]]
  /\ phase' = [w \in Workers |-> IF phase[w] = "post" THEN "none" ELSE phase[w]]
  /\ UNCHANGED <<rows, broker, reserved>>

-----------------------------------------------------------------------------

WorkerStep(w) == Begin(w) \/ PostListing(w)
PostStep(t) == DeleteRows(t) \/ InsertRow(t)
MonitorStep == PollBroker \/ PollActive \/ PollReserved
Ask(k) == \E c \in Clients : Get(c, k, FALSE)

Running ==
  \/ \E c \in Clients : Query(c) \/ Send(c) \/ \E k \in Keys, force \in BOOLEAN : Get(c, k, force)
  \/ MonitorStep
  \/ \E w \in Workers : Reserve(w) \/ WorkerStep(w)
  \/ \E t \in Threads : PostStep(t)

Failure ==
  \/ MonitorDies \/ RestartAPI
  \/ \E w \in Workers : FailTask(w) \/ CrashWorker(w)
  \/ \E t \in Threads : PostFails(t)

PathdiffNext == Running \/ Failure

PathdiffSpec == PathdiffInit /\ [][PathdiffNext]_pathdiffVars

\* Every thread goes on, the tasks are given out, and somebody keeps asking
\* for each of the listings.
FairPathdiff ==
  /\ PathdiffSpec
  /\ \A c \in Clients : WF_pathdiffVars(Query(c)) /\ SF_pathdiffVars(Send(c))
  /\ WF_pathdiffVars(MonitorStep)
  /\ WF_pathdiffVars(\E w \in Workers : Reserve(w))
  /\ \A w \in Workers : WF_pathdiffVars(WorkerStep(w))
  /\ \A t \in Threads : WF_pathdiffVars(PostStep(t))
  /\ \A k \in Keys : SF_pathdiffVars(Ask(k))

-----------------------------------------------------------------------------

Request == [key : Keys, force : BOOLEAN, queue : SUBSET Keys, pc : {"query", "send"}]

\* What each variable holds: a worker has a task exactly when it is in a phase
\* of one, and the API's view of the queue has nothing but tasks in it.
PathdiffTypeOK ==
  /\ rows \in [Keys -> Nat]
  /\ broker \in Seq(Keys)
  /\ reserved \in [Workers -> Seq(Keys)]
  /\ active \in [Workers -> Keys \cup {NoTask}]
  /\ phase \in [Workers -> {"none", "run", "post"}]
  /\ \A w \in Workers : active[w] = NoTask <=> phase[w] = "none"
  /\ queue \subseteq Keys /\ newqueue \subseteq Keys
  /\ monitor \in {"broker", "active", "reserved", "dead"}
  /\ client \in [Clients -> Request \cup {Idle}]
  /\ post \in [Threads -> Posting \cup {Idle}] /\ met \in [Threads -> Nat]
  /\ steady \subseteq Keys

\* A post leaves no more rows of its listing than posts of it have been under way
\* at a time since it began, and so one that was alone leaves one row, whatever
\* earlier posts have left and wherever workers, the API or the database fail.
RowsBounded == [][\A t \in Threads : InsertRow(t) => rows'[post[t].key] <= met[t]]_pathdiffVars

\* A listing that somebody keeps asking for is always there again in the end,
\* whatever tasks were lost, as long as the monitor thread lives.
AlwaysListed ==
  (<>[][Running]_pathdiffVars /\ [](monitor # "dead")) => \A k \in Keys : []<>(rows[k] > 0)

\* A poll (monitor_queue) finds every task there was all the time, unless the
\* task began after the active and before the reserved ones were asked for, or
\* a worker that was stopped gave it back meanwhile.
QueueComplete == [][PollReserved => steady \subseteq queue']_pathdiffVars
=============================================================================
