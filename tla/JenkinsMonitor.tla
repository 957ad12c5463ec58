--------------------------- MODULE JenkinsMonitor ---------------------------
(***************************************************************************)
(* The Jenkins monitor, jenkins_monitor/scripts/monitor_jenkins_prog.py.   *)
(* Each run takes the configured servers in turn, and for each of them     *)
(* mails about the nodes that are offline and the builds that take longer  *)
(* than their history explains.  A SQLite database remembers, from run to  *)
(* run, since when there is an alert and how often it was checked: there   *)
(* is a mail for every Period checks.                                      *)
(*                                                                         *)
(* Time passes between two runs, which are three minutes apart; what       *)
(* Jenkins is asked for is asked for once per run.                         *)
(***************************************************************************)
EXTENDS Integers, Sequences, FiniteSetsExt

CONSTANTS
  NServers,          \* servers are numbered in the order of the configuration
  Nodes, NodeServer,
  Builds, BuildServer, BuildJob,
  Jobs, History,     \* the durations of the past builds of a job
  MinTime,           \* 300 seconds, the least time a build may take
  Spacing,           \* 180 seconds, the time between two runs
  MaxElapsed,        \* the bound on how long a build has been running
  Period,            \* 20, an hour of runs
  OldAge,            \* the runs after which off_time > 300
  NoRow

Servers == 1..NServers

Row == [age : 0..(OldAge + 1), checked : 0..(Period - 1)]

ASSUME MonitorAssumption ==
  /\ NServers \in Nat \ {0} /\ Period \in Nat \ {0} /\ OldAge \in Nat
  /\ MinTime \in Nat /\ Spacing \in Nat \ {0} /\ MaxElapsed \in Nat \ {0}
  /\ NodeServer \in [Nodes -> Servers]
  /\ BuildServer \in [Builds -> Servers] /\ BuildJob \in [Builds -> Jobs]
  /\ History \in [Jobs -> Seq(Nat \ {0})]
  /\ Nodes \cap Builds = {}
  /\ NoRow \notin Row /\ NoRow \notin Nat

NodesOf(s) == {n \in Nodes : NodeServer[n] = s}
BuildsOf(s) == {b \in Builds : BuildServer[b] = s}

VARIABLES
  \* Jenkins
  offline,   \* the nodes that are offline
  running,   \* the builds that are running
  elapsed,   \* for how long
  \* the database
  slaves,    \* slaves[n]: the age of the alert and how often it was checked
  jobs,      \* jobs[b]: how often the stuck build was checked
  \* a run of the monitor
  pc, server, nodes, builds, todo, at,
  \* history
  quiet      \* the checks counted since the last mail about a node or build

jenkins == <<offline, running, elapsed>>
monitor == <<server, nodes, builds, todo, at>>
vars == <<jenkins, slaves, jobs, pc, monitor, quiet>>

Init ==
  /\ offline = {} /\ running = {}
  /\ elapsed = [b \in Builds |-> 0]
  /\ slaves = [n \in Nodes |-> NoRow]
  /\ jobs = [b \in Builds |-> NoRow]
  /\ pc = "off" /\ server = 0
  /\ nodes = {} /\ builds = {} /\ todo = {} /\ at = NoRow
  /\ quiet = [x \in Nodes \cup Builds |-> Period]

-----------------------------------------------------------------------------
\* get_max_time

Total(h) == MapThenSumSet(LAMBDA i : h[i], DOMAIN h)
Squares(h) == MapThenSumSet(LAMBDA i : h[i] * h[i], DOMAIN h)

Mean(h) == Total(h) \div Len(h)

\* int(statistics.stdev(times)): the root, rounded down, of the sum of the
\* squared deviations over Len(h) - 1.
StdDev(h) ==
  LET n == Len(h)
      variance == (n * Squares(h) - Total(h) * Total(h)) \div (n * (n - 1))
  IN CHOOSE d \in 0..variance : d * d <= variance /\ variance < (d + 1) * (d + 1)

\* statistics raises on fewer than two values, and the division by std_dev on
\* values that are too close to each other.
HasMaxTime(h) == Len(h) > 1 /\ StdDev(h) > 0

\* What the statistics module returns are numbers.
ASSUME StatisticsAssumption ==
  \A j \in Jobs : HasMaxTime(History[j]) => Mean(History[j]) \in Nat /\ StdDev(History[j]) \in Nat

Abs(i) == IF i < 0 THEN -i ELSE i

\* (mutated: the longest build but for its rounding is the limit)
MaxTimeLargest(h) ==
  LET mean == Mean(h)
      dev  == StdDev(h)
      maxDeviation == Max({Abs(h[i] - mean) \div dev + 1 : i \in DOMAIN h})
  IN Max({mean + maxDeviation * dev, MinTime})

MaxTime(h) ==
  LET mean == Mean(h)
      dev  == StdDev(h)
      maxDeviation == Max({Abs(h[i] - mean) \div dev + 1 : i \in DOMAIN h})
  IN Max({mean + (maxDeviation + 2) * dev, MinTime})

-----------------------------------------------------------------------------
\* Jenkins, between two runs

NodeChanges(n) ==
  /\ pc = "off"
  /\ offline' = SymDiff(offline, {n})
  /\ UNCHANGED <<running, elapsed, slaves, jobs, pc, monitor, quiet>>

\* A build number is never used again.
BuildStarts(b) ==
  /\ pc = "off" /\ elapsed[b] = 0
  /\ running' = running \cup {b}
  /\ elapsed' = [elapsed EXCEPT ![b] = 1]
  /\ UNCHANGED <<offline, slaves, jobs, pc, monitor, quiet>>

BuildEnds(b) ==
  /\ pc = "off" /\ b \in running
  /\ running' = running \ {b}
  /\ UNCHANGED <<offline, elapsed, slaves, jobs, pc, monitor, quiet>>

-----------------------------------------------------------------------------
\* A run of the monitor

Off ==
  /\ pc' = "off" /\ server' = 0
  /\ nodes' = {} /\ builds' = {} /\ todo' = {} /\ at' = NoRow

\* On to the next server, whether this one was monitored or a RuntimeError
\* was mailed.
NextServer ==
  IF server < NServers
    THEN /\ pc' = "connect" /\ server' = server + 1
         /\ nodes' = {} /\ builds' = {} /\ todo' = {} /\ at' = NoRow
    ELSE Off

\* Three minutes later. Ages count to one more than OldAge, when they are old.
StartRun ==
  /\ pc = "off"
  /\ pc' = "connect" /\ server' = 1
  /\ slaves' = [n \in Nodes |-> IF slaves[n] = NoRow THEN NoRow
                                ELSE [slaves[n] EXCEPT !.age = Min({@ + 1, OldAge + 1})]]
  /\ elapsed' = [b \in Builds |-> IF b \in running THEN Min({elapsed[b] + Spacing, MaxElapsed})
                                  ELSE elapsed[b]]
  /\ UNCHANGED <<offline, running, jobs, nodes, builds, todo, at, quiet>>

\* JenkinsMonitor.__init__: the builds of the server.
Connect ==
  /\ pc = "connect"
  /\ builds' = running \cap BuildsOf(server)
  /\ pc' = "nodes"
  /\ UNCHANGED <<jenkins, slaves, jobs, server, nodes, todo, at, quiet>>

\* Jenkins does not answer, or not in JSON: a RuntimeError.
RequestFails ==
  /\ pc \in {"connect", "nodes"}
  /\ NextServer
  /\ UNCHANGED <<jenkins, slaves, jobs, quiet>>

\* (mutated: with no node offline the check is over at once)
FetchNodesReturns ==
  /\ pc = "nodes"
  /\ nodes' = offline \cap NodesOf(server)
  /\ IF nodes' = {} THEN pc' = "builds" /\ todo' = builds
                    ELSE pc' = "checkNode" /\ todo' = nodes'
  /\ UNCHANGED <<jenkins, slaves, jobs, server, builds, at, quiet>>

\* check_nodes_online, its request.
FetchNodes ==
  /\ pc = "nodes"
  /\ nodes' = offline \cap NodesOf(server)
  /\ pc' = "checkNode" /\ todo' = nodes'
  /\ UNCHANGED <<jenkins, slaves, jobs, server, builds, at, quiet>>

\* (mutated: this check counts)
NewAlertChecked == [age |-> 0, checked |-> 1]

NewAlert == [age |-> 0, checked |-> 0]

AddNode(n) ==
  /\ pc = "checkNode" /\ n \in todo /\ slaves[n] = NoRow
  /\ slaves' = [slaves EXCEPT ![n] = NewAlert]
  /\ quiet' = [quiet EXCEPT ![n] = Period]
  /\ todo' = todo \ {n}
  /\ UNCHANGED <<jenkins, jobs, pc, server, nodes, builds, at>>

\* off_time > 300
IsOld(n) == slaves[n].age > OldAge

\* The loop body of check_nodes_online, up to the update of the row. `checked`
\* is kept modulo Period. A mail that is refused counts as sent.
CheckNode(n) ==
  /\ pc = "checkNode" /\ n \in todo /\ slaves[n] # NoRow
  /\ IF slaves[n].checked = 0 /\ IsOld(n)
       THEN quiet' = [quiet EXCEPT ![n] = 0] ELSE UNCHANGED quiet
  /\ IF IsOld(n) THEN pc' = "countNode" /\ at' = n ELSE UNCHANGED <<pc, at>>
  /\ todo' = todo \ {n}
  /\ UNCHANGED <<jenkins, slaves, jobs, server, nodes, builds>>

Counted(checked) == (checked + 1) % Period

CountQuiet(x) == Min({quiet[x] + 1, Period})

\* update_node_alert
CountNode ==
  /\ pc = "countNode"
  /\ slaves' = [slaves EXCEPT ![at].checked = Counted(@)]
  /\ quiet' = [quiet EXCEPT ![at] = CountQuiet(at)]
  /\ pc' = "checkNode" /\ at' = NoRow
  /\ UNCHANGED <<jenkins, jobs, server, nodes, builds, todo>>

\* (mutated: all rows of the server are)
StaleRowsAll == {n \in NodesOf(server) : slaves[n] # NoRow}

\* The rows clear_node_alert deletes.
StaleRows == {n \in NodesOf(server) \ nodes : slaves[n] # NoRow}

\* One iteration of clear_node_alert, a transaction of its own.
ClearNode(n) ==
  /\ pc = "checkNode" /\ todo = {} /\ n \in StaleRows
  /\ slaves' = [slaves EXCEPT ![n] = NoRow]
  /\ UNCHANGED <<jenkins, jobs, pc, monitor, quiet>>

NodesChecked ==
  /\ pc = "checkNode" /\ todo = {} /\ StaleRows = {}
  /\ pc' = "builds" /\ todo' = builds
  /\ UNCHANGED <<jenkins, slaves, jobs, server, nodes, builds, at, quiet>>

\* (mutated: the count of a stuck build stays as it is)
StuckCountSame(b) == IF jobs[b] = NoRow THEN 0 ELSE jobs[b]

StuckCount(b) == IF jobs[b] = NoRow THEN 0 ELSE Counted(jobs[b])

\* The loop body of check_running_builds, up to the mail: the row is added or
\* updated first.
CheckBuild(b) ==
  LET h == History[BuildJob[b]] IN
  /\ pc = "builds" /\ b \in todo /\ HasMaxTime(h)
  /\ todo' = todo \ {b}
  /\ IF elapsed[b] > MaxTime(h)
       THEN /\ jobs' = [jobs EXCEPT ![b] = StuckCount(b)]
            /\ quiet' = [quiet EXCEPT ![b] = IF jobs[b] = NoRow THEN Period ELSE CountQuiet(b)]
            /\ IF jobs'[b] = 0 THEN pc' = "mailBuild" /\ at' = b ELSE UNCHANGED <<pc, at>>
       ELSE UNCHANGED <<jobs, quiet, pc, at>>
  /\ UNCHANGED <<jenkins, slaves, server, nodes, builds>>

MailBuild ==
  /\ pc = "mailBuild"
  /\ quiet' = [quiet EXCEPT ![at] = 0]
  /\ pc' = "builds" /\ at' = NoRow
  /\ UNCHANGED <<jenkins, slaves, jobs, server, nodes, builds, todo>>

\* The history of a running build's job gives no maximum: the exception is not
\* a RuntimeError, and nothing catches it.
NoMaxTime(b) ==
  /\ pc = "builds" /\ b \in todo /\ ~HasMaxTime(History[BuildJob[b]])
  /\ pc' = "raised"
  /\ UNCHANGED <<jenkins, slaves, jobs, monitor, quiet>>

Ended(b) == b \in BuildsOf(server) \ builds /\ jobs[b] # NoRow

\* One iteration of clear_stuck_jobs: the row of a build that ended goes.
ClearJob(b) ==
  /\ pc = "builds" /\ todo = {} /\ Ended(b)
  /\ jobs' = [jobs EXCEPT ![b] = NoRow]
  /\ UNCHANGED <<jenkins, slaves, pc, monitor, quiet>>

ServerChecked ==
  /\ pc = "builds" /\ todo = {} /\ \A b \in Builds : ~Ended(b)
  /\ NextServer
  /\ UNCHANGED <<jenkins, slaves, jobs, quiet>>

\* The uncaught exception ends the run, or it is killed, the mail server cannot
\* be reached, the database is locked.
Stop ==
  /\ pc # "off"
  /\ Off
  /\ UNCHANGED <<jenkins, slaves, jobs, quiet>>

RunStep ==
  \/ StartRun \/ Connect \/ FetchNodes \/ CountNode \/ NodesChecked \/ MailBuild \/ ServerChecked
  \/ \E n \in Nodes : AddNode(n) \/ CheckNode(n) \/ ClearNode(n)
  \/ \E b \in Builds : CheckBuild(b) \/ ClearJob(b)

JenkinsStep ==
  \/ \E n \in Nodes : NodeChanges(n)
  \/ \E b \in Builds : BuildStarts(b) \/ BuildEnds(b)

Working == RunStep \/ JenkinsStep

Next == Working \/ RequestFails \/ Stop \/ \E b \in Builds : NoMaxTime(b)

Spec == Init /\ [][Next]_vars

\* The monitor is run every three minutes, and a run goes on or stops.
FairSpec ==
  /\ Spec
  /\ WF_vars(RunStep \/ \E b \in Builds : NoMaxTime(b))
  /\ WF_vars(pc = "raised" /\ Stop)

-----------------------------------------------------------------------------

\* What each variable holds: a run is at one of the servers, and what it is
\* about to update or mail about has a row.
TypeOK ==
  /\ offline \subseteq Nodes /\ running \subseteq Builds
  /\ elapsed \in [Builds -> 0..MaxElapsed]
  /\ slaves \in [Nodes -> Row \cup {NoRow}]
  /\ jobs \in [Builds -> 0..(Period - 1) \cup {NoRow}]
  /\ pc \in {"off", "connect", "nodes", "checkNode", "countNode", "builds", "mailBuild", "raised"}
  /\ server \in 0..NServers /\ (pc = "off" <=> server = 0)
  /\ nodes \subseteq Nodes /\ builds \subseteq Builds
  /\ pc \in {"checkNode", "countNode"} => todo \subseteq nodes
  /\ pc \in {"builds", "mailBuild"} => todo \subseteq builds
  /\ pc = "countNode" => at \in Nodes /\ slaves[at] # NoRow
  /\ pc = "mailBuild" => at \in Builds /\ jobs[at] # NoRow
  /\ quiet \in [Nodes \cup Builds -> 0..Period]

\* Wherever runs stop, an offline node is mailed about before its checks are
\* counted on: since the first mail of an alert (check_nodes_online) no more
\* than Period checks were counted without another.
NodeMailCounted ==
  \A n \in Nodes : slaves[n] # NoRow /\ slaves[n].checked # 0 => quiet[n] = slaves[n].checked

\* Wherever runs stop, there are never two mails about a stuck build
\* (check_running_builds) with less than Period checks in between.
BuildMailsSpaced ==
  [][\A b \in Builds : quiet[b] # 0 /\ quiet'[b] = 0 => quiet[b] = Period]_vars

\* Whatever is rounded on the way (get_max_time), a build that is remembered as
\* stuck has been running for longer than the least time and, by more than two
\* standard deviations, for longer than every build of its history.
StuckIsLonger ==
  \A b \in Builds :
    jobs[b] # NoRow =>
      LET h == History[BuildJob[b]] IN
      elapsed[b] > MinTime /\ \A i \in DOMAIN h : elapsed[b] > h[i] + 2 * StdDev(h)

\* When check_nodes_online of a server has ended, the rows of that server are
\* those of the nodes it found offline, whatever earlier runs left behind.
RowsCurrent ==
  pc \in {"builds", "mailBuild"} => \A n \in NodesOf(server) : slaves[n] # NoRow <=> n \in nodes

\* A node that stays offline is mailed about again and again, if in the end
\* runs stop failing (main, check_nodes_online).
NodeAlerted ==
  \A n \in Nodes :
    <>[][Working]_vars /\ <>[](n \in offline) => []<>(pc = "countNode" /\ at = n /\ quiet[n] = 0)
=============================================================================
