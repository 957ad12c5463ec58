------------------------ MODULE JenkinsMonitorProofs ------------------------
(***************************************************************************)
(* The safety properties of JenkinsMonitor, for any servers, nodes and     *)
(* builds and any period of mails.                                         *)
(***************************************************************************)
EXTENDS JenkinsMonitor, WellFoundedInduction, TLAPS

LEMMA MinTwo ==
  ASSUME NEW a \in Nat, NEW b \in Nat
  PROVE  Min({a, b}) = IF a <= b THEN a ELSE b
BY DEF Min

LEMMA PeriodType == Period \in Nat /\ Period > 0 /\ OldAge \in Nat /\ NServers \in Nat /\ NServers > 0
BY MonitorAssumption

LEMMA CountedType ==
  ASSUME NEW c \in 0..(Period - 1)
  PROVE  Counted(c) = IF c + 1 = Period THEN 0 ELSE c + 1
<1>1. c \in Nat /\ c < Period
  BY PeriodType
<1>2. CASE c + 1 = Period
  BY <1>1, <1>2, PeriodType DEF Counted
<1>3. CASE c + 1 < Period
  BY <1>1, <1>3, PeriodType DEF Counted
<1> QED
  BY <1>1, <1>2, <1>3, PeriodType DEF Counted

LEMMA CountQuietType ==
  ASSUME NEW x, quiet[x] \in 0..Period
  PROVE  CountQuiet(x) = IF quiet[x] = Period THEN Period ELSE quiet[x] + 1
BY PeriodType, MinTwo DEF CountQuiet

LEMMA RowType ==
  /\ NoRow \notin Row /\ NewAlert \in Row /\ NewAlert.checked = 0
  /\ \A r \in Row : r.checked \in 0..(Period - 1) /\ r.age \in 0..(OldAge + 1)
<1>1. NewAlert \in Row
  BY PeriodType DEF NewAlert, Row
<1> QED
  BY <1>1, MonitorAssumption DEF Row, NewAlert

LEMMA AgedType ==
  ASSUME NEW r \in Row
  PROVE  LET e == [r EXCEPT !.age = Min({@ + 1, OldAge + 1})] IN
         e \in Row /\ e.checked = r.checked
<1>1. r.age \in Nat /\ r.age <= OldAge + 1 /\ OldAge + 1 \in Nat
  BY RowType, PeriodType
<1>2. Min({r.age + 1, OldAge + 1}) \in 0..(OldAge + 1)
  BY <1>1, MinTwo
<1>3. PICK a \in 0..(OldAge + 1) : a = Min({r.age + 1, OldAge + 1})
  BY <1>2
<1>4. [r EXCEPT !.age = a] \in Row /\ [r EXCEPT !.age = a].checked = r.checked
  BY DEF Row
<1> QED
  BY <1>3, <1>4

LEMMA CountedRow ==
  ASSUME NEW r \in Row
  PROVE  LET e == [r EXCEPT !.checked = Counted(@)] IN
         e \in Row /\ e.checked = Counted(r.checked)
<1>1. r.checked \in 0..(Period - 1)
  BY RowType
<1>2. Counted(r.checked) \in 0..(Period - 1)
  BY <1>1, CountedType, PeriodType
<1>3. PICK c \in 0..(Period - 1) : c = Counted(r.checked)
  BY <1>2
<1>4. [r EXCEPT !.checked = c] \in Row /\ [r EXCEPT !.checked = c].checked = c
  BY DEF Row
<1> QED
  BY <1>3, <1>4

-----------------------------------------------------------------------------

\* TypeOK by its parts: Jenkins, the database and the run.
JenkinsOK ==
  /\ offline \subseteq Nodes /\ running \subseteq Builds
  /\ elapsed \in [Builds -> 0..MaxElapsed]

RowsOK ==
  /\ slaves \in [Nodes -> Row \cup {NoRow}]
  /\ jobs \in [Builds -> 0..(Period - 1) \cup {NoRow}]
  /\ quiet \in [Nodes \cup Builds -> 0..Period]

RunOK ==
  /\ pc \in {"off", "connect", "nodes", "checkNode", "countNode", "builds", "mailBuild", "raised"}
  /\ server \in 0..NServers /\ (pc = "off" <=> server = 0)
  /\ nodes \subseteq Nodes /\ builds \subseteq Builds
  /\ pc \in {"checkNode", "countNode"} => todo \subseteq nodes
  /\ pc \in {"builds", "mailBuild"} => todo \subseteq builds

HeldOK ==
  /\ pc = "countNode" => at \in Nodes /\ slaves[at] # NoRow
  /\ pc = "mailBuild" => at \in Builds /\ jobs[at] # NoRow

LEMMA TypeParts == TypeOK <=> JenkinsOK /\ RowsOK /\ RunOK /\ HeldOK
BY DEF TypeOK, JenkinsOK, RowsOK, RunOK, HeldOK

LEMMA InitType == Init => TypeOK
<1> SUFFICES ASSUME Init PROVE TypeOK
  OBVIOUS
<1>1. JenkinsOK
  BY MonitorAssumption DEF Init, JenkinsOK
<1>2. RowsOK
  BY PeriodType DEF Init, RowsOK
<1>3. RunOK /\ HeldOK
  BY PeriodType DEF Init, RunOK, HeldOK
<1> QED
  BY <1>1, <1>2, <1>3, TypeParts

\* What the end of a server's checks leads to, whatever ends them.
LEMMA NextServerStep ==
  ASSUME TypeOK, NextServer \/ Off
  PROVE  RunOK' /\ pc' \in {"off", "connect"}
<1>1. server \in Nat /\ server <= NServers
  BY TypeParts, PeriodType DEF RunOK
<1>2. CASE NextServer /\ server < NServers
  BY <1>1, <1>2, PeriodType DEF NextServer, RunOK
<1>3. CASE Off
  BY <1>3, PeriodType DEF Off, RunOK
<1> QED
  BY <1>2, <1>3 DEF NextServer

LEMMA JenkinsTypeStep == ASSUME TypeOK, [Next]_vars PROVE JenkinsOK'
<1>1. JenkinsOK
  BY TypeParts
<1>2. CASE \E n \in Nodes : NodeChanges(n)
  BY <1>1, <1>2 DEF NodeChanges, JenkinsOK, SymDiff
<1>3. CASE \E b \in Builds : BuildStarts(b)
  BY <1>1, <1>3, MonitorAssumption DEF BuildStarts, JenkinsOK
<1>4. CASE \E b \in Builds : BuildEnds(b)
  BY <1>1, <1>4 DEF BuildEnds, JenkinsOK
<1>5. CASE StartRun
  <2>0. Spacing \in Nat /\ MaxElapsed \in Nat
    BY MonitorAssumption
  <2>1. \A k \in 0..MaxElapsed : Min({k + Spacing, MaxElapsed}) \in 0..MaxElapsed
    <3> TAKE k \in 0..MaxElapsed
    <3>1. k + Spacing \in Nat
      BY <2>0
    <3>2. Min({k + Spacing, MaxElapsed}) \in {k + Spacing, MaxElapsed} /\ Min({k + Spacing, MaxElapsed}) <= MaxElapsed
      BY <2>0, <3>1, MinTwo
    <3> QED
      BY <2>0, <3>1, <3>2
  <2>2. PICK E : E = 0..MaxElapsed
    OBVIOUS
  <2>3. /\ \A b \in Builds : elapsed'[b] \in E
        /\ elapsed' = [b \in Builds |-> elapsed'[b]]
        /\ UNCHANGED <<offline, running>>
    BY <1>1, <1>5, <2>1, <2>2 DEF StartRun, JenkinsOK
  <2> QED
    BY <1>1, <2>2, <2>3 DEF JenkinsOK
<1>6. CASE UNCHANGED jenkins
  BY <1>1, <1>6 DEF jenkins, JenkinsOK
<1> QED
  BY <1>2, <1>3, <1>4, <1>5, <1>6
     DEF Next, Working, RunStep, JenkinsStep, Connect, FetchNodes, CountNode, NodesChecked, MailBuild,
         ServerChecked, AddNode, CheckNode, ClearNode, CheckBuild, ClearJob, RequestFails, Stop, NoMaxTime,
         vars

LEMMA RunTypeStep == ASSUME TypeOK, [Next]_vars PROVE RunOK'
<1>1. RunOK
  BY TypeParts
<1>2. CASE StartRun
  BY <1>1, <1>2, PeriodType DEF StartRun, RunOK
<1>3. CASE Connect
  BY <1>1, <1>3, TypeParts DEF Connect, RunOK, JenkinsOK
<1>4. CASE FetchNodes
  BY <1>1, <1>4, TypeParts DEF FetchNodes, RunOK, JenkinsOK
<1>5. CASE RequestFails \/ ServerChecked \/ Stop
  BY <1>5, NextServerStep DEF RequestFails, ServerChecked, Stop
<1>6. CASE CountNode \/ MailBuild \/ NodesChecked \/ \E b \in Builds : NoMaxTime(b)
  BY <1>1, <1>6 DEF CountNode, MailBuild, NodesChecked, NoMaxTime, RunOK, monitor
<1>7. CASE \E n \in Nodes : AddNode(n) \/ CheckNode(n) \/ ClearNode(n)
  BY <1>1, <1>7 DEF AddNode, CheckNode, ClearNode, RunOK, monitor
<1>8. CASE \E b \in Builds : CheckBuild(b) \/ ClearJob(b)
  BY <1>1, <1>8 DEF CheckBuild, ClearJob, RunOK, monitor
<1>9. CASE UNCHANGED <<pc, monitor>>
  BY <1>1, <1>9 DEF RunOK, monitor
<1> QED
  BY <1>2, <1>3, <1>4, <1>5, <1>6, <1>7, <1>8, <1>9
     DEF Next, Working, RunStep, JenkinsStep, NodeChanges, BuildStarts, BuildEnds, vars

\* What a step does to the rows of the nodes: nothing, an hour that passes, one
\* more check that is counted, an alert that is new, or one that is over.
LEMMA SlavesStep ==
  ASSUME TypeOK, [Next]_vars
  PROVE  /\ slaves' \in [Nodes -> Row \cup {NoRow}]
         /\ \/ slaves' = slaves
            \/ /\ StartRun
               /\ \A n \in Nodes : slaves[n] # NoRow <=> slaves'[n] # NoRow
               /\ \A n \in Nodes : slaves[n] # NoRow => slaves'[n].checked = slaves[n].checked
            \/ /\ CountNode /\ at \in Nodes /\ slaves[at] \in Row
               /\ slaves' = [slaves EXCEPT ![at] = slaves'[at]]
               /\ slaves'[at] \in Row /\ slaves'[at].checked = Counted(slaves[at].checked)
            \/ \E n \in Nodes : AddNode(n) /\ slaves' = [slaves EXCEPT ![n] = NewAlert]
            \/ \E n \in Nodes : ClearNode(n) /\ slaves' = [slaves EXCEPT ![n] = NoRow]
<1>1. slaves \in [Nodes -> Row \cup {NoRow}] /\ NoRow \notin Row /\ NewAlert \in Row
  BY TypeParts, RowType DEF RowsOK
<1>2. CASE StartRun
  <2>1. ASSUME NEW n \in Nodes
        PROVE  /\ slaves'[n] \in Row \cup {NoRow} /\ (slaves[n] # NoRow <=> slaves'[n] # NoRow)
               /\ slaves[n] # NoRow => slaves'[n].checked = slaves[n].checked
    <3>1. slaves'[n] = IF slaves[n] = NoRow THEN NoRow
                       ELSE [slaves[n] EXCEPT !.age = Min({@ + 1, OldAge + 1})]
      BY <1>2 DEF StartRun
    <3>2. CASE slaves[n] = NoRow
      BY <3>1, <3>2
    <3>3. CASE slaves[n] # NoRow
      <4>1. slaves[n] \in Row
        BY <1>1, <3>3
      <4> DEFINE e == [slaves[n] EXCEPT !.age = Min({@ + 1, OldAge + 1})]
      <4>2. e \in Row /\ e.checked = slaves[n].checked
        BY <4>1, AgedType
      <4>3. slaves'[n] = e
        BY <3>1, <3>3
      <4> HIDE DEF e
      <4> QED
        BY <1>1, <3>3, <4>2, <4>3
    <3> QED
      BY <3>2, <3>3
  <2>2. slaves' = [n \in Nodes |-> slaves'[n]]
    BY <1>2 DEF StartRun
  <2> QED
    BY <1>2, <2>1, <2>2
<1>3. CASE CountNode
  <2>1. at \in Nodes /\ slaves[at] \in Row
    BY <1>1, <1>3, TypeParts DEF CountNode, HeldOK
  <2> DEFINE e == [slaves[at] EXCEPT !.checked = Counted(@)]
  <2>2. e \in Row /\ e.checked = Counted(slaves[at].checked)
    BY <2>1, CountedRow
  <2>3. slaves' = [slaves EXCEPT ![at] = e]
    BY <1>3 DEF CountNode
  <2> HIDE DEF e
  <2> QED
    BY <1>1, <1>3, <2>1, <2>2, <2>3
<1>4. CASE \E n \in Nodes : AddNode(n)
  BY <1>1, <1>4 DEF AddNode
<1>5. CASE \E n \in Nodes : ClearNode(n)
  BY <1>1, <1>5 DEF ClearNode
<1>6. CASE UNCHANGED slaves
  BY <1>1, <1>6
<1> QED
  BY <1>2, <1>3, <1>4, <1>5, <1>6
     DEF Next, Working, RunStep, JenkinsStep, NodeChanges, BuildStarts, BuildEnds, Connect, FetchNodes,
         NodesChecked, MailBuild, ServerChecked, CheckNode, CheckBuild, ClearJob, RequestFails, Stop,
         NoMaxTime, vars

\* The same of the rows of the builds.
LEMMA JobsStep ==
  ASSUME TypeOK, [Next]_vars
  PROVE  /\ jobs' \in [Builds -> 0..(Period - 1) \cup {NoRow}]
         /\ \/ jobs' = jobs
            \/ \E b \in Builds : CheckBuild(b) /\ jobs' = [jobs EXCEPT ![b] = StuckCount(b)]
            \/ \E b \in Builds : ClearJob(b) /\ jobs' = [jobs EXCEPT ![b] = NoRow]
<1>1. jobs \in [Builds -> 0..(Period - 1) \cup {NoRow}]
  BY TypeParts DEF RowsOK
<1>2. \A b \in Builds : StuckCount(b) \in 0..(Period - 1)
  <2>1. TAKE b \in Builds
  <2>2. CASE jobs[b] = NoRow
    BY <2>2, PeriodType DEF StuckCount
  <2>3. CASE jobs[b] # NoRow
    <3>1. jobs[b] \in 0..(Period - 1)
      BY <1>1, <2>3
    <3> QED
      BY <2>3, <3>1, CountedType, PeriodType DEF StuckCount
  <2> QED
    BY <2>2, <2>3
<1>3. PICK C : C = 0..(Period - 1)
  OBVIOUS
<1>4. CASE \E b \in Builds : CheckBuild(b) /\ jobs' # jobs
  <2>1. PICK b \in Builds : CheckBuild(b) /\ jobs' # jobs
    BY <1>4
  <2>2. jobs' = [jobs EXCEPT ![b] = StuckCount(b)]
    BY <2>1 DEF CheckBuild
  <2> QED
    BY <1>1, <1>2, <1>3, <2>1, <2>2
<1>5. CASE \E b \in Builds : ClearJob(b)
  BY <1>1, <1>3, <1>5 DEF ClearJob
<1>6. CASE UNCHANGED jobs
  BY <1>1, <1>6
<1> QED
  BY <1>4, <1>5, <1>6
     DEF Next, Working, RunStep, JenkinsStep, NodeChanges, BuildStarts, BuildEnds, StartRun, Connect,
         FetchNodes, CountNode, NodesChecked, MailBuild, ServerChecked, AddNode, CheckNode, ClearNode,
         RequestFails, Stop, NoMaxTime, vars

\* What a step does to the counts since the last mail.
LEMMA QuietStep ==
  ASSUME TypeOK, [Next]_vars
  PROVE  /\ quiet' \in [Nodes \cup Builds -> 0..Period]
         /\ \/ quiet' = quiet
            \/ \E n \in Nodes : AddNode(n) /\ quiet' = [quiet EXCEPT ![n] = Period]
            \/ \E n \in Nodes : CheckNode(n) /\ slaves[n].checked = 0 /\ quiet' = [quiet EXCEPT ![n] = 0]
            \/ CountNode /\ at \in Nodes /\ quiet' = [quiet EXCEPT ![at] = CountQuiet(at)]
            \/ \E b \in Builds : /\ CheckBuild(b) /\ jobs' = [jobs EXCEPT ![b] = StuckCount(b)]
                                 /\ quiet' = [quiet EXCEPT ![b] = IF jobs[b] = NoRow THEN Period
                                                                                      ELSE CountQuiet(b)]
            \/ MailBuild /\ at \in Builds /\ quiet' = [quiet EXCEPT ![at] = 0]
<1>1. quiet \in [Nodes \cup Builds -> 0..Period]
  BY TypeParts DEF RowsOK
<1>2. \A x \in Nodes \cup Builds : CountQuiet(x) \in 0..Period
  <2>1. TAKE x \in Nodes \cup Builds
  <2>2. quiet[x] \in 0..Period
    BY <1>1
  <2> QED
    BY <2>2, CountQuietType, PeriodType
<1>3. PICK C : C = 0..Period /\ 0 \in C /\ Period \in C
  BY PeriodType
<1>4. CASE \E n \in Nodes : AddNode(n)
  BY <1>1, <1>3, <1>4 DEF AddNode
<1>5. CASE \E n \in Nodes : CheckNode(n)
  BY <1>1, <1>3, <1>5 DEF CheckNode
<1>6. CASE CountNode
  <2>1. at \in Nodes
    BY <1>6, TypeParts DEF HeldOK, CountNode
  <2> QED
    BY <1>1, <1>2, <1>3, <1>6, <2>1 DEF CountNode
<1>7. CASE \E b \in Builds : CheckBuild(b)
  <2>1. PICK b \in Builds : CheckBuild(b)
    BY <1>7
  <2>2. \/ quiet' = quiet
        \/ /\ jobs' = [jobs EXCEPT ![b] = StuckCount(b)]
           /\ quiet' = [quiet EXCEPT ![b] = IF jobs[b] = NoRow THEN Period ELSE CountQuiet(b)]
    BY <2>1 DEF CheckBuild
  <2> QED
    BY <1>1, <1>2, <1>3, <2>1, <2>2
<1>8. CASE MailBuild
  <2>1. at \in Builds
    BY <1>8, TypeParts DEF HeldOK, MailBuild
  <2> QED
    BY <1>1, <1>3, <1>8, <2>1 DEF MailBuild
<1>9. CASE UNCHANGED quiet
  BY <1>1, <1>9
<1> QED
  BY <1>4, <1>5, <1>6, <1>7, <1>8, <1>9
     DEF Next, Working, RunStep, JenkinsStep, NodeChanges, BuildStarts, BuildEnds, StartRun, Connect,
         FetchNodes, NodesChecked, ServerChecked, ClearNode, ClearJob, RequestFails, Stop, NoMaxTime, vars

LEMMA HeldStep == ASSUME TypeOK, [Next]_vars PROVE HeldOK'
<1>1. HeldOK
  BY TypeParts
<1>2. CASE \E n \in Nodes : CheckNode(n)
  BY <1>1, <1>2 DEF CheckNode, HeldOK
<1>3. CASE \E b \in Builds : CheckBuild(b)
  <2>1. PICK b \in Builds : CheckBuild(b)
    BY <1>3
  <2>2. pc' = "mailBuild" => jobs'[b] = 0 /\ at' = b
    BY <2>1 DEF CheckBuild
  <2>3. pc' # "countNode"
    BY <2>1 DEF CheckBuild
  <2> QED
    BY <2>2, <2>3, MonitorAssumption DEF HeldOK
<1>4. CASE pc' \notin {"countNode", "mailBuild"}
  BY <1>4 DEF HeldOK
<1>5. CASE UNCHANGED <<pc, at, slaves, jobs>>
  BY <1>1, <1>5 DEF HeldOK
<1>6. CASE \E n \in Nodes : AddNode(n) \/ ClearNode(n)
  BY <1>6 DEF AddNode, ClearNode, HeldOK
<1>7. CASE \E b \in Builds : ClearJob(b)
  BY <1>7 DEF ClearJob, HeldOK
<1>8. CASE Stop \/ RequestFails \/ ServerChecked
  BY <1>4, <1>8, NextServerStep DEF Stop, RequestFails, ServerChecked
<1>9. CASE StartRun \/ Connect \/ FetchNodes \/ CountNode \/ NodesChecked \/ MailBuild
  BY <1>4, <1>9 DEF StartRun, Connect, FetchNodes, CountNode, NodesChecked, MailBuild
<1> QED
  BY <1>2, <1>3, <1>4, <1>5, <1>6, <1>7, <1>8, <1>9
     DEF Next, Working, RunStep, JenkinsStep, NodeChanges, BuildStarts, BuildEnds, NoMaxTime, monitor, vars

LEMMA NextType == TypeOK /\ [Next]_vars => TypeOK'
<1> SUFFICES ASSUME TypeOK, [Next]_vars PROVE TypeOK'
  OBVIOUS
<1>1. RowsOK'
  BY SlavesStep, JobsStep, QuietStep DEF RowsOK
<1> QED
  BY <1>1, JenkinsTypeStep, RunTypeStep, HeldStep
     DEF TypeOK, JenkinsOK, RowsOK, RunOK, HeldOK

\* Every variable keeps its type; what a run is about to update or mail about
\* has a row (monitor_jenkins_prog.py).
THEOREM TypeCorrect == Spec => []TypeOK
BY InitType, NextType, PTL DEF Spec

-----------------------------------------------------------------------------

\* The offline nodes of the server that were looked at have rows, and after
\* the check they alone have.
RowsInv ==
  /\ pc \in {"checkNode", "countNode"} => \A n \in nodes \ todo : slaves[n] # NoRow
  /\ RowsCurrent

LEMMA NextRows == TypeOK /\ RowsInv /\ [Next]_vars => RowsInv'
<1> SUFFICES ASSUME TypeOK, RowsInv, [Next]_vars PROVE RowsInv'
  OBVIOUS
<1>1. /\ pc \in {"checkNode", "countNode"} => \A n \in nodes \ todo : slaves[n] # NoRow
      /\ pc \in {"builds", "mailBuild"} => \A n \in NodesOf(server) : slaves[n] # NoRow <=> n \in nodes
  BY DEF RowsInv, RowsCurrent
<1>2. slaves \in [Nodes -> Row \cup {NoRow}] /\ NoRow \notin Row /\ NewAlert \in Row /\ nodes \subseteq Nodes
  BY TypeParts, RowType DEF RowsOK, RunOK
<1>3. CASE \E n \in Nodes : AddNode(n)
  BY <1>1, <1>2, <1>3 DEF AddNode, RowsInv, RowsCurrent
<1>4. CASE \E n \in Nodes : CheckNode(n)
  BY <1>1, <1>2, <1>4 DEF CheckNode, RowsInv, RowsCurrent
<1>5. CASE CountNode
  <2>1. CASE slaves' = slaves
    BY <1>1, <1>5, <2>1 DEF CountNode, RowsInv, RowsCurrent
  <2>2. CASE /\ slaves' = [slaves EXCEPT ![at] = slaves'[at]] /\ at \in Nodes
             /\ slaves'[at] \in Row
    <3>1. PICK r : r = slaves'[at]
      OBVIOUS
    <3>2. \A n \in Nodes : slaves[n] # NoRow => slaves'[n] # NoRow
      BY <1>2, <2>2, <3>1
    <3>3. pc' = "checkNode" /\ pc = "countNode" /\ UNCHANGED <<nodes, todo>>
      BY <1>5 DEF CountNode
    <3> QED
      BY <1>1, <1>2, <3>2, <3>3 DEF RowsInv, RowsCurrent
  <2> QED
    BY <1>5, <2>1, <2>2, SlavesStep DEF CountNode, StartRun, AddNode, ClearNode
<1>6. CASE \E n \in Nodes : ClearNode(n)
  BY <1>1, <1>2, <1>6 DEF ClearNode, StaleRows, monitor, RowsInv, RowsCurrent
<1>7. CASE NodesChecked
  <2>1. \A n \in NodesOf(server) : slaves[n] # NoRow => n \in nodes
    BY <1>7 DEF NodesChecked, StaleRows
  <2> QED
    BY <1>1, <1>7, <2>1 DEF NodesChecked, RowsInv, RowsCurrent
<1>8. CASE FetchNodes
  BY <1>8 DEF FetchNodes, RowsInv, RowsCurrent
<1>9. CASE StartRun \/ Connect \/ \E b \in Builds : NoMaxTime(b)
  BY <1>9 DEF StartRun, Connect, NoMaxTime, RowsInv, RowsCurrent
<1>10. CASE RequestFails \/ ServerChecked \/ Stop
  BY <1>10, NextServerStep DEF RequestFails, ServerChecked, Stop, RowsInv, RowsCurrent
<1>11. CASE \E b \in Builds : CheckBuild(b) \/ ClearJob(b)
  BY <1>1, <1>11 DEF CheckBuild, ClearJob, monitor, RowsInv, RowsCurrent
<1>12. CASE MailBuild
  BY <1>1, <1>12 DEF MailBuild, RowsInv, RowsCurrent
<1>13. CASE UNCHANGED <<pc, monitor, slaves>>
  BY <1>1, <1>13 DEF monitor, RowsInv, RowsCurrent
<1> QED
  BY <1>3, <1>4, <1>5, <1>6, <1>7, <1>8, <1>9, <1>10, <1>11, <1>12, <1>13
     DEF Next, Working, RunStep, JenkinsStep, NodeChanges, BuildStarts, BuildEnds, vars

\* After the check of a server's nodes its rows are those of the nodes that are
\* offline (check_nodes_online, clear_node_alert).
THEOREM RowsCorrect == Spec => []RowsCurrent
<1>1. Init => RowsInv
  BY DEF Init, RowsInv, RowsCurrent
<1>2. RowsInv => RowsCurrent
  BY DEF RowsInv
<1> QED
  BY <1>1, <1>2, NextRows, InitType, NextType, PTL DEF Spec

-----------------------------------------------------------------------------

\* The count of an alert and that of the checks since its last mail go together;
\* the first of them is not counted before the mail.
NodeInv ==
  /\ NodeMailCounted
  /\ pc = "countNode" => quiet[at] = slaves[at].checked

LEMMA NextNode == TypeOK /\ NodeInv /\ [Next]_vars => NodeInv'
<1> SUFFICES ASSUME TypeOK, NodeInv, [Next]_vars PROVE NodeInv'
  OBVIOUS
<1>1. /\ \A n \in Nodes : slaves[n] # NoRow /\ slaves[n].checked # 0 => quiet[n] = slaves[n].checked
      /\ pc = "countNode" => quiet[at] = slaves[at].checked
  BY DEF NodeInv, NodeMailCounted
<1>2. /\ slaves \in [Nodes -> Row \cup {NoRow}] /\ NoRow \notin Row
      /\ quiet \in [Nodes \cup Builds -> 0..Period] /\ Nodes \cap Builds = {}
      /\ NewAlert \in Row /\ NewAlert.checked = 0
      /\ pc = "countNode" => at \in Nodes /\ slaves[at] # NoRow
  BY TypeParts, RowType, MonitorAssumption DEF RowsOK, HeldOK
<1>3. CASE StartRun
  <2>1. pc' # "countNode" /\ UNCHANGED quiet
    BY <1>3 DEF StartRun
  <2>2. \A n \in Nodes : slaves'[n] # NoRow => slaves[n] # NoRow /\ slaves'[n].checked = slaves[n].checked
    BY <1>3, SlavesStep DEF StartRun, CountNode, AddNode, ClearNode
  <2> QED
    BY <1>1, <2>1, <2>2 DEF NodeInv, NodeMailCounted
<1>4. CASE \E n \in Nodes : AddNode(n)
  <2>1. PICK n \in Nodes : AddNode(n)
    BY <1>4
  <2>2. /\ slaves' = [slaves EXCEPT ![n] = NewAlert] /\ quiet' = [quiet EXCEPT ![n] = Period]
        /\ pc' = "checkNode"
    BY <2>1 DEF AddNode
  <2> QED
    BY <1>1, <1>2, <2>2 DEF NodeInv, NodeMailCounted
<1>5. CASE \E n \in Nodes : CheckNode(n)
  <2>1. PICK n \in Nodes : CheckNode(n)
    BY <1>5
  <2>2. /\ slaves' = slaves /\ slaves[n] # NoRow
        /\ IF IsOld(n) THEN pc' = "countNode" /\ at' = n ELSE pc' = "checkNode"
        /\ quiet' = IF slaves[n].checked = 0 /\ IsOld(n) THEN [quiet EXCEPT ![n] = 0] ELSE quiet
    BY <2>1 DEF CheckNode
  <2> QED
    BY <1>1, <1>2, <2>2 DEF NodeInv, NodeMailCounted
<1>6. CASE CountNode
  <2>1. /\ at \in Nodes /\ slaves[at] \in Row /\ quiet[at] = slaves[at].checked /\ pc' = "checkNode"
        /\ quiet' = [quiet EXCEPT ![at] = CountQuiet(at)]
    BY <1>1, <1>2, <1>6 DEF CountNode
  <2>2. slaves[at].checked \in 0..(Period - 1)
    BY <2>1, RowType
  <2>3. /\ Counted(slaves[at].checked) = IF quiet[at] + 1 = Period THEN 0 ELSE quiet[at] + 1
        /\ CountQuiet(at) = quiet[at] + 1
    BY <2>1, <2>2, CountedType, CountQuietType, PeriodType
  <2>4. PICK r : r = [slaves[at] EXCEPT !.checked = Counted(@)]
    OBVIOUS
  <2>5. r.checked = Counted(slaves[at].checked) /\ slaves' = [slaves EXCEPT ![at] = r]
    BY <1>6, <2>1, <2>4, CountedRow DEF CountNode
  <2> QED
    BY <1>1, <1>2, <2>1, <2>3, <2>5 DEF NodeInv, NodeMailCounted
<1>7. CASE \E n \in Nodes : ClearNode(n)
  <2>1. PICK n \in Nodes : ClearNode(n)
    BY <1>7
  <2>2. slaves' = [slaves EXCEPT ![n] = NoRow] /\ UNCHANGED <<pc, quiet>> /\ pc = "checkNode"
    BY <2>1 DEF ClearNode
  <2> QED
    BY <1>1, <1>2, <2>2 DEF NodeInv, NodeMailCounted
<1>8. CASE \E b \in Builds : CheckBuild(b)
  <2>1. PICK b \in Builds : CheckBuild(b)
    BY <1>8
  <2>2. pc' # "countNode" /\ slaves' = slaves
    BY <2>1 DEF CheckBuild
  <2>3. \A n \in Nodes : quiet'[n] = quiet[n]
    <3>1. PICK q : quiet' = quiet \/ quiet' = [quiet EXCEPT ![b] = q]
      BY <2>1 DEF CheckBuild
    <3> QED
      BY <1>2, <3>1
  <2> QED
    BY <1>1, <2>2, <2>3 DEF NodeInv, NodeMailCounted
<1>9. CASE MailBuild
  <2>1. quiet' = [quiet EXCEPT ![at] = 0] /\ slaves' = slaves /\ pc' # "countNode" /\ at \in Builds
    BY <1>9, TypeParts DEF MailBuild, HeldOK
  <2> QED
    BY <1>1, <1>2, <2>1 DEF NodeInv, NodeMailCounted
<1>10. CASE pc' # "countNode" /\ UNCHANGED <<slaves, quiet>>
  BY <1>1, <1>10 DEF NodeInv, NodeMailCounted
<1>11. CASE RequestFails \/ ServerChecked \/ Stop
  BY <1>10, <1>11, NextServerStep DEF RequestFails, ServerChecked, Stop
<1>12. CASE UNCHANGED <<pc, at, slaves, quiet>>
  BY <1>1, <1>12 DEF NodeInv, NodeMailCounted
<1>13. CASE Connect \/ FetchNodes \/ NodesChecked \/ \E b \in Builds : NoMaxTime(b)
  BY <1>10, <1>13 DEF Connect, FetchNodes, NodesChecked, NoMaxTime
<1> QED
  BY <1>3, <1>4, <1>5, <1>6, <1>7, <1>8, <1>9, <1>11, <1>12, <1>13
     DEF Next, Working, RunStep, JenkinsStep, NodeChanges, BuildStarts, BuildEnds, ClearJob, monitor, vars

\* Wherever runs stop, an offline node is mailed about before its checks are
\* counted on, and again after Period checks (check_nodes_online).
THEOREM NodeMailCorrect == Spec => []NodeMailCounted
<1>1. Init => NodeInv
  BY DEF Init, NodeInv, NodeMailCounted
<1>2. NodeInv => NodeMailCounted
  BY DEF NodeInv
<1> QED
  BY <1>1, <1>2, NextNode, InitType, NextType, PTL DEF Spec

-----------------------------------------------------------------------------

\* The checks of a stuck build since its last mail are those its row counts, or
\* a mail is overdue: a run stopped between the row and the mail.
BuildInv ==
  /\ \A b \in Builds : jobs[b] # NoRow => quiet[b] \in {jobs[b], Period}
  /\ pc = "mailBuild" => quiet[at] = Period /\ jobs[at] = 0

LEMMA NextBuild == TypeOK /\ BuildInv /\ [Next]_vars => BuildInv'
<1> SUFFICES ASSUME TypeOK, BuildInv, [Next]_vars PROVE BuildInv'
  OBVIOUS
<1>1. /\ \A b \in Builds : jobs[b] # NoRow => quiet[b] \in {jobs[b], Period}
      /\ pc = "mailBuild" => quiet[at] = Period /\ jobs[at] = 0
  BY DEF BuildInv
<1>2. /\ jobs \in [Builds -> 0..(Period - 1) \cup {NoRow}]
      /\ quiet \in [Nodes \cup Builds -> 0..Period] /\ Nodes \cap Builds = {}
  BY TypeParts, MonitorAssumption DEF RowsOK
<1>3. CASE \E n \in Nodes : AddNode(n) \/ CheckNode(n)
  <2>1. PICK n \in Nodes : AddNode(n) \/ CheckNode(n)
    BY <1>3
  <2>2. pc' # "mailBuild" /\ jobs' = jobs
    BY <2>1 DEF AddNode, CheckNode
  <2>3. PICK q : quiet' = quiet \/ quiet' = [quiet EXCEPT ![n] = q]
    BY <2>1 DEF AddNode, CheckNode
  <2>4. \A b \in Builds : quiet'[b] = quiet[b]
    BY <1>2, <2>3
  <2> QED
    BY <1>1, <2>2, <2>4 DEF BuildInv
<1>4. CASE CountNode
  <2>1. pc' # "mailBuild" /\ jobs' = jobs /\ quiet' = [quiet EXCEPT ![at] = CountQuiet(at)] /\ at \in Nodes
    BY <1>4, TypeParts DEF CountNode, HeldOK
  <2>2. \A b \in Builds : quiet'[b] = quiet[b]
    BY <1>2, <2>1
  <2> QED
    BY <1>1, <2>1, <2>2 DEF BuildInv
<1>5. CASE \E b \in Builds : CheckBuild(b)
  <2>1. PICK b \in Builds : CheckBuild(b)
    BY <1>5
  <2>2. CASE UNCHANGED <<jobs, quiet, pc, at>>
    BY <1>1, <2>2 DEF BuildInv
  <2>3. CASE /\ jobs' = [jobs EXCEPT ![b] = StuckCount(b)]
             /\ quiet' = [quiet EXCEPT ![b] = IF jobs[b] = NoRow THEN Period ELSE CountQuiet(b)]
             /\ pc' = "mailBuild" => at' = b /\ jobs'[b] = 0
    <3>1. PICK q : q = IF jobs[b] = NoRow THEN Period ELSE CountQuiet(b)
      OBVIOUS
    <3>2. PICK k : k = StuckCount(b)
      OBVIOUS
    <3>3. q \in {k, Period} /\ (k = 0 => q = Period)
      <4>1. CASE jobs[b] = NoRow
        BY <3>1, <3>2, <4>1
      <4>2. CASE jobs[b] # NoRow
        <5>1. jobs[b] \in 0..(Period - 1) /\ quiet[b] \in {jobs[b], Period} /\ quiet[b] \in 0..Period
          BY <1>1, <1>2, <4>2
        <5>2. k = IF jobs[b] + 1 = Period THEN 0 ELSE jobs[b] + 1
          BY <3>2, <4>2, <5>1, CountedType DEF StuckCount
        <5>3. q = IF quiet[b] = Period THEN Period ELSE quiet[b] + 1
          BY <3>1, <4>2, <5>1, CountQuietType
        <5> QED
          BY <5>1, <5>2, <5>3, PeriodType
      <4> QED
        BY <4>1, <4>2
    <3>4. jobs'[b] = k /\ quiet'[b] = q /\ \A c \in Builds \ {b} : jobs'[c] = jobs[c] /\ quiet'[c] = quiet[c]
      BY <1>2, <2>3, <3>1, <3>2
    <3> QED
      BY <1>1, <2>3, <3>3, <3>4 DEF BuildInv
  <2>4. elapsed[b] > MaxTime(History[BuildJob[b]]) \/ UNCHANGED <<jobs, quiet, pc, at>>
    BY <2>1 DEF CheckBuild
  <2>5. elapsed[b] > MaxTime(History[BuildJob[b]]) =>
          /\ jobs' = [jobs EXCEPT ![b] = StuckCount(b)]
          /\ quiet' = [quiet EXCEPT ![b] = IF jobs[b] = NoRow THEN Period ELSE CountQuiet(b)]
          /\ pc' = "mailBuild" => at' = b /\ jobs'[b] = 0
    BY <2>1 DEF CheckBuild
  <2> QED
    BY <2>2, <2>3, <2>4, <2>5
<1>6. CASE MailBuild
  <2>1. /\ quiet' = [quiet EXCEPT ![at] = 0] /\ jobs' = jobs /\ pc' # "mailBuild" /\ at \in Builds
    BY <1>6, TypeParts DEF MailBuild, HeldOK
  <2>2. jobs[at] = 0
    BY <1>6 DEF MailBuild, BuildInv
  <2> QED
    BY <1>1, <1>2, <2>1, <2>2 DEF BuildInv
<1>7. CASE \E b \in Builds : ClearJob(b)
  <2>1. PICK b \in Builds : ClearJob(b)
    BY <1>7
  <2>2. jobs' = [jobs EXCEPT ![b] = NoRow] /\ quiet' = quiet /\ pc' # "mailBuild"
    BY <2>1 DEF ClearJob
  <2> QED
    BY <1>1, <1>2, <2>2 DEF BuildInv
<1>8. CASE pc' # "mailBuild" /\ UNCHANGED <<jobs, quiet>>
  BY <1>1, <1>8 DEF BuildInv
<1>9. CASE RequestFails \/ ServerChecked \/ Stop
  BY <1>8, <1>9, NextServerStep DEF RequestFails, ServerChecked, Stop
<1>10. CASE UNCHANGED <<pc, at, jobs, quiet>>
  BY <1>1, <1>10 DEF BuildInv
<1>11. CASE StartRun \/ Connect \/ FetchNodes \/ NodesChecked \/ \E b \in Builds : NoMaxTime(b)
  BY <1>8, <1>11 DEF StartRun, Connect, FetchNodes, NodesChecked, NoMaxTime
<1>12. CASE \E n \in Nodes : ClearNode(n)
  BY <1>10, <1>12 DEF ClearNode, monitor
<1> QED
  BY <1>3, <1>4, <1>5, <1>6, <1>7, <1>9, <1>10, <1>11, <1>12
     DEF Next, Working, RunStep, JenkinsStep, NodeChanges, BuildStarts, BuildEnds, monitor, vars

\* Wherever runs stop, there are never two mails about a stuck build with less
\* than Period checks in between (check_running_builds).
THEOREM BuildMailCorrect == Spec => BuildMailsSpaced
<1>1. Init => BuildInv
  BY DEF Init, BuildInv
<1>2. TypeOK /\ BuildInv /\ [Next]_vars =>
        [\A b \in Builds : quiet[b] # 0 /\ quiet'[b] = 0 => quiet[b] = Period]_vars
  <2> SUFFICES ASSUME TypeOK, BuildInv, [Next]_vars, NEW b \in Builds, quiet[b] # 0, quiet'[b] = 0
               PROVE  quiet[b] = Period
    OBVIOUS
  <2>1. /\ quiet \in [Nodes \cup Builds -> 0..Period] /\ Nodes \cap Builds = {} /\ quiet' # quiet
        /\ Period \in Nat /\ Period > 0
    BY TypeParts, MonitorAssumption DEF RowsOK
  <2>2. \A x : quiet[x] \in 0..Period => CountQuiet(x) # 0
    BY CountQuietType, PeriodType
  <2>3. CASE \E n \in Nodes : \E q : quiet' = [quiet EXCEPT ![n] = q]
    BY <2>1, <2>3
  <2>4. CASE \E c \in Builds : quiet' = [quiet EXCEPT ![c] = IF jobs[c] = NoRow THEN Period ELSE CountQuiet(c)]
    <3>1. PICK c \in Builds : quiet' = [quiet EXCEPT ![c] = IF jobs[c] = NoRow THEN Period ELSE CountQuiet(c)]
      BY <2>4
    <3>2. PICK q : q = IF jobs[c] = NoRow THEN Period ELSE CountQuiet(c)
      OBVIOUS
    <3>3. quiet[c] \in 0..Period
      BY <2>1
    <3>4. q # 0
      BY <2>1, <2>2, <3>2, <3>3
    <3> QED
      BY <2>1, <3>1, <3>2, <3>4
  <2>5. CASE MailBuild /\ at \in Builds /\ quiet' = [quiet EXCEPT ![at] = 0]
    BY <2>1, <2>5 DEF MailBuild, BuildInv
  <2> QED
    BY <2>1, <2>3, <2>4, <2>5, QuietStep
<1> QED
  BY <1>1, <1>2, NextBuild, InitType, NextType, PTL DEF Spec, BuildMailsSpaced

-----------------------------------------------------------------------------
\* The maximum time of a build.

LEMMA Division ==
  ASSUME NEW a \in Nat, NEW d \in Nat, d > 0
  PROVE  a \div d \in Nat /\ a < (a \div d + 1) * d
<1>1. a \div d \in Int
  OBVIOUS
<1>2. a \div d >= 0
  OBVIOUS
<1>3. a < (a \div d + 1) * d
  OBVIOUS
<1> QED
  BY <1>1, <1>2, <1>3

\* Of finitely many numbers there is a largest: otherwise take the shortest
\* list that has none.
LEMMA Largest ==
  ASSUME NEW n \in Nat \ {0}, NEW f \in [1..n -> Nat]
  PROVE  \E i \in 1..n : \A j \in 1..n : f[j] <= f[i]
<1> DEFINE Has(k) == \E i \in 1..k : \A j \in 1..k : f[j] <= f[i]
           Without == {k \in 1..n : ~Has(k)}
<1> SUFFICES ASSUME ~Has(n)
             PROVE  FALSE
  OBVIOUS
<1>1. Without \in SUBSET Nat /\ n \in Without
  OBVIOUS
<1>2. PICK k \in Without : \A m \in Without : <<m, k>> \notin OpToRel(<, Nat)
  BY <1>1, NatLessThanWellFounded, WFMin
<1>3. ~Has(k)
  BY <1>2
<1>4. k \in Nat /\ 1 <= k /\ k <= n /\ k # 1
  <2>1. Has(1)
    OBVIOUS
  <2>2. k \in 1..n
    BY <1>2
  <2> HIDE DEF Has
  <2>3. k # 1
    BY <1>3, <2>1
  <2> QED
    BY <2>2, <2>3
<1>5. k - 1 \in 1..n /\ k - 1 \in Nat /\ k - 1 < k
  BY <1>4
<1>6. Has(k - 1)
  <2>1. <<k - 1, k>> \in OpToRel(<, Nat)
    BY <1>4, <1>5 DEF OpToRel
  <2> QED
    BY <1>2, <1>5, <2>1
<1>7. PICK i \in 1..(k - 1) : \A j \in 1..(k - 1) : f[j] <= f[i]
  BY <1>6
<1> HIDE DEF Without
<1>8. i \in 1..k /\ k \in 1..k /\ f[i] \in Nat /\ f[k] \in Nat
  BY <1>4, <1>7
<1>9. ASSUME NEW j \in 1..k
      PROVE  f[j] \in Nat /\ (f[j] <= f[i] \/ j = k)
  <2>1. j \in 1..n
    BY <1>4
  <2>2. j # k => j \in 1..(k - 1)
    BY <1>4
  <2> QED
    BY <1>7, <2>1, <2>2
<1>10. f[k] <= f[i] \/ f[i] <= f[k]
  <2>1. \A a, b \in Nat : a <= b \/ b <= a
    OBVIOUS
  <2> QED
    BY <1>8, <2>1
<1>11. CASE f[k] <= f[i]
  <2>1. \A j \in 1..k : f[j] <= f[i]
    BY <1>9, <1>11
  <2> QED
    BY <1>3, <1>8, <2>1
<1>12. CASE f[i] <= f[k]
  <2>1. ASSUME NEW j \in 1..k
        PROVE  f[j] <= f[k]
    <3>1. \A a, b, c \in Nat : a <= b /\ b <= c => a <= c
      OBVIOUS
    <3>2. f[j] \in Nat /\ (f[j] <= f[i] \/ j = k)
      BY <1>9, <2>1
    <3>3. CASE f[j] <= f[i]
      BY <1>8, <1>12, <3>1, <3>2, <3>3
    <3>4. CASE j = k
      <4>1. \A a \in Nat : a <= a
        OBVIOUS
      <4>2. f[k] <= f[k]
        BY <1>8, <4>1
      <4> QED
        BY <3>4, <4>2, Zenon
    <3> QED
      BY <3>2, <3>3, <3>4
  <2> QED
    BY <1>3, <1>8, <2>1
<1> QED
  BY <1>10, <1>11, <1>12

LEMMA LargestOf ==
  ASSUME NEW n \in Nat \ {0}, NEW f \in [1..n -> Nat]
  PROVE  /\ Max({f[i] : i \in 1..n}) \in Nat
         /\ \A i \in 1..n : f[i] <= Max({f[j] : j \in 1..n})
<1> DEFINE S == {f[i] : i \in 1..n}
<1>1. \E x \in S : \A y \in S : x >= y
  <2>1. PICK i \in 1..n : \A j \in 1..n : f[j] <= f[i]
    BY Largest
  <2>2. f[i] \in S /\ \A y \in S : f[i] >= y
    BY <2>1
  <2> QED
    BY <2>2
<1>2. Max(S) \in S /\ \A y \in S : Max(S) >= y
  BY <1>1, Zenon DEF Max
<1> QED
  BY <1>2

LEMMA MaxTwo ==
  ASSUME NEW a \in Nat, NEW b \in Nat
  PROVE  Max({a, b}) \in Nat /\ Max({a, b}) >= a /\ Max({a, b}) >= b
BY DEF Max

\* The maximum is beyond every build of the history by two deviations, and
\* what rounding takes from the largest is less than what is added for it.
LEMMA MaxTimeBound ==
  ASSUME NEW j \in Jobs, HasMaxTime(History[j])
  PROVE  LET h == History[j] IN
         /\ MaxTime(h) \in Nat /\ MaxTime(h) >= MinTime
         /\ \A i \in DOMAIN h : h[i] \in Nat /\ MaxTime(h) >= h[i] + 2 * StdDev(h)
<1> DEFINE h == History[j]
           n == Len(h)
           mean == Mean(h)
           dev == StdDev(h)
           f == [i \in 1..n |-> Abs(h[i] - mean) \div dev + 1]
           most == Max({f[i] : i \in 1..n})
<1>1. h \in Seq(Nat) /\ n \in Nat \ {0} /\ DOMAIN h = 1..n /\ \A i \in 1..n : h[i] \in Nat
  <2>1. h \in Seq(Nat \ {0})
    BY MonitorAssumption
  <2>2. n > 1
    BY DEF HasMaxTime
  <2> QED
    BY <2>1, <2>2
<1>2. mean \in Nat /\ dev \in Nat /\ dev > 0 /\ MinTime \in Nat
  BY StatisticsAssumption, MonitorAssumption DEF HasMaxTime
<1>3. MaxTime(h) = Max({mean + (most + 2) * dev, MinTime})
  <2>1. {f[i] : i \in 1..n} = {Abs(h[i] - mean) \div dev + 1 : i \in DOMAIN h}
    BY <1>1
  <2> QED
    BY <2>1 DEF MaxTime
<1> HIDE DEF h, n, mean, dev
<1>4. \A i \in 1..n : Abs(h[i] - mean) \in Nat /\ h[i] <= mean + Abs(h[i] - mean)
  BY <1>1, <1>2 DEF Abs
<1>5. \A i \in 1..n : f[i] \in Nat /\ Abs(h[i] - mean) < f[i] * dev
  BY <1>2, <1>4, Division
<1>6. f \in [1..n -> Nat]
  BY <1>5
<1> HIDE DEF f
<1>7. most \in Nat /\ \A i \in 1..n : f[i] <= most
  BY <1>1, <1>6, LargestOf
<1> HIDE DEF most
<1>8. ASSUME NEW i \in 1..n
      PROVE  h[i] + 2 * dev <= mean + (most + 2) * dev
  <2>1. f[i] \in Nat /\ f[i] <= most
    BY <1>5, <1>7
  <2>2. f[i] * dev <= most * dev
    BY <1>2, <1>7, <2>1
  <2>3. (most + 2) * dev = most * dev + 2 * dev
    BY <1>2, <1>7
  <2>4. f[i] * dev \in Nat /\ most * dev \in Nat
    BY <1>2, <1>7, <2>1
  <2>5. h[i] \in Nat /\ Abs(h[i] - mean) \in Nat /\ h[i] <= mean + Abs(h[i] - mean)
    BY <1>1, <1>4
  <2>6. Abs(h[i] - mean) < f[i] * dev
    BY <1>5
  <2> HIDE DEF dev
  <2>7. h[i] <= mean + most * dev
    BY <1>2, <2>2, <2>4, <2>5, <2>6
  <2> QED
    BY <1>2, <2>3, <2>4, <2>5, <2>7
<1>9. mean + (most + 2) * dev \in Nat
  BY <1>2, <1>7
<1>10. /\ MaxTime(h) \in Nat /\ MaxTime(h) >= MinTime
       /\ MaxTime(h) >= mean + (most + 2) * dev
  BY <1>2, <1>3, <1>9, MaxTwo
<1>11. ASSUME NEW i \in 1..n
       PROVE  MaxTime(h) >= h[i] + 2 * dev
  <2>1. h[i] + 2 * dev \in Nat
    BY <1>1, <1>2
  <2> QED
    BY <1>8, <1>9, <1>10, <2>1
<1> QED
  BY <1>1, <1>10, <1>11 DEF h, n, dev

\* A row is there only for a build that has been running for too long.
StuckInv ==
  \A b \in Builds :
    jobs[b] # NoRow =>
      HasMaxTime(History[BuildJob[b]]) /\ elapsed[b] > MaxTime(History[BuildJob[b]])

LEMMA StuckIs == ASSUME TypeOK, StuckInv PROVE StuckIsLonger
<1> SUFFICES ASSUME NEW b \in Builds, jobs[b] # NoRow
             PROVE  LET h == History[BuildJob[b]] IN
                    /\ elapsed[b] > MinTime
                    /\ \A i \in DOMAIN h : elapsed[b] > h[i] + 2 * StdDev(h)
  BY DEF StuckIsLonger
<1> DEFINE h == History[BuildJob[b]]
<1>1. BuildJob[b] \in Jobs
  BY MonitorAssumption
<1>2. HasMaxTime(h) /\ elapsed[b] > MaxTime(h) /\ elapsed[b] \in Nat
  BY DEF StuckInv, TypeOK
<1>3. /\ MaxTime(h) \in Nat /\ MaxTime(h) >= MinTime
      /\ \A i \in DOMAIN h : h[i] \in Nat /\ MaxTime(h) >= h[i] + 2 * StdDev(h)
  BY <1>1, <1>2, MaxTimeBound
<1>4. StdDev(h) \in Nat /\ MinTime \in Nat
  BY <1>1, <1>2, StatisticsAssumption, MonitorAssumption
<1> HIDE DEF h
<1>5. ASSUME NEW i \in DOMAIN h
      PROVE  elapsed[b] > h[i] + 2 * StdDev(h)
  <2>1. h[i] + 2 * StdDev(h) \in Nat /\ MaxTime(h) >= h[i] + 2 * StdDev(h)
    BY <1>3, <1>4
  <2> QED
    BY <1>2, <1>3, <2>1
<1> QED
  BY <1>2, <1>3, <1>4, <1>5 DEF h

LEMMA ElapsedGrows ==
  ASSUME TypeOK, [Next]_vars, NEW b \in Builds
  PROVE  elapsed[b] \in Nat /\ elapsed'[b] \in Nat /\ elapsed'[b] >= elapsed[b]
<1>1. elapsed \in [Builds -> 0..MaxElapsed] /\ elapsed' \in [Builds -> 0..MaxElapsed]
  BY JenkinsTypeStep, TypeParts DEF JenkinsOK
<1>2. elapsed[b] \in Nat /\ elapsed[b] <= MaxElapsed /\ elapsed'[b] \in Nat
  BY <1>1, MonitorAssumption
<1>3. CASE \E c \in Builds : BuildStarts(c)
  BY <1>1, <1>2, <1>3 DEF BuildStarts
<1>4. CASE StartRun
  <2>1. Spacing \in Nat /\ MaxElapsed \in Nat
    BY MonitorAssumption
  <2>2. elapsed'[b] = IF b \in running THEN Min({elapsed[b] + Spacing, MaxElapsed}) ELSE elapsed[b]
    BY <1>4 DEF StartRun
  <2>3. Min({elapsed[b] + Spacing, MaxElapsed}) \in {elapsed[b] + Spacing, MaxElapsed}
    BY <1>2, <2>1, MinTwo
  <2> QED
    BY <1>2, <2>1, <2>2, <2>3
<1>5. CASE UNCHANGED elapsed
  BY <1>2, <1>5
<1> QED
  BY <1>3, <1>4, <1>5
     DEF Next, Working, RunStep, JenkinsStep, NodeChanges, BuildEnds, Connect, FetchNodes, CountNode,
         NodesChecked, MailBuild, ServerChecked, AddNode, CheckNode, ClearNode, CheckBuild, ClearJob,
         RequestFails, Stop, NoMaxTime, jenkins, vars

LEMMA NextStuck == TypeOK /\ StuckInv /\ [Next]_vars => StuckInv'
<1> SUFFICES ASSUME TypeOK, StuckInv, [Next]_vars, NEW b \in Builds, jobs'[b] # NoRow
             PROVE  HasMaxTime(History[BuildJob[b]]) /\ elapsed'[b] > MaxTime(History[BuildJob[b]])
  BY DEF StuckInv
<1> DEFINE h == History[BuildJob[b]]
<1>1. BuildJob[b] \in Jobs
  BY MonitorAssumption
<1>2. HasMaxTime(h) /\ elapsed[b] > MaxTime(h)
  <2>1. CASE jobs[b] # NoRow
    BY <2>1 DEF StuckInv
  <2>2. CASE jobs[b] = NoRow
    <3>1. jobs \in [Builds -> 0..(Period - 1) \cup {NoRow}]
      BY TypeParts DEF RowsOK
    <3>2. CheckBuild(b) /\ jobs' # jobs
      BY <2>2, <3>1, JobsStep
    <3> QED
      BY <3>2 DEF CheckBuild
  <2> QED
    BY <2>1, <2>2
<1>3. MaxTime(h) \in Nat
  BY <1>1, <1>2, MaxTimeBound
<1> HIDE DEF h
<1>4. elapsed'[b] > MaxTime(h)
  BY <1>2, <1>3, ElapsedGrows
<1> QED
  BY <1>2, <1>4 DEF h

\* A build that is remembered as stuck has been running for longer than the
\* least time and, by more than two standard deviations, for longer than every
\* build of its history (get_max_time).
THEOREM StuckCorrect == Spec => []StuckIsLonger
<1>1. Init => StuckInv
  BY DEF Init, StuckInv
<1>2. TypeOK /\ StuckInv => StuckIsLonger
  BY StuckIs
<1> QED
  BY <1>1, <1>2, NextStuck, InitType, NextType, PTL DEF Spec
=============================================================================
