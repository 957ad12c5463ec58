-------------------------- MODULE AgentHostProofs --------------------------
(***************************************************************************)
(* The properties of AgentHost, for any agents, mounts and number of runs, *)
(* and without a bound on the mounts that are lost.                        *)
(***************************************************************************)
EXTENDS AgentHost, TLAPS

RunState ==
  [pc : {"idle", "poll", "inspect", "remove", "empty", "network", "create", "start"},
   agent : Agents \cup {None}, offline : BOOLEAN, since : SUBSET Executors]

NfsState ==
  [pc : {"off", "mounts", "containers"}, turn : Nat \ {0}, changed : SUBSET Mounts,
   listed : SUBSET Agents, affected : SUBSET Agents, remounted : SUBSET Mounts,
   missed : SUBSET Agents, renewed : SUBSET Agents]

\* TypeOK by its parts: those of the host, the runs, and nfs-remount.
HostOK ==
  /\ container \in [Agents -> Container \cup {None}]
  /\ builds \in [Agents -> SUBSET Executors]
  /\ used \subseteq Agents /\ network \in BOOLEAN /\ mounted \subseteq Mounts
  /\ lock \in BOOLEAN /\ unsure \subseteq Agents /\ absent \subseteq Agents /\ losses \in Nat

RunsOK ==
  /\ run \in [Runs -> RunState]
  /\ \A r \in Runs : run[r].agent = None <=> run[r].pc = "idle"

LEMMA TypeParts == TypeOK <=> HostOK /\ RunsOK /\ nfs \in NfsState
BY DEF TypeOK, HostOK, RunsOK, RunState, NfsState

LEMMA NoneApart == None \notin Container /\ None \notin Agents
BY AgentHostAssumption

LEMMA BindsType == ASSUME NEW a \in Agents PROVE Binds[a] \subseteq Mounts
BY AgentHostAssumption

LEMMA MountType == ASSUME NEW i \in 1..Len(Fstab) PROVE Fstab[i] \in Mounts
BY AgentHostAssumption DEF Mounts

LEMMA FreshType ==
  ASSUME TypeOK, NEW a \in Agents
  PROVE  /\ Fresh(a) \in Container /\ Fresh(a) # None
         /\ Fresh(a).up /\ Fresh(a).stale = Binds[a] \ mounted
         /\ Created(a) \in Container /\ Created(a) # None
         /\ ~Created(a).up /\ Created(a).stale = Binds[a] \ mounted
<1>1. Binds[a] \ mounted \in SUBSET Mounts
  BY BindsType
<1>2. /\ Fresh(a) \in Container /\ Fresh(a).up /\ Fresh(a).stale = Binds[a] \ mounted
  BY <1>1 DEF Fresh, Container
<1>3. Created(a) \in Container /\ ~Created(a).up /\ Created(a).stale = Binds[a] \ mounted
  BY <1>1 DEF Created, Container
<1> QED
  BY <1>2, <1>3, NoneApart

\* What a container is like that was stopped, and what becomes of the others.
LEMMA StoppedType ==
  ASSUME TypeOK, NEW a \in Agents, Stopped(a)
  PROVE  /\ container' \in [Agents -> Container \cup {None}]
         /\ builds' \in [Agents -> SUBSET Executors]
         /\ container[a] # None /\ container'[a] # None
         /\ ~container'[a].up /\ container'[a].stale = container[a].stale /\ builds'[a] = {}
         /\ \A b \in Agents \ {a} : container'[b] = container[b] /\ builds'[b] = builds[b]
<1>1. container[a] \in Container /\ container[a] # None
  BY DEF Stopped, Exists, TypeOK
<1>2. container'[a] = [container[a] EXCEPT !.up = FALSE]
  BY DEF Stopped, TypeOK
<1>3. container'[a] \in Container /\ ~container'[a].up /\ container'[a].stale = container[a].stale
  BY <1>1, <1>2 DEF Container
<1>4. container' = [container EXCEPT ![a] = container'[a]] /\ builds' = [builds EXCEPT ![a] = {}]
  BY <1>2 DEF Stopped, TypeOK
<1> QED
  BY <1>1, <1>3, <1>4, NoneApart DEF TypeOK

\* What a run that dies may do to the container of its agent.
LEMMA DiesCases ==
  ASSUME TypeOK, NEW r \in Runs, NEW a \in Agents, a = run[r].agent, Dies(r)
  PROVE  \/ UNCHANGED <<container, builds>>
         \/ At(r, "remove") /\ Stopped(a)
         \/ ~Exists(a) /\ container' = [container EXCEPT ![a] = Created(a)] /\ UNCHANGED builds
BY DEF Dies

\* What a run may become.
LEMMA GotoType ==
  ASSUME RunsOK, NEW r \in Runs, ~At(r, "idle"), NEW there \in {"remove", "empty", "network", "create", "start"},
         Goto(r, there)
  PROVE  RunsOK'
<1>1. /\ \A o \in Runs \ {r} : run'[o] = run[o]
      /\ run'[r] = [run[r] EXCEPT !.pc = there]
  BY DEF RunsOK, Goto
<1>2. run'[r] \in RunState /\ run'[r].agent = run[r].agent /\ run'[r].pc = there
  BY <1>1 DEF RunsOK, RunState
<1>3. run' \in [Runs -> RunState]
  BY <1>1, <1>2 DEF RunsOK, Goto
<1>4. run[r].agent # None /\ there # "idle"
  BY DEF RunsOK, At
<1> QED
  BY <1>1, <1>2, <1>3, <1>4 DEF RunsOK

LEMMA LeaveType == ASSUME RunsOK, NEW r \in Runs, Leave(r) PROVE RunsOK'
<1>1. NoRun \in RunState /\ NoRun.agent = None /\ NoRun.pc = "idle"
  BY DEF NoRun, RunState
<1> QED
  BY <1>1 DEF RunsOK, Leave

LEMMA InitTypeOK == Init => TypeOK
<1> SUFFICES ASSUME Init PROVE HostOK /\ RunsOK /\ nfs \in NfsState
  BY TypeParts
<1>1. [up |-> TRUE, stale |-> {}] \in Container
  BY DEF Container
<1>2. HostOK
  BY <1>1 DEF Init, HostOK
<1>3. RunsOK
  BY DEF Init, RunsOK, RunState, NoRun
<1>4. nfs \in NfsState
  BY DEF Init, NfsState, NoNfs
<1> QED
  BY <1>2, <1>3, <1>4

LEMMA JenkinsType ==
  ASSUME TypeOK, NEW a \in Agents, NEW e \in Executors, BuildStarts(a, e) \/ BuildEnds(a, e)
  PROVE  TypeOK'
<1>1. CASE BuildStarts(a, e)
  <2>1. HostOK'
    BY <1>1 DEF BuildStarts, history, HostOK, TypeOK
  <2>2. \A r \in Runs : /\ run'[r] \in RunState
                        /\ run'[r].agent = run[r].agent /\ run'[r].pc = run[r].pc
    BY <1>1, TypeParts DEF BuildStarts, RunsOK, RunState
  <2>3. run' \in [Runs -> RunState]
    BY <1>1, <2>2 DEF BuildStarts
  <2>4. RunsOK'
    BY <2>2, <2>3, TypeParts DEF RunsOK
  <2> QED
    BY <1>1, <2>1, <2>4, TypeParts DEF BuildStarts, HostOK, RunsOK, TypeOK, NfsState, RunState
<1>2. CASE BuildEnds(a, e)
  BY <1>2 DEF BuildEnds, history, TypeOK
<1> QED
  BY <1>1, <1>2

LEMMA LoseType ==
  ASSUME TypeOK, NEW m \in Mounts, Lose(m)
  PROVE  TypeOK'
<1>1. \A a \in Agents : container'[a] \in Container \cup {None}
  BY DEF Lose, TypeOK, Exists, Container
<1>2. container' \in [Agents -> Container \cup {None}]
  BY <1>1 DEF Lose
<1> QED
  BY <1>2 DEF Lose, history, TypeOK

LEMMA PollType ==
  ASSUME TypeOK, NEW r \in Runs, NEW a \in Agents, Begin(r, a) \/ Poll(r)
  PROVE  TypeOK'
<1>1. CASE Begin(r, a)
  <2> DEFINE new == [NoRun EXCEPT !.pc = "poll", !.agent = a]
  <2>1. new \in RunState /\ new.agent = a /\ new.pc = "poll" /\ a # None
    BY NoneApart DEF NoRun, RunState
  <2>2. run' = [run EXCEPT ![r] = new]
    BY <1>1 DEF Begin
  <2>3. RunsOK'
    <3> HIDE DEF new
    <3> QED
      BY <2>1, <2>2, TypeParts DEF RunsOK
  <2>4. HostOK' /\ nfs' \in NfsState
    BY <1>1, TypeParts DEF Begin, Apart, agents, HostOK
  <2> QED
    BY <2>3, <2>4, TypeParts DEF TypeOK, HostOK, RunsOK, RunState, NfsState
<1>2. CASE Poll(r)
  <2>1. PICK offline \in BOOLEAN :
          run' = [run EXCEPT ![r].pc = "inspect", ![r].offline = offline, ![r].since = {}]
    BY <1>2 DEF Poll
  <2>2. /\ \A o \in Runs \ {r} : run'[o] = run[o]
        /\ run'[r] \in RunState /\ run'[r].agent = run[r].agent /\ run'[r].pc = "inspect"
    BY <2>1, TypeParts DEF RunsOK, RunState
  <2>3. run' \in [Runs -> RunState]
    BY <2>1, <2>2, TypeParts DEF RunsOK
  <2>4. RunsOK'
    <3>1. run[r].agent # None
      BY <1>2, TypeParts DEF RunsOK, Poll, At
    <3> QED
      BY <2>2, <2>3, <3>1, TypeParts DEF RunsOK
  <2>5. HostOK' /\ nfs' \in NfsState
    BY <1>2, TypeParts DEF Poll, Apart, agents, history, HostOK
  <2> QED
    BY <2>4, <2>5, TypeParts DEF TypeOK, HostOK, RunsOK, RunState, NfsState
<1> QED
  BY <1>1, <1>2

LEMMA AgentType == ASSUME TypeOK, NEW r \in Runs, ~At(r, "idle") PROVE run[r].agent \in Agents
BY TypeParts DEF RunsOK, RunState, At

LEMMA RunType ==
  ASSUME TypeOK, NEW r \in Runs,
         \/ Inspect(r) \/ Remove(r) \/ EmptyDir(r) \/ ListNetworks(r) \/ CreateNetwork(r)
         \/ StartContainer(r) \/ Dies(r)
  PROVE  TypeOK'
<1>1. ~At(r, "idle") /\ run[r].agent \in Agents
  <2>1. ~At(r, "idle")
    BY DEF Inspect, Remove, EmptyDir, ListNetworks, CreateNetwork, StartContainer, Dies, At
  <2> QED
    BY <2>1, AgentType
<1>2. RunsOK'
  <2>1. Goto(r, "remove") \/ Goto(r, "empty") \/ Goto(r, "network") \/ Goto(r, "create")
          \/ Goto(r, "start") \/ Leave(r)
    BY DEF Inspect, Remove, EmptyDir, ListNetworks, CreateNetwork, StartContainer, Dies
  <2> QED
    BY <1>1, <2>1, GotoType, LeaveType, TypeParts
<1>3. container' \in [Agents -> Container \cup {None}]
  <2>1. CASE Inspect(r) \/ EmptyDir(r) \/ ListNetworks(r) \/ CreateNetwork(r)
    BY <2>1 DEF Inspect, EmptyDir, ListNetworks, CreateNetwork, agents, TypeOK
  <2>2. CASE Remove(r)
    BY <2>2 DEF Remove, TypeOK
  <2>3. CASE StartContainer(r)
    BY <1>1, <2>3, FreshType DEF StartContainer, TypeOK
  <2>4. CASE Dies(r)
    BY <1>1, <2>4, DiesCases, FreshType, StoppedType DEF TypeOK
  <2> QED
    BY <2>1, <2>2, <2>3, <2>4
<1>4. builds' \in [Agents -> SUBSET Executors] /\ used' \subseteq Agents
  <2>1. CASE Dies(r)
    <3>1. builds' \in [Agents -> SUBSET Executors]
      BY <1>1, <2>1, DiesCases, StoppedType DEF TypeOK
    <3> QED
      BY <2>1, <3>1 DEF Dies, TypeOK
  <2>2. CASE ~Dies(r)
    BY <2>2 DEF Inspect, Remove, EmptyDir, ListNetworks, CreateNetwork, StartContainer, agents, TypeOK
  <2> QED
    BY <2>1, <2>2
<1>5. unsure' \subseteq Agents /\ absent' \subseteq Agents
  BY <1>1 DEF Inspect, Remove, EmptyDir, ListNetworks, CreateNetwork, StartContainer, Dies, history,
              TypeOK
<1>6. network' \in BOOLEAN /\ UNCHANGED <<mounted, lock, losses>>
  BY DEF Inspect, Remove, EmptyDir, ListNetworks, CreateNetwork, StartContainer, Dies, Apart, TypeOK
<1>7. nfs' \in NfsState
  <2>1. CASE StartContainer(r)
    BY <1>1, <2>1, TypeParts DEF StartContainer, NfsState
  <2>2. CASE UNCHANGED nfs
    BY <2>2, TypeParts
  <2> QED
    BY <2>1, <2>2 DEF Inspect, Remove, EmptyDir, ListNetworks, CreateNetwork, Dies
<1>8. HostOK'
  BY <1>3, <1>4, <1>5, <1>6, TypeParts DEF HostOK
<1> QED
  BY <1>2, <1>7, <1>8, TypeParts DEF TypeOK, HostOK, RunsOK, RunState, NfsState

LEMMA NfsType ==
  ASSUME TypeOK, Lock \/ Check \/ List \/ (\E a \in Agents : Scan(a) \/ Restart(a)) \/ Finish \/ Killed
  PROVE  TypeOK'
<1>1. NoNfs \in NfsState /\ [NoNfs EXCEPT !.pc = "mounts"] \in NfsState
  BY DEF NoNfs, NfsState
<1>2. RunsOK' /\ used' \subseteq Agents /\ network' \in BOOLEAN /\ losses' \in Nat
        /\ unsure' \subseteq Agents /\ absent' \subseteq Agents
  <2>1. UNCHANGED <<run, used, network, losses, unsure>>
    BY DEF Lock, Check, List, Scan, Restart, Finish, Killed, Aside, history
  <2>2. absent' \subseteq Agents
    BY TypeParts DEF Lock, Check, List, Scan, Restart, Finish, Killed, Aside, history, HostOK
  <2> QED
    BY <2>1, <2>2, TypeParts DEF HostOK, RunsOK
<1>3. CASE Lock \/ Finish \/ Killed
  <2>1. nfs' \in NfsState /\ UNCHANGED <<container, builds, mounted>> /\ lock' \in BOOLEAN
    BY <1>1, <1>3 DEF Lock, Finish, Killed, TypeOK
  <2> QED
    BY <1>2, <2>1 DEF TypeOK, RunsOK, RunState, NfsState
<1>4. CASE Check
  <2>0. nfs.turn \in 1..Len(Fstab)
    BY <1>4, TypeParts DEF Check, NfsState
  <2>1. PICK fixed \in {{}, {Fstab[nfs.turn]} \ mounted} :
          /\ mounted' = mounted \cup fixed
          /\ nfs' = [nfs EXCEPT !.turn = nfs.turn + 1, !.changed = fixed,
                                !.remounted = nfs.remounted \cup fixed]
    BY <1>4 DEF Check
  <2>2. nfs' \in NfsState /\ mounted' \subseteq Mounts
    <3>1. fixed \subseteq Mounts
      BY <2>0, MountType
    <3>2. mounted \subseteq Mounts /\ nfs \in NfsState
      BY TypeParts DEF HostOK
    <3>3. nfs.remounted \cup fixed \in SUBSET Mounts
      BY <3>1, <3>2 DEF NfsState
    <3>4. nfs.turn + 1 \in Nat \ {0}
      BY <3>2 DEF NfsState
    <3>5. nfs' \in NfsState
      BY <2>1, <3>1, <3>2, <3>3, <3>4 DEF NfsState
    <3> QED
      BY <2>1, <3>1, <3>2, <3>5
  <2>3. UNCHANGED <<container, builds, lock>>
    BY <1>4 DEF Check
  <2> QED
    BY <1>2, <2>2, <2>3 DEF TypeOK, RunsOK, RunState, NfsState
<1>5. CASE List
  <2>1. PICK seen \in SUBSET Agents, up \in SUBSET Agents :
          nfs' = [nfs EXCEPT !.pc = "containers", !.listed = seen, !.missed = up]
    <3>1. PICK seen \in {{}, {a \in Agents : IsUp(a)}} :
            nfs' = [nfs EXCEPT !.pc = "containers", !.listed = seen,
                               !.missed = {a \in Agents \ seen : IsUp(a)}]
      BY <1>5 DEF List
    <3> QED
      BY <3>1
  <2>2. nfs' \in NfsState
    BY <2>1, TypeParts DEF NfsState
  <2> QED
    BY <1>2, <1>5, <2>2 DEF List, TypeOK, RunsOK, RunState, NfsState
<1>6. ASSUME NEW a \in Agents, Scan(a)
      PROVE  TypeOK'
  <2>1. nfs' \in NfsState
    <3>1. nfs.affected \cup {a} \in SUBSET Agents /\ nfs.missed \cup {a} \in SUBSET Agents
      BY TypeParts DEF NfsState
    <3>2. nfs \in NfsState
      BY TypeParts
    <3>3. CASE nfs' = [nfs EXCEPT !.listed = nfs.listed \ {a}, !.missed = nfs.missed \cup {a}]
      BY <3>1, <3>2, <3>3 DEF NfsState
    <3>4. CASE nfs' = [nfs EXCEPT !.listed = nfs.listed \ {a}, !.affected = nfs.affected \cup {a}]
      BY <3>1, <3>2, <3>4 DEF NfsState
    <3>5. CASE nfs' = [nfs EXCEPT !.listed = nfs.listed \ {a}, !.affected = nfs.affected]
      BY <3>1, <3>2, <3>5 DEF NfsState
    <3> QED
      BY <1>6, <3>3, <3>4, <3>5 DEF Scan
  <2> QED
    BY <1>2, <1>6, <2>1 DEF Scan, TypeOK, RunsOK, RunState, NfsState
<1>7. ASSUME NEW a \in Agents, Restart(a)
      PROVE  TypeOK'
  <2>0. nfs \in NfsState
    BY TypeParts
  <2>1. nfs' \in NfsState
    <3>1. \/ nfs' = [nfs EXCEPT !.affected = nfs.affected \ {a}]
          \/ nfs' = [nfs EXCEPT !.affected = nfs.affected \ {a},
                                !.missed = nfs.missed \cup {a}]
      BY <1>7 DEF Restart
    <3>2. nfs.affected \ {a} \in SUBSET Agents /\ nfs.missed \cup {a} \in SUBSET Agents
      BY <2>0 DEF NfsState
    <3>3. CASE nfs' = [nfs EXCEPT !.affected = nfs.affected \ {a}]
      BY <2>0, <3>2, <3>3 DEF NfsState
    <3>4. CASE nfs' = [nfs EXCEPT !.affected = nfs.affected \ {a},
                                  !.missed = nfs.missed \cup {a}]
      BY <2>0, <3>2, <3>4 DEF NfsState
    <3> QED
      BY <3>1, <3>3, <3>4
  <2>2. container' \in [Agents -> Container \cup {None}]
    <3>1. \/ container' = [container EXCEPT ![a] = Fresh(a)]
          \/ container' = container
          \/ Stopped(a)
      BY <1>7 DEF Restart
    <3> QED
      BY <3>1, FreshType, StoppedType DEF TypeOK
  <2>3. builds' \in [Agents -> SUBSET Executors]
    <3>1. builds' = [builds EXCEPT ![a] = {}] \/ builds' = builds \/ Stopped(a)
      BY <1>7 DEF Restart
    <3> QED
      BY <3>1, StoppedType DEF TypeOK
  <2>4. lock' \in BOOLEAN /\ mounted' \subseteq Mounts
    BY <1>7 DEF Restart, TypeOK
  <2> QED
    BY <1>2, <2>1, <2>2, <2>3, <2>4 DEF TypeOK, RunsOK, RunState, NfsState
<1> QED
  BY <1>3, <1>4, <1>5, <1>6, <1>7

LEMMA NextTypeOK == TypeOK /\ [Next]_vars => TypeOK'
<1> SUFFICES ASSUME TypeOK, [Next]_vars PROVE TypeOK'
  OBVIOUS
<1>1. CASE UNCHANGED vars
  <2>1. HostOK' /\ RunsOK' /\ nfs' \in NfsState
    BY <1>1, TypeParts DEF vars, agents, history, HostOK, RunsOK
  <2> QED
    BY <2>1 DEF TypeOK, HostOK, RunsOK, RunState, NfsState
<1>2. CASE \E a \in Agents, e \in Executors : BuildStarts(a, e) \/ BuildEnds(a, e)
  BY <1>2, JenkinsType
<1>3. CASE \E m \in Mounts : Lose(m)
  BY <1>3, LoseType
<1>4. CASE \E r \in Runs : RunStep(r) \/ \E a \in Agents : Begin(r, a)
  <2>1. PICK r \in Runs : RunStep(r) \/ \E a \in Agents : Begin(r, a)
    BY <1>4
  <2>2. CASE \E a \in Agents : Begin(r, a)
    BY <2>2, PollType
  <2>3. CASE RunStep(r)
    <3>1. CASE Poll(r)
      <4>1. run[r].agent \in Agents
        BY <3>1, AgentType DEF Poll, At
      <4>2. PICK a \in Agents : a = run[r].agent
        BY <4>1
      <4> QED
        BY <3>1, <4>2, PollType
    <3> QED
      BY <2>3, <3>1, RunType DEF RunStep
  <2> QED
    BY <2>1, <2>2, <2>3
<1>5. CASE Lock \/ NfsStep \/ Killed
  BY <1>5, NfsType DEF NfsStep
<1> QED
  BY <1>1, <1>2, <1>3, <1>4, <1>5 DEF Next

\* Every variable keeps its type (restart_jenkinsdocker.py, nfs-remount).
THEOREM TypeCorrect == Spec => []TypeOK
BY InitTypeOK, NextTypeOK, PTL DEF Spec

-----------------------------------------------------------------------------
\* What the container of an agent sees, what builds in it, and what nfs-remount
\* knows of it.

AgentInv(a) ==
  /\ Exists(a) => /\ Binds[a] \ mounted \subseteq container[a].stale
                  /\ container[a].stale \subseteq Binds[a]
  /\ builds[a] # {} => IsUp(a)
  /\ IsUp(a) =>
       /\ nfs.pc = "mounts" \/ a \in nfs.listed =>
            a \in nfs.renewed \/ nfs.changed \cap Binds[a] \subseteq container[a].stale
       /\ a \in nfs.affected => a \in nfs.renewed \/ container[a].stale # {}
       /\ nfs.pc = "containers" =>
            \/ a \in nfs.listed \cup nfs.affected \cup nfs.missed
            \/ container[a].stale \cap nfs.changed \cap mounted = {}

HostInv ==
  /\ nfs.pc # "containers" => nfs.listed = {} /\ nfs.affected = {}
  /\ \A a \in Agents : AgentInv(a)

LEMMA InitHostInv == Init => HostInv
<1> SUFFICES ASSUME Init PROVE HostInv
  OBVIOUS
<1>1. nfs.pc = "off" /\ nfs.listed = {} /\ nfs.affected = {}
  BY DEF Init, NoNfs
<1>2. ASSUME NEW a \in Agents PROVE AgentInv(a)
  <2>1. container[a] = None \/ container[a] = [up |-> TRUE, stale |-> {}]
    <3>1. PICK new \in BOOLEAN :
            container = [b \in Agents |-> IF new THEN None ELSE [up |-> TRUE, stale |-> {}]]
      BY Zenon DEF Init
    <3>2. container[a] = IF new THEN None ELSE [up |-> TRUE, stale |-> {}]
      BY <3>1, Zenon
    <3> QED
      BY <3>2, Zenon
  <2>2. Binds[a] \ mounted = {} /\ builds[a] = {}
    BY BindsType DEF Init
  <2>3. CASE container[a] = None
    BY <2>2, <2>3 DEF AgentInv, IsUp, Exists
  <2>4. CASE container[a] = [up |-> TRUE, stale |-> {}]
    BY <1>1, <2>2, <2>4 DEF AgentInv
  <2> QED
    BY <2>1, <2>3, <2>4
<1> QED
  BY <1>1, <1>2 DEF HostInv

LEMMA KeepsHostInv ==
  ASSUME HostInv, UNCHANGED <<container, builds, mounted, nfs>> PROVE HostInv'
BY DEF HostInv, AgentInv, IsUp, Exists

LEMMA JenkinsHostInv ==
  ASSUME TypeOK, HostInv, NEW a \in Agents, NEW e \in Executors, BuildStarts(a, e) \/ BuildEnds(a, e)
  PROVE  HostInv'
<1>1. UNCHANGED <<container, mounted, nfs>>
  BY DEF BuildStarts, BuildEnds
<1>2. \A b \in Agents : builds'[b] # {} => IsUp(b)
  BY DEF BuildStarts, BuildEnds, TypeOK, HostInv, AgentInv
<1> QED
  BY <1>1, <1>2 DEF HostInv, AgentInv, IsUp, Exists

LEMMA LoseHostInv ==
  ASSUME TypeOK, HostInv, NEW m \in Mounts, Lose(m)
  PROVE  HostInv'
<1>1. UNCHANGED <<builds, nfs>> /\ mounted' = mounted \ {m}
  BY DEF Lose
<1>2. ASSUME NEW a \in Agents PROVE AgentInv(a)'
  <2>1. AgentInv(a)
    BY DEF HostInv
  <2>2. CASE Exists(a) /\ m \in Binds[a]
    <3>1. container'[a] = [container[a] EXCEPT !.stale = @ \cup {m}] /\ container[a] \in Container
      BY <2>2 DEF Lose, TypeOK, Exists
    <3>2. /\ container'[a].up = container[a].up /\ container'[a] # None
          /\ container'[a].stale = container[a].stale \cup {m}
      BY <3>1, NoneApart DEF Container
    <3>3. Exists(a)' /\ (IsUp(a)' <=> IsUp(a))
      BY <2>2, <3>2 DEF IsUp, Exists
    <3> QED
      BY <1>1, <2>1, <2>2, <3>2, <3>3 DEF AgentInv
  <2>3. CASE ~(Exists(a) /\ m \in Binds[a])
    <3>1. container'[a] = container[a]
      BY <2>3 DEF Lose
    <3> QED
      BY <1>1, <2>1, <2>3, <3>1 DEF AgentInv, IsUp, Exists
  <2> QED
    BY <2>2, <2>3
<1> QED
  BY <1>1, <1>2 DEF HostInv

LEMMA RunHostInv ==
  ASSUME TypeOK, HostInv, NEW r \in Runs, RunStep(r)
  PROVE  HostInv'
<1>1. CASE Poll(r) \/ Inspect(r) \/ EmptyDir(r) \/ ListNetworks(r) \/ CreateNetwork(r)
  <2>1. UNCHANGED <<container, builds, mounted, nfs>>
    BY <1>1 DEF Poll, Inspect, EmptyDir, ListNetworks, CreateNetwork, agents, Apart
  <2> QED
    BY <2>1, KeepsHostInv
<1>2. ASSUME Remove(r) \/ StartContainer(r) \/ Dies(r)
      PROVE  HostInv'
  <2>1. PICK a \in Agents : a = run[r].agent
    BY <1>2, AgentType DEF Remove, StartContainer, Dies, At
  <2>2. mounted' = mounted /\ \A b \in Agents \ {a} : container'[b] = container[b] /\ builds'[b] = builds[b]
    <3>1. mounted' = mounted
      BY <1>2 DEF Remove, StartContainer, Dies, Apart
    <3>2. CASE Remove(r) \/ StartContainer(r)
      BY <2>1, <3>1, <3>2 DEF Remove, StartContainer, TypeOK
    <3>3. CASE Dies(r)
      BY <2>1, <3>1, <3>3, DiesCases, StoppedType DEF TypeOK
    <3> QED
      BY <1>2, <3>2, <3>3
  <2>3. /\ nfs'.pc = nfs.pc /\ nfs'.changed = nfs.changed /\ nfs'.listed = nfs.listed
        /\ nfs'.affected = nfs.affected /\ nfs'.missed = nfs.missed
        /\ \A b \in Agents : b \in nfs.renewed => b \in nfs'.renewed
    BY <1>2, TypeParts DEF Remove, StartContainer, Dies, NfsState
  <2>4. ASSUME NEW b \in Agents \ {a} PROVE AgentInv(b)'
    BY <2>2, <2>3 DEF HostInv, AgentInv, IsUp, Exists
  <2>5. AgentInv(a)'
    <3>1. CASE Remove(r)
      <4>1. container'[a] = None /\ builds'[a] = {}
        BY <2>1, <3>1 DEF Remove, TypeOK
      <4> QED
        BY <4>1 DEF AgentInv, IsUp, Exists
    <3>2. CASE StartContainer(r)
      <4>1. container'[a] = Fresh(a) /\ builds'[a] = builds[a] /\ a \in nfs'.renewed
        BY <2>1, <3>2, TypeParts DEF StartContainer, TypeOK, NfsState
      <4>2. /\ container'[a] # None /\ container'[a].up
            /\ container'[a].stale = Binds[a] \ mounted
        BY <4>1, FreshType
      <4> QED
        BY <2>2, <4>1, <4>2 DEF AgentInv, IsUp, Exists
    <3>3. CASE Dies(r)
      <4>1. CASE At(r, "remove") /\ Stopped(a)
        <5>1. /\ container'[a] # None /\ ~container'[a].up /\ builds'[a] = {}
              /\ container'[a].stale = container[a].stale /\ Exists(a)
          BY <4>1, StoppedType DEF Exists
        <5> QED
          BY <2>2, <5>1 DEF HostInv, AgentInv, IsUp
      <4>2. CASE UNCHANGED <<container, builds>>
        BY <2>2, <2>3, <4>2 DEF HostInv, AgentInv, IsUp, Exists
      <4>3. CASE ~Exists(a) /\ container' = [container EXCEPT ![a] = Created(a)] /\ UNCHANGED builds
        <5>1. /\ container'[a] # None /\ ~container'[a].up
              /\ container'[a].stale = Binds[a] \ mounted
          BY <4>3, FreshType DEF TypeOK
        <5>2. builds[a] = {}
          BY <4>3 DEF HostInv, AgentInv, IsUp
        <5> QED
          BY <2>2, <4>3, <5>1, <5>2 DEF AgentInv, IsUp
      <4> QED
        BY <2>1, <3>3, <4>1, <4>2, <4>3, DiesCases
    <3> QED
      BY <1>2, <3>1, <3>2, <3>3
  <2> QED
    BY <2>3, <2>4, <2>5 DEF HostInv
<1> QED
  BY <1>1, <1>2 DEF RunStep

LEMMA NfsHostInv ==
  ASSUME TypeOK, HostInv, NfsStep \/ Lock \/ Killed
  PROVE  HostInv'
<1>1. CASE Lock \/ Finish \/ Killed
  <2>1. UNCHANGED <<container, builds, mounted>>
    BY <1>1 DEF Lock, Finish, Killed
  <2>2. nfs'.pc # "containers" /\ nfs'.changed = {} /\ nfs'.listed = {} /\ nfs'.affected = {}
    BY <1>1 DEF Lock, Finish, Killed, NoNfs
  <2> QED
    BY <2>1, <2>2 DEF HostInv, AgentInv, IsUp, Exists
<1>2. CASE Check
  <2>1. PICK fixed \in {{}, {Fstab[nfs.turn]} \ mounted} :
          /\ mounted' = mounted \cup fixed
          /\ nfs' = [nfs EXCEPT !.turn = nfs.turn + 1, !.changed = fixed,
                                !.remounted = nfs.remounted \cup fixed]
    BY <1>2 DEF Check
  <2>2. /\ nfs.pc = "mounts" /\ nfs'.pc = nfs.pc /\ nfs'.changed = fixed
        /\ nfs'.listed = nfs.listed /\ nfs'.affected = nfs.affected
    BY <1>2, <2>1, TypeParts DEF Check, NfsState
  <2>3. UNCHANGED <<container, builds>> /\ fixed \cap mounted = {}
    BY <1>2 DEF Check
  <2>4. ASSUME NEW a \in Agents PROVE AgentInv(a)'
    <3>1. Exists(a) => fixed \cap Binds[a] \subseteq container[a].stale
      BY <2>3 DEF HostInv, AgentInv
    <3> QED
      BY <2>1, <2>2, <2>3, <3>1 DEF HostInv, AgentInv, IsUp, Exists
  <2> QED
    BY <2>2, <2>4 DEF HostInv
<1>3. CASE List
  <2>0. PICK seen \in {{}, {a \in Agents : IsUp(a)}} :
          nfs' = [nfs EXCEPT !.pc = "containers", !.listed = seen,
                             !.missed = {a \in Agents \ seen : IsUp(a)}]
    BY <1>3 DEF List
  <2>1. /\ nfs.pc = "mounts" /\ nfs'.pc = "containers" /\ nfs'.changed = nfs.changed
        /\ nfs'.listed = seen /\ nfs'.missed = {a \in Agents \ seen : IsUp(a)}
        /\ nfs'.affected = nfs.affected /\ nfs'.renewed = nfs.renewed
    BY <1>3, <2>0, TypeParts DEF List, NfsState
  <2>2. UNCHANGED <<container, builds, mounted>>
    BY <1>3 DEF List
  <2> QED
    BY <2>1, <2>2 DEF HostInv, AgentInv, IsUp, Exists
<1>4. ASSUME NEW b \in Agents, Scan(b)
      PROVE  HostInv'
  <2>1. /\ b \in nfs.listed /\ nfs'.pc = nfs.pc /\ nfs'.changed = nfs.changed
        /\ nfs'.listed = nfs.listed \ {b} /\ nfs'.renewed = nfs.renewed
        /\ \/ /\ nfs'.affected = IF Uses(b) THEN nfs.affected \cup {b} ELSE nfs.affected
              /\ nfs'.missed = nfs.missed
           \/ nfs'.affected = nfs.affected /\ nfs'.missed = nfs.missed \cup {b}
    BY <1>4, TypeParts DEF Scan, NfsState
  <2>2. UNCHANGED <<container, builds, mounted>>
    BY <1>4 DEF Scan
  <2>3. nfs.pc = "containers"
    BY <2>1, TypeParts DEF HostInv
  <2>4. ASSUME NEW a \in Agents \ {b} PROVE AgentInv(a)'
    BY <2>1, <2>2 DEF HostInv, AgentInv, IsUp, Exists
  <2>5. AgentInv(b)'
    <3>1. AgentInv(b)
      BY DEF HostInv
    <3>2. CASE nfs'.affected = nfs.affected /\ nfs'.missed = nfs.missed \cup {b}
      BY <2>1, <2>2, <3>1, <3>2 DEF AgentInv, IsUp, Exists
    <3>3. CASE nfs'.affected = nfs.affected \cup {b} /\ Uses(b)
      <4>1. IsUp(b) => b \in nfs.renewed \/ container[b].stale # {}
        BY <2>1, <3>1, <3>3 DEF AgentInv, Uses
      <4> QED
        BY <2>1, <2>2, <3>1, <3>3, <4>1 DEF AgentInv, IsUp, Exists
    <3>4. CASE nfs'.affected = nfs.affected /\ ~Uses(b)
      <4>1. IsUp(b) => container[b].stale \cap nfs.changed = {}
        BY <3>1, <3>4 DEF AgentInv, Uses, IsUp
      <4> QED
        BY <2>1, <2>2, <3>1, <3>4, <4>1 DEF AgentInv, IsUp, Exists
    <3> QED
      BY <2>1, <3>2, <3>3, <3>4
  <2> QED
    BY <2>1, <2>3, <2>4, <2>5 DEF HostInv
<1>5. ASSUME NEW b \in Agents, Restart(b)
      PROVE  HostInv'
  <2>1. /\ b \in nfs.affected /\ nfs.listed = {} /\ nfs'.listed = nfs.listed
        /\ nfs'.pc = nfs.pc /\ nfs'.changed = nfs.changed
        /\ nfs'.affected = nfs.affected \ {b} /\ nfs'.renewed = nfs.renewed
    BY <1>5, TypeParts DEF Restart, NfsState
  <2>2. mounted' = mounted /\ nfs.pc = "containers"
    BY <1>5, <2>1 DEF Restart, HostInv
  <2>3. nfs'.missed = nfs.missed \/ nfs'.missed = nfs.missed \cup {b}
    BY <1>5, TypeParts DEF Restart, NfsState
  <2>4. ASSUME NEW a \in Agents \ {b} PROVE AgentInv(a)'
    <3>1. container'[a] = container[a] /\ builds'[a] = builds[a]
      <4>1. CASE Stopped(b)
        BY <4>1, StoppedType
      <4> QED
        BY <1>5, <4>1 DEF Restart, TypeOK
    <3> QED
      BY <2>1, <2>2, <2>3, <3>1 DEF HostInv, AgentInv, IsUp, Exists
  <2>5. AgentInv(b)'
    <3>1. CASE container' = [container EXCEPT ![b] = Fresh(b)] /\ builds' = [builds EXCEPT ![b] = {}]
      <4>1. /\ container'[b] # None /\ container'[b].up /\ builds'[b] = {}
            /\ container'[b].stale = Binds[b] \ mounted
        BY <3>1, FreshType DEF TypeOK
      <4> QED
        BY <2>1, <2>2, <4>1 DEF AgentInv
    <3>2. CASE UNCHANGED <<container, builds>> /\ nfs'.missed = nfs.missed \cup {b}
      BY <2>1, <2>2, <3>2 DEF HostInv, AgentInv, IsUp, Exists
    <3>3. CASE Stopped(b)
      <4>1. /\ container'[b] # None /\ ~container'[b].up /\ builds'[b] = {}
            /\ container'[b].stale = container[b].stale /\ Exists(b)
        BY <3>3, StoppedType DEF Exists
      <4> QED
        BY <2>1, <2>2, <4>1 DEF HostInv, AgentInv, IsUp
    <3>4. \/ container' = [container EXCEPT ![b] = Fresh(b)] /\ builds' = [builds EXCEPT ![b] = {}]
          \/ UNCHANGED <<container, builds>> /\ nfs'.missed = nfs.missed \cup {b}
          \/ Stopped(b)
      BY <1>5, TypeParts DEF Restart, NfsState
    <3> QED
      BY <3>1, <3>2, <3>3, <3>4
  <2> QED
    BY <2>1, <2>2, <2>4, <2>5 DEF HostInv
<1> QED
  BY <1>1, <1>2, <1>3, <1>4, <1>5 DEF NfsStep

LEMMA NextHostInv == TypeOK /\ HostInv /\ [Next]_vars => HostInv'
<1> SUFFICES ASSUME TypeOK, HostInv, [Next]_vars PROVE HostInv'
  OBVIOUS
<1>1. CASE UNCHANGED vars
  BY <1>1, KeepsHostInv DEF vars, agents
<1>2. CASE \E a \in Agents, e \in Executors : BuildStarts(a, e) \/ BuildEnds(a, e)
  BY <1>2, JenkinsHostInv
<1>3. CASE \E m \in Mounts : Lose(m)
  BY <1>3, LoseHostInv
<1>4. CASE \E r \in Runs : RunStep(r)
  BY <1>4, RunHostInv
<1>5. CASE \E r \in Runs, a \in Agents : Begin(r, a)
  BY <1>5, KeepsHostInv DEF Begin, agents, Apart
<1>6. CASE Lock \/ NfsStep \/ Killed
  BY <1>6, NfsHostInv
<1> QED
  BY <1>1, <1>2, <1>3, <1>4, <1>5, <1>6 DEF Next

\* Once it ends, nfs-remount leaves no container without the last of the mounts
\* (nfs-remount:24-72), however runs of the other script replace the containers,
\* unless its docker ps, docker inspect or docker restart of the container failed.
THEOREM LastMountCorrect == Spec => LastMountSeen
<1>1. TypeOK /\ HostInv => Ends(nfs.changed)
  BY DEF Finish, Ends, HostInv, AgentInv
<1> QED
  BY <1>1, InitTypeOK, NextTypeOK, InitHostInv, NextHostInv, PTL DEF Spec, LastMountSeen

-----------------------------------------------------------------------------
\* What a run knows of its agent, with no other run for it.

Replacing == {"network", "create", "start"}

RunInv(r) ==
  /\ run[r].pc \in {"inspect", "remove"} /\ ~run[r].offline =>
       builds[run[r].agent] \subseteq run[r].since
  /\ run[r].pc \in {"empty"} \cup Replacing /\ run[r].agent \notin unsure =>
       ~Exists(run[r].agent)
  /\ run[r].pc \in Replacing /\ run[r].agent \notin unsure => run[r].agent \notin used

OneRun ==
  \A r, o \in Runs : run[r].agent = run[o].agent /\ run[r].agent \notin unsure \cup {None} => r = o

RunsInv == OneRun /\ \A r \in Runs : RunInv(r)

LEMMA InitRunsInv == Init => RunsInv
BY DEF Init, RunsInv, OneRun, RunInv, NoRun, Replacing

\* What a step of a run does to the other runs, and to itself.
LEMMA StepOfRun ==
  ASSUME TypeOK, NEW r \in Runs,
         RunStep(r) \/ \E a \in Agents : Begin(r, a)
  PROVE  \A o \in Runs \ {r} : run'[o] = run[o]
BY DEF RunStep, Begin, Poll, Inspect, Remove, EmptyDir, ListNetworks, CreateNetwork, StartContainer,
       Dies, Goto, Leave, TypeOK

LEMMA GotoRun ==
  ASSUME TypeOK, NEW r \in Runs, NEW there, Goto(r, there)
  PROVE  /\ run'[r].pc = there /\ run'[r].agent = run[r].agent
         /\ run'[r].offline = run[r].offline /\ run'[r].since = run[r].since
<1>1. run'[r] = [run[r] EXCEPT !.pc = there]
  BY DEF Goto, TypeOK
<1> QED
  BY <1>1, TypeParts DEF RunsOK, RunState

LEMMA LeaveRun ==
  ASSUME TypeOK, NEW r \in Runs, Leave(r)
  PROVE  run'[r].pc = "idle" /\ run'[r].agent = None
BY DEF Leave, NoRun, TypeOK

\* What keeps a run in order that does not step itself.
LEMMA KeepsRunInv ==
  ASSUME TypeOK, RunsInv, NEW o \in Runs, run'[o] = run[o],
         \A a \in Agents :
           a = run[o].agent =>
             /\ builds'[a] \subseteq builds[a]
             /\ \/ a \in unsure'
                \/ /\ a \notin unsure /\ (a \in used' => a \in used)
                   /\ Exists(a)' => Exists(a)
  PROVE  RunInv(o)'
<1>1. RunInv(o)
  BY DEF RunsInv
<1>2. run[o].pc # "idle" => run[o].agent \in Agents
  BY AgentType DEF At
<1> QED
  BY <1>1, <1>2 DEF RunInv, Replacing, Exists

LEMMA JenkinsRunsInv ==
  ASSUME TypeOK, HostInv, RunsInv, NEW a \in Agents, NEW e \in Executors,
         BuildStarts(a, e) \/ BuildEnds(a, e)
  PROVE  RunsInv'
<1>1. UNCHANGED <<container, unsure>>
  BY DEF BuildStarts, BuildEnds, history
<1>2. CASE BuildStarts(a, e)
  <2>1. IsUp(a) /\ builds' = [builds EXCEPT ![a] = @ \cup {e}] /\ used' = used \cup {a}
    BY <1>2 DEF BuildStarts
  <2>2. ASSUME NEW r \in Runs
        PROVE  /\ run'[r].pc = run[r].pc /\ run'[r].agent = run[r].agent
               /\ run'[r].offline = run[r].offline
               /\ run'[r].since = IF run[r].agent = a THEN run[r].since \cup {e} ELSE run[r].since
    BY <1>2, TypeParts DEF BuildStarts, RunsOK, RunState
  <2>3. OneRun'
    BY <1>1, <2>2 DEF RunsInv, OneRun
  <2>4. ASSUME NEW r \in Runs PROVE RunInv(r)'
    <3>1. RunInv(r)
      BY DEF RunsInv
    <3>2. run[r].pc # "idle" => run[r].agent \in Agents
      BY AgentType DEF At
    <3>3. CASE run[r].agent = a
      <4>1. builds'[a] = builds[a] \cup {e}
        BY <2>1 DEF TypeOK
      <4> QED
        BY <1>1, <2>1, <2>2, <3>1, <3>3, <4>1 DEF RunInv, IsUp, Exists, Replacing
    <3>4. CASE run[r].agent # a
      <4>1. run[r].agent \in Agents => builds'[run[r].agent] = builds[run[r].agent]
        BY <2>1, <3>4 DEF TypeOK
      <4> QED
        BY <1>1, <2>1, <2>2, <3>1, <3>2, <3>4, <4>1 DEF RunInv, Exists, Replacing
    <3> QED
      BY <3>3, <3>4
  <2> QED
    BY <2>3, <2>4 DEF RunsInv
<1>3. CASE BuildEnds(a, e)
  <2>1. UNCHANGED <<run, used>> /\ \A b \in Agents : builds'[b] \subseteq builds[b]
    BY <1>3 DEF BuildEnds, TypeOK
  <2>2. ASSUME NEW r \in Runs PROVE RunInv(r)'
    BY <1>1, <2>1, KeepsRunInv DEF Exists
  <2> QED
    BY <1>1, <2>1, <2>2 DEF RunsInv, OneRun
<1> QED
  BY <1>2, <1>3

LEMMA StepRunsInv ==
  ASSUME TypeOK, HostInv, RunsInv, NEW r \in Runs, RunStep(r)
  PROVE  RunsInv'
<1>1. PICK a \in Agents : a = run[r].agent
  BY AgentType DEF RunStep, Poll, Inspect, Remove, EmptyDir, ListNetworks, CreateNetwork,
                   StartContainer, Dies, At
<1>2. \A o \in Runs \ {r} : run'[o] = run[o]
  BY StepOfRun
<1>3. run'[r].agent = a \/ run'[r].agent = None
  <2>1. CASE Poll(r)
    BY <1>1, <2>1, TypeParts DEF Poll, RunsOK, RunState
  <2>2. CASE Leave(r)
    BY <2>2, LeaveRun
  <2>3. CASE \E there \in {"remove", "empty", "network", "create", "start"} : Goto(r, there)
    BY <1>1, <2>3, GotoRun
  <2> QED
    BY <2>1, <2>2, <2>3 DEF RunStep, Inspect, Remove, EmptyDir, ListNetworks, CreateNetwork,
                            StartContainer, Dies
<1>4. unsure \subseteq unsure'
  BY DEF RunStep, Poll, Inspect, Remove, EmptyDir, ListNetworks, CreateNetwork, StartContainer, Dies,
         history
<1>5. OneRun'
  BY <1>1, <1>2, <1>3, <1>4 DEF RunsInv, OneRun
<1>6. ASSUME NEW o \in Runs \ {r} PROVE RunInv(o)'
  <2>1. a \notin unsure => run[o].agent # a
    BY <1>1, NoneApart DEF RunsInv, OneRun
  <2>2. ASSUME NEW b \in Agents, b = run[o].agent, b \notin unsure'
        PROVE  b # a /\ b \notin unsure
    BY <1>4, <2>1, <2>2
  <2>3. \A b \in Agents : builds'[b] \subseteq builds[b]
    <3>1. CASE Dies(r)
      BY <1>1, <3>1, DiesCases, StoppedType
    <3> QED
      BY <3>1 DEF RunStep, Poll, Inspect, Remove, EmptyDir, ListNetworks, CreateNetwork, StartContainer,
                  agents, TypeOK
  <2>4. used' \subseteq used
    BY DEF RunStep, Poll, Inspect, Remove, EmptyDir, ListNetworks, CreateNetwork, StartContainer, Dies,
           agents
  <2>5. \A b \in Agents \ {a} : container'[b] = container[b]
    <3>1. CASE Dies(r)
      BY <1>1, <3>1, DiesCases, StoppedType DEF TypeOK
    <3> QED
      BY <1>1, <3>1 DEF RunStep, Poll, Inspect, Remove, EmptyDir, ListNetworks, CreateNetwork,
                        StartContainer, agents, TypeOK
  <2> QED
    BY <1>2, <2>2, <2>3, <2>4, <2>5, KeepsRunInv DEF Exists
<1>7. RunInv(r)'
  <2>0. RunInv(r)
    BY DEF RunsInv
  <2>1. CASE Poll(r)
    <3>1. PICK offline \in BOOLEAN :
            /\ offline \/ Idle(a)
            /\ run' = [run EXCEPT ![r].pc = "inspect", ![r].offline = offline, ![r].since = {}]
      BY <1>1, <2>1 DEF Poll
    <3>2. /\ run'[r].pc = "inspect" /\ run'[r].offline = offline /\ run'[r].agent = a
      BY <1>1, <3>1, TypeParts DEF RunsOK, RunState
    <3>3. UNCHANGED builds /\ (Idle(a) => builds[a] = {})
      BY <2>1 DEF Poll, agents, Idle, TypeOK
    <3> QED
      BY <3>1, <3>2, <3>3 DEF RunInv, Replacing
  <2>2. CASE Inspect(r)
    <3>1. PICK found \in BOOLEAN :
            /\ Goto(r, IF found THEN "remove" ELSE "empty")
            /\ unsure' = IF ~found /\ Exists(a) THEN unsure \cup {a} ELSE unsure
      BY <1>1, <2>2 DEF Inspect
    <3>2. UNCHANGED <<container, builds, used>> /\ run[r].pc = "inspect"
      BY <2>2 DEF Inspect, agents, At
    <3>3. CASE found
      <4>1. Goto(r, "remove")
        BY <3>1, <3>3
      <4> QED
        BY <2>0, <3>2, <4>1, GotoRun DEF RunInv, Replacing
    <3>4. CASE ~found
      <4>1. Goto(r, "empty")
        BY <3>1, <3>4
      <4> QED
        BY <1>1, <3>1, <3>2, <3>4, <4>1, GotoRun DEF RunInv, Replacing, Exists
    <3> QED
      BY <3>3, <3>4
  <2>3. CASE Remove(r)
    <3>1. Goto(r, "empty") /\ container'[a] = None
      BY <1>1, <2>3 DEF Remove, TypeOK
    <3> QED
      BY <1>1, <3>1, GotoRun DEF RunInv, Replacing, Exists
  <2>4. CASE EmptyDir(r)
    <3>1. Goto(r, "network") /\ a \notin used' /\ run[r].pc = "empty"
      BY <1>1, <2>4 DEF EmptyDir, At
    <3>2. UNCHANGED <<container, unsure>>
      BY <2>4 DEF EmptyDir, history
    <3> QED
      BY <1>1, <2>0, <3>1, <3>2, GotoRun DEF RunInv, Replacing, Exists
  <2>5. CASE ListNetworks(r) \/ CreateNetwork(r)
    <3>1. PICK there \in {"create", "start"} : Goto(r, there)
      BY <2>5 DEF ListNetworks, CreateNetwork
    <3>2. UNCHANGED <<agents, unsure>> /\ run[r].pc \in Replacing
      BY <2>5 DEF ListNetworks, CreateNetwork, history, At, Replacing
    <3> QED
      BY <1>1, <2>0, <3>1, <3>2, GotoRun DEF RunInv, Replacing, Exists, agents
  <2>6. CASE StartContainer(r) \/ Dies(r)
    <3>1. run'[r].pc = "idle"
      BY <2>6, LeaveRun DEF StartContainer, Dies
    <3> QED
      BY <3>1 DEF RunInv, Replacing
  <2> QED
    BY <2>1, <2>2, <2>3, <2>4, <2>5, <2>6 DEF RunStep
<1> QED
  BY <1>5, <1>6, <1>7 DEF RunsInv

LEMMA BeginRunsInv ==
  ASSUME TypeOK, RunsInv, NEW r \in Runs, NEW a \in Agents, Begin(r, a)
  PROVE  RunsInv'
<1>1. /\ run[r].agent = None /\ run'[r].agent = a /\ run'[r].pc = "poll"
  BY TypeParts DEF Begin, At, RunsOK, NoRun
<1>2. \A o \in Runs \ {r} : run'[o] = run[o]
  BY StepOfRun
<1>3. UNCHANGED <<container, builds, used>>
  BY DEF Begin, agents
<1>4. unsure' = IF \E o \in Runs : run[o].agent = a THEN unsure \cup {a} ELSE unsure \ {a}
  BY DEF Begin
<1>5. OneRun'
  BY <1>1, <1>2, <1>4 DEF RunsInv, OneRun
<1>6. ASSUME NEW o \in Runs \ {r} PROVE RunInv(o)'
  <2>1. \A b \in Agents : b = run[o].agent /\ b \notin unsure' => b \notin unsure
    BY <1>4
  <2> QED
    BY <1>2, <1>3, <2>1, KeepsRunInv DEF Exists
<1>7. RunInv(r)'
  BY <1>1 DEF RunInv, Replacing
<1> QED
  BY <1>5, <1>6, <1>7 DEF RunsInv

LEMMA OthersRunsInv ==
  ASSUME TypeOK, RunsInv, UNCHANGED <<run, used, unsure>>,
         \A b \in Agents : builds'[b] \subseteq builds[b] /\ (Exists(b)' => Exists(b))
  PROVE  RunsInv'
<1>1. OneRun'
  BY DEF RunsInv, OneRun
<1>2. ASSUME NEW o \in Runs PROVE RunInv(o)'
  BY KeepsRunInv
<1> QED
  BY <1>1, <1>2 DEF RunsInv

LEMMA NextRunsInv == TypeOK /\ HostInv /\ RunsInv /\ [Next]_vars => RunsInv'
<1> SUFFICES ASSUME TypeOK, HostInv, RunsInv, [Next]_vars PROVE RunsInv'
  OBVIOUS
<1>1. CASE UNCHANGED vars
  BY <1>1, OthersRunsInv DEF vars, agents, history, Exists
<1>2. CASE \E a \in Agents, e \in Executors : BuildStarts(a, e) \/ BuildEnds(a, e)
  BY <1>2, JenkinsRunsInv
<1>3. CASE \E m \in Mounts : Lose(m)
  <2>1. UNCHANGED <<run, used, unsure, builds>>
    BY <1>3 DEF Lose, history
  <2>2. \A b \in Agents : Exists(b)' => Exists(b)
    BY <1>3 DEF Lose, Exists, TypeOK
  <2> QED
    BY <2>1, <2>2, OthersRunsInv
<1>4. CASE \E r \in Runs : RunStep(r)
  BY <1>4, StepRunsInv
<1>5. CASE \E r \in Runs, a \in Agents : Begin(r, a)
  BY <1>5, BeginRunsInv
<1>6. CASE Lock \/ NfsStep \/ Killed
  <2>1. UNCHANGED <<run, used, unsure>>
    BY <1>6 DEF Lock, NfsStep, Check, List, Scan, Restart, Finish, Killed, Aside, history
  <2>2. \A b \in Agents : builds'[b] \subseteq builds[b] /\ (Exists(b)' => Exists(b))
    <3>1. CASE \E a \in Agents : Stopped(a)
      BY <3>1, StoppedType DEF Exists
    <3> QED
      BY <1>6, <3>1 DEF Lock, NfsStep, Check, List, Scan, Restart, Finish, Killed, Exists, TypeOK
  <2> QED
    BY <2>1, <2>2, OthersRunsInv
<1> QED
  BY <1>1, <1>2, <1>3, <1>4, <1>5, <1>6 DEF Next

\* Builds are cut short by a run that was told that its agent is offline, or after
\* whose poll they began, or by nfs-remount in a container that had lost a mount
\* or is new (restart_jenkinsdocker.py:54-71, nfs-remount:60-72), whether the docker
\* rm or docker restart succeeds or fails once it has stopped the container.
THEOREM BuildsSparedCorrect == Spec => BuildsSpared
<1> DEFINE Spared(a) ==
      builds[a] # {} /\ builds'[a] = {} =>
        \/ \E e \in Executors : BuildEnds(a, e)
        \/ \E r \in Runs : /\ Remove(r) \/ Dies(r)
                           /\ run[r].agent = a
                           /\ run[r].offline \/ builds[a] \subseteq run[r].since
        \/ a \in nfs.affected /\ (container[a].stale # {} \/ a \in nfs.renewed)
<1>1. TypeOK /\ HostInv /\ RunsInv /\ [Next]_vars => \A a \in Agents : Spared(a)
  <2> SUFFICES ASSUME TypeOK, HostInv, RunsInv, [Next]_vars,
                      NEW a \in Agents, builds[a] # {}, builds'[a] = {}
               PROVE  Spared(a)
    OBVIOUS
  <2>1. CASE \E b \in Agents, e \in Executors : BuildEnds(b, e)
    BY <2>1 DEF BuildEnds, TypeOK
  <2>2. CASE \E r \in Runs : Remove(r)
    <3>1. PICK r \in Runs : Remove(r)
      BY <2>2
    <3>2. run[r].agent = a
      BY <3>1 DEF Remove, TypeOK
    <3>3. run[r].offline \/ builds[a] \subseteq run[r].since
      BY <3>1, <3>2 DEF Remove, At, RunsInv, RunInv
    <3> QED
      BY <3>1, <3>2, <3>3
  <2>6. CASE \E r \in Runs : Dies(r)
    <3>1. PICK r \in Runs : Dies(r)
      BY <2>6
    <3>2. PICK b \in Agents : b = run[r].agent
      BY <3>1, AgentType DEF Dies
    <3>3. At(r, "remove") /\ Stopped(b)
      BY <3>1, <3>2, DiesCases
    <3>4. b = a
      BY <3>3, StoppedType
    <3>5. run[r].offline \/ builds[a] \subseteq run[r].since
      BY <3>2, <3>3, <3>4 DEF At, RunsInv, RunInv
    <3> QED
      BY <3>1, <3>2, <3>4, <3>5
  <2>3. CASE \E b \in Agents : Restart(b)
    <3>1. a \in nfs.affected
      <4>1. PICK b \in Agents : Restart(b)
        BY <2>3
      <4>2. b = a
        <5>1. CASE Stopped(b)
          BY <5>1, StoppedType
        <5> QED
          BY <4>1, <5>1 DEF Restart, TypeOK
      <4> QED
        BY <4>1, <4>2 DEF Restart
    <3>2. container[a].stale # {} \/ a \in nfs.renewed
      BY <3>1 DEF HostInv, AgentInv
    <3> QED
      BY <3>1, <3>2
  <2>4. CASE \E b \in Agents, e \in Executors : BuildStarts(b, e)
    BY <2>4 DEF BuildStarts, TypeOK
  <2>5. CASE UNCHANGED builds
    BY <2>5
  <2> QED
    BY <2>1, <2>2, <2>3, <2>4, <2>5, <2>6
       DEF Next, RunStep, NfsStep, Lose, Begin, Poll, Inspect, EmptyDir, ListNetworks, CreateNetwork,
           StartContainer, Lock, Check, List, Scan, Finish, Killed, vars, agents
<1> QED
  BY <1>1, InitTypeOK, NextTypeOK, InitHostInv, NextHostInv, InitRunsInv, NextRunsInv, PTL
     DEF Spec, BuildsSpared

\* The directory of an agent is empty when its new container starts and is never
\* emptied under a container (restart_jenkinsdocker.py:73-101), unless two runs
\* were busy with the agent at a time or docker inspect failed.
THEOREM OwnDirectoryCorrect == Spec => OwnDirectory
<1> DEFINE Own(a) == /\ ~Exists(a) /\ IsUp(a)' => a \notin used
                     /\ a \in used \ used' => ~Exists(a)
<1>1. TypeOK /\ RunsInv /\ [Next]_vars => \A a \in Agents \ unsure : Own(a)
  <2> SUFFICES ASSUME TypeOK, RunsInv, [Next]_vars, NEW a \in Agents, a \notin unsure
               PROVE  Own(a)
    OBVIOUS
  <2>1. ~Exists(a) /\ IsUp(a)' => a \notin used
    <3> SUFFICES ASSUME ~Exists(a), IsUp(a)' PROVE a \notin used
      OBVIOUS
    <3>1. CASE \E r \in Runs : StartContainer(r)
      <4>1. PICK r \in Runs : StartContainer(r)
        BY <3>1
      <4>2. run[r].agent = a
        BY <4>1 DEF StartContainer, Exists, IsUp, TypeOK
      <4> QED
        BY <4>1, <4>2 DEF StartContainer, At, RunsInv, RunInv, Replacing
    <3>2. CASE \E r \in Runs : Dies(r)
      <4>1. PICK r \in Runs : Dies(r)
        BY <3>2
      <4>2. PICK b \in Agents : b = run[r].agent
        BY <4>1, AgentType DEF Dies
      <4>3. CASE Stopped(b)
        BY <4>3, StoppedType DEF Exists, IsUp
      <4>4. CASE container' = [container EXCEPT ![b] = Created(b)]
        BY <4>4, FreshType DEF Exists, IsUp, TypeOK
      <4> QED
        BY <4>1, <4>2, <4>3, <4>4, DiesCases DEF Exists, IsUp
    <3>3. CASE container'[a] = container[a] \/ container'[a] = None
      BY <3>3 DEF Exists, IsUp
    <3>4. CASE \E r \in Runs : Remove(r)
      BY <3>3, <3>4 DEF Remove, TypeOK
    <3>5. CASE \E b \in Agents : Restart(b)
      <4>1. CASE \E b \in Agents : Stopped(b)
        BY <4>1, StoppedType DEF Exists, IsUp
      <4> QED
        BY <3>3, <3>5, <4>1 DEF Restart, Exists, TypeOK
    <3>6. CASE \E m \in Mounts : Lose(m)
      BY <3>3, <3>6 DEF Lose
    <3> QED
      BY <3>1, <3>2, <3>3, <3>4, <3>5, <3>6
         DEF Next, RunStep, NfsStep, BuildStarts, BuildEnds, Begin, Poll, Inspect, EmptyDir,
             ListNetworks, CreateNetwork, Lock, Check, List, Scan, Finish, Killed, vars, agents
  <2>2. a \in used \ used' => ~Exists(a)
    <3> SUFFICES ASSUME a \in used, a \notin used' PROVE ~Exists(a)
      OBVIOUS
    <3>1. PICK r \in Runs : EmptyDir(r)
      BY DEF Next, RunStep, NfsStep, BuildStarts, BuildEnds, Lose, Begin, Poll, Inspect, Remove,
             ListNetworks, CreateNetwork, StartContainer, Dies, Lock, Check, List, Scan, Restart, Finish,
             Killed, Aside, vars, agents
    <3>2. run[r].agent = a /\ run[r].pc = "empty"
      BY <3>1 DEF EmptyDir, At
    <3> QED
      BY <3>2 DEF RunsInv, RunInv
  <2> QED
    BY <2>1, <2>2
<1> QED
  BY <1>1, InitTypeOK, NextTypeOK, InitHostInv, NextHostInv, InitRunsInv, NextRunsInv, PTL
     DEF Spec, OwnDirectory

\* An agent that was up stays up or is being replaced, unless a run has failed or
\* nfs-remount has stopped its container and not started it again
\* (restart_jenkinsdocker.py:54-101, nfs-remount:60-72), for any number of runs.
THEOREM AgentsThereCorrect == Spec => []AgentsThere
<1> DEFINE There(a) ==
      \/ IsUp(a)
      \/ \E r \in Runs : run[r].agent = a /\ run[r].pc \in {"empty", "network", "create", "start"}
<1>1. Init => AgentsThere
  <2> SUFFICES ASSUME Init, NEW a \in Agents, a \notin absent PROVE IsUp(a)
    BY DEF AgentsThere
  <2>1. PICK new \in BOOLEAN :
          /\ container = [b \in Agents |-> IF new THEN None ELSE [up |-> TRUE, stale |-> {}]]
          /\ absent = IF new THEN Agents ELSE {}
    BY Zenon DEF Init
  <2>2. container[a] = [up |-> TRUE, stale |-> {}]
    BY <2>1
  <2>3. container[a] \in Container
    BY <2>2 DEF Container
  <2>4. container[a] # None
    BY <2>3, NoneApart
  <2>5. container[a].up
    BY <2>2
  <2> QED
    BY <2>4, <2>5 DEF IsUp, Exists
<1>2. TypeOK /\ AgentsThere /\ [Next]_vars => AgentsThere'
  <2> SUFFICES ASSUME TypeOK, AgentsThere, [Next]_vars, NEW a \in Agents, a \notin absent'
               PROVE  There(a)'
    BY DEF AgentsThere
  <2>1. CASE \E r \in Runs : RunStep(r)
    <3>1. PICK r \in Runs : RunStep(r)
      BY <2>1
    <3>2. \A o \in Runs \ {r} : run'[o] = run[o]
      BY <3>1, StepOfRun
    <3>3. CASE StartContainer(r) /\ run[r].agent = a
      <4>1. container'[a] = Fresh(a)
        BY <3>3 DEF StartContainer, TypeOK
      <4> QED
        BY <4>1, FreshType DEF IsUp, Exists
    <3>4. CASE Dies(r) /\ run[r].agent = a
      BY <3>4 DEF Dies
    <3>5. CASE Remove(r) /\ run[r].agent = a
      BY <3>5, GotoRun DEF Remove
    <3>6. CASE run[r].agent # a
      <4>1. a \notin absent /\ container'[a] = container[a]
        <5>1. CASE Dies(r)
          <6>1. PICK b \in Agents : b = run[r].agent
            BY <5>1, AgentType DEF Dies
          <6>2. container'[a] = container[a]
            BY <3>6, <5>1, <6>1, DiesCases, StoppedType DEF TypeOK
          <6> QED
            BY <5>1, <6>2 DEF Dies
        <5>2. CASE ~Dies(r)
          BY <3>1, <3>6, <5>2 DEF RunStep, Poll, Inspect, Remove, EmptyDir, ListNetworks,
                                  CreateNetwork, StartContainer, agents, history, TypeOK
        <5> QED
          BY <5>1, <5>2
      <4> QED
        BY <3>2, <3>6, <4>1 DEF AgentsThere, IsUp, Exists
    <3>7. CASE /\ Poll(r) \/ Inspect(r) \/ EmptyDir(r) \/ ListNetworks(r) \/ CreateNetwork(r)
               /\ run[r].agent = a
      <4>1. a \notin absent /\ container'[a] = container[a]
        BY <3>7 DEF Poll, Inspect, EmptyDir, ListNetworks, CreateNetwork, agents, history
      <4>2. CASE IsUp(a)
        BY <4>1, <4>2 DEF IsUp, Exists
      <4>3. CASE \E o \in Runs \ {r} : run[o].agent = a /\ run[o].pc \in {"empty"} \cup Replacing
        BY <3>2, <4>3 DEF Replacing
      <4>4. CASE run[r].pc \in {"empty"} \cup Replacing
        BY <3>7, <4>4, GotoRun DEF Poll, Inspect, EmptyDir, ListNetworks, CreateNetwork, At, Replacing
      <4> QED
        BY <4>1, <4>2, <4>3, <4>4 DEF AgentsThere, Replacing
    <3> QED
      BY <3>1, <3>3, <3>4, <3>5, <3>6, <3>7 DEF RunStep
  <2>2. CASE \E r \in Runs, b \in Agents : Begin(r, b)
    <3>1. PICK r \in Runs, b \in Agents : Begin(r, b)
      BY <2>2
    <3>2. (\A o \in Runs \ {r} : run'[o] = run[o]) /\ run[r].pc = "idle"
      BY <3>1, StepOfRun DEF Begin, At
    <3> QED
      BY <3>1, <3>2 DEF Begin, agents, AgentsThere, IsUp, Exists
  <2>3. CASE \E b \in Agents, e \in Executors : BuildStarts(b, e)
    <3>1. \A r \in Runs : run'[r].agent = run[r].agent /\ run'[r].pc = run[r].pc
      BY <2>3, TypeParts DEF BuildStarts, RunsOK, RunState
    <3> QED
      BY <2>3, <3>1 DEF BuildStarts, history, AgentsThere, IsUp, Exists
  <2>4. CASE \E m \in Mounts : Lose(m)
    <3>1. UNCHANGED <<run, absent>>
      BY <2>4 DEF Lose, history
    <3>2. IsUp(a) => IsUp(a)'
      <4> SUFFICES ASSUME IsUp(a) PROVE IsUp(a)'
        OBVIOUS
      <4>1. container[a] \in Container
        BY DEF IsUp, Exists, TypeOK
      <4>2. \/ container'[a] = container[a]
            \/ \E m \in Mounts : container'[a] = [container[a] EXCEPT !.stale = @ \cup {m}]
        BY <2>4 DEF Lose
      <4> QED
        BY <4>1, <4>2, NoneApart DEF IsUp, Exists, Container
    <3> QED
      BY <3>1, <3>2 DEF AgentsThere
  <2>5. CASE \E b \in Agents : Restart(b)
    <3>1. UNCHANGED run /\ absent \subseteq absent'
      BY <2>5 DEF Restart
    <3>2. container'[a] = container[a] \/ container'[a] = Fresh(a)
      <4>1. PICK b \in Agents : Restart(b)
        BY <2>5
      <4>2. CASE Stopped(b) /\ absent' = absent \cup {b}
        BY <4>2, StoppedType
      <4> QED
        BY <4>1, <4>2 DEF Restart, TypeOK
    <3> QED
      BY <3>1, <3>2, FreshType DEF AgentsThere, IsUp, Exists
  <2>6. CASE UNCHANGED <<container, run, absent>>
    BY <2>6 DEF AgentsThere, IsUp, Exists
  <2> QED
    BY <2>1, <2>2, <2>3, <2>4, <2>5, <2>6
       DEF Next, NfsStep, BuildEnds, Lock, Check, List, Scan, Finish, Killed, Aside, history, vars, agents
<1> QED
  BY <1>1, <1>2, InitTypeOK, NextTypeOK, PTL DEF Spec
=============================================================================
