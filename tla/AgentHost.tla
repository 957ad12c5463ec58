------------------------------ MODULE AgentHost ------------------------------
(***************************************************************************)
(* A host of Jenkins agents, each in a Docker container, and the two       *)
(* scripts that change these containers without knowing of each other:     *)
(* docker-scripts/restart_jenkinsdocker.py replaces the container of one   *)
(* agent, when Jenkins says that it is idle, and nfs-remount, which cron   *)
(* starts every five minutes, mounts again the NFS directories that were   *)
(* lost and restarts the containers that use them.                         *)
(*                                                                         *)
(* Jenkins and Docker are not in this repository.  A container sees a      *)
(* directory as it was mounted when the container started: it neither      *)
(* survives the loss of a mount nor learns of a new one.  A restart of it, *)
(* or its removal, ends the builds in it.  No path of a mount is taken to  *)
(* begin the path of another.                                              *)
(***************************************************************************)
EXTENDS Naturals, Sequences

CONSTANTS
  Agents,
  Executors,  \* of an agent, regular ones and one-off ones
  Fstab,      \* the NFS mounts, in their order
  Binds,      \* the mounts a container of each agent uses
  Runs,       \* processes that run restart_jenkinsdocker.py
  MaxLosses,  \* bound: how often a mount is lost
  None

Mounts == {Fstab[i] : i \in DOMAIN Fstab}
Container == [up : BOOLEAN, stale : SUBSET Mounts]

ASSUME AgentHostAssumption ==
  /\ Fstab \in Seq(Mounts) /\ Binds \in [Agents -> SUBSET Mounts]
  /\ None \notin Container \cup Agents
  /\ MaxLosses \in Nat

VARIABLES
  container,  \* of each agent: whether it runs, and the mounts it does not see
  builds,     \* the executors of the agent that build
  used,       \* the agents with files in their directory on the host
  network,    \* whether there is the network jenkins-slaves
  mounted,
  run,        \* the state of each run of the script
  lock,       \* the lock directory of nfs-remount
  nfs,        \* the state of nfs-remount
  \* history
  losses,
  unsure,     \* agents with two runs at a time, or whose container was not seen
  absent      \* agents that were not started yet, for which a run failed, or whose
              \* container docker restart stopped and could not start

agents == <<container, builds, used>>
history == <<unsure, absent>>
vars == <<agents, network, mounted, losses, run, lock, nfs, history>>

\* A run is for an agent. It was told that the agent is offline, and the
\* executors in `since` began to build after its last poll.
NoRun == [pc |-> "idle", agent |-> None, offline |-> FALSE, since |-> {}]

\* nfs-remount has come to the mount `turn`, has changed_mounts and, of the
\* containers, those it has to look at and those to restart. The rest is history:
\* all it has mounted, what it failed to see or to restart, and the containers that
\* are new since it began.
NoNfs == [pc |-> "off", turn |-> 1, changed |-> {}, listed |-> {}, affected |-> {},
          remounted |-> {}, missed |-> {}, renewed |-> {}]

Init ==
  /\ \E new \in BOOLEAN :
       /\ container = [a \in Agents |-> IF new THEN None ELSE [up |-> TRUE, stale |-> {}]]
       /\ network = ~new
       /\ absent = IF new THEN Agents ELSE {}
  /\ builds = [a \in Agents |-> {}] /\ used = {}
  /\ mounted = Mounts /\ losses = 0
  /\ run = [r \in Runs |-> NoRun]
  /\ lock = FALSE /\ nfs = NoNfs
  /\ unsure = {}

Exists(a) == container[a] # None
IsUp(a) == Exists(a) /\ container[a].up

\* What docker run and docker restart make, and what they are like at a failure.
Fresh(a) == [up |-> TRUE, stale |-> Binds[a] \ mounted]
Created(a) == [up |-> FALSE, stale |-> Binds[a] \ mounted]

\* docker rm and docker restart first stop the container, and may fail after that.
Stopped(a) ==
  /\ Exists(a)
  /\ container' = [container EXCEPT ![a].up = FALSE]
  /\ builds' = [builds EXCEPT ![a] = {}]

-----------------------------------------------------------------------------
(* Jenkins, and the file server *)

BuildStarts(a, e) ==
  /\ IsUp(a) /\ e \notin builds[a]
  /\ builds' = [builds EXCEPT ![a] = @ \cup {e}]
  /\ used' = used \cup {a}
  /\ run' = [r \in Runs |-> IF run[r].agent = a THEN [run[r] EXCEPT !.since = @ \cup {e}]
                                                ELSE run[r]]
  /\ UNCHANGED <<container, network, mounted, losses, lock, nfs, history>>

BuildEnds(a, e) ==
  /\ e \in builds[a]
  /\ builds' = [builds EXCEPT ![a] = @ \ {e}]
  /\ UNCHANGED <<container, used, network, mounted, losses, run, lock, nfs, history>>

Lose(m) ==
  /\ m \in mounted /\ losses < MaxLosses
  /\ mounted' = mounted \ {m} /\ losses' = losses + 1
  /\ container' = [a \in Agents |->
       IF Exists(a) /\ m \in Binds[a] THEN [container[a] EXCEPT !.stale = @ \cup {m}]
                                      ELSE container[a]]
  /\ UNCHANGED <<builds, used, network, run, lock, nfs, history>>

-----------------------------------------------------------------------------
(* restart_jenkinsdocker.py. None of its steps changes what nfs-remount does, *)
(* but for the history that it keeps of it.                                   *)

At(r, here) == run[r].pc = here
Goto(r, there) == run' = [run EXCEPT ![r].pc = there]
Leave(r) == run' = [run EXCEPT ![r] = NoRun]
Apart == UNCHANGED <<mounted, losses, lock>>

Begin(r, a) ==
  /\ At(r, "idle")
  /\ run' = [run EXCEPT ![r] = [NoRun EXCEPT !.pc = "poll", !.agent = a]]
  /\ unsure' = IF \E o \in Runs : run[o].agent = a THEN unsure \cup {a} ELSE unsure \ {a}
  /\ UNCHANGED <<agents, network, nfs, absent>> /\ Apart

\* (mutated: it is enough that one executor is idle)
IdleOne(a) == \E e \in Executors : e \notin builds[a]

\* No executor of either kind is busy.
Idle(a) == \A e \in Executors : e \notin builds[a]

\* The poll that ends the loop; after any other the script asks again 30 seconds
\* later. An agent that is marked offline may well have builds that go on.
Poll(r) ==
  /\ At(r, "poll")
  /\ \E offline \in BOOLEAN :
       /\ offline \/ Idle(run[r].agent)
       /\ run' = [run EXCEPT ![r].pc = "inspect", ![r].offline = offline, ![r].since = {}]
  /\ UNCHANGED <<agents, network, nfs, history>> /\ Apart

\* docker inspect: any exit code but 0 is taken for a container that is not there.
Inspect(r) ==
  LET a == run[r].agent IN
  /\ At(r, "inspect")
  /\ \E found \in BOOLEAN :
       /\ found => Exists(a)
       /\ Goto(r, IF found THEN "remove" ELSE "empty")
       /\ unsure' = IF ~found /\ Exists(a) THEN unsure \cup {a} ELSE unsure
  /\ UNCHANGED <<agents, network, nfs, absent>> /\ Apart

\* docker rm -f
Remove(r) ==
  /\ At(r, "remove")
  /\ container' = [container EXCEPT ![run[r].agent] = None]
  /\ builds' = [builds EXCEPT ![run[r].agent] = {}]
  /\ Goto(r, "empty")
  /\ UNCHANGED <<used, network, nfs, history>> /\ Apart

\* (mutated: with nothing to empty the script is done)
EmptyDirOrLeave(r) ==
  /\ At(r, "empty")
  /\ used' = used \ {run[r].agent}
  /\ IF run[r].agent \in used THEN Goto(r, "network") ELSE Leave(r)
  /\ UNCHANGED <<container, builds, network, nfs, history>> /\ Apart

\* (mutated: the directory stays)
EmptyNothing(r) ==
  /\ At(r, "empty")
  /\ Goto(r, "network")
  /\ UNCHANGED <<agents, network, nfs, history>> /\ Apart

EmptyDir(r) ==
  /\ At(r, "empty")
  /\ used' = used \ {run[r].agent}
  /\ Goto(r, "network")
  /\ UNCHANGED <<container, builds, network, nfs, history>> /\ Apart

ListNetworks(r) ==
  /\ At(r, "network")
  /\ Goto(r, IF network THEN "start" ELSE "create")
  /\ UNCHANGED <<agents, network, nfs, history>> /\ Apart

\* Another run may have created it in between, and Docker refuses a second one:
\* see Dies.
CreateNetwork(r) ==
  /\ At(r, "create") /\ ~network
  /\ network' = TRUE
  /\ Goto(r, "start")
  /\ UNCHANGED <<agents, nfs, history>> /\ Apart

\* docker run
StartContainer(r) ==
  LET a == run[r].agent IN
  /\ At(r, "start") /\ ~Exists(a)
  /\ container' = [container EXCEPT ![a] = Fresh(a)]
  /\ absent' = absent \ {a}
  /\ nfs' = [nfs EXCEPT !.renewed = @ \cup {a}]
  /\ Leave(r)
  /\ UNCHANGED <<builds, used, network, unsure>> /\ Apart

\* A call fails, docker run for its name if there is a container, and nothing
\* catches it. A docker rm or docker run that fails may leave a container that is
\* not up.
Dies(r) ==
  LET a == run[r].agent IN
  /\ ~At(r, "idle")
  /\ \/ UNCHANGED <<container, builds>>
     \/ At(r, "remove") /\ Stopped(a)
     \/ /\ At(r, "start") /\ ~Exists(a)
        /\ container' = [container EXCEPT ![a] = Created(a)] /\ UNCHANGED builds
  /\ absent' = absent \cup {a}
  /\ Leave(r)
  /\ UNCHANGED <<used, network, nfs, unsure>> /\ Apart

-----------------------------------------------------------------------------
(* nfs-remount *)

Aside == UNCHANGED <<used, network, losses, run, history>>

\* mkdir of the lock; where it is there already the script exits.
Lock ==
  /\ ~lock /\ lock' = TRUE
  /\ nfs' = [NoNfs EXCEPT !.pc = "mounts"]
  /\ UNCHANGED <<container, builds, mounted>> /\ Aside

\* One turn of the loop over the mounts, which forgets those it has changed before.
\* The mount it comes to may be there, may be mounted again, or cannot be.
Check ==
  /\ nfs.pc = "mounts" /\ nfs.turn <= Len(Fstab)
  /\ \E fixed \in {{}, {Fstab[nfs.turn]} \ mounted} :
       /\ mounted' = mounted \cup fixed
       /\ nfs' = [nfs EXCEPT !.turn = @ + 1, !.changed = fixed, !.remounted = @ \cup fixed]
  /\ UNCHANGED <<container, builds, lock>> /\ Aside

\* docker ps, if anything was changed. If it fails there is nothing in the list.
List ==
  /\ nfs.pc = "mounts" /\ nfs.turn > Len(Fstab) /\ nfs.changed # {}
  /\ \E seen \in {{}, {a \in Agents : IsUp(a)}} :
       nfs' = [nfs EXCEPT !.pc = "containers", !.listed = seen,
                          !.missed = {a \in Agents \ seen : IsUp(a)}]
  /\ UNCHANGED <<container, builds, mounted, lock>> /\ Aside

Uses(a) == Exists(a) /\ nfs.changed \cap Binds[a] # {}

\* docker inspect, of a container that may be gone or another one by now. If it
\* fails the container is taken for one that uses none of the mounts.
Scan(a) ==
  /\ a \in nfs.listed
  /\ \/ nfs' = [nfs EXCEPT !.listed = @ \ {a},
                           !.affected = IF Uses(a) THEN @ \cup {a} ELSE @]
     \/ nfs' = [nfs EXCEPT !.listed = @ \ {a}, !.missed = @ \cup {a}]
  /\ UNCHANGED <<container, builds, mounted, lock>> /\ Aside

\* (mutated: docker start, which does nothing to a container that runs)
RestartStarts(a) ==
  /\ nfs.listed = {} /\ a \in nfs.affected
  /\ nfs' = [nfs EXCEPT !.affected = @ \ {a}]
  /\ UNCHANGED <<container, builds, mounted, lock>> /\ Aside

\* docker restart, whatever the container builds. A failure is logged, be it that
\* the container was not stopped or that it could not be started again.
Restart(a) ==
  /\ nfs.listed = {} /\ a \in nfs.affected
  /\ \/ /\ Exists(a)
        /\ container' = [container EXCEPT ![a] = Fresh(a)]
        /\ builds' = [builds EXCEPT ![a] = {}]
        /\ nfs' = [nfs EXCEPT !.affected = @ \ {a}]
        /\ UNCHANGED absent
     \/ /\ nfs' = [nfs EXCEPT !.affected = @ \ {a}, !.missed = @ \cup {a}]
        /\ \/ UNCHANGED <<container, builds, absent>>
           \/ Stopped(a) /\ absent' = absent \cup {a}
  /\ UNCHANGED <<used, network, mounted, losses, run, lock, unsure>>

\* The script ends, and its trap removes the lock.
Finish ==
  /\ \/ nfs.pc = "mounts" /\ nfs.turn > Len(Fstab) /\ nfs.changed = {}
     \/ nfs.pc = "containers" /\ nfs.listed = {} /\ nfs.affected = {}
  /\ lock' = FALSE /\ nfs' = NoNfs
  /\ UNCHANGED <<container, builds, mounted>> /\ Aside

\* It is killed before that: the lock stays.
Killed ==
  /\ nfs.pc # "off" /\ nfs' = NoNfs
  /\ UNCHANGED <<container, builds, mounted, lock>> /\ Aside

-----------------------------------------------------------------------------

RunStep(r) ==
  \/ Poll(r) \/ Inspect(r) \/ Remove(r) \/ EmptyDir(r) \/ ListNetworks(r)
  \/ CreateNetwork(r) \/ StartContainer(r) \/ Dies(r)

NfsStep == Check \/ List \/ (\E a \in Agents : Scan(a) \/ Restart(a)) \/ Finish

Next ==
  \/ \E a \in Agents, e \in Executors : BuildStarts(a, e) \/ BuildEnds(a, e)
  \/ \E m \in Mounts : Lose(m)
  \/ \E r \in Runs : RunStep(r) \/ \E a \in Agents : Begin(r, a)
  \/ Lock \/ NfsStep \/ Killed

Spec == Init /\ [][Next]_vars

-----------------------------------------------------------------------------

\* What each variable holds.
TypeOK ==
  /\ container \in [Agents -> Container \cup {None}]
  /\ builds \in [Agents -> SUBSET Executors]
  /\ used \subseteq Agents /\ network \in BOOLEAN /\ mounted \subseteq Mounts
  /\ run \in [Runs -> [pc : {"idle", "poll", "inspect", "remove", "empty", "network", "create",
                             "start"},
                       agent : Agents \cup {None}, offline : BOOLEAN, since : SUBSET Executors]]
  /\ \A r \in Runs : run[r].agent = None <=> run[r].pc = "idle"
  /\ lock \in BOOLEAN
  /\ nfs \in [pc : {"off", "mounts", "containers"}, turn : Nat \ {0}, changed : SUBSET Mounts,
              listed : SUBSET Agents, affected : SUBSET Agents, remounted : SUBSET Mounts,
              missed : SUBSET Agents, renewed : SUBSET Agents]
  /\ unsure \subseteq Agents /\ absent \subseteq Agents /\ losses \in Nat

\* Builds are cut short by a run that was told that its agent is offline, or after
\* whose poll they began, or by nfs-remount, in a container that had lost a mount
\* unless it is a new one (the loop at restart_jenkinsdocker.py:54-71, docker rm,
\* docker restart, whether they succeed or fail half way).
BuildsSpared ==
  [][\A a \in Agents :
       builds[a] # {} /\ builds'[a] = {} =>
         \/ \E e \in Executors : BuildEnds(a, e)
         \/ \E r \in Runs : /\ Remove(r) \/ Dies(r)
                            /\ run[r].agent = a
                            /\ run[r].offline \/ builds[a] \subseteq run[r].since
         \/ a \in nfs.affected /\ (container[a].stale # {} \/ a \in nfs.renewed)]_vars

\* The directory of an agent is empty when its new container starts, and is never
\* emptied under a container, unless two runs were busy with the agent at a time
\* or docker inspect failed.
OwnDirectory ==
  [][\A a \in Agents \ unsure :
       /\ ~Exists(a) /\ IsUp(a)' => a \notin used
       /\ a \in used \ used' => ~Exists(a)]_vars

\* An agent that was up stays up, or is being replaced, unless a run of the restart
\* script has failed or a docker restart of nfs-remount has stopped its container
\* and not started it: no other outcome, and no meeting of the two scripts, leaves
\* a host without its agent.
AgentsThere ==
  \A a \in Agents \ absent :
    \/ IsUp(a)
    \/ \E r \in Runs : run[r].agent = a /\ run[r].pc \in {"empty", "network", "create", "start"}

Ends(mounts) ==
  Finish => \A a \in Agents \ nfs.missed :
              IsUp(a) => container[a].stale \cap mounts \cap mounted = {}

\* A run of nfs-remount that is not killed leaves no container without the last of
\* the mounts, when it was that one it has mounted again, unless a docker ps, docker
\* inspect or docker restart has failed for the container, which the script passes
\* over; be the container replaced, or the mount lost again, meanwhile.
LastMountSeen == [][Ends(nfs.changed)]_vars

\* What the head of nfs-remount says: in the event a disconnected mount is
\* reconnected, all the containers affected are restarted.
AllMountsSeen == [][Ends(nfs.remounted)]_vars
=============================================================================
