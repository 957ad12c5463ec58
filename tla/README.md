# A specification of the build-infra services

TLA+ modules, TLC configurations and TLAPS proofs about the programs of the
build-infra repository that keep state and share it. Paths below are relative
to `src/`, the root of that repository. `PROJECT.json` lists the components,
the runs, the source lines of every definition, the findings and the hazards.

Contents

1. The system
2. The modules, and how they correspond to the code
3. The runs
4. Fairness
5. The proofs
6. What is not modelled
7. Findings
8. Plan

## 1. The system

The repository is a collection of programs that do not call one another
directly. They meet in databases, in files and in services such as Jenkins,
Gerrit and JIRA. Most are short scripts; the ones below keep state over time.

### The build database

Couchbase documents about builds, commits and projects, with three writers.

| component | state | operations |
|---|---|---|
| **Loader** `build_database/.../load_build_database.py`, one scheduled job | project, build and commit documents; the product-version index; the last-manifest document; a copy of the index and of the build in memory | for each new manifest: write the project documents, the build, the index, the documents of new commits, the links between the build and its commits in both directions, and last-manifest |
| **JIRA commenter** `jira_commenter.py`, the next command of the same job (`run_load_build_database.sh`) | `metadata.jira_comments` of a build | query the unmarked builds, comment on the tickets of their commits, mark them |
| **REST service** `builddb_rest`, several replicas | none of its own; metadata of builds, VM reservations | `metadata.py`: add and remove metadata by rewriting the whole document; `reservations.py`: pick and mark free VMs, give them back; `changeset.py`: the difference of two builds; the rest only reads |
| **Scripts run by hand** `generate_projects.py`, `update_build_database.py` with `add_author_to_commit.py`, `regenerate_repositories.py` | project documents; commit documents; Git repositories on disk | walk all manifests and write their project documents; query the commits and write them back with a new key; fetch every repository from all its URLs |

They interact through documents that nobody locks and that are written without
a condition. What makes them hard: the loader takes minutes per manifest and
may die between any two writes; it then loads the same manifest again, over the
traces of the first attempt; REST clients change the same documents meanwhile.

It is correct when a finished build is what the manifest history says, no matter
how often the loader was interrupted; when every reference between documents
resolves; when no reader's data is lost; and when every build is commented on,
once. A reservation is correct when what a client was told it has is what the
documents say, and when no VM is lost to clients that never come back.

### The pathdiff service

`docker-stacks/pathdiff`: an API in front of MariaDB, Celery tasks in Redis,
workers that run a container per task and post the listing back, and a thread
in the API that polls the queue into a global variable. Asynchronous at every
point: tasks are queued from a view that is stale, posts are two transactions,
workers and API restart, tasks are lost once they have begun. It is correct
when a listing that is asked for is there in the end, in one copy unless posts of
it overlapped, and the queue shows what is queued.

### The Jenkins monitor

`monitoring/jenkins/.../monitor_jenkins_prog.py`: a scheduled run every three
minutes over several servers. The state is SQLite rows, in which an alert's age
and the number of its checks survive from run to run. Hard: mail and row are
changed one after the other and runs stop in between; rows are left behind by
runs that stopped; one server's error must not affect another's. It is correct
when every lasting fault is mailed about, again and again, but only once an
hour.

### The NAS cleaner

`cleanup/nas/clean_nas.py`: a daily recursive walk that deletes files by name
and age and directories that are empty, after rules derived on the way down
from nested STATEs. Hard: the derivation itself (extended for removal, replaced
for the rest, first match, shortest period, inherited through directories
without a STATE), and builds that write to the tree while it is walked. It is
correct when it removes nothing that is not expired, and leaves nothing that is.

### The notarizer

`apple/notarizer/index.js`: a service with one thread. A request posts an archive,
which is extracted, signed inside and out, notarized by Apple and sent back. Its
state is a directory per bundle, deleted and made again by each request for the
bundle, and a global, `sessionDir`. Hard: requests interleave at every asynchronous
call, wait up to six hours, and share the directory. It is correct when every
request is answered, with an error or with its own archive as it was approved.

### The hooks of Gerrit

`terraform/gerrit/files/hooks`: for each event of a change `jira_hook.py` goes through
the tickets in the summary of its commit and rewrites the list of reviews in a
field of each. The state is that field. Hard: an entry is found by a substring,
hooks fail at one ticket of several, are forgotten when Gerrit stops, or name
other tickets than the patch set before. It is correct when a ticket lists a
change once, with the mark of its present state, and no change but a deleted one
disappears.

### A host of Jenkins agents

Two scripts change the same Docker containers and do not know of each other.
`docker-scripts/restart_jenkinsdocker.py` waits until Jenkins says that an agent is
idle, removes its container, empties its directory and starts a new container;
`ansible/.../nfs-remount` mounts NFS directories that were lost, every five minutes
under a lock, and restarts the containers that use them. Hard: what Jenkins or
Docker said is acted on later, in several calls each of which may fail, and
several runs may be for one agent. It is correct when builds are not cut short
without need, no directory is emptied under a running agent, the agent is there
in the end, and no container is left on a mount it cannot see.

### The others

| component | state and operations | what is hard |
|---|---|---|
| Agent containers `docker/entrypoint`, GitHub runners | containers | start-up only |
| Infrastructure database, certificate monitor | a copy of what other systems report; none | nothing kept between runs |
| Release clean-up, restore tests, backups, images and provisioning | files, cloud resources | linear scripts |

## 2. The modules, and how they correspond to the code

```
ManifestRepo <-- BuildHistory            what the loader promises
      ^               ^ (refinement)
      +--------- BuildDBLoader
                      ^
                  BuildDiff <-- MCBuildDBLoader, BuildDBLoaderProofs  changesets over its documents
BuildMetadata  <-- MCBuildMetadata, BuildDBRestProofs      loader + REST service + commenter
BuildDBScripts <-- MCBuildDBScripts, BuildDBScriptsProofs  loader + scripts run by hand
Reservations   <-- BuildDBRestProofs                       REST service + clients + time
Pathdiff       <-- MCPathdiff, WebServicesProofs
Notarizer      <-- MCNotarizer, WebServicesProofs
JenkinsMonitor <-- MCJenkinsMonitor, JenkinsMonitorProofs
JiraHook       <-- MCJiraHook, JiraHookProofs
AgentHost      <-- MCAgentHost, AgentHostProofs            restart script + nfs-remount + Jenkins
NasRetention   what the cleaner promises
      ^ (refinement)
CleanNas       <-- MCCleanNas, CleanNasProofs
```

Two modules of proofs are about two components each, whose requests are served in
the same way; `Reservations` and `Pathdiff` name their specifications after themselves
(`ReservationsSpec`, `PathdiffSpec`) to be extended together with another.

A step of a model is what a program does from one external effect to the next:
one read or write of a database, one mail, one file. Values that the properties
do not distinguish (URLs, texts, authors, remotes) are left out. Definitions
preceded by a comment "(mutated: ...)" are not part of any specification. Each
stands next to the definition it is a faulty version of, and putting it in that
one's place breaks a property, which shows that the property depends on it.

### ManifestRepo

What the loader reads and never writes: manifests in their order, and Git
repositories as the set of commits reachable from each commit. Both come through
the `cbbuild` library, which is not in this repository; it is modelled from how
the loader uses it: `CommitWalker` returns what is reachable, `DiffWalker` what
is reachable from the new commits and not from the old, a SHA that is in no
repository raises. Commit ids grow with time, so that the newest of a difference
is its largest. One assumption is about data: no two manifests are of the same
build.

### BuildDBLoader

| variable | code |
|---|---|
| `remotes`, `builds`, `commits`, `in_build` | the `project:`, build and commit documents; `in_build[c][b]` counts occurrences in a list, so that a duplicate would be seen |
| `index_doc`, `last_manifest` | the product-version index; the last-manifest document, as a position in the manifest history |
| `prod_ver_index`, `build_data`, `first_prod_ver_build` | the loader's attributes and local variables of the same names |
| `pc`, `cur`, `todo`, `commit_ids` | where the run is: the manifest, the projects left in the current loop, the commits left in the inner one |

| action | code |
|---|---|
| `Start`, `TakeManifest`, `WalkDone` | `main`, `__init__`, the walk of the manifests |
| `UpdateProject` | a turn of `update_project_documents` |
| `WriteBuild`, `WriteIndex` | the two writes of `generate_build_document` |
| `CommitProject`, `PartialCommits` | a turn of `generate_commit_documents`, with the process dying in its multi-document upsert |
| `CommitsDone` | its second write of the build, for invalid SHAs, and the start of the next function |
| `LinkBuild`, `LinkCommit` | `update_build_commit_documents`, the build and each commit |
| `FinishManifest` | `update_last_manifest` |
| `Crash` | the process stops, or an exception reaches `main` |

`NotFoundError` on a document that is missing is modelled as what it does, the
end of the run (`CommitsDone`, `LinkCommit`).

`BuildHistory` is the abstract specification: one action, `Load`, puts a whole
build in place, and what it puts there is a function of the manifest history
alone. `BuildDBLoader` implements it under the mapping that shows the documents
of the builds up to last-manifest. A first build that has become its own
predecessor (see section 7) is mapped to one with none; otherwise the mapping
hides nothing.

### BuildDiff

`Removed`, `Added` and `Changed` are what `get_diff` of the REST service computes for
two builds: the projects of one and not of the other, and for those of both the
commits that are new, with a `DiffWalker` over Git. They are operators on the
state of the loader and have no state of their own; a changeset may be asked for
at any time, so the properties about them are invariants of the loader.

### BuildMetadata

The three writers of build documents at the grain of read and write, with the
loader reduced to its accesses to these documents. The REST service's handlers
are `ReadMetadata` and `WriteMetadata`, with the document in `req` in between;
the loader's are `ReadBuild` to `FinishBuild`; the commenter's `QueryBuilds` to
`FinishJob`. `CrashJob` ends the job: `bash -e` in `run_load_build_database.sh`
ends the job with the first command that fails, which
keeps the commenter from running after a loader that died. `set_metadata` of
`cbbuild`, which the commenter calls, is external and taken to be atomic.

Five history variables let a property say what it is about: `entered` is what
users and the commenter have put into metadata, `spoiled` the builds for which
two writers overlapped, `redo` those the commenter may rightly comment on again,
`refused` the commits for whose tickets JIRA failed, and `unmarked` the builds a
client took the mark from, or wrote over it, since the commenter that runs asked
for builds without one.

### BuildDBScripts

The documents of projects and commits with everything that writes them. `walk`
holds the two programs that go through the manifests, the loader and
`generate_projects.py`, with the document each has read and not written back
(`item`, `doc`); the loader goes on to commits and links (`AddCommits`,
`ReadCommit`, `WriteCommit`, `Loaded`) and starts a manifest again when it stops.
`update` is the answer of the schema update's query, as far as it was not come to;
`UpdateDocument` writes back what the query gave, but for the author. `fetching` is
what `regenerate_repositories.py` has not come to, after `Regenerate` found some
repositories gone. `RemoteFound` is `get_remote`, in whose absence the update exits
(`UpdateExits`). A URL stands for a remote and its name, and every project is in
every manifest; the links of the build are left to `BuildDBLoader`.

`lost`, `met` and `skipped` are history: the projects where two writers met and a URL
was lost, the commits on whose document the loader and the update met, and the
URLs that were not valid.

### Pathdiff

`rows` is the table of MariaDB, `broker`, `reserved` and `active` the life of a task
in Celery (external), `queue` the global variable of the API and
`monitor`/`newqueue` the thread that fills it, `client` the threads that handle a
GET between their three steps (take the queue, query the database, send a task),
`phase` how far a worker is with its task, and `post` the threads that serve the
POSTs, with DELETE and INSERT as separate transactions. `MonitorDies`, `RestartAPI`,
`FailTask`, `CrashWorker` and `PostFails` are the failures. A worker may be stopped
while its POST is served: the thread goes on (`from` is `Nobody` then), also when the
worker has started again and posts the same listing once more. `PostFails` is the
database refusing a statement; the worker does not look at the status of the answer.
Celery's defaults are assumed: a task is acknowledged when it begins, and one that a
dead worker had only reserved is given out again. A task id is its key, which is what
the code passes to Celery and compares. `met` is history: the most posts of the
listing that were under way at a time since that of the thread began.

### JenkinsMonitor

`slaves` and `jobs` are the two tables, the first with the age of an alert and
its `checked` modulo `Period` (the code tests `checked % 20`). A run is `StartRun`,
`Connect`, then `FetchNodes`, `AddNode`/`CheckNode`/`CountNode` per node,
`ClearNode` per stale row, `CheckBuild`/`MailBuild` per running build and
`ClearJob` per row of a build that ended, for each server. The two checks write
and mail in opposite orders, and the model keeps them: `CheckNode` mails and
`CountNode` then updates; `CheckBuild` updates and `MailBuild` then mails.
`RequestFails` is a `RuntimeError`, which `main` catches; `NoMaxTime` is an
exception of `statistics` or a division by zero, which it does not. `MaxTime`
is the arithmetic of `get_max_time` on integers, with `int()` as the floor.
What Jenkins reports is read once per run, and changes between runs, but for the
past builds of a job (`History`), which stay the same.

### JiraHook

`status` and `summary` are Gerrit's; `Upload`, `Merge`, `Abandon`, `Restore` and `Delete`
change them and queue a hook. `Start`, `Update` per ticket and `End` are one process
of the script: `Others` is the list without the entries in which the URL of the
change occurs (`Within` says for which pairs of changes it occurs in the URL of the
other), `Marker` the mark of the event, `NewField` what is written, which is nothing
when the list is empty. `NoIssue` is a ticket JIRA does not give, `UpdateThrows` an
exception, after which the rest of the tickets is not updated, `Stop` the end of Gerrit
and of the hooks it has to run. The list is a set: `OneEntry` says that this hides
no duplicates. `doubtful` is history: the changes and tickets whose entry is not
known to be right.

### AgentHost

`container` is what Docker has for each agent, with the mounts it does not see;
`builds`, `used` and `network` what is in it, on the disk and in Docker. `run[r]` is a
process of the restart script: `Poll`, `Inspect`, `Remove`, `EmptyDir`, `ListNetworks`,
`CreateNetwork` and `StartContainer` are its calls in their order, `Dies` any of them
failing. `nfs` is the remount script: `Lock`, `Check` per mount, `List`, `Scan` and
`Restart` per container, `Finish`, or `Killed`. `changed` is its `changed_mounts`, which it
empties for each mount. The actions write to `nfs.remounted`, `nfs.missed` and
`nfs.renewed`, and to `since` of a run, only what properties need to know of the
past. A container sees a mount as it was when it started.

Each call may fail. `docker rm` and `docker restart` stop a container first (`Stopped`),
and may fail after that: a run of the restart script ends there, while `nfs-remount`
logs it and goes on, with the agent down (`absent`). A `docker ps` that fails is an
empty list to `nfs-remount`, and a container for which `docker inspect` fails one that
uses nothing; `missed` are the containers it did not see or not restart.

### NasRetention and CleanNas

`NasRetention` is what the cleaner promises, without a walk: a tree (`dirs`, `files` with
their ages, `patterns`) in which days pass, builds write files, and, one at a time, a
file disappears that has expired, or a directory that is empty and is to be removed.
`StateAt`, `InForce` and `PeriodsOf` say what that is by the STATEs on the path to a
directory, as the cleaner's README does, and independently of how the code derives
its rules. `CleanNas` extends it with the walk, and its steps are steps of `NasRetention`
or leave the tree alone.

A regex is the set of names it matches, `|` of two is their union. `stack` holds
the recursive calls of `enter_dir`: directory, rules, the SUBDIRS of its STATE,
and how far it is. `Derived` is `PurgeRules.derived`, `Decides` the loop of the
ages in `purge_files`, `RemoveEmpty` an `rmdir`. `WriteFile` is a build,
`Abort` an exception or a kill. Stat and unlink of a file are one step. `States` is the set of the STATEs there may be, those that are
nested in one of them included (`StatesAssumption`); `Patterns` those of the root.

### Notarizer

`pc` is how far the chain of promises of a request is, and an action is what runs
from one asynchronous call to the next. `dir` is the file system: for each bundle
no directory, or one with archives and one extracted tree, each with the request
whose upload is in it. `sessionDir` is the global: `Delete` reads it after others
may have set it, which is why a request may make (`target`) another's directory.
`Gone` collects the calls that find their file missing. `FreshenFails` goes on as
the code does, which listens for `close` and not for the exit code. `ListThrows` and
`Crash` are exceptions in callbacks, which nothing catches. `GiveUp` leaves the
request where it is, in the phase `abandoned`.

Deletion is one step. A codesign that still runs after its request was rejected
is left out, and so are a `readFileSync` of a directory and other errors of
`signBinaries` beyond what `ToolFails` says: the request is rejected.
`overlapped` and `unfreshened` are history, and let a property say when it holds.

### Reservations

`vms` are the documents. A request is `Select` (the query), `Write` per machine and
`Answer`; `Fail` is a request that stops anywhere in between. `Release` is a turn of
`collection_delete`, which does not look at who has the machine: it is the request of
the client that has it, or of `Nobody` who has it, which is one that is repeated, comes
late, or names a machine the client never had. Time is counted in
hours that are left: `expires` of a document is `CLOCK_MILLIS()` turned round, `left`
the client's own view. A client has one reservation at a time, which is a bound.
`disputed` is history: the machines two requests were after at once, or that were
given back by a request while the database said that another client had them.

## 3. The runs

All bounds are constants of the `.cfg` files or definitions of the `MC` modules.

| run | instance | shows |
|---|---|---|
| `loader` | 6 manifests of two versions and two projects, 9 SHAs of which 2 are in no repository | the properties below, with stops between any two writes |
| `loader_prev` | the same | finding 1 |
| `metadata` | two builds, one with an invalid SHA and a commit of testrunner; one REST worker; two kinds of request | the properties below, over every interleaving of the job and the worker |
| `builddb_scripts` | one project that moves to another URL with the second of two manifests; an old commit that both builds bring, and a new one in each | the properties below, with all four programs at once and stopping anywhere |
| `pathdiff` | one listing, two workers, two threads for their posts, `MaxTasks` 3, one client | the properties below, with all failures |
| `monitor` | two servers, each with a node and a running build, one of a job with history and one without; `Period` 2 for 20; minutes, of which a run takes three, a build is stuck after five at the earliest and none is watched for longer than ten | the properties below, with runs that stop anywhere |
| `clean_nas` | a tree of three directories, three files, 82 STATEs, periods 1 and 2 | the properties below, over walks at any age of the files |
| `notarizer` | two requests for one bundle, with archives of different names, one of them to be notarized, and one for another bundle | the properties below, with every call failing and stops anywhere |
| `reservations` | two machines, two clients, one or two machines for one or two hours | the properties below |
| `jira_hook` | two changes, the URL of one a part of the other's; two tickets, summaries of none, one, two or the same one twice; `MaxEvents` 4 | the properties below, with hooks that fail or are forgotten |
| `agent_host` | one agent with two executors and two mounts, two runs of the restart script, one loss of a mount | the properties below, with every call failing, at once or half way |
| `agent_host_mounts` | two agents, one run, two losses | finding 2 |

### loader

* `NoDuplicateLinks`: loading a manifest again never links a build and a commit
  twice, in either document.
* `HistoryComplete`: every commit reachable from a loaded build has a document,
  also after an upsert of which only a part was written. This is why the
  loader must walk all commits and not stop at the first known one.
* `InBuildKept`, `PrevBuildKept`: no step takes a build out of a commit document or
  changes a predecessor that is set.
* `EventuallyLoaded`: with finitely many interruptions, the last build is
  loaded.
* `DiffIsLinked`: what a changeset says is new between two builds of a version is
  linked to one of the builds in between, although the one is worked out from Git by the REST
  service and the other was written by the loader, perhaps in several attempts.
* `ImplementsBuildHistory`: what readers see changes build by build and depends
  on the manifests alone.

* `LeadsOn`: every step of a run leads on (`Further`), and nothing stops a run but an
  interruption. `NotFoundError` would, at the same document in every run: it can be
  raised only for a commit of a project that a manifest has with a valid SHA beside an
  invalid one (`Mixed`), the case the TODO at line 131 speaks of. No manifest of the
  instance has such a project, so that here it is never raised.

The six manifests contain one of each case in the code: versions that
interleave, a file that is not a manifest, a project that joins with an invalid
SHA and then with a valid one, one without anything new, two SHAs for one
project, a merge. More manifests repeat these.

### metadata

* `MetadataKept`: unless two writers of a build overlap, its metadata is what was
  entered, although the loader makes the document anew.
* `MarkedIsCommented`: a mark implies that the tickets of all commits were gone
  through; the commenter never meets a build that is half loaded.
* `CommentedOnce`: the tickets are gone through once, unless the commenter died
  half way or the mark was taken away.
* `EventuallyMarked`: every build is marked in the end.

One REST worker already overlaps with each of the job's read-write pairs. Two
replicas that overlap with one another spoil a build in the same way.

### builddb_scripts

* `RemoteKnown`: the URL in a commit's document is in the document of its project,
  in which the schema update and the queries by remote look for it, unless two
  writers of project documents met over it.
* `LinksKept`: each commit of a loaded build names it, unless the schema update wrote
  back a copy of the commit from before.
* `AuthorsAdded`: a schema update that comes to its end leaves no commit without the
  key, but those that the loader wrote back meanwhile; commits that are new since
  its query have it from the loader.
* `RepositoriesBack`: after `regenerate_repositories.py` each repository has been fetched
  from where its commits came from, or that URL is no longer valid.

A project that moves is the only one for which a URL can be lost, and a commit
that two builds bring is the only one whose document the loader writes twice.

### pathdiff

* `RowsBounded`: a post leaves no more rows of its listing than posts of it were under
  way at a time since it began. One that was alone leaves one row, whatever was there
  before. The number of workers is no bound: one that is stopped while its POST is
  served posts again beside its own thread.
* `AlwaysListed`: a listing that is asked for again and again is there again and
  again, whatever tasks and workers were lost, while the monitor thread lives.

* `QueueComplete`: a poll of the queue misses none of the tasks there all the time,
  but those that begin between the two inspections of the workers, or are given
  back by a worker that stops. The code asks for the active tasks first, against
  the way they go; the property says exactly which tasks that loses.

Two workers and a client that queues from a stale view give duplicate tasks and
overlapping posts, of two workers or of one before and after it was stopped; a single
listing is enough, as nothing relates two. With two threads no more than two posts
overlap: `RowsCorrect` in section 5 is for any number of them.

### monitor

* `NodeMailCounted`: checks are counted towards the next mail only after a mail,
  and there are at most `Period` of them before the next.
* `BuildMailsSpaced`: two mails about a build are `Period` checks apart.
* `RowsCurrent`: once a server's nodes are checked, its rows are the nodes that are
  offline now.
* `NodeAlerted`: a node that stays offline is mailed about again and again.
* `StuckIsLonger`: a build that has a row has been running for longer than the least
  maximum, and by two standard deviations for longer than each build in the history
  of its job. `get_max_time` rounds three times on the way to the maximum, each time
  down; the property says that what is lost is less than what is added.

`Period` 2 and `OldAge` 1 are the least values for which a count and an age pass
through a state that is neither first nor last.

### clean_nas

* `RetentionSpec`: the specification of `NasRetention`. The walk removes no file but one
  that the STATEs on its path let expire, and no directory but an empty one where those
  say so, although the code goes by what it derived on the way down and listed earlier.
* `NoneLeft`: after a complete walk no expired file is left.
* `NoneEmpty`: nor an empty directory where those are to be removed, those that
  became empty on the way included.

The STATEs tried have, at each of three levels, each key present and absent:
two REMOVEs that overlap with different periods, KEEPs that disagree, SKIP, a
directory that turns REMOVE_EMPTY_DIRS off, a directory with no STATE between
two that have one, and two SUBDIRS entries that match the same directory.

### notarizer

* `OwnArchive`: a request that is alone with its bundle is answered with its own
  archive, signed, whatever earlier requests left behind and whatever a request
  for another bundle did to `sessionDir`; its binaries are signed if `zip` succeeded.
* `ApprovedServed`: what it is sent is what Apple approved, unchanged.
* `NeverStuck`: whatever other requests deleted, a request in progress has a next step.
  As the steps of a request only lead on (`StepsLeadOn` in section 5), this is what makes
  each end. TLC checks it instead of a liveness property, which takes it too long with
  three requests.

Two requests overlap at every pair of phases; a third for the same bundle deletes
the same directory. The other bundle is there for `sessionDir`.

### reservations

* `HeldIsRecorded`: a machine a client was told it has is recorded as its own for as
  long as the client may have it, unless it is disputed as defined above. It
  says that overlapping requests, and DELETEs that are late, repeated or not the
  client's own, are all that goes wrong.
* `Reusable`: every machine can be reserved again and again, whether its client gives
  it back, forgets it, or was never told of it because the service stopped.

Two machines and a request for both make a request stop half way.

### jira_hook

* `OneEntry`: a ticket lists a change once, whichever patch sets named it.
* `FieldCurrent`: once the hooks of a change have run, it is listed in its tickets as
  it is, unless an update of it failed and none followed, the hook of another took it
  for its own, or it was deleted as the last of the list.
* `OnlyOwnRemoved`: no review disappears but by its deletion, or by a hook of a change
  whose URL is a part of its own.

Four events lead a change through any of its histories that ends in a second hook
for a state that has changed, and two changes through each pair of events. The
run stops when they are used up, so that deadlock is not checked.

### agent_host

* `AgentsThere`: an agent that was up is up or being replaced, unless a run failed, or a
  `docker restart` stopped its container and could not start it.
* `BuildsSpared`: builds are cut short only when Jenkins had said that the agent is
  offline, when they began after the last poll, or by `nfs-remount` in a container that
  had lost a mount, or that is new and took the name of one that had. A `docker rm` or
  `docker restart` that fails half way cuts them short, too.
* `OwnDirectory`: the directory of an agent is empty when its container starts and is
  not emptied under one, unless two runs were busy with it or `docker inspect` failed.
* `LastMountSeen`: a run of `nfs-remount` that comes to its end leaves no container
  without the last of the mounts, if it was that one it has mounted again, but those
  for which `docker ps`, `docker inspect` or `docker restart` failed.

One agent is enough for these, as neither script relates two; two runs meet at
each pair of calls.

Deadlock is checked in every run but `jira_hook`: none of these programs should
ever be stuck.

## 4. Fairness

| specification | assumption | why |
|---|---|---|
| `BuildDBLoader` | WF of `Step` | the loader is a scheduled job, and is started again when it is down |
| `BuildMetadata` | WF of `JobStep` | the same job; nothing is assumed about REST clients |
| `Pathdiff` | WF of the API's query and of each of its threads, of the monitor thread, of each worker and of the broker; SF of sending a task and of being asked | threads run; a task can be sent only when there is room under the bound `MaxTasks`, which the real queue does not have; without a client that asks again a lost task is never replaced, as the code has no retry |
| `JenkinsMonitor` | WF of a run's steps, and of its end after an exception | cron |
| `Reservations` | WF of `Tick` | time goes by; nothing is assumed of clients and requests |
| `CleanNas`, `Notarizer`, `JiraHook`, `AgentHost`, `BuildDBScripts` | none | their properties are about safety; "at the end of a walk" or "of a run" is a state or a step |

Properties that need the failures to cease say so in their own premise
(`<>[][Running]_vars`, `<>[][Step]_vars`, `<>[][Working]_vars`): a loader that is killed
forever at the same place makes no progress, and nothing promises that it does.

## 5. The proofs

TLC checks the instances above. The theorems hold for every value of the
constants that satisfies the named assumptions.

### BuildDBLoaderProofs

For every manifest history and every set of repositories: `TypeCorrect`,
`IndexCorrect` (`IndexNamesBuilds`: the index and every `prev_build_num` name a document
that exists), `LinksCorrect` (`NoDuplicateLinks`), `InBuildCorrect`, `PrevBuildCorrect`,
`HistoryCorrect` (`HistoryComplete`), `DiffCorrect` (`DiffIsLinked`), `LeadsOnHolds`
(`LeadsOn`) and `Refines` (`ImplementsBuildHistory`).

The inductive invariant `IInv` is `TypeOK /\ IndexInv /\ LinkInv`.

* `IndexNamesBuilds` alone is not inductive: the index is copied to memory when a
  run starts and written back whole later, and a build's predecessor is taken
  from it. `IndexInv` adds that the copy in memory names documents that exist,
  that the build being loaded has a document with the `prev_build_num` that is in
  memory, and that `first_prod_ver_build` agrees with it.
* `NoDuplicateLinks` alone is not inductive: a build's links are counted up per
  project. `LinkInv` adds that the document starts without links, and that while
  a build is being linked the commits in its document are those of projects
  whose turn is over; a difference holds commits of one project only
  (`CommitsAssumption`), so that a commit is counted once. It also adds that only
  commits with a document are in a build, which `InBuildKept` needs.

Each action has its own step, and the temporal theorems follow by PTL. The
action properties use the same invariant: `InBuildKept` needs that a commit
without a document is in no build, `PrevBuildKept` that the document in memory
agrees with the one in the database.

The last four theorems say what the documents are, or need to know it, and rest on `HistoryInv`, which
relates them to the manifests that are loaded (`Done`) and the next one (`IsNext`):

* `WalkInv`: the walk is at the first build that is not loaded, and knows the index
  as it is. A run that starts anew comes to the same build again.
* `PrevInv`: the index has the last loaded build of a version, or the next one once
  that is written; the predecessor in a document is the build before it in the
  history, or none, or itself for a first build (finding 1). Neither holds without
  the other, as predecessors are taken from the index.
* `DocInv`: what a document has of each project, as the manifest says or sorted into
  valid and invalid SHAs, and the commits linked so far: `NewIn` of the abstract
  specification for the projects whose turn is over, once each.
* `MemberInv`: the same for the builds in the documents of the commits, where the links
  of an attempt that was interrupted are there before the next attempt comes to them.
* `CommitInv`: the commits of the projects whose turn is over have documents, those of
  an attempt that wrote only a part are new to the next one.

`DiffIsLinked` follows by induction along the builds of a version between the two: of
those that have the commit, the first has it as new. Induction over numbers is used
as the existence of a least one (`LeastOf`, from the library's well-founded relations).

`Refines` goes step by step. Of all steps only `FinishManifest` changes `last_manifest`,
and is `Load` of the abstract specification: by `DocInv` and `MemberInv` the document is
what the history says, with all its links (`LoadStep`). Each other step, interruptions
included, leaves what readers see of the loaded builds as it was (`UnseenStep`).

`LeadsOnHolds` is the argument behind `EventuallyLoaded`: the last manifest, the one at hand,
the stage and what is left of the loops are a measure that each step raises, and each
of them is bounded. Two steps could stop a run instead. At `CommitsDone` the predecessor
has a document, by `PrevInv` and `DocInv` (`PreviousBuilt`). At `LinkCommit` the commit is
new in the build (`MemberInv`), hence reachable from a valid SHA of its project, and if
all SHAs of that project are valid it has a document (`CommitInv`); so one is not
(`LinkedKnown`).

Assumptions: `CommitsAssumption` and `NewestAssumption` about Git, `ManifestsAssumption`
and `NamesAssumption` about the manifests, `SentinelsAssumption` about the
constants. TLC evaluates all of them in every run.

### BuildDBRestProofs: BuildMetadata

`TypeCorrect`, `MetadataCorrect` (`MetadataKept`), `MarkedCorrect` (`MarkedIsCommented`),
`OnceCorrect` (`CommentedOnce`) and `JobMarks`, for any builds, commits, keys and REST
workers. The type invariant needs `HeldInv`, which says whose copy of which document each writer
holds, and that the manifest being loaded is the one after the last.

* `MetaInv` is `MetadataKept`, with nothing entered where there is no document. A writer
  that does not spoil the build writes the metadata it read, changed as entered.
* `MarkedIsCommented` says nothing of how a mark came about. `HistoryGrows` says that
  only the commenter enters it, since no client may (`DocumentsAssumption`);
  `ThereInv` that when the commenter runs no build has a document but those that were
  loaded; `LinkedInv` that those have all their commits, while one that is being
  loaded has those that are not still to be linked; `FoundInv` that the commenter
  therefore finds all of them, and has looked at those it is past.
* `OnceInv`: a commit that was commented on is in a marked build, or in the one the
  commenter is at and behind it; what it has found and not finished is not marked.
* `JobMarks`: a commenter that comes to its end leaves no build without a mark, but those
  whose mark a client deleted or wrote over since its query (`unmarked`); builds at which
  commenters before it died are not excepted. By `ToCommentInv` each other build that
  has a document and no mark is among those found and not yet finished, for
  as long as the commenter runs; at its end there are none. No run checks it by itself:
  `EventuallyMarked` is the same job under fairness.

### BuildDBRestProofs: Reservations

`ReservationsTypeCorrect`, and `HeldCorrect`: `HeldIsRecorded` for any machines, clients and
hours. It is not inductive: a request writes documents before its client is told
of them, and it writes what it selected earlier. The invariant is
`ReservationsTypeOK` with

* `RequestInv`: a client without a request has nothing selected or written, so that
  a machine is never both;
* `WrittenInv`: the property for what was written and not answered yet, too;
* `SelectedInv`: a machine that is about to be written, and is not disputed, is not
  selected, written or held by another client whose time is not over. That is
  where the query comes in: a machine that somebody has is not reservable.

The clock keeps it because `expires` and `left` go down together.
`ReservationsAssumption` says that one of the hours asked for is the longest.

### BuildDBScriptsProofs

`TypeCorrect`, `RemoteCorrect`, `LinksCorrect`, `AuthorsCorrect` and `RepositoriesCorrect`:
the four properties of the run, for any projects, commits and manifests. `DocsInv` says
that a copy of a commit document names the remote that the document names, so that
no write changes it. `Added` says which URLs a project document has while the loader
is past it; `LinkInv` which commits name a build, including those of the build being
loaded that are done; `AuthorInv` and `FetchInv` what the two passes have done with the
documents they have come to.

### JiraHookProofs

`TypeCorrect`, `OneEntryCorrect`, `RemovalCorrect` and `FieldCorrect` (`FieldCurrent`), for any
changes, tickets and number of events. `FieldCurrent` is only about changes with no
hook outstanding, and is not inductive: the invariant speaks of the last hook that
is queued for a change, which carries the summary and the event of its present
state, and of a ticket the running hook has updated already.

### AgentHostProofs

`TypeCorrect`, `AgentsThereCorrect`, `OwnDirectoryCorrect`, `BuildsSparedCorrect` and
`LastMountCorrect`, for any agents, executors, mounts and runs.

* `HostInv`: builds are in containers that are up; while `nfs-remount` looks at mounts,
  a container that is not new does not see the mount it has changed; and once it has
  listed the containers, each that does not see that mount is still to be looked at,
  to be restarted, or one that it failed to see or to restart (`missed`).
* `RunsInv`: an agent that is not `unsure` has one run, and that run knows: past
  `Inspect` without a container there is none, past `EmptyDir` the directory is empty,
  and after a poll the builds of an agent that was idle are those in `since`.

### JenkinsMonitorProofs

`TypeCorrect`, `RowsCorrect` (`RowsCurrent`), `NodeMailCorrect` (`NodeMailCounted`) and
`BuildMailCorrect` (`BuildMailsSpaced`) and `StuckCorrect` (`StuckIsLonger`), for any servers,
nodes, builds, histories and period.

* `StuckInv`: the builds with rows have been running for longer than their maximum. A row
  is made when that is so, and time only goes on. `MaxTimeBound` is the rest: in whole
  numbers `a < (a \div d + 1) * d`, so that the deviations of the largest build, which are
  rounded down, are made good by the one that is added; that a history has a largest
  build is shown by induction over its length (`Largest`). `StatisticsAssumption` says that
  the mean and the deviation are numbers, and nothing of which.
* `RowsInv` adds to `RowsCurrent` that the nodes the check is past have rows.
* `NodeInv` adds to `NodeMailCounted` that at the update of a row its count is that of
  the checks since the last mail, which the mail before the first count has reset.
* `BuildInv`: the checks of a stuck build since its last mail are those its row counts,
  or a mail is overdue, as a run stopped between the row and the mail. `CountedType`
  says how the count goes round.

### WebServicesProofs: Pathdiff

`PathdiffTypeCorrect`, and `RowsCorrect`: `RowsBounded` for any number of listings,
workers, clients and threads. `RowsBounded` is about the step of an INSERT and follows
from `PostsInv`: a post that is under way has met all that are, and one that has come
as far as its INSERT has met one for each row there is and one for each that is about
to be inserted. An INSERT takes its thread out of those and adds a row; a DELETE puts
its thread among them and leaves no rows, and they are never more than the posts
under way (`Open`); a post that begins is met by all of them, and a failure only makes them
fewer. Cardinalities are used through the theorems about finite sets:
`PathdiffAssumption` says that at any time the API has finitely many threads.

`QueueCorrect`: `QueueComplete`. Its invariant, `PollInv`, says of the tasks that were there
all the time that the poll has found each or that it is where the poll has still to
look: tasks move from the broker to reserved to active, the way the code asks, but for
the last two, where `steady` leaves out what moved.

### WebServicesProofs: Notarizer

`TypeCorrect`, `OwnCorrect` (`OwnArchive`) and `ApprovedCorrect` (`ApprovedServed`), for any number
of requests, bundles and archives. Each is about the step that serves a request, and
needs to know of all that was done in its directory before:

* `RequestsInv`: two requests in progress for one bundle know of each other, so that
  whoever else is in progress is in other directories; and while there is one,
  `sessionDir` is some bundle.
* `DirectoryInv`: what is in the directory of a request that has been alone with its
  bundle, by how far it is: nothing but its archive when that is extracted, so that
  the first entry found is what was extracted, its tree when that is signed, and so on.

`OnwardStep` and `StepsLeadOn` are about the end of requests. The first is `NeverStuck`
without ENABLED: it gives for each phase a state (`Onward`), shows that it is another than
the present one, and that going there is a step of the request. The second says that no
step, of whatever request, takes one in progress back along the chain of promises, and
that its own never leave it where it is (`Forward`).

The directories of others are disturbed in one way: a request that took `sessionDir`
after it was set by another makes that one's directory. It does so only where there is
none, and a request that has none does not rely on one (`OthersKeep`).

### CleanNasProofs

`TypeCorrect`, `OnlyExpiredRemoved`, `ImplementsRetention` (`RetentionSpec`), `LeftCorrect`
(`NoneLeft`) and `EmptyCorrect` (`NoneEmpty`), for any tree of directories, any files, and any set of STATEs.

`TreeAssumption` says that every way up leads to the root, as in a file system: a set
of directories without the root has one whose parent is outside. That is also the form in
which the proofs use induction over the tree (`TreeInduction`). `Path` and `StateAt` are
recursive functions over it; that there are such functions is shown by giving them
(`PathDef`: the least set with the parents of its members; `StateAtDef`: the assignment of
STATEs to the directories of a path that satisfies the equation, of which there is one).

* `RulesAt(d)` are the rules of a directory by the STATEs on the path to it. `IInv` says
  that each call of `enter_dir` has these (`CallInv`), although it got them from the call
  above: `Derived` and `SubdirState` go one step down as `InForce` and `StateAt` do. It also
  says that the calls are a path (`PathInv`), that what a call has still to do is in its
  directory, and that no call is in a skipped one. That only expired files are removed follows, as
  the first period that matches in `Decides` is the least of `PeriodsOf`.
* `ImplementsRetention` goes step by step: `PurgeFile` is `Expire` (`PurgeFileStep`),
  `RemoveEmpty` is `RemoveDir` as `rmdir` fails on what is not empty and the call of the
  directory above has that one's rules (`RemoveEmptyStep`), and what starts a walk or
  writes a file is `Age` or `Write`.
* `LeftInv`: each expired file is one that some call is going to come to (`WillPurge`): it
  is in the directory of the call and not past, or below it and the call has still to
  enter the directory on the way. At the end of a walk the one call has nothing to do.
  A file does not become expired while a walk goes on, as ages change between walks
  and a file that is written is new.
* `EmptyInv`: the same for directories to be removed (`WillRemove`). A directory becomes
  empty when the last of what is in it is removed, by a call in it or by its own
  call, and then the call above has not yet listed its empty directories.

### Only model-checked

Liveness under fairness: `EventuallyLoaded`, `EventuallyMarked`, `AlwaysListed`, `NodeAlerted`
and `Reusable`; and `NeverStuck`, which speaks of ENABLED. The prover has no rules for
either; `LeadsOnHolds`, `JobMarks`, `OnwardStep` and `StepsLeadOn` prove what the arguments
for the first two and the last rest on. Every other property of a run that passes has a theorem. Two kinds of
induction that the proofs need, over numbers and over the tree, are brought in as
statements about sets, since the library's induction theorems take an operator.

## 6. What is not modelled

* The texts of comments, mails and documents; remotes; authors.
* Reading endpoints, which change nothing.
* `check_nodes_diskspace`, whose call in `main` is commented out.
* The containers that make a listing and the comparison of two listings.
* `--dry-run` of the cleaner, and the production `patterns.yaml`.
* The log endpoint of the notarizer, and the refusal of a wrong token.
* A directory that a build has made and not yet written to: `Write` of `NasRetention`
  makes it together with its file, so that the walk never meets it empty.
* Changes of the history of a Jenkins job from run to run (`History` is a constant, of
  any value).
* Reservations of an operating system that is not known, or of no machine.
* The author that Git names in the schema update; the names of remotes.
* The text of an entry in a ticket's review field but for its URL and mark.
* Paths of mounts of which one begins the other, and hosts without Docker.
* Components with the status `not_modelled` in `PROJECT.json`, each with its reason:
  single linear scripts, stateless reports, declarative
  files for provisioning, vendored and generated code.

## 7. Findings

Places where the code does not do what a comment or a document of the repository
says of it. Each has a run in which TLC shows it; `PROJECT.json` quotes the
lines.

1. `loader_prev`: a first build whose load is interrupted between index and
   last-manifest becomes its own predecessor.
2. `agent_host_mounts`: of several mounts that are mounted again in one run of
   `nfs-remount` it restarts the containers of the last only, if of any, although its
   head says that those affected are restarted; the others keep a dead mount.

Without a run:

* `load_build_database.py:318`: an invalid SHA next to a valid one of the same project
  stops the loader at that manifest in every run, as the TODO at line 131 expects
  (`LeadsOn` says that nothing else does).
* `load_build_database.py:366`: metadata that is entered while the loader works on the
  build is lost, although line 256 says "preserve any existing data" (`MetadataKept`
  says when it is not).
* `monitor_jenkins_prog.py:345`: a running build of a job with a short or uniform
  history keeps the servers after its own from being monitored (`NoMaxTime`).
* `apple/notarizer/index.js:232`: a request whose notarization is not decided in six
  hours is never answered, not even with an error (`GiveUp`, and `NeverStuck` names it).
* `jira_hook.py:65`: the last review of a ticket stays in it when its change is deleted,
  and the hook of change 12 takes out the entry of change 123 (`Within`).
* `docker-stacks/pathdiff/containers/api/api.py:82`: two posts of a listing may leave
  two records (`RowsBounded` says how many); line 39: a task that begins between two
  inspections is missing from the queue (`QueueComplete` says which).
* `cleanup/nas/README.md:49` says that rules extend those above; a KEEP replaces the
  one above (`Derived`). The comment at `clean_nas.py:152` says that the longest
  expiry comes first, whereas the code, and that README, use ascending order; an
  empty directory that is SKIPped is still removed by its parent's
  REMOVE_EMPTY_DIRS.
* `builddb_rest/builddb_rest/reservations.py:42`: two overlapping requests are given
  the same machine; line 68: a DELETE that is repeated, late or by a client that never
  had the machine takes it from the one that has (`disputed`).
* `ansible/linux/common/roles/nfs-remount/files/nfs-remount:66`: an agent that is stopped
  and cannot be started again stays down, which is only logged (`absent`); lines 46 and
  48: a `docker ps` or `docker inspect` that fails is taken for nothing to restart
  (`missed`).
* `docker-stacks/pathdiff/containers/api/api.py:108`: a worker that is killed during its POST
  and starts again adds to the posts that overlap (`RowsBounded`).

## 8. Plan

What may be added: the retry of the Swarm agent's start-up script, and the registry
clean-up, as far as their control is worth it.
