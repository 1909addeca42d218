# A verification project for mantl-api

TLA+ models of mantl-api, the TLC configurations that check them, and TLAPS
proofs of their most important properties. Source paths are relative to the
repository. `tlc -config X.cfg M` checks a configuration, `tlapm M.tla` the
proofs of a module.

## The system

mantl-api installs packages (Marathon apps, often the schedulers of Mesos
frameworks) on a Mantl cluster. One daemon runs per cluster, sometimes a second
one (a rolling upgrade, a developer's process pointed at the same cluster), and
operators run `mantl-api sync` beside it.

| Component | State | Operations | Talks to |
|---|---|---|---|
| Consul monitor, `install/consul_monitor.go` | the requests under `mantl-install/apps/`; the snapshot a goroutine ranges over | list, install each pair, delete its key | Consul, `InstallPackage` |
| Package lifecycle, `api/api.go`, `install/install.go` | none of its own: Marathon's apps, Mesos's frameworks, ZooKeeper's nodes | install, uninstall, shut a framework down, list | the three clients below, the package definition |
| Marathon client, `marathon/marathon.go` | none | `Apps`, `CreateApp`, `DestroyApp` | HTTP client |
| Mesos client, `mesos/mesos.go` | none | `FindFramework`, `Shutdown`, `Frameworks` | HTTP client |
| ZooKeeper client, `zookeeper/zookeeper.go` | one connection per call | `Delete` of a tree | ZooKeeper |
| Source synchronisation, `install/source.go`, `install/install.go`, `main.go` | the repositories under `mantl-install/repository/<index>/` with a name and a timestamp each | `SyncSources` at startup and by the `sync` command | Consul, git, files |
| Catalogue, `install/catalog.go`, `install/repository.go`, parts of `install/package.go` | the same repositories, read | packages, versions, newest supported version | Consul |
| Package definition, `install/package.go`, `install/transformers.go` | the same repositories, read layer by layer | `GetPackageDefinition`, merged configuration, rendered templates | Consul |
| Startup, `main.go`, `discover.go` | the configuration; the addresses and secrets the clients are made with | discovery, Vault, order of start, fatal exits | everything |
| HTTP client, `utils/http/http.go` | none | one request per call, no retry, no timeout | Marathon, Mesos |

How they interact: `start` synchronises the sources, then starts one goroutine
for the monitor and one for the HTTP server; net/http gives each request a
goroutine of its own. There is no lock anywhere. With one exception all shared state is remote, so
what can interleave is the sequence of remote calls of each goroutine, in this
process and in others, with the steps of Marathon, Mesos, ZooKeeper, the
schedulers and the clients. The exception is `apiConfig`, a global map of maps
in `install/install.go` that every installation merges into its configuration.

What is hard about it:

- a request key is acknowledged by name and not by value;
- uninstalling is five remote calls in a row, any of which may fail, answer
  late or lose its answer, while the app is destroyed asynchronously and may be
  installed again under the same id;
- several synchronisations may run at once on sources that change, and may die
  half way;
- a panic on malformed data kills the process in the monitor's goroutine and
  only the request in net/http's;
- the POST to Marathon blocks without a time limit, and may outlive its sender;
- merging configurations copies references, so that one layer comes to hang in
  another, and in `apiConfig`;
- the daemon serves nothing, its health check included, before its sources are
  synchronised, and nearly every error before that ends it;
- a ZooKeeper tree is removed by one call for each node, while its scheduler
  may still write;
- errors are dropped in several places.

`PROJECT.json` lists these as hazards, each at its line, with the properties
that watch it.

## Modules

| Module | Models | Composes or extends |
|---|---|---|
| `RequestQueue` | the abstract specification of the request queue: at least once, acknowledged by key | |
| `ConsulMonitor` | `Watch`, `installPackageFromKVPair` | instantiates `RequestQueue` as its abstraction |
| `ConsulMonitorProofs` | proofs | `ConsulMonitor` |
| `Lifecycle` | the POST and DELETE handlers with the clients they call | |
| `LifecycleProofs` | proofs | `Lifecycle` |
| `Repositories` | the abstract specification of synchronisations: what a reader of the repositories may rely on | |
| `SourceSync` | `SyncSources`, `sync`, `syncGitSource`, `syncRepo` | instantiates `Repositories` as its abstraction |
| `SourceSyncProofs` | proofs | `SourceSync` |
| `Definition` | the catalogue and `GetPackageDefinition`, one request, with the synchronisations it may overlap | the writes of `SourceSync`, as a reader sees them; instantiates `Repositories` as their abstraction |
| `DefinitionProofs` | proofs | `Definition` |
| `InstallQueue` | `InstallPackage` and `doRequest` as the monitor calls them: the POST as a step of its own | extends `ConsulMonitor`; instantiates `RequestQueue` |
| `InstallQueueProofs` | proofs | `InstallQueue`, `ConsulMonitorProofs` |
| `TreeRemoval` | the abstract specification of removing a ZooKeeper tree | |
| `ZkDelete` | `zookeeper.go`, call by call | instantiates `TreeRemoval` |
| `ZkDeleteProofs` | proofs | `ZkDelete` |
| `ConfigMerge` | `MergedConfig`, `Options`, `mergeConfig`, key by key, with the references | what `Definition` takes for one step |
| `ConfigMergeProofs` | proofs | `ConfigMerge` |
| `Startup` | `main.go` and `discover.go`, one daemon over its restarts | the synchronisation of one source as its beginning and its timestamp |
| `StartupProofs` | proofs | `Startup` |
| `MC...` | what TLC needs: symmetry sets, index functions, contents of repositories | |

An operator under the comment "NOT THE CODE" is a plausible defect of the
definition that follows it. It is used by no specification; with it in place of
that definition a named property fails (`mutants` in `PROJECT.json`).

### ConsulMonitor

`queue` is the prefix in Consul: at most one pair for each key, each with its
ModifyIndex. Clients `Put` and `Withdraw`. Process n holds in `kvps[n]` what is
left of its snapshot, and `pc[n]` says whether it is in the loop (`range`), in
the deferred function (`delete`, or `unwind` when a panic runs it) or `down`.

| Action | Code |
|---|---|
| `List` | the tick and `kv.List`; a failed listing changes nothing |
| `Skip` | the empty application name of the folder key |
| `Reject` | `NewPackageRequest` returns an error, or panics on `null` |
| `InstallPackage` | the call of line 44: success, logged error or panic |
| `Delete`, `DeleteFails` | the deferred function; after a panic the process ends |
| `Crash`, `Restart` | a kill, which runs no deferred function; Marathon starts a new task |

What was written, handled, overwritten or written during a race is recorded in
history variables. A request is lost silently when the key is rewritten after
the snapshot and before the deletion. `racing` names exactly those writes, and
`NoSilentLoss` says there is no other way to lose one. This is a property of
the design and not counted as a defect: nothing documents the queue as lossless.

### Lifecycle

A worker is one HTTP request, its `pc` the remote call it makes next. An app is
one incarnation: its id, package and a generation, so that a reinstallation
under the same id is told from the app it replaces. The environment launches
tasks, registers frameworks, writes ZooKeeper state, kills the tasks of
destroyed apps and expires frameworks. The variable `faults`, one of the sets in
`CONSTANT Scenarios`, is chosen in the initial state and says what may go wrong in
the behaviour; a lost answer is a step that takes effect and replies 500.
Marathon ends the task of a destroyed app before the next call or at any later
time, in every behaviour.

Removing ZooKeeper state takes many calls, and `ZkDelete` has them one by one. Here
a worker is at it as long as its `pc` is `post`, and `PostUninstall` is the end,
which says what may be left. Everything is gone if the worker had the tree to
itself. Any part may be left after a failed call, when a scheduler wrote
meanwhile, or when another deletion of the tree (`Overlap`) took away what this
one was listing: `znodeTree` then returns an error, and `postUninstall` drops it.
In the last case the other deletion is still going on, and removes the rest: that
is what `QuietRemoval` shows of `ZkDelete`. `disturbed` are the uninstalls that a
scheduler of the same names reached after their lookup, and those whose deletion
overlapped with that of such a one; `Observe` keeps them up at every step. A
scheduler that lives on may register and write at any time, so after a disturbed
uninstall nothing can be promised.

| Action | Code |
|---|---|
| `AcceptInstall`, `AcceptUninstall`, `BadRequest`, `AcceptShutdown` | the beginning of the handlers, with `parsePackageRequest` |
| `DefinitionFails`, `CreateApp`, `CreateConflict`, `CreateRefused` | `InstallPackage` and `Marathon.CreateApp` |
| `FindInstalled`, `FindNone`, `FindSeveral`, `FindUnavailable` | `FindInstalled` and the handler's count of what it returns |
| `DestroyApp`, `DestroyMissing` | `Marathon.DestroyApp`, given only the id |
| `LookupFramework`, `Teardown` | `ShutdownFrameworkByName` |
| `PostUninstall` | `postUninstall`; the handler answers 204 whatever it returns |
| `CallFails` | any other error of the sequence |
| `ShutdownFramework` | the rest of the shutdown handler, after its 202 |

Framework names and ZooKeeper paths are rendered from a package's
configuration. The model takes them to be different for different packages and
ids and equal for incarnations of one app. A package whose configuration ignores
the id, so that two of its apps share a framework name, is outside the model.
`znodes` stands for the state that a package's `uninstall.json` marks "always".

Two of the faults concern Mesos alone: `"error"`, which includes its plain-text
errors, and `"mesos"`, a JSON document that is not the state: `state()` looks at
no status and reads it as a cluster without frameworks.

### InstallQueue

`ConsulMonitor` has `InstallPackage` in one step. Here `Send` is the moment the
POST leaves, `waiting[n]` the pair it is for, and the deletion of the key waits
for `Answer`. A kill may leave the call in `late`, and so may an error that
`doRequest` returns before Marathon has acted; from there it reaches Marathon at
any later time, or never. `apps` are the apps Marathon has; clients remove
them through the HTTP API (`Remove`), whose handlers run beside the monitor.

| Action | Code |
|---|---|
| `Take` | `List` and `Skip` of `ConsulMonitor` |
| `Refuse` | `NewPackageRequest` or `InstallPackage` fails before Marathon is asked |
| `Send`, `Answer` | `doRequest` up to `client.Do`, and after it |
| `Acknowledge` | the deferred deletion |
| `Kill`, `StartAgain`, `Arrive` | a kill, Marathon's restart, a call that outlived its process or its error |
| `Ask`, `TakeBack`, `Remove` | clients of Consul and of the HTTP API |

`AnsweredFirst` is the same queue as `QueueSpec` with a stronger meaning of
"handled": the request has its outcome, and not only been begun. `GoneStaysGone`
says what somebody who uninstalls an app may rely on: it stays away once no key,
no snapshot and no call on its way asks for it. While one of them does, it may
come back, and does.

### ZkDelete

Nodes are numbered in the order of `znodeTree`, a node before what is below it.
Call c lists (`todo[c]`: nodes whose children it has yet to ask for), then
deletes what it `listed` from the last to the first, then the root.

| Action | Code |
|---|---|
| `Connect` | `Delete`, `connect` |
| `List`, `ListNoNode`, `Listed` | `znodeTree`: children, a node that has gone, the end |
| `DeleteNode` | the loop of `deleteTree`; a refusal is a warning |
| `DeleteRoot` | the last deletion, whose error is the result |
| `ListFails`, `DeleteFails` | a request that fails or loses its answer |
| `Create` | a scheduler that still runs |

`TreeRemoval` is what a caller may rely on: the tree shrinks leaf by leaf, and
`nil` is told only by the step that takes the last node away.

### ConfigMerge

A map is named by the layer it was first read in and the field it stands at;
`maps[o][k]` is what stands now at field k of the map of layer o: nothing, a
value of some layer, or a map of some layer. A merge that copies a map of
another layer makes the field refer to it, as the code does. `into[r]` and
`over[r]` are the maps that the nested calls of `mergeConfig` work on, `keys[r]`
the keys they have left, in any order, as Go ranges over a map. An installation
merges four times (`Passes`): for the framework name, for the Marathon app, for
`uninstall.json` and for the load balancer. The two files are decoded anew each
time; the client's document and `apiConfig` are not.

| Action | Code |
|---|---|
| `MergedConfig` (`Decode`, `Merge`) | `MergedConfig` down to the first call of `mergeConfig`; without a `mantl.json` the client and the API have no say |
| `Descend`, `Assign` (`BothMaps`) | one key of `mergeConfig` |
| `Options`, `Return` | the end of a call of `mergeConfig` from `Options` or `MergedConfig` |
| `Collide` | the Go runtime ends a process that writes a map another goroutine is using |

The fields are those `apiConfig` bears upon (`mantl`, `mantl.zookeeper`,
`mantl.zookeeper.hosts`) and one beside them that it does not
(`mantl.load-balancer`); `mantl.mesos` is merged as `mantl.zookeeper` is. Values
are told apart by the layer they come from, so formatting by `transformers.go`
changes none. A `mantl.json` that is `null` panics in `Options`; that is
`MergeFails` in `Definition`.

`MergedAsLayered` compares what the code computes with `Over`, the laying of
documents over each other as values. `SharedWrites` says exactly when `apiConfig`
is written: a client that gives `mantl` as a map, for a package whose
`mantl.json` does not, and from the second pass on, because by then the client's
map refers to the API's. What is written is what is there already (`ApiIntact`),
but two such installations at once are a data race, which Go answers with the end
of the process.

### SourceSync

The content of a file is the revision of the source at which it was read, 0 for
a key that Consul lacks. `left[p]` are the files the walk has not finished, in
the order of `filepath.Walk`. A cloned source is read at the revision of the
clone, a directory as it is when each file is read. `always[s]` are the files
that source s has had in every revision: what a synchronisation must not miss
whatever is edited meanwhile. `Trees[s]` are the sets of files it may have, and
`unread` the sources of which a walk has passed something by that it could not
read.

| Action | Code |
|---|---|
| `UpToDate`, `StartSync`, `Finish` | the loop of `SyncSources` and `sourceLastUpdated` |
| `ReadFile`, `PassBy`, `WalkUnreadable`, `ReadFails`, `addSourceArtifact` | the callback of `sync`, one step for the read and one for the write |
| `setName`, `setTimestamp` | the end of `sync` |
| `Fail`, `Restart` | git or Consul fails, `log.Fatal`, a kill; Marathon restarts the daemon |
| `Commit` | the source changes |

What readers may rely on of all this is `Repositories`, which has no processes and
no contents: a file of a source appears when the lasting files that a walk meets
before it are there, the name when all of them are, the timestamp after the name,
and nothing disappears (`Appear`, `Name`, `Stamp`); the lasting files themselves
dwindle as the source is edited (`Dwindle`). `held` are the files whose content is
not 0, and `lasting` is `always`, or nothing for a source in `unread`, of which
nothing can be promised.

### Definition

A definition is put together by one `Get` for each file of each repository, and
nothing keeps those apart from a synchronisation that writes the same files.
`kv[r][i][f]` is file f of version directory i of the package in repository r.
The request first walks the catalogue (`keys` are those it has yet to look at;
`supported` and `versions` what it found), chooses a version, whose directory is
`release`, and then reads `left`, file by file in the order of the code, into
`def`. Files are numbered in the order in which a walk meets them.

| Action | Code |
|---|---|
| `ListKeys` | `NewPackageCatalog` |
| `LookForMantlJson`, `ReadMeta`, `MetaPanics` | the loop of `packagesIndex`: `keyExists`, `packageMeta` |
| `Choose`, `NotFound` (`FindPackageVersion`, `CurrentVersion`, `MostRecent`) | `FindPackageVersion`, `FindLatestSupported`, `FindLatest` and the sort |
| `getRepositories`, `NameFails` | `getRepositories`, sorted by integer |
| `ReadFile` (`Override`) | `getPackageDefinitionFile` and the condition `len(data) > 0` |
| `Return`, `MergeFails`, `KeysFail` | the returns of `GetPackageDefinition`, its panic on a `mantl.json` that is `null` |
| `Begin`, `addSourceArtifact`, `setName`, `Die` | a synchronisation, as `SourceSync` has it in full |

`failed` and `blank` record that a `Get` of the request failed and that an empty
file has been in the repositories. The code treats either as an absent file, and
the properties speak of behaviours without them: with a failed `Get` a
definition may lack any file and the request still succeeds; only
`RequestHonoured` and `NewestChosen` do without the latter. `moved`, `offered`
and `seen` record what the properties compare with: whether anything was
written since the catalogue was listed, the directories that have held the
version wanted ever since, and what the layering of the repositories has given
for each file.

The model has one package and one request. Requests write nothing and packages
share no key, so neither disturbs another. The paths of a source stay the same
during a behaviour, since a synchronisation never removes a key; their contents
change freely. Numbers of repositories and directories have at most two digits,
which `Rank` orders as the code does, as strings. The description, the tags and
the framework flag of `package.json` are left out: nothing here depends on them.

The first synchronisation of a repository writes `uninstall.json` after
`package.json`. So a definition read in between has everything but its
`uninstall.json`; `ListedIsComplete` claims the files before `package.json`, and
no more can be claimed.

`Begin`, `addSourceArtifact`, `setName` and `Die` leave out who synchronises, why,
and from which revision. What keeps them in step with `SourceSync` is that they
keep the same promise to the reader: with the paths of a source for its lasting
files, in the order of the walk (`WalkOrder`), they implement `Repositories` too.

### Startup

A process goes through `pc` in the order of `start`; `down` is a process that
has ended, which Marathon starts again. `setup` is the configuration the task was
given, `conf` the one this process goes by: the defaults, when the file cannot
be read. `address[p]` says how it knows peer p: configured, discovered, or by
the constant it falls back to; for Mesos that is `locahost`, no host at all.

Consul keeps name and timestamp by the index of a source, and so does the model:
`stamped` are the indexes with a timestamp, whichever source they got it for.
`stored` are the sources whose files are what their repository holds, `begun` those
that were ever written to it, `unread` those stamped although a walk could not
read them. The default source has index 0, as the first source of the README of
the repository has (line 214): a process that cannot read its configuration file
synchronises the default, and the next one, with its file, finds the timestamp
and leaves its own source of index 0 out. `ServesSynced` says what is true then.

| Action | Code |
|---|---|
| `readConfigFile` | `readConfigFile`, which only warns |
| `consulClient` | `consulClient` and `testConsul`; its failure is `Crash` |
| `Unwrap`, `UnwrapRefused`, `ReadSecrets` | `initVault` |
| `FindMarathon`, `FindMesos`, `FindZookeeper` (`Discover`, `NewMarathon`, `NewMesos`) | the three discoveries of `start` |
| `NewInstall` (`RequiresAuthentication`) | the first request to a peer; its error is fatal |
| `SkipSource`, `BeginSource`, `SyncSource`, `SyncFails` (`NeedsSync`) | `SyncSources`: a source whose index has its timestamp, the first write of another one, its timestamp, an error |
| `Go`, `Watch` | the two goroutines; `NewTicker` panics on an interval of 0 |
| `Crash`, `HealthKill`, `Restart` | a fatal error or a kill, a health check that runs out, Marathon |
| `PeerStarts`, `PeerStops` | the catalogue of Consul |

`HealthKill` is not bounded and comes at any point before the process serves, in
the middle of the first source too: the check cannot succeed earlier, and a first
synchronisation may well take longer than the grace period in the README of the
repository (line 96). So health checks can keep the daemon down for ever, and
`EventuallyServes` says when: only by killing it again and again before it has
synchronised a single source. Kills that leave the time for one source do not,
because the timestamps let each process begin where the last one ended. The
property is about the configurations in `Workable`. Left out, because the daemon
need not come up with them, are a wrapped token, Vault without any of the secrets,
an interval of 0 and `force-sync`, which ignores the timestamps.

## Runs

| Run | Instance | Shows |
|---|---|---|
| `monitor` | 2 processes, one of which Marathon never needs to answer, the folder key and 2 keys for one app, 2 writes, 1 fault and 1 late call in all, fair; 423 thousand states | `TypeOK`, `NoSilentLoss`, `AttemptsBounded`, `CallTypeOK`, `GoneStaysGone`, `QueueSpec` and `AnsweredFirst` (refinements of `RequestQueue`), `QueueDrains` |
| `lifecycle` | 3 requests, a framework package and another, 2 ids; behaviours with every fault, behaviours in which calls only fail, and behaviours without faults; 3.8 million states | `TypeOK`, `UninstallsDistinct`, `SparesOthers`, `SuccessIsClean`, `CreatedMeansInstalled` |
| `sync` | a daemon and the command, a cloned source of 1 file and a directory of 1 or 2, 2 revisions of one of them, 1 failure in all, fair; 1.4 million states | `TypeOK`, `TimestampMeansComplete`, `AloneIsFresh`, `NoRegressionAlone`, `RepositoriesSpec` (refinement of `Repositories`), `EventuallySynced` |
| `definition_read` | 1 request, 2 repositories, 2 versions, 3 files, 2 synchronisations; 1.8 million states | `TypeOK`, `FilesWereCurrent`, `SupportedHasOptions`, `ListedIsComplete`, `RequestHonoured`, `NewestChosen`, `RepositoriesSpec` (refinement of `Repositories`) |
| `startup` | 9 configurations, 2 sources, one on the index of the default, 2 faults, fair; 550 thousand states | `TypeOK`, `ServesSynced`, `ServesReachable`, `ServesWithSecrets`, `EventuallyServes` |
| `tree_removal` | 3 calls, a tree of 4 nodes and depth 2, fair; 220 thousand states | `TypeOK`, `QuietRemoval`, `RemovalSpec` (refinement of `TreeRemoval`), `DeleteEnds` |
| `merge` | 2 installations: one with all shapes of its client's document and its `mantl.json`, the other sharing `apiConfig`; 1.1 million states | `TypeOK`, `MergedAsLayered`, `ApiIntact`, `SharedWrites` |

`monitor` checks `ConsulMonitor` and `InstallQueue` at once, the second extending
the first. `lifecycle` chooses a set of faults in the initial state, once and for
all (`Scenarios`, `faults`): `SuccessIsClean` and `CreatedMeansInstalled` say of
which behaviours they hold, the others of all. In the same way `EventuallyServes`
names the configurations it is about (`Workable`), and `TimestampMeansComplete`,
`AloneIsFresh` and `RepositoriesSpec` except the sources that some walk failed to
read (`unread`).

Each of the other runs is expected to fail, and shows a disagreement of the
code with what it or its documentation says:

| Run | Property | The code |
|---|---|---|
| `listing_status` | `NotFoundMeansAbsent` | a failed listing counts as an empty one (`marathon.go:119`) |
| `zookeeper_error` | `StateRemoved` | the error of the deletion is dropped (`install.go:211`): one failed call is enough |
| `framework_lingers` | `FrameworkRemoved` | the framework is looked up once, while the scheduler still runs (`install.go:152`); nothing needs to fail |
| `newest_version` | `NewestChosen` | directories 9 and 10 are compared as strings (`package.go:24`, `catalog.go:44`) |
| `sync_unreadable` | `StampedExists` | the error given to the walk's callback is ignored (`source.go:62`) |

Five more the models show, in steps of their own, without a run that fails:

- `state()` looks at no status, so an error in JSON reads as a cluster without
  frameworks and an uninstall answers 204 with its framework left
  (`mesos.go:187`; the fault `"mesos"` of `Lifecycle`, which `SuccessIsClean`
  has to exclude);
- a `Get` that fails counts as an absent file, so a definition may lose its
  `mantl.json`, and with it all the client's options, and be installed
  (`package.go:432`; `failed` in `Definition`);
- a process that cannot read its configuration file fills index 0 from the default
  source, and no later process puts the file's source of index 0 there unless it is
  forced to (`main.go:278`, `install.go:174`; the second exception of
  `ServesSynced`);
- a wrapped token is used up by the first process that starts with it, and every
  later one ends in `initVault` (`main.go:184`; `Workable` excludes it);
- `mesos-secret` is taken from Vault and used for nothing (`main.go:135`, against
  lines 106 and 122 of the README of the repository; `ServesWithSecrets` excludes it).

Why the bounds are enough. The races of the monitor need two processes, two
writes of one key, and one more key for the order of the loop. Those of
`Lifecycle` need two uninstalls and an installation between their calls, hence
three requests, and two ids and packages to see the wrong one touched. A
synchronisation goes wrong by overlap with one other, by a revision between two
reads, and by one crash, all on one source; the second source is there for what
follows in the loop of `SyncSources`. A definition goes wrong by a file written
between two reads, by a repository that appears between the catalogue and the
reading, and by the choice between versions: two repositories, two versions and
two synchronisations, of the same repository or of both, and a file before
`package.json` in the walk for each rule of layering (`config.json` and
`mantl.json`). Calls
that remove a tree trip over each other in pairs; a third sees what two leave. A
node with a child beside one without shows the order of the deletions. Two keys
for one app are what two requests for a package are, and one late call is enough
to bring an app back. Three constraints keep that instance small: one fault in all
(`OneFault`), since each race here needs one only, one late call at a time
(`OneLate`), and the folder key written at most once (`FolderOnce`), since nothing
reads its value. Configurations merge within one installation, whose
documents are enumerated but for `config.json`, of which three shapes show what
the defaults do below a client's and a package's say; a second one can only meet
it in `apiConfig`.
A start goes wrong by one failure and any number of kills, at any place, and by
another failure in the next process; a source beside the default on one index, and
one on an index of its own, are what the repositories can come to. The theorems do not depend on these bounds.

`MCDefinition` stops exploring (`Undecided`) behind a state in which a `Get` has
failed, an empty file has appeared or the request is answered. Behind a failure
or an answer every property but `TypeOK` is void or has been checked, and what is
left of the synchronisations cannot change that answer. Behind an empty file
`RequestHonoured` and `NewestChosen` still claim something; what they say there
is proved and not run. `RepositoriesSpec` does not look at the request, nor at
what is written but for its being there, so nothing new is behind such a state:
every order of the writes comes while the request has yet to begin. The symmetry permutes texts and synchronisations, which
no operator tells apart.

Deadlock. `InstallQueue`, and the monitor in it, never stops and is checked for
deadlock. The others may: every request has been answered, every source
synchronised, every call returned, or the daemon serves and nothing is left to
happen to it, and the bounds on revisions, synchronisations and failures are used
up; `ConfigMerge` also ends with its process.

Fairness. `InstallQueue` (`CallFairSpec`): the ticker fires and calls of Consul
return, so the steps of `Watch` go on; Marathon keeps `"instances": 1` (README of
the repository, line 81) running, so a process that went down comes back; but
only the calls of the processes in `Answering` are answered. Nothing is assumed
of clients and faults, whose number is bounded. `Lifecycle` (only in runs that expect a
violation): handlers go on, Marathon starts and ends tasks and schedulers write
their state; failover timeouts need not pass. `SourceSync`: synchronisations go
on and Marathon restarts the daemon; nobody has to run the command again. `Startup`: remote
calls return, Marathon restarts the task, and a peer that stopped is started
again; nothing is assumed of health checks, which may fail at any time and for ever. `ZkDelete`: ZooKeeper, or its client
library, which has a session timeout, answers every request; nothing is assumed of
schedulers. `Definition` and `ConfigMerge` state safety only and assume none. That
remote calls return is an assumption on the environment: the HTTP client has no
timeout, so the code does not guarantee it. `InstallQueue` does without it for
one of its processes, and `QueueDrains` shows what is left then: a process that
waits for ever for Marathon holds up no other one.

## Proofs

All theorems hold for every value of the constants that the modules' ASSUMEs
admit.

`ConsulMonitorProofs`. `NoSilentLoss` is not inductive: a deletion must know
that the pair now stored under the key is the one in the snapshot, or handled,
or a racing one. `LossInv` adds that indexes grow (`Indexed`), that a pair in
Consul with the key of one held by some process is that pair or one written
while it was held (`StaleIsRacing`), and that a process about to delete has
handled the pair it is at (`CurrentHandled`). `IInv` further counts attempts:
an attempt on a pair beyond the faults of a process means that the pair is out
of its reach. From these follow `RequestsNotLost`, `InstallsBounded` and
`ImplementsQueue`, the last by showing that every action is a step of
`RequestQueue` or a stutter: `Delete` is `Acknowledge` of the pair in hand, and
`CurrentHandled` is why that is allowed.

`LifecycleProofs`. `FoundPast` says what an uninstall knows of the app it
found: before it destroys the app of that id no older one can be there, and
afterwards only newer ones, because Marathon holds one app for each id and
generations grow (`AppsOrdered`). That is why a framework or a ZooKeeper state
that an uninstall removes by name from an installed app belongs to a later
incarnation (`UninstallSparesOthers`). `EffectsDistinct` says that the apps
destroyed by uninstalls on their way to 204 have left Marathon and are
pairwise different, which gives `EveryUninstallRemoves`.

`SourceSyncProofs`. `TimestampMeansComplete` is not inductive: when the
timestamp is written, the process must have behind it every lasting file of its
source, and the name. `CompleteInv` says so of every point of the walk, with
`SourceInv` (a lasting file is in the directory and in every clone, and what was
read is no older than the beginning) to show that the walk passes no lasting
file by. `AloneInv` says that a process without `overlap` is the only one on its
index; so the files behind its walk are as new as its beginning (`FreshInv`)
and those before it no newer (`OlderInv`), from which `AloneFresh` and
`AloneMonotone` follow. `RepositoriesKept` maps every step to one of
`Repositories` or a stutter: the file in hand is the first that the walk has left,
so by `CompleteInv` the lasting files before it are there. `ReadersFindOrder` then
reads off `Repositories` what every reader finds: with a file the lasting ones
before it, with the name all of them, with the timestamp the name.
`TimestampsComplete`, `AloneMonotone` and these two assume that the indexes are
distinct, the others nothing. The code
does not see to that: two sources configured without an index share index 0
(`main.go:295`), its files and its timestamp, so that the second is never
synchronised. Every property about files but `NoRegressionAlone` excepts a source
in `unread`, which `sync_unreadable` shows to be necessary.

`DefinitionProofs`. Everything follows from two orders and from files being
added or replaced but never removed. A request reads repositories upwards, so
whatever a repository still to be read holds will override what it has: for
each file, either a repository still to be read holds it, or what the request
has is what the layering gave at some moment since the repositories were listed
(`ReadingInv`, `CurrentInv`), and at the end nothing is left to be read
(`DefinitionIsCurrent`). A `mantl.json` that the catalogue saw is still there
when the files are read (`StoreInv`, `CatalogInv`), in a repository that was
listed, which gives `OptionsNotMissed`. A synchronisation writes in the order of
the walk, so a `package.json` in Consul has the files before it beside it
(`WalkInv`), and this is so of the version chosen (`CompleteInv`):
`ListingIsComplete`. The same invariant gives `RepositoriesKept`: the file that a
synchronisation writes has the earlier ones there, and no two directories share a
rank (`RankDistinct`).

What is chosen is a matter of the order of the keys. A directory that has held
the version wanted since the listing is either still to be looked at or the
version is known (`HonourInv`), so it is found by name: `RequestIsHonoured`.
While nothing is written, what the catalogue knows is what is in Consul, but for
the keys to come (`NewestInv`), and a version that two keys give has one
directory (`OwnNames`). The choice is then the last of the supported keys, or the
first in the sort, and since a set of keys has a highest one (`HighestKey`, by
the well-foundedness of the naturals) that is the newest: `NewestIsChosen`. It
has a hypothesis on the constants, `SameOrder`: the numbers of repositories and
directories sort as strings as they do as integers. The instance of
`definition_read` meets it, that of `newest_version`, with directories 9 and 10,
does not, and there the property fails.

`LifecycleProofs` also has `CreatedIsInstalled`, about the behaviours in which
Marathon refuses only with 409 or a failed call, and `SuccessLeavesNothing`. The
latter rests on `Cleaning`, which says stage by stage what an undisturbed uninstall
has still to remove. When it has looked the framework up, the app it destroyed has
no task but the one whose framework it will tear down; so at `post` there is
neither task nor framework, and since only tasks register and write
(`CleanCluster`), neither comes back. State that is still there when it is done is
another deletion's: one that overlaps and has yet to end, or a disturbed one, or a
call failed (`StateOfOthers`), and no step but the end of that deletion changes this
(`OthersKept`). The runs that expect a violation show that the exceptions are
needed.

`InstallQueueProofs`. Every step of the composition is a step of the monitor or
a stutter (`MonitorStep`), so what `ConsulMonitorProofs` shows is inherited.
`Waiting` adds that a process waits for the pair it is about to delete, and
`CurrentAnswered` that a deletion without a call in progress is of an answered
pair: `AcknowledgesAnswered`. `GoneInv` says of a removed app that nothing
outstanding asks for it, and every way into `Outstanding` is a client who asks.

`ZkDeleteProofs`. `QuietRemoval` is not inductive. While nothing fails and nobody
writes, a call that lists has every node in its list or below a node it will
still ask for (`ListInv`), so a call that has left the listing has them all
(`DeleteInv`); and a call that stumbled over a missing node leaves another one
deleting, or the root gone (`Finishing`). `NilInv` counts the answers.
`RefinesRemoval` needs only that no node outlives its parent (`Rooted`).

`ConfigMergeProofs`. A key is pending when a call of `mergeConfig` has yet to
come to it or to one above it; at pending keys the decoded files still hold
nothing but their own maps. So the client's document and the defaults are merged
into fresh maps only (`UserPhase`, `ConfigPhase`), a reference to `apiConfig` in
a client's maps is the mark of an overlay (`UserMaps`), and what is written into
`apiConfig` comes from `apiConfig` (`ApiPhase`): `ApiStaysIntact` and
`SharedWritesHold`, for any number of installations and any documents.

`MergedIsLayered` says what comes out. `ValueInv` gives, for each layer that a
pass is merging and each field, the value that stands where the maps of
`mantl.json` and of the defaults lead by now (`UserValues`, `ApiValues`,
`DefaultValues`), in terms of the documents as they were first read: what has
been merged has its final value, what has not is pending and, by `IInv`, as it
was decoded. `apiConfig` has a map at `mantl` and at `zookeeper` and a value at
`hosts`, so of the three layers above the defaults only the balancer is left
(`AskedBalancer`). `OverFields` reads the same off the layering of documents
(`AskedFields`), and `ReturnValues` compares the two at the end of a pass. A step
of another installation changes no map that these values hang on
(`OtherValues`), although it may write `apiConfig`, because it writes there what
is there.

`StartupProofs`. The invariant follows the order of `start`, stage by stage:
`SyncInv` (no source leaves the list before its index has a timestamp and its files
are there, unless they could not be read or another source shares the index: a
source is stored or has been replaced, `RepoInv`), `PeerInv` (a failed
query leaves the fallback, and Mesos's does not pass `NewInstall`) and
`SecretInv`.

Every invariant and every refinement that a passing run checks is proved. Only
model-checked is liveness (`QueueDrains`, `EventuallySynced`, `EventuallyServes`,
`DeleteEnds`), which is out of the prover's reach, as is everything about ENABLED.

## Not modelled

The parsing of flags, environment and TOML, TLS settings, URLs and headers,
logging and the version command: I/O without state of its own. Mustache rendering
and the vendored clients are third-party code, and what `transformers.go` makes
of a number or an array is formatting; of it only the panic and the access to
`apiConfig` are in the models. The read-only endpoints answer with what one remote
call or the catalogue gives. `CompletedFrameworks` and `logHTTP` are called by
nothing that changes state.

Hazards without a property, each with its reason in `PROJECT.json`. Some are in no
step of the models: files that have gone from a source are never deleted from
Consul (`source.go:72`); the Mesos leader is looked up once (`main.go:125`); ten
repositories sort differently in the catalogue and in the reading
(`catalog.go:36`). Others are steps of the models that the properties have to
except, because the code promises nothing then: what an uninstall leaves that
fails half way (`install.go:155`), an app that Marathon refuses or whose answer is
lost (`marathon.go:137`, `143`), a Mesos that hides its frameworks (`mesos.go:187`),
two sources on one index (`main.go:295`), a `Get` that fails (`catalog.go:133`,
`package.go:432`), configurations that cannot start (`main.go:184`, `209`,
`consul_monitor.go:12`), a client's options for a package without a `mantl.json`
(`package.go:223`). Every status but 409 of Marathon counts as a
created app (`marathon.go:146`) and the shutdown handler answers 202 before its
call (`api.go:221`): both are in `Lifecycle` as the code has them. That the
framework flag of a package is that of the last version read (`catalog.go:85`)
and that each request to Marathon or Mesos makes a transport of its own
(`http.go:114`) is in no model.

Where the modules meet: `Lifecycle` has the end of a removal of a tree, with what
`ZkDelete` may leave by then (everything gone, where `QuietRemoval` applies; any
part, where it does not); `Definition` takes
the merging for one step that succeeds or fails, and `ConfigMerge` begins with
what it has read; `Startup` has the beginning of a synchronisation and its
timestamp, and takes the files for complete by then unless something could not be
read, which `TimestampMeansComplete` justifies; a call of `Lifecycle` that fails has
taken effect by then or never does, while in `InstallQueue` it may do so later; `SourceSync` and the writers of `Definition`
meet in `Repositories`.

## Plan

What is left: two `Lifecycle` requests against a Mesos whose leader changes.
