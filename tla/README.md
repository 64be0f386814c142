# Trento in TLA+

Trento is a web console for SAP systems that run on high-availability clusters.
This directory holds TLA+ specifications of what happens over time in its Go
code: how discoveries travel from the hosts to the pages, how the health of
hosts and clusters is computed, and what is left of all this when processes
die, requests are late and several actors write to one place. Each module is
model-checked with TLC on small instances; theorems about twelve of
them are proved with TLAPS for every value of their constants.

Paths are relative to the repository (`src/`). Definitions keep the names of the
functions they model. `PROJECT.json` has, for every definition, the lines it
models, and for every property a mutant: a plausible bug in the code that makes
the property fail.

## 1. The system

| part | state it keeps | operations | talks to |
|---|---|---|---|
| agent (`agent/`) | ticker, status of the tick, a registered service with a TTL check | Start, register, tick through five discoveries, update the TTL, deregister | Consul, collector |
| agent's consul-template runner (`agent/consultemplate.go`) | rendered file | render on a change of metadata, reload the Consul agent | Consul |
| agent's heartbeat (`internal/heartbeat.go`, `internal/utils.go`) | ticker | POST every 5 seconds | collector |
| Consul key-value store (`internal/consul`, `internal/cluster`, `internal/sapsystem`, `internal/cloud`, `internal/hosts`) | a tree for each cluster and SAP system, metadata of each host, a lock | Store (delete and put), Load (wait and list) | agents write, web and runner read |
| collector (`web/collector.go`, `web/services/collector.go`) | `data_collected_events` | store an event and send it on an unbuffered channel | worker pool |
| worker pool (`web/datapipeline/worker_pool.go`) | a semaphore, goroutines | receive, project, drain | projectors |
| projectors (`web/datapipeline/`) | `subscriptions` (a cursor per projector and agent), read models | one transaction per projector and event | PostgreSQL |
| health of a host (`web/services/hosts_next.go`) | `host_heartbeats` | upsert, compute the health from the age | heartbeat |
| lists and tags (`web/hosts.go`, `web/clusters.go`, `web/hosts_next.go`, `web/tags_api.go`, their services) | `tags` | a list: load, filter, enrich, offer choices, count, cut a page; add or delete a tag | Consul, PostgreSQL |
| pages of SAP systems (`web/sapsystems.go`, `web/services/sapsystems.go`) | none | tables and details from all the hosts' trees | Consul |
| page of a cluster (`web/clusters.go`) | none | nodes, sites, resources, SBD from the cluster's tree | Consul |
| checks service (`web/services/checks.go`, `web/checks_api.go`) | `checks`, `selected_checks`, `connection_settings` | catalog, settings, aggregated results | runner, ARA |
| runner (`runner/`, `api/`) | ansible inventory | start with the catalog playbook, tick: inventory, playbook, record | API, Ansible, ARA |
| settings and telemetry (`web/services/settings.go`, `web/telemetry`) | an identifier; none | find or create it at start; extract and POST every day | PostgreSQL, collection service |
| pruning, CLI, other pages | nothing | single statements | PostgreSQL |

What is hard in it, and what makes a part correct:

* **Projectors.** A hundred goroutines project the events of one agent in any
  order; what keeps an old discovery from overwriting a newer one is a cursor
  read with `SELECT ... FOR UPDATE` in the same transaction that writes. Correct
  is: a call takes effect at once or not at all, in the order of commits, and
  nothing newer is undone.
* **Worker pool.** Channel, semaphore, `errgroup` and a drain with a timeout meet
  on shutdown. Correct is: bounded parallelism, no lost permit, no request that
  hangs, a shutdown that ends, and accepted events that are projected.
* **Key-value store.** A store is a delete and many puts, under a lock whose loss
  nobody watches; readers only wait for it. Correct is: one writer at a time, whole
  trees for readers, and a lock that is released, up to what the loss of a
  session makes unavoidable.
* **Heartbeat.** Two clocks that are not synchronised and a threshold of two
  intervals. Correct is: no false alarm, and no dead host that stays green.
* **Checks.** Settings, catalog, inventory and results are each as of another
  moment. Correct is: a record has what was selected, and green means no problem.
* **Agent.** Any discovery may fail, any answer may be lost; the TTL must not
  expire by accident, and must not hide that discovery has stopped working.
* **Page and row of a cluster.** Two copies of one computation, on data that was
  perhaps discovered in part. Correct is: they say the same of it.
* **SAP systems.** Trees that are never deleted, metadata whose empty values are not
  stored, rows that are only upserted, and pages made of all of them. Correct is: what
  is installed is shown as it is, and no link leads nowhere.
* **Lists.** Many queries for one answer, without a transaction. Correct is: what held
  during the whole request is in it, and nothing that never held.
* **Identifier and telemetry.** Find-or-create without a constraint, a POST without a
  timeout. Correct is: one identifier unless something explains a second, reports in the
  end, a shutdown that ends.

`PROJECT.json` lists 23 components and 40 hazards with their lines; a hazard with
no property says why.

## 2. Modules

| module | models | composed with |
|---|---|---|
| `ReadModels` | events, projectors, cursors, the cells each handler writes, as operators | |
| `Projector` | transactions of `projector.go`, statement by statement, on PostgreSQL's row locks | extends `ReadModels` |
| `Projection` | abstract: a call takes effect in one step | implemented by `Projector` |
| `DataPipeline` | collector, channel, pool, drain, shutdown, crash, restart | instantiates `Projector`, its workers being the goroutines |
| `ClustersStore` | lock, Store and Load of the clusters subtree | |
| `Heartbeat` | agent's loop, POST, upsert, health, over time | |
| `ChecksRunner` | settings, catalog, runner, callback, ARA, health | |
| `Agent` | registration, ticks, discoveries, metadata, consul-template, TTL | extends `Discovery`; assumes `ClustersStore` and `DataPipeline` |
| `Discovery` | what each discovery asks its host, and which missing answers fail it | |
| `ClusterDetails` | what is discovered of a cluster, its page and its projected row | |
| `KeyValue` | nested data as flat keys with flags, and back | |
| `SAPSystems` | SAP systems from the disks to Consul and to the read model | extends `KeyValue`; assumes `ClustersStore` and `DataPipeline` |
| `SAPPages` | the pages made of them | extends `SAPSystems` |
| `Pagination` | the arithmetic of pages | |
| `Console` | lists, filters, choices, counters, tags | extends `Pagination` |
| `Telemetry` | identifier, engine, publisher, several web processes | |
| `MC...` | constants for TLC | |
| `Lists` | what is kept of a list, one field of its records, a map with one entry set | extended by `SAPSystems`, `Console` and `ClusterDetails` |
| `ProjectorProofs`, `DataPipelineProofs`, `ChecksRunnerProofs`, `AgentProofs` | theorems of the module they are named after | each extends that module |
| `ServicesProofs` | theorems of `Heartbeat`, `Telemetry` and `ClustersStore` | extends the three |
| `ListProofs` | theorems of `Pagination`, lemmas about `Lists` | extends both |
| `PagesProofs` | theorems of `SAPPages` and of `KeyValue`, which it extends | extends it and `ListProofs` |
| `ConsoleProofs` | theorems of `Console` and `ClusterDetails` | extends both and `ListProofs` |

Modules whose theorems are in one module have no name in common: the specification is `StoreSpec` in `ClustersStore`,
`TelemetrySpec` in `Telemetry` and `DetailsSpec` in `ClusterDetails`, and so on; elsewhere it is `Spec`.

Names with a suffix after an underscore, as in `SkipOld_OffByOne`, are the
mutated forms; no specification uses them.

### Projector, Projection, ReadModels

`pc[w]` is where worker `w` is between two statements; `Statements` are the places at
which it holds a transaction. `SelectForUpdate` reads the cursor and keeps the row's lock, if
there is a row; `SkipOld` is the early return for an id that is not newer;
`UpsertSubscription` waits for a row that another transaction locks or has
inserted without committing; `Handle` adds the handler's cells to `writes`, and waits for a cell
that another transaction writes; `Commit` makes cursor and writes visible
together; `HandlerError`, `Fail` and `Crash` leave no trace. The read models are
*cells*, each holding the id of the event it was written from, so that "undone"
and "lost" can be said. The payload is reduced to what decides which cells are
written: cluster, instances, and whether it can be decoded.

`Projection` has the same cursor and cells and no transactions. `Projector`
implements it with the identity on them (`ImplementsProjection`), for any initial
`subscriptions` table: where the row was there from the start the abstract calls follow the order of the events, where
it was not they follow that of the commits only.

### DataPipeline

`stage[e]` follows an event: unsent, rejected, sending (stored and blocked on the channel),
received (in Run's hands, answered 202), running, done, or discarded or lost. `pool` is
the place in `Run`, `process` that of the process: serving, stopping (context done),
closed (servers shut down), down. `Restart` starts a process with the tables of the
dead one; nothing replays events, as in the code. An action of the pipeline that
touches the tables is an action of the instance `P` of `Projector`, the others leave them alone: on `Projector`'s
variables its behaviours are that module's by construction, so nothing is left to check there. What `Run` itself
promises is checked: `DrainIsComplete` says that a drain which ends in time has waited for every event in the pool's hands and every
transaction, `AcceptedIsProjected` and `ShutdownEnds` are its liveness. Both the semaphore's permits and the event Run has taken off
the channel while it waits for one count for the first. `Exit` waits for Run, the collector and the web server, not for the telemetry engine of the same
`errgroup` (`app.go:266-275`), whose end is `StopEnds` of `Telemetry`.

### ClustersStore

A tree is the version of the cluster each key was written from, 0 for a
key that is absent. `AcquireLockKey`, `DeleteTree`, `Put` (one key, in any order, as the
code ranges over a map) and `Unlock` are Store on the designated coordinator, which
may change; `WaitLock` and `ListMap` are Load. `LoseSession` ends the session of a writer
that goes on, `AgentDies` leaves its session to expire. History variables record whether a Store
was cut short (`spoiled`), outlived its session (`lost`) or whether the lock was taken after a
reader had waited for it (`raced`): the properties say that these are the only causes of
torn trees.

### Heartbeat

Time passes in seconds; every duration is an age that stops counting where it makes
no difference. The ticker has a buffer of one, as Go's, so a tick that takes long is followed by one at once.
A POST that a fault disturbs is lost, hangs until its connection is given up, or is left
behind by a process that dies; the server stamps it (`time.Now`) and stores it in two steps.
The hosts are independent, so there is one.

### ChecksRunner

The runner's `pc` goes through Start, the upsert and deletion of the catalog, and ticks: the inventory is
fetched cluster by cluster (`todo`), with the selected checks and each node's connection user as they
are stored at that moment, the playbook runs, the callback records. A user's save is as many
statements as in the code, and the form it is made from may be older than the catalog. Ansible knows
hosts by name, so two clusters that share a node name share a host. Outages of the web
application and of ARA, errors and crashes come at any point.
`record` is the newest record of results, which is all that is shown; a record remembers what
the settings answered (`answers`), which the properties compare it with.

### Agent

What a discovery finds is the version of its topic on the host; some versions stand for "not
there". The places of `pc` are those of `Start`, `startDiscoverTicker` and a
discovery's Store, metadata and Publish. Each may fail, overrun its period, or die.
A tick is a period, and `silent` counts periods since the check was updated. Published
events wait in `pending` for each projector and are projected in any order, the older
being skipped; `late` are requests the agent gave up that still reach the server.
`Discovery` says
which questions a discovery asks (files, commands, the metadata service) and what a missing answer
does to it; `broken` is the set of questions the host does not answer at the moment.
Four simplifications: the host is the designated coordinator of its cluster (another
host's Store returns at once); the agent has been projected before, so that the race of finding 1
does not hide everything else; a topic is one value; the version of the agent, which
is stored once at start with its error ignored (`agent.go:125`), is no topic.

The comment at `agent.go:163-166` speaks of 15 and 60 minutes; the default period is
two minutes (`cmd/agent/agent.go`). No property depends on it.

### ClusterDetails

The state is the cluster's: resources with the node they run on and flags, fail
counts, the attributes SAPHanaSR sets, SBD's configuration and devices, and `answers`, whether each
tool answers in whole, in part or not at all. `NewCluster` is what the agent makes of it, `ClusterRow` and `Page` what the projector and the
page make of that. The two were written as copies, and each has its operators here; where the code is
still the same text they share one. They differ in the SID they take, in
IP resources without attributes, in missing values, and in resources that run nowhere.

### KeyValue

Data is a tree from paths to nodes, the store a function from keys to values with flags. `PutMap` and
`ListMap` go one way and the other; keys are ordered as Consul orders them, as text, which is why the
segments of a path are sequences of digits or names (`Code`). `Reloads` says that a tree comes back, up to empty values.

### SAPSystems, SAPPages

`disk` is what is installed on each host; `NewSAPSystem` is what `internal/sapsystem` makes of it, with profiles that cannot be read,
instances that do not answer and identifiers that cannot be determined.
A tick stores the trees one after the other, then the metadata (three puts, of which any may be missing after a failure), then
publishes; the projector upserts a row per instance. `SAPPages` has the tables, the databases attached
to an application and the details of a system as functions of what Consul has at any moment.
`torn` names the systems whose tree a failed Store has deleted and not put again.

### Pagination, Console

`Console` runs one request for a list through its queries (`pc`), as each handler makes them: hosts and clusters from Consul,
the health of each host one by one, tags, the choices of the filters, counters, the page. Between any two of them
a host may go or change, a cluster come, a health change, an editor add or delete a tag, and a query fail. `ever` and `always` collect what held at
some moment and at every moment of the request, so that the properties can say regularity.
What is on a list must have met the filters that the code applies; of a cluster's name, type and SIDs that is the last given.
`Pagination` has the float division, truncation and slice of `web/pagination.go` over all integers, and the offset and
limit of the queries that cut a page themselves (`web/services/pagination.go`): gorm leaves out one that is not positive, but the product of
a page and a size that are both negative is, so that such a request skips rows without a limit.

### Telemetry

Any number of web processes on one database, as there are during a rolling update. `First` and `Create` are two statements, and an
error of the first looks like an empty table, as in the code. The engine ticks at once and then daily; a POST succeeds, fails
with or without having arrived, or hangs. `excused` is a history variable: a lookup failed, or two processes were between
the two statements.

## 3. Runs

`pass` runs check every reachable state; `violation` runs show a finding.

| run | instance | what it shows |
|---|---|---|
| `projector` | two workers, two nodes of one cluster, three projectors, undecodable events, a SAP systems projector new to its agents, statements that fail and a process that dies | transactions implement atomic calls; cells are explained by committed calls; no newer event of a known subscription is undone; per agent, the cluster's row keeps the order; only first contact makes a cursor go back; calls end |
| `pipeline` | three events, two permits, two projectors, two runs of the process | a drain in time leaves nothing accepted in the pool and no transaction open; accepted events are projected unless the process stops; the shutdown ends |
| `pipeline_first_contact_race` | first two events of an agent | finding 1 |
| `clusters_store` | one cluster of two nodes, two keys, one reader, three versions, three faults | writers exclude; trees are whole; the store catches up; the lock is released |
| `heartbeat` | interval 5 s, POST up to 2 s, restart after 5 s, five faults | no false alarm; death is noticed; stamps do not go back; passing in the end |
| `checks` | two clusters sharing a node name, one of them on Azure, an upgrade of the runner, one save, one fault | green means no problem; results are of the settings as answered; the results page explains the health; settings take effect |
| `agent` | cluster, cloud and subscription discoveries, two versions of each, at the second of which cluster and cloud are gone, two questions that may go unanswered, two events pending, one fault | the check passes only on a recent good tick and does not expire by accident; copies catch up |
| `cluster_details` | two nodes, scale-up and scale-out layouts and one without HANA, zero to two SIDs, one resource that fails, SBD configurations, up to four changes | row and page agree |
| `cluster_stopped_resource` | the same, three changes | finding 2 |
| `sap_systems` | two hosts, an application that may stop or lose its id, a database with eleven tenants on both or either, one change and one failure | pages show what is installed; links lead somewhere; rows cover pages; trees are reloaded; all catches up |
| `console` | two hosts that differ at first in their SIDs and health, three clusters, three SAP systems, one editor, a request for each list with each kind of filter and page, one edit, one other change, one query that fails | what is listed met the filters that count and what met them all is listed; what is offered, counted, and which page of it |
| `telemetry` | two web processes, four starts, one fault | a second identifier is explained; processes agree; hosts are reported; a stop ends |

Why the bounds are enough. The projector's hazards are between two transactions on
one row; a second newer event and a third projector give each of them a later and an independent
call, and the theorems hold for any number of workers and events. An older and a newer
event of one type, one of another type of the same agent, and one of the other agent cover
every way two calls relate. Two permits and three events fill the pool while Run holds
an event. One cluster, two nodes and two keys are the least in which writers overlap and
a tree can be torn; the theorems hold for any number. In `agent` a topic that changes once
is old, new or absent in each copy independently; one fault and one broken question suffice to
part any two copies. Time in `Heartbeat` is exact: `Interval` and `RestartDelay` are the code's constants.
In `checks` one save between two requests makes inventory and settings differ, and one fault cuts each
sequence of statements once at each place. Eleven tenants in `sap_systems` are what it takes for
an index to have two digits. `SystemsOn` holds what discovery makes of each
content of the disk, so that it is computed once. In `console` the hosts may change to
the same state, and one edit and one change are what can come between two queries of one request; a
second request would only repeat it, since requests share no state but the tables. Two processes in `telemetry` race for the
identifier, and four starts let each come back to what the race left.

`CHECK_DEADLOCK FALSE` is given for the projector, the pipeline and the telemetry: they stop when every
event has been called for, when the process is down for the last time, and when the starts
are used up or a POST hangs for ever. No other run may deadlock.

### Fairness

* `Projector`: a worker that can proceed does (`Proceed`): a goroutine in a transaction gets answers
  from PostgreSQL, and a lock it waits for is free when its holder ends. Beginning a call,
  failing and crashing are not fair.
* `DataPipeline`: goroutines run, the semaphore wakes waiters, contexts and timeouts fire,
  the servers close. Clients promise nothing; nor do signals, crashes and restarts.
* `ClustersStore`: discovery, acquisition, deletion, puts and unlock are fair, for agents
  tick forever, and so is the expiry of a dead session. Weak fairness suffices for the lock with one cluster; with
  several, a waiter may starve under it, since nothing orders Consul's waiters.
  `StoreCatchesUp` is claimed for one.
* `Heartbeat`: time passes, systemd restarts the agent (`Restart=on-failure` of its unit), timers fire,
  POSTs that nothing disturbs are handled, hung ones are given up at last.
* `ChecksRunner`: the runner's steps, a save that has begun, and web and ARA coming back: their containers are restarted.
* `Agent`: systemd starts it again after a crash (`Restart=on-failure`), and whoever stopped it after a stop; goroutines that can run do, time goes on, Consul expires checks,
  a question that is not answered is in the end (someone puts the host right), a discovery that it fails is a tick's step like one that succeeds,
  and events in the pipeline are projected or lost. A POST is answered or fails; one that
  hangs for ever, which the client does not rule out (`client.go:91`), is counted as an overrun.
* `SAPSystems`: each agent's ticks go on and what is published is projected, each weakly fair.
* `Telemetry`: a process that is neither down nor hung goes on, weakly; `Done` is strongly fair, because Go's `select` in
  `Repeat` takes one of the ready cases at random and so does not prefer the ticker for ever.
* `ClusterDetails` and `Console` have safety properties only.

Faults are bounded by `MaxFaults` so that they stop; liveness is about what follows.

## 4. Proofs

| module | theorem | says |
|---|---|---|
| `ProjectorProofs` | `TypeCorrect` | types |
| | `LockingCorrect` | row locks exclude, and what a SELECT found stays current until commit |
| | `RegressionNeedsFirstContact` | a cursor goes back only by a transaction whose SELECT found no row |
| | `SeededCursorMonotone` | with existing rows no cursor goes back |
| | `NothingLost` | for any initial table, nothing newer is undone where the subscription had a row, and what was skipped was superseded |
| | `NothingUncommittedShows` | every cell was written by a call that committed |
| | `ClusterRowKeepsOrder` | a cluster's row goes back to an older event only of another agent, where the agent's subscription had a row |
| | `Refinement` | for any initial table `Projector` implements `Projection` |
| `DataPipelineProofs` | `PoolKeepsCount` | for any events, permits and restarts, no more transactions are open than there are permits |
| | `CleanDrain` | a drain that does not time out leaves no accepted event in the pool's hands, nothing running and no transaction open |
| | `NoProjectorPassedOver` | an event that is done has an outcome from every projector that handles it |
| `ServicesProofs` | `TreesTypeCorrect`, `Exclusion` | types of `ClustersStore`; two writers only after a lost session |
| | `StoreIsWhole`, `LoadIsWhole` | trees are whole between Stores, and for readers nothing disturbed |
| | `TypeCorrect`, `NoFalseAlarm`, `DeathIsNoticed`, `StampIsMonotone` | types of `Heartbeat` and its three safety properties, for every interval and delay with 2 * Delay <= Interval and Delay < RestartDelay |
| | `OneIdentifier` | for any processes, starts and faults, a second identifier is explained |
| | `ReportsAgree` | reports are under identifiers of the table; processes that found the same table agree |
| `ChecksRunnerProofs` | `ResultsOfTheSettings` | a record has on each host the results of what the settings answered for a cluster of it, as the user they named |
| | `GreenIsNoProblem` | green means a check that passed and no problem on a host that was reached |
| | `PageHasEveryCheck` | the results page has every check that counts |
| `AgentProofs` | `NoOldPass` | the check passes only on a recent good tick, or as inherited from an agent that died |
| | `TTLIsEnough` | the TTL of an agent that keeps to its period does not expire |
| | `ShownGoesForward` | what is shown goes back only by a request the agent had given up |
| `PagesProofs` | `PageShowsDiscovery` | what a complete discovery found is on the pages, with its instances on that host and no others |
| | `PagesBehindMetadata` | every identifier in the metadata has a page, every host on it the tree, unless a Store of it failed |
| | `RowsBehindPages` | every numbered instance of a discovery that is both stored and projected has its row |
| | `PutMapReloads` | what `PutMap` writes of a tree `ListMap` builds again, but for empty values, for every well-formed tree |
| | `StoredIsReloaded` | every tree that is stored is read back so, unless its profile gives a parameter twice |
| `ListProofs` | `SliceInBounds` | for every length, every page asked for and every positive size the slice is within the list |
| | `EveryElementOnOnePage` | each element is on exactly one of the pages that have a link, and such a page is shown as asked |
| `ConsoleProofs` | `ListsAreRegular` | what meets the filters of a list all the time is on it unless a query failed; what is on it met at some time those of tags and health and the last of name, type and SIDs |
| | `ChoicesAreRight` | each choice offered was at some time of what the list is of, but for the tags of two lists, which may be of anything; none of an element that it had all the time is missing |
| | `PageIsCut` | the page of hosts is cut without a panic, as the footer marks it, with every host that belongs on it |
| | `FooterCovers` | the footer counts to the end of the list, counters of health are of what was there |
| | `RowAndPageAgree` | the projected row of a cluster says what its page says wherever both can be made |

They rest on the assumptions named in the modules that declare the constants, which TLC evaluates in every run that uses them.
Most say what type a constant has. Those that say more:

* `EventsAssumption`: events have different ids, which the table's serial column gives them.
* `ClustersStoreAssumption`: every cluster has a node, and a tree has at least one key.
* `ChecksRunnerAssumption`: every cluster has a node, and "no row", "no answer" and "unreachable" are not among the users, the answers and the results.
* `IdentifiersAssumption` (`SAPSystems`): an identifier is of systems of one kind, none is `"-"`, and no host has two installations with one.
  They are hashes of a HANA landscape's id or of an application's parameters (`sapsystem.go:311-348`).
* `InstancesAssumption` (`SAPSystems`): an instance that answers is of a database or an application, as `NewSAPInstance` has it
  (`sapsystem.go:409-413`), and instances of one installation have different numbers, from which their ports are made.
* `NamesAssumption` (`SAPSystems`): what is found is finite, its names are among those of the model, and there are at most a thousand tenants
  (the code's four digits keep ten thousand in order, `kv.go:270`). No profile has a parameter `a` and a parameter `a/b`. Nothing in the code
  rules such a pair out: the first would be put as text, and reading the second back would assign to a nil map (`kv.go:153-172`). SAP's parameters have no
  such names.
* `ConsoleAssumption`: no two hosts, clusters, agents or systems have one id (names of hosts, hashes of clusters, machine ids and hashes of
  systems do not coincide), and only the lists of hosts and clusters are asked for a health, as their handlers are the only ones that read it.
* `ClusterDetailsAssumption`: no SID, no site and no node has an empty name.

That every subscription row exists (`Known = SubscriptionKeys`) is a hypothesis of `SeededCursorMonotone` and not an assumption of the
module: `pipeline_first_contact_race` shows what happens without it. `Known` are the subscriptions that
have a row in the initial table; `ClusterRowOrderedPerAgent` and `NoUpdateLost` ask for the row of the one subscription they speak of; the other theorems need no hypothesis.

Each inductive invariant was checked as an invariant of the run named in the last section before it was proved: on all its states, but
for that of `Agent`, of whose states TLC saw 24 million.

*Projector.* `RowLockExclusive` alone is not inductive: that two workers do not hold one row
follows from what each does at its statement. `CallInv` says that a worker at a statement has
a call and that its outcome is open, `WriteInv` which cells its transaction has written. `LockInv`
adds `ReadStaysCurrent`: the cursor a worker has found is the row's until it ends, which
needs that others cannot pass the lock. So the test against the cursor, made when it is read, still holds at the commit. Rows do not
vanish, so where a subscription has a row every SELECT finds and locks one; there every commit raises the cursor, and what
was applied is followed only by newer events. The refinement maps a commit to the abstract step, a skip to the abstract
skip, and everything else to stuttering; the abstract step asks for the order of events wherever
the subscription is known from the start. That a cell is of a committed call follows from `WriteInv`; that a cluster's row keeps
the order of an agent's events, from the cursor of that agent, which is at least the id of the event the row shows.

*DataPipeline.* No step but those of its goroutines and the death of the process touches the tables, and a goroutine begins only calls of its own
event (`BeginEffect`). Permits are accounted for by `PermitInv`: those not free are as many as goroutines
run, unless a drain took them all. It needs `timedOut => pool = "stopped"`: only the end of a drain gives up on goroutines, which may
run on after it. `CallInv` ties a transaction to the goroutine of its event, so that counting goroutines bounds the transactions. `HandInv` says that
an event is in Run's hands only while Run waits for a permit, and that it is the only one: when the drain has taken all permits there is none.

*ClustersStore.* `HolderInv` ties the places of `Store` to the lock's holder: who writes and has not lost
its session holds it. `ContentInv` is needed for wholeness: during a Store, the keys still to be put are
absent and the others are of the version discovered. `ReaderInv` says that while a
reader lists undisturbed, nobody who still has a session is writing.

*Heartbeat.* `LoopInv` bounds the ticker against the age of the POST, `GapInv` bounds the age of the row by
the time to the next beat and what a beat in flight still needs, `DownInv` relates the
time since death to what was left behind, and `OnePostInv` says that, unless one hung, POSTs do
not overlap. The arithmetic of two intervals closes only with all of them.

*ChecksRunner.* A record is made at the end of a tick of things fetched at other moments. `TickInv` keeps them together on the
way: the inventory has groups only of clusters that are done with, each made of the answer it got (`Answered`), and the
results are those of the inventory the playbook was given (`Obtained`), wherever it was cut off. `RecordInv` says the same of the record. That
green means no problem is then about how results are aggregated, for which every result must be of a known check.
`CatalogInv` follows the catalog from the runner's start, where it is extended before it is trimmed.

*Agent.* `PassingInv` says that the time since the last good tick is at most that since the last update while the check passes. `OnTimeInv`
needs a case for each place of the loop: a running agent that is on time has not been silent for more than a period, and if it waits
after one, the next tick is due. For the order of what is shown, `BoundInv` says that nothing on its way is newer than what the discovery
will find next, which only grows, and `OrderInv` that events on time are in the order of their versions; an event that
is projected is therefore not older than what is shown, unless it was late.

*SAP systems.* `SystemsInv` has for each host: what may be found, each known system once (`FoundInv`); trees below their own identifiers (`TreesInv`); that what the discovery
has stored so far is there (`StoredInv`), which Store keeps because it replaces the tree of its identifier and no other known system has that; and metadata
that lead only to trees, stored or torn (`MetadataInv`). A page is made of the trees of all hosts; that the instances of other hosts and of an attached database are not
mistaken for the system's own is from the host in each instance and from `IdentifiersAssumption`. `RowsInv` follows a discovery from
`published` to the rows: an upsert makes the rows of its system (instances have different numbers) and leaves those of other hosts and other
identifiers. Lists are filtered with `Kept` and upserted with `Upserted`, recursive functions, because the prover cannot expand the library's
`SelectSeq` and `FoldLeft`; what `Kept` returns is a lemma of `ListProofs`: in order, once for each place and with nothing left out, and its rank
(`KeptRank`) is the number of elements of the set up to it. Such lemmas are proved by taking a least counterexample (`HasLeast`), for the library's
induction needs an operator as a parameter.

*Key-value store.* Keys are sorted as text, so first that order is shown to be one (`BeforeOrders`, by the first position where two texts differ), then
that keys are in the order of paths: `CodeOrder` for one segment, four digits each being what keeps element 10 after element 9, and `KeyOrder` for whole
keys, where only lists, maps and leaves end in a slash. So `Listed` has every list before its elements and each element after the one before it. `VisitAdds` says what one
entry does to a part of the tree that has these: it adds the maps above it and the node it stands for, and changes nothing. By induction on the number of
entries (`Visited`), what has been built is what the entries so far and what is above them stand for; in the end that is everything, since below each
node is one with an entry (`Deepest`). It remains that the trees of SAP systems are well-formed (`WellFormed`): `Sort` says what stands at each path, `AllPlaced` that every
value is what its path wants and below a map or list that the tree has. A parameter given twice is a list of scalars, which `ListMap` turns into maps
(`TwiceIsScalars`); the property excepts it, and no reader looks at one.

*Pagination.* All is arithmetic on one quotient: `getPageCount` is the least number of pages that hold the items, from
which the bounds of the slice and the page of an element follow. `PageShown` puts the two together: the slice is what is kept of a list when its
elements are asked for their page.

*Console.* All rests on `always` and `ever` enclosing what is true now for as long as a request reads (`RequestTypes`); so what a query answers has everything that is
in `always` and nothing that is not in `ever`, and neither stops being so afterwards, for `always` only shrinks and `ever` only grows. The invariant says
this of everything a request has in its hands, place by place: of the list, of what is shown with each element, of the choices and of the counters; for each it has a
part that is sound in `ever` and one that is complete in `always`. The window of the list of clusters, which the query cuts before the filters are applied,
needs the place of a cluster in what the query found: it lies between the number of clusters before it that were there always and that were there ever
(`KeptRank`), which is what `InWindow` asks about. When the proof was tried with the window that one would expect, it failed for a negative page and size; that is how the
offset above was found, and `MCConsole` asks for such a page. The footer is then about cardinalities of finite sets.

*Cluster details.* The inductive invariant is small (`DetailsInv`: which attributes there are, so that no value is itself a dash); the work is in showing that two computations
agree. Both take the same SID, so that a node has attributes for both or neither (`SameSID`), and without a SID the page finds none, since no system has
the empty one. So statuses agree node by node, the lists of secondaries are one, and a node has a site in the row where the page groups it; that to keep the nodes of a site and take their
names is to keep the names is `KeptColumn`. A device on the list has no error, so that both commands answered in whole (`DevicesAreWhole`).

*Telemetry.* That a second identifier is explained needs that, as long as nothing is excused, at most one process is
creating and only while the table is empty (`CreatesAlone`); that reports agree needs that every process that
runs its engine, and every report received, has an identifier of the table, the first of those it found if it found any (`ReportsKnown`).

Only model-checked: all liveness, since the prover does not reach fairness: `EveryCallEnds`, `AcceptedIsProjected`, `ShutdownEnds`, `StoreCatchesUp`,
`LockIsReleased`, `EventuallyShownPassing`, `SettingsTakeEffect`, `EveryCopyCatchesUp`, `PagesCatchUp`, `EveryHostIsReported`, `StopEnds`. Every safety property
of a run that passes is stated by a theorem.

## 5. Findings

1. **An agent's first events race** (`pipeline_first_contact_race`). `projector.go:39-41` says the
   subscription's update linearises concurrent projections of one agent. For its first
   events there is no row: `FOR UPDATE` locks nothing, and the older event may overwrite
   the newer one and move the cursor back. The theorem `RegressionNeedsFirstContact` shows that this is
   the only way. A later discovery repairs the row.
2. **A stopped resource ends the web process** (`cluster_stopped_resource`). crm_mon names no node for
   it, and the clusters projector dereferences that node (`clusters_projector.go:186`) in a
   goroutine without a recover. The page of the same cluster is fine: Consul turns the null into an empty node.

What else the models had to reproduce, and a reader of the code may want to know. The models do what the code does, and the
properties are stated so that they hold of it; where that weakens a property, as for the tags offered and for
filters that are combined, its comment says so.

*Tags that find nothing.* `GetAllTags` of clusters and of `hosts_next` put the type of resource into the model they give gorm
(`services/clusters.go:127-133`, `services/hosts_next.go:107-113`). That chooses the table and is no condition, so both lists offer the tags of
everything: a tag that only a SAP system has finds no cluster. Their tests expect each list's own tags (`clusters_test.go:165-168`,
`hosts_next_test.go:185-188`) and pass, because their tables have tags of one type only. The list of hosts, those of SAP systems and databases, and
the tags' API with a type offer what they should. `ChoicesAreRegular` says "of what the list is of" for these and makes an exception of the
two: with it, their tags are only sure to be tags of something.

*Runner and checks.* `getJson` (`api/api.go:38-40`) reads the status of a response that is nil when the request fails, so an
outage of the API ends the runner, which then does not come up before the web application is back. A task that failed is recorded
with the boolean `False` (`trento.py:169`) where the web application wants a string; it drops the error
(`checks.go:162`) and with it all the results of the cluster. An error of `GetSelectedChecksById` is only logged when settings are
asked for (`checks_api.go:168-171`): the runner runs nothing for that cluster. A save of the settings is several statements, and a form that was opened
before an upgrade may save checks no longer shipped. After an upgrade, until the first tick, the results page
may lack checks that count. `CreateInventory` returns nil when the template cannot be written. Two things are coarser in the model than in the code. A host that becomes
unreachable during the playbook keeps the results it has so far, marked unreachable, and they count for the health (`trento.py:178-187`,
`checks.go:222`); in the model a host is unreachable for a whole run or not. And asking for the settings of a cluster makes its nodes
(`checks_api.go:166`), which panics on every request as long as the cluster has an IP resource without attributes (`web/clusters.go:201`), so that
it is never checked; in the model a request that fails succeeds in the end.

*Agent.* `errors.Wrap(nil)` is nil, so a missing key or CA is not reported (`cmd/agent/config.go:26-31`). Two
`SBD_DEVICE` lines make a list, and the assertion at `sbd.go:73` panics. Devices that cannot be loaded are left out, so none is ever shown
unhealthy. The host discovery publishes an empty list, or zeros, for addresses and processors it cannot read; for the version of the system and
the memory it logs the error and then uses the result that is not there (`host.go:94-108`), and so it does with an empty list of processors (`host.go:127`): the agent dies. `metadata.go` asks for one provider
after the other, and a question that fails ends it although the next could be answered.

*Pages.* `cluster_hana.html.tmpl:46` asks for a field that does not exist: the page of a cluster whose SAPHanaSR health
is 2 or 3 fails. `GroupBySite` of the model groups nodes without a site under an empty name, that of the page does not. Attached
databases are looked up by a substring of the address (`services/sapsystems.go:138`) and the type assertions around it panic on
profiles that lack a parameter; the page of all systems fails with the lookup of any. Hosts of a system are looked up by the meta of their Consul nodes (`services/hosts.go:39`), which follows the
stored metadata only after consul-template has run; `GetHostsBySystemId` reads the metadata. Of a cluster's name, type and SIDs only the last filter given counts, and each drops the
page and the tags (`services/clusters.go:46-56`), so a list by two of them has more than was asked for: `ListIsRegular` asks for the last only.
Tags of hosts are by name, but `hosts_next` filters and preloads them by agent id. Adding a tag twice is an error 500; the API for tags of SAP systems takes
databases and the reverse. A negative page size panics into a 500. A host that has gone, or whose health cannot be asked for, counts as passing (`hosts.go:42`).

*Telemetry.* A failed lookup creates a second identifier (`services/settings.go:25`). The client has no timeout
and the POST no context: one that hangs keeps the process from shutting down. The default end point answers 200, where 202 is wanted.

## 6. Not modelled

* Parsing of text: regular expressions, XML and JSON of commands' output are abstracted to what they say, in
  whole or in part. Fencing (`IsFencingEnabled`) and the generic page of a cluster without HANA read one value each.
* Pruning: one DELETE of events no worker reads again. Subscriptions services: one SELECT or one count each. The agent's version: one
  put at the start. They have no second step for anything to come between.
* Pages that render what one service returned (catalog, about, home), the alerts and layout around them; the HANA replication status
  of an instance, which is only shown.
* Checks in Ansible roles, front end, templates, packaging, CLI and configuration: no behaviour over time of the Go code.
* Generated code (`docs/`, the SOAP client) and mocks. Of the 17002 lines of implementation about a third
  are these.
* Security, TLS and authentication.

## 7. Plan

Order of work; the most important behaviour came first.

1. Done: `Projector` with its abstract specification and proofs, `DataPipeline`,
   `ClustersStore`, `Heartbeat`, `ChecksRunner`, `Agent`, `ClusterDetails`.
2. Done: `KeyValue`, `SAPSystems`, `SAPPages`, `Discovery`, `Console` and `Pagination`, `Telemetry`, with the proofs of the last two; `Projector`'s
   theorems without the hypothesis that every row exists.
3. Done: the safety of `ChecksRunner`, `Agent`, `DataPipeline` and `SAPPages` proved.
4. Done: the invariants of `Console` and of `ClusterDetails` proved; that the key-value store gives back what was put.
5. Compose: the agent's Store as steps of `ClustersStore`, so that "copies catch up" no
   longer assumes it; `Agent` implementing an abstract register per topic.
