# Verification of the SR-IOV FEC operator

TLA+ models of the operator in `src/`, checked with TLC on small instances, and
proofs of all their safety properties with TLAPS. `PROJECT.json` lists the
runs, the lines of code each definition stands for, the hazards the properties
are aimed at, the disagreements found and the theorems.

1. [The system](#1-the-system)
2. [Modules](#2-modules)
3. [NodeDaemon](#3-nodedaemon-the-fec-daemon-of-one-node)
4. [DrainLease](#4-drainlease-one-lease-for-all-daemons)
5. [ClusterConfig](#5-clusterconfig-from-cluster-to-node-configurations)
6. [VrbDaemon](#6-vrbdaemon-the-vrb-daemon-and-the-device-plugins-configmap)
7. [Configurator and CardContract](#7-configurator-and-cardcontract-the-cards-of-a-node)
8. [Operator and Admission](#8-operator-and-admission-deployment-labels-webhooks)
9. [Telemetry](#9-telemetry-the-loop-the-client-and-the-response-log)
10. [What the runs show](#10-what-the-runs-show)
11. [What is proved](#11-what-is-proved)
12. [Known deviations without a run](#12-known-deviations-without-a-run)
13. [What is not modelled](#13-what-is-not-modelled)
14. [Plan](#14-plan)

## 1. The system

The operator configures Intel FEC and vRAN Boost accelerators of the nodes of a
Kubernetes cluster. A user writes a *cluster configuration*; the operator
derives from all of them one *node configuration* per node; the daemon of the
node makes the hardware follow it and reports in its status.

```
user -> webhooks -> SriovFecClusterConfig -> cluster controller (one, in the operator)
                                                  |  writes spec
                                                  v
   labeler -> node label            SriovFecNodeConfig (one per node)
                                          |  spec         ^  status, inventory
                                          v               |
  daemon (one per node):  Reconcile -> DrainHelper.Run -> NodeConfigurator -> sysfs, drivers
                               |            |  lease            |
                               |            v                   v
                               |        API server         pf_bb_config (one process per card)
                               +-> device plugin's pod (deleted and awaited)
  telemetry, in the daemon: polls pf_bb_config through its socket and its log file
```

The VRB half (`SriovVrbClusterConfig`, `SriovVrbNodeConfig`, a second
reconciler in the same daemon) is a copy of the FEC half with the device
plugin's ConfigMap added; both reconcilers of a daemon share one DrainHelper and
one NodeConfigurator. Labeler, device plugin and daemon are deployed by the
operator's pods when they start.

| Component | State | Operations | Hard about it | Correct means |
|---|---|---|---|---|
| FEC reconciler, `pkg/daemon/daemon_fec.go` | `fecPreviousConfig`, `fecDeviceUpdateRequired` in memory; conditions and observed generation in the object's status | Reconcile: create the object, validate, decide, InProgress, drain and apply, Succeeded or Failed | memory is lost in a crash and not updated by a failure; spec changes and conflicts during a pass; what is decided from is not what is reported | Succeeded means the hardware has the spec; memory agrees with the hardware; an applicable spec is eventually observed; running cards are spared |
| NodeConfigurator, `node_management.go`, `bbdevconfig.go` | PF and VF drivers, number of VFs, pf_bb_config processes | clean or configure a card: stop, remove VFs, FLR, initialise, create VFs, bind | any call fails half way; one card done, the next one not | the leftovers of a failure are repaired by the next pass |
| DrainHelper, `pkg/common/drainhelper` | one Lease for the cluster; cordoned nodes | `Run(worker, drain)` | leader election, a worker that outlives its leadership, a lease that is cleared by hand | one node is worked on at a time; nil means done; nodes end schedulable |
| Cluster controllers, `controllers/` | workqueue | list, match, choose per card, update, note a failure | conflicts with daemons; retry by requeueing only; ties | every card gets the best configuration, and keeps it |
| Device plugin controller, `device_plugin_controller.go` | the plugin's pod of the node | delete, wait for the next one to be ready | which pod counts as the next one | VFs are offered as they are |
| VRB reconciler, `daemon_vrb.go` | as FEC, and the plugin's ConfigMap | as FEC, and edit the ConfigMap | failures of the ConfigMap that do not fail the pass | as FEC; resources are offered under the names asked for |
| Webhooks, `api/*/*_webhook.go` | none | validate a cluster configuration | sums and ranges of queues, sections that exclude each other | what is accepted can be applied |
| Telemetry, CLI client, `telemetry.go`, `pf_bb_config_cli.go` | gauges, one response log per card | poll, send a request, read its answer | two users of one log file | an answer is the answer to its request |
| Labeler, `cmd/labeler` | a node label | read the node, write its labels | everybody labels nodes | nodes with accelerators are labelled, other labels stay |
| Asset manager, `pkg/common/assets`, `main.go` | outer ConfigMaps, and the objects in them | write and read back the ConfigMaps, create or update the objects, wait, ask for replicas | restart half way, upgrades, pinned and edited ConfigMaps, daemons that write the same object | the operator comes up; what it serves is what it deployed; nobody's part is wiped |

Behaviours that are hard to test and what they are called in `PROJECT.json`
(`hazards`, each at its line): crash recovery and partial failure of a pass,
interleavings of a pass with spec changes, deletions, other writers of sysfs and
the death of processes, conflicts and lost answers of the API server, leases
that expire or are cleared, errors read before they are written, retries that
depend on a timer that may not exist, ties, and status that no longer describes
what it was computed from.

## 2. Modules

| Module | Models | Runs |
|---|---|---|
| `NodeDaemon`, `MCNodeDaemon`, `NodeDaemonProofs` | a pass of the FEC reconciler on one node, with the stages of each card, crashes, reboots and other writers | `safety`, `liveness`, `in_force`, `repair` |
| `DrainLease`, `MCDrainLease`, `DrainLeaseProofs` | the leader election around draining, of all daemons | `lease` |
| `ClusterConfig`, `MCClusterConfig`, `ClusterConfigProofs` | the controllers that derive node configurations (FEC and VRB alike) | `cluster`, `withdrawal` |
| `VrbDaemon`, `MCVrbDaemon`, `VrbDaemonProofs` | a pass of the VRB reconciler and the ConfigMap it shares with the other nodes and the operator | `vrb` |
| `CardContract` | what a call of ApplySpec promises, as a specification | through `card` |
| `Configurator`, `MCConfigurator`, `ConfiguratorProofs` | NodeConfigurator and pf_bb_config, write by write, with both reconcilers as callers | `card` |
| `Admission` | the webhooks' validators and the daemon's own validation, as operators | through `operator` |
| `Operator`, `MCOperator`, `OperatorProofs` | the operator's pods: assets, waiting, replicas, admission; the labelers | `operator`, `token` |
| `Telemetry`, `MCTelemetry`, `TelemetryProofs` | the telemetry loop, the command line client, and pf_bb_config's answers | `telemetry` |
| `SetInduction` | nothing: induction over sets of naturals, for the proofs | |

How they fit together:

* `CardContract` is the seam between reconcilers and hardware. `Configurator`
  implements it (`KeepsContract`, a refinement); `NodeDaemon` and `VrbDaemon`
  are written against it: while a pass applies a spec only its cards change, on
  success they are as asked, on failure they may be anything. `NodeDaemon` keeps
  the stages of a card because it restarts and is interrupted between them;
  `VrbDaemon` takes a card in one step and looks at the ConfigMap instead.
* `SetSpec` of `NodeDaemon` and `VrbDaemon` is the cluster controllers' update;
  `ClusterConfig` in turn sees a daemon as the one who applies a spec and makes
  updates conflict by reporting.
* The drain of `NodeDaemon` and `VrbDaemon` is `DrainLease`'s Run as a
  reconciler sees it: it fails, or the node is cordoned and the worker runs.
* The operator's writes to the device plugin's ConfigMap are the fault "deploy"
  of `VrbDaemon`; the daemons' writes are `AddList` of `Operator`.
* `Admission` guards `Submit` of `Operator`, whose property compares what is
  admitted with what a daemon takes.

Each pair of a run's property and the code is tried against a mistake: the
definitions introduced by "A variant with a mistake" are used by no
specification; put in the place of the definition that follows them, they make
the property fail (`mutants` in `PROJECT.json`).

## 3. NodeDaemon: the FEC daemon of one node

### State

| Variable | Code |
|---|---|
| `cr` | the SriovFecNodeConfig: existence, generation, spec, the reason of the Configured condition and its ObservedGeneration |
| `hw[c]` | what sysfs and the process table say of a card: the configuration pf_bb_config applied, the number of VFs, whether they are bound, whether pf_bb_config runs |
| `prev` | `fecPreviousConfig` |
| `required` | `fecDeviceUpdateRequired`: the cards whose flag is true |
| `pc`, `spec`, `inv`, `todo`, `err`, `fresh` | where the pass is and its locals: the object in hand, the inventory read, the cards still to do, the error so far, whether the object in hand has the server's resourceVersion |
| `cordoned`, `pluginStale` | the node is unschedulable because of the daemon; the device plugin has not restarted since VFs changed |
| `touched`, `disturbed` | bookkeeping: cards the configurator has worked on since `prev` last described them; cards the environment has changed since they were last configured |

### A pass

`pc` follows the calls of `Reconcile`:

```
idle -> refuse -> idle                                         (invalid spec: Failed)
idle -> begin -> drain -> apply -> [stop -> remove -> reset -> init -> vfs -> bind]* -> restart -> uncordon -> report -> idle
                   \-------- any failure -------------------------------------------> uncordon -> report (Failed)
down -> create -> describe -> idle                              (no object yet)
```

* Reading the object, validating it, reading the inventory and
  `isCardUpdateRequired` are one step (`Refuse`, `NothingToDo`, `BeginPass`).
  Between them there is no write. A reading from the client's cache that is out
  of date leads to a conflict later, which is there.
* `MarkInProgress` is the status update and `checkIfDeviceUpdateNeeded` with the
  override by the number of VFs (`UpdateRequired`).
* `ApplySpec` goes through the inventory in the order of PCI addresses. A card
  takes six steps (`StopPfBBConfig` ... `BindVFs`); `CardFails` ends any of them
  with none, all or some of its effect (`Leftover`).
* `Report` is the last status update with `fecPreviousConfig` set before it. A
  failing update (`StatusUpdateFails`) still leaves the memory changed.
* `updatePfBbConfVersion` and the inventory copied into the status are folded
  into the status updates; the log level is left out.
* If the daemon cannot create its object at start-up the process exits, which is
  `down` again. `pkill` is assumed to kill or to report an error; what happens
  when its error is dropped is in `Configurator`.
* pf_bb_config processes live in the daemon's pod: `Crash` ends them, and
  `Reboot` also loses VFs and drivers.

### Properties

`PrevInForce`: what `fecPreviousConfig` says of a card is what the card runs,
unless the card was worked on by a pass that did not succeed or changed by
somebody else. `AppliedMatchesHardware`: Succeeded for the current generation
means that every card runs what the spec asks for, with the same exceptions, and
that other cards have no VFs. `PluginFreshWhenSucceeded`,
`UncordonedWhenApplied`: the restart and the uncordon come before the success.
`RunningCardLeftAlone` (of steps): a card that runs the configuration that is
asked for and was applied last is not touched while others are configured.
`GenerationObserved`, `VFsRestored` (liveness): see the run `liveness`.

### Bounds

Two cards are enough for "the first done, the second not", and the address of a
third one that is not installed for a spec that names it. Configurations `a` and
`b` ask for the same number of VFs with different drivers (so that the number
does not tell them apart), `r` has a driver the node rejects. Three generations
allow to apply, change and change back; each kind of fault occurs once
(`MaxFaults`), which is two failures of different kinds in any order.

### Fairness

`WF_vars(Progress \/ Conflict)`: the daemon goes on with its pass. The workqueue
calls Reconcile again after an error and after `resyncPeriod` (one minute)
otherwise (`pkg/daemon/utils.go:51-66`), and every wait of a pass is bounded
(drain: five attempts; the plugin's pod: a timeout). A conflict is an outcome of
a call and belongs to the progress; failures and the environment get no
fairness.

## 4. DrainLease: one lease for all daemons

`DrainHelper.Run` joins client-go's leader election on `n3000-daemon-lease`,
starts the worker in a goroutine when it leads, returns when the election ends,
and clears the lease in a deferred function. The elector is a library: `ReadLease`,
`WriteLease`, `WriteConflicts`, `Release` model it as the code uses it
(`ReleaseOnCancel`, durations with `LeaseDuration > RenewDeadline`).

| Variable | Code |
|---|---|
| `holder` | the lease's HolderIdentity |
| `fresh` | runs whose `LeaseLock` has the lease's resourceVersion; all other updates conflict. The FEC and the VRB reconciler of a daemon share one DrainHelper, so one identity and one `LeaseLock`: a read by one refreshes the lock of the other (`LockFresh`) |
| `elector[r]` | `new -> try -> acquire -> lead <-> renew -> release -> clear -> wipe -> out`: acquire, renew, release, the deferred Get and Update |
| `observed[r]` | the holder a leader saw last |
| `worker[r]` | `none -> drain -> evict -> work -> uncordon -> undo -> done` or `stuck`: OnStartedLeading. `drain` and `uncordon` read the node with the election's context, the calls after it do not look at it |
| `innerErr`, `returned`, `workErr`, `outcome` | the error variables, when they are read, and what `configureNode` returns |
| `lost` | bookkeeping: runs that gave the lease up for lack of renewal, under which another run's clearing removed it, or over whose lease another run wrote what it had decided from an older one (`Ousted`) |

Time is not counted. `Expired` says what the durations are for: another
node takes the lease without asking only when no elector that holds it still
believes to lead.

`ExclusiveUnlessLost`: two nodes are worked on at once only if one of the two
leaders has lost its lease. `NilMeansDone`: `configureNode` answers nil only
after worker and uncordon succeeded (unless the lease was lost: then Run may
return while the worker goes on). `NotLeftCordoned`: a cordoned node has a run
that will uncordon it, failed to, or died with its daemon. `RunReturns`: every
call of Run returns, over crashes of lease holders.

Bounds: two nodes and three runs, one of each reconciler of the first node (they
run at once as well as one after the other) and one of the second, and one fault
of any kind. Two leaders at once take two nodes. Fairness: the elector tries
every `RetryPeriod`, the worker's calls are bounded, and a leader whose lease is
somebody else's finds out at its `RenewDeadline`. Nobody is bound to call Run,
and the system stops when all runs are over (no deadlock check).

## 5. ClusterConfig: from cluster to node configurations

A pass is made for the name of one cluster configuration and serves every node:
`Begin` (list), per node `Match` (read the object, choose, compare) and
`UpdateNodeConfig` or `UpdateFails` followed by the condition
(`SetPropagationFailed`), and `EndPass` with `requeueIfClusterConfigExists`.
Between `Match` and the update the daemon may report, which makes the update
conflict (`fresh`).

`queue` and `timer` are the workqueue: names to handle now, and names that come
back within a minute. `pending` are nodes whose daemon has a new spec to apply;
applying it binds cards to other drivers, and the inventory it reports is what
selectors by driver look at next time.

`Chosen` is the loop of `prepareAcceleratorConfigContext` as a fold; the
properties compare it with `Best`, the set of configurations no other one is
better than. The list of the client's cache has no order and the sort gives it
none, so `Match` takes any order.

`SelectedOnly`, `NobodyAskedToSkip`, `BestIsWritten` (of steps; a stale reading
never makes it into a spec), `Propagated` and `SpecsComeToRest` (liveness).

Bounds: two nodes, three cards; three configurations, two of them of one
priority, one of a higher one; three creations or deletions in any order (each
name is created once, an edit is a deletion and a creation) and one fault.
Timestamps have seconds: with `SameSecond`, which the run `cluster` sets, configurations
may tie, and `SpecsComeToRest` makes an exception for specs that two tied configurations
apply to (`Tied`). Selectors accept the driver their configuration binds to; what
happens otherwise is in the hazard at `api/sriovfec/v2/helper.go:42`. Fairness:
the workqueue hands out its names, timers fire, a daemon applies what it is
given.

## 6. VrbDaemon: the VRB daemon and the device plugin's ConfigMap

The pass is that of `NodeDaemon` up to `ApplySpec`; a card is configured in one
step, which on failure leaves any of the states its stages could have left. What
is new comes after it:

```
... -> apply -> inventory -> [load -> [addkey ->] match -> [reread -> write ->] listed | unlisted]* -> restart -> uncordon -> report -> idle
                              \------ one round per named card ------/
```

| Variable | Code |
|---|---|
| `cm` | `sriovdp-config`: `shared` is `config.json`, `own` is `config_<node>.json`, `other` stands for the list of another node |
| `pass` | the locals of Reconcile: the object in hand and its observed generation, the flags (`required`, `vrbDeviceUpdateRequired`), cards still to do, names still to list, the ConfigMap as read (`copy`), the list as edited, `err` |
| `cr`, `hw`, `prev`, `cordoned`, `pluginStale`, `touched`, `disturbed` | as in `NodeDaemon` |
| `pass.missed` | bookkeeping: cards whose entry could not be made although no error ended the pass |

The code updates the status *during* the pass: Failed (`ReportUnlisted`) when the
ConfigMap cannot be loaded or a found entry cannot be written, Succeeded
(`ReportListed`) for an entry that was found, before the plugin has restarted. Whether those intermediate updates are what a later reader sees is a
matter of when it looks; the last update of a pass overwrites them.

`AppliedMatchesHardware` holds for the successes in the middle, too: they come
after the cards are done. `PassEndsComplete` (of steps) is about the one at the
end: plugin restarted, node schedulable, every named card listed with its name
and VFs, but for `missed`. `OneEntryPerCard`: no card is listed under two names,
over renames, crashes between the two writes of the map, and copies of a shared
list. `OtherNodesKept`: the two reads and the resourceVersion keep another
node's list. `GenerationObserved` as in `NodeDaemon`.

Bounds: two cards; a configuration that is renamed, one without a name, one that
is rejected; two spec changes after the empty one; two or three different faults in a
behaviour, in the combinations of `MCFaultPlans`. Fairness: as in `NodeDaemon`.

## 7. Configurator and CardContract: the cards of a node

`Configurator` goes through `ApplySpec` and `VrbApplySpec` by single writes: stop
pf_bb_config, unbind each VF, remove the VFs, unbind the PF, reset; bind the PF,
choose the windows file, run pf_bb_config, create the VFs, bind each. FEC and
VRB reconciler are two workers in one process, each with cards of its own, and
share the NodeConfigurator and `srsFftWindowsCoefficientFilepath`.

| Variable | Code |
|---|---|
| `hw[c]` | driver, `sriov_numvfs`, bound VFs, the configuration pf_bb_config wrote to the registers (`regs`), whether it runs, its socket file, the windows file it was given |
| `job[w]` | the cards a reconciler asked for, the inventory at that time, the card in work, the next call |
| `path` | `srsFftWindowsCoefficientFilepath` |
| `late` | writes whose `writeFileWithTimeout` has given up while its goroutine goes on |
| `result[w]`, `hit[w]`, `mixed` | the last answer; bookkeeping: the node has changed one of the worker's cards, the other worker has overwritten the path |

A write blocks while pf_bb_config uses the device, so that it succeeds, fails or
is given up and lands later (`Land`). `stopPfBBConfig` returns pkill's error only
if the socket file could be removed. A section for another model ends the whole
process (`Panic`): nothing recovers from it.

`KeepsContract`: `Configurator` implements `CardContract` with `state` read off
driver, registers, VFs and process (`StateOf`) and `task` the cards asked for.
In particular a worker that answers nil has all its cards as requested, and no
worker changes the other's cards. `ResetsQuietCards`: the reset is never written
to a card whose pf_bb_config lives, not even if pkill failed silently.
`OwnWindows`: pf_bb_config is given the windows of its own card's configuration,
unless the other reconciler wrote the path between; the exception is the hazard at
`bbdevconfig.go:115`.

Bounds: three cards; three requests for the FEC worker (a card is asked for one
VF, two, none; a download that cannot work, a section for another model) and one
for the VRB worker, made again and again in any order; per behaviour one failed
or late call, or two failures of pkill (the first removes the socket file, the second is the
silent one), or one event of the node, a restart of the container among them.
There is no fairness: the contract is a safety property. The refinement is
checked over every interleaving of the two workers.

## 8. Operator and Admission: deployment, labels, webhooks

A pod that starts goes through `files -> load -> objects <-> wait -> replicas ->
serving`: `DeployConfigMap` per asset from its file, `LoadFromConfigMap`,
`GetObject`/`DeployObject` per object, `WaitUntilReady` for the daemon's
DaemonSet, `AskForReplicas`. Every error is `os.Exit`, after which the container
starts again (`CallFails`, `Crash`).

| Variable | Code |
|---|---|
| `release` | the image and environment in the Deployment, and `spec.replicas` |
| `pod[p]` | the process: where it is in `deployOperatorAssets`, what it read |
| `outer`, `inner` | the ConfigMaps that hold assets, and the objects in them, `pinned` for `immutable: true`, `lists` for what the VRB daemons added |
| `rollout` | whether the status of the awaited DaemonSet says that it is ready |
| `label`, `labeler` | node labels; what a labeler has read and not written yet |
| `stored` | the cluster configuration that was admitted last |

`ServesWhatItDeployed`: unless somebody else writes meanwhile, a pod that serves
has its files in the outer ConfigMaps and their contents in the objects, but for
pinned ones. `ListsKept`: a restart or an upgrade does not wipe the daemons'
lists. `OthersLabelsKept`: a labeler does not undo what others do to labels
between its reading and its writing. `AdmittedFits`: an admitted configuration is one whose
section the daemon finds, validates and can write, with the bundles that make its
VFs, within the limits of the model. `ServesInTheEnd` (liveness): over a failure, a
crash, edits, pins, deletions and an upgrade a pod of the current release serves.

Bounds: two pods (the old and the new one of a rolling upgrade, or two
replicas), three assets with four objects of the kinds the code treats
differently, one node for the labeler; releases that differ in the daemon
(`operator`) or in the token (`token`); events once each, in the combinations of
`MCFaultPlans`. The submissions are sections around each limit (one below, at
and one above it) for each model and operation, and sections in all
combinations. Fairness: containers are started and run, and the Kubernetes
controllers roll out; failures, users and administrators get none.

## 9. Telemetry: the loop, the client and the response log

A round: `BeginRound`, `GetNodeConfig` (both objects, each may fail), per object
`SortCards`, per card `NextCard`, `RequestTelemetry` (empty the log, dial, send),
`ReadTelemetry` or `ReadTimesOut`, and `UpdateMetrics`, which replaces all
series. The client: `StartPfBbConfigCli`, `Dial`, `Send`, `PollLogFile` or
`PollFails`. pf_bb_config takes one request at a time and writes an answer in
two parts (`Take`, `Finish`), so that a reader may find half an answer; its death
ends its requests.

| Variable | Code |
|---|---|
| `conf` | reason of the first condition of the two node configurations, and the VFs in their inventories |
| `hw[c]` | VFs, pf_bb_config and its requests (the environment of this component) |
| `log`, `main` | the response log of a card as a sequence of parts; whether the main log ends with the line of a setting |
| `loop`, `cli` | the locals of a round and of a command |
| `gauge` | the series served by the metrics endpoint |
| `since` | bookkeeping: the numbers of VFs each card has had since the round began |

`CountedThisRound`: what is parsed in a round was answered in it, not before.
`OneCountPerConfig`: a series does not survive its round. `CliHearsItself`: a
command nobody disturbs prints its own answer. `LiveCardsReported` (liveness).

Bounds: two cards, the second of them listed by both objects (as the device ID
57c0 is), with physical functions and models that `fecDevices` knows; two
numbers of VFs; two events of the kinds pass, failed Get, death, late answer, command in
the combinations of `MCFaultPlans`. The loop's interval is longer than an answer
takes; an answer that is later than that or than the client's second is the event
"slow". The gauges for bytes, code blocks and engines are parsed from the same
answer as the numbers of VFs and are one set with them. Fairness: the loop and
the client run, a live pf_bb_config answers, a reconciler ends its pass.

## 10. What the runs show

| Run | Distinct states, depth | Shows |
|---|---|---|
| `safety` | 1,282,914, 78 | memory and reported success agree with hardware, plugin and node; running cards are spared |
| `liveness` | 1,441,514, 87 | an applicable spec is observed, and lost VFs come back, once faults cease |
| `lease` | 428,721, 31 | two nodes at once only around a lost lease; nil means done; cordoned nodes are somebody's; Run returns |
| `cluster` | 516,618, 41 | every card gets the best configuration, never from a stale reading; specs come to rest unless tied |
| `vrb` | 247,386, 80 | a success agrees with the cards; the last one of a pass with names, plugin and node; lists are kept |
| `card` | 2,143,589, 123 | every call of ApplySpec keeps its contract |
| `operator` | 416,830, 108 | what is served is what was deployed; lists and labels are kept; it comes up; what is admitted fits |
| `telemetry` | 769,464, 68 | no old answer for a new one, no old series, live cards are reported |
| `in_force` | stops at a violation | Succeeded is reported while a card is left half configured (`daemon_fec.go:555`) |
| `repair` | stops at a violation | a failed repair of VFs is never retried (`daemon_fec.go:418`) |
| `withdrawal` | stops at a violation | the node keeps a spec whose configuration is deleted (`sriovfecclusterconfig_controller.go:118`) |
| `token` | stops at a violation | a new VFIO token puts the operator into a crash loop (`asset.go:202`) |

The last four check one property each which the repository's documentation or
comments state and the code does not keep; `findings` in `PROJECT.json` quotes them.

Type invariants say little by themselves; they are stated because the other
properties and the proofs rest on them.

## 11. What is proved

For every value of the constants within their assumptions, every safety property
that a run checks is a theorem, the action properties included; `theorems` in
`PROJECT.json` lists them.

| Module | Theorem | Property |
|---|---|---|
| `NodeDaemonProofs` | `TypeCorrect` | `TypeOK` |
| | `MemoryIsInForce` | `PrevInForce` |
| | `SuccessIsInForce` | `AppliedMatchesHardware` |
| | `PluginRestartedFirst` | `PluginFreshWhenSucceeded` |
| | `UncordonedFirst` | `UncordonedWhenApplied` |
| | `RunningCardsAreSpared` | `RunningCardLeftAlone` |
| `DrainLeaseProofs` | `TypeCorrect` | `TypeOK` |
| | `OneNodeAtATime` | `ExclusiveUnlessLost` |
| | `NilIsTrue` | `NilMeansDone` |
| | `CordonedNodesHaveARun` | `NotLeftCordoned` |
| `ClusterConfigProofs` | `TypeCorrect` | `TypeOK` |
| | `FoldChoosesBest` | (of the fold `Chosen`, over lists of any length) |
| | `OnlySelectedCards` | `SelectedOnly` |
| | `DrainOnlyUnopposed` | `NobodyAskedToSkip` |
| | `WritesTheBest` | `BestIsWritten` |
| `VrbDaemonProofs` | `TypeCorrect` | `TypeOK` |
| | `SuccessIsTrue` | `AppliedMatchesHardware` |
| | `OneNameEach` | `OneEntryPerCard` |
| | `SuccessIsComplete` | `PassEndsComplete` |
| | `OthersKept` | `OtherNodesKept` |
| `ConfiguratorProofs` | `TypeCorrect` | `TypeOK` |
| | `ResetsAreQuiet` | `ResetsQuietCards` |
| | `WindowsAreOwn` | `OwnWindows` |
| | `ContractKept` | `KeepsContract` (refinement of `CardContract`) |
| `OperatorProofs` | `TypeCorrect` | `TypeOK` |
| | `ServesWhatIsDeployed` | `ServesWhatItDeployed` |
| | `AdmittedIsTaken` | `AdmittedFits` |
| | `ListsAreKept` | `ListsKept` |
| | `OtherLabelsAreKept` | `OthersLabelsKept` |
| `TelemetryProofs` | `TypeCorrect` | `TypeOK` |
| | `CountsAreOfThisRound` | `CountedThisRound` |
| | `OneCountEach` | `OneCountPerConfig` |
| | `ClientsHearThemselves` | `CliHearsItself` |

### Assumptions

They are named in the modules that declare the constants, and TLC evaluates them
in every run. Most say what type a constant has. The others:

* cards are numbers in the order of their addresses (`NodeDaemon`, `VrbDaemon`,
  `Configurator`: `CardAssumption`), and 0, which stands for "any card" in a
  list, is none of them;
* names for "nothing" are not things: `Nobody`, `NoConfig`, `NoDriver`,
  `Broken`, `Absent` (no list, `AbsentAssumption` of `VrbDaemon`), `NotThere`
  (`NameAssumption` of `Operator`, `NoLogAssumption` of `Telemetry`);
* `DrainLease`: runs of one owner are on one node (`RunAssumption`);
* `ClusterConfig`: there are nodes and configurations, and a node with an object
  has cards (`ConfigAssumption`);
* `Configurator`: the two reconcilers ask for different cards
  (`RequestAssumption`, see section 13);
* `Operator`: assets are numbered, none is empty, and a file or an edit of an
  asset holds its objects (`AssetAssumption`, `ReleaseAssumption`); a submission
  has sections of its kind only, as the schemas of the custom resources demand
  (`SubmissionAssumption`);
* `Telemetry`: a card is in the inventory of the object of its kind, and a
  number of VFs is positive (`InventoryAssumption`).

### Arguments

Hardly any of these properties is inductive as it stands; each module has an
inductive invariant, and for each of its parts lemmas that say that every step
preserves it, with one step per action or per shape of actions.

**NodeDaemon.** `AppliedMatchesHardware` speaks about the moment after a pass,
and to hold then, all that the pass does has to be carried along. `Inv`:

* `StatusInv`: types; the stages after the reset are reached only for a card
  that is requested (`StagesOfRequested`); while `fresh` holds, the object in
  hand is the one the pass works for (`FreshObject`); no pass works on the node
  under an old Succeeded (`Announced`);
* `PluginFresh`, `Uncordoned`: after the restart the VFs stay as they are until
  the report, after the uncordon the node does, on a pass without an error;
* `Skipped`: a card without a flag has the requested configuration in `prev`;
* `Partial`: how far the card in hand is, given the stage `pc` names;
* `Done`: a required card that is no longer in `todo` is as the spec asks;
* `Waiting`: a card still in `todo` whose configuration is the one applied last
  has lost its VFs or their drivers, which is why it was required;
* `PrevInForce` and `AppliedMatchesHardware` themselves.

`PassSucceeded` is where `Skipped`, `Done` and `PrevInForce` give
`AppliedMatchesHardware` at `Report`. `RunningCardsAreSpared` follows from
`Waiting`: a card that runs the configuration `prev` and the spec agree on is
not in `todo`, and no step changes a card that is not the one in hand.

**DrainLease.** For exclusion: a run whose worker is at work leads unless it has
lost the lease (`WorkersLead`), a leader that has not lost it is its holder
(`LeadersHold`), and whoever is about to write over a fresh reading has seen
nobody to oust (`WritersHaveLooked`); a write over an old reading, which the
shared `LeaseLock` lets through, is why the leaders it hits are counted as
having lost it (`WriteOusts`). For `NilMeansDone`: what the error variables say
on the way out (`WayOut`). For `NotLeftCordoned`: every cordoned node has a run
that drains it and is not done (`CordonedForSomebody`).

**ClusterConfig.** `FoldChoosesBest` is an induction over the list: after any
number of its elements the fold holds one that matches and that no other one
seen so far is better than (`Winner`). `NewSpecIsBest` lifts it to the spec, in
whatever order the list comes. `UpdateInHand` carries it from `Match` to
`UpdateNodeConfig`: as long as the object has not been written by anybody else,
the inventory it was chosen from is the one the object has.

**VrbDaemon.** `Held` (the object in hand is the one on the server until
somebody writes it), `PrevDescribes` (`vrbPreviousConfig` describes the cards
nobody has worked on since), `WorkKnown` (cards done and to do, as `Skipped`,
`Done` and `Waiting` above), `Single` (no list, read, edited or stored, names a
card twice), `Listing` (the list in hand is the node's, and names what has been
named so far), `RestKnown` (plugin and node after the restart and the uncordon).
`PassEndsComplete` excepts by name the entries that were missed without an error
and the cards that somebody else or an unfinished pass has changed.

**Configurator.** `WorkInHand` says what the card in work is at each step of a
job (`Prepared`), as long as the node has not changed it, and what the cards
before and after it are (`Progress`); `PathInHand` says whose windows file the
shared variable names. Every step of a worker is one of a few shapes - it goes
on with its card, returns, takes the next card, begins, restarts - and each
shape is a step of `CardContract` or a stutter. The initial states map to
initial states, so `ContractKept` follows from `KeepsContract`'s definition.

**Operator.** The pods with their objects and the nodes with their labels share
no variable, hence two invariants. `PodInv`: a pod that is alone has written
what its step says it has (`Fine`), and what it has in hand and nobody has
written since is as it was read (`InHand`). A write of anybody else makes the
pod no longer alone and its object no longer fresh (`Disturbed`); a list added
by a daemon only the latter. `ListsKept` follows from `InHand`: what is written
over a fresh object differs from it in its data. `NodeInv`: a labeler's labels
are the node's until somebody changes those, and what is stored has been
validated. `AdmittedIsTaken` then is a theorem about the operators of
`Admission` (`ValidatedFits`): it holds of every configuration of the schemas,
where the run tries those around each limit.

**Telemetry.** `Fresh` (the log of the card in work holds answers of this round
only), `Keyed` (the series of a round have one reason per object), `Alone` (the
log of a client nobody disturbs holds its own answer only).

### How data is dealt with

Folds over lists and least cards of a set need induction. The library's
induction theorems take an operator as a parameter, which the provers cannot
instantiate. `SetInduction` states the principle for sets of naturals
(`InductionOnSets`), with least and greatest elements, and derives it from
well-foundedness; a proof cites it with a set `{n \in Nat : ...}`. The sums of
`Admission` (`QueueGroups`) need none: the webhook and the daemon compare the
same sum with the same limit.

### Only checked by TLC

Everything that must eventually happen: `GenerationObserved` (both daemons),
`VFsRestored`, `RunReturns`, `Propagated`, `SpecsComeToRest`, `ServesInTheEnd`,
`LiveCardsReported`. They rest on fairness and ENABLED, which the prover does
not handle. The four violations are counterexamples of TLC.

## 12. Known deviations without a run

Read in the code while modelling it; either modelled as it is and excepted by
name in a property, or outside the models.

* A pf_bb_config that died is not started again while the spec stays the same
  (`daemon_fec.go:555`: the decision looks at the spec and the number of VFs).
* Two configurations of one priority and one second are chosen in the order of
  the list, so a spec may go back and forth (`clusterconfig_controller.go:302`,
  `Tied`).
* The deferred clearing of the lease does not look at who holds it
  (`drainhelper.go:160`), and with the `LeaseLock` of the other reconciler
  refreshed, an update decided from an old reading goes through (`Ousted`).
* The VRB daemon writes Succeeded before the plugin restarts
  (`daemon_vrb.go:626`; the release notes, line 172, announce the restart), and
  a ConfigMap that cannot be loaded is reported and then overwritten by the
  report of the pass (`missed`).
* The queues of `downlink5G` on VRB2 are computed with the aqs of `downlink4G`
  (`sriovvrbclusterconfig_webhook.go:291`; excepted in `AdmittedFits`).
* The labeler never removes its label (`cmd/labeler/main.go:67`): the value to
  remove has no name.
* The DaemonSet that was just written has no unavailable pods yet, so the wait
  may end at once (`asset.go:283`).
* When both objects cannot be read the old gauges stay (`telemetry.go:199-203`),
  and the first condition is taken for Configured (`telemetry.go:140`).
* An object with an empty spec whose generation is observed is not looked at
  again (`daemon_fec.go:397`).
* A selector by driver may stop to match once its own configuration is applied
  (`api/sriovfec/v2/helper.go:42`).
* ConfigurationPropagationCondition is never cleared.
* A command with an answer in the main log is answered by an older line
  (`pf_bb_config_cli.go:318`; in `Telemetry`, where it is no violation of
  `CliHearsItself`, which is about the response log).
* `fftChecksum` is 40 hexadecimal digits by its pattern, and compared with a
  SHA-256.

## 13. What is not modelled

* Text: the ini file's lines, the rendering of templates, the bytes of requests,
  parsing of numbers in answers, the unpacking of archives of windows files.
* Which pod of the device plugin is deleted, and which one counts as the next
  one: names and conditions of pods are the kubelet's (`daemon.go:73` is listed
  as a hazard).
* An election that client-go refuses for its durations (they are constants).
* Both reconcilers configuring one and the same card (the device ID 57c0 is in
  both lists of supported accelerators): `Configurator` assumes that requests
  are disjoint (`RequestAssumption`).
* Logging (`pkg/common/utils`), conversions between slices and maps, generated
  deep copies, list types and registration of the API.
* Objects of the assets that are neither ConfigMaps, Secrets nor DaemonSets:
  they are created or updated and nothing depends on it.

## 14. Plan

All components with state are modelled, every safety property of a run is
proved, and the liveness properties stay with TLC. What would say more:

* `NodeDaemon` and `VrbDaemon` against `CardContract`: that a pass, seen from
  the cards, is a caller that the contract allows, so that the three
  specifications of a card's life are tied by proof and not by the text of
  section 2;
* an abstract specification of DrainHelper's Run, as the reconcilers see it,
  that `DrainLease` implements, for the same reason;
* the safety part of the liveness properties: measures that every helpful step
  decreases, such as the places of a pass, for each daemon.
