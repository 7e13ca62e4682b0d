# A TLA+ model of sveltos-agent

sveltos-agent runs in (or for) a managed cluster. It watches the resources that
Classifiers, HealthChecks, EventSources and Reloaders select, evaluates these
policies when the resources change, writes the outcome in report objects, and
either sends the reports to the management cluster or lets it collect them.
This directory holds TLA+ modules of that machinery, TLC configurations that
check them on small instances, and TLAPS proofs of what holds for every
instance. `PROJECT.json` lists components, runs, the mutants that show that
each property can fail, the source lines behind each definition, the hazards
and the theorems.

## Inventory

| Component | State | Operations | What makes it correct |
|---|---|---|---|
| Evaluation queues (`pkg/evaluation/manager.go`, the four `evaluate*s` loops) | four job maps under `m.mu`, the batch of a pass, failures, a WaitGroup | `Evaluate*` (reconcilers, `react`, predicates), drain, evaluate, requeue, exit | no request is lost or starved; failures are tried again; the version is stored after every first pass |
| Watchers (`watchers.go`, `restartIfNeeded` in `manager.go`) | `rebuildResourceToWatch`, `resourcesToWatch`, `unknownResourcesToWatch`, `watchers`, running informers | request a rebuild, build the list, discover, start informers, react to a CRD | a selected and installed GVK ends up watched, nothing is forgotten |
| NATS configuration (`nats_evaluation.go`) | `messagingConfigurationHash`, the Secret informer | load, react to a Secret notification | an outdated configuration does not stay in use |
| HealthCheck reports (`healthcheck_evaluation.go`, `healthcheck_controller.go`, `healthcheckreport_controller.go`) | the HealthCheck and its finalizer, `GVKHealthChecks`, the report in the API server, the informer cache, the management cluster's report | reconcile, evaluate, create/update/status, send, clean, finalizers | the health reaches the management cluster; a deleted HealthCheck and its report go |
| EventSource reports (`eventsource_evaluation.go`, `eventsource_controller.go`, `eventreport_controller.go`, callbacks of `nats_evaluation.go`) | the same, `natsEventSources`, messages, acknowledgements | the same, and callbacks that append CloudEvents concurrently | recorded events are kept and delivered, so are the matching resources |
| Reloader maps (`reloader_evaluation.go`) | `reloaderMap`, `resourceMap`, `volumeMap` | evaluate a Reloader workload by workload, forget a deleted one | a changed ConfigMap or Secret finds the workloads that mount it; nothing leaks |
| Reloader reports (`reloader_evaluation.go`), predicates (`reloader_predicates.go`) | the ReloaderReport's list, the management cluster's list | queue a changed ConfigMap, append workloads, send, delete | a workload with an outdated ConfigMap is reloaded |
| Classifier evaluation and reports (`classifier_evaluation.go`, `classifier_controller.go`) | the Classifier, `GVKClassifiers`, the ClassifierReport | version and resource match, aggregation, create/update/send/delete | an outdated match is noticed; the match reaches the management cluster |
| GVK maps of the reconcilers | `GVKClassifiers`, ... | insert, erase, `react` | the policies using a GVK, and only they, are evaluated |
| Node controller (`node_controller.go`) | the last Kubernetes version | reconcile a Node | a new version evaluates the Classifiers using it |
| Process (`cmd/main.go`, `manager.go`) | the manager singleton, the generation's context, the registered `react` methods | start controllers one by one, end a generation on an expired token or a SIGTERM, reset | no change is forgotten; the agent recovers unless it stays signalled |

How they interact: reconcilers and informers call `Evaluate*` and
`ReEvaluateResourceToWatch` on the singleton manager; each kind of policy has
one goroutine that evaluates; messaging callbacks run on goroutines of the NATS
client; the report reconcilers and the management cluster write the same report
objects. Shared memory is guarded by `m.mu`, `m.nats`, `m.watchMu` and the
reconcilers' `Mux`; the API server is the only state that survives a restart.

What is hard: requests arriving between the copy and the end of a batch; reads
through a cache that lags behind the agent's own writes; a report written with
two calls (`Update`, then `Status().Update`); several writers of one report;
deletion, which waits for the asynchronous clean-up of the report; a restart
between any two steps; a CRD or a Secret that changes while informers start.

## Modules

| Module | Models | Proofs |
|---|---|---|
| `CoalescingQueue` | the promise of `interface.go`: the abstract specification of one queue | refined by `EvaluationQueue` |
| `EvaluationQueue` (`MCEvaluationQueue`) | the queues and loops, the first-pass WaitGroup, the stored version, cancellation | `ManagerProofs` |
| `AgentProcess` (`MCAgentProcess`) | the loop of `main`, the manager singleton, the start of the controllers, the reconcilers' maps, `react`, queues and watchers composed | `ManagerProofs` |
| `Watchers` (`MCWatchers`) | the rebuild goroutine, CRD notifications, informers, the NATS Secret, what follows a SIGTERM | `WatchersProofs` |
| `ReloaderMaps` | the three maps of the reloader evaluation | `ReloaderMapsProofs` |
| `ReportStore` | one report object in the API server and the informer cache (external code) | `ReportStoreProofs` (lemmas) |
| `HealthCheckReports` (`MCHealthCheckReports`) | one HealthCheck, its reconcilers, its evaluation and its report; extends `ReportStore` | `HealthCheckReportsProofs` |
| `ClassifierReports` (`MCClassifierReports`) | one Classifier, its reconciler, the Node reconciler, its evaluation and its report; extends `ReportStore` | `ClassifierReportsProofs` |
| `ReloaderReports` (`MCReloaderReports`) | one ConfigMap, the predicates, its evaluation, its report and the reload; extends `ReportStore` | `ReloaderReportsProofs` |
| `EventReports` (`MCEventReports`) | one EventSource, its reconciler, its evaluation, the messaging callbacks and its report; extends `ReportStore` | `EventReportsProofs` |

**EvaluationQueue.** `queue` is the four job maps, `jobs` the copy a pass works
on, `cur` the evaluation under way, `failed` the failures of the pass. One
critical section of `m.mu` is one action (`Enqueue`, `Drain`, each `Requeue`).
A key is the tuple of the parts the code joins with `:`; the reloader loop
requeues the whole key through `EvaluateReloader`, which prefixes it again, and
the next pass drops a key of three parts (`WellFormed`). The work of an
evaluation is abstracted to its outcome.

**Watchers.** `bpc` follows `buildResourceToWatch`: test the flag, clear it, list
the policies, compare with the previous list, discover the installed resources,
start informers one by one. `copy` keeps the length of its destination, here the
elements of the previous list that are still wanted, and there are never any. `spc` follows `listenForCloudEvents`, which starts the Secret informer
without `m.mu`; `startWatcher` is therefore two steps (look up, insert after the
network calls). The SIGTERM that a late CRD or another NATS configuration leads to sets
`signalled`. What follows is `NextGeneration`: memory is lost as in a new process, but
the context stays cancelled, so nothing is reconciled or watched. `Restart`, a
new process, is external and never assumed to come.

**ReloaderMaps.** `BeginEvaluation`, one `WalkWorkload` per entry of the
Reloader's list, `EndEvaluation`; `WalkFails` is a failed read half-way. The
comparison with the previous workloads is inside the walk, as in the code.
`tracked`, `forgotten` and `seen` are history variables the properties need.

**ReportStore.** Modelled from its use. Reads go to a cache that jumps to the
server's version in its own time; an update fails with a conflict unless the
copy is at the server's version (`fresh`), so versions need no counter; patches
and deletes carry none; a deleted object with a finalizer stays.

**HealthCheckReports.** `epc` is a call-by-call program counter of
`evaluateHealthCheckInstance` and of what it calls, `rpc` the steps of
`reconcileDelete` between which other goroutines run. What the scripts find is
the input `health`. A HealthCheck is `absent`, `new` (no finalizer yet), `live`
or `deleting`; it carries the deployed-by-Sveltos annotation (`shouldIgnore`
drops the others). `sendReport` is the run mode, fixed at the start. The
management cluster's collection (read the report waiting for delivery, take it
over, mark it processed unless it changed) is external.

**EventReports.** The same, with one program counter per writer of the report:
the evaluation goroutine and a callback per subscription. `createEventReport` is
retried from its `Get` on a conflict. JetStream keeps a message until it is
acknowledged and delivers it again after a Nak or a restart; core NATS forgets
it once delivered. Messages that are no CloudEvents, or whose data is not JSON,
never reach the report and are left out. `EventReportReconciler` ignores the
reports the agent creates, since they lack the annotation: it has no action.

**ClassifierReports.** `epc` follows `evaluateClassifierInstance`: the version, the
selectors one after the other (in any order), the script, the report. A version is
its release and the vendor's suffix, which the Node reconciler sees and the
constraints do not. A resource's coming or going and the call of `react` it leads
to are one step, taken only when the selector's informer runs (`watched`); the
notification's own way is in `AgentProcess`. Informers are started by
`updateWatchers`, any time after the Classifier was deployed and possibly after it was
evaluated, and report what their first list holds. `unreported` remembers the
selectors whose resources changed while nobody watched.
`npc` is the Node reconciler, between whose read of the version and list of the
Classifiers the cluster can be upgraded once more. An upgrade changes the version
at once; Nodes report from time to time, so a version the reconciler has not seen
is always noticed in the end. `VersionClassifiers` is written and never read.

**ReloaderReports.** `seen` is what the informer of the Reloader controller last
delivered: several edits can arrive as one. A content is the number of edits of
`Data` and of `BinaryData`, so no edit restores an earlier one. `volumeMap` fills
up as Reloaders are evaluated after a start; how is the matter of `ReloaderMaps`.
`lost` collects the workloads whose reload the code is known to lose, at the
step where it does: the two properties say that there is no other way.

**AgentProcess.** A generation is one turn of the loop of `main`. `starter[n]` is
the goroutine `startControllers` of generation `n`, which nobody waits for;
`reacts` is the generation of each registered `react`, `late` the informer
handlers that survive the generation and ask for the manager there is by then.
A generation ends on an expired token or on a SIGTERM (`restart`), which leaves
`signalled` set: the generations that follow begin with `ended`, and their
`startControllers` waits for ever (`NeverStarts`, which keeps `gen` bounded).
`Crash` is a panic or `os.Exit`, after which the container is started again; `Killed`
is the end that something outside the agent puts to a signalled process. `objects` are the GVKs
there are resources of: an informer that starts notifies only of these. The
four kinds behave alike but for the Reloaders, whose `updateMaps` also erases and
whose reconciler asks for no rebuild: the instance has an EventSource and a
Reloader. A rebuild of the watchers and an evaluation are one step each, as
`Watchers` and the report modules have their inside. Its specification is
`ProcessSpec`, and no name of it is one of `EvaluationQueue`, so that `ManagerProofs`
can hold the proofs about the manager's two halves.

## Runs

| Run | Instance | Shows |
|---|---|---|
| `queue_promise` | three plain loops, one key each | each queue implements `CoalescingQueue`; the WaitGroup counts; the version waits for all first passes |
| `queue_reloader` | the reloader loop with a Reloader, a ConfigMap and a Secret key | a pass owns its batch; every request is served; the first pass ends; cancellation ends the loop |
| `watch_selected` | a policy, a Reloader, a CRD, two contents of the NATS Secret, one edit, one failure | no reconciled policy's GVK is forgotten: an informer runs, or a rebuild will see to it; it ends up watched unless the process stays signalled; an outdated NATS configuration is noticed |
| `reloader_maps` | two Reloaders, two workloads, a volume, lists of at most two, two edits | the maps stay consistent and do not leak |
| `health_reports` | both modes, two healths, one change, two creations, one failed call or restart | no silent update; the health is delivered; deletion completes, no report is left behind |
| `classifier_match` | both modes, two Specs, two selectors, two versions, one change, one failed call or restart | an outdated report is noticed but in two named cases, no silent update, the maps; the match is delivered, no report is left behind |
| `reload_reports` | both modes, two workloads, three edits, one failed call or restart | an outdated workload has a reload on its way, and it arrives |
| `agent_process` | an EventSource and a Reloader, two GVKs, CRDs there or late, two changes, one expired token or SIGTERM | no change is forgotten but in two named cases, a live generation dies of leftovers only, the agent recovers unless it stays signalled |
| `event_delivered` | both modes, JetStream, an event, one failed call or restart | acknowledged events stay recorded; recorded events of a collected report are delivered |
| `event_sending` | sent reports, NATS, an event, one change | the matching resources are delivered |
| `reloader_panic` | violation | a Reloader with three workloads evaluated twice panics |
| `agent_signal` | violation, one SIGTERM | the generation after a SIGTERM begins with a cancelled context |

Why the bounds are enough. Loops share nothing but the WaitGroup, and keys of a
loop nothing but their batch, so three loops, and three keys in one loop, have
every interaction. Two creations give a HealthCheck that meets the report of its
predecessor; one change makes every copy of the report stale in turn; one
failure or restart can fall between any two calls. With two Reloaders a workload
can lose one reference and keep the other. Three edits of a ConfigMap give one for
the report being written, one for the copy being sent and one after it. One expired
token or SIGTERM gives two generations, and goroutines of the first that meet the
second. One edit of the NATS Secret, or one of the policy, falls before, during
or after whatever the listener and the rebuild are doing.
The counters only bound the
environment: changes, failures, restarts. Runs of the report modules and of `AgentProcess`
allow the end of all activity (`CHECK_DEADLOCK FALSE`): with the policies deleted,
or evaluated, and the bounds used up there is nothing left to do.

Deliberately small: `event_delivered` and `event_sending` use one event that
matches and an EventSource that is deployed once; a second one of either takes TLC
beyond five minutes. (`AckedEventRecorded` is proved for any number of both.) `classifier_match` has one
change (an edit, a resource, an upgrade) in all and one creation for the same reason;
its Spec with version and resources has a script, so that the early end of
`getResourcesForResourceSelector` without one is reached by the proofs only.

### Fairness

- Goroutines are scheduled and calls return: weak fairness of each loop,
  reconciler and callback. Failures are never fair; a failing evaluation is
  retried by the loop.
- The informers' resync (`sync-period`, ten minutes by default) is weakly fair,
  informers catch up, notifications are delivered.
- No restart is assumed: neither that a new process follows a SIGTERM, nor that
  the kubelet notices. `SelectedGVKWatched` and `AgentRecovers` therefore speak of
  processes that do not stay signalled.
- `MatchDelivered` needs neither the Node reconciler nor informers: in
  `ClassifierReports` both may be late for ever, and the resync makes up for them.
- The management cluster collects what waits for delivery.
- `removeFinalizer` of the report reconciler is strongly fair in
  `HealthCheckReports`: its event wakes it within moments, while what disables it
  (a new evaluation resetting the phase) recurs with the resync only.
- That a HealthCheckReport gets its finalizer is *not* assumed: `patchObject`
  builds its patch helper after the change it should write, and whether libsveltos
  then writes anything is not decided by this repository. Properties hold either way.
- In `AgentProcess` a call that a cancelled context may end need not fail
  (`BuildFails` is not fair), and the restarter asks for the version every ten
  seconds, so an expired token is noticed.

## Proofs

Every invariant some passing run checks is also proved, for any values of the
constants that meet the named assumptions, as are the action property
`OnlyLeftoversKill` and the refinement `QueuesKeepPromise`. Each inductive
invariant was checked by TLC before it was proved. The proofs do not use fairness.

The assumptions say what instances of a model look like (which writers a report
has, that versions are versions, that bounds are naturals); those added for the
proofs are that the cache is no writer (`CacheAssumption`), that `NoVersion` is no
version, and that there are finitely many GVKs (`FiniteAssumption`) and loops
(`KindsAssumption`), so that Go's slices and the WaitGroup can count them.

`ManagerProofs`, the queues, for any loops, policies, ConfigMaps and Secrets:

- `TypeCorrect`, `BatchesOwned`: `TypeOK /\ BatchOwned` is inductive. It needs
  `WellFormedRequested`: what passes the length check is a key some caller asked
  for, since a requeued reloader key has three parts.
- `DoneOncePerLoop`, `VersionWaitsForAll`: `WaitGroupCounts` and
  `VersionAfterFirstPass` with the types. The count must be exact, not merely
  positive: only then does zero mean that all loops are done.
- `QueuesImplementPromise`: the refinement. Owed evaluations are the key's
  presence in the queue plus its presence in the batch or among the failures.
  `BatchOwned` is what makes each step a step of the promise: were a key in two
  stages of a pass, a step could drop an owed evaluation.

`ManagerProofs`, the process, for any kinds, GVKs and number of generations:

- `ProcessTypeCorrect` (`ProcessTypeOK`): that the next generation exists within the bound needs
  `GenerationsCounted`: each but the first of a process follows an expired token or
  a SIGTERM, and those that begin cancelled share the number of the first of them.
- `ChangesNoticed`: `ChangeNoticed` names two exceptions, a `react` that is not the
  running reconciler's and the last resource of a GVK deleted before its informer's
  first list. It fails to be inductive at one step, the delivered
  notification, which queues only what is in the reconciler's map. `PoliciesMapped`
  closes the gap: an unmapped policy is about to be reconciled, and what a
  reconciliation under way is going to put in the map is up to date, or there is
  another one to come.
- `LeftoversOnly` (`OnlyLeftoversKill`): while `main` runs there is a manager, so no late
  handler and no registration kills a live generation; what does is a
  `startControllers` that finds its manager stopped. `StartersBegun` (no goroutine
  is ahead of its generation) makes it one of an earlier generation.

`WatchersProofs`, for any policies, Reloaders, resources and NATS contents:

- `NoGVKForgotten`: the argument is that the slip at `watchers.go:76` makes things
  work. The remembered list stays empty (`NothingListed`), so no list compares equal
  to it, since Secrets are always wanted (`SecretsWanted`); hence every requested
  rebuild looks at every GVK, no informer is cancelled, and a key of `m.watchers`
  means that one runs (`InformersRun`).

`ReloaderMapsProofs`, for any Reloaders, workloads, volumes and lists:

- `VolumesAreBacked`, `DeletedReloadersForgotten`, `NothingIsLeft`: `volumeMap` is
  backed by `resourceMap` (`VolumesBacked`), deleted Reloaders are forgotten
  (`DeletedReloaderForgotten`), and nothing is left when all are. `NothingLeft` is not inductive; it follows from the other two.
- `TrackedReloadersServed`, `WalkedWorkloadsServed`: the workloads of an evaluated
  Reloader are found from each volume they mounted (`EvaluatedReloaderTracked`). It needs `WalkedSoFar`, which
  says the same of the part of the list walked by the evaluation under way.

The four modules of reports rest on `ReportStoreProofs`, which shows once what each
call on the store does and that it keeps `CopiesCurrent`: a copy that would pass
the API server's version check is the report. Each proof adds what its writers
hold at each step:

- `HealthCheckReportsProofs`, `NothingSilentlyUpdated` (`NoSilentUpdate`): while a report is sent or
  collected nobody else marks it processed, and it is marked only when the
  management cluster has the very copy.
- `ClassifierReportsProofs`, `OutdatedReportsNoticed` (`OutdatedReportNoticed`): unless another evaluation is
  due, what the evaluation under way has read of Spec, version and resources is
  still so (`OnTrack`), or a selector is one of the exceptions: changed while its
  GVK had no informer, or emptied before the informer's first list (`LastWord`,
  `unreported`); `NothingSilentlyUpdated`; `MapsFollow` (`GoneFromMaps`): the map holds what
  the last reconciled Spec selects, and nothing once the finalizer is gone.
- `ReloaderReportsProofs`, `ReloadsOnTheirWay` (`ReloadOnItsWay`): a workload that only the running
  evaluation stands for is, step by step, in `volumeMap`, in the copy written, in
  the report being sent (`InHand`).
- `EventReportsProofs`, `AckedEventsRecorded`: a message about to be acknowledged
  is in the copy whose version the status update checks, or in the report being sent
  (`WriterOK`). The attempt without `sendReport => creations = 1` failed, and TLC
  shows why: an agent that sends acknowledges after the send, and when the
  EventSource is removed and deployed again between the write and the
  acknowledgement, the report with the event is gone by then. The property names
  this exception.

Only model-checked: every liveness property (`RequestServed`, `FirstPassCompletes`,
`LoopsExit`, `SelectedGVKWatched`, `OutdatedConfigurationNoticed`, `HealthDelivered`,
`OrphanCleaned`, `DeletionCompletes`, `MatchDelivered`, `EventDelivered`,
`MatchingDelivered`, `ReloadArrives`, `AgentRecovers`), as liveness under fairness is
outside of what the proof system handles, and the violations of `NoPanic` and
`GenerationsStartAlive`.

## Disagreements between code and comments

Two have runs (`findings`). `reloader_panic`: an entry of `resourceMap` erased twice.
`agent_signal`: the SIGTERM the agent sends to itself cancels the signal handler's context
(`main.go:107`) for good, the loop at `main.go:116` never tests it, and the next
generation begins cancelled, although "On restart, agent will be able to start a
watcher" (`manager.go:309`). Whether a probe or the kubelet ends such a process
depends on its deployment.

The following are visible in the models as well, and were met while writing
them; no property is claimed where they bite, or the property names them as an
exception. In the report modules the exceptions are collected in `lost`: a restart
before a clean-up, reloads requeued under a wrong key, ConfigMaps changed while
the agent is down or before their Reloader is evaluated, reports deleted or
replaced before they were sent or used. `ReloadOnItsWay`, `ReloadArrives` and
`OrphanCleaned` do not catch these; they show that there is no other way of losing a
reload or a report.

- `reloader_evaluation.go:128` requeues the whole key ("Re-queue all Reloaders
  whose evaluation failed", line 125) through `EvaluateReloader`, which prefixes it
  again; the next pass drops it. TLC shows it on `EvaluationQueue` within a few
  steps: a failed key leaves `failed` and is not in `queue`.
- `eventsource_evaluation.go:650` copies `MatchingResources` only to a report the
  management cluster has, and marks the local one processed: CloudEvents recorded
  after the first send are never sent ("sends EventReport to management cluster. It
  also updates EventReport Status to processed", lines 601-602).
- `reloader_evaluation.go:285`: what is sent is the cached report, what is deleted the
  newer one ("deletes ReloaderReport in the managed cluster after updates is sent",
  lines 275-276); line 340 replaces a list that may not have been used yet.
- `node_controller.go:73`: when the version cannot be read the reconciler returns no
  error and waits for the next event of a Node.
- `watchers.go:484`: an informer starts after `updateMaps`, perhaps after the evaluation,
  and notifies only of what its first list holds. Nobody hears of the last
  resource of a GVK deleted in between until the resync.
- `classifier_evaluation.go:207`: an error of `NewConstraint` is only logged, and line 211
  calls `Check` on the nil constraint. Constraints are well-formed in the model.
- `watchers.go:76` copies into a slice of length zero, so "Cancel all watchers we
  are not interested in anymore" (`watchers.go:333`) never happens. The same slip
  is why late CRDs are found again: with a working copy `NoForgottenGVK` fails.
- `watchers.go:424`: two goroutines can both find no watcher and start two
  informers for Secrets ("watcher already present", `watchers.go:425`).
- `nats_evaluation.go:97`: the rebuild can start the Secret informer before the hash
  is saved, which the comment at lines 94-97 rules out; the agent then signals
  itself for nothing, and a new process can lose the race again.
- `nats_evaluation.go:353`: deleting the Secret changes no hash and signals nothing.
- `watchers.go:272`: the version of a Reloader's workloads is filled with the group,
  so they are never watched ("all appsv1", `watchers.go:270`).
- `reloader_evaluation.go:405`: workloads a Reloader still references are dropped
  until their turn in the walk ("no Reloader is referencing", lines 412-413);
  `reloader_evaluation.go:460`: volumes no longer mounted keep their workload.
- `healthcheck_evaluation.go:424`: the first send does not mark the report
  processed ("also updates", lines 383-384).
- `eventreport_controller.go:64`: EventReports never get the finalizer that
  `eventsource_evaluation.go:269-270` counts on, and are deleted undelivered.
- `eventsource_controller.go:259`: the EventSource can be let go although its report
  exists: the cache is stale, or a callback creates the report before `Close`.
- `reloader_controller.go:91`, unlike the other reconcilers, asks for no rebuild of the
  watchers: what a Reloader names is watched once another policy asks.
- `reloader_predicates.go:99`, `:105`, `:110`: changes of Secrets are queued as
  ConfigMaps.

## Assumptions and what is not modelled

Not modelled: Lua and CEL evaluation (their result and failure are inputs), transport
set-up of NATS, logging, metrics, flags, generated code, test environment. The
deferred patch of labels and cluster names in sent reports is left out, as no property
depends on it. A read-modify-write of the management cluster's report is one step.

What the models take for granted:

- `ReloaderReports` keeps lists of workloads as sets: that repeated changes list a
  workload twice does not show. `EventReports` does the same with CloudEvents.
- A CRD installed after `startControllers` looked for it gets no controller until the
  process starts again (`main.go:273`): `AgentRecovers` speaks of the kinds whose CRD
  is there from the start.
- In `AgentProcess` reconciliations end before `mgr.Start` returns, as
  controller-runtime waits for them; informer handlers and `startControllers` need not.
- `mgr.Start` of a manager whose context is cancelled already is library code, taken to
  return without an error; the second signal's `os.Exit` is `Killed`.
- `InitializeManager` empties the reloader maps (`manager.go:143`), so for
  `ReloaderMaps` and `ReloaderReports` a new generation is a restart.
- `wg.Add` runs after the goroutines are started (`manager.go:151`); `EvaluationQueue`
  starts with the WaitGroup counted.

## Plan

The system is modelled as far as it can be checked in this form, and its safety
properties are proved. What is left:

1. The refinement of the composed modules: `AgentProcess` takes a rebuild of the
   watchers as one step, which `Watchers` has in seven. Showing that `Watchers`
   implements it needs an abstract specification of the rebuild both share.
2. The safety part of what is stated as liveness: invariants such as "an orphaned
   report is on its way to being cleaned", from which the temporal properties
   follow by fairness alone.
3. CloudEvents and reloads as bags, to state what a redelivery duplicates.
