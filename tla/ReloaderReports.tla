-------------------------- MODULE ReloaderReports --------------------------
(***************************************************************************)
(* A ConfigMap that workloads mount, its changes, and the ReloaderReport   *)
(* that has the workloads reloaded (controllers/reloader_predicates.go,    *)
(* pkg/evaluation/reloader_evaluation.go).                                 *)
(*                                                                         *)
(* A predicate on the informer's update events queues the ConfigMap; the   *)
(* evaluation appends the workloads volumeMap lists to the report; the     *)
(* management cluster collects the report, or is sent it and the local one *)
(* is deleted; it then reloads the workloads listed.  How volumeMap is     *)
(* computed is the matter of ReloaderMaps: here it gets one workload after *)
(* the other as the Reloaders are evaluated in a new process.              *)
(*                                                                         *)
(* A report's Spec is the set of workloads it lists (ResourcesToReload).   *)
(* The code appends, and can list a workload twice: sets do not show it.   *)
(***************************************************************************)
EXTENDS Naturals, ReportStore

CONSTANTS Workloads,   \* the Deployments, StatefulSets, DaemonSets mounting the ConfigMap
          Modes,       \* the run modes considered: sendReport or not
          MaxChanges,  \* bound: changes of the ConfigMap and of the Secret of its name
          MaxFaults    \* bound: API errors, and restarts of the agent

ASSUME WritersAssumption == Writers = {"evaluator", "collector"}
ASSUME SpecsAssumption == Specs = SUBSET Workloads
ASSUME ModesAssumption == Modes \subseteq BOOLEAN
ASSUME BoundsAssumption == MaxChanges \in Nat

VARIABLES configMap,   \* its content
          seen,        \* the content in the informer of the Reloader controller
          loaded,      \* loaded[w]: the content workload w started with
          volumeMap,   \* volumeMap[configMap]
          queued,      \* its key is in reloaderJobQueue
          epc,         \* where its evaluation is
          mgmt,        \* the workloads the management cluster's report lists
          sendReport,  \* m.sendReport: the agent pushes reports
          collecting,  \* the management cluster is collecting the report
          lost,        \* history: workloads whose reload a step is known to lose
          changes, faults

clusterVars == <<configMap, loaded>>
agentVars == <<seen, volumeMap, queued, epc>>
mgmtVars == <<sendReport, mgmt, collecting>>
vars == <<storeVars, configMap, seen, loaded, volumeMap, queued, epc, sendReport, mgmt,
          collecting, lost, changes, faults>>

\* Data and BinaryData, each by the number of times it was edited.
Contents == [data : 0..MaxChanges, binaryData : 0..MaxChanges]

Init == /\ StoreInit
        /\ configMap = [data |-> 0, binaryData |-> 0] /\ seen = configMap
        /\ loaded = [w \in Workloads |-> configMap]
        /\ volumeMap = {} /\ queued = FALSE /\ epc = "idle"
        /\ sendReport \in Modes /\ mgmt = {} /\ collecting = FALSE
        /\ lost = {} /\ changes = 0 /\ faults = 0

\* The workload runs with an older content.
Stale(w) == loaded[w] # configMap

\* It is in a report the management cluster has, or will collect.
Reported(w) == \/ w \in mgmt
               \/ /\ ~sendReport
                  /\ report.exists /\ report.phase = "waitingForDelivery" /\ w \in report.spec

\* The workloads whose reload is lost when the evaluation is given up.
Forsaken == {w \in Workloads : {configMap, seen} # {loaded[w]} /\ ~Reported(w)}

(***************************************************************************)
(* The ConfigMap, and the predicates.                                      *)
(***************************************************************************)
\* An edit leaves a content the ConfigMap did not have before.
EditConfigMap == /\ changes < MaxChanges
                 /\ changes' = changes + 1
                 /\ configMap' \in {[configMap EXCEPT !.data = @ + 1],
                                    [configMap EXCEPT !.binaryData = @ + 1]}
                 /\ UNCHANGED <<storeVars, loaded, agentVars, mgmtVars, lost, faults>>

\* Mutated form of Changed: Data is all that is compared.
DataChanged(old, new) == old.data # new.data

Changed(old, new) == old.data # new.data \/ old.binaryData # new.binaryData

\* The informer delivers an update, which may stand for several edits.
ConfigMapPredicates == /\ seen # configMap
                       /\ seen' = configMap
                       /\ queued' = (queued \/ Changed(seen, configMap))
                       /\ UNCHANGED <<storeVars, clusterVars, volumeMap, epc, mgmtVars, lost,
                                      changes, faults>>

\* An update of the Secret of that name queues the ConfigMap.
SecretPredicates == /\ changes < MaxChanges
                    /\ changes' = changes + 1
                    /\ queued' = TRUE
                    /\ UNCHANGED <<storeVars, clusterVars, seen, volumeMap, epc, mgmtVars, lost,
                                   faults>>

\* A Reloader is evaluated (ReloaderMaps), in the same goroutine.
evaluateReloaderInstance == /\ epc = "idle"
                            /\ \E w \in Workloads \ volumeMap : volumeMap' = volumeMap \cup {w}
                            /\ UNCHANGED <<storeVars, clusterVars, seen, queued, epc, mgmtVars,
                                           lost, changes, faults>>

(***************************************************************************)
(* The evaluation goroutine: evaluateMountedResource.                      *)
(***************************************************************************)
Goto(l) == epc' = l /\ UNCHANGED lost
\* The evaluation returns an error.  The loop requeues it under a key that the
\* next pass drops (EvaluationQueue): it is not tried again.
Failed == epc' = "idle" /\ lost' = lost \cup Forsaken

EvalUnchanged == UNCHANGED <<clusterVars, seen, volumeMap, queued, mgmtVars, changes, faults>>

AfterUpdate == IF sendReport THEN "send" ELSE "idle"

\* The loop takes the key.  Without an entry of volumeMap nothing is reported;
\* a workload whose Reloader is yet to be evaluated is not found.
evaluateMountedResource ==
    /\ epc = "idle" /\ queued
    /\ queued' = FALSE
    /\ epc' = IF volumeMap = {} THEN AfterUpdate ELSE "get"
    /\ lost' = lost \cup (Forsaken \ volumeMap)
    /\ UNCHANGED <<storeVars, clusterVars, seen, volumeMap, mgmtVars, changes, faults>>

getReloaderReport == /\ epc = "get"
                     /\ GetCached("evaluator")
                     /\ Goto(IF cache.exists THEN "update" ELSE "create")
                     /\ EvalUnchanged

createReloaderReport == /\ epc = "create"
                        /\ \/ Create("evaluator", {}) /\ Goto("update")
                           \/ ~CanCreate /\ Failed /\ Discard("evaluator")
                        /\ EvalUnchanged

\* Mutated form of updateReloaderReport: the status is not updated.
updateReloaderReportOnly ==
    /\ epc = "update"
    /\ \/ /\ Update("evaluator", copy["evaluator"].spec \cup volumeMap)
          /\ Goto(AfterUpdate)
       \/ ~CanUpdate("evaluator") /\ Failed /\ Discard("evaluator")
    /\ EvalUnchanged

updateReloaderReport ==
    /\ epc = "update"
    /\ \/ Update("evaluator", copy["evaluator"].spec \cup volumeMap) /\ Goto("status")
       \/ ~CanUpdate("evaluator") /\ Failed /\ Discard("evaluator")
    /\ EvalUnchanged

updateReloaderReportStatus ==
    /\ epc = "status"
    /\ \/ StatusUpdate("evaluator", "waitingForDelivery") /\ Goto(AfterUpdate)
       \/ ~CanUpdate("evaluator") /\ Failed /\ Discard("evaluator")
    /\ EvalUnchanged

\* Mutated form of sendReloaderReportToMgtmCluster: it waits for the report to
\* show, and there may be none.
sendReloaderReportToMgtmClusterWaits == /\ epc = "send"
                                        /\ GetCached("evaluator")
                                        /\ Goto(IF cache.exists THEN "deliver" ELSE "send")
                                        /\ EvalUnchanged

\* The report is read again, through the cache.
sendReloaderReportToMgtmCluster == /\ epc = "send"
                                   /\ GetCached("evaluator")
                                   /\ IF cache.exists THEN Goto("deliver") ELSE Failed
                                   /\ EvalUnchanged

\* The management cluster's list is replaced, with it what was not reloaded yet.
createOrUpdateReloaderReportInMgtmtCluster ==
    /\ epc = "deliver"
    /\ mgmt' = copy["evaluator"].spec
    /\ epc' = "delete"
    /\ lost' = lost \cup (mgmt \ copy["evaluator"].spec)
    /\ UNCHANGED <<storeVars, clusterVars, seen, volumeMap, queued, sendReport, collecting,
                   changes, faults>>

\* The report is deleted whatever it lists by now: workloads the copy that was
\* sent did not list are lost.
deleteReloaderReport ==
    /\ epc = "delete"
    /\ \/ /\ report.exists
          /\ Store({}, {"evaluator"}, Absent)
          /\ epc' = "idle"
          /\ lost' = lost \cup (report.spec \ copy["evaluator"].spec)
       \/ ~report.exists /\ Failed /\ Discard("evaluator")
    /\ EvalUnchanged

\* Any call of the evaluation can fail.
EvaluationFails == /\ epc # "idle"
                   /\ faults < MaxFaults
                   /\ faults' = faults + 1
                   /\ Failed
                   /\ Discard("evaluator")
                   /\ UNCHANGED <<clusterVars, seen, volumeMap, queued, mgmtVars, changes>>

Evaluate == \/ evaluateMountedResource \/ getReloaderReport \/ createReloaderReport
            \/ updateReloaderReport \/ updateReloaderReportStatus
            \/ sendReloaderReportToMgtmCluster \/ createOrUpdateReloaderReportInMgtmtCluster
            \/ deleteReloaderReport

(***************************************************************************)
(* The management cluster (code of other repositories).                    *)
(***************************************************************************)
\* It collects the reports of an agent that does not send them, and deletes
\* them unless they have changed since.
CollectRead == /\ ~sendReport /\ ~collecting
               /\ report.exists /\ report.phase = "waitingForDelivery"
               /\ GetLive("collector")
               /\ collecting' = TRUE
               /\ UNCHANGED <<clusterVars, agentVars, sendReport, mgmt, lost, changes, faults>>

CollectDeliver == /\ collecting
                  /\ collecting' = FALSE
                  /\ mgmt' = mgmt \cup copy["collector"].spec
                  /\ \/ CanUpdate("collector") /\ Store({}, {"collector"}, Absent)
                     \/ ~CanUpdate("collector") /\ Discard("collector")
                  /\ UNCHANGED <<clusterVars, agentVars, sendReport, lost, changes, faults>>

\* It reloads the workloads of its report and removes the report.
Reload == /\ mgmt # {}
          /\ loaded' = [w \in Workloads |-> IF w \in mgmt THEN configMap ELSE loaded[w]]
          /\ mgmt' = {}
          /\ lost' = lost \ mgmt
          /\ UNCHANGED <<storeVars, configMap, agentVars, sendReport, collecting, changes, faults>>

(***************************************************************************)
(* The agent's process.                                                    *)
(***************************************************************************)
InformerCatchesUp == /\ SyncCache
                     /\ UNCHANGED <<clusterVars, agentVars, mgmtVars, lost, changes, faults>>

\* A crash or restart: queue and maps are lost; the informer of ConfigMaps
\* starts from what exists, which it does not take for an update.
Restart == /\ faults < MaxFaults
           /\ faults' = faults + 1
           /\ StoreRestart({"collector"})
           /\ seen' = configMap /\ volumeMap' = {} /\ queued' = FALSE /\ epc' = "idle"
           /\ lost' = lost \cup Forsaken
           /\ UNCHANGED <<clusterVars, mgmtVars, changes>>

Next == \/ EditConfigMap \/ ConfigMapPredicates \/ SecretPredicates \/ evaluateReloaderInstance
        \/ Evaluate \/ EvaluationFails
        \/ CollectRead \/ CollectDeliver \/ Reload
        \/ InformerCatchesUp \/ Restart

\* Informers deliver, goroutines are scheduled, and the management cluster
\* collects and reloads.
Fairness == /\ WF_vars(ConfigMapPredicates) /\ WF_vars(evaluateReloaderInstance)
            /\ WF_vars(Evaluate) /\ WF_vars(InformerCatchesUp)
            /\ WF_vars(CollectRead) /\ WF_vars(CollectDeliver) /\ WF_vars(Reload)

Spec == Init /\ [][Next]_vars /\ Fairness

(***************************************************************************)
(* Properties.                                                             *)
(***************************************************************************)
\* The values the variables take; outside of the steps from getReloaderReport
\* to deleteReloaderReport the evaluation holds no copy of the report.
TypeOK == /\ StoreTypeOK
          /\ copy["evaluator"].exists => epc \in {"update", "status", "deliver", "delete"}
          /\ configMap \in Contents /\ seen \in Contents
          /\ loaded \in [Workloads -> Contents]
          /\ volumeMap \subseteq Workloads /\ mgmt \subseteq Workloads /\ lost \subseteq Workloads
          /\ queued \in BOOLEAN /\ collecting \in BOOLEAN /\ sendReport \in Modes
          /\ epc \in {"idle", "get", "create", "update", "status", "send", "deliver", "delete"}
          /\ changes \in Nat /\ faults \in Nat

\* Nothing falls through: a workload running with an outdated ConfigMap has a
\* reload on its way (an update to be delivered, a queued or running
\* evaluation, a report to be collected, a report of the management cluster),
\* or it was lost in one of the ways the code has of losing it: a failed
\* evaluation, which is not tried again; a restart; a ConfigMap evaluated
\* before its Reloader; and, when reports are sent, a report deleted that was
\* not the one sent, or one replaced before the management cluster used it.
ReloadOnItsWay ==
    \A w \in Workloads : Stale(w) => \/ seen # configMap
                                     \/ queued
                                     \/ epc # "idle"
                                     \/ Reported(w)
                                     \/ w \in lost

\* And a reload on its way arrives.
ReloadArrives == \A w \in Workloads : Stale(w) ~> (~Stale(w) \/ w \in lost)
============================================================================
