------------------------- MODULE HealthCheckReports -------------------------
(***************************************************************************)
(* The life of a HealthCheck and its HealthCheckReport                     *)
(* (controllers/healthcheck_controller.go, healthcheckreport_controller.go,*)
(* pkg/evaluation/healthcheck_evaluation.go).                              *)
(*                                                                         *)
(* The HealthCheck's reconciler adds its finalizer and queues evaluations; *)
(* the evaluation goroutine writes the health it finds in the report, one  *)
(* API call at a time; the report's reconciler adds and removes the        *)
(* report's finalizer; the management cluster gets the health either from  *)
(* the agent (sendReport)  or by collecting reports that wait for delivery.*)
(* Two HealthChecks share nothing but the evaluation goroutine, so one     *)
(* name is enough; EvaluationQueue is about the queue.                     *)
(*                                                                         *)
(* A report's Spec is the health it states (ResourceStatuses).             *)
(***************************************************************************)
EXTENDS Naturals, ReportStore

CONSTANTS InitialHealth, \* what the health of the resources can be at first
          Modes,         \* the run modes considered: sendReport or not
          MaxChanges,    \* bound: changes of the resources' health
          MaxCreations,  \* bound: times the HealthCheck is created
          MaxFaults      \* bound: API and script errors, and restarts of the agent

ASSUME WritersAssumption == Writers = {"evaluator", "collector"}
ASSUME ModesAssumption == Modes \subseteq BOOLEAN /\ InitialHealth \subseteq Specs

VARIABLES healthCheck,  \* the HealthCheck
          pending,      \* its key is in the reconciler's workqueue
          rpc,          \* where the reconciler is in reconcileDelete
          mapped,       \* it is in GVKHealthChecks
          queued,       \* it is in healthCheckJobQueue
          epc,          \* where the evaluation is
          statuses,     \* what getHealthStatus returned
          health,       \* the health of the resources selected
          mgmt,         \* the health the management cluster knows of
          sendReport,   \* m.sendReport: the agent pushes reports
          collecting,   \* the management cluster is collecting the report
          lost,         \* history: how the HealthCheck went escaped the agent
          changes, creations, faults

bounds == <<changes, creations, faults, lost>>
policyVars == <<healthCheck, pending, rpc, mapped>>
evalVars == <<queued, epc, statuses>>
mgmtVars == <<sendReport, mgmt, collecting>>
vars == <<report, cache, copy, fresh, healthCheck, pending, rpc, mapped, queued, epc,
          statuses, health, sendReport, mgmt, collecting, lost, changes, creations, faults>>

Init == /\ StoreInit
        /\ healthCheck = "absent" /\ pending = FALSE /\ rpc = "idle" /\ mapped = FALSE
        /\ queued = FALSE /\ epc = "idle" /\ statuses = NoSpec
        /\ health \in InitialHealth
        /\ sendReport \in Modes /\ mgmt = NoSpec /\ collecting = FALSE /\ lost = FALSE
        /\ changes = 0 /\ creations = 0 /\ faults = 0

(***************************************************************************)
(* The cluster.                                                            *)
(***************************************************************************)
\* Sveltos deploys the HealthCheck in the cluster.
CreateHealthCheck == /\ healthCheck = "absent"
                     /\ creations < MaxCreations
                     /\ creations' = creations + 1
                     /\ healthCheck' = "new"
                     /\ pending' = TRUE
                     /\ lost' = FALSE
                     /\ UNCHANGED <<storeVars, rpc, mapped, evalVars, health, mgmtVars,
                                    changes, faults>>

\* Sveltos removes it: without the agent's finalizer it is gone at once.
DeleteHealthCheck == /\ healthCheck \in {"new", "live"}
                     /\ healthCheck' = IF healthCheck = "new" THEN "absent" ELSE "deleting"
                     /\ lost' = (healthCheck = "new")
                     /\ pending' = TRUE
                     /\ UNCHANGED <<storeVars, rpc, mapped, evalVars, health, mgmtVars, changes,
                                    creations, faults>>

\* Resources change; the watcher calls react, which queues the HealthChecks
\* that GVKHealthChecks lists for their kind.
react == /\ changes < MaxChanges
         /\ changes' = changes + 1
         /\ health' \in Specs \ {health}
         /\ queued' = (queued \/ mapped)
         /\ UNCHANGED <<storeVars, policyVars, epc, statuses, mgmtVars, creations, faults, lost>>

\* The informers' periodic resync (sync-period) reconciles what exists.
Resync == /\ healthCheck # "absent"
          /\ pending' = TRUE
          /\ UNCHANGED <<storeVars, healthCheck, rpc, mapped, evalVars, health, mgmtVars, bounds>>

(***************************************************************************)
(* HealthCheckReconciler.                                                  *)
(***************************************************************************)
\* Reconcile finds no HealthCheck.
ReconcileGone == /\ pending /\ rpc = "idle" /\ healthCheck = "absent"
                 /\ pending' = FALSE
                 /\ UNCHANGED <<storeVars, healthCheck, rpc, mapped, evalVars, health, mgmtVars,
                                bounds>>

\* addFinalizer, updateMaps, EvaluateHealthCheck.
reconcileNormal == /\ pending /\ rpc = "idle" /\ healthCheck \in {"new", "live"}
                   /\ pending' = FALSE
                   /\ healthCheck' = "live"
                   /\ mapped' = TRUE
                   /\ queued' = TRUE
                   /\ UNCHANGED <<storeVars, rpc, epc, statuses, health, mgmtVars, bounds>>

\* Mutated form of reconcileDelete: the deletion timestamp is not looked at.
reconcileDeleteAny == /\ pending /\ rpc = "idle" /\ healthCheck # "absent"
                      /\ pending' = FALSE
                      /\ mapped' = FALSE
                      /\ queued' = TRUE
                      /\ rpc' = "check"
                      /\ UNCHANGED <<storeVars, healthCheck, epc, statuses, health, mgmtVars,
                                     bounds>>

\* Mutated form of reconcileDelete: the evaluation is not queued.
reconcileDeleteUnqueued == /\ pending /\ rpc = "idle" /\ healthCheck = "deleting"
                           /\ pending' = FALSE
                           /\ mapped' = FALSE
                           /\ rpc' = "check"
                           /\ UNCHANGED <<storeVars, healthCheck, evalVars, health, mgmtVars,
                                          bounds>>

\* cleanMaps, EvaluateHealthCheck; the report is looked at next.
reconcileDelete == /\ pending /\ rpc = "idle" /\ healthCheck = "deleting"
                   /\ pending' = FALSE
                   /\ mapped' = FALSE
                   /\ queued' = TRUE
                   /\ rpc' = "check"
                   /\ UNCHANGED <<storeVars, healthCheck, epc, statuses, health, mgmtVars, bounds>>

CanRemove == ~cache.exists \/ (cache.deleting /\ cache.phase = "processed")

\* canRemoveFinalizer; when it says no, the key is queued again after 20 s.
canRemoveFinalizer == /\ rpc = "check"
                      /\ rpc' = IF CanRemove THEN "close" ELSE "idle"
                      /\ pending' = (pending \/ ~CanRemove)
                      /\ UNCHANGED <<storeVars, healthCheck, mapped, evalVars, health, mgmtVars,
                                     bounds>>

\* The deferred scope.Close patches the HealthCheck without its finalizer.
Close == /\ rpc = "close"
         /\ rpc' = "idle"
         /\ healthCheck' = "absent"
         /\ UNCHANGED <<storeVars, pending, mapped, evalVars, health, mgmtVars, bounds>>

(***************************************************************************)
(* HealthCheckReportReconciler: it acts on what the cache shows.           *)
(***************************************************************************)
addFinalizer == /\ cache.exists /\ ~cache.deleting /\ ~cache.finalizer
                /\ PatchAddFinalizer
                /\ UNCHANGED <<policyVars, evalVars, health, mgmtVars, bounds>>

removeFinalizer == /\ cache.exists /\ cache.deleting /\ cache.phase = "processed"
                   /\ cache.finalizer
                   /\ PatchRemoveFinalizer
                   /\ UNCHANGED <<policyVars, evalVars, health, mgmtVars, bounds>>

(***************************************************************************)
(* The evaluation goroutine: evaluateHealthCheckInstance.                  *)
(***************************************************************************)
\* statuses is a local variable: once written it is out of use.
Goto(l) == /\ epc' = l
           /\ statuses' = IF l \in {"create", "update"} THEN statuses ELSE NoSpec
           /\ UNCHANGED queued
\* The evaluation returns an error: the loop requeues it.
Failed == epc' = "idle" /\ queued' = TRUE /\ statuses' = NoSpec

EvalUnchanged == UNCHANGED <<policyVars, health, mgmtVars, bounds>>

\* What the selected resources' scripts report now.
getHealthStatus == health

\* The loop takes the key; the HealthCheck is read, and its health unless it
\* is going away.
evaluateHealthCheckInstance ==
    /\ epc = "idle" /\ queued
    /\ queued' = FALSE
    /\ IF healthCheck \in {"absent", "deleting"}
       THEN epc' = "clean" /\ UNCHANGED statuses
       ELSE epc' = "get" /\ statuses' = getHealthStatus
    /\ UNCHANGED storeVars
    /\ EvalUnchanged

\* createHealthCheckReport looks for the report.
createHealthCheckReport == /\ epc = "get"
                           /\ GetCached("evaluator")
                           /\ Goto(IF cache.exists THEN "update" ELSE "create")
                           /\ EvalUnchanged

\* The Spec of the report to be created.
getHealthCheckReportReport == statuses

CreateReport == /\ epc = "create"
                /\ \/ Create("evaluator", getHealthCheckReportReport) /\ Goto("status")
                   \/ ~CanCreate /\ Failed /\ Discard("evaluator")
                /\ EvalUnchanged

\* Mutated form of updateHealthCheckReport: the status is left as it is.
updateHealthCheckReportOnly ==
    /\ epc = "update"
    /\ \/ Update("evaluator", statuses) /\ Goto(IF sendReport THEN "send" ELSE "idle")
       \/ ~CanUpdate("evaluator") /\ Failed /\ Discard("evaluator")
    /\ EvalUnchanged

updateHealthCheckReport == /\ epc = "update"
                           /\ \/ Update("evaluator", statuses) /\ Goto("status")
                              \/ ~CanUpdate("evaluator") /\ Failed /\ Discard("evaluator")
                           /\ EvalUnchanged

updateHealthCheckReportStatus ==
    /\ epc = "status"
    /\ \/ /\ StatusUpdate("evaluator", "waitingForDelivery")
          /\ Goto(IF sendReport THEN "send" ELSE "idle")
       \/ ~CanUpdate("evaluator") /\ Failed /\ Discard("evaluator")
    /\ EvalUnchanged

\* sendHealthCheckReport reads the report again, through the cache.
sendHealthCheckReport == /\ epc = "send"
                         /\ GetCached("evaluator")
                         /\ IF cache.exists THEN Goto("deliver") ELSE Failed
                         /\ EvalUnchanged

\* The management cluster has no such report: it is created, and that is all.
SendCreate == /\ epc = "deliver" /\ mgmt = NoSpec
              /\ mgmt' = copy["evaluator"].spec
              /\ Goto("idle")
              /\ Discard("evaluator")
              /\ UNCHANGED <<policyVars, health, sendReport, collecting, bounds>>

\* Mutated form of SendUpdate: the statuses are not copied.
SendUpdateLabels == /\ epc = "deliver" /\ mgmt # NoSpec
                    /\ Goto("processed")
                    /\ UNCHANGED <<storeVars, policyVars, health, mgmtVars, bounds>>

SendUpdate == /\ epc = "deliver" /\ mgmt # NoSpec
              /\ mgmt' = copy["evaluator"].spec
              /\ Goto("processed")
              /\ UNCHANGED <<storeVars, policyVars, health, sendReport, collecting,
                             bounds>>

SendProcessed == /\ epc = "processed"
                 /\ \/ StatusUpdate("evaluator", "processed") /\ Goto("idle")
                    \/ ~CanUpdate("evaluator") /\ Failed /\ Discard("evaluator")
                 /\ EvalUnchanged

\* cleanHealthCheckReport: nothing to do, or reset the phase and delete.  A report
\* the cache does not show yet escapes the clean-up.
cleanHealthCheckReport == /\ epc = "clean"
                          /\ GetCached("evaluator")
                          /\ Goto(IF cache.exists /\ ~cache.deleting THEN "cleanStatus" ELSE "idle")
                          /\ lost' = (lost \/ (report.exists /\ ~report.deleting
                                               /\ (~cache.exists \/ cache.deleting)))
                          /\ UNCHANGED <<policyVars, health, mgmtVars, changes, creations, faults>>

CleanStatus == /\ epc = "cleanStatus"
               /\ \/ StatusUpdate("evaluator", "waitingForDelivery") /\ Goto("cleanDelete")
                  \/ ~CanUpdate("evaluator") /\ Failed /\ Discard("evaluator")
               /\ EvalUnchanged

CleanDelete == /\ epc = "cleanDelete"
               /\ \/ Delete /\ Goto("idle")
                  \/ ~report.exists /\ Failed /\ Discard("evaluator")
               /\ EvalUnchanged

\* Any call of the evaluation can fail: API and network errors, Lua errors.
EvaluationFails == /\ epc # "idle"
                   /\ faults < MaxFaults
                   /\ faults' = faults + 1
                   /\ Failed
                   /\ Discard("evaluator")
                   /\ UNCHANGED <<policyVars, health, mgmtVars, changes,
                                  creations, lost>>

Evaluate == \/ evaluateHealthCheckInstance \/ createHealthCheckReport \/ CreateReport
            \/ updateHealthCheckReport \/ updateHealthCheckReportStatus
            \/ sendHealthCheckReport \/ SendCreate \/ SendUpdate \/ SendProcessed
            \/ cleanHealthCheckReport \/ CleanStatus \/ CleanDelete

(***************************************************************************)
(* The management cluster collects the reports of an agent that does not   *)
(* send them (code of other repositories).                                 *)
(***************************************************************************)
CollectRead == /\ ~sendReport /\ ~collecting
               /\ report.exists /\ report.phase = "waitingForDelivery"
               /\ GetLive("collector")
               /\ collecting' = TRUE
               /\ UNCHANGED <<policyVars, evalVars, health, sendReport, mgmt, bounds>>

\* It takes over what the report says, or that it is going away, and marks the
\* report processed unless it has changed since.
CollectDeliver == /\ collecting
                  /\ collecting' = FALSE
                  /\ mgmt' = IF copy["collector"].deleting THEN NoSpec ELSE copy["collector"].spec
                  /\ \/ StatusUpdate("collector", "processed")
                     \/ ~CanUpdate("collector") /\ Discard("collector")
                  /\ UNCHANGED <<policyVars, evalVars, health, sendReport, bounds>>

(***************************************************************************)
(* The agent's process.                                                    *)
(***************************************************************************)
InformerCatchesUp == SyncCache /\ UNCHANGED <<policyVars, evalVars, health, mgmtVars, bounds>>

\* A report whose HealthCheck is gone and that is not being deleted.
Orphaned == healthCheck = "absent" /\ report.exists /\ ~report.deleting

\* A crash or restart: queues, maps and copies are lost; the informers list
\* what exists and the reconcilers see all of it.
Restart == /\ faults < MaxFaults
           /\ faults' = faults + 1
           /\ StoreRestart({"collector"})
           /\ pending' = (healthCheck # "absent")
           /\ rpc' = "idle" /\ mapped' = FALSE
           /\ queued' = FALSE /\ epc' = "idle" /\ statuses' = NoSpec
           /\ lost' = (lost \/ Orphaned)
           /\ UNCHANGED <<healthCheck, health, mgmtVars, changes, creations>>

Reconcile == \/ ReconcileGone \/ reconcileNormal \/ reconcileDelete \/ canRemoveFinalizer
             \/ Close

Next == \/ CreateHealthCheck \/ DeleteHealthCheck \/ react \/ Resync
        \/ Reconcile
        \/ addFinalizer \/ removeFinalizer
        \/ Evaluate \/ EvaluationFails
        \/ CollectRead \/ CollectDeliver
        \/ InformerCatchesUp \/ Restart

\* Goroutines are scheduled, informers catch up and resync, and the management
\* cluster collects.  That a report gets its finalizer is not assumed.  The
\* report's reconciler is woken by the event that shows a processed deletion,
\* long before the next resync can reset the phase: strong fairness.
Fairness == /\ WF_vars(Resync) /\ WF_vars(Reconcile) /\ SF_vars(removeFinalizer)
            /\ WF_vars(Evaluate) /\ WF_vars(InformerCatchesUp)
            /\ WF_vars(CollectRead) /\ WF_vars(CollectDeliver)

Spec == Init /\ [][Next]_vars /\ Fairness

(***************************************************************************)
(* Properties.                                                             *)
(***************************************************************************)
TypeOK == /\ StoreTypeOK
          /\ healthCheck \in {"absent", "new", "live", "deleting"}
          /\ rpc \in {"idle", "check", "close"}
          /\ rpc # "idle" => healthCheck = "deleting"
          /\ pending \in BOOLEAN /\ mapped \in BOOLEAN /\ queued \in BOOLEAN
          /\ collecting \in BOOLEAN /\ sendReport \in Modes
          /\ epc \in {"idle", "get", "create", "update", "status", "send", "deliver",
                      "processed", "clean", "cleanStatus", "cleanDelete"}
          /\ statuses \in Specs \cup {NoSpec}
          /\ health \in Specs
          /\ mgmt \in Specs \cup {NoSpec}
          /\ lost \in BOOLEAN
          /\ changes \in Nat /\ creations \in Nat /\ faults \in Nat

\* The report of a HealthCheck in use says it has been delivered, and the
\* management cluster knows something else.
Undelivered == /\ healthCheck = "live"
               /\ report.exists /\ ~report.deleting /\ report.phase = "processed"
               /\ report.spec # mgmt

\* A report that says "processed" was delivered as it stands, unless the agent
\* is about to reset its phase: the evaluation is on its way to
\* updateHealthCheckReportStatus, or one is queued, or a reconciliation will
\* queue it.  Updates, conflicts, errors and restarts between the two writes
\* of an evaluation never leave a report that nobody delivers.
NoSilentUpdate == Undelivered => \/ epc \in {"get", "create", "update", "status"}
                                 \/ queued
                                 \/ pending

\* When a HealthCheck stays, its report and what the management cluster knows
\* end up stating the health of the resources, whatever was interleaved before:
\* a previous HealthCheck of that name, errors, restarts, stale reads.
HealthDelivered ==
    <>[](healthCheck = "live")
        => <>[](report.exists /\ report.spec = health /\ mgmt = health)

\* No report is left behind: when the HealthCheck is gone, a report that is
\* not being deleted goes too (reconcileDelete queues the evaluation that
\* cleans up before it lets the HealthCheck go).  Three ways of going escape
\* the agent: a restart in that very window, which loses the queue while nothing
\* reconciles the report; a HealthCheck deleted before it had its finalizer
\* while an evaluation queued for its predecessor was under way; and a clean-up
\* that runs before the cache shows the report.
OrphanCleaned == Orphaned ~> (~Orphaned \/ lost)

\* A deleted HealthCheck goes: when the management cluster collects reports,
\* the report it waits for is deleted and processed.
DeletionCompletes ==
    (healthCheck = "deleting" /\ ~sendReport) ~> healthCheck = "absent"
=============================================================================
