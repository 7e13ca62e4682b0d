------------------------- MODULE ClassifierReports -------------------------
(***************************************************************************)
(* The life of a Classifier and its ClassifierReport                       *)
(* (controllers/classifier_controller.go, node_controller.go,              *)
(* pkg/evaluation/classifier_evaluation.go).                               *)
(*                                                                         *)
(* A cluster matches a Classifier when its Kubernetes version satisfies    *)
(* the version constraints and the resources selected are there.  Three    *)
(* parties ask for evaluations: the Classifier's reconciler, the informers *)
(* (react), which start some time after the Classifier is reconciled, and  *)
(* the Node reconciler, which is the only one to notice that the version   *)
(* changed.  The evaluation reads the version, then the resources selector *)
(* by selector, while all of these change; it writes the report with two   *)
(* calls, and sends it when the agent is to.                               *)
(*                                                                         *)
(* A report's Spec is whether the cluster matches (Spec.Match).            *)
(***************************************************************************)
EXTENDS Naturals, ReportStore

CONSTANTS Selectors,        \* resource selectors; each names its GVK
          ClassifierSpecs,  \* the Specs the Classifier can have
          Deployed,         \* the selectors some resource matches from the start
          Versions,         \* the cluster's Kubernetes versions
          NoVersion,        \* the version of a NodeReconciler that saw none
          NoScript,         \* a Spec without AggregatedClassification
          Modes,            \* the run modes considered: sendReport or not
          MaxChanges,       \* bound: edits of the Classifier, changes of resources, upgrades
          MaxCreations,     \* bound: times the Classifier is created
          MaxFaults         \* bound: API and script errors, and restarts of the agent

Comparisons == {"Equal", "NotEqual", "GreaterThan", "GreaterThanOrEqualTo", "LessThan",
                "LessThanOrEqualTo"}

ASSUME WritersAssumption == Writers = {"evaluator", "collector"} /\ Specs = BOOLEAN
ASSUME ModesAssumption == Modes \subseteq BOOLEAN
ASSUME DeployedAssumption == Deployed \subseteq Selectors
\* A version is a release (major, minor and patch, in order) and the vendor's
\* suffix.  A script accepts some of the sets of selectors that found resources.
ASSUME VersionsAssumption == /\ Versions \subseteq [release : Nat, suffix : Nat]
                             /\ NoVersion \notin Versions
ASSUME ClassifierSpecsAssumption ==
    \A s \in ClassifierSpecs :
        /\ s.constraints \subseteq [comparison : Comparisons, release : Nat]
        /\ s.selectors \subseteq Selectors
        /\ s.accepts = NoScript \/ s.accepts \subseteq SUBSET s.selectors

VARIABLES classifier,   \* the Classifier
          spec,         \* its Spec
          pending,      \* its key is in the reconciler's workqueue
          rpc,          \* where the reconciler is in reconcileDelete
          mapped,       \* the selectors whose GVKClassifiers set holds it
          queued,       \* it is in classifierJobQueue
          epc,          \* where the evaluation is
          evaluated,    \* the Spec it read
          todo,         \* the selectors still to be looked at
          found,        \* the selectors that found a resource
          match,        \* its outcome so far
          version,      \* the cluster's Kubernetes version
          present,      \* the selectors some resource matches now
          watched,      \* the selectors whose GVK has an informer
          unreported,   \* history: selectors whose resources changed unnoticed since
                        \* an evaluation last began
          npc,          \* where the Node reconciler is
          nodeVersion,  \* the version it read
          kubernetesVersion,  \* r.kubernetesVersion
          mgmt,         \* the match the management cluster knows of
          sendReport,   \* m.sendReport: the agent pushes reports
          collecting,   \* the management cluster is collecting the report
          lost,         \* history: the report escaped the agent's clean-up
          changes, creations, faults

bounds == <<changes, creations, faults, lost>>
policyVars == <<classifier, spec, pending, rpc, mapped>>
localVars == <<evaluated, todo, found, match>>
evalVars == <<queued, epc, localVars>>
clusterVars == <<version, present, watched, unreported>>
nodeVars == <<npc, nodeVersion, kubernetesVersion>>
mgmtVars == <<sendReport, mgmt, collecting>>
vars == <<storeVars, policyVars, evalVars, clusterVars, nodeVars, mgmtVars, bounds>>

NothingRead == [constraints |-> {}, selectors |-> {}, accepts |-> NoScript]

\* The order of upgrades.
Later(v, w) == v.release > w.release \/ (v.release = w.release /\ v.suffix > w.suffix)

\* The cluster starts with its oldest version.
Init == /\ StoreInit
        /\ classifier = "absent" /\ spec = NothingRead /\ pending = FALSE /\ rpc = "idle"
        /\ mapped = {}
        /\ queued = FALSE /\ epc = "idle"
        /\ evaluated = NothingRead /\ todo = {} /\ found = {} /\ match = FALSE
        /\ version \in {v \in Versions : \A w \in Versions : ~Later(v, w)}
        /\ present = Deployed /\ watched = {} /\ unreported = {}
        /\ npc = "idle" /\ nodeVersion = NoVersion /\ kubernetesVersion = NoVersion
        /\ sendReport \in Modes /\ mgmt = NoSpec /\ collecting = FALSE /\ lost = FALSE
        /\ changes = 0 /\ creations = 0 /\ faults = 0

(***************************************************************************)
(* Does the cluster match?                                                 *)
(***************************************************************************)
Satisfies(release, c) ==
    CASE c.comparison = "Equal" -> release = c.release
      [] c.comparison = "NotEqual" -> release # c.release
      [] c.comparison = "GreaterThan" -> release > c.release
      [] c.comparison = "GreaterThanOrEqualTo" -> release >= c.release
      [] c.comparison = "LessThan" -> release < c.release
      [] c.comparison = "LessThanOrEqualTo" -> release <= c.release

\* The suffix takes no part in the comparison.
VersionMatches(v, s) == \A c \in s.constraints : Satisfies(v.release, c)

\* Without a script every selector must find something.
ResourcesMatch(f, s) == IF s.accepts = NoScript THEN s.selectors \subseteq f
                                                ELSE f \cap s.selectors \in s.accepts

\* What a report of this Classifier should say now.
ActualMatch == VersionMatches(version, spec) /\ ResourcesMatch(present, spec)

(***************************************************************************)
(* The cluster.                                                            *)
(***************************************************************************)
\* Sveltos deploys the Classifier in the cluster.
CreateClassifier == /\ classifier = "absent"
                    /\ creations < MaxCreations
                    /\ creations' = creations + 1
                    /\ classifier' = "new"
                    /\ spec' \in ClassifierSpecs
                    /\ pending' = TRUE
                    /\ lost' = FALSE
                    /\ UNCHANGED <<storeVars, rpc, mapped, evalVars, clusterVars, nodeVars,
                                   mgmtVars, changes, faults>>

Changed == changes < MaxChanges /\ changes' = changes + 1

\* Its Spec is edited.
EditClassifier == /\ classifier \in {"new", "live"}
                  /\ Changed
                  /\ spec' \in ClassifierSpecs \ {spec}
                  /\ pending' = TRUE
                  /\ UNCHANGED <<storeVars, classifier, rpc, mapped, evalVars, clusterVars,
                                 nodeVars, mgmtVars, creations, faults, lost>>

\* Sveltos removes it: without the agent's finalizer it is gone at once.  The
\* management cluster drops its own report by itself.
DeleteClassifier == /\ classifier \in {"new", "live"}
                    /\ classifier' = IF classifier = "new" THEN "absent" ELSE "deleting"
                    /\ lost' = (classifier = "new")
                    /\ pending' = TRUE
                    /\ spec' = IF classifier = "new" THEN NothingRead ELSE spec
                    /\ mgmt' = NoSpec
                    /\ UNCHANGED <<storeVars, rpc, mapped, evalVars, clusterVars, nodeVars,
                                   sendReport, collecting, changes, creations, faults>>

\* Resources of a selector come or go.  Their informer, if it runs, calls react,
\* which queues the Classifiers that GVKClassifiers lists for their kind.
react == \E s \in Selectors :
            /\ Changed
            /\ present' = IF s \in present THEN present \ {s} ELSE present \cup {s}
            /\ queued' = (queued \/ s \in watched \cap mapped)
            /\ unreported' = IF s \in watched THEN unreported \ {s} ELSE unreported \cup {s}
            /\ UNCHANGED <<storeVars, policyVars, epc, localVars, version, watched, nodeVars,
                           mgmtVars, creations, faults, lost>>

\* The cluster is upgraded.
Upgrade == /\ Changed
           /\ version' \in {v \in Versions : Later(v, version)}
           /\ UNCHANGED <<storeVars, policyVars, evalVars, present, watched,
                          unreported, nodeVars, mgmtVars, creations, faults, lost>>

\* The informers' periodic resync (sync-period) reconciles what exists.
Resync == /\ classifier # "absent"
          /\ pending' = TRUE
          /\ UNCHANGED <<storeVars, classifier, spec, rpc, mapped, evalVars, clusterVars,
                         nodeVars, mgmtVars, bounds>>

(***************************************************************************)
(* The manager's watchers.                                                 *)
(***************************************************************************)
\* Mutated form of updateWatchers: what the first list holds is not reported.
updateWatchersSilent ==
    /\ classifier \in {"new", "live"}
    /\ LET started == spec.selectors \ watched
       IN  /\ started # {}
           /\ watched' = watched \cup started
           /\ unreported' = unreported \ (started \cap present)
    /\ UNCHANGED <<storeVars, policyVars, evalVars, version, present, nodeVars, mgmtVars,
                   bounds>>

\* Some time after the Classifier was deployed, perhaps not before an evaluation,
\* the missing informers are started (one of another policy may be there before);
\* none is stopped.  react hears of what their first list holds: when the last
\* resource went before, of nothing.
updateWatchers ==
    /\ classifier \in {"new", "live"}
    /\ LET started == spec.selectors \ watched
       IN  /\ started # {}
           /\ watched' = watched \cup started
           /\ queued' = (queued \/ started \cap present \cap mapped # {})
           /\ unreported' = unreported \ (started \cap present)
    /\ UNCHANGED <<storeVars, policyVars, epc, localVars, version, present, nodeVars, mgmtVars,
                   bounds>>

(***************************************************************************)
(* ClassifierReconciler.                                                   *)
(***************************************************************************)
\* Reconcile finds no Classifier.
ReconcileGone == /\ pending /\ rpc = "idle" /\ classifier = "absent"
                 /\ pending' = FALSE
                 /\ UNCHANGED <<storeVars, classifier, spec, rpc, mapped, evalVars, clusterVars,
                                nodeVars, mgmtVars, bounds>>

\* GVKs are entered and never taken out while the Classifier lives.
updateMaps == mapped' = mapped \cup spec.selectors

\* addFinalizer, updateMaps, EvaluateClassifier.
reconcileNormal == /\ pending /\ rpc = "idle" /\ classifier \in {"new", "live"}
                   /\ pending' = FALSE
                   /\ classifier' = "live"
                   /\ updateMaps
                   /\ queued' = TRUE
                   /\ UNCHANGED <<storeVars, spec, rpc, epc, localVars, clusterVars, nodeVars,
                                  mgmtVars, bounds>>

\* Mutated form of reconcileDelete: the evaluation is not queued.
reconcileDeleteUnqueued == /\ pending /\ rpc = "idle" /\ classifier = "deleting"
                           /\ pending' = FALSE
                           /\ mapped' = {}
                           /\ rpc' = "close"
                           /\ UNCHANGED <<storeVars, classifier, spec, evalVars, clusterVars,
                                          nodeVars, mgmtVars, bounds>>

\* Mutated form of reconcileDelete: only the GVKs of its present selectors are
\* cleaned.
reconcileDeleteSelected == /\ pending /\ rpc = "idle" /\ classifier = "deleting"
                           /\ pending' = FALSE
                           /\ mapped' = mapped \ spec.selectors
                           /\ queued' = TRUE
                           /\ rpc' = "close"
                           /\ UNCHANGED <<storeVars, classifier, spec, epc, localVars,
                                          clusterVars, nodeVars, mgmtVars, bounds>>

\* The Classifier leaves the maps, is queued and, without waiting for its
\* report, loses its finalizer.
reconcileDelete == /\ pending /\ rpc = "idle" /\ classifier = "deleting"
                   /\ pending' = FALSE
                   /\ mapped' = {}
                   /\ queued' = TRUE
                   /\ rpc' = "close"
                   /\ UNCHANGED <<storeVars, classifier, spec, epc, localVars, clusterVars,
                                  nodeVars, mgmtVars, bounds>>

\* The deferred scope.Close patches the Classifier.
Close == /\ rpc = "close"
         /\ rpc' = "idle"
         /\ classifier' = "absent"
         /\ spec' = NothingRead
         /\ UNCHANGED <<storeVars, pending, mapped, evalVars, clusterVars, nodeVars, mgmtVars,
                        bounds>>

Reconcile == ReconcileGone \/ reconcileNormal \/ reconcileDelete \/ Close

(***************************************************************************)
(* NodeReconciler: a version it has not seen evaluates the Classifiers     *)
(* with version constraints.                                               *)
(***************************************************************************)
NodeUnchanged == UNCHANGED <<storeVars, policyVars, epc, localVars, clusterVars, mgmtVars,
                             changes, creations, lost>>

\* Nodes report their status from time to time: one is reconciled.  What
\* GetKubernetesVersion answers is compared with the version stored; when it
\* fails, or nothing is new, nothing happens until the next event.
NodeReconcile == /\ npc = "idle"
                 /\ version # kubernetesVersion
                 /\ npc' = "list"
                 /\ nodeVersion' = version
                 /\ UNCHANGED <<kubernetesVersion, queued, faults>>
                 /\ NodeUnchanged

UsesKubernetesVersion == classifier # "absent" /\ spec.constraints # {}

\* EvaluateClassifier of those listed, then the version is stored, which
\* nobody else reads.  The list can fail: the Node is reconciled again.
findClassifierUsingKubernetesVersion ==
    /\ npc = "list"
    /\ npc' = "idle"
    /\ nodeVersion' = NoVersion
    /\ \/ /\ queued' = (queued \/ UsesKubernetesVersion)
          /\ kubernetesVersion' = nodeVersion
          /\ UNCHANGED faults
       \/ /\ faults < MaxFaults
          /\ faults' = faults + 1
          /\ UNCHANGED <<queued, kubernetesVersion>>
    /\ NodeUnchanged

ReconcileNode == NodeReconcile \/ findClassifierUsingKubernetesVersion

(***************************************************************************)
(* The evaluation goroutine: evaluateClassifierInstance.                   *)
(***************************************************************************)
Goto(l) == epc' = l /\ UNCHANGED queued
\* The locals of the matching, and of the whole evaluation, go out of scope.
MatchingDone == evaluated' = NothingRead /\ todo' = {} /\ found' = {}
LocalsGone == MatchingDone /\ match' = FALSE
Finished == Goto("idle") /\ LocalsGone
\* The evaluation returns an error: the loop requeues it.
Failed == epc' = "idle" /\ queued' = TRUE /\ LocalsGone

EvalUnchanged == UNCHANGED <<policyVars, clusterVars, nodeVars, mgmtVars, bounds>>

\* The loop takes the key; the Classifier is read.
evaluateClassifierInstance ==
    /\ epc = "idle" /\ queued
    /\ queued' = FALSE
    /\ IF classifier \in {"absent", "deleting"}
       THEN epc' = "clean" /\ UNCHANGED evaluated
       ELSE epc' = "version" /\ evaluated' = spec
    /\ unreported' = {}
    /\ UNCHANGED <<storeVars, todo, found, match, policyVars, version, present, watched,
                   nodeVars, mgmtVars, bounds>>

\* The matching ends with this outcome; the report is next.
Matched(m) == Goto("get") /\ match' = m /\ MatchingDone

isVersionAMatch ==
    /\ epc = "version"
    /\ IF VersionMatches(version, evaluated)
       THEN /\ Goto("resources")
            /\ todo' = evaluated.selectors
            /\ UNCHANGED <<evaluated, found, match>>
       ELSE Matched(FALSE)
    /\ UNCHANGED storeVars
    /\ EvalUnchanged

\* areResourcesAMatch lists the resources of one selector after the other.
getResourcesForResourceSelector ==
    /\ epc = "resources"
    /\ \E s \in todo :
          IF s \notin present /\ evaluated.accepts = NoScript
          THEN Matched(FALSE)
          ELSE /\ found' = found \cup ({s} \cap present)
               /\ todo' = todo \ {s}
               /\ UNCHANGED <<queued, epc, evaluated, match>>
    /\ UNCHANGED storeVars
    /\ EvalUnchanged

\* All selectors were listed: the script decides, if there is one.
aggregatedClassification ==
    /\ epc = "resources" /\ todo = {}
    /\ Matched(evaluated.accepts = NoScript \/ found \in evaluated.accepts)
    /\ UNCHANGED storeVars
    /\ EvalUnchanged

\* createClassifierReport looks for the report.
createClassifierReport == /\ epc = "get"
                          /\ GetCached("evaluator")
                          /\ Goto(IF cache.exists THEN "update" ELSE "create")
                          /\ UNCHANGED localVars
                          /\ EvalUnchanged

\* The Spec of the report to be created.
getClassifierReport == match

CreateReport ==
    /\ epc = "create"
    /\ \/ Create("evaluator", getClassifierReport) /\ Goto("status") /\ UNCHANGED localVars
       \/ ~CanCreate /\ Failed /\ Discard("evaluator")
    /\ EvalUnchanged

AfterStatus == IF sendReport THEN Goto("send") /\ UNCHANGED localVars ELSE Finished

\* Mutated form of updateClassifierReport: the status is left as it is.
updateClassifierReportOnly ==
    /\ epc = "update"
    /\ \/ Update("evaluator", match) /\ AfterStatus
       \/ ~CanUpdate("evaluator") /\ Failed /\ Discard("evaluator")
    /\ EvalUnchanged

updateClassifierReport ==
    /\ epc = "update"
    /\ \/ Update("evaluator", match) /\ Goto("status") /\ UNCHANGED localVars
       \/ ~CanUpdate("evaluator") /\ Failed /\ Discard("evaluator")
    /\ EvalUnchanged

updateClassifierReportStatus ==
    /\ epc = "status"
    /\ \/ StatusUpdate("evaluator", "waitingForDelivery") /\ AfterStatus
       \/ ~CanUpdate("evaluator") /\ Failed /\ Discard("evaluator")
    /\ EvalUnchanged

\* sendClassifierReport reads the report again, through the cache.
sendClassifierReport ==
    /\ epc = "send"
    /\ GetCached("evaluator")
    /\ IF cache.exists THEN Goto("deliver") /\ UNCHANGED localVars ELSE Failed
    /\ EvalUnchanged

\* Mutated form of Deliver: only a report the management cluster has is updated.
DeliverUpdate == /\ epc = "deliver"
                 /\ mgmt' = IF mgmt = NoSpec THEN mgmt ELSE copy["evaluator"].spec
                 /\ Finished
                 /\ Discard("evaluator")
                 /\ UNCHANGED <<policyVars, clusterVars, nodeVars, sendReport, collecting,
                                bounds>>

\* Its Match is created or updated in the management cluster.  The report in
\* this cluster is not marked processed.
Deliver == /\ epc = "deliver"
           /\ mgmt' = copy["evaluator"].spec
           /\ Finished
           /\ Discard("evaluator")
           /\ UNCHANGED <<policyVars, clusterVars, nodeVars, sendReport, collecting, bounds>>

\* cleanClassifierReport deletes the report the cache shows.
cleanClassifierReport ==
    /\ epc = "clean"
    /\ IF cache.exists THEN Goto("delete") ELSE Goto("idle")
    /\ lost' = (lost \/ (report.exists /\ ~cache.exists))
    /\ UNCHANGED <<storeVars, localVars, policyVars, clusterVars, nodeVars, mgmtVars, changes,
                   creations, faults>>

CleanDelete == /\ epc = "delete"
               /\ \/ Delete /\ Finished
                  \/ ~report.exists /\ Failed /\ UNCHANGED storeVars
               /\ EvalUnchanged

\* Any call of the evaluation can fail: API and network errors, Lua errors.
EvaluationFails == /\ epc # "idle"
                   /\ faults < MaxFaults
                   /\ faults' = faults + 1
                   /\ Failed
                   /\ Discard("evaluator")
                   /\ UNCHANGED <<policyVars, clusterVars, nodeVars, mgmtVars, changes,
                                  creations, lost>>

Evaluate == \/ evaluateClassifierInstance \/ isVersionAMatch
            \/ getResourcesForResourceSelector \/ aggregatedClassification
            \/ createClassifierReport \/ CreateReport
            \/ updateClassifierReport \/ updateClassifierReportStatus
            \/ sendClassifierReport \/ Deliver
            \/ cleanClassifierReport \/ CleanDelete

(***************************************************************************)
(* The management cluster collects the reports of an agent that does not   *)
(* send them (code of other repositories).                                 *)
(***************************************************************************)
CollectRead == /\ ~sendReport /\ ~collecting
               /\ report.exists /\ report.phase = "waitingForDelivery"
               /\ GetLive("collector")
               /\ collecting' = TRUE
               /\ UNCHANGED <<policyVars, evalVars, clusterVars, nodeVars, sendReport, mgmt,
                              bounds>>

\* It takes over what the report says and marks it processed unless it has
\* changed since.
CollectDeliver == /\ collecting
                  /\ collecting' = FALSE
                  /\ mgmt' = copy["collector"].spec
                  /\ \/ StatusUpdate("collector", "processed")
                     \/ ~CanUpdate("collector") /\ Discard("collector")
                  /\ UNCHANGED <<policyVars, evalVars, clusterVars, nodeVars, sendReport, bounds>>

Collect == CollectRead \/ CollectDeliver

(***************************************************************************)
(* The agent's process.                                                    *)
(***************************************************************************)
InformerCatchesUp == /\ SyncCache
                     /\ UNCHANGED <<policyVars, evalVars, clusterVars, nodeVars, mgmtVars, bounds>>

\* A report whose Classifier is gone.
Orphaned == classifier = "absent" /\ report.exists

\* A crash or restart: queues, maps, watchers and copies are lost; the caches list
\* what exists and the reconcilers see all of it.
Restart == /\ faults < MaxFaults
           /\ faults' = faults + 1
           /\ StoreRestart({"collector"})
           /\ pending' = (classifier # "absent")
           /\ rpc' = "idle" /\ mapped' = {}
           /\ queued' = FALSE /\ epc' = "idle" /\ LocalsGone
           /\ npc' = "idle" /\ nodeVersion' = NoVersion /\ kubernetesVersion' = NoVersion
           /\ watched' = {} /\ unreported' = {}
           /\ lost' = (lost \/ Orphaned)
           /\ UNCHANGED <<classifier, spec, version, present, mgmtVars, changes, creations>>

Next == \/ CreateClassifier \/ EditClassifier \/ DeleteClassifier
        \/ react \/ Upgrade \/ Resync \/ updateWatchers
        \/ Reconcile \/ ReconcileNode
        \/ Evaluate \/ EvaluationFails
        \/ Collect
        \/ InformerCatchesUp \/ Restart

\* Goroutines are scheduled, the cache catches up and resyncs, the management
\* cluster collects.  Neither Nodes nor watchers need do anything.  The
\* subscripts are variables that every step of the action changes.
Fairness == /\ WF_pending(Resync) /\ WF_policyVars(Reconcile) /\ WF_evalVars(Evaluate)
            /\ WF_storeVars(InformerCatchesUp) /\ WF_collecting(Collect)

Spec == Init /\ [][Next]_vars /\ Fairness

(***************************************************************************)
(* Properties.                                                             *)
(***************************************************************************)
\* The values the variables take; outside of the steps that write the report
\* (createClassifierReport to sendClassifierReport) the evaluation holds no copy
\* of it, and outside of the matching no Spec.
TypeOK == /\ StoreTypeOK
          /\ copy["evaluator"].exists => epc \in {"update", "status", "deliver"}
          /\ evaluated # NothingRead => epc \in {"version", "resources"}
          /\ classifier \in {"absent", "new", "live", "deleting"}
          /\ spec \in ClassifierSpecs \cup {NothingRead}
          /\ evaluated \in ClassifierSpecs \cup {NothingRead}
          /\ rpc \in {"idle", "close"}
          /\ rpc = "close" => classifier = "deleting"
          /\ npc \in {"idle", "list"}
          /\ epc \in {"idle", "version", "resources", "get", "create", "update", "status",
                      "send", "deliver", "clean", "delete"}
          /\ mapped \subseteq Selectors /\ todo \subseteq Selectors /\ found \subseteq Selectors
          /\ present \subseteq Selectors
          /\ watched \subseteq Selectors /\ unreported \subseteq Selectors
          /\ version \in Versions
          /\ nodeVersion \in Versions \cup {NoVersion}
          /\ kubernetesVersion \in Versions \cup {NoVersion}
          /\ mgmt \in Specs \cup {NoSpec}
          /\ {pending, queued, match, collecting, sendReport, lost} \subseteq BOOLEAN
          /\ changes \in Nat /\ creations \in Nat /\ faults \in Nat

\* An evaluation of the Classifier is under way or bound to come.
EvaluationDue == pending \/ queued \/ epc # "idle"

\* The report of a Classifier in use states whether the cluster matches as it
\* is now, unless an evaluation is due or the Node reconciler has yet to notice
\* an upgrade.  Edits, resources that come and go between the reads of two
\* selectors, upgrades during an evaluation, failed reads and restarts leave an
\* outdated report in two cases only.  A GVK whose resources changed has no
\* informer yet; or the last of them went before its informer started
\* (watchers.go:484), and only the resync repairs that.
OutdatedReportNoticed ==
    classifier = "live" /\ ~(report.exists /\ report.spec = ActualMatch)
        => \/ EvaluationDue \/ kubernetesVersion # version
           \/ \E s \in spec.selectors \cap unreported : s \notin watched \cap present

\* A report that says "processed" was delivered as it stands, unless the
\* evaluation is on its way to reset its phase or one is due.
NoSilentUpdate ==
    /\ classifier = "live"
    /\ report.exists /\ report.phase = "processed" /\ report.spec # mgmt
    => EvaluationDue

\* updateMaps only ever enters GVKs, so GVKClassifiers can hold a Classifier
\* under GVKs it stopped selecting: they must all be gone with it, and a
\* Classifier in use must be under every GVK it selects.
GoneFromMaps == /\ classifier = "absent" => mapped = {}
                /\ classifier = "live" /\ ~pending => spec.selectors \subseteq mapped

\* When a Classifier stays, its report and what the management cluster knows
\* end up stating whether the cluster matches, whatever was interleaved before.
MatchDelivered ==
    <>[](classifier = "live")
        => <>[](report.exists /\ report.spec = ActualMatch /\ mgmt = ActualMatch)

\* No report is left behind: reconcileDelete queues the evaluation that deletes
\* the report before it lets the Classifier go.  Three ways of going escape the
\* agent: a restart before that evaluation, a Classifier deleted before it had
\* its finalizer, and a clean-up that runs before the cache shows the report.
OrphanCleaned == []<>(~Orphaned \/ lost)
============================================================================
