---------------------- MODULE ClassifierReportsProofs ----------------------
(***************************************************************************)
(* Proofs about ClassifierReports for any Classifiers, selectors and       *)
(* versions, any number of changes, creations and faults.                  *)
(*                                                                         *)
(* OutdatedReportNoticed is about evaluations that are over; what makes it *)
(* true is what an evaluation holds at each of its steps (OnTrack): unless *)
(* another evaluation is due, what it has read of the Spec, the version    *)
(* and the resources is what they are now.                                 *)
(***************************************************************************)
EXTENDS ClassifierReports, ReportStoreProofs, TLAPS

\* The locals of the matching are in use while resources are looked at only, and
\* only an agent that is to send reports gets to do so.
EvaluationInv == /\ epc # "resources" => todo = {} /\ found = {}
                 /\ epc \in {"send", "deliver"} => sendReport

\* Only the management cluster marks reports processed, and it marks none that
\* the agent sends or that somebody else marked while it was collecting.
WhileCollecting == /\ sendReport => report.phase # "processed"
                   /\ collecting => /\ ~sendReport
                                    /\ copy["collector"].exists
                                    /\ report.phase # "processed"

\* NoSilentUpdate, with the steps from which the evaluation still gets to the
\* reset of the phase.
Resetting == pending \/ queued \/ epc \in {"version", "resources", "get", "create", "update",
                                           "status"}
SilentUpdates == /\ classifier = "live"
                 /\ report.exists /\ report.phase = "processed" /\ report.spec # mgmt
                 => Resetting

\* GVKClassifiers holds the Classifier while it has a finalizer.
MapsInv == /\ classifier \in {"absent", "new"} \/ rpc = "close" => mapped = {}
           /\ classifier = "live" /\ ~pending => spec.selectors \subseteq mapped

\* The Node reconciler has seen no version the cluster has yet to reach.
VersionsSeen == \A v \in {nodeVersion, kubernetesVersion} \cap Versions : ~Later(v, version)

\* No evaluation is due after the one under way, the Node reconciler has nothing
\* to notice that matters to this Classifier, and where selected resources
\* changed unnoticed there are an informer and resources for it to report.
LastWord == /\ classifier = "live" /\ ~pending /\ ~queued
            /\ kubernetesVersion = version \/ spec.constraints = {}
            /\ spec.selectors \cap unreported \subseteq watched \cap present

\* The report, or the match about to be written to it, is up to date.
OnTrack == LastWord =>
    /\ epc \notin {"clean", "delete"}
    /\ epc \in {"version", "resources"} => evaluated = spec
    /\ epc = "resources" => /\ VersionMatches(version, spec)
                            /\ todo \subseteq spec.selectors
                            /\ found = (spec.selectors \ todo) \cap present
                            /\ spec.accepts = NoScript => spec.selectors \ todo \subseteq present
    /\ epc \in {"get", "create", "update"} => match = ActualMatch
    /\ epc \in {"idle", "status", "send", "deliver"} => report.exists /\ report.spec = ActualMatch

IndInv == /\ TypeOK /\ CopiesCurrent /\ EvaluationInv /\ WhileCollecting /\ SilentUpdates
          /\ MapsInv /\ VersionsSeen /\ OnTrack

\* The report's store in a step of any actor.
LEMMA StoreStep ==
    ASSUME IndInv, [Next]_vars
    PROVE  StoreInv'
<1>1. /\ StoreInv
      /\ "evaluator" \in Writers /\ "collector" \in Writers
      /\ "waitingForDelivery" \in Phases /\ "processed" \in Phases
      /\ NoSpec \in Specs \cup {NoSpec} /\ match \in Specs \cup {NoSpec}
  BY WritersAssumption DEF IndInv, TypeOK, StoreInv, Phases
<1>2. CASE InformerCatchesUp
  BY <1>1, <1>2, SyncCacheKeeps DEF InformerCatchesUp
<1>3. CASE Restart
  BY <1>1, <1>3, StoreRestartKeeps DEF Restart
<1>4. CASE createClassifierReport
  BY <1>1, <1>4, GetKeeps DEF createClassifierReport
<1>5. CASE CreateReport
  BY <1>1, <1>5, WritesKeep, DiscardKeeps DEF CreateReport, getClassifierReport
<1>6. CASE updateClassifierReport
  BY <1>1, <1>6, WritesKeep, DiscardKeeps DEF updateClassifierReport
<1>7. CASE updateClassifierReportStatus
  BY <1>1, <1>7, WritesKeep, DiscardKeeps DEF updateClassifierReportStatus
<1>8. CASE sendClassifierReport
  BY <1>1, <1>8, GetKeeps DEF sendClassifierReport
<1>9. CASE Deliver
  BY <1>1, <1>9, DiscardKeeps DEF Deliver
<1>10. CASE CleanDelete
  BY <1>1, <1>10, WritesKeep DEF CleanDelete, storeVars, StoreInv, StoreTypeOK, CopiesCurrent
<1>11. CASE EvaluationFails
  BY <1>1, <1>11, DiscardKeeps DEF EvaluationFails
<1>12. CASE CollectRead
  BY <1>1, <1>12, GetKeeps DEF CollectRead
<1>13. CASE CollectDeliver
  BY <1>1, <1>13, WritesKeep, DiscardKeeps DEF CollectDeliver
<1>14. CASE UNCHANGED storeVars
  BY <1>1, <1>14 DEF storeVars, StoreInv, StoreTypeOK, CopiesCurrent
<1>15. QED
  BY <1>2, <1>3, <1>4, <1>5, <1>6, <1>7, <1>8, <1>9, <1>10, <1>11, <1>12, <1>13, <1>14
     DEF Next, Reconcile, ReconcileNode, Evaluate, Collect, vars, CreateClassifier,
         EditClassifier,
         DeleteClassifier, react, Upgrade, updateWatchers, Resync, ReconcileGone, reconcileNormal,
         reconcileDelete, Close, NodeReconcile, findClassifierUsingKubernetesVersion,
         evaluateClassifierInstance, isVersionAMatch, getResourcesForResourceSelector,
         aggregatedClassification, cleanClassifierReport, NodeUnchanged

\* What the conjuncts of the invariant depend on.
LEMMA Frame ==
    ASSUME IndInv
    PROVE  /\ UNCHANGED <<epc, todo, found, sendReport>> => EvaluationInv'
           /\ UNCHANGED <<report, copy, sendReport, collecting>> => WhileCollecting'
           /\ UNCHANGED <<classifier, spec, pending, rpc, mapped>> => MapsInv'
           /\ UNCHANGED <<version, nodeVersion, kubernetesVersion>> => VersionsSeen'
  BY DEF IndInv, EvaluationInv, WhileCollecting, MapsInv, VersionsSeen

\* A Classifier selects selectors.
LEMMA SelectorsOf ==
    ASSUME NEW s \in ClassifierSpecs \cup {NothingRead}
    PROVE  s.selectors \subseteq Selectors
  BY ClassifierSpecsAssumption DEF NothingRead

\* A step that leaves alone what the evaluation reads and what it has read.
LEMMA StaysOnTrack ==
    ASSUME IndInv, UNCHANGED <<classifier, spec, version, present, watched, unreported,
                               kubernetesVersion>>,
           UNCHANGED <<epc, evaluated, todo, found, match>>,
           pending => pending', queued => queued',
           report'.exists = report.exists, report'.spec = report.spec
    PROVE  OnTrack'
<1>1. LastWord' => LastWord
  BY DEF LastWord
<1>2. ActualMatch' = ActualMatch
  BY DEF ActualMatch
<1>3. QED
  BY <1>1, <1>2 DEF IndInv, OnTrack

\* A step after which another evaluation is due.
LEMMA EvaluationToCome ==
    ASSUME pending' \/ queued' \/ classifier' # "live"
    PROVE  OnTrack' /\ SilentUpdates'
  BY DEF OnTrack, LastWord, SilentUpdates, Resetting

\* Sveltos, the resources, the versions and the informers.
LEMMA ClusterStep ==
    ASSUME IndInv, StoreInv',
           \/ CreateClassifier \/ EditClassifier \/ DeleteClassifier \/ react \/ Upgrade
           \/ updateWatchers \/ Resync \/ InformerCatchesUp \/ Restart
    PROVE  IndInv'
<1> USE DEF IndInv, StoreInv, storeVars, policyVars, localVars, evalVars, clusterVars, nodeVars,
            mgmtVars, bounds
<1>0. /\ "evaluator" \in Writers /\ "collector" \in Writers
      /\ StoreTypeOK /\ ~Absent.exists /\ Absent.phase = "none"
  BY WritersAssumption DEF TypeOK, Absent
<1>1. CASE CreateClassifier
  <2>0. rpc' = "idle" /\ creations' \in Nat
    BY <1>1 DEF TypeOK, CreateClassifier
  <2>1. EvaluationInv' /\ WhileCollecting' /\ VersionsSeen'
    BY <1>1, Frame DEF CreateClassifier
  <2>2. SilentUpdates' /\ OnTrack'
    BY <1>1, EvaluationToCome DEF CreateClassifier
  <2>3. TypeOK'
    BY <1>1, <2>0 DEF TypeOK, CreateClassifier
  <2>4. MapsInv'
    BY <1>1 DEF MapsInv, TypeOK, CreateClassifier
  <2>5. QED
    BY <2>1, <2>2, <2>3, <2>4
<1>2. CASE EditClassifier
  <2>1. EvaluationInv' /\ WhileCollecting' /\ VersionsSeen'
    BY <1>2, Frame DEF EditClassifier, Changed
  <2>2. SilentUpdates' /\ OnTrack'
    BY <1>2, EvaluationToCome DEF EditClassifier, Changed
  <2>3. TypeOK'
    BY <1>2 DEF TypeOK, EditClassifier, Changed
  <2>4. MapsInv'
    BY <1>2 DEF MapsInv, TypeOK, EditClassifier, Changed
  <2>5. QED
    BY <2>1, <2>2, <2>3, <2>4
<1>3. CASE DeleteClassifier
  <2>1. EvaluationInv' /\ WhileCollecting' /\ VersionsSeen'
    BY <1>3, Frame DEF DeleteClassifier
  <2>2. SilentUpdates' /\ OnTrack'
    BY <1>3, EvaluationToCome DEF DeleteClassifier
  <2>3. TypeOK'
    BY <1>3 DEF TypeOK, DeleteClassifier
  <2>4. MapsInv'
    BY <1>3 DEF MapsInv, TypeOK, DeleteClassifier
  <2>5. QED
    BY <2>1, <2>2, <2>3, <2>4
<1>4. CASE react
  <2>1. EvaluationInv' /\ WhileCollecting' /\ MapsInv' /\ VersionsSeen'
    BY <1>4, Frame DEF react, Changed
  <2>2. TypeOK'
    BY <1>4 DEF TypeOK, react, Changed
  <2>3. SilentUpdates'
    BY <1>4 DEF SilentUpdates, Resetting, TypeOK, react, Changed
  <2>4. OnTrack'
    <3> SUFFICES ASSUME LastWord' PROVE OnTrack'
      BY DEF OnTrack
    <3>1. PICK s \in Selectors :
             /\ present' = IF s \in present THEN present \ {s} ELSE present \cup {s}
             /\ queued' = (queued \/ s \in watched \cap mapped)
             /\ unreported' = IF s \in watched THEN unreported \ {s} ELSE unreported \cup {s}
      BY <1>4 DEF react
    <3>2. ~pending /\ classifier = "live" /\ UNCHANGED <<classifier, pending, spec, watched,
                                                         mapped>>
      BY <1>4 DEF LastWord, react
    <3>3. s \notin spec.selectors
      <4>1. SUFFICES ASSUME s \in spec.selectors PROVE FALSE
        OBVIOUS
      <4>2. s \in mapped
        BY <3>2, <4>1 DEF MapsInv
      <4>3. s \notin watched
        BY <3>1, <4>2 DEF LastWord
      <4>4. s \in spec'.selectors \cap unreported' /\ s \notin watched'
        BY <3>1, <3>2, <4>1, <4>3
      <4>5. QED
        BY <4>4 DEF LastWord
    <3>4. present' \cap spec.selectors = present \cap spec.selectors
      BY <3>1, <3>3
    <3>5. LastWord
      <4>1. spec.selectors \cap unreported' = spec.selectors \cap unreported
        BY <3>1, <3>3
      <4>2. ~queued /\ UNCHANGED <<version, kubernetesVersion>>
        BY <1>4, <3>1 DEF LastWord, react
      <4>3. QED
        BY <3>2, <3>4, <4>1, <4>2 DEF LastWord
    <3>6. ActualMatch' = ActualMatch
      <4>1. ResourcesMatch(present', spec) = ResourcesMatch(present, spec)
        BY <3>4 DEF ResourcesMatch
      <4>2. QED
        BY <1>4, <4>1 DEF ActualMatch, react
    <3>7. QED
      BY <1>4, <3>4, <3>5, <3>6 DEF OnTrack, react
  <2>5. QED
    BY <2>1, <2>2, <2>3, <2>4
<1>5. CASE Upgrade
  <2>1. EvaluationInv' /\ WhileCollecting' /\ MapsInv'
    BY <1>5, Frame DEF Upgrade, Changed
  <2>2. TypeOK'
    BY <1>5 DEF TypeOK, Upgrade, Changed
  <2>3. SilentUpdates'
    BY <1>5 DEF SilentUpdates, Resetting, TypeOK, Upgrade, Changed
  <2>4. VersionsSeen'
    <3>1. /\ version \in [release : Nat, suffix : Nat] /\ version' \in [release : Nat, suffix : Nat]
          /\ Later(version', version)
      BY <1>5, VersionsAssumption DEF TypeOK, Upgrade
    <3>2. ASSUME NEW v \in {nodeVersion, kubernetesVersion} \cap Versions, Later(v, version')
          PROVE  Later(v, version)
      <4>1. v \in [release : Nat, suffix : Nat]
        BY VersionsAssumption
      <4>2. QED
        BY <3>1, <3>2, <4>1 DEF Later
    <3>3. QED
      BY <1>5, <3>2 DEF VersionsSeen, Upgrade
  <2>5. OnTrack'
    BY <1>5
       DEF OnTrack, LastWord, ActualMatch, TypeOK, VersionsSeen, Later, VersionMatches, Upgrade,
           Changed
  <2>6. QED
    BY <2>1, <2>2, <2>3, <2>4, <2>5
<1>6. CASE Resync
  <2>1. EvaluationInv' /\ WhileCollecting' /\ VersionsSeen'
    BY <1>6, Frame DEF Resync
  <2>2. SilentUpdates' /\ OnTrack'
    BY <1>6, EvaluationToCome DEF Resync
  <2>3. TypeOK'
    BY <1>6 DEF TypeOK, Resync
  <2>4. MapsInv'
    BY <1>6 DEF MapsInv, TypeOK, Resync
  <2>5. QED
    BY <2>1, <2>2, <2>3, <2>4
<1>7. CASE InformerCatchesUp
  <2>1. EvaluationInv' /\ WhileCollecting' /\ MapsInv' /\ VersionsSeen'
    BY <1>7, Frame DEF InformerCatchesUp, SyncCache
  <2>2. TypeOK'
    BY <1>7 DEF TypeOK, InformerCatchesUp, SyncCache
  <2>3. SilentUpdates'
    BY <1>7 DEF SilentUpdates, Resetting, TypeOK, InformerCatchesUp, SyncCache
  <2>4. OnTrack'
    BY <1>7, StaysOnTrack DEF InformerCatchesUp, SyncCache
  <2>5. QED
    BY <2>1, <2>2, <2>3, <2>4
<1>8. CASE Restart
  <2>0. pending' \in BOOLEAN /\ lost' \in BOOLEAN /\ faults' \in Nat /\ ~copy'["evaluator"].exists
    BY <1>0, <1>8 DEF TypeOK, Restart, StoreRestart
  <2>1. SilentUpdates' /\ OnTrack'
    BY <1>8, EvaluationToCome DEF Restart, LocalsGone, MatchingDone
  <2>2. TypeOK'
    BY <1>0, <1>8, <2>0 DEF TypeOK, Restart, LocalsGone, MatchingDone, StoreRestart
  <2>3. EvaluationInv'
    BY <1>0, <1>8 DEF EvaluationInv, TypeOK, Restart, LocalsGone, MatchingDone, StoreRestart
  <2>4. WhileCollecting'
    BY <1>0, <1>8 DEF WhileCollecting, TypeOK, Restart, LocalsGone, MatchingDone, StoreRestart
  <2>5. MapsInv'
    BY <1>0, <1>8 DEF MapsInv, TypeOK, Restart, LocalsGone, MatchingDone, StoreRestart
  <2>6. VersionsSeen'
    BY <1>8, VersionsAssumption DEF VersionsSeen, Restart
  <2>7. QED
    BY <2>1, <2>2, <2>3, <2>4, <2>5, <2>6
<1>9. CASE updateWatchers
  <2>0. PICK started :
           /\ started = spec.selectors \ watched
           /\ watched' = watched \cup started
           /\ queued' = (queued \/ started \cap present \cap mapped # {})
           /\ unreported' = unreported \ (started \cap present)
    BY <1>9 DEF updateWatchers
  <2>1. EvaluationInv' /\ WhileCollecting' /\ MapsInv' /\ VersionsSeen'
    BY <1>9, Frame DEF updateWatchers
  <2>2. TypeOK'
    <3>1. spec.selectors \subseteq Selectors
      BY SelectorsOf DEF TypeOK
    <3>2. watched' \subseteq Selectors /\ unreported' \subseteq Selectors /\ queued' \in BOOLEAN
      BY <2>0, <3>1 DEF TypeOK
    <3>3. QED
      BY <1>9, <3>2 DEF TypeOK, updateWatchers
  <2>3. SilentUpdates'
    BY <1>9, <2>0 DEF SilentUpdates, Resetting, updateWatchers
  <2>4. OnTrack'
    <3> SUFFICES ASSUME LastWord' PROVE OnTrack'
      BY DEF OnTrack
    <3>1. UNCHANGED <<classifier, pending, spec, mapped, version, kubernetesVersion, present>>
      BY <1>9 DEF updateWatchers
    <3>2. ~queued /\ started \cap present \cap mapped = {}
      BY <2>0 DEF LastWord
    <3>3. spec.selectors \subseteq mapped
      BY <3>1 DEF MapsInv, LastWord
    <3>4. spec.selectors \cap unreported \subseteq watched \cap present
      BY <2>0, <3>1, <3>2, <3>3 DEF LastWord
    <3>5. LastWord
      BY <3>1, <3>2, <3>4 DEF LastWord
    <3>6. ActualMatch' = ActualMatch
      BY <3>1 DEF ActualMatch
    <3>7. QED
      BY <1>9, <3>5, <3>6 DEF OnTrack, updateWatchers
  <2>5. QED
    BY <2>1, <2>2, <2>3, <2>4
<1>10. QED
  BY <1>1, <1>2, <1>3, <1>4, <1>5, <1>6, <1>7, <1>8, <1>9

\* The reconcilers of the Classifier and of the Nodes.
LEMMA ReconcileStep ==
    ASSUME IndInv, StoreInv',
           \/ ReconcileGone \/ reconcileNormal \/ reconcileDelete \/ Close
           \/ NodeReconcile \/ findClassifierUsingKubernetesVersion
    PROVE  IndInv'
<1> USE DEF IndInv, StoreInv, storeVars, policyVars, localVars, evalVars, clusterVars, nodeVars,
            mgmtVars, bounds
<1>1. CASE ReconcileGone
  <2>1. EvaluationInv' /\ WhileCollecting' /\ VersionsSeen'
    BY <1>1, Frame DEF ReconcileGone
  <2>2. TypeOK'
    BY <1>1, ZenonT(30) DEF TypeOK, ReconcileGone
  <2>3. SilentUpdates'
    BY <1>1 DEF SilentUpdates, Resetting, TypeOK, ReconcileGone
  <2>4. MapsInv'
    BY <1>1 DEF MapsInv, TypeOK, ReconcileGone
  <2>5. OnTrack'
    BY <1>1 DEF OnTrack, LastWord, ActualMatch, TypeOK, ReconcileGone
  <2>6. QED
    BY <2>1, <2>2, <2>3, <2>4, <2>5
<1>2. CASE reconcileNormal
  <2>0. mapped' \subseteq Selectors
    BY <1>2, SelectorsOf DEF TypeOK, reconcileNormal, updateMaps
  <2>1. EvaluationInv' /\ WhileCollecting' /\ VersionsSeen'
    BY <1>2, Frame DEF reconcileNormal, updateMaps
  <2>2. SilentUpdates' /\ OnTrack'
    BY <1>2, EvaluationToCome DEF reconcileNormal, updateMaps
  <2>3. TypeOK'
    BY <1>2, <2>0, ZenonT(30) DEF TypeOK, reconcileNormal, updateMaps
  <2>4. MapsInv'
    BY <1>2 DEF MapsInv, TypeOK, reconcileNormal, updateMaps
  <2>5. QED
    BY <2>1, <2>2, <2>3, <2>4
<1>3. CASE reconcileDelete
  <2>1. EvaluationInv' /\ WhileCollecting' /\ VersionsSeen'
    BY <1>3, Frame DEF reconcileDelete
  <2>2. SilentUpdates' /\ OnTrack'
    BY <1>3, EvaluationToCome DEF reconcileDelete
  <2>3. TypeOK'
    BY <1>3, ZenonT(30) DEF TypeOK, reconcileDelete
  <2>4. MapsInv'
    BY <1>3 DEF MapsInv, TypeOK, reconcileDelete
  <2>5. QED
    BY <2>1, <2>2, <2>3, <2>4
<1>4. CASE Close
  <2>1. EvaluationInv' /\ WhileCollecting' /\ VersionsSeen'
    BY <1>4, Frame DEF Close
  <2>2. SilentUpdates' /\ OnTrack'
    BY <1>4, EvaluationToCome DEF Close
  <2>3. TypeOK'
    BY <1>4 DEF TypeOK, Close
  <2>4. MapsInv'
    BY <1>4 DEF MapsInv, TypeOK, Close
  <2>5. QED
    BY <2>1, <2>2, <2>3, <2>4
<1>5. CASE NodeReconcile
  <2>1. EvaluationInv' /\ WhileCollecting' /\ MapsInv'
    BY <1>5, Frame DEF NodeReconcile, NodeUnchanged
  <2>2. TypeOK'
    BY <1>5 DEF TypeOK, NodeReconcile, NodeUnchanged
  <2>3. SilentUpdates'
    BY <1>5 DEF SilentUpdates, Resetting, TypeOK, NodeReconcile, NodeUnchanged
  <2>4. VersionsSeen'
    <3>1. version \in [release : Nat, suffix : Nat]
      BY VersionsAssumption DEF TypeOK
    <3>2. ~Later(version, version)
      BY <3>1 DEF Later
    <3>3. QED
      BY <1>5, <3>2 DEF VersionsSeen, NodeReconcile, NodeUnchanged
  <2>5. OnTrack'
    BY <1>5, StaysOnTrack DEF NodeReconcile, NodeUnchanged
  <2>6. QED
    BY <2>1, <2>2, <2>3, <2>4, <2>5
<1>6. CASE findClassifierUsingKubernetesVersion
  <2>0. faults' \in Nat
    BY <1>6 DEF TypeOK, findClassifierUsingKubernetesVersion
  <2>1. EvaluationInv' /\ WhileCollecting' /\ MapsInv'
    BY <1>6, Frame
       DEF findClassifierUsingKubernetesVersion, NodeUnchanged, UsesKubernetesVersion
  <2>2. TypeOK'
    <3>1. queued' \in BOOLEAN
      BY <1>6 DEF TypeOK, findClassifierUsingKubernetesVersion, UsesKubernetesVersion
    <3>2. kubernetesVersion' \in Versions \cup {NoVersion}
      BY <1>6 DEF TypeOK, findClassifierUsingKubernetesVersion
    <3>3. QED
      BY <1>6, <2>0, <3>1, <3>2 DEF TypeOK, findClassifierUsingKubernetesVersion, NodeUnchanged
  <2>3. SilentUpdates'
    BY <1>6
       DEF SilentUpdates, Resetting, TypeOK, findClassifierUsingKubernetesVersion,
           NodeUnchanged, UsesKubernetesVersion
  <2>4. VersionsSeen'
    BY <1>6, VersionsAssumption DEF VersionsSeen, findClassifierUsingKubernetesVersion,
                                    NodeUnchanged
  <2>5. OnTrack'
    BY <1>6
       DEF OnTrack, LastWord, ActualMatch, TypeOK, findClassifierUsingKubernetesVersion,
           NodeUnchanged, UsesKubernetesVersion
  <2>6. QED
    BY <2>1, <2>2, <2>3, <2>4, <2>5
<1>7. QED
  BY <1>1, <1>2, <1>3, <1>4, <1>5, <1>6

\* The evaluation finds out whether the cluster matches.
LEMMA MatchStep ==
    ASSUME IndInv, StoreInv',
           \/ evaluateClassifierInstance \/ isVersionAMatch
           \/ getResourcesForResourceSelector \/ aggregatedClassification
    PROVE  IndInv'
<1> USE DEF IndInv, StoreInv, storeVars, policyVars, localVars, evalVars, clusterVars, nodeVars,
            mgmtVars, bounds
<1>1. CASE evaluateClassifierInstance
  <2>1. WhileCollecting' /\ MapsInv' /\ VersionsSeen'
    BY <1>1, Frame DEF evaluateClassifierInstance, EvalUnchanged
  <2>2. TypeOK'
    BY <1>1 DEF TypeOK, evaluateClassifierInstance, EvalUnchanged
  <2>3. EvaluationInv'
    BY <1>1 DEF EvaluationInv, TypeOK, evaluateClassifierInstance, EvalUnchanged
  <2>4. SilentUpdates'
    BY <1>1 DEF SilentUpdates, Resetting, TypeOK, evaluateClassifierInstance, EvalUnchanged
  <2>5. OnTrack'
    BY <1>1
       DEF OnTrack, LastWord, ActualMatch, TypeOK, evaluateClassifierInstance, EvalUnchanged
  <2>6. QED
    BY <2>1, <2>2, <2>3, <2>4, <2>5
<1>2. CASE isVersionAMatch
  <2>0. todo' \subseteq Selectors
    BY <1>2, SelectorsOf DEF TypeOK, isVersionAMatch, Matched, MatchingDone
  <2>1. WhileCollecting' /\ MapsInv' /\ VersionsSeen'
    BY <1>2, Frame DEF isVersionAMatch, Goto, EvalUnchanged, Matched, MatchingDone
  <2>2. TypeOK'
    BY <1>2, <2>0 DEF TypeOK, isVersionAMatch, Goto, EvalUnchanged, Matched, MatchingDone
  <2>3. EvaluationInv'
    BY <1>2
       DEF EvaluationInv, TypeOK, isVersionAMatch, Goto, EvalUnchanged, Matched, MatchingDone
  <2>4. SilentUpdates'
    BY <1>2
       DEF SilentUpdates, Resetting, TypeOK, isVersionAMatch, Goto, EvalUnchanged, Matched,
           MatchingDone
  <2>5. OnTrack'
    BY <1>2
       DEF OnTrack, LastWord, ActualMatch, TypeOK, EvaluationInv, isVersionAMatch, Goto,
           EvalUnchanged, Matched, MatchingDone
  <2>6. QED
    BY <2>1, <2>2, <2>3, <2>4, <2>5
<1>3. CASE getResourcesForResourceSelector
  <2>1. WhileCollecting' /\ MapsInv' /\ VersionsSeen'
    BY <1>3, Frame
       DEF getResourcesForResourceSelector, EvalUnchanged, Matched, Goto, MatchingDone
  <2>2. TypeOK'
    BY <1>3
       DEF TypeOK, getResourcesForResourceSelector, EvalUnchanged, Matched, Goto, MatchingDone
  <2>3. EvaluationInv'
    BY <1>3
       DEF EvaluationInv, TypeOK, getResourcesForResourceSelector, EvalUnchanged, Matched, Goto,
           MatchingDone
  <2>4. SilentUpdates'
    BY <1>3
       DEF SilentUpdates, Resetting, TypeOK, getResourcesForResourceSelector, EvalUnchanged,
           Matched, Goto, MatchingDone
  <2>5. OnTrack'
    BY <1>3
       DEF OnTrack, LastWord, ActualMatch, TypeOK, ResourcesMatch,
           getResourcesForResourceSelector, EvalUnchanged, Matched, Goto, MatchingDone
  <2>6. QED
    BY <2>1, <2>2, <2>3, <2>4, <2>5
<1>4. CASE aggregatedClassification
  <2>1. WhileCollecting' /\ MapsInv' /\ VersionsSeen'
    BY <1>4, Frame DEF aggregatedClassification, EvalUnchanged, Matched, Goto, MatchingDone
  <2>2. TypeOK'
    BY <1>4 DEF TypeOK, aggregatedClassification, EvalUnchanged, Matched, Goto, MatchingDone
  <2>3. EvaluationInv'
    BY <1>4
       DEF EvaluationInv, TypeOK, aggregatedClassification, EvalUnchanged, Matched, Goto,
           MatchingDone
  <2>4. SilentUpdates'
    BY <1>4
       DEF SilentUpdates, Resetting, TypeOK, aggregatedClassification, EvalUnchanged, Matched,
           Goto, MatchingDone
  <2>5. OnTrack'
    BY <1>4
       DEF OnTrack, LastWord, ActualMatch, TypeOK, ResourcesMatch, aggregatedClassification,
           EvalUnchanged, Matched, Goto, MatchingDone
  <2>6. QED
    BY <2>1, <2>2, <2>3, <2>4, <2>5
<1>5. QED
  BY <1>1, <1>2, <1>3, <1>4

\* The evaluation writes the report and sends it.
LEMMA WriteStep ==
    ASSUME IndInv, StoreInv',
           \/ createClassifierReport \/ CreateReport \/ updateClassifierReport
           \/ updateClassifierReportStatus \/ sendClassifierReport \/ Deliver
    PROVE  IndInv'
<1> USE DEF IndInv, StoreInv, storeVars, policyVars, localVars, evalVars, clusterVars, nodeVars,
            mgmtVars, bounds
<1>0. /\ "evaluator" \in Writers /\ "collector" \in Writers
      /\ StoreTypeOK /\ ~Absent.exists /\ Absent.phase = "none"
  BY WritersAssumption DEF TypeOK, Absent
<1>1. CASE createClassifierReport
  <2>1. MapsInv' /\ VersionsSeen'
    BY <1>1, Frame DEF createClassifierReport, Goto, EvalUnchanged, OnlySeenBy
  <2>2. TypeOK'
    BY <1>0, <1>1, HoldEffect
       DEF TypeOK, createClassifierReport, Goto, EvalUnchanged, OnlySeenBy
  <2>3. EvaluationInv'
    BY <1>0, <1>1, HoldEffect
       DEF EvaluationInv, TypeOK, createClassifierReport, Goto, EvalUnchanged, OnlySeenBy
  <2>4. WhileCollecting'
    BY <1>0, <1>1, HoldEffect
       DEF WhileCollecting, TypeOK, createClassifierReport, Goto, EvalUnchanged, OnlySeenBy
  <2>5. SilentUpdates'
    BY <1>0, <1>1, HoldEffect
       DEF SilentUpdates, Resetting, TypeOK, createClassifierReport, Goto, EvalUnchanged,
           OnlySeenBy
  <2>6. OnTrack'
    BY <1>0, <1>1, HoldEffect
       DEF OnTrack, LastWord, ActualMatch, TypeOK, createClassifierReport, Goto, EvalUnchanged,
           OnlySeenBy
  <2>7. QED
    BY <2>1, <2>2, <2>3, <2>4, <2>5, <2>6
<1>2. CASE CreateReport
  <2>1. MapsInv' /\ VersionsSeen'
    BY <1>2, Frame
       DEF CreateReport, Goto, Failed, EvalUnchanged, getClassifierReport, LocalsGone,
           MatchingDone, OnlySeenBy
  <2>2. TypeOK'
    BY <1>0, <1>2, CreateEffect, HoldEffect, ZenonT(30)
       DEF TypeOK, CreateReport, Goto, Failed, EvalUnchanged, getClassifierReport, LocalsGone,
           MatchingDone, OnlySeenBy
  <2>3. EvaluationInv'
    BY <1>0, <1>2, CreateEffect, HoldEffect
       DEF EvaluationInv, TypeOK, CreateReport, Goto, Failed, EvalUnchanged,
           getClassifierReport, LocalsGone, MatchingDone, OnlySeenBy
  <2>4. WhileCollecting'
    BY <1>0, <1>2, CreateEffect, HoldEffect
       DEF WhileCollecting, TypeOK, CreateReport, Goto, Failed, EvalUnchanged,
           getClassifierReport, LocalsGone, MatchingDone, OnlySeenBy
  <2>5. SilentUpdates'
    BY <1>0, <1>2, CreateEffect, HoldEffect
       DEF SilentUpdates, Resetting, TypeOK, CreateReport, Goto, Failed, EvalUnchanged,
           getClassifierReport, LocalsGone, MatchingDone, OnlySeenBy
  <2>6. OnTrack'
    BY <1>0, <1>2, CreateEffect, HoldEffect
       DEF OnTrack, LastWord, ActualMatch, TypeOK, CreateReport, Goto, Failed, EvalUnchanged,
           getClassifierReport, LocalsGone, MatchingDone, OnlySeenBy
  <2>7. QED
    BY <2>1, <2>2, <2>3, <2>4, <2>5, <2>6
<1>3. CASE updateClassifierReport
  <2>1. MapsInv' /\ VersionsSeen'
    BY <1>3, Frame
       DEF updateClassifierReport, Goto, Failed, EvalUnchanged, LocalsGone, MatchingDone,
           OnlySeenBy
  <2>2. TypeOK'
    BY <1>0, <1>3, UpdateEffect, HoldEffect, ZenonT(30)
       DEF TypeOK, updateClassifierReport, Goto, Failed, EvalUnchanged, LocalsGone,
           MatchingDone, OnlySeenBy
  <2>3. EvaluationInv'
    BY <1>0, <1>3, UpdateEffect, HoldEffect
       DEF EvaluationInv, TypeOK, updateClassifierReport, Goto, Failed, EvalUnchanged,
           LocalsGone, MatchingDone, OnlySeenBy
  <2>4. WhileCollecting'
    BY <1>0, <1>3, UpdateEffect, HoldEffect
       DEF WhileCollecting, TypeOK, updateClassifierReport, Goto, Failed, EvalUnchanged,
           LocalsGone, MatchingDone, OnlySeenBy
  <2>5. SilentUpdates'
    BY <1>0, <1>3, UpdateEffect, HoldEffect
       DEF SilentUpdates, Resetting, TypeOK, updateClassifierReport, Goto, Failed,
           EvalUnchanged, LocalsGone, MatchingDone, OnlySeenBy
  <2>6. OnTrack'
    <3>1. CASE Update("evaluator", match) /\ Goto("status") /\ UNCHANGED localVars
      <4>1. report'.exists /\ report'.spec = match
        BY <1>0, <3>1, UpdateEffect DEF CanUpdate
      <4>2. LastWord' => LastWord
        BY <1>3, <3>1 DEF LastWord, Goto, updateClassifierReport, EvalUnchanged
      <4>3. ActualMatch' = ActualMatch
        BY <1>3 DEF ActualMatch, updateClassifierReport, EvalUnchanged
      <4>4. QED
        BY <1>3, <3>1, <4>1, <4>2, <4>3 DEF OnTrack, Goto, updateClassifierReport
    <3>2. CASE Failed
      BY <3>2, EvaluationToCome DEF Failed
    <3>3. QED
      BY <1>3, <3>1, <3>2 DEF updateClassifierReport
  <2>7. QED
    BY <2>1, <2>2, <2>3, <2>4, <2>5, <2>6
<1>4. CASE updateClassifierReportStatus
  <2>1. MapsInv' /\ VersionsSeen'
    BY <1>4, Frame
       DEF updateClassifierReportStatus, Failed, EvalUnchanged, AfterStatus, Goto, Finished,
           LocalsGone, MatchingDone, OnlySeenBy
  <2>2. TypeOK'
    BY <1>0, <1>4, StatusUpdateEffect, HoldEffect, ZenonT(30)
       DEF TypeOK, updateClassifierReportStatus, Failed, EvalUnchanged, AfterStatus, Goto,
           Finished, LocalsGone, MatchingDone, OnlySeenBy
  <2>3. EvaluationInv'
    BY <1>0, <1>4, StatusUpdateEffect, HoldEffect
       DEF EvaluationInv, TypeOK, updateClassifierReportStatus, Failed, EvalUnchanged,
           AfterStatus, Goto, Finished, LocalsGone, MatchingDone, OnlySeenBy
  <2>4. WhileCollecting'
    BY <1>0, <1>4, StatusUpdateEffect, HoldEffect
       DEF WhileCollecting, TypeOK, updateClassifierReportStatus, Failed, EvalUnchanged,
           AfterStatus, Goto, Finished, LocalsGone, MatchingDone, OnlySeenBy
  <2>5. SilentUpdates'
    <3>1. CASE StatusUpdate("evaluator", "waitingForDelivery")
      <4>1. report'.phase = "waitingForDelivery"
        BY <1>0, <3>1, StatusUpdateEffect
      <4>2. QED
        BY <4>1 DEF SilentUpdates
    <3>2. CASE Failed
      BY <3>2, EvaluationToCome DEF Failed
    <3>3. QED
      BY <1>4, <3>1, <3>2 DEF updateClassifierReportStatus
  <2>6. OnTrack'
    BY <1>0, <1>4, StatusUpdateEffect, HoldEffect
       DEF OnTrack, LastWord, ActualMatch, TypeOK, updateClassifierReportStatus, Failed,
           EvalUnchanged, AfterStatus, Goto, Finished, LocalsGone, MatchingDone, OnlySeenBy
  <2>7. QED
    BY <2>1, <2>2, <2>3, <2>4, <2>5, <2>6
<1>5. CASE sendClassifierReport
  <2>1. MapsInv' /\ VersionsSeen'
    BY <1>5, Frame
       DEF sendClassifierReport, Goto, Failed, EvalUnchanged, LocalsGone, MatchingDone,
           OnlySeenBy
  <2>2. TypeOK'
    BY <1>0, <1>5, HoldEffect, ZenonT(30)
       DEF TypeOK, sendClassifierReport, Goto, Failed, EvalUnchanged, LocalsGone, MatchingDone,
           OnlySeenBy
  <2>3. EvaluationInv'
    BY <1>0, <1>5, HoldEffect
       DEF EvaluationInv, TypeOK, sendClassifierReport, Goto, Failed, EvalUnchanged, LocalsGone,
           MatchingDone, OnlySeenBy
  <2>4. WhileCollecting'
    BY <1>0, <1>5, HoldEffect
       DEF WhileCollecting, TypeOK, sendClassifierReport, Goto, Failed, EvalUnchanged,
           LocalsGone, MatchingDone, OnlySeenBy
  <2>5. SilentUpdates'
    BY <1>0, <1>5, HoldEffect
       DEF SilentUpdates, Resetting, TypeOK, sendClassifierReport, Goto, Failed, EvalUnchanged,
           LocalsGone, MatchingDone, OnlySeenBy
  <2>6. OnTrack'
    BY <1>0, <1>5, HoldEffect
       DEF OnTrack, LastWord, ActualMatch, TypeOK, sendClassifierReport, Goto, Failed,
           EvalUnchanged, LocalsGone, MatchingDone, OnlySeenBy
  <2>7. QED
    BY <2>1, <2>2, <2>3, <2>4, <2>5, <2>6
<1>6. CASE Deliver
  <2>0. mgmt' \in Specs \cup {NoSpec}
    BY <1>0, <1>6 DEF Deliver, StoreTypeOK, Reports
  <2>1. MapsInv' /\ VersionsSeen'
    BY <1>6, Frame DEF Deliver, Finished, Goto, LocalsGone, MatchingDone, OnlySeenBy
  <2>2. TypeOK'
    BY <1>0, <1>6, HoldEffect, <2>0
       DEF TypeOK, Deliver, Finished, Goto, LocalsGone, MatchingDone, OnlySeenBy
  <2>3. EvaluationInv'
    BY <1>0, <1>6, HoldEffect
       DEF EvaluationInv, TypeOK, Deliver, Finished, Goto, LocalsGone, MatchingDone, OnlySeenBy
  <2>4. WhileCollecting'
    BY <1>0, <1>6, HoldEffect
       DEF WhileCollecting, TypeOK, Deliver, Finished, Goto, LocalsGone, MatchingDone,
           OnlySeenBy
  <2>5. SilentUpdates'
    BY <1>0, <1>6, HoldEffect
       DEF SilentUpdates, Resetting, TypeOK, WhileCollecting, EvaluationInv, Deliver, Finished,
           Goto, LocalsGone, MatchingDone, OnlySeenBy
  <2>6. OnTrack'
    BY <1>0, <1>6, HoldEffect
       DEF OnTrack, LastWord, ActualMatch, TypeOK, Deliver, Finished, Goto, LocalsGone,
           MatchingDone, OnlySeenBy
  <2>7. QED
    BY <2>1, <2>2, <2>3, <2>4, <2>5, <2>6
<1>7. QED
  BY <1>1, <1>2, <1>3, <1>4, <1>5, <1>6

\* The evaluation cleans up after a Classifier, or fails.
LEMMA CleanStep ==
    ASSUME IndInv, StoreInv', cleanClassifierReport \/ CleanDelete \/ EvaluationFails
    PROVE  IndInv'
<1> USE DEF IndInv, StoreInv, storeVars, policyVars, localVars, evalVars, clusterVars, nodeVars,
            mgmtVars, bounds
<1>0. /\ "evaluator" \in Writers /\ "collector" \in Writers
      /\ StoreTypeOK /\ ~Absent.exists /\ Absent.phase = "none"
  BY WritersAssumption DEF TypeOK, Absent
<1>1. CASE cleanClassifierReport
  <2>1. WhileCollecting' /\ MapsInv' /\ VersionsSeen'
    BY <1>1, Frame DEF cleanClassifierReport, Goto
  <2>2. TypeOK'
    BY <1>1 DEF TypeOK, cleanClassifierReport, Goto
  <2>3. EvaluationInv'
    BY <1>1 DEF EvaluationInv, TypeOK, cleanClassifierReport, Goto
  <2>4. SilentUpdates'
    BY <1>1 DEF SilentUpdates, Resetting, TypeOK, cleanClassifierReport, Goto
  <2>5. OnTrack'
    BY <1>1 DEF OnTrack, LastWord, ActualMatch, TypeOK, cleanClassifierReport, Goto
  <2>6. QED
    BY <2>1, <2>2, <2>3, <2>4, <2>5
<1>2. CASE CleanDelete
  <2>1. MapsInv' /\ VersionsSeen'
    BY <1>2, Frame
       DEF CleanDelete, Finished, Failed, EvalUnchanged, LocalsGone, MatchingDone, Goto,
           OnlySeenBy
  <2>2. TypeOK'
    BY <1>0, <1>2, PatchEffect, ZenonT(30)
       DEF TypeOK, CleanDelete, Finished, Failed, EvalUnchanged, LocalsGone, MatchingDone, Goto,
           OnlySeenBy
  <2>3. EvaluationInv'
    BY <1>0, <1>2, PatchEffect
       DEF EvaluationInv, TypeOK, CleanDelete, Finished, Failed, EvalUnchanged, LocalsGone,
           MatchingDone, Goto, OnlySeenBy
  <2>4. WhileCollecting'
    BY <1>0, <1>2, PatchEffect
       DEF WhileCollecting, TypeOK, CleanDelete, Finished, Failed, EvalUnchanged, LocalsGone,
           MatchingDone, Goto, OnlySeenBy
  <2>5. SilentUpdates'
    BY <1>0, <1>2, PatchEffect
       DEF SilentUpdates, Resetting, TypeOK, CleanDelete, Finished, Failed, EvalUnchanged,
           LocalsGone, MatchingDone, Goto, OnlySeenBy
  <2>6. OnTrack'
    BY <1>0, <1>2, PatchEffect
       DEF OnTrack, LastWord, ActualMatch, TypeOK, CleanDelete, Finished, Failed, EvalUnchanged,
           LocalsGone, MatchingDone, Goto, OnlySeenBy
  <2>7. QED
    BY <2>1, <2>2, <2>3, <2>4, <2>5, <2>6
<1>3. CASE EvaluationFails
  <2>0. faults' \in Nat
    BY <1>3 DEF TypeOK, EvaluationFails
  <2>1. MapsInv' /\ VersionsSeen'
    BY <1>3, Frame DEF EvaluationFails, Failed, LocalsGone, MatchingDone, OnlySeenBy
  <2>2. SilentUpdates' /\ OnTrack'
    BY <1>3, EvaluationToCome DEF EvaluationFails, Failed, LocalsGone, MatchingDone
  <2>3. TypeOK'
    BY <1>0, <1>3, HoldEffect, <2>0
       DEF TypeOK, EvaluationFails, Failed, LocalsGone, MatchingDone, OnlySeenBy
  <2>4. EvaluationInv'
    BY <1>0, <1>3, HoldEffect
       DEF EvaluationInv, TypeOK, EvaluationFails, Failed, LocalsGone, MatchingDone, OnlySeenBy
  <2>5. WhileCollecting'
    BY <1>0, <1>3, HoldEffect
       DEF WhileCollecting, TypeOK, EvaluationFails, Failed, LocalsGone, MatchingDone,
           OnlySeenBy
  <2>6. QED
    BY <2>1, <2>2, <2>3, <2>4, <2>5
<1>4. QED
  BY <1>1, <1>2, <1>3

\* The management cluster collects.
LEMMA CollectStep ==
    ASSUME IndInv, StoreInv', CollectRead \/ CollectDeliver
    PROVE  IndInv'
<1> USE DEF IndInv, StoreInv, storeVars, policyVars, localVars, evalVars, clusterVars, nodeVars,
            mgmtVars, bounds
<1>0. /\ "evaluator" \in Writers /\ "collector" \in Writers
      /\ StoreTypeOK /\ ~Absent.exists /\ Absent.phase = "none"
  BY WritersAssumption DEF TypeOK, Absent
<1>1. CASE CollectRead
  <2>1. EvaluationInv' /\ MapsInv' /\ VersionsSeen'
    BY <1>1, Frame DEF CollectRead, OnlySeenBy
  <2>2. TypeOK'
    BY <1>0, <1>1, HoldEffect DEF TypeOK, CollectRead, OnlySeenBy
  <2>3. WhileCollecting'
    BY <1>0, <1>1, HoldEffect DEF WhileCollecting, TypeOK, CollectRead, OnlySeenBy
  <2>4. SilentUpdates'
    BY <1>0, <1>1, HoldEffect DEF SilentUpdates, Resetting, TypeOK, CollectRead, OnlySeenBy
  <2>5. OnTrack'
    BY <1>0, <1>1, HoldEffect, StaysOnTrack DEF CollectRead, OnlySeenBy
  <2>6. QED
    BY <2>1, <2>2, <2>3, <2>4, <2>5
<1>2. CASE CollectDeliver
  <2>0. mgmt' \in Specs \cup {NoSpec}
    BY <1>0, <1>2 DEF CollectDeliver, StoreTypeOK, Reports
  <2>1. EvaluationInv' /\ MapsInv' /\ VersionsSeen'
    BY <1>2, Frame DEF CollectDeliver, OnlySeenBy
  <2>a. copy'["evaluator"] = copy["evaluator"]
    BY <1>0, <1>2, StatusUpdateEffect, HoldEffect DEF CollectDeliver, OnlySeenBy
  <2>b. /\ collecting' = FALSE
        /\ UNCHANGED <<policyVars, evalVars, clusterVars, nodeVars, sendReport, bounds>>
    BY <1>2 DEF CollectDeliver
  <2>2. TypeOK'
    BY <2>0, <2>a, <2>b, ZenonT(30) DEF TypeOK
  <2>3. WhileCollecting'
    BY <1>0, <1>2, StatusUpdateEffect, HoldEffect
       DEF WhileCollecting, TypeOK, CollectDeliver, OnlySeenBy
  <2>4. SilentUpdates'
    BY <1>0, <1>2, StatusUpdateEffect, HoldEffect
       DEF SilentUpdates, Resetting, TypeOK, WhileCollecting, CopiesCurrent, CanUpdate,
           CollectDeliver, OnlySeenBy
  <2>5. OnTrack'
    BY <1>0, <1>2, StatusUpdateEffect, HoldEffect, StaysOnTrack DEF CollectDeliver, OnlySeenBy
  <2>6. QED
    BY <2>1, <2>2, <2>3, <2>4, <2>5
<1>3. QED
  BY <1>1, <1>2

\* The invariant, from the first state on.
LEMMA IndInvHolds == Spec => []IndInv
<1>1. Init => IndInv
  <2> SUFFICES ASSUME Init PROVE IndInv
    OBVIOUS
  <2>1. StoreInv
    BY StoreInitInv DEF Init
  <2>2. TypeOK
    BY <2>1, ModesAssumption, WritersAssumption, DeployedAssumption DEF Init, TypeOK, StoreInv,
                                                                        StoreInit, Absent
  <2>3. VersionsSeen
    BY VersionsAssumption DEF Init, VersionsSeen
  <2>4. QED
    BY <2>1, <2>2, <2>3 DEF Init, IndInv, StoreInv, StoreInit, Absent, EvaluationInv,
       WhileCollecting, SilentUpdates, MapsInv, OnTrack, LastWord
<1>2. IndInv /\ [Next]_vars => IndInv'
  <2> SUFFICES ASSUME IndInv, [Next]_vars PROVE IndInv'
    OBVIOUS
  <2>1. StoreInv'
    BY StoreStep
  <2>2. CASE UNCHANGED vars
    <3> USE DEF vars, storeVars, policyVars, localVars, evalVars, clusterVars, nodeVars, mgmtVars,
                bounds
    <3>1. TypeOK' /\ SilentUpdates'
      BY <2>1, <2>2 DEF IndInv, TypeOK, StoreInv, SilentUpdates, Resetting
    <3>2. OnTrack'
      BY <2>2, StaysOnTrack
    <3>3. QED
      BY <2>1, <2>2, <3>1, <3>2, Frame DEF IndInv, StoreInv
  <2>3. QED
    BY <2>1, <2>2, ClusterStep, ReconcileStep, MatchStep, WriteStep, CleanStep, CollectStep
       DEF Next, Reconcile, ReconcileNode, Evaluate, Collect
<1>3. QED
  BY <1>1, <1>2, PTL DEF Spec

\* Every variable keeps its type, for any bounds; the evaluation holds a copy of
\* the report, and a Spec it has read, in no other step than those that use it.
THEOREM TypeCorrect == Spec => []TypeOK
  BY IndInvHolds, PTL DEF IndInv

\* When no evaluation is due and the Node reconciler knows the cluster's version,
\* the report of a Classifier in use states whether the cluster matches now,
\* unless a selected GVK changed without an informer and still has none, or none
\* of its resources is left for the informer to report.
THEOREM OutdatedReportsNoticed == Spec => []OutdatedReportNoticed
<1>1. IndInv => OutdatedReportNoticed
  BY DEF IndInv, OnTrack, LastWord, OutdatedReportNoticed, EvaluationDue
<1>2. QED
  BY <1>1, IndInvHolds, PTL

\* A report marked processed was delivered as it stands, unless an evaluation
\* is due.
THEOREM NothingSilentlyUpdated == Spec => []NoSilentUpdate
<1>1. IndInv => NoSilentUpdate
  BY DEF IndInv, SilentUpdates, Resetting, NoSilentUpdate, EvaluationDue
<1>2. QED
  BY <1>1, IndInvHolds, PTL

\* A Classifier that is gone is under no GVK, and one in use under all those it
\* selects.
THEOREM MapsFollow == Spec => []GoneFromMaps
<1>1. IndInv => GoneFromMaps
  BY DEF IndInv, MapsInv, GoneFromMaps
<1>2. QED
  BY <1>1, IndInvHolds, PTL
============================================================================
