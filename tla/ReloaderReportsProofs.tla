----------------------- MODULE ReloaderReportsProofs -----------------------
(***************************************************************************)
(* Proofs about ReloaderReports for any workloads, any number of changes   *)
(* and faults.                                                             *)
(*                                                                         *)
(* ReloadOnItsWay is about workloads nobody has in hand.  Its induction    *)
(* needs where a workload is that only the running evaluation still stands *)
(* for (InHand): in volumeMap, then in the copy it has written, then in    *)
(* the report that is being sent.                                          *)
(***************************************************************************)
EXTENDS ReloaderReports, ReportStoreProofs, TLAPS

\* The informer lags behind the ConfigMap, whose edits are counted.
SeenBehind == /\ seen.data <= configMap.data /\ seen.binaryData <= configMap.binaryData
              /\ configMap.data + configMap.binaryData <= changes
              /\ changes <= MaxChanges

\* Who holds a copy when, and only agents that send get to the steps that do.
Holding == /\ epc \in {"update", "status", "deliver", "delete"} => copy["evaluator"].exists
           /\ epc \in {"send", "deliver", "delete"} => sendReport
           /\ collecting => ~sendReport /\ copy["collector"].exists

\* Nothing but the running evaluation will have w reloaded.
LeftToEvaluation(w) == /\ Stale(w) /\ seen = configMap
                       /\ ~queued /\ ~Reported(w) /\ w \notin lost

InHand(w) == /\ epc # "idle"
             /\ epc \in {"get", "create", "update"} => w \in volumeMap
             /\ epc = "status" => w \in copy["evaluator"].spec
             /\ epc \in {"send", "deliver", "delete"} => report.exists /\ w \in report.spec
             /\ epc = "delete" => w \notin copy["evaluator"].spec

Underway == \A w \in Workloads : LeftToEvaluation(w) => InHand(w)

IndInv == TypeOK /\ CopiesCurrent /\ Stated /\ SeenBehind /\ Holding /\ Underway

\* A report that is removed.
LEMMA RemoveEffect ==
    ASSUME NEW w \in Writers, Store({}, {w}, Absent)
    PROVE  report' = Absent /\ copy'[w] = Absent /\ OnlySeenBy(w)
  BY StoreCopies DEF Store, OnlySeenBy

LEMMA RemoveKeeps ==
    ASSUME StoreInv, Stated, NEW w \in Writers, Store({}, {w}, Absent)
    PROVE  StoreInv' /\ Stated'
<1>1. Absent \in Reports /\ ~Absent.exists
  BY DEF Absent, Reports, Phases
<1>2. PICK keep \in SUBSET Writers, drop \in SUBSET Writers, new \in Reports :
         /\ keep \cap drop = {} /\ Store(keep, drop, new)
         /\ new.exists => new.spec \in Specs
  BY <1>1
<1>3. QED
  BY <1>2, StoreKeeps, StoreStates

\* The report's store in a step of any actor.
LEMMA StoreStep ==
    ASSUME IndInv, [Next]_vars
    PROVE  StoreInv' /\ Stated'
<1>1. /\ StoreInv /\ Stated
      /\ "evaluator" \in Writers /\ "collector" \in Writers
      /\ "waitingForDelivery" \in Phases /\ {} \in Specs
  BY WritersAssumption, SpecsAssumption DEF IndInv, TypeOK, StoreInv, Phases
<1>2. epc = "update" => copy["evaluator"].spec \cup volumeMap \in Specs
  BY <1>1, SpecsAssumption DEF IndInv, TypeOK, Holding, Stated
<1>3. CASE InformerCatchesUp
  BY <1>1, <1>3, SyncCacheKeeps, ReadsState DEF InformerCatchesUp, StoreInv
<1>4. CASE Restart
  BY <1>1, <1>4, StoreRestartKeeps, ReadsState DEF Restart, StoreInv
<1>5. CASE getReloaderReport
  BY <1>1, <1>5, GetKeeps, ReadsState DEF getReloaderReport, StoreInv
<1>6. CASE createReloaderReport
  BY <1>1, <1>6, WritesKeep, DiscardKeeps, WritesState, ReadsState
     DEF createReloaderReport, StoreInv
<1>7. CASE updateReloaderReport
  BY <1>1, <1>2, <1>7, WritesKeep, DiscardKeeps, WritesState, ReadsState
     DEF updateReloaderReport, StoreInv
<1>8. CASE updateReloaderReportStatus
  BY <1>1, <1>8, WritesKeep, DiscardKeeps, WritesState, ReadsState
     DEF updateReloaderReportStatus, StoreInv
<1>9. CASE EvaluationFails
  BY <1>1, <1>9, DiscardKeeps, ReadsState DEF EvaluationFails, StoreInv
<1>10. CASE sendReloaderReportToMgtmCluster
  BY <1>1, <1>10, GetKeeps, ReadsState DEF sendReloaderReportToMgtmCluster, StoreInv
<1>11. CASE deleteReloaderReport
  BY <1>1, <1>11, RemoveKeeps, DiscardKeeps, ReadsState DEF deleteReloaderReport, StoreInv
<1>12. CASE CollectRead
  BY <1>1, <1>12, GetKeeps, ReadsState DEF CollectRead, StoreInv
<1>13. CASE CollectDeliver
  BY <1>1, <1>13, RemoveKeeps, DiscardKeeps, ReadsState DEF CollectDeliver, StoreInv
<1>14. CASE UNCHANGED storeVars
  BY <1>1, <1>14 DEF storeVars, StoreInv, StoreTypeOK, CopiesCurrent, Stated
<1>15. QED
  BY <1>3, <1>4, <1>5, <1>6, <1>7, <1>8, <1>9, <1>10, <1>11, <1>12, <1>13, <1>14
     DEF Next, Evaluate, vars, EditConfigMap, ConfigMapPredicates, SecretPredicates,
         evaluateReloaderInstance, evaluateMountedResource,
         createOrUpdateReloaderReportInMgtmtCluster, Reload

\* What the conjuncts of the invariant depend on.
LEMMA Frame ==
    ASSUME IndInv
    PROVE  /\ UNCHANGED <<seen, configMap, changes>> => SeenBehind'
           /\ UNCHANGED <<epc, copy, sendReport, collecting>> => Holding'
  BY DEF IndInv, SeenBehind, Holding

\* An edit gives the ConfigMap a content the informer has not seen.
LEMMA EditEffect ==
    ASSUME IndInv, EditConfigMap
    PROVE  configMap' \in Contents /\ SeenBehind' /\ seen # configMap'
<1>1. /\ configMap \in [data : Nat, binaryData : Nat] /\ seen \in [data : Nat, binaryData : Nat]
      /\ changes \in Nat /\ MaxChanges \in Nat
  BY BoundsAssumption DEF IndInv, TypeOK, Contents
<1>2. CASE configMap' = [configMap EXCEPT !.data = @ + 1]
  BY <1>1, <1>2 DEF IndInv, SeenBehind, EditConfigMap, agentVars, Contents
<1>3. CASE configMap' = [configMap EXCEPT !.binaryData = @ + 1]
  BY <1>1, <1>3 DEF IndInv, SeenBehind, EditConfigMap, agentVars, Contents
<1>4. QED
  BY <1>2, <1>3 DEF EditConfigMap

\* Giving the evaluation up loses whatever only it stood for.
LEMMA GivenUp ==
    ASSUME UNCHANGED <<configMap, loaded, mgmt, sendReport, report>>, lost' = lost \cup Forsaken
    PROVE  Underway'
<1> SUFFICES ASSUME NEW w \in Workloads, LeftToEvaluation(w)' PROVE FALSE
  BY DEF Underway
<1>1. Stale(w) /\ ~Reported(w)
  BY DEF LeftToEvaluation, Stale, Reported
<1>2. w \in Forsaken
  BY <1>1 DEF Forsaken, Stale
<1>3. QED
  BY <1>2 DEF LeftToEvaluation

\* Whatever is forsaken is a workload.
LEMMA ForsakenType == Forsaken \subseteq Workloads
  BY DEF Forsaken

\* A step that leaves alone what makes a workload depend on the evaluation.
LEMMA StillLeft ==
    ASSUME NEW w \in Workloads, UNCHANGED <<configMap, loaded, seen, queued, lost>>,
           Reported(w) => Reported(w)', LeftToEvaluation(w)'
    PROVE  LeftToEvaluation(w)
  BY DEF LeftToEvaluation, Stale

\* The ConfigMap, its informer, and the agent's process.
LEMMA ClusterStep ==
    ASSUME IndInv, StoreInv', Stated',
           \/ EditConfigMap \/ ConfigMapPredicates \/ SecretPredicates
           \/ evaluateReloaderInstance \/ InformerCatchesUp \/ Restart
    PROVE  IndInv'
<1> USE DEF IndInv, StoreInv, storeVars, clusterVars, agentVars, mgmtVars
<1>0. /\ "evaluator" \in Writers /\ "collector" \in Writers
      /\ StoreTypeOK /\ ~Absent.exists
  BY WritersAssumption DEF TypeOK, Absent
<1>1. CASE EditConfigMap
  <2>1. Holding'
    BY <1>1, Frame DEF EditConfigMap
  <2>2. TypeOK'
    BY <1>1, EditEffect DEF TypeOK, EditConfigMap
  <2>3. SeenBehind'
    BY <1>1, EditEffect
  <2>4. Underway'
    BY <1>1, EditEffect DEF Underway, LeftToEvaluation, EditConfigMap
  <2>5. QED
    BY <2>1, <2>2, <2>3, <2>4
<1>2. CASE ConfigMapPredicates
  <2>0. /\ configMap \in [data : Nat, binaryData : Nat] /\ seen \in [data : Nat, binaryData : Nat]
        /\ changes \in Nat /\ MaxChanges \in Nat
    BY BoundsAssumption DEF TypeOK, Contents
  <2>1. Holding'
    BY <1>2, Frame DEF ConfigMapPredicates
  <2>2. TypeOK'
    <3>1. queued' \in BOOLEAN
      BY <1>2 DEF TypeOK, ConfigMapPredicates, Changed
    <3>2. QED
      BY <1>2, <3>1 DEF TypeOK, ConfigMapPredicates
  <2>3. SeenBehind'
    BY <1>2, <2>0 DEF SeenBehind, ConfigMapPredicates
  <2>4. Underway'
    <3>1. Changed(seen, configMap)
      BY <1>2, <2>0 DEF Changed, ConfigMapPredicates
    <3>2. queued'
      BY <1>2, <3>1 DEF ConfigMapPredicates
    <3>3. QED
      BY <3>2 DEF Underway, LeftToEvaluation
  <2>5. QED
    BY <2>1, <2>2, <2>3, <2>4
<1>3. CASE SecretPredicates
  <2>1. Holding'
    BY <1>3, Frame DEF SecretPredicates
  <2>2. TypeOK'
    BY <1>3 DEF TypeOK, SecretPredicates
  <2>3. SeenBehind'
    <3>1. /\ configMap \in [data : Nat, binaryData : Nat]
          /\ changes \in Nat /\ MaxChanges \in Nat
      BY BoundsAssumption DEF TypeOK, Contents
    <3>2. QED
      BY <1>3, <3>1 DEF SeenBehind, SecretPredicates
  <2>4. Underway'
    BY <1>3 DEF Underway, LeftToEvaluation, InHand, Stale, Reported, TypeOK, SecretPredicates
  <2>5. QED
    BY <2>1, <2>2, <2>3, <2>4
<1>4. CASE evaluateReloaderInstance
  <2>1. SeenBehind' /\ Holding'
    BY <1>4, Frame DEF evaluateReloaderInstance
  <2>2. TypeOK'
    BY <1>4 DEF TypeOK, evaluateReloaderInstance
  <2>3. Underway'
    BY <1>4
       DEF Underway, LeftToEvaluation, InHand, Stale, Reported, TypeOK, evaluateReloaderInstance
  <2>4. QED
    BY <2>1, <2>2, <2>3
<1>5. CASE InformerCatchesUp
  <2>1. SeenBehind' /\ Holding'
    BY <1>5, Frame DEF InformerCatchesUp, SyncCache
  <2>2. TypeOK'
    BY <1>5 DEF TypeOK, InformerCatchesUp, SyncCache
  <2>3. Underway'
    BY <1>5
       DEF Underway, LeftToEvaluation, InHand, Stale, Reported, TypeOK, InformerCatchesUp,
           SyncCache
  <2>4. QED
    BY <2>1, <2>2, <2>3
<1>6. CASE Restart
  <2>1. TypeOK'
    <3>1. ~copy'["evaluator"].exists /\ faults' \in Nat
      BY <1>0, <1>6 DEF TypeOK, Restart, StoreRestart
    <3>2. QED
      BY <1>6, <3>1, ForsakenType DEF TypeOK, Restart
  <2>2. SeenBehind'
    <3>1. configMap \in [data : Nat, binaryData : Nat]
      BY BoundsAssumption DEF TypeOK, Contents
    <3>2. QED
      BY <1>6, <3>1 DEF SeenBehind, Restart
  <2>3. Holding'
    BY <1>0, <1>6 DEF Holding, TypeOK, Restart, StoreRestart
  <2>4. Underway'
    BY <1>6, GivenUp DEF Restart, StoreRestart
  <2>5. QED
    BY <2>1, <2>2, <2>3, <2>4
<1>7. QED
  BY <1>1, <1>2, <1>3, <1>4, <1>5, <1>6

\* The evaluation writes the report.
LEMMA WriteStep ==
    ASSUME IndInv, StoreInv', Stated',
           \/ evaluateMountedResource \/ getReloaderReport \/ createReloaderReport
           \/ updateReloaderReport \/ updateReloaderReportStatus \/ EvaluationFails
    PROVE  IndInv'
<1> USE DEF IndInv, StoreInv, storeVars, clusterVars, agentVars, mgmtVars
<1>0. /\ "evaluator" \in Writers /\ "collector" \in Writers
      /\ StoreTypeOK /\ ~Absent.exists
  BY WritersAssumption DEF TypeOK, Absent
<1>1. CASE evaluateMountedResource
  <2>1. SeenBehind'
    BY <1>1, Frame DEF evaluateMountedResource, AfterUpdate
  <2>2. TypeOK'
    BY <1>1, ForsakenType DEF TypeOK, evaluateMountedResource, AfterUpdate
  <2>3. Holding'
    BY <1>1 DEF Holding, TypeOK, evaluateMountedResource, AfterUpdate
  <2>4. Underway'
    <3> SUFFICES ASSUME NEW w \in Workloads, LeftToEvaluation(w)' PROVE InHand(w)'
      BY DEF Underway
    <3>1. Stale(w) /\ ~Reported(w)
      BY <1>1 DEF LeftToEvaluation, Stale, Reported, evaluateMountedResource
    <3>2. w \in Forsaken
      BY <3>1 DEF Forsaken, Stale
    <3>3. w \in volumeMap
      BY <1>1, <3>2 DEF LeftToEvaluation, evaluateMountedResource
    <3>4. QED
      BY <1>1, <3>3 DEF InHand, evaluateMountedResource
  <2>5. QED
    BY <2>1, <2>2, <2>3, <2>4
<1>2. CASE getReloaderReport
  <2>1. SeenBehind'
    BY <1>2, Frame DEF getReloaderReport, Goto, EvalUnchanged, OnlySeenBy
  <2>2. TypeOK'
    BY <1>0, <1>2, HoldEffect DEF TypeOK, getReloaderReport, Goto, EvalUnchanged, OnlySeenBy
  <2>3. Holding'
    BY <1>0, <1>2, HoldEffect
       DEF Holding, TypeOK, getReloaderReport, Goto, EvalUnchanged, OnlySeenBy
  <2>4. Underway'
    BY <1>0, <1>2, HoldEffect
       DEF Underway, LeftToEvaluation, InHand, Stale, Reported, TypeOK, getReloaderReport, Goto,
           EvalUnchanged, OnlySeenBy
  <2>5. QED
    BY <2>1, <2>2, <2>3, <2>4
<1>3. CASE createReloaderReport
  <2>1. SeenBehind'
    BY <1>3, Frame DEF createReloaderReport, Goto, Failed, EvalUnchanged, OnlySeenBy
  <2>2. TypeOK'
    BY <1>0, <1>3, ForsakenType, CreateEffect, HoldEffect
       DEF TypeOK, Holding, createReloaderReport, Goto, Failed, EvalUnchanged, OnlySeenBy
  <2>3. Holding'
    BY <1>0, <1>3, CreateEffect, HoldEffect
       DEF Holding, TypeOK, createReloaderReport, Goto, Failed, EvalUnchanged, OnlySeenBy
  <2>4. Underway'
    <3>1. CASE Create("evaluator", {}) /\ Goto("update")
      <4> SUFFICES ASSUME NEW w \in Workloads, LeftToEvaluation(w)' PROVE InHand(w)'
        BY DEF Underway
      <4>1. ~report.exists
        BY <3>1 DEF Create, CanCreate
      <4>2. LeftToEvaluation(w)
        BY <1>3, <3>1, <4>1, StillLeft DEF createReloaderReport, EvalUnchanged, Goto, Reported
      <4>3. QED
        BY <1>3, <3>1, <4>2 DEF Underway, InHand, createReloaderReport, EvalUnchanged, Goto
    <3>2. CASE Failed /\ Discard("evaluator")
      BY <1>0, <1>3, <3>2, HoldEffect, GivenUp DEF createReloaderReport, Failed, EvalUnchanged
    <3>3. QED
      BY <1>3, <3>1, <3>2 DEF createReloaderReport
  <2>5. QED
    BY <2>1, <2>2, <2>3, <2>4
<1>4. CASE updateReloaderReport
  <2>1. SeenBehind'
    BY <1>4, Frame DEF updateReloaderReport, Goto, Failed, EvalUnchanged, OnlySeenBy
  <2>2. TypeOK'
    BY <1>0, <1>4, ForsakenType, UpdateEffect, HoldEffect
       DEF TypeOK, Holding, updateReloaderReport, Goto, Failed, EvalUnchanged, OnlySeenBy
  <2>3. Holding'
    <3>1. CASE Update("evaluator", copy["evaluator"].spec \cup volumeMap)
      <4>1. copy'["evaluator"].exists /\ copy'["collector"] = copy["collector"]
        BY <1>0, <3>1, UpdateEffect DEF CanUpdate, OnlySeenBy
      <4>2. QED
        BY <1>4, <4>1 DEF Holding, updateReloaderReport, Goto, Failed, EvalUnchanged
    <3>2. CASE Failed /\ Discard("evaluator")
      BY <1>0, <1>4, <3>2, HoldEffect
         DEF Holding, updateReloaderReport, Failed, EvalUnchanged, OnlySeenBy
    <3>3. QED
      BY <1>4, <3>1, <3>2 DEF updateReloaderReport
  <2>4. Underway'
    <3>1. CASE Update("evaluator", copy["evaluator"].spec \cup volumeMap) /\ Goto("status")
      <4> SUFFICES ASSUME NEW w \in Workloads, LeftToEvaluation(w)' PROVE InHand(w)'
        BY DEF Underway
      <4>1. /\ CanUpdate("evaluator") /\ report' = copy'["evaluator"]
            /\ report'.spec = copy["evaluator"].spec \cup volumeMap
            /\ report'.exists = report.exists /\ report'.phase = report.phase
        BY <1>0, <3>1, UpdateEffect
      <4>2. report = copy["evaluator"]
        BY <1>0, <1>4, <4>1 DEF CanUpdate, CopiesCurrent, Holding, updateReloaderReport
      <4>3. LeftToEvaluation(w)
        BY <1>4, <3>1, <4>1, <4>2, StillLeft DEF updateReloaderReport, EvalUnchanged, Goto, Reported
      <4>4. w \in volumeMap
        BY <1>4, <4>3 DEF Underway, InHand, updateReloaderReport
      <4>5. QED
        BY <3>1, <4>1, <4>4 DEF InHand, Goto
    <3>2. CASE Failed /\ Discard("evaluator")
      BY <1>0, <1>4, <3>2, HoldEffect, GivenUp DEF updateReloaderReport, Failed, EvalUnchanged
    <3>3. QED
      BY <1>4, <3>1, <3>2 DEF updateReloaderReport
  <2>5. QED
    BY <2>1, <2>2, <2>3, <2>4
<1>5. CASE updateReloaderReportStatus
  <2>1. SeenBehind'
    BY <1>5, Frame
       DEF updateReloaderReportStatus, Goto, Failed, EvalUnchanged, AfterUpdate, OnlySeenBy
  <2>2. TypeOK'
    BY <1>0, <1>5, ForsakenType, StatusUpdateEffect, HoldEffect
       DEF TypeOK, Holding, updateReloaderReportStatus, Goto, Failed, EvalUnchanged,
           AfterUpdate, OnlySeenBy
  <2>3. Holding'
    BY <1>0, <1>5, StatusUpdateEffect, HoldEffect
       DEF Holding, TypeOK, updateReloaderReportStatus, Goto, Failed, EvalUnchanged,
           AfterUpdate, OnlySeenBy
  <2>4. Underway'
    <3>1. CASE StatusUpdate("evaluator", "waitingForDelivery") /\ Goto(AfterUpdate)
      <4> SUFFICES ASSUME NEW w \in Workloads, LeftToEvaluation(w)' PROVE InHand(w)'
        BY DEF Underway
      <4>1. /\ CanUpdate("evaluator")
            /\ report'.spec = report.spec /\ report'.exists = report.exists
            /\ report'.phase = "waitingForDelivery"
        BY <1>0, <3>1, StatusUpdateEffect
      <4>2. report = copy["evaluator"] /\ report.exists
        BY <1>0, <1>5, <4>1 DEF CanUpdate, CopiesCurrent, Holding, updateReloaderReportStatus
      <4>3. LeftToEvaluation(w)
        BY <1>5, <3>1, <4>1, <4>2, StillLeft
           DEF updateReloaderReportStatus, EvalUnchanged, Goto, Reported
      <4>4. w \in report'.spec /\ report'.exists
        BY <1>5, <4>1, <4>2, <4>3 DEF Underway, InHand, updateReloaderReportStatus
      <4>5. sendReport
        BY <1>5, <4>1, <4>4 DEF LeftToEvaluation, Reported, updateReloaderReportStatus, EvalUnchanged
      <4>6. QED
        BY <3>1, <4>4, <4>5 DEF InHand, Goto, AfterUpdate
    <3>2. CASE Failed /\ Discard("evaluator")
      BY <1>0, <1>5, <3>2, HoldEffect, GivenUp DEF updateReloaderReportStatus, Failed, EvalUnchanged
    <3>3. QED
      BY <1>5, <3>1, <3>2 DEF updateReloaderReportStatus
  <2>5. QED
    BY <2>1, <2>2, <2>3, <2>4
<1>6. CASE EvaluationFails
  <2>1. SeenBehind'
    BY <1>6, Frame DEF EvaluationFails, Failed, OnlySeenBy
  <2>2. TypeOK'
    BY <1>0, <1>6, ForsakenType, HoldEffect
       DEF TypeOK, Holding, EvaluationFails, Failed, OnlySeenBy
  <2>3. Holding'
    BY <1>0, <1>6, HoldEffect DEF Holding, TypeOK, EvaluationFails, Failed, OnlySeenBy
  <2>4. Underway'
    BY <1>0, <1>6, HoldEffect, GivenUp DEF EvaluationFails, Failed
  <2>5. QED
    BY <2>1, <2>2, <2>3, <2>4
<1>7. QED
  BY <1>1, <1>2, <1>3, <1>4, <1>5, <1>6

\* The evaluation sends the report and deletes it.
LEMMA SendStep ==
    ASSUME IndInv, StoreInv', Stated',
           \/ sendReloaderReportToMgtmCluster
           \/ createOrUpdateReloaderReportInMgtmtCluster \/ deleteReloaderReport
    PROVE  IndInv'
<1> USE DEF IndInv, StoreInv, storeVars, clusterVars, agentVars, mgmtVars
<1>0. /\ "evaluator" \in Writers /\ "collector" \in Writers
      /\ StoreTypeOK /\ ~Absent.exists
  BY WritersAssumption DEF TypeOK, Absent
<1>1. CASE sendReloaderReportToMgtmCluster
  <2>1. SeenBehind'
    BY <1>1, Frame DEF sendReloaderReportToMgtmCluster, Goto, Failed, EvalUnchanged, OnlySeenBy
  <2>2. TypeOK'
    BY <1>0, <1>1, ForsakenType, HoldEffect
       DEF TypeOK, Holding, sendReloaderReportToMgtmCluster, Goto, Failed, EvalUnchanged,
           OnlySeenBy
  <2>3. Holding'
    BY <1>0, <1>1, HoldEffect
       DEF Holding, TypeOK, sendReloaderReportToMgtmCluster, Goto, Failed, EvalUnchanged,
           OnlySeenBy
  <2>4. Underway'
    <3>1. report' = report
      BY <1>0, <1>1, HoldEffect DEF sendReloaderReportToMgtmCluster
    <3>2. CASE Goto("deliver")
      <4> SUFFICES ASSUME NEW w \in Workloads, LeftToEvaluation(w)' PROVE InHand(w)'
        BY DEF Underway
      <4>1. LeftToEvaluation(w)
        BY <1>1, <3>1, <3>2, StillLeft
           DEF sendReloaderReportToMgtmCluster, EvalUnchanged, Goto, Reported
      <4>2. QED
        BY <1>1, <3>1, <3>2, <4>1 DEF Underway, InHand, sendReloaderReportToMgtmCluster, Goto
    <3>3. CASE Failed
      BY <1>1, <3>1, <3>3, GivenUp DEF sendReloaderReportToMgtmCluster, Failed, EvalUnchanged
    <3>4. QED
      BY <1>1, <3>2, <3>3 DEF sendReloaderReportToMgtmCluster
  <2>5. QED
    BY <2>1, <2>2, <2>3, <2>4
<1>2. CASE createOrUpdateReloaderReportInMgtmtCluster
  <2>1. SeenBehind'
    BY <1>2, Frame DEF createOrUpdateReloaderReportInMgtmtCluster
  <2>2. TypeOK'
    <3>1. copy["evaluator"].spec \subseteq Workloads
      BY <1>2, WritersAssumption, SpecsAssumption
         DEF Holding, Stated, createOrUpdateReloaderReportInMgtmtCluster
    <3>2. QED
      BY <1>2, <3>1 DEF TypeOK, createOrUpdateReloaderReportInMgtmtCluster
  <2>3. Holding'
    BY <1>2 DEF Holding, TypeOK, createOrUpdateReloaderReportInMgtmtCluster
  <2>4. Underway'
    BY <1>2
       DEF Underway, LeftToEvaluation, InHand, Stale, Reported, TypeOK,
           createOrUpdateReloaderReportInMgtmtCluster
  <2>5. QED
    BY <2>1, <2>2, <2>3, <2>4
<1>3. CASE deleteReloaderReport
  <2>1. SeenBehind'
    BY <1>3, Frame DEF deleteReloaderReport, Failed, EvalUnchanged, OnlySeenBy
  <2>2. TypeOK'
    <3>1. report.exists => report.spec \subseteq Workloads
      BY SpecsAssumption DEF Stated
    <3>2. ~copy'["evaluator"].exists
      BY <1>0, <1>3, RemoveEffect, HoldEffect DEF deleteReloaderReport
    <3>3. lost' \subseteq Workloads
      BY <1>3, <3>1, ForsakenType DEF TypeOK, deleteReloaderReport, Failed
    <3>4. QED
      BY <1>3, <3>2, <3>3 DEF TypeOK, deleteReloaderReport, Failed, EvalUnchanged
  <2>3. Holding'
    BY <1>0, <1>3, RemoveEffect, HoldEffect
       DEF Holding, TypeOK, deleteReloaderReport, Failed, EvalUnchanged, OnlySeenBy
  <2>4. Underway'
    <3>1. CASE report.exists
      <4> SUFFICES ASSUME NEW w \in Workloads, LeftToEvaluation(w)' PROVE FALSE
        BY DEF Underway
      <4>1. sendReport
        BY <1>3 DEF Holding, deleteReloaderReport
      <4>2. Reported(w) => Reported(w)'
        BY <1>3, <4>1 DEF Reported, deleteReloaderReport, EvalUnchanged
      <4>3. lost \subseteq lost'
        BY <1>3, <3>1 DEF deleteReloaderReport
      <4>4. LeftToEvaluation(w)
        BY <1>3, <4>2, <4>3 DEF LeftToEvaluation, Stale, deleteReloaderReport, EvalUnchanged
      <4>5. w \in report.spec \ copy["evaluator"].spec
        BY <1>3, <4>4 DEF Underway, InHand, deleteReloaderReport
      <4>6. QED
        BY <1>3, <3>1, <4>5 DEF deleteReloaderReport, LeftToEvaluation
    <3>2. CASE Failed /\ Discard("evaluator")
      BY <1>0, <1>3, <3>2, HoldEffect, GivenUp DEF deleteReloaderReport, Failed, EvalUnchanged
    <3>3. QED
      BY <1>3, <3>1, <3>2 DEF deleteReloaderReport
  <2>5. QED
    BY <2>1, <2>2, <2>3, <2>4
<1>4. QED
  BY <1>1, <1>2, <1>3

\* The management cluster.
LEMMA CollectStep ==
    ASSUME IndInv, StoreInv', Stated', CollectRead \/ CollectDeliver \/ Reload
    PROVE  IndInv'
<1> USE DEF IndInv, StoreInv, storeVars, clusterVars, agentVars, mgmtVars
<1>0. /\ "evaluator" \in Writers /\ "collector" \in Writers
      /\ StoreTypeOK /\ ~Absent.exists
  BY WritersAssumption DEF TypeOK, Absent
<1>1. CASE CollectRead
  <2>1. SeenBehind'
    BY <1>1, Frame DEF CollectRead, OnlySeenBy
  <2>2. TypeOK'
    BY <1>0, <1>1, HoldEffect DEF TypeOK, CollectRead, OnlySeenBy
  <2>3. Holding'
    BY <1>0, <1>1, HoldEffect DEF Holding, TypeOK, CollectRead, OnlySeenBy
  <2>4. Underway'
    BY <1>0, <1>1, HoldEffect
       DEF Underway, LeftToEvaluation, InHand, Stale, Reported, TypeOK, CollectRead, OnlySeenBy
  <2>5. QED
    BY <2>1, <2>2, <2>3, <2>4
<1>2. CASE CollectDeliver
  <2>1. SeenBehind'
    BY <1>2, Frame DEF CollectDeliver, OnlySeenBy
  <2>2. TypeOK'
    <3>1. copy["collector"].spec \subseteq Workloads
      BY <1>2, WritersAssumption, SpecsAssumption DEF Holding, Stated, CollectDeliver
    <3>2. copy'["evaluator"] = copy["evaluator"]
      BY <1>0, <1>2, RemoveEffect, HoldEffect DEF CollectDeliver, OnlySeenBy
    <3>3. QED
      BY <1>2, <3>1, <3>2 DEF TypeOK, CollectDeliver
  <2>3. Holding'
    BY <1>0, <1>2, RemoveEffect, HoldEffect DEF Holding, TypeOK, CollectDeliver, OnlySeenBy
  <2>4. Underway'
    <3> SUFFICES ASSUME NEW w \in Workloads, LeftToEvaluation(w)' PROVE InHand(w)'
      BY DEF Underway
    <3>1. ~sendReport /\ copy'["evaluator"] = copy["evaluator"]
      BY <1>0, <1>2, RemoveEffect, HoldEffect DEF CollectDeliver, OnlySeenBy, Holding
    <3>2. Reported(w) => Reported(w)'
      <4>1. CASE CanUpdate("collector")
        <5>1. report = copy["collector"]
          BY <1>0, <1>2, <4>1 DEF CanUpdate, CopiesCurrent, Holding, CollectDeliver
        <5>2. QED
          BY <1>2, <5>1 DEF Reported, CollectDeliver
      <4>2. CASE Discard("collector")
        <5>1. report' = report
          BY <1>0, <4>2, HoldEffect
        <5>2. QED
          BY <1>2, <5>1 DEF Reported, CollectDeliver
      <4>3. QED
        BY <1>2, <4>1, <4>2 DEF CollectDeliver
    <3>3. LeftToEvaluation(w)
      BY <1>2, <3>2, StillLeft DEF CollectDeliver
    <3>4. QED
      BY <1>2, <3>1, <3>3 DEF Underway, InHand, Holding, CollectDeliver
  <2>5. QED
    BY <2>1, <2>2, <2>3, <2>4
<1>3. CASE Reload
  <2>1. SeenBehind' /\ Holding'
    BY <1>3, Frame DEF Reload
  <2>2. TypeOK'
    BY <1>3 DEF TypeOK, Reload
  <2>3. Underway'
    BY <1>3 DEF Underway, LeftToEvaluation, InHand, Stale, Reported, TypeOK, Reload
  <2>4. QED
    BY <2>1, <2>2, <2>3
<1>4. QED
  BY <1>1, <1>2, <1>3

\* The invariant, from the first state on.
LEMMA IndInvHolds == Spec => []IndInv
<1>1. Init => IndInv
  <2> SUFFICES ASSUME Init PROVE IndInv
    OBVIOUS
  <2>1. StoreInv
    BY StoreInitInv DEF Init
  <2>2. Stated /\ Holding
    BY WritersAssumption DEF Init, StoreInit, Absent, Stated, Holding
  <2>3. configMap \in Contents /\ SeenBehind
    BY BoundsAssumption DEF Init, Contents, SeenBehind
  <2>4. TypeOK
    BY <2>1, <2>3, WritersAssumption DEF Init, TypeOK, StoreInv, StoreInit, Absent
  <2>5. Underway
    BY DEF Init, Underway, LeftToEvaluation, Stale
  <2>6. QED
    BY <2>1, <2>2, <2>3, <2>4, <2>5 DEF IndInv, StoreInv
<1>2. IndInv /\ [Next]_vars => IndInv'
  <2> SUFFICES ASSUME IndInv, [Next]_vars PROVE IndInv'
    OBVIOUS
  <2>1. StoreInv' /\ Stated'
    BY StoreStep
  <2>2. CASE UNCHANGED vars
    BY <2>1, <2>2, Frame DEF vars, storeVars, IndInv, TypeOK, StoreInv, Underway,
                      LeftToEvaluation, InHand, Stale, Reported
  <2>3. QED
    BY <2>1, <2>2, ClusterStep, WriteStep, SendStep, CollectStep DEF Next, Evaluate
<1>3. QED
  BY <1>1, <1>2, PTL DEF Spec

\* Every variable keeps its type, for any workloads and bounds; the evaluation
\* holds a copy of the report in the steps that use one only.
THEOREM TypeCorrect == Spec => []TypeOK
  BY IndInvHolds, PTL DEF IndInv

\* A workload running with an outdated ConfigMap has a reload on its way, or it
\* was lost in one of the ways the code has of losing it.
THEOREM ReloadsOnTheirWay == Spec => []ReloadOnItsWay
<1>1. IndInv => ReloadOnItsWay
  BY DEF IndInv, Underway, LeftToEvaluation, InHand, ReloadOnItsWay
<1>2. QED
  BY <1>1, IndInvHolds, PTL
============================================================================
