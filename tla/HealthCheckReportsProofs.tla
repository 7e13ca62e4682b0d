---------------------- MODULE HealthCheckReportsProofs ----------------------
(***************************************************************************)
(* Proofs about HealthCheckReports for any health values, any number of    *)
(* changes, creations and faults.  NoSilentUpdate is not inductive: it     *)
(* needs to know what the copies of the report that its writers hold say   *)
(* (CopiesCurrent), and which phases the report can be in while it is sent *)
(* (WhileSending) or collected (WhileCollecting).                          *)
(***************************************************************************)
EXTENDS HealthCheckReports, ReportStoreProofs, TLAPS

\* Between the Status().Update of an evaluation and the end of the send the
\* report is not marked processed, and before it is marked the management
\* cluster has the copy that is about to be written back.
WhileSending ==
    /\ epc \in {"send", "deliver", "processed"} => sendReport /\ report.phase # "processed"
    /\ epc \in {"deliver", "processed"} => copy["evaluator"].exists
    /\ epc = "processed" => mgmt = copy["evaluator"].spec

\* A report that is being collected is not marked processed by anybody else.
WhileCollecting == collecting => /\ ~sendReport
                                 /\ copy["collector"].exists
                                 /\ report.phase # "processed"

IndInv == TypeOK /\ CopiesCurrent /\ WhileSending /\ WhileCollecting /\ NoSilentUpdate

\* The report's store in a step of any actor.
LEMMA StoreStep ==
    ASSUME IndInv, [Next]_vars
    PROVE  StoreInv'
<1>1. /\ StoreInv
      /\ "evaluator" \in Writers /\ "collector" \in Writers
      /\ "waitingForDelivery" \in Phases /\ "processed" \in Phases
      /\ NoSpec \in Specs \cup {NoSpec} /\ statuses \in Specs \cup {NoSpec}
  BY WritersAssumption DEF IndInv, TypeOK, StoreInv, Phases
<1>2. CASE InformerCatchesUp
  BY <1>1, <1>2, SyncCacheKeeps DEF InformerCatchesUp
<1>3. CASE Restart
  BY <1>1, <1>3, StoreRestartKeeps DEF Restart
<1>4. CASE addFinalizer
  BY <1>1, <1>4, WritesKeep DEF addFinalizer
<1>5. CASE removeFinalizer
  BY <1>1, <1>5, WritesKeep DEF removeFinalizer
<1>6. CASE createHealthCheckReport
  BY <1>1, <1>6, GetKeeps DEF createHealthCheckReport
<1>7. CASE CreateReport
  BY <1>1, <1>7, WritesKeep, DiscardKeeps DEF CreateReport, getHealthCheckReportReport
<1>8. CASE updateHealthCheckReport
  BY <1>1, <1>8, WritesKeep, DiscardKeeps DEF updateHealthCheckReport
<1>9. CASE updateHealthCheckReportStatus
  BY <1>1, <1>9, WritesKeep, DiscardKeeps DEF updateHealthCheckReportStatus
<1>10. CASE EvaluationFails
  BY <1>1, <1>10, DiscardKeeps DEF EvaluationFails
<1>11. CASE sendHealthCheckReport
  BY <1>1, <1>11, GetKeeps DEF sendHealthCheckReport
<1>12. CASE SendCreate
  BY <1>1, <1>12, DiscardKeeps DEF SendCreate
<1>13. CASE SendProcessed
  BY <1>1, <1>13, WritesKeep, DiscardKeeps DEF SendProcessed
<1>14. CASE cleanHealthCheckReport
  BY <1>1, <1>14, GetKeeps DEF cleanHealthCheckReport
<1>15. CASE CleanStatus
  BY <1>1, <1>15, WritesKeep, DiscardKeeps DEF CleanStatus
<1>16. CASE CleanDelete
  BY <1>1, <1>16, WritesKeep, DiscardKeeps DEF CleanDelete
<1>17. CASE CollectRead
  BY <1>1, <1>17, GetKeeps DEF CollectRead
<1>18. CASE CollectDeliver
  BY <1>1, <1>18, WritesKeep, DiscardKeeps DEF CollectDeliver
<1>19. CASE UNCHANGED storeVars
  BY <1>1, <1>19 DEF storeVars, StoreInv, StoreTypeOK, CopiesCurrent
<1>20. QED
  BY <1>2, <1>3, <1>4, <1>5, <1>6, <1>7, <1>8, <1>9, <1>10, <1>11, <1>12, <1>13, <1>14, <1>15,
     <1>16, <1>17, <1>18, <1>19
     DEF Next, Reconcile, Evaluate, vars, storeVars, CreateHealthCheck, DeleteHealthCheck,
         react, Resync, ReconcileGone, reconcileNormal, reconcileDelete, canRemoveFinalizer,
         Close, evaluateHealthCheckInstance, SendUpdate, EvalUnchanged

\* What sending and collecting depend on.
LEMMA SendingUntouched ==
    ASSUME IndInv, UNCHANGED <<report, copy, epc, sendReport, mgmt, collecting>>
    PROVE  WhileSending' /\ WhileCollecting'
  BY DEF IndInv, WhileSending, WhileCollecting

\* Sveltos, the resources and the informers.
LEMMA ClusterStep ==
    ASSUME IndInv, StoreInv',
           \/ CreateHealthCheck \/ DeleteHealthCheck \/ react \/ Resync
           \/ InformerCatchesUp \/ Restart
    PROVE  IndInv'
<1> USE DEF IndInv, StoreInv, storeVars, policyVars, evalVars, mgmtVars, bounds
<1>0. /\ "evaluator" \in Writers /\ "collector" \in Writers
      /\ StoreTypeOK /\ ~Absent.exists /\ Absent.phase = "none"
  BY WritersAssumption DEF TypeOK, Absent
<1>1. CASE CreateHealthCheck
  <2>0. rpc' = "idle" /\ creations' \in Nat
    BY <1>1 DEF TypeOK, CreateHealthCheck
  <2>1. TypeOK'
    BY <1>1, <2>0 DEF TypeOK, CreateHealthCheck
  <2>2. WhileSending' /\ WhileCollecting'
    BY <1>1, SendingUntouched DEF CreateHealthCheck
  <2>3. NoSilentUpdate'
    BY <1>1 DEF NoSilentUpdate, Undelivered, TypeOK, CreateHealthCheck
  <2>4. QED
    BY <2>1, <2>2, <2>3
<1>2. CASE DeleteHealthCheck
  <2>1. TypeOK'
    BY <1>2 DEF TypeOK, DeleteHealthCheck
  <2>2. WhileSending' /\ WhileCollecting'
    BY <1>2, SendingUntouched DEF DeleteHealthCheck
  <2>3. NoSilentUpdate'
    BY <1>2 DEF NoSilentUpdate, Undelivered, TypeOK, DeleteHealthCheck
  <2>4. QED
    BY <2>1, <2>2, <2>3
<1>3. CASE react
  <2>1. TypeOK'
    BY <1>3 DEF TypeOK, react
  <2>2. WhileSending' /\ WhileCollecting'
    BY <1>3, SendingUntouched DEF react
  <2>3. NoSilentUpdate'
    BY <1>3 DEF NoSilentUpdate, Undelivered, TypeOK, react
  <2>4. QED
    BY <2>1, <2>2, <2>3
<1>4. CASE Resync
  <2>1. TypeOK'
    BY <1>4 DEF TypeOK, Resync
  <2>2. WhileSending' /\ WhileCollecting'
    BY <1>4, SendingUntouched DEF Resync
  <2>3. NoSilentUpdate'
    BY <1>4 DEF NoSilentUpdate, Undelivered, TypeOK, Resync
  <2>4. QED
    BY <2>1, <2>2, <2>3
<1>5. CASE InformerCatchesUp
  <2>1. TypeOK'
    BY <1>5 DEF TypeOK, InformerCatchesUp
  <2>2. WhileSending' /\ WhileCollecting'
    BY <1>5, SendingUntouched DEF InformerCatchesUp, SyncCache
  <2>3. NoSilentUpdate'
    BY <1>5 DEF NoSilentUpdate, Undelivered, TypeOK, InformerCatchesUp, SyncCache
  <2>4. QED
    BY <2>1, <2>2, <2>3
<1>6. CASE Restart
  <2>0. pending' \in BOOLEAN /\ lost' \in BOOLEAN /\ faults' \in Nat
    BY <1>6 DEF TypeOK, Restart
  <2>1. TypeOK'
    BY <1>6, <2>0 DEF TypeOK, Restart
  <2>2. WhileSending'
    BY <1>0, <1>6 DEF WhileSending, TypeOK, Restart, StoreRestart
  <2>3. WhileCollecting'
    BY <1>0, <1>6 DEF WhileCollecting, TypeOK, Restart, StoreRestart
  <2>4. NoSilentUpdate'
    BY <1>0, <1>6 DEF NoSilentUpdate, Undelivered, TypeOK, Restart, StoreRestart
  <2>5. QED
    BY <2>1, <2>2, <2>3, <2>4
<1>7. QED
  BY <1>1, <1>2, <1>3, <1>4, <1>5, <1>6

\* The two reconcilers.
LEMMA ReconcileStep ==
    ASSUME IndInv, StoreInv',
           \/ ReconcileGone \/ reconcileNormal \/ reconcileDelete \/ canRemoveFinalizer
           \/ Close \/ addFinalizer \/ removeFinalizer
    PROVE  IndInv'
<1> USE DEF IndInv, StoreInv, storeVars, policyVars, evalVars, mgmtVars, bounds
<1>0. /\ "evaluator" \in Writers /\ "collector" \in Writers
      /\ StoreTypeOK /\ ~Absent.exists /\ Absent.phase = "none"
  BY WritersAssumption DEF TypeOK, Absent
<1>1. CASE ReconcileGone
  <2>1. TypeOK'
    BY <1>1 DEF TypeOK, ReconcileGone
  <2>2. WhileSending' /\ WhileCollecting'
    BY <1>1, SendingUntouched DEF ReconcileGone
  <2>3. NoSilentUpdate'
    BY <1>1 DEF NoSilentUpdate, Undelivered, TypeOK, ReconcileGone
  <2>4. QED
    BY <2>1, <2>2, <2>3
<1>2. CASE reconcileNormal
  <2>1. TypeOK'
    BY <1>2 DEF TypeOK, reconcileNormal
  <2>2. WhileSending' /\ WhileCollecting'
    BY <1>2, SendingUntouched DEF reconcileNormal
  <2>3. NoSilentUpdate'
    BY <1>2 DEF NoSilentUpdate, Undelivered, TypeOK, reconcileNormal
  <2>4. QED
    BY <2>1, <2>2, <2>3
<1>3. CASE reconcileDelete
  <2>1. TypeOK'
    BY <1>3 DEF TypeOK, reconcileDelete
  <2>2. WhileSending' /\ WhileCollecting'
    BY <1>3, SendingUntouched DEF reconcileDelete
  <2>3. NoSilentUpdate'
    BY <1>3 DEF NoSilentUpdate, Undelivered, TypeOK, reconcileDelete
  <2>4. QED
    BY <2>1, <2>2, <2>3
<1>4. CASE canRemoveFinalizer
  <2>1. TypeOK'
    BY <1>4 DEF TypeOK, canRemoveFinalizer
  <2>2. WhileSending' /\ WhileCollecting'
    BY <1>4, SendingUntouched DEF canRemoveFinalizer
  <2>3. NoSilentUpdate'
    BY <1>4 DEF NoSilentUpdate, Undelivered, TypeOK, canRemoveFinalizer
  <2>4. QED
    BY <2>1, <2>2, <2>3
<1>5. CASE Close
  <2>1. TypeOK'
    BY <1>5 DEF TypeOK, Close
  <2>2. WhileSending' /\ WhileCollecting'
    BY <1>5, SendingUntouched DEF Close
  <2>3. NoSilentUpdate'
    BY <1>5 DEF NoSilentUpdate, Undelivered, TypeOK, Close
  <2>4. QED
    BY <2>1, <2>2, <2>3
<1>6. CASE addFinalizer
  <2>1. TypeOK'
    BY <1>6 DEF TypeOK, addFinalizer
  <2>2. WhileSending'
    BY <1>0, <1>6, PatchEffect DEF WhileSending, TypeOK, addFinalizer, OnlySeenBy
  <2>3. WhileCollecting'
    BY <1>0, <1>6, PatchEffect DEF WhileCollecting, TypeOK, addFinalizer, OnlySeenBy
  <2>4. NoSilentUpdate'
    BY <1>0, <1>6, PatchEffect
       DEF NoSilentUpdate, Undelivered, TypeOK, addFinalizer, OnlySeenBy
  <2>5. QED
    BY <2>1, <2>2, <2>3, <2>4
<1>7. CASE removeFinalizer
  <2>1. TypeOK'
    BY <1>7 DEF TypeOK, removeFinalizer
  <2>2. WhileSending'
    BY <1>0, <1>7, PatchEffect DEF WhileSending, TypeOK, removeFinalizer, OnlySeenBy
  <2>3. WhileCollecting'
    BY <1>0, <1>7, PatchEffect DEF WhileCollecting, TypeOK, removeFinalizer, OnlySeenBy
  <2>4. NoSilentUpdate'
    BY <1>0, <1>7, PatchEffect
       DEF NoSilentUpdate, Undelivered, TypeOK, removeFinalizer, OnlySeenBy
  <2>5. QED
    BY <2>1, <2>2, <2>3, <2>4
<1>8. QED
  BY <1>1, <1>2, <1>3, <1>4, <1>5, <1>6, <1>7

\* The evaluation writes the report.  It leaves a report marked processed only
\* while its own Status().Update is still to come, or queued again.
LEMMA WriteStep ==
    ASSUME IndInv, StoreInv',
           \/ evaluateHealthCheckInstance \/ createHealthCheckReport \/ CreateReport
           \/ updateHealthCheckReport \/ updateHealthCheckReportStatus \/ EvaluationFails
    PROVE  IndInv'
<1> USE DEF IndInv, StoreInv, storeVars, policyVars, evalVars, mgmtVars, bounds
<1>0. /\ "evaluator" \in Writers /\ "collector" \in Writers
      /\ StoreTypeOK /\ ~Absent.exists /\ Absent.phase = "none"
  BY WritersAssumption DEF TypeOK, Absent
<1>1. CASE evaluateHealthCheckInstance
  <2>1. TypeOK'
    BY <1>1 DEF TypeOK, evaluateHealthCheckInstance, EvalUnchanged, getHealthStatus
  <2>2. WhileSending'
    BY <1>1 DEF WhileSending, TypeOK, evaluateHealthCheckInstance, EvalUnchanged
  <2>3. WhileCollecting'
    BY <1>1 DEF WhileCollecting, TypeOK, evaluateHealthCheckInstance, EvalUnchanged
  <2>4. NoSilentUpdate'
    BY <1>1 DEF NoSilentUpdate, Undelivered, TypeOK, evaluateHealthCheckInstance, EvalUnchanged
  <2>5. QED
    BY <2>1, <2>2, <2>3, <2>4
<1>2. CASE createHealthCheckReport
  <2>1. TypeOK'
    BY <1>2 DEF TypeOK, createHealthCheckReport, Goto, EvalUnchanged
  <2>2. WhileSending'
    BY <1>0, <1>2, HoldEffect
       DEF WhileSending, TypeOK, createHealthCheckReport, Goto, EvalUnchanged, OnlySeenBy
  <2>3. WhileCollecting'
    BY <1>0, <1>2, HoldEffect
       DEF WhileCollecting, TypeOK, createHealthCheckReport, Goto, EvalUnchanged, OnlySeenBy
  <2>4. NoSilentUpdate'
    BY <1>0, <1>2, HoldEffect
       DEF NoSilentUpdate, Undelivered, TypeOK, createHealthCheckReport, Goto, EvalUnchanged,
           OnlySeenBy
  <2>5. QED
    BY <2>1, <2>2, <2>3, <2>4
<1>3. CASE CreateReport
  <2>1. TypeOK'
    BY <1>3 DEF TypeOK, CreateReport, Goto, Failed, EvalUnchanged
  <2>2. WhileSending'
    BY <1>0, <1>3, CreateEffect, HoldEffect
       DEF WhileSending, TypeOK, CreateReport, Goto, Failed, EvalUnchanged, OnlySeenBy
  <2>3. WhileCollecting'
    BY <1>0, <1>3, CreateEffect, HoldEffect
       DEF WhileCollecting, TypeOK, CreateReport, Goto, Failed, EvalUnchanged, OnlySeenBy
  <2>4. NoSilentUpdate'
    BY <1>0, <1>3, CreateEffect, HoldEffect
       DEF NoSilentUpdate, Undelivered, TypeOK, CreateReport, Goto, Failed, EvalUnchanged,
           OnlySeenBy
  <2>5. QED
    BY <2>1, <2>2, <2>3, <2>4
<1>4. CASE updateHealthCheckReport
  <2>1. TypeOK'
    BY <1>4 DEF TypeOK, updateHealthCheckReport, Goto, Failed, EvalUnchanged
  <2>2. WhileSending'
    BY <1>0, <1>4, UpdateEffect, HoldEffect
       DEF WhileSending, TypeOK, updateHealthCheckReport, Goto, Failed, EvalUnchanged,
           OnlySeenBy
  <2>3. WhileCollecting'
    BY <1>0, <1>4, UpdateEffect, HoldEffect
       DEF WhileCollecting, TypeOK, updateHealthCheckReport, Goto, Failed, EvalUnchanged,
           OnlySeenBy
  <2>4. NoSilentUpdate'
    BY <1>0, <1>4, UpdateEffect, HoldEffect
       DEF NoSilentUpdate, Undelivered, TypeOK, updateHealthCheckReport, Goto, Failed,
           EvalUnchanged, OnlySeenBy
  <2>5. QED
    BY <2>1, <2>2, <2>3, <2>4
<1>5. CASE updateHealthCheckReportStatus
  <2>1. TypeOK'
    BY <1>5 DEF TypeOK, updateHealthCheckReportStatus, Goto, Failed, EvalUnchanged
  <2>2. WhileSending'
    BY <1>0, <1>5, StatusUpdateEffect, HoldEffect
       DEF WhileSending, TypeOK, updateHealthCheckReportStatus, Goto, Failed, EvalUnchanged,
           OnlySeenBy
  <2>3. WhileCollecting'
    BY <1>0, <1>5, StatusUpdateEffect, HoldEffect
       DEF WhileCollecting, TypeOK, updateHealthCheckReportStatus, Goto, Failed, EvalUnchanged,
           OnlySeenBy
  <2>4. NoSilentUpdate'
    <3>1. CASE StatusUpdate("evaluator", "waitingForDelivery")
      <4>1. report'.phase = "waitingForDelivery"
        BY <1>0, <3>1, StatusUpdateEffect
      <4>2. QED
        BY <4>1 DEF NoSilentUpdate, Undelivered
    <3>2. CASE Failed
      BY <3>2 DEF NoSilentUpdate, Failed
    <3>3. QED
      BY <1>5, <3>1, <3>2 DEF updateHealthCheckReportStatus
  <2>5. QED
    BY <2>1, <2>2, <2>3, <2>4
<1>6. CASE EvaluationFails
  <2>1. TypeOK'
    BY <1>6 DEF TypeOK, EvaluationFails, Failed
  <2>2. WhileSending'
    BY <1>0, <1>6, HoldEffect DEF WhileSending, TypeOK, EvaluationFails, Failed, OnlySeenBy
  <2>3. WhileCollecting'
    BY <1>0, <1>6, HoldEffect DEF WhileCollecting, TypeOK, EvaluationFails, Failed, OnlySeenBy
  <2>4. NoSilentUpdate'
    BY <1>0, <1>6, HoldEffect
       DEF NoSilentUpdate, Undelivered, TypeOK, EvaluationFails, Failed, OnlySeenBy
  <2>5. QED
    BY <2>1, <2>2, <2>3, <2>4
<1>7. QED
  BY <1>1, <1>2, <1>3, <1>4, <1>5, <1>6

\* The evaluation sends the report.  What it marks processed is what it sent: the
\* write succeeds only with a copy at the server's version.
LEMMA SendStep ==
    ASSUME IndInv, StoreInv',sendHealthCheckReport  \/ SendCreate  \/ SendUpdate  \/ SendProcessed
    PROVE  IndInv'
<1> USE DEF IndInv, StoreInv, storeVars, policyVars, evalVars, mgmtVars, bounds
<1>0. /\ "evaluator" \in Writers /\ "collector" \in Writers
      /\ StoreTypeOK /\ ~Absent.exists /\ Absent.phase = "none"
  BY WritersAssumption DEF TypeOK, Absent
<1>1. CASE sendHealthCheckReport
  <2>1. TypeOK'
    BY <1>1 DEF TypeOK, sendHealthCheckReport, Goto, Failed, EvalUnchanged
  <2>2. WhileSending'
    BY <1>0, <1>1, HoldEffect
       DEF WhileSending, TypeOK, sendHealthCheckReport, Goto, Failed, EvalUnchanged, OnlySeenBy
  <2>3. WhileCollecting'
    BY <1>0, <1>1, HoldEffect
       DEF WhileCollecting, TypeOK, sendHealthCheckReport, Goto, Failed, EvalUnchanged,
           OnlySeenBy
  <2>4. NoSilentUpdate'
    BY <1>0, <1>1, HoldEffect
       DEF NoSilentUpdate, Undelivered, TypeOK, sendHealthCheckReport, Goto, Failed,
           EvalUnchanged, OnlySeenBy
  <2>5. QED
    BY <2>1, <2>2, <2>3, <2>4
<1>2. CASE SendCreate
  <2>1. TypeOK'
    BY <1>2, WritersAssumption DEF TypeOK, SendCreate, Goto, StoreTypeOK, Reports
  <2>2. WhileSending'
    BY <1>0, <1>2, HoldEffect DEF WhileSending, TypeOK, SendCreate, Goto, OnlySeenBy
  <2>3. WhileCollecting'
    BY <1>0, <1>2, HoldEffect DEF WhileCollecting, TypeOK, SendCreate, Goto, OnlySeenBy
  <2>4. NoSilentUpdate'
    BY <1>0, <1>2, HoldEffect
       DEF NoSilentUpdate, Undelivered, WhileSending, TypeOK, SendCreate, Goto, OnlySeenBy
  <2>5. QED
    BY <2>1, <2>2, <2>3, <2>4
<1>3. CASE SendUpdate
  <2>1. TypeOK'
    BY <1>3, WritersAssumption DEF TypeOK, SendUpdate, Goto, StoreTypeOK, Reports
  <2>2. WhileSending'
    BY <1>3 DEF WhileSending, TypeOK, SendUpdate, Goto
  <2>3. WhileCollecting'
    BY <1>3 DEF WhileCollecting, TypeOK, SendUpdate, Goto
  <2>4. NoSilentUpdate'
    BY <1>3 DEF NoSilentUpdate, Undelivered, WhileSending, TypeOK, SendUpdate, Goto
  <2>5. QED
    BY <2>1, <2>2, <2>3, <2>4
<1>4. CASE SendProcessed
  <2>1. TypeOK'
    BY <1>4 DEF TypeOK, SendProcessed, Goto, Failed, EvalUnchanged
  <2>2. WhileSending'
    BY <1>0, <1>4, StatusUpdateEffect, HoldEffect
       DEF WhileSending, TypeOK, SendProcessed, Goto, Failed, EvalUnchanged, OnlySeenBy
  <2>3. WhileCollecting'
    BY <1>0, <1>4, StatusUpdateEffect, HoldEffect
       DEF WhileCollecting, WhileSending, TypeOK, SendProcessed, Goto, Failed, EvalUnchanged,
           OnlySeenBy
  <2>4. NoSilentUpdate'
    BY <1>0, <1>4, StatusUpdateEffect, HoldEffect
       DEF NoSilentUpdate, Undelivered, WhileSending, CopiesCurrent, CanUpdate, TypeOK,
           SendProcessed, Goto, Failed, EvalUnchanged, OnlySeenBy
  <2>5. QED
    BY <2>1, <2>2, <2>3, <2>4
<1>5. QED
  BY <1>1, <1>2, <1>3, <1>4

\* The evaluation cleans up after a HealthCheck.
LEMMA CleanStep ==
    ASSUME IndInv, StoreInv',cleanHealthCheckReport  \/ CleanStatus  \/ CleanDelete
    PROVE  IndInv'
<1> USE DEF IndInv, StoreInv, storeVars, policyVars, evalVars, mgmtVars, bounds
<1>0. /\ "evaluator" \in Writers /\ "collector" \in Writers
      /\ StoreTypeOK /\ ~Absent.exists /\ Absent.phase = "none"
  BY WritersAssumption DEF TypeOK, Absent
<1>1. CASE cleanHealthCheckReport
  <2>1. TypeOK'
    BY <1>1 DEF TypeOK, cleanHealthCheckReport, Goto
  <2>2. WhileSending'
    BY <1>0, <1>1, HoldEffect
       DEF WhileSending, TypeOK, cleanHealthCheckReport, Goto, OnlySeenBy
  <2>3. WhileCollecting'
    BY <1>0, <1>1, HoldEffect
       DEF WhileCollecting, TypeOK, cleanHealthCheckReport, Goto, OnlySeenBy
  <2>4. NoSilentUpdate'
    BY <1>0, <1>1, HoldEffect
       DEF NoSilentUpdate, Undelivered, TypeOK, cleanHealthCheckReport, Goto, OnlySeenBy
  <2>5. QED
    BY <2>1, <2>2, <2>3, <2>4
<1>2. CASE CleanStatus
  <2>1. TypeOK'
    BY <1>2 DEF TypeOK, CleanStatus, Goto, Failed, EvalUnchanged
  <2>2. WhileSending'
    BY <1>0, <1>2, StatusUpdateEffect, HoldEffect
       DEF WhileSending, TypeOK, CleanStatus, Goto, Failed, EvalUnchanged, OnlySeenBy
  <2>3. WhileCollecting'
    BY <1>0, <1>2, StatusUpdateEffect, HoldEffect
       DEF WhileCollecting, TypeOK, CleanStatus, Goto, Failed, EvalUnchanged, OnlySeenBy
  <2>4. NoSilentUpdate'
    <3>1. CASE StatusUpdate("evaluator", "waitingForDelivery")
      <4>1. report'.phase = "waitingForDelivery"
        BY <1>0, <3>1, StatusUpdateEffect
      <4>2. QED
        BY <4>1 DEF NoSilentUpdate, Undelivered
    <3>2. CASE Failed
      BY <3>2 DEF NoSilentUpdate, Failed
    <3>3. QED
      BY <1>2, <3>1, <3>2 DEF CleanStatus
  <2>5. QED
    BY <2>1, <2>2, <2>3, <2>4
<1>3. CASE CleanDelete
  <2>1. TypeOK'
    BY <1>3 DEF TypeOK, CleanDelete, Goto, Failed, EvalUnchanged
  <2>2. WhileSending'
    BY <1>0, <1>3, PatchEffect, HoldEffect
       DEF WhileSending, TypeOK, CleanDelete, Goto, Failed, EvalUnchanged, OnlySeenBy
  <2>3. WhileCollecting'
    BY <1>0, <1>3, PatchEffect, HoldEffect
       DEF WhileCollecting, TypeOK, CleanDelete, Goto, Failed, EvalUnchanged, OnlySeenBy
  <2>4. NoSilentUpdate'
    BY <1>0, <1>3, PatchEffect, HoldEffect
       DEF NoSilentUpdate, Undelivered, TypeOK, CleanDelete, Goto, Failed, EvalUnchanged,
           OnlySeenBy
  <2>5. QED
    BY <2>1, <2>2, <2>3, <2>4
<1>4. QED
  BY <1>1, <1>2, <1>3

\* The management cluster collects: the same check protects what it marks.
LEMMA CollectStep ==
    ASSUME IndInv, StoreInv',CollectRead  \/ CollectDeliver
    PROVE  IndInv'
<1> USE DEF IndInv, StoreInv, storeVars, policyVars, evalVars, mgmtVars, bounds
<1>0. /\ "evaluator" \in Writers /\ "collector" \in Writers
      /\ StoreTypeOK /\ ~Absent.exists /\ Absent.phase = "none"
  BY WritersAssumption DEF TypeOK, Absent
<1>1. CASE CollectRead
  <2>1. TypeOK'
    BY <1>1 DEF TypeOK, CollectRead
  <2>2. WhileSending'
    BY <1>0, <1>1, HoldEffect DEF WhileSending, TypeOK, CollectRead, OnlySeenBy
  <2>3. WhileCollecting'
    BY <1>0, <1>1, HoldEffect DEF WhileCollecting, TypeOK, CollectRead, OnlySeenBy
  <2>4. NoSilentUpdate'
    BY <1>0, <1>1, HoldEffect DEF NoSilentUpdate, Undelivered, TypeOK, CollectRead, OnlySeenBy
  <2>5. QED
    BY <2>1, <2>2, <2>3, <2>4
<1>2. CASE CollectDeliver
  <2>0. mgmt' \in Specs \cup {NoSpec}
    BY <1>0, <1>2 DEF CollectDeliver, StoreTypeOK, Reports
  <2>1. TypeOK'
    BY <1>2, <2>0 DEF TypeOK, CollectDeliver
  <2>2. WhileSending'
    BY <1>0, <1>2, StatusUpdateEffect, HoldEffect
       DEF WhileSending, WhileCollecting, TypeOK, CollectDeliver, OnlySeenBy
  <2>3. WhileCollecting'
    BY <1>0, <1>2, StatusUpdateEffect, HoldEffect
       DEF WhileCollecting, TypeOK, CollectDeliver, OnlySeenBy
  <2>4. NoSilentUpdate'
    BY <1>0, <1>2, StatusUpdateEffect, HoldEffect
       DEF NoSilentUpdate, Undelivered, WhileCollecting, CopiesCurrent, CanUpdate, TypeOK,
           CollectDeliver, OnlySeenBy
  <2>5. QED
    BY <2>1, <2>2, <2>3, <2>4
<1>3. QED
  BY <1>1, <1>2

\* The invariant, from the first state on.
LEMMA IndInvHolds == Spec => []IndInv
<1>1. Init => IndInv
  <2> SUFFICES ASSUME Init PROVE IndInv
    OBVIOUS
  <2>1. StoreInv
    BY StoreInitInv DEF Init
  <2>2. TypeOK
    BY <2>1, ModesAssumption DEF Init, TypeOK, StoreInv
  <2>3. QED
    BY <2>1, <2>2 DEF Init, IndInv, StoreInv, WhileSending, WhileCollecting, NoSilentUpdate,
                      Undelivered
<1>2. IndInv /\ [Next]_vars => IndInv'
  <2> SUFFICES ASSUME IndInv, [Next]_vars PROVE IndInv'
    OBVIOUS
  <2>1. StoreInv'
    BY StoreStep
  <2>2. CASE UNCHANGED vars
    BY <2>1, <2>2 DEF vars, IndInv, TypeOK, StoreInv, WhileSending, WhileCollecting,
                      NoSilentUpdate, Undelivered
  <2>3. QED
    BY <2>1, <2>2, ClusterStep, ReconcileStep, WriteStep, SendStep, CleanStep, CollectStep
       DEF Next, Reconcile, Evaluate
<1>3. QED
  BY <1>1, <1>2, PTL DEF Spec

\* Every variable keeps its type, for any bounds: the reconciler is in the middle
\* of reconcileDelete only while the HealthCheck it deletes is still there, the
\* evaluation is at one of its calls, and the report is a report.
THEOREM TypeCorrect == Spec => []TypeOK
  BY IndInvHolds, PTL DEF IndInv

\* A report marked processed was delivered as it stands, unless an evaluation
\* that resets the mark is under way, queued or due, whatever the order of the
\* evaluation's and the management cluster's calls, and wherever they fail.
THEOREM NothingSilentlyUpdated == Spec => []NoSilentUpdate
  BY IndInvHolds, PTL DEF IndInv
=============================================================================
