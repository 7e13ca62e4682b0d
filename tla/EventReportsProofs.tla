------------------------- MODULE EventReportsProofs -------------------------
(***************************************************************************)
(* Proofs about EventReports for any events, matches and subscriptions,    *)
(* any number of changes, creations and faults.                            *)
(*                                                                         *)
(* AckedEventRecorded needs what every writer of the report holds          *)
(* (WriterOK): a message that is about to be acknowledged is in the copy   *)
(* whose version is checked when the status is written, or already in the  *)
(* report while that is being sent.                                        *)
(***************************************************************************)
EXTENDS EventReports, ReportStoreProofs, TLAPS

\* The EventSource has not been deleted yet.
FirstLife == creations = 0 \/ (creations = 1 /\ eventSource \in {"new", "live"})

Cleaning == {"clean", "cleanStatus", "cleanDelete"}
Sending == {"send", "deliver", "processed"}

WriterOK(w) ==
    /\ pc[w] \in {"update", "status", "deliver", "processed", "cleanStatus"} => copy[w].exists
    /\ pc[w] \in Sending => sendReport
    /\ w \in Subs /\ pc[w] = "status" => msg[w] \subseteq copy[w].spec.events
    /\ FirstLife => /\ pc[w] \notin Cleaning
                    /\ w \in Subs /\ pc[w] \in Sending
                           => report.exists /\ msg[w] \subseteq report.spec.events
    /\ creations = 0 => pc[w] = "idle" \/ (w \in Subs /\ pc[w] = "ignore")

WritersOK == \A w \in Agents : WriterOK(w)

\* Before the EventSource is deployed the agent has nothing to do.
NotYet == creations = 0 => eventSource = "absent" /\ ~known /\ ~queued

CollectorHolds == collecting => copy["collector"].exists

\* AckedEventRecorded, for an EventSource that is not in use as well.
Recorded == (~sendReport \/ FirstLife) /\ acked # {}
                => report.exists /\ acked \subseteq report.spec.events

IndInv == /\ TypeOK /\ CopiesCurrent /\ Stated
          /\ WritersOK /\ NotYet /\ CollectorHolds /\ Recorded

(***************************************************************************)
(* The writers and the store.                                              *)
(***************************************************************************)
\* The writers, and none of them is the evaluator or the collector by another name.
LEMMA WritersFacts ==
    /\ Agents \subseteq Writers /\ Subs \subseteq Agents
    /\ "evaluator" \in Agents /\ "evaluator" \notin Subs
    /\ "collector" \in Writers /\ "collector" \notin Agents
  BY SubsAssumption, WritersAssumption DEF Agents

\* The Specs that are written are Specs.
LEMMA SpecsWritten ==
    ASSUME IndInv, NEW w \in Agents
    PROVE  /\ getEventReport(w) \in Specs
           /\ pc[w] = "update" => NewSpec(w) \in Specs
<1>1. /\ w \in Writers /\ found \in Matches /\ NoMatch \in Matches
      /\ w \in Subs => msg[w] \subseteq Events
  BY WritersFacts, MatchesAssumption DEF IndInv, TypeOK
<1>2. getEventReport(w) \in Specs
  BY <1>1, SpecsAssumption DEF getEventReport
<1>3. ASSUME pc[w] = "update" PROVE NewSpec(w) \in Specs
  <2>1. copy[w].spec \in Specs
    BY <1>1, <1>3 DEF IndInv, WritersOK, WriterOK, Stated
  <2>2. QED
    BY <1>1, <2>1, SpecsAssumption DEF NewSpec
<1>4. QED
  BY <1>2, <1>3

\* The report's store in a step of a writer.
LEMMA StoreWrite ==
    ASSUME IndInv, NEW w \in Agents, Write(w) \/ CallFails(w)
    PROVE  StoreInv' /\ Stated'
<1>1. /\ StoreInv /\ StoreTypeOK /\ Stated /\ w \in Writers
      /\ "waitingForDelivery" \in Phases /\ "processed" \in Phases
  BY WritersFacts DEF IndInv, TypeOK, StoreInv, Phases
<1>2. getEventReport(w) \in Specs /\ (pc[w] = "update" => NewSpec(w) \in Specs)
  BY SpecsWritten
<1>3. CASE GetCached(w) \/ Discard(w)
  BY <1>1, <1>3, GetKeeps, DiscardKeeps, ReadsState
<1>4. CASE UNCHANGED storeVars
  BY <1>1, <1>4 DEF storeVars, StoreInv, StoreTypeOK, CopiesCurrent, Stated
<1>5. ASSUME NEW phase \in Phases, StatusUpdate(w, phase) PROVE StoreInv' /\ Stated'
  <2>1. PICK spec \in Specs : TRUE
    BY <1>2
  <2>2. QED
    BY <1>1, <1>5, <2>1, WritesKeep, WritesState
<1>6. CASE Delete
  BY <1>1, <1>2, <1>6, WritesKeep, WritesState
<1>7. CASE CreateReport(w)
  BY <1>1, <1>2, <1>3, <1>7, WritesKeep, WritesState DEF CreateReport
<1>8. CASE updateEventReport(w)
  BY <1>1, <1>2, <1>3, <1>8, WritesKeep, WritesState DEF updateEventReport, Conflict, NotFound
<1>9. QED
  BY <1>1, <1>3, <1>4, <1>5, <1>6, <1>7, <1>8
     DEF Write, CallFails, createEventReport, updateEventReportStatus, sendEventReport,
         SendCreate, SendUpdate, SendProcessed, cleanEventReport, CleanStatus, CleanDelete,
         Conflict, NotFound

\* ... and in any step.
LEMMA StoreStep ==
    ASSUME IndInv, [Next]_vars
    PROVE  StoreInv' /\ Stated'
<1>1. /\ StoreInv /\ StoreTypeOK /\ Stated
      /\ "collector" \in Writers /\ "processed" \in Phases /\ Subs \subseteq Agents
      /\ "evaluator" \in Agents /\ {"collector"} \subseteq Writers
  BY WritersFacts DEF IndInv, TypeOK, StoreInv, Phases
<1>2. CASE \E w \in Agents : Write(w) \/ CallFails(w)
  BY <1>2, StoreWrite
<1>3. CASE CollectRead
  BY <1>1, <1>3, GetKeeps, ReadsState DEF CollectRead
<1>4. CASE CollectDeliver
  <2>1. PICK spec \in Specs : TRUE
    BY <1>1, SpecsWritten
  <2>2. QED
    BY <1>1, <1>4, <2>1, WritesKeep, WritesState, DiscardKeeps, ReadsState DEF CollectDeliver
<1>5. CASE InformerCatchesUp
  BY <1>1, <1>5, SyncCacheKeeps, ReadsState DEF InformerCatchesUp
<1>6. CASE Restart
  BY <1>1, <1>6, StoreRestartKeeps, ReadsState DEF Restart
<1>7. CASE UNCHANGED storeVars
  BY <1>1, <1>7 DEF storeVars, StoreInv, StoreTypeOK, CopiesCurrent, Stated
<1>8. QED
  BY <1>1, <1>2, <1>3, <1>4, <1>5, <1>6, <1>7
     DEF Next, Reconcile, Evaluator, Callback, vars, storeVars, CreateEventSource,
         DeleteEventSource, react, Resync, Publish, ReconcileGone, reconcileNormal,
         reconcileDelete, canRemoveFinalizer, Close, evaluateEventSourceInstance,
         evaluateCloudEvent, processCloudEvent, IgnoreCloudEvent

(***************************************************************************)
(* How a writer moves.                                                     *)
(***************************************************************************)
Labels == {"idle", "process", "ignore", "get", "create", "update", "status", "send", "deliver",
           "processed", "clean", "cleanStatus", "cleanDelete"}

\* The part of TypeOK that a writer's control can disturb.
ControlOK == /\ pc \in [Agents -> Labels]
             /\ queued \in BOOLEAN /\ found \in Matches
             /\ inbox \in [Subs -> SUBSET Events] /\ msg \in [Subs -> SUBSET Events]
             /\ \A s \in Subs : msg[s] = None <=> pc[s] = "idle"
             /\ acked \subseteq Events

\* Nobody else moves.
OnlyMoves(w) == /\ \A v \in Agents : v # w => pc'[v] = pc[v]
                /\ \A s \in Subs : s # w => msg'[s] = msg[s]

\* On to the next call.
LEMMA GotoEffect ==
    ASSUME TypeOK, NEW w \in Agents, NEW l \in Labels, pc[w] # "idle", l # "idle", Goto(w, l)
    PROVE  /\ ControlOK' /\ OnlyMoves(w)
           /\ pc'[w] = l /\ msg' = msg /\ acked' = acked /\ queued' = queued
<1>1. pc' = [pc EXCEPT ![w] = l] /\ UNCHANGED <<queued, found, inbox, msg, acked>>
  BY DEF Goto
<1>2. pc \in [Agents -> Labels] /\ Subs \subseteq Agents
  BY WritersFacts DEF TypeOK, Labels
<1>3. ControlOK'
  BY <1>1, <1>2 DEF TypeOK, ControlOK
<1>4. QED
  BY <1>1, <1>2, <1>3 DEF OnlyMoves

\* No error.
LEMMA ReturnEffect ==
    ASSUME TypeOK, NEW w \in Agents, NEW recorded \in BOOLEAN, Return(w, recorded)
    PROVE  /\ ControlOK' /\ OnlyMoves(w)
           /\ pc'[w] = "idle" /\ queued' = queued
           /\ \/ acked' = acked
              \/ w \in Subs /\ recorded /\ acked' = acked \cup msg[w]
<1>1. /\ pc \in [Agents -> Labels] /\ Subs \subseteq Agents /\ "idle" \in Labels
      /\ pc' = [pc EXCEPT ![w] = "idle"] /\ UNCHANGED <<queued, found>>
  BY WritersFacts DEF TypeOK, Labels, Return
<1>2. CASE w \in Subs
  <2>1. /\ inbox' = [inbox EXCEPT ![w] = @ \ msg[w]] /\ msg' = [msg EXCEPT ![w] = None]
        /\ acked' = IF w = "jetstream" /\ recorded THEN acked \cup msg[w] ELSE acked
    BY <1>2 DEF Return
  <2>2. /\ msg[w] \subseteq Events
        /\ \A s \in Subs : msg'[s] = IF s = w THEN {} ELSE msg[s]
        /\ \A v \in Agents : pc'[v] = IF v = w THEN "idle" ELSE pc[v]
    BY <1>1, <1>2, <2>1 DEF TypeOK, None
  <2>3. inbox' \in [Subs -> SUBSET Events] /\ msg' \in [Subs -> SUBSET Events]
    BY <2>1, <2>2 DEF TypeOK, None
  <2>4. \A s \in Subs : msg'[s] = None <=> pc'[s] = "idle"
    BY <1>1, <2>2 DEF TypeOK, None
  <2>5. QED
    BY <1>1, <1>2, <2>1, <2>2, <2>3, <2>4 DEF ControlOK, OnlyMoves, TypeOK
<1>3. CASE w \notin Subs
  <2>1. UNCHANGED <<inbox, msg, acked>>
    BY <1>3 DEF Return
  <2>2. QED
    BY <1>1, <1>3, <2>1 DEF ControlOK, OnlyMoves, TypeOK
<1>4. QED
  BY <1>2, <1>3

\* An error.
LEMMA FailEffect ==
    ASSUME TypeOK, NEW w \in Agents, Fail(w)
    PROVE  /\ ControlOK' /\ OnlyMoves(w)
           /\ pc'[w] = "idle" /\ acked' = acked
           /\ w \in Subs => queued' = queued
<1>1. /\ pc \in [Agents -> Labels] /\ Subs \subseteq Agents /\ "idle" \in Labels
      /\ pc' = [pc EXCEPT ![w] = "idle"] /\ UNCHANGED <<found, inbox, acked>>
  BY WritersFacts DEF TypeOK, Labels, Fail
<1>2. CASE w \in Subs
  <2>1. msg' = [msg EXCEPT ![w] = None] /\ queued' = queued
    BY <1>2 DEF Fail
  <2>2. /\ \A s \in Subs : msg'[s] = IF s = w THEN {} ELSE msg[s]
        /\ \A v \in Agents : pc'[v] = IF v = w THEN "idle" ELSE pc[v]
    BY <1>1, <2>1 DEF TypeOK, None
  <2>3. msg' \in [Subs -> SUBSET Events]
    BY <2>1 DEF TypeOK, None
  <2>4. \A s \in Subs : msg'[s] = None <=> pc'[s] = "idle"
    BY <1>1, <2>2 DEF TypeOK, None
  <2>5. QED
    BY <1>1, <2>1, <2>2, <2>3, <2>4 DEF ControlOK, OnlyMoves, TypeOK
<1>3. CASE w \notin Subs
  <2>1. queued' = TRUE /\ msg' = msg
    BY <1>3 DEF Fail
  <2>2. QED
    BY <1>1, <1>3, <2>1 DEF ControlOK, OnlyMoves, TypeOK
<1>4. QED
  BY <1>2, <1>3

\* The report is still there, with every event it had.
Grows == report.exists => report'.exists /\ report.spec.events \subseteq report'.spec.events

\* A writer that did not move, ...
LEMMA OthersOK ==
    ASSUME IndInv, NEW w \in Agents, copy'[w] = copy[w], pc'[w] = pc[w],
           w \in Subs => msg'[w] = msg[w], UNCHANGED sendReport,
           FirstLife' => FirstLife /\ Grows, creations' = 0 => creations = 0
    PROVE  WriterOK(w)'
  BY DEF IndInv, WritersOK, WriterOK, Grows

\* ... and one that is done.
LEMMA IdleOK ==
    ASSUME NEW w, pc'[w] = "idle"
    PROVE  WriterOK(w)'
  BY DEF WriterOK, Sending, Cleaning

\* What was recorded still is.
LEMMA StillRecorded ==
    ASSUME IndInv, acked' = acked, UNCHANGED sendReport, FirstLife' => FirstLife, Grows
    PROVE  Recorded'
  BY DEF IndInv, Recorded, Grows

\* What a writer has to show for its step: the rest of the invariant is about
\* what it cannot touch.
LEMMA WriterKeeps ==
    ASSUME IndInv, NEW w \in Agents, StoreInv', Stated', ControlOK', OnlyMoves(w),
           \A v \in Writers : v # w => copy'[v] = copy[v],
           UNCHANGED <<policyVars, clusterVars, sendReport, collecting, changes, creations>>,
           faults' \in Nat, mgmt' \in Specs \cup {NoSpec},
           FirstLife => Grows, WriterOK(w)', Recorded', creations = 0 => ~queued'
    PROVE  IndInv'
<1>1. FirstLife' = FirstLife
  BY DEF FirstLife, policyVars
<1>2. TypeOK'
  BY DEF IndInv, TypeOK, StoreInv, ControlOK, Labels, policyVars, clusterVars
<1>3. WritersOK'
  BY <1>1, WritersFacts, OthersOK DEF WritersOK, OnlyMoves
<1>4. NotYet' /\ CollectorHolds'
  BY WritersFacts DEF IndInv, NotYet, CollectorHolds, policyVars
<1>5. QED
  BY <1>2, <1>3, <1>4 DEF IndInv, StoreInv

\* The same when the report is left alone and the message is not acknowledged as
\* recorded.
LEMMA QuietStepKeeps ==
    ASSUME IndInv, NEW w \in Agents, StoreInv', Stated', ControlOK', OnlyMoves(w),
           \A v \in Writers : v # w => copy'[v] = copy[v], report' = report, acked' = acked,
           UNCHANGED <<policyVars, clusterVars, sendReport, collecting, changes, creations>>,
           faults' \in Nat, mgmt' \in Specs \cup {NoSpec},
           WriterOK(w)', creations = 0 => ~queued'
    PROVE  IndInv'
<1>1. FirstLife' = FirstLife
  BY DEF FirstLife, policyVars
<1>2. Grows
  BY DEF Grows
<1>3. Recorded'
  BY <1>1, <1>2, StillRecorded
<1>4. QED
  BY <1>2, <1>3, WriterKeeps

\* A call that fails, retries included, leaves the writer with nothing in hand.
LEMMA FailKeeps ==
    ASSUME IndInv, NEW w \in Agents, StoreInv', Stated', Fail(w), Discard(w), pc[w] # "idle",
           UNCHANGED <<policyVars, clusterVars, mgmtVars, changes, creations>>, faults' \in Nat
    PROVE  IndInv'
<1>1. /\ ControlOK' /\ OnlyMoves(w) /\ acked' = acked /\ WriterOK(w)'
      /\ w \in Subs => queued' = queued
  BY FailEffect, IdleOK DEF IndInv
<1>2. report' = report /\ \A v \in Writers : v # w => copy'[v] = copy[v]
  BY WritersFacts, HoldEffect DEF IndInv, TypeOK, OnlySeenBy
<1>3. creations = 0 => ~queued'
  BY <1>1 DEF IndInv, WritersOK, WriterOK, NotYet
<1>4. mgmt' \in Specs \cup {NoSpec} /\ UNCHANGED <<sendReport, collecting>>
  BY DEF IndInv, TypeOK, mgmtVars
<1>5. QED
  BY <1>1, <1>2, <1>3, <1>4, QuietStepKeeps

\* A conflict, retried or not, and a report that is gone.
LEMMA ConflictKeeps ==
    ASSUME IndInv, NEW w \in Agents, StoreInv', Stated', Conflict(w) \/ NotFound(w),
           pc[w] \in {"update", "status"}, WriterUnchanged
    PROVE  IndInv'
<1>1. faults' \in Nat /\ UNCHANGED <<changes, creations>>
  BY DEF IndInv, TypeOK, WriterUnchanged, bounds
<1>2. CASE Goto(w, "get") /\ Discard(w)
  <2>1. /\ ControlOK' /\ OnlyMoves(w) /\ pc'[w] = "get" /\ acked' = acked /\ queued' = queued
    BY <1>2, GotoEffect DEF IndInv, Labels
  <2>2. report' = report /\ \A v \in Writers : v # w => copy'[v] = copy[v]
    BY <1>2, WritersFacts, HoldEffect DEF IndInv, TypeOK, OnlySeenBy
  <2>3. creations # 0 /\ creations' # 0
    BY <1>1 DEF IndInv, WritersOK, WriterOK
  <2>4. WriterOK(w)'
    BY <2>1, <2>3 DEF WriterOK, Sending, Cleaning
  <2>5. mgmt' \in Specs \cup {NoSpec} /\ UNCHANGED <<sendReport, collecting>>
    BY DEF IndInv, TypeOK, WriterUnchanged, mgmtVars
  <2>6. QED
    BY <1>1, <2>1, <2>2, <2>3, <2>4, <2>5, QuietStepKeeps DEF WriterUnchanged
<1>3. CASE Fail(w) /\ Discard(w)
  BY <1>1, <1>3, FailKeeps DEF WriterUnchanged
<1>4. QED
  BY <1>2, <1>3 DEF Conflict, NotFound

(***************************************************************************)
(* The writers' steps.                                                     *)
(***************************************************************************)
\* A call fails.
LEMMA CallFailsStep ==
    ASSUME IndInv, NEW w \in Agents, StoreInv', Stated', CallFails(w)
    PROVE  IndInv'
  BY FailKeeps DEF CallFails, IndInv, TypeOK

\* The two reads through the cache, before the report is written and sent.
LEMMA createEventReportStep ==
    ASSUME IndInv, NEW w \in Agents, StoreInv', Stated', createEventReport(w) \/ sendEventReport(w)
    PROVE  IndInv'
<1>1. /\ GetCached(w) /\ WriterUnchanged /\ w \in Writers /\ StoreTypeOK
      /\ pc[w] \in {"get", "send"}
  BY WritersFacts DEF createEventReport, sendEventReport, IndInv, TypeOK
<1>2. /\ report' = report /\ copy'[w] = cache
      /\ \A v \in Writers : v # w => copy'[v] = copy[v]
  BY <1>1, HoldEffect DEF OnlySeenBy
<1>3. /\ faults' \in Nat /\ mgmt' \in Specs \cup {NoSpec} /\ creations # 0
      /\ UNCHANGED <<policyVars, clusterVars, sendReport, collecting, changes, creations>>
  BY <1>1 DEF IndInv, TypeOK, WriterUnchanged, bounds, mgmtVars, WritersOK, WriterOK
<1>4. ASSUME NEW l \in {"update", "create", "deliver"}, Goto(w, l),
             l \in {"update", "deliver"} => cache.exists, l = "deliver" => pc[w] = "send"
      PROVE  IndInv'
  <2>1. /\ ControlOK' /\ OnlyMoves(w)
        /\ pc'[w] = l /\ msg' = msg /\ acked' = acked /\ queued' = queued
    BY <1>1, <1>4, GotoEffect DEF IndInv, Labels
  <2>2. WriterOK(w)'
    BY <1>1, <1>2, <1>3, <1>4, <2>1
       DEF IndInv, WritersOK, WriterOK, Sending, Cleaning, FirstLife, policyVars
  <2>3. QED
    BY <1>2, <1>3, <2>1, <2>2, QuietStepKeeps
<1>5. ASSUME Fail(w) PROVE IndInv'
  <2>1. /\ ControlOK' /\ OnlyMoves(w) /\ acked' = acked /\ WriterOK(w)'
    BY <1>5, FailEffect, IdleOK DEF IndInv
  <2>2. QED
    BY <1>2, <1>3, <2>1, QuietStepKeeps
<1>6. QED
  BY <1>4, <1>5 DEF createEventReport, sendEventReport

\* A report is only created when there is none: no event is lost.
LEMMA CreateReportStep ==
    ASSUME IndInv, NEW w \in Agents, StoreInv', Stated', CreateReport(w)
    PROVE  IndInv'
<1>1. w \in Writers /\ StoreTypeOK /\ pc[w] = "create" /\ WriterUnchanged
  BY WritersFacts DEF CreateReport, IndInv, TypeOK
<1>2. /\ faults' \in Nat /\ mgmt' \in Specs \cup {NoSpec} /\ creations # 0
      /\ UNCHANGED <<policyVars, clusterVars, sendReport, collecting, changes, creations>>
  BY <1>1 DEF IndInv, TypeOK, WriterUnchanged, bounds, mgmtVars, WritersOK, WriterOK
<1>3. CASE Create(w, getEventReport(w)) /\ Goto(w, "status")
  <2>1. /\ ControlOK' /\ OnlyMoves(w)
        /\ pc'[w] = "status" /\ msg' = msg /\ acked' = acked /\ queued' = queued
    BY <1>1, <1>3, GotoEffect DEF IndInv, Labels
  <2>2. /\ ~report.exists
        /\ report'.exists /\ report'.spec = getEventReport(w) /\ copy'[w] = report'
        /\ \A v \in Writers : v # w => copy'[v] = copy[v]
    BY <1>1, <1>3, CreateEffect DEF OnlySeenBy
  <2>3. w \in Subs => msg'[w] \subseteq copy'[w].spec.events
    BY <2>1, <2>2 DEF getEventReport
  <2>4. WriterOK(w)'
    BY <1>2, <2>1, <2>2, <2>3 DEF WriterOK, Sending, Cleaning
  <2>5. FirstLife' = FirstLife /\ Grows
    BY <1>2, <2>2 DEF FirstLife, policyVars, Grows
  <2>6. Recorded'
    BY <1>2, <2>1, <2>5, StillRecorded
  <2>7. QED
    BY <1>2, <2>1, <2>2, <2>4, <2>5, <2>6, WriterKeeps
<1>4. CASE Fail(w) /\ Discard(w)
  BY <1>1, <1>2, <1>4, FailKeeps DEF WriterUnchanged
<1>5. QED
  BY <1>3, <1>4 DEF CreateReport

\* The copy an update is based on is the report: no event is lost.
LEMMA updateEventReportStep ==
    ASSUME IndInv, NEW w \in Agents, StoreInv', Stated', updateEventReport(w)
    PROVE  IndInv'
<1>1. w \in Writers /\ StoreTypeOK /\ pc[w] = "update" /\ WriterUnchanged
  BY WritersFacts DEF updateEventReport, IndInv, TypeOK
<1>2. /\ faults' \in Nat /\ mgmt' \in Specs \cup {NoSpec} /\ creations # 0
      /\ UNCHANGED <<policyVars, clusterVars, sendReport, collecting, changes, creations>>
  BY <1>1 DEF IndInv, TypeOK, WriterUnchanged, bounds, mgmtVars, WritersOK, WriterOK
<1>3. CASE Update(w, NewSpec(w)) /\ Goto(w, "status")
  <2>1. /\ ControlOK' /\ OnlyMoves(w)
        /\ pc'[w] = "status" /\ msg' = msg /\ acked' = acked /\ queued' = queued
    BY <1>1, <1>3, GotoEffect DEF IndInv, Labels
  <2>2. /\ CanUpdate(w)
        /\ report'.exists = report.exists /\ report'.spec = NewSpec(w) /\ copy'[w] = report'
        /\ \A v \in Writers : v # w => copy'[v] = copy[v]
    BY <1>1, <1>3, UpdateEffect DEF OnlySeenBy
  <2>3. copy[w] = report /\ report.exists /\ report.spec \in Specs
    BY <1>1, <2>2 DEF IndInv, WritersOK, WriterOK, CopiesCurrent, CanUpdate, Stated
  <2>4. /\ report.spec.events \subseteq NewSpec(w).events
        /\ w \in Subs => msg[w] \subseteq NewSpec(w).events
    BY <2>3, SpecsAssumption DEF NewSpec
  <2>5. WriterOK(w)'
    BY <1>2, <2>1, <2>2, <2>3, <2>4 DEF WriterOK, Sending, Cleaning
  <2>6. FirstLife' = FirstLife /\ Grows
    BY <1>2, <2>2, <2>4 DEF FirstLife, policyVars, Grows
  <2>7. Recorded'
    BY <1>2, <2>1, <2>6, StillRecorded
  <2>8. QED
    BY <1>2, <2>1, <2>2, <2>5, <2>6, <2>7, WriterKeeps
<1>4. CASE Conflict(w) \/ NotFound(w)
  BY <1>1, <1>4, ConflictKeeps
<1>5. QED
  BY <1>3, <1>4 DEF updateEventReport

\* The status is written with a copy that is the report: the message about to be
\* acknowledged is in it.
LEMMA updateEventReportStatusStep ==
    ASSUME IndInv, NEW w \in Agents, StoreInv', Stated', updateEventReportStatus(w)
    PROVE  IndInv'
<1>1. w \in Writers /\ StoreTypeOK /\ pc[w] = "status" /\ WriterUnchanged
  BY WritersFacts DEF updateEventReportStatus, IndInv, TypeOK
<1>2. /\ faults' \in Nat /\ mgmt' \in Specs \cup {NoSpec} /\ creations # 0
      /\ UNCHANGED <<policyVars, clusterVars, sendReport, collecting, changes, creations>>
  BY <1>1 DEF IndInv, TypeOK, WriterUnchanged, bounds, mgmtVars, WritersOK, WriterOK
<1>3. CASE StatusUpdate(w, "waitingForDelivery") /\ AfterStatus(w)
  <2>1. /\ CanUpdate(w)
        /\ report'.exists = report.exists /\ report'.spec = report.spec
        /\ \A v \in Writers : v # w => copy'[v] = copy[v]
    BY <1>1, <1>3, StatusUpdateEffect DEF OnlySeenBy
  <2>2. /\ report.exists
        /\ w \in Subs => msg[w] \subseteq report.spec.events
    BY <1>1, <2>1 DEF IndInv, WritersOK, WriterOK, CopiesCurrent, CanUpdate
  <2>3. FirstLife' = FirstLife /\ Grows
    BY <1>2, <2>1 DEF FirstLife, policyVars, Grows
  <2>4. CASE sendReport
    <3>1. /\ ControlOK' /\ OnlyMoves(w)
          /\ pc'[w] = "send" /\ msg' = msg /\ acked' = acked /\ queued' = queued
      BY <1>1, <1>3, <2>4, GotoEffect DEF IndInv, Labels, AfterStatus
    <3>2. WriterOK(w)'
      BY <1>2, <2>1, <2>2, <2>4, <3>1 DEF WriterOK, Sending, Cleaning
    <3>3. Recorded'
      BY <1>2, <2>3, <3>1, StillRecorded
    <3>4. QED
      BY <1>2, <2>1, <2>3, <3>1, <3>2, <3>3, WriterKeeps
  <2>5. CASE ~sendReport
    <3>1. /\ ControlOK' /\ OnlyMoves(w) /\ pc'[w] = "idle" /\ queued' = queued
          /\ acked' = acked \/ (w \in Subs /\ acked' = acked \cup msg[w])
      BY <1>3, <2>5, ReturnEffect DEF IndInv, AfterStatus
    <3>2. Recorded'
      BY <1>2, <2>1, <2>2, <2>3, <3>1 DEF IndInv, Recorded
    <3>3. QED
      BY <1>2, <2>1, <2>3, <3>1, <3>2, IdleOK, WriterKeeps
  <2>6. QED
    BY <2>4, <2>5
<1>4. CASE Conflict(w) \/ NotFound(w)
  BY <1>1, <1>4, ConflictKeeps
<1>5. QED
  BY <1>3, <1>4 DEF updateEventReportStatus

\* The report has been sent: unless it was deleted meanwhile the message is in it.
LEMMA SendStep ==
    ASSUME IndInv, NEW w \in Agents, StoreInv', Stated',
           SendCreate(w) \/ SendUpdate(w) \/ SendProcessed(w)
    PROVE  IndInv'
<1>1. /\ w \in Writers /\ StoreTypeOK /\ pc[w] \in {"deliver", "processed"}
      /\ UNCHANGED <<policyVars, clusterVars, sendReport, collecting, changes, creations, faults>>
  BY WritersFacts
     DEF SendCreate, SendUpdate, SendProcessed, WriterUnchanged, mgmtVars, bounds, IndInv, TypeOK
<1>2. /\ faults' \in Nat /\ creations # 0 /\ sendReport
      /\ copy[w].exists /\ copy[w].spec \in Specs
      /\ FirstLife /\ w \in Subs => report.exists /\ msg[w] \subseteq report.spec.events
  BY <1>1 DEF IndInv, TypeOK, WritersOK, WriterOK, Sending, Stated
<1>3. FirstLife' = FirstLife
  BY <1>1 DEF FirstLife, policyVars
<1>4. ASSUME Return(w, TRUE), report'.exists = report.exists, report'.spec = report.spec,
             \A v \in Writers : v # w => copy'[v] = copy[v], mgmt' \in Specs \cup {NoSpec}
      PROVE  IndInv'
  <2>1. /\ ControlOK' /\ OnlyMoves(w) /\ pc'[w] = "idle" /\ queued' = queued
        /\ acked' = acked \/ (w \in Subs /\ acked' = acked \cup msg[w])
    BY <1>4, ReturnEffect DEF IndInv
  <2>2. Recorded'
    BY <1>1, <1>2, <1>3, <1>4, <2>1 DEF IndInv, Recorded
  <2>3. Grows
    BY <1>4 DEF Grows
  <2>4. QED
    BY <1>1, <1>2, <1>4, <2>1, <2>2, <2>3, IdleOK, WriterKeeps
<1>5. CASE SendCreate(w)
  <2>1. report' = report /\ \A v \in Writers : v # w => copy'[v] = copy[v]
    BY <1>1, <1>5, HoldEffect DEF SendCreate, OnlySeenBy
  <2>2. QED
    BY <1>2, <1>4, <1>5, <2>1 DEF SendCreate
<1>6. CASE SendUpdate(w)
  <2>1. /\ ControlOK' /\ OnlyMoves(w)
        /\ pc'[w] = "processed" /\ msg' = msg /\ acked' = acked /\ queued' = queued
    BY <1>1, <1>6, GotoEffect DEF IndInv, Labels, SendUpdate
  <2>2. mgmt' \in Specs \cup {NoSpec}
    BY <1>2, <1>6, SpecsAssumption DEF IndInv, TypeOK, SendUpdate
  <2>3. UNCHANGED <<report, copy>>
    BY <1>6 DEF SendUpdate, storeVars
  <2>4. WriterOK(w)'
    BY <1>1, <1>2, <1>3, <2>1, <2>3 DEF IndInv, WritersOK, WriterOK, Sending, Cleaning
  <2>5. QED
    BY <1>1, <1>2, <2>1, <2>2, <2>3, <2>4, QuietStepKeeps
<1>7. CASE SendProcessed(w)
  <2>1. mgmt' \in Specs \cup {NoSpec} /\ UNCHANGED mgmtVars
    BY <1>7 DEF IndInv, TypeOK, SendProcessed, WriterUnchanged, mgmtVars
  <2>2. CASE StatusUpdate(w, "processed") /\ Return(w, TRUE)
    <3>1. /\ report'.exists = report.exists /\ report'.spec = report.spec
          /\ \A v \in Writers : v # w => copy'[v] = copy[v]
      BY <1>1, <2>2, StatusUpdateEffect DEF OnlySeenBy
    <3>2. QED
      BY <1>4, <2>1, <2>2, <3>1
  <2>3. CASE Fail(w) /\ Discard(w)
    BY <1>1, <1>2, <2>1, <2>3, FailKeeps
  <2>4. QED
    BY <1>7, <2>2, <2>3 DEF SendProcessed
<1>8. QED
  BY <1>5, <1>6, <1>7

\* Cleaning up: the EventSource has been deleted before.
LEMMA CleanStep ==
    ASSUME IndInv, NEW w \in Agents, StoreInv', Stated',
           cleanEventReport(w) \/ CleanStatus(w) \/ CleanDelete(w)
    PROVE  IndInv'
<1>1. w \in Writers /\ StoreTypeOK /\ pc[w] \in Cleaning /\ WriterUnchanged
  BY WritersFacts DEF cleanEventReport, CleanStatus, CleanDelete, Cleaning, IndInv, TypeOK
<1>2. /\ faults' \in Nat /\ mgmt' \in Specs \cup {NoSpec} /\ creations # 0 /\ ~FirstLife
      /\ UNCHANGED <<policyVars, clusterVars, sendReport, collecting, changes, creations>>
  BY <1>1
     DEF IndInv, TypeOK, WriterUnchanged, bounds, mgmtVars, WritersOK, WriterOK, Cleaning
<1>3. ~FirstLife'
  BY <1>2 DEF FirstLife, policyVars
<1>4. CASE cleanEventReport(w)
  <2>1. CASE GetCached(w) /\ Goto(w, "cleanStatus") /\ cache.exists
    <3>1. /\ ControlOK' /\ OnlyMoves(w)
          /\ pc'[w] = "cleanStatus" /\ msg' = msg /\ acked' = acked /\ queued' = queued
      BY <1>4, <2>1, GotoEffect DEF IndInv, Labels, cleanEventReport
    <3>2. /\ report' = report /\ copy'[w] = cache
          /\ \A v \in Writers : v # w => copy'[v] = copy[v]
      BY <1>1, <2>1, HoldEffect DEF OnlySeenBy
    <3>3. WriterOK(w)'
      BY <1>2, <1>3, <2>1, <3>1, <3>2 DEF WriterOK, Sending
    <3>4. QED
      BY <1>2, <3>1, <3>2, <3>3, QuietStepKeeps
  <2>2. CASE UNCHANGED storeVars /\ Return(w, FALSE)
    <3>1. /\ ControlOK' /\ OnlyMoves(w) /\ pc'[w] = "idle" /\ queued' = queued
          /\ acked' = acked
      BY <2>2, ReturnEffect DEF IndInv
    <3>2. QED
      BY <1>2, <2>2, <3>1, IdleOK, QuietStepKeeps DEF storeVars
  <2>3. QED
    BY <1>4, <2>1, <2>2 DEF cleanEventReport
<1>5. CASE CleanStatus(w)
  <2>1. CASE StatusUpdate(w, "waitingForDelivery") /\ Goto(w, "cleanDelete")
    <3>1. /\ ControlOK' /\ OnlyMoves(w)
          /\ pc'[w] = "cleanDelete" /\ msg' = msg /\ acked' = acked /\ queued' = queued
      BY <1>5, <2>1, GotoEffect DEF IndInv, Labels, CleanStatus
    <3>2. /\ report'.exists = report.exists /\ report'.spec = report.spec
          /\ \A v \in Writers : v # w => copy'[v] = copy[v]
      BY <1>1, <2>1, StatusUpdateEffect DEF OnlySeenBy
    <3>3. WriterOK(w)'
      BY <1>2, <1>3, <3>1 DEF WriterOK, Sending
    <3>4. Recorded'
      BY <1>2, <1>3, <3>1, <3>2, StillRecorded DEF Grows
    <3>5. QED
      BY <1>2, <3>1, <3>2, <3>3, <3>4, WriterKeeps
  <2>2. CASE Fail(w) /\ Discard(w)
    BY <1>2, <1>5, <2>2, FailKeeps DEF WriterUnchanged, CleanStatus
  <2>3. QED
    BY <1>5, <2>1, <2>2 DEF CleanStatus
<1>6. CASE CleanDelete(w)
  <2>1. CASE Delete /\ acked' = {}
    <3>1. /\ pc' = [pc EXCEPT ![w] = "idle"]
          /\ inbox' = [s \in Subs |-> IF s = w THEN inbox[s] \ msg[s] ELSE inbox[s]]
          /\ msg' = [s \in Subs |-> IF s = w THEN None ELSE msg[s]]
          /\ UNCHANGED <<queued, found>>
      BY <1>6, <2>1 DEF CleanDelete, Delete
    <3>2. pc \in [Agents -> Labels] /\ "idle" \in Labels /\ Subs \subseteq Agents
      BY WritersFacts DEF IndInv, TypeOK, Labels
    <3>3. ControlOK' /\ OnlyMoves(w) /\ pc'[w] = "idle"
      BY <2>1, <3>1, <3>2 DEF IndInv, TypeOK, ControlOK, OnlyMoves, None
    <3>4. \A v \in Writers : copy'[v] = copy[v]
      BY <1>1, <2>1, PatchEffect
    <3>5. Recorded'
      BY <2>1 DEF Recorded
    <3>6. QED
      BY <1>2, <3>1, <3>3, <3>4, <3>5, IdleOK, WriterKeeps
  <2>2. CASE Fail(w) /\ UNCHANGED storeVars
    <3>1. ControlOK' /\ OnlyMoves(w) /\ acked' = acked /\ WriterOK(w)'
      BY <2>2, FailEffect, IdleOK DEF IndInv
    <3>2. QED
      BY <1>2, <2>2, <3>1, QuietStepKeeps DEF storeVars
  <2>3. QED
    BY <1>6, <2>1, <2>2 DEF CleanDelete
<1>7. QED
  BY <1>4, <1>5, <1>6
\* The evaluation begins: nothing is queued before the first reconciliation, and
\* cleaning up needs an EventSource that is on its way out.
LEMMA evaluateEventSourceInstanceStep ==
    ASSUME IndInv, StoreInv', Stated', evaluateEventSourceInstance
    PROVE  IndInv'
<1>1. /\ "evaluator" \in Agents /\ "evaluator" \notin Subs /\ Subs \subseteq Agents
      /\ pc \in [Agents -> Labels] /\ creations # 0
  BY WritersFacts DEF IndInv, TypeOK, Labels, NotYet, evaluateEventSourceInstance
<1>2. PICK l \in {"clean", "get"} :
         pc' = [pc EXCEPT !["evaluator"] = l] /\ (l = "clean" => Going)
  BY DEF evaluateEventSourceInstance
<1>3. /\ queued' = FALSE /\ UNCHANGED <<report, copy, inbox, msg, acked>>
      /\ found' \in Matches /\ l \in Labels
      /\ UNCHANGED <<policyVars, clusterVars, mgmtVars, changes, creations, faults>>
  BY DEF evaluateEventSourceInstance, WriterUnchanged, storeVars, bounds, IndInv, TypeOK,
         getEventMatchingResources, Labels
<1>4. /\ \A v \in Agents : pc'[v] = IF v = "evaluator" THEN l ELSE pc[v]
      /\ pc' \in [Agents -> Labels]
  BY <1>1, <1>2, <1>3
<1>5. ControlOK' /\ OnlyMoves("evaluator")
  BY <1>1, <1>3, <1>4 DEF ControlOK, OnlyMoves, IndInv, TypeOK
<1>6. WriterOK("evaluator")'
  BY <1>1, <1>2, <1>3, <1>4 DEF WriterOK, Sending, Cleaning, FirstLife, Going, policyVars
<1>7. /\ faults' \in Nat /\ mgmt' \in Specs \cup {NoSpec}
      /\ UNCHANGED <<sendReport, collecting>>
  BY <1>3 DEF IndInv, TypeOK, mgmtVars
<1>8. QED
  BY <1>1, <1>3, <1>5, <1>6, <1>7, QuietStepKeeps

\* A message arrives.
LEMMA evaluateCloudEventStep ==
    ASSUME IndInv, StoreInv', Stated', NEW s \in Subs, NEW e \in Events, evaluateCloudEvent(s, e)
    PROVE  IndInv'
<1>1. s \in Agents /\ Subs \subseteq Agents /\ pc \in [Agents -> Labels]
  BY WritersFacts DEF IndInv, TypeOK, Labels
<1>2. PICK l \in {"process", "ignore"} :
         pc' = [pc EXCEPT ![s] = l] /\ (l = "process" => known)
  BY DEF evaluateCloudEvent
<1>3. /\ msg' = [msg EXCEPT ![s] = {e}] /\ UNCHANGED <<report, copy, queued, found, acked>>
      /\ inbox' = inbox \/ inbox' = [inbox EXCEPT ![s] = @ \ {e}]
      /\ UNCHANGED <<policyVars, clusterVars, mgmtVars, changes, creations, faults>>
      /\ l \in Labels
  BY DEF evaluateCloudEvent, WriterUnchanged, storeVars, bounds, Labels
<1>4. /\ \A v \in Agents : pc'[v] = IF v = s THEN l ELSE pc[v]
      /\ pc' \in [Agents -> Labels]
      /\ \A v \in Subs : msg'[v] = IF v = s THEN {e} ELSE msg[v]
      /\ msg' \in [Subs -> SUBSET Events] /\ inbox' \in [Subs -> SUBSET Events]
  BY <1>1, <1>2, <1>3 DEF IndInv, TypeOK
<1>5. \A v \in Subs : msg'[v] = None <=> pc'[v] = "idle"
  BY <1>1, <1>2, <1>4 DEF IndInv, TypeOK, None
<1>6. ControlOK' /\ OnlyMoves(s)
  BY <1>1, <1>3, <1>4, <1>5 DEF ControlOK, OnlyMoves, IndInv, TypeOK
<1>7. /\ faults' \in Nat /\ mgmt' \in Specs \cup {NoSpec}
      /\ UNCHANGED <<sendReport, collecting>> /\ (creations = 0 => ~queued' /\ ~known)
  BY <1>3 DEF IndInv, TypeOK, mgmtVars, NotYet
<1>8. WriterOK(s)'
  BY <1>1, <1>2, <1>3, <1>4, <1>7 DEF WriterOK, Sending, Cleaning
<1>9. QED
  BY <1>1, <1>3, <1>6, <1>7, <1>8, QuietStepKeeps

\* A callback reads the EventSource, or ignores its message.
LEMMA processCloudEventStep ==
    ASSUME IndInv, StoreInv', Stated', NEW s \in Subs, processCloudEvent(s) \/ IgnoreCloudEvent(s)
    PROVE  IndInv'
<1>1. /\ s \in Agents /\ UNCHANGED <<report, copy>>
      /\ UNCHANGED <<policyVars, clusterVars, mgmtVars, changes, creations, faults>>
  BY WritersFacts
     DEF processCloudEvent, IgnoreCloudEvent, WriterUnchanged, storeVars, bounds
<1>2. /\ faults' \in Nat /\ mgmt' \in Specs \cup {NoSpec}
      /\ UNCHANGED <<sendReport, collecting>> /\ (creations = 0 => ~queued)
  BY <1>1 DEF IndInv, TypeOK, mgmtVars, NotYet
<1>3. CASE processCloudEvent(s)
  <2>1. PICK l \in {"clean", "get", "ignore"} : Goto(s, l) /\ (l = "clean" => Going)
    BY <1>3 DEF processCloudEvent
  <2>2. pc[s] = "process" /\ creations # 0
    BY <1>1, <1>3 DEF processCloudEvent, IndInv, WritersOK, WriterOK
  <2>3. /\ ControlOK' /\ OnlyMoves(s)
        /\ pc'[s] = l /\ msg' = msg /\ acked' = acked /\ queued' = queued
    BY <1>1, <2>1, <2>2, GotoEffect DEF IndInv, Labels
  <2>4. WriterOK(s)'
    BY <1>1, <2>1, <2>2, <2>3 DEF WriterOK, Sending, Cleaning, FirstLife, Going, policyVars
  <2>5. QED
    BY <1>1, <1>2, <2>3, <2>4, QuietStepKeeps
<1>4. CASE IgnoreCloudEvent(s)
  <2>1. /\ ControlOK' /\ OnlyMoves(s) /\ pc'[s] = "idle" /\ queued' = queued
        /\ acked' = acked
    BY <1>1, <1>4, ReturnEffect DEF IndInv, IgnoreCloudEvent
  <2>2. QED
    BY <1>1, <1>2, <2>1, IdleOK, QuietStepKeeps
<1>5. QED
  BY <1>3, <1>4

(***************************************************************************)
(* The steps of everybody else.                                            *)
(***************************************************************************)
\* Steps that leave the report, the copies and the writers where they are.
LEMMA OutsideKeeps ==
    ASSUME IndInv, StoreInv', Stated', TypeOK', report' = report,
           \A w \in Agents : copy'[w] = copy[w], UNCHANGED <<pc, msg, acked, sendReport>>,
           FirstLife' => FirstLife, creations' = 0 => creations = 0, NotYet', CollectorHolds'
    PROVE  IndInv'
<1>1. Grows
  BY DEF Grows
<1>2. WritersOK'
  BY <1>1, OthersOK, WritersFacts DEF WritersOK
<1>3. Recorded'
  BY <1>1, StillRecorded
<1>4. QED
  BY <1>2, <1>3 DEF IndInv, StoreInv

\* The cluster, the broker and the informers' resync.
LEMMA ClusterStep ==
    ASSUME IndInv, StoreInv', Stated',
           \/ CreateEventSource \/ DeleteEventSource \/ react \/ Resync
           \/ \E s \in Subs, e \in Events : Publish(s, e)
    PROVE  IndInv'
<1>1. UNCHANGED <<report, copy, pc, msg, acked, mgmtVars, rpc, known, found>>
  BY DEF CreateEventSource, DeleteEventSource, react, Resync, Publish, storeVars, writerVars,
         policyVars
<1>2. /\ eventSource' \in {"absent", "new", "live", "deleting"}
      /\ pending' \in BOOLEAN /\ queued' \in BOOLEAN
  BY DEF IndInv, TypeOK, CreateEventSource, DeleteEventSource, react, Resync, Publish,
         writerVars, policyVars
<1>3. /\ StoreTypeOK' /\ changes' \in Nat /\ creations' \in Nat /\ faults' \in Nat
  BY DEF IndInv, TypeOK, StoreInv, CreateEventSource, DeleteEventSource, react, Resync, Publish,
         bounds
<1>4. matching' \in Matches /\ published' \subseteq Events /\ inbox' \in [Subs -> SUBSET Events]
  BY DEF IndInv, TypeOK, CreateEventSource, DeleteEventSource, react, Resync, Publish,
         writerVars, clusterVars
<1>5. TypeOK'
  BY <1>1, <1>2, <1>3, <1>4 DEF IndInv, TypeOK, mgmtVars
<1>6. FirstLife' => FirstLife
  BY DEF IndInv, TypeOK, NotYet, FirstLife, CreateEventSource, DeleteEventSource, react, Resync,
         Publish, policyVars, bounds
<1>7. NotYet' /\ (creations' = 0 => creations = 0)
  BY <1>1 DEF IndInv, TypeOK, NotYet, CreateEventSource, DeleteEventSource, react, Resync,
         Publish, policyVars, writerVars, bounds
<1>8. CollectorHolds' /\ sendReport' = sendReport
  BY <1>1 DEF IndInv, CollectorHolds, mgmtVars
<1>9. QED
  BY <1>1, <1>5, <1>6, <1>7, <1>8, OutsideKeeps

\* The reconciler.
LEMMA ReconcileStep ==
    ASSUME IndInv, StoreInv', Stated', Reconcile
    PROVE  IndInv'
<1>1. /\ UNCHANGED <<report, copy, pc, msg, acked, inbox, found>>
      /\ UNCHANGED <<mgmtVars, clusterVars, bounds>>
  BY DEF Reconcile, ReconcileGone, reconcileNormal, reconcileDelete, canRemoveFinalizer, Close,
         storeVars, writerVars
<1>2. /\ StoreTypeOK' /\ eventSource' \in {"absent", "new", "live", "deleting"}
      /\ pending' \in BOOLEAN /\ queued' \in BOOLEAN /\ known' \in BOOLEAN
      /\ rpc' \in {"idle", "check", "close"}
  BY DEF IndInv, TypeOK, StoreInv, Reconcile, ReconcileGone, reconcileNormal, reconcileDelete,
         canRemoveFinalizer, Close, writerVars
<1>3. TypeOK'
  BY <1>1, <1>2 DEF IndInv, TypeOK, mgmtVars, clusterVars, bounds
<1>4. FirstLife' => FirstLife
  BY <1>1 DEF FirstLife, bounds, Reconcile, ReconcileGone, reconcileNormal, reconcileDelete,
         canRemoveFinalizer, Close
<1>5. NotYet'
  BY <1>1 DEF IndInv, NotYet, bounds, Reconcile, ReconcileGone, reconcileNormal,
         reconcileDelete, canRemoveFinalizer, Close, writerVars
<1>6. CollectorHolds' /\ sendReport' = sendReport /\ creations' = creations
  BY <1>1 DEF IndInv, CollectorHolds, mgmtVars, bounds
<1>7. QED
  BY <1>1, <1>3, <1>4, <1>5, <1>6, OutsideKeeps

\* The management cluster's collection, and the informers.
LEMMA CollectStep ==
    ASSUME IndInv, StoreInv', Stated', CollectRead \/ CollectDeliver \/ InformerCatchesUp
    PROVE  IndInv'
<1>1. /\ UNCHANGED <<policyVars, writerVars, clusterVars, sendReport, bounds>>
      /\ "collector" \in Writers /\ "collector" \notin Agents /\ Agents \subseteq Writers
      /\ StoreTypeOK
  BY WritersFacts DEF CollectRead, CollectDeliver, InformerCatchesUp, mgmtVars, IndInv, TypeOK
<1>2. FirstLife' = FirstLife /\ NotYet' /\ creations' = creations
  BY <1>1 DEF FirstLife, IndInv, NotYet, policyVars, writerVars, bounds
<1>3. ASSUME collecting' \in BOOLEAN, mgmt' \in Specs \cup {NoSpec} PROVE TypeOK'
  BY <1>1, <1>3 DEF IndInv, TypeOK, StoreInv, policyVars, writerVars, clusterVars, bounds
<1>4. UNCHANGED <<pc, msg, acked>>
  BY <1>1 DEF writerVars
<1>5. CASE CollectRead
  <2>1. /\ report' = report /\ copy'["collector"] = report /\ report.exists
        /\ \A w \in Agents : copy'[w] = copy[w]
    BY <1>1, <1>5, HoldEffect DEF CollectRead, OnlySeenBy
  <2>2. collecting' \in BOOLEAN /\ mgmt' \in Specs \cup {NoSpec}
    BY <1>5 DEF CollectRead, IndInv, TypeOK
  <2>3. CollectorHolds'
    BY <2>1 DEF CollectorHolds
  <2>4. QED
    BY <1>1, <1>2, <1>3, <1>4, <2>1, <2>2, <2>3, OutsideKeeps
<1>6. CASE CollectDeliver
  <2>1. /\ report'.exists = report.exists /\ report'.spec = report.spec
        /\ \A w \in Agents : copy'[w] = copy[w]
    BY <1>1, <1>6, HoldEffect, StatusUpdateEffect DEF CollectDeliver, OnlySeenBy
  <2>2. collecting' = FALSE /\ mgmt' \in Specs \cup {NoSpec}
    BY <1>1, <1>6 DEF CollectDeliver, IndInv, CollectorHolds, Stated
  <2>3. Grows /\ CollectorHolds'
    BY <2>1, <2>2 DEF Grows, CollectorHolds
  <2>4. WritersOK'
    BY <1>1, <1>2, <1>4, <2>1, <2>3, OthersOK, WritersFacts DEF WritersOK
  <2>5. Recorded'
    BY <1>1, <1>2, <1>4, <2>3, StillRecorded
  <2>6. QED
    BY <1>2, <1>3, <2>2, <2>3, <2>4, <2>5 DEF IndInv, StoreInv
<1>7. CASE InformerCatchesUp
  <2>1. UNCHANGED <<report, copy, collecting, mgmt>>
    BY <1>7 DEF InformerCatchesUp, SyncCache, mgmtVars
  <2>2. CollectorHolds' /\ collecting' \in BOOLEAN /\ mgmt' \in Specs \cup {NoSpec}
    BY <2>1 DEF IndInv, TypeOK, CollectorHolds
  <2>3. QED
    BY <1>1, <1>2, <1>3, <1>4, <2>1, <2>2, OutsideKeeps
<1>8. QED
  BY <1>5, <1>6, <1>7

\* A new process: no writer holds anything, the collector is elsewhere.
LEMMA RestartStep ==
    ASSUME IndInv, StoreInv', Stated', Restart
    PROVE  IndInv'
<1>1. /\ report' = report
      /\ copy' = [w \in Writers |-> IF w \in {"collector"} THEN copy[w] ELSE Absent]
      /\ "collector" \in Writers /\ Subs \subseteq Agents
  BY WritersFacts DEF Restart, StoreRestart
<1>2. /\ UNCHANGED <<eventSource, acked, clusterVars, mgmtVars, changes, creations>>
      /\ pc' = [w \in Agents |-> "idle"] /\ msg' = [s \in Subs |-> {}]
      /\ inbox' = [s \in Subs |-> IF s = "jetstream" THEN inbox[s] ELSE {}]
      /\ pending' \in BOOLEAN /\ rpc' = "idle" /\ known' = FALSE /\ queued' = FALSE
      /\ found' = NoMatch /\ faults' \in Nat
  BY DEF Restart, None, IndInv, TypeOK
<1>3. pc' \in [Agents -> Labels] /\ \A s \in Subs : msg'[s] = None <=> pc'[s] = "idle"
  BY <1>1, <1>2 DEF Labels, None
<1>4. inbox' \in [Subs -> SUBSET Events] /\ msg' \in [Subs -> SUBSET Events] /\ found' \in Matches
  BY <1>2, MatchesAssumption DEF IndInv, TypeOK
<1>5. TypeOK'
  BY <1>2, <1>3, <1>4 DEF IndInv, TypeOK, StoreInv, clusterVars, mgmtVars, Labels
<1>6. WritersOK'
  BY <1>2, IdleOK DEF WritersOK
<1>7. NotYet' /\ CollectorHolds'
  BY <1>1, <1>2 DEF IndInv, NotYet, CollectorHolds, mgmtVars
<1>8. Recorded'
  BY <1>1, <1>2, StillRecorded DEF FirstLife, Grows, mgmtVars
<1>9. QED
  BY <1>5, <1>6, <1>7, <1>8 DEF IndInv, StoreInv

(***************************************************************************)
(* The invariant, and what follows from it.                                *)
(***************************************************************************)
\* Initially there is no EventSource, no report and no message.
LEMMA InitInv == Init => IndInv
<1> SUFFICES ASSUME Init PROVE IndInv
  OBVIOUS
<1>1. /\ StoreInv /\ StoreTypeOK /\ Subs \subseteq Agents
      /\ copy = [w \in Writers |-> Absent] /\ report = Absent /\ cache = Absent
  BY StoreInitInv, WritersFacts DEF Init, StoreInit, StoreInv
<1>2. TypeOK
  BY <1>1, MatchesAssumption DEF Init, TypeOK, None
<1>3. Stated
  BY <1>1 DEF Stated, Absent
<1>4. WritersOK
  BY DEF Init, WritersOK, WriterOK, Sending, Cleaning
<1>5. NotYet /\ CollectorHolds /\ Recorded
  BY DEF Init, NotYet, CollectorHolds, Recorded
<1>6. QED
  BY <1>1, <1>2, <1>3, <1>4, <1>5 DEF IndInv, StoreInv

\* A step in which nothing changes.
LEMMA StutterStep ==
    ASSUME IndInv, StoreInv', Stated', UNCHANGED vars
    PROVE  IndInv'
  BY DEF vars, IndInv, TypeOK, StoreInv, WritersOK, WriterOK, FirstLife, NotYet, CollectorHolds,
         Recorded

\* Every step keeps the invariant.
LEMMA StepKeeps == IndInv /\ [Next]_vars => IndInv'
<1> SUFFICES ASSUME IndInv, [Next]_vars PROVE IndInv'
  OBVIOUS
<1>1. StoreInv' /\ Stated' /\ "evaluator" \in Agents /\ Subs \subseteq Agents
  BY StoreStep, WritersFacts
<1>2. ASSUME NEW w \in Agents, Write(w) PROVE IndInv'
  BY <1>1, <1>2, createEventReportStep, CreateReportStep, updateEventReportStep,
     updateEventReportStatusStep, SendStep, CleanStep DEF Write
<1>3. CASE Evaluator
  BY <1>1, <1>2, <1>3, evaluateEventSourceInstanceStep DEF Evaluator
<1>4. ASSUME NEW s \in Subs, Callback(s) PROVE IndInv'
  BY <1>1, <1>2, <1>4, evaluateCloudEventStep, processCloudEventStep DEF Callback
<1>5. ASSUME NEW w \in Agents, CallFails(w) PROVE IndInv'
  BY <1>1, <1>5, CallFailsStep
<1>6. QED
  BY <1>1, <1>3, <1>4, <1>5, ClusterStep, ReconcileStep, CollectStep, RestartStep, StutterStep
     DEF Next

\* The invariant holds in every state.
LEMMA IndInvHolds == Spec => []IndInv
  BY InitInv, StepKeeps, PTL DEF Spec

\* Every variable keeps its type, and a callback has a message exactly while it
\* is at work.
THEOREM TypeCorrect == Spec => []TypeOK
<1>1. IndInv => TypeOK
  BY DEF IndInv
<1>2. QED
  BY <1>1, IndInvHolds, PTL

\* An event that was acknowledged stays in the report of an EventSource in use:
\* createEventReport's read, update and status update, with their retries, lose
\* no event whoever else writes the report in between.
THEOREM AckedEventsRecorded == Spec => []AckedEventRecorded
<1>1. IndInv => AckedEventRecorded
  BY DEF IndInv, Recorded, FirstLife, AckedEventRecorded
<1>2. QED
  BY <1>1, IndInvHolds, PTL
=============================================================================
