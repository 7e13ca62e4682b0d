---------------------------- MODULE EventReports ----------------------------
(***************************************************************************)
(* The life of an EventSource and its EventReport                          *)
(* (controllers/eventsource_controller.go, pkg/evaluation/                 *)
(* eventsource_evaluation.go and nats_evaluation.go).                      *)
(*                                                                         *)
(* The report has several writers at once: the evaluation goroutine, which *)
(* sets the matching resources, and the callbacks of the messaging         *)
(* subscriptions, which append CloudEvents.  All of them go through        *)
(* createEventReport (Get, Update, Status().Update, started again on a     *)
(* conflict), and push the report when the agent sends reports.            *)
(*                                                                         *)
(* A report's Spec is [matching, events]: the resources that match and the *)
(* CloudEvents recorded (an event recorded twice is not told from one      *)
(* recorded once).  EventReportReconciler ignores reports without the      *)
(* deployed-by-Sveltos annotation, which is never set on the ones the      *)
(* agent creates: they get no finalizer and the reconciler has no action.  *)
(***************************************************************************)
EXTENDS Naturals, ReportStore

CONSTANTS Matches,        \* what the resource selectors can match
          NoMatch,        \* ... when they match nothing
          Events,         \* CloudEvents
          MatchingEvents, \* the ones some MessagingMatchCriteria matches
          Subs,           \* subscriptions: a subset of {"nats", "jetstream"}
          Modes,          \* the run modes considered: sendReport or not
          MaxChanges,     \* bound: changes of the matching resources
          MaxCreations,   \* bound: times the EventSource is created
          MaxFaults       \* bound: API and script errors, and restarts of the agent

Agents == {"evaluator"} \cup Subs

ASSUME SubsAssumption == Subs \subseteq {"nats", "jetstream"}
ASSUME WritersAssumption == Writers = Agents \cup {"collector"}
ASSUME SpecsAssumption == Specs = [matching : Matches, events : SUBSET Events]
ASSUME EventsAssumption == MatchingEvents \subseteq Events
ASSUME MatchesAssumption == NoMatch \in Matches

VARIABLES eventSource,  \* the EventSource
          pending,      \* its key is in the reconciler's workqueue
          rpc,          \* where the reconciler is in reconcileDelete
          known,        \* it is in GVKEventSources and natsEventSources
          queued,       \* it is in eventSourceJobQueue
          matching,     \* the resources that match now
          pc,           \* pc[w]: where writer w is
          found,        \* what getEventMatchingResources returned
          inbox,        \* inbox[s]: messages to be delivered to subscription s
          msg,          \* msg[s]: the message of the callback under way
          acked,        \* recorded events JetStream will not deliver again
          mgmt,         \* the Spec the management cluster knows of
          sendReport,   \* m.sendReport: the agent pushes reports
          collecting,   \* the management cluster is collecting the report
          published,    \* events published so far
          changes, creations, faults

bounds == <<changes, creations, faults>>
policyVars == <<eventSource, pending, rpc, known>>
writerVars == <<queued, pc, found, inbox, msg, acked>>
clusterVars == <<matching, published>>
mgmtVars == <<sendReport, mgmt, collecting>>
vars == <<report, cache, copy, fresh, eventSource, pending, rpc, known, queued, matching, pc,
          found, inbox, msg, acked, sendReport, mgmt, collecting, published, changes,
          creations, faults>>

\* No message.
None == {}

Init == /\ StoreInit
        /\ eventSource = "absent" /\ pending = FALSE /\ rpc = "idle" /\ known = FALSE
        /\ queued = FALSE /\ pc = [w \in Agents |-> "idle"] /\ found = NoMatch
        /\ inbox = [s \in Subs |-> {}] /\ msg = [s \in Subs |-> None] /\ acked = {}
        /\ matching \in Matches /\ published = {}
        /\ sendReport \in Modes /\ mgmt = NoSpec /\ collecting = FALSE
        /\ changes = 0 /\ creations = 0 /\ faults = 0

(***************************************************************************)
(* The cluster and the message broker.                                     *)
(***************************************************************************)
CreateEventSource == /\ eventSource = "absent"
                     /\ creations < MaxCreations
                     /\ creations' = creations + 1
                     /\ eventSource' = "new"
                     /\ pending' = TRUE
                     /\ UNCHANGED <<storeVars, rpc, known, writerVars, clusterVars, mgmtVars,
                                    changes, faults>>

DeleteEventSource == /\ eventSource \in {"new", "live"}
                     /\ eventSource' = IF eventSource = "new" THEN "absent" ELSE "deleting"
                     /\ pending' = TRUE
                     /\ UNCHANGED <<storeVars, rpc, known, writerVars, clusterVars, mgmtVars,
                                    bounds>>

\* Resources change; the watcher calls react.
react == /\ changes < MaxChanges
         /\ changes' = changes + 1
         /\ matching' \in Matches \ {matching}
         /\ queued' = (queued \/ known)
         /\ UNCHANGED <<storeVars, policyVars, pc, found, inbox, msg, acked, published, mgmtVars,
                        creations, faults>>

\* An event is published.  JetStream keeps it until it is acknowledged.
Publish(s, e) == /\ e \notin published
                 /\ published' = published \cup {e}
                 /\ inbox' = [inbox EXCEPT ![s] = @ \cup {e}]
                 /\ UNCHANGED <<storeVars, policyVars, queued, pc, found, msg, acked, matching,
                                mgmtVars, bounds>>

\* The informers' periodic resync (sync-period) reconciles what exists.
Resync == /\ eventSource # "absent"
          /\ pending' = TRUE
          /\ UNCHANGED <<storeVars, eventSource, rpc, known, writerVars, clusterVars, mgmtVars,
                         bounds>>

(***************************************************************************)
(* EventSourceReconciler.                                                  *)
(***************************************************************************)
ReconcileGone == /\ pending /\ rpc = "idle" /\ eventSource = "absent"
                 /\ pending' = FALSE
                 /\ UNCHANGED <<storeVars, eventSource, rpc, known, writerVars, clusterVars,
                                mgmtVars, bounds>>

\* Mutated form of reconcileNormal: only the first reconciliation queues.
reconcileNormalOnce == /\ pending /\ rpc = "idle" /\ eventSource \in {"new", "live"}
                       /\ pending' = FALSE
                       /\ eventSource' = "live"
                       /\ known' = TRUE
                       /\ queued' = (queued \/ ~known)
                       /\ UNCHANGED <<storeVars, rpc, pc, found, inbox, msg, acked, clusterVars,
                                      mgmtVars, bounds>>

\* addFinalizer, updateMaps, EvaluateEventSource, RegisterNatsEventSource.
reconcileNormal == /\ pending /\ rpc = "idle" /\ eventSource \in {"new", "live"}
                   /\ pending' = FALSE
                   /\ eventSource' = "live"
                   /\ known' = TRUE
                   /\ queued' = TRUE
                   /\ UNCHANGED <<storeVars, rpc, pc, found, inbox, msg, acked, clusterVars,
                                  mgmtVars, bounds>>

\* cleanMaps, EvaluateEventSource, UnregisterNatsEventSource.
reconcileDelete == /\ pending /\ rpc = "idle" /\ eventSource = "deleting"
                   /\ pending' = FALSE
                   /\ known' = FALSE
                   /\ queued' = TRUE
                   /\ rpc' = "check"
                   /\ UNCHANGED <<storeVars, eventSource, pc, found, inbox, msg, acked,
                                  clusterVars, mgmtVars, bounds>>

Removable(r) == ~r.exists \/ (r.deleting /\ r.phase = "processed")

\* canRemoveFinalizer; when it says no, the key is queued again after 20 s.
canRemoveFinalizer == /\ rpc = "check"
                      /\ rpc' = IF Removable(cache) THEN "close" ELSE "idle"
                      /\ pending' = (pending \/ ~Removable(cache))
                      /\ UNCHANGED <<storeVars, eventSource, known, writerVars, clusterVars,
                                     mgmtVars, bounds>>

\* The deferred scope.Close patches the EventSource without its finalizer.
Close == /\ rpc = "close"
         /\ rpc' = "idle"
         /\ eventSource' = "absent"
         /\ UNCHANGED <<storeVars, pending, known, writerVars, clusterVars, mgmtVars, bounds>>

(***************************************************************************)
(* How a writer's work ends.                                               *)
(***************************************************************************)
Goto(w, l) == pc' = [pc EXCEPT ![w] = l] /\ UNCHANGED <<queued, found, inbox, msg, acked>>

\* No error: the loop goes on; a JetStream message is acknowledged.
Return(w, recorded) ==
    /\ pc' = [pc EXCEPT ![w] = "idle"]
    /\ IF w \in Subs
       THEN /\ inbox' = [inbox EXCEPT ![w] = @ \ msg[w]]
            /\ msg' = [msg EXCEPT ![w] = None]
            /\ acked' = IF w = "jetstream" /\ recorded THEN acked \cup msg[w] ELSE acked
       ELSE UNCHANGED <<inbox, msg, acked>>
    /\ UNCHANGED <<queued, found>>

\* Mutated form of Fail: the callback keeps its message.
FailKeepsMessage(w) == /\ pc' = [pc EXCEPT ![w] = "idle"]
                       /\ queued' = (queued \/ w = "evaluator")
                       /\ UNCHANGED <<found, inbox, msg, acked>>

\* An error: the loop requeues the evaluation; a JetStream message is naked
\* and comes again; a NATS message is lost.
Fail(w) == /\ pc' = [pc EXCEPT ![w] = "idle"]
           /\ IF w \in Subs
              THEN msg' = [msg EXCEPT ![w] = None] /\ UNCHANGED queued
              ELSE queued' = TRUE /\ UNCHANGED msg
           /\ UNCHANGED <<found, inbox, acked>>

\* retry.RetryOnConflict: again from the Get, until the retries are used up.
Conflict(w) == /\ report.exists /\ ~fresh[w]
               /\ Goto(w, "get") \/ Fail(w)
               /\ Discard(w)

\* The report is not there (any more): an error that is not retried.
NotFound(w) == ~report.exists /\ Fail(w) /\ Discard(w)

WriterUnchanged == UNCHANGED <<policyVars, clusterVars, mgmtVars, bounds>>

(***************************************************************************)
(* evaluateEventSourceInstance and the messaging callbacks.                *)
(***************************************************************************)
\* The EventSource is not found, or has a deletion timestamp.
Going == eventSource \in {"absent", "deleting"}

\* What the resource selectors, scripts and aggregated selection give now;
\* an empty list, never nil, when nothing matches.
getEventMatchingResources == matching

evaluateEventSourceInstance ==
    /\ pc["evaluator"] = "idle" /\ queued
    /\ queued' = FALSE
    /\ pc' = [pc EXCEPT !["evaluator"] = IF Going THEN "clean" ELSE "get"]
    /\ found' = IF Going THEN found ELSE getEventMatchingResources
    /\ UNCHANGED <<storeVars, inbox, msg, acked>>
    /\ WriterUnchanged

\* A callback gets a message and copies the registrations.  NATS forgets the
\* message once it is delivered.
evaluateCloudEvent(s, e) ==
    /\ pc[s] = "idle" /\ e \in inbox[s]
    /\ msg' = [msg EXCEPT ![s] = {e}]
    /\ inbox' = IF s = "nats" THEN [inbox EXCEPT ![s] = @ \ {e}] ELSE inbox
    /\ pc' = [pc EXCEPT ![s] = IF known THEN "process" ELSE "ignore"]
    /\ UNCHANGED <<storeVars, queued, found, acked>>
    /\ WriterUnchanged

isCloudEventAMatch(es) == es \subseteq MatchingEvents

\* processCloudEvent reads the EventSource.
processCloudEvent(s) ==
    /\ pc[s] = "process"
    /\ Goto(s, IF Going THEN "clean"
               ELSE IF isCloudEventAMatch(msg[s]) THEN "get" ELSE "ignore")
    /\ UNCHANGED storeVars
    /\ WriterUnchanged

\* No EventSource is registered, or the event matches none.
IgnoreCloudEvent(s) == /\ pc[s] = "ignore"
                       /\ Return(s, FALSE)
                       /\ UNCHANGED storeVars
                       /\ WriterUnchanged

(***************************************************************************)
(* createEventReport, by any of the writers.                               *)
(***************************************************************************)
createEventReport(w) == /\ pc[w] = "get"
                        /\ GetCached(w)
                        /\ Goto(w, IF cache.exists THEN "update" ELSE "create")
                        /\ WriterUnchanged

getEventReport(w) == IF w \in Subs THEN [matching |-> NoMatch, events |-> msg[w]]
                                   ELSE [matching |-> found, events |-> {}]

CreateReport(w) == /\ pc[w] = "create"
                   /\ \/ Create(w, getEventReport(w)) /\ Goto(w, "status")
                      \/ ~CanCreate /\ Fail(w) /\ Discard(w)
                   /\ WriterUnchanged

\* Mutated form of NewSpec: an update writes what a creation would.
NewSpecFromScratch(w) == getEventReport(w)

\* updateEventReport changes the part of the Spec the writer is about.
NewSpec(w) == IF w \in Subs THEN [copy[w].spec EXCEPT !.events = @ \cup msg[w]]
                            ELSE [copy[w].spec EXCEPT !.matching = found]

updateEventReport(w) == /\ pc[w] = "update"
                        /\ \/ Update(w, NewSpec(w)) /\ Goto(w, "status")
                           \/ Conflict(w)
                           \/ NotFound(w)
                        /\ WriterUnchanged

AfterStatus(w) == IF sendReport THEN Goto(w, "send") ELSE Return(w, TRUE)

\* Mutated form of updateEventReportStatus: the phase is set on creation only.
updateEventReportStatusOnce(w) ==
    /\ pc[w] = "status"
    /\ \/ /\ report.phase # "none"
          /\ Discard(w)
          /\ AfterStatus(w)
       \/ /\ report.phase = "none"
          /\ StatusUpdate(w, "waitingForDelivery")
          /\ AfterStatus(w)
       \/ Conflict(w)
       \/ NotFound(w)
    /\ WriterUnchanged

updateEventReportStatus(w) ==
    /\ pc[w] = "status"
    /\ \/ StatusUpdate(w, "waitingForDelivery") /\ AfterStatus(w)
       \/ Conflict(w)
       \/ NotFound(w)
    /\ WriterUnchanged

(***************************************************************************)
(* sendEventReport.                                                        *)
(***************************************************************************)
sendEventReport(w) == /\ pc[w] = "send"
                      /\ GetCached(w)
                      /\ IF cache.exists THEN Goto(w, "deliver") ELSE Fail(w)
                      /\ WriterUnchanged

SendCreate(w) == /\ pc[w] = "deliver" /\ mgmt = NoSpec
                 /\ mgmt' = copy[w].spec
                 /\ Return(w, TRUE)
                 /\ Discard(w)
                 /\ UNCHANGED <<policyVars, clusterVars, sendReport, collecting, bounds>>

\* Of the Spec only the matching resources are copied to a report that exists.
SendUpdate(w) == /\ pc[w] = "deliver" /\ mgmt # NoSpec
                 /\ mgmt' = [mgmt EXCEPT !.matching = copy[w].spec.matching]
                 /\ Goto(w, "processed")
                 /\ UNCHANGED <<storeVars, policyVars, clusterVars, sendReport, collecting, bounds>>

SendProcessed(w) == /\ pc[w] = "processed"
                    /\ \/ StatusUpdate(w, "processed") /\ Return(w, TRUE)
                       \/ ~CanUpdate(w) /\ Fail(w) /\ Discard(w)
                    /\ WriterUnchanged

(***************************************************************************)
(* cleanEventReport.                                                       *)
(***************************************************************************)
cleanEventReport(w) == /\ pc[w] = "clean"
                       /\ IF cache.exists /\ ~cache.deleting
                          THEN GetCached(w) /\ Goto(w, "cleanStatus")
                          ELSE UNCHANGED storeVars /\ Return(w, FALSE)
                       /\ WriterUnchanged

CleanStatus(w) == /\ pc[w] = "cleanStatus"
                  /\ \/ StatusUpdate(w, "waitingForDelivery") /\ Goto(w, "cleanDelete")
                     \/ ~CanUpdate(w) /\ Fail(w) /\ Discard(w)
                  /\ WriterUnchanged

\* The report has no finalizer: Delete removes it, and what it recorded.
CleanDelete(w) == /\ pc[w] = "cleanDelete"
                  /\ \/ /\ Delete
                        /\ pc' = [pc EXCEPT ![w] = "idle"]
                        /\ inbox' = [s \in Subs |-> IF s = w THEN inbox[s] \ msg[s] ELSE inbox[s]]
                        /\ msg' = [s \in Subs |-> IF s = w THEN None ELSE msg[s]]
                        /\ acked' = {}
                        /\ UNCHANGED <<queued, found>>
                     \/ ~report.exists /\ Fail(w) /\ UNCHANGED storeVars
                  /\ WriterUnchanged

\* Any call can fail: API and network errors, Lua and CEL errors.
CallFails(w) == /\ pc[w] # "idle"
                /\ faults < MaxFaults
                /\ faults' = faults + 1
                /\ Fail(w)
                /\ Discard(w)
                /\ UNCHANGED <<policyVars, clusterVars, mgmtVars, changes, creations>>

Write(w) == \/ createEventReport(w) \/ CreateReport(w) \/ updateEventReport(w)
            \/ updateEventReportStatus(w)
            \/ sendEventReport(w) \/ SendCreate(w) \/ SendUpdate(w) \/ SendProcessed(w)
            \/ cleanEventReport(w) \/ CleanStatus(w) \/ CleanDelete(w)

(***************************************************************************)
(* The management cluster collects the reports of an agent that does not   *)
(* send them (code of other repositories).                                 *)
(***************************************************************************)
CollectRead == /\ ~sendReport /\ ~collecting
               /\ report.exists /\ report.phase = "waitingForDelivery"
               /\ GetLive("collector")
               /\ collecting' = TRUE
               /\ UNCHANGED <<policyVars, writerVars, clusterVars, sendReport, mgmt, bounds>>

CollectDeliver == /\ collecting
                  /\ collecting' = FALSE
                  /\ mgmt' = copy["collector"].spec
                  /\ \/ StatusUpdate("collector", "processed")
                     \/ ~CanUpdate("collector") /\ Discard("collector")
                  /\ UNCHANGED <<policyVars, writerVars, clusterVars, sendReport, bounds>>

(***************************************************************************)
(* The agent's process.                                                    *)
(***************************************************************************)
InformerCatchesUp == SyncCache
                     /\ UNCHANGED <<policyVars, writerVars, clusterVars, mgmtVars, bounds>>

\* A crash or restart.  JetStream delivers again what was not acknowledged.
Restart == /\ faults < MaxFaults
           /\ faults' = faults + 1
           /\ StoreRestart({"collector"})
           /\ pending' = (eventSource # "absent")
           /\ rpc' = "idle" /\ known' = FALSE /\ queued' = FALSE
           /\ pc' = [w \in Agents |-> "idle"] /\ found' = NoMatch
           /\ inbox' = [s \in Subs |-> IF s = "jetstream" THEN inbox[s] ELSE {}]
           /\ msg' = [s \in Subs |-> None]
           /\ UNCHANGED <<eventSource, acked, clusterVars, mgmtVars, changes, creations>>

Reconcile == \/ ReconcileGone \/ reconcileNormal \/ reconcileDelete \/ canRemoveFinalizer
             \/ Close

Evaluator == evaluateEventSourceInstance \/ Write("evaluator")
Callback(s) == \/ \E e \in Events : evaluateCloudEvent(s, e)
               \/ processCloudEvent(s) \/ IgnoreCloudEvent(s) \/ Write(s)

Next == \/ CreateEventSource \/ DeleteEventSource \/ react \/ Resync
        \/ \E s \in Subs, e \in Events : Publish(s, e)
        \/ Reconcile
        \/ Evaluator
        \/ \E s \in Subs : Callback(s)
        \/ \E w \in Agents : CallFails(w)
        \/ CollectRead \/ CollectDeliver
        \/ InformerCatchesUp \/ Restart

\* Goroutines are scheduled, informers catch up and resync, and the management
\* cluster collects.
Fairness == /\ WF_vars(Resync) /\ WF_vars(Reconcile) /\ WF_vars(Evaluator)
            /\ \A s \in Subs : WF_vars(Callback(s))
            /\ WF_vars(InformerCatchesUp)
            /\ WF_vars(CollectRead) /\ WF_vars(CollectDeliver)

Spec == Init /\ [][Next]_vars /\ Fairness

(***************************************************************************)
(* Properties.                                                             *)
(***************************************************************************)
TypeOK == /\ StoreTypeOK
          /\ eventSource \in {"absent", "new", "live", "deleting"}
          /\ rpc \in {"idle", "check", "close"}
          /\ pending \in BOOLEAN /\ known \in BOOLEAN /\ queued \in BOOLEAN
          /\ collecting \in BOOLEAN /\ sendReport \in Modes
          /\ pc \in [Agents -> {"idle", "process", "ignore", "get", "create", "update", "status",
                                "send", "deliver", "processed", "clean", "cleanStatus",
                                "cleanDelete"}]
          /\ found \in Matches /\ matching \in Matches
          /\ inbox \in [Subs -> SUBSET Events]
          /\ msg \in [Subs -> SUBSET Events]
          /\ \A s \in Subs : msg[s] = None <=> pc[s] = "idle"
          /\ acked \subseteq Events /\ published \subseteq Events
          /\ mgmt \in Specs \cup {NoSpec}
          /\ changes \in Nat /\ creations \in Nat /\ faults \in Nat

\* An event that was recorded and acknowledged, so that it never comes again,
\* stays in the report as long as the EventSource is in use: no other writer's
\* update, retry, stale read or restart takes it out.  An agent that sends
\* reports acknowledges when the report is sent, after it was written: when the
\* EventSource is deployed again in between, the report can be gone by then.
AckedEventRecorded ==
    eventSource = "live" /\ acked # {} /\ (sendReport => creations = 1)
        => report.exists /\ acked \subseteq report.spec.events

\* A recorded event reaches the management cluster that collects reports, or
\* the EventSource goes: also when the writer stopped between its two writes,
\* and without the collection under way taking the event for processed.  Once
\* the EventSource is deployed again, the clean-up its predecessor left under
\* way can take the report with the event (eventsource_controller.go:259).
EventDelivered ==
    \A e \in Events :
        (~sendReport /\ creations = 1 /\ report.exists /\ e \in report.spec.events)
            ~> ((mgmt # NoSpec /\ e \in mgmt.events) \/ eventSource # "live")

\* When an EventSource stays and the agent sends its reports, the management
\* cluster ends up knowing the resources that match, although every callback
\* sends its own, possibly older, copy of the report as well.
MatchingDelivered ==
    <>[](eventSource = "live") => <>[](mgmt # NoSpec /\ mgmt.matching = matching)
=============================================================================
