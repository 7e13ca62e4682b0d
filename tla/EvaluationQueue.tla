-------------------------- MODULE EvaluationQueue --------------------------
(***************************************************************************)
(* The job queues of the evaluation manager and the goroutines that drain  *)
(* them (pkg/evaluation/manager.go and the evaluate* loops).               *)
(*                                                                         *)
(* Reconcilers, the node controller, watcher callbacks and predicates call *)
(* EvaluateClassifier, EvaluateHealthCheck, EvaluateEventSource,           *)
(* EvaluateReloader, EvaluateConfigMap and EvaluateSecret; each inserts a  *)
(* key in a map under m.mu.  One goroutine per kind sleeps, copies and     *)
(* resets its map under m.mu, evaluates the copied keys one by one without *)
(* the lock, and requeues the ones that failed.  A WaitGroup counts the    *)
(* loops that have not finished a first pass; the agent's version is       *)
(* stored when it reaches zero.                                            *)
(*                                                                         *)
(* A key is a sequence of its colon-separated parts: <<name>> for the      *)
(* three plain kinds, <<kind, name>> for the reloader queue.               *)
(*                                                                         *)
(* Init is the state InitializeManager leaves: the loops are launched and  *)
(* every wg.Add(1) has been executed.  The code runs "go loop; wg.Add(1)"  *)
(* and relies on the loop's first sleep (3 s) being longer than the few    *)
(* instructions up to the Add; so does this module.                        *)
(***************************************************************************)
EXTENDS Integers, FiniteSets, Sequences

CONSTANTS Kinds,       \* the loops considered, a subset of AllKinds
          Policies,    \* names of Classifiers, HealthChecks, EventSources, Reloaders
          ConfigMaps,  \* namespace/name of ConfigMaps mounted by workloads
          Secrets      \* namespace/name of Secrets mounted by workloads

AllKinds == {"classifier", "healthCheck", "eventSource", "reloader"}

ASSUME KindsAssumption == Kinds \subseteq AllKinds /\ IsFiniteSet(Kinds)

VARIABLES queue,      \* queue[k]: the job queue map of kind k (its keys)
          pc,         \* pc[k]: where the loop of kind k is
          jobs,       \* jobs[k]: keys of jobQueueCopy not looked at yet
          cur,        \* cur[k]: the key under evaluation, {} when none
          failed,     \* failed[k]: failedEvaluations not requeued yet
          onceDone,   \* onceDone[k]: the loop's sync.Once has fired
          wg,         \* the WaitGroup counter
          version,    \* what storeVersionForCompatibilityChecks is doing
          cancelled   \* the context has been cancelled

loopVars == <<jobs, cur, failed>>
startVars == <<onceDone, wg, version>>
vars == <<queue, pc, jobs, cur, failed, onceDone, wg, version, cancelled>>

(***************************************************************************)
(* Keys.                                                                   *)
(***************************************************************************)
ReloaderKey(name) == <<"Reloader", name>>
ConfigMapKey(name) == <<"ConfigMap", name>>
SecretKey(name) == <<"Secret", name>>

\* The keys callers ask for.
RequestKeys(k) ==
    IF k = "reloader"
    THEN {ReloaderKey(n) : n \in Policies} \cup {ConfigMapKey(n) : n \in ConfigMaps}
            \cup {SecretKey(n) : n \in Secrets}
    ELSE {<<n>> : n \in Policies}

\* Mutated form of WellFormed: the length of the split is not checked.
WellFormedUnchecked(k, key) == TRUE

\* The number of parts a key of the reloader queue must have (partNumber).
partNumber == 2
WellFormed(k, key) == k = "reloader" => Len(key) = partNumber

\* The key under which the loop requeues a failed evaluation.  The plain
\* loops hand the key back unchanged; evaluateReloaders calls EvaluateReloader
\* with the whole key, and EvaluateReloader prefixes "Reloader:" once more.
Requeued(k, key) == IF k = "reloader" THEN <<"Reloader">> \o key ELSE key

Keys(k) == RequestKeys(k) \cup {Requeued(k, key) : key \in RequestKeys(k)}

(***************************************************************************)
(* The initial state and the requests.                                     *)
(***************************************************************************)
Init == /\ queue = [k \in Kinds |-> {}]
        /\ pc = [k \in Kinds |-> "top"]
        /\ jobs = [k \in Kinds |-> {}]
        /\ cur = [k \in Kinds |-> {}]
        /\ failed = [k \in Kinds |-> {}]
        /\ onceDone = [k \in Kinds |-> FALSE]
        /\ wg = Cardinality(Kinds)
        /\ version = "waiting"
        /\ cancelled = FALSE

\* The body every Evaluate* method shares: an insert in the map under m.mu.
Enqueue(k, key) == /\ queue' = [queue EXCEPT ![k] = @ \cup {key}]
                   /\ UNCHANGED <<pc, loopVars, startVars, cancelled>>

EvaluateClassifier(name) == "classifier" \in Kinds /\ Enqueue("classifier", <<name>>)
EvaluateHealthCheck(name) == "healthCheck" \in Kinds /\ Enqueue("healthCheck", <<name>>)
EvaluateEventSource(name) == "eventSource" \in Kinds /\ Enqueue("eventSource", <<name>>)
EvaluateReloader(name) == "reloader" \in Kinds /\ Enqueue("reloader", ReloaderKey(name))
EvaluateConfigMap(name) == "reloader" \in Kinds /\ Enqueue("reloader", ConfigMapKey(name))
EvaluateSecret(name) == "reloader" \in Kinds /\ Enqueue("reloader", SecretKey(name))

Request == \/ \E n \in Policies : \/ EvaluateClassifier(n)
                                  \/ EvaluateHealthCheck(n)
                                  \/ EvaluateEventSource(n)
                                  \/ EvaluateReloader(n)
           \/ \E n \in ConfigMaps : EvaluateConfigMap(n)
           \/ \E n \in Secrets : EvaluateSecret(n)

(***************************************************************************)
(* The loop of kind k.                                                     *)
(***************************************************************************)
\* Mutated form of ExitLoop: the loop drains its queue before it stops.
ExitLoopWhenIdle(k) == /\ pc[k] = "top"
                       /\ cancelled
                       /\ queue[k] = {}
                       /\ pc' = [pc EXCEPT ![k] = "exited"]
                       /\ UNCHANGED <<queue, loopVars, startVars, cancelled>>

\* The select at the top of the loop: a cancelled context ends the goroutine,
\* whatever is still queued.
ExitLoop(k) == /\ pc[k] = "top"
               /\ cancelled
               /\ pc' = [pc EXCEPT ![k] = "exited"]
               /\ UNCHANGED <<queue, loopVars, startVars, cancelled>>

Sleep(k) == /\ pc[k] = "top"
            /\ ~cancelled
            /\ pc' = [pc EXCEPT ![k] = "asleep"]
            /\ UNCHANGED <<queue, loopVars, startVars, cancelled>>

\* Copy and reset the queue; one critical section of m.mu.
Drain(k) == /\ pc[k] = "asleep"
            /\ jobs' = [jobs EXCEPT ![k] = queue[k]]
            /\ queue' = [queue EXCEPT ![k] = {}]
            /\ pc' = [pc EXCEPT ![k] = "evaluating"]
            /\ UNCHANGED <<cur, failed, startVars, cancelled>>

\* Mutated form of BeginEvaluation: the key stays in the copy.
BeginEvaluationKept(k, key) == /\ pc[k] = "evaluating"
                               /\ cur[k] = {}
                               /\ key \in jobs[k]
                               /\ WellFormed(k, key)
                               /\ cur' = [cur EXCEPT ![k] = {key}]
                               /\ UNCHANGED <<queue, pc, jobs, failed, startVars, cancelled>>

\* The next key of the copy (a Go map's order: any) starts its evaluation.
BeginEvaluation(k, key) == /\ pc[k] = "evaluating"
                           /\ cur[k] = {}
                           /\ key \in jobs[k]
                           /\ WellFormed(k, key)
                           /\ cur' = [cur EXCEPT ![k] = {key}]
                           /\ jobs' = [jobs EXCEPT ![k] = @ \ {key}]
                           /\ UNCHANGED <<queue, pc, failed, startVars, cancelled>>

\* A key that does not split in partNumber parts is logged and dropped.
SkipMalformed(k, key) == /\ pc[k] = "evaluating"
                         /\ cur[k] = {}
                         /\ key \in jobs[k]
                         /\ ~WellFormed(k, key)
                         /\ jobs' = [jobs EXCEPT ![k] = @ \ {key}]
                         /\ UNCHANGED <<queue, pc, cur, failed, startVars, cancelled>>

EvaluationSucceeds(k) == /\ cur[k] # {}
                         /\ cur' = [cur EXCEPT ![k] = {}]
                         /\ UNCHANGED <<queue, pc, jobs, failed, startVars, cancelled>>

\* Mutated form of EvaluationFails: an error ends the goroutine.
EvaluationFailsReturns(k) == /\ cur[k] # {}
                             /\ cur' = [cur EXCEPT ![k] = {}]
                             /\ pc' = [pc EXCEPT ![k] = "exited"]
                             /\ UNCHANGED <<queue, jobs, failed, startVars, cancelled>>

EvaluationFails(k) == /\ cur[k] # {}
                      /\ failed' = [failed EXCEPT ![k] = @ \cup cur[k]]
                      /\ cur' = [cur EXCEPT ![k] = {}]
                      /\ UNCHANGED <<queue, pc, jobs, startVars, cancelled>>

PassOver(k) == pc[k] = "evaluating" /\ jobs[k] = {} /\ cur[k] = {}

\* Requeue one failed evaluation (each call takes and releases m.mu).
Requeue(k, key) == /\ PassOver(k)
                   /\ key \in failed[k]
                   /\ failed' = [failed EXCEPT ![k] = @ \ {key}]
                   /\ queue' = [queue EXCEPT ![k] = @ \cup {Requeued(k, key)}]
                   /\ UNCHANGED <<pc, jobs, cur, startVars, cancelled>>

\* Mutated form of EndPass: the queue is reset after the pass.
EndPassResets(k) == /\ PassOver(k)
                    /\ failed[k] = {}
                    /\ pc' = [pc EXCEPT ![k] = "top"]
                    /\ queue' = [queue EXCEPT ![k] = {}]
                    /\ onceDone' = [onceDone EXCEPT ![k] = TRUE]
                    /\ wg' = IF onceDone[k] THEN wg ELSE wg - 1
                    /\ UNCHANGED <<loopVars, version, cancelled>>

\* Mutated form of EndPass: wg.Done without the sync.Once.
EndPassWithoutOnce(k) == /\ PassOver(k)
                         /\ failed[k] = {}
                         /\ pc' = [pc EXCEPT ![k] = "top"]
                         /\ onceDone' = [onceDone EXCEPT ![k] = TRUE]
                         /\ wg' = wg - 1
                         /\ UNCHANGED <<queue, loopVars, version, cancelled>>

\* Mutated form of EndPass: Done only after a pass that leaves nothing queued.
EndPassDoneIfIdle(k) == /\ PassOver(k)
                        /\ failed[k] = {}
                        /\ pc' = [pc EXCEPT ![k] = "top"]
                        /\ onceDone' = [onceDone EXCEPT ![k] = @ \/ queue[k] = {}]
                        /\ wg' = IF onceDone[k] \/ queue[k] # {} THEN wg ELSE wg - 1
                        /\ UNCHANGED <<queue, loopVars, version, cancelled>>

\* once.Do(wg.Done) and back to the top.
EndPass(k) == /\ PassOver(k)
              /\ failed[k] = {}
              /\ pc' = [pc EXCEPT ![k] = "top"]
              /\ onceDone' = [onceDone EXCEPT ![k] = TRUE]
              /\ wg' = IF onceDone[k] THEN wg ELSE wg - 1
              /\ UNCHANGED <<queue, loopVars, version, cancelled>>

Loop(k) == \/ ExitLoop(k)
           \/ Sleep(k)
           \/ Drain(k)
           \/ \E key \in jobs[k] : BeginEvaluation(k, key) \/ SkipMalformed(k, key)
           \/ EvaluationSucceeds(k)
           \/ EvaluationFails(k)
           \/ \E key \in failed[k] : Requeue(k, key)
           \/ EndPass(k)

(***************************************************************************)
(* The goroutine that stores the version, and the process's context.       *)
(***************************************************************************)
\* wg.Wait() returns.
WaitReturns == /\ version = "waiting"
               /\ wg = 0
               /\ version' = "storing"
               /\ UNCHANGED <<queue, pc, loopVars, onceDone, wg, cancelled>>

\* StoreSveltosAgentVersion succeeds; a failure changes nothing and is
\* retried for ever, and every call with a cancelled context fails.
StoreVersion == /\ version = "storing"
                /\ ~cancelled
                /\ version' = "stored"
                /\ UNCHANGED <<queue, pc, loopVars, onceDone, wg, cancelled>>

CancelContext == /\ ~cancelled
                 /\ cancelled' = TRUE
                 /\ UNCHANGED <<queue, pc, loopVars, startVars>>

Next == \/ Request
        \/ \E k \in Kinds : Loop(k)
        \/ WaitReturns
        \/ StoreVersion
        \/ CancelContext

\* Every goroutine is scheduled and every evaluation returns; requests, the
\* outcome of an evaluation and the cancellation are the environment's.
Fairness == /\ \A k \in Kinds : WF_vars(Loop(k))
            /\ WF_vars(WaitReturns)

Spec == Init /\ [][Next]_vars /\ Fairness

(***************************************************************************)
(* Properties.                                                             *)
(***************************************************************************)
AllKeys == UNION {Keys(k) : k \in Kinds}
PlainKinds == Kinds \ {"reloader"}

\* Every variable has its type; a key only ever sits in the queue of its
\* kind, and what is evaluated is a key some caller asked for.
TypeOK == /\ queue \in [Kinds -> SUBSET AllKeys]
          /\ jobs \in [Kinds -> SUBSET AllKeys]
          /\ failed \in [Kinds -> SUBSET AllKeys]
          /\ cur \in [Kinds -> SUBSET AllKeys]
          /\ \A k \in Kinds : /\ queue[k] \subseteq Keys(k)
                              /\ jobs[k] \subseteq Keys(k)
                              /\ failed[k] \subseteq RequestKeys(k)
                              /\ cur[k] = {} \/ \E key \in RequestKeys(k) : cur[k] = {key}
          /\ pc \in [Kinds -> {"top", "asleep", "evaluating", "exited"}]
          /\ onceDone \in [Kinds -> BOOLEAN]
          /\ wg \in Int
          /\ version \in {"waiting", "storing", "stored"}
          /\ cancelled \in BOOLEAN

\* A pass owns its batch: outside "evaluating" nothing is left of it (so the
\* next Drain overwrites nothing), and within it a key is in one stage only:
\* still to be looked at, under evaluation, or failed.
BatchOwned == \A k \in Kinds :
    /\ pc[k] # "evaluating" => jobs[k] = {} /\ cur[k] = {} /\ failed[k] = {}
    /\ jobs[k] \cap failed[k] = {}
    /\ cur[k] \cap (jobs[k] \cup failed[k]) = {}

\* The WaitGroup counts exactly the loops that still owe their Done, so it
\* never goes negative (which would panic) whatever the interleaving.
WaitGroupCounts == wg = Cardinality({k \in Kinds : ~onceDone[k]})

\* The version other components use for compatibility checks is written only
\* after each of the loops has finished a pass.
VersionAfterFirstPass == version # "waiting" => \A k \in Kinds : onceDone[k]

\* The queue, the batch and the failures of one kind, as owed evaluations.
Owed(k) == [key \in RequestKeys(k) |->
              (IF key \in queue[k] THEN 1 ELSE 0)
                + (IF key \in jobs[k] \cup failed[k] THEN 1 ELSE 0)]

CQ(k) == INSTANCE CoalescingQueue
             WITH Items <- RequestKeys(k), owed <- Owed(k), running <- cur[k]

PromiseInit == \A k \in PlainKinds : CQ(k)!Init
PromiseStep == \A k \in PlainKinds : [CQ(k)!Next]_(CQ(k)!vars)

\* The Classifier, HealthCheck and EventSource queues keep the interface's
\* promise: no request is lost, none is evaluated unasked, failures are owed.
\* (This is \A k \in PlainKinds : CQ(k)!Spec, in the form TLC evaluates.)
QueuesKeepPromise == PromiseInit /\ [][PromiseStep]_vars

\* Once queued, a well-formed key gets an evaluation, however the other keys'
\* evaluations fail, unless the agent is shut down.
RequestServed == \A k \in Kinds : \A key \in RequestKeys(k) :
                    key \in queue[k] ~> (cur[k] = {key} \/ cancelled)

\* The version goroutine's wait ends: every loop completes a first pass even
\* when evaluations keep failing, unless the agent is shut down first.
FirstPassCompletes == <>(version # "waiting" \/ cancelled)

\* Cancelling the context stops every loop, with failures and requests going
\* on.
LoopsExit == \A k \in Kinds : cancelled ~> (pc[k] = "exited")
============================================================================
