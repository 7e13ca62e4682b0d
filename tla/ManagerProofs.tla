---------------------------- MODULE ManagerProofs ----------------------------
(***************************************************************************)
(* Proofs about the evaluation manager: its queues (EvaluationQueue) and   *)
(* the process it lives in (AgentProcess), which share neither constants   *)
(* nor variables.                                                          *)
(*                                                                         *)
(* The queues, for every set of loops, policies and mounted resources: the *)
(* inductive invariant is the conjunction of TypeOK, BatchOwned,           *)
(* WaitGroupCounts and VersionAfterFirstPass; from it every step of a      *)
(* plain loop is a step of CoalescingQueue.                                *)
(*                                                                         *)
(* The process, for any kinds of policies, GVKs, clusters and bounds:      *)
(* ChangeNoticed is kept by every step but the notification itself, which  *)
(* needs PoliciesMapped: the running reconciler has a policy under what it *)
(* selects, or is about to look at it again.  What can kill a live         *)
(* generation rests on which goroutines there are (StartersBegun) and on   *)
(* the manager being that of the generation main runs (ProcessTypeOK).     *)
(***************************************************************************)
EXTENDS EvaluationQueue, AgentProcess, FiniteSetTheorems, TLAPS

(***************************************************************************)
(* The queues.                                                             *)
(***************************************************************************)
\* A failed key is requeued under a key of its queue.
LEMMA RequeuedInKeys ==
    ASSUME NEW k, NEW key \in RequestKeys(k)
    PROVE  Requeued(k, key) \in Keys(k)
  BY DEF Keys

\* The keys that are evaluated (and not dropped as malformed) are keys some
\* caller asked for: a requeued reloader key has three parts.
LEMMA WellFormedRequested ==
    ASSUME NEW k, NEW key \in Keys(k), WellFormed(k, key)
    PROVE  key \in RequestKeys(k)
<1>1. CASE k = "reloader"
  <2> SUFFICES ASSUME key \notin RequestKeys(k) PROVE FALSE
    OBVIOUS
  <2>1. PICK r \in RequestKeys(k) : key = Requeued(k, r)
    BY DEF Keys
  <2>2. \E a, b : r = <<a, b>>
    BY <1>1, <2>1 DEF RequestKeys, ReloaderKey, ConfigMapKey, SecretKey
  <2>3. PICK a, b : r = <<a, b>>
    BY <2>2
  <2>4. key = <<"Reloader">> \o <<a, b>>
    BY <1>1, <2>1, <2>3 DEF Requeued
  <2>5. Len(key) = 3
    BY <2>4
  <2>6. QED
    BY <1>1, <2>5 DEF WellFormed, partNumber
<1>2. CASE k # "reloader"
  BY <1>2 DEF Keys, Requeued
<1>3. QED
  BY <1>1, <1>2

\* What is requested of a loop is among its keys, and its keys among all keys.
LEMMA KeysInAllKeys ==
    ASSUME NEW k \in Kinds
    PROVE  RequestKeys(k) \subseteq Keys(k) /\ Keys(k) \subseteq AllKeys
  BY DEF Keys, AllKeys

\* What each caller of the manager asks for is a key of its queue.
LEMMA RequestIsEnqueue ==
    ASSUME Request
    PROVE  \E k \in Kinds : \E key \in RequestKeys(k) : Enqueue(k, key)
<1>1. ASSUME NEW n \in Policies, EvaluateClassifier(n)
      PROVE  \E k \in Kinds : \E key \in RequestKeys(k) : Enqueue(k, key)
  <2>1. <<n>> \in RequestKeys("classifier")
    BY DEF RequestKeys
  <2>2. QED
    BY <1>1, <2>1 DEF EvaluateClassifier
<1>2. ASSUME NEW n \in Policies, EvaluateHealthCheck(n)
      PROVE  \E k \in Kinds : \E key \in RequestKeys(k) : Enqueue(k, key)
  <2>1. <<n>> \in RequestKeys("healthCheck")
    BY DEF RequestKeys
  <2>2. QED
    BY <1>2, <2>1 DEF EvaluateHealthCheck
<1>3. ASSUME NEW n \in Policies, EvaluateEventSource(n)
      PROVE  \E k \in Kinds : \E key \in RequestKeys(k) : Enqueue(k, key)
  <2>1. <<n>> \in RequestKeys("eventSource")
    BY DEF RequestKeys
  <2>2. QED
    BY <1>3, <2>1 DEF EvaluateEventSource
<1>4. ASSUME NEW n \in Policies, EvaluateReloader(n)
      PROVE  \E k \in Kinds : \E key \in RequestKeys(k) : Enqueue(k, key)
  <2>1. ReloaderKey(n) \in RequestKeys("reloader")
    BY DEF RequestKeys
  <2>2. QED
    BY <1>4, <2>1 DEF EvaluateReloader
<1>5. ASSUME NEW n \in ConfigMaps, EvaluateConfigMap(n)
      PROVE  \E k \in Kinds : \E key \in RequestKeys(k) : Enqueue(k, key)
  <2>1. ConfigMapKey(n) \in RequestKeys("reloader")
    BY DEF RequestKeys
  <2>2. QED
    BY <1>5, <2>1 DEF EvaluateConfigMap
<1>6. ASSUME NEW n \in Secrets, EvaluateSecret(n)
      PROVE  \E k \in Kinds : \E key \in RequestKeys(k) : Enqueue(k, key)
  <2>1. SecretKey(n) \in RequestKeys("reloader")
    BY DEF RequestKeys
  <2>2. QED
    BY <1>6, <2>1 DEF EvaluateSecret
<1>7. QED
  BY <1>1, <1>2, <1>3, <1>4, <1>5, <1>6 DEF Request

(***************************************************************************)
(* Types and batches.                                                      *)
(***************************************************************************)
BatchInv == TypeOK /\ BatchOwned

\* A request only adds a key of kind k to queue[k].
LEMMA EnqueueKeepsBatch ==
    ASSUME NEW k \in Kinds, NEW key \in RequestKeys(k), BatchInv, Enqueue(k, key)
    PROVE  BatchInv'
<1>1. key \in Keys(k) /\ key \in AllKeys
  BY KeysInAllKeys
<1>2. TypeOK'
  BY <1>1 DEF BatchInv, TypeOK, Enqueue, loopVars, startVars
<1>3. BatchOwned'
  BY DEF BatchInv, BatchOwned, Enqueue, loopVars, startVars
<1>4. QED
  BY <1>2, <1>3 DEF BatchInv

\* Every step of a loop keeps its keys in one stage of the pass.
LEMMA LoopKeepsBatch ==
    ASSUME NEW k \in Kinds, BatchInv, Loop(k)
    PROVE  BatchInv'
<1> USE DEF BatchInv
<1>1. CASE ExitLoop(k)
  BY <1>1 DEF TypeOK, BatchOwned, ExitLoop, loopVars, startVars
<1>2. CASE Sleep(k)
  BY <1>2 DEF TypeOK, BatchOwned, Sleep, loopVars, startVars
<1>3. CASE Drain(k)
  BY <1>3 DEF TypeOK, BatchOwned, Drain, startVars
<1>4. ASSUME NEW key \in jobs[k], BeginEvaluation(k, key)
      PROVE  BatchInv'
  <2>1. key \in RequestKeys(k) /\ key \in AllKeys
    BY <1>4, WellFormedRequested, KeysInAllKeys DEF TypeOK, BeginEvaluation
  <2>2. TypeOK'
    BY <1>4, <2>1 DEF TypeOK, BeginEvaluation, startVars
  <2>3. BatchOwned'
    BY <1>4, <2>1 DEF TypeOK, BatchOwned, BeginEvaluation, startVars
  <2>4. QED
    BY <2>2, <2>3
<1>5. ASSUME NEW key \in jobs[k], SkipMalformed(k, key)
      PROVE  BatchInv'
  BY <1>5 DEF TypeOK, BatchOwned, SkipMalformed, startVars
<1>6. CASE EvaluationSucceeds(k)
  BY <1>6 DEF TypeOK, BatchOwned, EvaluationSucceeds, startVars
<1>7. CASE EvaluationFails(k)
  <2>1. PICK key \in RequestKeys(k) : cur[k] = {key}
    BY <1>7 DEF TypeOK, EvaluationFails
  <2>2. pc[k] = "evaluating"
    BY <1>7 DEF BatchOwned, EvaluationFails
  <2>3. TypeOK'
    BY <1>7, <2>1, KeysInAllKeys DEF TypeOK, EvaluationFails, startVars
  <2>4. BatchOwned'
    BY <1>7, <2>1, <2>2 DEF TypeOK, BatchOwned, EvaluationFails, startVars
  <2>5. QED
    BY <2>3, <2>4
<1>8. ASSUME NEW key \in failed[k], Requeue(k, key)
      PROVE  BatchInv'
  <2>1. Requeued(k, key) \in Keys(k) /\ Requeued(k, key) \in AllKeys
    BY <1>8, RequeuedInKeys, KeysInAllKeys DEF TypeOK
  <2>2. TypeOK'
    BY <1>8, <2>1 DEF TypeOK, Requeue, startVars
  <2>3. BatchOwned'
    BY <1>8 DEF TypeOK, BatchOwned, Requeue, PassOver, startVars
  <2>4. QED
    BY <2>2, <2>3
<1>9. CASE EndPass(k)
  BY <1>9 DEF TypeOK, BatchOwned, EndPass, PassOver, loopVars
<1>10. QED
  BY <1>1, <1>2, <1>3, <1>4, <1>5, <1>6, <1>7, <1>8, <1>9 DEF Loop

\* Every step of the system does.
LEMMA NextKeepsBatch ==
    ASSUME BatchInv, [Next]_vars
    PROVE  BatchInv'
<1>1. CASE Request
  BY <1>1, RequestIsEnqueue, EnqueueKeepsBatch
<1>2. ASSUME NEW k \in Kinds, Loop(k)
      PROVE  BatchInv'
  BY <1>2, LoopKeepsBatch
<1>3. CASE WaitReturns
  BY <1>3 DEF BatchInv, TypeOK, BatchOwned, WaitReturns, loopVars
<1>4. CASE StoreVersion
  BY <1>4 DEF BatchInv, TypeOK, BatchOwned, StoreVersion, loopVars
<1>5. CASE CancelContext
  BY <1>5 DEF BatchInv, TypeOK, BatchOwned, CancelContext, loopVars, startVars
<1>6. CASE UNCHANGED vars
  BY <1>6 DEF BatchInv, TypeOK, BatchOwned, vars
<1>7. QED
  BY <1>1, <1>2, <1>3, <1>4, <1>5, <1>6 DEF Next

\* Empty queues and batches satisfy the invariant.
LEMMA InitBatch == Init => BatchInv
<1> SUFFICES ASSUME Init PROVE BatchInv
  OBVIOUS
<1>1. Cardinality(Kinds) \in Nat
  BY KindsAssumption, FS_CardinalityType
<1>2. wg \in Int
  BY <1>1 DEF Init
<1>3. onceDone \in [Kinds -> BOOLEAN] /\ cancelled \in BOOLEAN
  BY DEF Init
<1>4. TypeOK
  BY <1>2, <1>3 DEF Init, TypeOK
<1>5. BatchOwned
  BY DEF Init, BatchOwned
<1>6. QED
  BY <1>4, <1>5 DEF BatchInv

\* The invariant holds in every state.
LEMMA BatchInvHolds == Spec => []BatchInv
<1>1. BatchInv /\ [Next]_vars => BatchInv'
  BY NextKeepsBatch
<1>2. QED
  BY InitBatch, <1>1, PTL DEF Spec

\* Keys stay in the queue of their kind, and what is evaluated is a key that
\* some caller asked for, whatever fails and is requeued.
THEOREM TypeCorrect == Spec => []TypeOK
<1>1. BatchInv => TypeOK
  BY DEF BatchInv
<1>2. QED
  BY <1>1, BatchInvHolds, PTL

\* A pass owns the batch it drained: no key is in it twice, and nothing of it is
\* left when the loop goes back to sleep.
THEOREM BatchesOwned == Spec => []BatchOwned
<1>1. BatchInv => BatchOwned
  BY DEF BatchInv
<1>2. QED
  BY <1>1, BatchInvHolds, PTL

(***************************************************************************)
(* The WaitGroup and the version.                                          *)
(***************************************************************************)
StartInv == TypeOK /\ WaitGroupCounts /\ VersionAfterFirstPass

\* The end of a pass decrements the counter at most once per loop.
LEMMA EndPassCounts ==
    ASSUME StartInv, NEW k \in Kinds, EndPass(k)
    PROVE  WaitGroupCounts' /\ VersionAfterFirstPass'
<1> DEFINE W == {i \in Kinds : ~onceDone[i]}
           W2 == {i \in Kinds : ~onceDone'[i]}
<1>1. W2 = W \ {k}
  BY DEF EndPass, StartInv, TypeOK
<1>2. IsFiniteSet(W)
  BY KindsAssumption, FS_Subset
<1>3. wg = Cardinality(W) /\ Cardinality(W) \in Nat
  BY <1>2, FS_CardinalityType DEF StartInv, WaitGroupCounts
<1>4. CASE onceDone[k]
  <2>1. W2 = W
    BY <1>1, <1>4
  <2>2. wg' = wg
    BY <1>4 DEF EndPass
  <2>3. WaitGroupCounts'
    BY <2>1, <2>2, <1>3 DEF WaitGroupCounts
  <2>4. VersionAfterFirstPass'
    BY DEF EndPass, StartInv, TypeOK, VersionAfterFirstPass
  <2>5. QED
    BY <2>3, <2>4
<1>5. CASE ~onceDone[k]
  <2>1. Cardinality(W2) = Cardinality(W) - 1
    BY <1>1, <1>2, <1>5, FS_RemoveElement
  <2>2. wg' = wg - 1
    BY <1>5 DEF EndPass
  <2>3. WaitGroupCounts'
    BY <2>1, <2>2, <1>3 DEF WaitGroupCounts
  <2>4. VersionAfterFirstPass'
    BY DEF EndPass, StartInv, TypeOK, VersionAfterFirstPass
  <2>5. QED
    BY <2>3, <2>4
<1>6. QED
  BY <1>4, <1>5

\* A zero counter means no loop is left.
LEMMA WaitReturnsAfterAll ==
    ASSUME StartInv, WaitReturns
    PROVE  WaitGroupCounts' /\ VersionAfterFirstPass'
<1>1. IsFiniteSet({k \in Kinds : ~onceDone[k]})
  BY KindsAssumption, FS_Subset
<1>2. {k \in Kinds : ~onceDone[k]} = {}
  BY <1>1, FS_EmptySet DEF StartInv, WaitGroupCounts, WaitReturns
<1>3. QED
  BY <1>2 DEF StartInv, TypeOK, WaitReturns, WaitGroupCounts, VersionAfterFirstPass

\* The steps that touch neither the counter nor the version.
LEMMA OthersKeepStart ==
    ASSUME StartInv, UNCHANGED startVars
    PROVE  WaitGroupCounts' /\ VersionAfterFirstPass'
  BY DEF StartInv, WaitGroupCounts, VersionAfterFirstPass, startVars

\* Every step keeps the WaitGroup's count and the order of the first passes.
LEMMA NextKeepsStart ==
    ASSUME StartInv, [Next]_vars
    PROVE  WaitGroupCounts' /\ VersionAfterFirstPass'
<1>1. CASE Request
  <2>1. UNCHANGED startVars
    BY <1>1, RequestIsEnqueue DEF Enqueue
  <2>2. QED
    BY <2>1, OthersKeepStart
<1>2. ASSUME NEW k \in Kinds, Loop(k)
      PROVE  WaitGroupCounts' /\ VersionAfterFirstPass'
  <2>1. EndPass(k) \/ UNCHANGED startVars
    BY <1>2 DEF Loop, ExitLoop, Sleep, Drain, BeginEvaluation, SkipMalformed,
                EvaluationSucceeds, EvaluationFails, Requeue
  <2>2. QED
    BY <2>1, EndPassCounts, OthersKeepStart
<1>3. CASE WaitReturns
  BY <1>3, WaitReturnsAfterAll
<1>4. CASE StoreVersion
  BY <1>4 DEF StartInv, StoreVersion, WaitGroupCounts, VersionAfterFirstPass
<1>5. CASE CancelContext
  BY <1>5, OthersKeepStart DEF CancelContext
<1>6. CASE UNCHANGED vars
  BY <1>6, OthersKeepStart DEF vars, startVars
<1>7. QED
  BY <1>1, <1>2, <1>3, <1>4, <1>5, <1>6 DEF Next

\* The counter and the version keep in step with the loops' first passes.
LEMMA StartInvHolds == Spec => []StartInv
<1>1. Init => WaitGroupCounts /\ VersionAfterFirstPass
  <2> SUFFICES ASSUME Init PROVE WaitGroupCounts /\ VersionAfterFirstPass
    OBVIOUS
  <2>1. \A k \in Kinds : ~onceDone[k]
    BY DEF Init
  <2>2. {k \in Kinds : ~onceDone[k]} = Kinds
    BY <2>1
  <2>3. QED
    BY <2>2 DEF Init, WaitGroupCounts, VersionAfterFirstPass
<1>2. Init => StartInv
  BY <1>1, InitBatch DEF StartInv, BatchInv
<1>3. BatchInv' /\ StartInv /\ [Next]_vars => StartInv'
  BY NextKeepsStart DEF StartInv, BatchInv
<1>4. QED
  BY <1>2, <1>3, BatchInvHolds, PTL DEF Spec

\* The WaitGroup counts the loops that still owe their Done: each loop's
\* sync.Once lets it count down once, so the counter never goes below zero.
THEOREM DoneOncePerLoop == Spec => []WaitGroupCounts
<1>1. StartInv => WaitGroupCounts
  BY DEF StartInv
<1>2. QED
  BY <1>1, StartInvHolds, PTL

\* The agent's version is stored only after each loop has completed a pass,
\* for any number of loops and any interleaving of passes and failures.
THEOREM VersionWaitsForAll == Spec => []VersionAfterFirstPass
<1>1. StartInv => VersionAfterFirstPass
  BY DEF StartInv
<1>2. QED
  BY <1>1, StartInvHolds, PTL

(***************************************************************************)
(* The plain queues implement CoalescingQueue.                             *)
(***************************************************************************)
\* A queue none of whose parts changes stutters.
LEMMA OtherKindsStutter ==
    ASSUME NEW i, queue'[i] = queue[i], jobs'[i] = jobs[i],
           failed'[i] = failed[i], cur'[i] = cur[i]
    PROVE  UNCHANGED CQ(i)!vars
  BY DEF CQ!vars, Owed

\* A request is absorbed or makes an evaluation owed.
LEMMA EnqueueImplements ==
    ASSUME BatchInv, NEW i \in PlainKinds, NEW key \in RequestKeys(i), Enqueue(i, key)
    PROVE  CQ(i)!Next
<1>1. /\ queue'[i] = queue[i] \cup {key}
      /\ jobs' = jobs /\ failed' = failed /\ cur' = cur
  BY DEF BatchInv, TypeOK, Enqueue, loopVars, PlainKinds
<1> DEFINE n == 1 + (IF key \in jobs[i] \cup failed[i] THEN 1 ELSE 0)
<1>2. n \in 1..2 /\ n >= Owed(i)[key]
  BY DEF Owed
<1>3. Owed(i)' = [Owed(i) EXCEPT ![key] = n]
  BY <1>1 DEF Owed
<1>4. CQ(i)!Request(key)
  BY <1>1, <1>2, <1>3 DEF CQ!Request
<1>5. QED
  BY <1>4 DEF CQ!Next

\* One key's count changes and the others' do not.
LEMMA OwedChange ==
    ASSUME NEW i, NEW key \in RequestKeys(i), NEW n,
           (IF key \in queue'[i] THEN 1 ELSE 0)
             + (IF key \in jobs'[i] \cup failed'[i] THEN 1 ELSE 0) = n,
           \A r \in RequestKeys(i) \ {key} :
              /\ r \in queue'[i] <=> r \in queue[i]
              /\ r \in jobs'[i] \cup failed'[i] <=> r \in jobs[i] \cup failed[i]
    PROVE  Owed(i)' = [Owed(i) EXCEPT ![key] = n]
  BY DEF Owed

\* In a plain queue a key is requeued as it is, and no key is malformed.
LEMMA PlainKeys ==
    ASSUME NEW i \in PlainKinds
    PROVE  /\ Keys(i) = RequestKeys(i)
           /\ \A key : Requeued(i, key) = key /\ WellFormed(i, key)
  BY DEF PlainKinds, Keys, Requeued, WellFormed

\* Every step of a plain loop is a step of its CoalescingQueue or a stutter:
\* draining moves what is owed, starting an evaluation pays one, failing owes
\* it again, and requeueing coalesces with a request that came meanwhile.
LEMMA LoopImplements ==
    ASSUME BatchInv, NEW i \in PlainKinds, Loop(i)
    PROVE  CQ(i)!Next \/ UNCHANGED CQ(i)!vars
<1> i \in Kinds
  BY DEF PlainKinds
<1> Keys(i) = RequestKeys(i)
  BY PlainKeys
<1> USE DEF BatchInv
<1>1. CASE ExitLoop(i) \/ Sleep(i) \/ EndPass(i)
  BY <1>1, OtherKindsStutter DEF ExitLoop, Sleep, EndPass, loopVars
<1>2. CASE Drain(i)
  <2>1. jobs[i] = {} /\ failed[i] = {}
    BY <1>2 DEF Drain, BatchOwned
  <2>2. /\ jobs'[i] = queue[i] /\ queue'[i] = {}
        /\ failed' = failed /\ cur' = cur
    BY <1>2 DEF Drain, TypeOK
  <2>3. Owed(i)' = Owed(i)
    BY <2>1, <2>2 DEF Owed
  <2>4. QED
    BY <2>2, <2>3 DEF CQ!vars
<1>3. ASSUME NEW key \in jobs[i], BeginEvaluation(i, key)
      PROVE  CQ(i)!Next
  <2>1. key \in RequestKeys(i) /\ key \notin failed[i]
    BY <1>3 DEF TypeOK, BatchOwned
  <2>2. /\ queue' = queue /\ failed' = failed
        /\ jobs'[i] = jobs[i] \ {key}
        /\ cur[i] = {} /\ cur'[i] = {key}
    BY <1>3 DEF BeginEvaluation, TypeOK
  <2>3. Owed(i)[key] > 0 /\ Owed(i)' = [Owed(i) EXCEPT ![key] = @ - 1]
    <3>1. Owed(i)[key] = 1 + (IF key \in queue[i] THEN 1 ELSE 0)
      BY <2>1, <1>3 DEF Owed
    <3>2. (IF key \in queue'[i] THEN 1 ELSE 0)
            + (IF key \in jobs'[i] \cup failed'[i] THEN 1 ELSE 0) = Owed(i)[key] - 1
      BY <2>1, <2>2, <3>1
    <3>3. QED
      BY <2>1, <2>2, <3>1, <3>2, OwedChange
  <2>4. CQ(i)!Start(key)
    BY <2>2, <2>3 DEF CQ!Start
  <2>5. QED
    BY <2>1, <2>4 DEF CQ!Next
<1>4. ASSUME NEW key \in jobs[i], SkipMalformed(i, key)
      PROVE  CQ(i)!Next
  BY <1>4, PlainKeys DEF SkipMalformed
<1>5. CASE EvaluationSucceeds(i)
  <2>1. PICK key \in RequestKeys(i) : cur[i] = {key}
    BY <1>5 DEF EvaluationSucceeds, TypeOK
  <2>2. cur'[i] = {} /\ queue' = queue /\ jobs' = jobs /\ failed' = failed
    BY <1>5 DEF EvaluationSucceeds, TypeOK
  <2>3. CQ(i)!Succeed(key)
    BY <2>1, <2>2 DEF CQ!Succeed, Owed
  <2>4. QED
    BY <2>1, <2>3 DEF CQ!Next
<1>6. CASE EvaluationFails(i)
  <2>1. PICK key \in RequestKeys(i) : cur[i] = {key}
    BY <1>6 DEF EvaluationFails, TypeOK
  <2>2. key \notin jobs[i] \cup failed[i]
    BY <2>1 DEF BatchOwned
  <2>3. /\ cur'[i] = {} /\ queue' = queue /\ jobs' = jobs
        /\ failed'[i] = failed[i] \cup {key}
    BY <1>6, <2>1 DEF EvaluationFails, TypeOK
  <2>4. Owed(i)[key] < 2 /\ Owed(i)' = [Owed(i) EXCEPT ![key] = @ + 1]
    <3>1. Owed(i)[key] = IF key \in queue[i] THEN 1 ELSE 0
      BY <2>2 DEF Owed
    <3>2. (IF key \in queue'[i] THEN 1 ELSE 0)
            + (IF key \in jobs'[i] \cup failed'[i] THEN 1 ELSE 0) = Owed(i)[key] + 1
      BY <2>2, <2>3, <3>1
    <3>3. QED
      BY <2>2, <2>3, <3>1, <3>2, OwedChange
  <2>5. CQ(i)!Fail(key)
    BY <2>1, <2>3, <2>4 DEF CQ!Fail
  <2>6. QED
    BY <2>1, <2>5 DEF CQ!Next
<1>7. ASSUME NEW key \in failed[i], Requeue(i, key)
      PROVE  CQ(i)!Next \/ UNCHANGED CQ(i)!vars
  <2>1. key \in RequestKeys(i) /\ jobs[i] = {}
    BY <1>7 DEF Requeue, PassOver, TypeOK
  <2>2. /\ failed'[i] = failed[i] \ {key}
        /\ queue'[i] = queue[i] \cup {key}
        /\ jobs' = jobs /\ cur' = cur
    BY <1>7, PlainKeys DEF Requeue, TypeOK
  <2>3. CASE key \in queue[i]
    <3>1. Owed(i)[key] = 2 /\ Owed(i)' = [Owed(i) EXCEPT ![key] = 1]
      <4>1. Owed(i)[key] = 2
        BY <2>1, <2>3, <1>7 DEF Owed
      <4>2. (IF key \in queue'[i] THEN 1 ELSE 0)
              + (IF key \in jobs'[i] \cup failed'[i] THEN 1 ELSE 0) = 1
        BY <2>1, <2>2, <2>3
      <4>3. QED
        BY <2>1, <2>2, <4>1, <4>2, OwedChange
    <3>2. CQ(i)!Coalesce(key)
      BY <2>2, <3>1 DEF CQ!Coalesce
    <3>3. QED
      BY <2>1, <3>2 DEF CQ!Next
  <2>4. CASE key \notin queue[i]
    <3>1. Owed(i)' = Owed(i)
      BY <2>1, <2>2, <2>4 DEF Owed
    <3>2. QED
      BY <2>2, <3>1 DEF CQ!vars
  <2>5. QED
    BY <2>3, <2>4
<1>8. QED
  BY <1>1, <1>2, <1>3, <1>4, <1>5, <1>6, <1>7 DEF Loop

\* A step of one loop, or for one kind, leaves the other kinds' queues alone.
LEMMA LoopLocal ==
    ASSUME BatchInv, NEW k \in Kinds, NEW i \in Kinds, i # k,
           Loop(k) \/ \E key \in RequestKeys(k) : Enqueue(k, key)
    PROVE  UNCHANGED CQ(i)!vars
<1>1. /\ queue'[i] = queue[i] /\ jobs'[i] = jobs[i]
      /\ failed'[i] = failed[i] /\ cur'[i] = cur[i]
  BY DEF BatchInv, TypeOK, Loop, ExitLoop, Sleep, Drain, BeginEvaluation, SkipMalformed,
         EvaluationSucceeds, EvaluationFails, Requeue, EndPass, Enqueue, loopVars
<1>2. QED
  BY <1>1, OtherKindsStutter

\* Every step is, for each plain queue, a step of its promise or a stutter.
LEMMA NextImplements ==
    ASSUME BatchInv, [Next]_vars, NEW i \in PlainKinds
    PROVE  [CQ(i)!Next]_(CQ(i)!vars)
<1> i \in Kinds
  BY DEF PlainKinds
<1>1. CASE Request
  <2>1. PICK k \in Kinds : \E key \in RequestKeys(k) : Enqueue(k, key)
    BY <1>1, RequestIsEnqueue
  <2>2. QED
    BY <2>1, EnqueueImplements, LoopLocal
<1>2. ASSUME NEW k \in Kinds, Loop(k)
      PROVE  [CQ(i)!Next]_(CQ(i)!vars)
  BY <1>2, LoopImplements, LoopLocal
<1>3. CASE WaitReturns \/ StoreVersion \/ CancelContext \/ UNCHANGED vars
  BY <1>3, OtherKindsStutter DEF WaitReturns, StoreVersion, CancelContext, vars, loopVars
<1>4. QED
  BY <1>1, <1>2, <1>3 DEF Next

\* The Classifier, HealthCheck and EventSource queues implement the promise
\* of the evaluation interface: no request is lost, requests coalesce, a failed
\* evaluation is owed again and none runs unasked.
THEOREM QueuesImplementPromise == Spec => QueuesKeepPromise
<1>1. Init => PromiseInit
  <2> SUFFICES ASSUME Init, NEW i \in PlainKinds PROVE CQ(i)!Init
    BY DEF PromiseInit
  <2>1. i \in Kinds
    BY DEF PlainKinds
  <2>2. queue[i] = {} /\ jobs[i] = {} /\ failed[i] = {} /\ cur[i] = {}
    BY <2>1 DEF Init
  <2>3. QED
    BY <2>2 DEF CQ!Init, Owed
<1>2. BatchInv /\ [Next]_vars => PromiseStep
  BY NextImplements DEF PromiseStep
<1>3. BatchInv /\ [Next]_vars => BatchInv'
  BY NextKeepsBatch
<1>4. QED
  BY InitBatch, <1>1, <1>2, <1>3, PTL DEF Spec, QueuesKeepPromise

(***************************************************************************)
(* The process.                                                            *)
(***************************************************************************)
\* Every generation but the first of the process follows one that a token or a
\* signal has ended, but for those a signal leaves no other end to wait for.  A
\* signal ends the generation it meets.
GenerationsCounted == /\ gen <= endings + 1
                      /\ mpc # "initialize" /\ (expired \/ ended) /\ ~NeverStarts
                            => gen <= endings
                      /\ mpc = "reset" => ended
                      /\ mpc = "running" /\ signalled => ended

\* startControllers is at a kind there is, and only of generations begun.
StartersBegun == \A n \in Generations :
    /\ starter[n][1] \in {"check", "register"} => starter[n][2] \in 1..Len(Order)
    /\ starter[n][1] # "none" => n <= gen

\* Controllers run while mgr.Start does, and reconcile while they run.
ControllersRun == /\ mpc # "running" => built = {}
                  /\ \A k \in PolicyKinds : reconciling[k] # "none" => k \in built

\* The running reconciler has a policy under every GVK it selects, unless it is
\* about to read it again; what it is about to put in the maps is up to date.
PoliciesMapped ==
    Running /\ ~expired =>
        \A k \in built : \/ k \in pending
                         \/ IF reconciling[k] = "maps" THEN read[k] = policy[k]
                            ELSE policy[k] \subseteq maps[gen][k]

ProcessInv == /\ ProcessTypeOK /\ GenerationsCounted /\ StartersBegun /\ ControllersRun
              /\ PoliciesMapped /\ ChangeNoticed

\* startControllers has a kind at hand, and what follows it is one it has or the end.
LEMMA KindAt ==
    ASSUME NEW i \in 1..Len(Order)
    PROVE  /\ Order[i] \in PolicyKinds
           /\ After(i) \in {"check", "done"} \X (0..Len(Order))
           /\ After(i)[1] = "check" => After(i)[2] \in 1..Len(Order)
<1>1. Len(Order) \in Nat
  BY OrderAssumption
<1> QED  BY <1>1 DEF PolicyKinds, After

\* The bounds are naturals, and there is a first generation and a first kind.
LEMMA Bounds ==
    /\ Generations \subseteq Nat \ {0} /\ 1 \in Generations
    /\ Len(Order) \in Nat /\ 1 \in 1..Len(Order)
BY OrderAssumption, BoundsAssumption DEF Generations

\* A process that starts is consistent, whatever the cluster holds.
LEMMA ProcessStarts == ProcessInit => ProcessInv
<1> SUFFICES ASSUME ProcessInit PROVE ProcessInv
  OBVIOUS
<1>1. /\ maps \in [Generations -> [PolicyKinds -> SUBSET GVKs]]
      /\ reacts \in [PolicyKinds -> Generations \cup {0}]
      /\ reconciling \in [PolicyKinds -> {"none", "maps", "queue"}]
      /\ read \in [PolicyKinds -> SUBSET GVKs] /\ \A k \in PolicyKinds : read[k] = {}
  BY DEF ProcessInit, NothingMapped
<1>2. /\ starter \in [Generations -> {"none", "wait", "check", "register", "done"}
                                       \X (0..Len(Order))]
      /\ \A n \in Generations : starter[n][1] = "none"
  BY Bounds DEF ProcessInit
<1>3. ProcessTypeOK
  <2>1. /\ crds \subseteq PolicyKinds /\ policy \in [PolicyKinds -> SUBSET GVKs]
        /\ objects \subseteq GVKs
        /\ fresh \in [PolicyKinds -> SUBSET GVKs]
        /\ changes \in 0..MaxChanges /\ endings \in 0..MaxEndings
    BY BoundsAssumption, ClustersAssumption DEF ProcessInit
  <2> QED  BY <1>1, <1>2, <2>1, Bounds DEF ProcessInit, ProcessTypeOK
<1>4. GenerationsCounted /\ StartersBegun
  BY <1>2 DEF ProcessInit, GenerationsCounted, NeverStarts, StartersBegun
<1>5. ControllersRun /\ PoliciesMapped /\ ChangeNoticed
  BY DEF ProcessInit, ControllersRun, PoliciesMapped, ChangeNoticed
<1> QED  BY <1>3, <1>4, <1>5 DEF ProcessInv

\* The same of the process that follows one that died.
LEMMA CrashKeeps ==
    ASSUME ProcessInv, Crash
    PROVE  ProcessInv'
<1>1. /\ maps' \in [Generations -> [PolicyKinds -> SUBSET GVKs]]
      /\ reacts' \in [PolicyKinds -> Generations \cup {0}]
      /\ reconciling' \in [PolicyKinds -> {"none", "maps", "queue"}]
      /\ read' \in [PolicyKinds -> SUBSET GVKs] /\ \A k \in PolicyKinds : read'[k] = {}
  BY DEF Crash, NothingMapped
<1>2. /\ starter' \in [Generations -> {"none", "wait", "check", "register", "done"}
                                        \X (0..Len(Order))]
      /\ \A n \in Generations : starter'[n][1] = "none"
  BY Bounds DEF Crash
<1>3. ProcessTypeOK'
  BY <1>1, <1>2, Bounds DEF Crash, clusterVars, ProcessInv, ProcessTypeOK
<1>4. GenerationsCounted' /\ StartersBegun'
  <2>1. gen' = 1 /\ endings' \in Nat
    BY BoundsAssumption DEF Crash, ProcessInv, ProcessTypeOK
  <2> QED  BY <1>2, <2>1 DEF Crash, GenerationsCounted, NeverStarts, StartersBegun
<1>5. ControllersRun' /\ PoliciesMapped' /\ ChangeNoticed'
  BY DEF Crash, ControllersRun, PoliciesMapped, ChangeNoticed
<1> QED  BY <1>3, <1>4, <1>5 DEF ProcessInv

\* The cluster changes, or the informers resync.
LEMMA ClusterStep ==
    ASSUME ProcessInv, InstallCRD \/ EditPolicy \/ ChangeResource \/ Resync
    PROVE  ProcessInv'
<1> USE DEF clusterVars, mainVars, reconcilerVars, managerVars, Changed
<1>1. CASE InstallCRD
  <2>1. ProcessTypeOK'
    BY <1>1, BoundsAssumption DEF InstallCRD, ProcessInv, ProcessTypeOK
  <2> QED
    BY <1>1, <2>1 DEF InstallCRD, ProcessInv, GenerationsCounted, NeverStarts, StartersBegun,
                      ControllersRun,
                      PoliciesMapped, ChangeNoticed, ManagerRuns, Running
<1>2. CASE EditPolicy
  <2>1. PICK k \in crds, s \in SUBSET GVKs :
            /\ policy' = [policy EXCEPT ![k] = s]
            /\ pending' = pending \cup ({k} \cap built)
    BY <1>2 DEF EditPolicy
  <2>2. k \in PolicyKinds
    BY DEF ProcessInv, ProcessTypeOK
  <2>3. ProcessTypeOK'
    BY <1>2, <2>1, <2>2, BoundsAssumption DEF EditPolicy, ProcessInv, ProcessTypeOK
  <2>4. GenerationsCounted' /\ StartersBegun' /\ ControllersRun'
    BY <1>2 DEF EditPolicy, ProcessInv, GenerationsCounted, NeverStarts, StartersBegun,
                ControllersRun
  <2>5. \A j \in built : j \in pending' \/ policy'[j] = policy[j]
    BY <2>1, <2>2 DEF ProcessInv, ProcessTypeOK
  <2>6. PoliciesMapped'
    BY <1>2, <2>1, <2>5 DEF EditPolicy, ProcessInv, PoliciesMapped, Running
  <2>7. ChangeNoticed'
    BY <1>2, <2>1, <2>5 DEF EditPolicy, ProcessInv, ChangeNoticed, ManagerRuns, Running
  <2> QED  BY <2>3, <2>4, <2>6, <2>7 DEF ProcessInv
<1>3. CASE ChangeResource
  <2>1. PICK g \in GVKs :
            /\ objects' \subseteq objects \cup {g}
            /\ fresh' = [k \in PolicyKinds |-> fresh[k] \ {g}]
            /\ notify' = notify \cup (IF ManagerRuns THEN {g} \cap watching ELSE {})
    BY <1>3 DEF ChangeResource
  <2>2. ProcessTypeOK'
    BY <1>3, <2>1, BoundsAssumption DEF ChangeResource, ProcessInv, ProcessTypeOK
  <2>3. GenerationsCounted' /\ StartersBegun' /\ ControllersRun' /\ PoliciesMapped'
    BY <1>3 DEF ChangeResource, ProcessInv, GenerationsCounted, NeverStarts, StartersBegun,
                ControllersRun,
                PoliciesMapped, Running
  <2>4. ChangeNoticed'
    BY <1>3, <2>1 DEF ChangeResource, ProcessInv, ProcessTypeOK, ChangeNoticed, ManagerRuns,
                      Running
  <2> QED  BY <2>2, <2>3, <2>4 DEF ProcessInv
<1>4. CASE Resync
  BY <1>4 DEF Resync, ProcessInv, ProcessTypeOK, GenerationsCounted, NeverStarts, StartersBegun,
              ControllersRun,
              PoliciesMapped, ChangeNoticed, ManagerRuns, Running
<1> QED  BY <1>1, <1>2, <1>3, <1>4

\* The loop of main: a generation begins, its token expires or a signal comes, it
\* ends.
LEMMA MainStep ==
    ASSUME ProcessInv,
           \/ InitializeManager \/ ExpireToken \/ restartIfNeeded \/ restart \/ StartReturns
           \/ Reset \/ Killed
    PROVE  ProcessInv'
<1> USE DEF clusterVars, mainVars, reconcilerVars, managerVars
<1>1. CASE InitializeManager
  <2>1. ProcessTypeOK'
    <3>1. starter' \in [Generations -> {"none", "wait", "check", "register", "done"}
                                       \X (0..Len(Order))]
      BY <1>1, Bounds DEF InitializeManager, ProcessInv, ProcessTypeOK
    <3> QED  BY <1>1, <3>1 DEF InitializeManager, ProcessInv, ProcessTypeOK
  <2>2. GenerationsCounted' /\ StartersBegun'
    BY <1>1, Bounds, BoundsAssumption
       DEF InitializeManager, ProcessInv, ProcessTypeOK, GenerationsCounted, NeverStarts,
           StartersBegun
  <2>3. ControllersRun' /\ PoliciesMapped' /\ ChangeNoticed'
    BY <1>1 DEF InitializeManager, ProcessInv, ControllersRun, PoliciesMapped, ChangeNoticed
  <2> QED  BY <2>1, <2>2, <2>3 DEF ProcessInv
<1>2. CASE ExpireToken
  <2>1. ProcessTypeOK'
    BY <1>2, BoundsAssumption DEF ExpireToken, ProcessInv, ProcessTypeOK
  <2>2. GenerationsCounted' /\ StartersBegun'
    BY <1>2, Bounds, BoundsAssumption
       DEF ExpireToken, ProcessInv, ProcessTypeOK, GenerationsCounted, NeverStarts, StartersBegun
  <2>3. ControllersRun' /\ PoliciesMapped' /\ ChangeNoticed'
    BY <1>2 DEF ExpireToken, ProcessInv, ControllersRun, PoliciesMapped, ChangeNoticed
  <2> QED  BY <2>1, <2>2, <2>3 DEF ProcessInv
<1>3. CASE restartIfNeeded
  <2>1. ProcessTypeOK'
    BY <1>3 DEF restartIfNeeded, ProcessInv, ProcessTypeOK
  <2>2. GenerationsCounted' /\ StartersBegun'
    BY <1>3 DEF restartIfNeeded, Running, ProcessInv, GenerationsCounted, NeverStarts,
                StartersBegun
  <2>3. ControllersRun' /\ PoliciesMapped' /\ ChangeNoticed'
    BY <1>3 DEF restartIfNeeded, ProcessInv, ControllersRun, PoliciesMapped, ChangeNoticed,
                ManagerRuns, Running
  <2> QED  BY <2>1, <2>2, <2>3 DEF ProcessInv
<1>4. CASE StartReturns
  <2>1. late' \subseteq PolicyKinds
    BY <1>4 DEF StartReturns, ReactsTo, ProcessInv, ProcessTypeOK
  <2>2. ProcessTypeOK'
    BY <1>4, <2>1 DEF StartReturns, ProcessInv, ProcessTypeOK
  <2> QED
    BY <1>4, <2>2 DEF StartReturns, ProcessInv, GenerationsCounted, NeverStarts, StartersBegun,
                      ControllersRun,
                      PoliciesMapped, ChangeNoticed, ManagerRuns, Running
<1>5. CASE Reset
  <2>1. gen' \in {gen, gen + 1} /\ gen' \in Generations /\ gen' <= endings + 1
    BY <1>5, Bounds, BoundsAssumption
       DEF Reset, ProcessInv, ProcessTypeOK, GenerationsCounted, Generations
  <2>2. maps' \in [Generations -> [PolicyKinds -> SUBSET GVKs]]
    BY <1>5 DEF Reset, ProcessInv, ProcessTypeOK
  <2>3. ProcessTypeOK'
    BY <1>5, <2>1, <2>2 DEF Reset, ProcessInv, ProcessTypeOK
  <2>4. GenerationsCounted' /\ StartersBegun'
    BY <1>5, <2>1, Bounds
       DEF Reset, ProcessInv, ProcessTypeOK, GenerationsCounted, NeverStarts, StartersBegun
  <2>5. ControllersRun' /\ PoliciesMapped' /\ ChangeNoticed'
    BY <1>5 DEF Reset, ProcessInv, ControllersRun, PoliciesMapped, ChangeNoticed, ManagerRuns,
                Running
  <2> QED  BY <2>3, <2>4, <2>5 DEF ProcessInv
<1>6. CASE restart
  <2>1. ProcessTypeOK'
    BY <1>6, BoundsAssumption DEF restart, ProcessInv, ProcessTypeOK
  <2>2. GenerationsCounted' /\ StartersBegun'
    BY <1>6, Bounds, BoundsAssumption
       DEF restart, ProcessInv, ProcessTypeOK, GenerationsCounted, StartersBegun
  <2>3. ControllersRun' /\ PoliciesMapped' /\ ChangeNoticed'
    BY <1>6 DEF restart, ProcessInv, ControllersRun, PoliciesMapped, ChangeNoticed, ManagerRuns,
                Running
  <2> QED  BY <2>1, <2>2, <2>3 DEF ProcessInv
<1>7. CASE Killed
  BY <1>7, CrashKeeps DEF Killed
<1> QED  BY <1>1, <1>2, <1>3, <1>4, <1>5, <1>6, <1>7

\* startControllers, of whatever generation, and the deaths it can lead to.
LEMMA StarterStep ==
    ASSUME ProcessInv, NEW n \in Generations, Starter(n) \/ BuildFails(n)
    PROVE  ProcessInv'
<1> USE DEF clusterVars, mainVars, reconcilerVars, managerVars
<1> DEFINE Places == {"none", "wait", "check", "register", "done"} \X (0..Len(Order))
<1>1. ASSUME NEW at \in Places, starter' = [starter EXCEPT ![n] = at], starter[n][1] # "none",
             at[1] \in {"check", "register"} => at[2] \in 1..Len(Order), gen' = gen
      PROVE  starter' \in [Generations -> Places] /\ StartersBegun'
  BY <1>1 DEF ProcessInv, ProcessTypeOK, StartersBegun
<1>2. CASE startControllers(n)
  <2>1. <<"check", 1>> \in Places
    BY Bounds
  <2>2. starter' \in [Generations -> Places] /\ StartersBegun'
    <3>1. /\ starter' = [starter EXCEPT ![n] = <<"check", 1>>] /\ starter[n][1] # "none"
          /\ gen' = gen
      BY <1>2 DEF startControllers
    <3> QED  BY <1>1, <2>1, <3>1, Bounds
  <2>3. ProcessTypeOK'
    BY <1>2, <2>2 DEF startControllers, ProcessInv, ProcessTypeOK
  <2> QED
    BY <1>2, <2>2, <2>3 DEF startControllers, ProcessInv, GenerationsCounted, NeverStarts,
                            ControllersRun,
                            PoliciesMapped, ChangeNoticed, ManagerRuns, Running
<1>3. CASE SkipController(n)
  <2>1. starter[n][2] \in 1..Len(Order)
    BY <1>3 DEF SkipController, ProcessInv, StartersBegun
  <2>2. starter' \in [Generations -> Places] /\ StartersBegun'
    BY <1>1, <1>3, <2>1, KindAt DEF SkipController, ProcessInv, ProcessTypeOK
  <2>3. ProcessTypeOK'
    BY <1>3, <2>2 DEF SkipController, ProcessInv, ProcessTypeOK
  <2> QED
    BY <1>3, <2>2, <2>3 DEF SkipController, ProcessInv, GenerationsCounted, NeverStarts,
                            ControllersRun,
                            PoliciesMapped, ChangeNoticed, ManagerRuns, Running
<1>4. CASE Build(n)
  <2> DEFINE k == Order[starter[n][2]]
  <2>1. starter[n][2] \in 1..Len(Order) /\ k \in PolicyKinds
    BY <1>4, KindAt DEF Build, ProcessInv, StartersBegun
  <2>2. <<"register", starter[n][2]>> \in Places
    BY <2>1, Bounds
  <2>3. starter' \in [Generations -> Places] /\ StartersBegun'
    BY <1>1, <1>4, <2>1, <2>2 DEF Build, ProcessInv, ProcessTypeOK
  <2>4. /\ mpc = "running"
        /\ built' = IF ended THEN built ELSE built \cup {k}
        /\ pending' = IF ended \/ expired \/ policy[k] = {} THEN pending
                      ELSE pending \cup {k}
    BY <1>4 DEF Build
  <2> HIDE DEF k
  <2>5. ProcessTypeOK'
    BY <1>4, <2>1, <2>3, <2>4 DEF Build, ProcessInv, ProcessTypeOK
  <2>6. PoliciesMapped'
    BY <1>4, <2>1, <2>4
       DEF Build, ProcessInv, ProcessTypeOK, ControllersRun, PoliciesMapped, Running
  <2>7. ChangeNoticed'
    BY <1>4, <2>1, <2>4 DEF Build, ProcessInv, ProcessTypeOK, ChangeNoticed, ManagerRuns, Running
  <2> QED
    BY <1>4, <2>3, <2>4, <2>5, <2>6, <2>7 DEF Build, ProcessInv, GenerationsCounted,
                                              NeverStarts, ControllersRun
<1>5. CASE Register(n)
  <2>1. CASE Crash
    BY <2>1, CrashKeeps
  <2>2. CASE ~Crash
    <3>1. starter[n][2] \in 1..Len(Order)
      BY <1>5 DEF Register, ProcessInv, StartersBegun
    <3>2. starter' \in [Generations -> Places] /\ StartersBegun'
      BY <1>1, <1>5, <2>2, <3>1, KindAt DEF Register, ProcessInv, ProcessTypeOK
    <3>3. /\ reacts' = [reacts EXCEPT ![Order[starter[n][2]]] = n]
          /\ starter' = [starter EXCEPT ![n] = After(starter[n][2])]
          /\ UNCHANGED <<clusterVars, mainVars, instance, reconcilerVars, watching, rebuild,
                         notify, jobQueues, late, fresh, missed>>
      BY <1>5, <2>2 DEF Register, ProcessInv, ProcessTypeOK
    <3>4. reacts' \in [PolicyKinds -> Generations \cup {0}]
      BY <3>3 DEF ProcessInv, ProcessTypeOK
    <3>5. ProcessTypeOK'
      BY <3>2, <3>3, <3>4 DEF ProcessInv, ProcessTypeOK
    <3>6. NeverStarts' <=> NeverStarts
      <4>1. starter[n] # <<"wait", 0>> /\ starter'[n] # <<"wait", 0>>
        BY <1>5, <3>3 DEF Register, After, ProcessInv, ProcessTypeOK
      <4>2. \A m \in Generations \ {n} : starter'[m] = starter[m]
        BY <3>3 DEF ProcessInv, ProcessTypeOK
      <4>3. gen' = gen /\ signalled' = signalled /\ gen \in Generations
        BY <3>3 DEF ProcessInv, ProcessTypeOK
      <4> QED  BY <4>1, <4>2, <4>3 DEF NeverStarts
    <3>7. GenerationsCounted'
      BY <3>3, <3>6 DEF ProcessInv, GenerationsCounted
    <3>8. ControllersRun' /\ PoliciesMapped' /\ ChangeNoticed'
      BY <3>3 DEF ProcessInv, ControllersRun, PoliciesMapped, ChangeNoticed, ManagerRuns, Running
    <3> QED  BY <3>2, <3>5, <3>7, <3>8 DEF ProcessInv
  <2> QED  BY <2>1, <2>2
<1>6. CASE BuildFails(n)
  BY <1>6, CrashKeeps DEF BuildFails
<1> QED  BY <1>2, <1>3, <1>4, <1>5, <1>6 DEF Starter

\* The reconciler of k: the policy is read, put in the maps and queued.
LEMMA ReconcileStep ==
    ASSUME ProcessInv, NEW k \in PolicyKinds, Reconcile(k) \/ reconcileNormal(k)
    PROVE  ProcessInv'
<1> USE DEF clusterVars, mainVars, reconcilerVars, managerVars
<1>1. CASE Reconcile(k)
  <2>1. ProcessTypeOK'
    BY <1>1 DEF Reconcile, ProcessInv, ProcessTypeOK
  <2>2. GenerationsCounted' /\ StartersBegun' /\ ControllersRun'
    BY <1>1 DEF Reconcile, ProcessInv, GenerationsCounted, NeverStarts, StartersBegun,
                ControllersRun
  <2>3. PoliciesMapped'
    BY <1>1 DEF Reconcile, ProcessInv, ProcessTypeOK, PoliciesMapped, Running
  <2>4. ChangeNoticed'
    BY <1>1 DEF Reconcile, ProcessInv, ProcessTypeOK, ChangeNoticed, ManagerRuns, Running
  <2> QED  BY <2>1, <2>2, <2>3, <2>4 DEF ProcessInv
<1>2. CASE reconcileNormal(k)
  <2>1. GenerationsCounted' /\ StartersBegun' /\ ControllersRun'
    <3>1. \A j \in PolicyKinds : reconciling'[j] # "none" => reconciling[j] # "none"
      BY <1>2 DEF reconcileNormal, Steps, ProcessInv, ProcessTypeOK
    <3> QED
      BY <1>2, <3>1
         DEF reconcileNormal, ProcessInv, GenerationsCounted, NeverStarts, StartersBegun,
             ControllersRun
  <2>2. CASE reconciling[k] = "maps" /\ updateMaps(k)
                 /\ reconciling' = [reconciling EXCEPT ![k] = "queue"]
    <3>1. /\ maps' \in [Generations -> [PolicyKinds -> SUBSET GVKs]]
          /\ read[k] \subseteq maps'[gen][k]
          /\ \A j \in PolicyKinds \ {k} : maps'[gen][j] = maps[gen][j]
      BY <2>2 DEF updateMaps, Mapped, ProcessInv, ProcessTypeOK
    <3>2. read' = read /\ jobQueues' = jobQueues
      BY <1>2, <2>2 DEF reconcileNormal, updateMaps, ProcessInv, ProcessTypeOK
    <3>3. ProcessTypeOK'
      BY <1>2, <2>2, <3>1, <3>2 DEF reconcileNormal, ProcessInv, ProcessTypeOK
    <3>4. PoliciesMapped'
      <4>1. UNCHANGED <<mpc, ended, expired, gen, built, pending, policy>>
        BY <1>2 DEF reconcileNormal
      <4>2. \A j \in PolicyKinds \ {k} : reconciling'[j] = reconciling[j]
        BY <2>2 DEF ProcessInv, ProcessTypeOK
      <4>3. \A j \in built : j \in PolicyKinds
        BY DEF ProcessInv, ProcessTypeOK
      <4>4. SUFFICES ASSUME Running, ~expired, NEW j \in built
                     PROVE  \/ j \in pending
                            \/ IF reconciling'[j] = "maps" THEN read[j] = policy[j]
                               ELSE policy[j] \subseteq maps'[gen][j]
        BY <3>2, <4>1 DEF PoliciesMapped, Running
      <4>5. \/ j \in pending
            \/ IF reconciling[j] = "maps" THEN read[j] = policy[j]
               ELSE policy[j] \subseteq maps[gen][j]
        BY <4>4 DEF ProcessInv, PoliciesMapped
      <4>6. CASE j = k
        BY <2>2, <3>1, <4>5, <4>6 DEF Mapped
      <4>7. CASE j # k
        BY <3>1, <4>2, <4>3, <4>5, <4>7
      <4> QED  BY <4>6, <4>7
    <3>5. ChangeNoticed'
      BY <1>2, <2>2, <3>2
         DEF reconcileNormal, ProcessInv, ProcessTypeOK, ChangeNoticed, ManagerRuns, Running
    <3> QED  BY <2>1, <3>3, <3>4, <3>5 DEF ProcessInv
  <2>3. CASE reconciling[k] = "queue" /\ Queue(k)
                 /\ reconciling' = [reconciling EXCEPT ![k] = "none"]
    <3>1. read' = [read EXCEPT ![k] = {}]
      BY <1>2, <2>3 DEF reconcileNormal, ProcessInv, ProcessTypeOK
    <3>2. ProcessTypeOK'
      BY <1>2, <2>3, <3>1 DEF reconcileNormal, Queue, ProcessInv, ProcessTypeOK
    <3>3. PoliciesMapped'
      BY <1>2, <2>3, <3>1
         DEF reconcileNormal, Queue, ProcessInv, ProcessTypeOK, PoliciesMapped, Running
    <3>4. ChangeNoticed'
      BY <1>2, <2>3
         DEF reconcileNormal, Queue, ProcessInv, ProcessTypeOK, ChangeNoticed, ManagerRuns,
             Running
    <3> QED  BY <2>1, <3>2, <3>3, <3>4 DEF ProcessInv
  <2> QED  BY <1>2, <2>2, <2>3 DEF reconcileNormal, Steps
<1> QED  BY <1>1, <1>2

\* Notifications, evaluations and rebuilds.
LEMMA ManagerStep ==
    ASSUME ProcessInv,
           \/ \E g \in GVKs : react(g)
           \/ \E k \in PolicyKinds : lateReact(k) \/ Evaluate(k)
           \/ buildResourceToWatch
    PROVE  ProcessInv'
<1> USE DEF clusterVars, mainVars, reconcilerVars, managerVars
<1>1. ASSUME NEW g \in GVKs, react(g)
      PROVE  ProcessInv'
  <2>1. ProcessTypeOK'
    BY <1>1 DEF react, ReactsTo, ProcessInv, ProcessTypeOK
  <2>2. GenerationsCounted' /\ StartersBegun' /\ ControllersRun' /\ PoliciesMapped'
    BY <1>1 DEF react, ProcessInv, GenerationsCounted, NeverStarts, StartersBegun, ControllersRun,
                PoliciesMapped, Running
  \* The policies that are not missed are in the queue, or their reconciler is at work.
  <2>3. ASSUME NEW k \in built, k \notin missed', g \in policy[k], ManagerRuns, ~expired
        PROVE  k \in pending \cup jobQueues' \/ reconciling[k] # "none"
    <3>1. reacts[k] = gen /\ k \in PolicyKinds /\ gen # 0
      BY <1>1, <2>3, Bounds DEF react, ProcessInv, ProcessTypeOK
    <3>2. CASE policy[k] \subseteq maps[gen][k]
      <4>1. k \in ReactsTo(g)
        BY <2>3, <3>1, <3>2 DEF ReactsTo
      <4> QED  BY <1>1, <4>1 DEF react
    <3> QED  BY <2>3, <3>2 DEF ProcessInv, PoliciesMapped, ManagerRuns
  <2>4. ChangeNoticed'
    BY <1>1, <2>3 DEF react, ProcessInv, ProcessTypeOK, ChangeNoticed, ManagerRuns, Running
  <2> QED  BY <2>1, <2>2, <2>4 DEF ProcessInv
<1>2. ASSUME NEW k \in PolicyKinds, lateReact(k)
      PROVE  ProcessInv'
  <2>1. CASE Crash
    BY <2>1, CrashKeeps
  <2>2. CASE ~Crash
    BY <1>2, <2>2 DEF lateReact, ProcessInv, ProcessTypeOK, GenerationsCounted, NeverStarts,
                      StartersBegun,
                      ControllersRun, PoliciesMapped, ChangeNoticed, ManagerRuns, Running
  <2> QED  BY <2>1, <2>2
<1>3. ASSUME NEW k \in PolicyKinds, Evaluate(k)
      PROVE  ProcessInv'
  <2>1. ProcessTypeOK'
    BY <1>3 DEF Evaluate, ProcessInv, ProcessTypeOK
  <2>2. GenerationsCounted' /\ StartersBegun' /\ ControllersRun' /\ PoliciesMapped'
    BY <1>3 DEF Evaluate, ProcessInv, GenerationsCounted, NeverStarts, StartersBegun,
                ControllersRun,
                PoliciesMapped, Running
  <2>3. ChangeNoticed'
    BY <1>3 DEF Evaluate, ProcessInv, ProcessTypeOK, ChangeNoticed, ManagerRuns, Running
  <2> QED  BY <2>1, <2>2, <2>3 DEF ProcessInv
<1>4. CASE buildResourceToWatch
  <2>1. PICK started \in SUBSET GVKs :
            /\ watching' = watching \cup started
            /\ notify' = notify \cup (started \cap objects)
            /\ missed' = missed \cup {k \in built :
                             (started \ objects) \cap (policy[k] \ fresh[k]) # {}}
    <3>1. UNION {policy[k] : k \in PolicyKinds \ {"reloader"}} \ watching \in SUBSET GVKs
      BY DEF ProcessInv, ProcessTypeOK
    <3> QED  BY <1>4, <3>1 DEF buildResourceToWatch
  <2>2. ProcessTypeOK'
    BY <1>4, <2>1 DEF buildResourceToWatch, ProcessInv, ProcessTypeOK
  <2>3. GenerationsCounted' /\ StartersBegun' /\ ControllersRun' /\ PoliciesMapped'
    BY <1>4 DEF buildResourceToWatch, ProcessInv, GenerationsCounted, NeverStarts, StartersBegun,
                ControllersRun, PoliciesMapped, Running
  <2>4. ChangeNoticed'
    BY <1>4, <2>1 DEF buildResourceToWatch, ProcessInv, ChangeNoticed, ManagerRuns, Running
  <2> QED  BY <2>2, <2>3, <2>4 DEF ProcessInv
<1> QED  BY <1>1, <1>2, <1>3, <1>4

LEMMA ProcessStutters ==
    ASSUME ProcessInv, UNCHANGED processVars
    PROVE  ProcessInv'
<1> USE DEF processVars, clusterVars, mainVars, reconcilerVars, managerVars
<1>1. ProcessTypeOK'
  BY DEF ProcessInv, ProcessTypeOK
<1> QED
  BY <1>1 DEF ProcessInv, GenerationsCounted, NeverStarts, StartersBegun, ControllersRun,
              PoliciesMapped,
              ChangeNoticed, ManagerRuns, Running

LEMMA ProcessStepKeeps == ProcessInv /\ [ProcessNext]_processVars => ProcessInv'
<1> SUFFICES ASSUME ProcessInv, [ProcessNext]_processVars PROVE ProcessInv'
  OBVIOUS
<1>1. CASE \E n \in Generations : Starter(n) \/ BuildFails(n)
  BY <1>1, StarterStep
<1>2. CASE \E k \in PolicyKinds : Reconcile(k) \/ reconcileNormal(k)
  BY <1>2, ReconcileStep
<1> QED  BY <1>1, <1>2, ClusterStep, MainStep, ManagerStep, ProcessStutters DEF ProcessNext

LEMMA ProcessInvHolds == ProcessSpec => []ProcessInv
BY ProcessStarts, ProcessStepKeeps, PTL DEF ProcessSpec

\* Every variable keeps its type; while main runs there is exactly the manager
\* of its generation, and between two generations none (manager.go:178).
THEOREM ProcessTypeCorrect == ProcessSpec => []ProcessTypeOK
<1>1. ProcessInv => ProcessTypeOK
  BY DEF ProcessInv
<1> QED  BY <1>1, ProcessInvHolds, PTL

\* For any kinds of policies and however many generations, no change of a watched
\* resource is forgotten: react, the reconcilers' maps and the rebuild leave no
\* gaps but that of an unregistered react (eventsource_controller.go:193) and
\* that of an empty first list (watchers.go:484).
THEOREM ChangesNoticed == ProcessSpec => []ChangeNoticed
<1>1. ProcessInv => ChangeNoticed
  BY DEF ProcessInv
<1> QED  BY <1>1, ProcessInvHolds, PTL

\* Only a crash takes main back to its start while it runs.  A live generation has
\* its manager, so a registration or a late handler finds one, and no signal is
\* pending; what is left is startControllers of an earlier one (main.go:158).
LEMMA LeftoverKills ==
    ProcessInv /\ [ProcessNext]_processVars
        => (Running /\ mpc' = "initialize"
              => \E n \in Generations : n < gen /\ starter[n][1] = "check")
<1> SUFFICES ASSUME ProcessInv, [ProcessNext]_processVars, Running, mpc' = "initialize"
             PROVE  \E n \in Generations : n < gen /\ starter[n][1] = "check"
  OBVIOUS
<1>1. /\ mpc = "running" /\ ~ended /\ ~signalled
      /\ gen \in Nat /\ gen >= 1 /\ instance = gen
  BY BoundsAssumption DEF Running, ProcessInv, ProcessTypeOK, GenerationsCounted, Generations
<1>2. ASSUME NEW n \in Generations, BuildFails(n)
      PROVE  n < gen /\ starter[n][1] = "check"
  <2>1. n \in Nat /\ n <= gen
    BY <1>2 DEF BuildFails, ProcessInv, StartersBegun, Generations
  <2> QED  BY <1>1, <1>2, <2>1 DEF BuildFails
<1>3. ASSUME NEW n \in Generations, Starter(n)
      PROVE  FALSE
  BY <1>1, <1>3 DEF Starter, startControllers, SkipController, Build, Register, mainVars
<1>4. ASSUME NEW k \in PolicyKinds,
             Reconcile(k) \/ reconcileNormal(k) \/ lateReact(k) \/ Evaluate(k)
      PROVE  FALSE
  BY <1>1, <1>4 DEF Reconcile, reconcileNormal, lateReact, Evaluate, mainVars
<1>5. CASE \/ InstallCRD \/ EditPolicy \/ ChangeResource \/ Resync \/ InitializeManager
           \/ ExpireToken \/ restartIfNeeded \/ restart \/ StartReturns \/ Reset \/ Killed
           \/ buildResourceToWatch \/ \E g \in GVKs : react(g)
  BY <1>1, <1>5 DEF InstallCRD, EditPolicy, ChangeResource, Resync, InitializeManager,
                    ExpireToken, restartIfNeeded, restart, StartReturns, Reset, Killed,
                    buildResourceToWatch, react, mainVars
<1>6. CASE UNCHANGED processVars
  BY <1>1, <1>6 DEF processVars, mainVars
<1> QED  BY <1>2, <1>3, <1>4, <1>5, <1>6 DEF ProcessNext

\* A live generation dies of nothing but startControllers of a past one, for any
\* number of expired tokens and signals and any order in which goroutines of all
\* generations run.
THEOREM LeftoversOnly == ProcessSpec => OnlyLeftoversKill
BY ProcessInvHolds, LeftoverKills, PTL DEF ProcessSpec, OnlyLeftoversKill
=============================================================================
