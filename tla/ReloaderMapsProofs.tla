------------------------- MODULE ReloaderMapsProofs -------------------------
(***************************************************************************)
(* Proofs about ReloaderMaps for any Reloaders, workloads and volumes, any *)
(* length of the lists and any number of changes.  The inductive invariant *)
(* adds WalkedSoFar (what holds of the evaluation under way) to the        *)
(* properties themselves.                                                  *)
(***************************************************************************)
EXTENDS ReloaderMaps, TLAPS

IndInv == /\ MapTypes
          /\ VolumesBacked
          /\ DeletedReloaderForgotten
          /\ EvaluatedReloaderTracked
          /\ WalkedSoFar

\* Empty maps satisfy the invariant.
LEMMA InitIndInv == Init => IndInv
  BY DEF Init, IndInv, MapTypes, VolumesBacked, DeletedReloaderForgotten,
         EvaluatedReloaderTracked, WalkedSoFar, Empty

\* A user's change touches at most what workloads mount.
LEMMA EditsKeepIndInv ==
    ASSUME IndInv, mounts' \in [Workloads -> SUBSET Volumes],
           UNCHANGED <<maps, evaluating, current, history>>
    PROVE  IndInv'
  BY DEF IndInv, MapTypes, VolumesBacked, DeletedReloaderForgotten,
         EvaluatedReloaderTracked, WalkedSoFar, maps, history

\* The evaluation of a deleted Reloader: what loses its last Reloader leaves
\* volumeMap too; the other Reloaders' entries stay.
LEMMA EvaluateDeletedKeepsIndInv ==
    ASSUME IndInv, NEW r \in Reloaders, EvaluateDeleted(r)
    PROVE  IndInv'
<1> USE DEF IndInv, MapTypes, EvaluateDeleted, EraseReloader, cleanVolumeMap, Orphans, Idle
<1>1. MapTypes'
  BY DEF cluster
<1>2. VolumesBacked'
  BY DEF VolumesBacked
<1>3. DeletedReloaderForgotten'
  BY DEF DeletedReloaderForgotten
<1>4. EvaluatedReloaderTracked'
  BY DEF EvaluatedReloaderTracked
<1>5. WalkedSoFar'
  BY DEF WalkedSoFar
<1>6. QED
  BY <1>1, <1>2, <1>3, <1>4, <1>5

\* The Reloader evaluated next is neither tracked nor forgotten any more.
LEMMA BeginEvaluationKeepsIndInv ==
    ASSUME IndInv, NEW r \in Reloaders, BeginEvaluation(r)
    PROVE  IndInv'
  BY DEF IndInv, BeginEvaluation, MapTypes, VolumesBacked, DeletedReloaderForgotten,
         EvaluatedReloaderTracked, WalkedSoFar, cluster, maps

\* One iteration: the workload walked is registered before its volumes are
\* inserted, and a workload leaves volumeMap exactly when its last Reloader does.
LEMMA WalkWorkloadKeepsIndInv ==
    ASSUME IndInv, NEW r \in Reloaders, NEW w \in Workloads, WalkWorkload(r, w)
    PROVE  IndInv'
<1> DEFINE cur2 == current \cup {w}
           rm == [resourceMap EXCEPT ![w] = @ \cup {r}]
           vm == [v \in Volumes |-> IF v \in mounts[w] THEN volumeMap[v] \cup {w}
                                                       ELSE volumeMap[v]]
           toBeRemoved == reloaderMap[r] \ cur2
           gone == Orphans(rm, r, toBeRemoved)
<1>1. /\ r \in evaluating /\ evaluating = {r}
      /\ current' = cur2
      /\ seen' = [seen EXCEPT ![w] = mounts[w]]
      /\ resourceMap' = EraseReloader(rm, r, toBeRemoved)
      /\ volumeMap' = cleanVolumeMap(vm, gone)
      /\ mounts' = mounts /\ reloaderMap' = reloaderMap /\ evaluating' = evaluating
      /\ forgotten' = forgotten /\ tracked' = tracked
  BY DEF WalkWorkload, IndInv, MapTypes, cluster
<1>2. /\ rm \in [Workloads -> SUBSET Reloaders]
      /\ \A x \in Workloads : rm[x] = IF x = w THEN resourceMap[w] \cup {r}
                                               ELSE resourceMap[x]
  BY DEF IndInv, MapTypes
<1>3. /\ vm \in [Volumes -> SUBSET Workloads]
      /\ \A v \in Volumes : vm[v] = IF v \in mounts[w] THEN volumeMap[v] \cup {w}
                                                       ELSE volumeMap[v]
  BY DEF IndInv, MapTypes
<1>4. /\ resourceMap' \in [Workloads -> SUBSET Reloaders]
      /\ \A x \in Workloads :
            resourceMap'[x] = IF x \in toBeRemoved THEN rm[x] \ {r} ELSE rm[x]
  BY <1>1, <1>2 DEF EraseReloader
<1>5. gone = {x \in toBeRemoved : rm[x] \ {r} = {} /\ rm[x] # {}}
  BY DEF Orphans
<1>6. /\ volumeMap' \in [Volumes -> SUBSET Workloads]
      /\ \A v \in Volumes : volumeMap'[v] = vm[v] \ gone
  BY <1>1, <1>3 DEF cleanVolumeMap
<1>7. w \notin toBeRemoved /\ toBeRemoved \subseteq Workloads
  BY DEF IndInv, MapTypes
<1> HIDE DEF cur2, rm, vm, toBeRemoved, gone
<1>8. MapTypes'
  <2>1. current' \subseteq Workloads
    BY <1>1 DEF IndInv, MapTypes, cur2
  <2>2. seen' \in [Workloads -> SUBSET Volumes]
    BY <1>1 DEF IndInv, MapTypes
  <2>3. QED
    BY <2>1, <2>2, <1>1, <1>4, <1>6 DEF IndInv, MapTypes
<1>9. VolumesBacked'
  <2> SUFFICES ASSUME NEW v \in Volumes, NEW x \in volumeMap'[v]
               PROVE  resourceMap'[x] # {}
    BY DEF VolumesBacked
  <2>1. x \in vm[v] /\ x \notin gone /\ x \in Workloads
    BY <1>3, <1>6
  <2>2. rm[x] # {}
    BY <2>1, <1>2, <1>3 DEF IndInv, VolumesBacked, MapTypes
  <2>3. QED
    BY <2>1, <2>2, <1>4, <1>5
<1>10. DeletedReloaderForgotten'
  BY <1>1, <1>2, <1>4 DEF IndInv, DeletedReloaderForgotten, WalkedSoFar
<1>11. ASSUME NEW s \in Reloaders, NEW x \in Workloads, s \in resourceMap[x],
              \A v \in seen[x] : x \in volumeMap[v], s # r \/ x \notin toBeRemoved
       PROVE  s \in resourceMap'[x] /\ \A v \in seen'[x] : x \in volumeMap'[v]
  <2>1. s \in resourceMap'[x]
    BY <1>2, <1>4, <1>11
  <2>2. x \notin gone
    BY <1>2, <1>5, <1>11
  <2>3. x = w => seen'[x] = mounts[w]
    BY <1>1 DEF IndInv, MapTypes
  <2>4. x # w => seen'[x] = seen[x]
    BY <1>1 DEF IndInv, MapTypes
  <2>5. mounts[w] \subseteq Volumes /\ seen[x] \subseteq Volumes
    BY DEF IndInv, MapTypes
  <2>6. \A v \in seen'[x] : x \in vm[v]
    BY <2>3, <2>4, <2>5, <1>3, <1>11
  <2>7. QED
    BY <2>1, <2>2, <2>3, <2>4, <2>5, <2>6, <1>6
<1>12. EvaluatedReloaderTracked'
  <2> SUFFICES ASSUME NEW s \in tracked, NEW x \in reloaderMap[s]
               PROVE  s \in resourceMap'[x] /\ \A v \in seen'[x] : x \in volumeMap'[v]
    BY <1>1 DEF EvaluatedReloaderTracked
  <2>1. s \in Reloaders /\ x \in Workloads /\ s # r
    BY <1>1 DEF IndInv, MapTypes, WalkedSoFar
  <2>2. QED
    BY <2>1, <1>11 DEF IndInv, EvaluatedReloaderTracked
<1>13. WalkedSoFar'
  <2>1. evaluating' \cap (forgotten' \cup tracked') = {}
    BY <1>1 DEF IndInv, WalkedSoFar
  <2>2. ASSUME NEW x \in cur2
        PROVE  r \in resourceMap'[x] /\ \A v \in seen'[x] : x \in volumeMap'[v]
    <3>1. CASE x = w
      <4>1. r \in resourceMap'[w]
        BY <1>2, <1>4, <1>7
      <4>2. seen'[w] = mounts[w] /\ mounts[w] \subseteq Volumes
        BY <1>1 DEF IndInv, MapTypes
      <4>3. QED
        BY <3>1, <4>1, <4>2, <1>3, <1>5, <1>6, <1>7
    <3>2. CASE x # w
      <4>1. x \in current /\ x \notin toBeRemoved
        BY <2>2, <3>2 DEF cur2, toBeRemoved
      <4>2. r \in resourceMap[x] /\ \A v \in seen[x] : x \in volumeMap[v]
        BY <4>1, <1>1 DEF IndInv, WalkedSoFar
      <4>3. x \in Workloads
        BY <4>1 DEF IndInv, MapTypes
      <4>4. QED
        BY <4>1, <4>2, <4>3, <1>11
    <3>3. QED
      BY <3>1, <3>2
  <2>3. QED
    BY <2>1, <2>2, <1>1 DEF WalkedSoFar
<1>14. QED
  BY <1>8, <1>9, <1>10, <1>12, <1>13 DEF IndInv

\* A read that fails ends the evaluation; what was registered so far is backed.
LEMMA WalkFailsKeepsIndInv ==
    ASSUME IndInv, NEW r \in Reloaders, NEW w \in Workloads, WalkFails(r, w)
    PROVE  IndInv'
<1>1. /\ resourceMap' \in [Workloads -> SUBSET Reloaders]
      /\ \A x \in Workloads : resourceMap[x] \subseteq resourceMap'[x]
      /\ \A x \in Workloads, s \in Reloaders :
            s # r => (s \in resourceMap'[x] <=> s \in resourceMap[x])
  BY DEF WalkFails, IndInv, MapTypes
<1>2. /\ evaluating' = {} /\ current' = {} /\ r \in evaluating
      /\ UNCHANGED <<mounts, reloaderMap, volumeMap, history>>
  BY DEF WalkFails, cluster
<1>3. MapTypes'
  BY <1>1, <1>2 DEF IndInv, MapTypes, history
<1>4. VolumesBacked'
  <2> SUFFICES ASSUME NEW v \in Volumes, NEW x \in volumeMap[v]
               PROVE  resourceMap'[x] # {}
    BY <1>2 DEF VolumesBacked
  <2>1. x \in Workloads /\ resourceMap[x] # {}
    BY DEF IndInv, MapTypes, VolumesBacked
  <2>2. QED
    BY <2>1, <1>1
<1>5. DeletedReloaderForgotten'
  BY <1>1, <1>2 DEF IndInv, MapTypes, DeletedReloaderForgotten, WalkedSoFar, history
<1>6. EvaluatedReloaderTracked'
  BY <1>1, <1>2 DEF IndInv, MapTypes, EvaluatedReloaderTracked, history
<1>7. WalkedSoFar'
  BY <1>2 DEF WalkedSoFar
<1>8. QED
  BY <1>3, <1>4, <1>5, <1>6, <1>7 DEF IndInv

\* The workloads walked become the Reloader's tracked ones.
LEMMA EndEvaluationKeepsIndInv ==
    ASSUME IndInv, NEW r \in Reloaders, EndEvaluation(r)
    PROVE  IndInv'
  BY DEF IndInv, EndEvaluation, MapTypes, VolumesBacked, DeletedReloaderForgotten,
         EvaluatedReloaderTracked, WalkedSoFar, cluster

\* A restart empties the maps.
LEMMA RestartKeepsIndInv ==
    ASSUME IndInv, Restart
    PROVE  IndInv'
  BY DEF IndInv, Restart, MapTypes, VolumesBacked, DeletedReloaderForgotten,
         EvaluatedReloaderTracked, WalkedSoFar, Empty, cluster

\* Every step keeps the invariant.
LEMMA NextKeepsIndInv ==
    ASSUME IndInv, [Next]_vars
    PROVE  IndInv'
<1>1. ASSUME NEW r \in Reloaders, NEW s \in Infos, EditReloader(r, s) PROVE IndInv'
  BY <1>1, EditsKeepIndInv DEF EditReloader, Edit, IndInv, MapTypes
<1>2. ASSUME NEW r \in Reloaders, DeleteReloader(r) PROVE IndInv'
  BY <1>2, EditsKeepIndInv DEF DeleteReloader, Edit, IndInv, MapTypes
<1>3. ASSUME NEW w \in Workloads, NEW V \in SUBSET Volumes, EditWorkload(w, V) PROVE IndInv'
  BY <1>3, EditsKeepIndInv DEF EditWorkload, Edit, IndInv, MapTypes
<1>4. ASSUME NEW w \in Workloads, DeleteWorkload(w) PROVE IndInv'
  BY <1>4, EditsKeepIndInv DEF DeleteWorkload, Edit, IndInv, MapTypes
<1>5. CASE UNCHANGED vars
  BY <1>5, EditsKeepIndInv DEF vars, cluster, IndInv, MapTypes
<1>6. QED
  BY <1>1, <1>2, <1>3, <1>4, <1>5, EvaluateDeletedKeepsIndInv, BeginEvaluationKeepsIndInv,
     WalkWorkloadKeepsIndInv, WalkFailsKeepsIndInv, EndEvaluationKeepsIndInv,
     RestartKeepsIndInv DEF Next

\* Without Reloaders left no workload is registered, hence no volume is.
LEMMA ForgottenLeavesNothing == IndInv => NothingLeft
<1> SUFFICES ASSUME IndInv, forgotten = Reloaders
             PROVE  resourceMap = Empty(Workloads) /\ volumeMap = Empty(Volumes)
  BY DEF NothingLeft
<1>1. \A w \in Workloads : resourceMap[w] = {}
  BY DEF IndInv, MapTypes, DeletedReloaderForgotten
<1>2. \A v \in Volumes : volumeMap[v] = {}
  BY <1>1 DEF IndInv, MapTypes, VolumesBacked
<1>3. QED
  BY <1>1, <1>2 DEF IndInv, MapTypes, Empty

\* The invariant holds in every state.
LEMMA IndInvHolds == Spec => []IndInv
<1>1. IndInv /\ [Next]_vars => IndInv'
  BY NextKeepsIndInv
<1>2. QED
  BY InitIndInv, <1>1, PTL DEF Spec

\* volumeMap names only workloads that a Reloader references, through failures,
\* partial evaluations and restarts: updateVolumeMap runs after the workload was
\* registered, and cleanVolumeMap whenever its last Reloader is erased.
THEOREM VolumesAreBacked == Spec => []VolumesBacked
<1>1. IndInv => VolumesBacked
  BY DEF IndInv
<1>2. QED
  BY <1>1, IndInvHolds, PTL

\* A Reloader that was evaluated after its deletion is in no map.
THEOREM DeletedReloadersForgotten == Spec => []DeletedReloaderForgotten
<1>1. IndInv => DeletedReloaderForgotten
  BY DEF IndInv
<1>2. QED
  BY <1>1, IndInvHolds, PTL

\* Nothing is left of deleted Reloaders: the maps do not leak.
THEOREM NothingIsLeft == Spec => []NothingLeft
<1>1. IndInv => NothingLeft
  BY ForgottenLeavesNothing
<1>2. QED
  BY <1>1, IndInvHolds, PTL

\* The workloads of a Reloader whose last evaluation succeeded are found from
\* every volume they mounted when last read, whatever happens to the others.
THEOREM TrackedReloadersServed == Spec => []EvaluatedReloaderTracked
<1>1. IndInv => EvaluatedReloaderTracked
  BY DEF IndInv
<1>2. QED
  BY <1>1, IndInvHolds, PTL

\* The workloads the evaluation under way has walked are registered and found
\* from their volumes: cleaning up what was referenced before, after each
\* workload, takes none of them away.
THEOREM WalkedWorkloadsServed == Spec => []WalkedSoFar
<1>1. IndInv => WalkedSoFar
  BY DEF IndInv
<1>2. QED
  BY <1>1, IndInvHolds, PTL

(***************************************************************************)
(* The types of the rest of the state.                                     *)
(***************************************************************************)
\* A list of workloads is a sequence of them.
LEMMA InfosAreSeqs == Infos \subseteq Seq(Workloads)
<1> SUFFICES ASSUME NEW s \in SeqOf(Workloads, MaxInfo) PROVE s \in Seq(Workloads)
  BY DEF Infos
<1>1. PICK m \in 0..MaxInfo : s \in [1..m -> Workloads]
  BY DEF SeqOf
<1>2. m \in Nat
  BY <1>1
<1>3. QED
  BY <1>1, <1>2

\* Every step keeps them.
LEMMA NextKeepsTypes ==
    ASSUME IndInv, TypeOK, [Next]_vars
    PROVE  TypeOK'
<1>1. MapTypes'
  BY NextKeepsIndInv DEF IndInv
<1>2. edits' \in Nat /\ live' \subseteq Reloaders /\ deployed' \subseteq Workloads
  <2>1. edits' \in Nat
    <3>1. edits' = edits + 1 \/ edits' = edits
      BY DEF Next, vars, cluster, Edit, EditReloader, DeleteReloader, EditWorkload,
             DeleteWorkload, EvaluateDeleted, BeginEvaluation, WalkWorkload, WalkFails,
             EndEvaluation, Restart
    <3>2. QED
      BY <3>1 DEF TypeOK
  <2>2. live' \subseteq Reloaders
    BY DEF TypeOK, Next, vars, cluster, Edit, EditReloader, DeleteReloader, EditWorkload,
           DeleteWorkload, EvaluateDeleted, BeginEvaluation, WalkWorkload, WalkFails,
           EndEvaluation, Restart
  <2>3. deployed' \subseteq Workloads
    BY DEF TypeOK, Next, vars, cluster, Edit, EditReloader, DeleteReloader, EditWorkload,
           DeleteWorkload, EvaluateDeleted, BeginEvaluation, WalkWorkload, WalkFails,
           EndEvaluation, Restart
  <2>4. QED
    BY <2>1, <2>2, <2>3
<1>3. spec' \in [Reloaders -> Infos]
  BY DEF TypeOK, Next, vars, cluster, Edit, EditReloader, DeleteReloader, EditWorkload,
         DeleteWorkload, EvaluateDeleted, BeginEvaluation, WalkWorkload, WalkFails,
         EndEvaluation, Restart
<1>4. panicked' \in BOOLEAN
  BY DEF TypeOK, Next, vars, Edit, EditReloader, DeleteReloader, EditWorkload,
         DeleteWorkload, EvaluateDeleted, BeginEvaluation, WalkWorkload, WalkFails,
         EndEvaluation, Restart
<1>5. info' \in Seq(Workloads)
  <2>1. ASSUME NEW r \in Reloaders, BeginEvaluation(r) PROVE info' \in Seq(Workloads)
    BY <2>1, InfosAreSeqs DEF TypeOK, BeginEvaluation
  <2>2. ASSUME NEW r \in Reloaders, NEW w \in Workloads, WalkWorkload(r, w)
        PROVE  info' \in Seq(Workloads)
    BY <2>2 DEF TypeOK, WalkWorkload
  <2>3. CASE info' = info
    BY <2>3 DEF TypeOK
  <2>4. CASE info' = <<>>
    BY <2>4
  <2>5. QED
    BY <2>1, <2>2, <2>3, <2>4
       DEF Next, vars, Edit, EditReloader, DeleteReloader, EditWorkload, DeleteWorkload,
           EvaluateDeleted, WalkFails, EndEvaluation, Restart
<1>6. QED
  BY <1>1, <1>2, <1>3, <1>4, <1>5 DEF TypeOK

\* The maps keep their types and an evaluation under way is of one Reloader.
THEOREM TypeCorrect == Spec => []TypeOK
<1>1. Init => TypeOK
  <2> SUFFICES ASSUME Init PROVE TypeOK
    OBVIOUS
  <2>1. MapTypes
    BY InitIndInv DEF IndInv
  <2>2. panicked \in BOOLEAN
    BY DEF Init
  <2>3. QED
    BY <2>1, <2>2 DEF Init, TypeOK
<1>2. IndInv /\ TypeOK /\ [Next]_vars => TypeOK'
  BY NextKeepsTypes
<1>3. QED
  BY <1>1, <1>2, IndInvHolds, PTL DEF Spec
=============================================================================
