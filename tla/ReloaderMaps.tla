---------------------------- MODULE ReloaderMaps ----------------------------
(***************************************************************************)
(* The three maps that tell which workloads to reload when a mounted       *)
(* ConfigMap or Secret changes (pkg/evaluation/reloader_evaluation.go),    *)
(* and evaluateReloaderInstance, which maintains them.  The maps belong to *)
(* the evaluateReloaders goroutine, so an evaluation interleaves with the  *)
(* users' changes (each workload is read from the API when its turn comes) *)
(* and with failures and crashes, not with other evaluations.              *)
(*                                                                         *)
(* A workload is a Deployment, StatefulSet or DaemonSet; a volume is a     *)
(* mounted ConfigMap or Secret.  Every set stored in resourceMap and       *)
(* volumeMap is deleted when it becomes empty, so {} stands for "no entry" *)
(* (a nil *Set in the code); reloaderMap's entries are only compared, and  *)
(* {} and "no entry" compare alike.                                        *)
(***************************************************************************)
EXTENDS Naturals, SequencesExt

CONSTANTS Reloaders, Workloads, Volumes,
          MaxInfo,   \* bound on the length of spec.reloaderInfo
          MaxEdits   \* bound on the changes users make

VARIABLES
    \* the cluster
    spec,         \* spec[r]: Spec.ReloaderInfo of r; r exists if r \in live
    live,         \* Reloaders that exist and are not being deleted
    mounts,       \* mounts[w]: the volumes w mounts; w exists if w \in deployed
    deployed,     \* workloads that exist
    edits,        \* changes made so far
    \* the maps
    reloaderMap, resourceMap, volumeMap,
    \* evaluateReloaderInstance
    evaluating,   \* the Reloader under evaluation, as a set of at most one
    info,         \* the part of its ReloaderInfo not walked yet
    current,      \* currentResources
    panicked,     \* the goroutine dereferenced a nil *Set
    \* history
    forgotten,    \* Reloaders whose last evaluation found them deleted
    tracked,      \* Reloaders whose last evaluation succeeded
    seen          \* seen[w]: what w mounted when it was last read

cluster == <<spec, live, mounts, deployed, edits>>
maps == <<reloaderMap, resourceMap, volumeMap>>
history == <<forgotten, tracked, seen>>
vars == <<cluster, maps, evaluating, info, current, panicked, history>>

Infos == {s \in SeqOf(Workloads, MaxInfo) : IsInjective(s)}

Empty(S) == [x \in S |-> {}]

Init == /\ spec \in [Reloaders -> Infos]
        /\ live = Reloaders
        /\ mounts \in [Workloads -> SUBSET Volumes]
        /\ deployed = Workloads
        /\ edits = 0
        /\ reloaderMap = Empty(Reloaders)
        /\ resourceMap = Empty(Workloads)
        /\ volumeMap = Empty(Volumes)
        /\ evaluating = {} /\ info = <<>> /\ current = {} /\ panicked = FALSE
        /\ forgotten = {} /\ tracked = {} /\ seen = Empty(Workloads)

(***************************************************************************)
(* The users.                                                              *)
(***************************************************************************)
Edit == /\ edits < MaxEdits
        /\ edits' = edits + 1
        /\ UNCHANGED <<maps, evaluating, info, current, panicked, history>>

EditReloader(r, s) == /\ Edit
                      /\ spec' = [spec EXCEPT ![r] = s]
                      /\ live' = live \cup {r}
                      /\ UNCHANGED <<mounts, deployed>>

DeleteReloader(r) == /\ Edit
                     /\ r \in live
                     /\ live' = live \ {r}
                     /\ UNCHANGED <<spec, mounts, deployed>>

EditWorkload(w, V) == /\ Edit
                      /\ mounts' = [mounts EXCEPT ![w] = V]
                      /\ deployed' = deployed \cup {w}
                      /\ UNCHANGED <<spec, live>>

DeleteWorkload(w) == /\ Edit
                     /\ w \in deployed
                     /\ deployed' = deployed \ {w}
                     /\ UNCHANGED <<spec, live, mounts>>

(***************************************************************************)
(* Erasing from the maps.                                                  *)
(***************************************************************************)
\* reloaderSet.Erase(r) in the entries of the workloads W.
EraseReloader(rm, r, W) == [w \in Workloads |-> IF w \in W THEN rm[w] \ {r} ELSE rm[w]]

\* Mutated form of Orphans: other Reloaders' references are not looked at.
OrphansUnchecked(rm, r, W) == {w \in W : rm[w] # {}}

\* The workloads of W that lost their last Reloader.
Orphans(rm, r, W) == {w \in W : rm[w] \ {r} = {} /\ rm[w] # {}}

\* Mutated form of cleanVolumeMap: the volumes are left alone.
cleanVolumeMapSkipped(vm, W) == vm

\* cleanVolumeMap for each workload of W.
cleanVolumeMap(vm, W) == [v \in Volumes |-> vm[v] \ W]

(***************************************************************************)
(* evaluateReloaderInstance.  Requests come at any time (reconciles,       *)
(* resyncs), so an evaluation may start whenever none is running.          *)
(***************************************************************************)
Idle == evaluating = {} /\ ~panicked

\* Mutated form of EvaluateDeleted: only the workloads reloaderMap lists are
\* cleaned, not every entry of resourceMap.
EvaluateDeletedListed(r) ==
    /\ Idle
    /\ r \notin live
    /\ reloaderMap' = [reloaderMap EXCEPT ![r] = {}]
    /\ resourceMap' = EraseReloader(resourceMap, r, reloaderMap[r])
    /\ volumeMap' = cleanVolumeMap(volumeMap, Orphans(resourceMap, r, reloaderMap[r]))
    /\ forgotten' = forgotten \cup {r}
    /\ tracked' = tracked \ {r}
    /\ UNCHANGED <<cluster, evaluating, info, current, panicked, seen>>

\* The Reloader is gone: cleanReloaderMap and cleanResourceMap.
EvaluateDeleted(r) ==
    /\ Idle
    /\ r \notin live
    /\ reloaderMap' = [reloaderMap EXCEPT ![r] = {}]
    /\ resourceMap' = EraseReloader(resourceMap, r, Workloads)
    /\ volumeMap' = cleanVolumeMap(volumeMap, Orphans(resourceMap, r, Workloads))
    /\ forgotten' = forgotten \cup {r}
    /\ tracked' = tracked \ {r}
    /\ UNCHANGED <<cluster, evaluating, info, current, panicked, seen>>

\* Mutated form of BeginEvaluation: a second goroutine evaluates meanwhile.
BeginEvaluationConcurrent(r) == /\ ~panicked
                                /\ r \in live
                                /\ evaluating' = evaluating \cup {r}
                                /\ info' = spec[r]
                                /\ current' = {}
                                /\ forgotten' = forgotten \ {r}
                                /\ tracked' = tracked \ {r}
                                /\ UNCHANGED <<cluster, maps, panicked, seen>>

BeginEvaluation(r) == /\ Idle
                      /\ r \in live
                      /\ evaluating' = {r}
                      /\ info' = spec[r]
                      /\ current' = {}
                      /\ forgotten' = forgotten \ {r}
                      /\ tracked' = tracked \ {r}
                      /\ UNCHANGED <<cluster, maps, panicked, seen>>

\* One iteration over ReloaderInfo.  The workload is registered, its volumes
\* are read and inserted; then the workloads previously referenced and not in
\* currentResources are erased (currentResources holds only the part of the
\* list walked so far).  Erasing from a workload without entry is the nil
\* dereference; nothing that happened in memory matters then.
WalkWorkload(r, w) ==
    LET cur2 == current \cup {w}
        rm == [resourceMap EXCEPT ![w] = @ \cup {r}]
        vm == [v \in Volumes |-> IF v \in mounts[w] THEN volumeMap[v] \cup {w}
                                                    ELSE volumeMap[v]]
        toBeRemoved == reloaderMap[r] \ cur2
    IN  /\ r \in evaluating /\ ~panicked
        /\ info # <<>> /\ w = Head(info)
        /\ w \in deployed
        /\ info' = Tail(info)
        /\ current' = cur2
        /\ seen' = [seen EXCEPT ![w] = mounts[w]]
        /\ panicked' = (\E x \in toBeRemoved : rm[x] = {})
        /\ resourceMap' = EraseReloader(rm, r, toBeRemoved)
        /\ volumeMap' = cleanVolumeMap(vm, Orphans(rm, r, toBeRemoved))
        /\ UNCHANGED <<cluster, reloaderMap, evaluating, forgotten, tracked>>

\* updateVolumeMap fails (the workload is not there, or the read fails): the
\* evaluation returns, with the workload registered and reloaderMap as it was.
WalkFails(r, w) ==
    /\ r \in evaluating /\ ~panicked
    /\ info # <<>> /\ w = Head(info)
    /\ resourceMap' = [resourceMap EXCEPT ![w] = @ \cup {r}]
    /\ evaluating' = {} /\ info' = <<>> /\ current' = {}
    /\ UNCHANGED <<cluster, reloaderMap, volumeMap, panicked, history>>

EndEvaluation(r) == /\ r \in evaluating /\ ~panicked
                    /\ info = <<>>
                    /\ reloaderMap' = [reloaderMap EXCEPT ![r] = current]
                    /\ evaluating' = {} /\ current' = {}
                    /\ tracked' = tracked \cup {r}
                    /\ UNCHANGED <<cluster, resourceMap, volumeMap, info, panicked,
                                   forgotten, seen>>

\* The process is restarted (after a panic, or for any other reason) and
\* initializeReloaderMaps makes new maps.
Restart == /\ reloaderMap' = Empty(Reloaders)
           /\ resourceMap' = Empty(Workloads)
           /\ volumeMap' = Empty(Volumes)
           /\ evaluating' = {} /\ info' = <<>> /\ current' = {} /\ panicked' = FALSE
           /\ forgotten' = {} /\ tracked' = {} /\ seen' = Empty(Workloads)
           /\ UNCHANGED cluster

Next == \/ \E r \in Reloaders : \/ \E s \in Infos : EditReloader(r, s)
                                \/ DeleteReloader(r)
                                \/ EvaluateDeleted(r)
                                \/ BeginEvaluation(r)
                                \/ EndEvaluation(r)
        \/ \E w \in Workloads : \/ \E V \in SUBSET Volumes : EditWorkload(w, V)
                                \/ DeleteWorkload(w)
        \/ \E r \in Reloaders, w \in Workloads : WalkWorkload(r, w) \/ WalkFails(r, w)
        \/ Restart

Spec == Init /\ [][Next]_vars

(***************************************************************************)
(* Properties.                                                             *)
(***************************************************************************)
MapTypes == /\ mounts \in [Workloads -> SUBSET Volumes]
            /\ reloaderMap \in [Reloaders -> SUBSET Workloads]
            /\ resourceMap \in [Workloads -> SUBSET Reloaders]
            /\ volumeMap \in [Volumes -> SUBSET Workloads]
            /\ seen \in [Workloads -> SUBSET Volumes]
            /\ current \subseteq Workloads
            /\ evaluating = {} \/ \E r \in Reloaders : evaluating = {r}
            /\ forgotten \subseteq Reloaders /\ tracked \subseteq Reloaders

\* Types; an evaluation under way is of one Reloader.
TypeOK == /\ MapTypes
          /\ spec \in [Reloaders -> Infos] /\ live \subseteq Reloaders
          /\ deployed \subseteq Workloads
          /\ info \in Seq(Workloads)
          /\ panicked \in BOOLEAN
          /\ edits \in Nat

\* A change of a mounted ConfigMap or Secret reloads only workloads that some
\* Reloader references: volumeMap holds no workload without a resourceMap entry,
\* after partial evaluations and failures too.
VolumesBacked == \A v \in Volumes : \A w \in volumeMap[v] : resourceMap[w] # {}

\* A Reloader evaluated after its deletion is in no map.
DeletedReloaderForgotten == \A r \in forgotten :
    reloaderMap[r] = {} /\ \A w \in Workloads : r \notin resourceMap[w]

\* When every Reloader has been evaluated after its deletion nothing is left in
\* the maps, whatever partial evaluations came before: they do not leak.
NothingLeft == forgotten = Reloaders =>
    resourceMap = Empty(Workloads) /\ volumeMap = Empty(Volumes)

\* After a successful evaluation of a Reloader, and while other Reloaders are
\* evaluated, fail or are deleted, each of its workloads is registered and is
\* found from every volume it mounted when it was last read.
EvaluatedReloaderTracked == \A r \in tracked : \A w \in reloaderMap[r] :
    /\ r \in resourceMap[w]
    /\ \A v \in seen[w] : w \in volumeMap[v]

\* What makes the properties above inductive: the Reloader under evaluation is
\* neither forgotten nor tracked, and the workloads it has walked so far are
\* registered and found from their volumes.
WalkedSoFar == /\ evaluating \cap (forgotten \cup tracked) = {}
               /\ \A r \in evaluating : \A w \in current :
                     /\ r \in resourceMap[w]
                     /\ \A v \in seen[w] : w \in volumeMap[v]

(***************************************************************************)
(* What comments in the code say and the code does not do.                 *)
(***************************************************************************)
\* "Compare list of Deployment/StatefulSet/DaemonSet currently referenced and
\* previously referenced": the comparison never meets a missing entry.
NoPanic == ~panicked
=============================================================================
