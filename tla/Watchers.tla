------------------------------ MODULE Watchers ------------------------------
(***************************************************************************)
(* Which resources the agent watches (pkg/evaluation/watchers.go), the     *)
(* restart when a missing CustomResourceDefinition is installed            *)
(* (manager.go restartIfNeeded), and the NATS configuration Secret         *)
(* (nats_evaluation.go listenForCloudEvents, reactToNATS).                 *)
(*                                                                         *)
(* Goroutines: the reconcilers, which only raise rebuildResourceToWatch;   *)
(* buildResourceToWatch, which lists the policies and starts informers;    *)
(* listenForCloudEvents, which loads the NATS Secret and starts the Secret *)
(* informer without taking m.mu; the CRD watcher; the informers, which     *)
(* deliver Secret notifications to reactToNATS.                            *)
(*                                                                         *)
(* The SIGTERM the agent sends to itself cancels the context of the signal *)
(* handler for good (main.go:107).  main does not look at it: it goes on   *)
(* with generations whose context is cancelled from the start, in which    *)
(* nothing runs, until something outside the agent starts a new process.   *)
(*                                                                         *)
(* A GVK is a tuple <<group, version, kind>>.  A policy stands for a       *)
(* Classifier, HealthCheck or EventSource.                                 *)
(***************************************************************************)
EXTENDS Naturals, SequencesExt

CONSTANTS Policies,       \* Classifiers, HealthChecks and EventSources
          Reloaders,      \* Reloaders
          CustomGVKs,     \* GVKs that exist once their CRD is installed
          WorkloadKinds,  \* kinds of workload a Reloader can name
          NatsContents,   \* contents the NATS Secret can have
          MaxEdits,       \* bound on the changes users make
          MaxFailures     \* bound on the failures of API calls

SecretGVK == <<"", "v1", "Secret">>
AppsV1(kind) == <<"apps", "v1", kind>>

\* addGVKsForReloader: the Version field is filled with the group's name.
ReloaderGVK(kind) == <<"apps", "apps", kind>>

BuiltIn == {SecretGVK} \cup {AppsV1(kind) : kind \in WorkloadKinds}
GVKs == BuiltIn \cup CustomGVKs \cup {ReloaderGVK(kind) : kind \in WorkloadKinds}

ASSUME FiniteAssumption == IsFiniteSet(GVKs)

VARIABLES
    \* the cluster
    selects,     \* selects[p]: the GVKs of p's selectors; {} when p is deleted
    reloads,     \* reloads[r]: the kinds of workload Reloader r names
    installed,   \* the GVKs the API server serves
    natsSecret,  \* the content of Secret projectsveltos/sveltos-nats, or "absent"
    budget,      \* changes and failures still allowed
    \* the agent
    dirty,       \* policies with a reconcile request pending
    crdEvents,   \* GVKs whose CRD notification is pending
    rebuild,     \* rebuildResourceToWatch
    bpc,         \* where buildResourceToWatch is
    building,    \* the GVK whose informer it is building, as a set
    wanted,      \* gvksMap of the current rebuild
    todo,        \* the part of the list updateWatchers has not reached
    api,         \* apiResources
    resourcesToWatch,
    watchers,    \* the keys of m.watchers
    informers,   \* informers[g]: informers running for g
    unknown,     \* unknownResourcesToWatch (a slice with repetitions, searched only)
    spc,         \* where listenForCloudEvents is
    hash,        \* messagingConfigurationHash; "nil" when there is none
    notes,       \* notifications about the NATS Secret not delivered yet
    signalled    \* SIGTERM has been sent: the signal handler's context is cancelled

cluster == <<selects, reloads, installed, natsSecret, budget>>
builder == <<bpc, building, wanted, todo, api, resourcesToWatch>>
watching == <<watchers, informers, notes>>
vars == <<cluster, dirty, crdEvents, rebuild, builder, watching, unknown, spc, hash,
          signalled>>

(***************************************************************************)
(* Start and restart.                                                      *)
(***************************************************************************)
\* A Reloader that names no workload is as good as none.
Init == /\ selects \in [Policies -> SUBSET CustomGVKs]
        /\ reloads \in [Reloaders -> SUBSET WorkloadKinds \ {{}}]
        /\ installed = BuiltIn
        /\ natsSecret \in NatsContents \cup {"absent"}
        /\ budget = [edits |-> MaxEdits, failures |-> MaxFailures]
        /\ dirty = Policies /\ crdEvents = {} /\ rebuild = FALSE
        /\ bpc = "top" /\ building = {} /\ wanted = {} /\ todo = {} /\ api = {}
        /\ resourcesToWatch = <<>> /\ watchers = {} /\ informers = [g \in GVKs |-> 0]
        /\ notes = <<>> /\ unknown = {} /\ spc = "load" /\ hash = "nil"
        /\ signalled = FALSE

\* InitializeManager builds everything anew; nothing that was in memory is left.
Forget == /\ dirty' = Policies /\ rebuild' = FALSE
          /\ bpc' = "top" /\ building' = {} /\ wanted' = {} /\ todo' = {} /\ api' = {}
          /\ resourcesToWatch' = <<>> /\ watchers' = {}
          /\ informers' = [g \in GVKs |-> 0]
          /\ notes' = <<>> /\ unknown' = {} /\ spc' = "load" /\ hash' = "nil"
          /\ UNCHANGED cluster

\* mgr.Start returns, and main's loop begins the next generation with the
\* cancelled context: no controller, watcher or listener of it gets to run.
NextGeneration == /\ signalled
                  /\ Forget
                  /\ crdEvents' = {}
                  /\ UNCHANGED signalled

\* A new process, for reasons that are not the agent's (a second signal, a
\* probe, the kubelet): its controllers list every policy and its CRD watcher
\* every CRD.
Restart == /\ signalled
           /\ Forget
           /\ crdEvents' = installed \cap CustomGVKs
           /\ signalled' = FALSE

(***************************************************************************)
(* The users.                                                              *)
(***************************************************************************)
SpendEdit == /\ budget.edits > 0
             /\ budget' = [budget EXCEPT !.edits = @ - 1]

EditPolicy(p, S) == /\ SpendEdit
                    /\ selects' = [selects EXCEPT ![p] = S]
                    /\ dirty' = dirty \cup {p}
                    /\ UNCHANGED <<reloads, installed, natsSecret, crdEvents, rebuild,
                                   builder, watching, unknown, spc, hash, signalled>>

InstallCRD(g) == /\ g \notin installed
                 /\ installed' = installed \cup {g}
                 /\ crdEvents' = crdEvents \cup {g}
                 /\ UNCHANGED <<selects, reloads, natsSecret, budget, dirty, rebuild,
                                builder, watching, unknown, spc, hash, signalled>>

\* Each Secret informer reports the new content, or for a deletion the last one.
EditNatsSecret(c) == /\ SpendEdit
                     /\ c # natsSecret
                     /\ natsSecret' = c
                     /\ notes' = notes \o [i \in 1..informers[SecretGVK] |->
                                             IF c = "absent" THEN natsSecret ELSE c]
                     /\ UNCHANGED <<selects, reloads, installed, dirty, crdEvents, rebuild,
                                    builder, watchers, informers, unknown, spc, hash,
                                    signalled>>

(***************************************************************************)
(* The controllers.                                                        *)
(***************************************************************************)
\* Reconcile of a Classifier, HealthCheck or EventSource asks for a rebuild
\* (ReEvaluateResourceToWatch); a Reloader's does not.
Reconcile(p) == /\ p \in dirty /\ ~signalled
                /\ dirty' = dirty \ {p}
                /\ rebuild' = TRUE
                /\ UNCHANGED <<cluster, crdEvents, builder, watching, unknown, spc, hash,
                               signalled>>

\* The manager's cache resyncs every SyncPeriod and every policy is reconciled.
Resync == /\ ~signalled
          /\ dirty' = Policies
          /\ UNCHANGED <<cluster, crdEvents, rebuild, builder, watching, unknown, spc,
                         hash, signalled>>

\* restartIfNeeded: a CRD whose GVK could not be watched has been installed.
ReactToCRD(g) == /\ g \in crdEvents
                 /\ crdEvents' = crdEvents \ {g}
                 /\ signalled' = (signalled \/ g \in unknown)
                 /\ UNCHANGED <<cluster, dirty, rebuild, builder, watching, unknown, spc,
                                hash>>

(***************************************************************************)
(* startWatcher, used by two goroutines: look the GVK up, build the        *)
(* informer (network calls), then record its cancel function and run it.   *)
(***************************************************************************)
RunInformer(g) ==
    /\ watchers' = watchers \cup {g}
    /\ informers' = [informers EXCEPT ![g] = @ + 1]
    /\ notes' = IF g = SecretGVK /\ natsSecret # "absent"
                THEN Append(notes, natsSecret) ELSE notes

SpendFailure == /\ budget.failures > 0
                /\ budget' = [budget EXCEPT !.failures = @ - 1]

(***************************************************************************)
(* buildResourceToWatch.                                                   *)
(***************************************************************************)
\* buildList: the GVKs of every policy that exists, the workloads Reloaders
\* name, and always Secrets.
buildList == (UNION {selects[p] : p \in Policies})
               \cup {ReloaderGVK(kind) : kind \in UNION {reloads[r] : r \in Reloaders}}
               \cup {SecretGVK}

\* Sorting makes the list a function of the set; its order matters nowhere else.
buildSortedList(S) == SetToSeq(S)

\* Go's copy into a slice of n elements, not more than src has: it keeps its
\* length.
copy(n, src) == SubSeq(src, 1, n)

TestFlag == /\ bpc = "top" /\ ~signalled
            /\ rebuild
            /\ bpc' = "clear"
            /\ UNCHANGED <<cluster, dirty, crdEvents, rebuild, building, wanted, todo, api,
                           resourcesToWatch, watching, unknown, spc, hash, signalled>>

ClearFlag == /\ bpc = "clear"
             /\ rebuild' = FALSE
             /\ bpc' = "list"
             /\ UNCHANGED <<cluster, dirty, crdEvents, building, wanted, todo, api,
                            resourcesToWatch, watching, unknown, spc, hash, signalled>>

\* Mutated form of BuildList: what the last rebuild did not reach is kept.
BuildListKeeps == /\ bpc = "list"
                  /\ wanted' = buildList
                  /\ todo' = todo \cup buildList
                  /\ bpc' = "compare"
                  /\ UNCHANGED <<cluster, dirty, crdEvents, rebuild, building, api,
                                 resourcesToWatch, watching, unknown, spc, hash, signalled>>

BuildList == /\ bpc = "list"
             /\ wanted' = buildList
             /\ todo' = buildList
             /\ bpc' = "compare"
             /\ UNCHANGED <<cluster, dirty, crdEvents, rebuild, building, api,
                            resourcesToWatch, watching, unknown, spc, hash, signalled>>

\* Under m.mu from here to the end of the rebuild.
CompareList ==
    /\ bpc = "compare"
    /\ bpc' = IF buildSortedList(wanted) = resourcesToWatch THEN "top" ELSE "discover"
    /\ UNCHANGED <<cluster, dirty, crdEvents, rebuild, building, wanted, todo, api,
                   resourcesToWatch, watching, unknown, spc, hash, signalled>>

\* Mutated form of GetInstalledResources: the discovery client keeps its answer.
GetInstalledResourcesOnce == /\ bpc = "discover"
                             /\ api' = IF api = {} THEN installed ELSE api
                             /\ bpc' = "watch"
                             /\ UNCHANGED <<cluster, dirty, crdEvents, rebuild, building,
                                            wanted, todo, resourcesToWatch, watching,
                                            unknown, spc, hash, signalled>>

GetInstalledResources == /\ bpc = "discover"
                         /\ api' = installed
                         /\ bpc' = "watch"
                         /\ UNCHANGED <<cluster, dirty, crdEvents, rebuild, building,
                                        wanted, todo, resourcesToWatch, watching, unknown,
                                        spc, hash, signalled>>

\* gvkInstalled is false: remember the GVK for restartIfNeeded.
NotInstalled(g) == /\ bpc = "watch"
                   /\ g \in todo \ api
                   /\ unknown' = unknown \cup {g}
                   /\ todo' = todo \ {g}
                   /\ UNCHANGED <<cluster, dirty, crdEvents, rebuild, bpc, building, wanted,
                                  api, resourcesToWatch, watching, spc, hash, signalled>>

WatcherPresent(g) == /\ bpc = "watch"
                     /\ g \in todo \cap api \cap watchers
                     /\ todo' = todo \ {g}
                     /\ UNCHANGED <<cluster, dirty, crdEvents, rebuild, bpc, building,
                                    wanted, api, resourcesToWatch, watching, unknown, spc,
                                    hash, signalled>>

WatcherAbsent(g) == /\ bpc = "watch"
                    /\ g \in (todo \cap api) \ watchers
                    /\ bpc' = "informer"
                    /\ building' = {g}
                    /\ UNCHANGED <<cluster, dirty, crdEvents, rebuild, wanted, todo, api,
                                   resourcesToWatch, watching, unknown, spc, hash,
                                   signalled>>

InformerBuilt(g) == /\ bpc = "informer"
                    /\ g \in building
                    /\ RunInformer(g)
                    /\ todo' = todo \ {g}
                    /\ bpc' = "watch"
                    /\ building' = {}
                    /\ UNCHANGED <<cluster, dirty, crdEvents, rebuild, wanted, api,
                                   resourcesToWatch, unknown, spc, hash, signalled>>

\* Every GVK has been looked at: cancel the informers of the previous list that
\* are not wanted any more, then remember the list.  (Removing elements while
\* ranging over the slice is left out: the slice is always empty here.)
WatchersUpdated ==
    LET stale == ToSet(resourcesToWatch) \ wanted
        kept == Cardinality(ToSet(resourcesToWatch) \cap wanted)
    IN  /\ bpc = "watch"
        /\ todo = {}
        /\ informers' = [g \in GVKs |-> IF g \in stale THEN 0 ELSE informers[g]]
        /\ resourcesToWatch' = copy(kept, buildSortedList(wanted))
        /\ bpc' = "top"
        /\ UNCHANGED <<cluster, dirty, crdEvents, rebuild, building, wanted, todo, api,
                       watchers, notes, unknown, spc, hash, signalled>>

\* Mutated form of RebuildFails: the request is not raised again.
RebuildFailsForgets == /\ bpc \in {"list", "discover", "informer"}
                       /\ SpendFailure
                       /\ bpc' = "top"
                       /\ building' = {}
                       /\ todo' = {}
                       /\ UNCHANGED <<selects, reloads, installed, natsSecret, dirty,
                                      crdEvents, rebuild, wanted, api, resourcesToWatch,
                                      watching, unknown, spc, hash, signalled>>

\* buildList, getInstalledResources or getDynamicInformer fails: the request is
\* raised again and the rebuild starts over.
RebuildFails == /\ bpc \in {"list", "discover", "informer"}
                /\ SpendFailure
                /\ rebuild' = TRUE
                /\ bpc' = "top"
                /\ building' = {}
                /\ UNCHANGED <<selects, reloads, installed, natsSecret, dirty, crdEvents,
                               wanted, todo, api, resourcesToWatch, watching, unknown,
                               spc, hash, signalled>>

Builder == \/ TestFlag \/ ClearFlag \/ BuildList \/ CompareList
           \/ GetInstalledResources
           \/ \E g \in GVKs : \/ NotInstalled(g)
                              \/ WatcherPresent(g)
                              \/ WatcherAbsent(g)
                              \/ InformerBuilt(g)
           \/ WatchersUpdated

(***************************************************************************)
(* listenForCloudEvents.                                                   *)
(***************************************************************************)
\* evaluateHash: distinct contents have distinct hashes; none without a Secret.
evaluateHash(c) == IF c = "absent" THEN "nil" ELSE c

\* loadMessagingConfiguration (read errors are retried and change nothing).
LoadConfiguration == /\ spc = "load" /\ ~signalled
                     /\ hash' = evaluateHash(natsSecret)
                     /\ spc' = "start"
                     /\ UNCHANGED <<cluster, dirty, crdEvents, rebuild, builder, watching,
                                    unknown, signalled>>

\* startWatcherOnSecret: startWatcher in two steps, retried until it succeeds.
SecretWatcherLookup == /\ spc = "start"
                       /\ spc' = IF SecretGVK \in watchers THEN "done" ELSE "informer"
                       /\ UNCHANGED <<cluster, dirty, crdEvents, rebuild, builder,
                                      watching, unknown, hash, signalled>>

SecretInformerBuilt == /\ spc = "informer"
                       /\ RunInformer(SecretGVK)
                       /\ spc' = "done"
                       /\ UNCHANGED <<cluster, dirty, crdEvents, rebuild, builder, unknown,
                                      hash, signalled>>

SecretInformerFails == /\ spc = "informer"
                       /\ SpendFailure
                       /\ spc' = "start"
                       /\ UNCHANGED <<selects, reloads, installed, natsSecret, dirty,
                                      crdEvents, rebuild, builder, watching, unknown, hash,
                                      signalled>>

\* Mutated form of ReactToNATS: only a configuration in use can change.
ReactToNATSIfLoaded == /\ notes # <<>>
                       /\ notes' = Tail(notes)
                       /\ signalled' = (signalled \/ (hash # "nil"
                                          /\ evaluateHash(Head(notes)) # hash))
                       /\ UNCHANGED <<cluster, dirty, crdEvents, rebuild, builder, watchers,
                                      informers, unknown, spc, hash>>

\* reactToNATS: a notification whose hash differs from the loaded one restarts.
ReactToNATS == /\ notes # <<>>
               /\ notes' = Tail(notes)
               /\ signalled' = (signalled \/ evaluateHash(Head(notes)) # hash)
               /\ UNCHANGED <<cluster, dirty, crdEvents, rebuild, builder, watchers,
                              informers, unknown, spc, hash>>

Listener == LoadConfiguration \/ SecretWatcherLookup \/ SecretInformerBuilt

Next == \/ NextGeneration \/ Restart
        \/ \E p \in Policies, S \in SUBSET CustomGVKs : EditPolicy(p, S)
        \/ \E g \in CustomGVKs : InstallCRD(g)
        \/ \E c \in NatsContents \cup {"absent"} : EditNatsSecret(c)
        \/ \E p \in Policies : Reconcile(p)
        \/ Resync
        \/ \E g \in CustomGVKs : ReactToCRD(g)
        \/ Builder
        \/ RebuildFails
        \/ Listener
        \/ SecretInformerFails
        \/ ReactToNATS

\* Goroutines are scheduled, notifications delivered and the caches resynced
\* (SyncPeriod); users' changes, failures and a new process need not come.
Fairness == /\ WF_vars(Builder)
            /\ WF_vars(Listener)
            /\ WF_vars(ReactToNATS)
            /\ WF_vars(Resync)
            /\ \A p \in Policies : WF_vars(Reconcile(p))
            /\ \A g \in CustomGVKs : WF_vars(ReactToCRD(g))

Spec == Init /\ [][Next]_vars /\ Fairness

(***************************************************************************)
(* Properties.                                                             *)
(***************************************************************************)
\* Types; what a rebuild has still to do is part of its list.
TypeOK == /\ selects \in [Policies -> SUBSET CustomGVKs]
          /\ reloads \in [Reloaders -> SUBSET WorkloadKinds]
          /\ installed \subseteq GVKs /\ unknown \subseteq GVKs /\ wanted \subseteq GVKs
          /\ todo \subseteq wanted /\ api \subseteq GVKs /\ watchers \subseteq GVKs
          /\ dirty \subseteq Policies /\ crdEvents \subseteq CustomGVKs
          /\ natsSecret \in NatsContents \cup {"absent"}
          /\ hash \in NatsContents \cup {"nil"}
          /\ notes \in Seq(NatsContents)
          /\ rebuild \in BOOLEAN /\ signalled \in BOOLEAN
          /\ bpc \in {"top", "clear", "list", "compare", "discover", "watch", "informer"}
          /\ building \subseteq GVKs
          /\ spc \in {"load", "start", "informer", "done"}
          /\ resourcesToWatch \in Seq(GVKs)
          /\ informers \in [GVKs -> Nat]

\* A rebuild is on its way: requested, or begun but the policies not listed yet.
RebuildPending == rebuild \/ bpc \in {"clear", "list"}

\* A rebuild that has listed the policies is going to look at g.
RebuildReaches(g) == bpc # "top" /\ g \in todo

\* A reconciled policy's selectors are never forgotten: for each GVK an informer
\* runs, it is known to be missing, or a rebuild that will see it is pending or
\* under way, whatever fails and whenever the flag is raised (the flag is
\* cleared before the policies are listed).  No rebuild passes a GVK over
\* because of an earlier list or an informer that was cancelled.
NoForgottenGVK == \A p \in Policies \ dirty : \A g \in selects[p] :
    RebuildPending \/ RebuildReaches(g) \/ informers[g] > 0 \/ g \in unknown

\* A GVK that stays selected and installed ends up watched in a process that
\* does not stay signalled, even when its CRD was installed between the
\* discovery and the moment its GVK was remembered.  An agent that has sent
\* itself the SIGTERM watches nothing until another process takes over.
SelectedGVKWatched == \A p \in Policies, g \in CustomGVKs :
    <>[](g \in selects[p] /\ g \in installed /\ ~signalled) => <>[](informers[g] > 0)

\* Once loaded, an outdated NATS configuration does not stay in use: whether the
\* Secret is created or changed before, while or after the informer starts, the
\* agent is told to restart (or the Secret changes again).
OutdatedConfigurationNoticed == \A c \in NatsContents :
    (spc # "load" /\ natsSecret = c /\ hash # c) ~> (signalled \/ natsSecret # c)
=============================================================================
