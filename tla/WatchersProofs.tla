--------------------------- MODULE WatchersProofs ---------------------------
(***************************************************************************)
(* Proofs about Watchers for any policies, Reloaders, custom resources and  *)
(* NATS configurations, and any number of changes and failures.            *)
(*                                                                         *)
(* NoForgottenGVK rests on what the code does with the previous list: copy *)
(* into a slice made with length zero leaves it empty (NothingListed), so  *)
(* no list that holds the Secrets (SecretsWanted) compares equal to it, no *)
(* informer is ever cancelled and a key of m.watchers means that one runs  *)
(* (InformersRun).                                                         *)
(***************************************************************************)
EXTENDS Watchers, FiniteSetTheorems, TLAPS

NothingListed == resourcesToWatch = <<>>

InformersRun == \A g \in watchers : informers[g] > 0

SecretsWanted == bpc \in {"compare", "discover", "watch", "informer"} => SecretGVK \in wanted

IndInv == /\ TypeOK /\ NothingListed /\ InformersRun /\ SecretsWanted
          /\ NoForgottenGVK

(***************************************************************************)
(* The list of what to watch.                                              *)
(***************************************************************************)
\* A list with something in it is not the empty list.
LEMMA SortedListNotEmpty ==
    ASSUME NEW S \in SUBSET GVKs, S # {}
    PROVE  buildSortedList(S) # <<>>
<1>1. IsFiniteSet(S)
  BY FiniteAssumption, FS_Subset
<1>2. Cardinality(S) \in Nat /\ Cardinality(S) # 0 /\ ExistsBijection(1..Cardinality(S), S)
  BY <1>1, FS_CardinalityType, FS_EmptySet
<1>3. \E f \in [1..Cardinality(S) -> S] : IsInjective(f)
  BY <1>2 DEF ExistsBijection, Bijection, Injection, IsInjective
<1>4. buildSortedList(S) \in [1..Cardinality(S) -> S]
  BY <1>3 DEF buildSortedList, SetToSeq
<1>5. 1 \in DOMAIN buildSortedList(S)
  BY <1>2, <1>4
<1>6. QED
  BY <1>5

\* What a rebuild lists are GVKs, the Secrets among them.
LEMMA ListedGVKs ==
    ASSUME TypeOK
    PROVE  /\ buildList \subseteq GVKs /\ SecretGVK \in buildList
           /\ \A p \in Policies : selects[p] \subseteq buildList
<1> DEFINE Selected == UNION {selects[p] : p \in Policies}
           Named == UNION {reloads[r] : r \in Reloaders}
           Reloaded == {ReloaderGVK(kind) : kind \in Named}
           Reloadable == {ReloaderGVK(kind) : kind \in WorkloadKinds}
<1>1. buildList = Selected \cup Reloaded \cup {SecretGVK}
  BY DEF buildList
<1>2. Selected \subseteq CustomGVKs /\ \A p \in Policies : selects[p] \subseteq Selected
  BY DEF TypeOK
<1>3. Named \subseteq WorkloadKinds
  BY DEF TypeOK
<1>4. Reloaded \subseteq Reloadable
  BY <1>3
<1>5. /\ Reloadable \subseteq GVKs
      /\ CustomGVKs \subseteq GVKs /\ SecretGVK \in GVKs
  BY DEF GVKs, BuiltIn
<1> HIDE DEF Selected, Named, Reloaded, Reloadable
<1>6. QED
  BY <1>1, <1>2, <1>4, <1>5

\* The GVK of a policy is one of the GVKs.
LEMMA SelectedGVKs ==
    ASSUME TypeOK, NEW p \in Policies
    PROVE  selects[p] \subseteq GVKs
  BY DEF TypeOK, GVKs

\* A list is copied into an empty one and leaves it empty.
LEMMA NothingToCopy ==
    ASSUME TypeOK, NothingListed
    PROVE  /\ ToSet(resourcesToWatch) = {}
           /\ copy(Cardinality(ToSet(resourcesToWatch) \cap wanted), buildSortedList(wanted))
                = <<>>
<1>1. ToSet(resourcesToWatch) = {}
  BY DEF NothingListed, ToSet
<1>2. Cardinality(ToSet(resourcesToWatch) \cap wanted) = 0
  BY <1>1, FS_EmptySet
<1>3. QED
  BY <1>1, <1>2 DEF copy

\* An informer starts.
LEMMA RunInformerEffect ==
    ASSUME TypeOK, NEW g \in GVKs, RunInformer(g)
    PROVE  /\ watchers' = watchers \cup {g} /\ watchers' \subseteq GVKs
           /\ informers' \in [GVKs -> Nat] /\ informers'[g] > 0
           /\ \A h \in GVKs : informers[h] > 0 => informers'[h] > 0
           /\ notes' \in Seq(NatsContents)
<1>1. informers' = [informers EXCEPT ![g] = @ + 1] /\ informers \in [GVKs -> Nat]
  BY DEF RunInformer, TypeOK
<1>2. /\ informers' \in [GVKs -> Nat]
      /\ \A h \in GVKs : informers'[h] = IF h = g THEN informers[g] + 1 ELSE informers[h]
  BY <1>1
<1>3. informers[g] \in Nat
  BY <1>1
<1>4. notes' \in Seq(NatsContents)
  BY DEF RunInformer, TypeOK
<1>5. QED
  BY <1>2, <1>3, <1>4 DEF RunInformer, TypeOK

(***************************************************************************)
(* The steps that leave what is watched alone.                             *)
(***************************************************************************)
\* A request stays raised, and a policy that changes is reconciled again.
LEMMA OutsideKeeps ==
    ASSUME IndInv, TypeOK', UNCHANGED <<builder, watchers, informers, unknown>>,
           rebuild => rebuild',
           rebuild' \/ \A p \in Policies \ dirty' : p \notin dirty /\ selects'[p] = selects[p]
    PROVE  IndInv'
<1>1. NothingListed' /\ InformersRun' /\ SecretsWanted'
  BY DEF IndInv, NothingListed, InformersRun, SecretsWanted, builder
<1>2. NoForgottenGVK'
  BY DEF IndInv, NoForgottenGVK, RebuildPending, RebuildReaches, builder
<1>3. QED
  BY <1>1, <1>2 DEF IndInv

\* The users.
LEMMA UsersStep ==
    ASSUME IndInv,
           \/ \E p \in Policies, S \in SUBSET CustomGVKs : EditPolicy(p, S)
           \/ \E g \in CustomGVKs : InstallCRD(g)
           \/ \E c \in NatsContents \cup {"absent"} : EditNatsSecret(c)
    PROVE  IndInv'
<1>1. ASSUME NEW p \in Policies, NEW S \in SUBSET CustomGVKs, EditPolicy(p, S) PROVE IndInv'
  <2>1. /\ selects' = [selects EXCEPT ![p] = S] /\ dirty' = dirty \cup {p}
        /\ UNCHANGED <<reloads, installed, natsSecret, crdEvents, rebuild, builder, watching,
                       unknown, spc, hash, signalled>>
    BY <1>1 DEF EditPolicy
  <2>2. /\ selects' \in [Policies -> SUBSET CustomGVKs]
        /\ \A q \in Policies : q # p => selects'[q] = selects[q]
    BY <2>1 DEF IndInv, TypeOK
  <2>3. TypeOK'
    BY <2>1, <2>2 DEF IndInv, TypeOK, builder, watching
  <2>4. QED
    BY <2>1, <2>2, <2>3, OutsideKeeps DEF watching
<1>2. ASSUME NEW g \in CustomGVKs, InstallCRD(g) PROVE IndInv'
  <2>1. TypeOK' /\ UNCHANGED <<selects, dirty, builder, watchers, informers, unknown, rebuild>>
    BY <1>2 DEF IndInv, TypeOK, InstallCRD, GVKs, builder, watching
  <2>2. QED
    BY <2>1, OutsideKeeps
<1>3. ASSUME NEW c \in NatsContents \cup {"absent"}, EditNatsSecret(c) PROVE IndInv'
  <2>1. /\ natsSecret' = c
        /\ UNCHANGED <<selects, reloads, installed, dirty, crdEvents, rebuild, builder,
                       watchers, informers, unknown, spc, hash, signalled>>
    BY <1>3 DEF EditNatsSecret
  <2>2. PICK d : /\ d = IF c = "absent" THEN natsSecret ELSE c
                 /\ notes' = notes \o [i \in 1..informers[SecretGVK] |-> d]
    BY <1>3 DEF EditNatsSecret
  <2>3. d \in NatsContents /\ informers[SecretGVK] \in Nat /\ notes \in Seq(NatsContents)
    BY <1>3, <2>2 DEF IndInv, TypeOK, EditNatsSecret, GVKs, BuiltIn
  <2>4. [i \in 1..informers[SecretGVK] |-> d] \in Seq(NatsContents)
    BY <2>3
  <2>5. notes' \in Seq(NatsContents)
    BY <2>2, <2>3, <2>4
  <2>6. TypeOK'
    BY <2>1, <2>5 DEF IndInv, TypeOK, builder
  <2>7. QED
    BY <2>1, <2>6, OutsideKeeps
<1>4. QED
  BY <1>1, <1>2, <1>3

\* The controllers, and the notifications.
LEMMA ControllersStep ==
    ASSUME IndInv,
           \/ \E p \in Policies : Reconcile(p)
           \/ Resync
           \/ \E g \in CustomGVKs : ReactToCRD(g)
           \/ ReactToNATS
    PROVE  IndInv'
<1>1. UNCHANGED <<cluster, builder, watchers, informers, unknown, spc, hash>>
  BY DEF Reconcile, Resync, ReactToCRD, ReactToNATS, watching
<1>2. /\ dirty' \subseteq Policies /\ crdEvents' \subseteq CustomGVKs
      /\ rebuild' \in BOOLEAN /\ signalled' \in BOOLEAN
  BY DEF IndInv, TypeOK, Reconcile, Resync, ReactToCRD, ReactToNATS
<1>3. notes' \in Seq(NatsContents)
  <2>1. CASE ReactToNATS
    BY <2>1 DEF IndInv, TypeOK, ReactToNATS
  <2>2. CASE notes' = notes
    BY <2>2 DEF IndInv, TypeOK
  <2>3. QED
    BY <2>1, <2>2 DEF Reconcile, Resync, ReactToCRD, watching
<1>4. TypeOK'
  BY <1>1, <1>2, <1>3 DEF IndInv, TypeOK, cluster, builder
<1>5. /\ rebuild => rebuild'
      /\ rebuild' \/ \A p \in Policies \ dirty' : p \notin dirty /\ selects'[p] = selects[p]
  BY <1>1 DEF IndInv, TypeOK, Reconcile, Resync, ReactToCRD, ReactToNATS, cluster
<1>6. QED
  BY <1>1, <1>4, <1>5, OutsideKeeps

\* listenForCloudEvents, up to the Secret informer.
LEMMA ListenerStep ==
    ASSUME IndInv, LoadConfiguration \/ SecretWatcherLookup \/ SecretInformerFails
    PROVE  IndInv'
<1>1. /\ UNCHANGED <<selects, reloads, installed, natsSecret, dirty, crdEvents, rebuild,
                     builder, watching, unknown, signalled>>
  BY DEF LoadConfiguration, SecretWatcherLookup, SecretInformerFails, cluster
<1>2. hash' \in NatsContents \cup {"nil"} /\ spc' \in {"load", "start", "informer", "done"}
  BY DEF IndInv, TypeOK, LoadConfiguration, SecretWatcherLookup, SecretInformerFails, evaluateHash
<1>3. TypeOK'
  BY <1>1, <1>2 DEF IndInv, TypeOK, builder, watching
<1>4. QED
  BY <1>1, <1>3, OutsideKeeps DEF watching

(***************************************************************************)
(* buildResourceToWatch.                                                   *)
(***************************************************************************)
\* What the builder never touches.
Elsewhere == UNCHANGED <<selects, reloads, installed, natsSecret, dirty, crdEvents, spc, hash,
                         signalled>>

\* What a step of the builder has to show when it starts no informer: only todo,
\* the list and the GVKs known to be missing change.
LEMMA BuilderKeeps ==
    ASSUME IndInv, Elsewhere, UNCHANGED <<watching, resourcesToWatch>>,
           rebuild' \in BOOLEAN, building' \subseteq GVKs, api' \subseteq GVKs,
           bpc' \in {"top", "clear", "list", "compare", "discover", "watch", "informer"},
           wanted' \subseteq GVKs, todo' \subseteq wanted', unknown' \subseteq GVKs,
           SecretsWanted', NoForgottenGVK'
    PROVE  IndInv'
<1>1. TypeOK'
  BY DEF IndInv, TypeOK, Elsewhere, watching
<1>2. QED
  BY <1>1 DEF IndInv, NothingListed, InformersRun, watching

\* The flag is tested and cleared; what raises it again is seen by the listing.
LEMMA FlagStep ==
    ASSUME IndInv, TestFlag \/ ClearFlag
    PROVE  IndInv'
<1>1. /\ Elsewhere /\ UNCHANGED <<watching, resourcesToWatch, building, api, wanted, todo, unknown>>
      /\ bpc' \in {"clear", "list"} /\ rebuild' \in BOOLEAN
  BY DEF TestFlag, ClearFlag, Elsewhere, cluster, IndInv, TypeOK
<1>2. SecretsWanted' /\ NoForgottenGVK'
  BY <1>1 DEF SecretsWanted, NoForgottenGVK, RebuildPending
<1>3. QED
  BY <1>1, <1>2, BuilderKeeps DEF IndInv, TypeOK

\* Every policy's GVKs are listed.
LEMMA BuildListStep ==
    ASSUME IndInv, BuildList
    PROVE  IndInv'
<1>1. /\ Elsewhere /\ UNCHANGED <<watching, resourcesToWatch, building, api, unknown, rebuild>>
      /\ bpc' = "compare" /\ wanted' = buildList /\ todo' = buildList
  BY DEF BuildList, Elsewhere, cluster
<1>2. /\ buildList \subseteq GVKs /\ SecretGVK \in buildList
      /\ \A p \in Policies : selects[p] \subseteq buildList
  BY ListedGVKs DEF IndInv
<1>3. SecretsWanted'
  BY <1>1, <1>2 DEF SecretsWanted
<1>4. NoForgottenGVK'
  BY <1>1, <1>2 DEF NoForgottenGVK, RebuildReaches, Elsewhere
<1>5. QED
  BY <1>1, <1>2, <1>3, <1>4, BuilderKeeps DEF IndInv, TypeOK

\* The new list never equals the previous one, which is empty.
LEMMA CompareListStep ==
    ASSUME IndInv, CompareList
    PROVE  IndInv'
<1>1. wanted \subseteq GVKs /\ SecretGVK \in wanted /\ resourcesToWatch = <<>>
  BY DEF IndInv, TypeOK, SecretsWanted, NothingListed, CompareList
<1>2. buildSortedList(wanted) # resourcesToWatch
  BY <1>1, SortedListNotEmpty
<1>3. /\ Elsewhere
      /\ UNCHANGED <<watching, resourcesToWatch, building, api, unknown, rebuild, wanted, todo>>
      /\ bpc = "compare" /\ bpc' = "discover"
  BY <1>2 DEF CompareList, Elsewhere, cluster
<1>4. SecretsWanted' /\ NoForgottenGVK'
  BY <1>3 DEF IndInv, SecretsWanted, NoForgottenGVK, RebuildPending, RebuildReaches, Elsewhere,
              watching
<1>5. QED
  BY <1>3, <1>4, BuilderKeeps DEF IndInv, TypeOK

\* Discovery, and the choice of the next GVK to watch.
LEMMA DiscoverStep ==
    ASSUME IndInv, NEW g \in GVKs, GetInstalledResources \/ WatcherAbsent(g)
    PROVE  IndInv'
<1>1. /\ Elsewhere
      /\ UNCHANGED <<watching, resourcesToWatch, unknown, rebuild, wanted, todo>>
      /\ bpc \in {"discover", "watch"} /\ bpc' \in {"watch", "informer"}
      /\ building' \subseteq GVKs /\ api' \subseteq GVKs
  BY DEF GetInstalledResources, WatcherAbsent, Elsewhere, cluster, IndInv, TypeOK
<1>2. SecretsWanted' /\ NoForgottenGVK'
  BY <1>1 DEF IndInv, SecretsWanted, NoForgottenGVK, RebuildPending, RebuildReaches, Elsewhere,
              watching
<1>3. QED
  BY <1>1, <1>2, BuilderKeeps DEF IndInv, TypeOK

\* A GVK is remembered as missing, or is passed over as watched.
LEMMA PassStep ==
    ASSUME IndInv, NEW g \in GVKs, NotInstalled(g) \/ WatcherPresent(g)
    PROVE  IndInv'
<1>1. /\ Elsewhere /\ UNCHANGED <<watching, resourcesToWatch, rebuild, wanted, building, api>>
      /\ bpc = "watch" /\ bpc' = "watch" /\ todo' = todo \ {g}
      /\ \/ unknown' = unknown \cup {g}
         \/ unknown' = unknown /\ g \in watchers
  BY DEF NotInstalled, WatcherPresent, Elsewhere, cluster
<1>2. g \in unknown' \/ informers[g] > 0
  BY <1>1 DEF IndInv, InformersRun
<1>3. SecretsWanted'
  BY <1>1 DEF IndInv, SecretsWanted
<1>4. NoForgottenGVK'
  BY <1>1, <1>2 DEF IndInv, NoForgottenGVK, RebuildPending, RebuildReaches, Elsewhere, watching
<1>5. QED
  BY <1>1, <1>3, <1>4, BuilderKeeps DEF IndInv, TypeOK

\* An API call fails: the request is raised again.
LEMMA RebuildFailsStep ==
    ASSUME IndInv, RebuildFails
    PROVE  IndInv'
<1>1. /\ Elsewhere /\ UNCHANGED <<watching, resourcesToWatch, unknown, wanted, todo, api>>
      /\ rebuild' = TRUE /\ bpc' = "top" /\ building' = {}
  BY DEF RebuildFails, Elsewhere
<1>2. SecretsWanted' /\ NoForgottenGVK'
  BY <1>1 DEF SecretsWanted, NoForgottenGVK, RebuildPending
<1>3. QED
  BY <1>1, <1>2, BuilderKeeps DEF IndInv, TypeOK

\* The rebuild is done: no informer is cancelled, and the list stays empty.
LEMMA WatchersUpdatedStep ==
    ASSUME IndInv, WatchersUpdated
    PROVE  IndInv'
<1>1. /\ ToSet(resourcesToWatch) = {}
      /\ copy(Cardinality(ToSet(resourcesToWatch) \cap wanted), buildSortedList(wanted)) = <<>>
  BY NothingToCopy DEF IndInv
<1>2. /\ informers' = [g \in GVKs |-> IF g \in ToSet(resourcesToWatch) \ wanted THEN 0
                                                                            ELSE informers[g]]
      /\ resourcesToWatch' = copy(Cardinality(ToSet(resourcesToWatch) \cap wanted),
                                  buildSortedList(wanted))
  BY DEF WatchersUpdated
<1>3. resourcesToWatch' = <<>> /\ resourcesToWatch = <<>>
  BY <1>1, <1>2 DEF IndInv, NothingListed
<1>4. informers' = informers
  BY <1>1, <1>2 DEF IndInv, TypeOK
<1>5. /\ Elsewhere /\ UNCHANGED <<rebuild, building, wanted, todo, api, watchers, notes, unknown>>
      /\ bpc = "watch" /\ bpc' = "top" /\ todo = {}
  BY DEF WatchersUpdated, Elsewhere, cluster
<1>6. UNCHANGED <<watching, resourcesToWatch>>
  BY <1>3, <1>4, <1>5 DEF watching
<1>7. SecretsWanted' /\ NoForgottenGVK'
  BY <1>4, <1>5 DEF IndInv, SecretsWanted, NoForgottenGVK, RebuildPending, RebuildReaches,
                    Elsewhere
<1>8. QED
  BY <1>5, <1>6, <1>7, BuilderKeeps DEF IndInv, TypeOK

(***************************************************************************)
(* Informers start, by either goroutine, and the process restarts.         *)
(***************************************************************************)
\* An informer is built: the builder's GVK, or the Secrets for the listener.
LEMMA InformerStep ==
    ASSUME IndInv, NEW g \in GVKs, InformerBuilt(g) \/ (g = SecretGVK /\ SecretInformerBuilt)
    PROVE  IndInv'
<1>1. RunInformer(g)
  BY DEF InformerBuilt, SecretInformerBuilt
<1>2. /\ watchers' = watchers \cup {g} /\ watchers' \subseteq GVKs
      /\ informers' \in [GVKs -> Nat] /\ informers'[g] > 0
      /\ \A h \in GVKs : informers[h] > 0 => informers'[h] > 0
      /\ notes' \in Seq(NatsContents)
  BY <1>1, RunInformerEffect DEF IndInv
<1>3. /\ UNCHANGED <<selects, reloads, installed, natsSecret, dirty, crdEvents, rebuild,
                     wanted, api, resourcesToWatch, unknown, hash, signalled>>
      /\ bpc' = bpc \/ (bpc = "informer" /\ bpc' = "watch")
      /\ todo' = todo \/ todo' = todo \ {g}
  BY DEF InformerBuilt, SecretInformerBuilt, cluster, builder
<1>4. spc' \in {"load", "start", "informer", "done"} /\ building' \subseteq GVKs
  BY DEF InformerBuilt, SecretInformerBuilt, builder, IndInv, TypeOK
<1>5. TypeOK'
  BY <1>2, <1>3, <1>4 DEF IndInv, TypeOK
<1>6. NothingListed' /\ SecretsWanted'
  BY <1>3 DEF IndInv, NothingListed, SecretsWanted
<1>7. InformersRun'
  BY <1>2 DEF IndInv, TypeOK, InformersRun
<1>8. NoForgottenGVK'
  <2> SUFFICES ASSUME NEW p \in Policies \ dirty, NEW h \in selects[p]
               PROVE  \/ RebuildPending' \/ RebuildReaches(h)'
                      \/ informers'[h] > 0 \/ h \in unknown'
    BY <1>3 DEF NoForgottenGVK, RebuildPending, RebuildReaches
  <2>1. h \in GVKs
    BY SelectedGVKs DEF IndInv
  <2>2. \/ RebuildPending \/ RebuildReaches(h) \/ informers[h] > 0 \/ h \in unknown
    BY DEF IndInv, NoForgottenGVK
  <2>3. RebuildPending => RebuildPending'
    BY <1>3 DEF RebuildPending
  <2>4. RebuildReaches(h) => RebuildReaches(h)' \/ h = g
    BY <1>3 DEF RebuildReaches
  <2>5. QED
    BY <1>2, <1>3, <2>1, <2>2, <2>3, <2>4
<1>9. QED
  BY <1>5, <1>6, <1>7, <1>8 DEF IndInv

\* A new generation, or a new process, has every policy to reconcile.
LEMMA RestartStep ==
    ASSUME IndInv, NextGeneration \/ Restart
    PROVE  IndInv'
<1>1. /\ dirty' = Policies /\ crdEvents' \subseteq CustomGVKs /\ rebuild' = FALSE
      /\ bpc' = "top" /\ building' = {} /\ wanted' = {} /\ todo' = {} /\ api' = {}
      /\ resourcesToWatch' = <<>> /\ watchers' = {} /\ informers' = [g \in GVKs |-> 0]
      /\ notes' = <<>> /\ unknown' = {} /\ spc' = "load" /\ hash' = "nil"
      /\ UNCHANGED cluster
  BY DEF NextGeneration, Restart, Forget
<1>2. notes' \in Seq(NatsContents) /\ resourcesToWatch' \in Seq(GVKs)
  BY <1>1
<1>3. informers' \in [GVKs -> Nat] /\ rebuild' \in BOOLEAN /\ signalled' \in BOOLEAN
  BY <1>1 DEF NextGeneration, Restart, IndInv, TypeOK
<1>4. TypeOK'
  BY <1>1, <1>2, <1>3 DEF IndInv, TypeOK, cluster
<1>5. NothingListed' /\ InformersRun' /\ SecretsWanted' /\ NoForgottenGVK'
  BY <1>1 DEF NothingListed, InformersRun, SecretsWanted, NoForgottenGVK
<1>6. QED
  BY <1>4, <1>5 DEF IndInv

(***************************************************************************)
(* The invariant, and what follows from it.                                *)
(***************************************************************************)
\* Nothing is watched at first and every policy is to be reconciled.
LEMMA InitInv == Init => IndInv
<1> SUFFICES ASSUME Init PROVE IndInv
  OBVIOUS
<1>1. notes \in Seq(NatsContents) /\ resourcesToWatch \in Seq(GVKs)
  BY DEF Init
<1>2. informers \in [GVKs -> Nat] /\ rebuild \in BOOLEAN /\ signalled \in BOOLEAN
  BY DEF Init
<1>3. TypeOK
  BY <1>1, <1>2 DEF Init, TypeOK, GVKs
<1>4. NothingListed /\ InformersRun /\ SecretsWanted /\ NoForgottenGVK
  BY DEF Init, NothingListed, InformersRun, SecretsWanted, NoForgottenGVK
<1>5. QED
  BY <1>3, <1>4 DEF IndInv

\* A step in which nothing changes.
LEMMA StutterStep ==
    ASSUME IndInv, UNCHANGED vars
    PROVE  IndInv'
<1>1. TypeOK'
  BY DEF IndInv, TypeOK, vars, cluster, builder, watching
<1>2. QED
  BY <1>1, OutsideKeeps DEF vars, cluster, watching

\* Every step keeps the invariant.
LEMMA StepKeeps == IndInv /\ [Next]_vars => IndInv'
<1> SUFFICES ASSUME IndInv, [Next]_vars PROVE IndInv'
  OBVIOUS
<1>1. SecretGVK \in GVKs
  BY DEF GVKs, BuiltIn
<1>2. CASE Builder
  BY <1>1, <1>2, FlagStep, BuildListStep, CompareListStep, DiscoverStep, PassStep, InformerStep,
     WatchersUpdatedStep DEF Builder
<1>3. CASE Listener
  BY <1>1, <1>3, ListenerStep, InformerStep DEF Listener
<1>4. QED
  BY <1>2, <1>3, UsersStep, ControllersStep, ListenerStep, RebuildFailsStep, RestartStep,
     StutterStep DEF Next

\* The invariant holds in every state.
LEMMA IndInvHolds == Spec => []IndInv
  BY InitInv, StepKeeps, PTL DEF Spec

\* Every variable keeps its type, and what a rebuild has still to look at is part
\* of the list it made.
THEOREM TypeCorrect == Spec => []TypeOK
<1>1. IndInv => TypeOK
  BY DEF IndInv
<1>2. QED
  BY <1>1, IndInvHolds, PTL

\* No GVK of a reconciled policy is forgotten: buildResourceToWatch clears the
\* flag before it lists the policies and raises it again when it fails, and
\* startWatcher passes over a GVK only when an informer runs for it.
THEOREM NoGVKForgotten == Spec => []NoForgottenGVK
<1>1. IndInv => NoForgottenGVK
  BY DEF IndInv
<1>2. QED
  BY <1>1, IndInvHolds, PTL
=============================================================================
