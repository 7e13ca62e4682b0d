---------------------------- MODULE AgentProcess ----------------------------
(***************************************************************************)
(* The agent's process (cmd/main.go), the manager singleton                *)
(* (pkg/evaluation/manager.go) and how notifications reach policies: the   *)
(* reconcilers' GVK maps and the react methods they register.              *)
(*                                                                         *)
(* main runs generations.  One creates a controller-runtime manager and    *)
(* the evaluation manager, starts the controllers one after the other in a *)
(* goroutine, and ends when its context is cancelled: because the token    *)
(* that gives access to the managed cluster has expired, or because of a   *)
(* SIGTERM, which the agent also sends to itself.  The goroutine that      *)
(* starts controllers, and handlers of informers, can outlive their        *)
(* generation and meet no manager, or that of the next one.                *)
(*                                                                         *)
(* Each kind has one policy, given by the GVKs it selects.  An evaluation  *)
(* is what it reads; queues and reports have modules of their own, and so  *)
(* has the rebuild of the watchers, which is one step here.                *)
(***************************************************************************)
EXTENDS Naturals, Sequences

CONSTANTS Order,       \* the kinds, in the order startControllers starts them
          GVKs,        \* what policies select
          Clusters,    \* the CRDs and resources that are there from the start
          MaxChanges,  \* bound: changes of resources and policies, CRDs installed
          MaxEndings   \* bound: times a token expires or a SIGTERM is sent

PolicyKinds == {Order[i] : i \in 1..Len(Order)}
Generations == 1..(MaxEndings + 1)

ASSUME OrderAssumption ==
    Order \in Seq({"classifier", "healthCheck", "eventSource", "reloader"}) /\ Order # <<>>
ASSUME ClustersAssumption ==
    Clusters \subseteq [crds : SUBSET PolicyKinds, objects : SUBSET GVKs]
ASSUME BoundsAssumption == MaxChanges \in Nat /\ MaxEndings \in Nat

VARIABLES crds,       \* the kinds whose CRD is installed
          policy,     \* policy[k]: the GVKs it selects, {} when there is none
          objects,    \* the GVKs there are resources of
          signalled,  \* the signal handler's context, parent of all others, is cancelled
          expired,    \* the token in use has expired
          mpc,        \* where main is in its loop
          gen,        \* the generation it is in
          ended,      \* that generation's context is cancelled
          instance,   \* managerInstance: its generation, 0 for nil
          starter,    \* starter[n]: where startControllers of generation n is
          built,      \* the kinds whose controller runs
          pending,    \* the kinds whose policy is in the controller's workqueue
          reconciling,  \* reconciling[k]: where the reconciliation of k's policy is
          read,       \* read[k]: the policy that reconciliation has read
          maps,       \* maps[n][k]: the GVKs under which generation n's reconciler has it
          reacts,     \* reacts[k]: the generation of the react method registered, 0 for nil
          watching,   \* the GVKs with an informer
          rebuild,    \* rebuildResourceToWatch
          notify,     \* GVKs whose informer has a notification to deliver
          late,       \* the kinds handlers of a past generation are about to queue
          jobQueues,  \* the manager's job queues
          fresh,      \* fresh[k]: the GVKs unchanged since k's policy was evaluated on them
          missed,     \* history: kinds a change has not been reported to
          changes, endings

clusterVars == <<crds, policy, objects, changes>>
mainVars == <<signalled, expired, mpc, gen, ended, endings>>
reconcilerVars == <<built, pending, reconciling, read, maps>>
managerVars == <<reacts, watching, rebuild, notify, jobQueues>>
processVars == <<clusterVars, mainVars, instance, starter, reconcilerVars, managerVars,
                 late, fresh, missed>>

NothingMapped == [n \in Generations |-> [k \in PolicyKinds |-> {}]]

ProcessInit == /\ mpc = "initialize" /\ gen = 1 /\ ended = FALSE /\ expired = FALSE
               /\ signalled = FALSE
               /\ instance = 0
               /\ starter = [n \in Generations |-> <<"none", 0>>]
               /\ built = {} /\ pending = {} /\ maps = NothingMapped
               /\ reconciling = [k \in PolicyKinds |-> "none"] /\ read = [k \in PolicyKinds |-> {}]
               /\ reacts = [k \in PolicyKinds |-> 0] /\ watching = {} /\ rebuild = FALSE
               /\ notify = {} /\ late = {} /\ jobQueues = {}
               /\ \E c \in Clusters : crds = c.crds /\ objects = c.objects
               /\ policy = [k \in PolicyKinds |-> {}]
               /\ fresh = [k \in PolicyKinds |-> {}]
               /\ missed = {} /\ changes = 0 /\ endings = 0

\* The context of the current generation and of the manager it uses is alive.
Running == mpc = "running" /\ ~ended
ManagerRuns == Running /\ instance = gen

(***************************************************************************)
(* The cluster.                                                            *)
(***************************************************************************)
Changed == changes < MaxChanges /\ changes' = changes + 1

InstallCRD == /\ Changed
              /\ \E k \in PolicyKinds \ crds : crds' = crds \cup {k}
              /\ UNCHANGED <<policy, objects, mainVars, instance, starter, reconcilerVars,
                             managerVars, late, fresh, missed>>

\* A policy is created, edited or removed; its controller, if any, notices.
EditPolicy == /\ Changed
              /\ \E k \in crds : \E s \in SUBSET GVKs \ {policy[k]} :
                    /\ policy' = [policy EXCEPT ![k] = s]
                    /\ pending' = pending \cup ({k} \cap built)
              /\ UNCHANGED <<crds, objects, mainVars, instance, starter, built, reconciling,
                             read, maps, managerVars, late, fresh, missed>>

\* A resource is created, edited or deleted, perhaps the last of its kind; its
\* informer, if there is one, notices.
ChangeResource == /\ Changed
                  /\ \E g \in GVKs :
                        /\ objects' \in {objects \ {g}, objects \cup {g}}
                        /\ g \in objects \cup objects'
                        /\ fresh' = [k \in PolicyKinds |-> fresh[k] \ {g}]
                        /\ notify' = notify \cup (IF ManagerRuns THEN {g} \cap watching ELSE {})
                  /\ UNCHANGED <<crds, policy, mainVars, instance, starter, reconcilerVars,
                                 reacts, watching, rebuild, jobQueues, late, missed>>

\* The informers' periodic resync (sync-period) reconciles what exists.
Resync == /\ Running
          /\ \E k \in built \ pending : policy[k] # {} /\ pending' = pending \cup {k}
          /\ UNCHANGED <<clusterVars, mainVars, instance, starter, built, reconciling, read,
                         maps, managerVars, late, fresh, missed>>

(***************************************************************************)
(* main.                                                                   *)
(***************************************************************************)
\* Mutated form of InitializeManager: the manager is not there when
\* startControllers begins.
InitializeManagerLate ==
    /\ mpc = "initialize"
    /\ mpc' = "running"
    /\ ended' = signalled /\ expired' = FALSE
    /\ starter' = [starter EXCEPT ![gen] = <<"wait", 0>>]
    /\ missed' = {}
    /\ UNCHANGED <<clusterVars, signalled, gen, endings, instance, reconcilerVars, managerVars,
                   late, fresh>>

\* The configuration is read, the manager created and the goroutines started,
\* with a context derived from the signal handler's, which nobody looks at;
\* InitializeManager does nothing when there is an instance.
InitializeManager ==
    /\ mpc = "initialize"
    /\ mpc' = "running"
    /\ ended' = signalled /\ expired' = FALSE
    /\ starter' = [starter EXCEPT ![gen] = <<"wait", 0>>]
    /\ instance' = IF instance = 0 THEN gen ELSE instance
    /\ missed' = {}
    /\ UNCHANGED <<clusterVars, signalled, gen, endings, reconcilerVars, managerVars, late, fresh>>

ExpireToken == /\ Running /\ ~expired
               /\ endings < MaxEndings
               /\ endings' = endings + 1
               /\ expired' = TRUE
               /\ UNCHANGED <<clusterVars, signalled, mpc, gen, ended, instance, starter,
                              reconcilerVars, managerVars, late, fresh, missed>>

\* Unauthorized: the generation's context is cancelled.
restartIfNeeded == /\ Running /\ expired
                   /\ ended' = TRUE
                   /\ UNCHANGED <<clusterVars, signalled, expired, mpc, gen, endings, instance,
                                  starter, reconcilerVars, managerVars, late, fresh, missed>>

\* SIGTERM: a handler of the manager has seen the CRD of an unknown GVK or
\* another NATS configuration (when and why is Watchers' business), or somebody
\* else sends it.
restart == /\ mpc = "running" /\ ~signalled
           /\ endings < MaxEndings
           /\ endings' = endings + 1
           /\ signalled' = TRUE /\ ended' = TRUE
           /\ UNCHANGED <<clusterVars, expired, mpc, gen, instance, starter, reconcilerVars,
                          managerVars, late, fresh, missed>>

\* The kinds that react to a notification of g has queued.
ReactsTo(g) == {k \in PolicyKinds : reacts[k] # 0 /\ g \in maps[reacts[k]][k]}

\* mgr.Start returns once the reconciliations under way are over; informers
\* stop, but a handler may still be running.
StartReturns == /\ mpc = "running" /\ ended
                /\ \A k \in PolicyKinds : reconciling[k] = "none"
                /\ mpc' = "reset"
                /\ built' = {} /\ pending' = {}
                /\ late' = late \cup UNION {ReactsTo(g) : g \in notify}
                /\ notify' = {}
                /\ UNCHANGED <<clusterVars, signalled, expired, gen, ended, endings, instance,
                               starter, reconciling, read, maps, reacts, watching, rebuild,
                               jobQueues, fresh, missed>>

\* Mutated form of Reset: the instance is kept.
ResetKeeps == /\ mpc = "reset"
              /\ mpc' = "initialize"
              /\ gen' = gen + 1
              /\ UNCHANGED <<clusterVars, signalled, expired, ended, endings, instance, starter,
                             reconcilerVars, managerVars, late, fresh, missed>>

\* A generation that was never to start a controller (its context was cancelled
\* before): the next one is no different, and takes its number.
NeverStarts == signalled /\ starter[gen] = <<"wait", 0>>

\* The instance goes and what only it refers to: of the reconcilers, all but the
\* one startControllers is about to register.
Reset == /\ mpc = "reset"
         /\ mpc' = "initialize"
         /\ gen' = IF NeverStarts THEN gen ELSE gen + 1
         /\ instance' = 0
         /\ reacts' = [k \in PolicyKinds |-> 0] /\ watching' = {} /\ rebuild' = FALSE
         /\ notify' = {} /\ jobQueues' = {}
         /\ maps' = [maps EXCEPT ![gen] =
                       [k \in PolicyKinds |->
                          IF starter[gen][1] = "register" /\ Order[starter[gen][2]] = k
                          THEN @[k] ELSE {}]]
         /\ UNCHANGED <<clusterVars, signalled, expired, ended, endings, starter, built, pending,
                        reconciling, read, late, fresh, missed>>

\* A panic or an exit ends the process, and the kubelet starts a new one.
Crash == /\ mpc' = "initialize" /\ gen' = 1 /\ ended' = FALSE /\ expired' = FALSE
         /\ signalled' = FALSE
         /\ instance' = 0
         /\ starter' = [n \in Generations |-> <<"none", 0>>]
         /\ built' = {} /\ pending' = {} /\ maps' = NothingMapped
         /\ reconciling' = [k \in PolicyKinds |-> "none"] /\ read' = [k \in PolicyKinds |-> {}]
         /\ reacts' = [k \in PolicyKinds |-> 0] /\ watching' = {} /\ rebuild' = FALSE
         /\ notify' = {} /\ late' = {} /\ jobQueues' = {} /\ missed' = {}
         /\ UNCHANGED <<clusterVars, endings, fresh>>

\* After a SIGTERM: a second one, which exits, or a kill from outside.
Killed == signalled /\ Crash

Main == InitializeManager \/ restartIfNeeded \/ StartReturns \/ Reset

(***************************************************************************)
(* startControllers, one goroutine per generation.                         *)
(***************************************************************************)
\* starter[n] = <<"check", i>>: about to look for the CRD of Order[i];
\* <<"register", i>>: its controller is built, its react not registered.
After(i) == IF i = Len(Order) THEN <<"done", 0>> ELSE <<"check", i + 1>>

\* The CRD that always exists is read, which fails until the cache has synced.
startControllers(n) ==
    /\ starter[n] = <<"wait", 0>>
    /\ n = gen /\ Running /\ ~expired
    /\ starter' = [starter EXCEPT ![n] = <<"check", 1>>]
    /\ UNCHANGED <<clusterVars, mainVars, instance, reconcilerVars, managerVars, late,
                   fresh, missed>>

\* No CRD, no controller: it is not looked for again.
SkipController(n) ==
    /\ starter[n][1] = "check"
    /\ Order[starter[n][2]] \notin crds
    /\ starter' = [starter EXCEPT ![n] = After(@[2])]
    /\ UNCHANGED <<clusterVars, mainVars, instance, reconcilerVars, managerVars, late,
                   fresh, missed>>

\* Build starts the controller, which lists what exists.
Build(n) ==
    /\ starter[n][1] = "check"
    /\ n = gen /\ mpc = "running"
    /\ LET k == Order[starter[n][2]]
       IN  /\ k \in crds
           /\ built' = IF ended THEN built ELSE built \cup {k}
           /\ pending' = IF ended \/ expired \/ policy[k] = {} THEN pending
                         ELSE pending \cup {k}
    /\ starter' = [starter EXCEPT ![n] = <<"register", @[2]>>]
    /\ UNCHANGED <<clusterVars, mainVars, instance, reconciling, read, maps, managerVars, late,
                   fresh, missed>>

\* A manager that has been stopped takes no controller: os.Exit.
BuildFails(n) ==
    /\ starter[n][1] = "check"
    /\ Order[starter[n][2]] \in crds
    /\ n # gen \/ mpc # "running" \/ ended
    /\ Crash

\* GetManager().RegisterXMethod(r.react), whatever GetManager returns by now.
Register(n) ==
    /\ starter[n][1] = "register"
    /\ \/ instance = 0 /\ Crash
       \/ /\ instance # 0
          /\ reacts' = [reacts EXCEPT ![Order[starter[n][2]]] = n]
          /\ starter' = [starter EXCEPT ![n] = After(@[2])]
          /\ UNCHANGED <<clusterVars, mainVars, instance, reconcilerVars, watching, rebuild,
                         notify, jobQueues, late, fresh, missed>>

(***************************************************************************)
(* The reconcilers.                                                        *)
(***************************************************************************)
\* The policy is fetched and, but for a Reloader, a rebuild asked for.
Reconcile(k) ==
    /\ mpc = "running" /\ k \in built \cap pending /\ reconciling[k] = "none"
    /\ pending' = pending \ {k}
    /\ reconciling' = [reconciling EXCEPT ![k] = "maps"]
    /\ read' = [read EXCEPT ![k] = policy[k]]
    /\ rebuild' = (rebuild \/ k # "reloader")
    /\ UNCHANGED <<clusterVars, mainVars, instance, starter, built, maps, reacts, watching,
                   notify, jobQueues, late, fresh, missed>>

\* The GVKs a reconciler has a policy under once it has seen the new selectors
\* (cleanMaps for a policy that is gone): only a Reloader's forgets old ones.
Mapped(k, old, new) == IF new = {} \/ k = "reloader" THEN new ELSE old \cup new

updateMaps(k) ==
    /\ maps' = [maps EXCEPT ![gen][k] = Mapped(k, @, read[k])]
    /\ UNCHANGED jobQueues

\* manager.EvaluateX
Queue(k) == jobQueues' = jobQueues \cup {k} /\ UNCHANGED maps

\* Mutated form of Steps: the policy is queued before it is in the maps.
StepsSwapped(k) ==
    \/ reconciling[k] = "maps" /\ Queue(k) /\ reconciling' = [reconciling EXCEPT ![k] = "queue"]
    \/ reconciling[k] = "queue" /\ updateMaps(k) /\ reconciling' = [reconciling EXCEPT ![k] = "none"]

Steps(k) ==
    \/ reconciling[k] = "maps" /\ updateMaps(k) /\ reconciling' = [reconciling EXCEPT ![k] = "queue"]
    \/ reconciling[k] = "queue" /\ Queue(k) /\ reconciling' = [reconciling EXCEPT ![k] = "none"]

\* reconcileNormal, or reconcileDelete: the maps, then the queue.
reconcileNormal(k) ==
    /\ Steps(k)
    /\ read' = IF reconciling'[k] = "none" THEN [read EXCEPT ![k] = {}] ELSE read
    /\ UNCHANGED <<clusterVars, mainVars, instance, starter, built, pending, reacts, watching,
                   rebuild, notify, late, fresh, missed>>

(***************************************************************************)
(* The manager.                                                            *)
(***************************************************************************)
\* An informer's handler: each registered react queues the policies it has
\* under g.
react(g) ==
    /\ ManagerRuns /\ g \in notify
    /\ notify' = notify \ {g}
    /\ jobQueues' = jobQueues \cup ReactsTo(g)
    /\ missed' = missed \cup {k \in built : reacts[k] # gen /\ g \in policy[k]}
    /\ UNCHANGED <<clusterVars, mainVars, instance, starter, reconcilerVars, reacts, watching,
                   rebuild, late, fresh>>

\* A handler that outlived its generation asks for the manager there is now.
lateReact(k) ==
    /\ k \in late
    /\ \/ instance = 0 /\ Crash
       \/ /\ instance # 0
          /\ late' = late \ {k}
          /\ jobQueues' = jobQueues \cup {k}
          /\ UNCHANGED <<clusterVars, mainVars, instance, starter, reconcilerVars, reacts,
                         watching, rebuild, notify, fresh, missed>>

\* One evaluation: it reads the resources the policy selects.
Evaluate(k) ==
    /\ ManagerRuns /\ ~expired /\ k \in jobQueues
    /\ jobQueues' = jobQueues \ {k}
    /\ fresh' = [fresh EXCEPT ![k] = policy[k]]
    /\ missed' = missed \ {k}
    /\ UNCHANGED <<clusterVars, mainVars, instance, starter, reconcilerVars, reacts, watching,
                   rebuild, notify, late>>

\* Informers are started for what policies select and never stopped.  Their
\* first list is reported, object by object: nobody hears of resources deleted
\* since the evaluation when none are left.  What a Reloader selects is not
\* watched for its sake.
buildResourceToWatch ==
    /\ ManagerRuns /\ ~expired /\ rebuild
    /\ rebuild' = FALSE
    /\ LET started == UNION {policy[k] : k \in PolicyKinds \ {"reloader"}} \ watching
       IN  /\ watching' = watching \cup started
           /\ notify' = notify \cup (started \cap objects)
           /\ missed' = missed \cup {k \in built :
                            (started \ objects) \cap (policy[k] \ fresh[k]) # {}}
    /\ UNCHANGED <<clusterVars, mainVars, instance, starter, reconcilerVars, reacts, jobQueues,
                   late, fresh>>

Starter(n) == startControllers(n) \/ SkipController(n) \/ Build(n) \/ Register(n)

ProcessNext == \/ InstallCRD \/ EditPolicy \/ ChangeResource \/ Resync
               \/ InitializeManager \/ ExpireToken \/ restartIfNeeded \/ restart \/ StartReturns
               \/ Reset \/ Killed
               \/ \E n \in Generations : Starter(n) \/ BuildFails(n)
               \/ \E k \in PolicyKinds : \/ Reconcile(k) \/ reconcileNormal(k)
                                        \/ lateReact(k) \/ Evaluate(k)
               \/ \E g \in GVKs : react(g)
               \/ buildResourceToWatch

\* Goroutines that can proceed do; a call a context has ended need not fail.
ProcessFairness ==
    /\ WF_processVars(Main) /\ WF_processVars(buildResourceToWatch)
    /\ \A n \in Generations : WF_processVars(Starter(n))
    /\ \A k \in PolicyKinds : /\ WF_processVars(Reconcile(k))
                              /\ WF_processVars(reconcileNormal(k))
                              /\ WF_processVars(lateReact(k))
                              /\ WF_processVars(Evaluate(k))
                              /\ WF_processVars(Resync /\ k \in pending' \ pending)
    /\ \A g \in GVKs : WF_processVars(react(g))

ProcessSpec == ProcessInit /\ [][ProcessNext]_processVars /\ ProcessFairness

(***************************************************************************)
(* Properties.                                                             *)
(***************************************************************************)
\* The values the variables take; between two generations there is no manager,
\* and a reconciliation that has ended holds no policy (manager.go:178).
ProcessTypeOK == /\ crds \subseteq PolicyKinds
                 /\ policy \in [PolicyKinds -> SUBSET GVKs]
                 /\ read \in [PolicyKinds -> SUBSET GVKs]
                 /\ objects \subseteq GVKs /\ signalled \in BOOLEAN
                 /\ expired \in BOOLEAN /\ ended \in BOOLEAN /\ rebuild \in BOOLEAN
                 /\ mpc \in {"initialize", "running", "reset"}
                 /\ gen \in Generations
                 /\ instance \in IF mpc = "initialize" THEN {0} ELSE {gen}
                 /\ starter \in [Generations -> {"none", "wait", "check", "register", "done"}
                                                 \X (0..Len(Order))]
                 /\ built \subseteq PolicyKinds /\ pending \subseteq built
                 /\ reconciling \in [PolicyKinds -> {"none", "maps", "queue"}]
                 /\ \A k \in PolicyKinds : reconciling[k] = "none" => read[k] = {}
                 /\ maps \in [Generations -> [PolicyKinds -> SUBSET GVKs]]
                 /\ reacts \in [PolicyKinds -> Generations \cup {0}]
                 /\ watching \subseteq GVKs /\ notify \subseteq watching
                 /\ late \subseteq PolicyKinds /\ jobQueues \subseteq PolicyKinds
                 /\ missed \subseteq PolicyKinds
                 /\ fresh \in [PolicyKinds -> SUBSET GVKs]
                 /\ changes \in 0..MaxChanges /\ endings \in 0..MaxEndings

\* A change of a watched resource is never forgotten: a policy selecting it that
\* has not been evaluated since is queued or about to be.  There are two
\* exceptions, which leave it to the resync.  One is a notification delivered
\* while the kind's react is not the running reconciler's: between Build and
\* RegisterXMethod, or after a goroutine of a past generation has registered its
\* own (eventsource_controller.go:193).  The other is the last resource of a GVK
\* deleted between the evaluation and the informer's first list
\* (watchers.go:484).
ChangeNoticed ==
    ManagerRuns /\ ~expired =>
        \A k \in built \ missed : \A g \in policy[k] \cap watching :
            g \notin fresh[k] =>
                \/ k \in pending \cup jobQueues \/ reconciling[k] # "none"
                \/ g \in notify

\* A generation whose context is alive dies in one way only: startControllers of
\* a past one, still looking for CRDs, finds its manager stopped and exits
\* (main.go:291).  No late handler or registration meets a missing manager
\* (manager.go:178), whichever of tokens and signals ended the past generations.
OnlyLeftoversKill ==
    [][Running /\ mpc' = "initialize"
         => \E n \in Generations : n < gen /\ starter[n][1] = "check"]_processVars

\* Whatever expires and whichever goroutine dies, a policy whose CRD is there is
\* in the end evaluated on what the cluster holds (main.go:116), unless the
\* process stays signalled.
AgentRecovers ==
    \A k \in PolicyKinds : [](k \in crds) /\ <>[](~signalled) =>
        <>[](policy[k] \subseteq fresh[k])

\* "On restart, agent will be able to start a watcher" (manager.go:309): the
\* generation that follows a SIGTERM can do so only when its context is alive.
GenerationsStartAlive ==
    [][mpc = "initialize" /\ mpc' = "running" => ~ended']_processVars
=============================================================================
