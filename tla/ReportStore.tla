---------------------------- MODULE ReportStore ----------------------------
(***************************************************************************)
(* One report object (HealthCheckReport, EventReport) in the managed       *)
(* cluster's API server, and the agent's informer cache of it.  Neither is *)
(* code of this repository; both are modelled from how it uses them:       *)
(*   - m.Get reads the cache, which lags behind the server and catches up  *)
(*     in its own time;                                                    *)
(*   - Update and Status().Update carry the resource version of the copy   *)
(*     they write back and fail with a conflict when it is not the         *)
(*     server's; a write that changes nothing leaves the version alone;    *)
(*   - patches and Delete carry no version;                                *)
(*   - a deleted object with a finalizer stays, marked as deleting, until  *)
(*     the finalizer is removed.                                           *)
(*                                                                         *)
(* Resource versions are not counted: fresh[c] says that the copy c holds  *)
(* has the version the server has now.                                     *)
(***************************************************************************)
CONSTANTS Specs,    \* what a report's Spec can say
          NoSpec,   \* the Spec of no report
          Writers   \* who holds copies of the report

ASSUME CacheAssumption == "cache" \notin Writers

VARIABLES report,   \* the object in the API server
          cache,    \* the informer's copy
          copy,     \* copy[w]: the object writer w read or wrote last
          fresh     \* fresh[c]: copy c is at the server's resource version

storeVars == <<report, cache, copy, fresh>>

Phases == {"none", "waitingForDelivery", "processed"}

Reports == [exists : BOOLEAN, spec : Specs \cup {NoSpec}, phase : Phases,
            deleting : BOOLEAN, finalizer : BOOLEAN]

\* No object of that name.
Absent == [exists |-> FALSE, spec |-> NoSpec, phase |-> "none",
           deleting |-> FALSE, finalizer |-> FALSE]

Copies == Writers \cup {"cache"}

StoreInit == /\ report = Absent
             /\ cache = Absent
             /\ copy = [w \in Writers |-> Absent]
             /\ fresh = [c \in Copies |-> TRUE]

StoreTypeOK == /\ report \in Reports
               /\ cache \in Reports
               /\ copy \in [Writers -> Reports]
               /\ fresh \in [Copies -> BOOLEAN]

\* A copy that can be out of date: the cache, or what a writer holds.
InUse(c) == c = "cache" \/ copy[c].exists

\* The server stores new.  The writers in keep hold the result, the ones in
\* drop are done with their copy.
Store(keep, drop, new) ==
    /\ report' = new
    /\ copy' = [w \in Writers |-> CASE w \in keep -> new
                                    [] w \in drop -> Absent
                                    [] OTHER -> copy[w]]
    /\ fresh' = [c \in Copies |-> \/ c \in keep \cup drop
                                  \/ ~InUse(c)
                                  \/ new = report /\ fresh[c]]
    /\ UNCHANGED cache

\* w's copy goes out of scope.
Discard(w) == /\ copy' = [copy EXCEPT ![w] = Absent]
              /\ fresh' = [fresh EXCEPT ![w] = TRUE]
              /\ UNCHANGED <<report, cache>>

\* w reads the report through the cache, or from the server.
Hold(w, r, f) == /\ copy' = [copy EXCEPT ![w] = r]
                 /\ fresh' = [fresh EXCEPT ![w] = f \/ ~r.exists]
                 /\ UNCHANGED <<report, cache>>
GetCached(w) == Hold(w, cache, fresh["cache"])
GetLive(w) == Hold(w, report, TRUE)

\* Create; AlreadyExists when there is such an object.
CanCreate == ~report.exists
Create(w, spec) == /\ CanCreate
                   /\ Store({w}, {}, [Absent EXCEPT !.exists = TRUE, !.spec = spec])

\* Update and Status().Update; a conflict when the copy is not fresh.  The
\* status is a subresource: Update leaves the phase alone.  No caller uses its
\* copy after a Status().Update.
CanUpdate(w) == report.exists /\ fresh[w]
Update(w, spec) == CanUpdate(w) /\ Store({w}, {}, [report EXCEPT !.spec = spec])
StatusUpdate(w, phase) == CanUpdate(w) /\ Store({}, {w}, [report EXCEPT !.phase = phase])

\* Delete; NotFound when there is no such object.
Delete == /\ report.exists
          /\ Store({}, {}, IF report.finalizer THEN [report EXCEPT !.deleting = TRUE]
                                               ELSE Absent)

\* Patches of the finalizer.  The server accepts no new finalizer on an object
\* being deleted, and drops the object with its last finalizer.
PatchAddFinalizer == /\ report.exists /\ ~report.deleting /\ ~report.finalizer
                     /\ Store({}, {}, [report EXCEPT !.finalizer = TRUE])
PatchRemoveFinalizer ==
    /\ report.exists /\ report.finalizer
    /\ Store({}, {}, IF report.deleting THEN Absent ELSE [report EXCEPT !.finalizer = FALSE])

\* The informer catches up.
SyncCache == /\ ~fresh["cache"]
             /\ cache' = report
             /\ fresh' = [fresh EXCEPT !["cache"] = TRUE]
             /\ UNCHANGED <<report, copy>>

\* A new process lists the objects and holds no copy.  Writers outside the
\* agent keep theirs.
StoreRestart(outside) ==
    /\ cache' = report
    /\ copy' = [w \in Writers |-> IF w \in outside THEN copy[w] ELSE Absent]
    /\ fresh' = [c \in Copies |-> c \in outside => fresh[c]]
    /\ UNCHANGED report
============================================================================
