-------------------------- MODULE ReportStoreProofs --------------------------
(***************************************************************************)
(* What every operation on the stored report preserves, whoever calls it:  *)
(* the types, and that a copy at the server's resource version says what   *)
(* the server says.  That is what makes Update's conflict check worth      *)
(* anything to the code that writes its copy back.                         *)
(***************************************************************************)
EXTENDS ReportStore, TLAPS

\* A copy at the server's resource version says what the server says.
CopiesCurrent == /\ fresh["cache"] => cache = report
                 /\ \A w \in Writers : copy[w].exists /\ fresh[w] => copy[w] = report

StoreInv == StoreTypeOK /\ CopiesCurrent

\* A report, and a copy of one, says something.
Stated == /\ report.exists => report.spec \in Specs
          /\ cache.exists => cache.spec \in Specs
          /\ \A w \in Writers : copy[w].exists => copy[w].spec \in Specs

\* Nothing is stored at first.
LEMMA StoreInitInv == StoreInit => StoreInv
  BY CacheAssumption
     DEF StoreInit, StoreInv, StoreTypeOK, CopiesCurrent, Reports, Absent, Phases, Copies

\* What a write does to the copies.
LEMMA StoreCopies ==
    ASSUME NEW keep, NEW drop, NEW new, keep \cap drop = {}, Store(keep, drop, new),
           NEW w \in Writers
    PROVE  /\ w \in keep => copy'[w] = new
           /\ w \in drop => copy'[w] = Absent
           /\ w \notin keep \cup drop => copy'[w] = copy[w]
<1>1. CASE w \in keep
  BY <1>1 DEF Store
<1>2. CASE w \in drop
  BY <1>2 DEF Store
<1>3. CASE w \notin keep \cup drop
  BY <1>3 DEF Store
<1>4. QED
  BY <1>1, <1>2, <1>3

\* Nobody but w, and not the cache, sees the write.
OnlySeenBy(w) == /\ UNCHANGED cache
                 /\ \A v \in Writers : v # w => copy'[v] = copy[v]

\* What each of w's calls leaves in the server and in w's hands.
LEMMA CreateEffect ==
    ASSUME NEW w \in Writers, NEW spec, Create(w, spec)
    PROVE  /\ ~report.exists
           /\ report'.exists /\ ~report'.deleting /\ report'.phase = "none" /\ report'.spec = spec
           /\ copy'[w] = report' /\ OnlySeenBy(w)
<1>1. Store({w}, {}, [Absent EXCEPT !.exists = TRUE, !.spec = spec])
  BY DEF Create
<1>2. QED
  BY <1>1, StoreCopies DEF Store, OnlySeenBy, Create, CanCreate, Absent

LEMMA UpdateEffect ==
    ASSUME StoreTypeOK, NEW w \in Writers, NEW spec, Update(w, spec)
    PROVE  /\ CanUpdate(w)
           /\ report'.spec = spec
           /\ report'.exists = report.exists /\ report'.phase = report.phase
           /\ report'.deleting = report.deleting /\ report'.finalizer = report.finalizer
           /\ copy'[w] = report' /\ OnlySeenBy(w)
<1>1. Store({w}, {}, [report EXCEPT !.spec = spec])
  BY DEF Update
<1>2. QED
  BY <1>1, StoreCopies DEF Store, OnlySeenBy, Update, StoreTypeOK, Reports

LEMMA StatusUpdateEffect ==
    ASSUME StoreTypeOK, NEW w \in Writers, NEW phase, StatusUpdate(w, phase)
    PROVE  /\ CanUpdate(w)
           /\ report'.phase = phase
           /\ report'.exists = report.exists /\ report'.spec = report.spec
           /\ report'.deleting = report.deleting /\ report'.finalizer = report.finalizer
           /\ copy'[w] = Absent /\ OnlySeenBy(w)
<1>1. Store({}, {w}, [report EXCEPT !.phase = phase])
  BY DEF StatusUpdate
<1>2. QED
  BY <1>1, StoreCopies DEF Store, OnlySeenBy, StatusUpdate, StoreTypeOK, Reports

\* Delete and the patches leave every copy alone, and what the report says too.
LEMMA PatchEffect ==
    ASSUME StoreTypeOK, Delete \/ PatchAddFinalizer \/ PatchRemoveFinalizer
    PROVE  /\ cache' = cache
           /\ \A w \in Writers : copy'[w] = copy[w]
           /\ report.exists
           /\ \/ report' = Absent /\ (report.deleting \/ Delete)
              \/ /\ report'.exists /\ (report.deleting => report'.deleting)
                 /\ report'.spec = report.spec /\ report'.phase = report.phase
<1>1. PICK new : /\ Store({}, {}, new)
                 /\ \/ new = Absent /\ (report.deleting \/ Delete)
                    \/ /\ new.exists /\ (report.deleting => new.deleting)
                       /\ new.spec = report.spec /\ new.phase = report.phase
  <2>1. CASE Delete
    BY <2>1 DEF Delete, StoreTypeOK, Reports
  <2>2. CASE PatchAddFinalizer
    BY <2>2 DEF PatchAddFinalizer, StoreTypeOK, Reports
  <2>3. CASE PatchRemoveFinalizer
    BY <2>3 DEF PatchRemoveFinalizer, StoreTypeOK, Reports
  <2>4. QED
    BY <2>1, <2>2, <2>3
<1>2. report.exists
  BY DEF Delete, PatchAddFinalizer, PatchRemoveFinalizer
<1>3. QED
  BY <1>1, <1>2, StoreCopies DEF Store

\* Reads and the end of a copy's life change nothing but the copy.
LEMMA HoldEffect ==
    ASSUME StoreTypeOK, NEW w \in Writers, GetCached(w) \/ GetLive(w) \/ Discard(w)
    PROVE  /\ report' = report /\ OnlySeenBy(w)
           /\ GetCached(w) => copy'[w] = cache
           /\ GetLive(w) => copy'[w] = report
           /\ Discard(w) => copy'[w] = Absent
  BY DEF StoreTypeOK, GetCached, GetLive, Hold, Discard, OnlySeenBy

\* A write: whoever keeps the result has what the server has, and a copy that
\* stays at the server's version was of the same object.
LEMMA StoreKeeps ==
    ASSUME StoreInv, NEW keep \in SUBSET Writers, NEW drop \in SUBSET Writers,
           keep \cap drop = {}, NEW new \in Reports, Store(keep, drop, new)
    PROVE  StoreInv'
<1>1. "cache" \notin Writers
  BY CacheAssumption
<1>2. StoreTypeOK'
  BY DEF StoreInv, StoreTypeOK, Store, Reports, Absent, Phases, Copies
<1>3. fresh'["cache"] => cache' = report'
  BY <1>1 DEF StoreInv, StoreTypeOK, CopiesCurrent, Store, Copies, InUse
<1>4. ASSUME NEW w \in Writers, copy'[w].exists, fresh'[w]
      PROVE  copy'[w] = report'
  <2>1. CASE w \in keep
    <3>1. copy'[w] = new
      BY <2>1 DEF Store
    <3>2. QED
      BY <3>1 DEF Store
  <2>2. CASE w \notin keep /\ w \in drop
    BY <2>2, <1>4 DEF Store, Absent
  <2>3. CASE w \notin keep /\ w \notin drop
    BY <2>3, <1>1, <1>4 DEF StoreInv, CopiesCurrent, Store, Copies, InUse
  <2>4. QED
    BY <2>1, <2>2, <2>3
<1>5. QED
  BY <1>2, <1>3, <1>4 DEF StoreInv, CopiesCurrent

\* A copy goes out of scope.
LEMMA DiscardKeeps ==
    ASSUME StoreInv, NEW w \in Writers, Discard(w)
    PROVE  StoreInv'
<1>1. w # "cache"
  BY CacheAssumption
<1>2. QED
  BY <1>1 DEF StoreInv, StoreTypeOK, CopiesCurrent, Discard, Absent, Reports, Phases, Copies

\* A read, through the cache or of the server.
LEMMA GetKeeps ==
    ASSUME StoreInv, NEW w \in Writers, GetCached(w) \/ GetLive(w)
    PROVE  StoreInv'
<1>1. w # "cache" /\ report.exists \in BOOLEAN /\ cache.exists \in BOOLEAN
  BY CacheAssumption DEF StoreInv, StoreTypeOK, Reports
<1>2. StoreTypeOK'
  BY <1>1 DEF StoreInv, StoreTypeOK, GetCached, GetLive, Hold, Copies
<1>3. CopiesCurrent'
  BY <1>1 DEF StoreInv, StoreTypeOK, CopiesCurrent, GetCached, GetLive, Hold, Copies
<1>4. QED
  BY <1>2, <1>3 DEF StoreInv

\* The informer catches up.
LEMMA SyncCacheKeeps ==
    ASSUME StoreInv, SyncCache
    PROVE  StoreInv'
  BY CacheAssumption DEF StoreInv, StoreTypeOK, CopiesCurrent, SyncCache, Copies

\* A new process.
LEMMA StoreRestartKeeps ==
    ASSUME StoreInv, NEW outside \in SUBSET Writers, StoreRestart(outside)
    PROVE  StoreInv'
<1>1. "cache" \notin Writers
  BY CacheAssumption
<1>2. StoreTypeOK'
  BY DEF StoreInv, StoreTypeOK, StoreRestart, Reports, Absent, Phases, Copies
<1>3. CopiesCurrent'
  BY <1>1 DEF StoreInv, StoreTypeOK, CopiesCurrent, StoreRestart, Absent, Copies
<1>4. QED
  BY <1>2, <1>3 DEF StoreInv

\* The calls that write.
LEMMA WritesKeep ==
    ASSUME StoreInv, NEW w \in Writers, NEW spec \in Specs \cup {NoSpec}, NEW phase \in Phases,
           \/ Create(w, spec) \/ Update(w, spec) \/ StatusUpdate(w, phase)
           \/ Delete \/ PatchAddFinalizer \/ PatchRemoveFinalizer
    PROVE  StoreInv'
<1>1. /\ report \in Reports
      /\ Absent \in Reports
      /\ [Absent EXCEPT !.exists = TRUE, !.spec = spec] \in Reports
      /\ [report EXCEPT !.spec = spec] \in Reports
      /\ [report EXCEPT !.phase = phase] \in Reports
      /\ [report EXCEPT !.deleting = TRUE] \in Reports
      /\ [report EXCEPT !.finalizer = TRUE] \in Reports
      /\ [report EXCEPT !.finalizer = FALSE] \in Reports
  BY DEF StoreInv, StoreTypeOK, Reports, Absent, Phases
<1>2. PICK keep \in SUBSET Writers, drop \in SUBSET Writers, new \in Reports :
         keep \cap drop = {} /\ Store(keep, drop, new)
  <2>1. CASE Create(w, spec)
    BY <1>1, <2>1 DEF Create
  <2>2. CASE Update(w, spec)
    BY <1>1, <2>2 DEF Update
  <2>3. CASE StatusUpdate(w, phase)
    BY <1>1, <2>3 DEF StatusUpdate
  <2>4. CASE Delete
    BY <1>1, <2>4 DEF Delete
  <2>5. CASE PatchAddFinalizer
    BY <1>1, <2>5 DEF PatchAddFinalizer
  <2>6. CASE PatchRemoveFinalizer
    BY <1>1, <2>6 DEF PatchRemoveFinalizer
  <2>7. QED
    BY <2>1, <2>2, <2>3, <2>4, <2>5, <2>6
<1>3. QED
  BY <1>2, StoreKeeps

\* What is written says something, if the writer's Spec does.
LEMMA StoreStates ==
    ASSUME Stated, NEW keep, NEW drop, NEW new, keep \cap drop = {},
           new.exists => new.spec \in Specs, Store(keep, drop, new)
    PROVE  Stated'
<1>1. report' = new /\ cache' = cache
  BY DEF Store
<1>2. ASSUME NEW w \in Writers, copy'[w].exists
      PROVE  copy'[w].spec \in Specs
  BY <1>2, StoreCopies DEF Stated, Absent
<1>3. QED
  BY <1>1, <1>2 DEF Stated

LEMMA WritesState ==
    ASSUME Stated, StoreTypeOK, NEW w \in Writers, NEW spec \in Specs,
           NEW phase \in Phases,
           \/ Create(w, spec) \/ Update(w, spec) \/ StatusUpdate(w, phase) \/ Delete
    PROVE  Stated'
<1> DEFINE Stating == {r \in Reports : r.exists => r.spec \in Specs}
<1>1. /\ [Absent EXCEPT !.exists = TRUE, !.spec = spec] \in Stating
      /\ [report EXCEPT !.spec = spec] \in Stating
      /\ Absent \in Stating
      /\ [report EXCEPT !.phase = phase] \in Stating
      /\ [report EXCEPT !.deleting = TRUE] \in Stating
  BY DEF Stated, StoreTypeOK, Reports, Absent, Phases
<1> HIDE DEF Stating
<1>2. PICK keep, drop, new : /\ keep \cap drop = {} /\ Store(keep, drop, new)
                             /\ new \in Stating
  <2>1. CASE Create(w, spec)
    BY <1>1, <2>1 DEF Create
  <2>2. CASE Update(w, spec)
    BY <1>1, <2>2 DEF Update
  <2>3. CASE StatusUpdate(w, phase)
    BY <1>1, <2>3 DEF StatusUpdate, CanUpdate
  <2>4. CASE Delete
    BY <1>1, <2>4 DEF Delete
  <2>5. QED
    BY <2>1, <2>2, <2>3, <2>4
<1>3. QED
  BY <1>2, StoreStates DEF Stating

\* Reads copy what was written.
LEMMA ReadsState ==
    ASSUME Stated, StoreTypeOK, NEW w \in Writers, NEW outside,
           \/ GetCached(w) \/ GetLive(w) \/ Discard(w) \/ SyncCache \/ StoreRestart(outside)
    PROVE  Stated'
<1>1. CASE GetCached(w) \/ GetLive(w) \/ Discard(w)
  BY <1>1 DEF Stated, StoreTypeOK, GetCached, GetLive, Hold, Discard, Absent
<1>2. CASE SyncCache
  BY <1>2 DEF Stated, SyncCache
<1>3. CASE StoreRestart(outside)
  BY <1>3 DEF Stated, StoreRestart, Absent
<1>4. QED
  BY <1>1, <1>2, <1>3
=============================================================================
