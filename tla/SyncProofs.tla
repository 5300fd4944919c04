----------------------------- MODULE SyncProofs -----------------------------
(***************************************************************************)
(* What a pass of Reconciler that reports Ready has brought about, for      *)
(* every value of the constants.                                            *)
(***************************************************************************)
EXTENDS CleanupProofs

(* Nobody but the controller deletes the namespaces: those would take with  *)
(* them the objects a pass has written in them.                             *)
NoDriftingNamespaces == Drifters \cap ManagedNamespace = {}

----------------------------------------------------------------------------
(* ReadyMeansSynced.  A pass reports Ready from answers it got one after    *)
(* the other, so the invariant says that each of them is still true when    *)
(* the pass ends: what it applied stays, because nothing of the provider is *)
(* being deleted before the first Delete pass and the cleaners keep what    *)
(* the version calls for; what a cleaner went through stays clean, because  *)
(* only Apply makes copies; and Ready can come from nowhere else, because   *)
(* the status the pass starts from is never Ready.                          *)

DeletionSticks == pass.deleting => mo.deleting

NothingOnItsWayOut ==
    ~pass.deleting => \A o \in Object \ Drifters : store[o] # "terminating"

ReadyIsEarned ==
    /\ pass.status # "Ready"
    /\ ~mo.id => mo.status # "Ready"
    /\ step \in {"objects", "cleaners", "cleaning", "finish"} => mo.id

VersionIsRead == step = "finish" => Wanted \in Desired

AppliedUpTo(n) ==
    \A i \in 1..n : i <= Len(Objects) /\ Objects[i] \notin Drifters
                        => store[Objects[i]] = "live"

ApplyProgress ==
    ~pass.deleting /\ tally.allReady =>
        /\ step = "objects" => AppliedUpTo(idx - 1)
        /\ step \in {"cleaners", "cleaning", "finish"} => AppliedUpTo(Len(Objects))

(* What is left in the reach of a cleaner is what the version calls for, or *)
(* in "rest".                                                               *)
NothingStale(i, rest) ==
    \A o \in CleanerScope(i) : Managed(o) => InInventory(Wanted, o) \/ o \in rest

SweptUpTo(n) == \A i \in 1..n : NothingStale(i, {})

SweepProgress ==
    ~pass.deleting /\ tally.allReady /\ ~tally.err =>
        /\ step \in {"cleaners", "cleaning"} => SweptUpTo(idx - 1)
        /\ step = "cleaning" => NothingStale(idx, items)
        /\ step = "finish" => SweptUpTo(NumCleaners)

(* The half that is about what is gone needs nobody to leave anything alone.*)
SweptInv == DeletionSticks /\ ReadyIsEarned /\ VersionIsRead /\ SweepProgress

SyncInv == SweptInv /\ NothingOnItsWayOut /\ ApplyProgress

LEMMA SyncInit == Init => SyncInv
<1> SUFFICES ASSUME Init PROVE SyncInv
  OBVIOUS
<1>1. \A o \in Object : store[o] # "terminating"
  BY DEF Init
<1>2. PICK v \in Version : mo = [version |-> v, deleting |-> FALSE, gone |-> FALSE,
                                 id |-> FALSE, status |-> "none"]
  BY DEF Init
<1>3. step = "idle" /\ pass.deleting = FALSE /\ pass.status = "Progressing"
  BY DEF Init
<1> QED
  BY <1>1, <1>2, <1>3
     DEF SyncInv, SweptInv, DeletionSticks, NothingOnItsWayOut, ReadyIsEarned, VersionIsRead,
         ApplyProgress, SweepProgress

(* Before the first Delete pass, only a cleaner takes an object away that   *)
(* nobody else deletes.                                                     *)
LEMMA WhoTakesAway ==
    ASSUME NoDriftingNamespaces, TypeOK, NothingOnItsWayOut, ~pass.deleting, Next,
           NEW o \in Object \ Drifters, store'[o] # store[o],
           store[o] = "live" \/ store'[o] = "terminating"
    PROVE  /\ o \in Swept /\ store'[o] = "absent"
           /\ DeleteOrphan(o) \/ DeleteOrphanFails(o)
<1> USE SomeObjects DEF TypeOK, ClustersTyped, world
<1>1. ASSUME NEW ns \in ManagedNamespace PROVE store[ns] # "terminating"
  BY <1>1 DEF NoDriftingNamespaces, NothingOnItsWayOut
<1>2. ~HelmInstalls
  BY DEF HelmInstalls, Exists
<1>3. ASSUME NEW x, Vanish(x) PROVE x = o /\ store'[o] = "absent"
  BY <1>3 DEF Vanish
<1>4. ASSUME NEW x, NEW r, Write(x, r) PROVE FALSE
  BY <1>4 DEF Write
<1>5. ~ApplyObject /\ ~ApplyObjectFails
  BY <1>4 DEF ApplyObject, ApplyObjectFails
<1>6. ~DeleteObject /\ ~DeleteObjectFails
  BY DEF DeleteObject, DeleteObjectFails
<1>7. ASSUME NEW x \in Drifters, Drift(x) PROVE FALSE
  <2>1. CASE HasFinalizer(x)
    BY <1>7, <2>1 DEF Drift, Erase
  <2>2. CASE ~HasFinalizer(x)
    BY <1>3, <1>7, <2>2 DEF Drift, Erase
  <2> QED
    BY <2>1, <2>2
<1>8. ASSUME NEW x, FluxReady(x) \/ FluxStalls(x) PROVE FALSE
  BY <1>8 DEF FluxReady, FluxStalls
<1>9. ASSUME NEW x, FluxFinalizes(x) PROVE FALSE
  BY <1>3, <1>9 DEF FluxFinalizes, NothingOnItsWayOut
<1>10. ASSUME NEW x \in ManagedNamespace, FinalizeNamespace(x) PROVE FALSE
  BY <1>1, <1>10 DEF FinalizeNamespace
<1>11. ASSUME NEW x, PurgeContent(x) PROVE FALSE
  BY <1>1, <1>11 DEF PurgeContent
<1>12. store' # store
  OBVIOUS
<1>13. ASSUME NEW x, \/ ChangeVersion(x) \/ ChangeProviderConfig(x) \/ CreateMetric(x)
                     \/ DeleteMetric(x)
       PROVE FALSE
  BY <1>12, <1>13 DEF ChangeVersion, ChangeProviderConfig, CreateMetric, DeleteMetric
<1>14. /\ ~StartPass /\ ~ListKind /\ ~GuardDecides /\ ~PrepareConflict
       /\ ~PrepareRejected /\ ~PrepareMalformed /\ ~Prepare
       /\ ~ApplyObjectRefused /\ ~DeleteObjectBlocked /\ ~ObjectsDone
       /\ ~ListOrphans /\ ~CleanerDone /\ ~FinishApply /\ ~FinishDelete
       /\ ~RemoveFinalizer
  BY <1>12 DEF StartPass, ListKind, GuardDecides, PrepareConflict, PrepareRejected,
     PrepareMalformed, Prepare, ApplyObjectRefused, DeleteObjectBlocked, ObjectsDone,
     ListOrphans, CleanerDone, FinishApply, FinishDelete, RemoveFinalizer
<1>15. /\ ~ListKindFails /\ ~PrepareFails /\ ~ListOrphansFails /\ ~Crash
       /\ ~RequestDeletion /\ ~Terminated
  BY <1>12 DEF ListKindFails, PrepareFails, ListOrphansFails, Crash, RequestDeletion,
     Terminated, vars
<1>16. PICK x \in Swept : DeleteOrphan(x) \/ DeleteOrphanFails(x)
  BY <1>2, <1>5, <1>6, <1>7, <1>8, <1>9, <1>10, <1>11, <1>13, <1>14, <1>15
     DEF Next, Handler, FaultyHandler, Users, Controllers
<1>17. Vanish(x)
  BY <1>12, <1>16 DEF DeleteOrphan, DeleteOrphanFails
<1> QED
  BY <1>3, <1>16, <1>17

(* What a version calls for and a pass has applied stays.                   *)
LEMMA StaysApplied ==
    ASSUME NoDriftingNamespaces, TypeOK, OrphanInv, NothingOnItsWayOut, ~pass.deleting, Next,
           \A x \in Swept : ~DeleteOrphanFails(x),
           Wanted \in Desired, NEW i \in 1..Len(Objects),
           Objects[i] \notin Drifters, store[Objects[i]] = "live"
    PROVE  store'[Objects[i]] = "live"
<1> DEFINE o == Objects[i]
<1>1. o \in Object /\ InInventory(Wanted, o)
  BY ObjectsType DEF InInventory, Objects
<1>2. ASSUME o \in Swept, DeleteOrphan(o) PROVE FALSE
  BY <1>1, <1>2, KeepIsComplete DEF OrphanInv, DeleteOrphan
<1>3. o \notin Drifters /\ store[o] = "live"
  OBVIOUS
<1> HIDE DEF o
<1>4. store'[o] = "live"
  BY <1>1, <1>2, <1>3, WhoTakesAway
<1> QED
  BY <1>4 DEF o

LEMMA StatusNext ==
    ASSUME TypeOK, DeletionSticks, ReadyIsEarned, Next
    PROVE  DeletionSticks' /\ ReadyIsEarned'
<1> USE DEF DeletionSticks, ReadyIsEarned, EndPass, world, TypeOK, ClustersTyped, PassTyped
<1>1. CASE StartPass
  BY <1>1 DEF StartPass
<1>2. CASE ListKind \/ GuardDecides \/ ListKindFails
  BY <1>2 DEF ListKind, GuardDecides, ListKindFails
<1>3. CASE PrepareConflict \/ PrepareRejected \/ PrepareMalformed \/ PrepareFails
  BY <1>3 DEF PrepareConflict, PrepareRejected, PrepareMalformed, PrepareFails
<1>4. CASE Prepare
  BY <1>4 DEF Prepare
<1>5. CASE ApplyObject \/ ApplyObjectRefused \/ ApplyObjectFails
  BY <1>5 DEF ApplyObject, ApplyObjectRefused, ApplyObjectFails
<1>6. CASE DeleteObject \/ DeleteObjectBlocked \/ DeleteObjectFails
  BY <1>6 DEF DeleteObject, DeleteObjectBlocked, DeleteObjectFails
<1>7. CASE ObjectsDone \/ ListOrphans \/ ListOrphansFails \/ CleanerDone
  BY <1>7 DEF ObjectsDone, ListOrphans, ListOrphansFails, CleanerDone
<1>8. ASSUME NEW x, DeleteOrphan(x) \/ DeleteOrphanFails(x)
      PROVE  DeletionSticks' /\ ReadyIsEarned'
  BY <1>8 DEF DeleteOrphan, DeleteOrphanFails
<1>9. CASE FinishApply \/ FinishDelete \/ RemoveFinalizer
  BY <1>9 DEF FinishApply, FinishDelete, RemoveFinalizer
<1>10. CASE Crash
  BY <1>10 DEF Crash
<1>11. CASE RequestDeletion \/ \E v \in Version : ChangeVersion(v)
  BY <1>11 DEF RequestDeletion, ChangeVersion, unmovedPass
<1>12. ASSUME NEW x, \/ ChangeProviderConfig(x) \/ CreateMetric(x) \/ DeleteMetric(x)
                     \/ Drift(x) \/ FluxReady(x) \/ FluxStalls(x) \/ FluxFinalizes(x)
                     \/ HelmInstalls \/ PurgeContent(x) \/ FinalizeNamespace(x)
       PROVE  DeletionSticks' /\ ReadyIsEarned'
  BY <1>12 DEF ChangeProviderConfig, CreateMetric, DeleteMetric, Drift, FluxReady,
     FluxStalls, FluxFinalizes, HelmInstalls, PurgeContent, FinalizeNamespace, unmovedPass
<1>13. CASE Terminated
  BY <1>13 DEF Terminated, vars
<1> QED
  BY <1>1, <1>2, <1>3, <1>4, <1>5, <1>6, <1>7, <1>8, <1>9, <1>10, <1>11, <1>12, <1>13
     DEF Next, Handler, FaultyHandler, Users, Controllers

LEMMA NothingOnItsWayOutNext ==
    ASSUME NoDriftingNamespaces, TypeOK, DeletionSticks, NothingOnItsWayOut, Next
    PROVE  NothingOnItsWayOut'
<1> SUFFICES ASSUME ~pass'.deleting, NEW o \in Object \ Drifters,
                    store'[o] = "terminating"
             PROVE  FALSE
  BY DEF NothingOnItsWayOut
<1>1. ~pass.deleting
  <2>1. CASE StartPass
    BY <2>1 DEF StartPass, DeletionSticks
  <2>2. CASE Users \/ Controllers
    BY <2>2, OthersLeaveThePass
  <2>3. CASE GuardDecides \/ Prepare
    BY <2>3 DEF GuardDecides, Prepare, TypeOK, PassTyped
  <2>4. CASE pass' = pass
    BY <2>4
  <2>5. Next => StartPass \/ Users \/ Controllers \/ GuardDecides \/ Prepare \/ pass' = pass
    BY DEF Next, Handler, FaultyHandler, Terminated, vars,
       ListKind, ListKindFails, PrepareConflict, PrepareRejected, PrepareMalformed,
       PrepareFails, ApplyObject, ApplyObjectRefused, ApplyObjectFails, DeleteObject,
       DeleteObjectBlocked, DeleteObjectFails, ObjectsDone, ListOrphans, ListOrphansFails,
       DeleteOrphan, DeleteOrphanFails, CleanerDone, FinishApply, FinishDelete,
       RemoveFinalizer, Crash
  <2> QED
    BY <2>1, <2>2, <2>3, <2>4, <2>5
<1>2. store[o] # "terminating"
  BY <1>1 DEF NothingOnItsWayOut
<1> QED
  BY <1>1, <1>2, WhoTakesAway

LEMMA VersionIsReadNext ==
    ASSUME TypeOK, VersionIsRead, Next
    PROVE  VersionIsRead'
<1> USE DEF TypeOK, WalkInBounds, VersionIsRead, EndPass
<1>1. CASE StartPass \/ ListKind \/ GuardDecides \/ ListKindFails
  BY <1>1 DEF StartPass, ListKind, GuardDecides, ListKindFails
<1>2. CASE \/ PrepareConflict \/ PrepareRejected \/ PrepareMalformed \/ PrepareFails
           \/ Prepare
  BY <1>2 DEF PrepareConflict, PrepareRejected, PrepareMalformed, PrepareFails, Prepare
<1>3. CASE ApplyObject \/ ApplyObjectRefused \/ ApplyObjectFails
  BY <1>3 DEF ApplyObject, ApplyObjectRefused, ApplyObjectFails
<1>4. CASE DeleteObject \/ DeleteObjectBlocked \/ DeleteObjectFails
  BY <1>4 DEF DeleteObject, DeleteObjectBlocked, DeleteObjectFails
<1>5. CASE ObjectsDone \/ ListOrphans \/ ListOrphansFails \/ CleanerDone
  BY <1>5, SamePass DEF ObjectsDone, ListOrphans, ListOrphansFails, CleanerDone, world
<1>6. ASSUME NEW x, DeleteOrphan(x) \/ DeleteOrphanFails(x) PROVE VersionIsRead'
  BY <1>6 DEF DeleteOrphan, DeleteOrphanFails
<1>7. CASE FinishApply \/ FinishDelete \/ RemoveFinalizer \/ Crash
  BY <1>7 DEF FinishApply, FinishDelete, RemoveFinalizer, Crash
<1>8. CASE Users \/ Controllers
  BY <1>8, OthersLeaveThePass, SnapshotFrame
<1>9. CASE Terminated
  BY <1>9, SamePass DEF Terminated, vars
<1> QED
  BY <1>1, <1>2, <1>3, <1>4, <1>5, <1>6, <1>7, <1>8, <1>9 DEF Next, Handler, FaultyHandler

LEMMA ApplyProgressNext ==
    ASSUME NoDriftingNamespaces, TypeOK, OrphanInv, SyncInv, Next
    PROVE  ApplyProgress'
<1> USE DEF TypeOK, PassTyped, WalkInBounds, EndPass, world, SyncInv, SweptInv
<1>1. ASSUME step' \in {"idle", "guard", "prepare", "finalize", "done"} PROVE ApplyProgress'
  BY <1>1 DEF ApplyProgress
<1>2. CASE StartPass
  BY <1>1, <1>2 DEF StartPass
<1>3. CASE ListKind \/ GuardDecides \/ ListKindFails
  BY <1>1, <1>3 DEF ListKind, GuardDecides, ListKindFails
<1>4. CASE PrepareConflict \/ PrepareRejected \/ PrepareMalformed \/ PrepareFails
  BY <1>1, <1>4 DEF PrepareConflict, PrepareRejected, PrepareMalformed, PrepareFails
<1>5. CASE Prepare
  BY <1>5 DEF Prepare, ApplyProgress, AppliedUpTo
<1>6. ASSUME step \in {"objects", "cleaners", "cleaning", "finish"},
             pass'.deleting = pass.deleting, Wanted' = Wanted,
             step' = step \/ step' \in {"cleaners", "cleaning", "finish"},
             step = "objects" /\ step' # "objects" => idx = Len(Objects) + 1,
             step' = "objects" => step = "objects" /\ idx' = idx,
             tally'.allReady => tally.allReady,
             \A x \in Swept : ~DeleteOrphanFails(x)
      PROVE  ApplyProgress'
  <2> SUFFICES ASSUME ~pass.deleting, tally.allReady
               PROVE  /\ step' = "objects" => AppliedUpTo(idx - 1)'
                      /\ step' \in {"cleaners", "cleaning", "finish"}
                            => AppliedUpTo(Len(Objects))'
    BY <1>6 DEF ApplyProgress
  <2>1. Objects' = Objects /\ Wanted \in Desired
    BY <1>6 DEF Objects, VersionIsRead
  <2>2. Len(Objects) \in Nat
    BY <2>1, ObjectsType
  <2>3. \A i \in 1..Len(Objects) : Objects[i] \notin Drifters /\ store[Objects[i]] = "live"
            => store'[Objects[i]] = "live"
    BY <1>6, <2>1, StaysApplied
  <2>4. CASE step' = "objects"
    BY <1>6, <2>1, <2>2, <2>3, <2>4 DEF ApplyProgress, AppliedUpTo
  <2>5. CASE step' # "objects"
    <3>1. AppliedUpTo(Len(Objects))
      BY <1>6, <2>2, <2>5 DEF ApplyProgress, AppliedUpTo
    <3> QED
      BY <2>1, <2>2, <2>3, <2>5, <3>1 DEF AppliedUpTo
  <2> QED
    BY <2>4, <2>5
<1>7. CASE ApplyObject \/ ApplyObjectRefused \/ ApplyObjectFails
  <2> SUFFICES ASSUME ~pass.deleting, tally'.allReady PROVE AppliedUpTo(idx - 1)'
    BY <1>7 DEF ApplyObject, ApplyObjectRefused, ApplyObjectFails, ApplyProgress
  <2> DEFINE o == Objects[idx]
  <2>1. /\ step = "objects" /\ Wanted \in Desired /\ idx \in 1..Len(Objects)
        /\ pass' = pass /\ idx' = idx + 1 /\ o \in Object
    BY <1>7, ObjectsType
       DEF ApplyObject, ApplyObjectRefused, ApplyObjectFails, AfterError
  <2>2. Objects' = Objects
    BY <2>1, SamePass
  <2>3. /\ tally.allReady
        /\ store[o] = "live" \/ store'[o] = "live"
        /\ store[o] = "live" => store'[o] = "live"
    <3>1. ASSUME NEW r, Write(o, r) PROVE store[o] = "live" => store'[o] = "live"
      BY <2>1, <3>1 DEF Write, ClustersTyped
    <3>2. CASE ApplyObject
      BY <3>1, <3>2 DEF ApplyObject, CountPhase, PhaseReady, Tally
    <3>3. CASE ApplyObjectRefused
      BY <3>3 DEF ApplyObjectRefused, CountPhase, PhaseReady, Tally
    <3>4. CASE ApplyObjectFails
      BY <3>1, <3>4 DEF ApplyObjectFails, CountPhase, PhaseReady, Tally
    <3> QED
      BY <1>7, <3>2, <3>3, <3>4
  <2>4. \A x \in Swept : ~DeleteOrphanFails(x)
    BY <2>1 DEF DeleteOrphanFails
  <2>5. \A i \in 1..Len(Objects) : Objects[i] \notin Drifters /\ store[Objects[i]] = "live"
            => store'[Objects[i]] = "live"
    BY <2>1, <2>4, StaysApplied
  <2>6. AppliedUpTo(idx - 1)
    BY <2>1, <2>3 DEF ApplyProgress
  <2> QED
    BY <2>1, <2>2, <2>3, <2>5, <2>6 DEF AppliedUpTo
<1>8. CASE DeleteObject \/ DeleteObjectBlocked \/ DeleteObjectFails
  BY <1>8 DEF DeleteObject, DeleteObjectBlocked, DeleteObjectFails, ApplyProgress
<1>9. CASE ObjectsDone \/ ListOrphans \/ ListOrphansFails \/ CleanerDone
  <2>1. /\ step \in {"objects", "cleaners", "cleaning"} /\ pass' = pass
        /\ step' \in {"cleaners", "cleaning", "finish"}
        /\ tally'.allReady = tally.allReady
        /\ step = "objects" => idx > Len(Objects)
    BY <1>9 DEF ObjectsDone, ListOrphans, ListOrphansFails, CleanerDone, Tally
  <2>2. step = "objects" => idx = Len(Objects) + 1
    BY <2>1, ObjectsType
  <2>3. \A x \in Swept : ~DeleteOrphanFails(x)
    BY <1>9 DEF ObjectsDone, ListOrphans, ListOrphansFails, CleanerDone, DeleteOrphanFails
  <2> QED
    BY <1>6, <2>1, <2>2, <2>3, SamePass
<1>10. ASSUME NEW x \in Swept, DeleteOrphan(x) PROVE ApplyProgress'
  <2>1. CASE \E y \in Swept : DeleteOrphanFails(y)
    BY <2>1 DEF DeleteOrphanFails, TallyOrphanFailure, ApplyProgress, Tally
  <2>2. CASE \A y \in Swept : ~DeleteOrphanFails(y)
    BY <1>6, <1>10, <2>2, SamePass DEF DeleteOrphan
  <2> QED
    BY <2>1, <2>2
<1>11. ASSUME NEW x \in Swept, DeleteOrphanFails(x) PROVE ApplyProgress'
  BY <1>11 DEF DeleteOrphanFails, TallyOrphanFailure, ApplyProgress, Tally
<1>12. CASE FinishApply \/ FinishDelete \/ RemoveFinalizer \/ Crash
  BY <1>1, <1>12 DEF FinishApply, FinishDelete, RemoveFinalizer, Crash
<1>13. CASE Users \/ Controllers \/ Terminated
  <2>1. UNCHANGED <<step, idx, tally, items>> /\ pass'.deleting = pass.deleting
        /\ Wanted' = Wanted
    BY <1>13, OthersLeaveThePass, SnapshotFrame DEF Terminated, vars
  <2>2. CASE \E y \in Swept : DeleteOrphanFails(y)
    BY <2>2 DEF DeleteOrphanFails, TallyOrphanFailure, ApplyProgress, Tally
  <2>3. CASE \A y \in Swept : ~DeleteOrphanFails(y)
    <3>1. CASE step \in {"objects", "cleaners", "cleaning", "finish"}
      BY <1>6, <2>1, <2>3, <3>1
    <3>2. CASE step \notin {"objects", "cleaners", "cleaning", "finish"}
      BY <2>1, <3>2 DEF ApplyProgress
    <3> QED
      BY <3>1, <3>2
  <2> QED
    BY <2>2, <2>3
<1> QED
  BY <1>2, <1>3, <1>4, <1>5, <1>7, <1>8, <1>9, <1>10, <1>11, <1>12, <1>13
     DEF Next, Handler, FaultyHandler

(* What the cleaners went through stays clean: only Apply makes copies.     *)
LEMMA SweepProgressNext ==
    ASSUME TypeOK, SweptInv, Next
    PROVE  SweepProgress'
<1> USE DEF TypeOK, PassTyped, WalkInBounds, EndPass, world, SweptInv
<1>1. ASSUME step' \in {"idle", "guard", "prepare", "objects", "finalize", "done"}
      PROVE  SweepProgress'
  BY <1>1 DEF SweepProgress
<1>2. CASE StartPass \/ ListKind \/ GuardDecides \/ ListKindFails
  BY <1>1, <1>2 DEF StartPass, ListKind, GuardDecides, ListKindFails
<1>3. CASE \/ PrepareConflict \/ PrepareRejected \/ PrepareMalformed \/ PrepareFails
           \/ Prepare
  BY <1>1, <1>3 DEF PrepareConflict, PrepareRejected, PrepareMalformed, PrepareFails, Prepare
<1>4. CASE ApplyObject \/ ApplyObjectRefused \/ ApplyObjectFails
  BY <1>1, <1>4 DEF ApplyObject, ApplyObjectRefused, ApplyObjectFails
<1>5. CASE DeleteObject \/ DeleteObjectBlocked \/ DeleteObjectFails
  BY <1>1, <1>5 DEF DeleteObject, DeleteObjectBlocked, DeleteObjectFails
<1>6. CASE ObjectsDone
  BY <1>6 DEF ObjectsDone, SweepProgress, SweptUpTo
<1>7. CASE ListOrphans
  <2> SUFFICES ASSUME ~pass.deleting, tally.allReady, ~tally.err
               PROVE  SweptUpTo(idx - 1)' /\ NothingStale(idx, items)'
    BY <1>7 DEF ListOrphans, SweepProgress
  <2>1. /\ step = "cleaners" /\ Wanted \in Desired
        /\ UNCHANGED <<store, pass, idx>> /\ items' = Orphans(idx)
    BY <1>7 DEF ListOrphans
  <2>2. Wanted' = Wanted /\ SweptUpTo(idx - 1)
    BY <2>1, SamePass DEF SweepProgress
  <2>3. SweptUpTo(idx - 1)'
    BY <2>1, <2>2 DEF SweptUpTo, NothingStale, Managed
  <2>4. ASSUME NEW o \in CleanerScope(idx), Managed(o), o \in Keep(Wanted)
        PROVE  InInventory(Wanted, o)
    BY <2>1, <2>4, ScopesSwept, KeepIsComplete
  <2>5. NothingStale(idx, items)'
    BY <2>1, <2>2, <2>4 DEF NothingStale, Orphans, Managed
  <2> QED
    BY <2>3, <2>5
<1>8. CASE ListOrphansFails
  BY <1>8 DEF ListOrphansFails, SweepProgress, Tally
<1>9. ASSUME NEW x \in Swept, DeleteOrphan(x) PROVE SweepProgress'
  <2> SUFFICES ASSUME ~pass.deleting, tally.allReady, ~tally.err
               PROVE  SweptUpTo(idx - 1)' /\ NothingStale(idx, items)'
    BY <1>9 DEF DeleteOrphan, SweepProgress
  <2>1. /\ step = "cleaning" /\ items' = items \ {x} /\ UNCHANGED <<pass, idx>>
        /\ ~ApplyObject /\ ~ApplyObjectFails
    BY <1>9 DEF DeleteOrphan, ApplyObject, ApplyObjectFails
  <2>2. Wanted' = Wanted /\ SweptUpTo(idx - 1) /\ NothingStale(idx, items)
    BY <2>1, SamePass DEF SweepProgress
  <2>3. \A i : \A o \in CleanerScope(i) : Managed(o)' => Managed(o)
    BY <2>1, WhoCopies, ScopesSwept
  <2>4. ~Managed(x)'
    BY <1>9, SomeObjects DEF DeleteOrphan, Vanish, Managed, Exists, ClustersTyped
  <2>5. SweptUpTo(idx - 1)'
    BY <2>1, <2>2, <2>3 DEF SweptUpTo, NothingStale
  <2>6. NothingStale(idx, items)'
    BY <2>1, <2>2, <2>3, <2>4 DEF NothingStale
  <2> QED
    BY <2>5, <2>6
<1>10. ASSUME NEW x \in Swept, DeleteOrphanFails(x) PROVE SweepProgress'
  BY <1>10 DEF DeleteOrphanFails, TallyOrphanFailure, SweepProgress, Tally
<1>11. CASE CleanerDone
  <2>1. /\ step = "cleaning" /\ items = {} /\ UNCHANGED <<store, tally, pass>>
        /\ items' = items /\ idx' = idx + 1 /\ Wanted' = Wanted
        /\ step' \in {"cleaners", "finish"}
        /\ step' = "finish" => idx = NumCleaners
    BY <1>11, SamePass DEF CleanerDone, MoreCleaners, NumCleaners
  <2> SUFFICES ASSUME ~pass.deleting, tally.allReady, ~tally.err
               PROVE  /\ SweptUpTo(idx - 1)'
                      /\ step' = "finish" => SweptUpTo(NumCleaners)'
    BY <2>1 DEF SweepProgress
  <2>2. SweptUpTo(idx)
    BY <2>1 DEF SweepProgress, SweptUpTo
  <2>3. \A i : NothingStale(i, {}) => NothingStale(i, {})'
    BY <2>1 DEF NothingStale, Managed
  <2>4. SweptUpTo(idx - 1)'
    BY <2>1, <2>2 DEF SweptUpTo, NothingStale, Managed
  <2>5. step' = "finish" => SweptUpTo(NumCleaners)'
    BY <2>1, <2>2, <2>3 DEF SweptUpTo
  <2> QED
    BY <2>4, <2>5
<1>12. CASE FinishApply \/ FinishDelete \/ RemoveFinalizer \/ Crash
  BY <1>1, <1>12 DEF FinishApply, FinishDelete, RemoveFinalizer, Crash
<1>13. CASE Users \/ Controllers \/ Terminated
  <2>1. /\ UNCHANGED <<step, idx, tally, items>>
        /\ pass'.deleting = pass.deleting /\ Wanted' = Wanted
    BY <1>13, OthersLeaveThePass, SnapshotFrame DEF Terminated, vars
  <2>2. ~ApplyObject /\ ~ApplyObjectFails
    BY <2>1 DEF ApplyObject, ApplyObjectFails, AfterError
  <2>3. \A i : \A o \in CleanerScope(i) : Managed(o)' => Managed(o)
    BY <2>2, WhoCopies, ScopesSwept
  <2> QED
    BY <2>1, <2>3 DEF SweepProgress, SweptUpTo, NothingStale
<1> QED
  BY <1>2, <1>3, <1>4, <1>5, <1>6, <1>7, <1>8, <1>9, <1>10, <1>11, <1>12, <1>13
     DEF Next, Handler, FaultyHandler

LEMMA SweptInvNext ==
    ASSUME TypeOK, SweptInv, [Next]_vars
    PROVE  SweptInv'
<1>1. CASE Next
  BY <1>1, StatusNext, VersionIsReadNext, SweepProgressNext DEF SweptInv
<1>2. CASE UNCHANGED vars
  <2>1. Wanted' = Wanted
    BY <1>2, SamePass DEF vars
  <2> QED
    BY <1>2, <2>1
       DEF vars, SweptInv, DeletionSticks, ReadyIsEarned, VersionIsRead, SweepProgress,
           SweptUpTo, NothingStale, Managed
<1> QED
  BY <1>1, <1>2

(* When a pass that applied ends with Ready, no copy is left that the       *)
(* version does not call for, ...                                           *)
LEMMA SweptWhenReady ==
    ASSUME TypeOK, OrphanInv, SweptInv, FinishApply, mo'.status = "Ready"
    PROVE  /\ step = "finish" /\ ~pass.deleting /\ Wanted \in Desired
           /\ tally.allReady
           /\ \A o \in Swept : Managed(o) => InInventory(Wanted, o)
<1>1. /\ step = "finish" /\ ~pass.deleting /\ Wanted \in Desired
      /\ mo' = [mo EXCEPT !.status = ApplyStatus]
  BY DEF FinishApply, EndPass, SweptInv, VersionIsRead
<1>2. ApplyStatus = "Ready"
  BY <1>1 DEF TypeOK, ClustersTyped
<1>3. tally.allReady /\ ~tally.err
  BY <1>2 DEF ApplyStatus, SweptInv, ReadyIsEarned
<1>4. SweptUpTo(NumCleaners)
  BY <1>1, <1>3 DEF SweptInv, SweepProgress
<1>5. ASSUME NEW o \in Swept, Managed(o) PROVE InInventory(Wanted, o)
  <2>1. o \in OwnObject
    BY <1>5 DEF OrphanInv, Swept, Object
  <2>2. PICK i \in 1..NumCleaners : o \in CleanerScope(i)
    BY <2>1, ScopesCover
  <2> QED
    BY <1>4, <1>5, <2>2 DEF SweptUpTo, NothingStale
<1> QED
  BY <1>1, <1>3, <1>5

(* ... and everything it calls for is there.                                *)
LEMMA SyncedWhenReady ==
    ASSUME TypeOK, OrphanInv, SyncInv, FinishApply, mo'.status = "Ready"
    PROVE  /\ \A i \in 1..Len(Objects) :
                 Objects[i] \notin Drifters => store[Objects[i]] = "live"
           /\ \A o \in Swept : Managed(o) => InInventory(Wanted, o)
<1>1. /\ step = "finish" /\ ~pass.deleting /\ Wanted \in Desired /\ tally.allReady
      /\ \A o \in Swept : Managed(o) => InInventory(Wanted, o)
  BY SweptWhenReady DEF SyncInv
<1>2. AppliedUpTo(Len(Objects))
  BY <1>1 DEF SyncInv, ApplyProgress
<1>3. Len(Objects) \in Nat
  BY <1>1, ObjectsType
<1> QED
  BY <1>1, <1>2, <1>3 DEF AppliedUpTo

(* Every step keeps it.                                                     *)
LEMMA SyncInvNext ==
    ASSUME NoDriftingNamespaces, TypeOK, OrphanInv, SyncInv, [Next]_vars
    PROVE  SyncInv'
<1>1. SweptInv'
  BY SweptInvNext DEF SyncInv
<1>2. CASE Next
  BY <1>1, <1>2, NothingOnItsWayOutNext, ApplyProgressNext DEF SyncInv, SweptInv
<1>3. CASE UNCHANGED vars
  <2>1. Wanted' = Wanted /\ Objects' = Objects
    BY <1>3, SamePass DEF vars
  <2> QED
    BY <1>1, <1>3, <2>1 DEF vars, SyncInv, NothingOnItsWayOut, ApplyProgress, AppliedUpTo
<1> QED
  BY <1>2, <1>3

(* A pass reports Ready only if every object its version calls for exists,  *)
(* those that somebody else deletes aside, and no copy of an earlier        *)
(* version's secrets does (controller CreateOrUpdate; manager.go, Apply;    *)
(* secret.go and configmap.go, Cleanup), whatever faults and edits          *)
(* interleave, provided nobody else deletes the namespaces.                 *)
THEOREM ReadyMeansSyncedAlways == NoDriftingNamespaces => (Spec => ReadyMeansSynced)
<1> SUFFICES ASSUME NoDriftingNamespaces PROVE Spec => ReadyMeansSynced
  OBVIOUS
<1>1. Init => SyncInv
  BY SyncInit
<1>2. TypeOK /\ OrphanInv /\ SyncInv /\ [Next]_vars => SyncInv'
  BY SyncInvNext
<1>3. TypeOK /\ OrphanInv /\ SyncInv /\ [Next]_vars =>
        [ FinishApply /\ mo'.status = "Ready" =>
            /\ \A i \in 1..Len(Objects) :
                  Objects[i] \notin Drifters => store[Objects[i]] = "live"
            /\ \A o \in Swept : Managed(o) => InInventory(Wanted, o)
        ]_vars
  BY SyncedWhenReady
<1> QED
  BY <1>1, <1>2, <1>3, OrphanInvAlways, PTL DEF Spec, ReadyMeansSynced
=============================================================================
