--------------------------- MODULE LifecycleProofs ---------------------------
(***************************************************************************)
(* Reconciler implements Lifecycle, for every value of the constants, and   *)
(* what follows from Lifecycle alone therefore holds of Reconciler.         *)
(***************************************************************************)
EXTENDS CleanupProofs

----------------------------------------------------------------------------
(* What the primitive changes of the store look like from outside.          *)

LEMMA VanishSeen ==
    ASSUME TypeOK, NEW o \in Object, Vanish(o)
    PROVE  /\ InState("live")' = InState("live") \ {o}
           /\ InState("terminating")' = InState("terminating") \ {o}
BY DEF TypeOK, ClustersTyped, Vanish, InState

LEMMA EraseSeen ==
    ASSUME TypeOK, NEW o \in Object, Erase(o)
    PROVE  /\ InState("live")' = InState("live") \ {o}
           /\ InState("terminating")' \in {InState("terminating") \cup {o},
                                           InState("terminating") \ {o}}
<1>1. CASE HasFinalizer(o)
  <2>1. store' = [store EXCEPT ![o] = "terminating"]
    BY <1>1 DEF Erase
  <2>2. /\ InState("live")' = InState("live") \ {o}
        /\ InState("terminating")' = InState("terminating") \cup {o}
    BY <2>1 DEF TypeOK, ClustersTyped, InState
  <2> QED
    BY <2>2
<1>2. CASE ~HasFinalizer(o)
  BY <1>2, VanishSeen DEF Erase
<1> QED
  BY <1>1, <1>2

LEMMA WriteSeen ==
    ASSUME TypeOK, NEW o \in Object, NEW r, Write(o, r)
    PROVE  /\ InState("live") \subseteq InState("live")'
           /\ InState("live")' \ InState("live") \subseteq {o}
           /\ InState("terminating")' = InState("terminating")
BY DEF TypeOK, ClustersTyped, Write, InState

LEMMA StoreSeen ==
    ASSUME UNCHANGED store
    PROVE  UNCHANGED <<InState("live"), InState("terminating")>>
BY DEF InState

(* What a pass that is at a given step is doing for the resource.           *)
WorkFacts ==
    /\ step = "idle" => WorkDone = "resting"
    /\ step = "guard" => WorkDone = "asking"
    /\ step = "finalize" => WorkDone = "releasing"
    /\ step = "done" => WorkDone = "over"
    /\ step \in {"prepare", "objects", "cleaners", "cleaning", "finish"} =>
          WorkDone = IF pass.deleting THEN "tearing" ELSE "applying"

LEMMA WorkSeen == WorkFacts
<1>1. step = "idle" => WorkDone = "resting"
  BY DEF WorkDone
<1>2. step = "guard" => WorkDone = "asking"
  BY DEF WorkDone
<1>3. step = "finalize" => WorkDone = "releasing"
  BY DEF WorkDone
<1>4. step = "done" => WorkDone = "over"
  BY DEF WorkDone
<1>5. step \in {"prepare", "objects", "cleaners", "cleaning", "finish"} =>
          WorkDone = IF pass.deleting THEN "tearing" ELSE "applying"
  BY DEF WorkDone
<1> QED
  BY <1>1, <1>2, <1>3, <1>4, <1>5 DEF WorkFacts

LEMMA WorkSeenNext == WorkFacts'
BY WorkSeen, PTL

(* What is called for depends on the snapshot alone.                        *)
LEMMA CalledFrame ==
    ASSUME pass'.version = pass.version, pass'.pc = pass.pc
    PROVE  CalledFor' = CalledFor
BY SnapshotFrame DEF CalledFor

LEMMA CalledType ==
    ASSUME TypeOK
    PROVE  /\ CalledFor \subseteq Object
           /\ Wanted \in Desired => CalledFor = {Objects[i] : i \in 1..Len(Objects)}
<1>1. CASE Wanted \in Desired
  BY <1>1, ObjectsType, ValueAssumption DEF CalledFor
<1>2. CASE Wanted \notin Desired
  BY <1>2, WantedType DEF CalledFor
<1> QED
  BY <1>1, <1>2

LEMMA CalledTypeNext == (TypeOK => CalledFor \subseteq Object)'
<1>1. TypeOK => CalledFor \subseteq Object
  BY CalledType
<1> QED
  BY <1>1, PTL

(* A cleaner is never about to delete what is called for.                   *)
LEMMA OrphansNotCalled ==
    ASSUME TypeOK, OrphanInv, step = "cleaning", NEW o \in items
    PROVE  o \in Swept /\ o \in Object /\ o \notin CalledFor
<1>1. Wanted \in Desired
  BY DEF TypeOK, WalkInBounds
<1>2. o \in Swept /\ o \in Object /\ o \notin Keep(Wanted)
  BY ScopesSwept DEF OrphanInv
<1>3. ~InInventory(Wanted, o)
  BY <1>1, <1>2, KeepIsComplete
<1> QED
  BY <1>1, <1>2, <1>3, CalledType DEF InInventory, Objects

(* Where the finalizer may go, nothing that is called for is left.          *)
LEMMA NothingCalledLeft ==
    ASSUME TypeOK, Wanted \in Desired => AbsentUpTo(Len(Objects))
    PROVE  CalledFor \cap (InState("live") \cup InState("terminating")) = {}
<1>1. CASE Wanted \in Desired
  BY <1>1, CalledType DEF AbsentUpTo, InState
<1>2. CASE Wanted \notin Desired
  BY <1>2, WantedType DEF CalledFor
<1> QED
  BY <1>1, <1>2

----------------------------------------------------------------------------
(* One step of Reconciler is one step of Lifecycle, or none.                *)

ImplInv == TypeOK /\ TeardownInv /\ GuardInv /\ OrphanInv

LEMMA InitImplements == Init => L!Init
<1> SUFFICES ASSUME Init PROVE L!Init
  OBVIOUS
<1>1. CalledFor \subseteq Object
  BY InitTyped, CalledType
<1>2. InState("live") = {} /\ InState("terminating") = {}
  BY DEF Init, InState
<1>3. ResourceSeen = "wanted" /\ WorkDone = "resting" /\ metrics = {} /\ emptied = {}
  BY DEF Init, ResourceSeen, WorkDone
<1> QED
  BY <1>1, <1>2, <1>3 DEF L!Init

LEMMA StepImplements ==
    ASSUME ImplInv, Next
    PROVE  [L!Next]_(L!vars)
<1> DEFINE live  == InState("live")
           going == InState("terminating")
<1>a. /\ TypeOK /\ step \in Step /\ ClustersTyped /\ PassTyped
      /\ TeardownInv /\ GuardInv /\ OrphanInv
  BY DEF ImplInv, TypeOK, PassTyped
<1>b. CalledFor \subseteq Object /\ CalledFor' \subseteq Object
  BY <1>a, TypeOKNext, CalledType, CalledTypeNext
<1>c. UNCHANGED store => live' = live /\ going' = going
  BY StoreSeen
<1>d. pass'.version = pass.version /\ pass'.pc = pass.pc => CalledFor' = CalledFor
  BY CalledFrame
<1>e. pass' = pass => CalledFor' = CalledFor
  BY <1>d
<1>f. WorkFacts /\ WorkFacts'
  BY WorkSeen, WorkSeenNext
<1> HIDE DEF live, going
<1> USE <1>f DEF WorkFacts, world
(* A pass ends, one way or another, and the clusters stay as they are.      *)
<1>1. ASSUME step' = "idle", UNCHANGED <<store, metrics, emptied>>, pass' = pass,
             mo'.gone = mo.gone, mo'.deleting = mo.deleting, step # "done"
      PROVE  L!Rest
  BY <1>1, <1>a, <1>c, <1>e DEF L!Rest, L!Intent, L!Outcome, ResourceSeen, Step, live, going
(* Neither the clusters nor what the pass is doing change.                  *)
<1>2. ASSUME UNCHANGED <<store, metrics, emptied, mo>>, pass' = pass,
             step' = step \/ {step, step'} \subseteq
                {"prepare", "objects", "cleaners", "cleaning", "finish"}
      PROVE  UNCHANGED L!vars
  BY <1>2, <1>a, <1>c, <1>e DEF L!vars, ResourceSeen, Step, live, going
<1>3. CASE StartPass
  <2>1. /\ UNCHANGED <<store, metrics, mo>> /\ emptied' = {}
        /\ step = "idle" /\ ~mo.gone /\ pass'.deleting = mo.deleting
        /\ step' = IF mo.deleting THEN "guard" ELSE "prepare"
    BY <1>3 DEF StartPass
  <2>2. L!Begin
    BY <2>1, <1>b, <1>c
       DEF L!Begin, L!Intent, L!Outcome, ResourceSeen, live, going
  <2> QED
    BY <2>2 DEF L!Next
<1>4. CASE ListKind
  <2>1. /\ UNCHANGED <<store, metrics, mo, step, pass>> /\ step = "guard"
        /\ metricsListGVKs[idx] \in Kind
    BY <1>4, <1>a, ReconcilerAssumption DEF ListKind, PassTyped
  <2>2. CASE metricsListGVKs[idx] \in metrics
    <3>1. UNCHANGED L!vars
      BY <1>2, <1>4, <2>1, <2>2 DEF ListKind
    <3> QED
      BY <3>1
  <2>3. CASE metricsListGVKs[idx] \notin metrics
    <3>1. L!Ask(metricsListGVKs[idx])
      BY <1>4, <2>1, <2>3, <1>c, <1>e
         DEF ListKind, L!Ask, L!Intent, L!Outcome, ResourceSeen, live, going
    <3> QED
      BY <2>1, <3>1 DEF L!Next
  <2> QED
    BY <2>2, <2>3
<1>5. CASE GuardDecides
  <2>1. CASE tally.blocking
    <3>1. L!Rest
      BY <1>1, <1>5, <2>1, <1>a DEF GuardDecides, EndPass, ClustersTyped
    <3> QED
      BY <3>1 DEF L!Next
  <2>2. CASE ~tally.blocking
    <3>1. /\ UNCHANGED <<store, metrics, mo, emptied>> /\ step = "guard" /\ step' = "prepare"
          /\ pass'.deleting /\ pass'.version = pass.version /\ pass'.pc = pass.pc
      BY <1>5, <2>2, <1>a DEF GuardDecides, PassTyped, GuardInv, GuardProgress
    <3>2. GuardSound'
      BY <1>a, GuardNext DEF GuardInv
    <3>3. emptied' = Kind
      BY <3>1, <3>2 DEF GuardSound
    <3>4. L!Proceed
      BY <3>1, <3>3, <1>c, <1>d
         DEF L!Proceed, L!Intent, L!Outcome, ResourceSeen, live, going
    <3> QED
      BY <3>4 DEF L!Next
  <2> QED
    BY <2>1, <2>2
<1>6. CASE \/ PrepareConflict \/ PrepareMalformed \/ FinishApply \/ ListKindFails
           \/ PrepareFails \/ Crash
  <2>1. L!Rest
    BY <1>1, <1>6, <1>a
       DEF PrepareConflict, PrepareMalformed, FinishApply, ListKindFails, PrepareFails, Crash,
           EndPass, ClustersTyped
  <2> QED
    BY <2>1 DEF L!Next
(* The finalizer may go: nothing that is called for is left.                *)
<1>7. ASSUME step \in {"prepare", "finish"}, step' = "finalize", pass.deleting,
             UNCHANGED <<store, metrics, emptied>>, pass' = pass,
             mo'.gone = mo.gone, mo'.deleting = mo.deleting,
             Wanted \in Desired => AbsentUpTo(Len(Objects))
      PROVE  L!Settle
  BY <1>7, <1>a, <1>c, <1>e, NothingCalledLeft
     DEF L!Settle, L!NothingCalledIsLeft, L!Intent, L!Outcome, ResourceSeen, live, going
<1>8. CASE PrepareRejected
  <2>1. /\ step = "prepare" /\ Wanted \notin Desired
        /\ UNCHANGED <<store, metrics, emptied>> /\ pass' = pass
        /\ mo'.gone = mo.gone /\ mo'.deleting = mo.deleting
        /\ step' = IF pass.deleting THEN "finalize" ELSE "idle"
    BY <1>8, <1>a, ValueAssumption DEF PrepareRejected, ClustersTyped
  <2>2. L!Settle \/ L!Rest
    BY <1>1, <1>7, <2>1
  <2> QED
    BY <2>2 DEF L!Next
<1>9. CASE FinishDelete
  <2>1. /\ step = "finish" /\ pass.deleting
        /\ UNCHANGED <<store, metrics, emptied>> /\ pass' = pass
        /\ mo'.gone = mo.gone /\ mo'.deleting = mo.deleting
    BY <1>9, <1>a DEF FinishDelete, EndPass, ClustersTyped
  <2>2. CASE tally.allDeleted
    <3>1. step' = "finalize" /\ AbsentUpTo(Len(Objects))
      BY <1>9, <1>a, <2>1, <2>2 DEF FinishDelete, TeardownInv, WalkProgress
    <3> QED
      BY <1>7, <2>1, <3>1 DEF L!Next
  <2>3. CASE ~tally.allDeleted
    <3>1. step' = "idle"
      BY <1>9, <2>3 DEF FinishDelete, EndPass
    <3> QED
      BY <1>1, <2>1, <3>1 DEF L!Next
  <2> QED
    BY <2>2, <2>3
<1>10. CASE RemoveFinalizer
  <2>1. /\ step = "finalize" /\ step' = "done" /\ mo'.gone
        /\ UNCHANGED <<store, metrics, emptied>> /\ pass' = pass
    BY <1>10, <1>a DEF RemoveFinalizer, ClustersTyped
  <2>2. Wanted \in Desired => AbsentUpTo(Len(Objects))
    BY <1>a, <2>1 DEF TeardownInv, FinalizeLast
  <2>3. L!Release
    BY <2>1, <2>2, <1>a, <1>c, <1>e, NothingCalledLeft
       DEF L!Release, L!NothingCalledIsLeft, L!Outcome, ResourceSeen, live, going
  <2> QED
    BY <2>3 DEF L!Next
(* The walk through the objects.                                            *)
<1>11. ASSUME step = "objects"
       PROVE  Wanted \in Desired /\ Len(Objects) \in Nat /\ idx \in Nat \ {0}
  BY <1>11, <1>a, ObjectsType DEF TypeOK, WalkInBounds, PassTyped
<1>12. ASSUME step = "objects", idx <= Len(Objects)
       PROVE  Objects[idx] \in CalledFor /\ Objects[idx] \in Object
  BY <1>11, <1>12, <1>a, CalledType, ObjectsType
<1>13. ASSUME step = "objects", ~pass.deleting, idx <= Len(Objects), NEW r,
              Write(Objects[idx], r), UNCHANGED <<mo, metrics, step, pass, emptied>>
       PROVE  L!Install
  <2>1. /\ live \subseteq live' /\ live' \ live \subseteq {Objects[idx]} /\ going' = going
    BY <1>12, <1>13, <1>a, WriteSeen DEF live, going
  <2> QED
    BY <1>12, <1>13, <2>1, <1>e DEF L!Install, L!Intent, ResourceSeen, live, going
<1>14. CASE ApplyObject
  <2>1. L!Install
    BY <1>13, <1>14 DEF ApplyObject
  <2> QED
    BY <2>1 DEF L!Next
<1>15. CASE ApplyObjectFails
  <2>1. /\ step = "objects" /\ ~pass.deleting /\ idx <= Len(Objects)
        /\ UNCHANGED <<mo, metrics, step, pass, emptied>>
    BY <1>15 DEF ApplyObjectFails
  <2>2. CASE UNCHANGED store
    BY <1>2, <2>1, <2>2
  <2>3. CASE store' # store
    <3>1. PICK r : Write(Objects[idx], r)
      BY <1>15, <2>3 DEF ApplyObjectFails
    <3> QED
      BY <1>13, <2>1, <3>1 DEF L!Next
  <2> QED
    BY <2>2, <2>3
<1>16. ASSUME step = "objects", pass.deleting, idx <= Len(Objects),
              Erase(Objects[idx]), UNCHANGED <<mo, metrics, step, pass, emptied>>
       PROVE  L!Next
  <2>1. /\ live' = live \ {Objects[idx]}
        /\ going' \in {going \cup {Objects[idx]}, going \ {Objects[idx]}}
    BY <1>12, <1>16, <1>a, EraseSeen DEF live, going
  <2>2. L!Take(Objects[idx])
    BY <1>12, <1>16, <2>1, <1>e DEF L!Take, L!Intent, ResourceSeen, live, going
  <2> QED
    BY <1>12, <1>16, <2>2 DEF L!Next
<1>17. CASE DeleteObject \/ DeleteObjectFails
  <2>1. /\ step = "objects" /\ pass.deleting /\ idx <= Len(Objects)
        /\ UNCHANGED <<mo, metrics, step, pass, emptied>>
    BY <1>17 DEF DeleteObject, DeleteObjectFails
  <2>2. UNCHANGED store \/ Erase(Objects[idx])
    BY <1>17 DEF DeleteObject, DeleteObjectFails
  <2> QED
    BY <1>2, <1>16, <2>1, <2>2
<1>18. CASE Prepare
  <2>1. /\ UNCHANGED <<store, metrics, emptied>> /\ step = "prepare" /\ step' = "objects"
        /\ pass'.deleting = pass.deleting
        /\ pass'.version = pass.version /\ pass'.pc = pass.pc
        /\ mo'.gone = mo.gone /\ mo'.deleting = mo.deleting
    BY <1>18, <1>a DEF Prepare, ClustersTyped, PassTyped
  <2>2. UNCHANGED L!vars
    BY <2>1, <1>c, <1>d DEF L!vars, ResourceSeen, live, going
  <2> QED
    BY <2>2
<1>19. CASE \/ ApplyObjectRefused \/ DeleteObjectBlocked \/ ObjectsDone \/ ListOrphans
            \/ ListOrphansFails \/ CleanerDone
  <2>1. UNCHANGED L!vars
    BY <1>2, <1>19 DEF ApplyObjectRefused, DeleteObjectBlocked, ObjectsDone, ListOrphans,
       ListOrphansFails, CleanerDone
  <2> QED
    BY <2>1
<1>20. ASSUME NEW o \in Swept, DeleteOrphan(o) \/ DeleteOrphanFails(o)
       PROVE  [L!Next]_(L!vars)
  <2>1. /\ step = "cleaning" /\ o \in items
        /\ UNCHANGED <<mo, metrics, step, pass, emptied>>
    BY <1>20 DEF DeleteOrphan, DeleteOrphanFails
  <2>2. UNCHANGED store \/ Vanish(o)
    BY <1>20 DEF DeleteOrphan, DeleteOrphanFails
  <2>3. o \in Object /\ o \notin CalledFor
    BY <1>a, <2>1, OrphansNotCalled
  <2>4. CASE Vanish(o)
    <3>1. live' = live \ {o} /\ going' = going \ {o}
      BY <1>a, <2>3, <2>4, VanishSeen DEF live, going
    <3>2. L!Prune(o)
      BY <1>20, <2>1, <2>3, <3>1, <1>e
         DEF L!Prune, L!Intent, ResourceSeen, live, going
    <3>3. CASE o \in live \cup going
      BY <3>2, <3>3 DEF L!Next, live, going
    <3>4. CASE o \notin live \cup going
      BY <2>1, <3>1, <3>4, <1>e DEF L!vars, ResourceSeen, live, going
    <3> QED
      BY <3>3, <3>4
  <2> QED
    BY <1>2, <2>1, <2>2, <2>4
(* Everybody else.                                                          *)
<1>21. ASSUME UNCHANGED <<step, emptied>>, pass'.deleting = pass.deleting,
              pass'.version = pass.version, pass'.pc = pass.pc
       PROVE  UNCHANGED <<WorkDone, CalledFor, emptied>>
  BY <1>21, <1>a, <1>d DEF Step
<1>22. Users \/ Controllers => UNCHANGED <<WorkDone, CalledFor, emptied>>
  BY <1>21, <1>a, OthersLeaveThePass
<1>23. CASE RequestDeletion
  <2>1. /\ UNCHANGED <<store, metrics>> /\ ~mo.deleting
        /\ mo'.deleting /\ mo'.gone = mo.gone
    BY <1>23, <1>a DEF RequestDeletion, ClustersTyped
  <2>2. UNCHANGED <<WorkDone, CalledFor, emptied>>
    BY <1>22, <1>23 DEF Users
  <2>3. L!AskToLeave \/ UNCHANGED L!vars
    BY <2>1, <2>2, <1>c DEF L!AskToLeave, L!Outcome, L!vars, ResourceSeen, live, going
  <2> QED
    BY <2>3 DEF L!Next
<1>24. ASSUME \/ \E v \in Version : ChangeVersion(v)
              \/ \E c \in Configs : ChangeProviderConfig(c)
              \/ \E o \in Flux : FluxReady(o) \/ FluxStalls(o)
       PROVE  UNCHANGED L!vars
  <2>1. /\ UNCHANGED <<store, metrics>>
        /\ mo'.gone = mo.gone /\ mo'.deleting = mo.deleting
    BY <1>24, <1>a DEF ChangeVersion, ChangeProviderConfig, FluxReady, FluxStalls, ClustersTyped
  <2>2. UNCHANGED <<WorkDone, CalledFor, emptied>>
    BY <1>22, <1>24 DEF Users, Controllers
  <2> QED
    BY <2>1, <2>2, <1>c DEF L!vars, ResourceSeen, live, going
<1>25. ASSUME NEW k \in Kind, CreateMetric(k) \/ DeleteMetric(k)
       PROVE  L!Next
  <2>1. /\ UNCHANGED <<store, mo>> /\ metrics' \subseteq Kind
        /\ mo.gone => metrics' \subseteq metrics
    BY <1>25, <1>a DEF CreateMetric, DeleteMetric, ClustersTyped
  <2>2. UNCHANGED <<WorkDone, CalledFor, emptied>>
    BY <1>22, <1>25 DEF Users
  <2>3. L!MetricsChange
    BY <2>1, <2>2, <1>c DEF L!MetricsChange, L!Outcome, ResourceSeen, live, going
  <2> QED
    BY <2>3 DEF L!Next
<1>26. ASSUME NEW o \in Drifters, Drift(o)
       PROVE  L!Next
  <2>1. o \in Object /\ o \in live /\ UNCHANGED <<mo, metrics>>
    BY <1>26, SomeObjects DEF Drift, live, InState
  <2>2. UNCHANGED <<WorkDone, CalledFor, emptied>>
    BY <1>22, <1>26 DEF Users
  <2>3. /\ live' = live \ {o}
        /\ going' \in {going \cup {o}, going \ {o}}
    BY <1>26, <1>a, <2>1, EraseSeen DEF Drift, live, going
  <2>4. L!Drift(o)
    BY <2>1, <2>2, <2>3 DEF L!Drift, L!Intent, ResourceSeen, live, going
  <2> QED
    BY <1>26, <2>4 DEF L!Next
<1>27. ASSUME NEW o \in Object, Vanish(o), UNCHANGED <<mo, metrics>>,
              \/ store[o] = "terminating"
              \/ \E ns \in ManagedNamespace :
                     IsContentOf(o, ns) /\ store[ns] = "terminating",
              UNCHANGED <<WorkDone, CalledFor, emptied>>
       PROVE  [L!Next]_(L!vars)
  <2>1. live' = live \ {o} /\ going' = going \ {o}
    BY <1>27, <1>a, VanishSeen DEF live, going
  <2>2. o \in going \/ \E ns \in going : <<o, ns>> \in LiesIn
    BY <1>27, SomeObjects DEF going, InState, LiesIn
  <2>3. CASE o \in live \cup going
    <3>1. L!Go(o)
      BY <1>27, <2>1, <2>2 DEF L!Go, L!Intent, ResourceSeen, live, going
    <3> QED
      BY <2>3, <3>1 DEF L!Next, live, going
  <2>4. CASE o \notin live \cup going
    BY <1>27, <2>1, <2>4 DEF L!vars, ResourceSeen, live, going
  <2> QED
    BY <2>3, <2>4
<1>28. ASSUME NEW o, \/ o \in Flux /\ FluxFinalizes(o)
                     \/ o \in Object /\ PurgeContent(o)
                     \/ o \in ManagedNamespace /\ FinalizeNamespace(o)
       PROVE  [L!Next]_(L!vars)
  <2>1. /\ o \in Object /\ Vanish(o) /\ UNCHANGED <<mo, metrics>>
        /\ \/ store[o] = "terminating"
           \/ \E ns \in ManagedNamespace :
                  IsContentOf(o, ns) /\ store[ns] = "terminating"
    BY <1>28, SomeObjects DEF FluxFinalizes, PurgeContent, FinalizeNamespace
  <2>2. UNCHANGED <<WorkDone, CalledFor, emptied>>
    BY <1>22, <1>28 DEF Controllers
  <2> QED
    BY <1>27, <2>1, <2>2
<1>29. CASE HelmInstalls
  <2>1. UNCHANGED <<mo, metrics>>
    BY <1>29 DEF HelmInstalls
  <2>2. live' = live /\ going' = going
    BY <1>29, <1>a DEF HelmInstalls, Exists, live, going, InState, ClustersTyped
  <2>3. UNCHANGED <<WorkDone, CalledFor, emptied>>
    BY <1>22, <1>29 DEF Controllers
  <2> QED
    BY <2>1, <2>2, <2>3 DEF L!vars, ResourceSeen, live, going
<1>30. CASE Terminated
  BY <1>2, <1>30 DEF Terminated, vars
<1> QED
  BY <1>3, <1>4, <1>5, <1>6, <1>8, <1>9, <1>10, <1>14, <1>15, <1>17, <1>18, <1>19, <1>20,
     <1>23, <1>24, <1>25, <1>26, <1>28, <1>29, <1>30
     DEF Next, Handler, FaultyHandler, Users, Controllers

LEMMA ImplInvHolds == Spec => []ImplInv
<1>1. Init => ImplInv
  BY InitTyped, TeardownInit, OrphanInit
     DEF ImplInv, Init, GuardInv, GuardProgress, GuardSound
<1>2. ImplInv /\ [Next]_vars => ImplInv'
  <2> SUFFICES ASSUME ImplInv, [Next]_vars PROVE ImplInv'
    OBVIOUS
  <2>1. CASE Next
    BY <2>1, TypeOKNext, TeardownNext, GuardNext, OrphanNext DEF ImplInv
  <2>2. CASE UNCHANGED vars
    <3>1. Wanted' = Wanted /\ Objects' = Objects /\ TypeOK'
      BY <2>2, SamePass, TypeOKNext DEF vars, ImplInv
    <3>2. TeardownInv'
      BY <2>2, <3>1 DEF ImplInv, vars, TeardownInv, WalkProgress, FinalizeLast, AbsentUpTo
    <3>3. GuardInv' /\ OrphanInv'
      BY <2>2, <3>1 DEF ImplInv, vars, GuardInv, GuardProgress, GuardSound, OrphanInv, Managed
    <3> QED
      BY <3>1, <3>2, <3>3 DEF ImplInv
  <2> QED
    BY <2>1, <2>2
<1> QED
  BY <1>1, <1>2, PTL DEF Spec

(* Whatever passes, faults, crashes and other actors do, the clusters see   *)
(* no more than Lifecycle allows (CreateOrUpdate and Delete of the          *)
(* controller, with all they call).                                         *)
THEOREM ReconcilerImplementsLifecycle == Spec => ImplementsLifecycle
<1>1. ImplInv /\ [Next]_vars => [L!Next]_(L!vars)
  <2> SUFFICES ASSUME ImplInv, [Next]_vars PROVE [L!Next]_(L!vars)
    OBVIOUS
  <2>1. CASE UNCHANGED vars
    <3>1. UNCHANGED <<InState("live"), InState("terminating"), CalledFor>>
      BY <2>1, StoreSeen, CalledFrame DEF vars
    <3>2. UNCHANGED <<WorkDone, ResourceSeen>>
      BY <2>1 DEF vars, WorkDone, ResourceSeen
    <3> QED
      BY <2>1, <3>1, <3>2 DEF vars, L!vars
  <2> QED
    BY <2>1, StepImplements
<1> QED
  BY <1>1, InitImplements, ImplInvHolds, PTL DEF Spec, ImplementsLifecycle, L!Spec

----------------------------------------------------------------------------
(* What follows from the life cycle alone.                                  *)

LEMMA LifecyclePromise == L!Spec => [](L!TypeOK /\ L!Protected /\ L!GoneForGood)
<1>1. L!Init => L!TypeOK /\ L!Protected /\ L!GoneForGood
  BY DEF L!Init, L!TypeOK, L!Protected, L!GoneForGood
<1>2. L!TypeOK /\ L!Protected /\ L!GoneForGood /\ [L!Next]_(L!vars) => (L!TypeOK /\ L!Protected /\ L!GoneForGood)'
  <2> SUFFICES ASSUME L!TypeOK, L!Protected, L!GoneForGood, [L!Next]_(L!vars)
               PROVE  L!TypeOK' /\ L!Protected' /\ L!GoneForGood'
    OBVIOUS
  <2> USE DEF L!TypeOK, L!Protected, L!GoneForGood, L!NothingCalledIsLeft, L!Intent, L!Outcome
  <2>1. CASE L!Begin \/ L!Rest
    BY <2>1 DEF L!Begin, L!Rest
  <2>2. CASE L!Install
    BY <2>2 DEF L!Install
  <2>3. CASE L!Proceed
    BY <2>3 DEF L!Proceed
  <2>4. CASE L!Settle \/ L!Release
    BY <2>4 DEF L!Settle, L!Release
  <2>5. ASSUME NEW k \in Kind, L!Ask(k) PROVE L!TypeOK' /\ L!Protected' /\ L!GoneForGood'
    BY <2>5 DEF L!Ask
  <2>6. CASE L!AskToLeave \/ L!MetricsChange
    BY <2>6 DEF L!AskToLeave, L!MetricsChange
  <2>7. ASSUME NEW o, L!Take(o) \/ L!Prune(o) PROVE L!TypeOK' /\ L!Protected' /\ L!GoneForGood'
    BY <2>7 DEF L!Take, L!Prune
  <2>8. ASSUME NEW o, L!Go(o) PROVE L!TypeOK' /\ L!Protected' /\ L!GoneForGood'
    BY <2>8 DEF L!Go
  <2>9. ASSUME NEW o, L!Drift(o) PROVE L!TypeOK' /\ L!Protected' /\ L!GoneForGood'
    BY <2>9 DEF L!Drift
  <2>10. CASE UNCHANGED L!vars
    BY <2>10 DEF L!vars
  <2> QED
    BY <2>1, <2>2, <2>3, <2>4, <2>5, <2>6, <2>7, <2>8, <2>9, <2>10 DEF L!Next
<1> QED
  BY <1>1, <1>2, PTL DEF L!Spec

(* Nothing is torn down for a resource nobody asked to leave or before      *)
(* every kind was found empty, and nothing of a resource that is gone comes *)
(* back: read off Lifecycle, and true of the controller because it          *)
(* implements it.                                                           *)
THEOREM LifecyclePromiseKept == Spec => [](L!Protected /\ L!GoneForGood)
<1>1. Spec => L!Spec
  BY ReconcilerImplementsLifecycle DEF ImplementsLifecycle
<1> QED
  BY <1>1, LifecyclePromise, PTL
=============================================================================
