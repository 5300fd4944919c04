-------------------------- MODULE ReconcilerProofs --------------------------
(***************************************************************************)
(* What Reconciler guarantees for every set of secrets, namespaces,         *)
(* versions, kinds and ProviderConfigs, and any number of faults and edits. *)
(***************************************************************************)
EXTENDS Reconciler, TLAPS

----------------------------------------------------------------------------
(* Facts about the inventory.                                               *)

(* What a pass walks through are objects the provider creates, never those  *)
(* of another owner.                                                        *)
LEMMA PlatformType ==
    ASSUME NEW d \in Desired
    PROVE  PlatformObjects(d) \in Seq(OwnObject)
<1>1. <<OCIRepository, HelmRelease>> \in Seq(OwnObject)
  BY DEF OwnObject
<1>2. CASE d.chart = NoSecret
  BY <1>1, <1>2 DEF PlatformObjects
<1>3. CASE d.chart # NoSecret
  <2>1. d.chart \in SecretName
    BY <1>3 DEF Desired
  <2>2. <<ChartSecret(d.chart)>> \in Seq(OwnObject)
    BY <2>1 DEF OwnObject
  <2> QED
    BY <1>1, <1>3, <2>2 DEF PlatformObjects
<1> QED
  BY <1>2, <1>3

LEMMA WorkloadType ==
    ASSUME NEW d \in Desired
    PROVE  WorkloadObjects(d) \in Seq(OwnObject)
<1> DEFINE images == [i \in 1..Len(d.images) |-> ImageSecret(d.images[i])]
           ca     == IF d.ca THEN <<CaConfigMap>> ELSE << >>
<1>1. d.images \in Seq(SecretName) /\ d.ca \in BOOLEAN
  BY DEF Desired
<1>2. images \in Seq(OwnObject)
  BY <1>1 DEF OwnObject
<1>3. <<InstanceNamespace, TokenSecret>> \in Seq(OwnObject)
  BY DEF OwnObject
<1>4. ca \in Seq(OwnObject)
  <2>1. CaConfigMap \in OwnObject
    BY DEF OwnObject
  <2>2. CASE d.ca
    BY <2>1, <2>2
  <2>3. CASE ~d.ca
    BY <2>3
  <2> QED
    BY <1>1, <2>2, <2>3
<1>5. WorkloadObjects(d) = <<InstanceNamespace, TokenSecret>> \o images \o ca
  BY DEF WorkloadObjects
<1> HIDE DEF images, ca
<1> QED
  BY <1>2, <1>3, <1>4, <1>5

LEMMA ControlPlaneType ==
    ASSUME NEW d \in Desired
    PROVE  ControlPlaneObjects(d) \in Seq(OwnObject)
<1>1. d.namespace \in Namespace
  BY DEF Desired
<1>2. /\ CpNamespace(d.namespace) \in OwnObject
      /\ ServiceAccount(d.namespace) \in OwnObject
      /\ ClusterRoleBinding \in OwnObject
  BY <1>1 DEF OwnObject
<1> QED
  BY <1>2 DEF ControlPlaneObjects

LEMMA InventoryType ==
    ASSUME NEW d \in Desired
    PROVE  ManagedObjects(d) \in Seq(OwnObject)
BY PlatformType, WorkloadType, ControlPlaneType DEF ManagedObjects

(* The HelmRelease is visited before the namespace its installation can     *)
(* recreate.                                                                *)
LEMMA HelmReleaseFirst ==
    ASSUME NEW d \in Desired,
           NEW j \in 1..Len(ManagedObjects(d)),
           ManagedObjects(d)[j] = InstanceNamespace
    PROVE  \E i \in 1..(j - 1) : ManagedObjects(d)[i] = HelmRelease
<1> DEFINE P == PlatformObjects(d)
           W == WorkloadObjects(d)
           C == ControlPlaneObjects(d)
<1>1. P \in Seq(OwnObject) /\ W \in Seq(OwnObject) /\ C \in Seq(OwnObject)
  BY PlatformType, WorkloadType, ControlPlaneType
<1>2. ManagedObjects(d) = P \o W \o C
  BY DEF ManagedObjects
<1>3. /\ Len(P) \in {2, 3}
      /\ P[Len(P)] = HelmRelease
      /\ \A i \in 1..Len(P) : P[i].cluster = "Platform"
  BY DEF PlatformObjects, ChartSecret, OCIRepository, HelmRelease, Obj
<1> HIDE DEF P, W, C
<1>4. \A i \in 1..Len(P) : ManagedObjects(d)[i] = P[i]
  BY <1>1, <1>2
<1>5. j \in Nat \ {0}
  BY <1>1, <1>2
<1>6. InstanceNamespace.cluster = "Workload"
  BY DEF InstanceNamespace, Obj
<1>7. ~(j <= Len(P))
  BY <1>3, <1>4, <1>5, <1>6
<1>8. Len(P) \in 1..(j - 1) /\ Len(P) \in 1..Len(P)
  BY <1>3, <1>5, <1>7
<1> QED
  BY <1>3, <1>4, <1>8

----------------------------------------------------------------------------
(* Facts about single states and steps.                                     *)

LEMMA WantedType ==
    ASSUME TypeOK, Wanted \notin {NotOffered, Malformed}
    PROVE  Wanted \in Desired
BY ReconcilerAssumption
   DEF TypeOK, PassTyped, Wanted, selectMetricsOperatorVersion, ProviderConfig

LEMMA ObjectsType ==
    ASSUME Wanted \in Desired
    PROVE  /\ Objects \in Seq(OwnObject)
           /\ Len(Objects) \in Nat
           /\ \A i \in 1..Len(Objects) : Objects[i] \in OwnObject /\ Objects[i] \in Object
<1>1. Objects \in Seq(OwnObject)
  BY InventoryType DEF Objects
<1> QED
  BY <1>1 DEF Object

(* What the pass works on is fixed by the snapshot it was started with.     *)
LEMMA SnapshotFrame ==
    ASSUME pass'.version = pass.version, pass'.pc = pass.pc
    PROVE  Wanted' = Wanted /\ Objects' = Objects
BY DEF Wanted, Objects, selectMetricsOperatorVersion

LEMMA SomeObjects ==
    /\ OwnObject \subseteq Object
    /\ Flux \subseteq Object
    /\ ManagedNamespace \subseteq Object
    /\ Swept \subseteq Object
    /\ Drifters \subseteq Object
    /\ HelmRelease \in Object /\ InstanceNamespace \in Object /\ TokenSecret \in Object
BY ReconcilerAssumption DEF Object, OwnObject, Flux, ManagedNamespace, Swept

----------------------------------------------------------------------------
(* Type correctness.                                                        *)

LEMMA InitTyped == Init => TypeOK
<1> SUFFICES ASSUME Init PROVE TypeOK
  OBVIOUS
<1>1. ClustersTyped
  BY DEF Init, ClustersTyped, Status, StoreState
<1>2. PassTyped
  BY ReconcilerAssumption DEF Init, PassTyped, Step, Status, Fresh, Tally, Budget
<1>3. WalkInBounds
  BY DEF Init, WalkInBounds
<1> QED
  BY <1>1, <1>2, <1>3 DEF TypeOK

LEMMA FaultTyped ==
    ASSUME budget \in Budget, Fault
    PROVE  budget' \in Budget
BY ReconcilerAssumption DEF Fault, Budget

LEMMA EditTyped ==
    ASSUME budget \in Budget, Edit
    PROVE  budget' \in Budget
BY ReconcilerAssumption DEF Edit, Budget

LEMMA TallyTyped ==
    ASSUME NEW t \in Tally
    PROVE  /\ [t EXCEPT !.allDeleted = FALSE] \in Tally
           /\ [t EXCEPT !.allReady = FALSE] \in Tally
           /\ [t EXCEPT !.failed = TRUE] \in Tally
           /\ [t EXCEPT !.err = TRUE] \in Tally
           /\ [t EXCEPT !.blocking = TRUE] \in Tally
           /\ [t EXCEPT !.allDeleted = FALSE, !.failed = TRUE] \in Tally
BY DEF Tally

LEMMA CountTyped ==
    ASSUME tally \in Tally, NEW o, NEW state
    PROVE  CountPhase(o, state) \in Tally /\ CountDeleted(o) \in Tally
BY TallyTyped DEF CountPhase, CountDeleted

LEMMA OrphanFailureTyped ==
    ASSUME tally \in Tally
    PROVE  TallyOrphanFailure \in Tally
BY DEF Tally, TallyOrphanFailure

(* Each step leaves the clusters in a state they can be in.                 *)
LEMMA ClustersTypedNext ==
    ASSUME TypeOK, Next
    PROVE  ClustersTyped'
<1> USE DEF TypeOK, ClustersTyped, world, EndPass, Status
<1>1. CASE StartPass
  BY <1>1 DEF StartPass
<1>2. CASE ListKind
  BY <1>2 DEF ListKind
<1>3. CASE GuardDecides
  BY <1>3 DEF GuardDecides
<1>4. CASE PrepareConflict
  BY <1>4 DEF PrepareConflict
<1>5. CASE PrepareRejected
  BY <1>5 DEF PrepareRejected
<1>6. CASE PrepareMalformed
  BY <1>6 DEF PrepareMalformed
<1>7. CASE Prepare
  BY <1>7 DEF Prepare
<1>8. CASE ApplyObject
  <2>1. Wanted \in Desired /\ Objects[idx] \in Object
    BY <1>8, ObjectsType DEF ApplyObject, PassTyped, WalkInBounds
  <2>2. Wanted.namespace \in Namespace
    BY <2>1 DEF Desired
  <2> QED
    BY <1>8, <2>1, <2>2 DEF ApplyObject, Write, StoreState
<1>9. CASE ApplyObjectRefused
  BY <1>9 DEF ApplyObjectRefused
<1>10. CASE DeleteObject
  <2>1. Objects[idx] \in Object
    BY <1>10, ObjectsType DEF DeleteObject, PassTyped, WalkInBounds
  <2> QED
    BY <1>10, <2>1 DEF DeleteObject, Erase, Vanish, StoreState
<1>11. CASE DeleteObjectBlocked
  BY <1>11 DEF DeleteObjectBlocked
<1>12. CASE ObjectsDone
  BY <1>12 DEF ObjectsDone
<1>13. CASE ListOrphans
  BY <1>13 DEF ListOrphans
<1>14. ASSUME NEW o \in Swept, DeleteOrphan(o) PROVE ClustersTyped'
  BY <1>14, SomeObjects DEF DeleteOrphan, Vanish, StoreState
<1>15. CASE CleanerDone
  BY <1>15 DEF CleanerDone
<1>16. CASE FinishApply
  BY <1>16 DEF FinishApply, ApplyStatus, PassTyped
<1>17. CASE FinishDelete
  BY <1>17 DEF FinishDelete, PassTyped
<1>18. CASE RemoveFinalizer
  BY <1>18 DEF RemoveFinalizer
<1>19. CASE ListKindFails
  BY <1>19 DEF ListKindFails
<1>20. CASE PrepareFails
  BY <1>20 DEF PrepareFails
<1>21. CASE ApplyObjectFails
  <2>1. Wanted \in Desired /\ Objects[idx] \in Object
    BY <1>21, ObjectsType DEF ApplyObjectFails, PassTyped, WalkInBounds
  <2>2. Wanted.namespace \in Namespace
    BY <2>1 DEF Desired
  <2> QED
    BY <1>21, <2>1, <2>2 DEF ApplyObjectFails, Write, StoreState
<1>22. CASE DeleteObjectFails
  <2>1. Objects[idx] \in Object
    BY <1>22, ObjectsType DEF DeleteObjectFails, PassTyped, WalkInBounds
  <2> QED
    BY <1>22, <2>1 DEF DeleteObjectFails, Erase, Vanish, StoreState
<1>23. CASE ListOrphansFails
  BY <1>23 DEF ListOrphansFails
<1>24. ASSUME NEW o \in Swept, DeleteOrphanFails(o) PROVE ClustersTyped'
  BY <1>24, SomeObjects DEF DeleteOrphanFails, Vanish, StoreState
<1>25. CASE Crash
  BY <1>25 DEF Crash
<1>26. CASE RequestDeletion
  BY <1>26 DEF RequestDeletion
<1>27. ASSUME NEW v \in Version, ChangeVersion(v) PROVE ClustersTyped'
  BY <1>27 DEF ChangeVersion
<1>28. ASSUME NEW c \in Configs, ChangeProviderConfig(c) PROVE ClustersTyped'
  BY <1>28 DEF ChangeProviderConfig
<1>29. ASSUME NEW k \in Kind, CreateMetric(k) PROVE ClustersTyped'
  BY <1>29 DEF CreateMetric
<1>30. ASSUME NEW k \in Kind, DeleteMetric(k) PROVE ClustersTyped'
  BY <1>30 DEF DeleteMetric
<1>31. ASSUME NEW o \in Drifters, Drift(o) PROVE ClustersTyped'
  BY <1>31, SomeObjects DEF Drift, Erase, Vanish, StoreState
<1>32. ASSUME NEW o \in Flux, FluxReady(o) PROVE ClustersTyped'
  BY <1>32, SomeObjects DEF FluxReady
<1>33. ASSUME NEW o \in Flux, FluxStalls(o) PROVE ClustersTyped'
  BY <1>33 DEF FluxStalls
<1>34. ASSUME NEW o \in Flux, FluxFinalizes(o) PROVE ClustersTyped'
  BY <1>34, SomeObjects DEF FluxFinalizes, Vanish, StoreState
<1>35. CASE HelmInstalls
  BY <1>35 DEF HelmInstalls, StoreState
<1>36. ASSUME NEW o \in Object, PurgeContent(o) PROVE ClustersTyped'
  BY <1>36 DEF PurgeContent, Vanish, StoreState
<1>37. ASSUME NEW ns \in ManagedNamespace, FinalizeNamespace(ns) PROVE ClustersTyped'
  BY <1>37, SomeObjects DEF FinalizeNamespace, Vanish, StoreState
<1>38. CASE Terminated
  BY <1>38 DEF Terminated, vars
<1> QED
  BY <1>1, <1>2, <1>3, <1>4, <1>5, <1>6, <1>7, <1>8, <1>9, <1>10, <1>11, <1>12,
     <1>13, <1>14, <1>15, <1>16, <1>17, <1>18, <1>19, <1>20, <1>21, <1>22, <1>23, <1>24, <1>25, <1>26, <1>27, <1>28, <1>29, <1>30, <1>31, <1>32, <1>33, <1>34, <1>35, <1>36, <1>37, <1>38
     DEF Next, Handler, FaultyHandler, Users, Controllers

(* Each step keeps what the controller holds in memory well formed.         *)
LEMMA PassTypedNext ==
    ASSUME TypeOK, Next
    PROVE  PassTyped'
<1> USE DEF TypeOK, PassTyped, world, unmovedPass, EndPass, Step
<1>1. CASE StartPass
  BY <1>1 DEF StartPass, Fresh, Tally, Status, ClustersTyped
<1>2. CASE ListKind
  <2>1. tally' \in Tally
    BY <1>2, TallyTyped DEF ListKind
  <2>2. metricsListGVKs[idx] \in Kind /\ idx' \in Nat \ {0}
    BY <1>2, ReconcilerAssumption DEF ListKind
  <2>3. emptied' \subseteq Kind
    BY <1>2, <2>2 DEF ListKind
  <2> QED
    BY <1>2, <2>1, <2>2, <2>3 DEF ListKind
<1>3. CASE GuardDecides
  BY <1>3 DEF GuardDecides, Status
<1>4. CASE PrepareConflict
  BY <1>4 DEF PrepareConflict
<1>5. CASE PrepareRejected
  BY <1>5 DEF PrepareRejected
<1>6. CASE PrepareMalformed
  BY <1>6 DEF PrepareMalformed
<1>7. CASE Prepare
  BY <1>7 DEF Prepare, Status, ClustersTyped
<1>8. CASE ApplyObject
  <2>1. tally' \in Tally
    BY <1>8, CountTyped DEF ApplyObject
  <2> QED
    BY <1>8, <2>1 DEF ApplyObject
<1>9. CASE ApplyObjectRefused
  <2>1. tally' \in Tally
    BY <1>9, CountTyped, TallyTyped DEF ApplyObjectRefused
  <2> QED
    BY <1>9, <2>1 DEF ApplyObjectRefused, AfterError
<1>10. CASE DeleteObject
  <2>1. tally' \in Tally
    BY <1>10, CountTyped DEF DeleteObject
  <2> QED
    BY <1>10, <2>1 DEF DeleteObject
<1>11. CASE DeleteObjectBlocked
  <2>1. tally' \in Tally
    BY <1>11, TallyTyped DEF DeleteObjectBlocked
  <2>2. idx' \in Nat \ {0}
    BY <1>11 DEF DeleteObjectBlocked, AfterError
  <2> QED
    BY <1>11, <2>1, <2>2 DEF DeleteObjectBlocked
<1>12. CASE ObjectsDone
  BY <1>12 DEF ObjectsDone
<1>13. CASE ListOrphans
  BY <1>13 DEF ListOrphans, Orphans, CleanerScope
<1>14. ASSUME NEW o \in Swept, DeleteOrphan(o) PROVE PassTyped'
  BY <1>14 DEF DeleteOrphan
<1>15. CASE CleanerDone
  BY <1>15 DEF CleanerDone
<1>16. CASE FinishApply
  BY <1>16 DEF FinishApply
<1>17. CASE FinishDelete
  BY <1>17 DEF FinishDelete
<1>18. CASE RemoveFinalizer
  BY <1>18 DEF RemoveFinalizer
<1>19. CASE ListKindFails
  BY <1>19, FaultTyped DEF ListKindFails
<1>20. CASE PrepareFails
  BY <1>20, FaultTyped DEF PrepareFails
<1>21. CASE ApplyObjectFails
  <2>1. tally' \in Tally
    BY <1>21, CountTyped, TallyTyped DEF ApplyObjectFails
  <2> QED
    BY <1>21, <2>1, FaultTyped DEF ApplyObjectFails, AfterError
<1>22. CASE DeleteObjectFails
  <2>1. tally' \in Tally
    BY <1>22, TallyTyped DEF DeleteObjectFails
  <2>2. idx' \in Nat \ {0}
    BY <1>22 DEF DeleteObjectFails, AfterError
  <2> QED
    BY <1>22, <2>1, <2>2, FaultTyped DEF DeleteObjectFails
<1>23. CASE ListOrphansFails
  BY <1>23, FaultTyped, TallyTyped DEF ListOrphansFails
<1>24. ASSUME NEW o \in Swept, DeleteOrphanFails(o) PROVE PassTyped'
  BY <1>24, FaultTyped, OrphanFailureTyped DEF DeleteOrphanFails
<1>25. CASE Crash
  BY <1>25, FaultTyped DEF Crash
<1>26. CASE RequestDeletion
  BY <1>26 DEF RequestDeletion
<1>27. ASSUME NEW v \in Version, ChangeVersion(v) PROVE PassTyped'
  BY <1>27, EditTyped DEF ChangeVersion
<1>28. ASSUME NEW c \in Configs, ChangeProviderConfig(c) PROVE PassTyped'
  BY <1>28, EditTyped DEF ChangeProviderConfig
<1>29. ASSUME NEW k \in Kind, CreateMetric(k) PROVE PassTyped'
  BY <1>29 DEF CreateMetric
<1>30. ASSUME NEW k \in Kind, DeleteMetric(k) PROVE PassTyped'
  BY <1>30 DEF DeleteMetric
<1>31. ASSUME NEW o \in Drifters, Drift(o) PROVE PassTyped'
  BY <1>31, EditTyped DEF Drift
<1>32. ASSUME NEW o \in Flux, FluxReady(o) PROVE PassTyped'
  BY <1>32 DEF FluxReady
<1>33. ASSUME NEW o \in Flux, FluxStalls(o) PROVE PassTyped'
  BY <1>33, EditTyped DEF FluxStalls
<1>34. ASSUME NEW o \in Flux, FluxFinalizes(o) PROVE PassTyped'
  BY <1>34 DEF FluxFinalizes
<1>35. CASE HelmInstalls
  BY <1>35 DEF HelmInstalls
<1>36. ASSUME NEW o \in Object, PurgeContent(o) PROVE PassTyped'
  BY <1>36 DEF PurgeContent
<1>37. ASSUME NEW ns \in ManagedNamespace, FinalizeNamespace(ns) PROVE PassTyped'
  BY <1>37 DEF FinalizeNamespace
<1>38. CASE Terminated
  BY <1>38 DEF Terminated, vars
<1> QED
  BY <1>1, <1>2, <1>3, <1>4, <1>5, <1>6, <1>7, <1>8, <1>9, <1>10, <1>11, <1>12,
     <1>13, <1>14, <1>15, <1>16, <1>17, <1>18, <1>19, <1>20, <1>21, <1>22, <1>23, <1>24, <1>25, <1>26, <1>27, <1>28, <1>29, <1>30, <1>31, <1>32, <1>33, <1>34, <1>35, <1>36, <1>37, <1>38
     DEF Next, Handler, FaultyHandler, Users, Controllers

(* Each step stays within the list it walks through.                        *)
LEMMA WalkInBoundsNext ==
    ASSUME TypeOK, Next
    PROVE  WalkInBounds'
<1> USE DEF TypeOK, PassTyped, WalkInBounds, unmovedPass, EndPass
<1>1. CASE StartPass
  BY <1>1, SnapshotFrame DEF StartPass
<1>2. CASE ListKind
  BY <1>2, ReconcilerAssumption, SnapshotFrame DEF ListKind
<1>3. CASE GuardDecides
  BY <1>3, SnapshotFrame DEF GuardDecides
<1>4. CASE PrepareConflict
  BY <1>4, SnapshotFrame DEF PrepareConflict
<1>5. CASE PrepareRejected
  BY <1>5, SnapshotFrame DEF PrepareRejected
<1>6. CASE PrepareMalformed
  BY <1>6, SnapshotFrame DEF PrepareMalformed
<1>7. CASE Prepare
  <2>1. Wanted \in Desired
    BY <1>7, WantedType DEF Prepare
  <2>2. pass'.version = pass.version /\ pass'.pc = pass.pc
    BY <1>7 DEF Prepare
  <2>3. Wanted' \in Desired /\ Objects' = Objects /\ Len(Objects) \in Nat
    BY <2>1, <2>2, SnapshotFrame, ObjectsType
  <2> QED
    BY <1>7, <2>3 DEF Prepare
<1>8. CASE ApplyObject
  BY <1>8, SnapshotFrame, ObjectsType DEF ApplyObject, AfterError
<1>9. CASE ApplyObjectRefused
  BY <1>9, SnapshotFrame, ObjectsType DEF ApplyObjectRefused, AfterError
<1>10. CASE DeleteObject
  BY <1>10, SnapshotFrame, ObjectsType DEF DeleteObject, AfterError
<1>11. CASE DeleteObjectBlocked
  BY <1>11, SnapshotFrame, ObjectsType DEF DeleteObjectBlocked, AfterError
<1>12. CASE ObjectsDone
  BY <1>12, SnapshotFrame DEF ObjectsDone, NumCleaners
<1>13. CASE ListOrphans
  BY <1>13, SnapshotFrame DEF ListOrphans
<1>14. ASSUME NEW o \in Swept, DeleteOrphan(o) PROVE WalkInBounds'
  BY <1>14, SnapshotFrame DEF DeleteOrphan
<1>15. CASE CleanerDone
  BY <1>15, SnapshotFrame DEF CleanerDone, MoreCleaners, NumCleaners
<1>16. CASE FinishApply
  BY <1>16, SnapshotFrame DEF FinishApply
<1>17. CASE FinishDelete
  BY <1>17, SnapshotFrame DEF FinishDelete
<1>18. CASE RemoveFinalizer
  BY <1>18, SnapshotFrame DEF RemoveFinalizer
<1>19. CASE ListKindFails
  BY <1>19, SnapshotFrame DEF ListKindFails
<1>20. CASE PrepareFails
  BY <1>20, SnapshotFrame DEF PrepareFails
<1>21. CASE ApplyObjectFails
  BY <1>21, SnapshotFrame, ObjectsType DEF ApplyObjectFails, AfterError
<1>22. CASE DeleteObjectFails
  BY <1>22, SnapshotFrame, ObjectsType DEF DeleteObjectFails, AfterError
<1>23. CASE ListOrphansFails
  BY <1>23, SnapshotFrame DEF ListOrphansFails
<1>24. ASSUME NEW o \in Swept, DeleteOrphanFails(o) PROVE WalkInBounds'
  BY <1>24, SnapshotFrame DEF DeleteOrphanFails
<1>25. CASE Crash
  BY <1>25, SnapshotFrame DEF Crash
<1>26. CASE RequestDeletion
  BY <1>26, SnapshotFrame DEF RequestDeletion
<1>27. ASSUME NEW v \in Version, ChangeVersion(v) PROVE WalkInBounds'
  BY <1>27, SnapshotFrame DEF ChangeVersion
<1>28. ASSUME NEW c \in Configs, ChangeProviderConfig(c) PROVE WalkInBounds'
  BY <1>28, SnapshotFrame DEF ChangeProviderConfig
<1>29. ASSUME NEW k \in Kind, CreateMetric(k) PROVE WalkInBounds'
  BY <1>29, SnapshotFrame DEF CreateMetric
<1>30. ASSUME NEW k \in Kind, DeleteMetric(k) PROVE WalkInBounds'
  BY <1>30, SnapshotFrame DEF DeleteMetric
<1>31. ASSUME NEW o \in Drifters, Drift(o) PROVE WalkInBounds'
  BY <1>31, SnapshotFrame DEF Drift
<1>32. ASSUME NEW o \in Flux, FluxReady(o) PROVE WalkInBounds'
  BY <1>32, SnapshotFrame DEF FluxReady
<1>33. ASSUME NEW o \in Flux, FluxStalls(o) PROVE WalkInBounds'
  BY <1>33, SnapshotFrame DEF FluxStalls
<1>34. ASSUME NEW o \in Flux, FluxFinalizes(o) PROVE WalkInBounds'
  BY <1>34, SnapshotFrame DEF FluxFinalizes
<1>35. CASE HelmInstalls
  BY <1>35, SnapshotFrame DEF HelmInstalls
<1>36. ASSUME NEW o \in Object, PurgeContent(o) PROVE WalkInBounds'
  BY <1>36, SnapshotFrame DEF PurgeContent
<1>37. ASSUME NEW ns \in ManagedNamespace, FinalizeNamespace(ns) PROVE WalkInBounds'
  BY <1>37, SnapshotFrame DEF FinalizeNamespace
<1>38. CASE Terminated
  BY <1>38, SnapshotFrame DEF Terminated, vars
<1> QED
  BY <1>1, <1>2, <1>3, <1>4, <1>5, <1>6, <1>7, <1>8, <1>9, <1>10, <1>11, <1>12,
     <1>13, <1>14, <1>15, <1>16, <1>17, <1>18, <1>19, <1>20, <1>21, <1>22, <1>23, <1>24, <1>25, <1>26, <1>27, <1>28, <1>29, <1>30, <1>31, <1>32, <1>33, <1>34, <1>35, <1>36, <1>37, <1>38
     DEF Next, Handler, FaultyHandler, Users, Controllers

LEMMA TypeOKNext == TypeOK /\ [Next]_vars => TypeOK'
<1> SUFFICES ASSUME TypeOK, [Next]_vars PROVE TypeOK'
  OBVIOUS
<1>1. CASE Next
  BY <1>1, ClustersTypedNext, PassTypedNext, WalkInBoundsNext DEF TypeOK
<1>2. CASE UNCHANGED vars
  BY <1>2 DEF vars, TypeOK, ClustersTyped, PassTyped, WalkInBounds, Wanted, Objects
<1> QED
  BY <1>1, <1>2

(* The type invariant holds for every value of the constants.               *)
THEOREM TypeCorrect == Spec => []TypeOK
BY InitTyped, TypeOKNext, PTL DEF Spec
----------------------------------------------------------------------------
(* Who can do what: the facts about single steps the invariants rest on.    *)

(* Nobody but the controller moves the pass on.                             *)
LEMMA OthersLeaveThePass ==
    ASSUME TypeOK, Users \/ Controllers
    PROVE  /\ UNCHANGED <<step, idx, items, tally, emptied>>
           /\ pass'.deleting = pass.deleting
           /\ pass'.version = pass.version /\ pass'.pc = pass.pc
           /\ mo'.gone = mo.gone
<1> USE DEF TypeOK, ClustersTyped, PassTyped, unmovedPass
<1>1. CASE RequestDeletion
  BY <1>1 DEF RequestDeletion
<1>2. ASSUME NEW v \in Version, ChangeVersion(v)
      PROVE  /\ UNCHANGED <<step, idx, items, tally, emptied>>
             /\ pass'.deleting = pass.deleting
             /\ pass'.version = pass.version /\ pass'.pc = pass.pc
             /\ mo'.gone = mo.gone
  BY <1>2 DEF ChangeVersion
<1>3. CASE UNCHANGED <<mo, pass, unmovedPass>>
  BY <1>3
<1>4. ASSUME NEW c \in Configs, ChangeProviderConfig(c)
      PROVE  UNCHANGED <<mo, pass, unmovedPass>>
  BY <1>4 DEF ChangeProviderConfig
<1>5. ASSUME NEW k \in Kind, CreateMetric(k) \/ DeleteMetric(k)
      PROVE  UNCHANGED <<mo, pass, unmovedPass>>
  BY <1>5 DEF CreateMetric, DeleteMetric
<1>6. ASSUME NEW o \in Drifters, Drift(o)
      PROVE  UNCHANGED <<mo, pass, unmovedPass>>
  BY <1>6 DEF Drift
<1>7. CASE Controllers
  BY <1>7, <1>3 DEF Controllers, FluxReady, FluxStalls, FluxFinalizes, HelmInstalls,
                    PurgeContent, FinalizeNamespace
<1> QED
  BY <1>1, <1>2, <1>3, <1>4, <1>5, <1>6, <1>7 DEF Users

(* An object of the provider comes into being only when a pass applies it,  *)
(* except that Helm creates the namespace it installs into.                 *)
LEMMA WhoCreates ==
    ASSUME TypeOK, Next, NEW o \in OwnObject,
           store[o] = "absent", store'[o] # "absent"
    PROVE  \/ ApplyObject \/ ApplyObjectFails
           \/ HelmInstalls /\ o = InstanceNamespace
<1> USE SomeObjects DEF TypeOK, ClustersTyped, world
<1>1. o \in Object /\ store'[o] # store[o]
  OBVIOUS
<1>2. CASE HelmInstalls
  BY <1>1, <1>2, BystanderAssumption DEF HelmInstalls
<1>3. ASSUME NEW x, Vanish(x) PROVE FALSE
  BY <1>1, <1>3 DEF Vanish
<1>4. ASSUME NEW x, Exists(x), Erase(x) PROVE FALSE
  BY <1>1, <1>3, <1>4 DEF Erase, Exists
<1>5. ~DeleteObject /\ ~DeleteObjectFails
  BY <1>1, <1>4 DEF DeleteObject, DeleteObjectFails
<1>6. ASSUME NEW x, DeleteOrphan(x) \/ DeleteOrphanFails(x) PROVE FALSE
  BY <1>1, <1>3, <1>6 DEF DeleteOrphan, DeleteOrphanFails
<1>7. ASSUME NEW x, Drift(x) PROVE FALSE
  BY <1>4, <1>7 DEF Drift, Exists
<1>8. ASSUME NEW x, \/ FluxReady(x) \/ FluxStalls(x) \/ FluxFinalizes(x)
                    \/ PurgeContent(x) \/ FinalizeNamespace(x)
      PROVE FALSE
  BY <1>1, <1>3, <1>8
     DEF FluxReady, FluxStalls, FluxFinalizes, PurgeContent, FinalizeNamespace
<1>9. store' # store
  BY <1>1
<1>10. ASSUME NEW x, \/ ChangeVersion(x) \/ ChangeProviderConfig(x) \/ CreateMetric(x)
                     \/ DeleteMetric(x)
       PROVE FALSE
  BY <1>9, <1>10 DEF ChangeVersion, ChangeProviderConfig, CreateMetric, DeleteMetric
<1>11. /\ ~StartPass /\ ~ListKind /\ ~GuardDecides /\ ~PrepareConflict
       /\ ~PrepareRejected /\ ~PrepareMalformed /\ ~Prepare
       /\ ~ApplyObjectRefused /\ ~DeleteObjectBlocked /\ ~ObjectsDone
       /\ ~ListOrphans /\ ~CleanerDone /\ ~FinishApply /\ ~FinishDelete
       /\ ~RemoveFinalizer
  BY <1>9 DEF StartPass, ListKind, GuardDecides, PrepareConflict, PrepareRejected,
     PrepareMalformed, Prepare, ApplyObjectRefused, DeleteObjectBlocked, ObjectsDone,
     ListOrphans, CleanerDone, FinishApply, FinishDelete, RemoveFinalizer
<1>12. /\ ~ListKindFails /\ ~PrepareFails /\ ~ListOrphansFails /\ ~Crash
       /\ ~RequestDeletion /\ ~Terminated
  BY <1>9 DEF ListKindFails, PrepareFails, ListOrphansFails, Crash, RequestDeletion,
     Terminated, vars
<1> QED
  BY <1>2, <1>5, <1>6, <1>7, <1>8, <1>10, <1>11, <1>12
     DEF Next, Handler, FaultyHandler, Users, Controllers
----------------------------------------------------------------------------
(* InventoryGone.  It is not inductive: that the finalizer goes last relies *)
(* on AllDeleted, and AllDeleted is a verdict over answers the controller   *)
(* got one after the other.  So the invariant says what the answers so far  *)
(* stand for: the objects already visited were absent and have stayed so.   *)

AbsentUpTo(n) == \A i \in 1..n : store[Objects[i]] = "absent"

WalkProgress ==
    pass.deleting /\ tally.allDeleted =>
        /\ step = "objects" => AbsentUpTo(idx - 1)
        /\ step \in {"cleaners", "cleaning", "finish"} => AbsentUpTo(Len(Objects))

FinalizeLast ==
    /\ step = "finish" => Wanted \in Desired
    /\ step \in {"finalize", "done"} /\ Wanted \in Desired => AbsentUpTo(Len(Objects))
    /\ mo.gone => step = "done"

TeardownInv == WalkProgress /\ FinalizeLast

(* An object a Delete pass has seen gone does not come back: the pass       *)
(* applies nothing, and the Helm release that could recreate the instance   *)
(* namespace was visited before it.                                         *)
LEMMA StaysAbsent ==
    ASSUME TypeOK, Next, Wanted \in Desired,
           ~ApplyObject, ~ApplyObjectFails,
           NEW n \in 0..Len(Objects), AbsentUpTo(n),
           Objects' = Objects
    PROVE  AbsentUpTo(n)'
<1> SUFFICES ASSUME NEW i \in 1..n, store'[Objects[i]] # "absent"
             PROVE  FALSE
  BY DEF AbsentUpTo
<1>1. /\ Len(Objects) \in Nat /\ i \in 1..Len(Objects)
      /\ Objects[i] \in OwnObject /\ store[Objects[i]] = "absent"
  BY ObjectsType DEF AbsentUpTo
<1>2. HelmInstalls /\ Objects[i] = InstanceNamespace
  BY <1>1, WhoCreates
<1>3. PICK j \in 1..(i - 1) : Objects[j] = HelmRelease
  BY <1>1, <1>2, HelmReleaseFirst DEF Objects
<1>4. store[HelmRelease] = "absent"
  BY <1>1, <1>3 DEF AbsentUpTo
<1> QED
  BY <1>2, <1>4 DEF HelmInstalls, Exists

LEMMA TeardownInit == Init => TeardownInv
BY DEF Init, TeardownInv, WalkProgress, FinalizeLast

(* What a pass leaves untouched when it moves on without looking at an      *)
(* object.                                                                  *)
LEMMA SamePass ==
    ASSUME pass' = pass
    PROVE  Wanted' = Wanted /\ Objects' = Objects
BY SnapshotFrame

LEMMA TeardownNext ==
    ASSUME TypeOK, TeardownInv, Next
    PROVE  TeardownInv'
<1> USE DEF TypeOK, PassTyped, ClustersTyped, TeardownInv, WalkProgress, FinalizeLast,
            WalkInBounds
<1>1. ASSUME step # "done", mo'.gone = mo.gone, step' \in {"idle", "guard", "prepare"}
      PROVE  TeardownInv'
  BY <1>1
<1>2. CASE StartPass
  BY <1>1, <1>2 DEF StartPass, world
<1>3. CASE ListKind
  BY <1>1, <1>3 DEF ListKind, world
<1>4. CASE GuardDecides
  BY <1>1, <1>4 DEF GuardDecides, EndPass
<1>5. CASE PrepareConflict
  BY <1>1, <1>5 DEF PrepareConflict, EndPass
<1>6. CASE PrepareRejected
  BY <1>6, SamePass, ValueAssumption DEF PrepareRejected
<1>7. CASE PrepareMalformed
  BY <1>1, <1>7 DEF PrepareMalformed
<1>8. CASE Prepare
  BY <1>8 DEF Prepare, AbsentUpTo
<1>9. CASE ApplyObject \/ ApplyObjectRefused \/ ApplyObjectFails
  BY <1>9 DEF ApplyObject, ApplyObjectRefused, ApplyObjectFails, world
<1>10. CASE DeleteObject
  <2>1. /\ Wanted \in Desired /\ Objects' = Objects /\ idx' = idx + 1
        /\ step = "objects" /\ step' = step /\ pass' = pass /\ mo' = mo
        /\ idx \in 1..Len(Objects) /\ Len(Objects) \in Nat
    BY <1>10, SamePass, ObjectsType DEF DeleteObject
  <2>2. CASE Exists(Objects[idx])
    <3>1. tally'.allDeleted = FALSE
      BY <1>10, <2>2 DEF DeleteObject, CountDeleted, Tally
    <3> QED
      BY <2>1, <3>1
  <2>3. CASE ~Exists(Objects[idx])
    <3>1. tally' = tally /\ UNCHANGED store
      BY <1>10, <2>3 DEF DeleteObject, CountDeleted
    <3>2. AbsentUpTo(idx - 1) => AbsentUpTo(idx)
      BY <2>1, <2>3 DEF AbsentUpTo, Exists
    <3>3. AbsentUpTo(idx) => AbsentUpTo(idx - 1)'
      BY <2>1, <3>1 DEF AbsentUpTo
    <3> QED
      BY <2>1, <3>1, <3>2, <3>3
  <2> QED
    BY <2>2, <2>3
<1>11. CASE DeleteObjectBlocked \/ DeleteObjectFails
  <2>1. tally'.allDeleted = FALSE /\ step' = "objects" /\ step = "objects" /\ mo' = mo
    BY <1>11 DEF DeleteObjectBlocked, DeleteObjectFails, Tally, world
  <2> QED
    BY <2>1
<1>12. CASE ObjectsDone
  <2>1. Objects' = Objects /\ Wanted' = Wanted /\ Len(Objects) \in Nat
    BY <1>12, SamePass, ObjectsType DEF ObjectsDone
  <2> QED
    BY <1>12, <2>1 DEF ObjectsDone, AbsentUpTo, world
<1>13. ASSUME step \in {"cleaners", "cleaning"}, step' \in {"cleaners", "cleaning", "finish"},
              pass' = pass, mo' = mo, tally' = tally \/ ~tally'.allDeleted \/ tally' = [tally EXCEPT !.err = TRUE],
              ~ApplyObject, ~ApplyObjectFails
       PROVE  TeardownInv'
  <2>1. /\ Objects' = Objects /\ Wanted' = Wanted /\ Wanted \in Desired
        /\ Len(Objects) \in Nat
    BY <1>13, SamePass, ObjectsType
  <2>2. tally'.allDeleted => tally.allDeleted
    BY <1>13 DEF Tally
  <2>3. AbsentUpTo(Len(Objects)) => AbsentUpTo(Len(Objects))'
    BY <1>13, <2>1, StaysAbsent
  <2> QED
    BY <1>13, <2>1, <2>2, <2>3
<1>14. step \in {"cleaners", "cleaning"} => ~ApplyObject /\ ~ApplyObjectFails
  BY DEF ApplyObject, ApplyObjectFails
<1>15. CASE ListOrphans \/ ListOrphansFails
  BY <1>13, <1>14, <1>15 DEF ListOrphans, ListOrphansFails, world
<1>16. ASSUME NEW o \in Swept, DeleteOrphan(o) PROVE TeardownInv'
  BY <1>13, <1>14, <1>16 DEF DeleteOrphan
<1>17. ASSUME NEW o \in Swept, DeleteOrphanFails(o) PROVE TeardownInv'
  BY <1>13, <1>14, <1>17 DEF DeleteOrphanFails, TallyOrphanFailure, Tally
<1>18. CASE CleanerDone
  BY <1>13, <1>14, <1>18 DEF CleanerDone, world
<1>19. CASE FinishApply
  BY <1>1, <1>19 DEF FinishApply, EndPass
<1>20. CASE FinishDelete
  <2>1. Objects' = Objects /\ Wanted' = Wanted
    BY <1>20, SamePass DEF FinishDelete
  <2> QED
    BY <1>20, <2>1 DEF FinishDelete, EndPass, AbsentUpTo
<1>21. CASE RemoveFinalizer
  <2>1. Objects' = Objects /\ Wanted' = Wanted
    BY <1>21, SamePass DEF RemoveFinalizer
  <2> QED
    BY <1>21, <2>1 DEF RemoveFinalizer, AbsentUpTo
<1>22. CASE ListKindFails
  BY <1>1, <1>22 DEF ListKindFails, EndPass
<1>23. CASE PrepareFails
  BY <1>1, <1>23 DEF PrepareFails
<1>24. CASE Crash
  BY <1>1, <1>24 DEF Crash, world
<1>25. CASE Users \/ Controllers
  <2>1. /\ UNCHANGED <<step, idx, tally>>
        /\ pass'.deleting = pass.deleting /\ mo'.gone = mo.gone
        /\ Wanted' = Wanted /\ Objects' = Objects
    BY <1>25, OthersLeaveThePass, SnapshotFrame
  <2>2. ~ApplyObject /\ ~ApplyObjectFails
    <3>1. idx' # idx + 1
      BY <2>1
    <3>2. ApplyObject => idx' = idx + 1
      BY DEF ApplyObject
    <3>3. ApplyObjectFails => idx' = idx + 1
      BY DEF ApplyObjectFails, AfterError
    <3> QED
      BY <3>1, <3>2, <3>3
  <2>3. ASSUME NEW n \in 0..Len(Objects), Wanted \in Desired, AbsentUpTo(n)
        PROVE  AbsentUpTo(n)'
    BY <2>1, <2>2, <2>3, StaysAbsent
  <2>4. Wanted \in Desired => Len(Objects) \in Nat
    BY ObjectsType
  <2>5. step = "objects" => Wanted \in Desired /\ idx - 1 \in 0..Len(Objects)
    BY <2>4
  <2>6. step = "objects" /\ AbsentUpTo(idx - 1) => AbsentUpTo(idx - 1)'
    <3> SUFFICES ASSUME step = "objects", AbsentUpTo(idx - 1)
                 PROVE  AbsentUpTo(idx - 1)'
      OBVIOUS
    <3>1. \A i \in 1..(idx - 1) : store'[Objects'[i]] = "absent"
      BY <2>3, <2>5 DEF AbsentUpTo
    <3> QED
      BY <2>1, <3>1 DEF AbsentUpTo
  <2>7. Wanted \in Desired /\ AbsentUpTo(Len(Objects)) => AbsentUpTo(Len(Objects))'
    BY <2>1, <2>3, <2>4
  <2> QED
    BY <2>1, <2>6, <2>7
<1>26. CASE Terminated
  BY <1>26, SamePass DEF Terminated, vars, AbsentUpTo
<1> QED
  BY <1>2, <1>3, <1>4, <1>5, <1>6, <1>7, <1>8, <1>9, <1>10, <1>11, <1>12, <1>15,
     <1>16, <1>17, <1>18, <1>19, <1>20, <1>21, <1>22, <1>23, <1>24, <1>25, <1>26
     DEF Next, Handler, FaultyHandler
(* Once the finalizer is gone, nothing the last Delete pass worked on is    *)
(* left: the verdict AllDeleted of manager.go, on which Delete returns an   *)
(* empty result, holds of the clusters at the end of the pass, not only of  *)
(* the answers collected during it.                                         *)
THEOREM InventoryGoneAlways == Spec => []InventoryGone
<1>1. Init => TypeOK /\ TeardownInv
  BY InitTyped, TeardownInit
<1>2. TypeOK /\ TeardownInv /\ [Next]_vars => (TypeOK /\ TeardownInv)'
  <2> SUFFICES ASSUME TypeOK, TeardownInv, [Next]_vars
               PROVE  TypeOK' /\ TeardownInv'
    OBVIOUS
  <2>1. CASE Next
    BY <2>1, TypeOKNext, TeardownNext
  <2>2. CASE UNCHANGED vars
    <3>1. Wanted' = Wanted /\ Objects' = Objects
      BY <2>2, SamePass DEF vars
    <3> QED
      BY <2>2, <3>1, TypeOKNext
         DEF vars, TeardownInv, WalkProgress, FinalizeLast, AbsentUpTo
  <2> QED
    BY <2>1, <2>2
<1>3. TypeOK /\ TeardownInv => InventoryGone
  BY DEF TeardownInv, FinalizeLast, InventoryGone, AbsentUpTo
<1> QED
  BY <1>1, <1>2, <1>3, PTL DEF Spec

----------------------------------------------------------------------------
(* GuardSound.  The invariant adds what the guard has seen so far: unless   *)
(* it blocks, the kinds listed up to now were empty when they were listed.  *)

GuardProgress ==
    step = "guard" =>
        /\ pass.deleting
        /\ ~tally.blocking => \A i \in 1..(idx - 1) : metricsListGVKs[i] \in emptied

GuardInv == GuardProgress /\ GuardSound

LEMMA GuardNext ==
    ASSUME TypeOK, GuardInv, Next
    PROVE  GuardInv'
<1> USE DEF TypeOK, PassTyped, ClustersTyped, WalkInBounds, GuardInv, GuardProgress,
            GuardSound, EndPass, world
<1>1. ASSUME step' = "idle" PROVE GuardInv'
  BY <1>1
<1>2. ASSUME step # "idle", step # "guard", step' # "guard", UNCHANGED emptied,
             pass'.deleting = pass.deleting
      PROVE  GuardInv'
  BY <1>2
<1>3. CASE StartPass
  BY <1>3 DEF StartPass
<1>4. CASE ListKind
  <2>1. /\ step = "guard" /\ step' = "guard" /\ pass' = pass /\ idx' = idx + 1
        /\ idx \in Nat \ {0}
    BY <1>4 DEF ListKind
  <2>2. CASE metricsListGVKs[idx] \in metrics
    BY <1>4, <2>1, <2>2 DEF ListKind, Tally
  <2>3. CASE metricsListGVKs[idx] \notin metrics
    BY <1>4, <2>1, <2>3 DEF ListKind
  <2> QED
    BY <2>2, <2>3
<1>5. CASE GuardDecides
  <2>1. CASE tally.blocking
    BY <1>1, <1>5, <2>1 DEF GuardDecides
  <2>2. CASE ~tally.blocking
    <3>1. \A i \in 1..Len(metricsListGVKs) : metricsListGVKs[i] \in emptied
      BY <1>5, <2>2, ReconcilerAssumption DEF GuardDecides
    <3>2. ASSUME NEW k \in Kind PROVE k \in emptied
      <4>1. PICK i \in 1..Len(metricsListGVKs) : metricsListGVKs[i] = k
        BY ReconcilerAssumption
      <4> QED
        BY <3>1, <4>1
    <3>3. emptied \subseteq Kind
      OBVIOUS
    <3>4. emptied = Kind
      BY <3>2, <3>3
    <3> QED
      BY <1>5, <2>2, <3>4 DEF GuardDecides
  <2> QED
    BY <2>1, <2>2
<1>6. CASE ListKindFails \/ PrepareFails \/ Crash
  BY <1>1, <1>6 DEF ListKindFails, PrepareFails, Crash
<1>7. CASE PrepareConflict \/ PrepareMalformed \/ FinishApply
  BY <1>1, <1>7 DEF PrepareConflict, PrepareMalformed, FinishApply
<1>8. CASE PrepareRejected
  BY <1>1, <1>2, <1>8 DEF PrepareRejected
<1>9. CASE Prepare
  BY <1>2, <1>9 DEF Prepare
<1>10. CASE ApplyObject \/ ApplyObjectRefused \/ ApplyObjectFails
  BY <1>2, <1>10 DEF ApplyObject, ApplyObjectRefused, ApplyObjectFails
<1>11. CASE DeleteObject \/ DeleteObjectBlocked \/ DeleteObjectFails
  BY <1>2, <1>11 DEF DeleteObject, DeleteObjectBlocked, DeleteObjectFails
<1>12. CASE ObjectsDone \/ ListOrphans \/ ListOrphansFails \/ CleanerDone
  BY <1>2, <1>12 DEF ObjectsDone, ListOrphans, ListOrphansFails, CleanerDone
<1>13. ASSUME NEW o \in Swept, DeleteOrphan(o) \/ DeleteOrphanFails(o) PROVE GuardInv'
  BY <1>2, <1>13 DEF DeleteOrphan, DeleteOrphanFails
<1>14. CASE FinishDelete \/ RemoveFinalizer
  BY <1>1, <1>2, <1>14 DEF FinishDelete, RemoveFinalizer
<1>15. CASE Users \/ Controllers
  BY <1>15, OthersLeaveThePass
<1>16. CASE Terminated
  BY <1>16 DEF Terminated, vars
<1> QED
  BY <1>3, <1>4, <1>5, <1>6, <1>7, <1>8, <1>9, <1>10, <1>11, <1>12, <1>13, <1>14,
     <1>15, <1>16 DEF Next, Handler, FaultyHandler

(* A Delete pass goes past its guard only after it listed every kind of     *)
(* metric and found no instance of it (checker.go, BlockingKinds).          *)
THEOREM GuardSoundAlways == Spec => []GuardSound
<1>1. Init => TypeOK /\ GuardInv
  BY InitTyped DEF Init, GuardInv, GuardProgress, GuardSound
<1>2. TypeOK /\ GuardInv /\ [Next]_vars => (TypeOK /\ GuardInv)'
  BY TypeOKNext, GuardNext DEF vars, GuardInv, GuardProgress, GuardSound
<1>3. GuardInv => GuardSound
  BY DEF GuardInv
<1> QED
  BY <1>1, <1>2, <1>3, PTL DEF Spec
=============================================================================
