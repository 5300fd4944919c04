--------------------------- MODULE CleanupProofs ---------------------------
(***************************************************************************)
(* What the orphan cleaners of Reconciler leave and spare, and in which     *)
(* order a teardown removes things, for every value of the constants.       *)
(***************************************************************************)
EXTENDS ReconcilerProofs

----------------------------------------------------------------------------
(* Facts about the inventory.                                               *)

(* The members of the list a pass walks through.                            *)
LEMMA InventoryMembers ==
    ASSUME NEW d \in Desired, NEW o
    PROVE  InInventory(d, o) <=>
              \/ o \in {OCIRepository, HelmRelease, InstanceNamespace, ClusterRoleBinding,
                        CpNamespace(d.namespace), ServiceAccount(d.namespace)}
              \/ o \in Keep(d)
<1> DEFINE P == PlatformObjects(d)
           W == WorkloadObjects(d)
           C == ControlPlaneObjects(d)
           In(s) == \E i \in 1..Len(s) : s[i] = o
<1>1. P \in Seq(OwnObject) /\ W \in Seq(OwnObject) /\ C \in Seq(OwnObject)
  BY PlatformType, WorkloadType, ControlPlaneType
<1>2. ManagedObjects(d) = P \o W \o C
  BY DEF ManagedObjects
<1>3. ASSUME NEW S, NEW s \in Seq(S), NEW t \in Seq(S)
      PROVE  In(s \o t) <=> In(s) \/ In(t)
  <2>1. /\ Len(s) \in Nat /\ Len(t) \in Nat /\ Len(s \o t) = Len(s) + Len(t)
        /\ \A i \in 1..Len(s) : (s \o t)[i] = s[i]
        /\ \A i \in 1..Len(t) : (s \o t)[Len(s) + i] = t[i]
    OBVIOUS
  <2>2. ASSUME NEW i \in 1..Len(s \o t), (s \o t)[i] = o PROVE In(s) \/ In(t)
    <3>1. CASE i <= Len(s)
      BY <2>1, <2>2, <3>1
    <3>2. CASE ~(i <= Len(s))
      <4>1. i - Len(s) \in 1..Len(t) /\ i = Len(s) + (i - Len(s))
        BY <2>1, <3>2
      <4> QED
        BY <2>1, <2>2, <4>1
    <3> QED
      BY <3>1, <3>2
  <2>3. ASSUME NEW i \in 1..Len(s), s[i] = o PROVE In(s \o t)
    BY <2>1, <2>3
  <2>4. ASSUME NEW i \in 1..Len(t), t[i] = o PROVE In(s \o t)
    <3>1. Len(s) + i \in 1..Len(s \o t)
      BY <2>1
    <3> QED
      BY <2>1, <2>4, <3>1
  <2> QED
    BY <2>2, <2>3, <2>4
<1>4. In(P) <=> \/ o \in {OCIRepository, HelmRelease}
                \/ d.chart # NoSecret /\ o = ChartSecret(d.chart)
  <2>1. CASE d.chart = NoSecret
    <3>1. P = <<OCIRepository, HelmRelease>>
      BY <2>1 DEF PlatformObjects
    <3> HIDE DEF P
    <3> QED
      BY <2>1, <3>1
  <2>2. CASE d.chart # NoSecret
    <3> DEFINE copy == <<ChartSecret(d.chart)>>
               flux == <<OCIRepository, HelmRelease>>
    <3>1. P = copy \o flux
      BY <2>2 DEF PlatformObjects
    <3>2. copy \in Seq(OwnObject) /\ flux \in Seq(OwnObject)
      BY <2>2 DEF OwnObject, Desired
    <3>3. In(copy) <=> o = ChartSecret(d.chart)
      OBVIOUS
    <3>4. In(flux) <=> o \in {OCIRepository, HelmRelease}
      OBVIOUS
    <3> HIDE DEF P, copy, flux, In
    <3>5. In(P) <=> In(copy) \/ In(flux)
      BY <1>3, <3>1, <3>2
    <3> QED
      BY <2>2, <3>3, <3>4, <3>5
  <2> QED
    BY <2>1, <2>2
<1>5. In(C) <=> o \in {CpNamespace(d.namespace), ServiceAccount(d.namespace),
                       ClusterRoleBinding}
  BY DEF ControlPlaneObjects
<1>6. In(W) <=> \/ o \in {InstanceNamespace, TokenSecret}
                \/ \E i \in 1..Len(d.images) : o = ImageSecret(d.images[i])
                \/ d.ca /\ o = CaConfigMap
  <2> DEFINE head   == <<InstanceNamespace, TokenSecret>>
             images == [i \in 1..Len(d.images) |-> ImageSecret(d.images[i])]
             ca     == IF d.ca THEN <<CaConfigMap>> ELSE << >>
  <2>1. d.images \in Seq(SecretName) /\ d.ca \in BOOLEAN
    BY DEF Desired
  <2>2. images \in Seq(OwnObject) /\ head \in Seq(OwnObject)
    BY <2>1 DEF OwnObject
  <2>3. Len(images) = Len(d.images)
    BY <2>1
  <2>4. ca \in Seq(OwnObject) /\ (In(ca) <=> d.ca /\ o = CaConfigMap)
    <3>1. CASE d.ca
      <4>1. ca = <<CaConfigMap>> /\ CaConfigMap \in OwnObject
        BY <3>1 DEF OwnObject
      <4> HIDE DEF ca
      <4> QED
        BY <3>1, <4>1
    <3>2. CASE ~d.ca
      <4>1. ca = << >>
        BY <3>2
      <4> HIDE DEF ca
      <4> QED
        BY <3>2, <4>1
    <3> QED
      BY <3>1, <3>2
  <2>5. In(head) <=> o \in {InstanceNamespace, TokenSecret}
    OBVIOUS
  <2>6. In(images) <=> \E i \in 1..Len(d.images) : o = ImageSecret(d.images[i])
    BY <2>3
  <2>7. W = head \o images \o ca
    BY DEF WorkloadObjects
  <2>8. head \o images \in Seq(OwnObject)
    BY <2>2
  <2> HIDE DEF head, images, ca, W, In
  <2>9. In(W) <=> In(head) \/ In(images) \/ In(ca)
    BY <1>3, <2>2, <2>4, <2>7, <2>8
  <2> QED
    BY <2>4, <2>5, <2>6, <2>9
<1>7. In(ManagedObjects(d)) <=> In(P) \/ In(W) \/ In(C)
  <2>1. P \o W \in Seq(OwnObject)
    BY <1>1
  <2>2. In(ManagedObjects(d)) <=> In(P \o W \o C)
    BY <1>2
  <2> HIDE DEF P, W, C, In
  <2>3. In(P \o W) <=> In(P) \/ In(W)
    BY <1>1, <1>3
  <2>4. In(P \o W \o C) <=> In(P \o W) \/ In(C)
    BY <1>1, <1>3, <2>1
  <2> QED
    BY <2>2, <2>3, <2>4
<1>8. InInventory(d, o) <=> In(ManagedObjects(d))
  BY DEF InInventory
<1> HIDE DEF P, W, C, In
<1> QED
  BY <1>4, <1>5, <1>6, <1>7, <1>8 DEF Keep, CopiesToKeep

LEMMA InventoryOwned ==
    ASSUME NEW d \in Desired, NEW o, InInventory(d, o)
    PROVE  o \in OwnObject
BY InventoryType DEF InInventory

(* The names registered for the cleaners are all that a version calls for   *)
(* among the objects the cleaners reach.                                    *)
LEMMA KeepIsComplete ==
    ASSUME NEW d \in Desired, NEW o \in Swept
    PROVE  InInventory(d, o) <=> o \in Keep(d)
<1>1. o.kind \in {"Secret", "ConfigMap"}
  BY DEF Swept
<1>2. o \notin {OCIRepository, HelmRelease, InstanceNamespace, ClusterRoleBinding,
                CpNamespace(d.namespace), ServiceAccount(d.namespace)}
  BY <1>1 DEF OCIRepository, HelmRelease, InstanceNamespace, ClusterRoleBinding,
              CpNamespace, ServiceAccount, Obj
<1> QED
  BY <1>2, InventoryMembers

(* Between them the cleaners reach every secret and config map of the       *)
(* provider outside the ControlPlane.                                       *)
LEMMA ScopesCover ==
    ASSUME NEW o \in Swept \cap OwnObject
    PROVE  \E i \in 1..NumCleaners : o \in CleanerScope(i)
<1>1. o \in Object /\ o.kind \in {"Secret", "ConfigMap"}
      /\ o.cluster \in {"Platform", "Workload"}
  BY DEF Swept
<1>2. ~(o.cluster = "Platform" /\ o.kind = "ConfigMap")
  BY DEF OwnObject, OCIRepository, HelmRelease, InstanceNamespace, TokenSecret, CaConfigMap,
         ClusterRoleBinding, ChartSecret, ImageSecret, CpNamespace, ServiceAccount, Obj
<1>3. 1 \in 1..NumCleaners /\ 2 \in 1..NumCleaners /\ 3 \in 1..NumCleaners
  BY DEF NumCleaners
<1> QED
  BY <1>1, <1>2, <1>3 DEF CleanerScope

LEMMA ScopesSwept ==
    ASSUME NEW i, NEW o \in CleanerScope(i)
    PROVE  o \in Swept /\ o \in Object /\ ~HasFinalizer(o)
BY DEF CleanerScope, Swept, HasFinalizer

----------------------------------------------------------------------------
(* What others own.  A cleaner lists by label, so that it deletes nothing   *)
(* of theirs needs that nothing of theirs ever gets the label.              *)

OrphanInv ==
    /\ \A b \in Bystander : ~Managed(b)
    /\ step = "cleaning" => items \subseteq (CleanerScope(idx) \cap OwnObject) \ Keep(Wanted)

LEMMA NamespaceOfBystander ==
    ASSUME NEW b \in Bystander, NEW ns \in ManagedNamespace, IsContentOf(b, ns)
    PROVE  b.cluster = "Workload" /\ ns = InstanceNamespace
<1>1. InstanceNamespace.cluster = "Workload"
  BY DEF InstanceNamespace, Obj
<1>2. ASSUME NEW n \in Namespace, ns = CpNamespace(n), ns # InstanceNamespace PROVE FALSE
  <2>1. b.cluster = "ControlPlane" /\ b.kind = "ServiceAccount" /\ b.name = n
    BY <1>2 DEF IsContentOf, CpNamespace, Obj
  <2>2. b = ServiceAccount(n)
    BY <2>1, BystanderAssumption DEF ServiceAccount
  <2> QED
    BY <2>2, BystanderAssumption DEF OwnObject
<1> QED
  BY <1>1, <1>2 DEF ManagedNamespace, IsContentOf

(* Only Helm, and the namespace they live in, touch the objects of others.  *)
LEMMA WhoTouchesBystanders ==
    ASSUME TypeOK, OrphanInv, Next, NEW b \in Bystander, store'[b] # store[b]
    PROVE  \/ store[b] = "absent" /\ store'[b] = "foreign"
           \/ /\ store'[b] = "absent"
              /\ b.cluster = "Workload" /\ store[InstanceNamespace] = "terminating"
<1> USE SomeObjects DEF TypeOK, ClustersTyped, world
<1>1. b \in Object /\ b \notin OwnObject
  BY BystanderAssumption DEF Object
<1>2. CASE HelmInstalls
  BY <1>1, <1>2 DEF HelmInstalls, Exists
<1>3. ASSUME NEW x \in OwnObject, Vanish(x) PROVE FALSE
  BY <1>1, <1>3 DEF Vanish
<1>4. ASSUME NEW x \in OwnObject, Erase(x) PROVE FALSE
  BY <1>1, <1>3, <1>4 DEF Erase
<1>5. ASSUME NEW x \in OwnObject, NEW r, Write(x, r) PROVE FALSE
  BY <1>1, <1>5 DEF Write
<1>6. step = "objects" /\ idx <= Len(Objects) => Objects[idx] \in OwnObject
  BY ObjectsType DEF PassTyped, WalkInBounds
<1>7. ~ApplyObject /\ ~ApplyObjectFails
  BY <1>5, <1>6 DEF ApplyObject, ApplyObjectFails
<1>8. ~DeleteObject /\ ~DeleteObjectFails
  BY <1>4, <1>6 DEF DeleteObject, DeleteObjectFails
<1>9. ASSUME NEW x, DeleteOrphan(x) \/ DeleteOrphanFails(x) PROVE FALSE
  <2>1. x \in OwnObject
    BY <1>9 DEF DeleteOrphan, DeleteOrphanFails, OrphanInv
  <2> QED
    BY <1>3, <1>9, <2>1 DEF DeleteOrphan, DeleteOrphanFails
<1>10. ASSUME NEW x \in Drifters, Drift(x) PROVE FALSE
  <2>1. x \in OwnObject
    BY ReconcilerAssumption DEF Object
  <2> QED
    BY <1>4, <1>10, <2>1 DEF Drift
<1>11. ASSUME NEW x \in Flux, FluxReady(x) \/ FluxStalls(x) \/ FluxFinalizes(x)
       PROVE FALSE
  BY <1>3, <1>11 DEF FluxReady, FluxStalls, FluxFinalizes, Flux, OwnObject
<1>12. ASSUME NEW ns \in ManagedNamespace, FinalizeNamespace(ns) PROVE FALSE
  BY <1>3, <1>12 DEF FinalizeNamespace, ManagedNamespace, OwnObject
<1>13. ASSUME NEW x \in Object, PurgeContent(x)
       PROVE  /\ store'[b] = "absent"
              /\ b.cluster = "Workload" /\ store[InstanceNamespace] = "terminating"
  <2>1. x = b /\ store'[b] = "absent"
    BY <1>1, <1>13 DEF PurgeContent, Vanish
  <2> QED
    BY <1>13, <2>1, NamespaceOfBystander DEF PurgeContent
<1>14. store' # store
  BY <1>1
<1>15. ASSUME NEW x, \/ ChangeVersion(x) \/ ChangeProviderConfig(x) \/ CreateMetric(x)
                     \/ DeleteMetric(x)
       PROVE FALSE
  BY <1>14, <1>15 DEF ChangeVersion, ChangeProviderConfig, CreateMetric, DeleteMetric
<1>16. /\ ~StartPass /\ ~ListKind /\ ~GuardDecides /\ ~PrepareConflict
       /\ ~PrepareRejected /\ ~PrepareMalformed /\ ~Prepare
       /\ ~ApplyObjectRefused /\ ~DeleteObjectBlocked /\ ~ObjectsDone
       /\ ~ListOrphans /\ ~CleanerDone /\ ~FinishApply /\ ~FinishDelete
       /\ ~RemoveFinalizer
  BY <1>14 DEF StartPass, ListKind, GuardDecides, PrepareConflict, PrepareRejected,
     PrepareMalformed, Prepare, ApplyObjectRefused, DeleteObjectBlocked, ObjectsDone,
     ListOrphans, CleanerDone, FinishApply, FinishDelete, RemoveFinalizer
<1>17. /\ ~ListKindFails /\ ~PrepareFails /\ ~ListOrphansFails /\ ~Crash
       /\ ~RequestDeletion /\ ~Terminated
  BY <1>14 DEF ListKindFails, PrepareFails, ListOrphansFails, Crash, RequestDeletion,
     Terminated, vars
<1> QED
  BY <1>2, <1>7, <1>8, <1>9, <1>10, <1>11, <1>12, <1>13, <1>15, <1>16, <1>17
     DEF Next, Handler, FaultyHandler, Users, Controllers

LEMMA OrphanNext ==
    ASSUME TypeOK, OrphanInv, Next
    PROVE  OrphanInv'
<1>1. ASSUME NEW b \in Bystander PROVE ~Managed(b)'
  BY <1>1, WhoTouchesBystanders DEF OrphanInv, Managed
<1>2. step' = "cleaning" => items' \subseteq (CleanerScope(idx') \cap OwnObject) \ Keep(Wanted')
  <2> SUFFICES ASSUME step' = "cleaning"
               PROVE  items' \subseteq (CleanerScope(idx') \cap OwnObject) \ Keep(Wanted')
    OBVIOUS
  <2> USE DEF OrphanInv, world, EndPass
  <2>1. CASE ListOrphans
    <3>1. Wanted' = Wanted /\ idx' = idx /\ items' = Orphans(idx)
      BY <2>1, SamePass DEF ListOrphans
    <3>2. ASSUME NEW o \in Orphans(idx)
          PROVE  o \in (CleanerScope(idx) \cap OwnObject) \ Keep(Wanted)
      BY <3>2 DEF Orphans, CleanerScope, Object
    <3> QED
      BY <3>1, <3>2
  <2>2. ASSUME NEW o \in Swept, DeleteOrphan(o) \/ DeleteOrphanFails(o)
        PROVE  items' \subseteq (CleanerScope(idx') \cap OwnObject) \ Keep(Wanted')
    BY <2>2, SamePass DEF DeleteOrphan, DeleteOrphanFails
  <2>3. CASE Users \/ Controllers
    BY <2>3, OthersLeaveThePass, SnapshotFrame
  <2>4. CASE Terminated
    BY <2>4, SamePass DEF Terminated, vars
  <2>5. /\ ~StartPass /\ ~ListKind /\ ~GuardDecides /\ ~PrepareConflict
        /\ ~PrepareRejected /\ ~PrepareMalformed /\ ~Prepare
    BY DEF StartPass, ListKind, GuardDecides, PrepareConflict, PrepareRejected,
           PrepareMalformed, Prepare
  <2>6. /\ ~ApplyObject /\ ~ApplyObjectRefused /\ ~DeleteObject
        /\ ~DeleteObjectBlocked /\ ~ObjectsDone /\ ~CleanerDone /\ ~FinishApply
        /\ ~FinishDelete /\ ~RemoveFinalizer
    BY DEF ApplyObject, ApplyObjectRefused, DeleteObject, DeleteObjectBlocked, ObjectsDone,
           CleanerDone, FinishApply, FinishDelete, RemoveFinalizer
  <2>7. /\ ~ListKindFails /\ ~PrepareFails /\ ~ApplyObjectFails /\ ~DeleteObjectFails
        /\ ~ListOrphansFails /\ ~Crash
    BY DEF ListKindFails, PrepareFails, ApplyObjectFails, DeleteObjectFails,
           ListOrphansFails, Crash
  <2> QED
    BY <2>1, <2>2, <2>3, <2>4, <2>5, <2>6, <2>7 DEF Next, Handler, FaultyHandler
<1> QED
  BY <1>1, <1>2 DEF OrphanInv

LEMMA OrphanInit == Init => OrphanInv
<1> SUFFICES ASSUME Init, NEW b \in Bystander PROVE ~Managed(b)
  BY DEF Init, OrphanInv
<1>1. store[b] \in {"foreign", "absent"}
  BY DEF Init, Object
<1> QED
  BY <1>1 DEF Managed

(* No object of another owner gets the label, and what a cleaner is about   *)
(* to delete is the provider's own, from its namespace, and not to be kept. *)
THEOREM OrphanInvAlways == Spec => [](TypeOK /\ OrphanInv)
<1>1. Init => TypeOK /\ OrphanInv
  BY InitTyped, OrphanInit
<1>2. TypeOK /\ OrphanInv /\ [Next]_vars => (TypeOK /\ OrphanInv)'
  <2> SUFFICES ASSUME TypeOK, OrphanInv, [Next]_vars
               PROVE  TypeOK' /\ OrphanInv'
    OBVIOUS
  <2>1. CASE Next
    BY <2>1, TypeOKNext, OrphanNext
  <2>2. CASE UNCHANGED vars
    BY <2>2, TypeOKNext, SamePass DEF vars, OrphanInv, Managed
  <2> QED
    BY <2>1, <2>2
<1> QED
  BY <1>1, <1>2, PTL DEF Spec

(* The objects of other owners in the tenant and instance namespaces are    *)
(* never adopted, changed or removed by a pass: the label the cleaners list *)
(* by (secret.go, configmap.go) never gets on them.                         *)
THEOREM BystandersSparedAlways == Spec => BystandersSpared
<1>1. TypeOK /\ OrphanInv /\ [Next]_vars =>
        [ \A o \in Bystander :
            store[o] = "foreign" /\ store'[o] # "foreign" =>
                /\ o.cluster = "Workload"
                /\ store[InstanceNamespace] = "terminating" ]_vars
  BY WhoTouchesBystanders DEF vars
<1> QED
  BY <1>1, OrphanInvAlways, PTL DEF Spec, BystandersSpared

(* A cleaner never removes an object the version of the pass calls for: the *)
(* names to keep that createObjectManager hands to the three cleaners are   *)
(* complete, the token secret included.                                     *)
THEOREM CleanersSpareInventoryAlways == Spec => CleanersSpareInventory
<1>1. ASSUME TypeOK, OrphanInv, NEW o \in Swept, DeleteOrphan(o)
      PROVE  ~InInventory(Wanted, o)
  <2>1. o \in items /\ step = "cleaning" /\ Wanted \in Desired
    BY <1>1 DEF DeleteOrphan, TypeOK, WalkInBounds
  <2> QED
    BY <1>1, <2>1, KeepIsComplete DEF OrphanInv
<1>2. TypeOK /\ OrphanInv /\ [Next]_vars =>
        [ \A o \in Swept : DeleteOrphan(o) /\ store'[o] # store[o] =>
            ~InInventory(Wanted, o) ]_vars
  BY <1>1
<1> QED
  BY <1>2, OrphanInvAlways, PTL DEF Spec, CleanersSpareInventory

----------------------------------------------------------------------------
(* NoManagedCopyLeft.  Like InventoryGone it is about answers got one after *)
(* the other: the invariant says that what the cleaners of a Delete pass    *)
(* have been through is clean and stays clean, that what the running one    *)
(* has still to delete is all that is left in its namespace, and that what  *)
(* it keeps is gone already, because the walk through the objects came      *)
(* first.                                                                   *)

CleanUpTo(n) == \A i \in 1..n : \A o \in CleanerScope(i) : ~Managed(o)

CleanupProgress ==
    pass.deleting /\ tally.allDeleted /\ ~tally.err =>
        /\ step \in {"cleaners", "cleaning"} => CleanUpTo(idx - 1)
        /\ step = "cleaning" => \A o \in CleanerScope(idx) : Managed(o) => o \in items
        /\ step = "finish" => CleanUpTo(NumCleaners)

CleanAtTheEnd ==
    step \in {"finalize", "done"} /\ Wanted \in Desired /\ ~tally.err => CleanUpTo(NumCleaners)

CleanupInv == CleanupProgress /\ CleanAtTheEnd

(* Only Apply makes a copy.                                                 *)
LEMMA WhoCopies ==
    ASSUME TypeOK, Next, NEW o \in Swept, ~Managed(o), Managed(o)'
    PROVE  ApplyObject \/ ApplyObjectFails
<1> USE SomeObjects DEF TypeOK, ClustersTyped, world
<1>1. o \in Object /\ store'[o] # store[o] /\ store'[o] \in {"live", "terminating"}
  BY DEF Managed
<1>2. CASE HelmInstalls
  BY <1>1, <1>2 DEF HelmInstalls
<1>3. ASSUME NEW x, Vanish(x) PROVE FALSE
  BY <1>1, <1>3 DEF Vanish
<1>4. ASSUME NEW x, Erase(x) PROVE FALSE
  <2>1. ~HasFinalizer(o)
    BY DEF Swept, HasFinalizer
  <2> QED
    BY <1>1, <1>3, <1>4, <2>1 DEF Erase
<1>5. ~DeleteObject /\ ~DeleteObjectFails
  BY <1>1, <1>4 DEF DeleteObject, DeleteObjectFails
<1>6. ASSUME NEW x, DeleteOrphan(x) \/ DeleteOrphanFails(x) PROVE FALSE
  BY <1>1, <1>3, <1>6 DEF DeleteOrphan, DeleteOrphanFails
<1>7. ASSUME NEW x, Drift(x) PROVE FALSE
  BY <1>4, <1>7 DEF Drift
<1>8. ASSUME NEW x, \/ FluxReady(x) \/ FluxStalls(x) \/ FluxFinalizes(x)
                    \/ PurgeContent(x) \/ FinalizeNamespace(x)
      PROVE FALSE
  BY <1>1, <1>3, <1>8
     DEF FluxReady, FluxStalls, FluxFinalizes, PurgeContent, FinalizeNamespace
<1>9. store' # store
  BY <1>1
<1>10. ASSUME NEW x, \/ ChangeVersion(x) \/ ChangeProviderConfig(x) \/ CreateMetric(x)
                     \/ DeleteMetric(x)
       PROVE FALSE
  BY <1>9, <1>10 DEF ChangeVersion, ChangeProviderConfig, CreateMetric, DeleteMetric
<1>11. /\ ~StartPass /\ ~ListKind /\ ~GuardDecides /\ ~PrepareConflict
       /\ ~PrepareRejected /\ ~PrepareMalformed /\ ~Prepare
       /\ ~ApplyObjectRefused /\ ~DeleteObjectBlocked /\ ~ObjectsDone
       /\ ~ListOrphans /\ ~CleanerDone /\ ~FinishApply /\ ~FinishDelete
       /\ ~RemoveFinalizer
  BY <1>9 DEF StartPass, ListKind, GuardDecides, PrepareConflict, PrepareRejected,
     PrepareMalformed, Prepare, ApplyObjectRefused, DeleteObjectBlocked, ObjectsDone,
     ListOrphans, CleanerDone, FinishApply, FinishDelete, RemoveFinalizer
<1>12. /\ ~ListKindFails /\ ~PrepareFails /\ ~ListOrphansFails /\ ~Crash
       /\ ~RequestDeletion /\ ~Terminated
  BY <1>9 DEF ListKindFails, PrepareFails, ListOrphansFails, Crash, RequestDeletion,
     Terminated, vars
<1> QED
  BY <1>2, <1>5, <1>6, <1>7, <1>8, <1>10, <1>11, <1>12
     DEF Next, Handler, FaultyHandler, Users, Controllers

LEMMA StaysClean ==
    ASSUME TypeOK, Next, ~ApplyObject, ~ApplyObjectFails, NEW n, CleanUpTo(n)
    PROVE  CleanUpTo(n)'
BY WhoCopies, ScopesSwept DEF CleanUpTo

LEMMA CleanupNext ==
    ASSUME TypeOK, TeardownInv, CleanupInv, Next
    PROVE  CleanupInv'
<1> USE DEF TypeOK, PassTyped, WalkInBounds, CleanupInv, CleanupProgress, CleanAtTheEnd,
            EndPass, world
<1>1. ASSUME step' \in {"idle", "guard", "prepare", "objects"} PROVE CleanupInv'
  BY <1>1
<1>2. CASE StartPass
  BY <1>1, <1>2 DEF StartPass
<1>3. CASE ListKind
  BY <1>1, <1>3 DEF ListKind
<1>4. CASE GuardDecides
  BY <1>1, <1>4 DEF GuardDecides
<1>5. CASE PrepareConflict \/ PrepareMalformed \/ Prepare
  BY <1>1, <1>5 DEF PrepareConflict, PrepareMalformed, Prepare
<1>6. CASE PrepareRejected
  BY <1>6, SamePass, ValueAssumption DEF PrepareRejected
<1>7. CASE ApplyObject \/ ApplyObjectRefused \/ ApplyObjectFails
  BY <1>1, <1>7 DEF ApplyObject, ApplyObjectRefused, ApplyObjectFails
<1>8. CASE DeleteObject \/ DeleteObjectBlocked \/ DeleteObjectFails
  BY <1>1, <1>8 DEF DeleteObject, DeleteObjectBlocked, DeleteObjectFails
<1>9. CASE ObjectsDone
  BY <1>9 DEF ObjectsDone, CleanUpTo
<1>10. CASE ListOrphans
  <2> SUFFICES ASSUME pass.deleting, tally.allDeleted, ~tally.err
               PROVE  /\ CleanUpTo(idx - 1)'
                      /\ \A o \in CleanerScope(idx) : Managed(o)' => o \in items'
    BY <1>10, SamePass DEF ListOrphans
  <2>1. step = "cleaners" /\ UNCHANGED <<store, pass, idx>> /\ items' = Orphans(idx)
    BY <1>10 DEF ListOrphans
  <2>2. CleanUpTo(idx - 1)'
    BY <2>1 DEF CleanUpTo, Managed
  <2>3. ASSUME NEW o \in CleanerScope(idx), Managed(o), o \in Keep(Wanted) PROVE FALSE
    <3>1. o \in Swept /\ Wanted \in Desired
      BY <2>1, ScopesSwept
    <3>2. PICK i \in 1..Len(Objects) : Objects[i] = o
      BY <2>3, <3>1, KeepIsComplete DEF InInventory, Objects
    <3>3. store[Objects[i]] = "absent"
      BY <2>1 DEF TeardownInv, WalkProgress, AbsentUpTo
    <3> QED
      BY <2>3, <3>2, <3>3 DEF Managed
  <2>4. \A o \in CleanerScope(idx) : Managed(o)' => o \in items'
    BY <2>1, <2>3 DEF Orphans, Managed
  <2> QED
    BY <2>2, <2>4
<1>11. CASE ListOrphansFails
  BY <1>11, SamePass DEF ListOrphansFails, Tally
<1>12. ASSUME NEW x \in Swept, DeleteOrphan(x) PROVE CleanupInv'
  <2> SUFFICES ASSUME pass.deleting, tally.allDeleted, ~tally.err
               PROVE  /\ CleanUpTo(idx - 1)'
                      /\ \A o \in CleanerScope(idx) : Managed(o)' => o \in items'
    BY <1>12, SamePass DEF DeleteOrphan
  <2>1. step = "cleaning" /\ items' = items \ {x} /\ ~ApplyObject /\ ~ApplyObjectFails
    BY <1>12 DEF DeleteOrphan, ApplyObject, ApplyObjectFails
  <2>2. CleanUpTo(idx - 1)'
    <3>1. \A n : CleanUpTo(n) => CleanUpTo(n)'
      BY <2>1, StaysClean
    <3> QED
      BY <1>12, <3>1 DEF CleanUpTo, DeleteOrphan
  <2>3. ~Managed(x)'
    BY <1>12, SomeObjects DEF DeleteOrphan, Vanish, Managed, Exists, ClustersTyped
  <2>4. ASSUME NEW o \in CleanerScope(idx), Managed(o)' PROVE o \in items'
    <3>1. Managed(o)
      BY <2>1, <2>4, WhoCopies, ScopesSwept
    <3> QED
      BY <2>1, <2>3, <2>4, <3>1
  <2> QED
    BY <2>2, <2>4
<1>13. ASSUME NEW x \in Swept, DeleteOrphanFails(x) PROVE CleanupInv'
  BY <1>13 DEF DeleteOrphanFails, TallyOrphanFailure, Tally
<1>14. CASE CleanerDone
  <2>1. /\ step = "cleaning" /\ items = {} /\ UNCHANGED <<store, tally, pass>>
        /\ idx' = idx + 1 /\ Wanted' = Wanted
        /\ step' \in {"cleaners", "finish"}
        /\ step' = "finish" => idx = NumCleaners
    BY <1>14, SamePass DEF CleanerDone, MoreCleaners, NumCleaners
  <2>2. CASE pass.deleting /\ tally.allDeleted /\ ~tally.err
    <3>1. CleanUpTo(idx)
      BY <2>1, <2>2 DEF CleanUpTo
    <3>2. CleanUpTo(idx - 1)'
      BY <2>1, <3>1 DEF CleanUpTo, Managed
    <3>3. step' = "finish" => CleanUpTo(NumCleaners)'
      BY <2>1, <3>1 DEF CleanUpTo, Managed
    <3> QED
      BY <2>1, <3>2, <3>3
  <2>3. CASE ~(pass.deleting /\ tally.allDeleted /\ ~tally.err)
    BY <2>1, <2>3
  <2> QED
    BY <2>2, <2>3
<1>15. CASE FinishApply
  BY <1>1, <1>15 DEF FinishApply
<1>16. CASE FinishDelete
  BY <1>16, SamePass DEF FinishDelete, CleanUpTo, Managed
<1>17. CASE RemoveFinalizer
  BY <1>17, SamePass DEF RemoveFinalizer, CleanUpTo, Managed
<1>18. CASE ListKindFails \/ PrepareFails \/ Crash
  BY <1>1, <1>18 DEF ListKindFails, PrepareFails, Crash
<1>19. CASE Users \/ Controllers
  <2>1. /\ UNCHANGED <<step, idx, tally, items>>
        /\ pass'.deleting = pass.deleting /\ Wanted' = Wanted
    BY <1>19, OthersLeaveThePass, SnapshotFrame
  <2>2. ~ApplyObject /\ ~ApplyObjectFails
    BY <2>1 DEF ApplyObject, ApplyObjectFails, AfterError
  <2>3. \A n : CleanUpTo(n) => CleanUpTo(n)'
    BY <2>2, StaysClean
  <2>4. CleanUpTo(idx - 1) => CleanUpTo(idx - 1)'
    BY <2>1, <2>3 DEF CleanUpTo
  <2>5. CleanUpTo(NumCleaners) => CleanUpTo(NumCleaners)'
    BY <2>3
  <2>6. \A o \in CleanerScope(idx) : Managed(o)' => Managed(o)
    BY <2>2, WhoCopies, ScopesSwept
  <2> QED
    BY <2>1, <2>4, <2>5, <2>6
<1>20. CASE Terminated
  BY <1>20, SamePass DEF Terminated, vars, CleanUpTo, Managed
<1> QED
  BY <1>2, <1>3, <1>4, <1>5, <1>6, <1>7, <1>8, <1>9, <1>10, <1>11, <1>12, <1>13, <1>14,
     <1>15, <1>16, <1>17, <1>18, <1>19, <1>20 DEF Next, Handler, FaultyHandler

(* When the finalizer is gone and the last pass could list, no copy of a    *)
(* pull secret or CA bundle is left that this or any earlier version of the *)
(* resource needed (secret.go, configmap.go, Cleanup).                      *)
THEOREM NoManagedCopyLeftAlways == Spec => []NoManagedCopyLeft
<1>1. Init => TypeOK /\ TeardownInv /\ CleanupInv
  BY InitTyped, TeardownInit DEF Init, CleanupInv, CleanupProgress, CleanAtTheEnd
<1>2. TypeOK /\ TeardownInv /\ CleanupInv /\ [Next]_vars
        => (TypeOK /\ TeardownInv /\ CleanupInv)'
  <2> SUFFICES ASSUME TypeOK, TeardownInv, CleanupInv, [Next]_vars
               PROVE  TypeOK' /\ TeardownInv' /\ CleanupInv'
    OBVIOUS
  <2>1. CASE Next
    BY <2>1, TypeOKNext, TeardownNext, CleanupNext
  <2>2. CASE UNCHANGED vars
    <3>1. Wanted' = Wanted /\ Objects' = Objects
      BY <2>2, SamePass DEF vars
    <3>2. TeardownInv'
      BY <2>2, <3>1 DEF vars, TeardownInv, WalkProgress, FinalizeLast, AbsentUpTo
    <3>3. CleanupInv'
      BY <2>2, <3>1 DEF vars, CleanupInv, CleanupProgress, CleanAtTheEnd, CleanUpTo, Managed
    <3> QED
      BY <2>2, <3>2, <3>3, TypeOKNext
  <2> QED
    BY <2>1, <2>2
<1>3. TypeOK /\ OrphanInv /\ TeardownInv /\ CleanupInv => NoManagedCopyLeft
  <2> SUFFICES ASSUME OrphanInv, TeardownInv, CleanupInv, mo.gone, Wanted \in Desired,
                      ~tally.err, NEW o \in Swept, Managed(o)
               PROVE  FALSE
    BY DEF NoManagedCopyLeft
  <2>1. step = "done"
    BY DEF TeardownInv, FinalizeLast
  <2>2. o \in OwnObject
    BY DEF OrphanInv, Swept, Object
  <2>3. PICK i \in 1..NumCleaners : o \in CleanerScope(i)
    BY <2>2, ScopesCover
  <2> QED
    BY <2>1, <2>3 DEF CleanupInv, CleanAtTheEnd, CleanUpTo
<1> QED
  BY <1>1, <1>2, <1>3, OrphanInvAlways, PTL DEF Spec

----------------------------------------------------------------------------
(* TeardownOrder.  A namespace takes what is in it with it, whatever        *)
(* depends on that: so a namespace of the ControlPlane must not be deleted  *)
(* before its service account is gone, and must not get one afterwards.     *)

(* Nobody but the controller deletes namespaces of the ControlPlane.        *)
NamespacesLeftAlone == \A n \in Namespace : CpNamespace(n) \notin Drifters

NamespacesLast ==
    \A n \in Namespace :
        store[CpNamespace(n)] = "terminating" => store[ServiceAccount(n)] = "absent"

LEMMA DependentsOf ==
    ASSUME NEW d \in Desired
    PROVE  /\ HelmRelease \in Dependents(d, OCIRepository)
           /\ TokenSecret \in Dependents(d, ServiceAccount(d.namespace))
           /\ ServiceAccount(d.namespace) \in Dependents(d, CpNamespace(d.namespace))
<1>1. ASSUME NEW p, NEW q, <<p, q>> \in DependsOn(d.namespace)
      PROVE  p \in Dependents(d, q)
  <2> DEFINE e == <<p, q>>
  <2>1. e[1] = p /\ e[2] = q
    OBVIOUS
  <2> HIDE DEF e
  <2>2. e \in {x \in DependsOn(d.namespace) : x[2] = q}
    BY <1>1, <2>1 DEF e
  <2> QED
    BY <2>1, <2>2 DEF Dependents
<1> QED
  BY <1>1 DEF DependsOn

(* The objects of a namespace a pass can visit are those of its version.    *)
LEMMA NamespaceVisited ==
    ASSUME NEW d \in Desired, NEW n \in Namespace,
           InInventory(d, CpNamespace(n)) \/ InInventory(d, ServiceAccount(n))
    PROVE  n = d.namespace
<1> DEFINE o == IF InInventory(d, CpNamespace(n)) THEN CpNamespace(n) ELSE ServiceAccount(n)
<1>1. o.cluster = "ControlPlane" /\ o.name = n /\ o.kind \in {"Namespace", "ServiceAccount"}
  BY DEF CpNamespace, ServiceAccount, Obj
<1>2. o \notin Keep(d)
  BY <1>1 DEF Keep, CopiesToKeep, CaConfigMap, ImageSecret, ChartSecret, TokenSecret, Obj
<1>3. o \notin {OCIRepository, HelmRelease, InstanceNamespace, ClusterRoleBinding}
  BY <1>1 DEF OCIRepository, HelmRelease, InstanceNamespace, ClusterRoleBinding, Obj
<1>4. InInventory(d, o)
  OBVIOUS
<1>5. o \in {CpNamespace(d.namespace), ServiceAccount(d.namespace)}
  BY <1>2, <1>3, <1>4, InventoryMembers
<1> QED
  BY <1>1, <1>5 DEF CpNamespace, ServiceAccount, Obj

(* What a step that lets go of an object of the provider was.               *)
LEMMA WhoLetsGo ==
    ASSUME TypeOK, Next, NEW o \in OwnObject, o \notin Swept,
           store'[o] # store[o],
           store[o] = "live" \/ store'[o] \in {"absent", "terminating"}
    PROVE  \/ /\ DeleteObject \/ DeleteObjectFails
              /\ InInventory(Wanted, o) /\ Wanted \in Desired /\ ~Blocked(o)
           \/ \E x \in Drifters : Drift(x) /\ x = o
           \/ store[o] = "terminating" /\ store'[o] = "absent"
           \/ \E ns \in ManagedNamespace : IsContentOf(o, ns) /\ store[ns] = "terminating"
<1> USE SomeObjects DEF TypeOK, ClustersTyped, world
<1>1. o \in Object
  OBVIOUS
<1>2. ~HelmInstalls
  BY <1>1 DEF HelmInstalls, Exists
<1>3. ASSUME NEW x, Vanish(x) PROVE x = o
  BY <1>1, <1>3 DEF Vanish
<1>4. ASSUME NEW x, Erase(x) PROVE x = o
  BY <1>1, <1>3, <1>4 DEF Erase
<1>5. ASSUME NEW x, NEW r, Write(x, r) PROVE FALSE
  BY <1>1, <1>5 DEF Write
<1>6. ~ApplyObject /\ ~ApplyObjectFails
  BY <1>5 DEF ApplyObject, ApplyObjectFails
<1>7. CASE DeleteObject \/ DeleteObjectFails
  <2>1. /\ step = "objects" /\ idx \in 1..Len(Objects) /\ Wanted \in Desired
        /\ ~Blocked(Objects[idx]) /\ Erase(Objects[idx])
    BY <1>1, <1>7 DEF DeleteObject, DeleteObjectFails, PassTyped, WalkInBounds
  <2>2. Objects[idx] = o
    BY <1>4, <2>1
  <2> QED
    BY <1>7, <2>1, <2>2 DEF InInventory, Objects
<1>8. ASSUME NEW x \in Swept, DeleteOrphan(x) \/ DeleteOrphanFails(x) PROVE FALSE
  BY <1>1, <1>3, <1>8 DEF DeleteOrphan, DeleteOrphanFails
<1>9. ASSUME NEW x \in Drifters, Drift(x) PROVE x = o
  BY <1>4, <1>9 DEF Drift
<1>10. ASSUME NEW x, FluxReady(x) \/ FluxStalls(x) PROVE FALSE
  BY <1>10 DEF FluxReady, FluxStalls
<1>11. ASSUME NEW x, FluxFinalizes(x) \/ FinalizeNamespace(x)
       PROVE  store[o] = "terminating" /\ store'[o] = "absent"
  BY <1>1, <1>3, <1>11 DEF FluxFinalizes, FinalizeNamespace, Vanish
<1>12. ASSUME NEW x, PurgeContent(x)
       PROVE  \E ns \in ManagedNamespace : IsContentOf(o, ns) /\ store[ns] = "terminating"
  BY <1>3, <1>12 DEF PurgeContent
<1>13. store' # store
  BY <1>1
<1>14. ASSUME NEW x, \/ ChangeVersion(x) \/ ChangeProviderConfig(x) \/ CreateMetric(x)
                     \/ DeleteMetric(x)
       PROVE FALSE
  BY <1>13, <1>14 DEF ChangeVersion, ChangeProviderConfig, CreateMetric, DeleteMetric
<1>15. /\ ~StartPass /\ ~ListKind /\ ~GuardDecides /\ ~PrepareConflict
       /\ ~PrepareRejected /\ ~PrepareMalformed /\ ~Prepare
       /\ ~ApplyObjectRefused /\ ~DeleteObjectBlocked /\ ~ObjectsDone
       /\ ~ListOrphans /\ ~CleanerDone /\ ~FinishApply /\ ~FinishDelete
       /\ ~RemoveFinalizer
  BY <1>13 DEF StartPass, ListKind, GuardDecides, PrepareConflict, PrepareRejected,
     PrepareMalformed, Prepare, ApplyObjectRefused, DeleteObjectBlocked, ObjectsDone,
     ListOrphans, CleanerDone, FinishApply, FinishDelete, RemoveFinalizer
<1>16. /\ ~ListKindFails /\ ~PrepareFails /\ ~ListOrphansFails /\ ~Crash
       /\ ~RequestDeletion /\ ~Terminated
  BY <1>13 DEF ListKindFails, PrepareFails, ListOrphansFails, Crash, RequestDeletion,
     Terminated, vars
<1> QED
  BY <1>2, <1>6, <1>7, <1>8, <1>9, <1>10, <1>11, <1>12, <1>14, <1>15, <1>16
     DEF Next, Handler, FaultyHandler, Users, Controllers

(* None of them is in a namespace, except the service account.              *)
LEMMA WhatNamespacesHold ==
    ASSUME NEW ns \in ManagedNamespace, NEW n \in Namespace
    PROVE  /\ ~IsContentOf(OCIRepository, ns) /\ ~IsContentOf(CpNamespace(n), ns)
           /\ IsContentOf(ServiceAccount(n), ns) => ns = CpNamespace(n)
BY DEF IsContentOf, ManagedNamespace, InstanceNamespace, CpNamespace, ServiceAccount,
       OCIRepository, Obj

LEMMA Ordered ==
    ASSUME NEW n \in Namespace
    PROVE  /\ OCIRepository \in OwnObject \ Swept
           /\ ServiceAccount(n) \in OwnObject \ Swept
           /\ CpNamespace(n) \in OwnObject \ Swept
           /\ HelmRelease \in Object /\ TokenSecret \in Object
BY SomeObjects DEF OwnObject, Swept, OCIRepository, ServiceAccount, CpNamespace, Obj

LEMMA NamespacesLastNext ==
    ASSUME NamespacesLeftAlone, TypeOK, NamespacesLast, Next
    PROVE  NamespacesLast'
<1> SUFFICES ASSUME NEW n \in Namespace, store'[CpNamespace(n)] = "terminating",
                    store'[ServiceAccount(n)] # "absent"
             PROVE  FALSE
  BY DEF NamespacesLast
<1> DEFINE ns == CpNamespace(n)
           sa == ServiceAccount(n)
<1>1. /\ ns \in OwnObject \ Swept /\ sa \in OwnObject /\ ns \in ManagedNamespace
      /\ sa # InstanceNamespace /\ ns # sa /\ ns # InstanceNamespace
      /\ IsContentOf(sa, ns)
  BY Ordered DEF ManagedNamespace, ServiceAccount, CpNamespace, InstanceNamespace,
                 IsContentOf, Obj
<1> HIDE DEF ns, sa
<1>2. store'[ns] = "terminating" /\ store'[sa] # "absent"
  BY DEF ns, sa
<1>3. CASE store[ns] = "terminating"
  <2>1. store[sa] = "absent"
    BY <1>3 DEF NamespacesLast, ns, sa
  <2>2. ApplyObject \/ ApplyObjectFails
    BY <1>1, <1>2, <2>1, WhoCreates
  <2>3. ASSUME NEW o, NEW r, Writable(o, r), Write(o, r) PROVE o # sa
    BY <1>1, <1>3, <2>1, <2>3 DEF Writable, HasPlace, Exists
  <2> QED
    BY <1>1, <1>2, <2>1, <2>2, <2>3, SomeObjects
       DEF ApplyObject, ApplyObjectFails, Write, TypeOK, ClustersTyped
<1>4. CASE store[ns] # "terminating"
  <2>1. ns \notin Drifters
    BY DEF NamespacesLeftAlone, ns
  <2>2. \A x \in ManagedNamespace : ~IsContentOf(ns, x)
    BY WhatNamespacesHold DEF ns
  <2>3. /\ DeleteObject \/ DeleteObjectFails
        /\ InInventory(Wanted, ns) /\ Wanted \in Desired /\ ~Blocked(ns)
    BY <1>1, <1>2, <1>4, <2>1, <2>2, WhoLetsGo
  <2>4. n = Wanted.namespace
    BY <2>3, NamespaceVisited DEF ns
  <2>5. store[sa] = "absent"
    BY <2>3, <2>4, DependentsOf DEF Blocked, Exists, ns, sa
  <2>6. ApplyObject \/ ApplyObjectFails
    BY <1>1, <1>2, <2>5, WhoCreates
  <2> QED
    BY <2>3, <2>6 DEF ApplyObject, ApplyObjectFails, DeleteObject, DeleteObjectFails
<1> QED
  BY <1>3, <1>4

LEMMA TeardownOrderStep ==
    ASSUME NamespacesLeftAlone, TypeOK, NamespacesLast, Next,
           ~(\E o \in Drifters : Drift(o)),
           NEW n \in Namespace, NEW e \in DependsOn(n),
           store[e[2]] = "live", store'[e[2]] # "live"
    PROVE  store[e[1]] = "absent"
<1> DEFINE sa == ServiceAccount(n)
           ns == CpNamespace(n)
<1>1. CASE e = <<HelmRelease, OCIRepository>>
  <2>1. ~Blocked(OCIRepository) /\ Wanted \in Desired
    BY <1>1, Ordered, WhoLetsGo, WhatNamespacesHold
  <2> QED
    BY <1>1, <2>1, DependentsOf DEF Blocked, Exists
<1>2. CASE e = <<TokenSecret, sa>>
  <2>1. store[sa] = "live" /\ store'[sa] # "live" /\ sa \in OwnObject \ Swept
    BY <1>2, Ordered
  <2>2. store[ns] # "terminating"
    BY <2>1 DEF NamespacesLast
  <2>3. \A x \in ManagedNamespace : IsContentOf(sa, x) => x = ns
    BY WhatNamespacesHold
  <2> HIDE DEF sa, ns
  <2>4. ~Blocked(sa) /\ Wanted \in Desired /\ InInventory(Wanted, sa)
    BY <2>1, <2>2, <2>3, WhoLetsGo
  <2>5. n = Wanted.namespace
    BY <2>4, NamespaceVisited DEF sa
  <2> QED
    BY <1>2, <2>4, <2>5, DependentsOf DEF Blocked, Exists, sa
<1>3. CASE e = <<sa, ns>>
  <2>1. store[ns] = "live" /\ store'[ns] # "live" /\ ns \in OwnObject \ Swept
    BY <1>3, Ordered
  <2>2. \A x \in ManagedNamespace : ~IsContentOf(ns, x)
    BY WhatNamespacesHold
  <2> HIDE DEF sa, ns
  <2>3. ~Blocked(ns) /\ Wanted \in Desired /\ InInventory(Wanted, ns)
    BY <2>1, <2>2, WhoLetsGo
  <2>4. n = Wanted.namespace
    BY <2>3, NamespaceVisited DEF ns
  <2> QED
    BY <1>3, <2>3, <2>4, DependentsOf DEF Blocked, Exists, sa, ns
<1> QED
  BY <1>1, <1>2, <1>3 DEF DependsOn

(* No object is removed while one that depends on it exists (manager.go,    *)
(* checkForDependents), provided nobody else deletes the namespaces of the  *)
(* ControlPlane: those would take the service account with them.            *)
THEOREM TeardownOrderAlways == NamespacesLeftAlone => (Spec => TeardownOrder)
<1> SUFFICES ASSUME NamespacesLeftAlone PROVE Spec => TeardownOrder
  OBVIOUS
<1>1. Init => NamespacesLast
  <2> SUFFICES ASSUME Init, NEW n \in Namespace PROVE store[CpNamespace(n)] # "terminating"
    BY DEF NamespacesLast
  <2>1. CpNamespace(n) \in Object
    BY Ordered, SomeObjects
  <2> QED
    BY <2>1 DEF Init
<1>2. TypeOK /\ NamespacesLast /\ [Next]_vars => NamespacesLast'
  BY NamespacesLastNext DEF vars, NamespacesLast
<1>3. TypeOK /\ NamespacesLast /\ [Next]_vars =>
        [ (\E o \in Drifters : Drift(o)) \/
          \A n \in Namespace : \A e \in DependsOn(n) :
              store[e[2]] = "live" /\ store'[e[2]] # "live" => store[e[1]] = "absent"
        ]_vars
  BY TeardownOrderStep DEF vars
<1> QED
  BY <1>1, <1>2, <1>3, TypeCorrect, PTL DEF Spec, TeardownOrder
=============================================================================
