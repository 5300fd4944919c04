---------------------------- MODULE ClaimProofs ----------------------------
(***************************************************************************)
(* How far the claims of the documentation go.  Four of them Reconciler     *)
(* violates, in one run each; here they are proved for every value of the   *)
(* constants under the one circumstance that the counterexample needs ruled *)
(* out: a list of orphans that fails, a version that is withdrawn, a        *)
(* namespace that moves.  So the counterexamples are all there is.          *)
(***************************************************************************)
EXTENDS SyncProofs

(* The circumstances.                                                       *)
OrphansAreListed == [][~ListOrphansFails]_vars

NeverWithdrawn == \A c \in Configs : \A v \in Version : c[v] # NotOffered

OneNamespace ==
    \A c, d \in Configs : \A v, w \in Version :
        c[v] \in Desired /\ d[w] \in Desired => c[v].namespace = d[w].namespace

----------------------------------------------------------------------------
(* NoCopyLeft.  NoManagedCopyLeft with the error of the cleaners, which     *)
(* Delete does not look at, ruled out.                                      *)

LEMMA OnlyListsFail ==
    ASSUME TypeOK, ~tally.err, Next, ~ListOrphansFails
    PROVE  ~tally'.err
<1> USE DEF TypeOK, PassTyped, Tally, EndPass, world
<1>1. CASE StartPass \/ ListKind \/ GuardDecides \/ ListKindFails
  BY <1>1 DEF StartPass, ListKind, GuardDecides, ListKindFails, Fresh
<1>2. CASE \/ PrepareConflict \/ PrepareRejected \/ PrepareMalformed \/ PrepareFails
           \/ Prepare
  BY <1>2 DEF PrepareConflict, PrepareRejected, PrepareMalformed, PrepareFails, Prepare
<1>3. CASE ApplyObject \/ ApplyObjectRefused \/ ApplyObjectFails
  BY <1>3 DEF ApplyObject, ApplyObjectRefused, ApplyObjectFails, CountPhase
<1>4. CASE DeleteObject \/ DeleteObjectBlocked \/ DeleteObjectFails
  BY <1>4 DEF DeleteObject, DeleteObjectBlocked, DeleteObjectFails, CountDeleted
<1>5. CASE ObjectsDone \/ ListOrphans \/ CleanerDone
  BY <1>5 DEF ObjectsDone, ListOrphans, CleanerDone
<1>6. ASSUME NEW x, DeleteOrphan(x) \/ DeleteOrphanFails(x) PROVE ~tally'.err
  BY <1>6 DEF DeleteOrphan, DeleteOrphanFails, TallyOrphanFailure
<1>7. CASE FinishApply \/ FinishDelete \/ RemoveFinalizer \/ Crash
  BY <1>7 DEF FinishApply, FinishDelete, RemoveFinalizer, Crash
<1>8. CASE Users \/ Controllers
  BY <1>8, OthersLeaveThePass
<1>9. CASE Terminated
  BY <1>9 DEF Terminated, vars
<1> QED
  BY <1>1, <1>2, <1>3, <1>4, <1>5, <1>6, <1>7, <1>8, <1>9 DEF Next, Handler, FaultyHandler

LEMMA NeverAnError == Spec /\ OrphansAreListed => [](~tally.err)
<1>1. Init => ~tally.err
  BY DEF Init, Fresh
<1>2. TypeOK /\ ~tally.err /\ [Next]_vars /\ [~ListOrphansFails]_vars => (~tally.err)'
  <2> SUFFICES ASSUME TypeOK, ~tally.err, [Next]_vars, [~ListOrphansFails]_vars
               PROVE  ~tally'.err
    OBVIOUS
  <2>1. CASE UNCHANGED vars
    BY <2>1 DEF vars
  <2>2. CASE Next /\ ~ListOrphansFails
    BY <2>2, OnlyListsFail
  <2> QED
    BY <2>1, <2>2
<1> QED
  BY <1>1, <1>2, TypeCorrect, PTL DEF Spec, OrphansAreListed

(* "removing any secret labeled as managed [...] that is not in             *)
(* secretsToKeep" (secret.go): none is left when the resource is gone,      *)
(* unless a cleaner failed to list its orphans.                             *)
THEOREM NoCopyLeftIfListed == Spec /\ OrphansAreListed => []NoCopyLeft
<1>1. NoManagedCopyLeft /\ ~tally.err => NoCopyLeft
  BY DEF NoManagedCopyLeft, NoCopyLeft
<1> QED
  BY <1>1, NoManagedCopyLeftAlways, NeverAnError, PTL

----------------------------------------------------------------------------
(* What no version calls for there never is.                                *)

(* Some version of some ProviderConfig puts metrics-operator there.         *)
Used(n) == \E c \in Configs : \E v \in Version : c[v] \in Desired /\ c[v].namespace = n

UnusedNamespacesEmpty ==
    \A n \in Namespace : ~Used(n) =>
        store[CpNamespace(n)] = "absent" /\ store[ServiceAccount(n)] = "absent"

LEMMA WantedIsUsed ==
    ASSUME TypeOK, Wanted \in Desired
    PROVE  Wanted.namespace \in Namespace /\ Used(Wanted.namespace)
<1>1. pass.pc \in Configs /\ pass.version \in Version /\ Wanted = pass.pc[pass.version]
  BY DEF TypeOK, PassTyped, Wanted, selectMetricsOperatorVersion
<1>2. Wanted.namespace \in Namespace
  BY DEF Desired
<1> QED
  BY <1>1, <1>2 DEF Used

(* With one namespace there is no other.                                    *)
LEMMA OneNamespaceUsed ==
    ASSUME OneNamespace, TypeOK, Wanted \in Desired, NEW n, Used(n)
    PROVE  n = Wanted.namespace
<1>1. pass.pc \in Configs /\ pass.version \in Version /\ Wanted = pass.pc[pass.version]
  BY DEF TypeOK, PassTyped, Wanted, selectMetricsOperatorVersion
<1>2. PICK c \in Configs : \E v \in Version : c[v] \in Desired /\ c[v].namespace = n
  BY DEF Used
<1>3. PICK v \in Version : c[v] \in Desired /\ c[v].namespace = n
  BY <1>2
<1> QED
  BY <1>1, <1>3 DEF OneNamespace

(* A name tells the namespaces and service accounts of the ControlPlane     *)
(* apart, from each other and from everything else a version calls for.     *)
LEMMA CallsForItsNamespace ==
    ASSUME NEW d \in Desired, NEW n \in Namespace,
           InInventory(d, CpNamespace(n)) \/ InInventory(d, ServiceAccount(n))
    PROVE  n = d.namespace
<1>1. /\ CpNamespace(n) \notin Keep(d) /\ ServiceAccount(n) \notin Keep(d)
  BY DEF Keep, CopiesToKeep, CaConfigMap, ImageSecret, ChartSecret, TokenSecret,
         CpNamespace, ServiceAccount, Obj
<1>2. /\ CpNamespace(n) \notin {OCIRepository, HelmRelease, InstanceNamespace,
                                ClusterRoleBinding, ServiceAccount(d.namespace)}
      /\ ServiceAccount(n) \notin {OCIRepository, HelmRelease, InstanceNamespace,
                                   ClusterRoleBinding, CpNamespace(d.namespace)}
  BY DEF OCIRepository, HelmRelease, InstanceNamespace, ClusterRoleBinding, CpNamespace,
         ServiceAccount, Obj
<1>3. CpNamespace(n) = CpNamespace(d.namespace) => n = d.namespace
  BY DEF CpNamespace, Obj
<1>4. ServiceAccount(n) = ServiceAccount(d.namespace) => n = d.namespace
  BY DEF ServiceAccount, Obj
<1> QED
  BY <1>1, <1>2, <1>3, <1>4, InventoryMembers

LEMMA UnusedNamespacesEmptyNext ==
    ASSUME TypeOK, UnusedNamespacesEmpty, Next
    PROVE  UnusedNamespacesEmpty'
<1> SUFFICES ASSUME NEW n \in Namespace, ~Used(n),
                    NEW o \in {CpNamespace(n), ServiceAccount(n)},
                    store'[o] # "absent"
             PROVE  FALSE
  BY DEF UnusedNamespacesEmpty
<1>1. o \in OwnObject /\ o # InstanceNamespace /\ store[o] = "absent"
  <2>1. o.cluster = "ControlPlane"
    BY DEF CpNamespace, ServiceAccount, Obj
  <2>2. InstanceNamespace.cluster = "Workload"
    BY DEF InstanceNamespace, Obj
  <2>3. o \in OwnObject
    BY DEF OwnObject
  <2>4. store[o] = "absent"
    BY DEF UnusedNamespacesEmpty
  <2> QED
    BY <2>1, <2>2, <2>3, <2>4
<1>2. ApplyObject \/ ApplyObjectFails
  BY <1>1, WhoCreates
<1>3. /\ step = "objects" /\ Wanted \in Desired /\ idx \in 1..Len(Objects)
      /\ Objects[idx] \in Object
  BY <1>2, ObjectsType DEF ApplyObject, ApplyObjectFails, TypeOK, PassTyped, WalkInBounds
<1>4. store'[o] # store[o] /\ o \in Object
  BY <1>1 DEF Object
<1>5. ASSUME NEW r, Write(Objects[idx], r) PROVE o = Objects[idx]
  BY <1>3, <1>4, <1>5 DEF Write, TypeOK, ClustersTyped
<1>6. o = Objects[idx]
  BY <1>2, <1>4, <1>5 DEF ApplyObject, ApplyObjectFails
<1>7. InInventory(Wanted, o)
  BY <1>3, <1>6 DEF InInventory, Objects
<1>8. n = Wanted.namespace
  BY <1>3, <1>7, CallsForItsNamespace
<1> QED
  BY <1>3, <1>8, WantedIsUsed

LEMMA UnusedNamespacesEmptyAlways == Spec => []UnusedNamespacesEmpty
<1>1. Init => UnusedNamespacesEmpty
  <2> SUFFICES ASSUME Init, NEW n \in Namespace
               PROVE  store[CpNamespace(n)] = "absent" /\ store[ServiceAccount(n)] = "absent"
    BY DEF UnusedNamespacesEmpty
  <2>1. ASSUME NEW o \in OwnObject PROVE store[o] = "absent"
    BY <2>1, BystanderAssumption DEF Init, Object
  <2> QED
    BY <2>1 DEF OwnObject
<1>2. TypeOK /\ UnusedNamespacesEmpty /\ [Next]_vars => UnusedNamespacesEmpty'
  <2> SUFFICES ASSUME TypeOK, UnusedNamespacesEmpty, [Next]_vars
               PROVE  UnusedNamespacesEmpty'
    OBVIOUS
  <2>1. CASE UNCHANGED vars
    BY <2>1 DEF vars, UnusedNamespacesEmpty
  <2> QED
    BY <2>1, UnusedNamespacesEmptyNext
<1> QED
  BY <1>1, <1>2, TypeCorrect, PTL DEF Spec

(* Of what the provider may own, a version calls for all that is not a copy *)
(* and not in a namespace no version uses.                                  *)
LEMMA OwnedOrUnused ==
    ASSUME OneNamespace, TypeOK, UnusedNamespacesEmpty, Wanted \in Desired,
           NEW o \in OwnObject, o \notin Swept, store[o] # "absent"
    PROVE  InInventory(Wanted, o)
<1>1. ASSUME NEW n \in Namespace, o = CpNamespace(n) \/ o = ServiceAccount(n)
      PROVE  n = Wanted.namespace
  BY <1>1, OneNamespaceUsed DEF UnusedNamespacesEmpty
<1>2. ASSUME NEW c \in Object, c.kind \in {"Secret", "ConfigMap"},
             c.cluster \in {"Platform", "Workload"}
      PROVE  o # c
  BY <1>2 DEF Swept
<1>3. o \notin {TokenSecret, CaConfigMap}
  <2>1. TokenSecret \in Object /\ CaConfigMap \in Object
    BY DEF Object, OwnObject
  <2> QED
    BY <1>2, <2>1 DEF TokenSecret, CaConfigMap, Obj
<1>4. ASSUME NEW s \in SecretName PROVE o # ChartSecret(s) /\ o # ImageSecret(s)
  <2>1. ChartSecret(s) \in Object /\ ImageSecret(s) \in Object
    BY DEF Object, OwnObject
  <2> QED
    BY <1>2, <2>1 DEF ChartSecret, ImageSecret, Obj
<1>5. \/ o \in {OCIRepository, HelmRelease, InstanceNamespace, ClusterRoleBinding}
      \/ \E n \in Namespace : o = CpNamespace(n) \/ o = ServiceAccount(n)
  BY <1>3, <1>4 DEF OwnObject
<1> QED
  BY <1>1, <1>5, InventoryMembers

----------------------------------------------------------------------------
(* NothingLeftBehind.  The resource goes only with a version that is        *)
(* offered, whose inventory the last pass saw absent; the cleaners account  *)
(* for the copies, and there is nothing outside the one namespace.          *)

GoesWithItsVersion == step \in {"finalize", "done"} => Wanted \in Desired

LEMMA GoesWithItsVersionNext ==
    ASSUME NeverWithdrawn, TypeOK, TeardownInv, GoesWithItsVersion, Next
    PROVE  GoesWithItsVersion'
<1> USE DEF GoesWithItsVersion, EndPass, world
<1>1. CASE StartPass \/ ListKind \/ GuardDecides \/ ListKindFails
  BY <1>1 DEF StartPass, ListKind, GuardDecides, ListKindFails
<1>2. CASE PrepareConflict \/ PrepareMalformed \/ PrepareFails \/ Prepare
  BY <1>2 DEF PrepareConflict, PrepareMalformed, PrepareFails, Prepare
<1>3. ~PrepareRejected
  <2>1. Wanted # NotOffered
    BY DEF NeverWithdrawn, TypeOK, PassTyped, Wanted, selectMetricsOperatorVersion
  <2> QED
    BY <2>1 DEF PrepareRejected
<1>4. CASE ApplyObject \/ ApplyObjectRefused \/ ApplyObjectFails
  BY <1>4 DEF ApplyObject, ApplyObjectRefused, ApplyObjectFails
<1>5. CASE DeleteObject \/ DeleteObjectBlocked \/ DeleteObjectFails
  BY <1>5 DEF DeleteObject, DeleteObjectBlocked, DeleteObjectFails
<1>6. CASE ObjectsDone \/ ListOrphans \/ ListOrphansFails \/ CleanerDone
  BY <1>6 DEF ObjectsDone, ListOrphans, ListOrphansFails, CleanerDone
<1>7. ASSUME NEW x, DeleteOrphan(x) \/ DeleteOrphanFails(x) PROVE GoesWithItsVersion'
  BY <1>7 DEF DeleteOrphan, DeleteOrphanFails
<1>8. CASE FinishDelete
  BY <1>8, SamePass DEF FinishDelete, TeardownInv, FinalizeLast
<1>9. CASE RemoveFinalizer
  BY <1>9, SamePass DEF RemoveFinalizer
<1>10. CASE FinishApply \/ Crash
  BY <1>10 DEF FinishApply, Crash
<1>11. CASE Users \/ Controllers
  BY <1>11, OthersLeaveThePass, SnapshotFrame
<1>12. CASE Terminated
  BY <1>12, SamePass DEF Terminated, vars
<1> QED
  BY <1>1, <1>2, <1>3, <1>4, <1>5, <1>6, <1>7, <1>8, <1>9, <1>10, <1>11, <1>12
     DEF Next, Handler, FaultyHandler

LEMMA NothingLeft ==
    ASSUME OneNamespace, TypeOK, OrphanInv, TeardownInv, GoesWithItsVersion,
           UnusedNamespacesEmpty, InventoryGone, NoCopyLeft
    PROVE  NothingLeftBehind
<1> SUFFICES ASSUME mo.gone, NEW o \in Object \ Bystander, Managed(o)
             PROVE  FALSE
  BY DEF NothingLeftBehind
<1>1. Wanted \in Desired
  BY DEF TeardownInv, FinalizeLast, GoesWithItsVersion
<1>2. o \notin Swept
  BY <1>1 DEF NoCopyLeft
<1>3. InInventory(Wanted, o)
  BY <1>1, <1>2, OwnedOrUnused DEF Object, Managed
<1> QED
  BY <1>1, <1>3 DEF InventoryGone, InInventory, Objects, Managed

(* A resource that is gone leaves nothing it created on any cluster         *)
(* (manager.go, AllDeleted; the controller's Delete), provided that the     *)
(* platform team never withdraws a version that may be in use, all versions *)
(* use one namespace of the ControlPlane, and the cleaners can list.  The   *)
(* runs "lost_cleanup", "withdrawn" and "namespace_moves" each break one of *)
(* the three.                                                               *)
THEOREM NothingLeftBehindIfSteady ==
    OneNamespace /\ NeverWithdrawn => (Spec /\ OrphansAreListed => []NothingLeftBehind)
<1> SUFFICES ASSUME OneNamespace, NeverWithdrawn
             PROVE  Spec /\ OrphansAreListed => []NothingLeftBehind
  OBVIOUS
<1>1. Init => TeardownInv /\ GoesWithItsVersion
  BY TeardownInit DEF Init, GoesWithItsVersion
<1>2. TypeOK /\ TeardownInv /\ GoesWithItsVersion /\ [Next]_vars
        => (TeardownInv /\ GoesWithItsVersion)'
  <2> SUFFICES ASSUME TypeOK, TeardownInv, GoesWithItsVersion, [Next]_vars
               PROVE  TeardownInv' /\ GoesWithItsVersion'
    OBVIOUS
  <2>1. CASE Next
    BY <2>1, TeardownNext, GoesWithItsVersionNext
  <2>2. CASE UNCHANGED vars
    BY <2>2, SamePass
       DEF vars, TeardownInv, WalkProgress, FinalizeLast, AbsentUpTo, GoesWithItsVersion
  <2> QED
    BY <2>1, <2>2
<1>3. TypeOK /\ OrphanInv /\ TeardownInv /\ GoesWithItsVersion /\ UnusedNamespacesEmpty
        /\ InventoryGone /\ NoCopyLeft => NothingLeftBehind
  BY NothingLeft
<1> QED
  BY <1>1, <1>2, <1>3, OrphanInvAlways, UnusedNamespacesEmptyAlways, InventoryGoneAlways,
     NoCopyLeftIfListed, PTL DEF Spec

----------------------------------------------------------------------------
(* ReadyMeansNothingStale.                                                  *)

(* A pass that reports Ready leaves no object of the provider behind that   *)
(* its version does not call for (manager.go, OrphanCleaner), provided all  *)
(* versions use one namespace of the ControlPlane, which no cleaner covers: *)
(* the run "namespace_moves" breaks that.                                   *)
THEOREM ReadyMeansNothingStaleInOneNamespace ==
    OneNamespace => (Spec => ReadyMeansNothingStale)
<1> SUFFICES ASSUME OneNamespace PROVE Spec => ReadyMeansNothingStale
  OBVIOUS
<1>1. ASSUME TypeOK, OrphanInv, SweptInv, UnusedNamespacesEmpty, FinishApply,
             mo'.status = "Ready", NEW o \in Object, Managed(o)
      PROVE  InInventory(Wanted, o)
  <2>1. Wanted \in Desired /\ (o \in Swept => InInventory(Wanted, o))
    BY <1>1, SweptWhenReady
  <2>2. o \in OwnObject /\ store[o] # "absent"
    BY <1>1 DEF OrphanInv, Object, Managed
  <2> QED
    BY <1>1, <2>1, <2>2, OwnedOrUnused
<1>2. Init => SweptInv
  BY SyncInit DEF SyncInv
<1>3. TypeOK /\ SweptInv /\ [Next]_vars => SweptInv'
  BY SweptInvNext
<1>4. TypeOK /\ OrphanInv /\ SweptInv /\ UnusedNamespacesEmpty /\ [Next]_vars =>
        [ FinishApply /\ mo'.status = "Ready" =>
            \A o \in Object : Managed(o) => InInventory(Wanted, o) ]_vars
  BY <1>1
<1> QED
  BY <1>2, <1>3, <1>4, OrphanInvAlways, UnusedNamespacesEmptyAlways, PTL
     DEF Spec, ReadyMeansNothingStale

----------------------------------------------------------------------------
(* ReadyMeansTokenValid.                                                    *)

(* The token there is was generated for the namespace of some version.      *)
TokenOfAVersion == Exists(TokenSecret) => Used(token)

LEMMA TokenOfAVersionNext ==
    ASSUME TypeOK, TokenOfAVersion, Next
    PROVE  TokenOfAVersion'
<1> USE SomeObjects DEF TypeOK, ClustersTyped, world, Exists
<1> SUFFICES ASSUME store'[TokenSecret] # "absent" PROVE Used(token')
  BY DEF TokenOfAVersion, Used
<1>1. ASSUME store[TokenSecret] # "absent", token' = token PROVE Used(token')
  BY <1>1 DEF TokenOfAVersion
<1>2. ASSUME NEW x, NEW r \in RefreshChoices(x), Write(x, r), Wanted \in Desired
      PROVE  Used(token')
  <2>1. CASE r
    BY <1>2, <2>1, WantedIsUsed DEF Write
  <2>2. CASE ~r
    <3>1. token' = token
      BY <1>2, <2>2 DEF Write
    <3>2. x = TokenSecret => store[TokenSecret] # "absent"
      BY <2>2 DEF RefreshChoices
    <3>3. x # TokenSecret => store'[TokenSecret] = store[TokenSecret]
      BY <1>2 DEF Write
    <3> QED
      BY <1>1, <3>1, <3>2, <3>3
  <2> QED
    BY <2>1, <2>2
<1>3. ASSUME NEW x, Vanish(x) PROVE Used(token')
  <2>1. x # TokenSecret
    BY <1>3 DEF Vanish
  <2> QED
    BY <1>1, <1>3, <2>1 DEF Vanish
<1>4. ASSUME NEW x, Erase(x) PROVE Used(token')
  <2>1. ~HasFinalizer(TokenSecret)
    BY DEF HasFinalizer, TokenSecret, Obj
  <2> QED
    BY <1>1, <1>3, <1>4, <2>1 DEF Erase
<1>5. ASSUME UNCHANGED <<store, token>> PROVE Used(token')
  BY <1>1, <1>5
<1>6. step = "objects" => Wanted \in Desired
  BY DEF WalkInBounds
<1>7. CASE ApplyObject \/ ApplyObjectFails
  BY <1>2, <1>5, <1>6, <1>7 DEF ApplyObject, ApplyObjectFails
<1>8. CASE DeleteObject \/ DeleteObjectFails
  BY <1>4, <1>5, <1>8 DEF DeleteObject, DeleteObjectFails
<1>9. ASSUME NEW x, DeleteOrphan(x) \/ DeleteOrphanFails(x) PROVE Used(token')
  BY <1>3, <1>5, <1>9 DEF DeleteOrphan, DeleteOrphanFails
<1>10. ASSUME NEW x, \/ Drift(x) \/ FluxReady(x) \/ FluxStalls(x) \/ FluxFinalizes(x)
                     \/ PurgeContent(x) \/ FinalizeNamespace(x)
       PROVE  Used(token')
  BY <1>3, <1>4, <1>5, <1>10
     DEF Drift, FluxReady, FluxStalls, FluxFinalizes, PurgeContent, FinalizeNamespace
<1>11. CASE HelmInstalls
  <2>1. TokenSecret \notin Bystander /\ TokenSecret # InstanceNamespace
    BY BystanderAssumption DEF OwnObject, TokenSecret, InstanceNamespace, Obj
  <2> QED
    BY <1>1, <1>11, <2>1 DEF HelmInstalls
<1>12. ASSUME NEW x, \/ ChangeVersion(x) \/ ChangeProviderConfig(x) \/ CreateMetric(x)
                     \/ DeleteMetric(x)
       PROVE Used(token')
  BY <1>5, <1>12 DEF ChangeVersion, ChangeProviderConfig, CreateMetric, DeleteMetric
<1>13. ASSUME \/ StartPass \/ ListKind \/ GuardDecides \/ PrepareConflict
              \/ PrepareRejected \/ PrepareMalformed \/ Prepare
              \/ ApplyObjectRefused \/ DeleteObjectBlocked \/ ObjectsDone
              \/ ListOrphans \/ CleanerDone \/ FinishApply \/ FinishDelete
              \/ RemoveFinalizer
       PROVE Used(token')
  BY <1>5, <1>13 DEF StartPass, ListKind, GuardDecides, PrepareConflict, PrepareRejected,
     PrepareMalformed, Prepare, ApplyObjectRefused, DeleteObjectBlocked, ObjectsDone,
     ListOrphans, CleanerDone, FinishApply, FinishDelete, RemoveFinalizer
<1>14. ASSUME \/ ListKindFails \/ PrepareFails \/ ListOrphansFails \/ Crash
              \/ RequestDeletion \/ Terminated
       PROVE Used(token')
  BY <1>5, <1>14 DEF ListKindFails, PrepareFails, ListOrphansFails, Crash, RequestDeletion,
     Terminated, vars
<1> QED
  BY <1>7, <1>8, <1>9, <1>10, <1>11, <1>12, <1>13, <1>14
     DEF Next, Handler, FaultyHandler, Users, Controllers

(* When a pass reports Ready, the token in the instance namespace is one of *)
(* the service account its version calls for (serviceaccount.go), provided  *)
(* all versions use one namespace of the ControlPlane and nobody else       *)
(* deletes the token secret or a namespace: a token about to expire is the  *)
(* only one the code renews, which the run "token_of_old_namespace" shows.  *)
THEOREM ReadyMeansTokenValidInOneNamespace ==
    OneNamespace /\ NoDriftingNamespaces /\ TokenSecret \notin Drifters
        => (Spec => ReadyMeansTokenValid)
<1> SUFFICES ASSUME OneNamespace, NoDriftingNamespaces, TokenSecret \notin Drifters
             PROVE  Spec => ReadyMeansTokenValid
  OBVIOUS
<1>1. ASSUME TypeOK, OrphanInv, SyncInv, TokenOfAVersion, FinishApply, mo'.status = "Ready"
      PROVE  token = Wanted.namespace
  <2>1. Wanted \in Desired
    BY <1>1, SweptWhenReady DEF SyncInv
  <2>2. InInventory(Wanted, TokenSecret)
    BY <2>1, InventoryMembers DEF Keep
  <2>3. store[TokenSecret] = "live"
    BY <1>1, <2>2, SyncedWhenReady DEF InInventory, Objects
  <2>4. Used(token)
    BY <1>1, <2>3 DEF TokenOfAVersion, Exists
  <2> QED
    BY <1>1, <2>1, <2>4, OneNamespaceUsed
<1>2. Init => SyncInv /\ TokenOfAVersion
  <2>1. Init => store[TokenSecret] = "absent"
    <3>1. TokenSecret \notin Bystander /\ TokenSecret \in Object
      BY BystanderAssumption DEF OwnObject, Object
    <3> QED
      BY <3>1 DEF Init
  <2> QED
    BY <2>1, SyncInit DEF TokenOfAVersion, Exists
<1>3. TypeOK /\ OrphanInv /\ SyncInv /\ TokenOfAVersion /\ [Next]_vars
        => (SyncInv /\ TokenOfAVersion)'
  <2> SUFFICES ASSUME TypeOK, OrphanInv, SyncInv, TokenOfAVersion, [Next]_vars
               PROVE  SyncInv' /\ TokenOfAVersion'
    OBVIOUS
  <2>1. CASE Next
    BY <2>1, SyncInvNext, TokenOfAVersionNext
  <2>2. CASE UNCHANGED vars
    BY <2>2, SyncInvNext DEF vars, TokenOfAVersion, Exists, Used
  <2> QED
    BY <2>1, <2>2
<1>4. TypeOK /\ OrphanInv /\ SyncInv /\ TokenOfAVersion /\ [Next]_vars =>
        [ FinishApply /\ mo'.status = "Ready" => token = Wanted.namespace ]_vars
  BY <1>1
<1> QED
  BY <1>2, <1>3, <1>4, OrphanInvAlways, PTL DEF Spec, ReadyMeansTokenValid
=============================================================================
