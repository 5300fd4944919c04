----------------------------- MODULE Reconciler -----------------------------
(***************************************************************************)
(* One MetricsOperator resource and the controller that reconciles it: the  *)
(* passes of CreateOrUpdate and Delete, call by call, against the objects   *)
(* of three clusters, while the user, the platform team, Flux and the       *)
(* namespace controllers act in between, API calls fail or lose their       *)
(* answers, and the process crashes.                                        *)
(*                                                                          *)
(* A step of the controller is one call that changes an API server, or one  *)
(* List, with the reads that lead up to it and the local computation that   *)
(* follows: the Get and the Create or Update of an object, which conflicts  *)
(* when somebody else's came in between, and the Gets of the dependents and *)
(* the DELETE.  controller-runtime never runs two passes for the same       *)
(* resource at once, so there is one pass at a time.                        *)
(***************************************************************************)
EXTENDS Inventory, FiniteSets

CONSTANTS
    Kind,             \* kinds of metrics CRs on the ControlPlane
    metricsListGVKs,  \* the order in which BlockingKinds lists them
    Configs,          \* ProviderConfigs the platform team moves between
    NoToken,          \* the token secret does not exist
    Drifters,         \* objects somebody else may delete
    MaxFaults,        \* bound: failed or lost API calls and crashes
    MaxEdits          \* bound: changes of version and ProviderConfig, drift

VARIABLES
    mo,       \* the MetricsOperator on the onboarding cluster
    pc,       \* the ProviderConfig on the platform cluster
    store,    \* what the API servers hold of each object
    ready,    \* Flux objects whose Ready condition is True
    token,    \* namespace of the service account the token secret is for
    metrics,  \* kinds with instances on the ControlPlane
    step,     \* where the controller is in the pass
    pass,     \* what the runtime handed to the pass, and the status in memory
    idx,      \* position in the list the pass walks through
    items,    \* orphans the running cleaner has listed and not yet deleted
    tally,    \* what the results of the pass add up to
    emptied,  \* history: kinds the guard of this pass found empty
    budget    \* faults and edits so far

world == <<mo, pc, store, ready, token, metrics>>
vars  == <<mo, pc, store, ready, token, metrics, step, pass, idx, items, tally,
           emptied, budget>>

ASSUME ReconcilerAssumption ==
    /\ Configs # {} /\ Configs \subseteq ProviderConfig
    /\ metricsListGVKs \in Seq(Kind)
    /\ \A k \in Kind : \E i \in 1..Len(metricsListGVKs) : metricsListGVKs[i] = k
    /\ Drifters \subseteq Object \ Bystander
    /\ MaxFaults \in Nat /\ MaxEdits \in Nat

StoreState == {"absent", "foreign", "live", "terminating"}
Status     == {"none", "Progressing", "Ready", "Terminating"}
Step       == {"idle", "guard", "prepare", "objects", "cleaners", "cleaning",
               "finish", "finalize", "done"}
Tally      == [allDeleted : BOOLEAN, allReady : BOOLEAN, failed : BOOLEAN,
               err : BOOLEAN, blocking : BOOLEAN]
Budget     == [faults : 0..MaxFaults, edits : 0..MaxEdits]

Wanted  == selectMetricsOperatorVersion(pass.version, pass.pc)
Objects == ManagedObjects(Wanted)

Exists(o)  == store[o] # "absent"
Managed(o) == store[o] \in {"live", "terminating"}

Fresh == [allDeleted |-> TRUE, allReady |-> TRUE, failed |-> FALSE,
          err |-> FALSE, blocking |-> FALSE]

Init ==
    /\ \E v \in Version : mo = [version |-> v, deleting |-> FALSE, gone |-> FALSE,
                                id |-> FALSE, status |-> "none"]
    /\ pc \in Configs
    /\ store = [o \in Object |-> IF o \in Bystander /\ o.cluster = "Platform"
                              THEN "foreign" ELSE "absent"]
    /\ ready = {} /\ token = NoToken /\ metrics = {}
    /\ step = "idle"
    /\ pass = [deleting |-> FALSE, version |-> mo.version, pc |-> pc,
               stale |-> FALSE, status |-> "Progressing"]
    /\ idx = 1 /\ items = {} /\ tally = Fresh /\ emptied = {}
    /\ budget = [faults |-> 0, edits |-> 0]

----------------------------------------------------------------------------
(* Helpers.                                                                 *)

Fault == /\ budget.faults < MaxFaults
         /\ budget' = [budget EXCEPT !.faults = @ + 1]

Edit == /\ budget.edits < MaxEdits
        /\ budget' = [budget EXCEPT !.edits = @ + 1]

EndPass(status) ==
    /\ step' = "idle"
    /\ mo' = [mo EXCEPT !.status = status]

(* The API server lets go of an object.                                     *)
Vanish(o) ==
    /\ store' = [store EXCEPT ![o] = "absent"]
    /\ ready' = ready \ {o}
    /\ token' = IF o = TokenSecret THEN NoToken ELSE token

(* What a DELETE call does to an object that exists.                        *)
Erase(o) ==
    IF HasFinalizer(o)
    THEN /\ store' = [store EXCEPT ![o] = "terminating"]
         /\ UNCHANGED <<ready, token>>
    ELSE Vanish(o)

----------------------------------------------------------------------------
(* The runtime starts a pass with what it read of the resource and of the   *)
(* ProviderConfig.                                                          *)

StartPass ==
    /\ step = "idle" /\ ~mo.gone
    /\ step' = IF mo.deleting THEN "guard" ELSE "prepare"
    /\ pass' = [deleting |-> mo.deleting, version |-> mo.version, pc |-> pc,
                stale |-> FALSE, status |-> "Progressing"]
    /\ idx' = 1 /\ items' = {} /\ tally' = Fresh /\ emptied' = {}
    /\ UNCHANGED <<world, budget>>

(* Delete asks BlockingKinds first: one List per kind.                      *)
ListKind ==
    /\ step = "guard" /\ idx <= Len(metricsListGVKs)
    /\ IF metricsListGVKs[idx] \in metrics
       THEN tally' = [tally EXCEPT !.blocking = TRUE] /\ UNCHANGED emptied
       ELSE emptied' = emptied \cup {metricsListGVKs[idx]} /\ UNCHANGED tally
    /\ idx' = idx + 1
    /\ UNCHANGED <<world, step, pass, items, budget>>

ListKindFailsOpen ==
    /\ step = "guard" /\ idx <= Len(metricsListGVKs)
    /\ Fault
    /\ idx' = idx + 1
    /\ UNCHANGED <<world, step, pass, items, tally, emptied>>
ListKindFails ==
    /\ step = "guard" /\ idx <= Len(metricsListGVKs)
    /\ Fault
    /\ EndPass("Progressing")
    /\ UNCHANGED <<pc, store, ready, token, metrics, pass, idx, items, tally, emptied>>

GuardDecides ==
    /\ step = "guard" /\ idx > Len(metricsListGVKs)
    /\ IF tally.blocking
       THEN EndPass("Terminating") /\ UNCHANGED pass
       ELSE /\ step' = "prepare"
            /\ pass' = [pass EXCEPT !.status = "Terminating"]
            /\ UNCHANGED mo
    /\ UNCHANGED <<pc, store, ready, token, metrics, idx, items, tally, emptied, budget>>

----------------------------------------------------------------------------
(* createObjectManager.  ensureInstanceID writes the resource if it has no  *)
(* instance id yet; the answer of that Update replaces the status in memory.*)

PrepareConflict ==
    /\ step = "prepare" /\ ~mo.id /\ pass.stale
    /\ EndPass("Progressing")
    /\ UNCHANGED <<pc, store, ready, token, metrics, pass, idx, items, tally,
                   emptied, budget>>

PrepareFails ==
    /\ step = "prepare" /\ ~mo.id /\ ~pass.stale
    /\ Fault
    /\ \E written \in BOOLEAN :
          mo' = [mo EXCEPT !.status = "Progressing", !.id = written]
    /\ step' = "idle"
    /\ UNCHANGED <<pc, store, ready, token, metrics, pass, idx, items, tally, emptied>>

(* The version is not offered: CreateOrUpdate and Delete both drop the      *)
(* ErrInvalidUserInput, and an empty result of Delete means it is done.     *)
PrepareRejected ==
    /\ step = "prepare" /\ (mo.id \/ ~pass.stale)
    /\ Wanted = NotOffered
    /\ mo' = [mo EXCEPT !.status = "Progressing", !.id = TRUE]
    /\ step' = IF pass.deleting THEN "finalize" ELSE "idle"
    /\ UNCHANGED <<pc, store, ready, token, metrics, pass, idx, items, tally,
                   emptied, budget>>

PrepareMalformed ==
    /\ step = "prepare" /\ (mo.id \/ ~pass.stale)
    /\ Wanted = Malformed
    /\ mo' = [mo EXCEPT !.status = "Progressing", !.id = TRUE]
    /\ step' = "idle"
    /\ UNCHANGED <<pc, store, ready, token, metrics, pass, idx, items, tally,
                   emptied, budget>>

Prepare ==
    /\ step = "prepare" /\ (mo.id \/ ~pass.stale)
    /\ Wanted \notin {NotOffered, Malformed}
    /\ mo' = [mo EXCEPT !.id = TRUE]
    /\ pass' = [pass EXCEPT !.status = IF mo.id THEN @ ELSE mo.status]
    /\ step' = "objects" /\ idx' = 1
    /\ UNCHANGED <<pc, store, ready, token, metrics, items, tally, emptied, budget>>

----------------------------------------------------------------------------
(* Apply: one CreateOrUpdate per object, in order.  An error does not stop  *)
(* the walk.                                                                *)

(* The namespace an object lives in accepts new objects.                    *)
HasPlace(o) ==
    \A ns \in ManagedNamespace :
        IsContentOf(o, ns) => store[ns] \in {"live", "foreign"}

(* The token is generated if there is none, or if it is about to expire,    *)
(* which this module leaves open; generating needs the service account.     *)
RefreshChoices(o) ==
    IF o # TokenSecret THEN {FALSE}
    ELSE IF Exists(o) THEN BOOLEAN ELSE {TRUE}

Writable(o, refresh) ==
    /\ ~Exists(o) => HasPlace(o)
    /\ refresh => Exists(ServiceAccount(Wanted.namespace))

Write(o, refresh) ==
    /\ store' = [store EXCEPT ![o] = IF @ = "terminating" THEN @ ELSE "live"]
    /\ token' = IF refresh THEN Wanted.namespace ELSE token

(* FluxStatus for Flux objects, existence for the others.                   *)
PhaseReady(o, state) == state = "live" /\ (o \in Flux => o \in ready)

CountPhase(o, state) ==
    IF PhaseReady(o, state) THEN tally ELSE [tally EXCEPT !.allReady = FALSE]

ApplyObject ==
    /\ step = "objects" /\ ~pass.deleting /\ idx <= Len(Objects)
    /\ LET o == Objects[idx] IN
         \E refresh \in RefreshChoices(o) :
            /\ Writable(o, refresh)
            /\ Write(o, refresh)
            /\ tally' = CountPhase(o, store'[o])
    /\ idx' = idx + 1
    /\ UNCHANGED <<mo, pc, ready, metrics, step, pass, items, emptied, budget>>

(* Where the walk goes on after an error.                                   *)
LeaveTheWalk == Len(Objects) + 1
AfterError   == idx + 1

(* The API server refuses, or the service account is not there.             *)
ApplyObjectRefused ==
    /\ step = "objects" /\ ~pass.deleting /\ idx <= Len(Objects)
    /\ LET o == Objects[idx] IN
         /\ \E refresh \in RefreshChoices(o) : ~Writable(o, refresh)
         /\ tally' = [CountPhase(o, store[o]) EXCEPT !.failed = TRUE]
    /\ idx' = AfterError
    /\ UNCHANGED <<world, step, pass, items, emptied, budget>>

(* The call fails, before or after it took effect.                          *)
ApplyObjectFails ==
    /\ step = "objects" /\ ~pass.deleting /\ idx <= Len(Objects)
    /\ Fault
    /\ LET o == Objects[idx] IN
         /\ \/ UNCHANGED <<store, token>>
            \/ \E refresh \in RefreshChoices(o) :
                  Writable(o, refresh) /\ Write(o, refresh)
         /\ tally' = [CountPhase(o, store[o]) EXCEPT !.failed = TRUE]
    /\ idx' = AfterError
    /\ UNCHANGED <<mo, pc, ready, metrics, step, pass, items, emptied>>

----------------------------------------------------------------------------
(* Delete: an object with a dependent that still exists is left alone, and  *)
(* reported as an error.                                                    *)

Blocked(o) == \E p \in Dependents(Wanted, o) : Exists(p)

(* What the result of an object's DELETE call adds to the tally: it counts  *)
(* as deleted only if the server says that it does not exist.               *)
CountRequested(o) == tally
CountNeverDeleted(o) == [tally EXCEPT !.allDeleted = FALSE]
CountDeleted(o) ==
    IF Exists(o) THEN [tally EXCEPT !.allDeleted = FALSE] ELSE tally

DeleteObject ==
    /\ step = "objects" /\ pass.deleting /\ idx <= Len(Objects)
    /\ LET o == Objects[idx] IN
         /\ ~Blocked(o)
         /\ tally' = CountDeleted(o)
         /\ IF Exists(o) THEN Erase(o) ELSE UNCHANGED <<store, ready, token>>
    /\ idx' = idx + 1
    /\ UNCHANGED <<mo, pc, metrics, step, pass, items, emptied, budget>>

DeleteObjectBlocked ==
    /\ step = "objects" /\ pass.deleting /\ idx <= Len(Objects)
    /\ Blocked(Objects[idx])
    /\ tally' = [tally EXCEPT !.allDeleted = FALSE, !.failed = TRUE]
    /\ idx' = AfterError
    /\ UNCHANGED <<world, step, pass, items, emptied, budget>>

DeleteObjectFails ==
    /\ step = "objects" /\ pass.deleting /\ idx <= Len(Objects)
    /\ Fault
    /\ LET o == Objects[idx] IN
         \/ UNCHANGED <<store, ready, token>>
         \/ ~Blocked(o) /\ Exists(o) /\ Erase(o)
    /\ tally' = [tally EXCEPT !.allDeleted = FALSE, !.failed = TRUE]
    /\ idx' = AfterError
    /\ UNCHANGED <<mo, pc, metrics, step, pass, items, emptied>>

ObjectsDone ==
    /\ step = "objects" /\ idx > Len(Objects)
    /\ step' = "cleaners" /\ idx' = 1
    /\ UNCHANGED <<world, pass, items, tally, emptied, budget>>

----------------------------------------------------------------------------
(* The orphan cleaners: list the labelled objects of a namespace, delete    *)
(* those that are not to be kept.  A List that fails ends the pass; a       *)
(* DELETE that fails becomes one more result.                               *)

OrphansOfAnyOwner(i) == {o \in CleanerScope(i) : Exists(o)} \ Keep(Wanted)
Orphans(i) == {o \in CleanerScope(i) : Managed(o)} \ Keep(Wanted)

ListOrphans ==
    /\ step = "cleaners"
    /\ items' = Orphans(idx)
    /\ step' = "cleaning"
    /\ UNCHANGED <<world, pass, idx, tally, emptied, budget>>

ListOrphansFails ==
    /\ step = "cleaners"
    /\ Fault
    /\ tally' = [tally EXCEPT !.err = TRUE]
    /\ step' = "finish"
    /\ UNCHANGED <<world, pass, idx, items, emptied>>

DeleteOrphan(o) ==
    /\ step = "cleaning" /\ o \in items
    /\ IF Exists(o) THEN Vanish(o) ELSE UNCHANGED <<store, ready, token>>
    /\ items' = items \ {o}
    /\ UNCHANGED <<mo, pc, metrics, step, pass, idx, tally, emptied, budget>>

TallyOrphanFailure ==
    [tally EXCEPT !.allDeleted = FALSE, !.allReady = FALSE, !.failed = TRUE]

DeleteOrphanFails(o) ==
    /\ step = "cleaning" /\ o \in items
    /\ Fault
    /\ \/ UNCHANGED <<store, ready, token>>
       \/ Exists(o) /\ Vanish(o)
    /\ items' = items \ {o}
    /\ tally' = TallyOrphanFailure
    /\ UNCHANGED <<mo, pc, metrics, step, pass, idx, emptied>>

MoreCleanersOffByOne == idx <= NumCleaners
MoreCleaners == idx < NumCleaners

CleanerDone ==
    /\ step = "cleaning" /\ items = {}
    /\ step' = IF MoreCleaners THEN "cleaners" ELSE "finish"
    /\ idx' = idx + 1
    /\ UNCHANGED <<world, pass, items, tally, emptied, budget>>

----------------------------------------------------------------------------
(* What the pass reports.                                                   *)

ApplyStatusOfResultsOnly ==
    IF tally.allReady THEN "Ready"
    ELSE IF tally.failed THEN "Progressing" ELSE pass.status
ApplyStatus ==
    IF tally.failed \/ tally.err THEN "Progressing"
    ELSE IF tally.allReady THEN "Ready" ELSE pass.status

FinishApply ==
    /\ step = "finish" /\ ~pass.deleting
    /\ EndPass(ApplyStatus)
    /\ UNCHANGED <<pc, store, ready, token, metrics, pass, idx, items, tally,
                   emptied, budget>>

(* AllDeleted is looked at before the errors: an empty result.              *)
FinishDelete ==
    /\ step = "finish" /\ pass.deleting
    /\ IF tally.allDeleted
       THEN /\ step' = "finalize"
            /\ mo' = [mo EXCEPT !.status = pass.status]
       ELSE EndPass(IF tally.failed \/ tally.err THEN "Progressing"
                    ELSE pass.status)
    /\ UNCHANGED <<pc, store, ready, token, metrics, pass, idx, items, tally,
                   emptied, budget>>

(* The runtime takes an empty result of Delete as its end.                  *)
RemoveFinalizer ==
    /\ step = "finalize"
    /\ mo' = [mo EXCEPT !.gone = TRUE]
    /\ step' = "done"
    /\ UNCHANGED <<pc, store, ready, token, metrics, pass, idx, items, tally,
                   emptied, budget>>

(* The process dies: nothing it had in memory survives.                     *)
Crash ==
    /\ step \notin {"idle", "done"}
    /\ Fault
    /\ step' = "idle"
    /\ UNCHANGED <<world, pass, idx, items, tally, emptied>>

----------------------------------------------------------------------------
(* Everybody else.                                                          *)

unmovedPass ==
    <<step, idx, items, tally, emptied>>

(* The user asks for deletion.  A pass that started before does not see it. *)
RequestDeletion ==
    /\ ~mo.deleting
    /\ mo' = [mo EXCEPT !.deleting = TRUE]
    /\ pass' = [pass EXCEPT !.stale = TRUE]
    /\ UNCHANGED <<pc, store, ready, token, metrics, unmovedPass, budget>>

ChangeVersion(v) ==
    /\ ~mo.gone /\ v # mo.version
    /\ Edit
    /\ mo' = [mo EXCEPT !.version = v]
    /\ pass' = [pass EXCEPT !.stale = TRUE]
    /\ UNCHANGED <<pc, store, ready, token, metrics, unmovedPass>>

ChangeProviderConfig(c) ==
    /\ ~mo.gone /\ c # pc
    /\ Edit
    /\ pc' = c
    /\ UNCHANGED <<mo, store, ready, token, metrics, pass, unmovedPass>>

CreateMetric(k) ==
    /\ ~mo.gone
    /\ metrics' = metrics \cup {k}
    /\ UNCHANGED <<mo, pc, store, ready, token, pass, unmovedPass, budget>>

DeleteMetric(k) ==
    /\ metrics' = metrics \ {k}
    /\ UNCHANGED <<mo, pc, store, ready, token, pass, unmovedPass, budget>>

(* Flux reports an object Ready, takes it back, or finishes its deletion.   *)
FluxReady(o) ==
    /\ store[o] = "live" /\ o \notin ready
    /\ ready' = ready \cup {o}
    /\ UNCHANGED <<mo, pc, store, token, metrics, pass, unmovedPass, budget>>

FluxStalls(o) ==
    /\ o \in ready
    /\ Edit
    /\ ready' = ready \ {o}
    /\ UNCHANGED <<mo, pc, store, token, metrics, pass, unmovedPass>>

FluxFinalizes(o) ==
    /\ store[o] = "terminating"
    /\ Vanish(o)
    /\ UNCHANGED <<mo, pc, metrics, pass, unmovedPass, budget>>

(* An installation in flight, which the deletion of its HelmRelease waits   *)
(* for, creates the target namespace (createNamespace: true) and the        *)
(* release's storage in it.                                                 *)
HelmInstalls ==
    /\ Exists(HelmRelease)
    /\ LET created == {o \in Bystander : o.cluster = "Workload" /\ ~Exists(o)}
                        \cup ({InstanceNamespace} \ {o \in Object : Exists(o)})
       IN /\ created # {}
          /\ store[InstanceNamespace] # "terminating"
          /\ store' = [o \in Object |-> IF o \in created THEN "foreign" ELSE store[o]]
    /\ UNCHANGED <<mo, pc, ready, token, metrics, pass, unmovedPass, budget>>

(* A namespace that terminates is emptied, then goes.                       *)
PurgeContent(o) ==
    /\ Exists(o)
    /\ \E ns \in ManagedNamespace : IsContentOf(o, ns) /\ store[ns] = "terminating"
    /\ Vanish(o)
    /\ UNCHANGED <<mo, pc, metrics, pass, unmovedPass, budget>>

FinalizeNamespace(ns) ==
    /\ store[ns] = "terminating"
    /\ \A o \in Object : IsContentOf(o, ns) => ~Exists(o)
    /\ Vanish(ns)
    /\ UNCHANGED <<mo, pc, metrics, pass, unmovedPass, budget>>

(* Somebody with access to a cluster deletes an object.                     *)
Drift(o) ==
    /\ store[o] = "live"
    /\ Edit
    /\ Erase(o)
    /\ UNCHANGED <<mo, pc, metrics, pass, unmovedPass>>

(* The resource is gone and so is the reason to act.                        *)
Terminated == step = "done" /\ UNCHANGED vars

----------------------------------------------------------------------------
(* The specification.                                                       *)

Handler ==
    \/ StartPass
    \/ ListKind \/ GuardDecides
    \/ PrepareConflict \/ PrepareRejected \/ PrepareMalformed \/ Prepare
    \/ ApplyObject \/ ApplyObjectRefused
    \/ DeleteObject \/ DeleteObjectBlocked
    \/ ObjectsDone
    \/ ListOrphans \/ (\E o \in Swept : DeleteOrphan(o)) \/ CleanerDone
    \/ FinishApply \/ FinishDelete \/ RemoveFinalizer

FaultyHandler ==
    \/ ListKindFails \/ PrepareFails \/ ApplyObjectFails \/ DeleteObjectFails
    \/ ListOrphansFails \/ (\E o \in Swept : DeleteOrphanFails(o))
    \/ Crash

Users ==
    \/ RequestDeletion
    \/ \E v \in Version : ChangeVersion(v)
    \/ \E c \in Configs : ChangeProviderConfig(c)
    \/ \E k \in Kind : CreateMetric(k) \/ DeleteMetric(k)
    \/ \E o \in Drifters : Drift(o)

Controllers ==
    \/ \E o \in Flux : FluxReady(o) \/ FluxStalls(o) \/ FluxFinalizes(o)
    \/ HelmInstalls
    \/ \E o \in Object : PurgeContent(o)
    \/ \E ns \in ManagedNamespace : FinalizeNamespace(ns)

Next == Handler \/ FaultyHandler \/ Users \/ Controllers \/ Terminated

Spec == Init /\ [][Next]_vars

(* The runtime requeues every resource after an error, a RequeueAfter or    *)
(* the poll interval, and the process is restarted after a crash, so a pass *)
(* always starts again and goes on; Flux and the namespace controllers do   *)
(* their work in the end.  The user owes nothing.                           *)
Fairness ==
    /\ WF_vars(Handler)
    /\ \A o \in Flux : WF_vars(FluxReady(o)) /\ WF_vars(FluxFinalizes(o))
    /\ \A o \in Object : WF_vars(PurgeContent(o))
    /\ \A ns \in ManagedNamespace : WF_vars(FinalizeNamespace(ns))

FairSpec == Spec /\ Fairness

----------------------------------------------------------------------------
(* Properties.                                                              *)

(* Every variable holds a value the program or its clusters can produce,    *)
(* the walk through a list never runs more than one past its end, and the   *)
(* pass walks through objects only with a version that can be read.         *)
ClustersTyped ==
    /\ mo \in [version : Version, deleting : BOOLEAN, gone : BOOLEAN,
               id : BOOLEAN, status : Status]
    /\ pc \in Configs
    /\ store \in [Object -> StoreState]
    /\ ready \subseteq Flux
    /\ token \in Namespace \cup {NoToken}
    /\ metrics \subseteq Kind

PassTyped ==
    /\ step \in Step
    /\ pass \in [deleting : BOOLEAN, version : Version, pc : Configs,
                 stale : BOOLEAN, status : Status]
    /\ idx \in Nat \ {0}
    /\ items \subseteq Object
    /\ tally \in Tally
    /\ emptied \subseteq Kind
    /\ budget \in Budget

WalkInBounds ==
    /\ step = "guard" => idx <= Len(metricsListGVKs) + 1
    /\ step \in {"objects", "cleaners", "cleaning"} => Wanted \in Desired
    /\ step = "objects" => idx <= Len(Objects) + 1
    /\ step \in {"cleaners", "cleaning"} => idx <= NumCleaners

TypeOK == ClustersTyped /\ PassTyped /\ WalkInBounds

(* Once the finalizer is gone, nothing of the version the last Delete pass  *)
(* worked on is left on any cluster: AllDeleted, a namespace that takes     *)
(* time to empty, a blocked dependency or a lost answer never let the       *)
(* resource go before its objects.                                          *)
InventoryGone ==
    mo.gone /\ Wanted \in Desired =>
        \A i \in 1..Len(Objects) : store[Objects[i]] = "absent"

(* If moreover the cleaners of that pass could list, no copy of a secret or *)
(* CA bundle that any earlier version needed is left either.                *)
NoManagedCopyLeft ==
    mo.gone /\ Wanted \in Desired /\ ~tally.err =>
        \A o \in Swept : ~Managed(o)

(* Delete gets past its guard only after it saw every kind without          *)
(* instances: a kind that could not be listed does not count as empty.      *)
GuardSound ==
    pass.deleting /\ step \notin {"idle", "guard"} => emptied = Kind

(* No step, of the controller or of anybody it sets in motion, removes an   *)
(* object while an object that depends on it exists.  (Drift aside, which   *)
(* asks nobody.)                                                            *)
TeardownOrder ==
    [][ (\E o \in Drifters : Drift(o)) \/
        \A n \in Namespace : \A e \in DependsOn(n) :
            store[e[2]] = "live" /\ store'[e[2]] # "live" => store[e[1]] = "absent"
      ]_vars

(* A pass reports Ready only if all that the version calls for exists, and  *)
(* no secret or config map an earlier version left behind does.             *)
ReadyMeansSynced ==
    [][ FinishApply /\ mo'.status = "Ready" =>
          /\ \A i \in 1..Len(Objects) :
                Objects[i] \notin Drifters => store[Objects[i]] = "live"
          /\ \A o \in Swept : Managed(o) => InInventory(Wanted, o)
      ]_vars

(* The cleaners never remove an object the version calls for.               *)
CleanersSpareInventory ==
    [][ \A o \in Swept : DeleteOrphan(o) /\ store'[o] # store[o] =>
            ~InInventory(Wanted, o)
      ]_vars

(* The objects of other owners in the two namespaces are never adopted,     *)
(* changed or removed, unless they go with the instance namespace.          *)
BystandersSpared ==
    [][ \A o \in Bystander :
            store[o] = "foreign" /\ store'[o] # "foreign" =>
                /\ o.cluster = "Workload"
                /\ store[InstanceNamespace] = "terminating"
      ]_vars

(* A resource whose deletion was asked for goes, once the user has removed  *)
(* the metrics and its version has values that can be read.                 *)
DeletionCompletes ==
    <>[](mo.deleting /\ metrics = {} /\ pc[mo.version] # Malformed) => <>mo.gone

(* A resource nobody deletes, of a version that is offered, ends up Ready   *)
(* and stays so once people, faults and Flux come to rest.                  *)
Converges ==
    <>[](~mo.deleting /\ pc[mo.version] \notin {NotOffered, Malformed})
        => <>[](mo.status = "Ready")

----------------------------------------------------------------------------
(* Reconciler implements Lifecycle.                                         *)

ResourceSeen ==
    IF mo.gone THEN "gone" ELSE IF mo.deleting THEN "leaving" ELSE "wanted"

WorkDone ==
    CASE step = "idle"     -> "resting"
      [] step = "guard"    -> "asking"
      [] step = "finalize" -> "releasing"
      [] step = "done"     -> "over"
      [] OTHER             -> IF pass.deleting THEN "tearing" ELSE "applying"

InState(s) == {o \in Object : store[o] = s}

CalledFor ==
    IF Wanted \in {NotOffered, Malformed} THEN {}
    ELSE {Objects[i] : i \in 1..Len(Objects)}

LiesIn == {p \in Object \X ManagedNamespace : IsContentOf(p[1], p[2])}

L == INSTANCE Lifecycle WITH
        Copy     <- Swept,
        Lies     <- LiesIn,
        resource <- ResourceSeen,
        work     <- WorkDone,
        called   <- CalledFor,
        live     <- InState("live"),
        going    <- InState("terminating"),
        seen     <- emptied

(* Seen from the clusters, whatever passes, faults and crashes do, they do  *)
(* no more than the life cycle allows: objects appear only while a version  *)
(* that calls for them is applied; they are taken away only by a pass that  *)
(* saw every kind empty, or by a cleaner that need not keep them; and the   *)
(* resource goes when nothing its version called for is left.               *)
ImplementsLifecycle == L!Spec

----------------------------------------------------------------------------
(* What the documentation says.                                             *)

(* "Delete indicates that an object will be deleted when deletion is        *)
(* requested" (managedobject.go), and no object has the policy Orphan: a    *)
(* resource that is gone leaves nothing it created on the clusters.         *)
NothingLeftBehind == mo.gone => \A o \in Object \ Bystander : ~Managed(o)

(* A secret cleaner "removes redundant pull secrets in the given target     *)
(* namespace by removing any secret labeled as managed [...] that is not in *)
(* secretsToKeep" (secret.go): none is left when the resource is gone.      *)
NoCopyLeft == mo.gone /\ Wanted \in Desired => \A o \in Swept : ~Managed(o)

(* "OrphanCleaner removes any previously managed objects that are no longer *)
(* part of the desired state" (manager.go): a pass that reports Ready       *)
(* leaves no object behind that the version does not call for.              *)
ReadyMeansNothingStale ==
    [][ FinishApply /\ mo'.status = "Ready" =>
            \A o \in Object : Managed(o) => InInventory(Wanted, o) ]_vars

(* The secret of the instance namespace "contains a token for the remote    *)
(* service account" (serviceaccount.go): when a pass reports Ready, for the *)
(* one the version calls for.                                               *)
ReadyMeansTokenValid ==
    [][ FinishApply /\ mo'.status = "Ready" => token = Wanted.namespace ]_vars
=============================================================================
