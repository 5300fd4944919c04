------------------------------ MODULE Bootstrap ------------------------------
(***************************************************************************)
(* The two commands of the program (main.go): the job that installs the     *)
(* CRDs and registers the service ("init"), which logs some of its errors   *)
(* and goes on, and the processes that run the controller ("run"), which    *)
(* come up, compete for a lease if they are told to, and go down.           *)
(***************************************************************************)
EXTENDS Naturals

CONSTANTS
    Replica,               \* processes of the controller
    Nobody,                \* holds the lease when no replica does
    enableLeaderElection,  \* --leader-elect
    MaxFaults              \* bound: errors, crashes, lost leases, shutdowns

VARIABLES
    job,         \* where the init job is
    access,      \* the job has a client for the onboarding cluster
    crds,        \* clusters that have their CRDs
    registered,  \* the service provider lists the kind
    swallowed,   \* history: this run of the job logged an error and went on
    proc,        \* where each replica is
    lease,       \* holder of the lease
    faults       \* faults so far

jobVars  == <<job, access, crds, registered, swallowed>>
bootVars == <<jobVars, proc, lease, faults>>

ASSUME BootstrapAssumption ==
    /\ Nobody \notin Replica
    /\ enableLeaderElection \in BOOLEAN
    /\ MaxFaults \in Nat

(* Clusters that get CRDs, by the label each CRD carries.                   *)
Cluster == {"platform", "onboarding"}

JobStep  == {"setup", "crds", "register", "done"}
ProcStep == {"down", "booting", "standby", "starting", "active", "stopping"}

BootInit ==
    /\ job = "setup" /\ access = FALSE /\ crds = {} /\ registered = FALSE
    /\ swallowed = FALSE
    /\ proc = [r \in Replica |-> "down"] /\ lease = Nobody
    /\ faults = 0

Fault == faults < MaxFaults /\ faults' = faults + 1

----------------------------------------------------------------------------
(* The init job.  It runs again until it exits with 0.                      *)

(* requestOnboardingClusterAccess; an error is logged, and that is all.     *)
JobAccess ==
    /\ job = "setup" /\ job' = "crds"
    /\ \/ access' = TRUE /\ UNCHANGED <<swallowed, faults>>
       \/ access' = FALSE /\ swallowed' = TRUE /\ Fault
    /\ UNCHANGED <<crds, registered, proc, lease>>

(* The clusters the CRD manager was given a client for.                     *)
ClustersMappedWithoutOnboarding == {"platform"}
ClustersMapped == {"platform", "onboarding"}

(* CreateOrUpdateCRDs; an error is logged.                                  *)
JobInstallsCrds ==
    /\ job = "crds" /\ access
    /\ job' = "register" /\ crds' = crds \cup ClustersMapped
    /\ UNCHANGED <<access, registered, swallowed, proc, lease, faults>>

JobFailsToInstall ==
    /\ job = "crds" /\ job' = "register" /\ swallowed' = TRUE
    /\ \/ access /\ Fault /\ \E some \in SUBSET ClustersMapped : crds' = crds \cup some
       \/ ~access /\ crds' \in {crds, crds \cup {"platform"}} /\ UNCHANGED faults
    /\ UNCHANGED <<access, registered, proc, lease>>

(* RegisterGVKsAtServiceProvider; after an error, too, the job returns.     *)
JobRegisters ==
    /\ job = "register" /\ job' = "done"
    /\ \/ registered' = TRUE /\ UNCHANGED <<swallowed, faults>>
       \/ swallowed' = TRUE /\ Fault /\ UNCHANGED registered
    /\ UNCHANGED <<access, crds, proc, lease>>

RestartJob == job' = "setup" /\ access' = FALSE /\ swallowed' = FALSE

(* os.Exit(1) before the command is looked at, or a crash.                  *)
JobDies ==
    /\ job # "done" /\ Fault
    /\ RestartJob
    /\ UNCHANGED <<crds, registered, proc, lease>>

(* The client that could not be had is used all the same.                   *)
JobPanics ==
    /\ job = "crds" /\ ~access
    /\ RestartJob /\ crds' \in {crds, crds \cup {"platform"}}
    /\ UNCHANGED <<registered, proc, lease, faults>>

Job == JobAccess \/ JobInstallsCrds \/ JobFailsToInstall \/ JobRegisters \/ JobDies
       \/ JobPanics

----------------------------------------------------------------------------
(* The controller.                                                          *)

Move(r, from, to) == proc[r] = from /\ proc' = [proc EXCEPT ![r] = to]

(* The lease of a process that ends in order (ReleaseOnCancel).             *)
Release(r) == lease' = IF lease = r THEN Nobody ELSE lease

Launch(r) ==
    /\ Move(r, "down", "booting")
    /\ UNCHANGED <<jobVars, lease, faults>>

(* Logger, platform client, POD_NAMESPACE, cluster access, manager, access  *)
(* reconciler, controller and probes are set up, and the manager started.   *)
SetUp(r) ==
    /\ Move(r, "booting", "standby")
    /\ UNCHANGED <<jobVars, lease, faults>>

(* One of them fails: os.Exit(1), or a panic where the cluster access that  *)
(* could not be had is used all the same.                                   *)
SetUpFails(r) ==
    /\ Move(r, "booting", "down") /\ Fault
    /\ UNCHANGED <<jobVars, lease>>

Acquire(r) ==
    /\ Move(r, "standby", "starting")
    /\ IF enableLeaderElection THEN lease = Nobody /\ lease' = r ELSE UNCHANGED lease
    /\ UNCHANGED <<jobVars, faults>>

(* The sources of the controller need the CRDs.                             *)
Serve(r) ==
    /\ crds = Cluster
    /\ Move(r, "starting", "active")
    /\ UNCHANGED <<jobVars, lease, faults>>

StartFails(r) ==
    /\ crds # Cluster
    /\ Move(r, "starting", "down") /\ Release(r)
    /\ UNCHANGED <<jobVars, faults>>

(* SIGTERM: the manager lets the passes that run come to their end, ...     *)
Terminate(r) ==
    /\ Move(r, "starting", "stopping") \/ Move(r, "active", "stopping")
    /\ Fault
    /\ UNCHANGED <<jobVars, lease>>

(* ... gives the lease back, and nothing follows after Start in main.       *)
ExitLate(r) ==
    /\ proc[r] = "stopping" /\ Release(r)
    /\ UNCHANGED <<jobVars, proc, faults>>
Exit(r) ==
    /\ Move(r, "stopping", "down") /\ Release(r)
    /\ UNCHANGED <<jobVars, faults>>

(* The process dies, or could not renew its lease in time and exits.  The   *)
(* lease stays in its name.                                                 *)
Crash(r) ==
    /\ proc[r] # "down" /\ proc' = [proc EXCEPT ![r] = "down"]
    /\ Fault
    /\ UNCHANGED <<jobVars, lease>>

(* The lease lasts longer than its holder tries to renew it.                *)
LeaseExpires(r) ==
    /\ lease = r /\ proc[r] \in {"down", "booting", "standby"}
    /\ lease' = Nobody
    /\ UNCHANGED <<jobVars, proc, faults>>

Progress(r) ==
    \/ Launch(r) \/ SetUp(r) \/ Acquire(r) \/ Serve(r) \/ StartFails(r) \/ Exit(r)
    \/ LeaseExpires(r)

Setback(r) == SetUpFails(r) \/ Terminate(r) \/ Crash(r)

BootNext == Job \/ \E r \in Replica : Progress(r) \/ Setback(r)

BootSpec == BootInit /\ [][BootNext]_bootVars

(* The platform runs the job until it succeeds and starts processes that    *)
(* went down; what a process has begun, it goes on with.                    *)
BootFairness == WF_bootVars(Job) /\ \A r \in Replica : WF_bootVars(Progress(r))

----------------------------------------------------------------------------
(* Properties.                                                              *)

(* A process that may have passes under way.                                *)
Running(r) == proc[r] \in {"active", "stopping"}

BootTypeOK ==
    /\ job \in JobStep
    /\ access \in BOOLEAN /\ registered \in BOOLEAN /\ swallowed \in BOOLEAN
    /\ crds \subseteq Cluster
    /\ proc \in [Replica -> ProcStep]
    /\ lease \in Replica \cup {Nobody}
    /\ faults \in 0..MaxFaults

(* "Enabling this will ensure there is only one active controller manager"  *)
(* (main.go, leader-elect), passes that a shutdown still waits for          *)
(* included: the early release of the lease never lets two processes work.  *)
OneManager ==
    enableLeaderElection =>
        \A r, s \in Replica : Running(r) /\ Running(s) => r = s

(* Unless the job ended on an error it had only logged, the service comes   *)
(* up and comes up again after everything that goes wrong.                  *)
Serves == <>[](job = "done" /\ ~swallowed) => []<>(\E r \in Replica : proc[r] = "active")
=============================================================================
