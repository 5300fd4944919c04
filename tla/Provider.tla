------------------------------ MODULE Provider ------------------------------
(***************************************************************************)
(* The processes of Bootstrap running the passes of Rollout.  Only a        *)
(* process that is active starts a pass, a process that shuts down brings   *)
(* its pass to an end, and one that is down has none: what it had in memory *)
(* is lost.                                                                 *)
(***************************************************************************)
EXTENDS Bootstrap, Rollout

ASSUME WorkerAssumption == Worker = Replica

providerVars == <<bootVars, rolloutVars>>

Init == BootInit /\ RolloutInit

(* A process that goes down drops its pass.                                 *)
DropPasses == pass' = [r \in Replica |-> IF Running(r)' THEN pass[r] ELSE Idle]

Processes ==
    /\ BootNext /\ DropPasses
    /\ UNCHANGED <<wishVars, gone, status, fluxVars>>

(* A process that shuts down goes on with its pass, as long as it is        *)
(* patient.                                                                 *)
Passes(r) ==
    /\ \/ proc[r] = "active" /\ StartPass(r)
       \/ Running(r) /\ ContinuePass(r)
    /\ UNCHANGED bootVars

(* The resource is gone and nothing is left to do.                          *)
Finished == gone /\ UNCHANGED providerVars

Next ==
    \/ Processes
    \/ \E r \in Replica : Passes(r)
    \/ Others /\ UNCHANGED bootVars
    \/ Finished

Spec == Init /\ [][Next]_providerVars

(* The runtime starts a pass after every event, error and poll interval.    *)
Fairness == BootFairness /\ FluxFairness /\ \A r \in Replica : WF_providerVars(Passes(r))

FairSpec == Spec /\ Fairness

----------------------------------------------------------------------------
(* Properties.                                                              *)

TypeOK == BootTypeOK /\ RolloutTypeOK

(* Once people have come to rest and if the init job really did its work,   *)
(* the status tells the truth about the cluster: Ready, and stays so, with  *)
(* the version asked for installed, if it can be; and not Ready otherwise.  *)
HonestInTheEnd ==
    \A v \in Version :
        <>[](job = "done" /\ ~swallowed /\ ~leaving /\ target = v) =>
            IF v \in Broken THEN <>[](status # "Ready")
            ELSE <>[](status = "Ready" /\ deployed = Wish)
=============================================================================
