--------------------------- MODULE TokenRotation ---------------------------
(***************************************************************************)
(* The token metrics-operator uses on the ControlPlane: the API server      *)
(* issues it for a while, passes of the controller renew it in the secret   *)
(* kube-api-access, and the kubelet brings the secret's content to the pod. *)
(* Reconciler leaves open when a pass renews the token; this module leaves  *)
(* out everything else a pass does, and adds the clock.                     *)
(*                                                                          *)
(* Times are in ticks of a unit the instance chooses.  What is kept of a    *)
(* token is the time it has left; Expired also stands for "there is none",  *)
(* the two cases in which getTokenExpirationTime gives no time to wait for. *)
(***************************************************************************)
EXTENDS Integers

CONSTANTS
    PollInterval,  \* ProviderConfig.spec.pollInterval
    Lifetime,      \* what the API server grants of the hour asked for
    Grace,         \* the "additional safeguard of a minute"
    Slack,         \* bound: how late a pass that is due writes the secret
    PodRefresh,    \* bound: how late the kubelet updates the volume
    MinBackoff,    \* first delay after a pass that returned an error
    MaxBackoff,    \* the longest it doubles to
    MaxFaults      \* bound: passes that do not get as far as the secret

VARIABLES
    left,     \* time left of the token in the secret
    mounted,  \* time left of the token the pod reads
    running,  \* the pod runs
    due,      \* time until the next pass writes the secret at the latest
    sync,     \* time until the kubelet looks at the secret at the latest
    backoff,  \* delay the next error will cost
    faults    \* passes so far that did not get as far as the secret

vars == <<left, mounted, running, due, sync, backoff, faults>>

ASSUME TimeAssumption ==
    /\ PollInterval \in Nat /\ Lifetime \in Nat /\ Grace \in Nat
    /\ Slack \in Nat /\ PodRefresh \in Nat \ {0}
    /\ MinBackoff \in Nat \ {0} /\ MaxBackoff \in Nat /\ MinBackoff <= MaxBackoff
    /\ MaxFaults \in Nat

Expired == -1

Init ==
    /\ left = Expired /\ mounted = Expired /\ running = FALSE
    /\ due = Slack /\ sync = PodRefresh
    /\ backoff = MinBackoff /\ faults = 0

----------------------------------------------------------------------------
(* Time passes, but not beyond what is due.                                 *)
Age(t) == IF t = Expired THEN Expired ELSE t - 1

Tick ==
    /\ due > 0 /\ (running => sync > 0)
    /\ left' = Age(left) /\ mounted' = Age(mounted)
    /\ due' = due - 1
    /\ sync' = IF running THEN sync - 1 ELSE sync
    /\ UNCHANGED <<running, backoff, faults>>

----------------------------------------------------------------------------
(* A pass.  It may come at any time, a change of the resource is enough.    *)

(* expirationTime.Before(now + pollInterval + 1 minute), or none.           *)
NeedsTokenWithoutGrace == left < PollInterval
NeedsToken == left < PollInterval + Grace

(* The hour counted from the end of the old token.                          *)
RenewOnTop ==
    left' = IF ~NeedsToken THEN left ELSE IF left = Expired THEN Lifetime ELSE left + Lifetime
Renew == left' = IF NeedsToken THEN Lifetime ELSE left

Grown(delay) == IF 2 * delay < MaxBackoff THEN 2 * delay ELSE MaxBackoff

PassSucceeds ==
    /\ Renew
    /\ due' = PollInterval + Slack
    /\ backoff' = MinBackoff
    /\ UNCHANGED <<mounted, running, sync, faults>>

(* Something else failed: the pass reached the secret all the same, but the *)
(* runtime retries after a delay of its own.                                *)
PassStopsAtFirstError ==
    /\ due' = backoff + Slack
    /\ backoff' = Grown(backoff)
    /\ UNCHANGED <<left, mounted, running, sync, faults>>
PassReturnsError ==
    /\ Renew
    /\ due' = backoff + Slack
    /\ backoff' = Grown(backoff)
    /\ UNCHANGED <<mounted, running, sync, faults>>

(* The token cannot be generated or written, or the pass ends before: its   *)
(* inputs cannot be read, the process dies.                                 *)
PassMissesSecret ==
    /\ faults < MaxFaults
    /\ faults' = faults + 1
    /\ due' = backoff + Slack
    /\ backoff' = Grown(backoff)
    /\ UNCHANGED <<left, mounted, running, sync>>

Pass == PassSucceeds \/ PassReturnsError \/ PassMissesSecret

----------------------------------------------------------------------------
(* The pod starts once the secret is there, and the kubelet keeps its       *)
(* volume up to date.                                                       *)

StartPod ==
    /\ ~running /\ left # Expired
    /\ running' = TRUE
    /\ mounted' = left
    /\ sync' = PodRefresh
    /\ UNCHANGED <<left, due, backoff, faults>>

KubeletSync ==
    /\ running
    /\ mounted' = left
    /\ sync' = PodRefresh
    /\ UNCHANGED <<left, running, due, backoff, faults>>

Next == Tick \/ Pass \/ StartPod \/ KubeletSync

Spec == Init /\ [][Next]_vars

(* Time goes on, and what is due happens.                                   *)
Fairness == WF_vars(Tick) /\ WF_vars(PassSucceeds \/ PassReturnsError)
                          /\ WF_vars(KubeletSync)

FairSpec == Spec /\ Fairness

----------------------------------------------------------------------------
(* Properties.                                                              *)

(* Every clock stays in its range: nothing is ever overdue, and a token     *)
(* that has expired has not got less than no time left.                     *)
TypeOK ==
    /\ left \in Expired..Lifetime /\ mounted \in Expired..Lifetime
    /\ running \in BOOLEAN
    /\ due \in Nat
    /\ sync \in 0..PodRefresh
    /\ backoff \in MinBackoff..MaxBackoff
    /\ faults \in 0..MaxFaults

(* "To make sure that the token is always refreshed in time"                *)
(* (serviceaccount.go): the pod never reads an expired token, unless a pass *)
(* did not get as far as the secret.                                        *)
TokenValid == running /\ faults = 0 => mounted # Expired

(* Even then it gets one that is valid again.                               *)
Recovers == (running /\ mounted = Expired) ~> mounted # Expired

(* When the above holds: one minute covers a late pass and a late kubelet,  *)
(* the token outlives a poll interval with both, and no retry is later than *)
(* a poll would have been.                                                  *)
Timely ==
    /\ Slack + PodRefresh <= Grace
    /\ PollInterval + Slack + PodRefresh <= Lifetime
    /\ MaxBackoff <= PollInterval
=============================================================================
