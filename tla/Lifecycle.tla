----------------------------- MODULE Lifecycle -----------------------------
(***************************************************************************)
(* What a MetricsOperator resource promises to the people around it: when   *)
(* objects may appear on the clusters, who may take which of them away and  *)
(* when, what has to be seen before anything is torn down, and what must be *)
(* gone before the resource is.  How a pass goes about it (its order, its   *)
(* retries, what it has in memory, crashes) is left to the implementation.  *)
(***************************************************************************)
EXTENDS FiniteSets

CONSTANTS
    Object,    \* everything that can exist on the clusters
    Kind,      \* kinds of metrics CRs that protect the resource
    Copy,      \* secrets and config maps, which the cleaners reach
    Lies,      \* <<object, namespace>>: the object lies in the namespace
    Drifters   \* objects somebody else may delete

VARIABLES
    resource,  \* what the user made of the resource
    work,      \* what the provider is doing for it
    called,    \* objects called for by the version the provider works on
    live,      \* objects of the provider
    going,     \* objects that were told to go and have not gone yet
    metrics,   \* kinds with instances
    seen       \* kinds the provider found without instances in this attempt

vars == <<resource, work, called, live, going, metrics, seen>>

TypeOK ==
    /\ resource \in {"wanted", "leaving", "gone"}
    /\ work \in {"resting", "applying", "asking", "tearing", "releasing", "over"}
    /\ called \subseteq Object /\ live \subseteq Object /\ going \subseteq Object
    /\ metrics \subseteq Kind /\ seen \subseteq Kind

Init ==
    /\ resource = "wanted" /\ work = "resting" /\ called \subseteq Object
    /\ live = {} /\ going = {} /\ metrics = {} /\ seen = {}

Outcome == <<live, going>>
Intent  == <<resource, metrics>>

----------------------------------------------------------------------------
(* The provider.                                                            *)

Begin ==
    /\ work = "resting"
    /\ \/ resource = "wanted" /\ work' = "applying"
       \/ resource = "leaving" /\ work' = "asking"
    /\ called' \subseteq Object /\ seen' = {}
    /\ UNCHANGED <<Intent, Outcome>>

Rest ==
    /\ work # "over" /\ work' = "resting"
    /\ UNCHANGED <<Intent, Outcome, called, seen>>

Install ==
    /\ work = "applying"
    /\ live \subseteq live' /\ live' \ live \subseteq called
    /\ UNCHANGED <<Intent, going, work, called, seen>>

(* A copy that is not called for any more.                                  *)
Prune(o) ==
    /\ work \in {"applying", "tearing"}
    /\ o \in Copy /\ o \notin called
    /\ live' = live \ {o} /\ going' = going \ {o}
    /\ UNCHANGED <<Intent, work, called, seen>>

Ask(k) ==
    /\ work = "asking" /\ k \notin metrics
    /\ seen' = seen \cup {k}
    /\ UNCHANGED <<Intent, Outcome, work, called>>

Proceed ==
    /\ work = "asking" /\ seen = Kind
    /\ work' = "tearing"
    /\ UNCHANGED <<Intent, Outcome, called, seen>>

Take(o) ==
    /\ work = "tearing" /\ o \in called
    /\ live' = live \ {o} /\ going' \in {going \cup {o}, going \ {o}}
    /\ UNCHANGED <<Intent, work, called, seen>>

NothingCalledIsLeft == called \cap (live \cup going) = {}

Settle ==
    /\ work = "tearing" /\ NothingCalledIsLeft
    /\ work' = "releasing"
    /\ UNCHANGED <<Intent, Outcome, called, seen>>

Release ==
    /\ work = "releasing" /\ NothingCalledIsLeft
    /\ work' = "over" /\ resource' = "gone"
    /\ UNCHANGED <<Outcome, called, metrics, seen>>

----------------------------------------------------------------------------
(* Everybody else.                                                          *)

AskToLeave ==
    /\ resource = "wanted" /\ resource' = "leaving"
    /\ UNCHANGED <<work, called, Outcome, metrics, seen>>

MetricsChange ==
    /\ metrics' \subseteq Kind
    /\ resource = "gone" => metrics' \subseteq metrics
    /\ UNCHANGED <<resource, work, called, Outcome, seen>>

(* What was told to go, or lies in a namespace that was, goes.              *)
Go(o) ==
    /\ o \in going \/ \E ns \in going : <<o, ns>> \in Lies
    /\ live' = live \ {o} /\ going' = going \ {o}
    /\ UNCHANGED <<Intent, work, called, seen>>

Drift(o) ==
    /\ o \in live
    /\ live' = live \ {o} /\ going' \in {going \cup {o}, going \ {o}}
    /\ UNCHANGED <<Intent, work, called, seen>>

Next ==
    \/ Begin \/ Rest \/ Install \/ Proceed \/ Settle \/ Release
    \/ \E k \in Kind : Ask(k)
    \/ AskToLeave \/ MetricsChange
    \/ \E o \in called : Take(o)
    \/ \E o \in live \cup going : Prune(o) \/ Go(o)
    \/ \E o \in Drifters : Drift(o)

Spec == Init /\ [][Next]_vars

----------------------------------------------------------------------------
(* What follows from it alone.                                              *)

(* Nothing is torn down for a resource nobody asked to leave, nor before    *)
(* every kind was found without instances in the same attempt.              *)
Protected ==
    /\ work \in {"asking", "tearing", "releasing"} => resource = "leaving"
    /\ work \in {"tearing", "releasing"} => seen = Kind

(* A resource that is gone leaves nothing its last version called for, and  *)
(* nothing of it comes back.                                                *)
GoneForGood == resource = "gone" => work = "over" /\ NothingCalledIsLeft
=============================================================================
