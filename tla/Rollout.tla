------------------------------- MODULE Rollout -------------------------------
(***************************************************************************)
(* How a version reaches the workload cluster: passes write it into an      *)
(* OCIRepository and a HelmRelease, the source controller fetches the       *)
(* chart, the Helm controller installs it, and passes report what the two   *)
(* Ready conditions say.  A condition may be that of a spec, or of a chart, *)
(* which is not the current one any more; the passes do not look at that.   *)
(*                                                                          *)
(* The release names the repository, not a version: a change of version     *)
(* that leaves the values alone leaves its spec, and the generation of its  *)
(* spec, as they are.  What the Helm controller works on is its plan.       *)
(*                                                                          *)
(* Passes belong to a worker each; of the other objects, of failed calls    *)
(* and of the deletion guard Reconciler takes care.                         *)
(***************************************************************************)
EXTENDS Naturals

CONSTANTS
    Worker,     \* who may run passes
    Version,    \* versions of the chart a user may ask for
    Values,     \* Helm values
    valuesOf,   \* version -> the values its ProviderConfig entry carries
    Broken,     \* versions whose chart cannot be fetched
    None,
    MaxEdits    \* bound: changes of version

VARIABLES
    target,    \* the version asked for
    leaving,   \* the deletion of the resource was asked for
    gone,      \* its finalizer was removed
    status,    \* what the last pass reported
    repo,      \* the OCIRepository
    release,   \* the HelmRelease
    deployed,  \* what Helm has installed
    pass,      \* the pass of each worker
    edits      \* changes so far

wishVars    == <<target, leaving, edits>>
fluxVars    == <<repo, release, deployed>>
rolloutVars == <<wishVars, gone, status, fluxVars, pass>>

ASSUME RolloutAssumption ==
    /\ valuesOf \in [Version -> Values]
    /\ Broken \subseteq Version
    /\ None \notin Version \cup Values
    /\ MaxEdits \in Nat

State   == {"absent", "live", "going"}
Status  == {"none", "Progressing", "Ready", "Terminating"}
PassAt  == {"idle", "repo", "release", "report"}
Chart   == [version : Version, values : Values]

(* observed: the source controller has taken up the present spec of the     *)
(* repository; plan: the chart and the values the Helm controller has taken *)
(* up, if any; ready: the Ready condition is True.                          *)
NoRepo    == [state |-> "absent", tag |-> None, artifact |-> None,
              observed |-> FALSE, ready |-> FALSE]
NoRelease == [state |-> "absent", values |-> None, plan |-> None, ready |-> FALSE]

(* ok: every answer so far is what the pass waits for; err: one is an error. *)
Idle == [at |-> "idle", deleting |-> FALSE, want |-> None, ok |-> TRUE, err |-> FALSE]

RolloutInit ==
    /\ target \in Version /\ leaving = FALSE /\ gone = FALSE /\ status = "none"
    /\ repo = NoRepo /\ release = NoRelease /\ deployed = None
    /\ pass = [w \in Worker |-> Idle]
    /\ edits = 0

----------------------------------------------------------------------------
(* A pass.  An Update that somebody else's came in between fails, so Get    *)
(* and Create or Update count as one step.                                  *)

StartPass(w) ==
    /\ pass[w].at = "idle" /\ ~gone
    /\ pass' = [pass EXCEPT ![w] = [at |-> "repo", deleting |-> leaving,
                                    want |-> target, ok |-> TRUE, err |-> FALSE]]
    /\ UNCHANGED <<wishVars, gone, status, fluxVars>>

At(w, place, deleting) == pass[w].at = place /\ pass[w].deleting = deleting

Advance(w, place, ok, err) ==
    pass' = [pass EXCEPT ![w].at = place, ![w].ok = @ /\ ok, ![w].err = @ \/ err]

(* FluxStatus: the phase is Ready.                                          *)
ReadyIfNotGoing(o) == o.state = "live"
FluxReady(o) == o.state = "live" /\ o.ready

RepoWith(v) ==
    IF repo.state = "absent" THEN [NoRepo EXCEPT !.state = "live", !.tag = v]
    ELSE IF repo.tag = v THEN repo ELSE [repo EXCEPT !.tag = v, !.observed = FALSE]

ReleaseWithFirstValues(x) ==
    IF release.state = "absent" THEN [NoRelease EXCEPT !.state = "live", !.values = x]
    ELSE release
ReleaseWith(x) ==
    IF release.state = "absent" THEN [NoRelease EXCEPT !.state = "live", !.values = x]
    ELSE [release EXCEPT !.values = x]

ApplyRepository(w) ==
    /\ At(w, "repo", FALSE)
    /\ repo' = RepoWith(pass[w].want)
    /\ Advance(w, "release", FluxReady(repo'), FALSE)
    /\ UNCHANGED <<wishVars, gone, status, release, deployed>>

ApplyRelease(w) ==
    /\ At(w, "release", FALSE)
    /\ release' = ReleaseWith(valuesOf[pass[w].want])
    /\ Advance(w, "report", FluxReady(release'), FALSE)
    /\ UNCHANGED <<wishVars, gone, status, repo, deployed>>

(* The status at the end of an Apply pass.                                  *)
ApplyPhase(ok)  == IF ok THEN "Ready" ELSE "Pending"
ApplyStatus(ok) == IF ok THEN "Ready" ELSE "Progressing"

(* There may be no resource any more to write the status to.                *)
ReportApply(w) ==
    /\ At(w, "report", FALSE)
    /\ status' = IF gone THEN status ELSE ApplyStatus(pass[w].ok)
    /\ pass' = [pass EXCEPT ![w] = Idle]
    /\ UNCHANGED <<wishVars, gone, fluxVars>>

(* An object counts as deleted if its DELETE call does not find it.         *)
CountsOnRequest(o) == TRUE
CountsAsDeleted(o) == o.state = "absent"

(* The repository comes first in the list.  That the release exists is an   *)
(* error, and the repository is then left alone.                            *)
DeleteRepository(w) ==
    /\ At(w, "repo", TRUE)
    /\ repo' = IF release.state = "absent" /\ repo.state = "live"
               THEN [repo EXCEPT !.state = "going"] ELSE repo
    /\ Advance(w, "release", release.state = "absent" /\ CountsAsDeleted(repo),
               release.state # "absent")
    /\ UNCHANGED <<wishVars, gone, status, release, deployed>>

DeleteRelease(w) ==
    /\ At(w, "release", TRUE)
    /\ release' = IF release.state = "live" THEN [release EXCEPT !.state = "going"]
                  ELSE release
    /\ Advance(w, "report", CountsAsDeleted(release), FALSE)
    /\ UNCHANGED <<wishVars, gone, status, repo, deployed>>

ReportDelete(w) ==
    /\ At(w, "report", TRUE)
    /\ gone' = (gone \/ pass[w].ok)
    /\ status' = IF gone \/ pass[w].ok THEN status
                 ELSE IF pass[w].err THEN "Progressing" ELSE "Terminating"
    /\ pass' = [pass EXCEPT ![w] = Idle]
    /\ UNCHANGED <<wishVars, fluxVars>>

ContinuePass(w) ==
    \/ ApplyRepository(w) \/ ApplyRelease(w) \/ ReportApply(w)
    \/ DeleteRepository(w) \/ DeleteRelease(w) \/ ReportDelete(w)

----------------------------------------------------------------------------
(* The user.                                                                *)

ChangeVersion ==
    /\ ~leaving /\ edits < MaxEdits /\ edits' = edits + 1
    /\ \E v \in Version \ {target} : target' = v
    /\ UNCHANGED <<leaving, gone, status, fluxVars, pass>>

AskToLeave ==
    /\ ~leaving /\ leaving' = TRUE
    /\ UNCHANGED <<target, edits, gone, status, fluxVars, pass>>

(* Flux.                                                                    *)

ObserveRepository ==
    /\ repo.state = "live" /\ ~repo.observed
    /\ repo' = [repo EXCEPT !.observed = TRUE, !.ready = FALSE]
    /\ UNCHANGED <<wishVars, gone, status, release, deployed, pass>>

FetchChart ==
    /\ repo.state = "live" /\ repo.observed /\ ~repo.ready /\ repo.tag \notin Broken
    /\ repo' = [repo EXCEPT !.artifact = repo.tag, !.ready = TRUE]
    /\ UNCHANGED <<wishVars, gone, status, release, deployed, pass>>

(* What the Helm controller would install now: the chart of a repository    *)
(* that is Ready for its present spec, with the values of the release.      *)
Current ==
    IF repo.state = "live" /\ repo.observed /\ repo.ready
    THEN [version |-> repo.artifact, values |-> release.values] ELSE None

ObserveRelease ==
    /\ release.state = "live" /\ release.plan # Current
    /\ release' = [release EXCEPT !.plan = Current, !.ready = FALSE]
    /\ UNCHANGED <<wishVars, gone, status, repo, deployed, pass>>

(* Spec and chart may have changed since the installation began.            *)
InstallChart ==
    /\ release.state = "live" /\ release.plan # None /\ ~release.ready
    /\ release' = [release EXCEPT !.ready = TRUE]
    /\ deployed' = release.plan
    /\ UNCHANGED <<wishVars, gone, status, repo, pass>>

FinalizeRepository ==
    /\ repo.state = "going" /\ repo' = NoRepo
    /\ UNCHANGED <<wishVars, gone, status, release, deployed, pass>>

Uninstall ==
    /\ release.state = "going" /\ release' = NoRelease
    /\ deployed' = None
    /\ UNCHANGED <<wishVars, gone, status, repo, pass>>

Flux == ObserveRepository \/ FetchChart \/ ObserveRelease \/ InstallChart
        \/ FinalizeRepository \/ Uninstall

Others == ChangeVersion \/ AskToLeave \/ Flux

RolloutNext == Others \/ \E w \in Worker : StartPass(w) \/ ContinuePass(w)

FluxFairness ==
    /\ WF_rolloutVars(ObserveRepository) /\ WF_rolloutVars(FetchChart)
    /\ WF_rolloutVars(FinalizeRepository) /\ WF_rolloutVars(ObserveRelease)
    /\ WF_rolloutVars(InstallChart) /\ WF_rolloutVars(Uninstall)

----------------------------------------------------------------------------
(* Properties.                                                              *)

RolloutTypeOK ==
    /\ target \in Version /\ leaving \in BOOLEAN /\ gone \in BOOLEAN
    /\ status \in Status
    /\ repo \in [state : State, tag : Version \cup {None}, artifact : Version \cup {None},
                 observed : BOOLEAN, ready : BOOLEAN]
    /\ release \in [state : State, values : Values \cup {None},
                    plan : Chart \cup {None}, ready : BOOLEAN]
    /\ deployed \in Chart \cup {None}
    /\ pass \in [Worker -> [at : PassAt, deleting : BOOLEAN,
                            want : Version \cup {None}, ok : BOOLEAN, err : BOOLEAN]]
    /\ edits \in 0..MaxEdits

(* A resource that is gone has left neither the Flux objects nor the chart  *)
(* behind, and they do not come back.                                       *)
GoneMeansClean ==
    gone => repo.state = "absent" /\ release.state = "absent" /\ deployed = None

(* A pass that reports Ready, be it too early for its own version, reports  *)
(* it of a resource that is served: some version whose chart could be       *)
(* fetched is installed, with the values of some version.  A condition      *)
(* outlives the spec it is about (flux.go, FluxStatus), never the release.  *)
ReadyMeansServing ==
    [][ \A w \in Worker : ReportApply(w) /\ status' = "Ready" =>
            deployed \in [version : Version \ Broken, values : Values]
      ]_rolloutVars

Wish == [version |-> target, values |-> valuesOf[target]]

(* "FluxStatus indicates whether the given object is in phase terminating,  *)
(* pending or ready" (flux.go), and a resource is Ready when all its        *)
(* objects are: so a pass that reports Ready has installed its version.     *)
ReadyMeansInstalled ==
    [][ \A w \in Worker : ReportApply(w) /\ status' = "Ready" =>
            deployed = [version |-> pass[w].want, values |-> valuesOf[pass[w].want]]
      ]_rolloutVars
=============================================================================
