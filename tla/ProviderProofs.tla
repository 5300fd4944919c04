--------------------------- MODULE ProviderProofs ---------------------------
(***************************************************************************)
(* With leader election, one process works at a time, however many there    *)
(* are and whatever happens to them; and while that is so, a resource that  *)
(* is gone leaves nothing behind, whichever process ran which pass, and a   *)
(* resource that is reported Ready has something installed.                 *)
(***************************************************************************)
EXTENDS Provider, TLAPS

----------------------------------------------------------------------------
(* Type correctness.                                                        *)

LEMMA FaultTyped ==
    ASSUME faults \in 0..MaxFaults, Fault
    PROVE  faults' \in 0..MaxFaults
BY BootstrapAssumption DEF Fault

LEMMA JobTyped ==
    ASSUME BootTypeOK, Job
    PROVE  BootTypeOK'
<1> USE FaultTyped DEF BootTypeOK, JobStep, Cluster, RestartJob
<1>1. CASE JobAccess
  BY <1>1 DEF JobAccess
<1>2. CASE JobInstallsCrds
  BY <1>2 DEF JobInstallsCrds, ClustersMapped
<1>3. CASE JobFailsToInstall
  BY <1>3 DEF JobFailsToInstall, ClustersMapped
<1>4. CASE JobRegisters
  BY <1>4 DEF JobRegisters
<1>5. CASE JobDies
  BY <1>5 DEF JobDies
<1>6. CASE JobPanics
  BY <1>6 DEF JobPanics
<1> QED
  BY <1>1, <1>2, <1>3, <1>4, <1>5, <1>6 DEF Job

LEMMA ProcessTyped ==
    ASSUME BootTypeOK, NEW r \in Replica, Progress(r) \/ Setback(r)
    PROVE  BootTypeOK'
<1> USE FaultTyped DEF BootTypeOK, jobVars, Move, Release, ProcStep
<1>1. CASE Launch(r) \/ SetUp(r) \/ Serve(r)
  BY <1>1 DEF Launch, SetUp, Serve
<1>2. CASE Acquire(r)
  BY <1>2 DEF Acquire
<1>3. CASE StartFails(r) \/ Exit(r)
  BY <1>3 DEF StartFails, Exit
<1>4. CASE LeaseExpires(r)
  BY <1>4 DEF LeaseExpires
<1>5. CASE SetUpFails(r)
  BY <1>5 DEF SetUpFails
<1>6. CASE Terminate(r)
  BY <1>6 DEF Terminate
<1>7. CASE Crash(r)
  BY <1>7 DEF Crash
<1> QED
  BY <1>1, <1>2, <1>3, <1>4, <1>5, <1>6, <1>7 DEF Progress, Setback

----------------------------------------------------------------------------
(* OneManager.  What a process does on its own never shows who else is at   *)
(* work; the lease does, provided that a process that works holds it.       *)

LeaseHeld ==
    enableLeaderElection =>
        \A r \in Replica : proc[r] \in {"starting", "active", "stopping"} => lease = r

LEMMA LeaseHeldNext ==
    ASSUME BootTypeOK, LeaseHeld, BootNext
    PROVE  LeaseHeld'
<1> USE DEF LeaseHeld, BootTypeOK, jobVars, Move, Release, ProcStep
<1>1. CASE Job
  BY <1>1 DEF Job, JobAccess, JobInstallsCrds, JobFailsToInstall, JobRegisters, JobDies,
              JobPanics
<1>2. ASSUME NEW r \in Replica, Progress(r) \/ Setback(r) PROVE LeaseHeld'
  <2>1. CASE Launch(r) \/ SetUp(r) \/ Serve(r)
    BY <1>2, <2>1 DEF Launch, SetUp, Serve
  <2>2. CASE Acquire(r)
    BY <1>2, <2>2, BootstrapAssumption DEF Acquire
  <2>3. CASE StartFails(r) \/ Exit(r)
    BY <1>2, <2>3 DEF StartFails, Exit
  <2>4. CASE LeaseExpires(r)
    BY <1>2, <2>4 DEF LeaseExpires
  <2>5. CASE SetUpFails(r) \/ Terminate(r) \/ Crash(r)
    BY <1>2, <2>5 DEF SetUpFails, Terminate, Crash
  <2> QED
    BY <1>2, <2>1, <2>2, <2>3, <2>4, <2>5 DEF Progress, Setback
<1> QED
  BY <1>1, <1>2 DEF BootNext

LEMMA LeaseExcludes == LeaseHeld => OneManager
BY DEF LeaseHeld, OneManager, Running

----------------------------------------------------------------------------
(* The passes of Rollout.                                                   *)

PassSet == [at : PassAt, deleting : BOOLEAN, want : Version \cup {None}, ok : BOOLEAN,
            err : BOOLEAN]

(* Objects that exist have been written by a pass of some version; what is  *)
(* ready has a chart, and what is installed has a release.                  *)
RolloutSound ==
    /\ \A w \in Worker : pass[w].at # "idle" => pass[w].want \in Version
    /\ repo.state = "live" => repo.tag \in Version
    /\ repo.ready => repo.artifact \in Version
    /\ release.state # "absent" => release.values \in Values
    /\ deployed # None => release.state # "absent"

RolloutInv == RolloutTypeOK /\ RolloutSound

(* A pass that goes on keeps what it is about, and does not get better.     *)
LEMMA AdvanceKeeps ==
    ASSUME RolloutTypeOK, NEW w \in Worker, NEW place \in PassAt, NEW ok \in BOOLEAN,
           NEW err \in BOOLEAN, Advance(w, place, ok, err)
    PROVE  /\ pass' \in [Worker -> PassSet]
           /\ pass'[w].at = place
           /\ pass'[w].ok => pass[w].ok /\ ok
           /\ \A v \in Worker : /\ pass'[v].want = pass[v].want
                                /\ pass'[v].deleting = pass[v].deleting
           /\ \A v \in Worker \ {w} : pass'[v] = pass[v]
<1>1. pass[w] \in PassSet /\ pass \in [Worker -> PassSet]
  BY DEF RolloutTypeOK, PassSet
<1> DEFINE both == pass[w].ok /\ ok
           errs == pass[w].err \/ err
           next == [pass[w] EXCEPT !.at = place, !.ok = both, !.err = errs]
<1>2. both \in BOOLEAN /\ errs \in BOOLEAN
  OBVIOUS
<1>3. pass' = [pass EXCEPT ![w] = next]
  BY <1>1 DEF Advance
<1> HIDE DEF both, errs
<1>4. /\ next \in PassSet /\ next.at = place /\ next.ok = both
      /\ next.want = pass[w].want /\ next.deleting = pass[w].deleting
  BY <1>1, <1>2 DEF PassSet
<1> HIDE DEF next
<1>5. /\ pass' \in [Worker -> PassSet] /\ pass'[w] = next
      /\ \A v \in Worker \ {w} : pass'[v] = pass[v]
  BY <1>1, <1>3, <1>4
<1>6. pass'[w].ok => pass[w].ok /\ ok
  BY <1>4, <1>5 DEF both
<1> QED
  BY <1>4, <1>5, <1>6

LEMMA RepoTyped ==
    ASSUME RolloutInv, NEW v \in Version, repo' = RepoWith(v)
    PROVE  /\ repo' \in [state : State, tag : Version \cup {None},
                          artifact : Version \cup {None}, observed : BOOLEAN,
                          ready : BOOLEAN]
           /\ repo'.tag \in Version
           /\ repo'.state # "absent"
           /\ repo'.ready => repo'.artifact \in Version
           /\ FluxReady(repo') \in BOOLEAN
<1> USE DEF RolloutInv, RolloutTypeOK, RolloutSound, State
<1>1. CASE repo.state = "absent"
  BY <1>1 DEF RepoWith, NoRepo, FluxReady
<1>2. CASE repo.state # "absent" /\ repo.tag = v
  BY <1>2 DEF RepoWith, FluxReady
<1>3. CASE repo.state # "absent" /\ repo.tag # v
  BY <1>3 DEF RepoWith, FluxReady
<1> QED
  BY <1>1, <1>2, <1>3

LEMMA ReleaseTyped ==
    ASSUME RolloutInv, NEW x \in Values, release' = ReleaseWith(x)
    PROVE  /\ release' \in [state : State, values : Values \cup {None},
                             plan : Chart \cup {None}, ready : BOOLEAN]
           /\ release'.values = x
           /\ release'.state # "absent"
           /\ FluxReady(release') \in BOOLEAN
<1> USE DEF RolloutInv, RolloutTypeOK, RolloutSound, State
<1>1. CASE release.state = "absent"
  BY <1>1 DEF ReleaseWith, NoRelease, FluxReady
<1>2. CASE release.state # "absent" /\ release.values = x
  BY <1>2 DEF ReleaseWith, FluxReady
<1>3. CASE release.state # "absent" /\ release.values # x
  BY <1>3 DEF ReleaseWith, FluxReady
<1> QED
  BY <1>1, <1>2, <1>3

LEMMA StartKeeps ==
    ASSUME RolloutInv, NEW w \in Worker, StartPass(w)
    PROVE  RolloutInv'
<1>1. [at |-> "repo", deleting |-> leaving, want |-> target, ok |-> TRUE,
          err |-> FALSE] \in PassSet
  BY DEF RolloutInv, RolloutTypeOK, PassSet, PassAt
<1> QED
  BY <1>1 DEF StartPass, RolloutInv, RolloutTypeOK, RolloutSound, PassSet, wishVars, fluxVars

LEMMA ContinueKeeps ==
    ASSUME RolloutInv, NEW w \in Worker, ContinuePass(w)
    PROVE  RolloutInv'
<1> USE DEF RolloutInv, wishVars, fluxVars
<1>1. pass[w].at # "idle" /\ pass[w].want \in Version
  BY DEF ContinuePass, ApplyRepository, ApplyRelease, ReportApply, DeleteRepository,
         DeleteRelease, ReportDelete, At, RolloutSound
<1>2. {"repo", "release", "report"} \subseteq PassAt
  BY DEF PassAt
<1>3. CASE ApplyRepository(w)
  <2> DEFINE blocked == FALSE
  <2>1. /\ repo' = RepoWith(pass[w].want)
        /\ Advance(w, "release", FluxReady(repo'), blocked)
        /\ UNCHANGED <<target, leaving, edits, gone, status, release, deployed>>
    BY <1>3 DEF ApplyRepository
  <2>2. FluxReady(repo') \in BOOLEAN /\ blocked \in BOOLEAN
    BY <1>1, <2>1, RepoTyped
  <2> HIDE DEF blocked
  <2>3. /\ pass' \in [Worker -> PassSet]
        /\ \A v \in Worker : pass'[v].want = pass[v].want
        /\ \A v \in Worker \ {w} : pass'[v] = pass[v]
    BY <1>1, <1>2, <2>1, <2>2, AdvanceKeeps
  <2> QED
    BY <1>1, <2>1, <2>3, RepoTyped DEF RolloutTypeOK, RolloutSound, PassSet
<1>4. CASE ApplyRelease(w)
  <2> DEFINE blocked == FALSE
  <2>1. /\ release' = ReleaseWith(valuesOf[pass[w].want])
        /\ Advance(w, "report", FluxReady(release'), blocked)
        /\ UNCHANGED <<target, leaving, edits, gone, status, repo, deployed>>
    BY <1>4 DEF ApplyRelease
  <2>2. valuesOf[pass[w].want] \in Values
    BY <1>1, RolloutAssumption
  <2>3. FluxReady(release') \in BOOLEAN /\ blocked \in BOOLEAN
    BY <2>1, <2>2, ReleaseTyped
  <2> HIDE DEF blocked
  <2>4. /\ pass' \in [Worker -> PassSet]
        /\ \A v \in Worker : pass'[v].want = pass[v].want
        /\ \A v \in Worker \ {w} : pass'[v] = pass[v]
    BY <1>1, <1>2, <2>1, <2>3, AdvanceKeeps
  <2> QED
    BY <1>1, <2>1, <2>2, <2>4, ReleaseTyped DEF RolloutTypeOK, RolloutSound, PassSet
<1>5. CASE ReportApply(w) \/ ReportDelete(w)
  <2>1. Idle \in PassSet
    BY DEF Idle, PassSet, PassAt
  <2>2. /\ pass' = [pass EXCEPT ![w] = Idle]
        /\ UNCHANGED <<target, leaving, edits, repo, release, deployed>>
        /\ status' \in Status /\ gone' \in BOOLEAN
    BY <1>5 DEF ReportApply, ReportDelete, ApplyStatus, RolloutTypeOK, Status
  <2> QED
    BY <2>1, <2>2 DEF RolloutTypeOK, RolloutSound, PassSet, Idle
<1>6. CASE DeleteRepository(w)
  <2> DEFINE found   == release.state = "absent" /\ CountsAsDeleted(repo)
             blocked == release.state # "absent"
  <2>1. /\ repo' \in {repo, [repo EXCEPT !.state = "going"]}
        /\ UNCHANGED <<target, leaving, edits, gone, status, release, deployed>>
        /\ Advance(w, "release", found, blocked)
    BY <1>6 DEF DeleteRepository
  <2>2. found \in BOOLEAN /\ blocked \in BOOLEAN
    BY DEF CountsAsDeleted
  <2> HIDE DEF found, blocked
  <2>3. /\ pass' \in [Worker -> PassSet]
        /\ \A v \in Worker : pass'[v].want = pass[v].want
        /\ \A v \in Worker \ {w} : pass'[v] = pass[v]
    BY <1>1, <1>2, <2>1, <2>2, AdvanceKeeps
  <2> QED
    BY <1>1, <2>1, <2>3 DEF RolloutTypeOK, RolloutSound, PassSet, State
<1>7. CASE DeleteRelease(w)
  <2> DEFINE found   == CountsAsDeleted(release)
             blocked == FALSE
  <2>1. /\ \/ release' = release
           \/ release.state = "live" /\ release' = [release EXCEPT !.state = "going"]
        /\ UNCHANGED <<target, leaving, edits, gone, status, repo, deployed>>
        /\ Advance(w, "report", found, blocked)
    BY <1>7 DEF DeleteRelease
  <2>2. found \in BOOLEAN /\ blocked \in BOOLEAN
    BY DEF CountsAsDeleted
  <2> HIDE DEF found, blocked
  <2>3. /\ pass' \in [Worker -> PassSet]
        /\ \A v \in Worker : pass'[v].want = pass[v].want
        /\ \A v \in Worker \ {w} : pass'[v] = pass[v]
    BY <1>1, <1>2, <2>1, <2>2, AdvanceKeeps
  <2> QED
    BY <1>1, <2>1, <2>3 DEF RolloutTypeOK, RolloutSound, PassSet, State
<1> QED
  BY <1>3, <1>4, <1>5, <1>6, <1>7 DEF ContinuePass

LEMMA OthersKeep ==
    ASSUME RolloutInv, Others
    PROVE  RolloutInv'
<1> USE DEF RolloutInv, RolloutTypeOK, RolloutSound, wishVars, fluxVars, State
<1>1. CASE ChangeVersion
  BY <1>1, RolloutAssumption DEF ChangeVersion
<1>2. CASE AskToLeave
  BY <1>2 DEF AskToLeave
<1>3. CASE ObserveRepository
  BY <1>3 DEF ObserveRepository
<1>4. CASE FetchChart
  BY <1>4 DEF FetchChart
<1>5. CASE ObserveRelease
  <2>1. release.values \in Values /\ (repo.ready => repo.artifact \in Version)
    BY <1>5 DEF ObserveRelease
  <2>2. Current \in Chart \cup {None}
    BY <2>1 DEF Current, Chart
  <2>3. /\ release' = [release EXCEPT !.plan = Current, !.ready = FALSE]
        /\ UNCHANGED <<target, leaving, edits, gone, status, repo, deployed, pass>>
        /\ release.state # "absent"
    BY <1>5 DEF ObserveRelease
  <2> HIDE DEF Current
  <2> QED
    BY <2>1, <2>2, <2>3
<1>6. CASE InstallChart
  BY <1>6, RolloutAssumption DEF InstallChart, Chart
<1>7. CASE FinalizeRepository
  BY <1>7 DEF FinalizeRepository, NoRepo
<1>8. CASE Uninstall
  BY <1>8 DEF Uninstall, NoRelease
<1> QED
  BY <1>1, <1>2, <1>3, <1>4, <1>5, <1>6, <1>7, <1>8 DEF Others, Flux

LEMMA DropKeeps ==
    ASSUME RolloutInv, Processes
    PROVE  RolloutInv'
<1>1. /\ pass' = [r \in Replica |-> IF Running(r)' THEN pass[r] ELSE Idle]
      /\ UNCHANGED <<target, leaving, edits, gone, status, repo, release, deployed>>
  BY DEF Processes, DropPasses, wishVars, fluxVars
<1>2. Idle \in PassSet /\ Idle.at = "idle"
  BY DEF Idle, PassSet, PassAt
<1>3. /\ pass' \in [Worker -> PassSet]
      /\ \A w \in Worker : pass'[w].at # "idle" => pass'[w].want \in Version
  BY <1>1, <1>2, WorkerAssumption DEF RolloutInv, RolloutTypeOK, RolloutSound, PassSet
<1> QED
  BY <1>1, <1>3 DEF RolloutInv, RolloutTypeOK, RolloutSound, PassSet

(* What holds of the processes alone, and of the passes alone.              *)
PartsInv == BootTypeOK /\ LeaseHeld /\ RolloutInv

LEMMA PartsInit == Init => PartsInv
<1> SUFFICES ASSUME Init PROVE PartsInv
  OBVIOUS
<1>1. BootTypeOK /\ LeaseHeld
  <2>1. 0 \in 0..MaxFaults
    BY BootstrapAssumption
  <2>2. \A r \in Replica : proc[r] = "down"
    BY DEF Init, BootInit
  <2>3. proc \in [Replica -> ProcStep]
    BY DEF Init, BootInit, ProcStep
  <2> QED
    BY <2>1, <2>2, <2>3 DEF Init, BootInit, BootTypeOK, LeaseHeld, JobStep
<1>2. NoRepo \in [state : State, tag : Version \cup {None}, artifact : Version \cup {None},
                  observed : BOOLEAN, ready : BOOLEAN]
  BY DEF NoRepo, State
<1>3. NoRelease \in [state : State, values : Values \cup {None}, plan : Chart \cup {None},
                     ready : BOOLEAN]
  BY DEF NoRelease, State
<1>4. Idle \in PassSet /\ Idle.at = "idle"
  BY DEF Idle, PassSet, PassAt
<1>5. RolloutTypeOK
  <2>1. 0 \in 0..MaxEdits
    BY RolloutAssumption
  <2>2. pass \in [Worker -> PassSet]
    BY <1>4 DEF Init, RolloutInit
  <2> QED
    BY <1>2, <1>3, <2>1, <2>2 DEF Init, RolloutInit, RolloutTypeOK, PassSet, Status
<1>6. RolloutSound
  BY <1>4 DEF Init, RolloutInit, RolloutSound, NoRepo, NoRelease
<1> QED
  BY <1>1, <1>5, <1>6 DEF PartsInv, RolloutInv

LEMMA PartsNext == PartsInv /\ [Next]_providerVars => PartsInv'
<1> SUFFICES ASSUME PartsInv, [Next]_providerVars PROVE PartsInv'
  OBVIOUS
<1>1. ASSUME UNCHANGED bootVars PROVE (BootTypeOK /\ LeaseHeld)'
  BY <1>1 DEF PartsInv, bootVars, jobVars, BootTypeOK, LeaseHeld
<1>2. ASSUME UNCHANGED rolloutVars PROVE RolloutInv'
  BY <1>2 DEF PartsInv, RolloutInv, RolloutTypeOK, RolloutSound, rolloutVars, wishVars, fluxVars
<1>3. CASE Processes
  <2>1. BootTypeOK'
    BY <1>3, JobTyped, ProcessTyped DEF PartsInv, Processes, BootNext
  <2>2. LeaseHeld'
    BY <1>3, LeaseHeldNext DEF PartsInv, Processes
  <2>3. RolloutInv'
    BY <1>3, DropKeeps DEF PartsInv
  <2> QED
    BY <2>1, <2>2, <2>3 DEF PartsInv
<1>4. ASSUME NEW r \in Replica, Passes(r) PROVE PartsInv'
  <2>1. r \in Worker /\ (StartPass(r) \/ ContinuePass(r)) /\ UNCHANGED bootVars
    BY <1>4, WorkerAssumption DEF Passes
  <2> QED
    BY <1>1, <2>1, StartKeeps, ContinueKeeps DEF PartsInv
<1>5. CASE Others /\ UNCHANGED bootVars
  BY <1>1, <1>5, OthersKeep DEF PartsInv
<1>6. CASE UNCHANGED providerVars
  <2>1. UNCHANGED bootVars /\ UNCHANGED rolloutVars
    BY <1>6 DEF providerVars
  <2> QED
    BY <1>1, <1>2, <2>1 DEF PartsInv
<1> QED
  BY <1>3, <1>4, <1>5, <1>6 DEF Next, Finished

(* Every variable of the composed system keeps its type, in whatever order  *)
(* processes, passes, users and Flux take their steps.                      *)
THEOREM TypeCorrect == Spec => []TypeOK
<1>1. PartsInv => TypeOK
  BY DEF PartsInv, RolloutInv, TypeOK
<1> QED
  BY <1>1, PartsInit, PartsNext, PTL DEF Spec

(* With --leader-elect no two processes ever have passes under way at the   *)
(* same time, shutdowns, crashes and lost leases included.                  *)
THEOREM OneManagerAlways == Spec => []OneManager
<1>1. PartsInv => OneManager
  BY LeaseExcludes DEF PartsInv
<1> QED
  BY <1>1, PartsInit, PartsNext, PTL DEF Spec

----------------------------------------------------------------------------
(* GoneMeansClean.  A Delete pass that has found both objects absent must   *)
(* still be right when it removes the finalizer: nobody else may have       *)
(* applied them again in between.                                           *)

Absent == repo.state = "absent" /\ release.state = "absent"

CleanInv ==
    /\ \A r \in Replica : pass[r].at # "idle" => Running(r)
    /\ \A r \in Replica :
          pass[r].at \in {"release", "report"} /\ pass[r].deleting /\ pass[r].ok => Absent
    /\ gone => Absent /\ \A r \in Replica : pass[r].at = "idle"

(* AdvanceKeeps, for the process a pass runs in.                            *)
LEMMA AdvanceMoves ==
    ASSUME PartsInv, NEW r \in Replica, NEW place \in {"repo", "release", "report"},
           NEW ok \in BOOLEAN, NEW err \in BOOLEAN, Advance(r, place, ok, err)
    PROVE  /\ pass'[r].at = place
           /\ pass'[r].want = pass[r].want /\ pass'[r].deleting = pass[r].deleting
           /\ pass'[r].ok => pass[r].ok /\ ok
           /\ \A s \in Replica \ {r} : pass'[s] = pass[s]
<1>1. r \in Worker /\ RolloutTypeOK /\ place \in PassAt
  BY WorkerAssumption DEF PartsInv, RolloutInv, PassAt
<1> QED
  BY <1>1, AdvanceKeeps, WorkerAssumption

LEMMA CleanInit == Init => CleanInv
BY WorkerAssumption DEF Init, RolloutInit, CleanInv, Idle

(* Flux and the users bring no object back.                                 *)
LEMMA OthersKeepAbsent ==
    ASSUME RolloutInv, Others
    PROVE  (Absent => Absent') /\ UNCHANGED <<gone, pass>>
<1> USE DEF Absent, RolloutInv, RolloutTypeOK, wishVars, fluxVars
<1>1. CASE ChangeVersion \/ AskToLeave
  BY <1>1 DEF ChangeVersion, AskToLeave
<1>2. CASE ObserveRepository \/ ObserveRelease
  BY <1>2 DEF ObserveRepository, ObserveRelease
<1>3. CASE FetchChart \/ InstallChart
  BY <1>3 DEF FetchChart, InstallChart
<1>4. CASE FinalizeRepository \/ Uninstall
  BY <1>4 DEF FinalizeRepository, Uninstall, NoRepo, NoRelease
<1> QED
  BY <1>1, <1>2, <1>3, <1>4 DEF Others, Flux

LEMMA PassKeepsClean ==
    ASSUME enableLeaderElection, PartsInv, CleanInv, NEW r \in Replica, Passes(r)
    PROVE  CleanInv'
<1>1. Running(r) /\ UNCHANGED bootVars /\ r \in Worker
  BY WorkerAssumption DEF Passes, Running
<1>2. \A s \in Replica \ {r} : pass[s].at = "idle"
  BY <1>1, LeaseExcludes DEF PartsInv, OneManager, CleanInv
<1>3. \A s \in Replica : Running(s)' <=> Running(s)
  BY <1>1 DEF bootVars, Running
<1>4. pass \in [Replica -> PassSet] /\ RolloutTypeOK
  BY WorkerAssumption DEF PartsInv, RolloutInv, RolloutTypeOK, PassSet
<1>6. CASE StartPass(r)
  <2>1. /\ ~gone /\ UNCHANGED <<gone, repo, release>>
        /\ pass'[r].at = "repo" /\ \A s \in Replica \ {r} : pass'[s] = pass[s]
    BY <1>4, <1>6 DEF StartPass, fluxVars
  <2> QED
    BY <1>1, <1>2, <1>3, <2>1 DEF CleanInv, Absent
<1>7. CASE ApplyRepository(r) \/ ApplyRelease(r)
  <2>1. \A s \in Replica \ {r} : pass'[s] = pass[s]
    BY <1>4, <1>7 DEF ApplyRepository, ApplyRelease, Advance
  <2>2. ~pass'[r].deleting /\ pass[r].at # "idle" /\ gone' = gone
    BY <1>4, <1>7 DEF ApplyRepository, ApplyRelease, Advance, At, PassSet
  <2> QED
    BY <1>1, <1>2, <1>3, <2>1, <2>2 DEF CleanInv
<1>8. CASE ReportApply(r)
  <2>1. /\ pass' = [pass EXCEPT ![r] = Idle] /\ pass[r].at # "idle"
        /\ UNCHANGED <<gone, repo, release>>
    BY <1>8 DEF ReportApply, At, fluxVars
  <2> QED
    BY <1>2, <1>3, <1>4, <2>1 DEF CleanInv, Absent, Idle
<1>9. CASE DeleteRepository(r)
  <2> DEFINE found   == release.state = "absent" /\ CountsAsDeleted(repo)
             blocked == release.state # "absent"
  <2>1. /\ At(r, "repo", TRUE) /\ Advance(r, "release", found, blocked)
        /\ UNCHANGED <<gone, release>> /\ (repo.state = "absent" => repo' = repo)
    BY <1>9 DEF DeleteRepository
  <2>2. found \in BOOLEAN /\ blocked \in BOOLEAN /\ (found => Absent)
    BY DEF CountsAsDeleted, Absent
  <2> HIDE DEF found, blocked
  <2>3. /\ pass'[r].ok => found
        /\ \A s \in Replica \ {r} : pass'[s] = pass[s]
    BY <2>1, <2>2, AdvanceMoves
  <2> QED
    BY <1>1, <1>2, <1>3, <2>1, <2>2, <2>3 DEF CleanInv, Absent, At
<1>10. CASE DeleteRelease(r)
  <2> DEFINE found   == CountsAsDeleted(release)
             blocked == FALSE
  <2>1. /\ At(r, "release", TRUE) /\ Advance(r, "report", found, blocked)
        /\ UNCHANGED <<gone, repo>> /\ (release.state = "absent" => release' = release)
    BY <1>10 DEF DeleteRelease
  <2>2. found \in BOOLEAN /\ blocked \in BOOLEAN
    BY DEF CountsAsDeleted
  <2> HIDE DEF found, blocked
  <2>3. /\ pass'[r].ok => pass[r].ok
        /\ \A s \in Replica \ {r} : pass'[s] = pass[s]
    BY <2>1, <2>2, AdvanceMoves
  <2> QED
    BY <1>1, <1>2, <1>3, <2>1, <2>3 DEF CleanInv, Absent, At
<1>11. CASE ReportDelete(r)
  <2>1. /\ At(r, "report", TRUE) /\ pass' = [pass EXCEPT ![r] = Idle]
        /\ gone' = (gone \/ pass[r].ok) /\ UNCHANGED <<repo, release>>
    BY <1>11 DEF ReportDelete, fluxVars
  <2>2. \A s \in Replica : pass'[s].at = "idle"
    BY <1>2, <1>4, <2>1 DEF Idle
  <2>3. gone' => Absent
    BY <2>1 DEF CleanInv, At
  <2> QED
    BY <2>1, <2>2, <2>3 DEF CleanInv, Absent
<1> QED
  BY <1>6, <1>7, <1>8, <1>9, <1>10, <1>11 DEF Passes, ContinuePass

LEMMA CleanNext ==
    ASSUME enableLeaderElection, PartsInv, CleanInv, [Next]_providerVars
    PROVE  CleanInv'
<1>1. CASE Processes
  <2>1. /\ pass' = [r \in Replica |-> IF Running(r)' THEN pass[r] ELSE Idle]
        /\ UNCHANGED <<gone, repo, release>>
    BY <1>1 DEF Processes, DropPasses, wishVars, fluxVars
  <2>2. \A r \in Replica : (pass'[r] = pass[r] /\ Running(r)') \/ pass'[r] = Idle
    BY <2>1
  <2> QED
    BY <2>1, <2>2 DEF CleanInv, Absent, Idle
<1>2. CASE Others /\ UNCHANGED bootVars
  BY <1>2, OthersKeepAbsent DEF PartsInv, CleanInv, bootVars, Running
<1>3. CASE UNCHANGED providerVars
  BY <1>3 DEF providerVars, bootVars, rolloutVars, wishVars, fluxVars, CleanInv, Absent, Running
<1> QED
  BY <1>1, <1>2, <1>3, PassKeepsClean DEF Next, Finished

(* With --leader-elect a resource whose finalizer is gone has left neither  *)
(* Flux objects nor the chart behind, and no pass brings them back.         *)
THEOREM GoneMeansCleanAlways ==
    ASSUME enableLeaderElection
    PROVE  Spec => []GoneMeansClean
<1>1. PartsInv /\ CleanInv => GoneMeansClean
  BY DEF PartsInv, RolloutInv, RolloutSound, CleanInv, Absent, GoneMeansClean
<1>2. PartsInv /\ CleanInv /\ [Next]_providerVars => CleanInv'
  BY CleanNext
<1> QED
  BY <1>1, <1>2, PartsInit, PartsNext, CleanInit, PTL DEF Spec

----------------------------------------------------------------------------
(* What a Ready status is worth.  With one process at work, a step of a     *)
(* pass is one of five things to everybody else.                            *)

Starts(r) ==
    /\ pass[r].at = "idle" /\ UNCHANGED <<repo, release>>
    /\ pass'[r].at = "repo" /\ pass'[r].deleting = leaving /\ pass'[r].want = target

GoesOn(r, from, to, deleting) ==
    /\ pass[r].at = from /\ pass'[r].at = to
    /\ pass[r].deleting = deleting /\ pass'[r].deleting = deleting
    /\ pass'[r].want = pass[r].want

WritesRepository(r) ==
    /\ GoesOn(r, "repo", "release", FALSE)
    /\ repo' = RepoWith(pass[r].want) /\ UNCHANGED release

WritesRelease(r) ==
    /\ GoesOn(r, "release", "report", FALSE)
    /\ release' = ReleaseWith(valuesOf[pass[r].want]) /\ UNCHANGED repo
    /\ pass'[r].ok => FluxReady(release')

Deletes(r) ==
    /\ GoesOn(r, "repo", "release", TRUE) \/ GoesOn(r, "release", "report", TRUE)
    /\ repo' = repo \/ (repo.state = "live" /\ repo' = [repo EXCEPT !.state = "going"])
    /\ \/ release' = release
       \/ release.state = "live" /\ release' = [release EXCEPT !.state = "going"]

Ends(r) == pass[r].at = "report" /\ pass'[r] = Idle /\ UNCHANGED <<repo, release>>

PassStep(r) ==
    /\ \A s \in Replica \ {r} : pass[s].at = "idle" /\ pass'[s] = pass[s]
    /\ UNCHANGED <<target, leaving, deployed>>
    /\ \/ Starts(r) \/ WritesRepository(r) \/ WritesRelease(r) \/ Deletes(r) \/ Ends(r)

LEMMA PassSteps ==
    ASSUME enableLeaderElection, PartsInv, CleanInv, NEW r \in Replica, Passes(r)
    PROVE  PassStep(r)
<1>1. Running(r) /\ r \in Worker
  BY WorkerAssumption DEF Passes, Running
<1>2. \A s \in Replica \ {r} : pass[s].at = "idle"
  BY <1>1, LeaseExcludes DEF PartsInv, OneManager, CleanInv
<1>3. pass \in [Replica -> PassSet] /\ RolloutTypeOK
  BY WorkerAssumption DEF PartsInv, RolloutInv, RolloutTypeOK, PassSet
<1>5. CASE StartPass(r)
  <2> DEFINE new == [at |-> "repo", deleting |-> leaving, want |-> target, ok |-> TRUE,
                     err |-> FALSE]
  <2>1. /\ pass' = [pass EXCEPT ![r] = new] /\ pass[r].at = "idle"
        /\ UNCHANGED <<target, leaving, repo, release, deployed>>
    BY <1>5 DEF StartPass, wishVars, fluxVars
  <2>2. /\ pass'[r] = new /\ \A s \in Replica \ {r} : pass'[s] = pass[s]
    BY <1>3, <2>1
  <2> QED
    BY <1>2, <2>1, <2>2 DEF PassStep, Starts
<1>6. CASE ApplyRepository(r)
  <2> DEFINE blocked == FALSE
  <2>1. /\ pass[r].at = "repo" /\ pass[r].deleting = FALSE /\ pass[r].want \in Version
        /\ repo' = RepoWith(pass[r].want)
        /\ Advance(r, "release", FluxReady(repo'), blocked)
        /\ UNCHANGED <<target, leaving, release, deployed>>
    BY <1>1, <1>6 DEF ApplyRepository, At, wishVars, PartsInv, RolloutInv, RolloutSound
  <2>2. FluxReady(repo') \in BOOLEAN /\ blocked \in BOOLEAN
    BY <2>1, RepoTyped DEF PartsInv
  <2> HIDE DEF blocked
  <2>3. /\ pass'[r].at = "release"
        /\ pass'[r].want = pass[r].want /\ pass'[r].deleting = pass[r].deleting
        /\ \A s \in Replica \ {r} : pass'[s] = pass[s]
    BY <2>1, <2>2, AdvanceMoves
  <2> QED
    BY <1>2, <2>1, <2>3 DEF PassStep, WritesRepository, GoesOn
<1>7. CASE ApplyRelease(r)
  <2> DEFINE blocked == FALSE
  <2>1. /\ pass[r].at = "release" /\ pass[r].deleting = FALSE /\ pass[r].want \in Version
        /\ release' = ReleaseWith(valuesOf[pass[r].want])
        /\ Advance(r, "report", FluxReady(release'), blocked)
        /\ UNCHANGED <<target, leaving, repo, deployed>>
    BY <1>1, <1>7 DEF ApplyRelease, At, wishVars, PartsInv, RolloutInv, RolloutSound
  <2>2. FluxReady(release') \in BOOLEAN /\ blocked \in BOOLEAN
    BY <2>1, ReleaseTyped, RolloutAssumption DEF PartsInv
  <2> HIDE DEF blocked
  <2>3. /\ pass'[r].at = "report" /\ (pass'[r].ok => FluxReady(release'))
        /\ pass'[r].want = pass[r].want /\ pass'[r].deleting = pass[r].deleting
        /\ \A s \in Replica \ {r} : pass'[s] = pass[s]
    BY <2>1, <2>2, AdvanceMoves
  <2> QED
    BY <1>2, <2>1, <2>3 DEF PassStep, WritesRelease, GoesOn
<1>8. CASE DeleteRepository(r)
  <2> DEFINE found   == release.state = "absent" /\ CountsAsDeleted(repo)
             blocked == release.state # "absent"
  <2>1. /\ pass[r].at = "repo" /\ pass[r].deleting = TRUE
        /\ Advance(r, "release", found, blocked)
        /\ UNCHANGED <<target, leaving, release, deployed>>
        /\ repo' = repo \/ (repo.state = "live" /\ repo' = [repo EXCEPT !.state = "going"])
    BY <1>8 DEF DeleteRepository, At, wishVars
  <2>2. found \in BOOLEAN /\ blocked \in BOOLEAN
    BY DEF CountsAsDeleted
  <2> HIDE DEF found, blocked
  <2>3. /\ pass'[r].at = "release"
        /\ pass'[r].want = pass[r].want /\ pass'[r].deleting = pass[r].deleting
        /\ \A s \in Replica \ {r} : pass'[s] = pass[s]
    BY <2>1, <2>2, AdvanceMoves
  <2> QED
    BY <1>2, <2>1, <2>3 DEF PassStep, Deletes, GoesOn
<1>9. CASE DeleteRelease(r)
  <2> DEFINE found   == CountsAsDeleted(release)
             blocked == FALSE
  <2>1. /\ pass[r].at = "release" /\ pass[r].deleting = TRUE
        /\ Advance(r, "report", found, blocked)
        /\ UNCHANGED <<target, leaving, repo, deployed>>
        /\ \/ release' = release
           \/ release.state = "live" /\ release' = [release EXCEPT !.state = "going"]
    BY <1>9 DEF DeleteRelease, At, wishVars
  <2>2. found \in BOOLEAN /\ blocked \in BOOLEAN
    BY DEF CountsAsDeleted
  <2> HIDE DEF found, blocked
  <2>3. /\ pass'[r].at = "report"
        /\ pass'[r].want = pass[r].want /\ pass'[r].deleting = pass[r].deleting
        /\ \A s \in Replica \ {r} : pass'[s] = pass[s]
    BY <2>1, <2>2, AdvanceMoves
  <2> QED
    BY <1>2, <2>1, <2>3 DEF PassStep, Deletes, GoesOn
<1>10. CASE ReportApply(r) \/ ReportDelete(r)
  <2>1. /\ pass[r].at = "report" /\ pass' = [pass EXCEPT ![r] = Idle]
        /\ UNCHANGED <<target, leaving, repo, release, deployed>>
    BY <1>10 DEF ReportApply, ReportDelete, At, wishVars, fluxVars
  <2>2. pass'[r] = Idle /\ \A s \in Replica \ {r} : pass'[s] = pass[s]
    BY <1>3, <2>1
  <2> QED
    BY <1>2, <2>1, <2>2 DEF PassStep, Ends
<1> QED
  BY <1>5, <1>6, <1>7, <1>8, <1>9, <1>10 DEF Passes, ContinuePass

(* Processes come and go, and at most take their passes with them.          *)
LEMMA ProcessesDrop ==
    ASSUME Processes
    PROVE  /\ \A r \in Replica : pass'[r] = pass[r] \/ pass'[r] = Idle
           /\ UNCHANGED <<target, leaving, repo, release, deployed>>
BY DEF Processes, DropPasses, wishVars, fluxVars

Applying(r) == pass[r].at # "idle" /\ ~pass[r].deleting

(* Nothing goes while it is wanted, or while a pass still applies.          *)
TornDownLast ==
    /\ ~leaving => \A r \in Replica : pass[r].at # "idle" => ~pass[r].deleting
    /\ ~leaving \/ (\E r \in Replica : Applying(r)) =>
          repo.state # "going" /\ release.state # "going"

LEMMA TornDownLastNext ==
    ASSUME enableLeaderElection, PartsInv, CleanInv, TornDownLast, [Next]_providerVars
    PROVE  TornDownLast'
<1> USE DEF TornDownLast, Applying
<1>1. RolloutTypeOK
  BY DEF PartsInv, RolloutInv
<1>2. ASSUME NEW r \in Replica, Passes(r) PROVE TornDownLast'
  <2>1. PassStep(r)
    BY <1>2, PassSteps
  <2>2. CASE Starts(r)
    BY <2>1, <2>2 DEF PassStep, Starts
  <2>3. CASE WritesRepository(r)
    <3>1. repo'.state # "going" \/ repo'.state = repo.state
      BY <1>1, <2>3 DEF WritesRepository, RepoWith, NoRepo, RolloutTypeOK, State
    <3> QED
      BY <2>1, <2>3, <3>1 DEF PassStep, WritesRepository, GoesOn
  <2>4. CASE WritesRelease(r)
    <3>1. release'.state # "going" \/ release'.state = release.state
      BY <1>1, <2>4 DEF WritesRelease, ReleaseWith, NoRelease, RolloutTypeOK, State
    <3> QED
      BY <2>1, <2>4, <3>1 DEF PassStep, WritesRelease, GoesOn
  <2>5. CASE Deletes(r)
    BY <2>1, <2>5 DEF PassStep, Deletes, GoesOn
  <2>6. CASE Ends(r)
    BY <2>1, <2>6 DEF PassStep, Ends, Idle
  <2> QED
    BY <2>1, <2>2, <2>3, <2>4, <2>5, <2>6 DEF PassStep
<1>3. CASE Processes
  BY <1>3, ProcessesDrop DEF Idle
<1>4. CASE Others
  <2> USE DEF wishVars, fluxVars
  <2>1. CASE ChangeVersion \/ AskToLeave
    BY <2>1 DEF ChangeVersion, AskToLeave
  <2>2. CASE ObserveRepository \/ FetchChart
    BY <1>1, <2>2 DEF ObserveRepository, FetchChart, RolloutTypeOK
  <2>3. CASE ObserveRelease \/ InstallChart
    BY <1>1, <2>3 DEF ObserveRelease, InstallChart, RolloutTypeOK
  <2>4. CASE FinalizeRepository \/ Uninstall
    BY <2>4 DEF FinalizeRepository, Uninstall, NoRepo, NoRelease
  <2> QED
    BY <1>4, <2>1, <2>2, <2>3, <2>4 DEF Others, Flux
<1>5. CASE UNCHANGED providerVars
  BY <1>5 DEF providerVars, rolloutVars, wishVars, fluxVars
<1> QED
  BY <1>2, <1>3, <1>4, <1>5 DEF Next, Finished

(* If all that the Helm controller works on is in S, so is what is          *)
(* installed when its condition says Ready, and still when a pass that has  *)
(* read the condition reports.                                              *)
PlanIn(S) == release.plan # None => release.plan \in S

ReadyMeans(S) ==
    /\ release.state = "live" /\ release.ready => deployed \in S
    /\ \A r \in Replica : Applying(r) /\ pass[r].at = "report" /\ pass[r].ok => deployed \in S

LEMMA ReadyMeansNext ==
    ASSUME enableLeaderElection, PartsInv, CleanInv, TornDownLast, [Next]_providerVars,
           NEW S, PlanIn(S), ReadyMeans(S)
    PROVE  ReadyMeans(S)'
<1> USE DEF ReadyMeans, Applying
<1>1. RolloutTypeOK
  BY DEF PartsInv, RolloutInv
<1>2. ASSUME NEW r \in Replica, Passes(r) PROVE ReadyMeans(S)'
  <2>1. PassStep(r)
    BY <1>2, PassSteps
  <2>2. CASE Starts(r)
    BY <2>1, <2>2 DEF PassStep, Starts
  <2>3. CASE WritesRepository(r)
    BY <2>1, <2>3 DEF PassStep, WritesRepository, GoesOn
  <2>4. CASE WritesRelease(r)
    <3>1. release'.state = "live" /\ release'.ready => deployed \in S
      BY <1>1, <2>4 DEF WritesRelease, ReleaseWith, NoRelease, RolloutTypeOK, State
    <3> QED
      BY <2>1, <2>4, <3>1 DEF PassStep, WritesRelease, GoesOn, FluxReady
  <2>5. CASE Deletes(r)
    <3>1. release'.state = "live" /\ release'.ready => release.state = "live" /\ release.ready
      BY <1>1, <2>5 DEF Deletes, RolloutTypeOK
    <3> QED
      BY <2>1, <2>5, <3>1 DEF PassStep, Deletes, GoesOn
  <2>6. CASE Ends(r)
    BY <2>1, <2>6 DEF PassStep, Ends, Idle
  <2> QED
    BY <2>1, <2>2, <2>3, <2>4, <2>5, <2>6 DEF PassStep
<1>3. CASE Processes
  BY <1>3, ProcessesDrop DEF Idle
<1>4. CASE Others
  <2> USE DEF wishVars, fluxVars
  <2>1. CASE ChangeVersion \/ AskToLeave \/ ObserveRepository \/ FetchChart
             \/ FinalizeRepository
    BY <2>1 DEF ChangeVersion, AskToLeave, ObserveRepository, FetchChart, FinalizeRepository
  <2>2. CASE ObserveRelease
    BY <1>1, <2>2 DEF ObserveRelease, RolloutTypeOK
  <2>3. CASE InstallChart
    BY <1>1, <2>3 DEF InstallChart, PlanIn, RolloutTypeOK
  <2>4. CASE Uninstall
    BY <2>4 DEF Uninstall, NoRelease, TornDownLast
  <2> QED
    BY <1>4, <2>1, <2>2, <2>3, <2>4 DEF Others, Flux
<1>5. CASE UNCHANGED providerVars
  BY <1>5 DEF providerVars, rolloutVars, wishVars, fluxVars
<1> QED
  BY <1>2, <1>3, <1>4, <1>5 DEF Next, Finished

----------------------------------------------------------------------------
(* ReadyMeansServing.                                                       *)

Served == [version : Version \ Broken, values : Values]

OnlyFetched ==
    /\ repo.artifact # None => repo.artifact \in Version \ Broken
    /\ repo.ready => repo.artifact # None
    /\ PlanIn(Served)

LEMMA OnlyFetchedNext ==
    ASSUME PartsInv, OnlyFetched, [Next]_providerVars
    PROVE  OnlyFetched'
<1> USE DEF OnlyFetched, PlanIn, wishVars, fluxVars
<1>1. RolloutTypeOK /\ RolloutSound
  BY DEF PartsInv, RolloutInv
<1>2. CASE UNCHANGED <<repo, release>>
  BY <1>2 DEF Served
<1>3. ASSUME NEW r \in Worker, ContinuePass(r) PROVE OnlyFetched'
  <2>1. CASE ApplyRepository(r)
    BY <1>1, <2>1 DEF ApplyRepository, RepoWith, NoRepo, RolloutTypeOK, Served
  <2>2. CASE ApplyRelease(r)
    BY <1>1, <2>2 DEF ApplyRelease, ReleaseWith, NoRelease, RolloutTypeOK, Served
  <2>3. CASE DeleteRepository(r)
    BY <1>1, <2>3 DEF DeleteRepository, RolloutTypeOK, Served
  <2>4. CASE DeleteRelease(r)
    BY <1>1, <2>4 DEF DeleteRelease, RolloutTypeOK, Served
  <2>5. CASE ReportApply(r) \/ ReportDelete(r)
    BY <1>2, <2>5 DEF ReportApply, ReportDelete
  <2> QED
    BY <1>3, <2>1, <2>2, <2>3, <2>4, <2>5 DEF ContinuePass
<1>4. CASE Others
  <2>1. CASE ChangeVersion \/ AskToLeave
    BY <1>2, <2>1 DEF ChangeVersion, AskToLeave
  <2>2. CASE ObserveRepository
    BY <1>1, <2>2 DEF ObserveRepository, RolloutTypeOK, Served
  <2>3. CASE FetchChart
    BY <1>1, <2>3, RolloutAssumption DEF FetchChart, RolloutTypeOK, RolloutSound, Served
  <2>4. CASE ObserveRelease
    <3>1. Current # None => Current \in Served
      BY <1>1, <2>4 DEF ObserveRelease, Current, RolloutTypeOK, RolloutSound, Served
    <3>2. release'.plan = Current /\ UNCHANGED repo
      BY <1>1, <2>4 DEF ObserveRelease, RolloutTypeOK
    <3> QED
      BY <3>1, <3>2 DEF Served
  <2>5. CASE InstallChart
    BY <1>1, <2>5 DEF InstallChart, RolloutTypeOK, Served
  <2>6. CASE FinalizeRepository \/ Uninstall
    BY <2>6 DEF FinalizeRepository, Uninstall, NoRepo, NoRelease, Served
  <2> QED
    BY <1>4, <2>1, <2>2, <2>3, <2>4, <2>5, <2>6 DEF Others, Flux
<1>5. CASE Processes \/ UNCHANGED providerVars
  BY <1>2, <1>5 DEF Processes, providerVars, rolloutVars
<1>6. ASSUME NEW r \in Replica, Passes(r) PROVE OnlyFetched'
  <2>1. r \in Worker /\ (StartPass(r) \/ ContinuePass(r))
    BY <1>6, WorkerAssumption DEF Passes
  <2>2. StartPass(r) => UNCHANGED <<repo, release>>
    BY DEF StartPass
  <2> QED
    BY <1>2, <1>3, <2>1, <2>2
<1> QED
  BY <1>4, <1>5, <1>6 DEF Next, Finished

ServingInv == OnlyFetched /\ TornDownLast /\ ReadyMeans(Served)

LEMMA ServingInit == Init => ServingInv
BY WorkerAssumption
   DEF Init, RolloutInit, NoRepo, NoRelease, Idle, ServingInv, OnlyFetched, PlanIn,
       TornDownLast, ReadyMeans, Applying

LEMMA ServingNext ==
    ASSUME enableLeaderElection, PartsInv, CleanInv, ServingInv, [Next]_providerVars
    PROVE  ServingInv'
<1>1. OnlyFetched' /\ TornDownLast'
  BY OnlyFetchedNext, TornDownLastNext DEF ServingInv
<1> DEFINE S == Served
<1>2. PlanIn(S) /\ ReadyMeans(S)
  BY DEF ServingInv, OnlyFetched
<1>3. ReadyMeans(S)'
  <2> HIDE DEF S
  <2> QED
    BY <1>2, ReadyMeansNext DEF ServingInv
<1> QED
  BY <1>1, <1>3 DEF ServingInv

(* What a report of Ready says of the one who reports.                      *)
LEMMA ReadyReport ==
    ASSUME CleanInv, NEW w \in Worker, ReportApply(w), status' = "Ready"
    PROVE  /\ w \in Replica /\ Applying(w)
           /\ pass[w].at = "report" /\ pass[w].ok
<1>1. /\ w \in Replica /\ pass[w].at = "report" /\ pass[w].deleting = FALSE
      /\ status' = IF gone THEN status ELSE ApplyStatus(pass[w].ok)
  BY WorkerAssumption DEF ReportApply, At
<1>2. ~gone
  BY <1>1 DEF CleanInv
<1> QED
  BY <1>1, <1>2 DEF Applying, ApplyStatus

(* With --leader-elect a pass that reports Ready reports it of a resource   *)
(* that is served, through changes of version, charts that cannot be        *)
(* fetched, crashes and shutdowns: FluxStatus (flux.go) may read a          *)
(* condition that is not about the present spec, but never one of a release *)
(* that is not installed, or is being uninstalled by another process.       *)
THEOREM ReadyMeansServingAlways ==
    ASSUME enableLeaderElection
    PROVE  Spec => ReadyMeansServing
<1>1. PartsInv /\ CleanInv /\ [Next]_providerVars => CleanInv'
  BY CleanNext
<1>2. PartsInv /\ CleanInv /\ ServingInv /\ [Next]_providerVars => ServingInv'
  BY ServingNext
<1>3. CleanInv /\ ServingInv =>
        [ \A w \in Worker : ReportApply(w) /\ status' = "Ready" =>
            deployed \in [version : Version \ Broken, values : Values] ]_rolloutVars
  BY ReadyReport DEF ServingInv, ReadyMeans, Served
<1> QED
  BY <1>1, <1>2, <1>3, PartsInit, PartsNext, CleanInit, ServingInit, PTL
     DEF Spec, ReadyMeansServing

----------------------------------------------------------------------------
(* ReadyMeansInstalled, as far as it goes: the conditions of a spec that    *)
(* never changes can only be that spec's.                                   *)

TargetStays == [][UNCHANGED target]_providerVars

TargetWritten ==
    /\ \A r \in Replica : pass[r].at # "idle" => pass[r].want = target
    /\ repo.state # "absent" => repo.tag = target
    /\ repo.artifact # None => repo.artifact = target
    /\ release.state # "absent" => release.values = valuesOf[target]
    /\ PlanIn({Wish})

LEMMA TargetWrittenNext ==
    ASSUME enableLeaderElection, PartsInv, CleanInv, OnlyFetched, TargetWritten,
           [Next]_providerVars, UNCHANGED target
    PROVE  TargetWritten'
<1> USE DEF TargetWritten, PlanIn, Wish
<1>1. RolloutTypeOK /\ RolloutSound
  BY DEF PartsInv, RolloutInv
<1>2. ASSUME NEW r \in Replica, Passes(r) PROVE TargetWritten'
  <2>1. PassStep(r)
    BY <1>2, PassSteps
  <2>2. CASE Starts(r)
    BY <2>1, <2>2 DEF PassStep, Starts
  <2>3. CASE WritesRepository(r)
    <3>1. repo'.tag = target /\ repo'.artifact \in {None, target}
      BY <1>1, <2>3 DEF WritesRepository, GoesOn, RepoWith, NoRepo, RolloutTypeOK
    <3> QED
      BY <2>1, <2>3, <3>1 DEF PassStep, WritesRepository, GoesOn
  <2>4. CASE WritesRelease(r)
    <3>1. release'.values = valuesOf[target] /\ release'.plan \in {None, release.plan}
      BY <1>1, <2>4 DEF WritesRelease, GoesOn, ReleaseWith, NoRelease, RolloutTypeOK
    <3> QED
      BY <2>1, <2>4, <3>1 DEF PassStep, WritesRelease, GoesOn
  <2>5. CASE Deletes(r)
    <3>1. /\ repo'.tag = repo.tag /\ repo'.artifact = repo.artifact
          /\ repo'.state # "absent" => repo.state # "absent"
          /\ release'.values = release.values /\ release'.plan = release.plan
          /\ release'.state # "absent" => release.state # "absent"
      BY <1>1, <2>5 DEF Deletes, RolloutTypeOK
    <3> QED
      BY <2>1, <2>5, <3>1 DEF PassStep, Deletes, GoesOn
  <2>6. CASE Ends(r)
    BY <2>1, <2>6 DEF PassStep, Ends, Idle
  <2> QED
    BY <2>1, <2>2, <2>3, <2>4, <2>5, <2>6 DEF PassStep
<1>3. CASE Processes
  BY <1>3, ProcessesDrop DEF Idle
<1>4. CASE Others
  <2> USE DEF wishVars, fluxVars
  <2>1. CASE ChangeVersion \/ AskToLeave
    BY <2>1 DEF ChangeVersion, AskToLeave
  <2>2. CASE ObserveRepository
    BY <1>1, <2>2 DEF ObserveRepository, RolloutTypeOK
  <2>3. CASE FetchChart
    BY <1>1, <2>3 DEF FetchChart, RolloutTypeOK
  <2>4. CASE ObserveRelease
    <3>1. Current # None => Current = Wish
      BY <1>1, <2>4 DEF ObserveRelease, Current, OnlyFetched
    <3>2. /\ release'.plan = Current /\ release'.values = release.values
          /\ release'.state = release.state /\ UNCHANGED <<repo, pass>>
      BY <1>1, <2>4 DEF ObserveRelease, RolloutTypeOK
    <3> QED
      BY <3>1, <3>2
  <2>5. CASE InstallChart
    BY <1>1, <2>5 DEF InstallChart, RolloutTypeOK
  <2>6. CASE FinalizeRepository \/ Uninstall
    BY <2>6 DEF FinalizeRepository, Uninstall, NoRepo, NoRelease
  <2> QED
    BY <1>4, <2>1, <2>2, <2>3, <2>4, <2>5, <2>6 DEF Others, Flux
<1>5. CASE UNCHANGED providerVars
  BY <1>5 DEF providerVars, rolloutVars, wishVars, fluxVars
<1> QED
  BY <1>2, <1>3, <1>4, <1>5 DEF Next, Finished

InstalledInv == TargetWritten /\ ReadyMeans({Wish})

LEMMA InstalledNext ==
    ASSUME enableLeaderElection, PartsInv, CleanInv, ServingInv, InstalledInv,
           [Next]_providerVars, UNCHANGED target
    PROVE  InstalledInv'
<1>1. TargetWritten'
  BY TargetWrittenNext DEF ServingInv, InstalledInv
<1>2. PICK wish : wish = {Wish}
  OBVIOUS
<1>3. {Wish}' = wish
  BY <1>2 DEF Wish
<1>4. PlanIn(wish) /\ ReadyMeans(wish)
  BY <1>2 DEF InstalledInv, TargetWritten
<1>5. ReadyMeans(wish)'
  BY <1>4, ReadyMeansNext DEF ServingInv
<1>6. ReadyMeans({Wish})'
  BY <1>3, <1>5 DEF ReadyMeans
<1> QED
  BY <1>1, <1>6 DEF InstalledInv

(* With --leader-elect and a version that is never changed, a pass that     *)
(* reports Ready has installed it with its values (flux.go, FluxStatus):    *)
(* the condition it reads can only be that of the spec it has just applied. *)
(* The run "stale_ready" shows that one change of version is enough to      *)
(* break that.                                                              *)
THEOREM ReadyMeansInstalledIfTargetStays ==
    ASSUME enableLeaderElection
    PROVE  Spec /\ TargetStays => ReadyMeansInstalled
<1>1. Init => InstalledInv
  BY WorkerAssumption
     DEF Init, RolloutInit, NoRepo, NoRelease, Idle, InstalledInv, TargetWritten, PlanIn,
         ReadyMeans, Applying
<1>2. PartsInv /\ CleanInv /\ ServingInv /\ InstalledInv /\ [Next]_providerVars
        /\ [UNCHANGED target]_providerVars => InstalledInv'
  <2>1. [UNCHANGED target]_providerVars => UNCHANGED target
    BY DEF providerVars, rolloutVars, wishVars
  <2> QED
    BY <2>1, InstalledNext
<1>3. PartsInv /\ CleanInv /\ [Next]_providerVars => CleanInv'
  BY CleanNext
<1>4. PartsInv /\ CleanInv /\ ServingInv /\ [Next]_providerVars => ServingInv'
  BY ServingNext
<1>5. CleanInv /\ InstalledInv =>
        [ \A w \in Worker : ReportApply(w) /\ status' = "Ready" =>
            deployed = [version |-> pass[w].want, values |-> valuesOf[pass[w].want]]
        ]_rolloutVars
  <2> SUFFICES ASSUME CleanInv, InstalledInv, NEW w \in Worker,
                      ReportApply(w), status' = "Ready"
               PROVE  deployed = [version |-> pass[w].want,
                                  values |-> valuesOf[pass[w].want]]
    OBVIOUS
  <2>1. /\ w \in Replica /\ Applying(w) /\ pass[w].at = "report" /\ pass[w].ok
    BY ReadyReport
  <2>2. pass[w].want = target
    BY <2>1 DEF InstalledInv, TargetWritten
  <2> QED
    BY <2>1, <2>2 DEF InstalledInv, ReadyMeans, Wish
<1> QED
  BY <1>1, <1>2, <1>3, <1>4, <1>5, PartsInit, PartsNext, CleanInit, ServingInit, PTL
     DEF Spec, TargetStays, ReadyMeansInstalled
=============================================================================
