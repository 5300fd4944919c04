# A TLA+ model of service-provider-metrics-operator

The program is a service provider of an openMCP landscape. For every `MetricsOperator` resource on the
onboarding cluster it installs one instance of metrics-operator: Flux objects on the **platform** cluster, a
namespace with a token, pull secrets and a CA bundle on the **workload** cluster, and a namespace, a service
account and a role binding on the user's **ControlPlane**. It keeps all of them in the state the platform team's
`ProviderConfig` calls for, and takes them down in order when the resource is deleted. One process works at a
time (if it is told to elect a leader), with one work queue per resource; everything interesting happens between
that process and its successors, three API servers, Flux, the namespace controllers, the kubelet, the platform
team and the users.

All paths below are relative to `src/`; *manager.go* is `pkg/metricsoperator/resources/manager.go`, *controller*
is `internal/controller/metricsoperator_controller.go`, and so on.

## 1. Inventory

| part | source | state | operations | talks to | where it is hard | what makes it correct |
|---|---|---|---|---|---|---|
| Controller | controller | status and instance id of the resource; nothing in memory between two passes | `CreateOrUpdate`, `Delete` | object manager, guard, runtime | errors it drops, order of status and errors, stale reads of the resource | Ready only if everything exists; gone only if nothing does |
| Object manager | manager.go, managedobject.go, managedcluster.go | per pass: list of objects, results | `Apply`, `Delete`, `AllDeleted` | three API servers, cleaners | dependencies across clusters, an error does not stop the walk, verdicts over answers got at different times | teardown order, nothing comes back behind the walk |
| Deletion guard | cpresources/checker.go | none | `BlockingKinds` | ControlPlane | a List per kind, users in between, a List that fails | teardown starts only after every kind was seen empty |
| Copies and cleaners | secret/secret.go, configmap/configmap.go | copies, labelled | `ManagePullSecrets`, `ManageCaConfigMap`, `Cleanup` | platform and workload cluster | namespaces shared with Helm and other providers; run in every pass, also after errors | no copy outlives its need, nothing else is touched |
| ControlPlane access | authn/serviceaccount.go | token secret | `Configure`, `generateToken` | ControlPlane, workload cluster | token renewed by a poll that may be late | the pod always reads a valid token |
| Authorization | authz/clusterrolebinding.go | role binding | `Configure` | ControlPlane | - | goes with the rest |
| Flux resources | flux/flux.go | OCIRepository, HelmRelease | `ManageFluxResources`, `FluxStatus` | Flux | deletion waits for uninstallation; an installation in flight creates a namespace by itself; a Ready condition is that of some spec and chart, not of the present ones | Ready only where something is installed; the status ends up telling what is |
| Helm values | helm/helm.go | none | `AddAuthToHelmValues`, `AddDefaultHelmValues`, `AddCAHelmValues` | - | the values come from a ProviderConfig and may collide with what is injected | the pod is valid and connected |
| Identity, label | instance/identity.go, meta/labels.go | two labels | `ensureInstanceID`, `SetManagedBy` | onboarding cluster | an Update that conflicts | written once |
| API types | api/v1alpha1 | - | - | - | unbounded poll interval | - |
| Entry: init job and processes | cmd/service-provider-metrics-operator/main.go | CRDs, registration; process, lease | init job; set-up, start, shutdown of the manager | platform and onboarding cluster, Kubernetes | errors that are logged and no more; a lease given back before the process has ended; a crash with the lease in hand; processes that overlap | one process works at a time, and one does in the end |
| Generated code, unused predecessors | zz_generated.deepcopy.go; pkg/metricsoperator/flux.go, orphancleaner.go | - | - | - | - | not modelled |

The hazards of these parts, each at its line, are in `PROJECT.json`.

## 2. Modules

| module | models | composed of |
|---|---|---|
| `Inventory` | which objects a `ProviderConfig` version stands for, their order, dependencies and namespaces, what the cleaners list and keep; pure operators | |
| `Reconciler` | both handlers call by call, against the three clusters and everybody else | EXTENDS `Inventory` |
| `MCReconciler` | instances of `Reconciler` | EXTENDS `Reconciler` |
| `ReconcilerProofs` | theorems about `Reconciler` | EXTENDS `Reconciler` |
| `CleanupProofs` | theorems about what the cleaners leave and spare, and the teardown order | EXTENDS `ReconcilerProofs` |
| `SyncProofs` | theorems about what a pass that reports Ready has brought about | EXTENDS `CleanupProofs` |
| `ClaimProofs` | how far the claims of the documentation go that `Reconciler` violates | EXTENDS `SyncProofs` |
| `Lifecycle` | abstract: what a resource promises to those around it | |
| `LifecycleProofs` | `Reconciler` implements `Lifecycle` | EXTENDS `CleanupProofs`; `Reconciler` has the INSTANCE |
| `Bootstrap` | the init job and the life of the processes: set-up, lease, shutdown, crash | |
| `Rollout` | passes by any number of workers, the two Flux objects, and what Flux makes of them | |
| `Provider`, `MCProvider` | the processes of `Bootstrap` running the passes of `Rollout` | EXTENDS `Bootstrap`, `Rollout` |
| `ProviderProofs` | theorems about the composition, and about what a Ready condition is worth | EXTENDS `Provider` |
| `TokenRotation` | the clock of the token: expiry, poll interval, backoff, kubelet | |
| `TokenRotationProofs` | theorems about it | EXTENDS `TokenRotation` |
| `HelmValues`, `MCHelmValues` | the three functions that patch the Helm values | |
| `HelmValuesProofs` | theorems about them, and lemmas about lists | EXTENDS `HelmValues` |

### How `Reconciler` corresponds to the code

A pass is `StartPass`, then for a deletion the guard (`ListKind` once per kind, `GuardDecides`), then
`createObjectManager` (`Prepare` and its three ways to end), then one step per object (`ApplyObject`,
`DeleteObject`, their refusals and failures), then the three cleaners (`ListOrphans`, one `DeleteOrphan` per
item, `CleanerDone`), then the status (`FinishApply`, `FinishDelete`) and, if Delete returned an empty result,
`RemoveFinalizer`. Each step is **one API call and the local computation after it**: between two of them anybody
else may act, and a `Crash` may come. This is the granularity at which the code can be interrupted: one resource
has one pass at a time, because controller-runtime's queue never hands out the same key twice.

| variable | stands for |
|---|---|
| `mo` | the MetricsOperator: version, deletion timestamp, finalizer removed (`gone`), instance id, status.phase |
| `pc` | the ProviderConfig: for each version its desired state, `NotOffered` or `Malformed` (Helm values that cannot be read) |
| `store` | per object: absent, foreign (exists without the managed-by label), live, terminating |
| `ready`, `token`, `metrics` | Flux's Ready conditions; whose token the token secret holds; kinds of metrics with instances |
| `step`, `pass`, `idx`, `items`, `tally` | the pass: where it is, what it was started with, its position, the orphans it listed, what its results add up to |
| `emptied` | history: what the guard saw |
| `budget` | counter of the bounds `MaxFaults` and `MaxEdits` |

`tally` keeps of the results only what the code asks of them: `AllDeleted`, whether all phases are Ready, whether
any result has an error, whether the manager itself returned one, whether the guard found a kind. `Desired` keeps
of a version only what decides which objects exist: chart pull secret, image pull secrets, target namespace on the
ControlPlane, whether there is a CA bundle. Contents of specs, texts of conditions and logging are left out.

Faithful in particular are: objects are visited in the order they were **added**, not in the order of their
dependencies (a blocked dependency is an error and is tried again next pass); an error does not stop the walk;
a cleaner whose List fails ends the pass, with `AllDeleted` looked at **before** that error; cleaners keep by name
and list by label; phases are set from the results and overwritten by errors; the token secret comes before the
service account it needs; the answer of the Update that stores the instance id replaces the status in memory.

`TokenRotation` takes the one thing out of this that needs a clock. `left` and `mounted` are the times left of the
token in the secret and of the one the pod reads; a pass either succeeds (next one after `PollInterval`), returns
an error though it reached the secret (next one after the backoff), or does not reach it. `HelmValues` runs the
three patch functions in the order of `createObjectManager` on values that may miss a key, hold null, or hold
something of the wrong type. `Keeping` is the loop that `upsertVolume`, `upsertVolumeMount` and `upsertEnvVar` share,
as a function over the prefixes of the list, `upsertEnvVars` the loop around it: what they compute is the same as with
`SelectSeq` and `FoldLeft`, but the provers can reason about it.

### What `Lifecycle` abstracts from

`Lifecycle` knows the resource (wanted, leaving, gone), what the provider is about (applying, asking, tearing down,
releasing), which objects its version calls for, which exist, which were told to go, and which kinds of metrics were
seen empty. It says *when* something may appear or be taken away and *by whom*, not in which order, in how many
calls or with how many retries. The mapping is at the end of `Reconciler`: `WorkDone` folds the steps of a pass
into phases, `CalledFor` is the list the pass works through, `InState` splits the store; a crash is `Rest`, a lost
answer or a failed call a stutter, a cleaner's DELETE a `Prune`, everything Flux and the namespace controllers
do a `Go`. What a foreign object is, tokens and the status have no counterpart.

### How `Bootstrap`, `Rollout` and `Provider` correspond to the code

`Bootstrap` is `main.go`. `job` walks through the branch `command == "init"`: access, CRDs, registration. Of its three
errors each is logged and the job goes on, to exit with 0; `swallowed` remembers that one was. Where the access
failed, the onboarding cluster is used all the same, which may panic (`JobPanics`) or fail in the CRD manager.
`proc` is a process of the deployment: booting (everything up to `mgr.Start`, one `os.Exit(1)` per error), standby
(waits for the lease), starting (sources and caches; needs the CRDs), active, stopping (after SIGTERM, while the
manager waits for passes), down. With `LeaderElectionReleaseOnCancel` the lease is given back in the step in which
the process ends, because nothing follows `Start` in `main`, as the comment at its end asks; `ExitLate`, its mutant,
is what that comment warns of.

`Rollout` looks at what `Reconciler` abstracts to one bit per Flux object: the repository's tag, whether the source
controller has taken it up (`observed`), and the chart fetched; the release's values, and the chart and values the Helm
controller is working on (`plan`, which differs from `Current` as long as there is something to do); what the Ready
conditions say, and what is installed. A new chart does not touch the release's spec, which names the repository and no
version. `ok` and `err` of a pass are what its results add up to: a repository that waits for the release is an
error, and then the status is Progressing and not Terminating. A pass is `StartPass`, one step per object (Get and Create or Update; an Update that meets another
one fails and is tried again), and the report. `Reconciler` has the order of all objects, failed calls, cleaners and
the guard; `Rollout` has versions and several workers. `Provider` lets the active process start passes, lets a
stopping one finish its pass, and drops the pass of one that goes down.

### External behaviour assumed

Modelled from how the code uses it, and marked `external` in the map: the service-provider runtime writes the
status at the end of a pass, removes the finalizer when `Delete` returns an empty result without error, and
requeues after the poll interval or with exponential backoff; controller-runtime runs one pass per resource;
a DELETE leaves an object with finalizers in place until its controller is done; a terminating namespace refuses
new content and is emptied; an installation in flight creates the target namespace (`createNamespace: true`).
A lease does not expire under a holder that runs (client-go's deadlines: the holder gives up first), is kept by a
holder that is shutting down until its passes are through, and expires under one that died. The platform runs the init
job again until it exits with 0. Flux keeps the Ready condition of the former spec and chart until it has taken up the new
ones; the Helm controller takes up a chart only from a repository that is Ready for its present spec, and brings an
installation it has begun to its end even if spec and chart change meanwhile. A manager that shuts down waits for its
passes longer than they take; if they took longer than its timeout, it would give the lease back while one still runs.

## 3. Runs

Every run explores all interleavings of one resource's controller with users, platform team, Flux, Helm and the
namespace controllers, or, in `provider`, of two processes, the init job, users and Flux.

| run | question | instance |
|---|---|---|
| `rollout` | Do order, guard, cleanup and reporting hold while a resource is installed, moved between a version with pull secrets and one without, and deleted, with a fault anywhere? | 2 versions, 1 secret used as chart and image pull secret, 2 kinds, 1 fault, 1 change |
| `settings` | The same of cleanup and reporting while the ProviderConfig changes twice: everything dropped and taken back, unreadable, version withdrawn, objects deleted by hand. And is every step of all this one `Lifecycle` allows? | 1 version, 4 ProviderConfigs, 2 edits, no fault |
| `liveness` | Does deletion complete, and does an undisturbed resource become Ready and stay so? | small inventory, 1 fault, 1 edit |
| `provider` | Does one process work at a time, does a resource that is gone stay gone, does the service come up again, and does the status end up telling the truth, whatever happens to processes? | 2 processes, leader election, 3 versions (2 with the same values, 1 whose chart cannot be fetched), 2 faults, 1 change |
| `rotation` | Does the pod always read a valid token when the delays satisfy `Timely`, and does it recover after passes that missed the secret? | poll 4, lifetime 10, grace 3, slack 1, kubelet 2, backoff 1 to 4, 2 faults |
| `values` | Do patched values make a valid, connected pod and keep what the user asked for, volumes, mounts and variables alike? | every list of up to two volumes and mounts and one variable over entries that collide by name, path, both or not at all |
| `withdrawn`, `lost_cleanup`, `namespace_moves`, `token_of_old_namespace`, `backoff`, `stale_ready` | One sentence of the documentation each, which the code does not keep | section 5 |

**Properties of `Reconciler`.** `InventoryGone`: when the finalizer is gone, nothing of the version the last pass
worked on exists. `NoManagedCopyLeft`: nor does a copy of a secret or CA bundle that any earlier version needed,
if the cleaners could list. `GuardSound`: Delete passes its guard only after it saw every kind empty.
`TeardownOrder`: nothing anybody does removes a dependency before its dependent. `ReadyMeansSynced`: Ready is
reported only if everything exists and no stale copy does. `CleanersSpareInventory`, `BystandersSpared`: what the
version calls for, and what others own, survive. `DeletionCompletes`, `Converges`: progress.
`ImplementsLifecycle`: the refinement.

**Properties of `Provider`.** `OneManager`: what the help text of `--leader-elect` says, passes that a shutdown waits
for included. `GoneMeansClean`: with the finalizer, Flux objects and chart are gone, and no other process brings them
back. `Serves`: unless the job swallowed an error for good, a process is active again and again. `HonestInTheEnd`:
when the user has come to rest, the status is Ready for good with the wanted version installed, or for good not Ready
if its chart cannot be fetched; `ReadyMeansInstalled`, that Ready is never said too early, does not hold (section 5).
`ReadyMeansServing` does: Ready may come too early for the version asked for, but some version is installed then; nobody
is uninstalling it, and a version whose chart cannot be fetched does not count.

**Why the bounds are enough.** One fault and one edit put a failure or a change at every step of every pass; two
faults are used where the question needs them (`lost_cleanup`: one leaves a copy, one fails the List). One secret
suffices because secrets do not interact other than by name: the same one is image and chart secret, and a foreign
secret has the name its source has. Two kinds are needed so that the guard can see one, then the other. Passes
are not bounded, nor are the creation and deletion of metrics and what the other controllers do. The bounds
are `MaxFaults` and `MaxEdits` (guards `Fault`, `Edit`); the proofs hold for any value of both.

`settings` has no faults, so that two edits fit; `rollout` has one version change but faults. `Drifters` (objects
somebody deletes by hand) are exempt from `ReadyMeansSynced`, because nobody can promise them while a pass runs.

In `provider`, two processes are enough for every overlap of a pass with another's; a change of version between v1 and v2
leaves the release's spec as it is (only the chart is news to Helm), one to v3 does not, and the two faults let a process crash after
another was shut down. **Without leader election** (`enableLeaderElection = FALSE`, the default of the flag) TLC finds
`ReadyMeansServing` violated (by a behaviour of 28 states), and in 18 states `GoneMeansClean`: while a rolling update replaces one process by another, an Apply pass of the
one creates the repository again between the Delete pass of the other and the removal of the finalizer. No document of the
repository promises otherwise, so this is a remark and not a run.

**Fairness.** `WF(Handler)`: the runtime requeues every resource after an error, a RequeueAfter or the poll
interval, and the process is restarted. Weak fairness of each Flux object becoming ready and being finalized, and
of the namespace controllers: they do their work in the end. Nothing is assumed of users, of the platform
team, of Helm, or of faults (which are bounded, and never required). `CHECK_DEADLOCK` is on everywhere: the system
stutters only when the resource is gone (`Terminated`) or the values are settled (`Settled`).
In `Provider`: the init job goes on and is run again (`Job`), a process is restarted and goes on with what it began
(`Progress`), the runtime starts a pass after every event and poll interval and ends it (`Passes`), and each of Flux's
steps happens in the end. Shutdowns, crashes, errors and users are never required.
In `TokenRotation` time goes on (`Tick`), a pass that reaches the secret comes when it is due, and the kubelet
syncs.

## 4. Proofs

For every set of secrets, namespaces, versions, kinds and ProviderConfigs and any number of faults and edits, from
the assumptions named in the modules (`PrefixAssumption`: prefixed names differ for different secrets;
`BystanderAssumption`: objects of others are none of ours; `ValueAssumption`: the special values differ from
desired states; `ReconcilerAssumption`: every kind is in the list of kinds). TLC evaluates each of the assumptions on its instances:

- `TypeCorrect`: `Spec => []TypeOK`, with the bounds of every walk (`WalkInBounds`).
- `InventoryGoneAlways`: `Spec => []InventoryGone`. Not inductive: `AllDeleted` is a verdict over answers got one
  after the other. `TeardownInv` says what the answers so far stand for: objects already visited **were absent and
  still are**. That they do not come back is the lemma `StaysAbsent`: a Delete pass creates nothing, and the only
  other creator, a Helm installation in flight, makes only the instance namespace, and only while the HelmRelease exists,
  which the walk visited before (`HelmReleaseFirst`). Swap the order of `AddCluster` and the proof fails.
- `GuardSoundAlways`: `Spec => []GuardSound`, with `GuardProgress`: what was listed so far was empty, unless it blocks.
- `BystandersSparedAlways`, `CleanersSpareInventoryAlways`: from `OrphanInv`. A cleaner lists by label, so that it
  spares what others own needs that nothing of theirs ever gets the label; and what it is about to delete is ours, from
  its namespace, and not to be kept. `KeepIsComplete` shows that the names registered for the cleaners are exactly
  what a version calls for among the objects they reach, whatever the lists of pull secrets.
- `NoManagedCopyLeftAlways`: from `CleanupInv`. What the cleaners of a Delete pass have been through is clean and
  stays clean (`WhoCopies`: only Apply makes a copy), and what the running one has still to delete is all that is left
  in its namespace. What it *keeps* is gone as well, which is `TeardownInv` again: the walk came first.
- `TeardownOrderAlways`: if nobody but the controller deletes ControlPlane namespaces, for `Drifters` of any other
  kind. Deleting a namespace takes its content along whatever depends on it, so `NamespacesLast` is needed: a
  terminating namespace has no service account, and gets none afterwards.
- `ReadyMeansSyncedAlways`: if nobody but the controller deletes managed namespaces, for `Drifters` of any other kind.
  Ready is a verdict over answers got one after the other too, and `SyncInv` says that each **still holds**: before
  the first Delete pass nothing but a drifter is on its way out (`NothingOnItsWayOut`), so what was applied can only
  be taken by a cleaner, which keeps what the version calls for; what a cleaner went through stays clean. And Ready
  comes from nowhere else (`ReadyIsEarned`): the answer of the Update in `ensureInstanceID` replaces the status in
  memory, but a resource without an instance id was never Ready.
- `ReconcilerImplementsLifecycle`: `Spec => ImplementsLifecycle`, action by action. It rests on the invariants above,
  because `Lifecycle`'s guards are facts the code never looks at: that a pass that tears down was asked to (`leaving`),
  that all kinds were seen empty, that what a cleaner deletes is not called for (`CleanupProofs`), and that at the
  verdict nothing called for is left (`TeardownInv`). `LifecyclePromiseKept` draws from `Lifecycle` alone that
  nothing is torn down unasked and that what is gone stays gone, and carries it over.
- `TypeCorrect` of `ProviderProofs`; `OneManagerAlways`: from `LeaseHeld` (who works has the lease), since who else works
  is nowhere else to be seen. `GoneMeansCleanAlways`, assuming leader election: from `CleanInv`, which says what the
  `ok` of a Delete pass stands for (both objects were absent **and still are**). It is inductive only together with
  `OneManager`, which is where the overlap of two processes is excluded; drop that and the step
  `ApplyRepository` of another worker is where the proof breaks, and where TLC's counterexample is.
- `RotationTyped`, `TokenAlwaysValid`: `Timely => (Spec => []TokenValid)`, for all delays. The invariant relates the
  clocks: a mounted token never outlasts the one in the secret, and the secret's token always outlives the next pass by the time
  the kubelet may take. `Timely` is what the "safeguard of a minute" needs; its last conjunct is the one the
  default settings violate (`backoff`).

### The Helm values, for lists of any length

- `PodStaysValidAlways`, `BothConnectedAlways`, `UserEntriesKeptAlways`: whatever volumes, mounts and variables a
  `ProviderConfig` holds, however many and in whatever order (`HelmValuesAssumption`: they are what the JSON decodes
  to; `InjectedAssumption`: the injected entries are made of strings, which the provers do not know of literals).
  The invariant `HelmInv` follows the values through the three patches: after the first, volume, mount and
  address are there once each and the user's other entries are those of `given`; the default and the CA patch must not
  undo that, which is where it matters that no injected entry collides with another.
- What they rest on is a small theory of `Keeping`: what it makes of the empty list and of a list with one more entry
  (`KeepingAppend`), that it has the entries of the set and no others (`KeepingEntries`), that twice is once with the
  intersection (`KeepingTwice`), and that a list in which a field tells the entries apart still is one after it
  (`KeepingTells`). The library's induction theorems take an operator as a parameter, which the provers cannot
  instantiate; `ListInduction` is stated for a *set* of lists instead (it has the empty list and is closed under
  `Append`, so it has every list), and each use names the set of the lists for which its claim holds. It is proved
  from the least element of a set of natural numbers (`LeastOf`).

### How far the claims go that the code violates

Six runs find a sentence of the documentation violated (section 5). For five of them it is proved, for all values of the
constants, faults and edits, that the counterexample needs the one circumstance it shows; for the sixth, `backoff`,
`TokenAlwaysValid` does the same with the delays.

| claim | holds if | theorem | broken without by |
|---|---|---|---|
| `NoCopyLeft` | no cleaner fails to list | `NoCopyLeftIfListed` | `lost_cleanup` |
| `NothingLeftBehind` | that, no version is withdrawn, and all versions use one namespace of the ControlPlane | `NothingLeftBehindIfSteady` | `withdrawn` |
| `ReadyMeansNothingStale` | all versions use one namespace | `ReadyMeansNothingStaleInOneNamespace` | `namespace_moves` |
| `ReadyMeansTokenValid` | that, and nobody else deletes the token secret or a managed namespace | `ReadyMeansTokenValidInOneNamespace` | `token_of_old_namespace` |
| `ReadyMeansInstalled` | a leader is elected and the version is never changed | `ReadyMeansInstalledIfTargetStays` | `stale_ready` |

None of the hypotheses excludes crashes, lost answers or, except where it says so, deletions by hand and changes of
version and ProviderConfig; the instance of `rollout` satisfies all those about `Reconciler` with `Drifters` empty.

- The first four: `SweptInv`, the half of `SyncInv` that is about what is gone, needs nothing of drifters;
  `UnusedNamespacesEmpty` (what no version calls for never is) and `OwnedOrUnused` (what is neither a copy nor of
  an unused namespace is in every version's inventory) turn statements about the *inventory* into statements about all
  *objects*; `GoesWithItsVersion` says where withdrawing matters: a Delete pass ends with the version it could read.
  `TokenOfAVersion` says that the token there is was generated for some version, which is all the code ensures.
- The fifth: `InstalledInv` says that the specs are those of the version, and so is all that Helm works on; the rest it
  shares with the next theorem.

### What a Ready status is worth

`ReadyMeansServingAlways`, assuming leader election: when a pass reports Ready, a version whose chart could be fetched is
installed, however often the version was changed and whatever crashed. A pass reads the condition one or two steps before
it reports, so that two things have to be known in between: that nothing goes while a pass applies (`TornDownLast`, which
rests on `OneManager`: the Delete pass of another process would break it), and that what a condition says outlives
the spec it was about (`ReadyMeans(S)`: if all that Helm works on is in S, what is installed under a Ready condition is in
S). With S all that can be fetched this is `ReadyMeansServing`; with S the version that is never changed, it is
`ReadyMeansInstalledIfTargetStays`.

**Model-checked only:** liveness (`DeletionCompletes`, `Converges`, `Recovers`, `Serves`, `HonestInTheEnd`), because the
prover does not do fairness, and that the six claims are violated. Every invariant and every safety action property
that a passing run checks is proved.

## 5. Where the documentation and the code disagree

Each is a run with `expect: violation`; the finding in `PROJECT.json` quotes the line.

- `withdrawn`: Delete drops the invalid-input error of a version that is no longer offered, returns an empty
  result, and the finalizer goes with everything still on the clusters.
- `lost_cleanup`: a cleaner whose List fails in the pass in which every object is gone is forgotten.
- `namespace_moves`: after `namespaceOverride` changed, namespace and service account of the old one stay.
- `token_of_old_namespace`: and the token in use stays that of the old account until it expires.
- `backoff`: "always refreshed in time" counts on the poll interval, but errors are retried with a backoff of up to
  1000 s, and one minute of grace does not cover that.

- `stale_ready`: `FluxStatus` reads the Ready condition in the answer to the update the pass has just made, and not what
  it is about: the resource is reported Ready before Flux has looked at the new version, and also if its chart does not
  exist. Comparing the observed generation would not be enough: a change of version with the same values leaves the
  HelmRelease's spec, and with it its generation, as it is. `ReadyMeansServing` says what remains true at the time,
  `HonestInTheEnd` that a later pass takes it back.

Under which circumstances each of them does hold is proved, see section 4.

Not a finding, but worth knowing: between the guard's Lists and the first DELETE users may create metrics. The code
does not exclude it; `GuardSound` states what the guard can know.

## 6. Not modelled

Contents of flags, TLS options, schemes, permissions and cluster requests in `main.go`, and the clients that its debug
mode puts in place of others; the access reconciler of the runtime, which prepares the clusters before the handlers
are called; generated code; `pkg/metricsoperator/flux.go` and `orphancleaner.go` and the helpers in lines 95-285 of
`authn/serviceaccount.go`, which nothing but tests call; the Orphan deletion policy (no object uses it); a source secret
that never exists (it shows as a failing call); several resources (they share only the platform cluster's tenant
namespaces, one per resource); contents of specs, apart from the version and values of `Rollout`. Of the generated and
the unused code nothing ever runs in the program, so that there is no behaviour to be faithful to.

## 7. Plan

Done, in this order: `Inventory` and `Reconciler` with the teardown first, then apply, cleaners, faults, users;
runs; `ReconcilerProofs`; `TokenRotation` with proofs; `HelmValues`; `CleanupProofs`; `Lifecycle` and the proof that
`Reconciler` implements it; `Bootstrap`, `Rollout` and `Provider` with proofs; `SyncProofs`.

Then `HelmValuesProofs` (`HelmValues` rewritten with recursive functions for it, and the property about the user's mounts
extended to volumes and variables), `ClaimProofs` and the second half of `ProviderProofs` (`Rollout` with the plan of the
Helm controller in place of an observed generation of the release).

Next:

1. `TokenRotation` composed with the pass: `Reconciler`'s choice whether to renew refined by the clock.
2. `Rollout` as a refinement of the two Flux objects of `Reconciler`.
