# Formal models of Observability-as-Code

TLA+ models of this repository, the TLC runs that check them on small
instances and TLAPS proofs of the properties that matter most. All paths below
are relative to `src/`; line numbers are those of the sources modelled.

The repository keeps observability configuration (SLOs, alerts, dashboards) in
Git and brings it into Dynatrace in two ways: a Kubernetes operator with its
custom resources (`operator/`), and Monaco run by an Argo CD plugin
(`manifests/argocd/`). Python scripts roll the scaffold out to application
repositories, gate pull requests and look for drift. It has no tests.

## 1. Inventory

### 1.1 The operator

| component | state it keeps | operations |
|---|---|---|
| DynatraceSLO controller, `operator/controllers/dynatraceslo_controller.go` | in the object: finalizer, `status.dynatraceId`, `observedGeneration`, condition `Synced`; in the process: `DTClients` | `Reconcile`, `reconcileCreate`, `reconcileDelete`, `setFailed`, `BuildDTClients` |
| DynatraceAlert controller, `dynatracealert_controller.go` | the same, for alerts | `Reconcile`, `reconcileCreate`, `buildAlertPayload`, `reconcileDelete`, `setAlertFailed` |
| DynatraceDashboard controller, `dynatracedashboard_controller.go` | the same, for dashboards | `Reconcile`, `reconcileCreate`, `reconcileDelete`, `setFailed`, `sloToDashboards` |
| Dynatrace client, `operator/internal/dynatrace/client.go` | base URL and token of a tenant | `Apply…` (POST without an ID, PUT with one), `Delete…` (404 is success), `GetSLO`, `ResolveServiceEntity` |
| Dashboard templates, `dashboard_templates.go` | none | `BuildDashboard` and three layouts |
| Process, `operator/main.go` | leader election, clients built once | start, restart; registers the SLO and the alert controller |
| Custom resources, `operator/api/v1alpha1`, `operator/config` | schemas | — |

How they interact. A controller never calls another one. It reads objects from
an informer cache that lags behind the API server, writes them with an Update
that carries a resourceVersion (finalizers) or with a merge patch that carries
none (status), and calls Dynatrace over HTTP with a 30 s timeout. An alert or
dashboard finds the Dynatrace ID of an SLO in the status of the DynatraceSLO it
names. An event of an SLO wakes up the dashboards that list it
(`sloToDashboards`) but no alert. Users edit and delete the objects (Argo CD,
kubectl) and change Dynatrace behind the operator's back.

What is hard: every call is a point where the others move. A reconcile decides
on a stale copy; a reply is lost after the request was executed; the process
dies between creating an SLO and recording its ID; a status patch made from a
stale base merges into a newer object; an environment, a token or an SLO
disappears. What makes a controller correct:

- the finalizer is there before anything is created, and goes only when the
  recorded resource is gone;
- the recorded ID is one of the object's own tenant, and resources are never
  destroyed under an object that is to stay;
- `Synced=True` speaks of a generation that Dynatrace stored;
- alerts and dashboards never carry somebody else's SLO or a part of their SLOs;
- when edits and trouble end, Dynatrace holds the latest spec or a condition
  says why not; a deletion completes.

### 1.2 Around the operator

| component | state | operations | hard parts | properties it should have |
|---|---|---|---|---|
| Scaffold rollout: `scripts/oac_utils.py`, `bootstrap.py`, `propagate.py`, pipelines | branches, files and pull requests of each repository | list, check, push, open PR; retries | check-then-act over HTTP, POST retried on 5xx, push without PR, misread files, merges and closes in between, builds run again | exit code 0 is earned; a repository that opted out or has the scaffold is left alone; a branch proposes one version; repeating a run that failed helps |
| Drift detector: `scripts/drift_detector.py`, CronJob | none; reads Argo CD | compare hashes, sync, notify | two reads of a moving system; missing data skipped; timeouts end the run; refused syncs | no false alarm; standing drift is reported; drift of an automated application goes away; prod is synced by hand |
| Argo CD and Monaco plugin: `manifests/argocd` | applications, ConfigMap sentinel | render, sync | which hash the sentinel carries, automatic and manual sync | (environment of the detector) |
| Pull-request gate: `pipelines/oac-pr-validation.yaml`, `slo-regression-check.py`, `generate-endpoint-slos.py`, `ddu-estimator.py` | none | compare, generate, estimate | which two trees are compared | not modelled, see 6 |
| Kyverno, Terraform, Crossplane, scaffold templates, docs | declarations | — | — | not modelled: external engines interpret them |

How they interact. `bootstrap.py` puts the scaffold into a repository by a pull
request; the ApplicationSet finds the repository by its manifest; `propagate.py`
proposes later template changes to repositories that have it. The two scripts
and the teams meet in a repository's branches and pull requests and nowhere
else. The detector and Argo CD's own syncs meet in the applications.

`PROJECT.json` lists all components with their status and, under `hazards`,
each hazard at its line with the properties that cover it.

## 2. Plan

Order: the component whose failure costs most first. All of it is done.

1. `SLOReconciler`: the SLO controller with everything that can interleave with
   it; `SLOProofs`: its type correctness and safety.
2. `TenantMirror`: what a controller promises of one object; `SLOMirror` the
   refinement mapping, `MirrorProofs` its proof.
3. `ManagedResource` with `AlertReconciler` and `DashboardReconciler`: the
   controllers that depend on SLOs; both checked against the same `TenantMirror`;
   `ManagedProofs` about what they share, `AlertProofs` and `DashboardProofs`.
4. `DashboardTemplates`, `TemplateProofs`: layouts.
5. `AdoRepos`, `ScaffoldRollout`: repositories, the two scripts as processes;
   `RolloutProofs`: their safety.
6. `ArgoApplications`, `DriftDetector`: applications and the detector's runs;
   `DriftProofs`: their safety.

Every safety property of the passing runs has its theorem. Liveness stays with TLC (5).
No module to be proved about uses a RECURSIVE operator.

## 3. Modules

| module | models | extends |
|---|---|---|
| `SLOReconciler` | the SLO controller, its informer, the API server's part, tenants, users | — |
| `TenantMirror` | the abstract promise | — |
| `SLOMirror` | refinement mapping of `SLOReconciler` to `TenantMirror` | `SLOReconciler` |
| `MCSLO` | instances for TLC | `SLOMirror` |
| `SLOProofs`, `MirrorProofs` | theorems about the SLO controller | `SLOMirror` |
| `ManagedResource` | what alert and dashboard controller share | — |
| `AlertReconciler`, `MCAlert` | the alert controller | `ManagedResource` |
| `DashboardReconciler`, `MCDashboard` | the dashboard controller | `ManagedResource` |
| `ManagedProofs` | lemmas about every controller of that shape | `ManagedResource` |
| `AlertProofs`, `DashboardProofs` | theorems about the two | `ManagedProofs` and the controller |
| `DashboardTemplates`, `MCTemplates`, `TemplateProofs` | the layouts | — |
| `AdoRepos` | repositories, what `AdoClient` reads and writes in them, what teams do | — |
| `ScaffoldRollout`, `MCScaffold` | runs of `bootstrap.py` and `propagate.py`, pipelines | `AdoRepos` |
| `RolloutProofs` | theorems about the runs and the repositories | `ScaffoldRollout` |
| `ArgoApplications` | desired and live sentinel of each application, sync operations | — |
| `DriftDetector`, `MCDrift` | runs of `drift_detector.py` | `ArgoApplications` |
| `DriftProofs` | theorems about the detector | `DriftDetector` |

### 3.1 From code to actions

One action is one call that leaves the process, with the code up to the next
one. `pc` names that next call. For the SLO controller:

| action | code |
|---|---|
| `Reconcile` | the Get from the cache and the branches of lines 50-68 (`FirstCall`) |
| `AddFinalizer` | the Update of lines 62-66; a conflict or failure is returned |
| `BuildPayload` | lines 74-103: client, entity and payload, each with its error path |
| `ApplySLO` | POST or PUT, lines 105-113 and client.go 127-144 |
| `RecordSync`, `SetFailed` | the status patches, lines 115-141 and 245-257 |
| `DeleteSLO`, `RemoveFinalizer` | `reconcileDelete`, lines 144-164 |
| `Deliver`, `Write`, `UpdateAccepted`, `Merge` | informer, store, optimistic locking, merge patch |
| `Restart`, `RotateToken` | main.go 50-107, `BuildDTClients` |
| `CreateCR`, `EditSpec`, `DeleteCR`, `ChangeInUI`, `LateArrives` | users; a request that outlived its timeout |

Alert and dashboard have the same shape; `ResolveSLO` reads the DynatraceSLOs
(the dashboard one per step, so that they change in between), `BuildDashboard`
and `AlertPayload` say what of them goes into Dynatrace, and `SLOEvent` is the
world of DynatraceSLOs, which for dashboards enqueues the key. The dashboard's
loop appends to two lists, `sloIDs` and `sloNames`, and what is stored pairs
them by place, as the code does.

The rollout: `run[j]` is one run of a script, `todo` the repositories its loop
has left and `pc` the call of `AdoClient` it makes next.

| action | code |
|---|---|
| `GetDefaultBranch`, `CheckOptOut`, `CheckManifest`, `CheckPullRequest` | the queries of `process_repo` before its `try` (bootstrap.py 85-110, propagate.py 119-130); an exception here leaves `main` (`Raised`) |
| `Compare` | propagate.py 134-183: which changed files differ from the default branch |
| `ReadHeads`, `PushFiles` | `push_files`: the old object ID, then the push |
| `CreatePr` | `create_pr`; an exception from `Compare` on is the outcome "failed" |
| `CallFails`, `AnsweredWithError`, `FileMisread` | `_request` gives up; a POST is executed and sent again; any answer but 200 is a missing file, for each file that is read |
| `Bootstrap`, `BootstrapSome`, `Build`, `RunEnds` | the pipelines, `main`'s arguments and exit code |
| `Killed`, `TemplatesPushed`, `TeamActs` | agents, template authors, teams |

The detector: `det` is the run the CronJob has started, `hash` the
`desired_hash` in hand. `ListApplications`, `GetDesiredHash`, `GetLiveHash`,
`TriggerSync` and `Report` are its calls in order; `CallFails` is any answer
that is not the one hoped for, `Dies` a timeout that nothing catches.

### 3.2 What is abstracted

- One object of each kind: reconciles of different keys share only the
  clients, which never change while a process runs, and the workqueue never hands
  one key to two workers. One namespace.
- A spec is the revision number under which it was written. It stands for the
  generation and for the payload built from it; two specs are never equal.
- `queued` stands for "now, after RequeueAfter or after a back-off": timers are
  merged, so a property that holds does not depend on their lengths.
- The workqueue coalesces; a reconcile that was triggered by its own status
  patch is included (every delivery enqueues). An enqueue during a reconcile
  leads to another one.
- Messages and reasons are `reworded` or not, `lastSyncTime` is `touched` or
  not: a status patch whose only effect is one of these still writes a version
  and triggers a reconcile. `currentValue` (read by `GetSLO`, whose error is
  ignored) and `dashboardUrl` have no other effect and are left out.
- `lost` and `late` are different: a lost request was executed before the
  client gave up; a late one is executed at any later time, or never.
- In `ManagedResource` late requests and token rotation are left out (the SLO
  model has them and `reject` covers a revoked token for one request), the
  environment is fixed, the informer jumps to the stored version instead of
  showing every version, and the credentials may differ after a restart.
- The informer is at most `MaxLag` writes behind; a further write makes it
  show the oldest one first. A replica that takes over is no further behind
  than the leader was.
- `buildSLOPayload`'s refusals (a latency SLO without a threshold, an entity
  that cannot be resolved) are one flag `ok` of the spec.
- In `DashboardTemplates` texts, selectors and colours are left out; a query
  is its letter and the SLO it filters by. `ChooseTemplate` chooses among
  the three names the CRD's enum admits, so the error of `BuildDashboard`
  cannot occur.

- In `AdoRepos` a file's content is the push whose template it was rendered
  from, `Absent` or `Own`; service names are left out. Azure DevOps is external:
  it compares `oldObjectId` with the head and admits one active pull request
  from a branch. Whether a change of type "add" may replace a file is left
  open (`addOverwrites`). An object ID is any number no run remembers.
- `Compare` reads the current files in one step, and any of them may be misread. Reviewers, descriptions and
  diffs are left out; `list_repos` and the validation of the templates come
  before anything a run could leave behind, so a failure of theirs is a run that
  does not take place.
- A push to the template repository is the content after it and the templates
  `git diff HEAD~1 HEAD` names, that is those of its last commit.
- In `ArgoApplications` a revision is the hash of its `*.yaml` files. Applying
  the sentinel is a sync's only effect. That prod has no automatic sync is
  what applicationset-oac.yaml:83-95 asks for; whether Argo CD's merge of
  `templatePatch` takes `automated` away is Argo CD's. So is whether a resource
  tree shows annotations under `info` (drift_detector.py:79): the model answers
  the call with the hash the code expects, or with None.

Noted while reading and not made into a run: README.md:144 of docs/operator says
the SLO's ID goes into the burn rate selector, while it goes into the
description only (`dynatracealert_controller.go:181`); a burn rate alert without
`sloRef` is accepted although types.go:188 says the field is required;
`alertingProfileRef` is read by nothing; main.go:2 says all controllers are
registered and the dashboard controller is not; there is no controller for
DynatraceNotification; bootstrap-pipeline.yaml:49 puts quotation marks into the
filter, which is a regular expression, so no repository name matches it;
templates removed from the scaffold stay in the repositories
(propagate.py:153); sync-hook.yaml is emitted by nothing.

## 4. Runs

`tlc -workers 2 -config X.cfg M` with the module `PROJECT.json` names. TLC does
not check for deadlock in the operator's runs: with nothing in its queue it
rests, and the bounds stop users and trouble.

### 4.1 What holds

| run | shows |
|---|---|
| `slo_any_trouble` | all nine kinds of trouble, edits of every field with `spec.environment` among them, clients for both environments, cache up to two writes behind: `CleanDelete`, `FinalizerFirst`, `RecordedInItsTenant`, `SyncedWasAccepted`, `StraysExplained` (the four ways in which an SLO is lost track of), and the invariants `IInv` (with `TypeOK`) and `AcceptedInv` that prove them |
| `slo_liveness` | `EventuallyInSync`, `DeletionCompletes` with recoverable trouble and a fixed environment, and all the while the refinement of `TenantMirror` with its invariant `LeavingInv` |
| `alert_any_trouble`, `alert_liveness` | the alert's `NamesItsSLO`, `CleanDelete` and their inductive invariant `IInv` under all eight kinds of trouble; liveness and refinement of `TenantMirror` |
| `dashboard_any_trouble`, `dashboard_liveness` | the dashboard's `TilesMatchLabels`, `CleanDelete` and `IInv`; liveness, a missing SLO is shown, refinement |
| `templates` | no overlap, no hole, every SLO shown, for up to six SLOs; from the fifth on an SLO's tile, and nothing else, leaves the grid (`OnlyTheFifthLeaves`) |
| `scaffold_overlap` | two runs of either script overlap in a repository whose team edits, merges, closes, opts out and deletes branches, and one call goes wrong: `ExitZeroMeansSettled` (its exception is a manifest that a build could not read), `OneVersionPerBranch`, `RespectsTheTeam`, and the `IInv` that proves them |
| `scaffold_rollout` | three pushes over two repositories, two calls go wrong: one failure among the repositories shows in the exit code; and `RepeatingHelps`: where "add" replaces files, `bootstrap.py` run again and again settles every repository, and a build that is run again ends with 0 at last |
| `drift` | `NoFalseAlarm`, `StandingDriftReported`, and `DriftGoes`: the detector's syncs alone remove the drift of an automated application |

### 4.2 Where code and documentation disagree

Two runs each check one property that states what the quoted line says, and TLC
finds it violated:

| run | property | the line says | the code does |
|---|---|---|---|
| `slo_stale_cache` | `AtMostOneLive` | development.md:241 "every reconcile call must be safe to repeat" | no trouble, a cache one write behind: a reconcile started before the informer shows the recorded ID creates a second SLO |
| `scaffold_opted_out` | `OptOutRespected` | README.md:484 "Bootstrap and propagation scripts skip repos with this file." | `propagate.py` never looks for `.no-oac` |

The modules define more properties of this kind. They are not among the runs;
with the constants named (the others as in the run named) TLC refutes each of them:

| property | constants | the line says | the code does |
|---|---|---|---|
| `DeletionSucceedsFirst` of SLOs | `slo_stale_cache`: `Clients <- DevAndProd`, `EnvMutable = TRUE`, `MaxLag = 0` | docs/operator/README.md:176 "The object stays in the cluster until deletion succeeds." | after an edit of `spec.environment` the DELETE goes to the new tenant; its 404 counts as deleted, the SLO stays in the old one |
| `NoOrphans` | `slo_stale_cache`: `Troubles <- LostReplies`, `MaxTrouble = 1`, `MaxLag = 0`, `MaxRev = 1` | docs/operator/README.md:177 "This prevents orphaned resources in Dynatrace." | the reply of a create is lost, the object is deleted before a retry: no ID, no DELETE |
| `RotationTakesEffect` | `slo_liveness`: `Troubles <- Rotations` | development.md:261 "token rotation takes effect on the next reconcile without a pod restart" | the clients keep the token read at start-up |
| `DeletionSucceedsFirst` of alerts | `alert_any_trouble`: `Troubles <- LostSecret`, `MaxRev = 1`, `MaxIds = 1` | docs/operator/README.md:176, as above | without a client for the environment the finalizer goes without a DELETE |
| `WithinGrid` | `templates` | dashboard_templates.go:51 "grid = 1216px wide" | nothing bounds `sloRefs`; the fifth SLO's tile starts at 1216 |
| `ScaffoldsUpdated` | `scaffold_overlap` | propagate.py:3 "Push template updates to repos that already have OaC scaffolded." | a manifest that cannot be read is taken for a missing one: skipped, exit code 0 |
| `SafeToRunAgain` | `scaffold_overlap` | bootstrap.py:6 "Safe to run multiple times — idempotent by design." | every file is an "add", also onto a branch an earlier run left without a pull request; where the service refuses that, every later run fails at the push |
| `ReadsItsOwnHead` | `scaffold_rollout`: `LongerNames <- SecondContinued` | oac_utils.py:157 "Return the HEAD commit objectId for *branch*, or None if missing." | while build 12's branch is missing, that of build 120 matches the filter |
| `ProdSyncIsManual` | `drift` | applicationset-oac.yaml:4 "Prod sync is manual to prevent accidental SLO changes." | with `AUTO_REMEDIATE` "true" (cronjob.yaml:57) the detector syncs prod, also for a commit nobody has approved |

`SafeToRunAgain` fails only with a service that refuses to "add" a path that exists.
Which of the two Azure DevOps does is not in this repository, so the model
allows both; the passing property that depends on it, `RepeatingHelps`, says so.

Other disagreements, without a property of their own:

In the operator:

- `EventuallyInSync` fails with `Troubles = {"uiDelete"}`: an SLO deleted in the
  UI is never created again, since PUT answers 404 and the ID stays (client.go:151
  says "caller should re-create").
- The dashboard controller drops the finalizer without a client as the alert
  controller does (dynatracedashboard_controller.go:188).
- An empty reply to a create is recorded as `Synced=True` without an ID
  (client.go:83); a missing SLO (alert) and a missing client (both) are returned
  as errors that no condition shows (development.md:255).

In the rollout and the detector:

- bootstrap.py:6 says "idempotent by design". If the pull request of one run is
  merged between another run's look at the manifest and its look at the pull
  requests, the scaffold is proposed a second time. `RespectsTheTeam` is what
  remains true.
- Two runs of `bootstrap.py` with different templates, one after the other, leave
  on the branch what the first pushed and the second no longer has:
  `OneVersionPerBranch` says that the shared files are of one version.
- A build re-run after newer ones proposes its older templates. A repository
  whose first pull request is open while a build runs misses that build.
- cronjob.yaml:2 speaks of "live Dynatrace state"; both hashes are of the
  sentinel, so a change in the Dynatrace UI is in neither, nor is a deployment
  that failed. The hash covers `*.yaml` only, so a change of JSON files alone
  leaves the sentinel as it is.
- A sentinel that is missing is skipped, not reported: `Drifted` leaves it
  out. When the first sync of an application comes between the two reads, the
  run counts as drifted what was never there before (`NoFalseAlarm` speaks of
  applications out of sync). A run that dies has sent no message.

### 4.3 Bounds, and why they are enough

`MaxRev` (specs written) 2: one to create, and one to edit while a reconcile
is under way or to create the object again after a deletion. `MaxIds` 2: a resource
and its duplicate, or one of a later incarnation; in liveness runs 6 or 7, more
than the bounded trouble can use up, so that a create is never blocked by the
bound. `MaxLag` 2: the informer can miss the finalizer and the status patch of
one reconcile at once. `MaxTrouble` 2: two mishaps, e.g. a lost reply and a
crash (1 in the dependents' liveness runs). `MaxChanges` 2 or 3: an SLO appears, gets an ID, and
gets another one or goes; with two SLOs, three changes let one of them
overtake the other. Two environments: `slo_any_trouble` has clients for both and
edits that move the object between them; the liveness run has a client for one,
so that the other is the environment without a client. `MaxRefs` is 6: two beyond
the four columns; three IDs allow repetitions.

Rollout: two runs overlap (a third adds a repetition of what one of the two
does); two edits are needed to merge a pull request and delete its branch; one
call goes wrong there, and two where runs come one after the other, so that a
run that repairs a failure can fail itself. Three pushes let a build be run
again after a later one; the third removes a file and changes the manifest.
Two repositories, so that one follows a failing one. Whether "add" replaces a file
is left open in every run. BuildId 12 and 120, the pair whose names begin alike,
are in none of the runs: reading the wrong head is certain with them (4.2), and
the runs are about builds whose names are apart. (`RolloutProofs` admits
any such pairs.) Detector: one automated and one manual
application in either order, three revisions of which the last has the hash of
the one before; two mishaps, e.g. an edited sentinel and a failed sync.

The two runs that show a violation have the smallest bounds that show it.

### 4.4 Fairness

`FairSpec` has weak fairness of the worker's next call and of `Deliver`, and of
nothing else. A workqueue hands out every key it holds, requeue delays are
finite, every HTTP call ends within 30 s, and the API server's watch delivers.
A call may end in failure as often as the bounded trouble allows; users, trouble,
restarts and late requests need not happen. The liveness properties say
"once these end": `<>[]InSync`. Which kinds of trouble are recoverable is a
definition of the MC module; `uiDelete` and `rotate` are not among them, which is
the subject of 4.2, nor is `late`, which a liveness run cannot tell from `uiEdit`.
`CleanDelete` of alerts and dashboards speaks of a process with a client for the
environment.

The rollout's `Fairness`: a run that was started goes on (every call is retried a
bounded number of times; a killed run ends), and nothing else. The bootstrap
pipeline has no trigger and its dry run is the default, so nobody is assumed to
start anything: that runs are repeated is a hypothesis inside `RepeatingHelps`.
For a build the property says that not for ever does somebody have to run it
again, since a build that ended with 0 is not.

The detector's `FairSpec`: the CronJob starts runs, a run's requests have
timeouts, and sync operations end. Argo CD's automatic and people's manual syncs
are possible and not assumed.

## 5. Proofs

`tlapm` checks every step; no step is left unproved. The constants are
arbitrary sets and bounds subject to the assumptions their modules name:
`EnvsAssumption` and `BoundsAssumption` for the SLO controller, those of
`ManagedResource` for the dependents, `TemplatesAssumption` for the layouts,
`ReposAssumption` and `RolloutAssumption` for the rollout (at least one version
of the templates, finitely many runs; any repositories, files and branches),
`ApplicationsAssumption` for the detector (finitely many applications, at least
one revision).

| theorem | of | needs |
|---|---|---|
| `SLOProofs!TypeCorrect` | `TypeOK` | — |
| `SLOProofs!Inductive`, `IDsMatchTenants`, `DeletesAreClean`, `FinalizerGuards` | `IInv`, `RecordedInItsTenant`, `CleanDelete`, `FinalizerFirst` | — |
| `SLOProofs!StraysAreExplained` | `StraysExplained` | — |
| `SLOProofs!AcceptedHolds`, `SyncedIsEarned` | `AcceptedInv`, `SyncedWasAccepted` | — |
| `MirrorProofs!LeavingHolds`, `Refinement` | `LeavingInv`, `MirrorsTenant` | `Calm`: environments are fixed, no late request, no deletion in the UI |
| `AlertProofs!Inductive`, `NamesItsSLOHolds`, `CleanDeleteHolds` | `IInv`, `NamesItsSLO`, `CleanDelete` | — |
| `AlertProofs!Refinement` | `MirrorsTenant` | `Calm`: no deletion in the UI, credentials stay |
| `DashboardProofs!Inductive`, `TilesMatchLabelsHolds`, `CleanDeleteHolds` | `IInv`, `TilesMatchLabels`, `CleanDelete` | — |
| `DashboardProofs!Refinement` | `MirrorsTenant` | `Calm` |
| `TemplateProofs!TypeCorrect`, `TilesDisjoint`, `RowsFilled`, `AllShown` | `TypeOK`, `NoOverlap`, `NoHoles`, `EverySLOShown` | — |
| `TemplateProofs!FitsTheGrid` | `OnlyTheFifthLeaves` | — |
| `RolloutProofs!Inductive` | `IInv` | — |
| `RolloutProofs!ExitZeroMeansSettledHolds`, `OneVersionPerBranchHolds`, `RespectsTheTeamHolds` | the properties of these names | — |
| `DriftProofs!TypeCorrect` | `TypeOK` | — |
| `DriftProofs!NoFalseAlarms` | `NoFalseAlarm` | — |
| `DriftProofs!StandingReported` | `StandingDriftReported` | — |

The hypotheses of the refinements are needed. `TenantMirror` promises that a
resource is destroyed only with its object and that the tenant's changes are the
controller's: an edit of the environment leaves a resource behind, a late request
and a deletion in the UI change the tenant at any time, and without credentials
an object goes before its resource.

The argument for the SLO controller. `CleanDelete` speaks of the stored object,
but the worker decides on a copy that may be arbitrarily old, so it is not
inductive. What saves it is the resourceVersion of the finalizer's Update, and
`IInv` says how:

- `StreamInv`: the last version on its way to the informer is the stored one;
- `CurInv`: `cur` (the Update will be accepted) implies that the worker's copy
  *is* the stored object, and while a deletion is worked on with `cur`,
  nothing newer is under way;
- `PcInv`: the branch the worker is in fits its copy, and IDs in hand belong to
  the copy's tenant;
- `HeldInv`: a copy with a finalizer and no deletion mark can be trusted however
  old it is, because that object cannot be gone yet, and its spec has since
  named more environments at most;
- `EnvsInv`, `TenantInv`: `envs` is the history of the environments that a copy's
  spec has named, since the object was created; every copy's ID is of one of
  them. A status patch from any base therefore merges an ID of a tenant that this
  object has named, even while edits move it to another;
- `GoneInv`: at the step that drops the finalizer the copy's SLO is gone from the
  tenant that the copy names, and IDs are never used twice.

Each part has a lemma (`StreamStep`, `CurStep`, …) over the cases of `StepCases`,
which sorts the twenty-odd ways a step can change the object into those that
write a version and those that do not. `SyncedWasAccepted` uses a second
invariant, `AcceptedInv`, that quantifies over all copies because merge patches
may revive the condition of a stale base. The refinement needs `LeavingInv` in
addition: a copy marked deleted with its SLO still live is a copy of an object
that is still there, so that no `Destroy` happens under an object that is to
stay. It fails with late requests and with UI deletions, which is why the
theorem excludes them, and when the environment moves: with it fixed,
`GoneInv` gives that the SLO is gone altogether (`CalmGone`).

`StraysExplained` says when an SLO gets out of the controller's reach: it is
live, and neither recorded in the object nor about to be recorded by the worker
(`Stray`). It is an action property over the same invariants: each step of the
controller, of a user and of the informer is shown to make no stray but in the
four ways listed. A lost reply, a stale cache and an edited environment are among the cases of
4.2; that there are no others but late requests is what the theorem adds to them.

The dependents. `ManagedProofs` knows of a controller only what `WorkerStep`
says of it: that each of its steps takes a copy, adds the finalizer, resolves
SLOs, applies, patches, deletes, drops the finalizer or returns. `ManagedInv` is the `IInv` of the SLO controller for this shape
and the copy that the informer jumps to; `NextManaged` of each controller
maps its actions to these steps, and so does the refinement of `TenantMirror`,
for which `LeavingInv` is needed as above. What is particular to each
controller is `NamesInv`: every ID the worker has read was, at that time or
before, the ID of the SLO at that place of the list. It is about `assigned`, the
history of the SLOs' IDs, because an SLO may get another ID, or go, between the
read and the request. For the dashboard it says of each place of the two lists
that the ID there was that of the SLO named there, and, as long as no SLO has
been passed over, that the names are the spec's.

The rollout. A run decides on what it read one or more calls ago, and the
properties compare that with a history of the repositories: `unseen`, the
repositories not yet settled at any moment of the run, and `lacked`, the reasons
to be left alone that were missing at some moment of the turn. `misread` records
which file of which repository a run could not read although it is there. Every step of
anybody may add to that history (`Observed`), in the run's favour only
(`ObservedKeeps`). `Sane` says what a run's record means at each call: as long
as nothing failed, an unsettled repository still has its turn; from the look at
the pull requests on, `bootstrap.py` has seen both reasons lacking; the files in
hand are those of its push (`Carries`). A misread file breaks this in two places,
and the properties name them: `bootstrap.py` has found lacking what lacked or
what it could not read (`FoundLacking`, that very file only), and a build may
pass over a repository whose manifest it could not read (`HidItsScaffold`). For the branches the point is `PushFiles`: it writes over
what other runs left there, so `BranchesInv` has the old tree and the pushed
files both agree with one version, and that an absent branch carries nothing.
An object ID that no run remembers exists because runs are finitely many
(`NewCommitFacts`).

The layouts: `Placed` characterises a tile by its rectangle; one lemma per row
gives its place for any number of SLOs, and tiles of different rows are apart
by their tops. For `NoHoles` the same places are read the other way: `Filled`
says that some tile covers each column of a row; in the first row it is an SLO
tile up to their number and the chart from there on (`RowOneFilled`).
`EverySLOShown` follows from the four kinds of tiles there are (`Made`) and from
the letters of `PerSLO`.

The detector: `NoFalseAlarm` depends on two reads of a moving system.
`AgreeInv` says that while the application has not been out of sync, both of its
hashes still are the one in hand: a step of Argo CD moves only one of them
(`ArgoSteps`), and if it moves one, they are apart. `StandIn` says that standing
drift is in the list already or its application still has its turn; it needs
that the loop visits every application (`OrderFacts`) and that a comparison
which finds no difference cannot be of an application with standing drift. Both
are stated of any run, `Sound(d)`, so that an action only says what it makes of
the run, and `Settles` accounts for the history once for all of them.

Only model-checked: liveness (`EventuallyInSync`, `DeletionCompletes`,
`MissingSLOShown`, `RepeatingHelps`, `DriftGoes`), because fairness and
ENABLED are out of the prover's reach, and the counterexamples of 4.2.

## 6. Not modelled

- The pull-request gate: its steps are pure functions of two trees and write
  nothing. On the fresh checkout of the pipeline `git diff HEAD`
  (slo-regression-check.py:44) is empty, so the regression check compares
  nothing, and a property of the targets it lets pass would be vacuous, or
  false after one step. The endpoint generator translates text; the estimator
  adds up.
- The PostSync Job (sync-hook.yaml): the plugin emits the sentinel only, the
  kustomization does not list the Job, and its workspace is an emptyDir.
- The operator process beyond start, restart and credentials: controllers of
  different kinds share nothing but DynatraceSLO objects, whose changes the
  dependents' modules leave open (`SLOStep`).
- What controller-runtime does before the manager starts; RBAC and CRD schemas;
  `ResolveServiceEntity`'s answer beyond found or not found; several replicas
  reconciling at once, which leader election excludes up to a lease that is
  lost while a call is under way (that call is then a `late` request).
- Kyverno, Terraform, Crossplane, Backstage and the Jinja templates:
  declarations that external engines interpret.
