# Verification of the air-gapped AI gateway CLI

This directory holds TLA+ models of the program under `src/airgap_ai_gateway`,
the TLC configurations that check them on small instances, and TLAPS proofs of
the properties that matter most. `PROJECT.json` lists the components, the runs,
the theorems, the hazards each property is for, and the source lines every
definition stands for.

The program is a command line tool. It turns configuration and Kustomize
overlays into *plans*, and carries out a plan by starting one `kubectl` (or
`docker`, `kind`, `oras`) process after another. It has no threads and no server:
what makes it hard is that its commands share files that people move, edit and
forget, that the kubeconfig's current context and the clusters change under it
between any two processes, and that every process can fail or be killed halfway.

## Inventory

| Component | State it keeps | Operations | Hard behaviour | What makes it correct |
|---|---|---|---|---|
| Plan building (`planning.py`, `gitops.py`) | the plan file: command, mode, context, overlay, actions, resources, hash over all of them | plan a deploy, cutover, destroy, GitOps bootstrap or rollback | the plan is read, reviewed and possibly edited long before it is used | the identifier changes with the contents; the action list verifies before it writes; a dry-run plan writes nothing |
| Snapshot (`snapshot.py`) | the snapshot file | read every planned resource, the context verified before each | reads are spread over time; aborts leave an older file; errors look like absence | covers what the run overwrites |
| Ledger (`ledger.py`) | the ledger file: one entry per resource and run | derive from plan and snapshot, select a run | derived from a snapshot, not from the cluster; several runs in one file | says what the run really created and overwrote |
| Executor and gate (`execution.py`, `safety.py`) | position in the plan, verified flag, report | admission checks, eleven kinds of actions, report | context switches, partial failure, kill, edited overlays | only approved plans change only the verified cluster; cleanup fails closed |
| Polling (`conditions.py`) | attempts so far | poll one resource | never ready, kubectl errors | gives up after its attempts |
| Redaction (`redaction.py`) | none | redact reports | a redacted report is also the ledger | nothing sensitive printed, nothing redacted restored |
| CLI (`cli.py`) | none of its own | one handler per subcommand | loads and saves the files above | passes the checks on in order |
| Lifecycle (`lifecycle.py`, `onboarding.py`) | source files of models and consumers, lifecycle plans | plan and apply source changes under hashes | file-by-file writes, plans from old sources, kills, second applies | what Kustomize renders is always complete; nobody gains access unasked; no grant without its limit |
| Registry promotion (`registry.py`) | private registry, plan, report | check, copy, report | failure in the middle, re-run, checks that fail, a lock that changes | "applied" is true; what is verified can be pulled |
| Air-gap bundle (`airgap_bundle.py`) | bundle directory, inventory, checksums, parts | build, split, reassemble, verify | killed builds, copies overtaken by builds or put on top of older ones, lost and damaged files | a bundle that verifies is what its lock asks for; a report means a whole bundle; a restored blob is one build's |
| Runtime verification (`verification.py`) | results, attempts | poll, probe, verdict | context switches, rollouts, other clients, failing or hanging kubectl, lost answers | "passed" is true of what was looked at, "failed" has a reason, there is a verdict if every command returns |
| Kind lab (`kind_lab.py`) | disposable cluster, registry, evidence | phases, diagnostics, evidence, teardown | exceptions in every phase and in the handlers, several labs under one kubeconfig, names given twice, downloads that stall | only its own cluster is touched and taken down; the evidence is true; it cleans up |
| Configuration (`configuration.py`, `models.py`) | none | load, validate | cross-reference rules | what is accepted renders unambiguous routes |
| Rendering and manifest rules (`renderer.py`, `manifest.py`) | none | kustomize build, validate | many rules on many kinds | accepts exactly what the rules say |
| Discovery (`discovery.py`) | none | read a cluster export, pick a unique candidate | ambiguity | a unique candidate or none |

The components meet in files (plan -> snapshot -> apply -> ledger -> rollback
plan -> apply; sources -> lifecycle plan -> sources; lock -> bundle -> medium ->
verification; lock -> promotion plan -> registry -> overlay) and in the
clusters; the CLI calls the others synchronously.

## Modules

| Module | What it is | Code |
|---|---|---|
| `Kubectl` | what apply, delete and namespace deletion do to a cluster | external; what `planning.py` and `execution.py` rely on |
| `ExecutionPlans` | plans, ledgers and rollback plans as pure operators | `planning.py`, `gitops.py`, `ledger.py`, `redaction.py` |
| `ChangeControl` | the change workflow as a state machine | `cli.py`, `snapshot.py`, `execution.py`, `conditions.py` |
| `GatedChange` | the abstract specification of the executor | what `docs/security-model.md` asks of any cluster-changing command |
| `ChangeControlProofs` | theorems about `ChangeControl`: types, the gate, the refinement | |
| `RecoveryProofs` | more of them: action lists, snapshot and ledger | |
| `RollbackProofs` | and the rollback | |
| `Configuration` | what a configuration says, and which are accepted, as operators | `configuration.py`, `models.py` |
| `SourceTree` | the repository files that lifecycle commands write | `lifecycle.py`, `configuration.py` |
| `Lifecycle` | plans over the source files and their application file by file | `lifecycle.py`, `cli.py` |
| `KindLab` | several runs of the disposable lab as processes | `kind_lab.py` |
| `SourcesLock` | the lock of the artifacts and its validation | `airgap_bundle.py` |
| `AirgapBundle` | build, transfer, verification and reassembly of a bundle | `airgap_bundle.py`, `cli.py`; the medium is external |
| `RegistryPromotion` | promotion plans, their application, the image rule for overlays | `registry.py`, `airgap_bundle.py`, `manifest.py` |
| `SupplyChain` | the two together, over one set of locks | |
| `RuntimeVerification` | the checks of `verify runtime` against a moving cluster | `verification.py`, `conditions.py`; cluster and gateway are external |
| `KindLabProofs` | theorems about `KindLab` | |
| `SupplyChainProofs` | theorems about `SupplyChain` | |
| `LifecycleProofs` | theorems about `Lifecycle`: types, routes, grants | |
| `ConfigurationProofs` | more of them: what the sources configure | |
| `VerificationProofs` | theorems about `RuntimeVerification` | |
| `MCChangeControl`, `MCLifecycle`, `MCKindLab`, `MCSupplyChain`, `MCRuntimeVerification` | small instances for TLC | |

`ChangeControl` extends `ExecutionPlans`, which extends `Kubectl`, and
instantiates `GatedChange` with a refinement mapping. `Lifecycle` extends
`SourceTree`, which extends `Configuration`. `SupplyChain` extends
`AirgapBundle` and `RegistryPromotion`, which both extend `SourcesLock`.

### State and actions of ChangeControl

The files are `planFile`, `snapshotFile` and `ledgerFile`; the clusters, the
current context, the configured context and what the directories render are
`cluster`, `current`, `configured` and `source`. `phase` says which command is
running; `capture` holds the locals of `capture_snapshot` and `run` those of
`execute_plan`. A cluster maps each resource identity to its contents or to
`Absent`.

* `PlanChange`, `PlanRollback`: the plan handlers; `ChangeActions` and
  `RollbackActions` build the same action lists as the planners.
  `EditPlanFile` makes the two edits that `tests/test_safety_contract.py` makes.
* `CaptureStart`, `CaptureVerify`, `CaptureRead`, `CaptureMisread`,
  `CaptureAbort`, `CaptureHangs`, `CaptureWrite`: one step per kubectl process of
  `capture_snapshot`, and its ways out.
* `Admit`: the checks of `_handle_apply`, `ensure_mutation_is_confirmed`,
  `_validate_plan_integrity` and `_validate_execution_inputs` together. They
  change nothing and nothing runs between them that they read, so they are one step; a refused command
  is a state in which `Admit` is disabled.
* `Verify`, `Diff`, `ReadIngress`, `Apply`, `ApplyDry`, `Delete`,
  `DeleteResource`, `Restore`, `PollReady`, `PollAgain` and the failing variants:
  one step per plan action, or per polling attempt. A failing mutation may have
  changed any part of what it was asked to change, and it may never return:
  `SubprocessCommandRunner` gives kubectl no timeout (`execution.py:219-225`), and
  `kubectl delete` waits for finalizers. The phase is then `"stuck"`, which only
  `Crash`, the end of the process, leaves. `Finish` is the end of `execute_plan`.
* `SaveLedger`: the operator keeps the printed ledger, alone or added to an
  earlier one. `ForeignWrite`, `SwitchContext`, `EditSource`, `EditConfig`: other
  people, at any moment (the configuration, which a command reads once at its
  start, only between commands).

The hash of a plan is the tuple of the hashed fields: no collisions. One
operator runs one command at a time. Apart from a partly failed apply, a kubectl
process takes effect in one step.

History variables and fields (`anchor`, `touched`, `quiet`, `switched`,
`ingress`) are read by no guard of a program action. `touched` is what the run did to the
clusters, with old and new contents; `quiet` says nobody else wrote, switched or
edited since the capture of this very plan started; `anchor` is the last change
command that succeeded.

### State and actions of Lifecycle

`tree` maps every file that a lifecycle command may write to what it says and
whether its text was retouched; the generated manifests are reduced to what
connects them: a route has its host, its path and the reference to its backend
with kind, name, namespace and port (`BackendRef`: the namespace is that of the
model's service), a policy its permission, a Service contract its name and port, and
what is generated is in `GatewayNamespace`, whatever the model's service says.
`WithContract` leaves a Service alone that is there by name. `plans` are the plan files,
`job` is the loop of `apply_lifecycle_plan`, `report` its outcome or "running"
(`Running`). The configuration directory is an argument of the commands, and
`ConfigAfter` says how many of the generated directories come before it in the order
of paths. `FirstModels` are the names of the model files of a checkout; a model to add may
have one of them as its key, and its file then replaces that one
(`lifecycle.py:266-269`). The starting checkouts are constants; `CheckoutAssumption`
and `ConfiguredAssumption` say what is taken of them, and TLC evaluates both: they
hold the generated bases, no grant goes beyond the descriptors, the routes they
list are complete, their configuration is accepted, and a model in the file that
`model add` would put it in has its route listed. `Requested[m]` is the
configuration of the model `m`, in force or asked for.

* `PlanModelAdd`, `PlanConsumerAdd`, `PlanConsumerRotate`, `PlanConsumerRevoke`:
  `build_model_add_plan` and the three actions of `build_consumer_plan`, with
  the validation of the candidate configuration where the code validates it.
  The changes of a plan are a function from files to contents before and after,
  which `Changes` makes of the new texts.
* `Apply`: `_handle_lifecycle_apply` up to the first file. `WriteNext`, `Refuse`,
  `Finish`: one turn of the loop, its refusal, its end; files go in the order of
  their paths (`_dedupe_changes`), which `Precedes` defines.
* `TamperPlan`, `Retouch`, `Kill`: a file dropped from a reviewed plan, a source
  edited by hand, the end of the process between two files.

`withdrawn`, `displaced` (the models whose file was replaced by that of another),
`halted` and the field `seen` of a plan are history.

### State and actions of KindLab

Every lab is a process: its phase of `KindE2ELab.run`, and after the try block
the clauses `diagnosing` (except), `writing`, `deleting` and `removing`
(finally). `name` is what `new_lab_names` made of the random token or of `--run-id`,
which may be that of another lab: nothing keeps names apart. `clusters`,
`registries` and the `current` context are shared, with
one cluster that is nobody's. A guarded kubectl command is two steps,
`Verify` and `Act` (or `Poll`), and a phase of many like commands is one: the
second of two kubectl commands can fail exactly as the first can. A failing
command may or may not have changed the cluster. `Check` stands for fetching or
rendering something and looking at it. `Interrupt` is Ctrl-C, which no except
clause catches, `Kill` the end of the process, `UseContext` a switch by hand.
`Hang` is a wait that nothing bounds: `docker tag` and `urlretrieve`
(`kind_lab.py:529, 562`) have no timeout, and that of an HTTP probe bounds every read
and not the answer. The lab is then `"stuck"` until somebody interrupts or kills it.
`wrong`, `bad` and `lost`, and the `users` of a cluster are history.

### State and actions of SupplyChain

A file of a bundle is what its program reads in it plus one bit for damage it
does not notice; the hash of a file is the file, so there are no collisions.
`StartBuild`, `ClearFile`, `WriteFile` are `build_bundle` file by file in its
order (only what is in the two directories is cleared in any order, as the file
system lists it); what it fetches is what is compared with something (`Pinned`,
`Fetched`): an image is the one its canonical source pins, since the tool that
copies it compares; a file has the sha256 of its entry, or any content where there is none.
`ociDigest` is written down and compared with nothing (`airgap_bundle.py:584-587,
645, 652-678`), so that a lock may say one digest there and fetch another;
`ValidEntry` asks of an image only that the three are there. `StopBuild` is a failure or kill that may leave the file at hand torn;
`copying` maps the places of a copy order that are still to come to their files;
`StartCopy`, `CopyFile`, `LoseFiles` are the medium, which nothing in the
repository is; `Verify` is `verify_bundle` and `Reassemble` `reassemble_parts`.
`PlanPromotion`, `StartPush`, `CheckExisting`, `CopyImage`, `FailCopy` and
`FinishPush` are `registry promote`; `VerifyManifests` is the image rule of
`verify manifests`, `EditOverlay` the overlay changing between the two. Bundle
and promotion share only the lock: images are copied from their canonical
source and never out of the bundle, and the composition shows it. The destination
pins a digest of its own; where it is not the source's, `skopeo copy` fails (`Refused`).

### State and actions of RuntimeVerification

`run` holds the credentials passed, the results so far and the attempts of the
check at hand; `Checks` is the list of `run_runtime_verification`. `VerifyContext`
and `Poll` are the two halves of a guarded `kubectl get`; `ProbeAllowed`,
`ProbeDenied`, `ProbeClosed` and `ProbeLimit` are one HTTP request each,
`LoseProbe` a request that times out. Of the two halves, an unreadable context (`VerifyContext`,
`verification.py:115`) and output that is no JSON fail the check at once, and a failing
`kubectl get` is tried again. `Answer` is the gateway for known keys (403 before
429), and `shut` says which of the uninvited requests (no key, unknown key, wrong
host) a cluster turns away. `Hang` is a command that does not return, after which the
verification is `stuck`; `Interrupt` is the operator ending it. `SwitchContext`,
`Rollout`, `Traffic` and `MinuteEnds` are the surroundings.

## Runs

| Run | Instance | Question | Result |
|---|---|---|---|
| `gate` | two clusters with a Namespace and a Gateway installed, every command, one switch, one retarget, one tampering, one misread, two applies, two polling attempts | can anything reach a cluster that should not, and does every command end, or wait for kubectl? | passes: `GatedMutation`, `StaysOnVerifiedCluster`, `CleanupFailsClosed`, `DryRunApply`, `ImplementsGate`, `EndsOrWaits` |
| `recovery` | one cluster, a Namespace, a Gateway and a Service, from empty, prepared and complete, a deploy and a rollback, one foreign write, one overlay edit | do snapshot, ledger and rollback agree with what happened? | passes: `SnapshotCoversRun`, `LedgerTellsTheTruth`, `RollbackRestores` |
| `lifecycle` | one configured model, in a file of its own or one that a new model replaces, and two to add, of which one asks for its host, its Service and another namespace, two consumers, all commands, two plans, two applies, one kill, one edit | what is left in the sources wherever applies stop? | passes: `RouteIsComplete`, `RoutesUnambiguous`, `AppliedLeavesValidConfig`, `QuotaFollowsGrant`, `GrantsAreRequested` |
| `kind_lab` | two labs under two names or one, one of them with nginx and one kept, two readings of a condition, one fault | what can two labs and the finally clauses do to each other? | passes: `OwnClusterOnly`, `InstallsOnlyChecked`, `EvidenceTellsTheTruth`, `TearsDownOnlyOwn`, `CleansUp` |
| `supply_chain` | two images and a chart, three locks: one whose digests agree, one in which the `ociDigest` or the destination of an image differs from its source and the chart has only an OCI digest, one that is invalid; two parts, two copy orders; scenarios for overtaken, layered and stopped builds and for promotion | is what is verified, restored or reported what one lock asks for? | passes: `VerifiedIsLocked`, `ReportMeansWhole`, `RestoredIsOneBuild`, `AppliedIsPresent`, `ProvenIsPullable` |
| `verification` | two models, two consumers, nine states of a cluster, two contexts, two attempts, three requests at the limit; scenarios for faults, moves and repetition | is a verdict true, in both directions? | passes: `PassedIsTrue`, `FailureHasReason`, `Ends` |
| `dry_run_rollback` | a deploy and a rollback | does a dry run leave the clusters alone? | no: `DryRunChangesNothing` is violated |
| `stale_snapshot` | a deploy, its rollback, one foreign write | does rollback delete only what the run created? | no: `DeletesOnlyWhatTheRunCreated` is violated |
| `edited_overlay` | a deploy, one overlay edit | does an apply stay within the approved plan? | no: `ChangesOnlyPlannedResources` is violated |
| `shared_ledger` | two deploys (one of them dry) recorded in one ledger, and a rollback | does rollback use the selected run's entries? | no: `RestoresSelectedRun` is violated |
| `redacted_ledger` | a deploy and its rollback, one sensitive resource | does rollback restore what the snapshot has? | no: `RestoresFromSnapshot` is violated |
| `regrant` | a rotated consumer, three plans, four applies | does a revocation outlive older plans? | no: `RevocationOutlivesPlans` is violated |

Every module's type invariant is checked as well, by the one passing run of it or,
for `ChangeControl`, by `gate`. The six
violated properties are sentences of the documentation or of the plan
itself; `PROJECT.json` quotes them. Those of `ChangeControl` and the passing properties differ in
their conditions, and that is the result: the snapshot covers the run, the
ledger tells the truth and the rollback restores *provided* nobody else wrote,
edited or switched since the capture started, the ledger saved is the one of the
run alone, the rollback plan was made from that ledger, and no value was redacted.

The counterexample of `shared_ledger` is this: a live deploy succeeds and its ledger
is saved; the snapshot is captured again and the same overlay is deployed in
dry-run mode, which is a run of its own with a ledger of its own; a rollback of the
live run is planned; the second ledger is added to the file. The rollback is
admitted, since the entries of the selected run are as they were, and its restore
finds the other run's entry first and writes that entry's `before`, which is what the
live run had deployed. The condition of `RestoresSelectedRun` rules out ledgers
that no longer hold what the plan was made from.

### Bounds

`Budget` bounds how often each event outside the program's control may happen:
`write`, `switch`, `edit`, `retarget`, `tamper`, `misread`, and the commands
`plan`, `capture` and `job` (an apply or a rollback). Each hazard needs one
event of its kind at the worst moment, and TLC tries every moment. Two jobs are
what a change and its rollback, or a retry after a failure, need; a third
job matters only where two runs share a ledger, which is the run
`shared_ledger`. Two contexts tell right from wrong; two polling attempts give a
last one and one before it (the code has five). The Service in `recovery` sorts
after the Namespace and the Gateway before it, so that rollback meets the
Namespace in both orders. Switches and retargets are left out of `recovery`
(one cluster), foreign writes and overlay edits out of `gate`, whose properties
do not depend on contents; the proofs put no bound on either.

`SaveLedger` adds to a ledger only when the runs in it are others: applying the
same plan twice gives the same run identifier, and no promise is made about
merging such ledgers. Deadlock checking is off in all runs: the operator may stop, and the
budgets run out.

`lifecycle`: two plans are what it takes to contradict each other, two applies to
meet or to repeat one; the three models are one that shares a host with another
(so that only validation keeps them apart), and names on either side of
`kustomization` in the order of paths; of the two checkouts one has the configured model in
the file that the chat model to add replaces, and the other model to add has the
name of the configured one's Service with another port, in another namespace. The
configuration comes first in the order of paths (`ConfigAfter = 0`), as
`examples/config` does; the theorems are for every place. `regrant` needs a longer history: a plan,
its apply, rotation and revocation, and the old plan again.
`kind_lab`: two labs are what interference needs, labs being alike except
for their options and names, which may be the same; one fault at any moment, since commands may fail without
being a fault, and a second reading of a condition to have a last one. The
theorems put no bound on labs, faults or readings. `supply_chain`: one budget per
scenario keeps unrelated events from multiplying; two builds from different
locks are what a mixture needs, the two copy orders
put the inventory before and after the payloads, one with the blob and one with
the parts. The bundle is run in payload mode
`fetch`: the descriptors of the other mode are never compared with anything but
themselves. `verification`: every unsound cluster differs from the sound one in
one respect, so a check that is left out lets one of them pass; 2 stands for
five attempts and 3 for twenty requests, and a limit of 9 is one that the
requests do not reach.

### Fairness

The program itself is sequential: it goes on as soon as the process or request it
waits for is over. Nothing makes those end, so each specification with fairness lets
every wait that the code does not bound last for ever.

`WF_vars(Capturing \/ Executing)`: a command that is running takes its next step, and a step
may be that kubectl never returns. Nobody has to start a
command, to save a ledger or to interfere, and nothing has to crash. `EndsOrWaits`
says the rest: the action list is finite, every poll gives up, and so a
command ends unless one process of it does not.

`\A l \in Labs : WF_vars(Step(l))` in `KindLab`: labs wait for nobody, so each of them
goes on whatever the others do, as long as what it waits for returns. Commands with a timeout end, by
themselves or by it; the phases of `Unbounded` may hang. Interrupts, kills and
switches are never fair. `CleansUp` then says that a lab ends or is stuck in such
a phase, and what excuses one that ended from having cleaned up. `WF_vars(Step)` in
`RuntimeVerification`: kubectl runs without a timeout, and that of an HTTP probe
is one for each read, so every `kubectl get` and every probe may hang. `Ends` says that nothing else holds a verification:
polls and the loop of requests give up. Starting, interrupting, rollouts and traffic are not
fair. `Lifecycle` and `SupplyChain` state no fairness: their loops are over finite
lists, and their properties are safety.

## Proofs

`ChangeControlProofs` proves, for any resources, contexts, overlays, commands and budgets:

* `TypeCorrect`: `Safety => []TypeOK`;
* `Gated`: `Safety => []GatedMutation`;
* `OnVerifiedCluster`: `Safety => []StaysOnVerifiedCluster`;
* `Refinement`: `Safety => ImplementsGate`, the executor implements `GatedChange`.

The assumptions are those on the constants: `KubectlAssumption` (the sentinels
are no values, a Namespace lives in no Namespace), `PlanAssumption` (`Sorted`
enumerates a set without repetition, `Redact` maps contents to contents),
`ControlAssumption` and `NoneAssumption` (the missing value is no record).

The inductive invariant is `IInv == TypeOK /\ Approved /\ Armed`. `Approved` says
that a run's plan carries the identifier of its own contents and names the
expected context; `Armed` says that a run that has passed its verification, and
was not switched since, is on the cluster it expects, and that whatever it touched it touched
after that and there. `TypeOK` alone is not inductive: a ledger entry's run is the
identifier of the plan, and the identifier in an edited plan file is whatever
was there before, so that the ledger is well typed only because `Admit` has compared
identifier and contents. The proof has lemmas for the types of what the planners
build, one lemma per group of actions that preserves the invariant, and shares
`ContinuesKeeps` and `FailsKeeps` among all executor steps.

`RecoveryProofs` and `RollbackProofs` prove the rest of the safety of
`ChangeControl`, from the same assumptions:

* `FailsClosed`: `Safety => []CleanupFailsClosed`;
* `DryRunTouchesNothing`: `Safety => []DryRunApply`;
* `SnapshotCovers`: `Safety => []SnapshotCoversRun`;
* `LedgerIsTrue`: `Safety => []LedgerTellsTheTruth`;
* `RollbackWorks`: `Safety => []RollbackRestores`.

The first two rest on `Ordered`. What matters is the shape of the action list
that a plan's *identifier* stands for (`AsPlanned`): reads of the ingress come
before writes in a cleanup, the verification comes before every write, one apply
writes all documents, and either the list has lost its verification and can write
nothing, or its writes still have the mode of the plan. Each planner makes such
a list, each edit of `EditPlanFile` keeps the shape, and a run has it because
`Admit` compared contents and identifier. The properties themselves are not inductive:
that the ingress was read says something about the actions behind the run, not
about the one at hand.

The next two rest on `Known`, which follows one value from a cluster into the
ledger: an undisturbed capture has found what the cluster holds, for the
resources read so far (`CaptureTrue`); a snapshot file of an undisturbed
capture agrees with the cluster until somebody writes (`SnapshotTrue`); so does the
snapshot of a run until its first write, and from then on what it touched was
covered (`RunTrue`); after the write it has touched all that is planned, and the
ledger says so (`LedgerTrue`).

`RollbackWorks` adds `UInv`. `UndoTrue` says how much of the reverse list
is settled: every resource behind the rollback has its old value and keeps it.
It would not keep it if a later deletion took along what an earlier step restored,
which is what deleting a Namespace does; it cannot happen because the old cluster
had nothing in a Namespace it did not have (`ClustersHoused`, carried from the
clusters to the snapshot by `RunHoused` and `AnchorTrue`). `LedgersRecorded` says
that ledgers and rollback plans come only from the commands that record runs.
`ControlAssumption` takes `Housed` of the starting clusters: an API server
holds no object without its Namespace.

`KindLabProofs` proves, for any number of labs, any options, faults and deadlines:

* `TypeCorrect`: `Spec => []TypeOK`;
* `OwnCluster`: `Spec => []OwnClusterOnly`;
* `OnlyChecked`: `Spec => []InstallsOnlyChecked`;
* `TrueEvidence`: `Spec => []EvidenceTellsTheTruth`;
* `OwnTeardown`: `Spec => TearsDownOnlyOwn`.

The assumptions are `LabAssumption` (the foreign cluster has no lab's name; names of
different labs may be the same) and `NoClusterAssumption` (the missing value is no
cluster). The invariant is
`IInv == TypeOK /\ (\A l : Honest(lab[l])) /\ Owned`. `Honest` is what a lab
knows about itself in each clause: something that went wrong is recorded or on its
way out, an end without an exception is the end of the workflow, and what was
found bad has ended it. `Owned` gives a cluster the name of its creator and of its
users, and says of each user that it has its checks behind it (`Cleared`).
None of the properties is inductive: that a cluster has only labs of its name among its users
holds because a lab's commands name their context, and that only its
creator takes it down, where no name was given twice, because creators and names go
together. The proof reduces every step to two questions, what it makes
of the lab's state (`Follows`) and what it makes of clusters and registries
(`Moves`), and the phase list enters through `PhaseOrder` alone: no changing phase
before the checks are over.

`SupplyChainProofs` proves, for any artifacts, locks, parts, copy orders, overlays
and budgets:

* `TypeCorrect`: `Spec => []TypeOK`;
* `ReportIsWhole`: `Spec => []ReportMeansWhole`;
* `VerifiedBundle`: `Spec => []VerifiedIsLocked`;
* `RestoredBlob`: `Spec => []RestoredIsOneBuild`;
* `AppliedImages`: `Spec => []AppliedIsPresent`;
* `PullableOverlay`: `Spec => []ProvenIsPullable`.

The assumptions are `LockAssumption` and `BundleAssumption`, on the constants (a
medium copies files of a bundle in some order, and the missing value is no
contents). Nothing is assumed of the digests of a lock: `IsLocked` is about what an entry
pins (`Pinned`), and about nothing where it pins nothing. For what is verified and restored the invariant is that both copies, the one under construction and the one
that arrived, are `Honest`: an inventory that can be read is true of the lock it
names, and a part list that can be read is that of one build's blob, whatever
lies beside them. That is what survives builds that stop, copies that overtake
builds and copies on top of older ones, since every file is of one build even when
the directory is of several. `Progress` says how far the running build is, so
that a file written by it describes what it has seen.

The report takes an invariant of its own, `BundleInv`, since a report says
something of all files at once, and files come and go under it. `Underway` says
what a running build finds in its directory. While it clears, there is nothing but what
is still to be cleared, and only the blob goes before the report, which a
verification does not miss (`VerifiesWithoutBlob`); then
exactly the files written so far are there (`Earlier`), and each of them is what
`build_bundle` makes of those before it (`Coherent`). So a build over an earlier
bundle never writes beside old files, the file a build stops in is never
followed by a report, and a coherent directory with a report verifies
(`CoherentVerifies`). Where a file stands in the order is
settled once, for every number of artifacts and parts (`Places`, `Turns`). The
types are part of the same invariant: what a build writes is typed because the
files it reads are those it wrote, of the kinds that they must be (`FitsKind`).

For promotion the
invariant is that the images a running apply is done with are in the registry
(`PushedSoFar`) and that what a report calls proven is what its lock says
(`ProvenIsLocked`); nothing deletes from the registry, and an image
once pushed under a digest is that digest.

`LifecycleProofs` proves, for any models, consumers, checkouts and budgets:

* `TypeCorrect`: `Spec => []TypeOK`;
* `CompleteRoutes`: `Spec => []RouteIsComplete`;
* `LimitedGrants`: `Spec => []QuotaFollowsGrant`;
* `RequestedGrants`: `Spec => []GrantsAreRequested`.

The assumptions are `TreeAssumption`, `LifecycleAssumption` and
`CheckoutAssumption`. Models may have the names of files that are there
(`FirstModels`), and the configuration may be anywhere in the order of paths. One
assumption is worth knowing: no model is called `kustomization`. The route of such a model would be written over the list of
routes, since both are `routes/<name>.yaml`; the schema of names does not forbid it.

The invariant is `IInv`: types; `Standing`, what every tree has (the bases, and no
grant beyond the descriptors); `ListedComplete`, every listed route has its files;
`Reviewed`, every plan whose identifier matches its contents has sound changes,
because identifiers are made from the changes planned and an edit keeps the old one;
`Applying`, what a running apply is done with says what its plan says; and
`LimitsFollow`, a grant without its limit is one whose limit the running apply has
still to write. `RouteIsComplete` is far from inductive. It holds because the
list of routes comes after the routes, backends and policies in the order
of paths (`RoutesComeLast`), so that an apply that stops anywhere has either
all of the files or none of the listing; that a first file among the pending ones
exists is the one use of well-foundedness (`FirstIsFirst`).

`ConfigurationProofs` proves, from these assumptions and `ConfiguredAssumption`:

* `UnambiguousRoutes`: `Spec => []RoutesUnambiguous`;
* `AppliedIsValid`: `Spec => []AppliedLeavesValidConfig`;
* `QuietSourcesLoad`: `Spec => [](~Running /\ ~halted /\ displaced = {} => Loads(tree))`.

`ConfiguredAssumption` says that a checkout starts from a configuration that
`validate_config` accepts (no command runs in any other), that a model has one
configuration, be it configured already or asked for, and that a model in the file
named after it has its route listed. No apply validates what it leaves; a plan was
validated against the sources it was made from, perhaps long ago. The invariant
`CInv` therefore carries the validation in the plan: `ChangesAccepted` says
what a plan that was validated will write (a list of routes whose
models can stand together, consumers that use models configured or brought by
the plan), and `SourcesAccepted` what every tree keeps, wherever applies
stopped. Two plans that were each validated do not contradict each other
because whoever adds a model writes the list of routes, whoever changes a
consumer writes the file of consumers, and a change is refused if its file is no
longer what it was when the plan was made: the apply that overtook it has changed
the very file that it hashes. `Following` adds that consumers follow the
models and models the routes, up to what the running apply still owes
(`Promised`); after a kill or refusal nothing pays, which is what `halted` excuses.
`RoutesUnambiguous` needs no such excuse where the configuration is written before
the routes, since the list of routes is one file; where it comes later, an apply that stopped
has listed a route whose model no later plan sees.

The file of a new model may replace one that configured others
(`model add --model-key chat` over `models/chat.yaml`). The plan is validated with the
old file's models, the tree is left without them, and nothing validates that.
`displaced` records them. What the code still guarantees then is proved, and what it does not is
excepted by name: a listed route has its model configured *or displaced*
(`CompleteRoutes`), routes other than those of displaced models are
unambiguous (`Exempt`), and sources load while nothing was displaced.

`VerificationProofs` proves, for any lists of models and consumers, any states of
the clusters, any number of attempts and any budgets:

* `TypeCorrect`: `Spec => []TypeOK`;
* `TruePass`: `Spec => []PassedIsTrue`;
* `FailsWithReason`: `Spec => []FailureHasReason`.

The assumptions are `VerificationAssumption` (the models of a configuration differ,
the low-limit consumer is granted the model it is probed with) and
`NoneAssumption`. For `TruePass` the invariant is `IInv`: as long as nothing moved,
every result that passed is true of what its check is about (`HeldSoFar`), and a
context that was seen is the current one. What remains is that the list
of checks leaves nothing out (`ChecksCover`). The list is a concatenation over the
models, and the proof goes by the least prefix that fails (`LeastNumber`), which is
induction without an operator as a parameter. For `FailsWithReason` the
invariant is `SInv`: an undisturbed verification of a sound cluster has only passed so far. Faults that
nothing tries again (`Fault`: an unreadable context, garbled output, a lost probe) are
disturbances, since the code lets each of them fail a sound cluster. The invariant
has to count: a poll's attempts and the errors that are left stay below the
attempts it has; requests were counted only for grants that were probed already
(`CountedOnce`), so that each allowed probe is the first of its grant, which needs that a
model is probed once (`Once`); and at the limit, the last check, the requests
counted keep up with those made, so that the limit is met before the requests run out.

Every invariant, action property and refinement that a passing run checks is
thereby a theorem as well. Only model-checked are `EndsOrWaits`, `CleansUp` and
`Ends`: they are liveness properties, which need `ENABLED` of the fair actions,
and that the prover does not handle. The violated properties are settled by
their counterexamples.

## Not modelled

* `discovery.py`, `errors.py`, `reporting.py`, `command.py`, `yaml_io.py` and the
  parser, `render`, `discover` and `gitops render/validate` of `cli.py`: they read
  and print, and keep nothing.
* `renderer.py`, and the rules of `manifest.py` other than the one on images:
  functions of one list of documents, with no step in which anything could interfere.
* Wording: reports, plan Markdown, notes, the command log, license and provenance
  texts, the body of probes; and `onboarding.py`, which renders an example that
  nothing reads. JSON and YAML syntax errors refuse a command.
* Which conditions of a payload make a resource ready (`_has_condition`,
  `_deployment_is_ready`): `RuntimeVerification` takes readiness as given by the
  cluster, `ChangeControl` as a free choice. Conditions of several parents are
  flattened and observed generations ignored by the code; the models cannot
  tell the difference.
* The `tls_verify` field of a plan, which the executor never reads; the
  `resourceVersion` in restored manifests and the order of deletions inside the
  API server (any of these makes kubectl fail, and every failure is modelled).
* Time: timeouts are outcomes of the command that has them, commands without one may
  wait for ever, deadlines are numbers of readings, and minutes of the rate limit end at any moment.
* Two operators of the change workflow at once, and two lifecycle commands at
  once: `lifecycle.py:222` compares a file and writes it in two steps, so that two
  concurrent applies may overwrite each other. No document promises otherwise.

What the models show and no property holds against the code, for a reader who
relies on it:

* A lab started by hand with the run id of a kept one (`--run-id`) fails at its
  first command, and its teardown then takes down the kept cluster by name
  (`kind_lab.py:1135`, against `README.md:701`). `TearsDownOnlyOwn` excepts labs that
  share a name (`Shared`). That such labs also share a run directory and the files in
  it is not modelled.
* A command may wait for ever: kubectl has no timeout in `execution.py:219-225`, nor
  have `docker tag` and `urlretrieve` in `kind_lab.py:529, 562`. A lab that stalls so keeps
  its cluster and registry until somebody interrupts it.
* `model add` with the name of a model file that is there replaces it
  (`lifecycle.py:266-269`): `model add --model-key chat` over
  `examples/config/models/chat.yaml` is reported applied, and since consumers go on
  naming the models that file configured, `load_config` then refuses the sources.
  `AppliedLeavesValidConfig`, `RouteIsComplete` and `RoutesUnambiguous` except
  such `displaced` models.
* A route refers to its backend in the namespace of the model's service
  (`lifecycle.py:570-576`), and what is generated is in `ai-gateway` (`:700`): with another
  namespace the route finds nothing of it. `RouteIsComplete` says that it finds its
  backend if it looks in the namespace of the gateway. A Service contract is
  recognised by its name alone (`:726`), so a second model with the same service
  name keeps the port of the first.
* A `--config` directory whose path sorts after `manifests/` is written after the
  routes (`lifecycle.py:793-797`); an apply that stops then leaves routes of models that are not
  configured. `RouteIsComplete` and `RoutesUnambiguous` say so (`ConfigFirst`).
* Nothing ever compares an `ociDigest` with what was fetched
  (`airgap_bundle.py:584-587, 645, 652-678`): for an image the digest in `canonicalSource`
  decides, and the two may differ in a lock that validates, builds and verifies. So
  may the digest of the destination, which then cannot be pushed.
* One `kubectl config current-context` that fails, fails its check of `verify runtime`
  for good (`verification.py:115`), on a healthy cluster as well; so does output of
  kubectl that is no JSON. `FailureHasReason` counts both as disturbances.
* `FailureHasReason` has the condition `LimitFits`: with the shipped limit of 30 a
  minute for the low-limit consumer, the 20 requests of the check
  (`verification.py:301`) need not meet a 429 on a healthy deployment.
* Nothing ties a rollback plan to the ledger file that is read when it is applied:
  the deletions and restores come from one, the values from the other. A plan
  made from an older ledger of the same run deletes what the newer one calls
  overwritten. `RollbackRestores` needs both to be the same.
* A passed verification speaks of the consumers whose credentials were passed:
  checks without one are left out, not failed (`verification.py:322`).
* An artifact that is no image and has only an `ociDigest` is fetched and compared
  with nothing (`airgap_bundle.py:645`); `VerifiedIsLocked` asks nothing of its content.
* The tool `docker` only tags the image locally and is reported as promoted like
  the other; `AppliedIsPresent` and `ProvenIsPullable` are about `skopeo`.
* A promotion plan carries nothing of its lock; `ProvenIsPullable` needs the report
  to be that of the lock in force.
* After a lifecycle apply that was killed, planning the same change again says
  that the model is there already and changes nothing: what is missing has to be
  finished by hand. `AppliedLeavesValidConfig` and `QuotaFollowsGrant`
  therefore except such histories.

## Plan

Done: the change workflow with its proofs (`Kubectl`, `ExecutionPlans`,
`ChangeControl`, `GatedChange`), the lifecycle commands with their proofs, those on
the configuration they leave included, the kind lab with its proofs, the supply
chain with its proofs, the build report included, the runtime verification with
its proofs.

What is left, the most important first:

1. `ManifestRules`: the rules of `manifest.py` as operators, with the theorem that
   what the lifecycle commands generate satisfies them.
2. Two operators in `ChangeControl` and in `Lifecycle`, if the state space allows.
