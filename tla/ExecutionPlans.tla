------------------------- MODULE ExecutionPlans -------------------------
(***************************************************************************)
(* Plans, snapshots and ledgers: the pure part of the change workflow.      *)
(* planning.py and gitops.py turn a command, an apply mode and a rendered   *)
(* directory into an ExecutionPlan; ledger.py compares the planned          *)
(* resources with a pre-change snapshot and selects the entries of a run.   *)
(*                                                                         *)
(* plan_id is a hash over every other field of the plan.  It is modelled    *)
(* as those fields themselves, that is, as a hash without collisions.       *)
(***************************************************************************)
EXTENDS Kubectl, Naturals, Sequences

CONSTANTS
  Contexts,      \* kubeconfig contexts, one cluster each
  Overlays,      \* Kustomize overlays (manifest.OVERLAYS)
  Environments,  \* Argo CD bootstrap directories (GITOPS_ENVIRONMENTS)
  Kind,          \* Kind[r]: the Kubernetes kind of r
  Gateway,       \* the Gateway named by the configuration
  Sorted,        \* Sorted[S]: the resources S in identity order
  Redact         \* redaction.redact_mapping on the contents of a resource

ASSUME PlanAssumption ==
  /\ Kind \in [Refs -> STRING]
  /\ Gateway \in Refs
  /\ Sorted \in [SUBSET Refs -> Seq(Refs)]
  /\ \A S \in SUBSET Refs :
       /\ {Sorted[S][i] : i \in DOMAIN Sorted[S]} = S
       /\ \A i, j \in DOMAIN Sorted[S] : Sorted[S][i] = Sorted[S][j] => i = j
  /\ Redact \in [Manifests -> Manifests]
  /\ None \notin Contexts

Trees == Overlays \cup Environments

DryRun == "server-side-dry-run"
Modes == {DryRun, "live"}

\* The commands whose report carries a fresh ledger.
RecordedCommands == {"deploy apply", "cutover apply", "gitops apply"}
ChangeCommands == RecordedCommands \cup {"destroy apply"}
RollbackCommand == "rollback apply"

-----------------------------------------------------------------------------
(* Plan actions.  The four polling kinds differ only in what they read.     *)

ActionKinds == {"verify-context", "kubectl-diff", "read-ingress-state",
                "kubectl-apply", "kubectl-delete", "kubectl-delete-resource",
                "kubectl-restore", "poll"}

WriteKinds == {"kubectl-apply", "kubectl-delete", "kubectl-delete-resource",
               "kubectl-restore"}

\* The plan says of each action whether it mutates; the executor trusts it.
ActionsOf(kinds) ==
  {a \in [kind: kinds, ref: Refs \cup {None},
          mutating: BOOLEAN, dryRun: BOOLEAN] :
     a.mutating <=> a.kind \in WriteKinds}

UndoKinds == {"verify-context", "kubectl-delete-resource", "kubectl-restore"}
ChangeKinds == ActionKinds \ {"kubectl-delete-resource", "kubectl-restore"}

Reading(kind, ref) ==
  [kind |-> kind, ref |-> ref, mutating |-> FALSE, dryRun |-> FALSE]
Mutating(kind, ref, dryRun) ==
  [kind |-> kind, ref |-> ref, mutating |-> TRUE, dryRun |-> dryRun]

VerifyContext == Reading("verify-context", None)

\* A slip in the apply command: --dry-run=server is never added.
ApplyAlwaysLive(mode) == Mutating("kubectl-apply", None, FALSE)

ApplyCommand(mode) == Mutating("kubectl-apply", None, mode = DryRun)

PollEach(resources, kind) ==
  LET order == Sorted[{r \in resources : Kind[r] = kind}]
  IN  [i \in DOMAIN order |-> Reading("poll", order[i])]

DeployActions(mode, resources) ==
  <<VerifyContext, Reading("kubectl-diff", None), ApplyCommand(mode),
    Reading("poll", Gateway)>>
    \o PollEach(resources, "HTTPRoute")
    \o PollEach(resources, "AgentgatewayPolicy")
    \o PollEach(resources, "Deployment")

CutoverActions(mode) ==
  <<VerifyContext, Reading("read-ingress-state", None), ApplyCommand(mode)>>

\* The delete command has no dry-run form: the mode does not reach it.
DestroyActions ==
  <<VerifyContext, Reading("read-ingress-state", None),
    Mutating("kubectl-delete", None, FALSE)>>

GitopsActions(mode) ==
  <<VerifyContext, Reading("kubectl-diff", None), ApplyCommand(mode)>>

ChangeActions(command, mode, resources) ==
  CASE command = "deploy apply"  -> DeployActions(mode, resources)
    [] command = "cutover apply" -> CutoverActions(mode)
    [] command = "destroy apply" -> DestroyActions
    [] command = "gitops apply"  -> GitopsActions(mode)

TreesOf(command) ==
  IF command = "gitops apply" THEN Environments ELSE Overlays

-----------------------------------------------------------------------------
(* Plans.                                                                   *)

ChangeBodies ==
  [command: ChangeCommands, mode: Modes, context: Contexts, overlay: Trees,
   resources: SUBSET Refs, actions: Seq(ActionsOf(ChangeKinds)),
   origin: {None}]

\* origin: the run a rollback plan undoes (it is part of the descriptions).
RollbackBodies ==
  [command: {RollbackCommand}, mode: Modes, context: Contexts,
   overlay: {"ledger"}, resources: SUBSET Refs,
   actions: Seq(ActionsOf(UndoKinds)), origin: ChangeBodies]

Bodies == ChangeBodies \cup RollbackBodies
Plans == [id: Bodies, body: Bodies]

\* A slip: the plan is written before its identifier is computed.
WithoutId(body) == [id |-> None, body |-> body]

WithComputedId(body) == [id |-> body, body |-> body]
Intact(plan) == plan.id = plan.body

ChangeBody(command, mode, context, overlay, resources) ==
  [command |-> command, mode |-> mode, context |-> context,
   overlay |-> overlay, resources |-> resources,
   actions |-> ChangeActions(command, mode, resources), origin |-> None]

-----------------------------------------------------------------------------
(* Ledgers: sets of entries, each naming the run (plan_id) that made it.    *)

LedgerStates == {"created", "updated", "pre-existing"}
Entries == [ref: Refs, state: LedgerStates, run: ChangeBodies, before: Live]

\* A slip in the comparison: created and updated change places.
SwappedLedger(resources, snapshot, run) ==
  {[ref    |-> r,
    state  |-> IF snapshot[r] = Absent THEN "updated" ELSE "created",
    run    |-> run,
    before |-> snapshot[r]] : r \in resources}

LedgerFromResources(resources, snapshot, run) ==
  {[ref    |-> r,
    state  |-> IF snapshot[r] # Absent THEN "updated" ELSE "created",
    run    |-> run,
    before |-> snapshot[r]] : r \in resources}

ForRun(ledger, run) == {e \in ledger : e.run = run}

\* Reports are printed through redact_mapping, ledger included.
RedactLedger(ledger) ==
  {[e EXCEPT !.before = IF @ = Absent THEN Absent ELSE Redact[@]] :
     e \in ledger}

-----------------------------------------------------------------------------
(* Rollback plans.                                                          *)

Undoable(entries) ==
  /\ entries # {}
  /\ \A e \in entries : e.state # "created" => e.before # Absent

UndoAction(e) ==
  IF e.state = "created"
  THEN Mutating("kubectl-delete-resource", e.ref, FALSE)
  ELSE Mutating("kubectl-restore", e.ref, FALSE)

\* A slip: what the run updated is not restored.
UndoesCreatedOnly(entries) ==
  LET order == Sorted[{e.ref : e \in {x \in entries : x.state = "created"}}]
  IN  <<VerifyContext>> \o
      [i \in DOMAIN order |->
         UndoAction(CHOOSE e \in entries : e.ref = order[i])]

RollbackActions(entries) ==
  LET order == Sorted[{e.ref : e \in entries}]
  IN  <<VerifyContext>> \o
      [i \in DOMAIN order |->
         UndoAction(CHOOSE e \in entries : e.ref = order[i])]

RollbackBody(ledger, run, mode, context) ==
  LET entries == ForRun(ledger, run)
  IN  [command |-> RollbackCommand, mode |-> mode, context |-> context,
       overlay |-> "ledger", resources |-> {e.ref : e \in entries},
       actions |-> RollbackActions(entries), origin |-> run]

=============================================================================
