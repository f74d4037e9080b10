------------------------- MODULE ChangeControl -------------------------
(***************************************************************************)
(* The change workflow of the gateway CLI: plan, snapshot, apply, roll back. *)
(* Commands communicate through files (a plan, a snapshot, a ledger) and    *)
(* act on whatever cluster the kubeconfig's current context names at the    *)
(* moment each kubectl process starts.  One operator runs one command at a  *)
(* time; other people write to the clusters, switch the current context and *)
(* edit the overlays between any two kubectl processes, and a command may   *)
(* be killed between any two.  Nothing bounds the time a kubectl process     *)
(* takes: a command may wait for one for ever (phase "stuck").             *)
(*                                                                         *)
(* A refused command changes nothing, so refusals are the states in which   *)
(* Admit is disabled.  capture, run and anchor carry history (fields        *)
(* "quiet", "switched", "ingress", "touched"): no guard of a program action *)
(* reads it.                                                               *)
(***************************************************************************)
EXTENDS ExecutionPlans

CONSTANTS
  Commands,  \* the change commands the operator uses
  Before,    \* what the clusters may hold at the start
  Rendered,  \* what the Kustomize directories may render at the start
  Attempts,  \* polling attempts (conditions.py: 5)
  Budget     \* Budget[e]: how often the event e may happen

Events == {"write", "switch", "edit", "retarget", "tamper", "misread",
           "plan", "capture", "job"}

ASSUME ControlAssumption ==
  /\ Commands \subseteq ChangeCommands
  /\ Before \subseteq {cl \in ClusterStates : Housed(cl)}
  /\ Rendered \subseteq ClusterStates
  /\ Attempts \in Nat \ {0}
  /\ Budget \in [Events -> Nat]

VARIABLES
  cluster,       \* what each context's cluster holds
  current,       \* the kubeconfig's current context
  configured,    \* platform.cluster.expected_context of the configuration
  source,        \* what each Kustomize directory renders
  planFile,      \* the approved plan
  snapshotFile,  \* the saved pre-change snapshot
  ledgerFile,    \* the saved state ledger
  phase,         \* the command that is running
  capture,       \* capture_snapshot's local state
  run,           \* execute_plan's local state, kept when it has ended
  report,        \* what the last apply printed
  anchor,        \* history: the last change command that succeeded
  left           \* what is left of Budget

operator == <<planFile, snapshotFile, ledgerFile, phase, capture, run, report,
              anchor>>
environment == <<cluster, current, configured, source, left>>
vars == <<operator, environment>>

-----------------------------------------------------------------------------
(* Types.                                                                   *)

Touches == [context: Contexts, ref: Refs, old: Live, new: Live]

Snapshots ==
  [status: {"ok", "failed"}, resources: ClusterStates,
   of: Bodies \cup {None}, quiet: BOOLEAN]

Captures ==
  [plan: Plans, next: Nat \ {0}, checked: BOOLEAN, found: ClusterStates,
   quiet: BOOLEAN]

Runs ==
  [plan: Plans, snapshot: ClusterStates, ledger: (SUBSET Entries) \cup {None},
   expected: Contexts, next: Nat \ {0}, attempts: Nat, verified: BOOLEAN,
   ingress: BOOLEAN, quiet: BOOLEAN, switched: BOOLEAN,
   touched: SUBSET Touches]

Reports == [status: {"none", "failed", "succeeded"},
            ledger: (SUBSET Entries) \cup {None}]

\* The sentinel is none of the records.
ASSUME NoneAssumption ==
  /\ None \notin Captures
  /\ None \notin Runs

TypeOK ==
  /\ cluster \in [Contexts -> ClusterStates]
  /\ current \in Contexts
  /\ configured \in Contexts
  /\ source \in [Trees -> ClusterStates]
  /\ planFile \in Plans \cup {None}
  /\ snapshotFile \in Snapshots \cup {None}
  /\ ledgerFile \in (SUBSET Entries) \cup {None}
  /\ phase \in {"idle", "capturing", "executing", "stuck"}
  /\ capture \in Captures \cup {None}
  /\ run \in Runs \cup {None}
  /\ report \in Reports
  /\ anchor \in Runs \cup {None}
  /\ left \in [Events -> Nat]
  /\ phase = "capturing" => capture # None
  /\ phase = "executing" => run # None

Init ==
  /\ \E cl \in Before : cluster = [c \in Contexts |-> cl]
  /\ \E docs \in Rendered : source = [t \in Trees |-> docs]
  /\ current \in Contexts
  /\ configured \in Contexts
  /\ planFile = None /\ snapshotFile = None /\ ledgerFile = None
  /\ phase = "idle" /\ capture = None /\ run = None /\ anchor = None
  /\ report = [status |-> "none", ledger |-> None]
  /\ left = Budget

Spend(event) == /\ left[event] > 0
                /\ left' = [left EXCEPT ![event] = @ - 1]

\* History: from here on the record no longer describes the present.
Disturbed(record) ==
  IF record = None THEN None ELSE [record EXCEPT !.quiet = FALSE]

-----------------------------------------------------------------------------
(* Planning.  A command that is running has read its files already, so it   *)
(* is enough to change them between commands.                              *)

PlanChange(command, mode, tree) ==
  /\ phase = "idle"
  /\ tree \in TreesOf(command)
  /\ Spend("plan")
  /\ planFile' = WithComputedId(
       ChangeBody(command, mode, configured, tree, Present(source[tree])))
  /\ UNCHANGED <<snapshotFile, ledgerFile, phase, capture, run, report, anchor>>
  /\ UNCHANGED <<cluster, current, configured, source>>

PlanRollback(origin, mode) ==
  /\ phase = "idle"
  /\ ledgerFile # None
  /\ Undoable(ForRun(ledgerFile, origin))
  /\ Spend("plan")
  /\ planFile' = WithComputedId(
       RollbackBody(ledgerFile, origin, mode, configured))
  /\ UNCHANGED <<snapshotFile, ledgerFile, phase, capture, run, report, anchor>>
  /\ UNCHANGED <<cluster, current, configured, source>>

\* The two edits of the saved plan that the repository's tests make: another
\* mode under the old plan_id, and no verify-context under a new one.
EditPlanFile ==
  /\ phase = "idle" /\ planFile # None
  /\ Spend("tamper")
  /\ \/ \E mode \in Modes : planFile' = [planFile EXCEPT !.body.mode = mode]
     \/ /\ planFile.body.actions # <<>>
        /\ planFile.body.actions[1] = VerifyContext
        /\ planFile' = WithComputedId(
             [planFile.body EXCEPT !.actions = Tail(@)])
  /\ UNCHANGED <<snapshotFile, ledgerFile, phase, capture, run, report, anchor>>
  /\ UNCHANGED <<cluster, current, configured, source>>

-----------------------------------------------------------------------------
(* Capturing the pre-change snapshot.                                       *)

CaptureOrder == Sorted[capture.plan.body.resources]
Captured == capture.next > Len(CaptureOrder)

\* History: the overlay still renders the planned resources.
StartQuiet(body) ==
  body.overlay \in Trees => Present(source[body.overlay]) = body.resources

CaptureStart ==
  /\ phase = "idle" /\ planFile # None
  /\ Spend("capture")
  /\ phase' = "capturing"
  /\ capture' = [plan |-> planFile, next |-> 1, checked |-> FALSE,
                 found |-> Nothing, quiet |-> StartQuiet(planFile.body)]
  /\ UNCHANGED <<planFile, snapshotFile, ledgerFile, run, report, anchor>>
  /\ UNCHANGED <<cluster, current, configured, source>>

CaptureVerify ==
  /\ phase = "capturing" /\ ~Captured /\ ~capture.checked
  /\ current = capture.plan.body.context
  /\ capture' = [capture EXCEPT !.checked = TRUE]
  /\ UNCHANGED <<planFile, snapshotFile, ledgerFile, phase, run, report, anchor>>
  /\ UNCHANGED environment

\* A slip: the loop ends at the first resource that is there.
CaptureReadsOne ==
  /\ phase = "capturing" /\ ~Captured /\ capture.checked
  /\ LET ref == CaptureOrder[capture.next]
     IN  capture' = [capture EXCEPT !.found[ref] = cluster[current][ref],
                                    !.checked = FALSE,
                                    !.next = Len(CaptureOrder) + 1]
  /\ UNCHANGED <<planFile, snapshotFile, ledgerFile, phase, run, report, anchor>>
  /\ UNCHANGED environment

CaptureRead ==
  /\ phase = "capturing" /\ ~Captured /\ capture.checked
  /\ LET ref == CaptureOrder[capture.next]
     IN  capture' = [capture EXCEPT !.found[ref] = cluster[current][ref],
                                    !.next = @ + 1, !.checked = FALSE]
  /\ UNCHANGED <<planFile, snapshotFile, ledgerFile, phase, run, report, anchor>>
  /\ UNCHANGED environment

\* kubectl fails with an error text that happens to contain "not found".
CaptureMisread ==
  /\ phase = "capturing" /\ ~Captured /\ capture.checked
  /\ Spend("misread")
  /\ capture' = [capture EXCEPT !.next = @ + 1, !.checked = FALSE,
                                !.quiet = FALSE]
  /\ UNCHANGED <<planFile, snapshotFile, ledgerFile, phase, run, report, anchor>>
  /\ UNCHANGED <<cluster, current, configured, source>>

\* A mismatch, any other kubectl error, or a kill: no snapshot is written and
\* the one of an earlier capture stays.
CaptureAbort ==
  /\ phase = "capturing"
  /\ phase' = "idle" /\ capture' = None
  /\ UNCHANGED <<planFile, snapshotFile, ledgerFile, run, report, anchor>>
  /\ UNCHANGED environment

\* kubectl get does not return.
CaptureHangs ==
  /\ phase = "capturing" /\ ~Captured
  /\ phase' = "stuck" /\ capture' = None
  /\ UNCHANGED <<planFile, snapshotFile, ledgerFile, run, report, anchor>>
  /\ UNCHANGED environment

CaptureWrite ==
  /\ phase = "capturing" /\ Captured
  /\ snapshotFile' = [status |-> "ok", resources |-> capture.found,
                      of |-> capture.plan.body, quiet |-> capture.quiet]
  /\ phase' = "idle" /\ capture' = None
  /\ UNCHANGED <<planFile, ledgerFile, run, report, anchor>>
  /\ UNCHANGED environment

\* Another backup tool saves a snapshot that says it failed.
RecordFailedBackup ==
  /\ phase = "idle"
  /\ Spend("tamper")
  /\ snapshotFile' = [status |-> "failed", resources |-> Nothing,
                      of |-> None, quiet |-> FALSE]
  /\ UNCHANGED <<planFile, ledgerFile, phase, capture, run, report, anchor>>
  /\ UNCHANGED <<cluster, current, configured, source>>

-----------------------------------------------------------------------------
(* Admission: the checks of the CLI and of execute_plan, in their order.    *)

\* A slip: any saved snapshot will do.
AuthorisedBySnapshotFile(command, mode, expected, confirmed) ==
  /\ expected = configured /\ confirmed
  /\ planFile # None /\ planFile.body.command = command
  /\ snapshotFile # None
  /\ command = RollbackCommand => ledgerFile # None
  /\ expected = planFile.body.context
  /\ mode = planFile.body.mode

Authorised(command, mode, expected, confirmed) ==
  /\ expected = configured /\ confirmed
  /\ planFile # None /\ planFile.body.command = command
  /\ snapshotFile # None
  /\ command = RollbackCommand => ledgerFile # None
  /\ Intact(planFile)
  /\ expected = planFile.body.context
  /\ mode = planFile.body.mode
  /\ snapshotFile.status = "ok"

\* History: the rollback that undoes the run whose effects anchor keeps.
Undoes(body) == body.command = RollbackCommand /\ anchor # None
                  /\ body.origin = anchor.plan.body

Admit(command, mode, expected, confirmed) ==
  /\ phase = "idle"
  /\ Authorised(command, mode, expected, confirmed)
  /\ Spend("job")
  /\ phase' = "executing"
  /\ run' = [plan |-> planFile, snapshot |-> snapshotFile.resources,
             ledger |-> ledgerFile, expected |-> expected,
             next |-> 1, attempts |-> 0, verified |-> FALSE, ingress |-> FALSE,
             quiet |-> snapshotFile.quiet /\ snapshotFile.of = planFile.body,
             switched |-> FALSE, touched |-> {}]
  /\ report' = [status |-> "none", ledger |-> None]
  /\ anchor' = IF Undoes(planFile.body) THEN anchor ELSE Disturbed(anchor)
  /\ UNCHANGED <<planFile, snapshotFile, ledgerFile, capture>>
  /\ UNCHANGED <<cluster, current, configured, source>>

-----------------------------------------------------------------------------
(* The executor: one step per plan action, or per poll attempt.             *)

body == run.plan.body
here == cluster[current]
docs == source[body.overlay]
Step == body.actions[run.next]
Remaining == phase = "executing" /\ run.next <= Len(body.actions)

\* A slip: the loop no longer refuses a mutating action before verification.
AtUnguarded(kind) == Remaining /\ Step.kind = kind

At(kind) == /\ Remaining /\ Step.kind = kind
            /\ Step.mutating => run.verified

Touching(S, new) ==
  {[context |-> current, ref |-> r, old |-> here[r], new |-> new[r]] : r \in S}

\* One kubectl process has set the resources S of the cluster to new.
Writes(S, new) ==
  /\ cluster' = [cluster EXCEPT ![current] = new]
  /\ snapshotFile' = IF S = {} THEN snapshotFile ELSE Disturbed(snapshotFile)

Continues(S, new) ==
  /\ Writes(S, new)
  /\ run' = [run EXCEPT !.next = @ + 1, !.touched = @ \cup Touching(S, new)]
  /\ UNCHANGED <<planFile, ledgerFile, phase, capture, report, anchor>>
  /\ UNCHANGED <<current, configured, source, left>>

\* The process does not succeed, having done S: it fails, and the command with
\* it, or it does not return (SubprocessCommandRunner.run has no timeout, and
\* kubectl delete waits for finalizers), and the command neither.
Fails(S, new) ==
  /\ Writes(S, new)
  /\ run' = [run EXCEPT !.touched = @ \cup Touching(S, new)]
  /\ \/ phase' = "idle" /\ report' = [status |-> "failed", ledger |-> None]
     \/ phase' = "stuck" /\ report' = [status |-> "none", ledger |-> None]
  /\ UNCHANGED <<planFile, ledgerFile, capture, anchor>>
  /\ UNCHANGED <<current, configured, source, left>>

\* An executor step that only reads and only moves run.
Reads == /\ UNCHANGED <<planFile, snapshotFile, ledgerFile, phase, capture,
                        report, anchor>>
         /\ UNCHANGED environment

RefuseUnverified ==
  /\ Remaining /\ Step.mutating /\ ~run.verified
  /\ Fails({}, here) /\ phase' = "idle"

\* A slip: any current context is accepted.
VerifyAnyContext ==
  /\ At("verify-context")
  /\ run' = [run EXCEPT !.next = @ + 1, !.verified = TRUE]
  /\ Reads

Verify ==
  /\ At("verify-context")
  /\ current = run.expected
  /\ run' = [run EXCEPT !.next = @ + 1, !.verified = TRUE]
  /\ Reads

Diff == At("kubectl-diff") /\ Continues({}, here)

ReadIngress ==
  /\ At("read-ingress-state")
  /\ run' = [run EXCEPT !.next = @ + 1, !.ingress = TRUE]
  /\ Reads

\* A slip: an unreadable ingress is only logged.
ReadFailsAreLogged ==
  /\ \/ At("verify-context")
     \/ At("kubectl-diff")
     \/ At("read-ingress-state")
  /\ Continues({}, here)

\* A context mismatch, or a kubectl process that fails or hangs.
ReadFails ==
  /\ \/ At("verify-context")
     \/ At("kubectl-diff")
     \/ At("read-ingress-state")
  /\ Fails({}, here)

\* The overlay is rendered again when kubectl apply -k starts.
Apply ==
  /\ At("kubectl-apply") /\ ~Step.dryRun
  /\ LET S == Present(docs)
     IN  /\ Landing(here, S) = S
         /\ Continues(S, Applied(here, docs, S))

ApplyFails ==
  /\ At("kubectl-apply") /\ ~Step.dryRun
  /\ \E S \in SUBSET Present(docs) :
       Fails(Landing(here, S), Applied(here, docs, S))

ApplyDry ==
  /\ At("kubectl-apply") /\ Step.dryRun
  /\ \A r \in Present(docs) : Home[r] \in Present(here) \cup {None}
  /\ Continues({}, here)

ApplyDryFails == At("kubectl-apply") /\ Step.dryRun /\ Fails({}, here)

\* kubectl delete -k --ignore-not-found=false succeeds when all are there.
Delete ==
  /\ At("kubectl-delete")
  /\ Present(docs) \subseteq Present(here)
  /\ LET S == WithContents(Present(docs)) \cap Present(here)
     IN  Continues(S, Removed(here, S))

DeleteFails ==
  /\ At("kubectl-delete")
  /\ \E D \in SUBSET (Present(docs) \cap Present(here)) :
       LET S == WithContents(D) \cap Present(here)
       IN  Fails(S, Removed(here, S))

DeleteResource ==
  /\ At("kubectl-delete-resource")
  /\ Step.ref \in Present(here)
  /\ LET S == WithContents({Step.ref}) \cap Present(here)
     IN  Continues(S, Removed(here, S))

DeleteResourceFails ==
  /\ At("kubectl-delete-resource")
  /\ \E D \in SUBSET ({Step.ref} \cap Present(here)) :
       LET S == WithContents(D) \cap Present(here)
       IN  Fails(S, Removed(here, S))

\* The entries that _restore_manifest may hit, whatever run they are of.
RestoreEntries ==
  IF run.ledger = None THEN {}
  ELSE {e \in run.ledger : e.ref = Step.ref /\ e.before # Absent}

Restore ==
  /\ At("kubectl-restore")
  /\ Home[Step.ref] \in Present(here) \cup {None}
  /\ \E e \in RestoreEntries :
       Continues({Step.ref}, [here EXCEPT ![Step.ref] = e.before])

\* No entry, or kubectl fails (or hangs) before or after the API server has
\* the manifest.
RestoreFails ==
  /\ At("kubectl-restore")
  /\ \/ Fails({}, here) /\ (RestoreEntries = {} => phase' = "idle")
     \/ /\ Home[Step.ref] \in Present(here) \cup {None}
        /\ \E e \in RestoreEntries :
             Fails({Step.ref}, [here EXCEPT ![Step.ref] = e.before])

PollReady ==
  /\ At("poll")
  /\ Step.ref \in Present(here)
  /\ run' = [run EXCEPT !.next = @ + 1, !.attempts = 0]
  /\ Reads

\* A slip: the attempts start over instead of running out.
PollForever ==
  /\ At("poll")
  /\ run' = [run EXCEPT !.attempts = (@ + 1) % (Attempts + 1)]
  /\ Reads

PollAgain ==
  /\ At("poll")
  /\ run.attempts + 1 < Attempts
  /\ run' = [run EXCEPT !.attempts = @ + 1]
  /\ Reads

\* The attempts have run out, kubectl printed something other than JSON, or it
\* hangs.
PollFails == At("poll") /\ Fails({}, here)

\* The ledger compares the plan with the snapshot, not with the cluster.
ReportedLedger ==
  IF body.command \in RecordedCommands
  THEN LedgerFromResources(body.resources, run.snapshot, run.plan.id)
  ELSE IF body.command = RollbackCommand THEN run.ledger ELSE None

Finish ==
  /\ phase = "executing" /\ run.next > Len(body.actions)
  /\ phase' = "idle"
  /\ report' = [status |-> "succeeded", ledger |-> ReportedLedger]
  /\ anchor' = IF body.command = RollbackCommand THEN anchor ELSE run
  /\ UNCHANGED <<planFile, snapshotFile, ledgerFile, capture, run>>
  /\ UNCHANGED environment

\* The command is killed between two kubectl processes, or while it waits for
\* one that does not return.
Crash ==
  /\ phase \in {"executing", "stuck"}
  /\ phase' = "idle"
  /\ UNCHANGED <<planFile, snapshotFile, ledgerFile, capture, run, report,
                 anchor>>
  /\ UNCHANGED environment

\* The printed report is the only place the ledger is: the operator saves it,
\* or adds it to the ledger of earlier runs.
SaveLedger ==
  /\ phase = "idle" /\ report.ledger # None
  /\ LET printed == RedactLedger(report.ledger)
     IN  \/ ledgerFile' = printed
         \/ /\ ledgerFile # None
            /\ \A e \in printed : ForRun(ledgerFile, e.run) = {}
            /\ ledgerFile' = ledgerFile \cup printed
  /\ UNCHANGED <<planFile, snapshotFile, phase, capture, run, report, anchor>>
  /\ UNCHANGED environment

-----------------------------------------------------------------------------
(* Everyone else.                                                           *)

DisturbAll ==
  /\ snapshotFile' = Disturbed(snapshotFile)
  /\ capture' = Disturbed(capture)
  /\ anchor' = Disturbed(anchor)
  /\ UNCHANGED <<planFile, ledgerFile, phase, report>>

ForeignWrite(c, r, m) ==
  /\ Spend("write")
  /\ cluster' = [cluster EXCEPT ![c] =
       IF m = Absent THEN Removed(@, {r}) ELSE [@ EXCEPT ![r] = m]]
  /\ m # Absent => Home[r] \in Present(cluster[c]) \cup {None}
  /\ run' = Disturbed(run)
  /\ DisturbAll
  /\ UNCHANGED <<current, configured, source>>

SwitchContext(c) ==
  /\ Spend("switch")
  /\ c # current
  /\ current' = c
  /\ run' = IF run = None THEN None
            ELSE [run EXCEPT !.quiet = FALSE, !.switched = TRUE]
  /\ DisturbAll
  /\ UNCHANGED <<cluster, configured, source>>

EditSource(tree, r, m) ==
  /\ Spend("edit")
  /\ source' = [source EXCEPT ![tree][r] = m]
  /\ run' = Disturbed(run)
  /\ DisturbAll
  /\ UNCHANGED <<cluster, current, configured>>

\* A command that is running has read the configuration already.
EditConfig(c) ==
  /\ phase = "idle"
  /\ Spend("retarget")
  /\ configured' = c
  /\ UNCHANGED operator
  /\ UNCHANGED <<cluster, current, source>>

-----------------------------------------------------------------------------
(* The specification.                                                       *)

Planning ==
  \/ \E command \in Commands, mode \in Modes, tree \in Trees :
       PlanChange(command, mode, tree)
  \/ \E mode \in Modes, e \in (IF ledgerFile = None THEN {} ELSE ledgerFile) :
       PlanRollback(e.run, mode)

Admission ==
  \E command \in Commands \cup {RollbackCommand}, mode \in Modes,
     expected \in Contexts, confirmed \in BOOLEAN :
       Admit(command, mode, expected, confirmed)

Capturing == CaptureVerify \/ CaptureRead \/ CaptureAbort \/ CaptureHangs
               \/ CaptureWrite

Executing ==
  \/ RefuseUnverified \/ Verify \/ Diff \/ ReadIngress \/ ReadFails
  \/ Apply \/ ApplyFails \/ ApplyDry \/ ApplyDryFails
  \/ Delete \/ DeleteFails \/ DeleteResource \/ DeleteResourceFails
  \/ Restore \/ RestoreFails
  \/ PollReady \/ PollAgain \/ PollFails \/ Finish

Others ==
  \/ \E c \in Contexts, r \in Refs, m \in Live : ForeignWrite(c, r, m)
  \/ \E c \in Contexts : SwitchContext(c)
  \/ \E tree \in Trees, r \in Refs, m \in Live : EditSource(tree, r, m)
  \/ \E c \in Contexts : EditConfig(c)

Next ==
  \/ Planning \/ EditPlanFile
  \/ CaptureStart \/ Capturing \/ CaptureMisread \/ RecordFailedBackup
  \/ Admission \/ Executing \/ Crash \/ SaveLedger
  \/ Others

\* A command that is running goes on until it waits for a kubectl process that
\* does not return.  Nobody has to start a command, and nobody has to kill one.
Fairness == WF_vars(Capturing \/ Executing)

Safety == Init /\ [][Next]_vars
Spec == Safety /\ Fairness

-----------------------------------------------------------------------------
(* What must hold of the run in progress or last ended.                     *)

Changed == run # None /\ run.touched # {}

\* A cluster is changed only by a run whose plan has the identifier of its own
\* contents, names the expected context, and whose verify-context step
\* succeeded: whatever was edited, switched or retargeted in between
\* (_validate_plan_integrity, _validate_execution_inputs, execute_plan's loop).
GatedMutation ==
  Changed => /\ run.verified
             /\ Intact(run.plan)
             /\ run.expected = body.context

\* Unless somebody switches the current context while the run is going, every
\* change of a run goes to the cluster its plan names (execute_plan,
\* _execute_action "verify-context").
StaysOnVerifiedCluster ==
  Changed /\ ~run.switched =>
    \A t \in run.touched : t.context = body.context

\* Cutover and cleanup change nothing when the ingress state was not read
\* (planning.py, _execute_action "read-ingress-state").
CleanupFailsClosed ==
  Changed /\ body.command \in {"cutover apply", "destroy apply"} => run.ingress

\* A plan that was made in dry-run mode for an apply command changes nothing,
\* whatever mode was later written into the plan file.
DryRunApply ==
  run # None /\ body.command \in RecordedCommands /\ body.mode = DryRun =>
    run.touched = {}

\* If nothing interfered since the snapshot of this plan was started, what an
\* apply overwrote is in the snapshot, with the value it had just before: also
\* after a failure or a kill halfway (capture_snapshot with execute_plan).
SnapshotCoversRun ==
  Changed /\ run.quiet /\ body.command \in RecordedCommands =>
    \A t \in run.touched :
      /\ t.ref \in body.resources
      /\ t.context = body.context
      /\ t.old = run.snapshot[t.ref]

\* Under the same condition the ledger of a live run that succeeds says exactly
\* what was overwritten, and calls created exactly what was not there
\* (ledger_from_resources against the cluster's own history).
LedgerTellsTheTruth ==
  ( /\ run # None /\ run.quiet /\ report.status = "succeeded"
    /\ body.command \in RecordedCommands /\ body.mode = "live" ) =>
    /\ {<<e.ref, e.before>> : e \in report.ledger} =
       {<<t.ref, t.old>> : t \in run.touched}
    /\ \A e \in report.ledger : e.state = "created" <=> e.before = Absent

\* The run whose effects anchor keeps has just been rolled back successfully
\* with the ledger that run reported, by a plan made from that ledger, on the
\* same cluster.
RolledBack ==
  /\ run # None /\ report.status = "succeeded" /\ Undoes(body)
  /\ run.expected = anchor.expected
  /\ run.ledger = RedactLedger(LedgerFromResources(
       anchor.plan.body.resources, anchor.snapshot, anchor.plan.id))
  /\ body.actions = RollbackActions(ForRun(run.ledger, body.origin))

\* Then, if nothing else interfered, everything the run overwrote is back to
\* what it was, save what redaction changes (build_rollback_execution_plan,
\* _restore_manifest, ledger_from_resources together).
RollbackRestores ==
  RolledBack /\ anchor.quiet =>
    \A t \in anchor.touched :
      t.old = Absent \/ Redact[t.old] = t.old =>
        cluster[t.context][t.ref] = t.old

\* A snapshot capture and a run come to an end, or wait for a kubectl process
\* that never returns: no loop of the program, the polls included, holds them
\* (capture_snapshot, execute_plan, poll_for_condition).
EndsOrWaits ==
  phase \in {"capturing", "executing"} ~> phase \in {"idle", "stuck"}

\* The executor implements the gate.
PlanOf(plan) == plan.body.context
TargetOf(touch) == touch.context

Gate == INSTANCE GatedChange WITH
  Sound     <- Intact,
  ContextOf <- PlanOf,
  Target    <- TargetOf,
  stage     <- IF phase # "executing" THEN "closed"
               ELSE IF run.verified THEN "armed" ELSE "open",
  approved  <- IF run = None THEN None ELSE run.plan,
  reached   <- current,
  touched   <- IF run = None THEN {} ELSE run.touched

\* Every step of the workflow is a step of GatedChange or leaves it unchanged.
ImplementsGate == Gate!GatedSpec

-----------------------------------------------------------------------------
(* What the documentation says and the code does not do.                    *)

\* A run admitted in dry-run mode leaves every cluster as it is
\* (docs/rollback.md keeps live mode for when the target has been reviewed).
DryRunChangesNothing ==
  run # None /\ body.mode = DryRun => run.touched = {}

\* The rollback of a live run deletes only what that run created
\* (docs/rollback.md).
DeletesOnlyWhatTheRunCreated ==
  run # None /\ Undoes(body) /\ anchor.plan.body.mode = "live" =>
    \A t \in run.touched :
      t.old # Absent /\ t.new = Absent =>
        \E u \in anchor.touched :
          u.context = t.context /\ u.ref = t.ref /\ u.old = Absent

\* A run changes only resources its approved plan lists (docs/deployment.md).
ChangesOnlyPlannedResources ==
  Changed => \A t \in run.touched : t.ref \in body.resources

\* A rollback restores only what the ledger records for the selected run (the
\* note that build_rollback_execution_plan puts into the plan): here with a
\* ledger that still records of that run what the plan was made from.
RestoresSelectedRun ==
  ( /\ Changed /\ body.command = RollbackCommand
    /\ body.actions = RollbackActions(ForRun(run.ledger, body.origin)) ) =>
    \A t \in run.touched :
      t.new # Absent =>
        \E e \in ForRun(run.ledger, body.origin) :
          e.ref = t.ref /\ e.before = t.new

\* A rollback restores resources from the snapshot (docs/rollback.md).
RestoresFromSnapshot ==
  Changed /\ Undoes(body) =>
    \A t \in run.touched :
      t.new # Absent => t.new = anchor.snapshot[t.ref]

=============================================================================
