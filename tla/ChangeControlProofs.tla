---------------------- MODULE ChangeControlProofs ----------------------
(***************************************************************************)
(* Theorems about ChangeControl, for every set of contexts, resources,      *)
(* contents and overlays and every budget.                                  *)
(***************************************************************************)
EXTENDS ChangeControl, SequenceTheorems, TLAPS

-----------------------------------------------------------------------------
(* What the plan builders return.                                           *)

\* Polling actions are typed actions of a change plan.
LEMMA PollEachType ==
  ASSUME NEW resources \in SUBSET Refs, NEW kind
  PROVE  PollEach(resources, kind) \in Seq(ActionsOf(ChangeKinds))
<1> DEFINE order == Sorted[{r \in resources : Kind[r] = kind}]
<1>1. order \in Seq(Refs)
  BY PlanAssumption DEF PlanAssumption
<1>2. \A i \in DOMAIN order :
        Reading("poll", order[i]) \in ActionsOf(ChangeKinds)
  BY <1>1 DEF Reading, ActionsOf, WriteKinds, ChangeKinds, ActionKinds
<1>3. DOMAIN order = 1..Len(order) /\ Len(order) \in Nat
  BY <1>1
<1> QED BY <1>2, <1>3 DEF PollEach

\* A planned change is a change body.
LEMMA ChangeBodyType ==
  ASSUME NEW command \in ChangeCommands, NEW mode \in Modes,
         NEW context \in Contexts, NEW tree \in Trees,
         NEW resources \in SUBSET Refs
  PROVE  ChangeBody(command, mode, context, tree, resources) \in ChangeBodies
<1> DEFINE A == ActionsOf(ChangeKinds)
<1>1. /\ VerifyContext \in A
      /\ Reading("kubectl-diff", None) \in A
      /\ Reading("read-ingress-state", None) \in A
      /\ Reading("poll", Gateway) \in A
      /\ ApplyCommand(mode) \in A
      /\ Mutating("kubectl-delete", None, FALSE) \in A
  BY PlanAssumption
     DEF PlanAssumption, VerifyContext, Reading, Mutating, ApplyCommand,
         ActionsOf, WriteKinds, ChangeKinds, ActionKinds
<1>2. DeployActions(mode, resources) \in Seq(A)
  <2>1. <<VerifyContext, Reading("kubectl-diff", None), ApplyCommand(mode),
          Reading("poll", Gateway)>> \in Seq(A)
    BY <1>1
  <2> QED BY <2>1, PollEachType, ConcatProperties DEF DeployActions
<1>3. /\ CutoverActions(mode) \in Seq(A)
      /\ DestroyActions \in Seq(A)
      /\ GitopsActions(mode) \in Seq(A)
  <2> HIDE DEF A
  <2>1. \A a, b, c \in A : <<a, b, c>> \in Seq(A)
    OBVIOUS
  <2> QED BY <1>1, <2>1 DEF CutoverActions, DestroyActions, GitopsActions
<1>4. ChangeActions(command, mode, resources) \in Seq(A)
  BY <1>2, <1>3 DEF ChangeActions, ChangeCommands, RecordedCommands
<1> QED BY <1>4 DEF ChangeBody, ChangeBodies

\* The entries of a run are entries of its ledger.
LEMMA RollbackBodyType ==
  ASSUME NEW ledger \in SUBSET Entries, NEW origin \in ChangeBodies,
         NEW mode \in Modes, NEW context \in Contexts
  PROVE  RollbackBody(ledger, origin, mode, context) \in RollbackBodies
<1> DEFINE A == ActionsOf(UndoKinds)
           entries == ForRun(ledger, origin)
           R == {e.ref : e \in entries}
           order == Sorted[R]
           undo == [i \in DOMAIN order |->
                      UndoAction(CHOOSE e \in entries : e.ref = order[i])]
<1>1. entries \subseteq Entries /\ R \in SUBSET Refs
  BY DEF ForRun, Entries
<1>2. order \in Seq(Refs) /\ {order[i] : i \in DOMAIN order} = R
  BY <1>1, PlanAssumption DEF PlanAssumption
<1>3. \A i \in DOMAIN order :
        UndoAction(CHOOSE e \in entries : e.ref = order[i]) \in A
  <2> SUFFICES ASSUME NEW i \in DOMAIN order
               PROVE  UndoAction(CHOOSE e \in entries : e.ref = order[i]) \in A
    OBVIOUS
  <2> DEFINE e == CHOOSE x \in entries : x.ref = order[i]
  <2>1. \E x \in entries : x.ref = order[i]
    BY <1>2
  <2>2. e \in entries
    BY <2>1
  <2>3. e.ref \in Refs
    BY <2>2, <1>1 DEF Entries
  <2> QED BY <2>3 DEF UndoAction, Mutating, ActionsOf, WriteKinds, UndoKinds
<1>4. undo \in Seq(A)
  <2>1. DOMAIN order = 1..Len(order) /\ Len(order) \in Nat
    BY <1>2
  <2> HIDE DEF A
  <2>2. undo \in [1..Len(order) -> A]
    BY <1>3, <2>1
  <2> HIDE DEF undo
  <2>3. undo \in UNION {[1..n -> A] : n \in Nat}
    BY <2>1, <2>2
  <2> QED BY <2>3, SeqDef
<1>5. <<VerifyContext>> \in Seq(A)
  BY DEF VerifyContext, Reading, ActionsOf, WriteKinds, UndoKinds
<1>6. RollbackActions(entries) \in Seq(A)
  BY <1>4, <1>5, ConcatProperties DEF RollbackActions
<1> QED BY <1>1, <1>6 DEF RollbackBody, RollbackBodies, RollbackCommand

-----------------------------------------------------------------------------
(* Cluster states.                                                          *)

\* Whatever kubectl does to a cluster state gives a cluster state, and an
\* apply lands nothing that was not among its documents.
LEMMA KubectlType ==
  ASSUME NEW cl \in ClusterStates, NEW rendered \in ClusterStates,
         NEW S \in SUBSET Refs
  PROVE  /\ Landing(cl, S) \subseteq Refs
         /\ Landing(cl, S) \subseteq S
         /\ Applied(cl, rendered, S) \in ClusterStates
         /\ Removed(cl, S) \in ClusterStates
         /\ Present(cl) \subseteq Refs
  BY DEF ClusterStates, Landing, Applied, Removed, Present, Live

\* The ledger that a recorded run reports, and what is left of it in print.
LEMMA LedgerType ==
  ASSUME NEW resources \in SUBSET Refs, NEW snapshot \in ClusterStates,
         NEW origin \in ChangeBodies
  PROVE  LedgerFromResources(resources, snapshot, origin) \in SUBSET Entries
  BY DEF LedgerFromResources, Entries, LedgerStates, ClusterStates

LEMMA RedactType ==
  ASSUME NEW ledger \in SUBSET Entries
  PROVE  RedactLedger(ledger) \in SUBSET Entries
  BY PlanAssumption DEF PlanAssumption, RedactLedger, Entries, Live

-----------------------------------------------------------------------------
(* The inductive invariant.  TypeOK alone is not inductive: the ledger of a  *)
(* run is typed only because its plan has the identifier of its contents.   *)

Approved ==
  run # None => Intact(run.plan) /\ run.expected = body.context

Armed ==
  run # None =>
    /\ run.touched # {} => run.verified
    /\ ~run.switched => \A t \in run.touched : t.context = body.context
    /\ ( phase = "executing" /\ run.verified /\ ~run.switched =>
           current = body.context )

IInv == TypeOK /\ Approved /\ Armed

\* Marking history as disturbed keeps the record in its type.
LEMMA DisturbedType ==
  /\ \A s \in Snapshots \cup {None} : Disturbed(s) \in Snapshots \cup {None}
  /\ \A s \in Captures \cup {None} :
       /\ Disturbed(s) \in Captures \cup {None}
       /\ s # None => Disturbed(s) # None
  /\ \A s \in Runs \cup {None} :
       /\ Disturbed(s) \in Runs \cup {None}
       /\ s # None => Disturbed(s) # None
<1>1. \A s \in Snapshots : [s EXCEPT !.quiet = FALSE] \in Snapshots
  BY DEF Snapshots
<1>2. \A s \in Captures : [s EXCEPT !.quiet = FALSE] \in Captures
  BY DEF Captures
<1>3. \A s \in Runs : [s EXCEPT !.quiet = FALSE] \in Runs
  BY DEF Runs
<1> QED BY <1>1, <1>2, <1>3, NoneAssumption DEF NoneAssumption, Disturbed

-----------------------------------------------------------------------------
(* Runs.                                                                    *)

\* What a running executor knows of its plan and its cluster.
LEMMA RunningType ==
  ASSUME IInv, phase = "executing"
  PROVE  /\ run \in Runs /\ run # None
         /\ body \in Bodies
         /\ body.context \in Contexts
         /\ run.plan.id = body
         /\ here \in ClusterStates
         /\ current \in Contexts
<1>1. run \in Runs /\ run # None
  BY DEF IInv, TypeOK
<1>2. run.plan \in Plans
  BY <1>1 DEF Runs
<1>3. body \in Bodies
  BY <1>2 DEF Plans, body
<1>4. body.context \in Contexts
  BY <1>3 DEF Bodies, ChangeBodies, RollbackBodies
<1>5. run.plan.id = body
  BY <1>1 DEF IInv, Approved, Intact, body
<1>6. here \in ClusterStates /\ current \in Contexts
  BY DEF IInv, TypeOK, here
<1> QED BY <1>1, <1>3, <1>4, <1>5, <1>6

\* The next action of a plan is an action; one that writes says so, and one
\* that reads a Kustomize directory is in a plan that names one.
LEMMA StepType ==
  ASSUME IInv, Remaining
  PROVE  /\ Step \in ActionsOf(ActionKinds)
         /\ Step.ref \in Refs \cup {None}
         /\ Step.kind \in WriteKinds => Step.mutating
         /\ Step.kind \in {"kubectl-apply", "kubectl-delete"} =>
              /\ docs \in ClusterStates
              /\ Present(docs) \in SUBSET Refs
<1>1. phase = "executing" /\ run.next <= Len(body.actions)
  BY DEF Remaining
<1>2. body \in Bodies /\ run \in Runs
  BY <1>1, RunningType
<1>3. run.next \in Nat \ {0}
  BY <1>2 DEF Runs
<1>4. CASE body \in ChangeBodies
  <2>1. body.actions \in Seq(ActionsOf(ChangeKinds)) /\ body.overlay \in Trees
    BY <1>4 DEF ChangeBodies
  <2>2. Step \in ActionsOf(ChangeKinds)
    BY <1>1, <1>3, <2>1, ElementOfSeq DEF Step
  <2>3. docs \in ClusterStates
    BY <2>1 DEF IInv, TypeOK, docs
  <2> QED BY <2>2, <2>3 DEF ActionsOf, ChangeKinds, Present
<1>5. CASE body \in RollbackBodies
  <2>1. body.actions \in Seq(ActionsOf(UndoKinds))
    BY <1>5 DEF RollbackBodies
  <2>2. Step \in ActionsOf(UndoKinds)
    BY <1>1, <1>3, <2>1, ElementOfSeq DEF Step
  <2> QED BY <2>2 DEF ActionsOf, UndoKinds, ActionKinds
<1> QED BY <1>2, <1>4, <1>5 DEF Bodies

\* Touches of the current cluster are touches.
LEMMA TouchingType ==
  ASSUME IInv, phase = "executing", NEW S \in SUBSET Refs,
         NEW new \in ClusterStates
  PROVE  /\ Touching(S, new) \in SUBSET Touches
         /\ \A t \in Touching(S, new) : t.context = current
         /\ S = {} => Touching(S, new) = {}
  BY RunningType DEF Touching, Touches, ClusterStates

\* An executor step that goes on keeps the invariant, if it writes only after
\* verification.
LEMMA ContinuesKeeps ==
  ASSUME IInv, phase = "executing", NEW S \in SUBSET Refs,
         NEW new \in ClusterStates, S # {} => run.verified,
         Continues(S, new)
  PROVE  IInv' /\ run' \in Runs
<1> DEFINE T == Touching(S, new)
<1>1. run \in Runs /\ run # None /\ body.context \in Contexts
  BY RunningType
<1>2. T \in SUBSET Touches /\ (\A t \in T : t.context = current)
        /\ (S = {} => T = {})
  BY TouchingType
<1>3. run' = [run EXCEPT !.next = @ + 1, !.touched = @ \cup T]
  BY DEF Continues
<1> HIDE DEF T
<1>4. run' \in Runs /\ run' # None
  <2>1. run.next + 1 \in Nat \ {0}
    BY <1>1 DEF Runs
  <2>2. run.touched \cup T \in SUBSET Touches
    BY <1>1, <1>2 DEF Runs
  <2> QED BY <1>1, <1>3, <2>1, <2>2, NoneAssumption DEF Runs, NoneAssumption
<1>5. /\ run'.plan = run.plan /\ run'.expected = run.expected
      /\ run'.verified = run.verified /\ run'.switched = run.switched
      /\ run'.touched = run.touched \cup T
  BY <1>1, <1>3 DEF Runs
<1>6. cluster' \in [Contexts -> ClusterStates]
  BY DEF IInv, TypeOK, Continues, Writes
<1>7. snapshotFile' \in Snapshots \cup {None}
  BY DisturbedType DEF IInv, TypeOK, Continues, Writes
<1>8. TypeOK'
  BY <1>4, <1>6, <1>7 DEF IInv, TypeOK, Continues
<1>9. body' = body
  BY <1>5 DEF body
<1>10. Approved'
  BY <1>1, <1>5, <1>9 DEF IInv, Approved
<1>11. Armed'
  BY <1>1, <1>2, <1>5, <1>9 DEF IInv, Armed, Continues
<1> QED BY <1>4, <1>8, <1>10, <1>11 DEF IInv

\* So does one that fails.
LEMMA FailsKeeps ==
  ASSUME IInv, phase = "executing", NEW S \in SUBSET Refs,
         NEW new \in ClusterStates, S # {} => run.verified,
         Fails(S, new)
  PROVE  IInv' /\ run' \in Runs
<1> DEFINE T == Touching(S, new)
<1>1. run \in Runs /\ run # None /\ body.context \in Contexts
  BY RunningType
<1>2. T \in SUBSET Touches /\ (\A t \in T : t.context = current)
        /\ (S = {} => T = {})
  BY TouchingType
<1>3. run' = [run EXCEPT !.touched = @ \cup T]
  BY DEF Fails
<1> HIDE DEF T
<1>4. run' \in Runs
  BY <1>1, <1>2, <1>3 DEF Runs
<1>5. /\ run'.plan = run.plan /\ run'.expected = run.expected
      /\ run'.verified = run.verified /\ run'.switched = run.switched
      /\ run'.touched = run.touched \cup T
  BY <1>1, <1>3 DEF Runs
<1>6. cluster' \in [Contexts -> ClusterStates]
  BY DEF IInv, TypeOK, Fails, Writes
<1>7. snapshotFile' \in Snapshots \cup {None}
  BY DisturbedType DEF IInv, TypeOK, Fails, Writes
<1>8. report' \in Reports
  BY DEF Fails, Reports
<1>9. TypeOK'
  BY <1>4, <1>6, <1>7, <1>8 DEF IInv, TypeOK, Fails
<1>10. body' = body
  BY <1>5 DEF body
<1>11. Approved'
  BY <1>1, <1>5, <1>10 DEF IInv, Approved
<1>12. Armed'
  BY <1>1, <1>2, <1>5, <1>10 DEF IInv, Armed, Fails
<1> QED BY <1>4, <1>9, <1>11, <1>12 DEF IInv

\* The forms of an executor step: it runs a kubectl process that may write,
\* only after verification; it moves on without writing, and verification
\* means what it says; or it finishes.
Written ==
  /\ phase = "executing"
  /\ \E S \in SUBSET Refs, new \in ClusterStates :
       /\ S # {} => run.verified
       /\ Continues(S, new) \/ Fails(S, new)

Moved ==
  /\ phase = "executing" /\ Reads
  /\ run' \in Runs
  /\ run'.plan = run.plan /\ run'.expected = run.expected
  /\ run'.switched = run.switched /\ run'.touched = run.touched
  /\ run.verified => run'.verified
  /\ run'.verified => run.verified \/ current = run.expected

\* Every step of the executor has one of these forms.
LEMMA ExecutingForms ==
  ASSUME IInv, Executing
  PROVE  Written \/ Moved \/ Finish
<1>1. ASSUME phase = "executing", Fails({}, here) PROVE Written
  BY <1>1, RunningType DEF Written
<1>2. ASSUME phase = "executing", Continues({}, here) PROVE Written
  BY <1>2, RunningType DEF Written
<1>3. CASE RefuseUnverified
  BY <1>1, <1>3 DEF RefuseUnverified, Remaining
<1>4. CASE Verify
  <2>1. phase = "executing" /\ run \in Runs
    BY <1>4, RunningType DEF Verify, At, Remaining
  <2>2. run.next + 1 \in Nat \ {0}
    BY <2>1 DEF Runs
  <2>3. /\ run' \in Runs /\ run'.plan = run.plan
        /\ run'.expected = run.expected /\ run'.switched = run.switched
        /\ run'.touched = run.touched /\ run'.verified
    BY <1>4, <2>1, <2>2 DEF Verify, Runs
  <2> QED BY <1>4, <2>1, <2>3 DEF Verify, Moved
<1>5. CASE Diff
  BY <1>2, <1>5 DEF Diff, At, Remaining
<1>6. CASE ReadIngress
  <2>1. phase = "executing" /\ run \in Runs
    BY <1>6, RunningType DEF ReadIngress, At, Remaining
  <2>2. run.next + 1 \in Nat \ {0}
    BY <2>1 DEF Runs
  <2>3. /\ run' \in Runs /\ run'.plan = run.plan
        /\ run'.expected = run.expected /\ run'.switched = run.switched
        /\ run'.touched = run.touched /\ run'.verified = run.verified
    BY <1>6, <2>1, <2>2 DEF ReadIngress, Runs
  <2> QED BY <1>6, <2>1, <2>3 DEF ReadIngress, Moved
<1>7. CASE ReadFails
  BY <1>1, <1>7 DEF ReadFails, At, Remaining
<1>8. CASE Apply
  <2>1. Remaining /\ phase = "executing" /\ Step.kind = "kubectl-apply"
    BY <1>8 DEF Apply, At, Remaining
  <2>2. Step.mutating /\ docs \in ClusterStates /\ Present(docs) \in SUBSET Refs
    BY <2>1, StepType DEF WriteKinds
  <2>3. run.verified
    BY <1>8, <2>2 DEF Apply, At
  <2>4. Applied(here, docs, Present(docs)) \in ClusterStates
    BY <2>1, <2>2, RunningType, KubectlType
  <2> QED BY <1>8, <2>1, <2>2, <2>3, <2>4 DEF Apply, Written
<1>9. CASE ApplyFails
  <2>1. Remaining /\ phase = "executing" /\ Step.kind = "kubectl-apply"
    BY <1>9 DEF ApplyFails, At, Remaining
  <2>2. Step.mutating /\ docs \in ClusterStates /\ Present(docs) \in SUBSET Refs
    BY <2>1, StepType DEF WriteKinds
  <2>3. run.verified
    BY <1>9, <2>2 DEF ApplyFails, At
  <2>4. PICK S \in SUBSET Present(docs) :
          Fails(Landing(here, S), Applied(here, docs, S))
    BY <1>9 DEF ApplyFails
  <2>5. /\ Landing(here, S) \in SUBSET Refs
        /\ Applied(here, docs, S) \in ClusterStates
    BY <2>1, <2>2, RunningType, KubectlType
  <2> QED BY <2>1, <2>3, <2>4, <2>5 DEF Written
<1>10. CASE ApplyDry
  BY <1>2, <1>10 DEF ApplyDry, At, Remaining
<1>11. CASE ApplyDryFails
  BY <1>1, <1>11 DEF ApplyDryFails, At, Remaining
<1>12. CASE Delete
  <2> DEFINE S == WithContents(Present(docs)) \cap Present(here)
  <2>1. Remaining /\ phase = "executing" /\ Step.kind = "kubectl-delete"
    BY <1>12 DEF Delete, At, Remaining
  <2>2. Step.mutating
    BY <2>1, StepType DEF WriteKinds
  <2>3. run.verified
    BY <1>12, <2>2 DEF Delete, At
  <2>4. S \in SUBSET Refs /\ Removed(here, S) \in ClusterStates
    BY <2>1, RunningType, KubectlType
  <2>5. Continues(S, Removed(here, S))
    BY <1>12 DEF Delete
  <2> QED BY <2>1, <2>3, <2>4, <2>5 DEF Written
<1>13. CASE DeleteFails
  <2>1. Remaining /\ phase = "executing" /\ Step.kind = "kubectl-delete"
    BY <1>13 DEF DeleteFails, At, Remaining
  <2>2. Step.mutating
    BY <2>1, StepType DEF WriteKinds
  <2>3. run.verified
    BY <1>13, <2>2 DEF DeleteFails, At
  <2>4. PICK D \in SUBSET (Present(docs) \cap Present(here)) :
          LET S == WithContents(D) \cap Present(here)
          IN  Fails(S, Removed(here, S))
    BY <1>13 DEF DeleteFails
  <2> DEFINE S == WithContents(D) \cap Present(here)
  <2>5. S \in SUBSET Refs /\ Removed(here, S) \in ClusterStates
    BY <2>1, RunningType, KubectlType
  <2>6. Fails(S, Removed(here, S))
    BY <2>4
  <2> QED BY <2>1, <2>3, <2>5, <2>6 DEF Written
<1>14. CASE DeleteResource
  <2> DEFINE S == WithContents({Step.ref}) \cap Present(here)
  <2>1. /\ Remaining /\ phase = "executing"
        /\ Step.kind = "kubectl-delete-resource"
    BY <1>14 DEF DeleteResource, At, Remaining
  <2>2. Step.mutating
    BY <2>1, StepType DEF WriteKinds
  <2>3. run.verified
    BY <1>14, <2>2 DEF DeleteResource, At
  <2>4. S \in SUBSET Refs /\ Removed(here, S) \in ClusterStates
    BY <2>1, RunningType, KubectlType
  <2>5. Continues(S, Removed(here, S))
    BY <1>14 DEF DeleteResource
  <2> QED BY <2>1, <2>3, <2>4, <2>5 DEF Written
<1>15. CASE DeleteResourceFails
  <2>1. /\ Remaining /\ phase = "executing"
        /\ Step.kind = "kubectl-delete-resource"
    BY <1>15 DEF DeleteResourceFails, At, Remaining
  <2>2. Step.mutating
    BY <2>1, StepType DEF WriteKinds
  <2>3. run.verified
    BY <1>15, <2>2 DEF DeleteResourceFails, At
  <2>4. PICK D \in SUBSET ({Step.ref} \cap Present(here)) :
          LET S == WithContents(D) \cap Present(here)
          IN  Fails(S, Removed(here, S))
    BY <1>15 DEF DeleteResourceFails
  <2> DEFINE S == WithContents(D) \cap Present(here)
  <2>5. S \in SUBSET Refs /\ Removed(here, S) \in ClusterStates
    BY <2>1, RunningType, KubectlType
  <2>6. Fails(S, Removed(here, S))
    BY <2>4
  <2> QED BY <2>1, <2>3, <2>5, <2>6 DEF Written
<1>16. ASSUME Remaining, NEW e \in RestoreEntries
       PROVE  /\ {Step.ref} \in SUBSET Refs
              /\ [here EXCEPT ![Step.ref] = e.before] \in ClusterStates
  <2>1. phase = "executing" /\ run \in Runs /\ here \in ClusterStates
    BY <1>16, RunningType DEF Remaining
  <2>2. run.ledger \in (SUBSET Entries) \cup {None}
    BY <2>1 DEF Runs
  <2>3. e \in Entries /\ e.ref = Step.ref
    BY <1>16, <2>2 DEF RestoreEntries
  <2> QED BY <2>1, <2>3 DEF Entries, ClusterStates
<1>17. CASE Restore
  <2>1. Remaining /\ phase = "executing" /\ Step.kind = "kubectl-restore"
    BY <1>17 DEF Restore, At, Remaining
  <2>2. Step.mutating
    BY <2>1, StepType DEF WriteKinds
  <2>3. run.verified
    BY <1>17, <2>2 DEF Restore, At
  <2>4. PICK e \in RestoreEntries :
          Continues({Step.ref}, [here EXCEPT ![Step.ref] = e.before])
    BY <1>17 DEF Restore
  <2> QED BY <1>16, <2>1, <2>3, <2>4 DEF Written
<1>18. CASE RestoreFails
  <2>1. Remaining /\ phase = "executing" /\ Step.kind = "kubectl-restore"
    BY <1>18 DEF RestoreFails, At, Remaining
  <2>2. Step.mutating
    BY <2>1, StepType DEF WriteKinds
  <2>3. run.verified
    BY <1>18, <2>2 DEF RestoreFails, At
  <2>4. CASE Fails({}, here)
    BY <1>1, <2>1, <2>4
  <2>5. CASE \E e \in RestoreEntries :
               Fails({Step.ref}, [here EXCEPT ![Step.ref] = e.before])
    <3>1. PICK e \in RestoreEntries :
            Fails({Step.ref}, [here EXCEPT ![Step.ref] = e.before])
      BY <2>5
    <3> QED BY <1>16, <2>1, <2>3, <3>1 DEF Written
  <2> QED BY <1>18, <2>4, <2>5 DEF RestoreFails
<1>19. CASE PollReady
  <2>1. phase = "executing" /\ run \in Runs
    BY <1>19, RunningType DEF PollReady, At, Remaining
  <2>2. run.next + 1 \in Nat \ {0}
    BY <2>1 DEF Runs
  <2>3. /\ run' \in Runs /\ run'.plan = run.plan
        /\ run'.expected = run.expected /\ run'.switched = run.switched
        /\ run'.touched = run.touched /\ run'.verified = run.verified
    BY <1>19, <2>1, <2>2 DEF PollReady, Runs
  <2> QED BY <1>19, <2>1, <2>3 DEF PollReady, Moved
<1>20. CASE PollAgain
  <2>1. phase = "executing" /\ run \in Runs
    BY <1>20, RunningType DEF PollAgain, At, Remaining
  <2>2. run.attempts + 1 \in Nat
    BY <2>1 DEF Runs
  <2>3. /\ run' \in Runs /\ run'.plan = run.plan
        /\ run'.expected = run.expected /\ run'.switched = run.switched
        /\ run'.touched = run.touched /\ run'.verified = run.verified
    BY <1>20, <2>1, <2>2 DEF PollAgain, Runs
  <2> QED BY <1>20, <2>1, <2>3 DEF PollAgain, Moved
<1>21. CASE PollFails
  BY <1>1, <1>21 DEF PollFails, At, Remaining
<1>22. CASE Finish
  BY <1>22
<1> QED
  BY <1>3, <1>4, <1>5, <1>6, <1>7, <1>8, <1>9, <1>10, <1>11, <1>12, <1>13,
     <1>14, <1>15, <1>17, <1>18, <1>19, <1>20, <1>21, <1>22 DEF Executing

\* A step of any of these forms keeps the invariant.
LEMMA ExecutingKeeps ==
  ASSUME IInv, Executing
  PROVE  IInv'
<1>1. CASE Written
  BY <1>1, ContinuesKeeps, FailsKeeps DEF Written
<1>2. CASE Moved
  <2>1. run \in Runs /\ run # None /\ run' # None
    BY <1>2, RunningType, NoneAssumption DEF Moved, NoneAssumption
  <2>2. body' = body
    BY <1>2 DEF Moved, body
  <2>3. TypeOK'
    BY <1>2, <2>1 DEF Moved, IInv, TypeOK, Reads, environment
  <2>4. Approved'
    BY <1>2, <2>1, <2>2 DEF Moved, IInv, Approved
  <2>5. Armed'
    BY <1>2, <2>1, <2>2
       DEF Moved, IInv, Armed, Approved, Reads, environment
  <2> QED BY <2>3, <2>4, <2>5 DEF IInv
<1>3. CASE Finish
  <2>1. phase = "executing" /\ run \in Runs /\ run # None
          /\ body \in Bodies /\ run.plan.id = body
    BY <1>3, RunningType DEF Finish
  <2>2. ReportedLedger \in (SUBSET Entries) \cup {None}
    <3>1. CASE body.command \in RecordedCommands
      <4>1. body \in ChangeBodies
        BY <2>1, <3>1
           DEF Bodies, RollbackBodies, RollbackCommand, RecordedCommands
      <4>2. body.resources \in SUBSET Refs /\ run.snapshot \in ClusterStates
        BY <2>1, <4>1 DEF ChangeBodies, Runs
      <4> QED BY <2>1, <3>1, <4>1, <4>2, LedgerType DEF ReportedLedger
    <3>2. CASE body.command \notin RecordedCommands
      BY <2>1, <3>2 DEF ReportedLedger, Runs
    <3> QED BY <3>1, <3>2
  <2>3. report' \in Reports
    BY <1>3, <2>2 DEF Finish, Reports
  <2>4. TypeOK'
    BY <1>3, <2>1, <2>3 DEF IInv, TypeOK, Finish, environment
  <2>5. body' = body
    BY <1>3 DEF Finish, body
  <2>6. Approved' /\ Armed'
    BY <1>3, <2>5 DEF IInv, Approved, Armed, Finish, environment
  <2> QED BY <2>4, <2>6 DEF IInv
<1> QED BY <1>1, <1>2, <1>3, ExecutingForms

-----------------------------------------------------------------------------
(* Everything that is not an executor step.                                 *)

LEMMA SpendType ==
  ASSUME IInv, NEW event, Spend(event)
  PROVE  left' \in [Events -> Nat]
<1>1. left \in [Events -> Nat]
  BY DEF IInv, TypeOK
<1>2. CASE event \in Events
  <2>1. left[event] - 1 \in Nat
    BY <1>1, <1>2 DEF Spend
  <2> QED BY <1>1, <2>1 DEF Spend
<1>3. CASE event \notin Events
  BY <1>1, <1>3 DEF Spend
<1> QED BY <1>2, <1>3

\* A step that starts no run and leaves the last one alone.
LEMMA RunKept ==
  ASSUME IInv, TypeOK', run' = run, current' = current,
         phase' = "executing" => phase = "executing"
  PROVE  IInv'
<1>1. body' = body
  BY DEF body
<1> QED BY <1>1 DEF IInv, Approved, Armed

LEMMA PlanningKeeps ==
  ASSUME IInv, Planning \/ EditPlanFile
  PROVE  IInv'
<1>1. ASSUME planFile' \in Plans \cup {None}, left' \in [Events -> Nat],
             UNCHANGED <<snapshotFile, ledgerFile, phase, capture, run,
                         report, anchor>>,
             UNCHANGED <<cluster, current, configured, source>>
      PROVE  IInv'
  <2>1. TypeOK'
    BY <1>1 DEF IInv, TypeOK
  <2> QED BY <1>1, <2>1, RunKept
<1>2. ASSUME NEW b \in Bodies PROVE WithComputedId(b) \in Plans
  BY <1>2 DEF WithComputedId, Plans
<1>3. ASSUME NEW command \in Commands, NEW mode \in Modes, NEW tree \in Trees,
             PlanChange(command, mode, tree)
      PROVE  IInv'
  <2>1. command \in ChangeCommands
    BY ControlAssumption DEF ControlAssumption
  <2>2. Present(source[tree]) \in SUBSET Refs /\ configured \in Contexts
    BY DEF Present, IInv, TypeOK
  <2>3. ChangeBody(command, mode, configured, tree, Present(source[tree]))
          \in Bodies
    BY <2>1, <2>2, ChangeBodyType DEF Bodies
  <2>4. planFile' \in Plans
    BY <1>2, <1>3, <2>3 DEF PlanChange
  <2> QED BY <1>1, <1>3, <2>4, SpendType DEF PlanChange
<1>4. ASSUME NEW mode \in Modes, ledgerFile # None, NEW e \in ledgerFile,
             PlanRollback(e.run, mode)
      PROVE  IInv'
  <2>1. ledgerFile \in SUBSET Entries /\ configured \in Contexts
    BY <1>4 DEF IInv, TypeOK
  <2>2. e.run \in ChangeBodies
    BY <1>4, <2>1 DEF Entries
  <2>3. RollbackBody(ledgerFile, e.run, mode, configured) \in Bodies
    BY <2>1, <2>2, RollbackBodyType DEF Bodies
  <2>4. planFile' \in Plans
    BY <1>2, <1>4, <2>3 DEF PlanRollback
  <2> QED BY <1>1, <1>4, <2>4, SpendType DEF PlanRollback
<1>5. CASE Planning
  BY <1>3, <1>4, <1>5 DEF Planning
<1>6. CASE EditPlanFile
  <2>1. planFile \in Plans
    BY <1>6 DEF EditPlanFile, IInv, TypeOK
  <2>2. ASSUME NEW mode \in Modes,
               planFile' = [planFile EXCEPT !.body.mode = mode]
        PROVE  planFile' \in Plans
    <3>1. [planFile.body EXCEPT !.mode = mode] \in Bodies
      BY <2>1 DEF Plans, Bodies, ChangeBodies, RollbackBodies
    <3>2. planFile' = [planFile EXCEPT
                         !.body = [planFile.body EXCEPT !.mode = mode]]
      BY <2>2, <2>1 DEF Plans
    <3> QED BY <2>1, <3>1, <3>2 DEF Plans
  <2>3. ASSUME planFile.body.actions # <<>>,
               planFile' = WithComputedId(
                 [planFile.body EXCEPT !.actions = Tail(@)])
        PROVE  planFile' \in Plans
    <3> DEFINE b == planFile.body
               shorter == [b EXCEPT !.actions = Tail(@)]
    <3>1. b \in Bodies
      BY <2>1 DEF Plans
    <3>2. CASE b \in ChangeBodies
      <4>1. Tail(b.actions) \in Seq(ActionsOf(ChangeKinds))
        BY <2>3, <3>2, HeadTailProperties DEF ChangeBodies
      <4> QED BY <1>2, <2>3, <3>2, <4>1 DEF ChangeBodies, Bodies
    <3>3. CASE b \in RollbackBodies
      <4>1. Tail(b.actions) \in Seq(ActionsOf(UndoKinds))
        BY <2>3, <3>3, HeadTailProperties DEF RollbackBodies
      <4> QED BY <1>2, <2>3, <3>3, <4>1 DEF RollbackBodies, Bodies
    <3> QED BY <3>1, <3>2, <3>3 DEF Bodies
  <2>4. planFile' \in Plans
    BY <1>6, <2>2, <2>3 DEF EditPlanFile
  <2> QED BY <1>1, <1>6, <2>4, SpendType DEF EditPlanFile
<1> QED BY <1>5, <1>6

LEMMA CapturingKeeps ==
  ASSUME IInv, \/ CaptureStart \/ Capturing \/ CaptureMisread
               \/ RecordFailedBackup
  PROVE  IInv'
<1>1. ASSUME phase = "capturing"
      PROVE  /\ capture \in Captures
             /\ capture.next + 1 \in Nat \ {0}
             /\ capture.found \in ClusterStates
             /\ capture.plan.body \in Bodies
             /\ current \in Contexts /\ cluster[current] \in ClusterStates
  BY <1>1 DEF IInv, TypeOK, Captures, Plans
<1>2. ASSUME phase = "capturing", phase' = "capturing",
             capture' \in Captures, left' \in [Events -> Nat],
             UNCHANGED <<planFile, snapshotFile, ledgerFile, run, report,
                         anchor>>,
             UNCHANGED <<cluster, current, configured, source>>
      PROVE  IInv'
  <2>1. TypeOK'
    BY <1>2, NoneAssumption DEF IInv, TypeOK, NoneAssumption
  <2> QED BY <1>2, <2>1, RunKept
<1>3. CASE CaptureStart
  <2>1. capture' \in Captures
    <3>1. planFile \in Plans
      BY <1>3 DEF CaptureStart, IInv, TypeOK
    <3>2. Nothing \in ClusterStates
      BY DEF Nothing, ClusterStates, Live
    <3>3. StartQuiet(planFile.body) \in BOOLEAN
      BY DEF StartQuiet
    <3> QED BY <1>3, <3>1, <3>2, <3>3 DEF CaptureStart, Captures
  <2>2. left' \in [Events -> Nat]
    BY <1>3, SpendType DEF CaptureStart
  <2>3. TypeOK'
    BY <1>3, <2>1, <2>2, NoneAssumption
       DEF CaptureStart, IInv, TypeOK, NoneAssumption
  <2> QED BY <1>3, <2>3, RunKept DEF CaptureStart
<1>4. CASE CaptureVerify
  <2>1. capture' \in Captures
    BY <1>1, <1>4 DEF CaptureVerify, Captures
  <2> QED BY <1>2, <1>4, <2>1 DEF CaptureVerify, environment, IInv, TypeOK
<1>5. CASE CaptureRead
  <2> DEFINE ref == CaptureOrder[capture.next]
             found == [capture.found EXCEPT ![ref] = cluster[current][ref]]
  <2>1. found \in ClusterStates
    BY <1>1, <1>5 DEF CaptureRead, ClusterStates
  <2>2. capture' = [capture EXCEPT !.found = found, !.next = @ + 1,
                                   !.checked = FALSE]
    BY <1>1, <1>5 DEF CaptureRead, Captures
  <2> HIDE DEF found
  <2>3. capture' \in Captures
    BY <1>1, <1>5, <2>1, <2>2 DEF CaptureRead, Captures
  <2> QED BY <1>2, <1>5, <2>3 DEF CaptureRead, environment, IInv, TypeOK
<1>6. CASE CaptureMisread
  <2>1. capture' \in Captures
    BY <1>1, <1>6 DEF CaptureMisread, Captures
  <2> QED BY <1>2, <1>6, <2>1, SpendType DEF CaptureMisread
<1>7. CASE CaptureAbort \/ CaptureHangs
  <2>1. TypeOK'
    BY <1>7 DEF CaptureAbort, CaptureHangs, IInv, TypeOK, environment
  <2> QED BY <1>7, <2>1, RunKept DEF CaptureAbort, CaptureHangs, environment
<1>8. CASE CaptureWrite
  <2>1. snapshotFile' \in Snapshots
    BY <1>1, <1>8 DEF CaptureWrite, Snapshots, Captures
  <2>2. TypeOK'
    BY <1>8, <2>1 DEF CaptureWrite, IInv, TypeOK, environment
  <2> QED BY <1>8, <2>2, RunKept DEF CaptureWrite, environment
<1>9. CASE RecordFailedBackup
  <2>1. snapshotFile' \in Snapshots
    BY <1>9
       DEF RecordFailedBackup, Snapshots, Nothing, ClusterStates, Live
  <2>2. TypeOK'
    BY <1>9, <2>1, SpendType DEF RecordFailedBackup, IInv, TypeOK
  <2> QED BY <1>9, <2>2, RunKept DEF RecordFailedBackup
<1> QED
  BY <1>3, <1>4, <1>5, <1>6, <1>7, <1>8, <1>9 DEF Capturing

\* Admission is where the plan's identifier and context are checked.
LEMMA AdmissionKeeps ==
  ASSUME IInv, Admission
  PROVE  IInv'
<1>1. PICK command \in Commands \cup {RollbackCommand}, mode \in Modes,
           expected \in Contexts, confirmed \in BOOLEAN :
             Admit(command, mode, expected, confirmed)
  BY DEF Admission
<1>2. /\ planFile \in Plans /\ Intact(planFile)
      /\ expected = planFile.body.context
      /\ snapshotFile \in Snapshots
  BY <1>1 DEF Admit, Authorised, IInv, TypeOK
<1>3. run' \in Runs
  <2>1. (snapshotFile.quiet /\ snapshotFile.of = planFile.body) \in BOOLEAN
    OBVIOUS
  <2>2. snapshotFile.resources \in ClusterStates
    BY <1>2 DEF Snapshots
  <2>3. ledgerFile \in (SUBSET Entries) \cup {None}
    BY DEF IInv, TypeOK
  <2> QED BY <1>1, <1>2, <2>1, <2>2, <2>3 DEF Admit, Runs
<1>4. /\ run'.plan = planFile /\ run'.expected = expected
      /\ run'.touched = {} /\ run'.verified = FALSE
  BY <1>1 DEF Admit
<1>5. report' \in Reports
  BY <1>1 DEF Admit, Reports
<1>6. anchor' \in Runs \cup {None}
  BY <1>1, DisturbedType DEF Admit, IInv, TypeOK
<1>7. TypeOK'
  BY <1>1, <1>3, <1>5, <1>6, SpendType, NoneAssumption
     DEF Admit, IInv, TypeOK, NoneAssumption
<1>8. Approved'
  BY <1>2, <1>4 DEF Approved, Intact, body
<1>9. Armed'
  BY <1>4 DEF Armed
<1> QED BY <1>7, <1>8, <1>9 DEF IInv

LEMMA OthersKeep ==
  ASSUME IInv, Others
  PROVE  IInv'
<1>1. ASSUME DisturbAll, run' \in Runs \cup {None},
             run # None => run' # None,
             cluster' \in [Contexts -> ClusterStates],
             source' \in [Trees -> ClusterStates],
             current' \in Contexts, configured' = configured,
             left' \in [Events -> Nat]
      PROVE  TypeOK'
  BY <1>1, DisturbedType DEF DisturbAll, IInv, TypeOK
<1>2. ASSUME run' = Disturbed(run)
      PROVE  /\ run' \in Runs \cup {None} /\ (run = None <=> run' = None)
             /\ run # None =>
                  /\ run'.plan = run.plan /\ run'.expected = run.expected
                  /\ run'.verified = run.verified
                  /\ run'.switched = run.switched
                  /\ run'.touched = run.touched
  <2>1. run \in Runs \cup {None}
    BY DEF IInv, TypeOK
  <2> QED BY <1>2, <2>1, DisturbedType DEF Disturbed, Runs
<1>3. ASSUME TypeOK', run' = Disturbed(run), current' = current,
             phase' = phase
      PROVE  IInv'
  <2>1. run # None => body' = body
    BY <1>2, <1>3 DEF body
  <2> QED BY <1>2, <1>3, <2>1 DEF IInv, Approved, Armed
<1>4. ASSUME NEW c \in Contexts, NEW r \in Refs, NEW m \in Live,
             ForeignWrite(c, r, m)
      PROVE  IInv'
  <2>1. cluster[c] \in ClusterStates
    BY DEF IInv, TypeOK
  <2>2. /\ Removed(cluster[c], {r}) \in ClusterStates
        /\ [cluster[c] EXCEPT ![r] = m] \in ClusterStates
    BY <2>1, KubectlType DEF ClusterStates
  <2>3. cluster' \in [Contexts -> ClusterStates]
    BY <1>4, <2>2 DEF ForeignWrite, IInv, TypeOK
  <2>4. TypeOK'
    BY <1>1, <1>2, <1>4, <2>3, SpendType DEF ForeignWrite, IInv, TypeOK
  <2> QED BY <1>3, <1>4, <2>4 DEF ForeignWrite, DisturbAll
<1>5. ASSUME NEW c \in Contexts, SwitchContext(c)
      PROVE  IInv'
  <2>1. run \in Runs \cup {None}
    BY DEF IInv, TypeOK
  <2>2. /\ run' \in Runs \cup {None} /\ (run = None <=> run' = None)
        /\ run # None =>
             /\ run'.plan = run.plan /\ run'.expected = run.expected
             /\ run'.verified = run.verified /\ run'.switched
             /\ run'.touched = run.touched
    BY <1>5, <2>1, NoneAssumption DEF SwitchContext, Runs, NoneAssumption
  <2>3. TypeOK'
    BY <1>1, <1>5, <2>2, SpendType DEF SwitchContext, IInv, TypeOK
  <2>4. run # None => body' = body
    BY <2>2 DEF body
  <2> QED BY <2>2, <2>3, <2>4 DEF IInv, Approved, Armed
<1>6. ASSUME NEW tree \in Trees, NEW r \in Refs, NEW m \in Live,
             EditSource(tree, r, m)
      PROVE  IInv'
  <2>1. source' \in [Trees -> ClusterStates]
    BY <1>6 DEF EditSource, IInv, TypeOK, ClusterStates
  <2>2. TypeOK'
    BY <1>1, <1>2, <1>6, <2>1, SpendType DEF EditSource, IInv, TypeOK
  <2> QED BY <1>3, <1>6, <2>2 DEF EditSource, DisturbAll
<1>7. ASSUME NEW c \in Contexts, EditConfig(c)
      PROVE  IInv'
  <2>1. TypeOK'
    BY <1>7, SpendType DEF EditConfig, operator, IInv, TypeOK
  <2> QED BY <1>7, <2>1, RunKept DEF EditConfig, operator
<1> QED BY <1>4, <1>5, <1>6, <1>7 DEF Others

-----------------------------------------------------------------------------
(* The theorems.                                                            *)

\* The invariant holds at the start and every step keeps it.
LEMMA Inductive == Safety => []IInv
<1>1. Init => IInv
  <2> SUFFICES ASSUME Init PROVE IInv
    OBVIOUS
  <2>1. cluster \in [Contexts -> ClusterStates]
          /\ source \in [Trees -> ClusterStates]
    BY ControlAssumption DEF Init, ControlAssumption
  <2>2. TypeOK
    BY <2>1, ControlAssumption DEF Init, TypeOK, Reports, ControlAssumption
  <2> QED BY <2>2 DEF Init, IInv, Approved, Armed
<1>2. IInv /\ [Next]_vars => IInv'
  <2> SUFFICES ASSUME IInv, [Next]_vars PROVE IInv'
    OBVIOUS
  <2>1. CASE Planning \/ EditPlanFile
    BY <2>1, PlanningKeeps
  <2>2. CASE \/ CaptureStart \/ Capturing \/ CaptureMisread
             \/ RecordFailedBackup
    BY <2>2, CapturingKeeps
  <2>3. CASE Admission
    BY <2>3, AdmissionKeeps
  <2>4. CASE Executing
    BY <2>4, ExecutingKeeps
  <2>5. CASE Crash
    <3>1. TypeOK'
      BY <2>5 DEF Crash, IInv, TypeOK, environment
    <3> QED BY <2>5, <3>1, RunKept DEF Crash, environment
  <2>6. CASE SaveLedger
    <3>1. report.ledger \in SUBSET Entries
      BY <2>6 DEF SaveLedger, IInv, TypeOK, Reports
    <3>2. RedactLedger(report.ledger) \in SUBSET Entries
      BY <3>1, RedactType
    <3>3. ledgerFile' \in (SUBSET Entries) \cup {None}
      BY <2>6, <3>2 DEF SaveLedger, IInv, TypeOK
    <3>4. TypeOK'
      BY <2>6, <3>3 DEF SaveLedger, IInv, TypeOK, environment
    <3> QED BY <2>6, <3>4, RunKept DEF SaveLedger, environment
  <2>7. CASE Others
    BY <2>7, OthersKeep
  <2>8. CASE UNCHANGED vars
    <3>1. TypeOK'
      BY <2>8 DEF vars, operator, environment, IInv, TypeOK
    <3> QED BY <2>8, <3>1, RunKept DEF vars, operator, environment
  <2> QED
    BY <2>1, <2>2, <2>3, <2>4, <2>5, <2>6, <2>7, <2>8 DEF Next
<1> QED BY <1>1, <1>2, PTL DEF Safety

\* Every variable keeps its type, and a command that is running has its state.
THEOREM TypeCorrect == Safety => []TypeOK
<1>1. IInv => TypeOK
  BY DEF IInv
<1> QED BY <1>1, Inductive, PTL

\* No cluster is changed by a run whose plan was edited after its identifier
\* was computed, names another context than the one confirmed, or whose
\* verify-context step did not succeed.
THEOREM Gated == Safety => []GatedMutation
<1>1. IInv => GatedMutation
  BY DEF IInv, Approved, Armed, GatedMutation, Changed
<1> QED BY <1>1, Inductive, PTL

\* As long as nobody switches the current context during the run, everything
\* the run changes is on the cluster that its plan names.
THEOREM OnVerifiedCluster == Safety => []StaysOnVerifiedCluster
<1>1. IInv => StaysOnVerifiedCluster
  BY DEF IInv, Armed, StaysOnVerifiedCluster, Changed
<1> QED BY <1>1, Inductive, PTL

-----------------------------------------------------------------------------
(* Refinement.                                                              *)

\* An executor step arms the gate, touches through it, closes it, or does
\* nothing that the gate sees.
LEMMA ExecutingIsGated ==
  ASSUME IInv, Executing
  PROVE  [Gate!GatedNext]_Gate!gated
<1>1. CASE Written
  <2>1. PICK S \in SUBSET Refs, new \in ClusterStates :
          /\ S # {} => run.verified
          /\ Continues(S, new) \/ Fails(S, new)
    BY <1>1 DEF Written
  <2>2. phase = "executing" /\ run \in Runs /\ run # None
    BY <1>1, RunningType DEF Written
  <2>3. (\A t \in Touching(S, new) : t.context = current)
          /\ (S = {} => Touching(S, new) = {})
    BY <2>2, TouchingType
  <2>4. run' # None
    BY <2>1, <2>2, ContinuesKeeps, FailsKeeps, NoneAssumption
       DEF NoneAssumption
  <2>5. /\ run'.plan = run.plan /\ run'.verified = run.verified
        /\ run'.touched = run.touched \cup Touching(S, new)
    BY <2>1, <2>2 DEF Continues, Fails, Runs
  <2>6. current' = current /\ phase' \in {"executing", "idle", "stuck"}
    BY <2>1, <2>2 DEF Continues, Fails
  <2> QED
    BY <2>1, <2>2, <2>3, <2>4, <2>5, <2>6
       DEF Gate!GatedNext, Gate!Touch, Gate!Close, Gate!gated, TargetOf
<1>2. CASE Moved
  <2>1. run # None /\ run' # None
    BY <1>2, RunningType, NoneAssumption DEF Moved, NoneAssumption
  <2>2. run.expected = PlanOf(run.plan)
    BY <2>1 DEF IInv, Approved, PlanOf, body
  <2> QED
    BY <1>2, <2>1, <2>2
       DEF Moved, Reads, environment, Runs,
           Gate!GatedNext, Gate!Arm, Gate!gated
<1>3. CASE Finish
  BY <1>3, RunningType
     DEF Finish, environment, Gate!GatedNext, Gate!Close, Gate!gated
<1> QED BY <1>1, <1>2, <1>3, ExecutingForms

\* Nothing else touches a cluster through the gate; admission opens it and a
\* kill closes it.
LEMMA StepIsGated ==
  ASSUME IInv, [Next]_vars
  PROVE  [Gate!GatedNext]_Gate!gated
<1>1. ASSUME run' = run, current' = current,
             \/ phase' = phase
             \/ phase # "executing" /\ phase' # "executing"
      PROVE  UNCHANGED Gate!gated
  BY <1>1 DEF Gate!gated
<1>2. CASE Planning \/ EditPlanFile
  BY <1>1, <1>2
     DEF Planning, PlanChange, PlanRollback, EditPlanFile
<1>3. CASE \/ CaptureStart \/ Capturing \/ CaptureMisread
           \/ RecordFailedBackup
  BY <1>1, <1>3
     DEF CaptureStart, Capturing, CaptureVerify, CaptureRead, CaptureAbort,
         CaptureHangs, CaptureWrite, CaptureMisread, RecordFailedBackup,
         environment
<1>4. CASE Admission
  <2>1. PICK command \in Commands \cup {RollbackCommand}, mode \in Modes,
             expected \in Contexts, confirmed \in BOOLEAN :
               Admit(command, mode, expected, confirmed)
    BY <1>4 DEF Admission
  <2>2. run' # None /\ run'.plan = planFile /\ run'.touched = {}
          /\ run'.verified = FALSE
    <3>1. run' \in Runs
      BY <1>4, AdmissionKeeps, <2>1 DEF IInv, TypeOK, Admit
    <3> QED BY <2>1, <3>1, NoneAssumption DEF Admit, NoneAssumption
  <2> QED
    BY <2>1, <2>2 DEF Admit, Authorised, Gate!GatedNext, Gate!Open, Gate!gated
<1>5. CASE Executing
  BY <1>5, ExecutingIsGated
<1>6. CASE Crash
  BY <1>6 DEF Crash, environment, Gate!GatedNext, Gate!Close, Gate!gated
<1>7. CASE SaveLedger
  BY <1>1, <1>7 DEF SaveLedger, environment
<1>8. CASE Others
  <2>1. run \in Runs \cup {None}
    BY DEF IInv, TypeOK
  <2>2. ASSUME run' = Disturbed(run)
        PROVE  /\ run = None <=> run' = None
               /\ run # None => /\ run'.plan = run.plan
                                /\ run'.verified = run.verified
                                /\ run'.touched = run.touched
    BY <2>1, <2>2, DisturbedType DEF Disturbed, Runs
  <2>3. ASSUME NEW c \in Contexts, SwitchContext(c)
        PROVE  Gate!Move
    <3>1. /\ run = None <=> run' = None
          /\ run # None => /\ run'.plan = run.plan
                           /\ run'.verified = run.verified
                           /\ run'.touched = run.touched
      BY <2>1, <2>3, NoneAssumption DEF SwitchContext, Runs, NoneAssumption
    <3> QED
      BY <2>3, <3>1 DEF SwitchContext, DisturbAll, IInv, TypeOK, Gate!Move
  <2>4. ASSUME run' = Disturbed(run), current' = current, phase' = phase
        PROVE  UNCHANGED Gate!gated
    BY <2>2, <2>4 DEF IInv, TypeOK, Gate!gated
  <2> QED
    BY <1>1, <1>8, <2>3, <2>4
       DEF Others, ForeignWrite, EditSource, EditConfig, DisturbAll, operator,
           Gate!GatedNext
<1>9. CASE UNCHANGED vars
  BY <1>1, <1>9 DEF vars, operator, environment
<1> QED
  BY <1>2, <1>3, <1>4, <1>5, <1>6, <1>7, <1>8, <1>9 DEF Next

\* The workflow implements the gate: it opens only for a plan that is what was
\* approved, touches come only after the context was seen to be the plan's, and
\* go to the cluster that is current at that moment.
THEOREM Refinement == Safety => ImplementsGate
<1>1. Init => Gate!GatedInit
  BY DEF Init, Gate!GatedInit
<1>2. IInv /\ [Next]_vars => [Gate!GatedNext]_Gate!gated
  BY StepIsGated
<1> QED
  BY <1>1, <1>2, Inductive, PTL DEF Safety, ImplementsGate, Gate!GatedSpec

=============================================================================
