------------------------- MODULE RollbackProofs -------------------------
(***************************************************************************)
(* The theorem that a rollback brings back what the run overwrote, for      *)
(* every set of contexts, resources, contents and overlays and every        *)
(* budget.                                                                  *)
(***************************************************************************)
EXTENDS RecoveryProofs

-----------------------------------------------------------------------------
(* The invariant: clusters in which nothing lives nowhere, ledgers and       *)
(* rollback plans that come from runs with a fresh ledger, what is kept of   *)
(* the last change, and how far its rollback is.                            *)

ClustersHoused == \A c \in Contexts : Housed(cluster[c])

OfRecordedRuns(ledger) ==
  ledger # None => \A e \in ledger : e.run.command \in RecordedCommands

UndoesRecorded(b) ==
  b.command = RollbackCommand => b.origin.command \in RecordedCommands

LedgersRecorded ==
  /\ OfRecordedRuns(ledgerFile)
  /\ OfRecordedRuns(report.ledger)
  /\ planFile # None => UndoesRecorded(planFile.body)
  /\ run # None => OfRecordedRuns(run.ledger) /\ UndoesRecorded(body)

\* Resources of a snapshot that live in a Namespace of the snapshot.
SnapshotHoused(resources, found) ==
  \A r \in resources :
    found[r] # Absent /\ Home[r] \in resources => found[Home[r]] # Absent

RunHoused ==
  run # None /\ run.quiet => SnapshotHoused(body.resources, run.snapshot)

AnchorTrue ==
  anchor # None =>
    /\ anchor.expected = anchor.plan.body.context
    /\ anchor.plan.id = anchor.plan.body
    /\ anchor.quiet /\ anchor.plan.body.command \in RecordedCommands =>
         /\ SnapshotHoused(anchor.plan.body.resources, anchor.snapshot)
         /\ \A t \in anchor.touched :
              /\ t.ref \in anchor.plan.body.resources
              /\ t.context = anchor.plan.body.context
              /\ t.old = anchor.snapshot[t.ref]

\* The run undoes the run that anchor keeps, and nobody interferes.
Undoing ==
  /\ run # None /\ Undoes(body)
  /\ anchor.quiet
  /\ run.expected = anchor.expected
  /\ run.ledger = RedactLedger(LedgerFromResources(
       anchor.plan.body.resources, anchor.snapshot, anchor.plan.id))
  /\ body.actions = RollbackActions(ForRun(run.ledger, body.origin))

UndoOrder == Sorted[anchor.plan.body.resources]

\* The resource is as it was before, unless redaction made something else of it.
Settled(r) ==
  anchor.snapshot[r] = Absent \/ Redact[anchor.snapshot[r]] = anchor.snapshot[r]
    => cluster[run.expected][r] = anchor.snapshot[r]

UndoTrue ==
  Undoing =>
    /\ phase = "executing" => ~run.switched
    /\ phase = "executing" \/ report.status = "succeeded" =>
         \A i \in DOMAIN UndoOrder : i + 1 < run.next => Settled(UndoOrder[i])
    /\ report.status = "succeeded" => run.next > Len(UndoOrder) + 1

UInv == /\ ClustersHoused /\ LedgersRecorded /\ RunHoused
        /\ AnchorTrue /\ UndoTrue

-----------------------------------------------------------------------------
(* The rollback plan of a ledger.                                           *)

\* What is left of a fresh ledger in print.
LEMMA PrintedLedger ==
  ASSUME NEW resources \in SUBSET Refs, NEW found \in ClusterStates, NEW id
  PROVE  LET L == RedactLedger(LedgerFromResources(resources, found, id))
         IN  /\ \A e \in L :
                  /\ e.ref \in resources /\ e.run = id
                  /\ e.state = IF found[e.ref] # Absent THEN "updated"
                               ELSE "created"
                  /\ e.before = IF found[e.ref] = Absent THEN Absent
                                ELSE Redact[found[e.ref]]
             /\ \A r \in resources : \E e \in L : e.ref = r
<1> DEFINE F == LedgerFromResources(resources, found, id)
           L == RedactLedger(F)
           Printed(e) == [e EXCEPT !.before = IF @ = Absent THEN Absent
                                            ELSE Redact[@]]
           Fresh(r) == [ref    |-> r,
                        state  |-> IF found[r] # Absent THEN "updated"
                                   ELSE "created",
                        run    |-> id,
                        before |-> found[r]]
<1>1. L = {Printed(e) : e \in F} /\ F = {Fresh(r) : r \in resources}
  BY DEF RedactLedger, LedgerFromResources
<1>2. ASSUME NEW r \in resources
      PROVE  /\ Printed(Fresh(r)).ref = r /\ Printed(Fresh(r)).run = id
             /\ Printed(Fresh(r)).state = IF found[r] # Absent THEN "updated"
                                        ELSE "created"
             /\ Printed(Fresh(r)).before = IF found[r] = Absent THEN Absent
                                         ELSE Redact[found[r]]
  OBVIOUS
<1> HIDE DEF F, L, Printed, Fresh
<1>3. \A e \in L : \E r \in resources : e = Printed(Fresh(r))
  BY <1>1
<1>4. \A r \in resources : Printed(Fresh(r)) \in L
  BY <1>1
<1>5. \A r \in resources : \E e \in L : e.ref = r
  BY <1>2, <1>4
<1>6. ASSUME NEW e \in L
      PROVE  /\ e.ref \in resources /\ e.run = id
             /\ e.state = IF found[e.ref] # Absent THEN "updated"
                          ELSE "created"
             /\ e.before = IF found[e.ref] = Absent THEN Absent
                           ELSE Redact[found[e.ref]]
  BY <1>2, <1>3
<1> QED BY <1>5, <1>6 DEF L, F

\* What is typed of a rollback that undoes the run kept in anchor.
LEMMA UndoTypes ==
  ASSUME IInv, AnchorTrue, Undoing
  PROVE  /\ anchor \in Runs /\ anchor # None /\ run \in Runs /\ run # None
         /\ anchor.plan.body.resources \in SUBSET Refs
         /\ anchor.snapshot \in ClusterStates
         /\ UndoOrder \in Seq(Refs)
         /\ {UndoOrder[i] : i \in DOMAIN UndoOrder}
              = anchor.plan.body.resources
         /\ \A i, j \in DOMAIN UndoOrder : UndoOrder[i] = UndoOrder[j] => i = j
         /\ DOMAIN UndoOrder = 1..Len(UndoOrder) /\ Len(UndoOrder) \in Nat
         /\ body.origin = anchor.plan.id
<1>1. anchor \in Runs /\ anchor # None /\ run \in Runs /\ run # None
  BY DEF Undoing, Undoes, IInv, TypeOK
<1>2. anchor.plan.body \in Bodies /\ anchor.snapshot \in ClusterStates
  BY <1>1 DEF Runs, Plans
<1>3. anchor.plan.body.resources \in SUBSET Refs
  BY <1>2 DEF Bodies, ChangeBodies, RollbackBodies
<1>4. /\ UndoOrder \in Seq(Refs)
      /\ {UndoOrder[i] : i \in DOMAIN UndoOrder}
           = anchor.plan.body.resources
      /\ \A i, j \in DOMAIN UndoOrder : UndoOrder[i] = UndoOrder[j] => i = j
  BY <1>3, PlanAssumption DEF PlanAssumption, UndoOrder
<1>5. DOMAIN UndoOrder = 1..Len(UndoOrder) /\ Len(UndoOrder) \in Nat
  BY <1>4
<1>6. body.origin = anchor.plan.id
  BY <1>1 DEF Undoing, Undoes, AnchorTrue
<1> QED BY <1>1, <1>2, <1>3, <1>4, <1>5, <1>6

\* The actions of the rollback: the verification, and then for every resource
\* in the order of the identities a delete or a restore.
LEMMA UndoList ==
  ASSUME IInv, AnchorTrue, Undoing
  PROVE  /\ DOMAIN body.actions = 1..(Len(UndoOrder) + 1)
         /\ Len(body.actions) = Len(UndoOrder) + 1
         /\ body.actions[1] = VerifyContext
         /\ \A i \in DOMAIN UndoOrder :
              LET a == body.actions[i + 1]
              IN  /\ a.ref = UndoOrder[i]
                  /\ a.kind = IF anchor.snapshot[UndoOrder[i]] = Absent
                              THEN "kubectl-delete-resource"
                              ELSE "kubectl-restore"
<1> DEFINE R == anchor.plan.body.resources
           L == run.ledger
           order == Sorted[{e.ref : e \in L}]
           undo == [i \in DOMAIN order |->
                      UndoAction(CHOOSE e \in L : e.ref = order[i])]
           n == Len(UndoOrder)
<1>1. /\ R \in SUBSET Refs /\ anchor.snapshot \in ClusterStates
      /\ {UndoOrder[i] : i \in DOMAIN UndoOrder} = R
      /\ DOMAIN UndoOrder = 1..n /\ n \in Nat
      /\ body.origin = anchor.plan.id
  BY UndoTypes
<1>2. L = RedactLedger(LedgerFromResources(R, anchor.snapshot,
                                           anchor.plan.id))
  BY DEF Undoing
<1>3. /\ \A e \in L :
           /\ e.ref \in R /\ e.run = anchor.plan.id
           /\ e.state = IF anchor.snapshot[e.ref] # Absent THEN "updated"
                        ELSE "created"
      /\ \A r \in R : \E e \in L : e.ref = r
  BY <1>1, <1>2, PrintedLedger
<1>4. ForRun(L, body.origin) = L
  BY <1>1, <1>3 DEF ForRun
<1>5. {e.ref : e \in L} = R
  BY <1>3
<1>6. body.actions = <<VerifyContext>> \o undo
  <2>1. body.actions = RollbackActions(L)
    BY <1>4 DEF Undoing
  <2> QED BY <2>1 DEF RollbackActions
<1>6a. order = UndoOrder
  BY <1>5 DEF UndoOrder
<1>7. ASSUME NEW i \in DOMAIN UndoOrder
      PROVE  /\ undo[i].ref = UndoOrder[i]
             /\ undo[i].kind = IF anchor.snapshot[UndoOrder[i]] = Absent
                               THEN "kubectl-delete-resource"
                               ELSE "kubectl-restore"
  <2> DEFINE e == CHOOSE x \in L : x.ref = UndoOrder[i]
  <2>1. \E x \in L : x.ref = UndoOrder[i]
    BY <1>1, <1>3
  <2>2. e \in L /\ e.ref = UndoOrder[i]
    BY <2>1
  <2>3. undo[i] = UndoAction(e)
    BY <1>6a
  <2> HIDE DEF e, undo
  <2>4. e.state = IF anchor.snapshot[UndoOrder[i]] # Absent THEN "updated"
                  ELSE "created"
    BY <1>3, <2>2
  <2> QED BY <2>2, <2>3, <2>4 DEF UndoAction, Mutating
<1>8. DOMAIN undo = 1..n
  BY <1>1, <1>6a
<1> HIDE DEF undo
<1> DEFINE U == {VerifyContext} \cup {undo[i] : i \in 1..n}
           v == <<VerifyContext>>
<1>9. undo \in Seq(U) /\ Len(undo) = n
  <2>1. undo = [i \in 1..n |-> undo[i]]
    BY <1>1, <1>6a DEF undo
  <2>2. \A i \in 1..n : undo[i] \in U
    OBVIOUS
  <2> HIDE DEF U
  <2>3. undo \in [1..n -> U]
    BY <2>1, <2>2
  <2>4. undo \in Seq(U)
    BY <1>1, <2>3, SeqDef
  <2> QED BY <1>1, <1>8, <2>4
<1>10. v \in Seq(U) /\ Len(v) = 1 /\ v[1] = VerifyContext
  OBVIOUS
<1> HIDE DEF v, U, n
<1>11. /\ v \o undo \in Seq(U) /\ Len(v \o undo) = Len(v) + Len(undo)
  BY <1>9, <1>10, ConcatProperties
<1>12. \A i \in 1..(Len(v) + Len(undo)) :
          (v \o undo)[i] = IF i <= Len(v) THEN v[i] ELSE undo[i - Len(v)]
  BY <1>9, <1>10, ConcatProperties
<1>13. body.actions = v \o undo
  BY <1>6 DEF v
<1>14. /\ DOMAIN body.actions = 1..(n + 1) /\ Len(body.actions) = n + 1
       /\ body.actions[1] = VerifyContext
  BY <1>1, <1>9, <1>10, <1>11, <1>12, <1>13
<1>15. ASSUME NEW i \in 1..n PROVE body.actions[i + 1] = undo[i]
  <2>1. /\ i + 1 \in 1..(1 + n) /\ ~(i + 1 <= 1) /\ (i + 1) - 1 = i
    BY <1>1
  <2> QED BY <1>9, <1>10, <1>12, <1>13, <2>1
<1> QED BY <1>1, <1>7, <1>14, <1>15 DEF n

-----------------------------------------------------------------------------
(* Steps of others.                                                         *)

\* Whether the steps of Elsewhere leave what a rollback is known for.
LEMMA ElsewhereKeepsUndo ==
  ASSUME IInv, Known, UInv, Elsewhere
  PROVE  AnchorTrue' /\ UndoTrue' /\ RunHoused'
<1>1. SameRun
  BY ElsewhereKeepsRun
<1>2. run # None => body' = body
  BY <1>1 DEF SameRun, body
<1>3. RunHoused'
  BY <1>1, <1>2 DEF SameRun, UInv, RunHoused, SnapshotHoused
<1>4. CASE Others /\ ~(\E c \in Contexts : EditConfig(c))
  <2>1. DisturbAll
    BY <1>4 DEF Others, ForeignWrite, SwitchContext, EditSource
  <2>2. anchor \in Runs \cup {None} /\ anchor' = Disturbed(anchor)
    BY <2>1 DEF DisturbAll, IInv, TypeOK
  <2>3. CASE anchor = None
    BY <2>2, <2>3, <1>3
       DEF Disturbed, AnchorTrue, UndoTrue, Undoing, Undoes
  <2>4. CASE anchor # None
    <3>1. /\ anchor'.expected = anchor.expected
          /\ anchor'.plan = anchor.plan /\ ~anchor'.quiet
      BY <2>2, <2>4 DEF Disturbed, Runs
    <3> QED BY <1>3, <2>4, <3>1 DEF UInv, AnchorTrue, UndoTrue, Undoing
  <2> QED BY <2>3, <2>4
<1>5. CASE ~Others \/ \E c \in Contexts : EditConfig(c)
  <2>1. /\ UNCHANGED <<anchor, run, report, cluster>>
        /\ phase' = "executing" => phase = "executing"
    BY <1>5
       DEF Elsewhere, Planning, PlanChange, PlanRollback, EditPlanFile,
           CaptureStart, Capturing, CaptureVerify, CaptureRead, CaptureAbort,
           CaptureHangs, CaptureWrite, CaptureMisread, RecordFailedBackup,
           Crash, SaveLedger, EditConfig, vars, operator, environment
  <2>2. AnchorTrue'
    BY <2>1 DEF UInv, AnchorTrue, SnapshotHoused
  <2>3. UndoTrue'
    BY <2>1 DEF UInv, UndoTrue, Undoing, Undoes, UndoOrder, Settled, body
  <2> QED BY <1>3, <2>2, <2>3
<1> QED BY <1>4, <1>5

\* Clusters and ledgers under the steps of others.
LEMMA ElsewhereKeepsHomes ==
  ASSUME IInv, UInv, Elsewhere
  PROVE  ClustersHoused' /\ LedgersRecorded'
<1>1. SameRun
  BY ElsewhereKeepsRun
<1>2. run # None => body' = body
  BY <1>1 DEF SameRun, body
<1>3. run' # None => run'.ledger = run.ledger
  <2>1. run \in Runs \cup {None}
    BY DEF IInv, TypeOK
  <2>2. CASE run' = run
    BY <2>2
  <2>3. CASE run' = Disturbed(run)
    BY <2>1, <2>3 DEF Disturbed, Runs
  <2>4. CASE \E c \in Contexts : SwitchContext(c)
    BY <2>1, <2>4 DEF SwitchContext, Runs
  <2> QED
    BY <2>2, <2>3, <2>4
       DEF Elsewhere, Planning, PlanChange, PlanRollback, EditPlanFile,
           CaptureStart, Capturing, CaptureVerify, CaptureRead, CaptureAbort,
           CaptureHangs, CaptureWrite, CaptureMisread, RecordFailedBackup,
           Crash, SaveLedger, Others, ForeignWrite, EditSource, EditConfig, vars,
           operator
<1>4. run' # None => OfRecordedRuns(run'.ledger) /\ UndoesRecorded(body')
  BY <1>1, <1>2, <1>3
     DEF SameRun, UInv, LedgersRecorded
<1>5. ASSUME UNCHANGED <<ledgerFile, report>>,
             planFile' # None => UndoesRecorded(planFile'.body)
      PROVE  LedgersRecorded'
  <2>1. OfRecordedRuns(ledgerFile)' /\ OfRecordedRuns(report.ledger)'
    BY <1>5 DEF UInv, LedgersRecorded, OfRecordedRuns
  <2>2. (planFile # None => UndoesRecorded(planFile.body))'
    BY <1>5 DEF UndoesRecorded
  <2>3. (run # None => OfRecordedRuns(run.ledger) /\ UndoesRecorded(body))'
    BY <1>4 DEF OfRecordedRuns, UndoesRecorded
  <2> QED BY <2>1, <2>2, <2>3 DEF LedgersRecorded
<1>6. CASE Planning \/ EditPlanFile
  <2>1. UNCHANGED <<ledgerFile, report, cluster>>
    BY <1>6 DEF Planning, PlanChange, PlanRollback, EditPlanFile
  <2>2. ASSUME NEW command \in Commands, NEW mode \in Modes,
               NEW tree \in Trees, PlanChange(command, mode, tree)
        PROVE  UndoesRecorded(planFile'.body)
    <3>1. planFile'.body.command = command
      BY <2>2 DEF PlanChange, WithComputedId, ChangeBody
    <3>2. command # RollbackCommand
      BY ControlAssumption
         DEF ControlAssumption, ChangeCommands, RecordedCommands,
             RollbackCommand
    <3> QED BY <3>1, <3>2 DEF UndoesRecorded
  <2>3. ASSUME NEW mode \in Modes, ledgerFile # None, NEW e \in ledgerFile,
               PlanRollback(e.run, mode)
        PROVE  UndoesRecorded(planFile'.body)
    <3>1. planFile'.body.origin = e.run
      BY <2>3 DEF PlanRollback, WithComputedId, RollbackBody
    <3> QED BY <2>3, <3>1
            DEF UndoesRecorded, UInv, LedgersRecorded, OfRecordedRuns
  <2>4. ASSUME EditPlanFile PROVE UndoesRecorded(planFile'.body)
    <3>1. planFile \in Plans /\ planFile # None
      BY <2>4 DEF EditPlanFile, IInv, TypeOK
    <3>2. /\ planFile'.body.command = planFile.body.command
          /\ planFile'.body.origin = planFile.body.origin
      BY <2>4, <3>1
         DEF EditPlanFile, WithComputedId, Plans, Bodies, ChangeBodies,
             RollbackBodies
    <3> QED BY <3>1, <3>2 DEF UndoesRecorded, UInv, LedgersRecorded
  <2>5. UndoesRecorded(planFile'.body)
    BY <1>6, <2>2, <2>3, <2>4 DEF Planning
  <2> QED BY <1>5, <2>1, <2>5 DEF UInv, ClustersHoused
<1>7. CASE SaveLedger
  <2>1. report.ledger \in SUBSET Entries /\ OfRecordedRuns(report.ledger)
    BY <1>7 DEF SaveLedger, IInv, TypeOK, Reports, UInv, LedgersRecorded
  <2>2. report.ledger # None
    BY <1>7 DEF SaveLedger
  <2>3. \A e \in RedactLedger(report.ledger) :
          e.run.command \in RecordedCommands
    BY <2>1, <2>2 DEF RedactLedger, OfRecordedRuns, Entries
  <2>4. OfRecordedRuns(ledgerFile)'
    BY <1>7, <2>3 DEF SaveLedger, OfRecordedRuns, UInv, LedgersRecorded
  <2>5. UNCHANGED <<report, cluster, planFile>>
    BY <1>7 DEF SaveLedger, environment
  <2>6. (OfRecordedRuns(report.ledger) /\
         (planFile # None => UndoesRecorded(planFile.body)))'
    BY <2>5 DEF UInv, LedgersRecorded, OfRecordedRuns, UndoesRecorded
  <2>7. (run # None => OfRecordedRuns(run.ledger) /\ UndoesRecorded(body))'
    BY <1>4 DEF OfRecordedRuns, UndoesRecorded
  <2> QED BY <2>4, <2>5, <2>6, <2>7
          DEF LedgersRecorded, UInv, ClustersHoused
<1>8. CASE Others
  <2>1. UNCHANGED <<ledgerFile, report, planFile>>
    BY <1>8 DEF Others, ForeignWrite, SwitchContext, EditSource, EditConfig,
                DisturbAll, operator
  <2>2. LedgersRecorded'
    BY <1>5, <2>1 DEF UInv, LedgersRecorded
  <2>3. ASSUME NEW c \in Contexts, NEW r \in Refs, NEW m \in Live,
               ForeignWrite(c, r, m)
        PROVE  ClustersHoused'
    <3> DEFINE new == IF m = Absent THEN Removed(cluster[c], {r})
                      ELSE [cluster[c] EXCEPT ![r] = m]
    <3>1. cluster[c] \in ClusterStates /\ Housed(cluster[c])
      BY DEF IInv, TypeOK, UInv, ClustersHoused
    <3>4. Housed(new)
      <4>1. CASE m = Absent
        BY <3>1, <4>1, RemovedHoused
      <4>2. CASE m # Absent
        <5>1. m \in Manifests /\ Home[r] \in Present(cluster[c]) \cup {None}
          BY <2>3, <4>2 DEF ForeignWrite, Live
        <5> QED BY <3>1, <4>2, <5>1, SetHoused
      <4> QED BY <4>1, <4>2
    <3>5. cluster' = [cluster EXCEPT ![c] = new]
      BY <2>3 DEF ForeignWrite
    <3> HIDE DEF new
    <3>6. \A d \in Contexts : cluster'[d] = IF d = c THEN new ELSE cluster[d]
      BY <3>5 DEF IInv, TypeOK
    <3> QED BY <3>4, <3>6 DEF UInv, ClustersHoused, Housed, Present
  <2>4. CASE cluster' = cluster
    BY <2>2, <2>4 DEF UInv, ClustersHoused
  <2> QED BY <1>8, <2>2, <2>3, <2>4
          DEF Others, SwitchContext, EditSource, EditConfig
<1>9. CASE ~(Planning \/ EditPlanFile \/ SaveLedger \/ Others)
  <2>1. UNCHANGED <<ledgerFile, report, planFile, cluster>>
    BY <1>9
       DEF Elsewhere, CaptureStart, Capturing, CaptureVerify, CaptureRead,
           CaptureAbort, CaptureHangs, CaptureWrite, CaptureMisread,
           RecordFailedBackup, Crash, vars, operator, environment
  <2> QED BY <1>5, <2>1 DEF UInv, LedgersRecorded, ClustersHoused
<1> QED BY <1>6, <1>7, <1>8, <1>9

-----------------------------------------------------------------------------
(* Admission and the executor.                                              *)

\* A run starts at the beginning of its list, with the snapshot of a cluster
\* in which nothing lives nowhere.
LEMMA AdmissionKeepsUndo ==
  ASSUME IInv, Known, UInv, Admission
  PROVE  UInv'
<1>1. PICK command \in Commands \cup {RollbackCommand}, mode \in Modes,
           expected \in Contexts, confirmed \in BOOLEAN :
             Admit(command, mode, expected, confirmed)
  BY DEF Admission
<1>2. /\ run'.plan = planFile /\ run'.next = 1 /\ run'.switched = FALSE
      /\ run'.snapshot = snapshotFile.resources /\ run'.ledger = ledgerFile
      /\ run'.quiet => snapshotFile.quiet /\ snapshotFile.of = planFile.body
      /\ UNCHANGED <<cluster, planFile, ledgerFile>>
      /\ report'.status = "none" /\ report'.ledger = None
      /\ snapshotFile # None /\ planFile \in Plans /\ planFile # None
      /\ anchor' = anchor \/ anchor' = Disturbed(anchor)
  BY <1>1 DEF Admit, Authorised, IInv, TypeOK
<1>3. body' = planFile.body
  BY <1>2 DEF body
<1>4. ClustersHoused'
  BY <1>2 DEF UInv, ClustersHoused
<1>5. LedgersRecorded'
  BY <1>2, <1>3 DEF UInv, LedgersRecorded, OfRecordedRuns, UndoesRecorded
<1>6. RunHoused'
  <2> SUFFICES ASSUME run'.quiet
               PROVE  SnapshotHoused(planFile.body.resources,
                                     snapshotFile.resources)
    BY <1>2, <1>3 DEF RunHoused, SnapshotHoused
  <2> DEFINE b == planFile.body
             found == snapshotFile.resources
  <2>1. b \in Bodies /\ Agrees(b, found)
    BY <1>2 DEF Known, SnapshotTrue
  <2>2. /\ b.resources \in SUBSET Refs /\ b.context \in Contexts
    BY <2>1 DEF Bodies, ChangeBodies, RollbackBodies
  <2>3. Housed(cluster[b.context])
    BY <2>2 DEF UInv, ClustersHoused
  <2> SUFFICES ASSUME NEW r \in b.resources, found[r] # Absent,
                      Home[r] \in b.resources
               PROVE  found[Home[r]] # Absent
    BY DEF SnapshotHoused
  <2>4. r \in Present(cluster[b.context])
    BY <2>1, <2>2 DEF Agrees, Present
  <2>5. Home[r] \in Present(cluster[b.context])
    BY <2>2, <2>3, <2>4, KubectlAssumption DEF Housed, KubectlAssumption
  <2> QED BY <2>1, <2>5 DEF Agrees, Present
<1>7. AnchorTrue'
  <2>1. anchor \in Runs \cup {None}
    BY DEF IInv, TypeOK
  <2>2. CASE anchor' = anchor
    BY <2>2 DEF UInv, AnchorTrue, SnapshotHoused
  <2>3. CASE anchor' = Disturbed(anchor)
    <3>1. anchor # None => /\ anchor'.expected = anchor.expected
                           /\ anchor'.plan = anchor.plan /\ ~anchor'.quiet
      BY <2>1, <2>3 DEF Disturbed, Runs
    <3> QED BY <2>3, <3>1 DEF UInv, AnchorTrue, Disturbed
  <2> QED BY <1>2, <2>2, <2>3
<1>8. UndoTrue'
  <2>1. Undoing' => \A i \in DOMAIN UndoOrder' : ~(i + 1 < 1)
    <3> SUFFICES ASSUME Undoing'
                 PROVE  \A i \in DOMAIN UndoOrder' : ~(i + 1 < 1)
      OBVIOUS
    <3>1. anchor' \in Runs
      <4>1. anchor' # None
        BY DEF Undoing, Undoes
      <4> QED BY <1>2, <4>1, DisturbedType DEF IInv, TypeOK
    <3>2. anchor'.plan.body.resources \in SUBSET Refs
      BY <3>1 DEF Runs, Plans, Bodies, ChangeBodies, RollbackBodies
    <3>3. UndoOrder' \in Seq(Refs)
      BY <3>2, PlanAssumption DEF PlanAssumption, UndoOrder
    <3> QED BY <3>3
  <2> QED BY <1>2, <2>1 DEF UndoTrue
<1> QED BY <1>4, <1>5, <1>6, <1>7, <1>8 DEF UInv

\* The executor keeps clusters housed.
LEMMA ExecutingKeepsHomes ==
  ASSUME IInv, UInv, Executing
  PROVE  ClustersHoused'
<1>1. ASSUME NEW S \in SUBSET Refs, NEW new \in ClusterStates,
             Wrote(S, new), Writes(S, new)
      PROVE  ClustersHoused'
  <2>1. current \in Contexts /\ cluster \in [Contexts -> ClusterStates]
    BY DEF IInv, TypeOK
  <2>2. Housed(new)
    BY <1>1, <2>1 DEF Wrote, UInv, ClustersHoused, here
  <2>3. \A c \in Contexts :
          cluster'[c] = IF c = current THEN new ELSE cluster[c]
    BY <1>1, <2>1 DEF Writes
  <2> QED BY <2>2, <2>3 DEF UInv, ClustersHoused
<1>2. CASE cluster' = cluster
  BY <1>2 DEF UInv, ClustersHoused
<1> QED BY <1>1, <1>2, StepForms
        DEF FailedStep, PassedStep, ReadStep, Reads, environment, Finish,
            Fails, Continues

\* What every executor step keeps of the run.
LEMMA ExecutingKeepsRun ==
  ASSUME IInv, Executing
  PROVE  /\ run' # None /\ run # None /\ body' = body
         /\ phase = "executing"
         /\ run'.plan = run.plan /\ run'.snapshot = run.snapshot
         /\ run'.ledger = run.ledger /\ run'.expected = run.expected
         /\ run'.quiet = run.quiet /\ run'.switched = run.switched
         /\ UNCHANGED <<planFile, ledgerFile>>
         /\ anchor' = anchor \/ (Finish /\ anchor' = run)
         /\ \/ /\ FailedStep
               /\ report'.status \in {"failed", "none"}
               /\ report'.ledger = None
            \/ PassedStep /\ report' = report
            \/ ReadStep /\ report' = report
            \/ Finish
<1>1. CASE FailedStep
  <2>1. Remaining
    BY <1>1 DEF FailedStep
  <2>2. PICK S \in SUBSET Refs, new \in ClusterStates :
          Wrote(S, new) /\ Fails(S, new)
    BY <1>1 DEF FailedStep
  <2>3. /\ anchor' = anchor /\ report'.status \in {"failed", "none"}
        /\ report'.ledger = None /\ UNCHANGED <<planFile, ledgerFile>>
    BY <2>2 DEF Fails
  <2> QED BY <1>1, <2>1, <2>2, <2>3, RunAfter, StepIsListed
<1>2. CASE PassedStep
  <2>1. Remaining
    BY <1>2 DEF PassedStep
  <2>2. PICK S \in SUBSET Refs, new \in ClusterStates :
          Wrote(S, new) /\ Continues(S, new)
    BY <1>2 DEF PassedStep
  <2>3. UNCHANGED <<planFile, ledgerFile, anchor, report>>
    BY <2>2 DEF Continues
  <2> QED BY <1>2, <2>1, <2>2, <2>3, RunAfter, StepIsListed
<1>3. CASE ReadStep
  <2>1. Remaining /\ run' # None
    BY <1>3, NoneAssumption DEF ReadStep, NoneAssumption
  <2> QED BY <1>3, <2>1, StepIsListed DEF ReadStep, Reads, body
<1>4. CASE Finish
  <2>1. phase = "executing" /\ run' = run
        /\ UNCHANGED <<planFile, ledgerFile>>
        /\ anchor' \in {anchor, run}
    BY <1>4 DEF Finish
  <2> QED BY <1>4, <2>1, RunningType DEF body
<1> QED BY <1>1, <1>2, <1>3, <1>4, StepForms

\* The ledgers of runs.
LEMMA ExecutingKeepsLedgers ==
  ASSUME IInv, UInv, Executing
  PROVE  LedgersRecorded' /\ RunHoused'
<1>1. /\ run' # None /\ run # None /\ body' = body
      /\ run'.plan = run.plan /\ run'.snapshot = run.snapshot
      /\ run'.ledger = run.ledger /\ run'.quiet = run.quiet
      /\ UNCHANGED <<planFile, ledgerFile>>
      /\ report'.ledger = None \/ report' = report \/ Finish
  BY ExecutingKeepsRun
<1>2. RunHoused'
  BY <1>1 DEF UInv, RunHoused, SnapshotHoused
<1>3. OfRecordedRuns(report'.ledger)
  <2>1. CASE report'.ledger = None \/ report' = report
    BY <2>1 DEF OfRecordedRuns, UInv, LedgersRecorded
  <2>2. CASE Finish
    <3>1. report'.ledger = ReportedLedger
      BY <2>2 DEF Finish
    <3>2. CASE body.command \in RecordedCommands
      <4>1. run.plan.id = body
        BY <2>2, RunningType DEF Finish
      <4>2. \A e \in ReportedLedger : e.run = body
        BY <3>2, <4>1 DEF ReportedLedger, LedgerFromResources
      <4> QED BY <3>1, <3>2, <4>2 DEF OfRecordedRuns
    <3>3. CASE body.command \notin RecordedCommands
      BY <1>1, <3>1, <3>3
         DEF ReportedLedger, OfRecordedRuns, UInv, LedgersRecorded
    <3> QED BY <3>2, <3>3
  <2> QED BY <1>1, <2>1, <2>2
<1>4. (OfRecordedRuns(ledgerFile) /\
       (planFile # None => UndoesRecorded(planFile.body)))'
  BY <1>1 DEF UInv, LedgersRecorded, OfRecordedRuns, UndoesRecorded
<1>5. (run # None => OfRecordedRuns(run.ledger) /\ UndoesRecorded(body))'
  BY <1>1 DEF UInv, LedgersRecorded, OfRecordedRuns, UndoesRecorded
<1>6. OfRecordedRuns(report.ledger)'
  BY <1>3 DEF OfRecordedRuns
<1> QED BY <1>2, <1>4, <1>5, <1>6 DEF LedgersRecorded

\* What is kept of a run that ends.
LEMMA ExecutingKeepsAnchor ==
  ASSUME IInv, Known, UInv, Executing
  PROVE  AnchorTrue'
<1>1. CASE anchor' = anchor
  BY <1>1 DEF UInv, AnchorTrue, SnapshotHoused
<1>2. CASE Finish /\ anchor' = run
  <2>1. /\ run # None /\ run \in Runs /\ body = run.plan.body
        /\ run.expected = body.context /\ run.plan.id = body
    BY <1>2, RunningType DEF Finish, IInv, Approved, body
  <2>2. ASSUME run.quiet, body.command \in RecordedCommands
        PROVE  /\ SnapshotHoused(body.resources, run.snapshot)
               /\ \A t \in run.touched : Covered(t)
    BY <2>1, <2>2 DEF UInv, RunHoused, Known, RunTrue
  <2> QED BY <1>2, <2>1, <2>2 DEF AnchorTrue, SnapshotHoused, Covered
<1> QED BY <1>1, <1>2, ExecutingKeepsRun

\* The steps of a rollback that pass.
LEMMA UndoSteps ==
  ASSUME IInv, UInv, Undoing, Remaining, Executing
  PROVE  FailedStep \/ Verify \/ DeleteResource \/ Restore
<1>1. /\ run.next \in DOMAIN body.actions
      /\ Step = body.actions[run.next]
      /\ DOMAIN body.actions \subseteq Nat \ {0}
  BY StepIsListed
<1>2. /\ DOMAIN body.actions = 1..(Len(UndoOrder) + 1)
      /\ body.actions[1] = VerifyContext
      /\ \A i \in DOMAIN UndoOrder :
           body.actions[i + 1].kind \in {"kubectl-delete-resource",
                                         "kubectl-restore"}
      /\ DOMAIN UndoOrder = 1..Len(UndoOrder) /\ Len(UndoOrder) \in Nat
  BY UndoList, UndoTypes DEF UInv
<1>3. Step.kind \in UndoKinds
  <2>1. CASE run.next = 1
    BY <1>1, <1>2, <2>1 DEF VerifyContext, Reading, UndoKinds
  <2>2. CASE run.next # 1
    <3>1. run.next - 1 \in DOMAIN UndoOrder /\ (run.next - 1) + 1 = run.next
      BY <1>1, <1>2, <2>2
    <3>2. body.actions[(run.next - 1) + 1].kind
            \in {"kubectl-delete-resource", "kubectl-restore"}
      BY <1>2, <3>1
    <3> QED BY <1>1, <3>1, <3>2 DEF UndoKinds
  <2> QED BY <2>1, <2>2
<1>4. ASSUME NEW S \in SUBSET Refs, NEW new \in ClusterStates, Fails(S, new)
      PROVE  FailedStep
  <2>1. ~ReadStep
    BY <1>4, StepIsListed
       DEF Fails, ReadStep, Reads
  <2>2. ~PassedStep
    BY <1>4, StepIsListed DEF Fails, PassedStep, Continues
  <2>3. ~Finish
    BY <1>4 DEF Fails, Finish
  <2> QED BY <2>1, <2>2, <2>3, StepForms
<1>5. here \in ClusterStates
  BY <1>1, StepIsListed, RunningType
<1>6. CASE RefuseUnverified
  BY <1>4, <1>5, <1>6 DEF RefuseUnverified
<1>7. CASE ReadFails
  BY <1>4, <1>5, <1>7 DEF ReadFails
<1>8. CASE DeleteResourceFails
  <2>1. PICK D \in SUBSET ({Step.ref} \cap Present(here)) :
          LET S == WithContents(D) \cap Present(here)
          IN  Fails(S, Removed(here, S))
    BY <1>8 DEF DeleteResourceFails
  <2> DEFINE S == WithContents(D) \cap Present(here)
  <2>2. S \in SUBSET Refs /\ Removed(here, S) \in ClusterStates
    BY <1>5, KubectlType DEF Present
  <2>3. Fails(S, Removed(here, S))
    BY <2>1
  <2> HIDE DEF S
  <2> QED BY <1>4, <2>2, <2>3
<1>9. CASE RestoreFails
  <2>1. CASE Fails({}, here)
    BY <1>4, <1>5, <2>1
  <2>2. CASE \E e \in RestoreEntries :
               Fails({Step.ref}, [here EXCEPT ![Step.ref] = e.before])
    <3>1. PICK e \in RestoreEntries :
            Fails({Step.ref}, [here EXCEPT ![Step.ref] = e.before])
      BY <2>2
    <3>2. run.ledger \in (SUBSET Entries) \cup {None}
      BY StepIsListed DEF Runs
    <3>3. Step.ref \in Refs /\ e.before \in Live
      BY <3>2 DEF RestoreEntries, Entries
    <3> DEFINE new == [here EXCEPT ![Step.ref] = e.before]
    <3>4. new \in ClusterStates /\ {Step.ref} \in SUBSET Refs
      BY <1>5, <3>3 DEF ClusterStates
    <3>5. Fails({Step.ref}, new)
      BY <3>1
    <3> HIDE DEF new
    <3> QED BY <1>4, <3>4, <3>5
  <2> QED BY <1>9, <2>1, <2>2 DEF RestoreFails
<1>10. ~Finish
  <2>1. Len(body.actions) = Len(UndoOrder) + 1 /\ run.next \in Nat
    BY <1>1, UndoList DEF UInv
  <2> QED BY <1>1, <1>2, <2>1 DEF Finish
<1>11. ASSUME NEW kind, At(kind) PROVE kind \in UndoKinds
  BY <1>3, <1>11 DEF At
<1> QED
  BY <1>6, <1>7, <1>8, <1>9, <1>10, <1>11
     DEF Executing, UndoKinds, Diff, ReadIngress, Apply, ApplyFails,
         ApplyDry, ApplyDryFails, Delete, DeleteFails, PollReady, PollAgain,
         PollFails

\* Where a rollback is, and what the action at hand is for.
LEMMA UndoPlace ==
  ASSUME IInv, UInv, Undoing, Remaining, Step.kind # "verify-context"
  PROVE  /\ run.next - 1 \in DOMAIN UndoOrder
         /\ Step.ref = UndoOrder[run.next - 1]
         /\ Step.kind = IF anchor.snapshot[Step.ref] = Absent
                        THEN "kubectl-delete-resource"
                        ELSE "kubectl-restore"
         /\ Step.mutating
<1>1. /\ run.next \in DOMAIN body.actions
      /\ Step = body.actions[run.next]
      /\ DOMAIN body.actions \subseteq Nat \ {0}
  BY StepIsListed
<1>2. /\ DOMAIN body.actions = 1..(Len(UndoOrder) + 1)
      /\ body.actions[1] = VerifyContext
      /\ \A i \in DOMAIN UndoOrder :
           LET a == body.actions[i + 1]
           IN  /\ a.ref = UndoOrder[i]
               /\ a.kind = IF anchor.snapshot[UndoOrder[i]] = Absent
                           THEN "kubectl-delete-resource"
                           ELSE "kubectl-restore"
      /\ DOMAIN UndoOrder = 1..Len(UndoOrder) /\ Len(UndoOrder) \in Nat
  BY UndoList, UndoTypes DEF UInv
<1>3. run.next # 1
  BY <1>1, <1>2 DEF VerifyContext, Reading
<1> DEFINE i == run.next - 1
<1>4. i \in DOMAIN UndoOrder /\ i + 1 = run.next
  BY <1>1, <1>2, <1>3
<1> HIDE DEF i
<1>5. /\ Step.ref = UndoOrder[i]
      /\ Step.kind = IF anchor.snapshot[UndoOrder[i]] = Absent
                     THEN "kubectl-delete-resource" ELSE "kubectl-restore"
  BY <1>1, <1>2, <1>4
<1>6. Step.mutating
  BY <1>5, StepType DEF WriteKinds
<1> QED BY <1>4, <1>5, <1>6 DEF i

\* A rollback that goes on has settled one resource more.
LEMMA UndoGoesOn ==
  ASSUME IInv, Known, UInv, Undoing, Remaining,
         Verify \/ DeleteResource \/ Restore
  PROVE  \A i \in DOMAIN UndoOrder :
           i + 1 < run.next + 1 =>
             (anchor.snapshot[UndoOrder[i]] = Absent \/
              Redact[anchor.snapshot[UndoOrder[i]]]
                = anchor.snapshot[UndoOrder[i]]
                => cluster'[run.expected][UndoOrder[i]]
                     = anchor.snapshot[UndoOrder[i]])
<1> DEFINE R == anchor.plan.body.resources
           before == anchor.snapshot
           n == Len(UndoOrder)
<1>1. /\ R \in SUBSET Refs /\ before \in ClusterStates
      /\ UndoOrder \in Seq(Refs)
      /\ {UndoOrder[i] : i \in DOMAIN UndoOrder} = R
      /\ \A i, j \in DOMAIN UndoOrder : UndoOrder[i] = UndoOrder[j] => i = j
      /\ DOMAIN UndoOrder = 1..n /\ n \in Nat
      /\ anchor \in Runs /\ anchor # None /\ run \in Runs /\ run # None
      /\ body.origin = anchor.plan.id
  BY UndoTypes DEF UInv
<1>2. /\ phase = "executing" /\ run.next \in Nat \ {0}
      /\ here \in ClusterStates /\ current \in Contexts
      /\ cluster \in [Contexts -> ClusterStates]
  BY <1>1, RunningType DEF Remaining, Runs, IInv, TypeOK
<1>3. \A i \in DOMAIN UndoOrder :
        i + 1 < run.next => Settled(UndoOrder[i])
  BY <1>2 DEF UInv, UndoTrue
<1>4. CASE Verify
  <2>1. cluster' = cluster /\ Step.kind = "verify-context"
    BY <1>4 DEF Verify, Reads, environment, At
  <2>2. run.next = 1
    <3>1. /\ run.next \in DOMAIN body.actions
          /\ Step = body.actions[run.next]
      BY StepIsListed
    <3>2. /\ \A i \in 1..n :
               body.actions[i + 1].kind \in {"kubectl-delete-resource",
                                             "kubectl-restore"}
          /\ DOMAIN body.actions = 1..(n + 1)
      BY <1>1, UndoList DEF UInv
    <3>3. SUFFICES ASSUME run.next # 1 PROVE FALSE
      OBVIOUS
    <3>4. run.next - 1 \in 1..n /\ (run.next - 1) + 1 = run.next
      BY <1>1, <1>2, <3>1, <3>2, <3>3
    <3>5. body.actions[(run.next - 1) + 1].kind
            \in {"kubectl-delete-resource", "kubectl-restore"}
      BY <3>2, <3>4
    <3> QED BY <2>1, <3>1, <3>4, <3>5
  <2> QED BY <1>1, <2>2
<1> DEFINE k == run.next - 1
           ref == Step.ref
<1>5. ASSUME NEW S \in SUBSET Refs, NEW new \in ClusterStates,
             Continues(S, new), Step.mutating => run.verified,
             Step.kind # "verify-context",
             before[ref] = Absent \/ Redact[before[ref]] = before[ref]
               => new[ref] = before[ref],
             \A r \in R : r # ref =>
               \/ new[r] = here[r]
               \/ new[r] = Absent /\ before[r] = Absent
      PROVE  \A i \in DOMAIN UndoOrder :
               i + 1 < run.next + 1 =>
                 (before[UndoOrder[i]] = Absent \/
                  Redact[before[UndoOrder[i]]] = before[UndoOrder[i]]
                    => cluster'[run.expected][UndoOrder[i]]
                         = before[UndoOrder[i]])
  <2>1. k \in DOMAIN UndoOrder /\ ref = UndoOrder[k] /\ run.verified
    BY <1>5, UndoPlace
  <2>2. ~run.switched /\ current = run.expected
    BY <1>1, <1>2, <2>1 DEF UInv, UndoTrue, IInv, Armed, Approved
  <2>3. cluster'[run.expected] = new
    BY <1>2, <1>5, <2>2 DEF Continues, Writes
  <2>4. ASSUME NEW i \in DOMAIN UndoOrder, i + 1 < run.next + 1,
               \/ before[UndoOrder[i]] = Absent
               \/ Redact[before[UndoOrder[i]]] = before[UndoOrder[i]]
        PROVE  new[UndoOrder[i]] = before[UndoOrder[i]]
    <3>1. CASE i = k
      BY <1>5, <2>1, <2>4, <3>1
    <3>2. CASE i # k
      <4>1. i + 1 < run.next
        BY <1>1, <1>2, <2>4, <3>2
      <4>2. cluster[run.expected][UndoOrder[i]] = before[UndoOrder[i]]
        BY <1>3, <2>4, <4>1 DEF Settled
      <4>3. here[UndoOrder[i]] = before[UndoOrder[i]]
        BY <2>2, <4>2 DEF here
      <4>4. UndoOrder[i] \in R /\ UndoOrder[i] # ref
        BY <1>1, <2>1, <3>2
      <4> HIDE DEF ref, k, before, R
      <4>5. \/ new[UndoOrder[i]] = here[UndoOrder[i]]
            \/ new[UndoOrder[i]] = Absent /\ before[UndoOrder[i]] = Absent
        BY <1>5, <4>4
      <4> QED BY <4>3, <4>5
    <3> QED BY <3>1, <3>2
  <2> HIDE DEF before
  <2> QED BY <2>3, <2>4
<1>6. CASE DeleteResource
  <2> DEFINE S == WithContents({ref}) \cap Present(here)
             new == Removed(here, S)
  <2>1. /\ Continues(S, new) /\ Step.kind = "kubectl-delete-resource"
        /\ Step.mutating => run.verified
        /\ ref \in Present(here)
    BY <1>6 DEF DeleteResource, At
  <2>2. ref \in Refs
    BY <2>1 DEF Present
  <2>3. /\ S \in SUBSET Refs /\ new \in ClusterStates
        /\ \A r \in Refs \ S : new[r] = here[r]
    BY <1>2, <2>2, RemovedKeeps
  <2>4. before[ref] = Absent
    BY <2>1, UndoPlace
  <2>5. \A r \in S : new[r] = Absent
    BY <2>3 DEF Removed, WithContents
  <2>6. new[ref] = Absent
    BY <2>1, <2>5 DEF WithContents
  <2>7. ASSUME NEW r \in R, r # ref
        PROVE  \/ new[r] = here[r]
               \/ new[r] = Absent /\ before[r] = Absent
    <3>1. CASE r \notin S
      BY <1>1, <2>3, <3>1
    <3>2. CASE r \in S
      <4>1. Home[r] = ref
        BY <2>7, <3>2 DEF WithContents
      <4>2. ref \in R
        BY <1>1, <2>1, UndoPlace
      <4>3. anchor.plan.body.command \in RecordedCommands
        BY <1>1
           DEF UInv, LedgersRecorded, UndoesRecorded, Undoing, Undoes
      <4>4. SnapshotHoused(R, before)
        BY <1>1, <4>3 DEF UInv, AnchorTrue, Undoing
      <4>5. before[r] = Absent
        BY <2>4, <2>7, <4>1, <4>2, <4>4 DEF SnapshotHoused
      <4> QED BY <2>5, <3>2, <4>5
    <3> QED BY <3>1, <3>2
  <2> HIDE DEF S, new
  <2> QED BY <1>5, <2>1, <2>3, <2>4, <2>6, <2>7
<1>7. CASE Restore
  <2>1. /\ Step.kind = "kubectl-restore"
        /\ Step.mutating => run.verified
    BY <1>7 DEF Restore, At
  <2>2. PICK e \in RestoreEntries :
          Continues({ref}, [here EXCEPT ![ref] = e.before])
    BY <1>7 DEF Restore
  <2>3. before[ref] # Absent /\ ref \in R
    <3>1. Step.kind # "verify-context"
      BY <2>1
    <3>2. /\ k \in DOMAIN UndoOrder /\ ref = UndoOrder[k]
          /\ Step.kind = IF before[ref] = Absent
                         THEN "kubectl-delete-resource"
                         ELSE "kubectl-restore"
      BY <3>1, UndoPlace
    <3>3. ref \in R
      BY <1>1, <3>2
    <3>4. before[ref] # Absent
      BY <2>1, <3>2
    <3> QED BY <3>3, <3>4
  <2>4. e \in run.ledger /\ e.ref = ref
    BY <2>2 DEF RestoreEntries
  <2>5. e.before = Redact[before[ref]] /\ e.before \in Live
    <3>1. run.ledger = RedactLedger(LedgerFromResources(R, before,
                                                        anchor.plan.id))
      BY DEF Undoing
    <3>2. e.before = IF before[e.ref] = Absent THEN Absent
                     ELSE Redact[before[e.ref]]
      BY <1>1, <2>4, <3>1, PrintedLedger
    <3>3. before[ref] \in Manifests
      BY <1>1, <2>3 DEF ClusterStates, Live
    <3> QED BY <2>3, <2>4, <3>2, <3>3, PlanAssumption
            DEF PlanAssumption, Live
  <2> DEFINE new == [here EXCEPT ![ref] = e.before]
  <2>6. ref \in Refs
    BY <1>1, <2>3
  <2>7. /\ new \in ClusterStates /\ new[ref] = e.before
        /\ \A r \in Refs : r # ref => new[r] = here[r]
    BY <1>2, <2>5, <2>6 DEF ClusterStates
  <2>8. Continues({ref}, new)
    BY <2>2
  <2>9. before[ref] = Absent \/ Redact[before[ref]] = before[ref]
          => new[ref] = before[ref]
    BY <2>3, <2>5, <2>7
  <2>10. \A r \in R : r # ref =>
           \/ new[r] = here[r]
           \/ new[r] = Absent /\ before[r] = Absent
    BY <1>1, <2>7
  <2>11. Step.kind # "verify-context"
    BY <2>1
  <2> DEFINE S == {ref}
  <2>12. S \in SUBSET Refs /\ new \in ClusterStates /\ Continues(S, new)
    BY <2>6, <2>7, <2>8
  <2>13. Step.mutating => run.verified
    BY <2>1
  <2> HIDE DEF S, new
  <2> QED BY <1>5, <2>9, <2>10, <2>11, <2>12, <2>13
<1> QED BY <1>4, <1>6, <1>7

\* Steps of the executor keep the rollback on its way.
LEMMA ExecutingKeepsUndo ==
  ASSUME IInv, Known, UInv, Executing
  PROVE  UndoTrue'
<1>1. /\ run' # None /\ run # None /\ body' = body
      /\ phase = "executing"
      /\ run'.ledger = run.ledger /\ run'.expected = run.expected
      /\ run'.switched = run.switched
      /\ anchor' = anchor \/ (Finish /\ anchor' = run)
  BY ExecutingKeepsRun
<1> SUFFICES ASSUME Undoing'
             PROVE  /\ phase' = "executing" => ~run'.switched
                    /\ phase' = "executing" \/ report'.status = "succeeded" =>
                         \A i \in DOMAIN UndoOrder' :
                           i + 1 < run'.next => Settled(UndoOrder[i])'
                    /\ report'.status = "succeeded" =>
                         run'.next > Len(UndoOrder') + 1
  BY DEF UndoTrue
<1>2. anchor' = anchor
  <2>1. body.command = RollbackCommand
    BY <1>1 DEF Undoing, Undoes
  <2> QED BY <1>1, <2>1 DEF Finish
<1>3. Undoing /\ UndoOrder' = UndoOrder
  BY <1>1, <1>2 DEF Undoing, Undoes, UndoOrder
<1>4. ~run'.switched
  BY <1>1, <1>3 DEF UInv, UndoTrue
<1>5. report.status # "succeeded"
  BY <1>1 DEF Known, LedgerTrue
<1>6. CASE Remaining
  <2>1. FailedStep \/ Verify \/ DeleteResource \/ Restore
    BY <1>3, <1>6, UndoSteps
  <2>2. CASE FailedStep
    <3>1. report'.status \in {"failed", "none"} /\ phase' \in {"idle", "stuck"}
      BY <2>2 DEF FailedStep, Fails
    <3> QED BY <3>1
  <2>3. CASE Verify \/ DeleteResource \/ Restore
    <3>1. run'.next = run.next + 1 /\ report' = report
      <4>1. run \in Runs
        BY <1>1 DEF IInv, TypeOK
      <4> QED BY <2>3, <4>1
              DEF Verify, DeleteResource, Restore, Continues, Reads, Runs
    <3>2. \A i \in DOMAIN UndoOrder :
            i + 1 < run.next + 1 =>
              (anchor.snapshot[UndoOrder[i]] = Absent \/
               Redact[anchor.snapshot[UndoOrder[i]]]
                 = anchor.snapshot[UndoOrder[i]]
                 => cluster'[run.expected][UndoOrder[i]]
                      = anchor.snapshot[UndoOrder[i]])
      BY <1>3, <1>6, <2>3, UndoGoesOn
    <3>3. \A i \in DOMAIN UndoOrder :
            i + 1 < run'.next => Settled(UndoOrder[i])'
      BY <1>1, <1>2, <1>3, <3>1, <3>2 DEF Settled
    <3> QED BY <1>3, <1>4, <1>5, <3>1, <3>3
  <2> QED BY <2>1, <2>2, <2>3
<1>7. CASE ~Remaining
  <2>1. Finish
    BY <1>7, StepForms DEF FailedStep, PassedStep, ReadStep
  <2>2. run' = run /\ cluster' = cluster
    BY <2>1 DEF Finish, environment
  <2>3. run.next > Len(UndoOrder) + 1
    <3>1. Len(body.actions) = Len(UndoOrder) + 1
      BY <1>3, UndoList DEF UInv
    <3> QED BY <2>1, <3>1 DEF Finish
  <2>4. \A i \in DOMAIN UndoOrder : i + 1 < run.next => Settled(UndoOrder[i])
    BY <1>1, <1>3 DEF UInv, UndoTrue
  <2>5. \A i \in DOMAIN UndoOrder : Settled(UndoOrder[i])' <=>
                                    Settled(UndoOrder[i])
    BY <1>2, <1>3, <2>2 DEF Settled
  <2> QED BY <1>3, <1>4, <2>2, <2>3, <2>4, <2>5
<1> QED BY <1>6, <1>7

-----------------------------------------------------------------------------
(* The theorem.                                                             *)

LEMMA UndoIsKept == Safety => []UInv
<1>1. Init => UInv
  <2> SUFFICES ASSUME Init PROVE UInv
    OBVIOUS
  <2>1. ClustersHoused
    BY ControlAssumption DEF Init, ControlAssumption, ClustersHoused
  <2> QED BY <2>1
          DEF Init, UInv, LedgersRecorded, OfRecordedRuns, RunHoused,
              AnchorTrue, UndoTrue, Undoing
<1>2. IInv /\ Known /\ UInv /\ [Next]_vars => UInv'
  <2> SUFFICES ASSUME IInv, Known, UInv, [Next]_vars PROVE UInv'
    OBVIOUS
  <2>1. CASE Elsewhere
    BY <2>1, ElsewhereKeepsUndo, ElsewhereKeepsHomes DEF UInv
  <2>2. CASE Admission
    BY <2>2, AdmissionKeepsUndo
  <2>3. CASE Executing
    BY <2>3, ExecutingKeepsHomes, ExecutingKeepsLedgers,
       ExecutingKeepsAnchor, ExecutingKeepsUndo DEF UInv
  <2> QED BY <2>1, <2>2, <2>3 DEF Next, Elsewhere
<1> QED BY <1>1, <1>2, Inductive, KnownIsKept, PTL DEF Safety

\* If nobody interferes from the start of the capture to the end of a
\* successful rollback, what the run overwrote is back to what it was, save
\* what redaction has made of it.
THEOREM RollbackWorks == Safety => []RollbackRestores
<1>1. ASSUME IInv, UInv PROVE RollbackRestores
  <2> SUFFICES ASSUME RolledBack, anchor.quiet, NEW t \in anchor.touched,
                      t.old = Absent \/ Redact[t.old] = t.old
               PROVE  cluster[t.context][t.ref] = t.old
    BY DEF RollbackRestores
  <2>1. Undoing /\ report.status = "succeeded"
    BY DEF RolledBack, Undoing
  <2>2. /\ run # None /\ anchor # None
        /\ {UndoOrder[i] : i \in DOMAIN UndoOrder}
             = anchor.plan.body.resources
        /\ DOMAIN UndoOrder = 1..Len(UndoOrder) /\ Len(UndoOrder) \in Nat
        /\ run \in Runs
    BY <1>1, <2>1, UndoTypes DEF UInv
  <2>3. anchor.plan.body.command \in RecordedCommands
    BY <1>1, <2>1, <2>2
       DEF UInv, LedgersRecorded, UndoesRecorded, Undoing, Undoes
  <2>4. /\ t.ref \in anchor.plan.body.resources
        /\ t.context = run.expected
        /\ t.old = anchor.snapshot[t.ref]
    BY <1>1, <2>1, <2>2, <2>3 DEF UInv, AnchorTrue, Undoing
  <2>5. PICK i \in DOMAIN UndoOrder : UndoOrder[i] = t.ref
    BY <2>2, <2>4
  <2>6. i + 1 < run.next
    <3>1. run.next > Len(UndoOrder) + 1 /\ run.next \in Nat
      BY <1>1, <2>1, <2>2 DEF UInv, UndoTrue, Runs
    <3> QED BY <2>2, <3>1
  <2>7. Settled(t.ref)
    BY <1>1, <2>1, <2>5, <2>6 DEF UInv, UndoTrue
  <2> QED BY <2>4, <2>7 DEF Settled
<1>2. IInv /\ UInv => RollbackRestores
  BY <1>1
<1> QED BY <1>2, Inductive, UndoIsKept, PTL

=============================================================================
