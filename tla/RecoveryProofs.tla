------------------------- MODULE RecoveryProofs -------------------------
(***************************************************************************)
(* More theorems about ChangeControl, for every set of contexts, resources, *)
(* contents and overlays and every budget: what planned action lists        *)
(* guarantee however the plan file was edited, and what the snapshot and    *)
(* the ledger say of a run that nobody disturbed.                           *)
(***************************************************************************)
EXTENDS ChangeControlProofs

-----------------------------------------------------------------------------
(* The shape of planned action lists.                                       *)

Cleanups == {"cutover apply", "destroy apply"}

WritesAt(b, i) == b.actions[i].kind \in WriteKinds

\* A cutover or cleanup reads the ingress before it writes.
ReadsIngressFirst(b) ==
  b.command \in Cleanups =>
    \A i \in DOMAIN b.actions :
      WritesAt(b, i) =>
        \E j \in DOMAIN b.actions :
          j < i /\ b.actions[j].kind = "read-ingress-state"

\* The context is verified by the first action, and by no other.
VerifiesFirst(b) ==
  \A i \in DOMAIN b.actions : b.actions[i].kind = "verify-context" => i = 1

NeverVerifies(b) ==
  \A i \in DOMAIN b.actions : b.actions[i].kind # "verify-context"

\* A plan whose run has a fresh ledger writes once, with kubectl apply.
AppliesOnce(b) ==
  b.command \in RecordedCommands =>
    \E w \in DOMAIN b.actions :
      /\ b.actions[w].kind = "kubectl-apply"
      /\ \A i \in DOMAIN b.actions : WritesAt(b, i) => i = w

\* It does so in the mode of the plan.
KeepsMode(b) ==
  b.command \in RecordedCommands =>
    \A i \in DOMAIN b.actions :
      WritesAt(b, i) => (b.actions[i].dryRun <=> b.mode = DryRun)

\* What the identifier of a plan file stands for: a list as it was planned, or
\* one without its verification.
AsPlanned(b) ==
  /\ ReadsIngressFirst(b)
  /\ VerifiesFirst(b)
  /\ AppliesOnce(b)
  /\ NeverVerifies(b) \/ KeepsMode(b)

Reviewed(plan) ==
  /\ AsPlanned(plan.id)
  /\ plan.body.actions = plan.id.actions
  /\ plan.body.command = plan.id.command

\* Polling actions have the kind "poll".
LEMMA PollEachShape ==
  ASSUME NEW resources \in SUBSET Refs, NEW kind,
         NEW i \in DOMAIN PollEach(resources, kind)
  PROVE  PollEach(resources, kind)[i].kind = "poll"
BY DEF PollEach, Reading

\* A deploy verifies, compares, applies and then only polls.
LEMMA DeployShape ==
  ASSUME NEW mode \in Modes, NEW resources \in SUBSET Refs
  PROVE  LET s == DeployActions(mode, resources)
         IN  /\ s[1] = VerifyContext
             /\ s[2] = Reading("kubectl-diff", None)
             /\ s[3] = ApplyCommand(mode)
             /\ {1, 2, 3} \subseteq DOMAIN s
             /\ \A i \in DOMAIN s : i \notin {1, 2, 3} => s[i].kind = "poll"
             /\ DOMAIN s \subseteq Nat \ {0}
<1> DEFINE A == ActionsOf(ChangeKinds)
           head == <<VerifyContext, Reading("kubectl-diff", None),
                     ApplyCommand(mode), Reading("poll", Gateway)>>
           p == PollEach(resources, "HTTPRoute")
           q == PollEach(resources, "AgentgatewayPolicy")
           r == PollEach(resources, "Deployment")
           Polls(s) == \A i \in DOMAIN s : s[i].kind = "poll"
<1>1. /\ VerifyContext \in A
      /\ Reading("kubectl-diff", None) \in A
      /\ ApplyCommand(mode) \in A
      /\ Reading("poll", Gateway) \in A /\ Reading("poll", Gateway).kind = "poll"
  BY PlanAssumption
     DEF PlanAssumption, VerifyContext, Reading, Mutating, ApplyCommand,
         ActionsOf, WriteKinds, ChangeKinds, ActionKinds
<1>2. p \in Seq(A) /\ q \in Seq(A) /\ r \in Seq(A)
  BY PollEachType
<1>3. Polls(p) /\ Polls(q) /\ Polls(r)
  BY PollEachShape
<1> HIDE DEF p, q, r, A
<1>4. ASSUME NEW s \in Seq(A), NEW t \in Seq(A), Polls(t),
             Len(s) >= 4, s[1] = head[1], s[2] = head[2], s[3] = head[3],
             \A i \in 4..Len(s) : s[i].kind = "poll"
      PROVE  /\ s \o t \in Seq(A)
             /\ Len(s \o t) >= 4
             /\ (s \o t)[1] = head[1] /\ (s \o t)[2] = head[2]
             /\ (s \o t)[3] = head[3]
             /\ \A i \in 4..Len(s \o t) : (s \o t)[i].kind = "poll"
  <2>1. /\ s \o t \in Seq(A) /\ Len(s \o t) = Len(s) + Len(t)
        /\ Len(s) \in Nat /\ Len(t) \in Nat /\ DOMAIN t = 1..Len(t)
        /\ \A i \in 1..(Len(s) + Len(t)) :
             (s \o t)[i] = IF i <= Len(s) THEN s[i] ELSE t[i - Len(s)]
    BY <1>4, ConcatProperties
  <2>2. ASSUME NEW i \in 4..Len(s \o t) PROVE (s \o t)[i].kind = "poll"
    <3>1. CASE i <= Len(s)
      BY <1>4, <2>1, <3>1
    <3>2. CASE i > Len(s)
      <4>1. i - Len(s) \in DOMAIN t /\ (s \o t)[i] = t[i - Len(s)]
        BY <2>1, <3>2
      <4> QED BY <1>4, <4>1
    <3> QED BY <2>1, <3>1, <3>2
  <2> QED BY <1>4, <2>1, <2>2
<1>5. /\ head \in Seq(A) /\ Len(head) = 4
      /\ \A i \in 4..Len(head) : head[i].kind = "poll"
  BY <1>1
<1> DEFINE s == head \o p \o q \o r
<1>6. /\ s \in Seq(A) /\ Len(s) >= 4
      /\ s[1] = head[1] /\ s[2] = head[2] /\ s[3] = head[3]
      /\ \A i \in 4..Len(s) : s[i].kind = "poll"
  <2> HIDE DEF head, Polls
  <2>0. Len(head) >= 4
    BY <1>5
  <2>1. head \o p \in Seq(A) /\ Len(head \o p) >= 4
        /\ (head \o p)[1] = head[1] /\ (head \o p)[2] = head[2]
        /\ (head \o p)[3] = head[3]
        /\ \A i \in 4..Len(head \o p) : (head \o p)[i].kind = "poll"
    BY <1>2, <1>3, <1>4, <1>5, <2>0
  <2> DEFINE u == head \o p
  <2> HIDE DEF u
  <2>2. u \o q \in Seq(A) /\ Len(u \o q) >= 4
        /\ (u \o q)[1] = head[1] /\ (u \o q)[2] = head[2]
        /\ (u \o q)[3] = head[3]
        /\ \A i \in 4..Len(u \o q) : (u \o q)[i].kind = "poll"
    BY <1>2, <1>3, <1>4, <2>1 DEF u
  <2> DEFINE v == u \o q
  <2> HIDE DEF v
  <2>3. v \o r \in Seq(A) /\ Len(v \o r) >= 4
        /\ (v \o r)[1] = head[1] /\ (v \o r)[2] = head[2]
        /\ (v \o r)[3] = head[3]
        /\ \A i \in 4..Len(v \o r) : (v \o r)[i].kind = "poll"
    BY <1>2, <1>3, <1>4, <2>2 DEF v
  <2> QED BY <2>3 DEF u, v
<1>7. s = DeployActions(mode, resources)
  BY DEF DeployActions, p, q, r
<1> HIDE DEF s
<1>8. DOMAIN s = 1..Len(s) /\ Len(s) \in Nat
  BY <1>6
<1> QED BY <1>6, <1>7, <1>8

\* Planned changes have the shape.
LEMMA ChangeIsAsPlanned ==
  ASSUME NEW command \in ChangeCommands, NEW mode \in Modes,
         NEW context \in Contexts, NEW tree \in Trees,
         NEW resources \in SUBSET Refs
  PROVE  Reviewed(WithComputedId(
           ChangeBody(command, mode, context, tree, resources)))
<1> DEFINE b == ChangeBody(command, mode, context, tree, resources)
<1>1. /\ b.command = command /\ b.mode = mode
      /\ b.actions = ChangeActions(command, mode, resources)
  BY DEF ChangeBody
<1>0. ASSUME AsPlanned(b) PROVE Reviewed(WithComputedId(b))
  BY <1>0 DEF Reviewed, WithComputedId
<1> SUFFICES AsPlanned(b)
  BY <1>0
<1> HIDE DEF b
<1> DEFINE delete == Mutating("kubectl-delete", None, FALSE)
<1>2. /\ VerifyContext.kind = "verify-context"
      /\ Reading("kubectl-diff", None).kind = "kubectl-diff"
      /\ Reading("read-ingress-state", None).kind = "read-ingress-state"
      /\ delete.kind = "kubectl-delete"
      /\ ApplyCommand(mode).kind = "kubectl-apply"
      /\ ApplyCommand(mode).dryRun <=> mode = DryRun
  BY DEF VerifyContext, Reading, Mutating, ApplyCommand
<1> HIDE DEF delete
<1>3. CASE command = "deploy apply"
  <2>1. b.actions = DeployActions(mode, resources)
    BY <1>1, <1>3 DEF ChangeActions
  <2>2. /\ b.actions[1] = VerifyContext
        /\ b.actions[2] = Reading("kubectl-diff", None)
        /\ b.actions[3] = ApplyCommand(mode)
        /\ {1, 2, 3} \subseteq DOMAIN b.actions
        /\ \A i \in DOMAIN b.actions :
             i \notin {1, 2, 3} => b.actions[i].kind = "poll"
    BY <2>1, DeployShape
  <2>3. \A i \in DOMAIN b.actions :
          /\ b.actions[i].kind = "verify-context" => i = 1
          /\ WritesAt(b, i) => i = 3
    BY <1>2, <2>2 DEF WritesAt, WriteKinds
  <2> QED
    BY <1>1, <1>2, <1>3, <2>2, <2>3
       DEF AsPlanned, ReadsIngressFirst, VerifiesFirst, AppliesOnce,
           KeepsMode, Cleanups
<1>4. CASE command = "gitops apply"
  <2>1. b.actions = <<VerifyContext, Reading("kubectl-diff", None),
                      ApplyCommand(mode)>>
    BY <1>1, <1>4 DEF ChangeActions, GitopsActions
  <2> DEFINE t == b.actions
  <2>4. /\ DOMAIN t = 1..3 /\ t[1] = VerifyContext
        /\ t[2] = Reading("kubectl-diff", None)
        /\ t[3] = ApplyCommand(mode)
    BY <2>1
  <2>2. \A i \in DOMAIN b.actions :
          /\ b.actions[i].kind = "verify-context" => i = 1
          /\ WritesAt(b, i) => i = 3
    BY <1>2, <2>4 DEF WritesAt, WriteKinds
  <2>3. 3 \in DOMAIN b.actions /\ b.actions[3] = ApplyCommand(mode)
    BY <2>1
  <2> QED
    BY <1>1, <1>2, <1>4, <2>2, <2>3
       DEF AsPlanned, ReadsIngressFirst, VerifiesFirst, AppliesOnce,
           KeepsMode, Cleanups
<1>5. CASE command = "cutover apply"
  <2> DEFINE t == b.actions
  <2>1. t = <<VerifyContext, Reading("read-ingress-state", None),
              ApplyCommand(mode)>>
    BY <1>1, <1>5 DEF ChangeActions, CutoverActions
  <2>2. /\ DOMAIN t = 1..3 /\ t[1] = VerifyContext
        /\ t[2] = Reading("read-ingress-state", None)
        /\ t[3] = ApplyCommand(mode)
    BY <2>1
  <2>3. \A i \in DOMAIN t : /\ t[i].kind = "verify-context" => i = 1
                            /\ WritesAt(b, i) => i = 3
    BY <1>2, <2>2 DEF WritesAt, WriteKinds
  <2>4. ReadsIngressFirst(b)
    <3>1. 2 \in DOMAIN t /\ 2 < 3 /\ t[2].kind = "read-ingress-state"
      BY <1>2, <2>2
    <3> QED BY <2>3, <3>1 DEF ReadsIngressFirst
  <2>5. AppliesOnce(b) /\ KeepsMode(b)
    <3>1. 3 \in DOMAIN t
      BY <2>2
    <3> QED BY <1>1, <1>2, <2>2, <2>3, <3>1 DEF AppliesOnce, KeepsMode
  <2> QED BY <2>3, <2>4, <2>5 DEF AsPlanned, VerifiesFirst
<1>6. CASE command = "destroy apply"
  <2> DEFINE t == b.actions
  <2>1. t = <<VerifyContext, Reading("read-ingress-state", None), delete>>
    BY <1>1, <1>6 DEF ChangeActions, DestroyActions, delete
  <2>2. /\ DOMAIN t = 1..3 /\ t[1] = VerifyContext
        /\ t[2] = Reading("read-ingress-state", None)
        /\ t[3] = delete
    BY <2>1
  <2>3. \A i \in DOMAIN t : /\ t[i].kind = "verify-context" => i = 1
                            /\ WritesAt(b, i) => i = 3
    BY <1>2, <2>2 DEF WritesAt, WriteKinds
  <2>4. ReadsIngressFirst(b)
    <3>1. 2 \in DOMAIN t /\ 2 < 3 /\ t[2].kind = "read-ingress-state"
      BY <1>2, <2>2
    <3> QED BY <2>3, <3>1 DEF ReadsIngressFirst
  <2>5. AppliesOnce(b) /\ KeepsMode(b)
    BY <1>1, <1>6 DEF AppliesOnce, KeepsMode, RecordedCommands
  <2> QED BY <2>3, <2>4, <2>5 DEF AsPlanned, VerifiesFirst
<1> QED BY <1>3, <1>4, <1>5, <1>6 DEF ChangeCommands, RecordedCommands

\* So have rollback plans.
LEMMA RollbackIsAsPlanned ==
  ASSUME NEW ledger \in SUBSET Entries, NEW origin \in ChangeBodies,
         NEW mode \in Modes, NEW context \in Contexts
  PROVE  Reviewed(WithComputedId(RollbackBody(ledger, origin, mode, context)))
<1> DEFINE b == RollbackBody(ledger, origin, mode, context)
           entries == ForRun(ledger, origin)
           order == Sorted[{e.ref : e \in entries}]
           undo == [i \in DOMAIN order |->
                      UndoAction(CHOOSE e \in entries : e.ref = order[i])]
<1>1. b.command = RollbackCommand /\ b.actions = <<VerifyContext>> \o undo
  BY DEF RollbackBody, RollbackActions
<1>2. \A i \in DOMAIN undo : undo[i].kind # "verify-context"
  BY DEF UndoAction, Mutating
<1>3. DOMAIN undo = 1..Len(order) /\ Len(order) \in Nat
  <2>1. order \in Seq(Refs)
    BY PlanAssumption DEF PlanAssumption, ForRun, Entries
  <2> QED BY <2>1
<1> HIDE DEF undo
<1>4. Len(undo) = Len(order)
  BY <1>3
<1>7. undo = [i \in 1..Len(order) |-> undo[i]]
  BY <1>3 DEF undo
<1>5. /\ Len(<<VerifyContext>>) = 1
      /\ DOMAIN (<<VerifyContext>> \o undo) = 1..(1 + Len(undo))
      /\ \A i \in 1..(1 + Len(undo)) :
           i # 1 => (<<VerifyContext>> \o undo)[i] = undo[i - 1]
  <2> DEFINE U == {VerifyContext} \cup {undo[i] : i \in DOMAIN undo}
  <2>1. <<VerifyContext>> \in Seq(U)
    OBVIOUS
  <2>2. \A i \in 1..Len(order) : undo[i] \in U
    BY <1>3
  <2> HIDE DEF U
  <2>3. undo \in [1..Len(order) -> U]
    BY <1>7, <2>2
  <2>4. undo \in Seq(U)
    BY <1>3, <2>3, SeqDef
  <2> DEFINE v == <<VerifyContext>>
  <2>5. Len(v) = 1 /\ v \in Seq(U)
    BY <2>1
  <2> HIDE DEF v
  <2>6. /\ v \o undo \in Seq(U)
        /\ Len(v \o undo) = 1 + Len(undo)
        /\ \A i \in 1..(1 + Len(undo)) :
             (v \o undo)[i] = IF i <= Len(v) THEN v[i]
                               ELSE undo[i - Len(v)]
    <3> HIDE DEF undo
    <3>1. v \o undo \in Seq(U) /\ Len(v \o undo) = Len(v) + Len(undo)
      BY <2>4, <2>5, ConcatProperties
    <3>2. \A i \in 1..(Len(v) + Len(undo)) :
             (v \o undo)[i] = IF i <= Len(v) THEN v[i]
                               ELSE undo[i - Len(v)]
      BY <2>4, <2>5, ConcatProperties
    <3> QED BY <2>5, <3>1, <3>2
  <2>7. DOMAIN (v \o undo) = 1..(1 + Len(undo))
    BY <2>6
  <2>8. \A i \in 1..(1 + Len(undo)) : i # 1 => ~(i <= 1)
    BY <1>3, <1>4
  <2>9. /\ Len(v) = 1
        /\ DOMAIN (v \o undo) = 1..(1 + Len(undo))
        /\ \A i \in 1..(1 + Len(undo)) :
             i # 1 => (v \o undo)[i] = undo[i - 1]
    BY <2>5, <2>6, <2>7, <2>8
  <2> QED BY <2>9 DEF v
<1>6. ASSUME NEW i \in DOMAIN b.actions, i # 1
      PROVE  b.actions[i].kind # "verify-context"
  <2>1. i \in 1..(1 + Len(undo)) /\ i - 1 \in DOMAIN undo
    BY <1>1, <1>3, <1>4, <1>5, <1>6
  <2>2. b.actions[i] = undo[i - 1]
    BY <1>1, <1>5, <1>6, <2>1
  <2> QED BY <1>2, <2>1, <2>2
<1> HIDE DEF b
<1> QED
  BY <1>1, <1>6
     DEF b, AsPlanned, ReadsIngressFirst, VerifiesFirst, AppliesOnce,
         KeepsMode, Cleanups, Reviewed, WithComputedId, RollbackCommand,
         RecordedCommands

\* Dropping the verification keeps everything but the right to write.
LEMMA TailIsAsPlanned ==
  ASSUME NEW plan \in Plans, Reviewed(plan),
         plan.body.actions # <<>>,
         plan.body.actions[1] = VerifyContext
  PROVE  Reviewed(WithComputedId([plan.body EXCEPT !.actions = Tail(@)]))
<1> DEFINE a == plan.id.actions
           b == [plan.body EXCEPT !.actions = Tail(@)]
           n == Len(a)
<1>1. a = plan.body.actions /\ plan.body.command = plan.id.command
  BY DEF Reviewed
<1>2. /\ b.actions = Tail(a) /\ b.command = plan.id.command
  BY <1>1 DEF Plans, Bodies, ChangeBodies, RollbackBodies
<1>3. a \in Seq(ActionsOf(ActionKinds))
  <2>1. plan.id \in Bodies
    BY DEF Plans
  <2>2. \/ a \in Seq(ActionsOf(ChangeKinds))
        \/ a \in Seq(ActionsOf(UndoKinds))
    BY <2>1 DEF Bodies, ChangeBodies, RollbackBodies
  <2>3. /\ ActionsOf(ChangeKinds) \subseteq ActionsOf(ActionKinds)
        /\ ActionsOf(UndoKinds) \subseteq ActionsOf(ActionKinds)
    BY DEF ActionsOf, ChangeKinds, UndoKinds, ActionKinds
  <2> QED BY <2>2, <2>3
<1>4. /\ n \in Nat /\ n > 0 /\ DOMAIN a = 1..n
      /\ DOMAIN Tail(a) = 1..(n - 1)
      /\ \A i \in 1..(n - 1) : Tail(a)[i] = a[i + 1]
  BY <1>1, <1>3, HeadTailProperties
<1>5. a[1].kind = "verify-context"
  BY <1>1 DEF VerifyContext, Reading
<1> HIDE DEF a, b, n
<1>6. /\ ReadsIngressFirst(plan.id) /\ VerifiesFirst(plan.id)
      /\ AppliesOnce(plan.id)
  BY DEF Reviewed, AsPlanned
<1>7. \A i \in DOMAIN b.actions : /\ i + 1 \in DOMAIN a
                                  /\ b.actions[i] = a[i + 1]
                                  /\ i + 1 # 1
  BY <1>2, <1>4
<1>8. \A j \in DOMAIN a : j # 1 => /\ j - 1 \in DOMAIN b.actions
                                   /\ b.actions[j - 1] = a[j]
                                   /\ (j - 1) + 1 = j
  BY <1>2, <1>4
<1>9. NeverVerifies(b)
  BY <1>6, <1>7 DEF NeverVerifies, VerifiesFirst, a
<1>10. ReadsIngressFirst(b)
  <2> SUFFICES ASSUME b.command \in Cleanups, NEW i \in DOMAIN b.actions,
                      WritesAt(b, i)
               PROVE  \E j \in DOMAIN b.actions :
                        /\ j < i
                        /\ b.actions[j].kind = "read-ingress-state"
    BY DEF ReadsIngressFirst
  <2>1. WritesAt(plan.id, i + 1)
    BY <1>7 DEF WritesAt, a
  <2>2. PICK j \in DOMAIN a : /\ j < i + 1
                              /\ a[j].kind = "read-ingress-state"
    BY <1>2, <1>6, <1>7, <2>1 DEF ReadsIngressFirst, a
  <2>3. j # 1
    BY <1>5, <2>2
  <2>4. /\ j - 1 \in DOMAIN b.actions
        /\ b.actions[j - 1].kind = "read-ingress-state"
    BY <1>8, <2>2, <2>3
  <2>5. j - 1 < i
    BY <1>2, <1>4, <2>2
  <2> QED BY <2>4, <2>5
<1>11. AppliesOnce(b)
  <2> SUFFICES ASSUME b.command \in RecordedCommands
               PROVE  \E w \in DOMAIN b.actions :
                        /\ b.actions[w].kind = "kubectl-apply"
                        /\ \A i \in DOMAIN b.actions :
                             WritesAt(b, i) => i = w
    BY DEF AppliesOnce
  <2>1. PICK w \in DOMAIN a :
          /\ a[w].kind = "kubectl-apply"
          /\ \A i \in DOMAIN a : WritesAt(plan.id, i) => i = w
    BY <1>2, <1>6 DEF AppliesOnce, a
  <2>2. w # 1
    BY <1>5, <2>1
  <2>3. w - 1 \in DOMAIN b.actions /\ b.actions[w - 1] = a[w]
    BY <1>8, <2>1, <2>2
  <2>4. ASSUME NEW i \in DOMAIN b.actions, WritesAt(b, i) PROVE i = w - 1
    <3>1. WritesAt(plan.id, i + 1) /\ i + 1 \in DOMAIN a
      BY <1>7, <2>4 DEF WritesAt, a
    <3>2. i + 1 = w /\ i \in Int
      BY <1>2, <1>4, <2>1, <2>4, <3>1
    <3> QED BY <3>2
  <2> QED BY <2>1, <2>3, <2>4
<1>12. VerifiesFirst(b)
  BY <1>9 DEF NeverVerifies, VerifiesFirst
<1> QED
  BY <1>9, <1>10, <1>11, <1>12 DEF b, AsPlanned, Reviewed, WithComputedId

-----------------------------------------------------------------------------
(* The executor's steps, in more detail than ExecutingForms needs.          *)

\* The kubectl process at hand has set S, and nothing else, to what new says:
\* only if the action writes and the context was verified.  It leaves nothing in
\* a Namespace that is not there.
Wrote(S, new) ==
  /\ S \in SUBSET Refs /\ new \in ClusterStates
  /\ \A r \in Refs \ S : new[r] = here[r]
  /\ Housed(here) => Housed(new)
  /\ S # {} => /\ Step.kind \in WriteKinds /\ run.verified
               /\ Step.kind = "kubectl-apply" =>
                    ~Step.dryRun /\ S \subseteq Present(docs)

FailedStep ==
  Remaining /\ \E S \in SUBSET Refs, new \in ClusterStates :
                 Wrote(S, new) /\ Fails(S, new)

PassedStep ==
  /\ Remaining
  /\ Step.kind # "read-ingress-state"
  /\ Step.kind \in WriteKinds => run.verified
  /\ \E S \in SUBSET Refs, new \in ClusterStates :
       /\ Wrote(S, new) /\ Continues(S, new)
       /\ Step.kind = "kubectl-apply" /\ ~Step.dryRun => S = Present(docs)

ReadStep ==
  /\ Remaining /\ Reads
  /\ run' \in Runs
  /\ run'.plan = run.plan /\ run'.snapshot = run.snapshot
  /\ run'.ledger = run.ledger /\ run'.expected = run.expected
  /\ run'.touched = run.touched
  /\ run'.quiet = run.quiet /\ run'.switched = run.switched
  /\ run'.verified => run.verified \/ Step.kind = "verify-context"
  /\ run.ingress => run'.ingress
  /\ \/ run'.next = run.next
     \/ /\ run'.next = run.next + 1 /\ Step.kind \notin WriteKinds
        /\ Step.kind = "read-ingress-state" => run'.ingress

\* Deleting resources with what lives in them leaves the rest as it was.
LEMMA RemovedKeeps ==
  ASSUME NEW cl \in ClusterStates, NEW D \in SUBSET Refs
  PROVE  LET S == WithContents(D) \cap Present(cl)
         IN  /\ S \in SUBSET Refs
             /\ Removed(cl, S) \in ClusterStates
             /\ \A r \in Refs \ S : Removed(cl, S)[r] = cl[r]
<1> DEFINE S == WithContents(D) \cap Present(cl)
<1>1. S \in SUBSET Refs
  BY DEF Present
<1>2. Removed(cl, S) \in ClusterStates
  BY <1>1, KubectlType
<1>3. ASSUME NEW r \in Refs \ S PROVE Removed(cl, S)[r] = cl[r]
  <2>1. CASE r \notin WithContents(S)
    BY <2>1 DEF Removed
  <2>2. CASE r \in WithContents(S)
    <3>1. Home[r] \in S
      BY <1>3, <2>2 DEF WithContents
    <3>2. Home[r] \in Refs /\ Home[r] # None
      BY <1>1, <3>1, KubectlAssumption DEF KubectlAssumption
    <3>3. Home[Home[r]] \notin D
      BY <1>3, <3>2, KubectlAssumption DEF KubectlAssumption
    <3>4. r \in WithContents(D)
      BY <3>1, <3>3 DEF WithContents
    <3>5. cl[r] = Absent
      BY <1>3, <3>4 DEF Present
    <3> QED BY <2>2, <3>5 DEF Removed
  <2> QED BY <2>1, <2>2
<1> QED BY <1>1, <1>2, <1>3

\* A cluster in which every Namespace in use is there stays one.
LEMMA AppliedHoused ==
  ASSUME NEW cl \in ClusterStates, NEW rendered \in ClusterStates,
         NEW S \in SUBSET Present(rendered), Housed(cl)
  PROVE  Housed(Applied(cl, rendered, S))
<1> DEFINE new == Applied(cl, rendered, S)
<1>1. ASSUME NEW r \in Refs, r \in Present(cl) \/ r \in Landing(cl, S)
      PROVE  r \in Present(new)
  BY <1>1 DEF Applied, Present, Landing
<1>2. ASSUME NEW r \in Present(new)
      PROVE  Home[r] \in Present(new) \cup {None}
  <2>1. r \in Refs
    BY DEF Present
  <2>2. CASE r \in Landing(cl, S)
    <3>1. Home[r] \in Present(cl) \cup S \cup {None}
      BY <2>2 DEF Landing
    <3>2. CASE Home[r] \in Present(cl)
      BY <1>1, <3>2 DEF Present
    <3>3. CASE Home[r] \in S
      <4>1. Home[r] \in Refs /\ Home[Home[r]] = None
        BY <2>1, <3>3, KubectlAssumption DEF KubectlAssumption, Present
      <4>2. Home[r] \in Landing(cl, S)
        BY <3>3, <4>1 DEF Landing
      <4> QED BY <1>1, <4>1, <4>2
    <3> QED BY <3>1, <3>2, <3>3
  <2>3. CASE r \notin Landing(cl, S)
    <3>1. r \in Present(cl)
      BY <2>1, <2>3 DEF Applied, Present
    <3>2. Home[r] \in Present(cl) \cup {None}
      BY <3>1 DEF Housed
    <3> QED BY <1>1, <3>2 DEF Present
  <2> QED BY <2>2, <2>3
<1> QED BY <1>2 DEF Housed

LEMMA RemovedHoused ==
  ASSUME NEW cl \in ClusterStates, NEW S \in SUBSET Refs, Housed(cl)
  PROVE  Housed(Removed(cl, S))
<1> DEFINE new == Removed(cl, S)
<1>1. ASSUME NEW r \in Present(new)
      PROVE  Home[r] \in Present(new) \cup {None}
  <2>1. r \in Refs /\ r \notin WithContents(S) /\ r \in Present(cl)
    BY DEF Removed, Present
  <2>2. Home[r] \in Present(cl) \cup {None} /\ Home[r] \notin S
    BY <2>1 DEF Housed, WithContents
  <2>3. CASE Home[r] # None
    <3>1. Home[r] \in Refs /\ Home[Home[r]] = None /\ None \notin S
      BY <2>1, <2>3, KubectlAssumption DEF KubectlAssumption
    <3>2. Home[r] \notin WithContents(S)
      BY <2>2, <3>1 DEF WithContents
    <3> QED BY <2>2, <2>3, <3>1, <3>2 DEF Removed, Present
  <2> QED BY <2>3
<1> QED BY <1>1 DEF Housed

LEMMA SetHoused ==
  ASSUME NEW cl \in ClusterStates, NEW r \in Refs, NEW m \in Manifests,
         Home[r] \in Present(cl) \cup {None}, Housed(cl)
  PROVE  Housed([cl EXCEPT ![r] = m])
<1> DEFINE new == [cl EXCEPT ![r] = m]
<1>1. \A x \in Refs : x \in Present(new) <=> x \in Present(cl) \/ x = r
  BY KubectlAssumption DEF KubectlAssumption, Present, ClusterStates
<1>2. Present(new) \subseteq Refs /\ Present(cl) \subseteq Refs
  BY DEF Present
<1> HIDE DEF new
<1>3. Housed(new)
  BY <1>1, <1>2 DEF Housed
<1> QED BY <1>3 DEF new

\* Every step of the executor has one of these forms.
LEMMA StepForms ==
  ASSUME IInv, Executing
  PROVE  FailedStep \/ PassedStep \/ ReadStep \/ Finish
<1>1. ASSUME phase = "executing" PROVE Wrote({}, here)
  BY <1>1, RunningType DEF Wrote
<1>2. ASSUME Remaining, Fails({}, here) PROVE FailedStep
  BY <1>1, <1>2, RunningType DEF FailedStep, Remaining
<1>3. ASSUME Remaining, Continues({}, here), Step.kind # "read-ingress-state",
             Step.kind \notin WriteKinds \/ run.verified,
             Step.kind # "kubectl-apply" \/ Step.dryRun
      PROVE  PassedStep
  BY <1>1, <1>3, RunningType DEF PassedStep, Remaining
<1>4. ASSUME Remaining PROVE run \in Runs /\ run.next + 1 \in Nat \ {0}
  <2>1. run \in Runs
    BY <1>4, RunningType DEF Remaining
  <2> QED BY <2>1 DEF Runs
<1>5. ASSUME NEW kind \in WriteKinds, At(kind)
      PROVE  /\ Remaining /\ Step.kind = kind /\ run.verified
             /\ here \in ClusterStates
  <2>1. Remaining /\ Step.kind = kind
    BY <1>5 DEF At
  <2>2. Step.mutating
    BY <2>1, StepType
  <2> QED BY <1>5, <2>1, <2>2, RunningType DEF At, Remaining
<1>6. CASE RefuseUnverified
  BY <1>2, <1>6 DEF RefuseUnverified
<1>7. CASE Verify
  <2>1. Remaining /\ Step.kind = "verify-context"
    BY <1>7 DEF Verify, At
  <2>2. /\ run' \in Runs /\ run'.plan = run.plan
        /\ run'.snapshot = run.snapshot /\ run'.touched = run.touched
        /\ run'.ledger = run.ledger /\ run'.expected = run.expected
        /\ run'.quiet = run.quiet /\ run'.switched = run.switched
        /\ run'.ingress = run.ingress /\ run'.next = run.next + 1
    BY <1>4, <1>7, <2>1 DEF Verify, Runs
  <2> QED BY <1>7, <2>1, <2>2 DEF Verify, ReadStep, WriteKinds
<1>8. CASE Diff
  BY <1>3, <1>8 DEF Diff, At, WriteKinds
<1>9. CASE ReadIngress
  <2>1. Remaining /\ Step.kind = "read-ingress-state"
    BY <1>9 DEF ReadIngress, At
  <2>2. /\ run' \in Runs /\ run'.plan = run.plan
        /\ run'.snapshot = run.snapshot /\ run'.touched = run.touched
        /\ run'.ledger = run.ledger /\ run'.expected = run.expected
        /\ run'.quiet = run.quiet /\ run'.switched = run.switched
        /\ run'.verified = run.verified
        /\ run'.ingress /\ run'.next = run.next + 1
    BY <1>4, <1>9, <2>1 DEF ReadIngress, Runs
  <2> QED BY <1>9, <2>1, <2>2 DEF ReadIngress, ReadStep, WriteKinds
<1>10. CASE ReadFails
  BY <1>2, <1>10 DEF ReadFails, At
<1>11. CASE Apply
  <2>1. /\ Remaining /\ Step.kind = "kubectl-apply" /\ run.verified
        /\ here \in ClusterStates
    BY <1>5, <1>11 DEF Apply, WriteKinds
  <2>2. docs \in ClusterStates /\ Present(docs) \in SUBSET Refs
    BY <2>1, StepType
  <2> DEFINE S == Present(docs)
             new == Applied(here, docs, S)
  <2>3. Landing(here, S) = S /\ Continues(S, new) /\ ~Step.dryRun
    BY <1>11 DEF Apply
  <2>4. new \in ClusterStates
    BY <2>1, <2>2, KubectlType
  <2>5. /\ \A r \in Refs \ S : new[r] = here[r]
        /\ Housed(here) => Housed(new)
    BY <2>1, <2>2, <2>3, AppliedHoused DEF Applied
  <2> HIDE DEF S, new
  <2>6. Wrote(S, new)
    BY <2>1, <2>2, <2>3, <2>4, <2>5 DEF Wrote, S, WriteKinds
  <2> QED BY <2>1, <2>2, <2>3, <2>4, <2>6 DEF PassedStep, S
<1>12. CASE ApplyFails
  <2>1. /\ Remaining /\ Step.kind = "kubectl-apply" /\ run.verified
        /\ here \in ClusterStates /\ ~Step.dryRun
    BY <1>5, <1>12 DEF ApplyFails, WriteKinds
  <2>2. docs \in ClusterStates /\ Present(docs) \in SUBSET Refs
    BY <2>1, StepType
  <2>3. PICK S \in SUBSET Present(docs) :
          Fails(Landing(here, S), Applied(here, docs, S))
    BY <1>12 DEF ApplyFails
  <2> DEFINE T == Landing(here, S)
             new == Applied(here, docs, S)
  <2>4. S \in SUBSET Refs
    BY <2>2
  <2>5. T \in SUBSET Refs /\ T \subseteq Present(docs) /\ new \in ClusterStates
    BY <2>1, <2>2, <2>4, KubectlType
  <2>6. /\ \A r \in Refs \ T : new[r] = here[r]
        /\ Housed(here) => Housed(new)
    BY <2>1, <2>2, AppliedHoused DEF Applied
  <2> HIDE DEF T, new
  <2>7. Wrote(T, new)
    BY <2>1, <2>5, <2>6 DEF Wrote, WriteKinds
  <2>8. Fails(T, new)
    BY <2>3 DEF T, new
  <2> QED BY <2>1, <2>5, <2>7, <2>8 DEF FailedStep
<1>13. CASE ApplyDry
  BY <1>3, <1>5, <1>13 DEF ApplyDry, At, WriteKinds
<1>14. CASE ApplyDryFails
  BY <1>2, <1>14 DEF ApplyDryFails, At
<1>15. ASSUME Remaining, run.verified, here \in ClusterStates,
              Step.kind \in {"kubectl-delete", "kubectl-delete-resource"},
              NEW D \in SUBSET Refs
       PROVE  LET S == WithContents(D) \cap Present(here)
              IN  Wrote(S, Removed(here, S))
  BY <1>15, RemovedKeeps, RemovedHoused DEF Wrote, WriteKinds
<1>16. CASE Delete
  <2>1. /\ Remaining /\ Step.kind = "kubectl-delete" /\ run.verified
        /\ here \in ClusterStates
    BY <1>5, <1>16 DEF Delete, WriteKinds
  <2> DEFINE D == Present(docs)
             S == WithContents(D) \cap Present(here)
             new == Removed(here, S)
  <2>2. D \in SUBSET Refs
    BY DEF Present
  <2>3. Wrote(S, new)
    BY <1>15, <2>1, <2>2
  <2>4. Continues(S, new)
    BY <1>16 DEF Delete
  <2> HIDE DEF S, new
  <2> QED BY <2>1, <2>3, <2>4 DEF PassedStep, Wrote
<1>17. CASE DeleteFails
  <2>1. /\ Remaining /\ Step.kind = "kubectl-delete" /\ run.verified
        /\ here \in ClusterStates
    BY <1>5, <1>17 DEF DeleteFails, WriteKinds
  <2>2. PICK D \in SUBSET (Present(docs) \cap Present(here)) :
          LET S == WithContents(D) \cap Present(here)
          IN  Fails(S, Removed(here, S))
    BY <1>17 DEF DeleteFails
  <2> DEFINE S == WithContents(D) \cap Present(here)
             new == Removed(here, S)
  <2>3. D \in SUBSET Refs
    BY DEF Present
  <2>4. Wrote(S, new)
    BY <1>15, <2>1, <2>3
  <2>5. Fails(S, new)
    BY <2>2
  <2> HIDE DEF S, new
  <2> QED BY <2>1, <2>4, <2>5 DEF FailedStep, Wrote
<1>18. CASE DeleteResource
  <2>1. /\ Remaining /\ Step.kind = "kubectl-delete-resource"
        /\ run.verified /\ here \in ClusterStates
    BY <1>5, <1>18 DEF DeleteResource, WriteKinds
  <2> DEFINE D == {Step.ref}
             S == WithContents(D) \cap Present(here)
             new == Removed(here, S)
  <2>2. D \in SUBSET Refs
    BY <1>18 DEF DeleteResource, Present
  <2>3. Wrote(S, new)
    BY <1>15, <2>1, <2>2
  <2>4. Continues(S, new)
    BY <1>18 DEF DeleteResource
  <2> HIDE DEF S, new
  <2> QED BY <2>1, <2>3, <2>4 DEF PassedStep, Wrote
<1>19. CASE DeleteResourceFails
  <2>1. /\ Remaining /\ Step.kind = "kubectl-delete-resource"
        /\ run.verified /\ here \in ClusterStates
    BY <1>5, <1>19 DEF DeleteResourceFails, WriteKinds
  <2>2. PICK D \in SUBSET ({Step.ref} \cap Present(here)) :
          LET S == WithContents(D) \cap Present(here)
          IN  Fails(S, Removed(here, S))
    BY <1>19 DEF DeleteResourceFails
  <2> DEFINE S == WithContents(D) \cap Present(here)
             new == Removed(here, S)
  <2>3. D \in SUBSET Refs
    BY DEF Present
  <2>4. Wrote(S, new)
    BY <1>15, <2>1, <2>3
  <2>5. Fails(S, new)
    BY <2>2
  <2> HIDE DEF S, new
  <2> QED BY <2>1, <2>4, <2>5 DEF FailedStep, Wrote
<1>20. ASSUME At("kubectl-restore"), NEW e \in RestoreEntries,
              Home[Step.ref] \in Present(here) \cup {None}
       PROVE  Wrote({Step.ref}, [here EXCEPT ![Step.ref] = e.before])
  <2>1. /\ Remaining /\ Step.kind = "kubectl-restore" /\ run.verified
        /\ here \in ClusterStates
    BY <1>5, <1>20 DEF WriteKinds
  <2>2. run.ledger \in (SUBSET Entries) \cup {None}
    BY <1>4, <2>1 DEF Runs
  <2>3. Step.ref \in Refs /\ e.before \in Manifests
    BY <1>20, <2>2 DEF RestoreEntries, Entries, Live
  <2> DEFINE new == [here EXCEPT ![Step.ref] = e.before]
  <2>4. Housed(here) => Housed(new)
    BY <1>20, <2>1, <2>3, SetHoused
  <2>5. new \in ClusterStates /\ \A r \in Refs \ {Step.ref} : new[r] = here[r]
    BY <2>1, <2>3 DEF ClusterStates, Live
  <2> HIDE DEF new
  <2>6. Wrote({Step.ref}, new)
    BY <2>1, <2>3, <2>4, <2>5 DEF Wrote, WriteKinds
  <2> QED BY <2>6 DEF new
<1>21. CASE Restore
  <2>1. Remaining /\ Step.kind = "kubectl-restore" /\ run.verified
    BY <1>5, <1>21 DEF Restore, WriteKinds
  <2>2. PICK e \in RestoreEntries :
          Continues({Step.ref}, [here EXCEPT ![Step.ref] = e.before])
    BY <1>21 DEF Restore
  <2> DEFINE new == [here EXCEPT ![Step.ref] = e.before]
  <2>3. Wrote({Step.ref}, new)
    BY <1>20, <1>21 DEF Restore
  <2>4. Continues({Step.ref}, new)
    BY <2>2
  <2> HIDE DEF new
  <2> QED BY <2>1, <2>3, <2>4 DEF PassedStep, Wrote
<1>22. CASE RestoreFails
  <2>1. Remaining
    BY <1>22 DEF RestoreFails, At
  <2>2. CASE Fails({}, here)
    BY <1>2, <2>1, <2>2
  <2>3. CASE /\ Home[Step.ref] \in Present(here) \cup {None}
             /\ \E e \in RestoreEntries :
                  Fails({Step.ref}, [here EXCEPT ![Step.ref] = e.before])
    <3>1. PICK e \in RestoreEntries :
            Fails({Step.ref}, [here EXCEPT ![Step.ref] = e.before])
      BY <2>3
    <3> DEFINE new == [here EXCEPT ![Step.ref] = e.before]
    <3>2. Wrote({Step.ref}, new)
      BY <1>20, <1>22, <2>3 DEF RestoreFails
    <3>3. Fails({Step.ref}, new)
      BY <3>1
    <3> HIDE DEF new
    <3> QED BY <2>1, <3>2, <3>3 DEF FailedStep, Wrote
  <2> QED BY <1>22, <2>2, <2>3 DEF RestoreFails
<1>23. CASE PollReady
  <2>1. Remaining /\ Step.kind = "poll"
    BY <1>23 DEF PollReady, At
  <2>2. /\ run' \in Runs /\ run'.plan = run.plan
        /\ run'.snapshot = run.snapshot /\ run'.touched = run.touched
        /\ run'.ledger = run.ledger /\ run'.expected = run.expected
        /\ run'.quiet = run.quiet /\ run'.switched = run.switched
        /\ run'.verified = run.verified /\ run'.ingress = run.ingress
        /\ run'.next = run.next + 1
    BY <1>4, <1>23, <2>1 DEF PollReady, Runs
  <2> QED BY <1>23, <2>1, <2>2 DEF PollReady, ReadStep, WriteKinds
<1>24. CASE PollAgain
  <2>1. Remaining /\ run \in Runs
    BY <1>4, <1>24 DEF PollAgain, At
  <2>2. run.attempts + 1 \in Nat
    BY <2>1 DEF Runs
  <2>3. /\ run' \in Runs /\ run'.plan = run.plan
        /\ run'.snapshot = run.snapshot /\ run'.touched = run.touched
        /\ run'.ledger = run.ledger /\ run'.expected = run.expected
        /\ run'.quiet = run.quiet /\ run'.switched = run.switched
        /\ run'.verified = run.verified /\ run'.ingress = run.ingress
        /\ run'.next = run.next
    BY <1>24, <2>1, <2>2 DEF PollAgain, Runs
  <2> QED BY <1>24, <2>1, <2>3 DEF PollAgain, ReadStep
<1>25. CASE PollFails
  BY <1>2, <1>25 DEF PollFails, At
<1>26. CASE Finish
  BY <1>26
<1> QED
  BY <1>6, <1>7, <1>8, <1>9, <1>10, <1>11, <1>12, <1>13, <1>14, <1>16, <1>17,
     <1>18, <1>19, <1>21, <1>22, <1>23, <1>24, <1>25, <1>26 DEF Executing

\* What a step that fails or passes does to the run.
LEMMA RunAfter ==
  ASSUME IInv, Remaining, NEW S \in SUBSET Refs, NEW new \in ClusterStates,
         Continues(S, new) \/ Fails(S, new)
  PROVE  /\ run' # None /\ body' = body
         /\ run'.plan = run.plan /\ run'.snapshot = run.snapshot
         /\ run'.ledger = run.ledger /\ run'.expected = run.expected
         /\ run'.quiet = run.quiet /\ run'.switched = run.switched
         /\ run'.verified = run.verified /\ run'.ingress = run.ingress
         /\ run'.touched = run.touched \cup Touching(S, new)
         /\ Continues(S, new) => run'.next = run.next + 1
         /\ Fails(S, new) => run'.next = run.next
<1>1. run \in Runs
  BY RunningType DEF Remaining
<1>2. /\ run'.plan = run.plan /\ run'.snapshot = run.snapshot
      /\ run'.ledger = run.ledger /\ run'.expected = run.expected
      /\ run'.quiet = run.quiet /\ run'.switched = run.switched
      /\ run'.verified = run.verified /\ run'.ingress = run.ingress
      /\ run'.touched = run.touched \cup Touching(S, new)
      /\ Continues(S, new) => run'.next = run.next + 1
      /\ Fails(S, new) => run'.next = run.next
  BY <1>1 DEF Continues, Fails, Runs
<1>3. run' # None
  <2>1. run' \in Runs
    <3> DEFINE T == Touching(S, new)
    <3>1. T \in SUBSET Touches /\ run.next + 1 \in Nat \ {0}
      BY <1>1, TouchingType DEF Runs, Remaining
    <3>2. \/ run' = [run EXCEPT !.next = @ + 1, !.touched = @ \cup T]
          \/ run' = [run EXCEPT !.touched = @ \cup T]
      BY DEF Continues, Fails
    <3> HIDE DEF T
    <3> QED BY <1>1, <3>1, <3>2 DEF Runs
  <2> QED BY <2>1, NoneAssumption DEF NoneAssumption
<1> QED BY <1>2, <1>3 DEF body

-----------------------------------------------------------------------------
(* What a planned list guarantees of a run.                                 *)

PlanAsMade == planFile # None => Reviewed(planFile)

RunAsMade ==
  run # None =>
    /\ AsPlanned(body)
    /\ run.verified => ~NeverVerifies(body)
    /\ \A j \in DOMAIN body.actions :
         j < run.next /\ body.actions[j].kind = "read-ingress-state" =>
           run.ingress

Ordered == PlanAsMade /\ RunAsMade /\ CleanupFailsClosed /\ DryRunApply

\* A step of somebody else: the run is as it was, or disturbed.
SameRun ==
  /\ run = None <=> run' = None
  /\ run # None => /\ run'.plan = run.plan /\ run'.snapshot = run.snapshot
                   /\ run'.next = run.next /\ run'.touched = run.touched
                   /\ run'.verified = run.verified
                   /\ run'.ingress = run.ingress
                   /\ run'.quiet => run.quiet /\ run'.switched = run.switched

Elsewhere ==
  \/ Planning \/ EditPlanFile
  \/ CaptureStart \/ Capturing \/ CaptureMisread \/ RecordFailedBackup
  \/ Crash \/ SaveLedger \/ Others \/ UNCHANGED vars

LEMMA ElsewhereKeepsRun ==
  ASSUME IInv, Elsewhere
  PROVE  SameRun
<1>1. run \in Runs \cup {None}
  BY DEF IInv, TypeOK
<1>2. ASSUME run' = run PROVE SameRun
  BY <1>2 DEF SameRun
<1>3. ASSUME run' = Disturbed(run) PROVE SameRun
  <2>1. CASE run = None
    BY <1>3, <2>1 DEF SameRun, Disturbed
  <2>2. CASE run # None
    <3>1. run' = [run EXCEPT !.quiet = FALSE]
      BY <1>3, <2>2 DEF Disturbed
    <3>2. run' # None
      BY <1>1, <1>3, <2>2, DisturbedType
    <3> QED BY <1>1, <2>2, <3>1, <3>2 DEF SameRun, Runs
  <2> QED BY <2>1, <2>2
<1>4. ASSUME NEW c \in Contexts, SwitchContext(c) PROVE SameRun
  <2>1. CASE run = None
    BY <1>4, <2>1 DEF SwitchContext, SameRun
  <2>2. CASE run # None
    <3>1. run' = [run EXCEPT !.quiet = FALSE, !.switched = TRUE]
      BY <1>4, <2>2 DEF SwitchContext
    <3>2. run' \in Runs
      BY <1>1, <2>2, <3>1 DEF Runs
    <3> QED BY <1>1, <2>2, <3>1, <3>2, NoneAssumption
            DEF SameRun, Runs, NoneAssumption
  <2> QED BY <2>1, <2>2
<1>5. CASE Others
  BY <1>2, <1>3, <1>4, <1>5
     DEF Others, ForeignWrite, EditSource, EditConfig, operator
<1>6. CASE ~Others
  <2>1. run' = run
    BY <1>6
       DEF Elsewhere, Planning, PlanChange, PlanRollback, EditPlanFile,
           CaptureStart, Capturing, CaptureVerify, CaptureRead, CaptureAbort,
           CaptureHangs, CaptureWrite, CaptureMisread, RecordFailedBackup,
           Crash, SaveLedger, vars, operator
  <2> QED BY <1>2, <2>1
<1> QED BY <1>5, <1>6

\* Neither planning nor the edits bring in a list of another shape.
LEMMA PlanningKeepsShape ==
  ASSUME IInv, PlanAsMade, Planning \/ EditPlanFile
  PROVE  PlanAsMade'
<1>1. ASSUME NEW command \in Commands, NEW mode \in Modes, NEW tree \in Trees,
             PlanChange(command, mode, tree)
      PROVE  PlanAsMade'
  <2>1. /\ command \in ChangeCommands /\ configured \in Contexts
        /\ Present(source[tree]) \in SUBSET Refs
    BY ControlAssumption DEF ControlAssumption, Present, IInv, TypeOK
  <2>2. planFile' = WithComputedId(ChangeBody(command, mode, configured, tree,
                                              Present(source[tree])))
    BY <1>1 DEF PlanChange
  <2>3. Reviewed(planFile')
    BY <2>1, <2>2, ChangeIsAsPlanned
  <2> QED BY <2>3 DEF PlanAsMade, Reviewed, AsPlanned, ReadsIngressFirst,
             VerifiesFirst, AppliesOnce, NeverVerifies, KeepsMode, WritesAt
<1>2. ASSUME NEW mode \in Modes, ledgerFile # None, NEW e \in ledgerFile,
             PlanRollback(e.run, mode)
      PROVE  PlanAsMade'
  <2>1. /\ ledgerFile \in SUBSET Entries /\ configured \in Contexts
        /\ e.run \in ChangeBodies
    BY <1>2 DEF IInv, TypeOK, Entries
  <2>2. planFile' = WithComputedId(
                      RollbackBody(ledgerFile, e.run, mode, configured))
    BY <1>2 DEF PlanRollback
  <2>3. Reviewed(planFile')
    BY <2>1, <2>2, RollbackIsAsPlanned
  <2> QED BY <2>3 DEF PlanAsMade, Reviewed, AsPlanned, ReadsIngressFirst,
             VerifiesFirst, AppliesOnce, NeverVerifies, KeepsMode, WritesAt
<1>3. CASE EditPlanFile
  <2>1. planFile \in Plans /\ Reviewed(planFile)
    BY <1>3 DEF EditPlanFile, IInv, TypeOK, PlanAsMade
  <2>2. ASSUME NEW mode \in Modes,
               planFile' = [planFile EXCEPT !.body.mode = mode]
        PROVE  Reviewed(planFile')
    <3>1. /\ planFile'.id = planFile.id
          /\ planFile'.body.actions = planFile.body.actions
          /\ planFile'.body.command = planFile.body.command
      BY <2>1, <2>2 DEF Plans, Bodies, ChangeBodies, RollbackBodies
    <3> QED BY <2>1, <3>1 DEF Reviewed
  <2>3. Reviewed(planFile')
    BY <1>3, <2>1, <2>2, TailIsAsPlanned DEF EditPlanFile
  <2> QED BY <2>3 DEF PlanAsMade, Reviewed, AsPlanned, ReadsIngressFirst,
             VerifiesFirst, AppliesOnce, NeverVerifies, KeepsMode, WritesAt
<1> QED BY <1>1, <1>2, <1>3 DEF Planning

\* Nobody else undoes what a run is known for.
LEMMA ElsewhereKeepsOrder ==
  ASSUME IInv, Ordered, SameRun
  PROVE  (RunAsMade /\ CleanupFailsClosed /\ DryRunApply)'
<1>1. CASE run = None
  BY <1>1 DEF SameRun, RunAsMade, CleanupFailsClosed, DryRunApply, Changed
<1>2. CASE run # None
  <2>1. body' = body
    BY <1>2 DEF SameRun, body
  <2>2. RunAsMade'
    BY <1>2, <2>1
       DEF SameRun, Ordered, RunAsMade, AsPlanned, ReadsIngressFirst,
           VerifiesFirst, AppliesOnce, NeverVerifies, KeepsMode, WritesAt
  <2>3. CleanupFailsClosed' /\ DryRunApply'
    BY <1>2, <2>1
       DEF SameRun, Ordered, CleanupFailsClosed, DryRunApply, Changed
  <2> QED BY <2>2, <2>3
<1> QED BY <1>1, <1>2

\* The next action is one of the list.
LEMMA StepIsListed ==
  ASSUME IInv, Remaining
  PROVE  /\ run.next \in DOMAIN body.actions
         /\ Step = body.actions[run.next]
         /\ DOMAIN body.actions \subseteq Nat \ {0}
         /\ run \in Runs /\ run # None /\ body \in Bodies
         /\ phase = "executing"
<1>1. /\ run \in Runs /\ run # None /\ body \in Bodies
      /\ phase = "executing"
  BY RunningType DEF Remaining
<1>2. \/ body.actions \in Seq(ActionsOf(ChangeKinds))
      \/ body.actions \in Seq(ActionsOf(UndoKinds))
  BY <1>1 DEF Bodies, ChangeBodies, RollbackBodies
<1>3. /\ DOMAIN body.actions = 1..Len(body.actions)
      /\ Len(body.actions) \in Nat
  BY <1>2
<1>4. run.next \in Nat \ {0} /\ run.next <= Len(body.actions)
  BY <1>1 DEF Runs, Remaining
<1> QED BY <1>1, <1>3, <1>4 DEF Step

\* A write has the ingress read before it, and is none in a dry run.
LEMMA WriteIsInOrder ==
  ASSUME IInv, Ordered, Remaining, NEW S, NEW new, Wrote(S, new), S # {}
  PROVE  /\ body.command \in Cleanups => run.ingress
         /\ ~(body.command \in RecordedCommands /\ body.mode = DryRun)
         /\ body.command \in RecordedCommands =>
              Step.kind = "kubectl-apply" /\ S \subseteq Present(docs)
<1>1. /\ run.next \in DOMAIN body.actions
      /\ Step = body.actions[run.next]
      /\ run # None
  BY StepIsListed
<1>2. WritesAt(body, run.next) /\ run.verified
  BY <1>1 DEF Wrote, WritesAt
<1>3. AsPlanned(body) /\ KeepsMode(body)
  BY <1>1, <1>2 DEF Ordered, RunAsMade, AsPlanned
<1>4. body.command \in Cleanups => run.ingress
  BY <1>1, <1>2, <1>3
     DEF AsPlanned, ReadsIngressFirst, Ordered, RunAsMade
<1>5. body.command \in RecordedCommands => Step.kind = "kubectl-apply"
  BY <1>1, <1>2, <1>3 DEF AsPlanned, AppliesOnce
<1>6. ~(body.command \in RecordedCommands /\ body.mode = DryRun)
  BY <1>1, <1>2, <1>3, <1>5 DEF KeepsMode, Wrote
<1> QED BY <1>4, <1>5, <1>6 DEF Wrote

\* Steps of the executor keep the order.
LEMMA ExecutingKeepsOrder ==
  ASSUME IInv, Ordered, Executing
  PROVE  (RunAsMade /\ CleanupFailsClosed /\ DryRunApply)'
<1>1. ASSUME Remaining, body' = body, run' # None,
             run'.verified => run.verified \/ Step.kind = "verify-context",
             run.ingress => run'.ingress,
             \/ run'.next = run.next
             \/ /\ run'.next = run.next + 1
                /\ Step.kind = "read-ingress-state" => run'.ingress
      PROVE  RunAsMade'
  <2>1. /\ run.next \in DOMAIN body.actions
        /\ Step = body.actions[run.next]
        /\ DOMAIN body.actions \subseteq Nat \ {0}
        /\ run # None
    BY <1>1, StepIsListed
  <2>2. AsPlanned(body)'
    BY <1>1, <2>1
       DEF Ordered, RunAsMade, AsPlanned, ReadsIngressFirst, VerifiesFirst,
           AppliesOnce, NeverVerifies, KeepsMode, WritesAt
  <2>3. (run.verified => ~NeverVerifies(body))'
    BY <1>1, <2>1 DEF Ordered, RunAsMade, NeverVerifies
  <2>4. ASSUME NEW j \in DOMAIN body.actions, j < run'.next,
               body.actions[j].kind = "read-ingress-state"
        PROVE  run'.ingress
    <3>1. CASE j < run.next
      BY <1>1, <2>1, <2>4, <3>1 DEF Ordered, RunAsMade
    <3>2. CASE ~(j < run.next)
      <4>1. j = run.next /\ run'.next = run.next + 1
        BY <1>1, <2>1, <2>4, <3>2
      <4> QED BY <1>1, <2>1, <2>4, <4>1
    <3> QED BY <3>1, <3>2
  <2> QED BY <1>1, <2>2, <2>3, <2>4 DEF RunAsMade
<1>2. ASSUME Remaining, NEW S \in SUBSET Refs, NEW new \in ClusterStates,
             Wrote(S, new), Continues(S, new) \/ Fails(S, new),
             Continues(S, new) => Step.kind # "read-ingress-state"
      PROVE  (RunAsMade /\ CleanupFailsClosed /\ DryRunApply)'
  <2>1. /\ run' # None /\ body' = body
        /\ run'.verified = run.verified /\ run'.ingress = run.ingress
        /\ run'.touched = run.touched \cup Touching(S, new)
        /\ Continues(S, new) => run'.next = run.next + 1
        /\ Fails(S, new) => run'.next = run.next
    BY <1>2, RunAfter
  <2>2. RunAsMade'
    BY <1>1, <1>2, <2>1
  <2>3. run # None /\ (S = {} => Touching(S, new) = {})
    BY <1>2, StepIsListed, TouchingType
  <2>4. CASE S = {}
    BY <2>1, <2>2, <2>3, <2>4
       DEF Ordered, CleanupFailsClosed, DryRunApply, Changed
  <2>5. CASE S # {}
    <3>1. /\ body.command \in Cleanups => run.ingress
          /\ ~(body.command \in RecordedCommands /\ body.mode = DryRun)
      BY <1>2, <2>5, WriteIsInOrder
    <3> QED BY <2>1, <2>2, <3>1
            DEF CleanupFailsClosed, DryRunApply, Changed, Cleanups
  <2> QED BY <2>4, <2>5
<1>3. CASE FailedStep
  <2>1. PICK S \in SUBSET Refs, new \in ClusterStates :
          Wrote(S, new) /\ Fails(S, new)
    BY <1>3 DEF FailedStep
  <2>2. ~Continues(S, new)
    BY <2>1, <1>3, StepIsListed DEF FailedStep, Continues, Fails
  <2> QED BY <1>2, <1>3, <2>1, <2>2 DEF FailedStep
<1>4. CASE PassedStep
  <2>1. PICK S \in SUBSET Refs, new \in ClusterStates :
          Wrote(S, new) /\ Continues(S, new)
    BY <1>4 DEF PassedStep
  <2> QED BY <1>2, <1>4, <2>1 DEF PassedStep
<1>5. CASE ReadStep
  <2>1. /\ run' # None /\ body' = body
        /\ run'.touched = run.touched /\ run.ingress => run'.ingress
        /\ run # None
    BY <1>5, StepIsListed, NoneAssumption DEF ReadStep, NoneAssumption, body
  <2>2. RunAsMade'
    BY <1>1, <1>5, <2>1 DEF ReadStep
  <2> QED BY <1>5, <2>1, <2>2
          DEF ReadStep, Ordered, CleanupFailsClosed, DryRunApply, Changed
<1>6. CASE Finish
  <2>1. SameRun
    BY <1>6 DEF Finish, SameRun
  <2> QED BY <2>1, ElsewhereKeepsOrder
<1> QED BY <1>3, <1>4, <1>5, <1>6, StepForms

\* A run starts with nothing touched, from a plan that is what its identifier
\* says.
LEMMA AdmissionKeepsOrder ==
  ASSUME IInv, Ordered, Admission
  PROVE  (RunAsMade /\ CleanupFailsClosed /\ DryRunApply)'
<1>1. PICK command \in Commands \cup {RollbackCommand}, mode \in Modes,
           expected \in Contexts, confirmed \in BOOLEAN :
             Admit(command, mode, expected, confirmed)
  BY DEF Admission
<1>2. /\ run'.plan = planFile /\ run'.touched = {} /\ run'.verified = FALSE
      /\ run'.next = 1
  BY <1>1 DEF Admit
<1>3. planFile \in Plans /\ planFile # None /\ Intact(planFile)
  BY <1>1 DEF Admit, Authorised, IInv, TypeOK
<1>4. body' = planFile.id
  BY <1>2, <1>3 DEF Intact, body
<1>5. AsPlanned(planFile.id)
  BY <1>3 DEF Ordered, PlanAsMade, Reviewed
<1>6. \A j \in DOMAIN planFile.id.actions : j \in Nat \ {0}
  <2>1. \/ planFile.id.actions \in Seq(ActionsOf(ChangeKinds))
        \/ planFile.id.actions \in Seq(ActionsOf(UndoKinds))
    BY <1>3 DEF Plans, Bodies, ChangeBodies, RollbackBodies
  <2> QED BY <2>1
<1>7. RunAsMade'
  <2>1. AsPlanned(body)'
    BY <1>4, <1>5
       DEF AsPlanned, ReadsIngressFirst, VerifiesFirst, AppliesOnce,
           NeverVerifies, KeepsMode, WritesAt
  <2>2. \A j \in DOMAIN body'.actions : ~(j < 1)
    BY <1>4, <1>6
  <2> QED BY <1>2, <2>1, <2>2 DEF RunAsMade
<1> QED BY <1>2, <1>7 DEF CleanupFailsClosed, DryRunApply, Changed

LEMMA OrderIsKept == Safety => []Ordered
<1>1. Init => Ordered
  BY DEF Init, Ordered, PlanAsMade, RunAsMade, CleanupFailsClosed,
         DryRunApply, Changed
<1>2. IInv /\ Ordered /\ [Next]_vars => Ordered'
  <2> SUFFICES ASSUME IInv, Ordered, [Next]_vars PROVE Ordered'
    OBVIOUS
  <2>1. ASSUME planFile' = planFile PROVE PlanAsMade'
    BY <2>1
       DEF Ordered, PlanAsMade, Reviewed, AsPlanned, ReadsIngressFirst,
           VerifiesFirst, AppliesOnce, NeverVerifies, KeepsMode, WritesAt
  <2>2. PlanAsMade'
    <3>1. CASE Planning \/ EditPlanFile
      BY <3>1, PlanningKeepsShape DEF Ordered
    <3>2. CASE Executing
      BY <2>1, <3>2, StepForms
         DEF FailedStep, PassedStep, ReadStep, Reads, Fails, Continues, Finish
    <3>3. CASE ~(Planning \/ EditPlanFile \/ Executing)
      <4>1. planFile' = planFile
        BY <3>3
           DEF Next, CaptureStart, Capturing, CaptureVerify, CaptureRead,
               CaptureAbort, CaptureHangs, CaptureWrite, CaptureMisread,
               RecordFailedBackup, Crash, SaveLedger, vars, operator,
               Admission, Admit, Others, ForeignWrite, SwitchContext,
               EditSource, EditConfig, DisturbAll
      <4> QED BY <2>1, <4>1
    <3> QED BY <3>1, <3>2, <3>3
  <2>3. CASE Executing
    BY <2>2, <2>3, ExecutingKeepsOrder DEF Ordered
  <2>4. CASE Admission
    BY <2>2, <2>4, AdmissionKeepsOrder DEF Ordered
  <2>5. CASE Elsewhere
    BY <2>2, <2>5, ElsewhereKeepsRun, ElsewhereKeepsOrder DEF Ordered
  <2> QED BY <2>3, <2>4, <2>5 DEF Next, Elsewhere
<1> QED BY <1>1, <1>2, Inductive, PTL DEF Safety

\* Whatever was edited in a plan file, a cutover or cleanup changes nothing
\* before the state of the ingress was read.
THEOREM FailsClosed == Safety => []CleanupFailsClosed
<1>1. Ordered => CleanupFailsClosed
  BY DEF Ordered
<1> QED BY <1>1, OrderIsKept, PTL

\* A run of an apply command whose plan says dry run changes nothing.
THEOREM DryRunTouchesNothing == Safety => []DryRunApply
<1>1. Ordered => DryRunApply
  BY DEF Ordered
<1> QED BY <1>1, OrderIsKept, PTL

-----------------------------------------------------------------------------
(* What is known as long as nobody disturbs.                                *)

\* What was found of the resources of a plan is what its cluster holds.
Agrees(b, found) == \A r \in b.resources : found[r] = cluster[b.context][r]

CaptureTrue ==
  phase = "capturing" /\ capture.quiet =>
    /\ StartQuiet(capture.plan.body)
    /\ capture.checked => current = capture.plan.body.context
    /\ \A i \in DOMAIN CaptureOrder :
         i < capture.next =>
           capture.found[CaptureOrder[i]] =
             cluster[capture.plan.body.context][CaptureOrder[i]]

SnapshotTrue ==
  snapshotFile # None /\ snapshotFile.quiet =>
    /\ snapshotFile.of \in Bodies
    /\ StartQuiet(snapshotFile.of)
    /\ Agrees(snapshotFile.of, snapshotFile.resources)

\* The run is past the write of its list.
PastWrite == \E i \in DOMAIN body.actions : i < run.next /\ WritesAt(body, i)

\* A touch is of a planned resource, which was as the snapshot says.
Covered(t) == /\ t.ref \in body.resources
              /\ t.context = body.context
              /\ t.old = run.snapshot[t.ref]

RunTrue ==
  run # None /\ run.quiet =>
    /\ ~run.switched
    /\ phase = "executing" => StartQuiet(body)
    /\ phase = "executing" /\ run.touched = {} => Agrees(body, run.snapshot)
    /\ body.command \in RecordedCommands =>
         /\ \A t \in run.touched : Covered(t)
         /\ phase = "executing" /\ run.touched # {} => PastWrite

Touched == {<<t.ref, t.old>> : t \in run.touched}
Covers == {<<r, run.snapshot[r]>> : r \in body.resources}

LedgerTrue ==
  /\ phase = "executing" => report.status # "succeeded"
  /\ ( /\ run # None /\ run.quiet
       /\ body.command \in RecordedCommands /\ body.mode = "live" ) =>
       /\ phase = "executing" /\ PastWrite => Touched = Covers
       /\ report.status = "succeeded" =>
            /\ Touched = Covers
            /\ report.ledger = LedgerFromResources(
                 body.resources, run.snapshot, run.plan.id)

Known == CaptureTrue /\ SnapshotTrue /\ RunTrue /\ LedgerTrue

\* A write that sets nothing leaves the cluster.
LEMMA NothingWritten ==
  ASSUME IInv, NEW S, NEW new, Wrote(S, new), Writes(S, new), S = {}
  PROVE  cluster' = cluster
<1>1. here \in ClusterStates /\ cluster \in [Contexts -> ClusterStates]
        /\ current \in Contexts
  BY DEF here, IInv, TypeOK
<1>2. new = here
  BY <1>1 DEF Wrote, ClusterStates
<1> QED BY <1>1, <1>2 DEF Writes, here

\* A step that changes nothing the records speak of.
LEMMA KnownStays ==
  ASSUME Known, phase' \in {phase, "idle"},
         UNCHANGED <<cluster, current, source, capture, snapshotFile, run,
                     report>>
  PROVE  Known'
<1>1. CaptureTrue'
  BY DEF Known, CaptureTrue, StartQuiet, CaptureOrder
<1>2. SnapshotTrue'
  BY DEF Known, SnapshotTrue, StartQuiet, Agrees
<1>3. RunTrue'
  BY DEF Known, RunTrue, StartQuiet, Agrees, PastWrite, WritesAt, Covered,
         body
<1>4. LedgerTrue'
  BY DEF Known, LedgerTrue, Touched, Covers, PastWrite, WritesAt, body
<1> QED BY <1>1, <1>2, <1>3, <1>4 DEF Known

\* Capturing reads under a verified context, resource by resource.
LEMMA CapturingKeepsKnown ==
  ASSUME IInv, Known,
         CaptureStart \/ Capturing \/ CaptureMisread \/ RecordFailedBackup
  PROVE  Known'
<1>1. /\ UNCHANGED <<run, report, cluster, current, source>>
      /\ phase # "executing" /\ phase' # "executing"
  BY DEF CaptureStart, Capturing, CaptureVerify, CaptureRead, CaptureAbort,
         CaptureHangs, CaptureWrite, CaptureMisread, RecordFailedBackup,
         environment
<1>2. RunTrue'
  BY <1>1 DEF Known, RunTrue, Covered, body
<1>3. LedgerTrue'
  BY <1>1 DEF Known, LedgerTrue, Touched, Covers, body
<1>4. ASSUME snapshotFile' = snapshotFile PROVE SnapshotTrue'
  BY <1>1, <1>4 DEF Known, SnapshotTrue, StartQuiet, Agrees
<1>5. ASSUME phase = "capturing"
      PROVE  /\ capture \in Captures
             /\ capture.plan.body \in Bodies
             /\ CaptureOrder \in Seq(Refs)
             /\ {CaptureOrder[i] : i \in DOMAIN CaptureOrder}
                  = capture.plan.body.resources
             /\ capture.next \in Nat
  <2>1. capture \in Captures
    BY <1>5 DEF IInv, TypeOK
  <2>2. capture.plan.body \in Bodies /\ capture.next \in Nat
    BY <2>1 DEF Captures, Plans
  <2>3. capture.plan.body.resources \in SUBSET Refs
    BY <2>2 DEF Bodies, ChangeBodies, RollbackBodies
  <2> QED BY <2>1, <2>2, <2>3, PlanAssumption
          DEF PlanAssumption, CaptureOrder
<1>6. CASE CaptureStart
  <2>1. /\ capture'.plan = planFile /\ capture'.next = 1
        /\ capture'.checked = FALSE
        /\ capture'.quiet => StartQuiet(planFile.body)
    BY <1>6 DEF CaptureStart
  <2>2. \A i \in DOMAIN CaptureOrder' : ~(i < 1)
    <3>1. planFile.body.resources \in SUBSET Refs
      BY <1>6 DEF CaptureStart, IInv, TypeOK, Plans, Bodies, ChangeBodies,
                  RollbackBodies
    <3>2. CaptureOrder' \in Seq(Refs)
      BY <2>1, <3>1, PlanAssumption DEF PlanAssumption, CaptureOrder
    <3> QED BY <3>2
  <2>3. CaptureTrue'
    BY <1>1, <2>1, <2>2 DEF CaptureTrue, StartQuiet
  <2> QED BY <1>2, <1>3, <1>4, <1>6, <2>3 DEF CaptureStart, Known
<1>7. CASE CaptureVerify
  <2>1. phase = "capturing" /\ capture \in Captures
    BY <1>5, <1>7 DEF CaptureVerify
  <2>2. /\ capture'.plan = capture.plan /\ capture'.next = capture.next
        /\ capture'.found = capture.found /\ capture'.quiet = capture.quiet
        /\ current = capture.plan.body.context
    BY <1>7, <2>1 DEF CaptureVerify, Captures
  <2>3. CaptureTrue'
    BY <1>1, <2>1, <2>2 DEF Known, CaptureTrue, StartQuiet, CaptureOrder
  <2> QED BY <1>2, <1>3, <1>4, <1>7, <2>3 DEF CaptureVerify, Known
<1>8. CASE CaptureRead
  <2> DEFINE ref == CaptureOrder[capture.next]
  <2>1. /\ phase = "capturing" /\ capture \in Captures
        /\ CaptureOrder \in Seq(Refs) /\ capture.next \in Nat \ {0}
        /\ capture.next <= Len(CaptureOrder) /\ capture.checked
    BY <1>5, <1>8 DEF CaptureRead, Captured, Captures
  <2>2. ref \in Refs
    BY <2>1
  <2>3. /\ capture'.plan = capture.plan /\ capture'.next = capture.next + 1
        /\ capture'.quiet = capture.quiet /\ ~capture'.checked
        /\ capture'.found = [capture.found EXCEPT
                               ![ref] = cluster[current][ref]]
    BY <1>8, <2>1 DEF CaptureRead, Captures
  <2>4. CaptureOrder' = CaptureOrder
    BY <2>3 DEF CaptureOrder
  <2>5. ASSUME capture.quiet, NEW i \in DOMAIN CaptureOrder,
               i < capture.next + 1
        PROVE  capture'.found[CaptureOrder[i]] =
                 cluster[capture.plan.body.context][CaptureOrder[i]]
    <3>1. CaptureOrder[i] \in Refs /\ capture.found \in ClusterStates
      BY <2>1, <2>5 DEF Captures
    <3>2. CASE CaptureOrder[i] = ref
      <4>1. current = capture.plan.body.context
        BY <2>1, <2>5 DEF Known, CaptureTrue
      <4> HIDE DEF ref
      <4> QED BY <2>2, <2>3, <3>1, <3>2, <4>1 DEF ClusterStates
    <3>3. CASE CaptureOrder[i] # ref
      <4>1. i # capture.next
        BY <3>3
      <4>2. i < capture.next
        BY <2>1, <2>5, <4>1
      <4>3. capture.found[CaptureOrder[i]] =
              cluster[capture.plan.body.context][CaptureOrder[i]]
        BY <2>1, <2>5, <4>2 DEF Known, CaptureTrue
      <4> HIDE DEF ref
      <4> QED BY <2>3, <3>1, <3>3, <4>3 DEF ClusterStates
    <3> QED BY <3>2, <3>3
  <2>6. CaptureTrue'
    <3> HIDE DEF ref
    <3> QED BY <1>1, <2>1, <2>3, <2>4, <2>5
            DEF Known, CaptureTrue, StartQuiet
  <2> QED BY <1>2, <1>3, <1>4, <1>8, <2>6 DEF CaptureRead, Known
<1>9. CASE CaptureMisread
  <2>1. ~capture'.quiet
    BY <1>5, <1>9 DEF CaptureMisread, Captures
  <2>2. CaptureTrue'
    BY <2>1 DEF CaptureTrue
  <2> QED BY <1>2, <1>3, <1>4, <1>9, <2>2 DEF CaptureMisread, Known
<1>10. CASE CaptureAbort \/ CaptureHangs
  <2>1. CaptureTrue'
    BY <1>10 DEF CaptureAbort, CaptureHangs, CaptureTrue
  <2> QED BY <1>2, <1>3, <1>4, <1>10, <2>1
          DEF CaptureAbort, CaptureHangs, Known
<1>11. CASE CaptureWrite
  <2>1. /\ phase = "capturing" /\ capture \in Captures
        /\ capture.plan.body \in Bodies
        /\ CaptureOrder \in Seq(Refs)
        /\ {CaptureOrder[i] : i \in DOMAIN CaptureOrder}
             = capture.plan.body.resources
        /\ capture.next \in Nat
        /\ capture.next > Len(CaptureOrder)
    BY <1>5, <1>11 DEF CaptureWrite, Captured
  <2>2. /\ snapshotFile'.of = capture.plan.body
        /\ snapshotFile'.resources = capture.found
        /\ snapshotFile'.quiet = capture.quiet
    BY <1>11 DEF CaptureWrite
  <2>3. ASSUME capture.quiet
        PROVE  Agrees(capture.plan.body, capture.found)
    <3> SUFFICES ASSUME NEW r \in capture.plan.body.resources
                 PROVE  capture.found[r] =
                          cluster[capture.plan.body.context][r]
      BY DEF Agrees
    <3>1. PICK i \in DOMAIN CaptureOrder : CaptureOrder[i] = r
      BY <2>1
    <3>2. i < capture.next
      BY <2>1
    <3> QED BY <2>1, <2>3, <3>1, <3>2 DEF Known, CaptureTrue
  <2>4. SnapshotTrue'
    BY <1>1, <2>1, <2>2, <2>3
       DEF SnapshotTrue, Known, CaptureTrue, StartQuiet, Agrees
  <2>5. CaptureTrue'
    BY <1>11 DEF CaptureWrite, CaptureTrue
  <2> QED BY <1>2, <1>3, <2>4, <2>5 DEF Known
<1>12. CASE RecordFailedBackup
  <2>1. ~snapshotFile'.quiet
    BY <1>12 DEF RecordFailedBackup
  <2>2. CaptureTrue' /\ SnapshotTrue'
    BY <1>12, <2>1 DEF RecordFailedBackup, CaptureTrue, SnapshotTrue
  <2> QED BY <1>2, <1>3, <2>2 DEF Known
<1> QED
  BY <1>6, <1>7, <1>8, <1>9, <1>10, <1>11, <1>12 DEF Capturing

\* Everybody else's steps leave nothing quiet.
LEMMA OthersKeepKnown ==
  ASSUME IInv, Known, Others
  PROVE  Known'
<1>1. CASE \E c \in Contexts : EditConfig(c)
  BY <1>1, KnownStays DEF EditConfig, operator
<1>2. CASE DisturbAll /\ (run # None => ~run'.quiet) /\
           (run = None => run' = None)
  <2>1. snapshotFile # None => ~snapshotFile'.quiet
    BY <1>2 DEF DisturbAll, Disturbed, IInv, TypeOK, Snapshots
  <2>2. phase = "capturing" => ~capture'.quiet
    BY <1>2 DEF DisturbAll, Disturbed, IInv, TypeOK, Captures
  <2>3. SnapshotTrue'
    BY <1>2, <2>1 DEF DisturbAll, Disturbed, SnapshotTrue
  <2>4. CaptureTrue'
    BY <1>2, <2>2 DEF DisturbAll, CaptureTrue
  <2>5. RunTrue' /\ LedgerTrue'
    BY <1>2 DEF DisturbAll, RunTrue, LedgerTrue, Known
  <2> QED BY <2>3, <2>4, <2>5 DEF Known
<1>3. run \in Runs \cup {None}
  BY DEF IInv, TypeOK
<1>4. CASE \E c \in Contexts, r \in Refs, m \in Live : ForeignWrite(c, r, m)
  BY <1>2, <1>3, <1>4 DEF ForeignWrite, Disturbed, Runs
<1>5. CASE \E c \in Contexts : SwitchContext(c)
  BY <1>2, <1>3, <1>5 DEF SwitchContext, Runs
<1>6. CASE \E tree \in Trees, r \in Refs, m \in Live : EditSource(tree, r, m)
  BY <1>2, <1>3, <1>6 DEF EditSource, Disturbed, Runs
<1> QED BY <1>1, <1>4, <1>5, <1>6 DEF Others

\* A run that is admitted knows what the snapshot of its plan knows.
LEMMA AdmissionKeepsKnown ==
  ASSUME IInv, Known, Admission
  PROVE  Known'
<1>1. PICK command \in Commands \cup {RollbackCommand}, mode \in Modes,
           expected \in Contexts, confirmed \in BOOLEAN :
             Admit(command, mode, expected, confirmed)
  BY DEF Admission
<1>2. /\ run'.plan = planFile /\ run'.touched = {} /\ run'.next = 1
      /\ run'.switched = FALSE
      /\ run'.snapshot = snapshotFile.resources
      /\ run'.quiet => snapshotFile.quiet /\ snapshotFile.of = planFile.body
      /\ UNCHANGED <<cluster, current, source, snapshotFile, capture>>
      /\ phase' = "executing" /\ report'.status = "none"
      /\ snapshotFile # None /\ planFile \in Plans
  BY <1>1 DEF Admit, Authorised, IInv, TypeOK
<1>3. CaptureTrue' /\ SnapshotTrue'
  BY <1>2 DEF CaptureTrue, Known, SnapshotTrue, StartQuiet, Agrees
<1>4. body' = planFile.body
  BY <1>2 DEF body
<1>5. RunTrue'
  BY <1>2, <1>4
     DEF RunTrue, Known, SnapshotTrue, StartQuiet, Agrees
<1>6. ~PastWrite'
  <2>1. \A j \in DOMAIN planFile.body.actions : ~(j < 1)
    <3>1. \/ planFile.body.actions \in Seq(ActionsOf(ChangeKinds))
          \/ planFile.body.actions \in Seq(ActionsOf(UndoKinds))
      BY <1>2 DEF Plans, Bodies, ChangeBodies, RollbackBodies
    <3> QED BY <3>1
  <2> QED BY <1>2, <1>4, <2>1 DEF PastWrite
<1>7. LedgerTrue'
  BY <1>2, <1>6 DEF LedgerTrue
<1> QED BY <1>3, <1>5, <1>7 DEF Known

\* A write of an undisturbed run that has a fresh ledger is its first, and
\* what it overwrites is in the snapshot.
LEMMA WriteIsCovered ==
  ASSUME IInv, Ordered, Known, Remaining, NEW S \in SUBSET Refs,
         NEW new \in ClusterStates, Step.kind \in WriteKinds, run.verified,
         S \subseteq Present(docs),
         run.quiet, body.command \in RecordedCommands
  PROVE  /\ run.touched = {}
         /\ Present(docs) = body.resources
         /\ \A t \in Touching(S, new) : Covered(t)
         /\ Step.kind = "kubectl-apply"
<1>1. /\ run.next \in DOMAIN body.actions
      /\ Step = body.actions[run.next]
      /\ DOMAIN body.actions \subseteq Nat \ {0}
      /\ run \in Runs /\ run # None /\ body \in Bodies
      /\ phase = "executing"
  BY StepIsListed
<1>2. WritesAt(body, run.next) /\ AsPlanned(body)
  BY <1>1 DEF WritesAt, Ordered, RunAsMade
<1>3. PICK w \in DOMAIN body.actions :
        /\ body.actions[w].kind = "kubectl-apply"
        /\ \A i \in DOMAIN body.actions : WritesAt(body, i) => i = w
  BY <1>2 DEF AsPlanned, AppliesOnce
<1>4. run.next = w /\ Step.kind = "kubectl-apply"
  BY <1>1, <1>2, <1>3
<1>5. ~PastWrite
  BY <1>1, <1>3, <1>4 DEF PastWrite
<1>6. run.touched = {}
  BY <1>1, <1>5 DEF Known, RunTrue
<1>7. body.overlay \in Trees
  BY <1>1 DEF Bodies, ChangeBodies, RollbackBodies, RollbackCommand,
              RecordedCommands
<1>8. Present(docs) = body.resources
  BY <1>1, <1>7 DEF Known, RunTrue, StartQuiet, docs
<1>9. current = body.context /\ Agrees(body, run.snapshot)
  BY <1>1, <1>6 DEF Known, RunTrue, IInv, Armed
<1>10. ASSUME NEW t \in Touching(S, new) PROVE Covered(t)
  <2>1. PICK r \in S : t = [context |-> current, ref |-> r,
                            old |-> here[r], new |-> new[r]]
    BY DEF Touching
  <2>2. t.context = current /\ t.ref = r /\ t.old = here[r]
    BY <2>1
  <2>3. r \in body.resources
    BY <1>8
  <2> QED BY <1>9, <2>2, <2>3 DEF Covered, Agrees, here
<1> QED BY <1>4, <1>6, <1>8, <1>10

\* Steps of the executor keep what is known.
LEMMA ExecutingKeepsKnown ==
  ASSUME IInv, Ordered, Known, Executing
  PROVE  Known'
<1>1. ASSUME Remaining, NEW S \in SUBSET Refs, NEW new \in ClusterStates,
             Wrote(S, new), Continues(S, new) \/ Fails(S, new),
             Continues(S, new) /\ Step.kind = "kubectl-apply" /\ ~Step.dryRun
               => S = Present(docs),
             Continues(S, new) /\ Step.kind \in WriteKinds => run.verified
      PROVE  Known'
  <2>1. /\ run' # None /\ body' = body
        /\ run'.plan = run.plan /\ run'.snapshot = run.snapshot
        /\ run'.quiet = run.quiet /\ run'.switched = run.switched
        /\ run'.touched = run.touched \cup Touching(S, new)
        /\ Continues(S, new) => run'.next = run.next + 1
        /\ Fails(S, new) => run'.next = run.next
    BY <1>1, RunAfter
  <2>2. /\ run.next \in DOMAIN body.actions
        /\ Step = body.actions[run.next]
        /\ DOMAIN body.actions \subseteq Nat \ {0}
        /\ run \in Runs /\ run # None /\ body \in Bodies
        /\ phase = "executing"
    BY <1>1, StepIsListed
  <2>3. /\ source' = source /\ current' = current /\ Writes(S, new)
        /\ Continues(S, new) => phase' = phase /\ report' = report
        /\ Fails(S, new) => /\ phase' \in {"idle", "stuck"}
                            /\ report'.status \in {"failed", "none"}
    BY <1>1 DEF Continues, Fails
  <2>4. CaptureTrue'
    BY <1>1, <2>2, <2>3 DEF CaptureTrue
  <2>5. S = {} => /\ cluster' = cluster /\ snapshotFile' = snapshotFile
                  /\ run'.touched = run.touched
    BY <1>1, <2>1, <2>2, <2>3, NothingWritten, TouchingType DEF Writes
  <2>6. SnapshotTrue'
    <3>1. CASE S = {}
      BY <2>3, <2>5, <3>1 DEF Known, SnapshotTrue, StartQuiet, Agrees
    <3>2. CASE S # {}
      <4>1. snapshotFile' = Disturbed(snapshotFile)
        BY <2>3, <3>2 DEF Writes
      <4>2. snapshotFile # None => ~snapshotFile'.quiet
        BY <4>1 DEF Disturbed, IInv, TypeOK, Snapshots
      <4> QED BY <4>1, <4>2 DEF SnapshotTrue, Disturbed
    <3> QED BY <3>1, <3>2
  <2>7. S # {} => run'.touched # {}
    <3> SUFFICES ASSUME S # {} PROVE run'.touched # {}
      OBVIOUS
    <3>1. PICK r \in S : TRUE
      OBVIOUS
    <3>2. [context |-> current, ref |-> r, old |-> here[r], new |-> new[r]]
            \in Touching(S, new)
      BY DEF Touching
    <3> QED BY <2>1, <3>2
  <2>8. Continues(S, new) /\ Step.kind \in WriteKinds => PastWrite'
    BY <2>1, <2>2 DEF PastWrite, WritesAt
  <2>9. Continues(S, new) /\ PastWrite => PastWrite'
    BY <2>1, <2>2 DEF PastWrite, WritesAt, Runs
  <2>10. ASSUME run.quiet, body.command \in RecordedCommands, S # {}
         PROVE  /\ run.touched = {}
                /\ \A t \in Touching(S, new) : Covered(t)
    <3>1. S \subseteq Present(docs) /\ run.verified
          /\ Step.kind \in WriteKinds
      BY <1>1, <2>10, WriteIsInOrder DEF Wrote
    <3> QED BY <1>1, <2>10, <3>1, WriteIsCovered
  <2>11. RunTrue'
    <3> SUFFICES ASSUME run'.quiet PROVE RunTrue'
      BY DEF RunTrue
    <3>1. ~run'.switched /\ (phase' = "executing" => StartQuiet(body)')
      BY <2>1, <2>2, <2>3 DEF Known, RunTrue, StartQuiet
    <3>2. phase' = "executing" /\ run'.touched = {} =>
            Agrees(body, run.snapshot)'
      <4> SUFFICES ASSUME run'.touched = {}
                   PROVE  Agrees(body, run.snapshot)'
        OBVIOUS
      <4>1. S = {} /\ run.touched = {} /\ cluster' = cluster
        BY <2>1, <2>5, <2>7
      <4>2. Agrees(body, run.snapshot)
        BY <2>1, <2>2, <4>1 DEF Known, RunTrue
      <4> QED BY <2>1, <4>1, <4>2 DEF Agrees
    <3>3. ASSUME body.command \in RecordedCommands, NEW t \in run'.touched
          PROVE  Covered(t)'
      <4>1. Covered(t)
        <5>1. CASE S = {}
          BY <2>1, <2>2, <2>5, <3>3, <5>1 DEF Known, RunTrue
        <5>2. CASE S # {}
          BY <2>1, <2>10, <3>3, <5>2
        <5> QED BY <5>1, <5>2
      <4> QED BY <2>1, <4>1 DEF Covered
    <3>4. ASSUME body.command \in RecordedCommands, phase' = "executing",
                 run'.touched # {}
          PROVE  PastWrite'
      <4>1. Continues(S, new)
        BY <1>1, <2>3, <3>4
      <4>2. CASE S = {}
        BY <2>1, <2>2, <2>5, <2>9, <3>4, <4>1, <4>2 DEF Known, RunTrue
      <4>3. CASE S # {}
        BY <1>1, <2>8, <4>1, <4>3 DEF Wrote
      <4> QED BY <4>2, <4>3
    <3> QED BY <2>1, <3>1, <3>2, <3>3, <3>4 DEF RunTrue
  <2>12. LedgerTrue'
    <3>1. phase' = "executing" => report'.status # "succeeded"
      BY <1>1, <2>2, <2>3 DEF Known, LedgerTrue
    <3>2. report'.status # "succeeded"
      BY <1>1, <2>2, <2>3 DEF Known, LedgerTrue
    <3>3. ASSUME run'.quiet, body.command \in RecordedCommands,
                 body.mode = "live", phase' = "executing", PastWrite'
          PROVE  (Touched = Covers)'
      <4>1. Continues(S, new)
        BY <1>1, <2>3, <3>3
      <4>2. Covers' = Covers
        BY <2>1 DEF Covers
      <4>3. CASE Step.kind \notin WriteKinds
        <5>1. S = {} /\ run'.touched = run.touched
          BY <1>1, <2>5, <4>3 DEF Wrote
        <5>2. PastWrite
          BY <2>1, <2>2, <3>3, <4>1, <4>3 DEF PastWrite, WritesAt, Runs
        <5>3. Touched = Covers
          BY <2>1, <2>2, <3>3, <5>2 DEF Known, LedgerTrue
        <5> QED BY <4>2, <5>1, <5>3 DEF Touched
      <4>4. CASE Step.kind \in WriteKinds
        <5>1. run.verified /\ AsPlanned(body) /\ KeepsMode(body)
          BY <1>1, <2>2, <4>1, <4>4 DEF Ordered, RunAsMade, AsPlanned
        <5>2. Step.kind = "kubectl-apply"
          BY <2>2, <3>3, <4>4, <5>1 DEF AsPlanned, AppliesOnce, WritesAt
        <5>3. ~Step.dryRun
          BY <2>2, <3>3, <4>4, <5>1 DEF KeepsMode, WritesAt, DryRun
        <5>4. S = Present(docs)
          BY <1>1, <4>1, <5>2, <5>3
        <5>5. /\ run.touched = {} /\ S = body.resources
              /\ \A t \in Touching(S, new) : Covered(t)
          BY <1>1, <2>1, <3>3, <4>4, <5>1, <5>4, WriteIsCovered
        <5>6. run'.touched = Touching(S, new)
          BY <2>1, <5>5
        <5>7. \A t \in run'.touched :
                t.ref \in body.resources /\ t.old = run.snapshot[t.ref]
          BY <5>5, <5>6 DEF Covered
        <5>8. ASSUME NEW r \in body.resources
              PROVE  \E t \in run'.touched : t.ref = r
          <6> DEFINE t == [context |-> current, ref |-> r,
                           old |-> here[r], new |-> new[r]]
          <6>1. t \in run'.touched
            BY <5>5, <5>6 DEF Touching
          <6>2. t.ref = r
            OBVIOUS
          <6> HIDE DEF t
          <6> QED BY <6>1, <6>2
        <5> QED BY <4>2, <5>7, <5>8 DEF Touched, Covers
      <4> QED BY <4>3, <4>4
    <3> QED BY <2>1, <3>1, <3>2, <3>3 DEF LedgerTrue
  <2> QED BY <2>4, <2>6, <2>11, <2>12 DEF Known
<1>2. CASE FailedStep
  <2>1. PICK S \in SUBSET Refs, new \in ClusterStates :
          Wrote(S, new) /\ Fails(S, new)
    BY <1>2 DEF FailedStep
  <2>2. ~Continues(S, new)
    BY <2>1, <1>2, StepIsListed DEF FailedStep, Continues, Fails
  <2> QED BY <1>1, <1>2, <2>1, <2>2 DEF FailedStep
<1>3. CASE PassedStep
  <2>1. PICK S \in SUBSET Refs, new \in ClusterStates :
          /\ Wrote(S, new) /\ Continues(S, new)
          /\ Step.kind = "kubectl-apply" /\ ~Step.dryRun => S = Present(docs)
    BY <1>3 DEF PassedStep
  <2> QED BY <1>1, <1>3, <2>1 DEF PassedStep
<1>4. CASE ReadStep
  <2>1. /\ run.next \in DOMAIN body.actions
        /\ Step = body.actions[run.next]
        /\ DOMAIN body.actions \subseteq Nat \ {0}
        /\ run # None /\ phase = "executing"
    BY <1>4, StepIsListed DEF ReadStep
  <2>2. /\ run' # None /\ body' = body
        /\ run'.plan = run.plan /\ run'.snapshot = run.snapshot
        /\ run'.touched = run.touched
        /\ run'.quiet = run.quiet /\ run'.switched = run.switched
        /\ UNCHANGED <<cluster, current, source, capture, snapshotFile,
                       phase, report>>
    BY <1>4, NoneAssumption
       DEF ReadStep, Reads, environment, body, NoneAssumption
  <2>3. PastWrite' <=> PastWrite
    <3>1. \A i \in DOMAIN body.actions :
            WritesAt(body, i) => (i < run'.next <=> i < run.next)
      BY <1>4, <2>1 DEF ReadStep, WritesAt
    <3> QED BY <2>2, <3>1 DEF PastWrite, WritesAt
  <2>4. CaptureTrue' /\ SnapshotTrue'
    BY <2>2 DEF Known, CaptureTrue, SnapshotTrue, StartQuiet, Agrees,
                CaptureOrder
  <2>5. RunTrue'
    BY <2>1, <2>2, <2>3 DEF Known, RunTrue, StartQuiet, Agrees, Covered
  <2>6. LedgerTrue'
    BY <2>1, <2>2, <2>3 DEF Known, LedgerTrue, Touched, Covers
  <2> QED BY <2>4, <2>5, <2>6 DEF Known
<1>5. CASE Finish
  <2>1. /\ run \in Runs /\ run # None /\ body \in Bodies
        /\ phase = "executing" /\ phase' = "idle"
        /\ report'.ledger = ReportedLedger
        /\ UNCHANGED <<cluster, current, source, capture, snapshotFile, run>>
    BY <1>5, RunningType DEF Finish, environment
  <2>2. body' = body
    BY <2>1 DEF body
  <2>3. CaptureTrue' /\ SnapshotTrue'
    BY <2>1 DEF Known, CaptureTrue, SnapshotTrue, StartQuiet, Agrees
  <2>4. RunTrue'
    BY <2>1, <2>2 DEF Known, RunTrue, Covered
  <2>5. ASSUME run.quiet, body.command \in RecordedCommands,
               body.mode = "live"
        PROVE  Touched = Covers
    <3>1. PICK w \in DOMAIN body.actions :
            body.actions[w].kind = "kubectl-apply"
      BY <2>1, <2>5 DEF Ordered, RunAsMade, AsPlanned, AppliesOnce
    <3>2. WritesAt(body, w)
      BY <3>1 DEF WritesAt, WriteKinds
    <3>3. w < run.next
      <4>1. \/ body.actions \in Seq(ActionsOf(ChangeKinds))
            \/ body.actions \in Seq(ActionsOf(UndoKinds))
        BY <2>1 DEF Bodies, ChangeBodies, RollbackBodies
      <4>2. run.next \in Nat /\ run.next > Len(body.actions)
        BY <1>5, <2>1 DEF Runs, Finish
      <4> QED BY <4>1, <4>2
    <3> QED BY <2>1, <2>5, <3>2, <3>3 DEF Known, LedgerTrue, PastWrite
  <2>6. body.command \in RecordedCommands =>
          report'.ledger = LedgerFromResources(body.resources, run.snapshot,
                                               run.plan.id)
    BY <2>1 DEF ReportedLedger
  <2>7. LedgerTrue'
    BY <2>1, <2>2, <2>5, <2>6 DEF LedgerTrue, Touched, Covers
  <2> QED BY <2>3, <2>4, <2>7 DEF Known
<1> QED BY <1>2, <1>3, <1>4, <1>5, StepForms

LEMMA KnownIsKept == Safety => []Known
<1>1. Init => Known
  BY DEF Init, Known, CaptureTrue, SnapshotTrue, RunTrue, LedgerTrue
<1>2. IInv /\ Ordered /\ Known /\ [Next]_vars => Known'
  <2> SUFFICES ASSUME IInv, Ordered, Known, [Next]_vars PROVE Known'
    OBVIOUS
  <2>1. CASE \/ CaptureStart \/ Capturing \/ CaptureMisread
             \/ RecordFailedBackup
    BY <2>1, CapturingKeepsKnown
  <2>2. CASE Admission
    BY <2>2, AdmissionKeepsKnown
  <2>3. CASE Executing
    BY <2>3, ExecutingKeepsKnown
  <2>4. CASE Others
    BY <2>4, OthersKeepKnown
  <2>5. CASE Planning \/ EditPlanFile \/ SaveLedger \/ Crash \/ UNCHANGED vars
    <3>1. /\ phase' \in {phase, "idle"}
          /\ UNCHANGED <<cluster, current, source, capture, snapshotFile, run,
                         report>>
      BY <2>5 DEF Planning, PlanChange, PlanRollback, EditPlanFile,
                  SaveLedger, Crash, vars, operator, environment
    <3> QED BY <3>1, KnownStays
  <2> QED BY <2>1, <2>2, <2>3, <2>4, <2>5 DEF Next
<1> QED BY <1>1, <1>2, Inductive, OrderIsKept, PTL DEF Safety

\* Unless something interfered after the snapshot of this plan was started,
\* what an apply overwrote is in the snapshot with the value it had just
\* before, wherever the run stopped.
THEOREM SnapshotCovers == Safety => []SnapshotCoversRun
<1>1. Known => SnapshotCoversRun
  BY DEF Known, RunTrue, Covered, SnapshotCoversRun, Changed
<1> QED BY <1>1, KnownIsKept, PTL

\* Under the same condition the ledger that a live run reports names what it
\* overwrote, with the old values, and calls created what was not there.
THEOREM LedgerIsTrue == Safety => []LedgerTellsTheTruth
<1>1. ASSUME Known PROVE LedgerTellsTheTruth
  <2> SUFFICES ASSUME run # None, run.quiet, report.status = "succeeded",
                      body.command \in RecordedCommands, body.mode = "live"
               PROVE  /\ {<<e.ref, e.before>> : e \in report.ledger} = Touched
                      /\ \A e \in report.ledger :
                           e.state = "created" <=> e.before = Absent
    BY DEF LedgerTellsTheTruth, Touched
  <2>1. /\ Touched = Covers
        /\ report.ledger = LedgerFromResources(
             body.resources, run.snapshot, run.plan.id)
    BY <1>1 DEF Known, LedgerTrue
  <2>2. {<<e.ref, e.before>> : e \in report.ledger} = Covers
    <3>1. \A e \in report.ledger :
            e.ref \in body.resources /\ e.before = run.snapshot[e.ref]
      BY <2>1 DEF LedgerFromResources
    <3>2. ASSUME NEW r \in body.resources
          PROVE  \E e \in report.ledger : e.ref = r
      <4> DEFINE e == [ref    |-> r,
                       state  |-> IF run.snapshot[r] # Absent
                                  THEN "updated" ELSE "created",
                       run    |-> run.plan.id,
                       before |-> run.snapshot[r]]
      <4>1. e \in report.ledger
        BY <2>1 DEF LedgerFromResources
      <4>2. e.ref = r
        OBVIOUS
      <4> HIDE DEF e
      <4> QED BY <4>1, <4>2
    <3> QED BY <3>1, <3>2 DEF Covers
  <2>3. \A e \in report.ledger : e.state = "created" <=> e.before = Absent
    BY <2>1 DEF LedgerFromResources
  <2> QED BY <2>1, <2>2, <2>3
<1>2. Known => LedgerTellsTheTruth
  BY <1>1
<1> QED BY <1>2, KnownIsKept, PTL

=============================================================================
