------------------------- MODULE KindLabProofs -------------------------
(***************************************************************************)
(* Theorems about KindLab, for any number of labs, under names of their own  *)
(* or shared ones, and any number of faults and readings of a condition:     *)
(* types, which clusters a lab changes and takes down, what it installs, and *)
(* what its evidence says.                                                  *)
(***************************************************************************)
EXTENDS KindLab, TLAPS

-----------------------------------------------------------------------------
(* The inductive invariant.                                                 *)

\* What a lab knows about itself: something wrong has been noted, an end
\* without an exception is the end of the workflow, results.json is written in
\* the finally clause, and what was found bad has ended the workflow.
Honest(s) ==
  /\ s.wrong => s.failed \/ s.raised
  /\ s.pc \notin {"running", "stuck", "diagnosing", "killed"} /\ ~s.raised =>
       s.phase > Len(Phases)
  /\ s.pc \in {"running", "stuck", "diagnosing", "writing"} =>
       s.evidence = "none"
  /\ s.pc \notin {"diagnosing", "killed"} /\ s.wrong /\ ~s.failed =>
       s.lost # {}
  /\ s.evidence = "passed" /\ s.wrong => s.lost # {}
  /\ s.bad # {} => s.pc # "running"
  /\ s.pc = "diagnosing" => s.raised

Good(s) == s \in LabStates /\ Honest(s)

\* The lab has all its checks behind it, and they found nothing.
Cleared(s) == s.bad = {} /\ (s.pc = "running" => s.phase > 6)

\* What a step of a lab may make of its state.
Follows(s, t) == Good(t) /\ (Cleared(s) => Cleared(t))

OwnedCluster(n) ==
  IF n = Home
  THEN /\ clusters[n].creator = None
       /\ clusters[n].users = {}
  ELSE /\ clusters[n].creator \in Labs
       /\ name[clusters[n].creator] = n
       /\ \A k \in clusters[n].users : name[k] = n /\ Cleared(lab[k])

Owned ==
  /\ \A n \in Names \cup {Home} : clusters[n] # None => OwnedCluster(n)
  /\ \A n \in Names : registries[n] # None => name[registries[n]] = n

IInv == TypeOK /\ (\A l \in Labs : Honest(lab[l])) /\ Owned

-----------------------------------------------------------------------------
(* The phases.                                                              *)

LEMMA PhaseCount == Len(Phases) = 19
BY DEF Phases

\* Nothing is changed before the checks are over, and none comes after.
LEMMA PhaseOrder ==
  ASSUME NEW i \in 1..Len(Phases)
  PROVE  /\ Phases[i] \in Changing \cup {"charts"} => i > 6
         /\ Phases[i] \in {"artifacts", "gate"} => i <= 6
<1>1. i \in 1..19
  BY PhaseCount
<1>2. CASE i \in 1..6
  <2>1. Phases[1] = "preflight" /\ Phases[2] = "registry"
        /\ Phases[3] = "cluster" /\ Phases[4] = "images"
        /\ Phases[5] = "artifacts" /\ Phases[6] = "gate"
    BY DEF Phases
  <2>2. i = 1 \/ i = 2 \/ i = 3 \/ i = 4 \/ i = 5 \/ i = 6
    BY <1>2
  <2> QED BY <2>1, <2>2 DEF Changing
<1>3. CASE i \in 7..19
  <2>1. \A j \in 7..19 : Phases[j] \notin {"artifacts", "gate"}
    <3>1. /\ Phases[7] = "crds" /\ Phases[8] = "charts"
          /\ Phases[9] = "overlay" /\ Phases[10] = "credentials"
          /\ Phases[11] = "readiness" /\ Phases[12] = "audit"
          /\ Phases[13] = "matrix" /\ Phases[14] = "diagnostics"
          /\ Phases[15] = "broken" /\ Phases[16] = "nginx"
          /\ Phases[17] = "nginx matrix" /\ Phases[18] = "cleanup"
          /\ Phases[19] = "diagnostics"
      BY DEF Phases
    <3>2. \A j \in 7..19 : \/ j = 7 \/ j = 8 \/ j = 9 \/ j = 10 \/ j = 11
                           \/ j = 12 \/ j = 13 \/ j = 14 \/ j = 15 \/ j = 16
                           \/ j = 17 \/ j = 18 \/ j = 19
      OBVIOUS
    <3> QED BY <3>1, <3>2
  <2> QED BY <1>3, <2>1
<1> QED BY <1>1, <1>2, <1>3

-----------------------------------------------------------------------------
(* What the steps make of the state of a lab.                               *)

\* A command that succeeds, or fails the workflow (run with check=True).
LEMMA PhaseSteps ==
  ASSUME NEW s, Good(s), s.pc = "running", s.phase <= Len(Phases)
  PROVE  /\ Follows(s, Advanced(s))
         /\ Follows(s, Raised(s))
         /\ Follows(s, [s EXCEPT !.verified = TRUE])
<1>1. s \in LabStates /\ Honest(s) /\ s.phase + 1 \in 1..Len(Phases) + 1
  BY PhaseCount DEF Good, LabStates
<1>b. 0 \in 0..MaxPolls /\ 1 \in 1..Len(Phases) + 1
  BY PhaseCount, LabAssumption DEF LabAssumption
<1>2. Follows(s, Advanced(s))
  <2>1. Advanced(s) \in LabStates
    BY <1>1, <1>b DEF Advanced, LabStates
  <2>2. Honest(Advanced(s)) /\ (Cleared(s) => Cleared(Advanced(s)))
    BY <1>1, PhaseCount DEF Advanced, Honest, Cleared, LabStates
  <2> QED BY <2>1, <2>2 DEF Follows, Good
<1>3. Follows(s, Raised(s))
  <2>1. Raised(s) \in LabStates
    BY <1>1, <1>b DEF Raised, Leave, LabStates, PCs
  <2>2. Honest(Raised(s)) /\ (Cleared(s) => Cleared(Raised(s)))
    BY <1>1 DEF Raised, Leave, Honest, Cleared, LabStates
  <2> QED BY <2>1, <2>2 DEF Follows, Good
<1>4. Follows(s, [s EXCEPT !.verified = TRUE])
  <2> DEFINE t == [s EXCEPT !.verified = TRUE]
  <2>1. t \in LabStates
    BY <1>1 DEF LabStates
  <2>2. Honest(t) /\ (Cleared(s) => Cleared(t))
    BY <1>1 DEF Honest, Cleared, LabStates
  <2> QED BY <2>1, <2>2 DEF Follows, Good
<1> QED BY <1>2, <1>3, <1>4

-----------------------------------------------------------------------------
(* What the steps make of clusters and registries.                          *)

\* A lab moves on and, if it changes anything else, its own cluster and its
\* own registry only, or takes something down.
LEMMA Moves ==
  ASSUME IInv, NEW l \in Labs, NEW s, Follows(lab[l], s), Become(l, s),
         clusters' \in [Names \cup {Home} -> ClusterStates \cup {None}],
         \A n \in Names \cup {Home} :
           \/ clusters'[n] \in {clusters[n], None}
           \/ n = name[l] /\ clusters'[n] = Fresh(l)
           \/ /\ n = name[l] /\ clusters[n] # None /\ Cleared(s)
              /\ clusters'[n] = [clusters[n] EXCEPT !.users = @ \cup {l}],
         registries' \in [Names -> Labs \cup {None}],
         \A n \in Names : \/ registries'[n] \in {registries[n], None}
                          \/ n = name[l] /\ registries'[n] = l,
         current' \in Names \cup {Home, None},
         faults' \in 0..MaxFaults
  PROVE  IInv'
<1>1. lab \in [Labs -> LabStates] /\ lab' = [lab EXCEPT ![l] = s]
  BY DEF IInv, TypeOK, Become
<1>n. name' = name /\ name \in [Labs -> Names]
  BY DEF IInv, TypeOK, Become
<1>2. s \in LabStates /\ Honest(s) /\ (Cleared(lab[l]) => Cleared(s))
  BY DEF Follows, Good
<1>3. TypeOK'
  BY <1>1, <1>2, <1>n DEF TypeOK
<1>4. lab'[l] = s /\ \A k \in Labs : k # l => lab'[k] = lab[k]
  BY <1>1
<1>5. \A k \in Labs : Honest(lab'[k]) /\ (Cleared(lab[k]) => Cleared(lab'[k]))
  BY <1>2, <1>4 DEF IInv
<1>6. ASSUME NEW n \in Names \cup {Home}, clusters'[n] # None
      PROVE  OwnedCluster(n)'
  <2>1. name[l] # Home
    BY <1>n, LabAssumption DEF LabAssumption
  <2>2. CASE clusters'[n] = clusters[n]
    <3>1. OwnedCluster(n)
      BY <1>6, <2>2 DEF IInv, Owned
    <3>2. CASE n = Home
      BY <3>1, <2>2, <3>2 DEF OwnedCluster
    <3>3. CASE n # Home
      <4>1. /\ clusters[n].creator \in Labs
            /\ name[clusters[n].creator] = n
            /\ \A k \in clusters[n].users : name[k] = n /\ Cleared(lab[k])
        BY <3>1, <3>3 DEF OwnedCluster
      <4>2. \A k \in clusters[n].users : Cleared(lab'[k])
        <5>1. clusters[n].users \subseteq Labs
          BY <1>6, <2>2 DEF IInv, TypeOK, ClusterStates
        <5> QED BY <4>1, <5>1, <1>5
      <4> QED BY <3>3, <4>1, <4>2, <2>2, <1>n DEF OwnedCluster, Cleared
    <3> QED BY <3>2, <3>3
  <2>3. CASE n = name[l] /\ clusters'[n] = Fresh(l)
    <3> DEFINE fresh == Fresh(l)
    <3>3. fresh.creator = l /\ fresh.users = {}
      BY DEF Fresh
    <3> HIDE DEF fresh
    <3>4. clusters'[n] = fresh
      BY <2>3 DEF fresh
    <3>1. clusters'[n].creator = l /\ clusters'[n].users = {}
      BY <3>3, <3>4
    <3>2. n # Home /\ name[l] = n
      BY <2>1, <2>3
    <3> QED BY <3>1, <3>2, <1>n DEF OwnedCluster
  <2>4. CASE /\ n = name[l] /\ clusters[n] # None /\ Cleared(s)
             /\ clusters'[n] = [clusters[n] EXCEPT !.users = @ \cup {l}]
    <3>1. OwnedCluster(n) /\ clusters[n] \in ClusterStates
      BY <2>4 DEF IInv, Owned, TypeOK
    <3>2. /\ clusters'[n].creator = clusters[n].creator
          /\ clusters'[n].users = clusters[n].users \cup {l}
      BY <2>4, <3>1 DEF ClusterStates
    <3>3. /\ clusters[n].creator \in Labs /\ name[clusters[n].creator] = n
          /\ \A k \in clusters[n].users : name[k] = n /\ Cleared(lab[k])
      BY <2>1, <2>4, <3>1 DEF OwnedCluster
    <3>4. ASSUME NEW k \in clusters[n].users \cup {l}
          PROVE  name[k] = n /\ Cleared(lab'[k])
      <4>1. CASE k = l
        BY <4>1, <2>4, <1>4
      <4>2. CASE k # l
        <5>1. k \in Labs
          BY <3>1, <3>4, <4>2 DEF ClusterStates
        <5> QED BY <3>3, <3>4, <4>2, <5>1, <1>5
      <4> QED BY <4>1, <4>2
    <3> QED BY <2>1, <2>4, <3>2, <3>3, <3>4, <1>n DEF OwnedCluster, Cleared
  <2> QED BY <1>6, <2>2, <2>3, <2>4
<1>7. \A n \in Names : registries'[n] # None => name'[registries'[n]] = n
  BY <1>n DEF IInv, Owned
<1> QED BY <1>3, <1>5, <1>6, <1>7 DEF IInv, Owned

\* A step that changes nothing but the state of a lab.
LEMMA MovesAlone ==
  ASSUME IInv, NEW l \in Labs, NEW s, Follows(lab[l], s), Become(l, s),
         UNCHANGED <<clusters, registries>>,
         current' \in Names \cup {Home, None},
         faults' \in 0..MaxFaults
  PROVE  IInv'
<1>1. /\ clusters' \in [Names \cup {Home} -> ClusterStates \cup {None}]
      /\ registries' \in [Names -> Labs \cup {None}]
      /\ \A n \in Names \cup {Home} : clusters'[n] \in {clusters[n], None}
      /\ \A n \in Names : registries'[n] \in {registries[n], None}
  BY DEF IInv, TypeOK
<1> QED BY <1>1, Moves

\* What every step of the invariant starts from.
LEMMA Known ==
  ASSUME IInv, NEW l \in Labs
  PROVE  /\ Good(lab[l])
         /\ lab[l] \in LabStates
         /\ Honest(lab[l])
         /\ name[l] \in Names
         /\ clusters \in [Names \cup {Home} -> ClusterStates \cup {None}]
         /\ registries \in [Names -> Labs \cup {None}]
         /\ current \in Names \cup {Home, None}
         /\ faults \in 0..MaxFaults
BY DEF IInv, TypeOK, Good

\* A running lab may end its phase, or raise an exception.
LEMMA Runs ==
  ASSUME IInv, NEW l \in Labs, Running(l)
  PROVE  /\ Follows(lab[l], Advanced(lab[l]))
         /\ Follows(lab[l], Raised(lab[l]))
         /\ Follows(lab[l], [lab[l] EXCEPT !.verified = TRUE])
BY Known, PhaseSteps DEF Running

-----------------------------------------------------------------------------
(* One lemma per group of actions.                                          *)

\* Phases that change neither clusters nor registries.
LEMMA QuietPhases ==
  ASSUME IInv, NEW l \in Labs,
         Skip(l) \/ RunLocal(l) \/ Verify(l) \/ Diagnose(l)
  PROVE  IInv'
<1>1. /\ Running(l)
      /\ UNCHANGED <<clusters, registries, current, faults>>
  BY DEF Skip, RunLocal, Verify, Diagnose, Unchanged, Running, At
<1>2. \/ Become(l, Advanced(lab[l]))
      \/ Become(l, Raised(lab[l]))
      \/ Become(l, [lab[l] EXCEPT !.verified = TRUE])
  BY DEF Skip, RunLocal, Verify, Diagnose, ThenOrRaise
<1>3. UNCHANGED <<clusters, registries>>
      /\ current' \in Names \cup {Home, None} /\ faults' \in 0..MaxFaults
  BY <1>1, Known
<1> QED BY <1>1, <1>2, <1>3, Runs, MovesAlone

\* A check that fails ends the workflow before anything is installed.
LEMMA Checks ==
  ASSUME IInv, NEW l \in Labs, PrepareArtifacts(l) \/ PreinstallGate(l)
  PROVE  IInv'
<1> DEFINE noted(what) == [lab[l] EXCEPT !.bad = @ \cup {what}]
<1>1. PICK what \in {"artifacts", "documents"} :
        /\ Running(l) /\ At(l) \in {"artifacts", "gate"}
        /\ ThenOrRaise(l, lab[l]) \/ Become(l, Raised(noted(what)))
        /\ UNCHANGED <<clusters, registries, current, faults>>
  BY DEF PrepareArtifacts, PreinstallGate, Check, Unchanged
<1>2. UNCHANGED <<clusters, registries>>
      /\ current' \in Names \cup {Home, None} /\ faults' \in 0..MaxFaults
  BY <1>1, Known
<1>3. CASE ThenOrRaise(l, lab[l])
  BY <1>1, <1>2, <1>3, Runs, MovesAlone DEF ThenOrRaise
<1>4. CASE Become(l, Raised(noted(what)))
  <2>1. lab[l].phase <= 6 /\ lab[l].pc = "running" /\ lab[l].phase \in 1..Len(Phases)
    BY <1>1, Known, PhaseOrder, PhaseCount DEF Running, At, LabStates
  <2>2. 0 \in 0..MaxPolls /\ 1 \in 1..Len(Phases) + 1
    BY PhaseCount, LabAssumption DEF LabAssumption
  <2>3. Raised(noted(what)) \in LabStates
    <3>1. noted(what) \in LabStates
      BY Known DEF LabStates
    <3> HIDE DEF noted
    <3> QED BY <2>2, <3>1 DEF Raised, Leave, LabStates, PCs
  <2>4. Honest(Raised(noted(what))) /\ ~Cleared(lab[l])
    BY <2>1, Known, PhaseCount DEF Raised, Leave, LabStates, Honest, Cleared
  <2> QED BY <1>2, <1>4, <2>3, <2>4, MovesAlone DEF Follows, Good
<1> QED BY <1>1, <1>3, <1>4

\* docker run takes the lab's own name.
LEMMA Registry ==
  ASSUME IInv, NEW l \in Labs, StartRegistry(l)
  PROVE  IInv'
<1>1. /\ Running(l)
      /\ Become(l, Advanced(lab[l])) \/ Become(l, Raised(lab[l]))
      /\ \/ UNCHANGED registries
         \/ registries' = [registries EXCEPT ![name[l]] = l]
      /\ UNCHANGED <<clusters, current, faults>>
  BY DEF StartRegistry, ThenOrRaise, Unchanged
<1>2. registries' \in [Names -> Labs \cup {None}]
      /\ \A n \in Names : \/ registries'[n] \in {registries[n], None}
                          \/ n = name[l] /\ registries'[n] = l
  BY <1>1, Known
<1>3. /\ clusters' \in [Names \cup {Home} -> ClusterStates \cup {None}]
      /\ \A n \in Names \cup {Home} : clusters'[n] \in {clusters[n], None}
      /\ current' \in Names \cup {Home, None} /\ faults' \in 0..MaxFaults
  BY <1>1, Known
<1> QED BY <1>1, <1>2, <1>3, Runs, Moves

\* kind create cluster takes the lab's own name too.
LEMMA Creates ==
  ASSUME IInv, NEW l \in Labs, CreateCluster(l)
  PROVE  IInv'
<1>1. /\ Running(l)
      /\ Become(l, Advanced(lab[l])) \/ Become(l, Raised(lab[l]))
      /\ \/ UNCHANGED clusters
         \/ clusters' = [clusters EXCEPT ![name[l]] = Fresh(l)]
      /\ current' \in {current, name[l]}
      /\ UNCHANGED <<registries, faults>>
  BY DEF CreateCluster, Unchanged
<1>2. Fresh(l) \in ClusterStates
  BY DEF Fresh, ClusterStates
<1> HIDE DEF Fresh
<1>3. clusters' \in [Names \cup {Home} -> ClusterStates \cup {None}]
      /\ \A n \in Names \cup {Home} : \/ clusters'[n] \in {clusters[n], None}
                                      \/ n = name[l] /\ clusters'[n] = Fresh(l)
  <2>1. CASE UNCHANGED clusters
    BY <2>1, Known
  <2>2. CASE clusters' = [clusters EXCEPT ![name[l]] = Fresh(l)]
    <3>1. clusters \in [Names \cup {Home} -> ClusterStates \cup {None}]
      BY Known
    <3> QED BY <1>2, <2>2, <3>1
  <2> QED BY <1>1, <2>1, <2>2
<1>4. /\ registries' \in [Names -> Labs \cup {None}]
      /\ \A n \in Names : registries'[n] \in {registries[n], None}
      /\ current' \in Names \cup {Home, None} /\ faults' \in 0..MaxFaults
  BY <1>1, Known
<1> QED BY <1>1, <1>3, <1>4, Runs, Moves

\* A changing command goes to the cluster of its lab, which has its checks
\* behind it.
LEMMA Changes ==
  ASSUME IInv, NEW l \in Labs, NEW s, Follows(lab[l], s), Become(l, s),
         \/ UNCHANGED clusters
         \/ Reaches(l) /\ Touch(l) /\ Cleared(s),
         UNCHANGED <<registries, current, faults>>
  PROVE  IInv'
<1>1. CASE UNCHANGED clusters
  BY <1>1, Known, MovesAlone
<1>2. CASE Reaches(l) /\ Touch(l) /\ Cleared(s)
  <2>1. /\ clusters[name[l]] # None
        /\ clusters' = [clusters EXCEPT ![name[l]].users = @ \cup {l}]
    BY <1>2 DEF Reaches, Touch, Target
  <2>2. clusters[name[l]] \in ClusterStates
    BY <2>1, Known
  <2> DEFINE touched == [clusters[name[l]] EXCEPT !.users = @ \cup {l}]
  <2>3. clusters' = [clusters EXCEPT ![name[l]] = touched]
    BY <2>1, Known
  <2>4. touched \in ClusterStates
    BY <2>2 DEF ClusterStates
  <2>5. /\ clusters' \in [Names \cup {Home} -> ClusterStates \cup {None}]
        /\ \A n \in Names \cup {Home} :
             \/ clusters'[n] \in {clusters[n], None}
             \/ /\ n = name[l] /\ clusters[n] # None /\ Cleared(s)
                /\ clusters'[n] = [clusters[n] EXCEPT !.users = @ \cup {l}]
    <3>1. clusters' \in [Names \cup {Home} -> ClusterStates \cup {None}]
      BY <2>3, <2>4, Known
    <3>2. clusters'[name[l]] = touched
      BY <2>3, Known
    <3>3. \A n \in Names \cup {Home} : n # name[l] => clusters'[n] = clusters[n]
      BY <2>3, Known
    <3> QED BY <1>2, <2>1, <3>1, <3>2, <3>3
  <2>6. /\ registries' \in [Names -> Labs \cup {None}]
        /\ \A n \in Names : registries'[n] \in {registries[n], None}
        /\ current' \in Names \cup {Home, None} /\ faults' \in 0..MaxFaults
    BY Known
  <2> QED BY <2>5, <2>6, Moves
<1> QED BY <1>1, <1>2

\* The kubectl commands, with what their probes find.
LEMMA Acts ==
  ASSUME IInv, NEW l \in Labs, Act(l)
  PROVE  IInv'
<1> DEFINE bad == [lab[l] EXCEPT !.failed = TRUE, !.wrong = TRUE]
<1>1. /\ Running(l)
      /\ UNCHANGED <<registries, current, faults>>
      /\ \/ UNCHANGED clusters
         \/ Reaches(l) /\ Touch(l) /\ At(l) \in Changing
      /\ \E s \in {lab[l], bad} :
           Become(l, Advanced(s)) \/ Become(l, Raised(s))
  BY DEF Act, Probed, ThenOrRaise, Unchanged
<1>2. PICK s \in {lab[l], bad} :
        Become(l, Advanced(s)) \/ Become(l, Raised(s))
  BY <1>1
<1>3. lab[l] \in LabStates /\ Honest(lab[l]) /\ lab[l].pc = "running"
      /\ lab[l].phase \in 1..Len(Phases)
  BY <1>1, Known, PhaseCount DEF Running, LabStates
<1>4. /\ Good(s) /\ s.pc = "running" /\ s.phase = lab[l].phase
      /\ s.bad = lab[l].bad
  <2>1. CASE s = lab[l]
    BY <1>3, <2>1 DEF Good
  <2>2. CASE s = bad
    <3>1. bad \in LabStates
      BY <1>3 DEF LabStates
    <3>2. Honest(bad) /\ bad.pc = "running" /\ bad.phase = lab[l].phase
          /\ bad.bad = lab[l].bad
      BY <1>3 DEF LabStates, Honest
    <3> QED BY <2>2, <3>1, <3>2 DEF Good
  <2> QED BY <2>1, <2>2
<1>5. Follows(s, Advanced(s)) /\ Follows(s, Raised(s))
  <2>1. s.phase <= Len(Phases)
    BY <1>3, <1>4, PhaseCount
  <2> HIDE DEF bad
  <2> QED BY <1>4, <2>1, PhaseSteps
<1>6. Cleared(lab[l]) => Cleared(s)
  BY <1>3, <1>4 DEF Cleared
<1>7. Follows(lab[l], Advanced(s)) /\ Follows(lab[l], Raised(s))
  BY <1>5, <1>6 DEF Follows
<1>8. At(l) \in Changing => Cleared(s)
  <2>1. At(l) \in Changing => lab[l].phase > 6
    BY <1>3, PhaseOrder DEF At
  <2> QED BY <2>1, <1>3, <1>4 DEF Cleared, Honest
<1>9. At(l) \in Changing => Cleared(Advanced(s)) /\ Cleared(Raised(s))
  BY <1>5, <1>8 DEF Follows
<1> QED BY <1>1, <1>2, <1>7, <1>9, Changes

\* helm goes to the context it is given.
LEMMA Installs ==
  ASSUME IInv, NEW l \in Labs, InstallCharts(l)
  PROVE  IInv'
<1>1. /\ Running(l) /\ At(l) = "charts"
      /\ UNCHANGED <<registries, current, faults>>
      /\ \/ UNCHANGED clusters
         \/ Reaches(l) /\ Touch(l)
      /\ Become(l, Advanced(lab[l])) \/ Become(l, Raised(lab[l]))
  BY DEF InstallCharts, ThenOrRaise, Unchanged
<1>2. Cleared(lab[l])
  <2>1. lab[l].phase \in 1..Len(Phases) /\ Honest(lab[l])
    BY <1>1, Known, PhaseCount DEF Running, LabStates
  <2> QED BY <1>1, <2>1, PhaseOrder DEF At, Running, Cleared, Honest
<1>3. Cleared(Advanced(lab[l])) /\ Cleared(Raised(lab[l]))
  BY <1>1, <1>2, Runs DEF Follows
<1> QED BY <1>1, <1>3, Runs, Changes

\* What never returns may have been preceded by a change.
LEMMA Hangs ==
  ASSUME IInv, NEW l \in Labs, Hang(l)
  PROVE  IInv'
<1> DEFINE t == Leave(lab[l], "stuck")
<1>1. /\ Running(l) /\ Become(l, t)
      /\ UNCHANGED <<registries, current, faults>>
      /\ \/ UNCHANGED clusters
         \/ Reaches(l) /\ Touch(l) /\ At(l) \in Changing
  BY DEF Hang, Unchanged, Guarded
<1>2. lab[l] \in LabStates /\ Honest(lab[l]) /\ lab[l].pc = "running"
      /\ lab[l].phase \in 1..Len(Phases)
  BY <1>1, Known, PhaseCount DEF Running, LabStates
<1>3. 0 \in 0..MaxPolls /\ 1 \in 1..Len(Phases) + 1
  BY PhaseCount, LabAssumption DEF LabAssumption
<1>4. t \in LabStates
  BY <1>2, <1>3 DEF Leave, LabStates, PCs
<1>5. Honest(t) /\ (Cleared(lab[l]) => Cleared(t))
  BY <1>2 DEF Leave, LabStates, Honest, Cleared
<1>6. At(l) \in Changing => Cleared(t)
  <2>1. At(l) \in Changing => lab[l].phase > 6
    BY <1>2, PhaseOrder DEF At
  <2> QED BY <1>2, <1>5, <2>1 DEF Cleared, Honest
<1> QED BY <1>1, <1>4, <1>5, <1>6, Changes DEF Follows, Good

\* Readiness is polled until the deadline.
LEMMA Polls ==
  ASSUME IInv, NEW l \in Labs, Poll(l)
  PROVE  IInv'
<1> DEFINE again == [lab[l] EXCEPT !.verified = FALSE, !.polls = @ + 1]
<1>1. /\ Running(l)
      /\ UNCHANGED <<clusters, registries, current, faults>>
      /\ \/ Become(l, Advanced(lab[l])) \/ Become(l, Raised(lab[l]))
         \/ lab[l].polls < MaxPolls /\ Become(l, again)
  BY DEF Poll, Unchanged
<1>2. CASE lab[l].polls < MaxPolls /\ Become(l, again)
  <2>1. lab[l] \in LabStates /\ Honest(lab[l])
    BY Known
  <2>2. lab[l].polls + 1 \in 0..MaxPolls
    BY <1>2, <2>1, LabAssumption DEF LabStates, LabAssumption
  <2>3. again \in LabStates
    BY <2>1, <2>2 DEF LabStates
  <2>4. Honest(again) /\ (Cleared(lab[l]) => Cleared(again))
    BY <2>1 DEF LabStates, Honest, Cleared
  <2> QED BY <1>1, <1>2, <2>3, <2>4, Known, MovesAlone DEF Follows, Good
<1> QED BY <1>1, <1>2, Runs, Known, MovesAlone

\* The end of the try block and the except and finally clauses.
LEMMA Endings ==
  ASSUME IInv, NEW l \in Labs,
         Complete(l) \/ DiagnoseFailure(l) \/ WriteEvidence(l)
  PROVE  IInv'
<1> DEFINE s == lab[l]
           w == Written(s)
<1>1. UNCHANGED <<clusters, registries, current, faults>>
  BY DEF Complete, DiagnoseFailure, WriteEvidence, Unchanged
<1>2. s \in LabStates /\ Honest(s)
  BY Known
<1>3. ASSUME NEW t, Follows(s, t), Become(l, t)
      PROVE  IInv'
  BY <1>1, <1>3, Known, MovesAlone
<1>4. CASE Complete(l)
  <2> DEFINE t == [s EXCEPT !.pc = "writing"]
  <2>1. s.pc = "running" /\ s.phase > Len(Phases) /\ Become(l, t)
    BY <1>4 DEF Complete
  <2>2. t \in LabStates
    BY <1>2 DEF LabStates, PCs
  <2>3. Honest(t) /\ (Cleared(s) => Cleared(t))
    BY <1>2, <2>1 DEF LabStates, Honest, Cleared
  <2> QED BY <2>1, <2>2, <2>3, <1>3 DEF Follows, Good
<1>5. CASE DiagnoseFailure(l)
  <2> DEFINE noted == [s EXCEPT !.pc = "writing", !.failed = TRUE]
             unnoted == [s EXCEPT !.pc = "writing",
                                  !.lost = @ \cup {"diagnostics"}]
  <2>1. s.pc = "diagnosing" /\ (Become(l, noted) \/ Become(l, unnoted))
    BY <1>5 DEF DiagnoseFailure
  <2>2. noted \in LabStates /\ unnoted \in LabStates
    BY <1>2 DEF LabStates, PCs
  <2>3. Honest(noted) /\ (Cleared(s) => Cleared(noted))
    BY <1>2, <2>1 DEF LabStates, Honest, Cleared
  <2>4. Honest(unnoted) /\ (Cleared(s) => Cleared(unnoted))
    BY <1>2, <2>1 DEF LabStates, Honest, Cleared
  <2> QED BY <2>1, <2>2, <2>3, <2>4, <1>3 DEF Follows, Good
<1>6. CASE WriteEvidence(l)
  <2> DEFINE next == IF l \in Keep THEN "exited" ELSE "deleting"
             kept == [w EXCEPT !.pc = next]
             torn(t) == [t EXCEPT !.pc = "exited", !.raised = TRUE,
                                  !.wrong = TRUE,
                                  !.lost = @ \cup {"evidence"}]
  <2>1. s.pc = "writing" /\ (\/ Become(l, kept) \/ Become(l, torn(s))
                             \/ Become(l, torn(w)))
    BY <1>6 DEF WriteEvidence
  <2>2. next \in {"exited", "deleting"}
    OBVIOUS
  <2> HIDE DEF next
  <2>3. w \in LabStates /\ Honest(s) /\ w.pc = "writing"
        /\ w = [s EXCEPT !.evidence = w.evidence]
        /\ w.evidence = IF s.failed THEN "failed" ELSE "passed"
    BY <1>2, <2>1 DEF Written, LabStates
  <2>4. kept \in LabStates /\ torn(s) \in LabStates /\ torn(w) \in LabStates
    BY <1>2, <2>2, <2>3 DEF LabStates, PCs
  <2>5. Honest(kept) /\ (Cleared(s) => Cleared(kept))
    BY <1>2, <2>1, <2>2, <2>3 DEF LabStates, Honest, Cleared
  <2>6. Honest(torn(s)) /\ (Cleared(s) => Cleared(torn(s)))
    BY <1>2, <2>1 DEF LabStates, Honest, Cleared
  <2>7. Honest(torn(w)) /\ (Cleared(s) => Cleared(torn(w)))
    BY <1>2, <2>1, <2>3 DEF LabStates, Honest, Cleared
  <2> QED BY <2>1, <2>4, <2>5, <2>6, <2>7, <1>3 DEF Follows, Good
<1> QED BY <1>4, <1>5, <1>6

\* The teardown, and the commands of it that fail or time out.
LEMMA Teardown ==
  ASSUME IInv, NEW l \in Labs, DeleteCluster(l) \/ RemoveRegistry(l)
  PROVE  IInv'
<1> DEFINE s == lab[l]
           done(pc) == [s EXCEPT !.pc = pc]
           undone(pc, timeout) == [s EXCEPT !.pc = pc,
                                     !.raised = @ \/ timeout,
                                     !.wrong = @ \/ timeout,
                                     !.lost = @ \cup {"teardown"}]
<1>1. PICK pc \in {"removing", "exited"}, timeout \in BOOLEAN :
        /\ s.pc \in {"deleting", "removing"}
        /\ Become(l, done(pc)) \/ Become(l, undone(pc, timeout))
        /\ \/ UNCHANGED clusters
           \/ clusters' = [clusters EXCEPT ![name[l]] = None]
        /\ \/ UNCHANGED registries
           \/ registries' = [registries EXCEPT ![name[l]] = None]
        /\ current' \in {current, None}
        /\ UNCHANGED faults
  BY DEF DeleteCluster, RemoveRegistry, Doomed, Unchanged
<1>2. s \in LabStates /\ Honest(s)
  BY Known
<1>3. /\ clusters' \in [Names \cup {Home} -> ClusterStates \cup {None}]
      /\ \A n \in Names \cup {Home} : clusters'[n] \in {clusters[n], None}
      /\ registries' \in [Names -> Labs \cup {None}]
      /\ \A n \in Names : registries'[n] \in {registries[n], None}
      /\ current' \in Names \cup {Home, None} /\ faults' \in 0..MaxFaults
  BY <1>1, Known
<1>4. done(pc) \in LabStates /\ undone(pc, timeout) \in LabStates
  BY <1>2 DEF LabStates, PCs
<1>5. Honest(done(pc)) /\ (Cleared(s) => Cleared(done(pc)))
  BY <1>1, <1>2 DEF LabStates, Honest, Cleared
<1>6. Honest(undone(pc, timeout)) /\ (Cleared(s) => Cleared(undone(pc, timeout)))
  <2>1. CASE timeout = TRUE
    BY <1>1, <1>2, <2>1 DEF LabStates, Honest, Cleared
  <2>2. CASE timeout = FALSE
    BY <1>1, <1>2, <2>2 DEF LabStates, Honest, Cleared
  <2> QED BY <2>1, <2>2
<1>7. Follows(s, done(pc)) /\ Follows(s, undone(pc, timeout))
  BY <1>4, <1>5, <1>6 DEF Follows, Good
<1> QED BY <1>1, <1>3, <1>7, Moves

\* Ctrl-C, kills and switches of the current context.
LEMMA Faults ==
  ASSUME IInv, \/ \E l \in Labs : Interrupt(l) \/ Kill(l)
               \/ UseContext
  PROVE  IInv'
<1>1. UNCHANGED <<clusters, registries>> /\ faults' \in 0..MaxFaults
  <2>1. faults < MaxFaults /\ faults' = faults + 1 /\ UNCHANGED <<clusters, registries>>
    BY DEF Interrupt, Kill, UseContext, Fault
  <2> QED BY <2>1, LabAssumption DEF IInv, TypeOK, LabAssumption
<1>2. ASSUME NEW l \in Labs, Interrupt(l)
      PROVE  IInv'
  <2> DEFINE s == [lab[l] EXCEPT !.raised = TRUE, !.wrong = TRUE,
                                 !.lost = @ \cup {"interrupt"}]
             out == Leave(s, "writing")
             end(pc) == [s EXCEPT !.pc = pc]
  <2>1. /\ UNCHANGED current
        /\ \/ s.pc \in {"running", "stuck", "diagnosing"} /\ Become(l, out)
           \/ s.pc \in {"writing", "removing"} /\ Become(l, end("exited"))
           \/ s.pc = "deleting" /\ Become(l, end("removing"))
    BY <1>2 DEF Interrupt
  <2>2. lab[l] \in LabStates /\ Honest(lab[l])
    BY Known
  <2>3. s \in LabStates /\ s.pc = lab[l].pc
        /\ s.raised /\ s.lost # {} /\ s.bad = lab[l].bad
        /\ s.phase = lab[l].phase /\ s.evidence = lab[l].evidence
    BY <2>2 DEF LabStates
  <2> HIDE DEF s
  <2>4. 0 \in 0..MaxPolls /\ 1 \in 1..Len(Phases) + 1
    BY PhaseCount, LabAssumption DEF LabAssumption
  <2>5. /\ out \in LabStates /\ end("exited") \in LabStates
        /\ end("removing") \in LabStates
    BY <2>3, <2>4 DEF Leave, LabStates, PCs
  <2>6. s.pc \in {"running", "stuck", "diagnosing"} =>
          Honest(out) /\ (Cleared(lab[l]) => Cleared(out))
    BY <2>2, <2>3 DEF Leave, LabStates, Honest, Cleared
  <2>7. /\ Honest(end("exited")) /\ (Cleared(lab[l]) => Cleared(end("exited")))
        /\ Honest(end("removing")) /\ (Cleared(lab[l]) => Cleared(end("removing")))
    BY <2>2, <2>3 DEF LabStates, Honest, Cleared
  <2>8. PICK t : Follows(lab[l], t) /\ Become(l, t)
    BY <2>1, <2>5, <2>6, <2>7 DEF Follows, Good
  <2> QED BY <1>1, <2>1, <2>8, Known, MovesAlone
<1>3. ASSUME NEW l \in Labs, Kill(l)
      PROVE  IInv'
  <2> DEFINE t == Leave(lab[l], "killed")
  <2>1. lab[l] \in LabStates /\ Honest(lab[l]) /\ Become(l, t) /\ UNCHANGED current
    BY <1>3, Known DEF Kill
  <2>2. 0 \in 0..MaxPolls /\ 1 \in 1..Len(Phases) + 1
    BY PhaseCount, LabAssumption DEF LabAssumption
  <2>3. t \in LabStates
    BY <2>1, <2>2 DEF Leave, LabStates, PCs
  <2>4. Honest(t) /\ (Cleared(lab[l]) => Cleared(t))
    BY <2>1 DEF Leave, LabStates, Honest, Cleared
  <2> QED BY <1>1, <2>1, <2>3, <2>4, Known, MovesAlone DEF Follows, Good
<1>4. CASE UseContext
  <2>1. current' \in Names \cup {Home, None} /\ UNCHANGED <<lab, name>>
    BY <1>4 DEF UseContext, IInv, TypeOK
  <2> QED BY <1>1, <2>1
          DEF IInv, TypeOK, Owned, OwnedCluster, Cleared, Honest
<1> QED BY <1>2, <1>3, <1>4

-----------------------------------------------------------------------------
(* The invariant and what follows from it.                                  *)

LEMMA InitInvariant == Init => IInv
<1> SUFFICES ASSUME Init PROVE IInv
  OBVIOUS
<1>1. 0 \in 0..MaxPolls /\ 1 \in 1..Len(Phases) + 1 /\ 0 \in 0..MaxFaults
  BY PhaseCount, LabAssumption DEF LabAssumption
<1>2. TypeOK
  BY <1>1, LabAssumption
     DEF Init, TypeOK, LabStates, PCs, ClusterStates, Fresh, LabAssumption
<1>3. \A l \in Labs : Honest(lab[l])
  BY DEF Init, Honest
<1>4. Owned
  <2>1. \A n \in Names : clusters[n] = None /\ registries[n] = None
    BY LabAssumption DEF Init, LabAssumption
  <2>2. clusters[Home] = Fresh(None)
    BY DEF Init
  <2>3. OwnedCluster(Home)
    BY <2>2 DEF OwnedCluster, Fresh
  <2> QED BY <2>1, <2>3 DEF Owned
<1> QED BY <1>2, <1>3, <1>4 DEF IInv

LEMMA StepInvariant == IInv /\ [Next]_vars => IInv'
<1> SUFFICES ASSUME IInv, [Next]_vars PROVE IInv'
  OBVIOUS
<1>1. ASSUME NEW l \in Labs, Step(l)
      PROVE  IInv'
  BY <1>1, QuietPhases, Checks, Registry, Creates, Acts, Installs, Polls,
     Hangs, Endings, Teardown DEF Step
<1>2. CASE UNCHANGED vars
  BY <1>2 DEF vars, IInv, TypeOK, Owned, OwnedCluster, Cleared, Honest
<1> QED BY <1>1, <1>2, Faults DEF Next

THEOREM Invariance == Spec => []IInv
BY InitInvariant, StepInvariant, PTL DEF Spec

\* Labs, clusters, registries and the current context keep their types,
\* whatever fails and whenever (KindE2ELab.run).
THEOREM TypeCorrect == Spec => []TypeOK
<1>1. IInv => TypeOK
  BY DEF IInv
<1> QED BY <1>1, Invariance, PTL

\* No lab changes a cluster of another name than its own, however the current
\* context moves between KubectlGuard's look and its command.
THEOREM OwnCluster == Spec => []OwnClusterOnly
<1>1. IInv => OwnClusterOnly
  <2> SUFFICES ASSUME IInv, NEW n \in DOMAIN clusters, clusters[n] # None
               PROVE  \A l \in clusters[n].users : name[l] = n
    BY DEF OwnClusterOnly
  <2>1. OwnedCluster(n)
    BY DEF IInv, TypeOK, Owned
  <2> QED BY <2>1 DEF OwnedCluster
<1> QED BY <1>1, Invariance, PTL

\* Nothing is installed by a lab that has found an artifact or the documents
\* bad (prepare_artifacts, airgap_preinstall_gate).
THEOREM OnlyChecked == Spec => []InstallsOnlyChecked
<1>1. IInv => InstallsOnlyChecked
  <2> SUFFICES ASSUME IInv, NEW n \in DOMAIN clusters, clusters[n] # None
               PROVE  \A l \in clusters[n].users : lab[l].bad = {}
    BY DEF InstallsOnlyChecked
  <2>1. OwnedCluster(n)
    BY DEF IInv, TypeOK, Owned
  <2> QED BY <2>1 DEF OwnedCluster, Cleared
<1> QED BY <1>1, Invariance, PTL

\* An exit status of 0 and a results.json that says passed are true, but for
\* interrupts, lost diagnostics and lost evidence (run, write_evidence).
THEOREM TrueEvidence == Spec => []EvidenceTellsTheTruth
<1>1. IInv => EvidenceTellsTheTruth
  <2> SUFFICES ASSUME IInv, NEW l \in Labs
               PROVE  /\ Succeeded(lab[l]) =>
                           ~lab[l].wrong /\ lab[l].phase > Len(Phases)
                      /\ lab[l].evidence = "passed" /\ lab[l].wrong =>
                           lab[l].lost # {}
    BY DEF EvidenceTellsTheTruth
  <2>1. Honest(lab[l])
    BY DEF IInv
  <2> QED BY <2>1 DEF Honest, Succeeded
<1> QED BY <1>1, Invariance, PTL

-----------------------------------------------------------------------------
(* The teardown.                                                            *)

\* Only the teardown takes clusters and registries away.
LEMMA Keeps ==
  ASSUME IInv, NEW l \in Labs,
         \/ Skip(l) \/ RunLocal(l) \/ StartRegistry(l) \/ CreateCluster(l)
         \/ PrepareArtifacts(l) \/ PreinstallGate(l)
         \/ Verify(l) \/ Act(l) \/ InstallCharts(l) \/ Poll(l) \/ Diagnose(l)
         \/ Hang(l) \/ Complete(l) \/ DiagnoseFailure(l) \/ WriteEvidence(l)
         \/ Interrupt(l) \/ Kill(l) \/ UseContext
  PROVE  /\ \A n \in DOMAIN clusters : clusters[n] # None => clusters'[n] # None
         /\ \A n \in Names : registries[n] # None => registries'[n] # None
<1>1. /\ DOMAIN clusters = Names \cup {Home} /\ name[l] \in Names
      /\ clusters \in [Names \cup {Home} -> ClusterStates \cup {None}]
      /\ registries \in [Names -> Labs \cup {None}]
  BY Known
<1>2. CASE UNCHANGED <<clusters, registries>>
  BY <1>2
<1>3. CASE StartRegistry(l)
  <2>1. /\ UNCHANGED clusters
        /\ \/ UNCHANGED registries
           \/ registries' = [registries EXCEPT ![name[l]] = l]
    BY <1>3 DEF StartRegistry, Unchanged
  <2>2. l # None
    BY LabAssumption DEF LabAssumption
  <2> QED BY <1>1, <2>1, <2>2
<1>4. CASE CreateCluster(l)
  <2>1. /\ UNCHANGED registries
        /\ \/ UNCHANGED clusters
           \/ clusters' = [clusters EXCEPT ![name[l]] = Fresh(l)]
    BY <1>4 DEF CreateCluster, Unchanged
  <2>2. Fresh(l) # None
    <3>1. Fresh(l) \in ClusterStates
      BY DEF Fresh, ClusterStates
    <3> QED BY <3>1, NoClusterAssumption
  <2> QED BY <1>1, <2>1, <2>2
<1>5. CASE Act(l) \/ InstallCharts(l) \/ Hang(l)
  <2>1. /\ UNCHANGED registries
        /\ UNCHANGED clusters \/ (Reaches(l) /\ Touch(l))
    BY <1>5 DEF Act, InstallCharts, Hang, Guarded, Unchanged
  <2>2. CASE Reaches(l) /\ Touch(l)
    <3>1. clusters[name[l]] \in ClusterStates
      BY <1>1, <2>2 DEF Reaches, Target
    <3> DEFINE used == [clusters[name[l]] EXCEPT !.users = @ \cup {l}]
    <3>2. used \in ClusterStates
      BY <3>1 DEF ClusterStates
    <3>3. clusters' = [clusters EXCEPT ![name[l]] = used]
      <4>1. clusters' = [clusters EXCEPT ![name[l]].users = @ \cup {l}]
        BY <2>2 DEF Touch, Target
      <4> QED BY <1>1, <4>1
    <3> HIDE DEF used
    <3> QED BY <1>1, <2>1, <3>2, <3>3, NoClusterAssumption
  <2> QED BY <2>1, <2>2
<1>6. CASE \/ Skip(l) \/ RunLocal(l) \/ PrepareArtifacts(l) \/ PreinstallGate(l)
           \/ Verify(l) \/ Poll(l) \/ Diagnose(l)
           \/ Complete(l) \/ DiagnoseFailure(l) \/ WriteEvidence(l)
  BY <1>2, <1>6 DEF Skip, RunLocal, PrepareArtifacts, PreinstallGate, Check,
     Verify, Poll, Diagnose, Complete, DiagnoseFailure, WriteEvidence, Unchanged
<1>7. CASE Interrupt(l) \/ Kill(l) \/ UseContext
  BY <1>2, <1>7 DEF Interrupt, Kill, UseContext, Fault
<1> QED BY <1>3, <1>4, <1>5, <1>6, <1>7

\* The cluster that is deleted has the name of this lab, and was created by it
\* or by another lab of that name.
LEMMA TakesOwn ==
  ASSUME IInv, NEW l \in Labs, DeleteCluster(l) \/ RemoveRegistry(l)
  PROVE  /\ \A n \in DOMAIN clusters :
              clusters[n] # None /\ clusters'[n] = None =>
                /\ name[l] = n /\ (clusters[n].creator = l \/ Shared(l))
                /\ lab[l].pc = "deleting" /\ lab'[l].pc = "removing"
         /\ \A n \in Names :
              registries[n] # None /\ registries'[n] = None =>
                /\ name[l] = n /\ (registries[n] = l \/ Shared(l))
                /\ lab[l].pc = "removing"
<1>1. /\ DOMAIN clusters = Names \cup {Home}
      /\ clusters \in [Names \cup {Home} -> ClusterStates \cup {None}]
      /\ registries \in [Names -> Labs \cup {None}]
      /\ name[l] # Home
  BY Known, LabAssumption DEF LabAssumption
<1>2. CASE DeleteCluster(l)
  <2>1. /\ lab[l].pc = "deleting" /\ UNCHANGED registries
        /\ UNCHANGED clusters \/ clusters' = [clusters EXCEPT ![name[l]] = None]
    BY <1>2 DEF DeleteCluster, Doomed, Unchanged
  <2>2. lab'[l].pc = "removing"
    <3>1. lab \in [Labs -> LabStates]
      BY DEF IInv, TypeOK
    <3>2. PICK t : lab' = [lab EXCEPT ![l] = t] /\ t.pc = "removing"
      <4>1. lab[l] \in LabStates
        BY Known
      <4>2. CASE Become(l, [lab[l] EXCEPT !.pc = "removing"])
        <5>1. [lab[l] EXCEPT !.pc = "removing"].pc = "removing"
          BY <4>1 DEF LabStates
        <5> QED BY <4>2, <5>1 DEF Become
      <4>3. ASSUME NEW timeout \in BOOLEAN,
                   Become(l, [lab[l] EXCEPT !.pc = "removing",
                                            !.raised = @ \/ timeout,
                                            !.wrong = @ \/ timeout,
                                            !.lost = @ \cup {"teardown"}])
            PROVE  \E t : lab' = [lab EXCEPT ![l] = t] /\ t.pc = "removing"
        <5> DEFINE u == [lab[l] EXCEPT !.pc = "removing",
                                       !.raised = @ \/ timeout,
                                       !.wrong = @ \/ timeout,
                                       !.lost = @ \cup {"teardown"}]
        <5>1. u.pc = "removing"
          BY <4>1 DEF LabStates
        <5>2. lab' = [lab EXCEPT ![l] = u]
          BY <4>3 DEF Become
        <5> HIDE DEF u
        <5> QED BY <5>1, <5>2
      <4> QED BY <1>2, <4>2, <4>3 DEF DeleteCluster
    <3> QED BY <3>1, <3>2
  <2>3. ASSUME NEW n \in DOMAIN clusters, clusters[n] # None, clusters'[n] = None
        PROVE  name[l] = n /\ (clusters[n].creator = l \/ Shared(l))
    <3>1. n = name[l]
      BY <1>1, <2>1, <2>3
    <3>2. OwnedCluster(n)
      BY <1>1, <2>3 DEF IInv, Owned
    <3> QED BY <1>1, <3>1, <3>2 DEF OwnedCluster, Shared
  <2> QED BY <2>1, <2>2, <2>3
<1>3. CASE RemoveRegistry(l)
  <2>1. /\ lab[l].pc = "removing" /\ UNCHANGED clusters
        /\ \/ UNCHANGED registries
           \/ registries' = [registries EXCEPT ![name[l]] = None]
    BY <1>3 DEF RemoveRegistry, Unchanged
  <2>2. ASSUME NEW n \in Names, registries[n] # None, registries'[n] = None
        PROVE  name[l] = n /\ (registries[n] = l \/ Shared(l))
    <3>1. n = name[l]
      BY <1>1, <2>1, <2>2
    <3>2. name[registries[n]] = n /\ registries[n] \in Labs
      BY <1>1, <2>2 DEF IInv, Owned
    <3> QED BY <1>1, <3>1, <3>2 DEF Shared
  <2> QED BY <2>1, <2>2
<1> QED BY <1>2, <1>3

\* A cluster or a registry disappears only in the teardown of a lab of its
\* name, which is the one that created it unless the name was given twice
\* (teardown, new_lab_names).
THEOREM OwnTeardown == Spec => TearsDownOnlyOwn
<1> DEFINE A == /\ \A n \in DOMAIN clusters :
                     clusters[n] # None /\ clusters'[n] = None =>
                       \E l \in Labs : /\ name[l] = n
                                       /\ clusters[n].creator = l \/ Shared(l)
                                       /\ lab[l].pc = "deleting"
                                       /\ lab'[l].pc = "removing"
                /\ \A n \in Names :
                     registries[n] # None /\ registries'[n] = None =>
                       \E l \in Labs : /\ name[l] = n
                                       /\ registries[n] = l \/ Shared(l)
                                       /\ lab[l].pc = "removing"
<1>1. IInv /\ [Next]_vars => [A]_vars
  <2> SUFFICES ASSUME IInv, Next PROVE A
    OBVIOUS
  <2>1. CASE UseContext
    BY <2>1 DEF UseContext, Fault
  <2>2. ASSUME NEW l \in Labs, DeleteCluster(l) \/ RemoveRegistry(l)
        PROVE  A
    BY <2>2, TakesOwn
  <2>3. ASSUME NEW l \in Labs, Step(l) \/ Interrupt(l) \/ Kill(l)
        PROVE  A
    BY <2>2, <2>3, Keeps DEF Step
  <2> QED BY <2>1, <2>3 DEF Next
<1>2. [][A]_vars => TearsDownOnlyOwn
  BY PTL DEF TearsDownOnlyOwn
<1> HIDE DEF A
<1> QED BY <1>1, <1>2, Invariance, PTL DEF Spec

=============================================================================
