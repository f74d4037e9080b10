--------------------------- MODULE KindLab ---------------------------
(***************************************************************************)
(* The disposable kind lab (kind_lab.py): KindE2ELab.run creates a registry *)
(* and a cluster, installs the gateway, probes it and takes everything down *)
(* again.  Several labs may run on one machine; what they share is the      *)
(* kubeconfig with its current context, which "kind create" switches and    *)
(* anybody may switch back.                                                 *)
(*                                                                         *)
(* A lab is a process that goes through its phases, one external command    *)
(* (or a group of like ones) per phase.  Every kubectl phase is two steps,  *)
(* KubectlGuard's look at the current context and the command itself.       *)
(* Except and finally clauses are the program counters after "running".     *)
(***************************************************************************)
EXTENDS Naturals, Sequences, FiniteSets

CONSTANTS
  Labs,       \* runs of the lab, one process each
  Names,      \* the names a cluster, its context and its registry may get
  Home,       \* the context of a cluster that is not a lab's
  WithNginx,  \* labs run with --with-nginx
  Keep,       \* labs run with --keep
  MaxPolls,   \* how often a condition is read before its deadline
  MaxFaults,  \* interrupts, kills and switches of the current context
  None        \* no cluster, no owner, no current context

ASSUME LabAssumption ==
  /\ Home \notin Names /\ None \notin Names \cup {Home} \cup Labs
  /\ WithNginx \subseteq Labs /\ Keep \subseteq Labs
  /\ MaxPolls \in Nat /\ MaxFaults \in Nat

VARIABLES
  lab,         \* the processes
  name,        \* LabNames: it ends in a random token or in --run-id, which may
               \* have been given before
  clusters,    \* the kind clusters, and Home
  registries,  \* the registry containers
  current,     \* the current context of the kubeconfig
  faults       \* how many faults have happened

vars == <<lab, name, clusters, registries, current, faults>>

-----------------------------------------------------------------------------
(* The phases.                                                              *)

Phases ==
  <<"preflight", "registry", "cluster", "images", "artifacts", "gate", "crds",
    "charts", "overlay", "credentials", "readiness", "audit", "matrix",
    "diagnostics", "broken", "nginx", "nginx matrix", "cleanup", "diagnostics">>

NginxPhases == {"nginx", "nginx matrix"}

\* Commands that touch neither a cluster nor a registry name.
Local == {"preflight", "images"}

\* kubectl commands that change the cluster; the others read or probe.
Changing == {"crds", "overlay", "credentials", "broken", "nginx", "cleanup"}
Probing == {"matrix", "nginx matrix", "broken", "cleanup"}
Guarded == Changing \cup Probing \cup {"readiness", "audit"}

\* docker tag and urlretrieve have no timeout, and the timeout of an HTTP probe
\* bounds each of its reads, not the answer.
Unbounded == {"images", "artifacts"} \cup Probing

PCs == {"running", "stuck", "diagnosing", "writing", "deleting", "removing",
        "exited", "killed"}

LabStates ==
  [pc: PCs, phase: 1..Len(Phases) + 1, verified: BOOLEAN, polls: 0..MaxPolls,
   failed: BOOLEAN,   \* LabEvidence.failed
   raised: BOOLEAN,   \* an exception is on its way out
   evidence: {"none", "passed", "failed"},  \* the status in results.json
   \* History: something went wrong, what was found bad, and which step of
   \* the clean-up did not happen.
   wrong: BOOLEAN, bad: SUBSET {"artifacts", "documents"},
   lost: SUBSET {"interrupt", "diagnostics", "evidence", "teardown"}]

\* users: history, the labs that have changed it.
ClusterStates == [creator: Labs \cup {None}, users: SUBSET Labs]

ASSUME NoClusterAssumption == None \notin ClusterStates

Fresh(creator) == [creator |-> creator, users |-> {}]

Running(l) == lab[l].pc = "running" /\ lab[l].phase <= Len(Phases)
At(l) == Phases[lab[l].phase]
Skips(l, phase) == \/ phase \in NginxPhases /\ l \notin WithNginx
                   \/ phase = "diagnostics" /\ ~lab[l].failed

Become(l, changed) == /\ lab' = [lab EXCEPT ![l] = changed]
                      /\ UNCHANGED name

Advanced(s) == [s EXCEPT !.phase = @ + 1, !.verified = FALSE, !.polls = 0]

\* The try block is left for good; where it was left makes no difference.
Leave(s, pc) == [s EXCEPT !.pc = pc, !.phase = 1, !.verified = FALSE,
                          !.polls = 0]

\* An exception in the try block: the except clause is next.
Raised(s) == [Leave(s, "diagnosing") EXCEPT !.raised = TRUE, !.wrong = TRUE]

\* A command that is run with check=True succeeds, or fails the workflow.
ThenOrRaise(l, s) == \/ Become(l, Advanced(s))
                     \/ Become(l, Raised(s))

Unchanged(those) == UNCHANGED those /\ UNCHANGED faults

-----------------------------------------------------------------------------
(* Phases outside the cluster.                                              *)

Skip(l) == /\ Running(l) /\ Skips(l, At(l))
           /\ Become(l, Advanced(lab[l]))
           /\ Unchanged(<<clusters, registries, current>>)

\* preflight and prepare_images.
RunLocal(l) == /\ Running(l) /\ At(l) \in Local
               /\ ThenOrRaise(l, lab[l])
               /\ Unchanged(<<clusters, registries, current>>)

\* docker run --name: fails when the name is taken, and may leave a container
\* behind when it fails later.
StartRegistry(l) ==
  /\ Running(l) /\ At(l) = "registry"
  /\ \/ /\ registries[name[l]] = None
        /\ registries' = [registries EXCEPT ![name[l]] = l]
        /\ ThenOrRaise(l, lab[l])
     \/ /\ Become(l, Raised(lab[l]))
        /\ UNCHANGED registries
  /\ Unchanged(<<clusters, current>>)

\* kind create cluster makes the new context the current one.
CreateCluster(l) ==
  /\ Running(l) /\ At(l) = "cluster"
  /\ \/ /\ clusters[name[l]] = None
        /\ clusters' = [clusters EXCEPT ![name[l]] = Fresh(l)]
        /\ \/ current' = name[l] /\ Become(l, Advanced(lab[l]))
           \/ UNCHANGED current /\ Become(l, Raised(lab[l]))
     \/ /\ Become(l, Raised(lab[l]))
        /\ UNCHANGED <<clusters, current>>
  /\ Unchanged(registries)

\* A slip: what is found bad is noted, and the workflow goes on.
CheckAndLog(l, phase, what) ==
  /\ Running(l) /\ At(l) = phase
  /\ \/ ThenOrRaise(l, lab[l])
     \/ Become(l, Advanced([lab[l] EXCEPT !.bad = @ \cup {what}]))
  /\ Unchanged(<<clusters, registries, current>>)

\* A file is fetched, or the documents rendered, and then checked: the
\* checksum of prepare_artifacts, the contract of airgap_preinstall_gate.
Check(l, phase, what) ==
  /\ Running(l) /\ At(l) = phase
  /\ \/ ThenOrRaise(l, lab[l])
     \/ Become(l, Raised([lab[l] EXCEPT !.bad = @ \cup {what}]))
  /\ Unchanged(<<clusters, registries, current>>)

PrepareArtifacts(l) == Check(l, "artifacts", "artifacts")
PreinstallGate(l) == Check(l, "gate", "documents")

-----------------------------------------------------------------------------
(* Phases in the cluster.                                                   *)

\* KubectlGuard.verify_context.
Verify(l) ==
  /\ Running(l) /\ At(l) \in Guarded /\ ~Skips(l, At(l)) /\ ~lab[l].verified
  /\ \/ current = name[l] /\ Become(l, [lab[l] EXCEPT !.verified = TRUE])
     \/ Become(l, Raised(lab[l]))
  /\ Unchanged(<<clusters, registries, current>>)

\* The cluster a command of l goes to: kubectl --context, helm --kube-context.
TargetCurrent(l) == current  \* A slip: the verified context is left out.
Target(l) == name[l]

Reaches(l) == Target(l) # None /\ clusters[Target(l)] # None

Touch(l) == clusters' = [clusters EXCEPT ![Target(l)].users = @ \cup {l}]

\* What a guarded phase adds to the evidence: a probe passes or fails.
Probed(l) == IF At(l) \in Probing
             THEN {lab[l], [lab[l] EXCEPT !.failed = TRUE, !.wrong = TRUE]}
             ELSE {lab[l]}

\* The kubectl command of a phase; a failing one may have changed something.
Act(l) ==
  /\ Running(l) /\ lab[l].verified /\ At(l) # "readiness"
  /\ \/ /\ Reaches(l)
        /\ IF At(l) \in Changing THEN Touch(l) ELSE UNCHANGED clusters
        /\ \E s \in Probed(l) : ThenOrRaise(l, s)
     \/ /\ Become(l, Raised(lab[l]))
        /\ UNCHANGED clusters
  /\ Unchanged(<<registries, current>>)

\* helm, which nothing verifies the context for.
InstallCharts(l) ==
  /\ Running(l) /\ At(l) = "charts"
  /\ \/ Reaches(l) /\ Touch(l) /\ ThenOrRaise(l, lab[l])
     \/ Become(l, Raised(lab[l])) /\ UNCHANGED clusters
  /\ Unchanged(<<registries, current>>)

\* What the phase waits for never returns; a change comes before the probes.
Hang(l) ==
  /\ Running(l) /\ At(l) \in Unbounded /\ ~Skips(l, At(l))
  /\ At(l) \in Guarded => lab[l].verified /\ Reaches(l)
  /\ IF At(l) \in Changing THEN Touch(l) ELSE UNCHANGED clusters
  /\ Become(l, Leave(lab[l], "stuck"))
  /\ Unchanged(<<registries, current>>)

\* A slip: the deadline is not looked at.
PollWithoutDeadline(l) ==
  /\ Running(l) /\ lab[l].verified /\ At(l) = "readiness"
  /\ \/ Reaches(l) /\ Become(l, Advanced(lab[l]))
     \/ Become(l, [lab[l] EXCEPT !.verified = FALSE])
  /\ Unchanged(<<clusters, registries, current>>)

\* A slip: one reading more than the deadline allows.
PollOnceMore(l) ==
  /\ Running(l) /\ lab[l].verified /\ At(l) = "readiness"
  /\ \/ Reaches(l) /\ Become(l, Advanced(lab[l]))
     \/ /\ lab[l].polls <= MaxPolls
        /\ Become(l, [lab[l] EXCEPT !.verified = FALSE, !.polls = @ + 1])
     \/ lab[l].polls > MaxPolls /\ Become(l, Raised(lab[l]))
  /\ Unchanged(<<clusters, registries, current>>)

\* wait_resource_conditions: ready, not yet (or unreadable), or too late.
Poll(l) ==
  /\ Running(l) /\ lab[l].verified /\ At(l) = "readiness"
  /\ \/ Reaches(l) /\ Become(l, Advanced(lab[l]))
     \/ /\ lab[l].polls < MaxPolls
        /\ Become(l, [lab[l] EXCEPT !.verified = FALSE, !.polls = @ + 1])
     \/ lab[l].polls = MaxPolls /\ Become(l, Raised(lab[l]))
  /\ Unchanged(<<clusters, registries, current>>)

\* collect_failure_diagnostics inside the try block: commands that fail are
\* passed over, writing the file may fail.
Diagnose(l) ==
  /\ Running(l) /\ At(l) = "diagnostics" /\ ~Skips(l, At(l))
  /\ ThenOrRaise(l, lab[l])
  /\ Unchanged(<<clusters, registries, current>>)

-----------------------------------------------------------------------------
(* The except and finally clauses.                                          *)

\* A slip: the failure itself is not added to the evidence.
DiagnoseWithoutRecord(l) ==
  /\ lab[l].pc = "diagnosing"
  /\ Become(l, [lab[l] EXCEPT !.pc = "writing"])
  /\ Unchanged(<<clusters, registries, current>>)

\* The except clause; when the diagnostics cannot be written the failure is
\* not recorded.
DiagnoseFailure(l) ==
  /\ lab[l].pc = "diagnosing"
  /\ \/ Become(l, [lab[l] EXCEPT !.pc = "writing", !.failed = TRUE])
     \/ Become(l, [lab[l] EXCEPT !.pc = "writing",
                                 !.lost = @ \cup {"diagnostics"}])
  /\ Unchanged(<<clusters, registries, current>>)

Complete(l) ==
  /\ lab[l].pc = "running" /\ lab[l].phase > Len(Phases)
  /\ Become(l, [lab[l] EXCEPT !.pc = "writing"])
  /\ Unchanged(<<clusters, registries, current>>)

Written(s) == [s EXCEPT !.evidence = IF s.failed THEN "failed" ELSE "passed"]

\* write_evidence; an I/O error leaves the finally clause, before or after
\* results.json, and nothing is torn down.
WriteEvidence(l) ==
  /\ lab[l].pc = "writing"
  /\ \/ Become(l, [Written(lab[l]) EXCEPT
                     !.pc = IF l \in Keep THEN "exited" ELSE "deleting"])
     \/ \E s \in {lab[l], Written(lab[l])} :
          Become(l, [s EXCEPT !.pc = "exited", !.raised = TRUE, !.wrong = TRUE,
                              !.lost = @ \cup {"evidence"}])
  /\ Unchanged(<<clusters, registries, current>>)

\* A slip: the cluster of the current context is taken for the lab's.
DoomedCurrent(l) == current
Doomed(l) == name[l]

\* kind delete cluster, whose exit status is not looked at.
DeleteCluster(l) ==
  /\ lab[l].pc = "deleting"
  /\ \/ /\ Doomed(l) \in DOMAIN clusters
        /\ clusters' = [clusters EXCEPT ![Doomed(l)] = None]
        /\ current' = IF current = Doomed(l) THEN None ELSE current
        /\ Become(l, [lab[l] EXCEPT !.pc = "removing"])
     \/ /\ \E timeout \in BOOLEAN :
             Become(l, [lab[l] EXCEPT !.pc = "removing",
                                      !.raised = @ \/ timeout,
                                      !.wrong = @ \/ timeout,
                                      !.lost = @ \cup {"teardown"}])
        /\ UNCHANGED <<clusters, current>>
  /\ Unchanged(registries)

RemoveRegistry(l) ==
  /\ lab[l].pc = "removing"
  /\ \/ /\ registries' = [registries EXCEPT ![name[l]] = None]
        /\ Become(l, [lab[l] EXCEPT !.pc = "exited"])
     \/ /\ \E timeout \in BOOLEAN :
             Become(l, [lab[l] EXCEPT !.pc = "exited",
                                      !.raised = @ \/ timeout,
                                      !.wrong = @ \/ timeout,
                                      !.lost = @ \cup {"teardown"}])
        /\ UNCHANGED registries
  /\ Unchanged(<<clusters, current>>)

-----------------------------------------------------------------------------
(* Faults.                                                                  *)

Fault == /\ faults < MaxFaults
         /\ faults' = faults + 1
         /\ UNCHANGED <<clusters, registries>>

\* Ctrl-C is no Exception: the except clause is passed over.  In the finally
\* clause it ends the step it meets.
Interrupt(l) ==
  /\ Fault
  /\ UNCHANGED current
  /\ LET s == [lab[l] EXCEPT !.raised = TRUE, !.wrong = TRUE,
                             !.lost = @ \cup {"interrupt"}]
     IN \/ /\ s.pc \in {"running", "stuck", "diagnosing"}
           /\ Become(l, Leave(s, "writing"))
        \/ /\ s.pc \in {"writing", "removing"}
           /\ Become(l, [s EXCEPT !.pc = "exited"])
        \/ /\ s.pc = "deleting"
           /\ Become(l, [s EXCEPT !.pc = "removing"])

Kill(l) == /\ Fault
           /\ lab[l].pc \notin {"exited", "killed"}
           /\ Become(l, Leave(lab[l], "killed"))
           /\ UNCHANGED current

\* Somebody runs kubectl config use-context.
UseContext == /\ Fault
              /\ current' \in {c \in DOMAIN clusters : clusters[c] # None}
              /\ current' # current
              /\ UNCHANGED <<lab, name>>

Init ==
  /\ name \in [Labs -> Names]
  /\ lab = [l \in Labs |->
              [pc |-> "running", phase |-> 1, verified |-> FALSE, polls |-> 0,
               failed |-> FALSE, raised |-> FALSE, evidence |-> "none",
               wrong |-> FALSE, bad |-> {}, lost |-> {}]]
  /\ clusters = [n \in Names \cup {Home} |->
                   IF n = Home THEN Fresh(None) ELSE None]
  /\ registries = [n \in Names |-> None]
  /\ current = Home
  /\ faults = 0

\* One command, or the end of one, of lab l.
Step(l) ==
  \/ Skip(l) \/ RunLocal(l) \/ StartRegistry(l) \/ CreateCluster(l)
  \/ PrepareArtifacts(l) \/ PreinstallGate(l)
  \/ Verify(l) \/ Act(l) \/ InstallCharts(l) \/ Poll(l) \/ Diagnose(l)
  \/ Hang(l) \/ Complete(l) \/ DiagnoseFailure(l) \/ WriteEvidence(l)
  \/ DeleteCluster(l) \/ RemoveRegistry(l)

Next == \/ \E l \in Labs : Step(l) \/ Interrupt(l) \/ Kill(l)
        \/ UseContext

\* The program goes on until it waits for something that never returns; all
\* other commands have timeouts.
Spec == Init /\ [][Next]_vars /\ \A l \in Labs : WF_vars(Step(l))

-----------------------------------------------------------------------------
\* _handle_run: the exit status is that of the evidence, or of the exception.
Succeeded(s) == s.pc = "exited" /\ ~s.raised /\ ~s.failed

\* Labs keep their program counters and evidence, clusters and registries
\* their creators.
TypeOK ==
  /\ lab \in [Labs -> LabStates]
  /\ name \in [Labs -> Names]
  /\ clusters \in [Names \cup {Home} -> ClusterStates \cup {None}]
  /\ registries \in [Names -> Labs \cup {None}]
  /\ current \in Names \cup {Home, None}
  /\ faults \in 0..MaxFaults

\* A cluster is changed only by labs of its name, and a cluster that is no
\* lab's by none, however contexts are switched between KubectlGuard's look
\* and its command, by other labs or by hand.
OwnClusterOnly ==
  \A n \in DOMAIN clusters :
    clusters[n] # None => \A l \in clusters[n].users : name[l] = n

\* Nothing is installed by a lab that found the checksum of an artifact wrong
\* or its documents pointing at a public registry (prepare_artifacts,
\* airgap_preinstall_gate).
InstallsOnlyChecked ==
  \A n \in DOMAIN clusters :
    clusters[n] # None => \A l \in clusters[n].users : lab[l].bad = {}

\* The lab exits with 0 only if nothing went wrong, and results.json says
\* passed after something did only if the workflow was interrupted or could
\* not write its diagnostics or its evidence (run, write_evidence).
EvidenceTellsTheTruth ==
  \A l \in Labs :
    /\ Succeeded(lab[l]) => ~lab[l].wrong /\ lab[l].phase > Len(Phases)
    /\ lab[l].evidence = "passed" /\ lab[l].wrong => lab[l].lost # {}

\* --run-id has given the name of l to another lab as well.
Shared(l) == \E k \in Labs \ {l} : name[k] = name[l]

\* A cluster or a registry disappears only in the teardown of a lab that has
\* its name, and unless another lab was given the name too, of the one that
\* created it (teardown: "only the generated disposable cluster and registry").
TearsDownOnlyOwn ==
  [][/\ \A n \in DOMAIN clusters :
          clusters[n] # None /\ clusters'[n] = None =>
            \E l \in Labs : /\ name[l] = n
                            /\ clusters[n].creator = l \/ Shared(l)
                            /\ lab[l].pc = "deleting"
                            /\ lab'[l].pc = "removing"
     /\ \A n \in Names :
          registries[n] # None /\ registries'[n] = None =>
            \E l \in Labs : /\ name[l] = n
                            /\ registries[n] = l \/ Shared(l)
                            /\ lab[l].pc = "removing"]_vars

\* Nothing that l made is left.
Gone(l) == /\ clusters[name[l]] # None => clusters[name[l]].creator # l
           /\ registries[name[l]] # l

\* Every lab comes to an end, whatever fails, and leaves neither a cluster nor
\* a registry that it made, unless it was told to keep them, was interrupted or
\* killed, could not write its evidence, a command of the teardown itself
\* failed, or it waits for ever where nothing bounds the wait (Unbounded).
CleansUp ==
  \A l \in Labs :
    <>[](\/ lab[l].pc \in {"killed", "stuck"}
         \/ /\ lab[l].pc = "exited"
            /\ \/ Gone(l)
               \/ l \in Keep
               \/ lab[l].lost \cap {"interrupt", "evidence", "teardown"} # {})

=============================================================================
