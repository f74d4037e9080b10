---------------------------- MODULE Kubectl ----------------------------
(***************************************************************************)
(* What the kubectl commands issued by the gateway CLI do to one cluster.   *)
(* The cluster and kubectl are outside the repository: this module says     *)
(* only what the planner (planning.py) and the executor (execution.py)      *)
(* rely on.  A cluster state maps every resource identity to the manifest   *)
(* it holds, or to Absent; the same shape describes what a Kustomize        *)
(* directory renders.                                                       *)
(***************************************************************************)
CONSTANTS
  Refs,       \* resource identities (ledger.ResourceRef)
  Home,       \* Home[r]: the Namespace resource that r lives in, or None
  Manifests,  \* contents a resource can have
  Absent,     \* "there is no such resource"
  None        \* the missing reference, plan, file or ledger

ASSUME KubectlAssumption ==
  /\ None \notin Refs
  /\ Absent \notin Manifests
  /\ Home \in [Refs -> Refs \cup {None}]
  /\ \A r \in Refs : Home[r] # None => Home[Home[r]] = None

Live == Manifests \cup {Absent}
ClusterStates == [Refs -> Live]

Nothing == [r \in Refs |-> Absent]

Present(cl) == {r \in Refs : cl[r] # Absent}

\* Nothing lives in a Namespace that is not there.
Housed(cl) == \A r \in Present(cl) : Home[r] \in Present(cl) \cup {None}

\* The documents among S that the API server accepts: their Namespace exists
\* already or comes with the same command, which applies Namespaces first.
Landing(cl, S) == {r \in S : Home[r] \in Present(cl) \cup S \cup {None}}

\* kubectl apply of the documents S of a rendered directory.
Applied(cl, docs, S) ==
  [r \in Refs |-> IF r \in Landing(cl, S) THEN docs[r] ELSE cl[r]]

\* Deleting a Namespace deletes everything that lives in it.
WithContents(S) == S \cup {r \in Refs : Home[r] \in S}

\* kubectl delete of the resources S.
Removed(cl, S) ==
  [r \in Refs |-> IF r \in WithContents(S) THEN Absent ELSE cl[r]]

=============================================================================
