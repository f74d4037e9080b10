------------------------ MODULE MCChangeControl ------------------------
(***************************************************************************)
(* Small instances of ChangeControl.  The resources are the Namespace of the *)
(* gateway, the Gateway and a Service in it; their identities sort in the   *)
(* order Gateway, Namespace, Service (ResourceRef.identity starts with the  *)
(* API version).                                                            *)
(***************************************************************************)
EXTENDS ChangeControl, SequencesExt

Order == <<"gateway", "namespace", "service">>

PairOfRefs == {"gateway", "namespace"}
AllRefs == {"gateway", "namespace", "service"}

HomeOf == [r \in Refs |-> IF r = "namespace" THEN None ELSE "namespace"]
KindOf == [r \in Refs |-> CASE r = "gateway"   -> "Gateway"
                            [] r = "namespace" -> "Namespace"
                            [] r = "service"   -> "Service"]
SortedRefs == [S \in SUBSET Refs |-> SelectSeq(Order, LAMBDA r : r \in S)]

\* "keyed" has a value that redaction removes, "masked" is what is left of it.
Plain == {"old", "new"}
Secretive == {"old", "keyed", "masked"}
Masking == [m \in Manifests |-> IF m = "keyed" THEN "masked" ELSE m]

Holding(S, m) == [r \in Refs |-> IF r \in S THEN m ELSE Absent]

\* Clusters: nothing, the Namespace only, or everything.
Greenfield == {Nothing}
Prepared   == {Holding({"namespace"}, "old")}
Installed  == {Holding(Refs, "old")}
Mixed      == Greenfield \cup Prepared \cup Installed
Sensitive  == {Holding(Refs, "keyed")}

\* What the overlay renders.
Complete == {Holding(Refs, "new")}
Replaced == {Holding(Refs, "old")}
Small    == {Holding({"gateway", "namespace"}, "new")}

AllCommands == ChangeCommands
DeployOnly  == {"deploy apply"}

Limits(w, s, e, r, t, m, p, c, j) ==
  [event \in Events |->
     CASE event = "write"    -> w [] event = "switch"  -> s
       [] event = "edit"     -> e [] event = "retarget" -> r
       [] event = "tamper"   -> t [] event = "misread" -> m
       [] event = "plan"     -> p [] event = "capture" -> c
       [] event = "job"      -> j]

GateBudget == Limits(0, 1, 0, 1, 1, 1, 1, 1, 2)
RecoveryBudget == Limits(1, 0, 1, 0, 0, 0, 2, 1, 2)
EditedChange == Limits(0, 0, 1, 0, 0, 0, 1, 1, 1)
ChangeAndUndo == Limits(0, 0, 0, 0, 0, 0, 2, 1, 2)
DisturbedUndo == Limits(1, 0, 0, 0, 0, 0, 2, 1, 2)
TwoChangesAndUndo == Limits(0, 0, 0, 0, 0, 0, 3, 2, 3)
=============================================================================
