--------------------------- MODULE GatedChange ---------------------------
(***************************************************************************)
(* What the executor promises, without saying how: a change starts from a   *)
(* plan whose identifier matches its contents, the clusters are touched     *)
(* only after the current context was seen to be the one the plan names,    *)
(* and every touch goes to the cluster that is current at that moment.      *)
(* ChangeControl implements this specification.                             *)
(***************************************************************************)
CONSTANTS
  Contexts,      \* clusters
  Sound(_),      \* the plan is what was approved
  ContextOf(_),  \* the context a plan names
  Target(_)      \* the context a touch went to

VARIABLES
  stage,     \* "closed", "open" (not verified yet) or "armed" (verified)
  approved,  \* the plan of the last change
  reached,   \* the cluster a command reaches now
  touched    \* what the last change has touched

gated == <<stage, approved, reached, touched>>

GatedInit == /\ stage = "closed"
             /\ reached \in Contexts
             /\ touched = {}

\* A change starts.
Open == /\ stage = "closed" /\ stage' = "open"
        /\ Sound(approved')
        /\ touched' = {}
        /\ reached' = reached

\* The current context is the plan's: mutations may follow.
Arm == /\ stage = "open" /\ stage' = "armed"
       /\ reached = ContextOf(approved)
       /\ UNCHANGED <<approved, reached, touched>>

\* A mutation, complete or cut short; when it is cut short the change is over.
Touch == /\ stage = "armed" /\ stage' \in {"armed", "closed"}
         /\ touched \subseteq touched'
         /\ \A t \in touched' \ touched : Target(t) = reached
         /\ UNCHANGED <<approved, reached>>

\* The change ends: finished, refused, failed or killed.
Close == /\ stage # "closed" /\ stage' = "closed"
         /\ UNCHANGED <<approved, reached, touched>>

\* Somebody selects another current context.
Move == /\ reached' \in Contexts
        /\ UNCHANGED <<stage, approved, touched>>

GatedNext == Open \/ Arm \/ Touch \/ Close \/ Move

GatedSpec == GatedInit /\ [][GatedNext]_gated

=============================================================================
