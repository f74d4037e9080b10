------------------------- MODULE RegistryPromotion -------------------------
(***************************************************************************)
(* Promotion of the locked images to the private registry (registry.py and  *)
(* build_registry_promotion_plan), and the check of a rendered overlay      *)
(* against the lock.  An image reference is its destination and the digest  *)
(* that this ends with; the registry and the tools that talk to it are      *)
(* external, and an image that is in the registry stays there.              *)
(***************************************************************************)
EXTENDS SourcesLock, FiniteSetsExt

CONSTANTS
  Tools,     \* promotion tools used, of "skopeo" and "docker"
  FirstOverlay, \* the image references that the overlay renders at first
  Overlays   \* the sets of image references that it can render

ASSUME PromotionAssumption == Tools \subseteq {"skopeo", "docker"}

VARIABLES
  registry,  \* the image references that can be pulled from it
  plan,      \* the promotion plan file
  push,      \* the apply that is running
  report,    \* the plan that an apply reported as applied
  overlay,   \* the image references that the overlay renders
  proven     \* the lock under which verify manifests passed for the overlay

promotionVars == <<registry, plan, push, report, overlay, proven>>

References(lock) == {Destination(lock[e]) : e \in Images(lock)}

\* The images that a plan brings to the registry.
InPlan(p) == {p.actions[i].to : i \in DOMAIN p.actions}

\* The actions of a plan, in the order of the names of their entries; the
\* source is known by the digest that it pins.
PlannedActions(lock) ==
  [i \in {j \in DOMAIN EntryOrder : lock[EntryOrder[j]].image} |->
     [from |-> lock[EntryOrder[i]].source,
      to |-> Destination(lock[EntryOrder[i]])]]

-----------------------------------------------------------------------------
\* registry promote plan, with or without --skip-existing-check.
PlanPromotion ==
  /\ Spend("plan")
  /\ \E lock \in ValidLocks, tool \in Tools, check \in BOOLEAN :
       plan' = [actions |-> PlannedActions(lock),
                tool |-> tool, check |-> check]
  /\ UNCHANGED <<registry, push, report, overlay, proven>>

\* registry promote apply, confirmed: the plan file is read once.
StartPush ==
  /\ plan # None /\ push = None
  /\ Spend("push")
  /\ push' = [plan |-> plan, rest |-> DOMAIN plan.actions,
              absent |-> ~plan.check]
  /\ report' = None
  /\ UNCHANGED <<registry, plan, overlay, proven>>

Pushing == push # None /\ push.rest # {}

\* The image at hand.
At == push.plan.actions[Min(push.rest)]

Advance == push' = [push EXCEPT !.rest = @ \ {Min(@)},
                                !.absent = ~push.plan.check]

\* The existence check finds what is in the registry.
Found == At.to \in registry

\* An image that is there is left alone; one that is not found, because it is
\* not there or because the check fails, is to be copied.
CheckExisting ==
  /\ Pushing /\ ~push.absent
  /\ \/ Found /\ Advance
     \/ push' = [push EXCEPT !.absent = TRUE]
  /\ UNCHANGED <<registry, plan, report, overlay, proven, left>>

\* docker image tag names a local image and pushes nothing.
CopiedBy(tool) == IF tool = "skopeo" THEN {At.to} ELSE {}

\* skopeo stores no image under the digest of another.
Refused == push.plan.tool = "skopeo" /\ At.from # At.to[2]

CopyImage ==
  /\ Pushing /\ push.absent /\ ~Refused
  /\ registry' = registry \cup CopiedBy(push.plan.tool)
  /\ Advance
  /\ UNCHANGED <<plan, report, overlay, proven, left>>

\* A slip: after a copy that failed the apply goes on to the next image.
AfterFailureGoesOn == Advance

\* The first copy that fails ends the apply, without a report or a log.
AfterFailure == push' = None

\* A copy fails or the process is killed; what was copied stays.
FailCopy ==
  /\ Pushing /\ push.absent
  /\ IF Refused THEN UNCHANGED left ELSE Spend("failure")
  /\ AfterFailure
  /\ UNCHANGED <<registry, plan, report, overlay, proven>>

FinishPush ==
  /\ push # None /\ push.rest = {}
  /\ report' = push.plan
  /\ push' = None
  /\ UNCHANGED <<registry, plan, overlay, proven, left>>

-----------------------------------------------------------------------------
\* A slip: an image is known by its destination, whatever its digest.
OnlyLockedNames(images, lock) ==
  \A r \in images : \E s \in References(lock) : r[1] = s[1]

\* _validate_images: every image is one of the map made from the lock.
OnlyLocked(images, lock) == images \subseteq References(lock)

\* verify manifests; it writes nothing.
VerifyManifests ==
  /\ \E lock \in Locks :
       proven' = IF ValidLock(lock) /\ OnlyLocked(overlay, lock)
                 THEN lock ELSE None
  /\ UNCHANGED <<registry, plan, push, report, overlay, left>>

EditOverlay ==
  /\ Spend("overlay")
  /\ overlay' \in Overlays \ {overlay}
  /\ proven' = None
  /\ UNCHANGED <<registry, plan, push, report>>

-----------------------------------------------------------------------------
PromotionInit ==
  /\ registry = {}
  /\ plan = None /\ push = None /\ report = None
  /\ overlay = FirstOverlay
  /\ proven = None

PromotionNext ==
  \/ PlanPromotion \/ StartPush \/ CheckExisting \/ CopyImage \/ FailCopy
  \/ FinishPush \/ VerifyManifests \/ EditOverlay

PromotionTypeOK ==
  /\ \A p \in {plan, report} : p # None =>
       /\ p.tool \in Tools /\ p.check \in BOOLEAN
       /\ \A r \in InPlan(p) : r[2] \in Hashes
  /\ push # None => push.rest \subseteq DOMAIN push.plan.actions
  /\ proven \in ValidLocks \cup {None}

-----------------------------------------------------------------------------
(* Properties.                                                              *)

\* An apply with skopeo that reports "applied" leaves every image of its plan
\* in the registry: also after earlier applies of it or of other plans failed
\* half-way, with and without the existence check, and with existence checks
\* that fail.
AppliedIsPresent ==
  (report # None /\ report.tool = "skopeo") => InPlan(report) \subseteq registry

\* When verify manifests passed, and the plan that was applied with skopeo is
\* the plan of the same lock, every image that the overlay renders can be
\* pulled from the registry.
ProvenIsPullable ==
  /\ proven # None
  /\ report # None /\ report.tool = "skopeo"
  /\ report.actions = PlannedActions(proven)
  => overlay \subseteq registry

=============================================================================
