------------------------- MODULE SupplyChain -------------------------
(***************************************************************************)
(* The way of the artifacts into the air gap: the bundle and the promotion  *)
(* of images share nothing but the lock: images are promoted from where the *)
(* lock says they come from, never out of the bundle.                       *)
(***************************************************************************)
EXTENDS AirgapBundle, RegistryPromotion

vars == <<left, bundleVars, promotionVars>>

Init == left \in Budgets /\ BundleInit /\ PromotionInit

Next == \/ BundleNext /\ UNCHANGED promotionVars
        \/ PromotionNext /\ UNCHANGED bundleVars

Spec == Init /\ [][Next]_vars

\* Every part of the state has its type.
TypeOK == /\ \A event \in DOMAIN left : left[event] \in Nat
          /\ BundleTypeOK
          /\ PromotionTypeOK

=============================================================================
