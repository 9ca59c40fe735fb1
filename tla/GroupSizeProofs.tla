-------------------------- MODULE GroupSizeProofs --------------------------
(***************************************************************************)
(* What delivery_group_size computes, for every section size.             *)
(***************************************************************************)
EXTENDS GroupSize, TLAPS

(***************************************************************************)
(* delivery_group_size(n) is, as its comment says, an integer >= n/3, and *)
(* the least one: ceil(n/3).  A relayed message reaches at least a third  *)
(* of the section, and no more nodes than that are asked for.             *)
(***************************************************************************)
THEOREM DeliveryGroupSizeIsCeiling ==
  ASSUME NEW n \in Nat
  PROVE  /\ DeliveryGroupSize(n) \in Nat
         /\ 3 * DeliveryGroupSize(n) >= n
         /\ 3 * (DeliveryGroupSize(n) - 1) < n
BY DEF DeliveryGroupSize

(***************************************************************************)
(* For a section that has elders, the delivery group is non-empty and no  *)
(* larger than the section: delivery_targets never asks for more targets  *)
(* than the section has, nor for none.                                    *)
(***************************************************************************)
THEOREM DeliveryGroupSizeInRange ==
  ASSUME NEW n \in Nat \ {0}
  PROVE  DeliveryGroupSize(n) \in 1 .. n
BY DEF DeliveryGroupSize
=============================================================================
