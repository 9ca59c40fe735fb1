----------------------------- MODULE GroupSize -----------------------------
(***************************************************************************)
(* The delivery group size of src/delivery_group.rs: how many of the      *)
(* targets a relayed message must reach, for a section of n elders.  Kept *)
(* apart from DeliveryGroup so that its proofs (GroupSizeProofs) need no   *)
(* sequence library.                                                       *)
(***************************************************************************)
EXTENDS Naturals

\* Variant of DeliveryGroupSize rounding n/3 down instead of up.
DeliveryGroupSizeFloor(n) == (n + 1) \div 3

\* delivery_group_size(n) = (n + 2) / 3.
DeliveryGroupSize(n) == (n + 2) \div 3

=============================================================================
