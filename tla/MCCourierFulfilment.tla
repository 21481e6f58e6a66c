------------------------ MODULE MCCourierFulfilment ------------------------
(* Finite instances of CourierFulfilment for TLC. *)
EXTENDS CourierFulfilment, TLC

Symmetry == Permutations(Couriers) \cup Permutations(Slots) \cup Permutations(Orders)

=============================================================================
