------------------------ MODULE MCOrderOrchestration ------------------------
(* Finite instances of OrderOrchestration for TLC. *)
EXTENDS OrderOrchestration, TLC

\* Couriers are only compared with each other, and so are slots and orders.
Symmetry == Permutations(Couriers) \cup Permutations(Slots) \cup Permutations(Orders)

=============================================================================
