----------------------------- MODULE MCPayments -----------------------------
(* Finite instances of Payments for TLC. *)
EXTENDS Payments, TLC

Symmetry == Permutations(Intents) \cup Permutations(Refunds) \cup Permutations(Keys)
            \cup Permutations(Slots)

=============================================================================
