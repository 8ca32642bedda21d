----------------------------- MODULE MCDelivery -----------------------------
(***************************************************************************)
(* The instance of Delivery for TLC.                                       *)
(***************************************************************************)
EXTENDS Delivery, TLC

CONSTANTS a, b, t1, t2, r1, r2

MCDevice == {a, b}
MCToken == {t1, t2}
MCSlot == {r1, r2}

Symmetry == Permutations(MCDevice) \union Permutations(MCToken)
              \union Permutations(MCSlot)

=============================================================================
