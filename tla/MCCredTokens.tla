---------------------------- MODULE MCCredTokens ----------------------------
(***************************************************************************)
(* Instances of CredTokens for TLC: two devices, three tokens, a validity  *)
(* of one clock unit, pruning after two and once per unit.                 *)
(***************************************************************************)
EXTENDS CredTokens, TLC

CONSTANTS d1, d2, t1, t2, t3

MCDevice == {d1, d2}
MCToken == {t1, t2, t3}
Symmetry == Permutations(MCDevice) \union Permutations(MCToken)

AllFaults == {"crash", "write"}
OnlyCrash == {"crash"}

=============================================================================
