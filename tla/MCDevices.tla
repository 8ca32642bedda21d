------------------------------ MODULE MCDevices -----------------------------
(***************************************************************************)
(* Instances of Devices for TLC.                                           *)
(***************************************************************************)
EXTENDS Devices, TLC

CONSTANTS admin, a, b, p1, p2, p3

ThreeDevices == {admin, a, b}
TwoDevices == {admin, a}
TwoProcs == {p1, p2}
ThreeProcs == {p1, p2, p3}

NoFaults == {}
AllFaults == {"timeout", "kill", "stop"}
OnlyKill == {"kill"}

Symmetry == Permutations({a, b}) \union Permutations(TwoProcs)
SymmetryThreeProcs == Permutations({a, b}) \union Permutations(ThreeProcs)

=============================================================================
