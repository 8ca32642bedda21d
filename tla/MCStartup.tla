----------------------------- MODULE MCStartup ------------------------------
(***************************************************************************)
(* An instance of Startup for TLC: two hostnames, of which one can be that *)
(* of the server and the other the name of a device, next to the main      *)
(* admin, and two calls of the API at a time.                              *)
(***************************************************************************)
EXTENDS Startup, TLC

CONSTANTS h1, h2, admin, c1, c2

MCHost == {h1, h2}
MCDevice == {admin}
MCCall == {c1, c2}

Interchangeable == Permutations(MCHost) \union Permutations(MCCall)

OnlyKill == {"kill"}

=============================================================================
