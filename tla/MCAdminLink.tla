---------------------------- MODULE MCAdminLink -----------------------------
(***************************************************************************)
(* The instance of AdminLink for TLC: one command next to the start, small *)
(* numbers of retries.                                                     *)
(***************************************************************************)
EXTENDS AdminLink

CONSTANTS c1

MCCmd == {c1}

=============================================================================
