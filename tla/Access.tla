------------------------------- MODULE Access -------------------------------
(***************************************************************************)
(* What the device calls promise to the owner of the server, whatever      *)
(* requests run at the same time and wherever they are cut off:            *)
(*                                                                         *)
(*   - a device gets a certificate that nobody had before, and only when   *)
(*     it has none;                                                        *)
(*   - a certificate openvpn refuses is refused for good;                  *)
(*   - a device loses its certificate, and with it its place on the        *)
(*     listing, only once openvpn refuses it.                              *)
(*                                                                         *)
(* So a certificate that opens the VPN is always that of one device on the *)
(* listing (OneOwner).                                                     *)
(***************************************************************************)
CONSTANTS Device, NoCert

VARIABLES
  cert,      \* the certificate of each device
  issued,    \* the certificates that were ever issued
  refused    \* those openvpn refuses

vars == <<cert, issued, refused>>

Init ==
  /\ cert = [d \in Device |-> NoCert]
  /\ issued = {}
  /\ refused = {}

Issue(d) ==
  /\ cert[d] = NoCert
  /\ cert'[d] \notin issued \union {NoCert}
  /\ cert' = [cert EXCEPT ![d] = cert'[d]]
  /\ issued' = issued \union {cert'[d]}
  /\ UNCHANGED refused

\* openvpn gets a newer CRL.
Refuse ==
  /\ refused \subseteq refused' /\ refused' \subseteq issued
  /\ UNCHANGED <<cert, issued>>

Drop(d) ==
  /\ cert[d] \in refused
  /\ cert' = [cert EXCEPT ![d] = NoCert]
  /\ UNCHANGED <<issued, refused>>

Next == Refuse \/ \E d \in Device : Issue(d) \/ Drop(d)

Spec == Init /\ [][Next]_vars

-----------------------------------------------------------------------------

\* What the owner of the server has from these promises: every certificate
\* that opens the VPN is that of one device on the listing, and of no other.
OneOwner ==
  \A c \in issued \ refused :
    \E d \in Device : \A e \in Device : cert[e] = c <=> e = d

=============================================================================
