-------------------------------- MODULE Pki ---------------------------------
(***************************************************************************)
(* The PKI directory of the VPN server and the commands that change it:    *)
(* easyrsa (an Alpine package, external), the scripts of bin/ and the file *)
(* removals of src/src/openvpn/removeClient.ts.                            *)
(*                                                                         *)
(* A key pair is a number, None when the file does not exist.  A request   *)
(* and a certificate are the number of the pair they are for, and stand    *)
(* for the serial number of the certificate too: a pair is certified once. *)
(* The server's own files are left out, as ovpn_listclients leaves them    *)
(* out of its listing.  Each easyrsa command is one step.                  *)
(***************************************************************************)
EXTENDS Integers, FiniteSets

CONSTANT Device    \* the X509 common names, which are the device ids

VARIABLES
  key,      \* pki/private/<id>.key
  req,      \* pki/reqs/<id>.req
  crt,      \* pki/issued/<id>.crt
  pairs,    \* how many key pairs were generated
  signed,   \* the certificates in pki/index.txt
  revoked,  \* those of them it marks as revoked
  crl,      \* the certificates in pki/crl.pem
  live      \* those in the crl.pem openvpn reads (--crl-verify)

files == <<key, req, crt>>
pki == <<key, req, crt, pairs, signed, revoked, crl, live>>

None == 0

Pairs == 1..pairs

PkiTypeOK ==
  /\ pairs \in Nat
  /\ key \in [Device -> Pairs \union {None}]
  /\ req \in [Device -> Pairs \union {None}]
  /\ crt \in [Device -> Pairs \union {None}]
  /\ signed \subseteq Pairs
  /\ revoked \subseteq signed
  /\ crl \subseteq signed
  /\ live \subseteq signed

NoFiles == [d \in Device |-> None]

\* After ovpn_initpki: no client yet, and an empty CRL.
PkiInit ==
  /\ key = NoFiles
  /\ req = NoFiles
  /\ crt = NoFiles
  /\ pairs = 0
  /\ signed = {}
  /\ revoked = {}
  /\ crl = {}
  /\ live = {}

\* ovpn_listclients: a line for each issued certificate, revoked or not.
Listed == {d \in Device : crt[d] # None}

-----------------------------------------------------------------------------

AnyFile(d) == key[d] # None \/ req[d] # None \/ crt[d] # None

\* Mutant: the request is not written.
GenReqKeyOnly(d) ==
  /\ ~AnyFile(d)
  /\ pairs' = pairs + 1
  /\ key' = [key EXCEPT ![d] = pairs + 1]
  /\ UNCHANGED <<req, crt, signed, revoked, crl, live>>

\* Mutant: files that are left of a device are overwritten.
GenReqOverwrites(d) ==
  /\ pairs' = pairs + 1
  /\ key' = [key EXCEPT ![d] = pairs + 1]
  /\ req' = [req EXCEPT ![d] = pairs + 1]
  /\ UNCHANGED <<crt, signed, revoked, crl, live>>

\* easyrsa build-client-full, first half: it refuses to overwrite any file.
GenReq(d) ==
  /\ ~AnyFile(d)
  /\ pairs' = pairs + 1
  /\ key' = [key EXCEPT ![d] = pairs + 1]
  /\ req' = [req EXCEPT ![d] = pairs + 1]
  /\ UNCHANGED <<crt, signed, revoked, crl, live>>

\* easyrsa build-client-full, second half.
SignReq(d) ==
  /\ crt' = [crt EXCEPT ![d] = req[d]]
  /\ signed' = signed \union {req[d]}
  /\ UNCHANGED <<key, req, pairs, revoked, crl, live>>

\* ovpn_revokeclient wants the key, easyrsa revoke the certificate, and
\* openssl ca -revoke fails on one that is revoked already.
Revocable(d) == key[d] # None /\ crt[d] # None /\ crt[d] \notin revoked

Revoke(d) ==
  /\ Revocable(d)
  /\ revoked' = revoked \union {crt[d]}
  /\ UNCHANGED <<files, pairs, signed, crl, live>>

\* Mutant: the CRL lists what was revoked since the last one.
GenCrlNewOnly ==
  /\ crl' = revoked \ crl
  /\ UNCHANGED <<files, pairs, signed, revoked, live>>

\* easyrsa gen-crl
GenCrl ==
  /\ crl' = revoked
  /\ UNCHANGED <<files, pairs, signed, revoked, live>>

\* Mutant: the CRL stays in the PKI directory.
CopyCrlForgotten == UNCHANGED pki

\* cp -f pki/crl.pem crl.pem, in ovpn_revokeclient.  ovpn_run does it too
\* when pki/crl.pem is newer, which it is whenever the two differ.
CopyCrl ==
  /\ live' = crl
  /\ UNCHANGED <<files, pairs, signed, revoked, crl>>

\* unlinkSync throws at the first file that does not exist.
Unlinkable(d) == key[d] # None /\ req[d] # None /\ crt[d] # None

\* Mutant: the request is not removed.
UnlinkNoReq(d, n) ==
  /\ key' = IF n >= 1 THEN [key EXCEPT ![d] = None] ELSE key
  /\ crt' = IF n >= 3 /\ key[d] # None THEN [crt EXCEPT ![d] = None] ELSE crt
  /\ UNCHANGED <<req, pairs, signed, revoked, crl, live>>

\* Mutant: the certificate is removed first.
UnlinkCrtFirst(d, n) ==
  /\ crt' = IF n >= 1 THEN [crt EXCEPT ![d] = None] ELSE crt
  /\ key' = IF n >= 2 THEN [key EXCEPT ![d] = None] ELSE key
  /\ req' = IF n >= 3 THEN [req EXCEPT ![d] = None] ELSE req
  /\ UNCHANGED <<pairs, signed, revoked, crl, live>>

\* The removals of removeClient, cut short after n files: the key, then the
\* request, then the certificate, each only when the one before was there.
Unlink(d, n) ==
  /\ key' = IF n >= 1 THEN [key EXCEPT ![d] = None] ELSE key
  /\ req' = IF n >= 2 /\ key[d] # None THEN [req EXCEPT ![d] = None] ELSE req
  /\ crt' = IF n >= 3 /\ key[d] # None /\ req[d] # None
             THEN [crt EXCEPT ![d] = None] ELSE crt
  /\ UNCHANGED <<pairs, signed, revoked, crl, live>>

-----------------------------------------------------------------------------

\* The certificates openvpn accepts.
Accepted == signed \ live

=============================================================================
