--------------------------- MODULE DevicesProofs ----------------------------
(***************************************************************************)
(* Proofs about Devices, for every set of devices and of request slots,    *)
(* every limit and every set of faults.                                    *)
(*                                                                         *)
(* AcceptedIsListed is not inductive.  It needs what a request knows at    *)
(* each await of removeClient although the others moved meanwhile: that    *)
(* the certificate it will unlink is already in the CRL of openvpn, and    *)
(* that nobody else revokes, signs or unlinks for the same device.         *)
(***************************************************************************)
EXTENDS Devices, FiniteSetTheorems, TLAPS

Removing(p) == job[p].at \in {"genCrl", "copyCrl", "unlink"}

\* What a request of removeClient knows of its certificate.
RemovalInv ==
  \A p \in Proc :
    /\ Removing(p) => crt[job[p].id] # None /\ crt[job[p].id] \in revoked
    /\ At(p, "copyCrl") => crt[job[p].id] \in crl
    /\ At(p, "unlink") => crt[job[p].id] \in live

\* A build that was not signed yet has its request and no certificate.
SigningInv ==
  \A p \in Proc :
    At(p, "signReq") => req[job[p].id] # None /\ crt[job[p].id] = None

\* At most one request removes a device, and at most one signs for it.
OneRemoval ==
  \A p, q \in Proc :
    Removing(p) /\ Removing(q) /\ job[p].id = job[q].id => p = q

OneSigning ==
  \A p, q \in Proc :
    At(p, "signReq") /\ At(q, "signReq") /\ job[p].id = job[q].id => p = q

\* A certificate on disk is in the index.
CertIsSigned == \A d \in Device : crt[d] # None => crt[d] \in signed

\* The copies of the CRL lag behind the index.
CrlOrder == live \subseteq crl /\ crl \subseteq revoked

Safe ==
  /\ PkiTypeOK
  /\ job \in [Proc -> Jobs]
  /\ CrlOrder
  /\ RemovalInv
  /\ SigningInv
  /\ OneRemoval
  /\ OneSigning
  /\ CertIsSigned
  /\ AcceptedIsListed

Critical == {"signReq", "genCrl", "copyCrl", "unlink"}

\* A step that leaves the PKI alone and takes no request into a critical step.
Quiet ==
  /\ UNCHANGED pki
  /\ job' \in [Proc -> Jobs]
  /\ \A q \in Proc : job'[q] = job[q] \/ job'[q].at \notin Critical

-----------------------------------------------------------------------------

\* A quiet step keeps the invariant.
LEMMA QuietKeepsSafe ==
  ASSUME Safe, Quiet
  PROVE  Safe'
<1> USE DEF Safe, Quiet, pki, files, Critical, Removing, At
<1>1. PkiTypeOK' /\ CrlOrder' /\ AcceptedIsListed' /\ CertIsSigned'
  BY DEF PkiTypeOK, Pairs, CrlOrder, AcceptedIsListed, Accepted, CertIsSigned
<1>2. RemovalInv' /\ SigningInv'
  BY DEF RemovalInv, SigningInv
<1>3. OneRemoval' /\ OneSigning'
  BY DEF OneRemoval, OneSigning
<1> QED  BY <1>1, <1>2, <1>3

\* Ending a request, or taking it to a step that is not critical, is quiet.
LEMMA GoIsQuiet ==
  ASSUME Safe, NEW p \in Proc, UNCHANGED pki,
         \/ End(p)
         \/ Fail(p)
         \/ \E s \in Steps \ Critical : Go(p, s)
  PROVE  Quiet
<1>1. Idle \in Jobs /\ Idle.at \notin Critical
  BY DevicesAssumption DEF Idle, Job, Jobs, Ops, Calls, Steps, None, Critical
<1>2. CASE End(p)
  BY <1>1, <1>2 DEF End, Quiet, Safe
<1>3. ASSUME NEW s \in Steps \ Critical, Go(p, s) PROVE Quiet
  BY <1>3 DEF Go, Job, Jobs, None, Quiet, Safe
<1>4. CASE Fail(p)
  BY <1>2, <1>3, <1>4 DEF Fail, Steps, Critical
<1> QED  BY <1>2, <1>3, <1>4

-----------------------------------------------------------------------------
(* The steps that change the PKI.                                          *)

\* A key pair that is generated keeps the invariant: nothing accepts it yet.
LEMMA GenReqKeepsSafe ==
  ASSUME Safe, NEW p \in Proc, At(p, "genReq"), GenReq(job[p].id),
         Go(p, "signReq")
  PROVE  Safe'
<1> DEFINE d == job[p].id
<1> USE DEF Safe, At, Removing, None
<1>1. d \in Device /\ pairs \in Nat /\ pairs + 1 # None
  BY DEF Jobs, PkiTypeOK
<1>2. /\ job' \in [Proc -> Jobs]
      /\ job'[p].at = "signReq" /\ job'[p].id = d
      /\ \A q \in Proc \ {p} : job'[q] = job[q]
  BY DEF Go, Job, Jobs, Steps
<1>3. /\ key[d] = None /\ req[d] = None /\ crt[d] = None
      /\ req' = [req EXCEPT ![d] = pairs + 1]
      /\ key' = [key EXCEPT ![d] = pairs + 1]
      /\ pairs' = pairs + 1
      /\ UNCHANGED <<crt, signed, revoked, crl, live>>
  BY DEF GenReq, AnyFile
<1>4. PkiTypeOK'
  BY <1>1, <1>3 DEF PkiTypeOK, Pairs
<1>5. req'[d] # None /\ \A e \in Device \ {d} : req'[e] = req[e]
  BY <1>1, <1>3 DEF PkiTypeOK
<1> HIDE DEF d
<1>6. \A q \in Proc : job[q].id \in Device
  BY DEF Jobs
<1>7. SigningInv'
  BY <1>2, <1>3, <1>5, <1>6 DEF SigningInv
<1>8. OneSigning'
  BY <1>2, <1>3, <1>6 DEF OneSigning, SigningInv
<1>9. RemovalInv' /\ OneRemoval'
  BY <1>2, <1>3 DEF RemovalInv, OneRemoval
<1>10. CrlOrder' /\ AcceptedIsListed' /\ CertIsSigned'
  BY <1>3 DEF CrlOrder, AcceptedIsListed, Accepted, CertIsSigned
<1> QED  BY <1>2, <1>4, <1>7, <1>8, <1>9, <1>10

\* A build signs its own request, so the certificate lands on its device.
LEMMA SignReqKeepsSafe ==
  ASSUME Safe, NEW p \in Proc, At(p, "signReq"), SignReq(job[p].id),
         Go(p, "readKey") \/ End(p)
  PROVE  Safe'
<1> DEFINE d == job[p].id
<1> USE DEF Safe, At, Removing
<1>1. d \in Device /\ req[d] # None /\ crt[d] = None
  BY DEF Jobs, SigningInv
<1>2. /\ job' \in [Proc -> Jobs]
      /\ job'[p].at \in {"readKey", "idle"}
      /\ \A q \in Proc \ {p} : job'[q] = job[q]
  BY DevicesAssumption
  DEF Go, End, Idle, Job, Jobs, Steps, Ops, Calls, None
<1>3. /\ crt' = [crt EXCEPT ![d] = req[d]]
      /\ signed' = signed \union {req[d]}
      /\ UNCHANGED <<key, req, pairs, revoked, crl, live>>
  BY DEF SignReq
<1>4. PkiTypeOK'
  BY <1>1, <1>3 DEF PkiTypeOK, Pairs
<1>5. crt'[d] = req[d] /\ \A e \in Device \ {d} : crt'[e] = crt[e]
  BY <1>1, <1>3 DEF PkiTypeOK
<1> HIDE DEF d
<1>6. \A q \in Proc : job[q].id \in Device
  BY DEF Jobs
<1>7. \A q \in Proc \ {p} : At(q, "signReq") => job[q].id # d
  BY DEF OneSigning, d
<1>8. \A q \in Proc : Removing(q) => job[q].id # d
  BY <1>1 DEF RemovalInv
<1>9. SigningInv' /\ OneSigning'
  BY <1>2, <1>3, <1>5, <1>6, <1>7 DEF SigningInv, OneSigning
<1>10. RemovalInv' /\ OneRemoval'
  BY <1>2, <1>3, <1>5, <1>6, <1>8 DEF RemovalInv, OneRemoval
<1>11. AcceptedIsListed'
  <2> SUFFICES ASSUME NEW n \in signed', n \notin live'
               PROVE  \E e \in Device : crt'[e] = n
    BY DEF AcceptedIsListed, Accepted
  <2>1. CASE n = req[d]
    BY <1>1, <1>5, <2>1
  <2>2. CASE n # req[d]
    BY <1>1, <1>3, <1>5, <2>2 DEF AcceptedIsListed, Accepted, PkiTypeOK, Pairs,
       None
  <2> QED  BY <2>1, <2>2
<1>12. CrlOrder' /\ CertIsSigned'
  BY <1>1, <1>3, <1>5 DEF CrlOrder, CertIsSigned
<1> QED  BY <1>2, <1>4, <1>9, <1>10, <1>11, <1>12

\* A removal that revokes owns its device: the only one past the revocation.
LEMMA RevokeKeepsSafe ==
  ASSUME Safe, NEW p \in Proc, At(p, "revoke"), Revoke(job[p].id),
         GoUnlessOrphan(p, "genCrl")
  PROVE  Safe'
<1> DEFINE d == job[p].id
<1> USE DEF Safe, At, Removing
<1>1. d \in Device /\ \A q \in Proc : job[q].id \in Device
  BY DEF Jobs
<1>2. /\ job' \in [Proc -> Jobs]
      /\ job'[p].at \in {"genCrl", "idle"}
      /\ job'[p].at = "genCrl" => job'[p].id = d
      /\ \A q \in Proc \ {p} : job'[q] = job[q]
  BY DevicesAssumption
  DEF GoUnlessOrphan, Go, End, Idle, Job, Jobs, Ops, Steps, None
<1>3. /\ crt[d] # None /\ crt[d] \notin revoked
      /\ revoked' = revoked \union {crt[d]}
      /\ UNCHANGED <<key, req, crt, pairs, signed, crl, live>>
  BY DEF Revoke, Revocable, files
<1> HIDE DEF d
<1>4. \A q \in Proc : Removing(q) => job[q].id # d
  BY <1>3 DEF RemovalInv
<1>5. crt[d] \in signed
  BY <1>1, <1>3 DEF CertIsSigned
<1>6. PkiTypeOK'
  BY <1>3, <1>5 DEF PkiTypeOK, Pairs
<1>7. RemovalInv' /\ OneRemoval'
  BY <1>1, <1>2, <1>3, <1>4 DEF RemovalInv, OneRemoval
<1>8. SigningInv' /\ OneSigning'
  BY <1>2, <1>3 DEF SigningInv, OneSigning
<1>9. CrlOrder' /\ AcceptedIsListed' /\ CertIsSigned'
  BY <1>3 DEF CrlOrder, AcceptedIsListed, Accepted, CertIsSigned
<1> QED  BY <1>2, <1>6, <1>7, <1>8, <1>9

\* A new CRL holds at least what the one before it held.
LEMMA GenCrlKeepsSafe ==
  ASSUME Safe, NEW p \in Proc, At(p, "genCrl"), GenCrl,
         GoUnlessOrphan(p, "copyCrl")
  PROVE  Safe'
<1> USE DEF Safe, At, Removing
<1>1. /\ job' \in [Proc -> Jobs]
      /\ job'[p].at \in {"copyCrl", "idle"}
      /\ job'[p].at = "copyCrl" => job'[p].id = job[p].id
      /\ \A q \in Proc \ {p} : job'[q] = job[q]
  BY DevicesAssumption
  DEF GoUnlessOrphan, Go, End, Idle, Job, Jobs, Ops, Steps, None
<1>2. /\ crl' = revoked
      /\ UNCHANGED <<key, req, crt, pairs, signed, revoked, live>>
  BY DEF GenCrl, files
<1>3. PkiTypeOK' /\ CrlOrder'
  BY <1>2 DEF PkiTypeOK, Pairs, CrlOrder
<1>4. RemovalInv' /\ OneRemoval'
  BY <1>1, <1>2 DEF RemovalInv, OneRemoval
<1>5. SigningInv' /\ OneSigning'
  BY <1>1, <1>2 DEF SigningInv, OneSigning
<1>6. AcceptedIsListed' /\ CertIsSigned'
  BY <1>2 DEF AcceptedIsListed, Accepted, CertIsSigned
<1> QED  BY <1>1, <1>3, <1>4, <1>5, <1>6

\* CopyCrl in ovpn_revokeclient, or in ovpn_run.
LEMMA CopyCrlKeepsSafe ==
  ASSUME Safe, CopyCrl,
         \/ UNCHANGED job
         \/ \E p \in Proc : At(p, "copyCrl") /\ Go(p, "unlink")
  PROVE  Safe'
<1> USE DEF Safe, At, Removing
<1>1. /\ live' = crl
      /\ UNCHANGED <<key, req, crt, pairs, signed, revoked, crl>>
  BY DEF CopyCrl, files
<1>2. /\ job' \in [Proc -> Jobs]
      /\ \A q \in Proc :
           \/ job'[q] = job[q]
           \/ /\ At(q, "copyCrl")
              /\ job'[q].at = "unlink" /\ job'[q].id = job[q].id
  BY DEF Go, Job, Jobs, Steps, None
<1>3. PkiTypeOK' /\ CrlOrder'
  BY <1>1 DEF PkiTypeOK, Pairs, CrlOrder
<1>4. RemovalInv'
  BY <1>1, <1>2 DEF RemovalInv, CrlOrder
<1>5. OneRemoval' /\ SigningInv' /\ OneSigning'
  BY <1>1, <1>2 DEF OneRemoval, SigningInv, OneSigning
<1>6. AcceptedIsListed' /\ CertIsSigned'
  BY <1>1 DEF AcceptedIsListed, Accepted, CrlOrder, CertIsSigned
<1> QED  BY <1>2, <1>3, <1>4, <1>5, <1>6

\* The removals of one request, complete or cut short.  Every other request
\* keeps its step or leaves the critical ones.
LEMMA UnlinkKeepsSafe ==
  ASSUME Safe, NEW p \in Proc, At(p, "unlink"),
         NEW n \in 1..3, Unlink(job[p].id, n),
         job' \in [Proc -> Jobs], job'[p].at \notin Critical,
         \A q \in Proc : job'[q] = job[q] \/ job'[q].at \notin Critical
  PROVE  Safe'
<1> DEFINE d == job[p].id
<1> USE DEF Safe, At, Removing
<1>1. /\ d \in Device /\ \A q \in Proc : job[q].id \in Device
      /\ crt[d] # None /\ crt[d] \in live
  BY DEF Jobs, RemovalInv
<1>2. /\ key' \in {key, [key EXCEPT ![d] = None]}
      /\ req' \in {req, [req EXCEPT ![d] = None]}
      /\ crt' \in {crt, [crt EXCEPT ![d] = None]}
      /\ UNCHANGED <<pairs, signed, revoked, crl, live>>
  BY DEF Unlink
<1>3. \A e \in Device \ {d} : req'[e] = req[e] /\ crt'[e] = crt[e]
  BY <1>2 DEF PkiTypeOK
<1>4. PkiTypeOK'
  BY <1>2 DEF PkiTypeOK, Pairs
<1>5. \A q \in Proc \ {p} :
        Removing(q) \/ At(q, "signReq") => job[q].id # d
  BY <1>1 DEF OneRemoval, SigningInv
<1>6. \A q \in Proc : job'[q].at \in Critical =>
        job'[q] = job[q] /\ q # p
  OBVIOUS
<1> HIDE DEF d
<1>7. RemovalInv' /\ OneRemoval'
  BY <1>1, <1>2, <1>3, <1>5, <1>6 DEF RemovalInv, OneRemoval, Critical
<1>8. SigningInv' /\ OneSigning'
  BY <1>1, <1>3, <1>5, <1>6 DEF SigningInv, OneSigning, Critical
<1>9. CrlOrder'
  BY <1>2 DEF CrlOrder
<1>10. AcceptedIsListed'
  <2> SUFFICES ASSUME NEW m \in signed', m \notin live'
               PROVE  \E e \in Device : crt'[e] = m
    BY DEF AcceptedIsListed, Accepted
  <2>1. PICK e \in Device : crt[e] = m
    BY <1>2 DEF AcceptedIsListed, Accepted
  <2>2. e # d
    BY <1>1, <1>2, <2>1
  <2> QED  BY <1>3, <2>1, <2>2
<1>11. CertIsSigned'
  BY <1>1, <1>2, <1>3 DEF CertIsSigned, PkiTypeOK
<1> QED  BY <1>4, <1>7, <1>8, <1>9, <1>10, <1>11

\* A command whose handler gave up is handed over to the orphan, in one slot.
LEMMA OrphanKeepsSafe ==
  ASSUME Safe, NEW p \in Proc, NEW q \in Proc, TimeoutOrphan(p, q)
  PROVE  Safe'
<1> DEFINE d == job[p].id
<1> USE DEF Safe, At, Removing
<1>1. /\ d \in Device /\ InEasyrsa(p) /\ p # q
      /\ UNCHANGED pki
  BY DEF TimeoutOrphan, InEasyrsa, Jobs, shared
<1>2. /\ job' \in [Proc -> Jobs]
      /\ job'[q].at = job[p].at /\ job'[q].id = d
      /\ job'[p].at \notin Critical
      /\ \A r \in Proc \ {p, q} : job'[r] = job[r]
  BY <1>1, DevicesAssumption
  DEF TimeoutOrphan, InEasyrsa, Job, Jobs, Idle, Ops, Calls, Steps, None,
      Critical
<1> HIDE DEF d
<1>3. PkiTypeOK' /\ CrlOrder' /\ AcceptedIsListed' /\ CertIsSigned'
  BY <1>1 DEF pki, files, PkiTypeOK, Pairs, CrlOrder, AcceptedIsListed,
     Accepted, CertIsSigned
<1>4. RemovalInv' /\ OneRemoval'
  BY <1>1, <1>2 DEF pki, files, RemovalInv, OneRemoval, Critical, d
<1>5. SigningInv' /\ OneSigning'
  BY <1>1, <1>2 DEF pki, files, SigningInv, OneSigning, Critical, d
<1> QED  BY <1>2, <1>3, <1>4, <1>5

-----------------------------------------------------------------------------
(* The steps of a request, and the specification.                          *)

\* What ovpn_getclient reads leaves everything else alone.
LEMMA ReadIsQuiet ==
  ASSUME Safe, NEW p \in Proc,
         (ReadKey(p) /\ ~End(p)) \/ ReadCrt(p)
  PROVE  /\ Quiet
         /\ job'[p].op = job[p].op /\ job'[p].id = job[p].id
         /\ job'[p].at \in {"readCrt", "answer"}
         /\ \A q \in Proc \ {p} : job'[q] = job[q]
<1> USE DEF Jobs, Steps
<1>1. job[p] \in Jobs /\ job \in [Proc -> Jobs]
  BY DEF Safe
<1>2. key[job[p].id] \in Nat /\ crt[job[p].id] \in Nat
  BY <1>1 DEF Safe, PkiTypeOK, Pairs, None
<1>3. UNCHANGED pki
  BY DEF ReadKey, ReadCrt, shared
<1>4. PICK j \in Jobs :
        /\ job' = [job EXCEPT ![p] = j]
        /\ j.op = job[p].op /\ j.id = job[p].id /\ j.at \in {"readCrt", "answer"}
  <2>1. CASE ReadKey(p) /\ ~End(p)
    <3> DEFINE j == [job[p] EXCEPT !.at = "readCrt", !.got = key[job[p].id],
                                   !.had = crt[job[p].id]]
    <3>1. j \in Jobs /\ j.op = job[p].op /\ j.id = job[p].id /\ j.at = "readCrt"
      BY <1>1, <1>2
    <3>2. job' = [job EXCEPT ![p] = j]
      BY <1>1, <2>1 DEF ReadKey
    <3> QED  BY <3>1, <3>2
  <2>2. CASE ReadCrt(p)
    <3> DEFINE j == [job[p] EXCEPT !.at = "answer", !.cert = crt[job[p].id]]
    <3>1. j \in Jobs /\ j.op = job[p].op /\ j.id = job[p].id /\ j.at = "answer"
      BY <1>1, <1>2
    <3>2. job' = [job EXCEPT ![p] = j]
      BY <1>1, <2>2 DEF ReadCrt
    <3> QED  BY <3>1, <3>2
  <2> QED  BY <2>1, <2>2
<1>5. job'[p] = j /\ \A q \in Proc \ {p} : job'[q] = job[q]
  BY <1>1, <1>4
<1> QED  BY <1>1, <1>3, <1>4, <1>5 DEF Quiet, Critical

\* Every step of a request keeps the invariant.
LEMMA StepKeepsSafe ==
  ASSUME Safe, NEW p \in Proc, Step(p)
  PROVE  Safe'
<1> USE DEF shared
<1>1. CASE ListForAdd(p)
  <2>1. UNCHANGED pki /\ (Go(p, "genReq") \/ Fail(p))
    BY <1>1 DEF ListForAdd
  <2> QED  BY <2>1, GoIsQuiet, QuietKeepsSafe DEF Steps, Critical
<1>2. CASE ListForMaster(p)
  <2>1. UNCHANGED pki /\ (Go(p, "readKey") \/ Go(p, "addList"))
    BY <1>2 DEF ListForMaster
  <2> QED  BY <2>1, GoIsQuiet, QuietKeepsSafe DEF Steps, Critical
<1>3. CASE ListForRemove(p)
  <2>1. UNCHANGED pki /\ (Go(p, "revoke") \/ End(p))
    BY <1>3 DEF ListForRemove
  <2> QED  BY <2>1, GoIsQuiet, QuietKeepsSafe DEF Steps, Critical
<1>4. CASE BuildGenReq(p)
  <2>1. CASE GenReq(job[p].id) /\ Go(p, "signReq")
    BY <1>4, <2>1, GenReqKeepsSafe DEF BuildGenReq
  <2>2. CASE Fail(p) /\ UNCHANGED pki
    BY <2>2, GoIsQuiet, QuietKeepsSafe
  <2> QED  BY <1>4, <2>1, <2>2 DEF BuildGenReq
<1>5. CASE BuildSignReq(p)
  BY <1>5, SignReqKeepsSafe DEF BuildSignReq
<1>6. CASE RevokeStart(p)
  <2>1. CASE Revoke(job[p].id) /\ GoUnlessOrphan(p, "genCrl")
    BY <1>6, <2>1, RevokeKeepsSafe DEF RevokeStart
  <2>2. CASE End(p) /\ UNCHANGED pki
    BY <2>2, GoIsQuiet, QuietKeepsSafe
  <2> QED  BY <1>6, <2>1, <2>2 DEF RevokeStart
<1>7. CASE RevokeGenCrl(p)
  BY <1>7, GenCrlKeepsSafe DEF RevokeGenCrl
<1>8. CASE RevokeCopyCrl(p)
  BY <1>8, CopyCrlKeepsSafe DEF RevokeCopyCrl
<1>9. CASE RemoveFiles(p)
  <2>1. /\ job' \in [Proc -> Jobs]
        /\ job'[p].at \notin Critical
        /\ \A q \in Proc : job'[q] = job[q] \/ job'[q].at \notin Critical
    BY <1>9, DevicesAssumption
    DEF RemoveFiles, Go, End, Idle, Job, Jobs, Ops, Calls, Steps, None,
        Critical, Safe
  <2> QED  BY <1>9, <2>1, UnlinkKeepsSafe DEF RemoveFiles
<1>10. CASE ReadKey(p)
  <2>1. CASE End(p) /\ UNCHANGED pki
    BY <2>1, GoIsQuiet, QuietKeepsSafe
  <2>2. CASE ~End(p)
    BY <1>10, <2>2, ReadIsQuiet, QuietKeepsSafe DEF ReadKey
  <2> QED  BY <1>10, <2>1, <2>2 DEF ReadKey
<1>11. CASE ReadCrt(p)
  BY <1>11, ReadIsQuiet, QuietKeepsSafe
<1>12. CASE Answer(p)
  BY <1>12, GoIsQuiet, QuietKeepsSafe DEF Answer
<1> QED
  BY <1>1, <1>2, <1>3, <1>4, <1>5, <1>6, <1>7, <1>8, <1>9, <1>10, <1>11, <1>12
  DEF Step

\* The invariant holds after ovpn_initpki.
LEMMA InitSafe == Init => Safe
<1> SUFFICES ASSUME Init PROVE Safe
  OBVIOUS
<1> USE DEF Init, PkiInit, NoFiles, None
<1>1. PkiTypeOK
  BY DEF PkiTypeOK, Pairs
<1>2. /\ job \in [Proc -> Jobs]
      /\ \A p \in Proc : job[p].at = "idle"
  BY DevicesAssumption DEF Idle, Job, Jobs, Ops, Calls, Steps
<1>3. RemovalInv /\ SigningInv /\ OneRemoval /\ OneSigning
  BY <1>2 DEF RemovalInv, SigningInv, OneRemoval, OneSigning, Removing, At
<1>4. CrlOrder /\ AcceptedIsListed /\ CertIsSigned
  BY DEF CrlOrder, AcceptedIsListed, Accepted, CertIsSigned
<1> QED  BY <1>1, <1>2, <1>3, <1>4 DEF Safe

\* A container that goes down leaves no request.
LEMMA DownEndsAll ==
  ASSUME Safe, Down
  PROVE  /\ job' \in [Proc -> Jobs]
         /\ \A q \in Proc : job'[q].at \notin Critical
BY DevicesAssumption
DEF Down, Idle, Job, Jobs, Ops, Calls, Steps, None, Critical

\* Every action keeps the invariant.
LEMMA NextKeepsSafe == Safe /\ [Next]_vars => Safe'
<1> SUFFICES ASSUME Safe, [Next]_vars PROVE Safe'
  OBVIOUS
<1> USE DEF shared, links
<1>1. CASE \E p \in Proc, o \in Calls, d \in Device : Request(p, o, d)
  <2>1. PICK p \in Proc, o \in Calls, d \in Device : Request(p, o, d)
    BY <1>1
  <2>2. FirstStep(o) \in Steps \ Critical
    BY DEF FirstStep, Calls, Steps, Critical
  <2>3. Quiet
    BY <2>1, <2>2 DEF Request, Quiet, Safe, Job, Jobs, Ops, None
  <2> QED  BY <2>3, QuietKeepsSafe
<1>2. CASE \E p \in Proc : Step(p)
  BY <1>2, StepKeepsSafe
<1>3. CASE \E p \in Proc : Timeout(p)
  BY <1>3, GoIsQuiet, QuietKeepsSafe DEF Timeout
<1>4. CASE \E p, q \in Proc : TimeoutOrphan(p, q)
  BY <1>4, OrphanKeepsSafe
<1>5. CASE OvpnRun
  BY <1>5, CopyCrlKeepsSafe DEF OvpnRun
<1>6. CASE Stop \/ Kill
  <2>1. Quiet
    BY <1>6, DownEndsAll DEF Stop, Kill, Quiet
  <2> QED  BY <2>1, QuietKeepsSafe
<1>7. CASE \E p \in Proc, n \in 1..2 : KillUnlinking(p, n)
  <2>1. PICK p \in Proc, n \in 1..2 : KillUnlinking(p, n)
    BY <1>7
  <2> QED  BY <2>1, DownEndsAll, UnlinkKeepsSafe DEF KillUnlinking
<1>8. CASE PruneLinks \/ Boot \/ UNCHANGED vars
  <2>1. Quiet
    BY <1>8 DEF PruneLinks, Boot, vars, Quiet, Safe
  <2> QED  BY <2>1, QuietKeepsSafe
<1> QED
  BY <1>1, <1>2, <1>3, <1>4, <1>5, <1>6, <1>7, <1>8 DEF Next

\* No removed or reset device can connect, for any number of devices and of
\* concurrent requests, with timeouts, kills and restarts at every await.
THEOREM OnlyListedDevicesConnect == Spec => []AcceptedIsListed
<1>1. Safe => AcceptedIsListed
  BY DEF Safe
<1> QED  BY <1>1, InitSafe, NextKeepsSafe, PTL DEF Spec

\* The CRL openvpn reads never loses a certificate.
THEOREM RefusalIsForGood == Spec => RefusedForGood
<1>1. Safe /\ [Next]_vars => [live \subseteq live']_vars
  <2> SUFFICES ASSUME Safe, Next PROVE live \subseteq live'
    OBVIOUS
  <2>1. live' = live \/ live' = crl
    BY DEF Next, Request, Step, ListForAdd, ListForMaster, ListForRemove,
       BuildGenReq, BuildSignReq, RevokeStart, RevokeGenCrl, RevokeCopyCrl,
       RemoveFiles, ReadKey, ReadCrt, Answer, Timeout, TimeoutOrphan, OvpnRun,
       Stop, Kill, KillUnlinking, Boot, PruneLinks, GenReq, SignReq, Revoke,
       GenCrl, CopyCrl, Unlink, shared, pki
  <2> QED  BY <2>1 DEF Safe, CrlOrder
<1> QED  BY <1>1, InitSafe, NextKeepsSafe, PTL DEF Spec, RefusedForGood

-----------------------------------------------------------------------------
(* Type correctness.                                                       *)

\* The variables keep their types.  That the certificates are those of pairs
\* that were generated needs SigningInv: a build signs its own request.
THEOREM TypeCorrect == Spec => []TypeOK
<1> DEFINE Rest == /\ up \in BOOLEAN
                   /\ linked \subseteq Device
                   /\ linkedDb \subseteq Device
                   /\ asked \in Nat
<1>1. Init => Rest
  <2>1. Init => up \in BOOLEAN
    BY Zenon DEF Init
  <2> QED  BY <2>1 DEF Init
<1>2. Safe /\ Rest /\ [Next]_vars => Rest'
  <2> SUFFICES ASSUME Safe, Rest, [Next]_vars PROVE Rest'
    OBVIOUS
  <2> USE DEF shared, links
  <2>1. CASE \E p \in Proc, o \in Calls, d \in Device : Request(p, o, d)
    BY <2>1 DEF Request
  <2>2. CASE \E p \in Proc : Step(p)
    <3>1. PICK p \in Proc : Step(p)
      BY <2>2
    <3>2. job[p].id \in Device
      BY DEF Safe, Jobs
    <3> QED
      BY <3>1, <3>2
      DEF Step, ListForAdd, ListForMaster, ListForRemove, BuildGenReq,
          BuildSignReq, RevokeStart, RevokeGenCrl, RevokeCopyCrl, RemoveFiles,
          ReadKey, ReadCrt, Answer
  <2>3. CASE \E p \in Proc : Timeout(p) \/ \E q \in Proc : TimeoutOrphan(p, q)
    BY <2>3 DEF Timeout, TimeoutOrphan
  <2>4. CASE PruneLinks \/ OvpnRun \/ Boot
    BY <2>4 DEF PruneLinks, OvpnRun, Boot
  <2>5. CASE Stop \/ Kill \/ \E p \in Proc, n \in 1..2 : KillUnlinking(p, n)
    BY <2>5 DEF Stop, Kill, KillUnlinking, Down
  <2>6. CASE UNCHANGED vars
    BY <2>6 DEF vars
  <2> QED  BY <2>1, <2>2, <2>3, <2>4, <2>5, <2>6 DEF Next
<1>3. Safe /\ Rest => TypeOK
  BY DEF Safe, TypeOK
<1> HIDE DEF Rest
<1> QED  BY <1>1, <1>2, <1>3, InitSafe, NextKeepsSafe, PTL DEF Spec

-----------------------------------------------------------------------------
(* The limit.  Every build that is under way counts: a request that passed *)
(* the check did so below the limit, and there are as many others as       *)
(* slots.                                                                  *)

Building == {p \in Proc : job[p].at \in {"genReq", "signReq"}}

LimitInv ==
  Cardinality(Listed) + Cardinality(Building)
    =< UserLimit + Cardinality(Proc) - 1

\* Sets of devices and of slots have a size.
LEMMA Sizes ==
  ASSUME NEW D \in SUBSET Device, NEW P \in SUBSET Proc
  PROVE  /\ IsFiniteSet(D) /\ Cardinality(D) \in Nat
         /\ IsFiniteSet(P) /\ Cardinality(P) \in Nat
         /\ Cardinality(P) =< Cardinality(Proc)
         /\ Cardinality(Proc) \in Nat \ {0}
<1>1. IsFiniteSet(D) /\ IsFiniteSet(P) /\ Cardinality(P) =< Cardinality(Proc)
  BY FS_Subset, DevicesAssumption
<1>2. Cardinality(Proc) \in Nat \ {0}
  BY FS_CardinalityType, FS_EmptySet, DevicesAssumption
<1> QED  BY <1>1, <1>2, FS_CardinalityType

\* A step with no more devices and no more builds keeps the bound.
LEMMA FewerKeepsLimit ==
  ASSUME LimitInv, Listed' \subseteq Listed, Building' \subseteq Building
  PROVE  LimitInv'
<1>1. Listed \subseteq Device /\ Building \subseteq Proc
  BY DEF Listed, Building
<1>2. /\ Cardinality(Listed') =< Cardinality(Listed)
      /\ Cardinality(Building') =< Cardinality(Building)
  BY <1>1, Sizes, FS_Subset
<1>3. /\ Cardinality(Listed) \in Nat /\ Cardinality(Building) \in Nat
      /\ Cardinality(Listed') \in Nat /\ Cardinality(Building') \in Nat
      /\ Cardinality(Proc) \in Nat
  BY <1>1, Sizes, Listed' \subseteq Device, Building' \subseteq Proc
<1> QED  BY <1>2, <1>3, DevicesAssumption DEF LimitInv

\* A step after which the listing is below the limit keeps the bound.
LEMMA BelowLimit ==
  ASSUME Cardinality(Listed') < UserLimit, Listed' \subseteq Device,
         Building' \subseteq Proc
  PROVE  LimitInv'
<1>1. /\ Cardinality(Listed') \in Nat /\ Cardinality(Building') \in Nat
      /\ Cardinality(Building') =< Cardinality(Proc)
      /\ Cardinality(Proc) \in Nat
  BY Sizes
<1> QED  BY <1>1, DevicesAssumption DEF LimitInv

\* A step that moves one unit between the two counts keeps the bound.
LEMMA ExchangeKeepsLimit ==
  ASSUME LimitInv, NEW d \in Device, NEW p \in Proc,
         \/ /\ p \in Building /\ Building' = Building \ {p}
            /\ Listed' \subseteq Listed \union {d}
         \/ /\ d \in Listed /\ Listed' = Listed \ {d}
            /\ Building' \subseteq Building \union {p}
         \/ /\ Listed' = Listed
            /\ \E q \in Proc :
                 q \in Building /\ Building' = (Building \ {q}) \union {p}
  PROVE  LimitInv'
<1>1. /\ Listed \subseteq Device /\ Building \subseteq Proc
      /\ Listed' \subseteq Device /\ Building' \subseteq Proc
  BY DEF Listed, Building
<1>2. /\ IsFiniteSet(Listed) /\ Cardinality(Listed) \in Nat
      /\ IsFiniteSet(Building) /\ Cardinality(Building) \in Nat
      /\ Cardinality(Listed') \in Nat /\ Cardinality(Building') \in Nat
      /\ Cardinality(Proc) \in Nat
  BY <1>1, Sizes
<1>3. ASSUME NEW S, IsFiniteSet(S), NEW x
      PROVE  /\ IsFiniteSet(S \union {x}) /\ IsFiniteSet(S \ {x})
             /\ Cardinality(S \union {x}) =< Cardinality(S) + 1
             /\ x \in S => Cardinality(S \ {x}) = Cardinality(S) - 1
  BY <1>3, FS_AddElement, FS_RemoveElement, FS_CardinalityType
<1>4. ASSUME NEW S, IsFiniteSet(S), NEW T \in SUBSET S
      PROVE  Cardinality(T) =< Cardinality(S)
  BY <1>4, FS_Subset
<1>5. CASE /\ p \in Building /\ Building' = Building \ {p}
           /\ Listed' \subseteq Listed \union {d}
  <2>1. Cardinality(Listed') =< Cardinality(Listed \union {d})
    BY <1>2, <1>3, <1>4, <1>5
  <2>2. Cardinality(Listed \union {d}) =< Cardinality(Listed) + 1
    BY <1>2, <1>3
  <2>3. Cardinality(Listed \union {d}) \in Nat
    BY <1>2, <1>3, FS_CardinalityType
  <2>4. Cardinality(Building') = Cardinality(Building) - 1
    BY <1>2, <1>3, <1>5
  <2> QED  BY <1>2, <2>1, <2>2, <2>3, <2>4, DevicesAssumption DEF LimitInv
<1>6. CASE /\ d \in Listed /\ Listed' = Listed \ {d}
           /\ Building' \subseteq Building \union {p}
  <2>1. Cardinality(Building') =< Cardinality(Building \union {p})
    BY <1>2, <1>3, <1>4, <1>6
  <2>2. Cardinality(Building \union {p}) =< Cardinality(Building) + 1
    BY <1>2, <1>3
  <2>3. Cardinality(Building \union {p}) \in Nat
    BY <1>2, <1>3, FS_CardinalityType
  <2>4. Cardinality(Listed') = Cardinality(Listed) - 1
    BY <1>2, <1>3, <1>6
  <2> QED  BY <1>2, <2>1, <2>2, <2>3, <2>4, DevicesAssumption DEF LimitInv
<1>7. ASSUME NEW q \in Building, Listed' = Listed,
             Building' = (Building \ {q}) \union {p}
      PROVE  LimitInv'
  <2>1. /\ IsFiniteSet(Building \ {q})
        /\ Cardinality(Building \ {q}) = Cardinality(Building) - 1
    BY <1>2, <1>3
  <2>2. Cardinality(Building') =< Cardinality(Building \ {q}) + 1
    BY <1>3, <1>7, <2>1
  <2> QED  BY <1>2, <1>7, <2>1, <2>2, DevicesAssumption DEF LimitInv
<1> QED  BY <1>5, <1>6, <1>7

\* The bound through one step of a request.
LEMMA StepKeepsLimit ==
  ASSUME Safe, LimitInv, NEW p \in Proc, Step(p)
  PROVE  LimitInv'
<1> DEFINE d == job[p].id
<1>1. d \in Device /\ job \in [Proc -> Jobs]
  BY DEF Safe, Jobs
<1> USE DEF shared, pki, files
<1>2. CASE ListForAdd(p) /\ Go(p, "genReq")
  <2>1. Cardinality(Listed) < UserLimit \/ LimitInv'
    <3>1. CASE AddAllowed(d)
      BY <3>1 DEF AddAllowed
    <3>2. CASE Fail(p)
      BY <1>1, <1>2, <3>2
      DEF Fail, Caught, End, Go, Job, Idle, At, ListForAdd
    <3> QED  BY <1>2, <3>1, <3>2 DEF ListForAdd
  <2>2. Listed' = Listed /\ Listed \subseteq Device
    BY <1>2 DEF ListForAdd, Listed
  <2>3. Building' \subseteq Proc
    BY DEF Building
  <2> QED  BY <2>1, <2>2, <2>3, BelowLimit
<1>3. CASE BuildSignReq(p)
  <2>1. p \in Building /\ Building' = Building \ {p}
    BY <1>1, <1>3 DEF BuildSignReq, At, Go, End, Job, Idle, Building
  <2>2. Listed' \subseteq Listed \union {d}
    BY <1>3 DEF BuildSignReq, SignReq, Listed, Safe, PkiTypeOK
  <2> QED  BY <1>1, <2>1, <2>2, ExchangeKeepsLimit
<1>4. CASE RemoveFiles(p) /\ Unlinkable(d)
  <2>1. d \in Listed /\ Listed' = Listed \ {d}
    BY <1>1, <1>4 DEF RemoveFiles, Unlink, Unlinkable, Listed, Safe, PkiTypeOK
  <2>2. Building' \subseteq Building \union {p}
    BY <1>1, <1>4 DEF RemoveFiles, Go, End, Building
  <2> QED  BY <1>1, <2>1, <2>2, ExchangeKeepsLimit
<1>5. CASE RemoveFiles(p) /\ ~Unlinkable(d)
  <2>1. Listed' \subseteq Listed
    BY <1>1, <1>5 DEF RemoveFiles, Unlink, Listed, Safe, PkiTypeOK
  <2>2. Building' \subseteq Building
    BY <1>1, <1>5 DEF RemoveFiles, End, Idle, Job, Building
  <2> QED  BY <2>1, <2>2, FewerKeepsLimit
<1>6. CASE /\ \A q \in Proc \ {p} : job'[q] = job[q]
           /\ job'[p].at \notin {"genReq", "signReq"} \/ p \in Building
           /\ UNCHANGED crt
  <2>1. Listed' \subseteq Listed /\ Building' \subseteq Building
    BY <1>6 DEF Listed, Building
  <2> QED  BY <2>1, FewerKeepsLimit
<1>7. CASE ListForAdd(p) /\ ~Go(p, "genReq")
  <2>1. Fail(p) /\ UNCHANGED crt
    BY <1>7 DEF ListForAdd
  <2> QED  BY <1>1, <1>6, <2>1 DEF Fail, End, Go, Job, Idle
<1>8. CASE ListForMaster(p)
  BY <1>1, <1>6, <1>8 DEF ListForMaster, Go, Job
<1>9. CASE ListForRemove(p)
  BY <1>1, <1>6, <1>9 DEF ListForRemove, End, Go, Job, Idle
<1>10. CASE BuildGenReq(p)
  <2>1. p \in Building /\ UNCHANGED crt
    BY <1>10 DEF BuildGenReq, GenReq, At, Building
  <2> QED  BY <1>1, <1>6, <1>10, <2>1 DEF BuildGenReq, Fail, End, Go
<1>11. CASE RevokeStart(p)
  BY <1>1, <1>6, <1>11
  DEF RevokeStart, Revoke, GoUnlessOrphan, End, Go, Job, Idle
<1>12. CASE RevokeGenCrl(p)
  BY <1>1, <1>6, <1>12
  DEF RevokeGenCrl, GenCrl, GoUnlessOrphan, End, Go, Job, Idle
<1>13. CASE RevokeCopyCrl(p)
  BY <1>1, <1>6, <1>13 DEF RevokeCopyCrl, CopyCrl, Go, Job
<1>14. CASE ReadKey(p)
  <2>1. CASE End(p)
    BY <1>1, <1>6, <1>14, <2>1 DEF ReadKey, End, Job, Idle
  <2>2. CASE ~End(p)
    BY <1>1, <1>6, <1>14, <2>2, ReadIsQuiet DEF ReadKey
  <2> QED  BY <2>1, <2>2
<1>15. CASE ReadCrt(p)
  BY <1>1, <1>6, <1>15, ReadIsQuiet DEF ReadCrt
<1>16. CASE Answer(p)
  BY <1>1, <1>6, <1>16 DEF Answer, End, Job, Idle
<1> QED
  BY <1>2, <1>3, <1>4, <1>5, <1>7, <1>8, <1>9, <1>10, <1>11, <1>12, <1>13,
     <1>14, <1>15, <1>16
  DEF Step

\* The devices exceed the limit by less than the number of request slots.
THEOREM OvershootIsBounded == Spec => []LimitOvershoot
<1>1. Init => LimitInv
  <2> SUFFICES ASSUME Init PROVE LimitInv
    OBVIOUS
  <2>1. Listed = {} /\ Building = {}
    BY DEF Init, PkiInit, NoFiles, Listed, Building, Idle, Job
  <2>2. Cardinality(Proc) \in Nat \ {0}
    BY Sizes
  <2> QED  BY <2>1, <2>2, FS_EmptySet, DevicesAssumption DEF LimitInv
<1>2. Safe /\ LimitInv /\ [Next]_vars => LimitInv'
  <2> SUFFICES ASSUME Safe, LimitInv, [Next]_vars PROVE LimitInv'
    OBVIOUS
  <2>0. job \in [Proc -> Jobs]
    BY DEF Safe
  <2> USE DEF shared, links, pki, files
  <2>1. CASE \E p \in Proc : Step(p)
    BY <2>1, StepKeepsLimit
  <2>2. CASE \E p, q \in Proc : TimeoutOrphan(p, q)
    <3>1. PICK p \in Proc, q \in Proc : TimeoutOrphan(p, q)
      BY <2>2
    <3>2. Listed' = Listed
      BY <3>1 DEF TimeoutOrphan, Listed
    <3>3. CASE p \in Building
      <4>1. Building' = (Building \ {p}) \union {q}
        BY <2>0, <3>1, <3>3 DEF TimeoutOrphan, At, Building, Job, Idle
      <4> QED  BY <3>2, <3>3, <4>1, ExchangeKeepsLimit, DevicesAssumption
    <3>4. CASE p \notin Building
      <4>1. Building' \subseteq Building
        BY <2>0, <3>1, <3>4 DEF TimeoutOrphan, At, Building, Job, Idle
      <4> QED  BY <3>2, <4>1, FewerKeepsLimit
    <3> QED  BY <3>3, <3>4
  <2>3. CASE /\ \A r \in Proc : job'[r] = job[r]
                               \/ job'[r].at \notin {"genReq", "signReq"}
             /\ \A e \in Device : crt'[e] = crt[e]
    <3>1. Listed' \subseteq Listed /\ Building' \subseteq Building
      BY <2>3 DEF Listed, Building
    <3> QED  BY <3>1, FewerKeepsLimit
  <2>4. CASE \E p \in Proc, o \in Calls, d \in Device : Request(p, o, d)
    <3>1. PICK p \in Proc, o \in Calls, d \in Device : Request(p, o, d)
      BY <2>4
    <3>2. FirstStep(o) \notin {"genReq", "signReq"}
      BY DEF FirstStep, Calls
    <3> QED  BY <2>0, <2>3, <3>1, <3>2 DEF Request, Job
  <2>5. CASE \E p \in Proc : Timeout(p)
    BY <2>0, <2>3, <2>5 DEF Timeout, Fail, End, Go, Job, Idle
  <2>6. CASE Stop \/ Kill
    BY <2>3, <2>6 DEF Stop, Kill, Down, Idle, Job
  <2>7. CASE \E p \in Proc, n \in 1..2 : KillUnlinking(p, n)
    BY <2>3, <2>7 DEF KillUnlinking, Down, Idle, Job, Unlink
  <2>8. CASE PruneLinks \/ OvpnRun \/ Boot \/ UNCHANGED vars
    BY <2>3, <2>8 DEF PruneLinks, OvpnRun, CopyCrl, Boot, vars
  <2> QED  BY <2>1, <2>2, <2>4, <2>5, <2>6, <2>7, <2>8 DEF Next
<1>3. LimitInv => LimitOvershoot
  <2>1. Listed \subseteq Device /\ Building \subseteq Proc
    BY DEF Listed, Building
  <2>2. /\ Cardinality(Listed) \in Nat /\ Cardinality(Building) \in Nat
        /\ Cardinality(Proc) \in Nat
    BY <2>1, Sizes
  <2> QED  BY <2>2, DevicesAssumption DEF LimitInv, LimitOvershoot
<1> QED  BY <1>1, <1>2, <1>3, InitSafe, NextKeepsSafe, PTL DEF Spec

-----------------------------------------------------------------------------
(* What a call leaves wherever it is cut off, and the refinement of        *)
(* Access.  Both rest on which files of a device may be there together.    *)

\* The key is removed first and the certificate last, a request without its
\* certificate is one that was never signed, and the key is not removed before
\* openvpn refuses the certificate.
FilesMatch(d) ==
  /\ key[d] # None => key[d] = req[d]
  /\ req[d] # None /\ crt[d] # None => req[d] = crt[d]
  /\ req[d] # None /\ crt[d] = None => key[d] = req[d] /\ req[d] \notin signed
  /\ crt[d] # None /\ key[d] = None => crt[d] \in live

\* Two devices never have the same request.
OwnRequest == \A d, e \in Device : req[d] # None /\ req[d] = req[e] => d = e

Traceable == (\A d \in Device : FilesMatch(d)) /\ OwnRequest

\* The types of the files, which the leaves below need one by one.
LEMMA FileTypes ==
  ASSUME Safe
  PROVE  /\ key \in [Device -> Nat] /\ req \in [Device -> Nat]
         /\ crt \in [Device -> Nat]
         /\ pairs \in Nat /\ pairs + 1 \notin signed /\ pairs + 1 # None
         /\ None \notin signed
         /\ \A d \in Device : req[d] # pairs + 1
         /\ \A p \in Proc : job[p].id \in Device
BY DEF Safe, PkiTypeOK, Pairs, None, Jobs

LEMMA GenReqKeepsTraceable ==
  ASSUME Safe, Traceable, NEW d \in Device, GenReq(d)
  PROVE  Traceable'
<1>1. /\ key[d] = None /\ req[d] = None /\ crt[d] = None
      /\ key' = [key EXCEPT ![d] = pairs + 1]
      /\ req' = [req EXCEPT ![d] = pairs + 1]
      /\ UNCHANGED <<crt, signed, live>>
  BY DEF GenReq, AnyFile
<1>2. /\ key'[d] = pairs + 1 /\ req'[d] = pairs + 1
      /\ \A e \in Device \ {d} : key'[e] = key[e] /\ req'[e] = req[e]
  BY <1>1, FileTypes
<1>3. ASSUME NEW e \in Device PROVE FilesMatch(e)'
  BY <1>1, <1>2, FileTypes DEF Traceable, FilesMatch
<1>4. OwnRequest'
  BY <1>2, FileTypes DEF Traceable, OwnRequest
<1> QED  BY <1>3, <1>4 DEF Traceable

LEMMA SignReqKeepsTraceable ==
  ASSUME Safe, Traceable, NEW p \in Proc, At(p, "signReq"), SignReq(job[p].id)
  PROVE  Traceable'
<1> DEFINE d == job[p].id
<1>1. d \in Device /\ req[d] # None /\ crt[d] = None
  BY FileTypes DEF Safe, SigningInv
<1> HIDE DEF d
<1>2. /\ crt' = [crt EXCEPT ![d] = req[d]]
      /\ signed' = signed \union {req[d]}
      /\ UNCHANGED <<key, req, live>>
  BY DEF SignReq, d
<1>3. crt'[d] = req[d] /\ \A e \in Device \ {d} : crt'[e] = crt[e]
  BY <1>1, <1>2, FileTypes
<1>4. ASSUME NEW e \in Device PROVE FilesMatch(e)'
  <2>1. CASE e = d
    BY <1>1, <1>2, <1>3, <2>1 DEF Traceable, FilesMatch
  <2>2. CASE e # d
    <3>1. req[e] # req[d]
      BY <1>1, <2>2 DEF Traceable, OwnRequest
    <3> QED  BY <1>2, <1>3, <2>2, <3>1 DEF Traceable, FilesMatch
  <2> QED  BY <2>1, <2>2
<1>5. OwnRequest'
  BY <1>2 DEF Traceable, OwnRequest
<1> QED  BY <1>4, <1>5 DEF Traceable

\* The removals, complete or cut short: openvpn refuses the certificate.
LEMMA UnlinkKeepsTraceable ==
  ASSUME Safe, Traceable, NEW d \in Device, NEW n \in 1..3, Unlink(d, n),
         crt[d] # None, crt[d] \in live
  PROVE  Traceable'
<1>1. /\ key' = [key EXCEPT ![d] = None]
      /\ req' = IF n >= 2 /\ key[d] # None THEN [req EXCEPT ![d] = None]
                                           ELSE req
      /\ crt' = IF n >= 3 /\ key[d] # None /\ req[d] # None
                THEN [crt EXCEPT ![d] = None] ELSE crt
      /\ UNCHANGED <<signed, live>>
  BY DEF Unlink
<1>2. /\ key'[d] = None
      /\ crt'[d] = None => req'[d] = None
      /\ req'[d] \in {req[d], None} /\ crt'[d] \in {crt[d], None}
      /\ \A e \in Device \ {d} :
           key'[e] = key[e] /\ req'[e] = req[e] /\ crt'[e] = crt[e]
  BY <1>1, FileTypes
<1>3. ASSUME NEW e \in Device PROVE FilesMatch(e)'
  BY <1>1, <1>2 DEF Traceable, FilesMatch
<1>4. OwnRequest'
  BY <1>2 DEF Traceable, OwnRequest
<1> QED  BY <1>3, <1>4 DEF Traceable

\* A step that leaves the files and the signed certificates alone, and takes
\* none out of the CRL of openvpn.
LEMMA OthersKeepTraceable ==
  ASSUME Traceable, UNCHANGED <<files, signed>>, live \subseteq live'
  PROVE  Traceable'
BY DEF Traceable, FilesMatch, OwnRequest, files

\* What a step does to the PKI, of whatever request it is and whether or not it
\* goes well.
PkiStep ==
  \/ \E p \in Proc : At(p, "genReq") /\ GenReq(job[p].id)
  \/ \E p \in Proc : At(p, "signReq") /\ SignReq(job[p].id)
  \/ \E p \in Proc : At(p, "unlink") /\ \E n \in 1..3 : Unlink(job[p].id, n)
  \/ /\ UNCHANGED <<files, signed>>
     /\ live' \in {live, crl}

LEMMA NextIsPkiStep == ASSUME [Next]_vars PROVE PkiStep
<1>1. CASE \E p \in Proc : Step(p)
  <2>1. PICK p \in Proc : Step(p)
    BY <1>1
  <2> QED
    BY <2>1
    DEF Step, ListForAdd, ListForMaster, ListForRemove, BuildGenReq,
        BuildSignReq, RevokeStart, RevokeGenCrl, RevokeCopyCrl, RemoveFiles,
        ReadKey, ReadCrt, Answer, Revoke, GenCrl, CopyCrl, shared, pki, files,
        PkiStep
<1>2. CASE \E p \in Proc, n \in 1..2 : KillUnlinking(p, n)
  BY <1>2 DEF KillUnlinking, PkiStep
<1>3. CASE \/ \E p \in Proc, o \in Calls, d \in Device : Request(p, o, d)
           \/ \E p \in Proc : Timeout(p)
           \/ \E p, q \in Proc : TimeoutOrphan(p, q)
           \/ PruneLinks \/ OvpnRun \/ Boot \/ Stop \/ Kill \/ UNCHANGED vars
  BY <1>3
  DEF Request, Timeout, TimeoutOrphan, PruneLinks, OvpnRun, CopyCrl, Boot,
      Stop, Kill, vars, shared, pki, files, PkiStep
<1> QED  BY <1>1, <1>2, <1>3 DEF Next

LEMMA AlwaysTraceable == Spec => [](Safe /\ Traceable)
<1>1. Init => Traceable
  BY DEF Init, PkiInit, NoFiles, Traceable, FilesMatch, OwnRequest, None
<1>2. Safe /\ Traceable /\ [Next]_vars => Traceable'
  <2> SUFFICES ASSUME Safe, Traceable, [Next]_vars PROVE Traceable'
    OBVIOUS
  <2>1. PkiStep
    BY NextIsPkiStep
  <2>2. ASSUME NEW p \in Proc, At(p, "unlink"), NEW n \in 1..3,
               Unlink(job[p].id, n)
        PROVE  Traceable'
    <3>1. crt[job[p].id] # None /\ crt[job[p].id] \in live
      BY <2>2 DEF Safe, RemovalInv, Removing, At
    <3> QED  BY <2>2, <3>1, FileTypes, UnlinkKeepsTraceable
  <2>3. live \subseteq crl
    BY DEF Safe, CrlOrder
  <2> QED
    BY <2>1, <2>2, <2>3, FileTypes, GenReqKeepsTraceable,
       SignReqKeepsTraceable, OthersKeepTraceable
    DEF PkiStep
<1> QED  BY <1>1, <1>2, InitSafe, NextKeepsSafe, PTL DEF Spec

\* Wherever a call was cut off, what is left of a device is the whole, nothing,
\* what a build leaves, or what a removal leaves before and after its unlinks.
THEOREM LeftoversAreKnownAlways == Spec => []LeftoversAreKnown
<1>1. Safe /\ Traceable => LeftoversAreKnown
  <2> SUFFICES ASSUME Safe, Traceable, NEW d \in Device
               PROVE  \/ Healthy(d) \/ BuildLeft(d)
                      \/ RevokedLeft(d) \/ RemovalLeft(d)
    BY DEF LeftoversAreKnown
  <2>1. FilesMatch(d) /\ (crt[d] # None => crt[d] \in signed)
    BY DEF Traceable, Safe, CertIsSigned
  <2>2. live \subseteq revoked
    BY DEF Safe, CrlOrder
  <2>3. CASE crt[d] = None
    BY <2>1, <2>3 DEF FilesMatch, Healthy, AnyFile, BuildLeft
  <2>4. CASE crt[d] \in revoked /\ crt[d] # None
    BY <2>1, <2>4 DEF FilesMatch, RevokedLeft, RemovalLeft
  <2>5. CASE crt[d] \notin revoked /\ crt[d] # None
    BY <2>1, <2>2, <2>5 DEF FilesMatch, Healthy, Revocable, Accepted
  <2> QED  BY <2>3, <2>4, <2>5
<1> QED  BY <1>1, AlwaysTraceable, PTL

\* The concurrent calls on the PKI, cut off anywhere, implement Access: each
\* step is one of its steps or changes nothing that Access knows of.
THEOREM ImplementsAccess == Spec => KeepsAccess
<1>1. Init => Promises!Init
  BY DEF Init, PkiInit, NoFiles, Promises!Init
<1>2. Safe /\ Traceable /\ [Next]_vars => [Promises!Next]_Promises!vars
  <2> SUFFICES ASSUME Safe, Traceable, PkiStep
               PROVE  Promises!Next \/ UNCHANGED Promises!vars
    BY NextIsPkiStep
  <2> USE DEF Promises!Next, Promises!vars
  <2>1. ASSUME NEW p \in Proc, GenReq(job[p].id)
        PROVE  UNCHANGED Promises!vars
    BY <2>1 DEF GenReq
  <2>2. ASSUME NEW p \in Proc, At(p, "signReq"), SignReq(job[p].id)
        PROVE  \E d \in Device : Promises!Issue(d)
    <3> DEFINE d == job[p].id
    <3>1. d \in Device /\ req[d] # None /\ crt[d] = None
      BY <2>2, FileTypes DEF Safe, SigningInv
    <3>2. req[d] \notin signed
      BY <3>1 DEF Traceable, FilesMatch
    <3>3. /\ crt' = [crt EXCEPT ![d] = req[d]]
          /\ signed' = signed \union {req[d]} /\ UNCHANGED live
      BY <2>2 DEF SignReq
    <3>4. crt'[d] = req[d]
      BY <3>1, <3>3, FileTypes
    <3> HIDE DEF d
    <3>5. Promises!Issue(d)
      BY <3>1, <3>2, <3>3, <3>4 DEF Promises!Issue
    <3> QED  BY <3>1, <3>5
  <2>3. ASSUME NEW p \in Proc, At(p, "unlink"), NEW n \in 1..3,
               Unlink(job[p].id, n)
        PROVE  (\E d \in Device : Promises!Drop(d)) \/ UNCHANGED Promises!vars
    <3>1. job[p].id \in Device /\ crt[job[p].id] \in live
      BY <2>3, FileTypes DEF Safe, RemovalInv, At
    <3> QED  BY <2>3, <3>1 DEF Unlink, Promises!Drop
  <2>4. CASE UNCHANGED <<files, signed>> /\ live' \in {live, crl}
    <3>1. live \subseteq crl /\ crl \subseteq signed
      BY DEF Safe, CrlOrder, PkiTypeOK
    <3> QED  BY <2>4, <3>1 DEF files, Promises!Refuse
  <2> QED  BY <2>1, <2>2, <2>3, <2>4 DEF PkiStep
<1> QED
  BY <1>1, <1>2, AlwaysTraceable, PTL DEF Spec, KeepsAccess, Promises!Spec

-----------------------------------------------------------------------------
(* What the promises of Access give the owner of the server, whatever      *)
(* implements them.                                                        *)

\* The certificates of the devices were issued, to one device each, and those
\* that no device has any more are refused.
AccessInv ==
  /\ crt = [d \in Device |-> crt[d]]
  /\ \A d \in Device : crt[d] = None \/ crt[d] \in signed
  /\ \A d, e \in Device : crt[d] = crt[e] /\ crt[d] # None => d = e
  /\ \A c \in signed \ live : \E d \in Device : crt[d] = c
  /\ None \notin signed

\* Every step of Access keeps AccessInv.
LEMMA AccessStep ==
  AccessInv /\ [Promises!Next]_Promises!vars => AccessInv'
<1> SUFFICES ASSUME AccessInv, [Promises!Next]_Promises!vars
             PROVE  AccessInv'
  OBVIOUS
<1> USE DEF AccessInv
<1>1. CASE Promises!Refuse
  BY <1>1 DEF Promises!Refuse
<1>2. ASSUME NEW d \in Device, Promises!Issue(d)
      PROVE  AccessInv'
  <2>1. /\ crt[d] = None
        /\ crt'[d] \notin signed \union {None}
        /\ crt' = [crt EXCEPT ![d] = crt'[d]]
        /\ signed' = signed \union {crt'[d]}
        /\ live' = live
    BY <1>2 DEF Promises!Issue
  <2>2. \A e \in Device \ {d} : crt'[e] = crt[e]
    BY <2>1
  <2>3. crt' = [e \in Device |-> crt'[e]]
    BY <2>1
  <2>4. ASSUME NEW c \in signed' \ live'
        PROVE  \E e \in Device : crt'[e] = c
    <3>1. CASE c = crt'[d]
      BY <3>1
    <3>2. CASE c # crt'[d]
      <4>1. PICK e \in Device : crt[e] = c
        BY <2>1, <2>4, <3>2
      <4>2. e # d
        BY <2>1, <2>4, <3>2, <4>1
      <4> QED  BY <2>2, <4>1, <4>2
    <3> QED  BY <3>1, <3>2
  <2>5. \A e \in Device : crt'[e] = None \/ crt'[e] \in signed'
    BY <2>1, <2>2
  <2>6. \A e, f \in Device : crt'[e] = crt'[f] /\ crt'[e] # None => e = f
    BY <2>1, <2>2
  <2> QED  BY <2>1, <2>3, <2>4, <2>5, <2>6
<1>3. ASSUME NEW d \in Device, Promises!Drop(d)
      PROVE  AccessInv'
  <2>1. /\ crt[d] \in live
        /\ crt' = [crt EXCEPT ![d] = None]
        /\ signed' = signed /\ live' = live
    BY <1>3 DEF Promises!Drop
  <2>2. crt'[d] = None /\ \A e \in Device \ {d} : crt'[e] = crt[e]
    BY <2>1
  <2>3. ASSUME NEW c \in signed' \ live'
        PROVE  \E e \in Device : crt'[e] = c
    <3>1. PICK e \in Device : crt[e] = c
      BY <2>1, <2>3
    <3> QED  BY <2>1, <2>2, <2>3, <3>1
  <2>4. crt' = [e \in Device |-> crt'[e]]
    BY <2>1
  <2> QED  BY <2>1, <2>2, <2>3, <2>4
<1>4. CASE UNCHANGED Promises!vars
  BY <1>4 DEF Promises!vars
<1> QED  BY <1>1, <1>2, <1>3, <1>4 DEF Promises!Next

\* Whatever keeps the promises of Access lets one listed device, and no other,
\* in with each certificate that opens the VPN.
THEOREM PromisedCertHasOneOwner == Promises!Spec => []Promises!OneOwner
<1>1. Promises!Init => AccessInv
  BY DEF Promises!Init, AccessInv
<1>2. AccessInv => Promises!OneOwner
  BY DEF AccessInv, Promises!OneOwner
<1> QED  BY <1>1, <1>2, AccessStep, PTL DEF Promises!Spec

\* So the owner of the server has it, with all the faults.
COROLLARY OwnerHasThePromise == Spec => []Promises!OneOwner
BY ImplementsAccess, PromisedCertHasOneOwner DEF KeepsAccess

=============================================================================
