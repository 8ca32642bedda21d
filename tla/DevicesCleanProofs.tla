------------------------- MODULE DevicesCleanProofs -------------------------
(***************************************************************************)
(* Proofs about Devices when no command fails: at rest every device is     *)
(* gone or complete, and the main admin is never lost, for every set of    *)
(* devices and any number of concurrent requests.  And what the calls      *)
(* promise to one client at a time, which they break for several.          *)
(***************************************************************************)
EXTENDS DevicesProofs

\* Files that are there belong together.  A request without its certificate is
\* of a build that goes on, a revoked certificate of a removal that goes on.
FilesOf(d) ==
  /\ key[d] = req[d]
  /\ crt[d] # None => crt[d] = req[d]
  /\ req[d] # None /\ crt[d] = None =>
       \E p \in Proc : At(p, "signReq") /\ job[p].id = d
  /\ crt[d] \in revoked => \E p \in Proc : Removing(p) /\ job[p].id = d

FilesInv == \A d \in Device : FilesOf(d)

\* Two devices never have the same pair.
OwnPair == \A d, e \in Device : req[d] # None /\ req[d] = req[e] => d = e

\* The pair of a build is not certified before it is signed.
Unsigned == \A p \in Proc : At(p, "signReq") => req[job[p].id] \notin signed

\* No command was left behind, and only resetDevice removes the main admin.
OpInv ==
  \A p \in Proc :
    /\ job[p].op # "orphan"
    /\ At(p, "revoke") \/ Removing(p) =>
         job[p].op = "resetDevice" \/ job[p].id # Admin

Clean == Safe /\ FilesInv /\ OwnPair /\ Unsigned /\ OpInv

\* What a request of the clean runs may become in a step.
Allowed(j) ==
  /\ j.op # "orphan"
  /\ j.at = "revoke" => j.op = "resetDevice" \/ j.id # Admin

\* A step of p, if of any, that leaves the files and the index alone.
Aside(p) ==
  /\ UNCHANGED <<files, signed, revoked>>
  /\ job[p].at \notin Critical
  /\ job'[p].at \notin Critical
  /\ Allowed(job'[p])
  /\ \A q \in Proc \ {p} : job'[q] = job[q]

-----------------------------------------------------------------------------

\* A step that leaves the files and the index alone keeps the invariant.
LEMMA AsideKeepsClean ==
  ASSUME Clean, Safe', NEW p \in Proc, Aside(p)
  PROVE  Clean'
<1> USE DEF Clean, Aside, files, At, Removing, Critical
<1>1. FilesInv'
  BY DEF FilesInv, FilesOf
<1>2. OwnPair' /\ Unsigned'
  BY DEF OwnPair, Unsigned
<1>3. OpInv'
  BY DEF OpInv, Allowed
<1> QED  BY <1>1, <1>2, <1>3

\* So does one that leaves the requests alone, too.
LEMMA StillKeepsClean ==
  ASSUME Clean, Safe', UNCHANGED <<files, signed, revoked, job>>
  PROVE  Clean'
BY DEF Clean, files, At, Removing, FilesInv, FilesOf, OwnPair, Unsigned,
       OpInv

\* A key pair that is generated is one nobody has.
LEMMA GenReqKeepsClean ==
  ASSUME Clean, Safe', NEW p \in Proc, At(p, "genReq"), GenReq(job[p].id),
         Go(p, "signReq")
  PROVE  Clean'
<1> DEFINE d == job[p].id
<1> USE DEF Clean, At, Removing, None
<1>1. d \in Device /\ pairs \in Nat /\ pairs + 1 # None
  BY DEF Safe, Jobs, PkiTypeOK
<1>2. /\ job'[p].at = "signReq" /\ job'[p].id = d /\ job'[p].op = job[p].op
      /\ \A q \in Proc \ {p} : job'[q] = job[q]
  BY DEF Go, Job, Safe
<1>3. /\ key[d] = None /\ req[d] = None /\ crt[d] = None
      /\ req' = [req EXCEPT ![d] = pairs + 1]
      /\ key' = [key EXCEPT ![d] = pairs + 1]
      /\ UNCHANGED <<crt, signed, revoked>>
  BY DEF GenReq, AnyFile
<1>4. /\ req'[d] = pairs + 1 /\ key'[d] = pairs + 1
      /\ \A e \in Device \ {d} : req'[e] = req[e] /\ key'[e] = key[e]
  BY <1>1, <1>3 DEF Safe, PkiTypeOK
<1>5. pairs + 1 \notin signed /\ \A e \in Device : req[e] # pairs + 1
  BY <1>1 DEF Safe, PkiTypeOK, Pairs
<1>6. 0 \notin revoked
  BY DEF Safe, PkiTypeOK, Pairs
<1>7. \A q \in Proc : job[q].id \in Device
  BY DEF Safe, Jobs
<1> HIDE DEF d
<1>8. FilesInv'
  <2> SUFFICES ASSUME NEW e \in Device PROVE FilesOf(e)'
    BY DEF FilesInv
  <2> USE DEF FilesOf
  <2>1. CASE e = d
    BY <1>2, <1>3, <1>4, <1>6, <2>1
  <2>2. CASE e # d
    BY <1>2, <1>3, <1>4, <2>2 DEF FilesInv
  <2> QED  BY <2>1, <2>2
<1>9. OwnPair'
  BY <1>4, <1>5 DEF OwnPair
<1>10. Unsigned'
  <2> SUFFICES ASSUME NEW q \in Proc, job'[q].at = "signReq"
               PROVE  req'[job'[q].id] \notin signed'
    BY DEF Unsigned
  <2>1. CASE q = p
    BY <1>2, <1>3, <1>4, <1>5, <2>1
  <2>2. CASE q # p
    <3>1. req[job[q].id] # None /\ req[job[q].id] \notin signed
      BY <1>2, <2>2 DEF Unsigned, Safe, SigningInv
    <3>2. job[q].id # d
      BY <1>3, <3>1
    <3> QED  BY <1>2, <1>3, <1>4, <1>7, <2>2, <3>1, <3>2
  <2> QED  BY <2>1, <2>2
<1>11. OpInv'
  BY <1>2 DEF OpInv
<1> QED  BY <1>8, <1>9, <1>10, <1>11

\* The certificate is that of the request, and of no other device.
LEMMA SignReqKeepsClean ==
  ASSUME Clean, Safe', NEW p \in Proc, At(p, "signReq"), SignReq(job[p].id),
         Go(p, "readKey") \/ End(p)
  PROVE  Clean'
<1> DEFINE d == job[p].id
<1> USE DEF Clean, At, Removing
<1>1. d \in Device /\ req[d] # None /\ crt[d] = None /\ req[d] \notin signed
  BY DEF Safe, Jobs, SigningInv, Unsigned
<1>2. /\ job'[p].at \in {"readKey", "idle"} /\ job'[p].op # "orphan"
      /\ \A q \in Proc \ {p} : job'[q] = job[q]
  BY DEF Go, End, Job, Idle, Safe, OpInv
<1>3. /\ crt' = [crt EXCEPT ![d] = req[d]]
      /\ signed' = signed \union {req[d]}
      /\ UNCHANGED <<key, req, revoked>>
  BY DEF SignReq
<1>4. crt'[d] = req[d] /\ \A e \in Device \ {d} : crt'[e] = crt[e]
  BY <1>1, <1>3 DEF Safe, PkiTypeOK
<1>5. req[d] \notin revoked
  BY <1>1 DEF Safe, PkiTypeOK
<1>6. \A q \in Proc : job[q].id \in Device
  BY DEF Safe, Jobs
<1>7. \A q \in Proc : q # p /\ job[q].at = "signReq" => job[q].id # d
  BY DEF Safe, OneSigning
<1> HIDE DEF d
<1>p. job[p].id = d
  BY DEF d
<1>8. FilesInv'
  <2> SUFFICES ASSUME NEW e \in Device PROVE FilesOf(e)'
    BY DEF FilesInv
  <2> USE DEF FilesOf
  <2>1. CASE e = d
    BY <1>1, <1>3, <1>4, <1>5, <2>1 DEF FilesInv
  <2>2. CASE e # d
    BY <1>2, <1>3, <1>4, <1>p, <2>2 DEF FilesInv
  <2> QED  BY <2>1, <2>2
<1>9. OwnPair'
  BY <1>3 DEF OwnPair
<1>10. Unsigned'
  <2> SUFFICES ASSUME NEW q \in Proc, job'[q].at = "signReq"
               PROVE  req'[job'[q].id] \notin signed'
    BY DEF Unsigned
  <2>1. q # p /\ job'[q] = job[q]
    BY <1>2
  <2>2. job[q].id # d /\ req[job[q].id] \notin signed
    BY <1>7, <2>1 DEF Unsigned
  <2>3. req[job[q].id] # req[d]
    BY <1>1, <1>6, <2>2 DEF OwnPair
  <2> QED  BY <1>3, <2>1, <2>2, <2>3
<1>11. OpInv'
  BY <1>2 DEF OpInv
<1> QED  BY <1>8, <1>9, <1>10, <1>11

\* A revocation is that of one device.
LEMMA RevokeKeepsClean ==
  ASSUME Clean, Safe', NEW p \in Proc, At(p, "revoke"), Revoke(job[p].id),
         Go(p, "genCrl")
  PROVE  Clean'
<1> DEFINE d == job[p].id
<1> USE DEF Clean, At, Removing
<1>1. d \in Device /\ crt[d] # None
  BY DEF Safe, Jobs, Revoke, Revocable
<1>2. /\ job'[p].at = "genCrl" /\ job'[p].id = d /\ job'[p].op = job[p].op
      /\ \A q \in Proc \ {p} : job'[q] = job[q]
  BY DEF Go, Job, Safe
<1>3. revoked' = revoked \union {crt[d]} /\ UNCHANGED <<key, req, crt, signed>>
  BY DEF Revoke, files
<1>4. \A e \in Device : crt[e] = crt[d] => e = d
  BY <1>1 DEF FilesInv, FilesOf, OwnPair
<1> HIDE DEF d
<1>5. FilesInv'
  <2> SUFFICES ASSUME NEW e \in Device PROVE FilesOf(e)'
    BY DEF FilesInv
  <2> USE DEF FilesOf
  <2>1. CASE e = d
    BY <1>1, <1>2, <1>3, <2>1 DEF FilesInv
  <2>2. CASE e # d
    <3>1. crt[e] # crt[d]
      BY <1>4, <2>2
    <3> QED  BY <1>2, <1>3, <2>2, <3>1 DEF FilesInv
  <2> QED  BY <2>1, <2>2
<1>6. OwnPair' /\ Unsigned'
  BY <1>2, <1>3 DEF OwnPair, Unsigned
<1>7. OpInv'
  BY <1>2 DEF OpInv, d
<1> QED  BY <1>5, <1>6, <1>7

\* The CRL is made and copied while the removal goes on.
LEMMA CrlKeepsClean ==
  ASSUME Clean, Safe', NEW p \in Proc, Removing(p),
         NEW s \in {"copyCrl", "unlink"}, Go(p, s),
         UNCHANGED <<files, signed, revoked>>
  PROVE  Clean'
<1> USE DEF Clean, At, Removing, files
<1>1. /\ job'[p].at = s /\ job'[p].id = job[p].id /\ job'[p].op = job[p].op
      /\ \A q \in Proc \ {p} : job'[q] = job[q]
  BY DEF Go, Job, Safe
<1>2. FilesInv'
  BY <1>1 DEF FilesInv, FilesOf
<1>3. OwnPair' /\ Unsigned' /\ OpInv'
  BY <1>1 DEF OwnPair, Unsigned, OpInv
<1> QED  BY <1>2, <1>3

\* The files that a removal finds are all there, and then all gone.
LEMMA RemovalFindsFiles ==
  ASSUME Clean, NEW p \in Proc, Removing(p)
  PROVE  Unlinkable(job[p].id)
BY DEF Clean, Safe, RemovalInv, FilesInv, FilesOf, Unlinkable, Jobs

LEMMA UnlinkKeepsClean ==
  ASSUME Clean, Safe', NEW p \in Proc, RemoveFiles(p)
  PROVE  Clean'
<1> DEFINE d == job[p].id
<1> USE DEF Clean, At, Removing
<1>1. d \in Device /\ Unlinkable(d) /\ Unlink(d, 3) /\ job[p].at = "unlink"
  BY RemovalFindsFiles DEF RemoveFiles, Safe, Jobs
<1>2. /\ job'[p].at \in {"genReq", "idle"} /\ job'[p].op # "orphan"
      /\ \A q \in Proc \ {p} : job'[q] = job[q]
  BY <1>1 DEF RemoveFiles, Go, End, Job, Idle, Safe, OpInv
<1>3. /\ key' = [key EXCEPT ![d] = None]
      /\ req' = [req EXCEPT ![d] = None]
      /\ crt' = [crt EXCEPT ![d] = None]
      /\ UNCHANGED <<signed, revoked>>
  BY <1>1 DEF Unlink, Unlinkable
<1>4. /\ key'[d] = None /\ req'[d] = None /\ crt'[d] = None
      /\ \A e \in Device \ {d} :
           key'[e] = key[e] /\ req'[e] = req[e] /\ crt'[e] = crt[e]
  BY <1>1, <1>3 DEF Safe, PkiTypeOK
<1>5. None \notin revoked /\ None \notin signed
  BY DEF Safe, PkiTypeOK, Pairs, None
<1>6. \A q \in Proc : job[q].id \in Device
  BY DEF Safe, Jobs
<1>p. job[p].id = d
  OBVIOUS
<1> HIDE DEF d
<1>7. FilesInv'
  <2> SUFFICES ASSUME NEW e \in Device PROVE FilesOf(e)'
    BY DEF FilesInv
  <2> USE DEF FilesOf
  <2>1. CASE e = d
    BY <1>3, <1>4, <1>5, <2>1
  <2>2. CASE e # d
    BY <1>2, <1>3, <1>4, <1>p, <2>2 DEF FilesInv
  <2> QED  BY <2>1, <2>2
<1>8. OwnPair'
  BY <1>4 DEF OwnPair
<1>9. Unsigned'
  BY <1>2, <1>3, <1>4, <1>5, <1>6 DEF Unsigned
<1>10. OpInv'
  BY <1>2 DEF OpInv
<1> QED  BY <1>7, <1>8, <1>9, <1>10

-----------------------------------------------------------------------------

\* Ending a request, or taking it to a step that is not critical, is aside.
LEMMA GoIsAside ==
  ASSUME Clean, NEW p \in Proc, UNCHANGED pki, job[p].at \notin Critical,
         \/ End(p)
         \/ Fail(p)
         \/ \E s \in Steps \ (Critical \union {"revoke"}) : Go(p, s)
         \/ Go(p, "revoke") /\ job[p].id # Admin
  PROVE  Aside(p)
<1> USE DEF Clean, Aside, pki, files, Allowed
<1>1. job[p].op # "orphan" /\ job \in [Proc -> Jobs]
  BY DEF OpInv, Safe
<1>2. CASE End(p)
  BY <1>1, <1>2 DEF End, Idle, Job, Critical
<1>3. ASSUME NEW s \in Steps \ (Critical \union {"revoke"}), Go(p, s)
      PROVE  Aside(p)
  BY <1>1, <1>3 DEF Go, Job
<1>4. CASE Go(p, "revoke") /\ job[p].id # Admin
  BY <1>1, <1>4 DEF Go, Job, Critical
<1>5. CASE Fail(p)
  <2>1. "readKey" \in Steps \ (Critical \union {"revoke"})
    BY DEF Steps, Critical
  <2> QED  BY <1>2, <1>3, <1>5, <2>1 DEF Fail
<1> QED  BY <1>2, <1>3, <1>4, <1>5

\* Every step of a request keeps the invariant.
LEMMA StepKeepsClean ==
  ASSUME Clean, Safe', NEW p \in Proc, Step(p)
  PROVE  Clean'
<1> USE DEF shared
<1>a. {"idle", "addList", "genReq", "readKey", "readCrt", "answer"}
        \subseteq Steps \ (Critical \union {"revoke"})
  BY DEF Steps, Critical
<1>o. job[p].op # "orphan" /\ job \in [Proc -> Jobs]
  BY DEF Clean, OpInv, Safe
<1>1. CASE ListForAdd(p)
  <2>1. job[p].at \notin Critical
    BY <1>1 DEF ListForAdd, At, Critical
  <2>2. Go(p, "genReq") \/ Fail(p)
    BY <1>1 DEF ListForAdd
  <2> QED  BY <1>1, <1>a, <2>1, <2>2, GoIsAside, AsideKeepsClean DEF ListForAdd
<1>2. CASE ListForMaster(p)
  <2>1. job[p].at \notin Critical
    BY <1>2 DEF ListForMaster, At, Critical
  <2>2. Go(p, "readKey") \/ Go(p, "addList")
    BY <1>2 DEF ListForMaster
  <2> QED
    BY <1>2, <1>a, <2>1, <2>2, GoIsAside, AsideKeepsClean DEF ListForMaster
<1>3. CASE ListForRemove(p)
  <2>1. job[p].at \notin Critical
    BY <1>3 DEF ListForRemove, At, Critical
  <2>2. (Go(p, "revoke") /\ job[p].id # Admin) \/ End(p)
    BY <1>3 DEF ListForRemove, RemoveAllowed
  <2> QED  BY <1>3, <2>1, <2>2, GoIsAside, AsideKeepsClean DEF ListForRemove
<1>4. CASE BuildGenReq(p)
  <2>1. CASE GenReq(job[p].id) /\ Go(p, "signReq")
    BY <1>4, <2>1, GenReqKeepsClean DEF BuildGenReq
  <2>2. CASE Fail(p) /\ UNCHANGED pki
    <3>1. job[p].at \notin Critical
      BY <1>4 DEF BuildGenReq, At, Critical
    <3> QED  BY <2>2, <3>1, GoIsAside, AsideKeepsClean
  <2> QED  BY <1>4, <2>1, <2>2 DEF BuildGenReq
<1>5. CASE BuildSignReq(p)
  BY <1>5, SignReqKeepsClean DEF BuildSignReq
<1>6. CASE RevokeStart(p)
  <2>1. CASE Revoke(job[p].id) /\ Go(p, "genCrl")
    BY <1>6, <2>1, RevokeKeepsClean DEF RevokeStart
  <2>2. CASE End(p) /\ UNCHANGED pki
    <3>1. job[p].at \notin Critical
      BY <1>6 DEF RevokeStart, At, Critical
    <3> QED  BY <2>2, <3>1, GoIsAside, AsideKeepsClean
  <2> QED  BY <1>6, <1>o, <2>1, <2>2 DEF RevokeStart, GoUnlessOrphan
<1>7. CASE RevokeGenCrl(p)
  <2>1. /\ Removing(p) /\ Go(p, "copyCrl")
        /\ UNCHANGED <<files, signed, revoked>>
    BY <1>7, <1>o DEF RevokeGenCrl, GenCrl, GoUnlessOrphan, Removing, At
  <2> QED  BY <2>1, CrlKeepsClean
<1>8. CASE RevokeCopyCrl(p)
  <2>1. /\ Removing(p) /\ Go(p, "unlink")
        /\ UNCHANGED <<files, signed, revoked>>
    BY <1>8 DEF RevokeCopyCrl, CopyCrl, Removing, At
  <2> QED  BY <2>1, CrlKeepsClean
<1>9. CASE RemoveFiles(p)
  BY <1>9, UnlinkKeepsClean
<1>10. CASE ReadKey(p) \/ ReadCrt(p) \/ Answer(p)
  <2>1. /\ job[p].at \notin Critical
        /\ job'[p].at \in {"readCrt", "answer", "idle"}
        /\ job'[p].op \in {job[p].op, "none"}
        /\ \A q \in Proc \ {p} : job'[q] = job[q]
        /\ UNCHANGED pki
    <3>1. CASE (ReadKey(p) /\ ~End(p)) \/ ReadCrt(p)
      BY <1>o, <3>1, ReadIsQuiet DEF Clean, ReadKey, ReadCrt, At, Critical
    <3>2. CASE End(p)
      BY <1>10, <1>o, <3>2
      DEF ReadKey, ReadCrt, Answer, At, End, Job, Idle, Critical
    <3> QED  BY <1>10, <3>1, <3>2 DEF Answer
  <2>2. Aside(p)
    BY <1>o, <2>1 DEF Aside, Allowed, Critical, pki, files
  <2> QED  BY <2>2, AsideKeepsClean
<1> QED
  BY <1>1, <1>2, <1>3, <1>4, <1>5, <1>6, <1>7, <1>8, <1>9, <1>10 DEF Step

LEMMA CleanKept == Faults = {} /\ Clean /\ [Next]_vars => Clean'
<1> SUFFICES ASSUME Faults = {}, Clean, [Next]_vars PROVE Clean'
  OBVIOUS
<1>s. Safe /\ Safe'
  BY NextKeepsSafe DEF Clean
<1>1. CASE \E p \in Proc, o \in Calls, d \in Device : Request(p, o, d)
  <2>1. PICK p \in Proc, o \in Calls, d \in Device : Request(p, o, d)
    BY <1>1
  <2>2. /\ job[p].at = "idle" /\ UNCHANGED pki
        /\ job'[p].op = o /\ job'[p].at = FirstStep(o)
        /\ \A q \in Proc \ {p} : job'[q] = job[q]
    BY <1>s, <2>1 DEF Request, At, Job, shared, Safe
  <2>3. /\ o # "orphan" /\ FirstStep(o) \notin Critical
        /\ FirstStep(o) = "revoke" => o = "resetDevice"
    BY DEF FirstStep, Calls, Critical
  <2>4. Aside(p)
    BY <2>2, <2>3 DEF Aside, Allowed, Critical, pki, files
  <2> QED  BY <1>s, <2>4, AsideKeepsClean
<1>2. CASE \E p \in Proc : Step(p)
  BY <1>2, <1>s, StepKeepsClean
<1>3. CASE PruneLinks \/ OvpnRun \/ Boot \/ UNCHANGED vars
  <2>1. UNCHANGED <<files, signed, revoked, job>>
    BY <1>3 DEF PruneLinks, OvpnRun, CopyCrl, Boot, vars, pki, files
  <2> QED  BY <1>s, <2>1, StillKeepsClean
<1>4. /\ \A p \in Proc : ~Timeout(p) /\ \A q \in Proc : ~TimeoutOrphan(p, q)
      /\ ~Stop /\ ~Kill
      /\ \A p \in Proc, n \in 1..2 : ~KillUnlinking(p, n)
  BY DEF Timeout, TimeoutOrphan, Stop, Kill, KillUnlinking
<1> QED  BY <1>1, <1>2, <1>3, <1>4 DEF Next

LEMMA InitClean == Init => Clean
<1> SUFFICES ASSUME Init PROVE Clean
  OBVIOUS
<1>1. FilesInv /\ OwnPair
  BY DEF Init, PkiInit, NoFiles, FilesInv, FilesOf, OwnPair, None
<1>2. Unsigned /\ OpInv
  BY DEF Init, Unsigned, OpInv, Idle, Job, At, Removing
<1> QED  BY <1>1, <1>2, InitSafe DEF Clean

LEMMA AlwaysClean == Faults = {} /\ Spec => []Clean
<1>1. CASE Faults = {}
  <2>1. Clean /\ [Next]_vars => Clean'
    BY <1>1, CleanKept
  <2> QED  BY <2>1, InitClean, PTL DEF Spec
<1>2. CASE Faults # {}
  BY <1>2
<1> QED  BY <1>1, <1>2

\* When no command fails, requests leave every device gone or complete, for
\* any number of them, whatever their interleaving.
THEOREM DevicesAreHealthy == Faults = {} /\ Spec => []HealthyAtRest
<1>1. Clean => HealthyAtRest
  <2> SUFFICES ASSUME Clean, AtRest, NEW d \in Device PROVE Healthy(d)
    BY DEF HealthyAtRest
  <2>1. /\ key[d] = req[d]
        /\ crt[d] # None => crt[d] = req[d]
        /\ crt[d] = None => req[d] = None
        /\ crt[d] \notin revoked
    BY DEF Clean, FilesInv, FilesOf, AtRest, At, Removing
  <2>2. crt[d] # None => crt[d] \in Accepted
    BY <2>1 DEF Clean, Safe, CertIsSigned, CrlOrder, Accepted
  <2> QED  BY <2>1, <2>2 DEF Healthy, AnyFile, Revocable
<1> QED  BY <1>1, AlwaysClean, PTL

-----------------------------------------------------------------------------
(* The main admin.                                                         *)

\* A request that brings the main admin back is not lost, and its certificate
\* is removed by a reset only.
LEMMA StepKeepsAdmin ==
  ASSUME Clean, AdminSecured, NEW p \in Proc, Step(p)
  PROVE  AdminSecured'
<1> USE DEF shared, pki, files
<1>o. /\ job[p].op # "orphan" /\ job \in [Proc -> Jobs] /\ Admin \in Device
      /\ job[p].id \in Device /\ crt \in [Device -> Nat]
  BY DevicesAssumption DEF Clean, OpInv, Safe, Jobs, PkiTypeOK, Pairs, None
<1>w. ASSUME UNCHANGED crt, \A q \in Proc \ {p} : job'[q] = job[q],
             job[p].at \notin {"genReq", "signReq"}
      PROVE  AdminSecured'
  BY <1>w DEF AdminSecured, Listed, At
<1>1. CASE ListForAdd(p) \/ ListForMaster(p) \/ ListForRemove(p)
  BY <1>1, <1>o, <1>w
  DEF ListForAdd, ListForMaster, ListForRemove, Fail, Go, End, At
<1>2. CASE BuildGenReq(p) /\ GenReq(job[p].id) /\ Go(p, "signReq")
  BY <1>2, <1>o DEF GenReq, Go, Job, AdminSecured, Listed, At
<1>3. CASE BuildGenReq(p) /\ AnyFile(job[p].id) /\ Fail(p) /\ UNCHANGED pki
  <2>1. \A q \in Proc \ {p} : job'[q] = job[q]
    BY <1>3, <1>o DEF Fail, Go, End
  <2>2. CASE job[p].id # Admin
    BY <1>3, <2>1, <2>2 DEF AdminSecured, Listed, At
  <2>3. CASE job[p].id = Admin /\ crt[Admin] = None
    <3>1. req[Admin] # None
      BY <1>3, <1>o, <2>3 DEF AnyFile, Clean, FilesInv, FilesOf
    <3>2. PICK q \in Proc : At(q, "signReq") /\ job[q].id = Admin
      BY <1>o, <2>3, <3>1 DEF Clean, FilesInv, FilesOf
    <3>3. q # p
      BY <1>3, <3>2 DEF BuildGenReq, At
    <3> QED  BY <2>1, <3>2, <3>3 DEF AdminSecured, At
  <2>4. CASE crt[Admin] # None
    BY <1>3, <1>o, <2>4 DEF AdminSecured, Listed
  <2> QED  BY <2>2, <2>3, <2>4
<1>4. CASE BuildSignReq(p)
  <2>1. /\ crt' = [crt EXCEPT ![job[p].id] = req[job[p].id]]
        /\ \A q \in Proc \ {p} : job'[q] = job[q]
    BY <1>4, <1>o DEF BuildSignReq, SignReq, Go, End
  <2>2. req[job[p].id] # None
    BY <1>4 DEF BuildSignReq, Clean, Safe, SigningInv
  <2>3. CASE job[p].id = Admin
    BY <1>o, <2>1, <2>2, <2>3 DEF AdminSecured, Listed
  <2>4. CASE job[p].id # Admin
    <3>1. crt'[Admin] = crt[Admin]
      BY <1>o, <2>1, <2>4
    <3> QED  BY <1>o, <2>1, <2>4, <3>1 DEF AdminSecured, Listed, At
  <2> QED  BY <2>3, <2>4
<1>5. CASE RevokeStart(p) \/ RevokeGenCrl(p) \/ RevokeCopyCrl(p)
  BY <1>5, <1>o, <1>w
  DEF RevokeStart, RevokeGenCrl, RevokeCopyCrl, Revoke, GenCrl, CopyCrl,
      GoUnlessOrphan, Go, End, At
<1>6. CASE RemoveFiles(p)
  <2>1. Unlinkable(job[p].id) /\ job[p].at = "unlink"
    BY <1>6, RemovalFindsFiles DEF RemoveFiles, At, Removing
  <2>2. CASE job[p].id = Admin
    <3>1. job[p].op = "resetDevice"
      BY <2>1, <2>2 DEF Clean, OpInv, Removing
    <3>2. Go(p, "genReq")
      BY <1>6, <2>1, <3>1 DEF RemoveFiles
    <3> QED  BY <1>o, <2>2, <3>2 DEF Go, Job, AdminSecured, At
  <2>3. CASE job[p].id # Admin
    <3>1. crt'[Admin] = crt[Admin]
      BY <1>6, <1>o, <2>3 DEF RemoveFiles, Unlink
    <3>2. \A q \in Proc \ {p} : job'[q] = job[q]
      BY <1>6, <1>o DEF RemoveFiles, Go, End
    <3> QED  BY <1>o, <2>1, <3>1, <3>2 DEF AdminSecured, Listed, At
  <2> QED  BY <2>2, <2>3
<1>7. CASE ReadKey(p) \/ ReadCrt(p) \/ Answer(p)
  BY <1>7, <1>o, <1>w DEF ReadKey, ReadCrt, Answer, End, At
<1> QED
  BY <1>1, <1>2, <1>3, <1>4, <1>5, <1>6, <1>7 DEF Step, BuildGenReq

\* When no command fails the main admin is never lost for good, for any
\* number of requests that reset, remove and build.
THEOREM AdminIsKept == Faults = {} /\ Spec => AdminStays
<1>1. Faults = {} /\ Clean /\ [Next]_vars
        => [AdminSecured => AdminSecured']_vars
  <2> SUFFICES ASSUME Faults = {}, Clean, Next, AdminSecured
               PROVE  AdminSecured'
    OBVIOUS
  <2>1. CASE \E p \in Proc : Step(p)
    BY <2>1, StepKeepsAdmin
  <2>2. CASE \E p \in Proc, o \in Calls, d \in Device : Request(p, o, d)
    <3>1. PICK p \in Proc, o \in Calls, d \in Device : Request(p, o, d)
      BY <2>2
    <3>2. /\ UNCHANGED crt /\ job[p].at = "idle"
          /\ \A q \in Proc \ {p} : job'[q] = job[q]
      BY <3>1 DEF Request, At, shared, pki, Clean, Safe
    <3> QED  BY <3>2 DEF AdminSecured, Listed, At
  <2>3. CASE PruneLinks \/ OvpnRun \/ Boot
    <3>1. UNCHANGED <<crt, job>>
      BY <2>3 DEF PruneLinks, OvpnRun, CopyCrl, Boot, pki, files
    <3> QED  BY <3>1 DEF AdminSecured, Listed, At
  <2> QED
    BY <2>1, <2>2, <2>3
    DEF Next, Timeout, TimeoutOrphan, Stop, Kill, KillUnlinking
<1>2. CASE Faults = {}
  <2>1. Clean /\ [Next]_vars => [AdminSecured => AdminSecured']_vars
    BY <1>1, <1>2
  <2> QED  BY <1>2, <2>1, AlwaysClean, PTL DEF Spec, AdminStays
<1>3. CASE Faults # {}
  BY <1>3
<1> QED  BY <1>2, <1>3

-----------------------------------------------------------------------------
(* The CRL.                                                                *)

\* What was revoked is in the CRL, or a removal is about to generate it; what is
\* in the CRL is in the copy openvpn reads, or a removal is about to make it.
CrlDue ==
  /\ revoked \subseteq crl \/ \E p \in Proc : At(p, "genCrl")
  /\ crl \subseteq live \/ \E p \in Proc : At(p, "copyCrl")

\* A step of a request that is not about to do either.
LEMMA OthersKeepCrlDue ==
  ASSUME CrlDue, NEW p \in Proc, job[p].at \notin {"genCrl", "copyCrl"},
         \A q \in Proc \ {p} : job'[q] = job[q],
         UNCHANGED <<revoked, crl, live>>
  PROVE  CrlDue'
BY DEF CrlDue, At

LEMMA StepKeepsCrlDue ==
  ASSUME Clean, CrlDue, NEW p \in Proc, Step(p)
  PROVE  CrlDue'
<1>o. job[p].op # "orphan" /\ job \in [Proc -> Jobs]
  BY DEF Clean, OpInv, Safe
<1> USE DEF At, shared, pki
<1>1. CASE RevokeStart(p) /\ ~End(p)
  <2>1. Revoke(job[p].id) /\ Go(p, "genCrl") /\ job[p].at = "revoke"
    BY <1>o, <1>1 DEF RevokeStart, GoUnlessOrphan
  <2>2. /\ job'[p].at = "genCrl" /\ UNCHANGED <<crl, live>>
        /\ \A q \in Proc \ {p} : job'[q] = job[q]
    BY <1>o, <2>1 DEF Revoke, Go, Job
  <2> QED  BY <2>1, <2>2 DEF CrlDue
<1>2. CASE RevokeGenCrl(p)
  <2>1. /\ job'[p].at = "copyCrl" /\ crl' = revoked /\ revoked' = revoked
    BY <1>o, <1>2 DEF RevokeGenCrl, GenCrl, GoUnlessOrphan, Go, Job
  <2> QED  BY <2>1 DEF CrlDue
<1>3. CASE RevokeCopyCrl(p)
  <2>1. /\ job[p].at = "copyCrl" /\ UNCHANGED <<revoked, crl>> /\ live' = crl
        /\ \A q \in Proc \ {p} : job'[q] = job[q]
    BY <1>o, <1>3 DEF RevokeCopyCrl, CopyCrl, Go
  <2> QED  BY <2>1 DEF CrlDue
<1>4. CASE \/ ListForAdd(p) \/ ListForMaster(p) \/ ListForRemove(p)
           \/ BuildGenReq(p) \/ BuildSignReq(p)
           \/ RevokeStart(p) /\ End(p)
           \/ RemoveFiles(p) \/ ReadKey(p) \/ ReadCrt(p) \/ Answer(p)
  <2>1. /\ job[p].at \notin {"genCrl", "copyCrl"}
        /\ \A q \in Proc \ {p} : job'[q] = job[q]
    BY <1>o, <1>4
    DEF ListForAdd, ListForMaster, ListForRemove, BuildGenReq, BuildSignReq,
        RevokeStart, RemoveFiles, ReadKey, ReadCrt, Answer, Fail, Go, End
  <2>2. UNCHANGED <<crl, live>>
    BY <1>4
    DEF ListForAdd, ListForMaster, ListForRemove, BuildGenReq, BuildSignReq,
        RevokeStart, RemoveFiles, ReadKey, ReadCrt, Answer, GenReq, SignReq,
        Revoke, Unlink
  <2>3. UNCHANGED revoked
    <3>1. CASE RevokeStart(p) /\ End(p)
      <4>1. job'[p].at = "idle"
        BY <1>o, <3>1 DEF End, Idle, Job
      <4>2. ~GoUnlessOrphan(p, "genCrl")
        BY <1>o, <4>1 DEF GoUnlessOrphan, Go, Job
      <4> QED  BY <3>1, <4>2 DEF RevokeStart
    <3> QED
      BY <1>4, <3>1
      DEF ListForAdd, ListForMaster, ListForRemove, BuildGenReq, BuildSignReq,
          RemoveFiles, ReadKey, ReadCrt, Answer, GenReq, SignReq, Unlink
  <2> QED  BY <2>1, <2>2, <2>3, OthersKeepCrlDue
<1>5. CASE RevokeStart(p)
  BY <1>1, <1>4, <1>5
<1> QED  BY <1>2, <1>3, <1>4, <1>5 DEF Step

LEMMA AlwaysCrlDue == Faults = {} /\ Spec => []CrlDue
<1>1. Init => CrlDue
  BY DEF Init, PkiInit, CrlDue
<1>2. Faults = {} /\ Clean /\ CrlDue /\ [Next]_vars => CrlDue'
  <2> SUFFICES ASSUME Faults = {}, Clean, CrlDue, [Next]_vars PROVE CrlDue'
    OBVIOUS
  <2>1. CASE \E p \in Proc, o \in Calls, d \in Device : Request(p, o, d)
    <3>1. PICK p \in Proc, o \in Calls, d \in Device : Request(p, o, d)
      BY <2>1
    <3>2. /\ job[p].at = "idle" /\ UNCHANGED <<revoked, crl, live>>
          /\ \A q \in Proc \ {p} : job'[q] = job[q]
      BY <3>1 DEF Request, At, shared, pki, Clean, Safe
    <3> QED  BY <3>2, OthersKeepCrlDue
  <2>2. CASE \E p \in Proc : Step(p)
    BY <2>2, StepKeepsCrlDue
  <2>3. CASE PruneLinks \/ Boot \/ UNCHANGED vars
    BY <2>3 DEF PruneLinks, Boot, vars, pki, CrlDue, At
  <2>4. CASE OvpnRun
    BY <2>4 DEF OvpnRun, CopyCrl, CrlDue, At
  <2>5. /\ \A p \in Proc : ~Timeout(p) /\ \A q \in Proc : ~TimeoutOrphan(p, q)
        /\ ~Stop /\ ~Kill
        /\ \A p \in Proc, n \in 1..2 : ~KillUnlinking(p, n)
    BY DEF Timeout, TimeoutOrphan, Stop, Kill, KillUnlinking
  <2> QED  BY <2>1, <2>2, <2>3, <2>4, <2>5 DEF Next
<1>3. CASE Faults = {}
  <2>1. Clean /\ CrlDue /\ [Next]_vars => CrlDue'
    BY <1>2, <1>3
  <2> QED  BY <1>1, <1>3, <2>1, AlwaysClean, PTL DEF Spec
<1>4. CASE Faults # {}
  BY <1>4
<1> QED  BY <1>3, <1>4

\* When no command fails and the requests are done, openvpn refuses whatever
\* was revoked, however many removals made and copied the CRL meanwhile.
THEOREM RevokedAreRefused == Faults = {} /\ Spec => []RevokedIsRefused
<1>1. CrlDue => RevokedIsRefused
  BY DEF CrlDue, RevokedIsRefused, AtRest, At
<1> QED  BY <1>1, AlwaysCrlDue, PTL

-----------------------------------------------------------------------------
(* What breaks the promises that the runs find broken.                     *)

\* A device on the listing can be removed, for any number of concurrent
\* requests: only a removal that is cut off leaves one that cannot.
THEOREM ListedCanBeRemoved == Faults = {} /\ Spec => []ListedIsRemovable
<1>1. HealthyAtRest => ListedIsRemovable
  BY DEF HealthyAtRest, Healthy, AnyFile, Listed, ListedIsRemovable
<1> QED  BY <1>1, DevicesAreHealthy, PTL

\* No command fails, and the requests come one after the other.
OneByOne == Faults = {} /\ \A p, q \in Proc : p = q

\* The device of a client file stays until the file is answered, with the key
\* and the certificate that were read.
AloneInv ==
  /\ up
  /\ linked \subseteq Listed
  /\ \A p \in Proc :
       /\ At(p, "readCrt") \/ At(p, "answer") =>
            crt[job[p].id] # None /\ job[p].got = crt[job[p].id]
       /\ At(p, "answer") => job[p].cert = crt[job[p].id]

\* A step that leaves links and files alone, and starts no client file.
LEMMA AsideKeepsAlone ==
  ASSUME OneByOne, AloneInv, NEW p \in Proc, UNCHANGED <<up, linked, crt>>,
         job'[p].at \notin {"readCrt", "answer"}
  PROVE  AloneInv'
BY DEF OneByOne, AloneInv, Listed, At

LEMMA StepKeepsAlone ==
  ASSUME OneByOne, Clean, AloneInv, NEW p \in Proc, Step(p)
  PROVE  AloneInv'
<1> USE DEF shared, pki, files, links
<1>o. /\ job \in [Proc -> Jobs] /\ job[p].id \in Device
      /\ crt \in [Device -> Nat] /\ \A q \in Proc : q = p
  BY DEF OneByOne, Clean, Safe, Jobs, PkiTypeOK, Pairs, None
<1>1. CASE \/ ListForAdd(p) \/ ListForMaster(p) \/ ListForRemove(p)
           \/ RevokeStart(p) \/ RevokeGenCrl(p) \/ RevokeCopyCrl(p)
  <2>1. UNCHANGED <<up, linked, crt>>
    BY <1>1
    DEF ListForAdd, ListForMaster, ListForRemove, RevokeStart, RevokeGenCrl,
        RevokeCopyCrl, Revoke, GenCrl, CopyCrl
  <2>2. job'[p].at \notin {"readCrt", "answer"}
    BY <1>1, <1>o
    DEF ListForAdd, ListForMaster, ListForRemove, RevokeStart, RevokeGenCrl,
        RevokeCopyCrl, GoUnlessOrphan, Fail, Go, End, Job, Idle
  <2> QED  BY <2>1, <2>2, AsideKeepsAlone
<1>2. CASE BuildGenReq(p)
  BY <1>2, <1>o, AsideKeepsAlone
  DEF BuildGenReq, GenReq, Fail, Go, End, Job, Idle
<1>3. CASE BuildSignReq(p)
  <2>1. /\ crt' = [crt EXCEPT ![job[p].id] = req[job[p].id]]
        /\ UNCHANGED <<up, linked>>
        /\ job'[p].at \notin {"readCrt", "answer"}
    BY <1>3, <1>o DEF BuildSignReq, SignReq, Go, End, Job, Idle
  <2>2. req[job[p].id] # None
    BY <1>3 DEF BuildSignReq, Clean, Safe, SigningInv
  <2>3. Listed \subseteq Listed'
    BY <1>o, <2>1, <2>2 DEF Listed
  <2> QED  BY <1>o, <2>1, <2>3 DEF AloneInv, At
<1>4. CASE RemoveFiles(p)
  <2>1. /\ Unlinkable(job[p].id) /\ Unlink(job[p].id, 3)
        /\ linked' = linked \ {job[p].id} /\ UNCHANGED up
        /\ job'[p].at \notin {"readCrt", "answer"}
    BY <1>4, <1>o, RemovalFindsFiles
    DEF RemoveFiles, Removing, At, Go, End, Job, Idle
  <2>2. Listed' = Listed \ {job[p].id}
    BY <1>o, <2>1 DEF Unlink, Unlinkable, Listed
  <2> QED  BY <1>o, <2>1, <2>2 DEF AloneInv, At
<1>5. CASE ReadKey(p)
  <2>1. CASE End(p)
    BY <1>5, <1>o, <2>1, AsideKeepsAlone DEF ReadKey, End, Job, Idle
  <2>2. CASE job'[p].at = "readCrt"
    <3>0. ~End(p)
      BY <1>o, <2>2 DEF End, Idle, Job
    <3>1. /\ key[job[p].id] # None /\ job[p].at = "readKey"
          /\ job'[p].id = job[p].id /\ job'[p].got = key[job[p].id]
      <4>1. /\ key[job[p].id] # None /\ job[p].at = "readKey"
            /\ job' = [job EXCEPT ![p].at = "readCrt",
                                  ![p].got = key[job[p].id],
                                  ![p].had = crt[job[p].id]]
        BY <1>5, <3>0 DEF ReadKey, At
      <4>2. job'[p] = [job[p] EXCEPT !.at = "readCrt",
                                     !.got = key[job[p].id],
                                     !.had = crt[job[p].id]]
        BY <1>o, <4>1
      <4>3. job[p] \in Jobs
        BY <1>o
      <4> QED  BY <4>1, <4>2, <4>3 DEF Jobs
    <3>2. crt[job[p].id] # None
      <4>1. ~At(p, "signReq")
        BY <3>1 DEF At
      <4> QED  BY <1>o, <3>1, <4>1 DEF Clean, FilesInv, FilesOf
    <3>3. key[job[p].id] = crt[job[p].id]
      BY <1>o, <3>2 DEF Clean, FilesInv, FilesOf
    <3>4. UNCHANGED <<up, linked, crt>>
      BY <1>5 DEF ReadKey
    <3> QED  BY <1>o, <2>2, <3>1, <3>2, <3>3, <3>4 DEF AloneInv, At, Listed
  <2>3. CASE ~End(p) /\ job'[p].at # "readCrt"
    <3>1. job'[p].at = "readCrt"
      <4>1. job' = [job EXCEPT ![p].at = "readCrt",
                               ![p].got = key[job[p].id],
                               ![p].had = crt[job[p].id]]
        BY <1>5, <2>3 DEF ReadKey
      <4>2. job'[p] = [job[p] EXCEPT !.at = "readCrt",
                                     !.got = key[job[p].id],
                                     !.had = crt[job[p].id]]
        BY <1>o, <4>1
      <4>3. job[p] \in Jobs
        BY <1>o
      <4> QED  BY <4>2, <4>3 DEF Jobs
    <3> QED  BY <2>3, <3>1
  <2> QED  BY <2>1, <2>2, <2>3
<1>6. CASE ReadCrt(p)
  <2>1. /\ job[p].at = "readCrt" /\ job'[p].at = "answer"
        /\ job'[p].id = job[p].id /\ job'[p].got = job[p].got
        /\ job'[p].cert = crt[job[p].id] /\ UNCHANGED <<up, linked, crt>>
    BY <1>6, <1>o DEF ReadCrt, At, Job
  <2> QED  BY <1>o, <2>1 DEF AloneInv, At, Listed
<1>7. CASE Answer(p)
  <2>1. /\ job[p].at = "answer" /\ job'[p].at = "idle"
        /\ linked' \subseteq linked \union {job[p].id} /\ UNCHANGED <<up, crt>>
    BY <1>7, <1>o DEF Answer, At, End, Job, Idle
  <2>2. job[p].id \in Listed
    BY <1>o, <2>1 DEF AloneInv, At, Listed
  <2> QED  BY <1>o, <2>1, <2>2 DEF AloneInv, At, Listed
<1> QED
  BY <1>1, <1>2, <1>3, <1>4, <1>5, <1>6, <1>7 DEF Step

LEMMA AlwaysAlone == OneByOne /\ Spec => [](Clean /\ AloneInv)
<1>1. Init => AloneInv
  BY DEF Init, AloneInv, At, Idle, Job
<1>2. OneByOne /\ Clean /\ AloneInv /\ [Next]_vars => AloneInv'
  <2> SUFFICES ASSUME OneByOne, Clean, AloneInv, [Next]_vars PROVE AloneInv'
    OBVIOUS
  <2>1. CASE \E p \in Proc, o \in Calls, d \in Device : Request(p, o, d)
    <3>1. PICK p \in Proc, o \in Calls, d \in Device : Request(p, o, d)
      BY <2>1
    <3>2. FirstStep(o) \notin {"readCrt", "answer"}
      BY DEF FirstStep, Calls
    <3> QED
      BY <3>1, <3>2, AsideKeepsAlone
      DEF Request, shared, pki, files, Job, Clean, Safe
  <2>2. CASE \E p \in Proc : Step(p)
    BY <2>2, StepKeepsAlone
  <2>3. CASE PruneLinks \/ OvpnRun \/ UNCHANGED vars
    BY <2>3
    DEF PruneLinks, OvpnRun, CopyCrl, vars, pki, files, links, AloneInv,
        Listed, At
  <2>4. ~Boot
    BY DEF Boot, AloneInv
  <2> QED
    BY <2>1, <2>2, <2>3, <2>4
    DEF Next, OneByOne, Timeout, TimeoutOrphan, Stop, Kill, KillUnlinking
<1>3. CASE OneByOne
  <2>1. Faults = {}
    BY <1>3 DEF OneByOne
  <2>2. Clean /\ AloneInv /\ [Next]_vars => AloneInv'
    BY <1>2, <1>3
  <2> QED  BY <1>1, <2>1, <2>2, AlwaysClean, PTL DEF Spec
<1>4. CASE ~OneByOne
  BY <1>4
<1> QED  BY <1>3, <1>4

\* A client file has its key and the certificate of that key when the requests
\* come one after the other: only their interleaving tears it.
THEOREM FilesAreComplete == OneByOne /\ Spec => []FileIsComplete
<1>1. AloneInv => FileIsComplete
  BY DEF AloneInv, FileIsComplete
<1> QED  BY <1>1, AlwaysAlone, PTL

\* And no link is left of a device that is gone.
THEOREM NoLinkDangles == OneByOne /\ Spec => []NoDanglingLink
<1>1. AloneInv => NoDanglingLink
  BY DEF AloneInv, NoDanglingLink
<1> QED  BY <1>1, AlwaysAlone, PTL

=============================================================================
