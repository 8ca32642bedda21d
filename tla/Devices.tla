------------------------------ MODULE Devices -------------------------------
(***************************************************************************)
(* The device calls of the VPN server (src/src/calls), run concurrently by *)
(* the HTTP API on one PKI.  A request is a slot of Proc; it proceeds one  *)
(* awaited command at a time, and the requests in the other slots move at  *)
(* every await.  What a handler does between two awaits is one step.       *)
(*                                                                         *)
(* A command that times out after 3 minutes is killed and its handler gets *)
(* an error; a container that is stopped or killed ends every request and  *)
(* is started again.  Of the credential links (CredTokens) only the        *)
(* devices that have one are kept here.                                    *)
(***************************************************************************)
EXTENDS Pki

CONSTANTS
  Admin,         \* MAIN_ADMIN_NAME
  Proc,          \* slots for concurrent requests
  UserLimit,     \* USER_LIMIT
  MaxRequests,   \* bound on the requests of a behaviour
  Faults         \* what may go wrong: "timeout", "kill", "stop"

ASSUME DevicesAssumption ==
  /\ Admin \in Device
  /\ IsFiniteSet(Device)
  /\ IsFiniteSet(Proc)
  /\ Proc # {}
  /\ UserLimit \in Nat \ {0}
  /\ MaxRequests \in Nat
  /\ Faults \subseteq {"timeout", "kill", "stop"}

VARIABLES
  up,         \* the container runs
  job,        \* the request in each slot
  linked,     \* the devices with a token in the tokens map
  linkedDb,   \* those with a token in tokens-db.json
  asked       \* how many requests were made

vars == <<pki, up, job, linked, linkedDb, asked>>
shared == <<pki, up, linked, linkedDb>>
links == <<linked, linkedDb>>

Calls == {"addDevice", "removeDevice", "resetDevice", "getMasterAdminCred",
          "getDeviceCredentials", "getCredFile"}

\* "orphan" is an easyrsa that goes on after its handler gave up on it.
Ops == Calls \union {"orphan", "none"}

\* Where a request is: the command it runs next, or the code after it.
Steps == {"idle", "list", "addList", "genReq", "signReq", "revoke", "genCrl",
          "copyCrl", "unlink", "readKey", "readCrt", "answer"}

\* got and cert are what ovpn_getclient read into its output; had is history,
\* the certificate that was there when it read the key.
Job(o, d, s) ==
  [op |-> o, id |-> d, at |-> s, got |-> None, cert |-> None, had |-> None]

Idle == Job("none", Admin, "idle")

Jobs ==
  [op : Ops, id : Device, at : Steps, got : Nat, cert : Nat, had : Nat]

TypeOK ==
  /\ PkiTypeOK
  /\ up \in BOOLEAN
  /\ job \in [Proc -> Jobs]
  /\ linked \subseteq Device
  /\ linkedDb \subseteq Device
  /\ asked \in Nat

Init ==
  /\ PkiInit
  /\ up = TRUE
  /\ job = [p \in Proc |-> Idle]
  /\ linked = {}
  /\ linkedDb = {}
  /\ asked = 0

At(p, s) == job[p].at = s

End(p) == job' = [job EXCEPT ![p] = Idle]

Go(p, s) == job' = [job EXCEPT ![p] = Job(@.op, @.id, s)]

\* An orphan is one easyrsa command: the script that ran it is gone.
GoUnlessOrphan(p, s) ==
  \/ job[p].op = "orphan" /\ End(p)
  \/ job[p].op # "orphan" /\ Go(p, s)

\* A command failed or a handler threw.  getMasterAdminCred catches what its
\* first part throws, and goes on to getDeviceCredentials.
Caught(p) ==
  /\ job[p].op = "getMasterAdminCred"
  /\ job[p].at \in {"list", "addList", "genReq", "signReq"}

Fail(p) ==
  \/ Caught(p) /\ Go(p, "readKey")
  \/ ~Caught(p) /\ End(p)

-----------------------------------------------------------------------------
(* Requests.                                                               *)

FirstStep(o) ==
  CASE o \in {"addDevice", "removeDevice", "getMasterAdminCred"} -> "list"
    [] o = "resetDevice" -> "revoke"
    [] o \in {"getDeviceCredentials", "getCredFile"} -> "readKey"

\* The RPC handler calls one of the methods.  The empty name and the guest
\* names, which the handlers refuse at once, are not in Device.
Request(p, o, d) ==
  /\ up
  /\ asked < MaxRequests
  /\ At(p, "idle")
  /\ o = "getMasterAdminCred" => d = Admin
  /\ job' = [job EXCEPT ![p] = Job(o, d, FirstStep(o))]
  /\ asked' = asked + 1
  /\ UNCHANGED shared

\* Mutant: the limit is checked with > instead of >=.
AddAllowedOver(d) == Cardinality(Listed) =< UserLimit /\ d \notin Listed

\* addDevice: below the limit, and the name is free.
AddAllowed(d) == Cardinality(Listed) < UserLimit /\ d \notin Listed

\* getUserList for addDevice, called by the client or by getMasterAdminCred,
\* and the checks on what it returned.
ListForAdd(p) ==
  /\ \/ At(p, "list") /\ job[p].op = "addDevice"
     \/ At(p, "addList")
  /\ \/ AddAllowed(job[p].id) /\ Go(p, "genReq")
     \/ ~AddAllowed(job[p].id) /\ Fail(p)
  /\ UNCHANGED <<shared, asked>>

\* listDevices for getMasterAdminCred.
ListForMaster(p) ==
  /\ At(p, "list")
  /\ job[p].op = "getMasterAdminCred"
  /\ \/ Admin \in Listed /\ Go(p, "readKey")
     \/ Admin \notin Listed /\ Go(p, "addList")
  /\ UNCHANGED <<shared, asked>>

\* Mutant: the main admin can be removed.
RemoveAllowedAdmin(d) == d \in Listed

RemoveAllowed(d) == d # Admin /\ d \in Listed

\* getUserList for removeDevice.
ListForRemove(p) ==
  /\ At(p, "list")
  /\ job[p].op = "removeDevice"
  /\ \/ RemoveAllowed(job[p].id) /\ Go(p, "revoke")
     \/ ~RemoveAllowed(job[p].id) /\ End(p)
  /\ UNCHANGED <<shared, asked>>

-----------------------------------------------------------------------------
(* buildClient                                                             *)

BuildGenReq(p) ==
  /\ At(p, "genReq")
  /\ \/ GenReq(job[p].id) /\ Go(p, "signReq")
     \/ AnyFile(job[p].id) /\ Fail(p) /\ UNCHANGED pki
  /\ UNCHANGED <<up, links, asked>>

BuildSignReq(p) ==
  /\ At(p, "signReq")
  /\ SignReq(job[p].id)
  /\ IF job[p].op = "getMasterAdminCred" THEN Go(p, "readKey") ELSE End(p)
  /\ UNCHANGED <<up, links, asked>>

-----------------------------------------------------------------------------
(* removeClient: ovpn_revokeclient, then the removals.                     *)

RevokeStart(p) ==
  /\ At(p, "revoke")
  /\ \/ Revoke(job[p].id) /\ GoUnlessOrphan(p, "genCrl")
     \/ ~Revocable(job[p].id) /\ End(p) /\ UNCHANGED pki
  /\ UNCHANGED <<up, links, asked>>

RevokeGenCrl(p) ==
  /\ At(p, "genCrl")
  /\ GenCrl
  /\ GoUnlessOrphan(p, "copyCrl")
  /\ UNCHANGED <<up, links, asked>>

RevokeCopyCrl(p) ==
  /\ At(p, "copyCrl")
  /\ CopyCrl
  /\ Go(p, "unlink")
  /\ UNCHANGED <<up, links, asked>>

\* The three unlinkSync and deleteTokenForId run without an await.  When one
\* throws the tokens stay.  resetDevice goes on to buildClient.
RemoveFiles(p) ==
  /\ At(p, "unlink")
  /\ Unlink(job[p].id, 3)
  /\ \/ /\ Unlinkable(job[p].id)
        /\ linked' = linked \ {job[p].id}
        /\ IF job[p].op = "resetDevice" THEN Go(p, "genReq") ELSE End(p)
     \/ ~Unlinkable(job[p].id) /\ End(p) /\ UNCHANGED linked
  /\ UNCHANGED <<up, linkedDb, asked>>

-----------------------------------------------------------------------------
(* getClient: ovpn_getclient, for the file or to see that it can be made.  *)

\* It stops when there is no key, or when the internal IP cannot be had.
ReadKey(p) ==
  /\ At(p, "readKey")
  /\ \/ /\ key[job[p].id] # None
        /\ job' = [job EXCEPT ![p].at = "readCrt",
                               ![p].got = key[job[p].id],
                               ![p].had = crt[job[p].id]]
     \/ End(p)
  /\ UNCHANGED <<shared, asked>>

\* The certificate is printed by openssl in a command substitution, whose
\* failure leaves it empty and does not stop the script.
ReadCrt(p) ==
  /\ At(p, "readCrt")
  /\ job' = [job EXCEPT ![p].at = "answer", ![p].cert = crt[job[p].id]]
  /\ UNCHANGED <<shared, asked>>

\* getCredFile returns the file.  getDeviceCredentials drops it and calls
\* getConnectUrl, which gives the device a token if it has none.
Answer(p) ==
  /\ At(p, "answer")
  /\ \/ job[p].op = "getCredFile" /\ UNCHANGED linked
     \/ job[p].op # "getCredFile" /\ linked' = linked \union {job[p].id}
  /\ End(p)
  /\ UNCHANGED <<pki, up, linkedDb, asked>>

-----------------------------------------------------------------------------
(* What may go wrong.                                                      *)

InCommand(p) == job[p].at \notin {"idle", "unlink", "answer"}

\* shell rejects after 3 minutes, and the command is gone.
Timeout(p) ==
  /\ "timeout" \in Faults
  /\ InCommand(p)
  /\ Fail(p)
  /\ UNCHANGED <<shared, asked>>

InEasyrsa(p) == job[p].at \in {"genReq", "signReq", "revoke", "genCrl"}

\* SIGTERM reaches the shell only: the easyrsa it started goes on although
\* its handler was told that it failed.
TimeoutOrphan(p, q) ==
  /\ "timeout" \in Faults
  /\ InEasyrsa(p)
  /\ job[p].op # "orphan"
  /\ At(q, "idle")
  /\ job' = [job EXCEPT
       ![q] = Job("orphan", job[p].id, job[p].at),
       ![p] = IF Caught(p) THEN Job(@.op, @.id, "readKey")
                           ELSE Idle]
  /\ UNCHANGED <<shared, asked>>

\* Tokens that are used and old are pruned.
PruneLinks ==
  /\ \E d \in linked : linked' = linked \ {d}
  /\ UNCHANGED <<pki, up, job, linkedDb, asked>>

\* supervisor.ts starts ovpn_run, at boot and whenever openvpn exits.
OvpnRun ==
  /\ up
  /\ crl # live
  /\ CopyCrl
  /\ UNCHANGED <<up, job, links, asked>>

Down ==
  /\ up
  /\ up' = FALSE
  /\ job' = [p \in Proc |-> Idle]

\* docker stops the container, which writes the tokens.
Stop ==
  /\ "stop" \in Faults
  /\ Down
  /\ linkedDb' = linked
  /\ UNCHANGED <<pki, linked, asked>>

\* The container is killed.
Kill ==
  /\ "kill" \in Faults
  /\ Down
  /\ UNCHANGED <<pki, links, asked>>

\* The container is killed between two unlinkSync.
KillUnlinking(p, n) ==
  /\ "kill" \in Faults
  /\ At(p, "unlink")
  /\ Down
  /\ Unlink(job[p].id, n)
  /\ UNCHANGED <<links, asked>>

\* docker starts the container again, which loads the tokens.
Boot ==
  /\ ~up
  /\ up' = TRUE
  /\ linked' = linkedDb
  /\ UNCHANGED <<pki, job, linkedDb, asked>>

Step(p) ==
  \/ ListForAdd(p)
  \/ ListForMaster(p)
  \/ ListForRemove(p)
  \/ BuildGenReq(p)
  \/ BuildSignReq(p)
  \/ RevokeStart(p)
  \/ RevokeGenCrl(p)
  \/ RevokeCopyCrl(p)
  \/ RemoveFiles(p)
  \/ ReadKey(p)
  \/ ReadCrt(p)
  \/ Answer(p)

Next ==
  \/ \E p \in Proc, o \in Calls, d \in Device : Request(p, o, d)
  \/ \E p \in Proc : Step(p)
  \/ \E p \in Proc : Timeout(p)
  \/ \E p, q \in Proc : TimeoutOrphan(p, q)
  \/ PruneLinks
  \/ OvpnRun
  \/ Boot
  \/ Stop
  \/ Kill
  \/ \E p \in Proc, n \in 1..2 : KillUnlinking(p, n)

Spec == Init /\ [][Next]_vars

-----------------------------------------------------------------------------

AtRest == \A p \in Proc : At(p, "idle")

\* Whatever the requests, their interleaving and what goes wrong in them,
\* a certificate openvpn accepts is the one of a device on the listing: no
\* removed or reset device can still connect (removeClient.ts: "Revoke first
\* to save in CRL").
AcceptedIsListed == \A n \in Accepted : \E d \in Device : crt[d] = n

\* A refused certificate is refused for good, although several requests
\* generate and copy the CRL at the same time.
RefusedForGood == [][live \subseteq live']_vars

\* The limit is checked on a listing that other requests make stale: the
\* devices can exceed it, by less than the number of concurrent requests.
LimitOvershoot ==
  Cardinality(Listed) =< UserLimit + Cardinality(Proc) - 1

\* What is on disk for d: nothing, or one pair with its certificate.
Healthy(d) ==
  \/ ~AnyFile(d)
  \/ Revocable(d) /\ key[d] = crt[d] /\ req[d] = crt[d] /\ crt[d] \in Accepted

\* What a build that was cut off leaves: its name is not on the listing.
BuildLeft(d) ==
  key[d] # None /\ req[d] = key[d] /\ crt[d] = None /\ key[d] \notin signed

\* What a removal leaves that was cut off before its first unlink: the whole
\* device, with a certificate that is revoked.  openvpn refuses it once a CRL
\* that has it is generated and copied, by this removal or by another.
RevokedLeft(d) ==
  crt[d] \in revoked /\ key[d] = crt[d] /\ req[d] = crt[d]

\* What one leaves that was cut off between its unlinks, in their order.  The
\* certificate is refused by then.
RemovalLeft(d) ==
  crt[d] \in live /\ key[d] = None /\ req[d] \in {crt[d], None}

\* Whenever a call is cut off, by a timeout, a kill or an orphan of another
\* one, what is left of a device is one of these.  No key stands without its own
\* certificate or request.  A device that connects is whole and on the listing:
\* it is healthy, or revoked and waits for the CRL.
LeftoversAreKnown ==
  \A d \in Device :
    Healthy(d) \/ BuildLeft(d) \/ RevokedLeft(d) \/ RemovalLeft(d)

\* When no command fails, a certificate that was revoked is refused as soon as
\* the requests are done, although several removals generate the CRL from one
\* index and copy it over each other.
RevokedIsRefused == AtRest => revoked \subseteq live

\* When no command fails, concurrent requests leave every device either gone,
\* so that its name can be added, or complete, so that it can be removed.
HealthyAtRest == AtRest => \A d \in Device : Healthy(d)

\* The main admin exists, or a request that brings it back is on its way.
AdminSecured ==
  \/ Admin \in Listed
  \/ \E p \in Proc :
       job[p].id = Admin /\ (At(p, "signReq") \/ At(p, "genReq"))

\* When no command fails, the main admin is never lost: removeDevice refuses
\* it and resetDevice ends by building it again, whoever interferes.
AdminStays == [][AdminSecured => AdminSecured']_vars

\* The calls keep what Access promises, at every step, and not at rest only:
\* a certificate is new, openvpn refuses it before its device leaves the
\* listing, and for good.
Promises ==
  INSTANCE Access WITH NoCert <- None, cert <- crt, issued <- signed,
                       refused <- live

KeepsAccess == Promises!Spec

\* "Delete a device associated tokens when it's deleted" (credentialsFile.ts).
NoDanglingLink == AtRest => linked \subseteq Listed

\* "Removes the device with the provided id, if exists" (removeDevice.ts).
ListedIsRemovable == AtRest => \A d \in Listed : Revocable(d)

\* "Returns the .ovpn file of an existing client" (getClient.ts): of one that
\* was on the listing when its key was read, the file has the certificate.
FileIsComplete ==
  \A p \in Proc :
    /\ At(p, "answer")
    /\ job[p].op = "getCredFile"
    /\ job[p].had # None
    => job[p].got = job[p].cert

=============================================================================
