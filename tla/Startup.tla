------------------------------- MODULE Startup ------------------------------
(***************************************************************************)
(* A start of the container (src/src/index.ts): the hostname is fetched,   *)
(* ovpn_genconfig writes ovpn_env.sh and openvpn.conf, ovpn_initpki makes  *)
(* the PKI when there is none, the main admin is created, openvpn starts.  *)
(* docker starts the container again whenever it ends, the hostname may    *)
(* have changed, and the HTTP API answers from the first step on.  Its     *)
(* calls take any name, that of the server's certificate too.              *)
(*                                                                         *)
(* Of the configuration only OVPN_CN is kept: the common name, and file    *)
(* name, of the certificate openvpn serves with.  ovpn_env.sh is written   *)
(* line by line, so it either has the line of OVPN_CN or not.              *)
(***************************************************************************)
EXTENDS FiniteSets

CONSTANTS
  Host,      \* hostnames, which are common names of server certificates
  Device,    \* other common names of devices
  Admin,     \* MAIN_ADMIN_NAME
  Call,      \* slots for the calls of the API under way
  NoName,    \* no line of OVPN_CN, or no file
  Faults     \* what may go wrong: "kill"

ASSUME StartupAssumption ==
  /\ Host \intersect Device = {}
  /\ NoName \notin Host \union Device
  /\ Admin \in Device
  /\ Faults \subseteq {"kill"}

VARIABLES
  at,        \* where startVpnClient is
  name,      \* config.hostname
  cn,        \* OVPN_CN in ovpn_genconfig
  env,       \* OVPN_CN in ovpn_env.sh
  conf,      \* the certificate openvpn.conf names
  ca,        \* pki/ca.crt and its key exist
  keys,      \* the common names of the files in pki/private
  reqs,      \* those in pki/reqs
  issued,    \* those in pki/issued
  servers,   \* those of them whose certificate is one for a server
  revoked,   \* those of them whose certificate is revoked in the index
  crl,       \* pki/crl.pem exists
  calls,     \* the calls of the API under way
  torn,      \* history: a start was cut off in one of the Windows
  touched    \* history: a call took the server's name for a device's

config == <<name, cn, env, conf>>
files == <<keys, reqs, issued, servers, revoked>>
pki == <<ca, files, crl>>
api == <<calls, touched>>
vars == <<at, config, pki, api, torn>>

Name == Host \union Device

Steps == {"down", "fetchHostname", "configure", "genSource", "genTruncate",
          "genSave", "genConf", "checkPki", "initPki", "buildCa",
          "serverReq", "serverSign", "genCrl", "masterAdmin", "adminSign",
          "READY"}

\* Where a start must not be cut off: ovpn_env.sh is empty, or the PKI has
\* some of what ovpn_initpki puts there, and the API may put more.
Windows == {"genSave", "serverReq", "serverSign", "genCrl"}

\* A call of the API: what it was asked, of which name, and the command it
\* runs next.
Removing == {"revoke", "crl", "unlink"}
Building == {"request", "sign"}
Idle == [op |-> "none", id |-> NoName, step |-> "none"]
CallType == [op : {"remove", "reset"}, id : Name, step : Removing]
              \union [op : {"add", "reset"}, id : Name, step : Building]
              \union {Idle}

TypeOK ==
  /\ at \in Steps
  /\ {name, cn, env, conf} \subseteq Host \union {NoName}
  /\ ca \in BOOLEAN
  /\ reqs \subseteq Name
  /\ keys \subseteq reqs
  /\ issued \subseteq Name
  /\ servers \subseteq issued \intersect Host
  /\ revoked \subseteq issued
  /\ crl \in BOOLEAN
  /\ calls \in [Call -> CallType]
  /\ torn \in BOOLEAN
  /\ touched \in BOOLEAN

\* A new installation: the volume is empty.
Init ==
  /\ at = "down"
  /\ name = NoName /\ cn = NoName /\ env = NoName /\ conf = NoName
  /\ ca = FALSE
  /\ keys = {} /\ reqs = {} /\ issued = {} /\ servers = {} /\ revoked = {}
  /\ crl = FALSE
  /\ calls = [c \in Call |-> Idle]
  /\ torn = FALSE
  /\ touched = FALSE

\* The container ends, and the calls with it.
Down ==
  /\ at' = "down"
  /\ name' = NoName
  /\ cn' = NoName
  /\ calls' = [c \in Call |-> Idle]
  /\ torn' = (torn \/ at \in Windows)

Then(here, next) == at = here /\ at' = next

-----------------------------------------------------------------------------
(* startVpnClient                                                          *)

Boot ==
  /\ Then("down", "fetchHostname")
  /\ UNCHANGED <<torn, config, pki, api>>

\* The hostname arrives, at once or after some retries.  It need not be the one
\* of the last start.
FetchHostname ==
  /\ Then("fetchHostname", "configure")
  /\ name' \in Host
  /\ UNCHANGED <<torn, cn, env, conf, pki, api>>

\* The retries are used up: process.exit(1).
FetchFails ==
  /\ at = "fetchHostname"
  /\ Down
  /\ UNCHANGED <<touched, env, conf, pki>>

\* initalizeOpenVpnConfig gives ovpn_genconfig the hostname as OVPN_CN.
Configure ==
  /\ Then("configure", "genSource")
  /\ cn' = name
  /\ UNCHANGED <<torn, name, env, conf, pki, api>>

\* OVPN_CN of the existing ovpn_env.sh, when it has one, prevails.  No
\* argument sets OVPN_CN.
GenSource ==
  /\ Then("genSource", "genTruncate")
  /\ cn' = IF env = NoName THEN cn ELSE env
  /\ UNCHANGED <<torn, name, env, conf, pki, api>>

\* true > ovpn_env.sh
GenTruncate ==
  /\ Then("genTruncate", "genSave")
  /\ env' = NoName
  /\ UNCHANGED <<torn, name, cn, conf, pki, api>>

\* The loop that saves the OVPN_ variables.
GenSave ==
  /\ Then("genSave", "genConf")
  /\ env' = cn
  /\ UNCHANGED <<torn, name, cn, conf, pki, api>>

\* Mutant: openvpn.conf names the certificate after the hostname of this start.
GenConfByName ==
  /\ Then("genConf", "checkPki")
  /\ conf' = name
  /\ cn' = NoName
  /\ UNCHANGED <<torn, name, env, pki, api>>

GenConf ==
  /\ Then("genConf", "checkPki")
  /\ conf' = cn
  /\ cn' = NoName
  /\ UNCHANGED <<torn, name, env, pki, api>>

\* Mutant: the PKI is looked for under the name of this start.
CheckPkiByName ==
  /\ \/ name \notin issued /\ Then("checkPki", "initPki")
     \/ name \in issued /\ Then("checkPki", "masterAdmin")
  /\ UNCHANGED <<torn, config, pki, api>>

\* directoryIsEmptyOrEnoent(pki/reqs)
CheckPki ==
  /\ \/ reqs = {} /\ Then("checkPki", "initPki")
     \/ reqs # {} /\ Then("checkPki", "masterAdmin")
  /\ UNCHANGED <<torn, config, pki, api>>

\* easyrsa init-pki erases what there is.
InitPki ==
  /\ Then("initPki", "buildCa")
  /\ ca' = FALSE
  /\ keys' = {} /\ reqs' = {} /\ issued' = {} /\ servers' = {} /\ revoked' = {}
  /\ crl' = FALSE
  /\ UNCHANGED <<torn, config, api>>

\* easyrsa build-ca, and openvpn --genkey for ta.key.
BuildCa ==
  /\ Then("buildCa", "serverReq")
  /\ ca' = TRUE
  /\ UNCHANGED <<torn, config, files, crl, api>>

\* The two steps of easyrsa build-server-full and build-client-full.  Both need
\* the CA, and refuse a name that has a file.
CanGenReq(n) == ca /\ n \notin keys \union reqs \union issued
CanSignReq(n) == ca /\ n \in reqs \ issued

GenReq(n) ==
  /\ CanGenReq(n)
  /\ keys' = keys \union {n}
  /\ reqs' = reqs \union {n}
  /\ UNCHANGED <<ca, issued, servers, revoked, crl>>

\* A certificate for a client.
SignReq(n) ==
  /\ CanSignReq(n)
  /\ issued' = issued \union {n}
  /\ UNCHANGED <<ca, keys, reqs, servers, revoked, crl>>

\* easyrsa build-server-full.  ovpn_initpki takes OVPN_CN from ovpn_env.sh.
ServerReq ==
  /\ Then("serverReq", "serverSign")
  /\ GenReq(env)
  /\ UNCHANGED <<torn, config, api>>

ServerSign ==
  /\ Then("serverSign", "genCrl")
  /\ CanSignReq(env)
  /\ issued' = issued \union {env}
  /\ servers' = servers \union {env}
  /\ UNCHANGED <<torn, config, ca, keys, reqs, revoked, crl, api>>

\* A device has the name of the server, or its request is gone: easyrsa fails,
\* and with it ovpn_initpki and the start.
ServerFails ==
  /\ \/ at = "serverReq" /\ ~CanGenReq(env)
     \/ at = "serverSign" /\ ~CanSignReq(env)
  /\ Down
  /\ UNCHANGED <<touched, env, conf, pki>>

\* easyrsa gen-crl
GenCrl ==
  /\ Then("genCrl", "masterAdmin")
  /\ crl' = TRUE
  /\ UNCHANGED <<torn, config, ca, files, api>>

\* Mutant: the listing leaves out the hostname of this start.
ListedByName == issued \ {name}

\* What ovpn_listclients lists: every certificate but the server's, whose name
\* it takes from ovpn_env.sh.
Listed == issued \ {env}

\* getMasterAdminCred builds the main admin when it is not listed.  It may fail
\* at any command, or for the limit of devices: the error is logged, and the
\* start goes on.
MasterAdmin ==
  /\ \/ Admin \notin Listed /\ GenReq(Admin) /\ Then("masterAdmin", "adminSign")
     \/ UNCHANGED pki /\ Then("masterAdmin", "READY")
  /\ UNCHANGED <<torn, config, api>>

MasterAdminSign ==
  /\ Then("adminSign", "READY")
  /\ SignReq(Admin) \/ UNCHANGED pki
  /\ UNCHANGED <<torn, config, api>>

-----------------------------------------------------------------------------
(* The calls of the HTTP API, which listens before the configuration is    *)
(* there, and does not know which name is the server's.                    *)

Begins(c, op, n, step) ==
  /\ at # "down"
  /\ calls[c] = Idle
  /\ calls' = [calls EXCEPT ![c] = [op |-> op, id |-> n, step |-> step]]
  /\ UNCHANGED <<torn, at, config, pki>>

\* addDevice.
ApiAdd(c, n) ==
  /\ n \notin Listed
  /\ Begins(c, "add", n, "request")
  /\ UNCHANGED touched

\* removeDevice removes what is listed, which while ovpn_env.sh is empty is the
\* server's certificate too.
ApiRemove(c, n) ==
  /\ n \in Listed \ {Admin}
  /\ Begins(c, "remove", n, "revoke")
  /\ touched' = (touched \/ (n \in Host /\ env = NoName))

\* resetDevice does not look at the listing.
ApiReset(c, n) ==
  /\ Begins(c, "reset", n, "revoke")
  /\ touched' = (touched \/ n \in Host)

Runs(c, step) == calls[c].step = step
GoesOn(c, step) == calls' = [calls EXCEPT ![c].step = step]
Ends(c) == calls' = [calls EXCEPT ![c] = Idle]

\* ovpn_revokeclient: easyrsa revoke, which fails on a revoked certificate.
CallRevoke(c) ==
  /\ Runs(c, "revoke")
  /\ ca /\ calls[c].id \in (keys \intersect issued) \ revoked
  /\ revoked' = revoked \union {calls[c].id}
  /\ GoesOn(c, "crl")
  /\ UNCHANGED <<torn, at, config, ca, keys, reqs, issued, servers, crl,
                 touched>>

\* ovpn_revokeclient: easyrsa gen-crl.
CallCrl(c) ==
  /\ Runs(c, "crl")
  /\ ca
  /\ crl' = TRUE
  /\ GoesOn(c, "unlink")
  /\ UNCHANGED <<torn, at, config, ca, files, touched>>

\* removeClient unlinks the key, the request and the certificate of n and
\* throws at the first that is missing.
Unlinked(n) == n \in keys /\ n \in reqs /\ n \in issued

Unlink(n) ==
  /\ keys' = keys \ {n}
  /\ reqs' = reqs \ (keys \intersect {n})
  /\ issued' = IF n \in keys \intersect reqs THEN issued \ {n} ELSE issued
  /\ servers' = servers \intersect issued'
  /\ revoked' = revoked \intersect issued'

CallUnlink(c) ==
  /\ Runs(c, "unlink")
  /\ Unlink(calls[c].id)
  /\ IF Unlinked(calls[c].id) /\ calls[c].op = "reset"
       THEN GoesOn(c, "request")
       ELSE Ends(c)
  /\ UNCHANGED <<torn, at, config, ca, crl, touched>>

\* buildClient.
CallRequest(c) ==
  /\ Runs(c, "request")
  /\ GenReq(calls[c].id)
  /\ GoesOn(c, "sign")
  /\ UNCHANGED <<torn, at, config, touched>>

CallSign(c) ==
  /\ Runs(c, "sign")
  /\ SignReq(calls[c].id)
  /\ Ends(c)
  /\ UNCHANGED <<torn, at, config, touched>>

\* A command of the call fails, or lasts 3 minutes.  An easyrsa that goes on
\* after that does what the call would do if it failed one command later.
CallFails(c) ==
  /\ calls[c] # Idle
  /\ Ends(c)
  /\ UNCHANGED <<torn, at, config, pki, touched>>

-----------------------------------------------------------------------------
(* What happens next to them.                                              *)

\* docker stops a container that is READY.
Stop ==
  /\ at = "READY"
  /\ Down
  /\ UNCHANGED <<touched, env, conf, pki>>

\* The container ends in the middle of a start: it is killed or stopped, or
\* a command fails or lasts 3 minutes, for which index.ts calls process.exit.
Kill ==
  /\ "kill" \in Faults
  /\ at # "down"
  /\ Down
  /\ UNCHANGED <<touched, env, conf, pki>>

\* Mutant: the request is unlinked before the key.
KillUnlinkingReqFirst(c) ==
  /\ "kill" \in Faults
  /\ Runs(c, "unlink")
  /\ calls[c].id \in keys
  /\ reqs' = reqs \ {calls[c].id}
  /\ keys' \in {keys, keys \ {calls[c].id}}
  /\ Down
  /\ UNCHANGED <<touched, env, conf, ca, issued, servers, revoked, crl>>

\* It is killed between two of the unlinkSync of a call.
KillUnlinking(c) ==
  /\ "kill" \in Faults
  /\ Runs(c, "unlink")
  /\ calls[c].id \in keys
  /\ keys' = keys \ {calls[c].id}
  /\ reqs' \in {reqs, reqs \ {calls[c].id}}
  /\ Down
  /\ UNCHANGED <<touched, env, conf, ca, issued, servers, revoked, crl>>

StartStep ==
  \/ FetchHostname
  \/ Configure
  \/ GenSource
  \/ GenTruncate
  \/ GenSave
  \/ GenConf
  \/ CheckPki
  \/ InitPki
  \/ BuildCa
  \/ ServerReq
  \/ ServerSign
  \/ GenCrl
  \/ MasterAdmin
  \/ MasterAdminSign

ApiStep(c) ==
  \/ \E n \in Name : ApiAdd(c, n)
  \/ \E n \in Name : ApiRemove(c, n)
  \/ \E n \in Name : ApiReset(c, n)
  \/ CallRevoke(c)
  \/ CallCrl(c)
  \/ CallUnlink(c)
  \/ CallRequest(c)
  \/ CallSign(c)
  \/ CallFails(c)

Next ==
  \/ Boot
  \/ StartStep
  \/ FetchFails
  \/ ServerFails
  \/ \E c \in Call : ApiStep(c)
  \/ Stop
  \/ Kill
  \/ \E c \in Call : KillUnlinking(c)

Spec == Init /\ [][Next]_vars

-----------------------------------------------------------------------------

\* openvpn finds the CA, a CRL, without which ovpn_run starts it so that it
\* accepts revoked devices, and the server's certificate and key, under the
\* name that its configuration has.
CanServe == ca /\ crl /\ conf \in keys \intersect servers

\* "Initializes the OpenVPN configuration ... MUST be called before starting
\* the openvpn binary" (openvpnConfig.ts): openvpn can serve at the end of
\* every start, whatever the hostname has become since the PKI was made,
\* whatever devices the API adds, removes and resets meanwhile, and wherever
\* other starts were cut off, except in the Windows.  The API can take the
\* server's certificate itself: `touched` says that it was asked to.
ReadyCanServe == at = "READY" /\ ~torn /\ ~touched => CanServe

\* The listing shows the server's certificate as a device, which the API then
\* removes, only while ovpn_env.sh is empty (or after a start was cut off in
\* one of the Windows).
ServerIsNoDevice == ~torn /\ servers \intersect Listed # {} => at = "genSave"

\* No start, not even one that follows starts cut off anywhere, under another
\* hostname and next to any calls, erases a PKI that serves: its CA, with which
\* every file handed to a device would become useless, stays, and a server's
\* certificate goes only when it was revoked.
PkiForGood ==
  [][~touched' /\ servers \ revoked # {} =>
       ca' = ca /\ (crl => crl') /\ servers \ servers' \subseteq revoked]_vars

\* "Check if PKI is initalized already" (openvpnConfig.ts): a server that is
\* READY has a complete PKI, unless the API was asked to take its certificate.
Complete == ca /\ crl /\ servers # {}
ReadyPkiComplete == at = "READY" /\ ~touched => Complete

=============================================================================
