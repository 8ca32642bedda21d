---------------------------- MODULE StartupProofs ---------------------------
(***************************************************************************)
(* Proofs about Startup: its types, that no start erases a PKI that serves,*)
(* that the listing hides the server, and that openvpn can serve after     *)
(* every start when none was cut off in one of the Windows and no call took*)
(* the server's name for a device's.                                       *)
(***************************************************************************)
EXTENDS Startup, TLAPS

-----------------------------------------------------------------------------
(* The names, and the calls that remove.                                   *)

\* ovpn_initpki runs after ovpn_env.sh was saved with a name, and a start that
\* finds a name in it keeps that name.
Named ==
  /\ at = "configure" => name \in Host
  /\ at \in {"genSource", "genTruncate", "genSave"} => cn \in Host
  /\ at = "genTruncate" /\ env # NoName => cn = env
  /\ at = "genSave" => env = NoName
  /\ at = "genConf" => cn = env
  /\ at \in {"genConf", "checkPki", "initPki", "buildCa", "serverReq",
             "serverSign", "genCrl", "masterAdmin", "adminSign", "READY"} =>
       env \in Host

\* The name of the server's certificate, if there is one.
ServerName == IF at = "genSave" THEN cn ELSE env

\* A call that removes or resets a name of Host does not mean the server: it is
\* a removal of a name that was listed next to the one in ovpn_env.sh.
CallsSpareServer ==
  \A c \in Call :
    calls[c].step \in Removing /\ calls[c].id \in Host =>
      /\ calls[c].op = "remove"
      /\ ServerName # NoName
      /\ ServerName # calls[c].id

\* A call past its revocation takes no server's certificate that is not revoked,
\* nor, then, its request.
RevokedFirst ==
  \A c \in Call :
    calls[c].step \in {"crl", "unlink"} /\ calls[c].id \in servers =>
      calls[c].id \in revoked

ServersHaveReqs == servers \ revoked \subseteq reqs

\* What CheckPki knew when it chose to make the PKI is still true: there is no
\* server in it, although the API may have added devices since.
NoServerToErase == at \in {"initPki", "buildCa"} => servers \subseteq revoked

\* Unless a start was cut off while ovpn_env.sh was empty, the one server there
\* may be has the name that is saved there.
ServersNamed == servers \subseteq {ServerName}

Untouched ==
  CallsSpareServer /\ RevokedFirst /\ ServersHaveReqs /\ NoServerToErase

Durable ==
  /\ TypeOK
  /\ Named
  /\ touched \/ Untouched
  /\ torn \/ ServersNamed

\* The empty volume satisfies Durable.
LEMMA DurableInit == Init => Durable
<1> SUFFICES ASSUME Init PROVE Durable
  OBVIOUS
<1>1. TypeOK
  BY StartupAssumption DEF Init, TypeOK, Steps, CallType
<1>2. Named /\ ServersNamed
  BY DEF Init, Named, ServersNamed
<1>3. Untouched
  BY DEF Init, Untouched, CallsSpareServer, RevokedFirst, ServersHaveReqs,
         NoServerToErase, Idle, Removing
<1> QED BY <1>1, <1>2, <1>3 DEF Durable

\* The types are kept.
LEMMA TypeStep == Durable /\ [Next]_vars => TypeOK'
<1> SUFFICES ASSUME Durable, [Next]_vars PROVE TypeOK'
  OBVIOUS
<1> USE StartupAssumption
    DEF Durable, TypeOK, Name, CallType, Idle, Removing, Building, Then, Steps,
        config, files, pki, api
<1>1. CASE Boot BY <1>1 DEF Boot
<1>2. CASE StartStep
  <2>1. CASE FetchHostname BY <2>1 DEF FetchHostname
  <2>2. CASE Configure BY <2>2 DEF Configure
  <2>3. CASE GenSource BY <2>3 DEF GenSource
  <2>4. CASE GenTruncate BY <2>4 DEF GenTruncate
  <2>5. CASE GenSave BY <2>5 DEF GenSave
  <2>6. CASE GenConf BY <2>6 DEF GenConf
  <2>7. CASE CheckPki BY <2>7 DEF CheckPki
  <2>8. CASE InitPki BY <2>8 DEF InitPki
  <2>9. CASE BuildCa BY <2>9 DEF BuildCa
  <2>10. CASE ServerReq BY <2>10 DEF ServerReq, GenReq, CanGenReq, Named
  <2>11. CASE ServerSign BY <2>11 DEF ServerSign, CanSignReq, Named
  <2>12. CASE GenCrl BY <2>12 DEF GenCrl
  <2>13. CASE MasterAdmin BY <2>13 DEF MasterAdmin, GenReq, CanGenReq
  <2>14. CASE MasterAdminSign BY <2>14 DEF MasterAdminSign, SignReq, CanSignReq
  <2> QED
    BY <1>2, <2>1, <2>2, <2>3, <2>4, <2>5, <2>6, <2>7,
       <2>8, <2>9, <2>10, <2>11, <2>12, <2>13, <2>14 DEF StartStep
<1>3. CASE FetchFails BY <1>3 DEF FetchFails, Down
<1>4. CASE ServerFails BY <1>4 DEF ServerFails, Down
<1>5. ASSUME NEW c \in Call, ApiStep(c) PROVE TypeOK'
  <2>1. ASSUME NEW n \in Name, ApiAdd(c, n) PROVE TypeOK'
    BY <2>1 DEF ApiAdd, Begins
  <2>2. ASSUME NEW n \in Name, ApiRemove(c, n) PROVE TypeOK'
    BY <2>2 DEF ApiRemove, Begins
  <2>3. ASSUME NEW n \in Name, ApiReset(c, n) PROVE TypeOK'
    BY <2>3 DEF ApiReset, Begins
  <2>4. CASE CallRevoke(c) BY <2>4 DEF CallRevoke, Runs, GoesOn
  <2>5. CASE CallCrl(c) BY <2>5 DEF CallCrl, Runs, GoesOn
  <2>6. CASE CallUnlink(c)
    BY <2>6 DEF CallUnlink, Runs, GoesOn, Ends, Unlink, Unlinked
  <2>7. CASE CallRequest(c)
    BY <2>7 DEF CallRequest, Runs, GoesOn, GenReq, CanGenReq
  <2>8. CASE CallSign(c) BY <2>8 DEF CallSign, Runs, Ends, SignReq, CanSignReq
  <2>9. CASE CallFails(c) BY <2>9 DEF CallFails, Ends
  <2> QED
    BY <1>5, <2>1, <2>2, <2>3, <2>4, <2>5, <2>6, <2>7, <2>8, <2>9 DEF ApiStep
<1>6. CASE Stop BY <1>6 DEF Stop, Down
<1>7. CASE Kill BY <1>7 DEF Kill, Down
<1>8. ASSUME NEW c \in Call, KillUnlinking(c) PROVE TypeOK'
  BY <1>8 DEF KillUnlinking, Down, Runs
<1>9. CASE UNCHANGED vars BY <1>9 DEF vars
<1> QED
  BY <1>1, <1>2, <1>3, <1>4, <1>5, <1>6, <1>7, <1>8, <1>9 DEF Next

\* The names are kept.
LEMMA NamedStep == Durable /\ [Next]_vars => Named'
<1> SUFFICES ASSUME Durable, [Next]_vars PROVE Named'
  OBVIOUS
<1> USE StartupAssumption
    DEF Durable, TypeOK, Name, CallType, Idle, Removing, Building, Then,
        config, files, pki, api,
        Named
<1>1. CASE Boot BY <1>1 DEF Boot
<1>2. CASE StartStep
  <2>1. CASE FetchHostname BY <2>1 DEF FetchHostname
  <2>2. CASE Configure BY <2>2 DEF Configure
  <2>3. CASE GenSource BY <2>3 DEF GenSource
  <2>4. CASE GenTruncate BY <2>4 DEF GenTruncate
  <2>5. CASE GenSave BY <2>5 DEF GenSave
  <2>6. CASE GenConf BY <2>6 DEF GenConf
  <2>7. CASE CheckPki BY <2>7 DEF CheckPki
  <2>8. CASE InitPki BY <2>8 DEF InitPki
  <2>9. CASE BuildCa BY <2>9 DEF BuildCa
  <2>10. CASE ServerReq BY <2>10 DEF ServerReq, GenReq, CanGenReq
  <2>11. CASE ServerSign BY <2>11 DEF ServerSign, CanSignReq
  <2>12. CASE GenCrl BY <2>12 DEF GenCrl
  <2>13. CASE MasterAdmin BY <2>13 DEF MasterAdmin, GenReq, CanGenReq
  <2>14. CASE MasterAdminSign BY <2>14 DEF MasterAdminSign, SignReq, CanSignReq
  <2> QED
    BY <1>2, <2>1, <2>2, <2>3, <2>4, <2>5, <2>6, <2>7,
       <2>8, <2>9, <2>10, <2>11, <2>12, <2>13, <2>14 DEF StartStep
<1>3. CASE FetchFails BY <1>3 DEF FetchFails, Down
<1>4. CASE ServerFails BY <1>4 DEF ServerFails, Down
<1>5. ASSUME NEW c \in Call, ApiStep(c) PROVE Named'
  <2>1. ASSUME NEW n \in Name, ApiAdd(c, n) PROVE Named'
    BY <2>1 DEF ApiAdd, Begins
  <2>2. ASSUME NEW n \in Name, ApiRemove(c, n) PROVE Named'
    BY <2>2 DEF ApiRemove, Begins
  <2>3. ASSUME NEW n \in Name, ApiReset(c, n) PROVE Named'
    BY <2>3 DEF ApiReset, Begins
  <2>4. CASE CallRevoke(c) BY <2>4 DEF CallRevoke, Runs, GoesOn
  <2>5. CASE CallCrl(c) BY <2>5 DEF CallCrl, Runs, GoesOn
  <2>6. CASE CallUnlink(c)
    BY <2>6 DEF CallUnlink, Runs, GoesOn, Ends, Unlink, Unlinked
  <2>7. CASE CallRequest(c)
    BY <2>7 DEF CallRequest, Runs, GoesOn, GenReq, CanGenReq
  <2>8. CASE CallSign(c) BY <2>8 DEF CallSign, Runs, Ends, SignReq, CanSignReq
  <2>9. CASE CallFails(c) BY <2>9 DEF CallFails, Ends
  <2> QED
    BY <1>5, <2>1, <2>2, <2>3, <2>4, <2>5, <2>6, <2>7, <2>8, <2>9 DEF ApiStep
<1>6. CASE Stop BY <1>6 DEF Stop, Down
<1>7. CASE Kill BY <1>7 DEF Kill, Down
<1>8. ASSUME NEW c \in Call, KillUnlinking(c) PROVE Named'
  BY <1>8 DEF KillUnlinking, Down, Runs
<1>9. CASE UNCHANGED vars BY <1>9 DEF vars
<1> QED
  BY <1>1, <1>2, <1>3, <1>4, <1>5, <1>6, <1>7, <1>8, <1>9 DEF Next

\* Only ServerSign makes a server's certificate, with the name that is saved,
\* and only a start that is cut off during GenSave takes the name away.
LEMMA ServersNamedStep == Durable /\ [Next]_vars => (torn \/ ServersNamed)'
<1> SUFFICES ASSUME Durable, [Next]_vars PROVE (torn \/ ServersNamed)'
  OBVIOUS
<1> USE StartupAssumption
    DEF Durable, TypeOK, Name, CallType, Idle, Removing, Building, Then,
        config, files, pki, api,
        Named, ServersNamed, ServerName, Windows
<1>1. CASE Boot BY <1>1 DEF Boot
<1>2. CASE StartStep
  <2>1. CASE FetchHostname BY <2>1 DEF FetchHostname
  <2>2. CASE Configure BY <2>2 DEF Configure
  <2>3. CASE GenSource BY <2>3 DEF GenSource
  <2>4. CASE GenTruncate BY <2>4 DEF GenTruncate
  <2>5. CASE GenSave BY <2>5 DEF GenSave
  <2>6. CASE GenConf BY <2>6 DEF GenConf
  <2>7. CASE CheckPki BY <2>7 DEF CheckPki
  <2>8. CASE InitPki BY <2>8 DEF InitPki
  <2>9. CASE BuildCa BY <2>9 DEF BuildCa
  <2>10. CASE ServerReq BY <2>10 DEF ServerReq, GenReq, CanGenReq
  <2>11. CASE ServerSign BY <2>11 DEF ServerSign, CanSignReq
  <2>12. CASE GenCrl BY <2>12 DEF GenCrl
  <2>13. CASE MasterAdmin BY <2>13 DEF MasterAdmin, GenReq, CanGenReq
  <2>14. CASE MasterAdminSign BY <2>14 DEF MasterAdminSign, SignReq, CanSignReq
  <2> QED
    BY <1>2, <2>1, <2>2, <2>3, <2>4, <2>5, <2>6, <2>7,
       <2>8, <2>9, <2>10, <2>11, <2>12, <2>13, <2>14 DEF StartStep
<1>3. CASE FetchFails BY <1>3 DEF FetchFails, Down
<1>4. CASE ServerFails BY <1>4 DEF ServerFails, Down
<1>5. ASSUME NEW c \in Call, ApiStep(c) PROVE (torn \/ ServersNamed)'
  <2>1. ASSUME NEW n \in Name, ApiAdd(c, n) PROVE (torn \/ ServersNamed)'
    BY <2>1 DEF ApiAdd, Begins
  <2>2. ASSUME NEW n \in Name, ApiRemove(c, n) PROVE (torn \/ ServersNamed)'
    BY <2>2 DEF ApiRemove, Begins
  <2>3. ASSUME NEW n \in Name, ApiReset(c, n) PROVE (torn \/ ServersNamed)'
    BY <2>3 DEF ApiReset, Begins
  <2>4. CASE CallRevoke(c) BY <2>4 DEF CallRevoke, Runs, GoesOn
  <2>5. CASE CallCrl(c) BY <2>5 DEF CallCrl, Runs, GoesOn
  <2>6. CASE CallUnlink(c)
    BY <2>6 DEF CallUnlink, Runs, GoesOn, Ends, Unlink, Unlinked
  <2>7. CASE CallRequest(c)
    BY <2>7 DEF CallRequest, Runs, GoesOn, GenReq, CanGenReq
  <2>8. CASE CallSign(c) BY <2>8 DEF CallSign, Runs, Ends, SignReq, CanSignReq
  <2>9. CASE CallFails(c) BY <2>9 DEF CallFails, Ends
  <2> QED
    BY <1>5, <2>1, <2>2, <2>3, <2>4, <2>5, <2>6, <2>7, <2>8, <2>9 DEF ApiStep
<1>6. CASE Stop BY <1>6 DEF Stop, Down
<1>7. CASE Kill BY <1>7 DEF Kill, Down
<1>8. ASSUME NEW c \in Call, KillUnlinking(c) PROVE (torn \/ ServersNamed)'
  BY <1>8 DEF KillUnlinking, Down, Runs
<1>9. CASE UNCHANGED vars BY <1>9 DEF vars
<1> QED
  BY <1>1, <1>2, <1>3, <1>4, <1>5, <1>6, <1>7, <1>8, <1>9 DEF Next

\* A call may change what a start knew, but not what it needs: while no call
\* took the server's name for a device's, the calls spare the server.
LEMMA UntouchedStep == Durable /\ [Next]_vars => (touched \/ Untouched)'
<1> SUFFICES ASSUME Durable, [Next]_vars PROVE (touched \/ Untouched)'
  OBVIOUS
<1> USE StartupAssumption
    DEF Durable, TypeOK, Name, CallType, Idle, Removing, Building, Then,
        config, files, pki, api,
        Named, Untouched, CallsSpareServer, RevokedFirst, ServersHaveReqs,
        NoServerToErase, ServerName
<1>1. CASE Boot BY <1>1 DEF Boot
<1>2. CASE StartStep
  <2>1. CASE FetchHostname BY <2>1 DEF FetchHostname
  <2>2. CASE Configure BY <2>2 DEF Configure
  <2>3. CASE GenSource BY <2>3 DEF GenSource
  <2>4. CASE GenTruncate BY <2>4 DEF GenTruncate
  <2>5. CASE GenSave BY <2>5 DEF GenSave
  <2>6. CASE GenConf BY <2>6 DEF GenConf
  <2>7. CASE CheckPki BY <2>7 DEF CheckPki
  <2>8. CASE InitPki BY <2>8 DEF InitPki
  <2>9. CASE BuildCa BY <2>9 DEF BuildCa
  <2>10. CASE ServerReq BY <2>10 DEF ServerReq, GenReq, CanGenReq
  <2>11. CASE ServerSign BY <2>11 DEF ServerSign, CanSignReq
  <2>12. CASE GenCrl BY <2>12 DEF GenCrl
  <2>13. CASE MasterAdmin BY <2>13 DEF MasterAdmin, GenReq, CanGenReq
  <2>14. CASE MasterAdminSign BY <2>14 DEF MasterAdminSign, SignReq, CanSignReq
  <2> QED
    BY <1>2, <2>1, <2>2, <2>3, <2>4, <2>5, <2>6, <2>7,
       <2>8, <2>9, <2>10, <2>11, <2>12, <2>13, <2>14 DEF StartStep
<1>3. CASE FetchFails BY <1>3 DEF FetchFails, Down
<1>4. CASE ServerFails BY <1>4 DEF ServerFails, Down
<1>5. ASSUME NEW c \in Call, ApiStep(c) PROVE (touched \/ Untouched)'
  <2>1. ASSUME NEW n \in Name, ApiAdd(c, n) PROVE (touched \/ Untouched)'
    BY <2>1 DEF ApiAdd, Begins
  <2>2. ASSUME NEW n \in Name, ApiRemove(c, n) PROVE (touched \/ Untouched)'
    BY <2>2 DEF ApiRemove, Listed, Begins
  <2>3. ASSUME NEW n \in Name, ApiReset(c, n) PROVE (touched \/ Untouched)'
    BY <2>3 DEF ApiReset, Begins
  <2>4. CASE CallRevoke(c) BY <2>4 DEF CallRevoke, Runs, GoesOn
  <2>5. CASE CallCrl(c) BY <2>5 DEF CallCrl, Runs, GoesOn
  <2>6. CASE CallUnlink(c)
    BY <2>6 DEF CallUnlink, Runs, GoesOn, Ends, Unlink, Unlinked
  <2>7. CASE CallRequest(c)
    BY <2>7 DEF CallRequest, Runs, GoesOn, GenReq, CanGenReq
  <2>8. CASE CallSign(c) BY <2>8 DEF CallSign, Runs, Ends, SignReq, CanSignReq
  <2>9. CASE CallFails(c) BY <2>9 DEF CallFails, Ends
  <2> QED
    BY <1>5, <2>1, <2>2, <2>3, <2>4, <2>5, <2>6, <2>7, <2>8, <2>9 DEF ApiStep
<1>6. CASE Stop BY <1>6 DEF Stop, Down
<1>7. CASE Kill BY <1>7 DEF Kill, Down
<1>8. ASSUME NEW c \in Call, KillUnlinking(c) PROVE (touched \/ Untouched)'
  BY <1>8 DEF KillUnlinking, Down, Runs
<1>9. CASE UNCHANGED vars BY <1>9 DEF vars
<1> QED
  BY <1>1, <1>2, <1>3, <1>4, <1>5, <1>6, <1>7, <1>8, <1>9 DEF Next

\* Durable is an invariant of every start, whatever is cut off.
LEMMA DurableAlways == Spec => []Durable
<1>1. Init => Durable BY DurableInit
<1>2. Durable /\ [Next]_vars => Durable'
  BY TypeStep, NamedStep, ServersNamedStep, UntouchedStep DEF Durable
<1> QED BY <1>1, <1>2, PTL DEF Spec

\* The variables of the start-up keep their types: a key always has its request,
\* while a certificate may lose both, and only a certificate of a present file
\* is a server's or revoked (TypeOK).
THEOREM TypeCorrect == Spec => []TypeOK
<1>1. Durable => TypeOK BY DEF Durable
<1> QED BY <1>1, DurableAlways, PTL

\* The listing hides the certificate of the server, except while ovpn_env.sh is
\* empty or after a start was cut off in one of the Windows (ServerIsNoDevice).
THEOREM ServerIsHidden == Spec => []ServerIsNoDevice
<1>1. Durable => ServerIsNoDevice
  BY DEF Durable, ServersNamed, ServerName, ServerIsNoDevice, Listed
<1> QED BY <1>1, DurableAlways, PTL

\* What PkiForGood says of a step.
Kept == ca' = ca /\ (crl => crl') /\ servers \ servers' \subseteq revoked

\* Only InitPki could lose a PKI that serves, and it finds none; a call unlinks a
\* server's certificate only when it is revoked.
LEMMA KeptStep ==
  Durable /\ [Next]_vars /\ ~touched' /\ servers \ revoked # {} => Kept
<1> SUFFICES ASSUME Durable, [Next]_vars, ~touched', servers \ revoked # {}
             PROVE  Kept
  OBVIOUS
<1> USE StartupAssumption
    DEF Durable, TypeOK, Name, CallType, Idle, Removing, Building, Then,
        config, files, pki, api,
        Kept
<1>1. CASE Boot BY <1>1 DEF Boot
<1>2. CASE StartStep
  <2>1. CASE FetchHostname BY <2>1 DEF FetchHostname
  <2>2. CASE Configure BY <2>2 DEF Configure
  <2>3. CASE GenSource BY <2>3 DEF GenSource
  <2>4. CASE GenTruncate BY <2>4 DEF GenTruncate
  <2>5. CASE GenSave BY <2>5 DEF GenSave
  <2>6. CASE GenConf BY <2>6 DEF GenConf
  <2>7. CASE CheckPki BY <2>7 DEF CheckPki
  <2>8. CASE InitPki BY <2>8 DEF InitPki, Untouched, NoServerToErase
  <2>9. CASE BuildCa BY <2>9 DEF BuildCa, Untouched, NoServerToErase
  <2>10. CASE ServerReq BY <2>10 DEF ServerReq, GenReq, CanGenReq
  <2>11. CASE ServerSign BY <2>11 DEF ServerSign, CanSignReq
  <2>12. CASE GenCrl BY <2>12 DEF GenCrl
  <2>13. CASE MasterAdmin BY <2>13 DEF MasterAdmin, GenReq, CanGenReq
  <2>14. CASE MasterAdminSign BY <2>14 DEF MasterAdminSign, SignReq, CanSignReq
  <2> QED
    BY <1>2, <2>1, <2>2, <2>3, <2>4, <2>5, <2>6, <2>7,
       <2>8, <2>9, <2>10, <2>11, <2>12, <2>13, <2>14 DEF StartStep
<1>3. CASE FetchFails BY <1>3 DEF FetchFails, Down
<1>4. CASE ServerFails BY <1>4 DEF ServerFails, Down
<1>5. ASSUME NEW c \in Call, ApiStep(c) PROVE Kept
  <2>1. ASSUME NEW n \in Name, ApiAdd(c, n) PROVE Kept
    BY <2>1 DEF ApiAdd, Begins
  <2>2. ASSUME NEW n \in Name, ApiRemove(c, n) PROVE Kept
    BY <2>2 DEF ApiRemove, Begins
  <2>3. ASSUME NEW n \in Name, ApiReset(c, n) PROVE Kept
    BY <2>3 DEF ApiReset, Begins
  <2>4. CASE CallRevoke(c) BY <2>4 DEF CallRevoke, Runs, GoesOn
  <2>5. CASE CallCrl(c) BY <2>5 DEF CallCrl, Runs, GoesOn
  <2>6. CASE CallUnlink(c)
    BY <2>6 DEF CallUnlink, Runs, GoesOn, Ends, Unlink, Unlinked, Untouched,
          RevokedFirst
  <2>7. CASE CallRequest(c)
    BY <2>7 DEF CallRequest, Runs, GoesOn, GenReq, CanGenReq
  <2>8. CASE CallSign(c) BY <2>8 DEF CallSign, Runs, Ends, SignReq, CanSignReq
  <2>9. CASE CallFails(c) BY <2>9 DEF CallFails, Ends
  <2> QED
    BY <1>5, <2>1, <2>2, <2>3, <2>4, <2>5, <2>6, <2>7, <2>8, <2>9 DEF ApiStep
<1>6. CASE Stop BY <1>6 DEF Stop, Down
<1>7. CASE Kill BY <1>7 DEF Kill, Down
<1>8. ASSUME NEW c \in Call, KillUnlinking(c) PROVE Kept
  BY <1>8 DEF KillUnlinking, Down, Runs
<1>9. CASE UNCHANGED vars BY <1>9 DEF vars
<1> QED
  BY <1>1, <1>2, <1>3, <1>4, <1>5, <1>6, <1>7, <1>8, <1>9 DEF Next

\* No start erases a PKI that serves, for any kills, hostnames and calls
\* (PkiForGood).
THEOREM PkiIsForGood == Spec => PkiForGood
<1>1. Durable /\ [Next]_vars =>
        [~touched' /\ servers \ revoked # {} =>
           ca' = ca /\ (crl => crl') /\ servers \ servers' \subseteq revoked]_vars
  BY KeptStep DEF Kept
<1> QED BY <1>1, DurableAlways, PTL DEF Spec, PkiForGood

-----------------------------------------------------------------------------
(* openvpn can serve, unless a start was cut off in one of the Windows.    *)

\* There is nothing yet, not even a CA to build a device with.
Empty == ~ca /\ reqs = {} /\ issued = {}

\* The server's certificate is the one of the name n.
ServedBy(n) == ca /\ crl /\ n \in keys \intersect servers

\* How far the PKI is at each step, and the name it is for: the one in
\* ovpn_env.sh, except while that file is rewritten.
Progress ==
  /\ at \in {"down", "fetchHostname", "configure", "genSource", "genTruncate",
             "genSave", "genConf", "checkPki"} => Empty \/ ServedBy(ServerName)
  /\ at \in {"initPki", "buildCa"} => Empty
  /\ at = "serverReq" => ca
  /\ at = "serverSign" => ca /\ env \in keys
  /\ at = "genCrl" => ca /\ env \in keys \intersect servers
  /\ at \in {"masterAdmin", "adminSign", "READY"} => ServedBy(env)
  /\ at \in {"checkPki", "initPki", "buildCa", "serverReq", "serverSign",
             "genCrl", "masterAdmin", "adminSign", "READY"} => conf = env

Serving == torn \/ touched \/ Progress

Served == Durable /\ Serving

\* The empty volume satisfies Progress.
LEMMA ServedInit == Init => Served
BY DurableInit DEF Init, Served, Serving, Progress, Empty

\* Every step keeps Progress, a kill too when it is not in one of the Windows;
\* a call does not disturb it, because it builds nothing without a CA and what
\* it removes is not the server's.
LEMMA ServedStep ==
  Durable /\ Durable' /\ Served /\ [Next]_vars => Serving'
<1> SUFFICES ASSUME Durable, Durable', Served, [Next]_vars
             PROVE  Serving'
  OBVIOUS
<1> USE StartupAssumption
    DEF Durable, TypeOK, Name, CallType, Idle, Removing, Building, Then,
        config, files, pki, api,
        Serving, Served, Named, Untouched, CallsSpareServer, ServerName,
        Progress, Empty, ServedBy
<1>1. CASE Boot BY <1>1 DEF Boot
<1>2. CASE StartStep
  <2>1. CASE FetchHostname BY <2>1 DEF FetchHostname
  <2>2. CASE Configure BY <2>2 DEF Configure
  <2>3. CASE GenSource BY <2>3 DEF GenSource
  <2>4. CASE GenTruncate BY <2>4 DEF GenTruncate
  <2>5. CASE GenSave BY <2>5 DEF GenSave
  <2>6. CASE GenConf BY <2>6 DEF GenConf
  <2>7. CASE CheckPki BY <2>7 DEF CheckPki
  <2>8. CASE InitPki BY <2>8 DEF InitPki
  <2>9. CASE BuildCa BY <2>9 DEF BuildCa
  <2>10. CASE ServerReq BY <2>10 DEF ServerReq, GenReq, CanGenReq
  <2>11. CASE ServerSign BY <2>11 DEF ServerSign, CanSignReq
  <2>12. CASE GenCrl BY <2>12 DEF GenCrl
  <2>13. CASE MasterAdmin BY <2>13 DEF MasterAdmin, GenReq, CanGenReq
  <2>14. CASE MasterAdminSign BY <2>14 DEF MasterAdminSign, SignReq, CanSignReq
  <2> QED
    BY <1>2, <2>1, <2>2, <2>3, <2>4, <2>5, <2>6, <2>7,
       <2>8, <2>9, <2>10, <2>11, <2>12, <2>13, <2>14 DEF StartStep
<1>3. CASE FetchFails BY <1>3 DEF FetchFails, Down
<1>4. CASE ServerFails BY <1>4 DEF ServerFails, Down, Windows
<1>5. ASSUME NEW c \in Call, ApiStep(c) PROVE Serving'
  <2>1. ASSUME NEW n \in Name, ApiAdd(c, n) PROVE Serving'
    BY <2>1 DEF ApiAdd, Begins
  <2>2. ASSUME NEW n \in Name, ApiRemove(c, n) PROVE Serving'
    BY <2>2 DEF ApiRemove, Begins
  <2>3. ASSUME NEW n \in Name, ApiReset(c, n) PROVE Serving'
    BY <2>3 DEF ApiReset, Begins
  <2>4. CASE CallRevoke(c) BY <2>4 DEF CallRevoke, Runs, GoesOn
  <2>5. CASE CallCrl(c) BY <2>5 DEF CallCrl, Runs, GoesOn
  <2>6. CASE CallUnlink(c)
    BY <2>6 DEF CallUnlink, Runs, GoesOn, Ends, Unlink, Unlinked
  <2>7. CASE CallRequest(c)
    BY <2>7 DEF CallRequest, Runs, GoesOn, GenReq, CanGenReq
  <2>8. CASE CallSign(c) BY <2>8 DEF CallSign, Runs, Ends, SignReq, CanSignReq
  <2>9. CASE CallFails(c) BY <2>9 DEF CallFails, Ends
  <2> QED
    BY <1>5, <2>1, <2>2, <2>3, <2>4, <2>5, <2>6, <2>7, <2>8, <2>9 DEF ApiStep
<1>6. CASE Stop BY <1>6 DEF Stop, Down
<1>7. CASE Kill BY <1>7 DEF Kill, Down, Windows, Steps
<1>8. ASSUME NEW c \in Call, KillUnlinking(c) PROVE Serving'
  BY <1>8 DEF KillUnlinking, Down, Runs, Windows, Steps
<1>9. CASE UNCHANGED vars BY <1>9 DEF vars
<1> QED
  BY <1>1, <1>2, <1>3, <1>4, <1>5, <1>6, <1>7, <1>8, <1>9 DEF Next

\* Served is an invariant.
LEMMA ServedAlways == Spec => []Served
<1>1. Init => Served BY ServedInit
<1>2. Durable /\ Durable' /\ Served /\ [Next]_vars => Served'
  BY ServedStep DEF Served
<1> QED BY <1>1, <1>2, DurableAlways, PTL DEF Spec

\* Every start ends with a configuration that names a server's certificate of the
\* PKI whose key is there, whatever the hostname was then and whatever the calls
\* did, unless a start was cut off in one of the Windows or a call was asked to
\* take the server's certificate (ReadyCanServe).
THEOREM EveryStartCanServe == Spec => []ReadyCanServe
<1>1. Served => ReadyCanServe
  BY DEF Served, Serving, Progress, ServedBy, ReadyCanServe, CanServe
<1> QED BY <1>1, ServedAlways, PTL

\* Only a start that was cut off in one of the Windows leaves openvpn without a
\* complete PKI (ReadyPkiComplete, which a run shows violated): the kills at the
\* other steps, also between two unlinks of a call, do no harm.
THEOREM IncompleteOnlyWhenTorn == Spec => [](ReadyPkiComplete \/ torn)
<1>1. Served => ReadyPkiComplete \/ torn
  BY DEF Served, Serving, Progress, ServedBy, ReadyPkiComplete, Complete
<1> QED BY <1>1, ServedAlways, PTL

=============================================================================
