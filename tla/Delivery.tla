------------------------------ MODULE Delivery ------------------------------
(***************************************************************************)
(* How a client file reaches a user: the page of ui_openvpn in a browser,  *)
(* the credentials webserver (src/src/credentials/webserver.ts), and the   *)
(* credentials service (CredTokens) below it.  Requests run concurrently.  *)
(* The token is checked when the request comes, two awaits before the file *)
(* is there; in between devices connect, are removed or built again, and   *)
(* links are asked for.  openvpn tells of a connection through a process   *)
(* of its own (ovpn_client_connect.ts), which arrives a while later.       *)
(*                                                                         *)
(* A device exists or not: of a removal this is its last step, in which    *)
(* removeClient unlinks the files and deletes the tokens without an await  *)
(* in between.                                                             *)
(***************************************************************************)
EXTENDS TokenMap

CONSTANTS
  NoDb, PruneInterval, MaxTime,   \* see CredTokens
  Slot       \* slots for concurrent requests

ASSUME DeliveryAssumption ==
  /\ PruneInterval \in Nat \ {0}
  /\ MaxTime \in Nat
  /\ NoDb \notin TokenMaps
  /\ NoData \notin [owner : Device, born : Nat]

VARIABLES
  now, up, tokens, tokensDb, bootedAt, pruneAt, drawn,   \* see CredTokens
  devices,   \* the devices that exist
  req,       \* the request in each slot
  reply,     \* what is on its way back to the page that made it
  page,      \* what that page shows
  dev,       \* the slots whose page loads because its link says dev
  hooks,     \* devices whose connection the service was not told of yet
  closed     \* history: the tokens that were closed once

\* The process stops in an orderly way only.  What a crash undoes is the
\* subject of CredTokens.
Service == INSTANCE CredTokens WITH Faults <- {}

service == <<now, up, tokens, tokensDb, bootedAt, pruneAt, drawn>>
clients == <<reply, page, dev, hooks>>
vars == <<service, devices, req, clients, closed>>

\* "cred" is GET /cred?id=token, "link" is the call getDeviceCredentials.
\* token: the one the request captured, which stands for its key as well.
\* late: the token was closed before the request came.
Requests ==
  [op : {"cred"}, id : Device, late : BOOLEAN, token : Token,
   at : {"getClient", "answer"}]
  \union
  [op : {"link"}, id : Device, late : {FALSE}, token : {NoData},
   at : {"getClient", "answer"}]

Idle == [op |-> "none"]

\* The secret box of a file, which only the key it was made with opens.
Encrypted(key) == [key |-> key]
Decrypts(box, key) == box.key = key

\* The answer of the webserver: the box with the file, a failure, or none,
\* because the connection was destroyed.
Replies == [status : {"200"}, box : {Encrypted(t) : t \in Token}]
             \union [status : {"500", "destroyed"}]

NoReply == [status |-> "none"]

\* What the page of a slot shows; "none" before it is opened.
Pages == {"none", "loading", "error", "file"}

TypeOK ==
  /\ Service!TypeOK
  /\ devices \subseteq Device
  /\ req \in [Slot -> Requests \union {Idle}]
  /\ reply \in [Slot -> Replies \union {NoReply}]
  /\ page \in [Slot -> Pages]
  /\ dev \subseteq Slot
  /\ hooks \subseteq Device
  /\ closed \subseteq drawn

Init ==
  /\ Service!Init
  /\ devices = {}
  /\ req = [r \in Slot |-> Idle]
  /\ reply = [r \in Slot |-> NoReply]
  /\ page = [r \in Slot |-> "none"]
  /\ dev = {}
  /\ hooks = {}
  /\ closed = {}

\* A token is closed when it no longer opens the credentials of its device.
Remember ==
  closed' = closed \union
    {t \in drawn' : ~IsTokenActive(Service!Effective', t, now')}

-----------------------------------------------------------------------------
(* Requests.                                                               *)

At(r, o, step) == req[r].op = o /\ req[r].at = step

\* Mutant: token and device are swapped.
BeginsSwapped(r, o, d, t, late) ==
  req' = [req EXCEPT ![r] = [op |-> o, id |-> t, late |-> late, token |-> d,
                             at |-> "getClient"]]

Begins(r, o, d, t, late) ==
  req' = [req EXCEPT ![r] = [op |-> o, id |-> d, late |-> late, token |-> t,
                             at |-> "getClient"]]

Ends(r) == req' = [req EXCEPT ![r] = Idle]

Shows(r, what) == page' = [page EXCEPT ![r] = what]

\* A page or a call takes a slot in which nothing is under way.
Opens(r, what) ==
  /\ req[r] = Idle
  /\ reply[r] = NoReply
  /\ Shows(r, what)
  /\ dev' = dev \ {r}

Replied(r, status) == reply' = [reply EXCEPT ![r] = [status |-> status]]

\* The answer 500 of the inner catch falls through to the default case.  That
\* throws, and the outer catch destroys the socket: the answer has left by
\* then, or it never does.
FailsAndFallsThrough(r) == Replied(r, "500") \/ Replied(r, "destroyed")

\* Mutant: the error is logged and the request left without an answer.
RefusesSilently(r) == Ends(r) /\ UNCHANGED reply

\* getClient throws.  The call getDeviceCredentials answers a client of the
\* API, which has no page.
Refuses(r) ==
  /\ Ends(r)
  /\ \/ req[r].op = "cred" /\ FailsAndFallsThrough(r)
     \/ req[r].op = "link" /\ UNCHANGED reply

\* Mutant: the expiry is not checked.
CheckedUnused(t) == IsTokenKnown(tokens, t) /\ ~tokens[t].used

\* The check of the webserver and those of generateCredFileFromToken before
\* its await.
Checked(t) ==
  /\ IsTokenKnown(tokens, t)
  /\ ~tokens[t].used
  /\ ~IsTokenExpired(tokens, t, now)

\* A link is opened that lacks its token or its key: no request is made.
OpenBrokenLink(r) ==
  /\ Opens(r, "error")
  /\ UNCHANGED <<service, devices, req, reply, hooks, closed>>

\* With the parameter dev the page makes no request either: it shows a failure,
\* or a file it does not have, or it loads until it is closed.
OpenDev(r) ==
  /\ \/ Opens(r, "error")
     \/ Opens(r, "file")
     \/ Shows(r, "loading") /\ dev' = dev \union {r}
  /\ req[r] = Idle
  /\ reply[r] = NoReply
  /\ UNCHANGED <<service, devices, req, reply, hooks, closed>>

\* A link with token t is opened and its page asks for the file.  The
\* connection fails while the process is down and is destroyed when the token
\* is not known; a token that is known but used or expired gets the answer 500.
GetCred(r, t) ==
  /\ Opens(r, "loading")
  /\ \/ /\ up
        /\ Checked(t)
        /\ Begins(r, "cred", tokens[t].id, t, t \in closed)
        /\ UNCHANGED reply
     \/ /\ up
        /\ IsTokenKnown(tokens, t)
        /\ ~Checked(t)
        /\ FailsAndFallsThrough(r)
        /\ UNCHANGED req
     \/ /\ up => ~IsTokenKnown(tokens, t)
        /\ Replied(r, "destroyed")
        /\ UNCHANGED req
  /\ UNCHANGED <<service, devices, hooks, closed>>

\* The slot is taken by a client of the API, which has no page.
AskLink(r, d) ==
  /\ up
  /\ Opens(r, "none")
  /\ Begins(r, "link", d, NoData, FALSE)
  /\ UNCHANGED <<service, devices, reply, hooks, closed>>

\* getClient, which both await: getInternalIpCached, which may throw, and
\* ovpn_getclient, which fails when the device does not exist.
GetClient(r) ==
  /\ req[r] # Idle
  /\ req[r].at = "getClient"
  /\ \/ /\ req[r].id \in devices
        /\ req' = [req EXCEPT ![r].at = "answer"]
        /\ UNCHANGED reply
     \/ Refuses(r)
  /\ UNCHANGED <<service, devices, page, dev, hooks, closed>>

\* The answer 200 with the encrypted file.
AnswerCred(r) ==
  /\ req[r] # Idle
  /\ At(r, "cred", "answer")
  /\ Ends(r)
  /\ reply' = [reply EXCEPT
       ![r] = [status |-> "200", box |-> Encrypted(req[r].token)]]
  /\ UNCHANGED <<service, devices, page, dev, hooks, closed>>

\* The page gets what the webserver sent.  The key in its link is that of the
\* token, or another when the link was not copied whole.
Receive(r) ==
  /\ reply[r] # NoReply
  /\ reply' = [reply EXCEPT ![r] = NoReply]
  /\ \/ /\ reply[r].status = "200"
        /\ \E key \in Token :
             \/ Decrypts(reply[r].box, key) /\ Shows(r, "file")
             \/ ~Decrypts(reply[r].box, key) /\ Shows(r, "error")
     \/ reply[r].status # "200" /\ Shows(r, "error")
  /\ UNCHANGED <<service, devices, req, dev, hooks, closed>>

\* getConnectUrl: the link the device has, or a new one.
AnswerLink(r) ==
  /\ req[r] # Idle
  /\ At(r, "link", "answer")
  /\ Ends(r)
  /\ \/ Service!GetConnectUrl(req[r].id)
     \/ /\ ActiveTokens(tokens, req[r].id, now) # {}
        /\ UNCHANGED service
  /\ UNCHANGED <<devices, clients>>
  /\ Remember

-----------------------------------------------------------------------------
(* The devices and the service.                                            *)

\* addDevice, and the second half of resetDevice.
Build(d) ==
  /\ up
  /\ d \notin devices
  /\ devices' = devices \union {d}
  /\ UNCHANGED <<service, req, clients, closed>>

\* removeClient: removeDevice, and the first half of resetDevice.
Remove(d) ==
  /\ d \in devices
  /\ devices' = devices \ {d}
  /\ Service!DeleteTokenForId(d)
  /\ UNCHANGED <<req, clients>>
  /\ Remember

\* A device connects: openvpn starts the client-connect hook.
Connect(d) ==
  /\ up
  /\ d \in devices \ hooks
  /\ hooks' = hooks \union {d}
  /\ UNCHANGED <<service, devices, req, reply, page, dev, closed>>

\* The hook posts what it has to the API, whatever the device is by then.
Hook(d) ==
  /\ d \in hooks
  /\ hooks' = hooks \ {d}
  /\ Service!OnDeviceConnected(d)
  /\ UNCHANGED <<devices, req, reply, page, dev>>
  /\ Remember

Boot == Service!Boot /\ UNCHANGED <<devices, req, clients>> /\ Remember

Tick == Service!Tick /\ UNCHANGED <<devices, req, clients>> /\ Remember

PersistAndGoOn ==
  Service!PersistAndGoOn /\ UNCHANGED <<devices, req, clients>> /\ Remember

GarbageCollectTokens ==
  /\ Service!GarbageCollectTokens
  /\ UNCHANGED <<devices, req, clients>>
  /\ Remember

\* The requests end with the process, and the hooks with its container.  Such
\* a hook does not come again: the connection it was about ends as well.
Exit ==
  /\ Service!Exit
  /\ req' = [r \in Slot |-> Idle]
  /\ reply' = [r \in Slot |-> IF req[r].op = "cred"
                               THEN [status |-> "destroyed"] ELSE reply[r]]
  /\ hooks' = {}
  /\ UNCHANGED <<devices, page, dev>>
  /\ Remember

Next ==
  \/ \E r \in Slot : OpenBrokenLink(r)
  \/ \E r \in Slot : OpenDev(r)
  \/ \E r \in Slot, t \in Token : GetCred(r, t)
  \/ \E r \in Slot, d \in Device : AskLink(r, d)
  \/ \E r \in Slot : GetClient(r)
  \/ \E r \in Slot : AnswerCred(r)
  \/ \E r \in Slot : Receive(r)
  \/ \E r \in Slot : AnswerLink(r)
  \/ \E d \in Device : Build(d)
  \/ \E d \in Device : Remove(d)
  \/ \E d \in Device : Connect(d)
  \/ \E d \in Device : Hook(d)
  \/ Boot
  \/ Tick
  \/ GarbageCollectTokens
  \/ PersistAndGoOn
  \/ Exit

Spec == Init /\ [][Next]_vars

-----------------------------------------------------------------------------

\* Once a link was closed, because its device connected, was removed or reset,
\* or because it expired, no request that comes later gets a file through it
\* ("Check if the token is known, not used and not expired",
\* credentialsFile.ts): not after the token was pruned, not after a restart,
\* and not when its device exists again.  A request that came before may.
NoFileOnceClosed ==
  \A r \in Slot :
    req[r] # Idle /\ At(r, "cred", "answer") => ~req[r].late

\* Something is under way for the page of a slot.
Awaited(r) == req[r].op = "cred" \/ reply[r] # NoReply

\* A page that was opened with a link shows "Loading..." as long as it will
\* still be told something, and no longer: whatever fails on the way (a token
\* that is refused, the two awaits, the case that falls through behind the
\* answer 500, the end of the process) leaves it an answer or a destroyed
\* connection, and the slot's page is there to get it.  Only a page with
\* the parameter dev may load and be told nothing.
NoPageIsLeft ==
  \A r \in Slot : Awaited(r) <=> page[r] = "loading" /\ r \notin dev

\* What the service promises of its links (CredLinks) holds for those who ask
\* for them, whatever the requests, the connections that are told late and the
\* restarts do: one live link per device, for no other device, which is closed
\* with all the links of its device or once it is too old, and then for good.
Promises ==
  INSTANCE CredLinks WITH NoLink <- NoData, open <- Service!OpenLinks

KeepsLinkPromises == Promises!Spec

=============================================================================
