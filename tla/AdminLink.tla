------------------------------ MODULE AdminLink -----------------------------
(***************************************************************************)
(* How an operator gets a link: the commands getAdminCredentials, which    *)
(* polls getStatus until the server is READY, and vpncli get, which does   *)
(* not; the start of the server, which polls the DAPPMANAGER for its       *)
(* hostname; and the call that makes the link, which asks the DAPPMANAGER  *)
(* for the internal IP and keeps the last one (fetchInternalIp.ts).        *)
(*                                                                         *)
(* Of an IP only its age is kept: the DAPPMANAGER gives 1, then 2, ...     *)
(* What the call does on disk, and what ovpn_genconfig and ovpn_initpki    *)
(* do, is the subject of Devices and Startup.  The environment variables   *)
(* that spare a fetch are taken not to be set.                             *)
(***************************************************************************)
EXTENDS Naturals

CONSTANTS
  Cmd,            \* commands of operators, one process each
  Start,          \* the start itself, which calls getMasterAdminCred too
  GotRetries,     \* retry of got in fetchHostname
  Retries,        \* retries of async-retry in fetchHostname
  ClientRetries,  \* retries of async-retry in getAdminCredentials
  MaxIp,          \* bound on the changes of the internal IP
  MaxFaults       \* bound on kills and failed configurations

ASSUME AdminLinkAssumption ==
  /\ Start \notin Cmd
  /\ {GotRetries, Retries, ClientRetries, MaxFaults} \subseteq Nat
  /\ MaxIp \in Nat \ {0}

VARIABLES
  dm,          \* the DAPPMANAGER
  dmIp,        \* the internal IP it has
  boot,        \* where startVpnClient is; "off": no process
  status,      \* config.vpnStatus.status
  hostname,    \* config.hostname is set
  internalIp,  \* config.internalIp, 0: not set
  floor,       \* history: internalIp when no fetch was last under way
  gotTry,      \* retries used by this call of got
  try,         \* retries used by async-retry
  call,        \* the call of each caller
  cmd,         \* where each command is
  polls,       \* retries used by it
  saw,         \* history: it was told READY
  died,        \* history: the container was stopped, killed or failed since
  faults       \* kills and failed configurations so far

server == <<boot, status, hostname, gotTry, try>>
cache == <<internalIp, floor>>
client == <<cmd, polls, saw, died>>
vars == <<dm, dmIp, server, cache, call, client, faults>>

Caller == Cmd \union {Start}

\* The awaits of a call: its request to the DAPPMANAGER, the answer with the
\* IP, ovpn_getclient.
Calls == [at : {"askIp", "takeIp", "getClient"}, ip : 0..MaxIp]

NoCall == [at |-> "none", ip |-> 0]

\* What config.vpnStatus says of a process.  That it STARTED is overwritten
\* before anyone can ask.
Statuses == {"FETCHING_CONFIG", "FETCHING_CONFIG_ERROR", "INITIALIZING",
             "READY"}

Under == {"poll", "call", "wait"}      \* a command that goes on
Over == {"printed", "failed"}

TypeOK ==
  /\ dm \in {"down", "empty", "up", "hung"}
  /\ dmIp \in 1..MaxIp
  /\ boot \in {"off", "fetch", "init", "admin", "end"}
  /\ status \in Statuses
  /\ hostname \in BOOLEAN
  /\ internalIp \in 0..MaxIp
  /\ floor \in 0..MaxIp
  /\ gotTry \in 0..GotRetries
  /\ try \in 0..Retries
  /\ call \in [Caller -> Calls \union {NoCall}]
  /\ cmd \in [Cmd -> {"none"} \union Under \union Over]
  /\ polls \in [Cmd -> 0..ClientRetries]
  /\ saw \in [Cmd -> BOOLEAN]
  /\ died \in [Cmd -> BOOLEAN]
  /\ faults \in 0..MaxFaults

Init ==
  /\ dm = "down"
  /\ dmIp = 1
  /\ boot = "off"
  /\ status = "FETCHING_CONFIG"
  /\ hostname = FALSE
  /\ internalIp = 0
  /\ floor = 0
  /\ gotTry = 0
  /\ try = 0
  /\ call = [x \in Caller |-> NoCall]
  /\ cmd = [c \in Cmd |-> "none"]
  /\ polls = [c \in Cmd |-> 0]
  /\ saw = [c \in Cmd |-> FALSE]
  /\ died = [c \in Cmd |-> FALSE]
  /\ faults = 0

-----------------------------------------------------------------------------
(* The DAPPMANAGER.                                                        *)

\* It stops and starts, answers with nothing before its database is there, or
\* accepts connections and does not answer.
DappmanagerChanges ==
  /\ dm' \in {"down", "empty", "up", "hung"} \ {dm}
  /\ UNCHANGED <<dmIp, server, cache, call, client, faults>>

NewIp ==
  /\ dmIp < MaxIp
  /\ dmIp' = dmIp + 1
  /\ UNCHANGED <<dm, server, cache, call, client, faults>>

-----------------------------------------------------------------------------
(* The start of the server.                                                *)

\* A new process, which docker starts.
Boot ==
  /\ boot = "off"
  /\ boot' = "fetch"
  /\ status' = "FETCHING_CONFIG"
  /\ gotTry' = 0
  /\ try' = 0
  /\ UNCHANGED <<dm, dmIp, hostname, cache, call, client, faults>>

\* The process ends, and with it its memory, its calls and the answers to them.
\* The commands are other processes, which keep what they were told.
Ends ==
  /\ boot' = "off"
  /\ hostname' = FALSE
  /\ internalIp' = 0
  /\ floor' = 0
  /\ call' = [x \in Caller |-> NoCall]
  /\ cmd' = [c \in Cmd |-> IF cmd[c] = "wait" THEN "failed" ELSE cmd[c]]
  /\ UNCHANGED <<status, gotTry, try, polls, saw>>

FetchHostname ==
  /\ boot = "fetch"
  /\ dm = "up"
  /\ boot' = "init"
  /\ hostname' = TRUE
  /\ status' = "INITIALIZING"
  /\ UNCHANGED <<dm, dmIp, gotTry, try, cache, call, client, faults>>

\* No connection, or an error: got tries again by itself.
GotAgain ==
  /\ boot = "fetch"
  /\ dm = "down"
  /\ gotTry < GotRetries
  /\ gotTry' = gotTry + 1
  /\ status' = "FETCHING_CONFIG_ERROR"
  /\ UNCHANGED <<dm, dmIp, boot, hostname, try, cache, call, client, faults>>

\* got gave up, or its answer is empty, which is not for got to retry.
FetchFails ==
  /\ boot = "fetch"
  /\ \/ dm = "down" /\ gotTry = GotRetries
     \/ dm = "empty"

\* async-retry calls got anew.
FetchAgain ==
  /\ FetchFails
  /\ try < Retries
  /\ try' = try + 1
  /\ gotTry' = 0
  /\ status' = "FETCHING_CONFIG_ERROR"
  /\ UNCHANGED <<dm, dmIp, boot, hostname, cache, call, client, faults>>

\* Mutant: the error is logged, and the process stays.
GiveUpStays ==
  /\ FetchFails
  /\ try = Retries
  /\ boot' = "end"
  /\ UNCHANGED <<dm, dmIp, status, hostname, gotTry, try, cache, call, client,
                 faults>>

\* process.exit(1)
GiveUp ==
  /\ FetchFails
  /\ try = Retries
  /\ Ends
  /\ UNCHANGED <<dm, dmIp, died, faults>>

\* initalizeOpenVpnConfig, then the call of getMasterAdminCred.
Initialize ==
  /\ boot = "init"
  /\ boot' = "admin"
  /\ call' = [call EXCEPT ![Start] = [at |-> "askIp", ip |-> 0]]
  /\ UNCHANGED <<dm, dmIp, status, hostname, gotTry, try, cache, client,
                 faults>>

\* It fails, or the container is stopped or killed anywhere.
Dies ==
  /\ boot # "off"
  /\ faults < MaxFaults
  /\ faults' = faults + 1
  /\ Ends
  /\ died' = [c \in Cmd |-> died[c] \/ saw[c]]
  /\ UNCHANGED <<dm, dmIp>>

-----------------------------------------------------------------------------
(* A call of getMasterAdminCred or getDeviceCredentials.                   *)

Fetching(x) == call[x].at = "takeIp"

\* The value of floor after a step.
Settles ==
  floor' = IF \E x \in Caller : call'[x].at = "takeIp" THEN floor
                                                        ELSE internalIp'

\* The answer of the API, a link or an error, reaches the command, unless it
\* was interrupted.
Answered(c, outcome) ==
  cmd' = [cmd EXCEPT ![c] = IF @ = "wait" THEN outcome ELSE @]

\* The call ends.  The start goes on in either case, since index.ts catches the
\* error, and is then READY.
Returns(x, outcome) ==
  /\ call' = [call EXCEPT ![x] = NoCall]
  /\ IF x = Start
     THEN boot' = "end" /\ status' = "READY" /\ UNCHANGED cmd
     ELSE Answered(x, outcome) /\ UNCHANGED <<boot, status>>
  /\ UNCHANGED <<hostname, gotTry, try, polls, saw, died>>

\* The DAPPMANAGER handles the last request of got: it gives its IP, or an error
\* or a text that is no IP (0).  When it hangs there is no answer, and got has
\* no timeout.
AskIp(x) ==
  /\ call[x].at = "askIp"
  /\ dm # "hung"
  /\ call' = [call EXCEPT ![x] =
                [at |-> "takeIp", ip |-> IF dm = "up" THEN dmIp ELSE 0]]
  /\ UNCHANGED <<dm, dmIp, server, cache, client, faults>>

\* Mutant: a fetch that failed empties the cache.
TakeIpAlways(x) ==
  /\ Fetching(x)
  /\ internalIp' = call[x].ip
  /\ call' = [call EXCEPT ![x] = [at |-> "getClient", ip |-> 0]]
  /\ Settles
  /\ UNCHANGED <<dm, dmIp, server, client, faults>>

\* Mutant: the error of a call without an IP is not passed on.
TakeIpUnanswered(x) ==
  /\ Fetching(x)
  /\ internalIp' = IF call[x].ip # 0 THEN call[x].ip ELSE internalIp
  /\ call' = [call EXCEPT ![x] =
                IF internalIp' # 0 THEN [at |-> "getClient", ip |-> 0] ELSE NoCall]
  /\ Settles
  /\ UNCHANGED <<dm, dmIp, server, client, faults>>

\* The answer arrives.  A valid one is kept; without one the call goes on with
\* the one that was kept, or throws when there is none.
TakeIp(x) ==
  /\ Fetching(x)
  /\ internalIp' = IF call[x].ip # 0 THEN call[x].ip ELSE internalIp
  /\ \/ /\ internalIp' # 0
        /\ call' = [call EXCEPT ![x] = [at |-> "getClient", ip |-> 0]]
        /\ UNCHANGED <<server, client>>
     \/ internalIp' = 0 /\ Returns(x, "failed")
  /\ Settles
  /\ UNCHANGED <<dm, dmIp, faults>>

\* ovpn_getclient, which may fail, and getConnectUrl, which throws while there
\* is no hostname.
MakeUrl(x) ==
  /\ call[x].at = "getClient"
  /\ \/ hostname /\ Returns(x, "printed")
     \/ Returns(x, "failed")
  /\ UNCHANGED <<dm, dmIp, cache, faults>>

-----------------------------------------------------------------------------
(* The commands.                                                           *)

\* c is free for another command: no call of the last one is under way.
Free(c) == cmd[c] \notin Under /\ call[c] = NoCall

\* getAdminCredentials is run.
RunGetAdmin(c) ==
  /\ Free(c)
  /\ cmd' = [cmd EXCEPT ![c] = "poll"]
  /\ polls' = [polls EXCEPT ![c] = 0]
  /\ saw' = [saw EXCEPT ![c] = FALSE]
  /\ died' = [died EXCEPT ![c] = FALSE]
  /\ UNCHANGED <<dm, dmIp, server, cache, call, faults>>

\* vpncli get is run, which does not wait for anything.
RunVpncliGet(c) ==
  /\ Free(c)
  /\ cmd' = [cmd EXCEPT ![c] = "call"]
  /\ saw' = [saw EXCEPT ![c] = FALSE]
  /\ died' = [died EXCEPT ![c] = FALSE]
  /\ UNCHANGED <<dm, dmIp, server, cache, call, polls, faults>>

\* Mutant: only an error is waited for.
IsReadyLoose == status # "FETCHING_CONFIG_ERROR"

\* The answer of getStatus that ends the polling.
IsReady == status = "READY"

PollReady(c) ==
  /\ cmd[c] = "poll"
  /\ boot # "off" /\ IsReady
  /\ cmd' = [cmd EXCEPT ![c] = "call"]
  /\ saw' = [saw EXCEPT ![c] = TRUE]
  /\ UNCHANGED <<dm, dmIp, server, cache, call, polls, died, faults>>

\* Mutant: the retries are not counted.
PollAgainForever(c) ==
  /\ cmd[c] = "poll"
  /\ boot = "off" \/ ~IsReady
  /\ polls' = [polls EXCEPT ![c] = 1 - @]
  /\ UNCHANGED <<dm, dmIp, server, cache, call, cmd, saw, died, faults>>

\* Mutant: one retry too many.
PollAgainOnce(c) ==
  /\ cmd[c] = "poll"
  /\ boot = "off" \/ ~IsReady
  /\ polls' = [polls EXCEPT ![c] = @ + 1]
  /\ cmd' = [cmd EXCEPT ![c] = IF polls[c] > ClientRetries THEN "failed" ELSE @]
  /\ UNCHANGED <<dm, dmIp, server, cache, call, saw, died, faults>>

\* Not READY, or the connection is refused: async-retry tries again, or gives
\* up and the command exits with an error.
PollAgain(c) ==
  /\ cmd[c] = "poll"
  /\ boot = "off" \/ ~IsReady
  /\ \/ /\ polls[c] < ClientRetries
        /\ polls' = [polls EXCEPT ![c] = @ + 1]
        /\ UNCHANGED cmd
     \/ /\ polls[c] = ClientRetries
        /\ cmd' = [cmd EXCEPT ![c] = "failed"]
        /\ UNCHANGED polls
  /\ UNCHANGED <<dm, dmIp, server, cache, call, saw, died, faults>>

\* The one call that is not retried.
PostCall(c) ==
  /\ cmd[c] = "call"
  /\ \/ /\ boot # "off"
        /\ cmd' = [cmd EXCEPT ![c] = "wait"]
        /\ call' = [call EXCEPT ![c] = [at |-> "askIp", ip |-> 0]]
     \/ /\ boot = "off"
        /\ cmd' = [cmd EXCEPT ![c] = "failed"]
        /\ UNCHANGED call
  /\ UNCHANGED <<dm, dmIp, server, cache, polls, saw, died, faults>>

\* CTRL + C.  The server does not notice: a call that was made goes on.
Interrupt(c) ==
  /\ cmd[c] \in Under
  /\ cmd' = [cmd EXCEPT ![c] = "failed"]
  /\ UNCHANGED <<dm, dmIp, server, cache, call, polls, saw, died, faults>>

-----------------------------------------------------------------------------

ServerStep ==
  Boot \/ FetchHostname \/ GotAgain \/ FetchAgain \/ GiveUp \/ Initialize

CallStep(x) == AskIp(x) \/ TakeIp(x) \/ MakeUrl(x)

CmdStep(c) == PollReady(c) \/ PollAgain(c) \/ PostCall(c)

Next ==
  \/ DappmanagerChanges
  \/ NewIp
  \/ ServerStep
  \/ Dies
  \/ \E x \in Caller : CallStep(x)
  \/ \E c \in Cmd : CmdStep(c)
  \/ \E c \in Cmd : RunGetAdmin(c)
  \/ \E c \in Cmd : RunVpncliGet(c)
  \/ \E c \in Cmd : Interrupt(c)

Spec == Init /\ [][Next]_vars

\* docker starts the process again (restart: unless-stopped), the delays of
\* the retries pass, and the event loops of server and commands go on.  Nothing
\* is assumed of the DAPPMANAGER or of who runs the commands.
Fairness ==
  /\ WF_vars(ServerStep)
  /\ \A x \in Caller : WF_vars(CallStep(x))
  /\ \A c \in Cmd : WF_vars(CmdStep(c))

FairSpec == Spec /\ Fairness

-----------------------------------------------------------------------------

\* The call that a command makes once it was told READY, which is not retried
\* (getAdminCredentials.ts), finds a server with a hostname: what said READY does
\* not fall back to a start that polls the DAPPMANAGER, whatever retries and
\* restarts came before.  Only when the container is stopped, killed or fails
\* after it said READY can the call meet a new process without one, and fail.
ReadyMeansUrl ==
  \A c \in Cmd :
    saw[c] /\ cmd[c] \in {"call", "wait"} => hostname \/ died[c]

\* The cached IP is as new as it was whenever no fetch was under way, whatever
\* fetches overlap, fail, or answer out of order.  While they overlap it may go
\* back and forth between the IPs they were given.
IpNeverGoesBack == floor =< internalIp

\* Who waits for an answer waits for a call that the server has not forgotten:
\* the start, whose errors index.ts only logs, and the commands, through the
\* deaths of the process, overlapping calls and CTRL + C.
NobodyIsForgotten ==
  /\ boot = "admin" <=> call[Start] # NoCall
  /\ \A c \in Cmd : cmd[c] = "wait" => call[c] # NoCall

\* "It throws an error after about 15 min of retries ... cause the main process
\* to crash and be restarted" (fetchHostname.ts): wherever the retries and the
\* restarts are when the DAPPMANAGER is up for good, the server gets READY.
ServerGetsReady == <>[](dm = "up") => <>[](boot = "end" /\ status = "READY")

\* Every command ends, with a link or with an error, when the DAPPMANAGER does
\* not hang for ever, in which case the call behind the command has no end.
CommandEnds ==
  <>[](dm # "hung") =>
    \A c \in Cmd : [](cmd[c] \in Under => <>(cmd[c] \in Over))

=============================================================================
