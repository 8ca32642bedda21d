----------------------------- MODULE CredTokens -----------------------------
(***************************************************************************)
(* The credentials service of src/src/credentials/credentialsFile.ts: the  *)
(* tokens map in the memory of the node process, its copy in               *)
(* tokens-db.json, the process that stops and is restarted by docker, and  *)
(* the daily garbage collection.                                           *)
(*                                                                         *)
(* The file is written by the handlers of the signals and of "exit"        *)
(* only, so a process that is killed loses what happened since.            *)
(***************************************************************************)
EXTENDS TokenMap

CONSTANTS
  NoDb,             \* no tokens-db.json, or one that JSON.parse refuses
  PruneInterval,    \* pruneTokensInterval
  MaxTime,          \* bound on the clock
  Faults            \* what may go wrong: "crash", "write"

ASSUME PruneAssumption ==
  /\ PruneInterval \in Nat \ {0}
  /\ MaxTime \in Nat
  /\ Faults \subseteq {"crash", "write"}

ASSUME NoDbAssumption == NoDb \notin TokenMaps

VARIABLES
  now,        \* Date.now()
  up,         \* the node process runs
  tokens,     \* the tokens map of the process, empty while it is down
  tokensDb,   \* tokens-db.json
  bootedAt,   \* when startCredentialsService ran
  pruneAt,    \* when setInterval next calls garbageCollectTokens
  drawn       \* every token getRandomToken ever returned

vars == <<now, up, tokens, tokensDb, bootedAt, pruneAt, drawn>>
timers == <<bootedAt, pruneAt>>

TypeOK ==
  /\ now \in Nat
  /\ up \in BOOLEAN
  /\ tokens \in TokenMaps
  /\ tokensDb \in TokenMaps \union {NoDb}
  /\ bootedAt \in Nat
  /\ pruneAt \in Nat
  /\ drawn \subseteq Token

Init ==
  /\ now = 0
  /\ up = FALSE
  /\ tokens = EmptyMap
  /\ tokensDb = NoDb
  /\ bootedAt = 0
  /\ pruneAt = 0
  /\ drawn = {}

-----------------------------------------------------------------------------

\* Mutant: the missing file is not caught.
LoadedUnchecked(db) == db

\* loadPersistedTokens: any error leaves the map empty.
Loaded(db) == IF db = NoDb THEN EmptyMap ELSE db

\* startCredentialsService, in a new process.
Boot ==
  /\ ~up
  /\ up' = TRUE
  /\ tokens' = Loaded(tokensDb)
  /\ bootedAt' = now
  /\ pruneAt' = now + PruneInterval
  /\ UNCHANGED <<now, tokensDb, drawn>>

\* The clock moves; a due timer of a running process fires first.
Tick ==
  /\ now < MaxTime
  /\ up => now < pruneAt
  /\ now' = now + 1
  /\ UNCHANGED <<up, tokens, tokensDb, timers, drawn>>

\* Mutant: every request gets a new token.
GetConnectUrlAlwaysNew(d) ==
  /\ up
  /\ \E t \in Token \ drawn :
       /\ tokens' = WithNewToken(tokens, t, d, now)
       /\ drawn' = drawn \union {t}
  /\ UNCHANGED <<now, up, tokensDb, timers>>

\* Mutant: a device gets its last token again.
GetConnectUrlAgain(d) ==
  /\ up
  /\ ActiveTokens(tokens, d, now) = {}
  /\ \E t \in Token :
       /\ t \in drawn => IsTokenKnown(tokens, t) /\ tokens[t].id = d
       /\ tokens' = WithNewToken(tokens, t, d, now)
       /\ drawn' = drawn \union {t}
  /\ UNCHANGED <<now, up, tokensDb, timers>>

\* getConnectUrl: the active token of the device when it has one, so nothing
\* changes, or a new one.  The token is kept even when the hostname is not
\* set yet and no URL is returned.
GetConnectUrl(d) ==
  /\ up
  /\ ActiveTokens(tokens, d, now) = {}
  /\ \E t \in Token \ drawn :
       /\ tokens' = WithNewToken(tokens, t, d, now)
       /\ drawn' = drawn \union {t}
  /\ UNCHANGED <<now, up, tokensDb, timers>>

\* The client-connect hook of openvpn.
OnDeviceConnected(d) ==
  /\ up
  /\ tokens' = MarkedUsed(tokens, d)
  /\ UNCHANGED <<now, up, tokensDb, timers, drawn>>

\* Called by removeClient.
DeleteTokenForId(d) ==
  /\ up
  /\ tokens' = WithoutDevice(tokens, d)
  /\ UNCHANGED <<now, up, tokensDb, timers, drawn>>

GarbageCollectTokens ==
  /\ up
  /\ now = pruneAt
  /\ tokens' = Pruned(tokens, now)
  /\ pruneAt' = pruneAt + PruneInterval
  /\ UNCHANGED <<now, up, tokensDb, bootedAt, drawn>>

\* persistTokens: the whole map replaces the file.  writeFileSync truncates
\* before it writes, so a failure leaves the old file or an unreadable one.
PersistTokens ==
  \/ tokensDb' = tokens
  \/ "write" \in Faults /\ tokensDb' \in {tokensDb, NoDb}

\* SIGUSR1, SIGUSR2 and uncaughtException: the file is written and the
\* process goes on.
PersistAndGoOn ==
  /\ up
  /\ PersistTokens
  /\ UNCHANGED <<now, up, tokens, timers, drawn>>

\* SIGTERM and SIGINT (the supervisor calls process.exit), or process.exit:
\* the listener of "exit" writes the file.
Exit ==
  /\ up
  /\ PersistTokens
  /\ up' = FALSE
  /\ tokens' = EmptyMap
  /\ UNCHANGED <<now, timers, drawn>>

\* SIGKILL, out of memory, power loss: no listener runs.
Crash ==
  /\ "crash" \in Faults
  /\ up
  /\ up' = FALSE
  /\ tokens' = EmptyMap
  /\ UNCHANGED <<now, tokensDb, timers, drawn>>

Next ==
  \/ Boot
  \/ Tick
  \/ \E d \in Device : GetConnectUrl(d)
  \/ \E d \in Device : OnDeviceConnected(d)
  \/ \E d \in Device : DeleteTokenForId(d)
  \/ GarbageCollectTokens
  \/ PersistAndGoOn
  \/ Exit
  \/ Crash

Spec == Init /\ [][Next]_vars

-----------------------------------------------------------------------------

\* No two tokens of m give access to the same device at time n.
OneActive(m, n) ==
  \A t1, t2 \in Token :
    /\ IsTokenActive(m, t1, n)
    /\ IsTokenActive(m, t2, n)
    /\ m[t1].id = m[t2].id
    => t1 = t2

\* "Only one token per device" (credentialsFile.ts): however the process is
\* stopped and restarted, whatever old file it loads, a device never has two
\* tokens that open its credentials at the same time.
OneActiveToken == OneActive(tokens, now)

\* garbageCollectTokens keeps the map from growing with its age: once it has
\* run in this process, no token is older than the pruning age and the time
\* since it last ran.
RetentionBounded ==
  (up /\ pruneAt > bootedAt + PruneInterval) =>
    \A t \in Token :
      IsTokenKnown(tokens, t) =>
        now - tokens[t].created =< DeleteAge + PruneInterval

\* What a client of the service can count on: the map of the process, or the
\* one the next process will load.
Effective == IF up THEN tokens ELSE Loaded(tokensDb)

\* "Server marks idToken as used" (credentialsFile.ts, step 9): a token that
\* was marked used is never unused again.
UsedIsFinal ==
  [][\A t \in Token :
       /\ IsTokenKnown(Effective, t)
       /\ Effective[t].used
       /\ IsTokenKnown(Effective', t)
       => Effective'[t].used]_vars

\* The devices and times of issue that the map and the file know of a token.
Origins(t) ==
  {[id |-> m[t].id, created |-> m[t].created] :
     m \in {n \in {tokens, Loaded(tokensDb)} : IsTokenKnown(n, t)}}

\* Crashes and failed writes bring back old tokens, and old files are loaded
\* much later.  Still a token never stands for another device than the one it
\* was drawn for, nor for a later time of issue, which would let an expired
\* link open again; and one that map and file have lost is lost for good.
OriginIsFinal == [][\A t \in drawn : Origins(t)' \subseteq Origins(t)]_vars

\* The links that are open, as CredLinks knows them.
OpenLinks ==
  [t \in Token |->
     IF IsTokenKnown(Effective, t) /\ ~Effective[t].used
     THEN [owner |-> Effective[t].id, born |-> Effective[t].created]
     ELSE NoData]

=============================================================================
