--------------------------- MODULE DeliveryProofs ---------------------------
(***************************************************************************)
(* Proofs about Delivery: a link that was closed once delivers nothing to  *)
(* a request that comes later, for any devices, tokens, slots and ages.    *)
(***************************************************************************)
EXTENDS Delivery, TokenMapProofs

\* The tokens a process has, or the next one will load.
Kept == Service!Effective

ServiceTypes ==
  /\ now \in Nat
  /\ up \in BOOLEAN
  /\ tokens \in TokenMaps
  /\ tokensDb \in TokenMaps \union {NoDb}
  /\ bootedAt \in Nat
  /\ pruneAt \in Nat
  /\ drawn \subseteq Token

\* A token that was closed is not active in the map of the process, nor in the
\* file that the next one loads.
ClosedInv == \A t \in closed : ~IsTokenActive(Kept, t, now)

\* So no request was begun with a closed one.
NoneLate == \A r \in Slot : req[r] # Idle => req[r].late = FALSE

\* An answer goes back when the request has ended, and a slot gets no other
\* request before its page has it.
AnswerEndsRequest == \A r \in Slot : reply[r] # NoReply => req[r] = Idle

Inv == TypeOK /\ ClosedInv /\ NoneLate /\ AnswerEndsRequest /\ NoPageIsLeft

\* No step of the service makes a token active that was drawn before.
NothingReopens ==
  /\ drawn \subseteq drawn'
  /\ \A t \in drawn :
       IsTokenActive(Kept', t, now') => IsTokenActive(Kept, t, now)

\* TypeOK says of the service what CredTokens says.
LEMMA TypesOfService == Service!TypeOK <=> ServiceTypes
BY DEF ServiceTypes, Service!TypeOK, Service!TokenMaps, TokenMaps,
       Service!TokenData, TokenData

LEMMA TypesOfServicePrime == Service!TypeOK' <=> ServiceTypes'
BY DEF ServiceTypes, Service!TypeOK, Service!TokenMaps, TokenMaps,
       Service!TokenData, TokenData

\* The operations of the service are those of TokenMap.
LEMMA SameOperations ==
  /\ \A m, t, d, n :
       Service!WithNewToken(m, t, d, n) = WithNewToken(m, t, d, n)
  /\ \A m, d : Service!MarkedUsed(m, d) = MarkedUsed(m, d)
  /\ \A m, d : Service!WithoutDevice(m, d) = WithoutDevice(m, d)
  /\ \A m, n : Service!Pruned(m, n) = Pruned(m, n)
  /\ \A m : Service!Loaded(m) = IF m = NoDb THEN EmptyMap ELSE m
BY DEF Service!WithNewToken, WithNewToken, Service!MarkedUsed, MarkedUsed,
       Service!WithoutDevice, WithoutDevice, Service!Pruned, Pruned,
       Service!IsTokenKnown, IsTokenKnown, Service!Loaded, Service!EmptyMap,
       EmptyMap

LEMMA KeptIs ==
  Kept = IF up THEN tokens ELSE IF tokensDb = NoDb THEN EmptyMap ELSE tokensDb
BY SameOperations DEF Kept, Service!Effective

\* Every step of the service keeps its types and reopens no token.
LEMMA ServiceSteps ==
  ASSUME ServiceTypes,
         \/ Service!Boot
         \/ Service!Tick
         \/ \E d \in Device : Service!GetConnectUrl(d)
         \/ \E d \in Device : Service!OnDeviceConnected(d)
         \/ \E d \in Device : Service!DeleteTokenForId(d)
         \/ Service!GarbageCollectTokens
         \/ Service!PersistAndGoOn
         \/ Service!Exit
         \/ UNCHANGED service
  PROVE  ServiceTypes' /\ NothingReopens
<1> USE DEF ServiceTypes, NothingReopens
<1>e. EmptyMap \in TokenMaps
  BY DEF EmptyMap, TokenMaps
<1>k. Kept' = IF up' THEN tokens'
              ELSE IF tokensDb' = NoDb THEN EmptyMap ELSE tokensDb'
  BY SameOperations DEF Kept, Service!Effective
<1>r. \* While the process runs, what retires tokens reopens none.
  ASSUME up, up' = up, now' = now, drawn' = drawn,
         NoNewActive(tokens, tokens', now, now)
  PROVE  NothingReopens
  BY <1>r, <1>k, KeptIs DEF NoNewActive
<1>1. CASE Service!Boot
  <2>1. tokens' = Kept /\ Kept' = tokens' /\ now' = now /\ drawn' = drawn
    BY <1>1, <1>k, KeptIs, SameOperations DEF Service!Boot
  <2>2. tokens' \in TokenMaps
    BY <1>1, <1>e, SameOperations DEF Service!Boot
  <2> QED  BY <1>1, <2>1, <2>2, DeliveryAssumption DEF Service!Boot
<1>2. CASE Service!Tick
  <2>1. Kept' = Kept /\ now' = now + 1 /\ drawn' = drawn
    BY <1>2, <1>k, KeptIs DEF Service!Tick
  <2>2. Kept \in TokenMaps
    BY <1>e, KeptIs
  <2>3. NoNewActive(Kept, Kept, now, now + 1)
    BY <2>2, OperationsRetire
  <2> QED  BY <1>2, <2>1, <2>3
           DEF Service!Tick, Service!timers, NoNewActive
<1>3. ASSUME NEW d \in Device, Service!GetConnectUrl(d)
      PROVE  ServiceTypes' /\ NothingReopens
  <2>1. PICK t \in Token \ drawn :
          /\ tokens' = WithNewToken(tokens, t, d, now)
          /\ drawn' = drawn \union {t}
    BY <1>3, SameOperations DEF Service!GetConnectUrl
  <2>2. tokens' \in TokenMaps
    BY <2>1, OperationTypes
  <2>3. \A s \in drawn : tokens'[s] = tokens[s]
    BY <2>1 DEF WithNewToken, TokenMaps
  <2>4. Kept = tokens /\ Kept' = tokens' /\ now' = now
    BY <1>3, <1>k, KeptIs DEF Service!GetConnectUrl
  <2>5. NothingReopens
    BY <2>1, <2>3, <2>4
    DEF IsTokenActive, IsTokenKnown, IsTokenExpired
  <2> QED  BY <1>3, <2>1, <2>2, <2>5
           DEF Service!GetConnectUrl, Service!timers
<1>4. ASSUME NEW d \in Device, Service!OnDeviceConnected(d)
      PROVE  ServiceTypes' /\ NothingReopens
  <2>1. tokens' = MarkedUsed(tokens, d) /\ tokens' \in TokenMaps
    BY <1>4, SameOperations, OperationTypes DEF Service!OnDeviceConnected
  <2>2. NoNewActive(tokens, tokens', now, now)
    BY <2>1, OperationsRetire
  <2> QED  BY <1>4, <1>r, <2>1, <2>2
           DEF Service!OnDeviceConnected, Service!timers
<1>5. ASSUME NEW d \in Device, Service!DeleteTokenForId(d)
      PROVE  ServiceTypes' /\ NothingReopens
  <2>1. tokens' = WithoutDevice(tokens, d) /\ tokens' \in TokenMaps
    BY <1>5, SameOperations, OperationTypes DEF Service!DeleteTokenForId
  <2>2. NoNewActive(tokens, tokens', now, now)
    BY <2>1, OperationsRetire
  <2> QED  BY <1>5, <1>r, <2>1, <2>2
           DEF Service!DeleteTokenForId, Service!timers
<1>6. CASE Service!GarbageCollectTokens
  <2>1. tokens' = Pruned(tokens, now) /\ tokens' \in TokenMaps
    BY <1>6, SameOperations, OperationTypes DEF Service!GarbageCollectTokens
  <2>2. NoNewActive(tokens, tokens', now, now)
    BY <2>1, OperationsRetire
  <2> QED  BY <1>6, <1>r, <2>1, <2>2, DeliveryAssumption
           DEF Service!GarbageCollectTokens
<1>7. CASE Service!PersistAndGoOn
  <2>1. tokensDb' = tokens
    BY <1>7 DEF Service!PersistAndGoOn, Service!PersistTokens
  <2>2. Kept = tokens /\ Kept' = tokens /\ now' = now /\ drawn' = drawn
    BY <1>7, <1>k, KeptIs DEF Service!PersistAndGoOn
  <2> QED  BY <1>7, <2>1, <2>2 DEF Service!PersistAndGoOn, Service!timers
<1>8. CASE Service!Exit
  <2>1. tokensDb' = tokens /\ tokens' = EmptyMap
    BY <1>8
    DEF Service!Exit, Service!PersistTokens, Service!EmptyMap, EmptyMap
  <2>2. Kept = tokens /\ Kept' = tokens /\ now' = now /\ drawn' = drawn
    BY <1>8, <1>k, <2>1, KeptIs, DeliveryAssumption DEF Service!Exit
  <2> QED  BY <1>8, <1>e, <2>1, <2>2 DEF Service!Exit, Service!timers
<1>9. CASE UNCHANGED service
  <2>1. Kept' = Kept /\ now' = now /\ drawn' = drawn
    BY <1>9, <1>k, KeptIs DEF service
  <2> QED  BY <1>9, <2>1 DEF service
<1> QED  BY <1>1, <1>2, <1>3, <1>4, <1>5, <1>6, <1>7, <1>8, <1>9

-----------------------------------------------------------------------------

\* The links that are open in a map.
LinksOf(m) ==
  [t \in Token |-> IF IsTokenKnown(m, t) /\ ~m[t].used
                   THEN [owner |-> m[t].id, born |-> m[t].created]
                   ELSE NoData]

LEMMA OpenLinksAre ==
  /\ Service!OpenLinks = LinksOf(Kept)
  /\ Service!OpenLinks' = LinksOf(Kept')
BY DEF Service!OpenLinks, LinksOf, Kept, Service!IsTokenKnown, IsTokenKnown

LEMMA LinksOfTypes ==
  ASSUME NEW m \in TokenMaps
  PROVE  /\ LinksOf(m) \in [Token -> Promises!Links \union {NoData}]
         /\ \A t \in Token :
              LinksOf(m)[t] # NoData <=> IsTokenKnown(m, t) /\ ~m[t].used
BY DeliveryAssumption
DEF LinksOf, TokenMaps, TokenData, IsTokenKnown, Promises!Links

\* Both a connection and a removal retire the links of a device.
LEMMA Retirements ==
  ASSUME NEW m \in TokenMaps, NEW d \in Device
  PROVE  \A n \in {MarkedUsed(m, d), WithoutDevice(m, d)} :
           LinksOf(n) = [t \in Token |->
             IF LinksOf(m)[t] # NoData /\ LinksOf(m)[t].owner = d
             THEN NoData ELSE LinksOf(m)[t]]
<1>1. \A t \in Token :
        LinksOf(m)[t] # NoData => LinksOf(m)[t].owner = m[t].id
  BY LinksOfTypes DEF LinksOf
<1>2. LinksOf(MarkedUsed(m, d)) =
        [t \in Token |-> IF LinksOf(m)[t] # NoData /\ LinksOf(m)[t].owner = d
                         THEN NoData ELSE LinksOf(m)[t]]
  BY <1>1, LinksOfTypes, NoDataAssumption
  DEF LinksOf, MarkedUsed, IsTokenKnown, TokenMaps, TokenData
<1>3. LinksOf(WithoutDevice(m, d)) =
        [t \in Token |-> IF LinksOf(m)[t] # NoData /\ LinksOf(m)[t].owner = d
                         THEN NoData ELSE LinksOf(m)[t]]
  BY <1>1, LinksOfTypes, NoDataAssumption
  DEF LinksOf, WithoutDevice, IsTokenKnown, TokenMaps, TokenData
<1> QED  BY <1>2, <1>3

\* Every step of the service is one that CredLinks allows.
LEMMA ServiceKeepsPromises ==
  ASSUME ServiceTypes,
         \/ Service!Boot
         \/ Service!Tick
         \/ \E d \in Device : Service!GetConnectUrl(d)
         \/ \E d \in Device : Service!OnDeviceConnected(d)
         \/ \E d \in Device : Service!DeleteTokenForId(d)
         \/ Service!GarbageCollectTokens
         \/ Service!PersistAndGoOn
         \/ Service!Exit
         \/ UNCHANGED service
  PROVE  [Promises!Next]_(Promises!vars)
<1> USE OpenLinksAre DEF ServiceTypes
<1>k. Kept' = IF up' THEN tokens'
              ELSE IF tokensDb' = NoDb THEN EmptyMap ELSE tokensDb'
  BY SameOperations DEF Kept, Service!Effective
<1>u. \* A step that keeps the map keeps the links.
  ASSUME Kept' = Kept, now' = now, drawn' = drawn
  PROVE  UNCHANGED Promises!vars
  BY <1>u DEF Promises!vars
<1>1. CASE Service!Boot
  <2>1. Kept' = Kept
    BY <1>1, <1>k, KeptIs, SameOperations DEF Service!Boot
  <2> QED  BY <1>1, <1>u, <2>1 DEF Service!Boot
<1>2. CASE Service!Tick
  <2>1. Kept' = Kept
    BY <1>2, <1>k, KeptIs DEF Service!Tick
  <2>2. Promises!Tick
    BY <1>2, <2>1 DEF Service!Tick, Promises!Tick
  <2> QED  BY <2>2 DEF Promises!Next
<1>3. ASSUME NEW d \in Device, Service!GetConnectUrl(d)
      PROVE  Promises!Issue(d)
  <2>1. PICK t \in Token \ drawn :
          /\ tokens' = WithNewToken(tokens, t, d, now)
          /\ drawn' = drawn \union {t}
    BY <1>3, SameOperations DEF Service!GetConnectUrl
  <2>2. Kept = tokens /\ Kept' = tokens' /\ now' = now
    BY <1>3, <1>k, KeptIs DEF Service!GetConnectUrl
  <2>3. ActiveTokens(tokens, d, now) = {}
    BY <1>3
    DEF Service!GetConnectUrl, Service!ActiveTokens, ActiveTokens,
        Service!IsTokenActive, IsTokenActive, Service!IsTokenKnown,
        IsTokenKnown, Service!IsTokenExpired, IsTokenExpired
  <2>4. ~ \E s \in Token :
           Promises!Live(s) /\ Service!OpenLinks[s].owner = d
    <3>1. SUFFICES ASSUME NEW s \in Token, Promises!Live(s),
                          LinksOf(tokens)[s].owner = d
                   PROVE  FALSE
      BY <2>2
    <3>2. /\ LinksOf(tokens)[s] # NoData
          /\ now - LinksOf(tokens)[s].born =< ExpireAge
      BY <2>2, <3>1 DEF Promises!Live
    <3>3. IsTokenKnown(tokens, s) /\ ~tokens[s].used
      BY <3>2, LinksOfTypes
    <3>4. tokens[s].id = d /\ now - tokens[s].created =< ExpireAge
      BY <3>1, <3>2, <3>3 DEF LinksOf
    <3>5. tokens[s].created \in Nat
      BY <3>3 DEF TokenMaps, TokenData, IsTokenKnown
    <3>6. s \in ActiveTokens(tokens, d, now)
      BY <3>3, <3>4, <3>5, AgeAssumption
      DEF ActiveTokens, IsTokenActive, IsTokenExpired
    <3> QED  BY <2>3, <3>6
  <2>5. LinksOf(tokens') =
          [LinksOf(tokens) EXCEPT ![t] = [owner |-> d, born |-> now]]
    <3>1. tokens'[t] = [id |-> d, created |-> now, used |-> FALSE]
      BY <2>1 DEF WithNewToken, TokenMaps
    <3>2. \A s \in Token \ {t} : tokens'[s] = tokens[s]
      BY <2>1 DEF WithNewToken, TokenMaps
    <3>3. tokens'[t] # NoData
      <4>1. now \in Nat /\ d \in Device /\ FALSE \in BOOLEAN
        BY <1>3
      <4>2. tokens'[t] \in TokenData
        BY <3>1, <4>1 DEF TokenData
      <4> QED  BY <4>2, NoDataAssumption
    <3>n. tokens'[t].used = FALSE
      BY <3>1
    <3>4. LinksOf(tokens')[t] = [owner |-> d, born |-> now]
      <4>1. LinksOf(tokens')[t] =
              [owner |-> tokens'[t].id, born |-> tokens'[t].created]
        BY <3>3, <3>n, Zenon DEF LinksOf, IsTokenKnown
      <4> QED  BY <3>1, <4>1
    <3>5. \A s \in Token \ {t} : LinksOf(tokens')[s] = LinksOf(tokens)[s]
      BY <3>2 DEF LinksOf, IsTokenKnown
    <3>6. /\ LinksOf(tokens) = [s \in Token |-> LinksOf(tokens)[s]]
          /\ LinksOf(tokens') = [s \in Token |-> LinksOf(tokens')[s]]
      BY DEF LinksOf
    <3> QED  BY <3>4, <3>5, <3>6
  <2>6. \E s \in Token \ drawn :
          /\ drawn' = drawn \union {s}
          /\ Service!OpenLinks' =
               [Service!OpenLinks EXCEPT ![s] = [owner |-> d, born |-> now]]
    BY <2>1, <2>2, <2>5
  <2> QED  BY <2>2, <2>4, <2>6 DEF Promises!Issue
<1>4. ASSUME NEW d \in Device,
             Service!OnDeviceConnected(d) \/ Service!DeleteTokenForId(d)
      PROVE  Promises!Retire(d)
  <2>1. tokens' \in {MarkedUsed(tokens, d), WithoutDevice(tokens, d)}
    BY <1>4, SameOperations
    DEF Service!OnDeviceConnected, Service!DeleteTokenForId
  <2>2. Kept = tokens /\ Kept' = tokens' /\ now' = now /\ drawn' = drawn
    BY <1>4, <1>k, KeptIs
    DEF Service!OnDeviceConnected, Service!DeleteTokenForId
  <2> QED  BY <2>1, <2>2, Retirements DEF Promises!Retire
<1>6. CASE Service!GarbageCollectTokens
  <2>1. tokens' = Pruned(tokens, now) /\ tokens' \in TokenMaps
    BY <1>6, SameOperations, OperationTypes DEF Service!GarbageCollectTokens
  <2>2. Kept = tokens /\ Kept' = tokens' /\ now' = now /\ drawn' = drawn
    BY <1>6, <1>k, KeptIs DEF Service!GarbageCollectTokens
  <2>3. ASSUME NEW t \in Token
        PROVE  \/ LinksOf(tokens')[t] = LinksOf(tokens)[t]
               \/ ~Promises!Live(t) /\ LinksOf(tokens')[t] = NoData
    <3>1. CASE tokens'[t] = tokens[t]
      BY <3>1 DEF LinksOf, IsTokenKnown
    <3>2. CASE tokens'[t] # tokens[t]
      <4>1. /\ IsTokenKnown(tokens, t)
            /\ now - tokens[t].created > DeleteAge
            /\ tokens'[t] = NoData
        BY <2>1, <3>2 DEF Pruned
      <4>2. tokens[t].created \in Nat
        BY <4>1 DEF TokenMaps, TokenData, IsTokenKnown
      <4>3. LinksOf(tokens')[t] = NoData
        BY <4>1 DEF LinksOf, IsTokenKnown
      <4>4. ~Promises!Live(t)
        <5>1. CASE LinksOf(tokens)[t] = NoData
          BY <2>2, <5>1 DEF Promises!Live
        <5>2. CASE LinksOf(tokens)[t] # NoData
          <6>1. LinksOf(tokens)[t].born = tokens[t].created
            BY <5>2, LinksOfTypes DEF LinksOf
          <6> QED  BY <2>2, <4>1, <4>2, <6>1, AgeAssumption
                   DEF Promises!Live
        <5> QED  BY <5>1, <5>2
      <4> QED  BY <4>3, <4>4
    <3> QED  BY <3>1, <3>2
  <2>4. LinksOf(tokens') \in [Token -> Promises!Links \union {NoData}]
    BY <2>1, LinksOfTypes
  <2>5. Promises!Forget
    BY <2>2, <2>3, <2>4 DEF Promises!Forget
  <2> QED  BY <2>5 DEF Promises!Next
<1>7. CASE Service!PersistAndGoOn
  <2>1. Kept' = Kept
    BY <1>7, <1>k, KeptIs DEF Service!PersistAndGoOn
  <2> QED  BY <1>7, <1>u, <2>1 DEF Service!PersistAndGoOn
<1>8. CASE Service!Exit
  <2>1. tokensDb' = tokens
    BY <1>8 DEF Service!Exit, Service!PersistTokens
  <2>2. Kept' = Kept
    BY <1>8, <1>k, <2>1, KeptIs, DeliveryAssumption DEF Service!Exit
  <2> QED  BY <1>8, <1>u, <2>2 DEF Service!Exit
<1>9. CASE UNCHANGED service
  <2>1. Kept' = Kept
    BY <1>9, <1>k, KeptIs DEF service
  <2> QED  BY <1>9, <1>u, <2>1 DEF service
<1> QED  BY <1>1, <1>2, <1>3, <1>4, <1>6, <1>7, <1>8, <1>9
         DEF Promises!Next

-----------------------------------------------------------------------------

\* A step either leaves the service alone or is one of its steps, after which
\* the tokens that are closed are remembered.
LEMMA NextIsServiceStep ==
  ASSUME TypeOK, [Next]_vars
  PROVE  /\ ServiceTypes' /\ NothingReopens
         /\ [Promises!Next]_(Promises!vars)
         /\ Remember \/ UNCHANGED <<service, closed>>
<1>t. ServiceTypes
  BY TypesOfService DEF TypeOK
<1>s. \* What is left to show of a step.
  ASSUME \/ UNCHANGED <<service, closed>>
         \/ /\ Remember
            /\ \/ Service!Boot
               \/ Service!Tick
               \/ \E d \in Device : Service!GetConnectUrl(d)
               \/ \E d \in Device : Service!OnDeviceConnected(d)
               \/ \E d \in Device : Service!DeleteTokenForId(d)
               \/ Service!GarbageCollectTokens
               \/ Service!PersistAndGoOn
               \/ Service!Exit
               \/ UNCHANGED service
  PROVE  /\ ServiceTypes' /\ NothingReopens
         /\ [Promises!Next]_(Promises!vars)
         /\ Remember \/ UNCHANGED <<service, closed>>
  <2>1. ServiceTypes' /\ NothingReopens
    BY <1>t, <1>s, ServiceSteps
  <2>2. [Promises!Next]_(Promises!vars)
    BY <1>t, <1>s, ServiceKeepsPromises
  <2> QED  BY <1>s, <2>1, <2>2
<1>1. ASSUME NEW r \in Slot, NEW t \in Token, GetCred(r, t)
      PROVE  UNCHANGED <<service, closed>>
  BY <1>1 DEF GetCred
<1>2. ASSUME NEW r \in Slot, NEW d \in Device, AskLink(r, d)
      PROVE  UNCHANGED <<service, closed>>
  BY <1>2 DEF AskLink
<1>3. ASSUME NEW r \in Slot,
             \/ OpenBrokenLink(r) \/ OpenDev(r) \/ GetClient(r)
             \/ AnswerCred(r) \/ Receive(r)
      PROVE  UNCHANGED <<service, closed>>
  BY <1>3 DEF OpenBrokenLink, OpenDev, GetClient, AnswerCred, Receive
<1>4. ASSUME NEW r \in Slot, AnswerLink(r)
      PROVE  /\ Remember
             /\ \/ \E d \in Device : Service!GetConnectUrl(d)
                \/ UNCHANGED service
  <2>1. req[r].id \in Device
    BY <1>4 DEF AnswerLink, At, TypeOK, Requests, Idle
  <2> QED  BY <1>4, <2>1 DEF AnswerLink
<1>5. ASSUME NEW d \in Device, Build(d) \/ Connect(d)
      PROVE  UNCHANGED <<service, closed>>
  BY <1>5 DEF Build, Connect
<1>6. ASSUME NEW d \in Device, Remove(d)
      PROVE  Remember /\ Service!DeleteTokenForId(d)
  BY <1>6 DEF Remove
<1>7. ASSUME NEW d \in Device, Hook(d)
      PROVE  Remember /\ Service!OnDeviceConnected(d)
  BY <1>7 DEF Hook
<1>8. CASE UNCHANGED vars
  BY <1>s, <1>8 DEF vars
<1>9. CASE \/ \E r \in Slot, t \in Token : GetCred(r, t)
           \/ \E r \in Slot, d \in Device : AskLink(r, d)
           \/ \E r \in Slot : OpenBrokenLink(r)
           \/ \E r \in Slot : OpenDev(r)
           \/ \E r \in Slot : GetClient(r)
           \/ \E r \in Slot : AnswerCred(r)
           \/ \E r \in Slot : Receive(r)
           \/ \E d \in Device : Build(d)
           \/ \E d \in Device : Connect(d)
  BY <1>s, <1>1, <1>2, <1>3, <1>5, <1>9
<1>10. CASE \/ \E r \in Slot : AnswerLink(r)
            \/ \E d \in Device : Remove(d)
            \/ \E d \in Device : Hook(d)
  BY <1>s, <1>4, <1>6, <1>7, <1>10
<1>11. CASE \/ Boot \/ Tick \/ PersistAndGoOn \/ GarbageCollectTokens \/ Exit
  BY <1>s, <1>11 DEF Boot, Tick, PersistAndGoOn, GarbageCollectTokens, Exit
<1> QED  BY <1>8, <1>9, <1>10, <1>11 DEF Next

\* What is kept of the requests, the answers under way and the pages.
PagesKept ==
  /\ req \in [Slot -> Requests \union {Idle}]
  /\ reply \in [Slot -> Replies \union {NoReply}]
  /\ page \in [Slot -> Pages]
  /\ dev \subseteq Slot
  /\ NoneLate /\ AnswerEndsRequest /\ NoPageIsLeft

\* A step of one slot: its request ends, begins and is not late, or goes on, and
\* its page shows that it loads when something is under way for it.
LEMMA SlotMoves ==
  ASSUME PagesKept, NEW r \in Slot,
         \/ req' = [req EXCEPT ![r] = Idle]
         \/ /\ req[r] # Idle
            /\ req' = [req EXCEPT ![r].at = "answer"]
         \/ \E q \in Requests : q.late = FALSE /\ req' = [req EXCEPT ![r] = q],
         NEW back \in Replies \union {NoReply},
         reply' = [reply EXCEPT ![r] = back],
         back # NoReply => req'[r] = Idle,
         NEW what \in Pages,
         page' = [page EXCEPT ![r] = what],
         dev' \in {dev, dev \ {r}, dev \union {r}},
         req'[r].op = "cred" \/ back # NoReply <=>
           what = "loading" /\ r \notin dev'
  PROVE  PagesKept'
<1> USE DEF PagesKept, NoneLate, AnswerEndsRequest, NoPageIsLeft, Awaited
<1>1. /\ \A s \in Slot \ {r} :
           /\ req'[s] = req[s] /\ reply'[s] = reply[s] /\ page'[s] = page[s]
           /\ s \in dev' <=> s \in dev
      /\ dev' \subseteq Slot
  OBVIOUS
<1>2. /\ req' \in [Slot -> Requests \union {Idle}]
      /\ req'[r] # Idle => req'[r].late = FALSE
  <2>1. CASE req' = [req EXCEPT ![r] = Idle]
    BY <2>1
  <2>2. CASE req[r] # Idle /\ req' = [req EXCEPT ![r].at = "answer"]
    <3>1. req[r] \in Requests
      BY <2>2
    <3>2. [req[r] EXCEPT !.at = "answer"] \in Requests
      BY <3>1 DEF Requests
    <3>3. [req[r] EXCEPT !.at = "answer"].late = FALSE
      BY <2>2, <3>1 DEF Requests
    <3> QED  BY <2>2, <3>2, <3>3
  <2>3. ASSUME NEW q \in Requests, q.late = FALSE, req' = [req EXCEPT ![r] = q]
        PROVE  /\ req' \in [Slot -> Requests \union {Idle}]
               /\ req'[r] # Idle => req'[r].late = FALSE
    BY <2>3
  <2> QED  BY <2>1, <2>2, <2>3
<1>3. /\ page' \in [Slot -> Pages] /\ page'[r] = what
      /\ reply' \in [Slot -> Replies \union {NoReply}] /\ reply'[r] = back
  OBVIOUS
<1> QED  BY <1>1, <1>2, <1>3

\* The answers of the webserver are answers, and none is NoReply.
LEMMA AnswersAreReplies ==
  /\ \A status \in {"500", "destroyed"} :
       [status |-> status] \in Replies /\ [status |-> status] # NoReply
  /\ \A t \in Token :
       LET answer == [status |-> "200", box |-> Encrypted(t)]
       IN  answer \in Replies /\ answer # NoReply
<1>1. ASSUME NEW status \in {"500", "destroyed"}
      PROVE  [status |-> status] \in Replies /\ [status |-> status] # NoReply
  <2>1. [status |-> status].status # NoReply.status
    BY DEF NoReply
  <2> QED  BY <2>1 DEF Replies
<1>2. ASSUME NEW t \in Token
      PROVE  /\ [status |-> "200", box |-> Encrypted(t)] \in Replies
             /\ [status |-> "200", box |-> Encrypted(t)] # NoReply
  <2>1. [status |-> "200", box |-> Encrypted(t)].status # NoReply.status
    BY DEF NoReply
  <2> QED  BY <2>1 DEF Replies
<1> QED  BY <1>1, <1>2

\* The requests, answers and pages keep their types, none begins with a closed
\* link, and each that ends tells its page.
LEMMA RequestSteps ==
  ASSUME Inv, [Next]_vars
  PROVE  /\ PagesKept'
         /\ devices' \subseteq Device /\ hooks' \subseteq Device
<1> USE DEF Inv, TypeOK
<1>t. ServiceTypes
  BY TypesOfService
<1>k. PagesKept
  BY DEF PagesKept
<1>i. \A r \in Slot : req[r] # Idle =>
        req[r] \in Requests /\ req[r].op \in {"cred", "link"}
  BY DEF Requests
<1>n. Idle.op # "cred"
  BY DEF Idle
<1>o. \* A slot in which no request is under way.
  ASSUME NEW r \in Slot, req[r] = Idle, UNCHANGED req
  PROVE  /\ req' = [req EXCEPT ![r] = Idle]
         /\ req'[r] = Idle /\ req'[r].op # "cred"
  BY <1>o, <1>n
<1>b. \* One in which a request is under way.
  ASSUME NEW r \in Slot, req[r] # Idle, UNCHANGED reply
  PROVE  reply' = [reply EXCEPT ![r] = NoReply]
  BY <1>b DEF AnswerEndsRequest
<1>1. ASSUME NEW r \in Slot, NEW t \in Token, GetCred(r, t)
      PROVE  PagesKept' /\ UNCHANGED <<devices, hooks>>
  <2>1. /\ req[r] = Idle /\ reply[r] = NoReply
        /\ page' = [page EXCEPT ![r] = "loading"] /\ "loading" \in Pages
        /\ dev' = dev \ {r}
        /\ UNCHANGED <<devices, hooks>>
    BY <1>1 DEF GetCred, Opens, Shows, Pages
  <2>2. CASE /\ up /\ Checked(t)
             /\ Begins(r, "cred", tokens[t].id, t, t \in closed)
             /\ UNCHANGED reply
    <3>1. IsTokenActive(Kept, t, now)
      BY <2>2, KeptIs DEF Checked, IsTokenActive
    <3>2. (t \in closed) = FALSE
      <4>1. t \notin closed
        BY <3>1 DEF ClosedInv
      <4> QED  BY <4>1, SMT
    <3>3. tokens[t].id \in Device
      BY <2>2, <1>t
      DEF Checked, IsTokenKnown, ServiceTypes, TokenMaps, TokenData
    <3> DEFINE q == [op |-> "cred", id |-> tokens[t].id, late |-> FALSE,
                     token |-> t, at |-> "getClient"]
    <3>4. req' = [req EXCEPT ![r] = q]
      BY <2>2, <3>2, Zenon DEF Begins
    <3>5. q \in Requests /\ q.late = FALSE /\ q.op = "cred"
      BY <3>3 DEF Requests
    <3>6. reply' = [reply EXCEPT ![r] = NoReply]
      BY <2>1, <2>2
    <3>7. req'[r].op = "cred"
      BY <3>4, <3>5
    <3> HIDE DEF q
    <3> QED  BY <1>k, <2>1, <3>4, <3>5, <3>6, <3>7, SlotMoves
  <2>3. CASE /\ FailsAndFallsThrough(r) \/ Replied(r, "destroyed")
             /\ UNCHANGED req
    <3>1. PICK status \in {"500", "destroyed"} :
            reply' = [reply EXCEPT ![r] = [status |-> status]]
      BY <2>3 DEF FailsAndFallsThrough, Replied
    <3>2. req' = [req EXCEPT ![r] = Idle]
      BY <1>o, <2>1, <2>3
    <3>3. /\ [status |-> status] \in Replies \union {NoReply}
          /\ [status |-> status] # NoReply
      BY AnswersAreReplies
    <3> QED  BY <1>k, <2>1, <3>1, <3>2, <3>3, SlotMoves
  <2> QED  BY <1>1, <2>1, <2>2, <2>3 DEF GetCred
<1>2. ASSUME NEW r \in Slot, NEW d \in Device, AskLink(r, d)
      PROVE  PagesKept' /\ UNCHANGED <<devices, hooks>>
  <2> DEFINE q == [op |-> "link", id |-> d, late |-> FALSE,
                   token |-> NoData, at |-> "getClient"]
  <2>1. req' = [req EXCEPT ![r] = q]
    BY <1>2 DEF AskLink, Begins
  <2>2. q \in Requests /\ q.late = FALSE /\ q.op = "link"
    BY DEF Requests
  <2>3. /\ page' = [page EXCEPT ![r] = "none"] /\ "none" \in Pages
        /\ dev' = dev \ {r}
        /\ reply' = [reply EXCEPT ![r] = NoReply]
    BY <1>2 DEF AskLink, Opens, Shows, Pages
  <2>4. req'[r].op # "cred"
    BY <2>1, <2>2
  <2> HIDE DEF q
  <2>5. PagesKept'
    BY <1>k, <2>1, <2>2, <2>3, <2>4, SlotMoves
  <2> QED  BY <1>2, <2>5 DEF AskLink
<1>3. ASSUME NEW r \in Slot, OpenBrokenLink(r) \/ OpenDev(r)
      PROVE  PagesKept' /\ UNCHANGED <<devices, hooks>>
  <2>1. /\ req[r] = Idle /\ reply[r] = NoReply
        /\ UNCHANGED <<req, reply, devices, hooks>>
    BY <1>3 DEF OpenBrokenLink, OpenDev, Opens
  <2>2. reply' = [reply EXCEPT ![r] = NoReply]
    BY <2>1
  <2>3. \E what \in Pages :
          /\ page' = [page EXCEPT ![r] = what]
          /\ \/ what # "loading" /\ dev' = dev \ {r}
             \/ dev' = dev \union {r}
    BY <1>3 DEF OpenBrokenLink, OpenDev, Opens, Shows, Pages
  <2> QED  BY <1>k, <1>o, <2>1, <2>2, <2>3, SlotMoves
<1>4. ASSUME NEW r \in Slot, Refuses(r), req[r] # Idle, UNCHANGED <<page, dev>>
      PROVE  PagesKept'
  <2>1. req' = [req EXCEPT ![r] = Idle] /\ req'[r] = Idle
    BY <1>4 DEF Refuses, Ends
  <2>2. page' = [page EXCEPT ![r] = page[r]] /\ page[r] \in Pages
    BY <1>4
  <2>3. CASE req[r].op = "cred" /\ FailsAndFallsThrough(r)
    <3>1. PICK status \in {"500", "destroyed"} :
            reply' = [reply EXCEPT ![r] = [status |-> status]]
      BY <2>3 DEF FailsAndFallsThrough, Replied
    <3>2. /\ [status |-> status] \in Replies \union {NoReply}
          /\ [status |-> status] # NoReply
      BY AnswersAreReplies
    <3>3. page[r] = "loading" /\ r \notin dev'
      BY <1>4, <2>3 DEF NoPageIsLeft, Awaited
    <3> QED  BY <1>k, <1>4, <1>n, <2>1, <2>2, <3>1, <3>2, <3>3, SlotMoves
  <2>4. CASE req[r].op = "link" /\ UNCHANGED reply
    <3>1. reply' = [reply EXCEPT ![r] = NoReply]
      BY <1>4, <1>b, <2>4
    <3>2. ~(page[r] = "loading" /\ r \notin dev')
      BY <1>4, <2>4 DEF NoPageIsLeft, Awaited, AnswerEndsRequest
    <3> QED  BY <1>k, <1>4, <1>n, <2>1, <2>2, <3>1, <3>2, SlotMoves
  <2> QED  BY <1>4, <2>3, <2>4 DEF Refuses
<1>5. ASSUME NEW r \in Slot, GetClient(r)
      PROVE  PagesKept' /\ UNCHANGED <<devices, hooks>>
  <2>1. CASE req' = [req EXCEPT ![r].at = "answer"] /\ UNCHANGED reply
    <3>1. req[r] # Idle /\ req'[r].op = req[r].op
      BY <1>5, <2>1, <1>i DEF GetClient, Requests
    <3>2. /\ page' = [page EXCEPT ![r] = page[r]] /\ page[r] \in Pages
          /\ reply' = [reply EXCEPT ![r] = NoReply]
          /\ dev' = dev
      BY <1>5, <1>b, <2>1 DEF GetClient
    <3>3. req'[r].op = "cred" <=> page[r] = "loading" /\ r \notin dev'
      BY <3>1, <3>2 DEF NoPageIsLeft, Awaited, AnswerEndsRequest
    <3>4. PagesKept'
      BY <1>k, <2>1, <3>1, <3>2, <3>3, SlotMoves
    <3> QED  BY <1>5, <3>4 DEF GetClient
  <2> QED  BY <1>5, <1>4, <2>1 DEF GetClient
<1>6. ASSUME NEW r \in Slot, AnswerCred(r)
      PROVE  PagesKept' /\ UNCHANGED <<devices, hooks>>
  <2>1. req' = [req EXCEPT ![r] = Idle] /\ req'[r] = Idle
    BY <1>6 DEF AnswerCred, Ends
  <2>2. req[r] \in Requests /\ req[r].op = "cred"
    BY <1>6, <1>i DEF AnswerCred, At
  <2>3. PICK back \in Replies :
          back # NoReply /\ reply' = [reply EXCEPT ![r] = back]
    <3>1. req[r].token \in Token
      BY <2>2 DEF Requests
    <3> QED  BY <1>6, <3>1, AnswersAreReplies DEF AnswerCred
  <2>4. /\ page' = [page EXCEPT ![r] = page[r]] /\ page[r] \in Pages
        /\ dev' = dev
        /\ page[r] = "loading" /\ r \notin dev
    BY <1>6, <2>2 DEF AnswerCred, NoPageIsLeft, Awaited
  <2>5. PagesKept'
    BY <1>k, <1>n, <2>1, <2>3, <2>4, SlotMoves
  <2> QED  BY <1>6, <2>5 DEF AnswerCred
<1>7. ASSUME NEW r \in Slot, Receive(r)
      PROVE  PagesKept' /\ UNCHANGED <<devices, hooks>>
  <2>1. /\ reply' = [reply EXCEPT ![r] = NoReply]
        /\ UNCHANGED <<req, dev, devices, hooks>>
    BY <1>7 DEF Receive
  <2>2. \E what \in Pages :
          page' = [page EXCEPT ![r] = what] /\ what # "loading"
    BY <1>7 DEF Receive, Shows, Pages
  <2>3. req[r] = Idle
    BY <1>7 DEF Receive, AnswerEndsRequest
  <2> QED  BY <1>k, <1>o, <2>1, <2>2, <2>3, SlotMoves
<1>8. ASSUME NEW r \in Slot, AnswerLink(r)
      PROVE  PagesKept' /\ UNCHANGED <<devices, hooks>>
  <2>1. /\ req' = [req EXCEPT ![r] = Idle] /\ req'[r].op # "cred"
        /\ UNCHANGED <<reply, page, dev, devices, hooks>>
    BY <1>8, <1>n DEF AnswerLink, Ends, clients
  <2>2. /\ page' = [page EXCEPT ![r] = page[r]] /\ page[r] \in Pages
        /\ reply' = [reply EXCEPT ![r] = NoReply]
    BY <1>8, <1>b, <2>1 DEF AnswerLink
  <2>3. ~(page[r] = "loading" /\ r \notin dev')
    BY <1>8, <2>1
    DEF AnswerLink, At, NoPageIsLeft, Awaited, AnswerEndsRequest
  <2> QED  BY <1>k, <2>1, <2>2, <2>3, SlotMoves
<1>9. ASSUME UNCHANGED <<req, reply, page, dev>>
      PROVE  PagesKept'
  BY <1>9, <1>k
  DEF PagesKept, NoneLate, AnswerEndsRequest, NoPageIsLeft, Awaited
<1>10. ASSUME NEW d \in Device, Build(d) \/ Remove(d) \/ Connect(d) \/ Hook(d)
      PROVE  /\ UNCHANGED <<req, reply, page, dev>>
             /\ devices' \subseteq Device /\ hooks' \subseteq Device
  BY <1>10 DEF Build, Remove, Connect, Hook, clients
<1>11. CASE \/ Boot \/ Tick \/ PersistAndGoOn \/ GarbageCollectTokens
            \/ UNCHANGED vars
  <2>1. UNCHANGED <<req, reply, page, dev, devices, hooks>>
    BY <1>11
    DEF Boot, Tick, PersistAndGoOn, GarbageCollectTokens, vars, clients
  <2> QED  BY <1>9, <2>1
<1>12. CASE Exit
  <2>1. /\ req' = [r \in Slot |-> Idle]
        /\ reply' = [r \in Slot |-> IF req[r].op = "cred"
                        THEN [status |-> "destroyed"] ELSE reply[r]]
        /\ UNCHANGED <<page, dev>>
    BY <1>12 DEF Exit
  <2>2. /\ req' \in [Slot -> Requests \union {Idle}]
        /\ NoneLate' /\ AnswerEndsRequest'
    BY <2>1 DEF NoneLate, AnswerEndsRequest
  <2>3. reply' \in [Slot -> Replies \union {NoReply}]
    BY <2>1, AnswersAreReplies
  <2>4. NoPageIsLeft'
    <3>1. \A r \in Slot : /\ req'[r].op # "cred"
                          /\ reply'[r] # NoReply <=> Awaited(r)
      BY <1>n, <2>1, AnswersAreReplies DEF Awaited
    <3> QED  BY <2>1, <3>1 DEF NoPageIsLeft, Awaited
  <2> QED  BY <1>12, <2>1, <2>2, <2>3, <2>4 DEF Exit, PagesKept
<1>13. CASE \/ \E r \in Slot : OpenBrokenLink(r)
            \/ \E r \in Slot : OpenDev(r)
            \/ \E r \in Slot, t \in Token : GetCred(r, t)
            \/ \E r \in Slot, d \in Device : AskLink(r, d)
            \/ \E r \in Slot : GetClient(r)
            \/ \E r \in Slot : AnswerCred(r)
            \/ \E r \in Slot : Receive(r)
            \/ \E r \in Slot : AnswerLink(r)
  <2>1. PagesKept' /\ UNCHANGED <<devices, hooks>>
    BY <1>1, <1>2, <1>3, <1>5, <1>6, <1>7, <1>8, <1>13
  <2> QED  BY <2>1
<1>14. CASE \/ \E d \in Device : Build(d)
            \/ \E d \in Device : Remove(d)
            \/ \E d \in Device : Connect(d)
            \/ \E d \in Device : Hook(d)
  BY <1>9, <1>10, <1>14
<1> QED  BY <1>11, <1>12, <1>13, <1>14 DEF Next

\* The inductive invariant.
LEMMA Invariant == Spec => []Inv
<1>1. Init => Inv
  <2> SUFFICES ASSUME Init PROVE Inv
    OBVIOUS
  <2>1. ServiceTypes
    BY DEF Init, Service!Init, ServiceTypes, Service!EmptyMap, TokenMaps
  <2>2. TypeOK
    BY <2>1, TypesOfService DEF Init, TypeOK, Pages
  <2>3. ClosedInv /\ NoneLate /\ AnswerEndsRequest
    BY DEF Init, ClosedInv, NoneLate, AnswerEndsRequest
  <2>4. NoPageIsLeft
    BY DEF Init, NoPageIsLeft, Awaited, Idle
  <2> QED  BY <2>2, <2>3, <2>4 DEF Inv
<1>2. Inv /\ [Next]_vars => Inv'
  <2> SUFFICES ASSUME Inv, [Next]_vars PROVE Inv'
    OBVIOUS
  <2>1. TypeOK /\ ClosedInv
    BY DEF Inv
  <2>2. /\ ServiceTypes' /\ NothingReopens
        /\ Remember \/ UNCHANGED <<service, closed>>
    BY <2>1, NextIsServiceStep
  <2>3. PagesKept' /\ devices' \subseteq Device /\ hooks' \subseteq Device
    BY RequestSteps
  <2>4. Service!TypeOK'
    BY <2>2, TypesOfServicePrime
  <2>5. closed' \subseteq drawn'
    BY <2>1, <2>2 DEF Remember, NothingReopens, TypeOK
  <2>6. ClosedInv'
    BY <2>1, <2>2 DEF Remember, NothingReopens, TypeOK, ClosedInv, Kept
  <2> QED  BY <2>3, <2>4, <2>5, <2>6 DEF Inv, TypeOK, PagesKept
<1> QED  BY <1>1, <1>2, PTL DEF Spec

\* Every state of the service, of the requests and of the devices has its
\* type, whatever the order of requests, stops, connections and removals.
THEOREM TypeCorrect == Spec => []TypeOK
<1>1. Inv => TypeOK
  BY DEF Inv
<1> QED  BY <1>1, Invariant, PTL

\* generateCredFileFromToken refuses every token that was closed before the
\* request: a used, expired, deleted or pruned token never opens a file again.
THEOREM ClosedForGood == Spec => []NoFileOnceClosed
<1>1. Inv => NoFileOnceClosed
  BY DEF Inv, NoneLate, NoFileOnceClosed
<1> QED  BY <1>1, Invariant, PTL

\* Whatever way a request ends (an answer, a throw, the end of the process), its
\* page is sent what ends its loading, and a page that loads without that is one
\* opened with the parameter dev.
THEOREM PagesAreTold == Spec => []NoPageIsLeft
<1>1. Inv => NoPageIsLeft
  BY DEF Inv
<1> QED  BY <1>1, Invariant, PTL

\* The service, used by requests, calls and hooks in any order and restarted
\* any number of times, implements CredLinks.
THEOREM ImplementsCredLinks == Spec => KeepsLinkPromises
<1>1. Init => Promises!Init
  <2> SUFFICES ASSUME Init PROVE Promises!Init
    OBVIOUS
  <2>1. now = 0 /\ drawn = {} /\ Kept = EmptyMap
    BY KeptIs DEF Init, Service!Init, Service!EmptyMap, EmptyMap
  <2>2. LinksOf(EmptyMap) = [t \in Token |-> NoData]
    BY DEF LinksOf, EmptyMap, IsTokenKnown
  <2> QED  BY <2>1, <2>2, OpenLinksAre DEF Promises!Init
<1>2. Inv /\ [Next]_vars => [Promises!Next]_(Promises!vars)
  BY NextIsServiceStep DEF Inv
<1> QED  BY <1>1, <1>2, Invariant, PTL
         DEF Spec, KeepsLinkPromises, Promises!Spec

-----------------------------------------------------------------------------
(* What the promises of CredLinks give its users, whatever implements them. *)

LinkTypes ==
  /\ now \in Nat
  /\ drawn \subseteq Token
  /\ Service!OpenLinks \in [Token -> Promises!Links \union {NoData}]

\* An open link has an owner and a time of issue.
LEMMA OpenLinkData ==
  ASSUME LinkTypes
  PROVE  \A t \in Token :
           Service!OpenLinks[t] # NoData =>
             /\ Service!OpenLinks[t].owner \in Device
             /\ Service!OpenLinks[t].born \in Nat
BY DEF LinkTypes, Promises!Links

\* What a step does to the links that were there before: their ages grow, and
\* they stay as they are or close, except that a device without a live link may
\* get one for a token that is new.
LinksMove ==
  /\ now' \in Nat /\ now =< now'
  /\ \A t \in Token :
       \/ Service!OpenLinks'[t] \in {Service!OpenLinks[t], NoData}
       \/ /\ t \notin drawn
          /\ \A s \in Token \ {t} :
               /\ Service!OpenLinks'[s] = Service!OpenLinks[s]
               /\ Promises!Live(s) => Service!OpenLinks[s].owner
                                        # Service!OpenLinks'[t].owner

\* The types are kept, and the links move as LinksMove says.
LEMMA LinkStep ==
  LinkTypes /\ [Promises!Next]_(Promises!vars) => LinkTypes' /\ LinksMove
<1> SUFFICES ASSUME LinkTypes, [Promises!Next]_(Promises!vars)
             PROVE  LinkTypes' /\ LinksMove
  OBVIOUS
<1> DEFINE o == Service!OpenLinks
           p == Service!OpenLinks'
<1>t. /\ now \in Nat /\ drawn \subseteq Token
      /\ o \in [Token -> Promises!Links \union {NoData}]
  BY DEF LinkTypes
<1>g. \* A step that opens no link.
  ASSUME now' \in Nat, now =< now', drawn' = drawn,
         p \in [Token -> Promises!Links \union {NoData}],
         \A t \in Token : p[t] \in {o[t], NoData}
  PROVE  LinkTypes' /\ LinksMove
  BY <1>g, <1>t DEF LinkTypes, LinksMove, Promises!Links
<1>1. CASE Promises!Tick
  <2>1. now' = now + 1 /\ drawn' = drawn /\ p = o
    BY <1>1 DEF Promises!Tick
  <2> HIDE DEF o, p
  <2> QED  BY <1>t, <1>g, <2>1
<1>2. CASE Promises!Forget
  <2>1. /\ now' = now /\ drawn' = drawn
        /\ p \in [Token -> Promises!Links \union {NoData}]
        /\ \A t \in Token : p[t] \in {o[t], NoData}
    BY <1>2 DEF Promises!Forget
  <2> HIDE DEF o, p
  <2> QED  BY <1>t, <1>g, <2>1
<1>3. ASSUME NEW d \in Device, Promises!Retire(d)
      PROVE  LinkTypes' /\ LinksMove
  <2>1. /\ now' = now /\ drawn' = drawn
        /\ p = [t \in Token |-> IF o[t] # NoData /\ o[t].owner = d
                                THEN NoData ELSE o[t]]
    BY <1>3 DEF Promises!Retire
  <2> HIDE DEF o, p
  <2> QED  BY <1>t, <1>g, <2>1
<1>4. ASSUME NEW d \in Device, Promises!Issue(d)
      PROVE  LinkTypes' /\ LinksMove
  <2>1. PICK t \in Token \ drawn :
          /\ drawn' = drawn \union {t}
          /\ p = [o EXCEPT ![t] = [owner |-> d, born |-> now]]
    BY <1>4 DEF Promises!Issue
  <2>2. /\ now' = now
        /\ \A s \in Token : Promises!Live(s) => o[s].owner # d
    BY <1>4 DEF Promises!Issue
  <2>3. [owner |-> d, born |-> now] \in Promises!Links
    BY <1>t DEF Promises!Links
  <2>4. p \in [Token -> Promises!Links \union {NoData}]
    <3> HIDE DEF o, p
    <3> QED  BY <1>t, <2>1, <2>3
  <2>5. p[t].owner = d /\ \A s \in Token \ {t} : p[s] = o[s]
    <3> HIDE DEF o, p
    <3> QED  BY <1>t, <2>1
  <2>6. LinkTypes'
    BY <1>t, <2>1, <2>2, <2>4 DEF LinkTypes, Promises!Links
  <2>7. LinksMove
    BY <1>t, <2>1, <2>2, <2>5 DEF LinksMove
  <2> QED  BY <2>6, <2>7
<1>5. CASE UNCHANGED Promises!vars
  <2>1. now' = now /\ drawn' = drawn /\ p = o
    BY <1>5 DEF Promises!vars
  <2> HIDE DEF o, p
  <2> QED  BY <1>t, <1>g, <2>1
<1> QED  BY <1>1, <1>2, <1>3, <1>4, <1>5 DEF Promises!Next

\* A link that lives after a step lived before it, if its token was drawn.
LEMMA LiveBefore ==
  ASSUME LinkTypes, LinksMove, NEW t \in Token,
         Promises!Live(t)', Service!OpenLinks'[t] = Service!OpenLinks[t]
  PROVE  Promises!Live(t)
<1>1. /\ Service!OpenLinks[t] # NoData
      /\ now' - Service!OpenLinks[t].born =< ExpireAge
  BY DEF Promises!Live
<1>2. Service!OpenLinks[t].born \in Nat
  BY <1>1, OpenLinkData
<1> QED  BY <1>1, <1>2, AgeAssumption DEF LinkTypes, LinksMove, Promises!Live

LEMMA LinkInit == Promises!Init => LinkTypes /\ Promises!OneLiveLink
BY DEF Promises!Init, LinkTypes, Promises!OneLiveLink, Promises!Live

\* CredLinks itself keeps its types.
LEMMA LinkTypesAlways == Promises!Spec => []LinkTypes
<1>1. LinkTypes /\ [Promises!Next]_(Promises!vars) => LinkTypes'
  BY LinkStep
<1> QED  BY <1>1, LinkInit, PTL DEF Promises!Spec

\* Whatever keeps the promises of CredLinks gives a device one link at a time.
THEOREM PromisedLinkIsUnique == Promises!Spec => []Promises!OneLiveLink
<1>1. LinkTypes /\ Promises!OneLiveLink /\ [Promises!Next]_(Promises!vars) =>
        Promises!OneLiveLink'
  <2> SUFFICES ASSUME LinkTypes, Promises!OneLiveLink, LinksMove,
                      NEW s \in Token, NEW t \in Token,
                      Promises!Live(s)', Promises!Live(t)',
                      Service!OpenLinks'[s].owner = Service!OpenLinks'[t].owner,
                      s # t
               PROVE  FALSE
    BY LinkStep DEF Promises!OneLiveLink
  <2>1. \A x \in {s, t} : Service!OpenLinks'[x] # NoData
    BY DEF Promises!Live
  <2>2. CASE \A x \in {s, t} : Service!OpenLinks'[x] = Service!OpenLinks[x]
    BY <2>2, LiveBefore DEF Promises!OneLiveLink
  <2>3. ASSUME NEW x \in {s, t}, NEW y \in {s, t}, x # y,
               Service!OpenLinks'[x] # Service!OpenLinks[x]
        PROVE  FALSE
    <3>1. /\ Service!OpenLinks'[y] = Service!OpenLinks[y]
          /\ Promises!Live(y) => Service!OpenLinks[y].owner
                                   # Service!OpenLinks'[x].owner
      BY <2>1, <2>3 DEF LinksMove
    <3>2. Promises!Live(y)
      BY <3>1, LiveBefore
    <3> QED  BY <3>1, <3>2
  <2> QED  BY <2>2, <2>3
<1> QED  BY <1>1, LinkInit, LinkTypesAlways, PTL DEF Promises!Spec

\* Nor does a link that was closed, or that expired, ever work again.
THEOREM PromisedLinkDiesOnce == Promises!Spec => Promises!DeadForGood
<1>1. LinkTypes /\ [Promises!Next]_(Promises!vars) =>
        [Promises!StaysDead]_(Promises!vars)
  <2> SUFFICES ASSUME LinkTypes, LinksMove, NEW t \in drawn, Promises!Live(t)'
               PROVE  /\ Promises!Live(t)
                      /\ Service!OpenLinks'[t].owner
                           = Service!OpenLinks[t].owner
    BY LinkStep DEF Promises!StaysDead
  <2>1. t \in Token /\ Service!OpenLinks'[t] # NoData
    BY DEF LinkTypes, Promises!Live
  <2>2. Service!OpenLinks'[t] = Service!OpenLinks[t]
    BY <2>1 DEF LinksMove
  <2> QED  BY <2>1, <2>2, LiveBefore
<1> QED  BY <1>1, LinkTypesAlways, PTL DEF Promises!Spec, Promises!DeadForGood

\* So the users of the service have both.
COROLLARY UsersHaveThePromises ==
  Spec => []Promises!OneLiveLink /\ Promises!DeadForGood
BY ImplementsCredLinks, PromisedLinkIsUnique, PromisedLinkDiesOnce
DEF KeepsLinkPromises

=============================================================================
