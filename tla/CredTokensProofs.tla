-------------------------- MODULE CredTokensProofs --------------------------
(***************************************************************************)
(* Proofs about CredTokens, for every set of devices and tokens, every     *)
(* expiry and pruning age, every pruning interval and every set of faults. *)
(***************************************************************************)
EXTENDS CredTokens, TokenMapProofs

-----------------------------------------------------------------------------
(* Maps with one active token per device.                                  *)

\* A map loaded from the file is a tokens map, and so is the empty one.
LEMMA LoadedType ==
  /\ EmptyMap \in TokenMaps
  /\ \A db \in TokenMaps \union {NoDb} : Loaded(db) \in TokenMaps
BY DEF EmptyMap, Loaded, TokenMaps

\* A map that only lost active tokens keeps OneActive.
LEMMA FewerActive ==
  ASSUME NEW m1, NEW m2, NEW n1, NEW n2,
         OneActive(m1, n1), NoNewActive(m1, m2, n1, n2)
  PROVE  OneActive(m2, n2)
BY DEF OneActive, NoNewActive

\* A token for a device without an active one leaves every device with one.
LEMMA NewTokenKeepsOneActive ==
  ASSUME NEW m \in TokenMaps, NEW d \in Device, NEW t \in Token, NEW n \in Nat,
         OneActive(m, n), ActiveTokens(m, d, n) = {}
  PROVE  OneActive(WithNewToken(m, t, d, n), n)
<1> DEFINE w == WithNewToken(m, t, d, n)
<1>1. w[t].id = d /\ \A s \in Token \ {t} : w[s] = m[s]
  BY DEF WithNewToken, TokenMaps
<1>2. \A s \in Token \ {t} : IsTokenActive(w, s, n) => IsTokenActive(m, s, n)
  BY <1>1 DEF IsTokenActive, IsTokenKnown, IsTokenExpired
<1>3. \A s \in Token \ {t} : IsTokenActive(w, s, n) => w[s].id # d
  BY <1>1, <1>2 DEF ActiveTokens
<1> HIDE DEF w
<1> QED  BY <1>1, <1>2, <1>3 DEF OneActive, w

\* The empty map has no active token.
LEMMA EmptyOneActive == \A n : OneActive(EmptyMap, n)
BY DEF OneActive, EmptyMap, IsTokenActive, IsTokenKnown

-----------------------------------------------------------------------------
(* Type correctness.                                                       *)

\* The variables keep their types in every reachable state.
THEOREM TypeCorrect == Spec => []TypeOK
<1>1. Init => TypeOK
  <2>1. EmptyMap \in TokenMaps
    BY LoadedType
  <2>2. Init => up \in BOOLEAN
    BY Zenon DEF Init
  <2> QED  BY <2>1, <2>2 DEF Init, TypeOK
<1>2. TypeOK /\ [Next]_vars => TypeOK'
  <2> SUFFICES ASSUME TypeOK, [Next]_vars PROVE TypeOK'
    OBVIOUS
  <2> USE PruneAssumption DEF TypeOK, timers
  <2>1. CASE Boot
    BY <2>1, LoadedType DEF Boot
  <2>2. CASE Tick
    BY <2>2 DEF Tick
  <2>3. CASE \E d \in Device : GetConnectUrl(d)
    BY <2>3, OperationTypes DEF GetConnectUrl
  <2>4. CASE \E d \in Device : OnDeviceConnected(d)
    BY <2>4, OperationTypes DEF OnDeviceConnected
  <2>5. CASE \E d \in Device : DeleteTokenForId(d)
    BY <2>5, OperationTypes DEF DeleteTokenForId
  <2>6. CASE GarbageCollectTokens
    BY <2>6, OperationTypes DEF GarbageCollectTokens
  <2>7. CASE PersistAndGoOn
    BY <2>7 DEF PersistAndGoOn, PersistTokens
  <2>8. CASE Exit
    BY <2>8, LoadedType DEF Exit, PersistTokens
  <2>9. CASE Crash
    BY <2>9, LoadedType DEF Crash
  <2>10. CASE UNCHANGED vars
    BY <2>10 DEF vars
  <2> QED
    BY <2>1, <2>2, <2>3, <2>4, <2>5, <2>6, <2>7, <2>8, <2>9, <2>10 DEF Next
<1> QED  BY <1>1, <1>2, PTL DEF Spec

-----------------------------------------------------------------------------
(* One active token per device.  The file must be part of the invariant:   *)
(* the process may die at any moment, and the next one loads what an       *)
(* earlier one wrote.                                                      *)

OneActiveInv == OneActive(tokens, now) /\ OneActive(Loaded(tokensDb), now)

\* "Only one token per device", whatever stops the process and whenever.
THEOREM OneTokenPerDevice == Spec => []OneActiveToken
<1>1. Init => OneActiveInv
  BY EmptyOneActive DEF Init, OneActiveInv, Loaded
<1>2. TypeOK /\ OneActiveInv /\ [Next]_vars => OneActiveInv'
  <2> SUFFICES ASSUME TypeOK, OneActiveInv, [Next]_vars PROVE OneActiveInv'
    OBVIOUS
  <2>0. /\ now \in Nat
        /\ tokens \in TokenMaps
        /\ Loaded(tokensDb) \in TokenMaps
        /\ OneActive(tokens, now)
        /\ OneActive(Loaded(tokensDb), now)
    BY LoadedType DEF TypeOK, OneActiveInv
  <2> SUFFICES OneActive(tokens', now') /\ OneActive(Loaded(tokensDb'), now')
    BY DEF OneActiveInv, OneActive, Loaded, IsTokenActive, IsTokenKnown,
           IsTokenExpired, EmptyMap
  <2>1. CASE Boot
    BY <2>0, <2>1 DEF Boot
  <2>2. CASE Tick
    BY <2>0, <2>2, OperationsRetire, FewerActive DEF Tick
  <2>3. CASE \E d \in Device : GetConnectUrl(d)
    BY <2>0, <2>3, NewTokenKeepsOneActive DEF GetConnectUrl
  <2>4. CASE \E d \in Device : OnDeviceConnected(d)
    BY <2>0, <2>4, OperationsRetire, FewerActive DEF OnDeviceConnected
  <2>5. CASE \E d \in Device : DeleteTokenForId(d)
    BY <2>0, <2>5, OperationsRetire, FewerActive DEF DeleteTokenForId
  <2>6. CASE GarbageCollectTokens
    BY <2>0, <2>6, OperationsRetire, FewerActive DEF GarbageCollectTokens
  <2>7. CASE PersistAndGoOn
    BY <2>0, <2>7, EmptyOneActive DEF PersistAndGoOn, PersistTokens, Loaded
  <2>8. CASE Exit
    BY <2>0, <2>8, EmptyOneActive DEF Exit, PersistTokens, Loaded
  <2>9. CASE Crash
    BY <2>0, <2>9, EmptyOneActive DEF Crash
  <2>10. CASE UNCHANGED vars
    BY <2>0, <2>10 DEF vars
  <2> QED
    BY <2>1, <2>2, <2>3, <2>4, <2>5, <2>6, <2>7, <2>8, <2>9, <2>10 DEF Next
<1>3. OneActiveInv => OneActiveToken
  BY DEF OneActiveInv, OneActiveToken
<1> QED  BY <1>1, <1>2, <1>3, TypeCorrect, PTL DEF Spec

-----------------------------------------------------------------------------
(* Retention.  Between two runs of the timer a token ages by no more than  *)
(* the interval, and the timer is never late (Tick waits for it).          *)

\* The next run is at most one interval away, and every token that is held
\* once the timer has run was young enough then, or is newer.
RetentionInv ==
  up => /\ pruneAt - PruneInterval =< now
        /\ now =< pruneAt
        /\ pruneAt > bootedAt + PruneInterval =>
             \A t \in Token :
               IsTokenKnown(tokens, t) =>
                 tokens[t].created + DeleteAge >= pruneAt - PruneInterval

\* The map holds no token older than the pruning age and one interval.
THEOREM RetentionIsBounded == Spec => []RetentionBounded
<1> USE AgeAssumption, PruneAssumption
<1>1. Init => RetentionInv
  BY DEF Init, RetentionInv
<1>2. TypeOK /\ RetentionInv /\ [Next]_vars => RetentionInv'
  <2> SUFFICES ASSUME TypeOK, RetentionInv, [Next]_vars, up'
               PROVE  RetentionInv'
    BY DEF RetentionInv
  <2> USE DEF TypeOK, RetentionInv, IsTokenKnown, timers
  <2>1. CASE Boot
    BY <2>1 DEF Boot
  <2>2. CASE Tick
    BY <2>2 DEF Tick
  <2>3. CASE \E d \in Device : GetConnectUrl(d)
    <3>1. PICK d \in Device, t \in Token :
                 /\ tokens' = WithNewToken(tokens, t, d, now)
                 /\ UNCHANGED <<now, up, tokensDb, timers>>
      BY <2>3 DEF GetConnectUrl
    <3>2. /\ tokens'[t].created = now
          /\ \A s \in Token \ {t} : tokens'[s] = tokens[s]
      BY <3>1 DEF WithNewToken, TokenMaps
    <3> QED  BY <2>3, <3>1, <3>2 DEF GetConnectUrl
  <2>4. CASE \E d \in Device : OnDeviceConnected(d)
    <3>1. PICK d \in Device : OnDeviceConnected(d)
      BY <2>4
    <3>2. \A t \in Token : IsTokenKnown(tokens', t) =>
            /\ IsTokenKnown(tokens, t)
            /\ tokens'[t].created = tokens[t].created
      BY <3>1, NoDataAssumption
      DEF OnDeviceConnected, MarkedUsed, TokenMaps, TokenData
    <3> QED  BY <3>1, <3>2 DEF OnDeviceConnected
  <2>5. CASE \E d \in Device : DeleteTokenForId(d)
    <3>1. PICK d \in Device : DeleteTokenForId(d)
      BY <2>5
    <3>2. \A t \in Token : IsTokenKnown(tokens', t) =>
            /\ IsTokenKnown(tokens, t)
            /\ tokens'[t] = tokens[t]
      BY <3>1 DEF DeleteTokenForId, WithoutDevice
    <3> QED  BY <3>1, <3>2 DEF DeleteTokenForId
  <2>6. CASE GarbageCollectTokens
    <3>1. \A t \in Token : IsTokenKnown(tokens', t) =>
            /\ tokens[t] \in TokenData
            /\ tokens'[t] = tokens[t]
            /\ ~(now - tokens[t].created > DeleteAge)
      BY <2>6 DEF GarbageCollectTokens, Pruned, TokenMaps
    <3>2. \A t \in Token : IsTokenKnown(tokens', t) =>
            tokens'[t].created + DeleteAge >= now
      BY <3>1 DEF TokenData
    <3> QED  BY <2>6, <3>2 DEF GarbageCollectTokens
  <2>7. CASE PersistAndGoOn
    BY <2>7 DEF PersistAndGoOn
  <2>8. CASE Exit
    BY <2>8 DEF Exit
  <2>9. CASE Crash
    BY <2>9 DEF Crash
  <2>10. CASE UNCHANGED vars
    BY <2>10 DEF vars
  <2> QED
    BY <2>1, <2>2, <2>3, <2>4, <2>5, <2>6, <2>7, <2>8, <2>9, <2>10 DEF Next
<1>3. TypeOK /\ RetentionInv => RetentionBounded
  <2> SUFFICES ASSUME TypeOK, RetentionInv, up,
                      pruneAt > bootedAt + PruneInterval,
                      NEW t \in Token, IsTokenKnown(tokens, t)
               PROVE  now - tokens[t].created =< DeleteAge + PruneInterval
    BY DEF RetentionBounded
  <2>1. /\ now \in Nat /\ pruneAt \in Nat /\ now =< pruneAt
        /\ tokens[t].created + DeleteAge >= pruneAt - PruneInterval
    BY DEF TypeOK, RetentionInv
  <2>2. tokens[t].created \in Nat
    BY DEF TypeOK, TokenMaps, TokenData, IsTokenKnown
  <2> QED  BY <2>1, <2>2
<1> QED  BY <1>1, <1>2, <1>3, TypeCorrect, PTL DEF Spec

-----------------------------------------------------------------------------
(* The origin of a token.  A step gives map and file, for a token that was *)
(* drawn, nothing but what one of the two has.                             *)

\* The map n knows of the token t nothing but what the map m knows.
SameOrigin(m, n, t) ==
  IsTokenKnown(n, t) => /\ IsTokenKnown(m, t)
                        /\ n[t].id = m[t].id
                        /\ n[t].created = m[t].created

\* The operations on a map keep the origin of the tokens they keep.
LEMMA OperationsKeepOrigin ==
  ASSUME NEW m \in TokenMaps, NEW t \in Token
  PROVE  /\ \A d \in Device : SameOrigin(m, MarkedUsed(m, d), t)
         /\ \A d \in Device : SameOrigin(m, WithoutDevice(m, d), t)
         /\ \A n \in Nat : SameOrigin(m, Pruned(m, n), t)
         /\ \A d \in Device, s \in Token \ {t}, n \in Nat :
              SameOrigin(m, WithNewToken(m, s, d, n), t)
<1> USE DEF SameOrigin, IsTokenKnown
<1>1. ASSUME NEW d \in Device PROVE SameOrigin(m, MarkedUsed(m, d), t)
  BY NoDataAssumption DEF MarkedUsed, TokenMaps, TokenData
<1>2. ASSUME NEW d \in Device PROVE SameOrigin(m, WithoutDevice(m, d), t)
  BY DEF WithoutDevice
<1>3. ASSUME NEW n \in Nat PROVE SameOrigin(m, Pruned(m, n), t)
  BY DEF Pruned
<1>4. ASSUME NEW d \in Device, NEW s \in Token \ {t}, NEW n \in Nat
      PROVE  SameOrigin(m, WithNewToken(m, s, d, n), t)
  BY DEF WithNewToken, TokenMaps
<1> QED  BY <1>1, <1>2, <1>3, <1>4

\* The empty map knows nothing.
LEMMA NothingKnown == \A t \in Token : ~IsTokenKnown(EmptyMap, t)
BY DEF IsTokenKnown, EmptyMap

\* When both maps of a step have their origins of t from one of the two
\* before, no origin is new.
LEMMA OriginsFrom ==
  ASSUME NEW t \in Token,
         SameOrigin(tokens, tokens', t)
           \/ SameOrigin(Loaded(tokensDb), tokens', t),
         SameOrigin(tokens, Loaded(tokensDb'), t)
           \/ SameOrigin(Loaded(tokensDb), Loaded(tokensDb'), t)
  PROVE  Origins(t)' \subseteq Origins(t)
<1> SUFFICES ASSUME NEW n \in {tokens', Loaded(tokensDb')},
                    IsTokenKnown(n, t)
             PROVE  \E m \in {tokens, Loaded(tokensDb)} :
                      /\ IsTokenKnown(m, t)
                      /\ [id |-> n[t].id, created |-> n[t].created]
                           = [id |-> m[t].id, created |-> m[t].created]
  BY Zenon DEF Origins, Loaded, IsTokenKnown, EmptyMap
<1> QED  BY DEF SameOrigin

\* A step gives a token that was drawn no new origin.
LEMMA OriginStep ==
  ASSUME TypeOK, [Next]_vars, NEW t \in drawn
  PROVE  Origins(t)' \subseteq Origins(t)
<1>0. /\ now \in Nat
      /\ tokens \in TokenMaps
      /\ t \in Token
  BY DEF TypeOK
<1> SUFFICES /\ \/ SameOrigin(tokens, tokens', t)
                \/ SameOrigin(Loaded(tokensDb), tokens', t)
             /\ \/ SameOrigin(tokens, Loaded(tokensDb'), t)
                \/ SameOrigin(Loaded(tokensDb), Loaded(tokensDb'), t)
  BY <1>0, OriginsFrom
<1>a. \A m : SameOrigin(m, m, t) /\ SameOrigin(m, EmptyMap, t)
  BY <1>0, NothingKnown DEF SameOrigin
<1>1. CASE Boot
  BY <1>a, <1>1 DEF Boot
<1>2. CASE Tick
  BY <1>a, <1>2 DEF Tick
<1>3. CASE \E d \in Device : GetConnectUrl(d)
  BY <1>a, <1>0, <1>3, OperationsKeepOrigin DEF GetConnectUrl
<1>4. CASE \E d \in Device : OnDeviceConnected(d)
  BY <1>a, <1>0, <1>4, OperationsKeepOrigin DEF OnDeviceConnected
<1>5. CASE \E d \in Device : DeleteTokenForId(d)
  BY <1>a, <1>0, <1>5, OperationsKeepOrigin DEF DeleteTokenForId
<1>6. CASE GarbageCollectTokens
  BY <1>a, <1>0, <1>6, OperationsKeepOrigin DEF GarbageCollectTokens
<1>7. CASE PersistAndGoOn
  BY <1>a, <1>7 DEF PersistAndGoOn, PersistTokens, Loaded
<1>8. CASE Exit
  BY <1>a, <1>8 DEF Exit, PersistTokens, Loaded
<1>9. CASE Crash
  BY <1>a, <1>9 DEF Crash
<1>10. CASE UNCHANGED vars
  BY <1>a, <1>10 DEF vars
<1> QED
  BY <1>1, <1>2, <1>3, <1>4, <1>5, <1>6, <1>7, <1>8, <1>9, <1>10 DEF Next

\* A token never stands for another device or a later time of issue than it
\* did, and what map and file have lost of it does not come back, whatever
\* crashes and whichever writes fail (OriginIsFinal).
THEOREM OriginsAreFinal == Spec => OriginIsFinal
<1>1. TypeOK /\ [Next]_vars =>
        [\A t \in drawn : Origins(t)' \subseteq Origins(t)]_vars
  BY OriginStep
<1> QED  BY <1>1, TypeCorrect, PTL DEF Spec, OriginIsFinal

-----------------------------------------------------------------------------
(* No token is drawn twice, over all the processes and files there ever    *)
(* were.                                                                   *)

\* Every token that map or file knows was drawn once.
KnownIsDrawn ==
  \A t \in Token :
    \/ IsTokenKnown(tokens, t)
    \/ IsTokenKnown(Loaded(tokensDb), t)
    => t \in drawn

\* What map and file know of a token is one device and one time of issue.
OneOrigin == \A t \in Token : \A o1, o2 \in Origins(t) : o1 = o2

\* A token without an origin is one that neither map nor file knows.
LEMMA NoOrigin ==
  \A t \in Token :
    ~IsTokenKnown(tokens, t) /\ ~IsTokenKnown(Loaded(tokensDb), t)
      <=> Origins(t) = {}
BY DEF Origins

\* KnownIsDrawn is an invariant.
LEMMA KnownIsDrawnAlways == Spec => []KnownIsDrawn
<1>1. Init => KnownIsDrawn
  BY NothingKnown DEF Init, KnownIsDrawn, Loaded
<1>2. TypeOK /\ KnownIsDrawn /\ [Next]_vars => KnownIsDrawn'
  <2> SUFFICES ASSUME TypeOK, KnownIsDrawn, [Next]_vars
               PROVE  KnownIsDrawn'
    OBVIOUS
  <2>1. drawn \subseteq drawn' /\ drawn \subseteq Token
    BY DEF Next, Boot, Tick, GetConnectUrl, OnDeviceConnected,
           DeleteTokenForId, GarbageCollectTokens, PersistAndGoOn, Exit,
           Crash, vars, TypeOK
  <2> SUFFICES ASSUME NEW t \in Token, t \notin drawn, t \notin drawn'
               PROVE  /\ ~IsTokenKnown(tokens', t)
                      /\ ~IsTokenKnown(Loaded(tokensDb'), t)
    BY <2>1 DEF KnownIsDrawn, Loaded, IsTokenKnown, EmptyMap
  <2>0. /\ now \in Nat
        /\ tokens \in TokenMaps
        /\ ~IsTokenKnown(tokens, t)
        /\ ~IsTokenKnown(Loaded(tokensDb), t)
        /\ ~IsTokenKnown(EmptyMap, t)
    BY NothingKnown DEF TypeOK, KnownIsDrawn
  <2>2. CASE Boot
    BY <2>0, <2>2 DEF Boot
  <2>3. CASE Tick
    BY <2>0, <2>3 DEF Tick
  <2>4. CASE \E d \in Device : GetConnectUrl(d)
    BY <2>0, <2>4, OperationsKeepOrigin DEF GetConnectUrl, SameOrigin
  <2>5. CASE \E d \in Device : OnDeviceConnected(d)
    BY <2>0, <2>5, OperationsKeepOrigin DEF OnDeviceConnected, SameOrigin
  <2>6. CASE \E d \in Device : DeleteTokenForId(d)
    BY <2>0, <2>6, OperationsKeepOrigin DEF DeleteTokenForId, SameOrigin
  <2>7. CASE GarbageCollectTokens
    BY <2>0, <2>7, OperationsKeepOrigin DEF GarbageCollectTokens, SameOrigin
  <2>8. CASE PersistAndGoOn
    BY <2>0, <2>8 DEF PersistAndGoOn, PersistTokens, Loaded
  <2>9. CASE Exit
    BY <2>0, <2>9 DEF Exit, PersistTokens, Loaded
  <2>10. CASE Crash
    BY <2>0, <2>10 DEF Crash
  <2>11. CASE UNCHANGED vars
    BY <2>0, <2>11 DEF vars
  <2> QED
    BY <2>2, <2>3, <2>4, <2>5, <2>6, <2>7, <2>8, <2>9, <2>10, <2>11 DEF Next
<1> QED  BY <1>1, <1>2, TypeCorrect, PTL DEF Spec

\* Map and file never disagree on the device of a token or on its time of
\* issue, however old the file is: the drawn tokens keep their origins, and a
\* new one is in the map only.
THEOREM MapAndFileAgree == Spec => []OneOrigin
<1>1. Init => OneOrigin
  BY NothingKnown, NoOrigin DEF Init, OneOrigin, Loaded
<1>2. TypeOK /\ KnownIsDrawn /\ OneOrigin /\ [Next]_vars => OneOrigin'
  <2> SUFFICES ASSUME TypeOK, KnownIsDrawn, OneOrigin, [Next]_vars,
                      NEW t \in Token
               PROVE  \A o1, o2 \in Origins(t)' : o1 = o2
    BY DEF OneOrigin
  <2>1. CASE t \in drawn
    BY <2>1, OriginStep DEF OneOrigin
  <2>2. CASE t \notin drawn
    <3>0. /\ now \in Nat
          /\ tokens \in TokenMaps
          /\ ~IsTokenKnown(tokens, t)
          /\ ~IsTokenKnown(Loaded(tokensDb), t)
      BY <2>2 DEF TypeOK, KnownIsDrawn
    <3>1. Loaded(tokensDb)' = Loaded(tokensDb')
      BY DEF Loaded
    <3>2. CASE ~IsTokenKnown(Loaded(tokensDb'), t)
      BY <3>1, <3>2 DEF Origins
    <3>3. CASE IsTokenKnown(Loaded(tokensDb'), t)
      <4>1. tokensDb' # tokensDb /\ tokensDb' # tokens /\ tokensDb' # NoDb
        BY <3>0, <3>3, NothingKnown DEF Loaded
      <4> QED
        BY <4>1 DEF Next, Boot, Tick, GetConnectUrl, OnDeviceConnected,
             DeleteTokenForId, GarbageCollectTokens, PersistAndGoOn, Exit,
             PersistTokens, Crash, vars
    <3> QED  BY <3>2, <3>3
  <2> QED  BY <2>1, <2>2
<1> QED  BY <1>1, <1>2, TypeCorrect, KnownIsDrawnAlways, PTL DEF Spec

-----------------------------------------------------------------------------
(* Without faults a used token stays used: the file always has the last    *)
(* map of the process before.                                              *)

\* What the clients count on changes by the operations on the map only.
LEMMA UsedStep ==
  ASSUME Faults = {}, TypeOK, KnownIsDrawn, [Next]_vars, NEW t \in Token,
         IsTokenKnown(Effective, t), Effective[t].used,
         IsTokenKnown(Effective', t)
  PROVE  Effective'[t].used
<1>0. /\ now \in Nat /\ up \in BOOLEAN
      /\ tokens \in TokenMaps
      /\ tokens # NoDb
  BY NoDbAssumption DEF TypeOK
<1>a. Effective' = IF up' THEN tokens' ELSE Loaded(tokensDb')
  BY DEF Effective, Loaded
<1>b. CASE Effective' = Effective
  BY <1>b
<1>c. CASE up /\ up' /\ tokens' # tokens
  <2>1. /\ Effective = tokens /\ Effective' = tokens'
        /\ IsTokenKnown(tokens, t) /\ tokens[t].used /\ t \in drawn
        /\ IsTokenKnown(tokens', t)
        /\ tokens[t] \in TokenData
    BY <1>0, <1>a, <1>c
    DEF Effective, KnownIsDrawn, IsTokenKnown, TokenMaps
  <2>2. CASE \E d \in Device : GetConnectUrl(d)
    BY <1>0, <2>1, <2>2 DEF GetConnectUrl, WithNewToken, TokenMaps
  <2>3. CASE \E d \in Device : OnDeviceConnected(d)
    BY <1>0, <2>1, <2>3 DEF OnDeviceConnected, MarkedUsed, TokenMaps, TokenData
  <2>4. CASE \E d \in Device : DeleteTokenForId(d)
    BY <2>1, <2>4 DEF DeleteTokenForId, WithoutDevice, IsTokenKnown
  <2>5. CASE GarbageCollectTokens
    BY <2>1, <2>5 DEF GarbageCollectTokens, Pruned, IsTokenKnown
  <2> QED
    BY <1>c, <2>1, <2>2, <2>3, <2>4, <2>5
    DEF Next, Boot, Tick, PersistAndGoOn, Exit, Crash, vars
<1> SUFFICES \/ Effective' = Effective
             \/ up /\ up' /\ tokens' # tokens
  BY <1>b, <1>c
<1>1. CASE Boot
  BY <1>1, <1>a DEF Boot, Effective
<1>2. CASE Exit
  BY <1>0, <1>2, <1>a DEF Exit, PersistTokens, Effective, Loaded
<1>3. CASE Crash
  BY <1>3 DEF Crash
<1>4. CASE up' = up /\ (up \/ (tokensDb' = tokensDb /\ tokens' = tokens))
  BY <1>0, <1>4, <1>a DEF Effective
<1> QED
  BY <1>1, <1>2, <1>3, <1>4
  DEF Next, Tick, GetConnectUrl, OnDeviceConnected, DeleteTokenForId,
      GarbageCollectTokens, PersistAndGoOn, vars

\* A token that was marked used is never unused again as long as no process
\* is killed and no write fails (UsedIsFinal); a run shows that one of these
\* is enough to break it.
THEOREM UsedUnlessKilled == Faults = {} /\ Spec => UsedIsFinal
<1>1. CASE Faults = {}
  <2>1. TypeOK /\ KnownIsDrawn /\ [Next]_vars =>
          [\A t \in Token :
             /\ IsTokenKnown(Effective, t)
             /\ Effective[t].used
             /\ IsTokenKnown(Effective', t)
             => Effective'[t].used]_vars
    BY <1>1, UsedStep
  <2> QED
    BY <2>1, TypeCorrect, KnownIsDrawnAlways, PTL DEF Spec, UsedIsFinal
<1> QED  BY <1>1

=============================================================================
