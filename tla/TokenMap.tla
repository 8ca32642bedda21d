------------------------------ MODULE TokenMap ------------------------------
(***************************************************************************)
(* The tokens map of src/src/credentials/credentialsFile.ts and the        *)
(* operations the functions of that file perform on it.  A map is a total  *)
(* function on Token whose value is NoData at the tokens it does not hold. *)
(*                                                                         *)
(* The secret key of a token is drawn with the token and never changes, so *)
(* a token stands for both.  The clock is an argument, in the unit of the  *)
(* two ages: the code compares Date.now() - created with tokenExpireMs (5  *)
(* days) and with tokenDeleteMs (30 days).                                 *)
(***************************************************************************)
EXTENDS Integers

CONSTANTS
  Device,       \* the device ids (X509 common names)
  Token,        \* the strings getRandomToken can draw
  NoData,       \* tokens.get(token) is undefined
  ExpireAge,    \* tokenExpireMs
  DeleteAge     \* tokenDeleteMs

TokenData == [id : Device, created : Nat, used : BOOLEAN]

\* A token that is kept 30 days outlives its validity of 5 days.
ASSUME AgeAssumption ==
  /\ ExpireAge \in Nat
  /\ DeleteAge \in Nat
  /\ ExpireAge =< DeleteAge

ASSUME NoDataAssumption == NoData \notin TokenData

TokenMaps == [Token -> TokenData \union {NoData}]

EmptyMap == [t \in Token |-> NoData]

IsTokenKnown(m, t) == m[t] # NoData

IsTokenExpired(m, t, now) == now - m[t].created > ExpireAge

\* The tokens getCredTokenAndKey looks for, those that neither throw "Token
\* used" nor "Token expired" in generateCredFileFromToken.
IsTokenActive(m, t, now) ==
  /\ IsTokenKnown(m, t)
  /\ ~m[t].used
  /\ ~IsTokenExpired(m, t, now)

ActiveTokens(m, d, now) ==
  {t \in Token : IsTokenActive(m, t, now) /\ m[t].id = d}

WithNewToken(m, t, d, now) ==
  [m EXCEPT ![t] = [id |-> d, created |-> now, used |-> FALSE]]

\* onDeviceConnected: every token of the device, known to be active or not.
MarkedUsed(m, d) ==
  [t \in Token |->
     IF IsTokenKnown(m, t) /\ m[t].id = d THEN [m[t] EXCEPT !.used = TRUE]
                                          ELSE m[t]]

\* deleteTokenForId
WithoutDevice(m, d) ==
  [t \in Token |-> IF IsTokenKnown(m, t) /\ m[t].id = d THEN NoData ELSE m[t]]

\* Mutant: only used tokens are pruned.
PrunedUsedOnly(m, now) ==
  [t \in Token |->
     IF IsTokenKnown(m, t) /\ m[t].used /\ now - m[t].created > DeleteAge
     THEN NoData ELSE m[t]]

\* Mutant: the pruning age is taken for the expiry age, and is off by one.
PrunedEarly(m, now) ==
  [t \in Token |->
     IF IsTokenKnown(m, t) /\ now - m[t].created >= ExpireAge
     THEN NoData ELSE m[t]]

\* garbageCollectTokens
Pruned(m, now) ==
  [t \in Token |->
     IF IsTokenKnown(m, t) /\ now - m[t].created > DeleteAge
     THEN NoData ELSE m[t]]

=============================================================================
