--------------------------- MODULE TokenMapProofs ---------------------------
(***************************************************************************)
(* What the operations on a tokens map preserve: its type, and that a      *)
(* token which is not active stays so.                                     *)
(***************************************************************************)
EXTENDS TokenMap, TLAPS

\* Every operation of the file takes a tokens map to a tokens map.
LEMMA OperationTypes ==
  ASSUME NEW m \in TokenMaps
  PROVE  /\ \A d \in Device, t \in Token, n \in Nat :
              WithNewToken(m, t, d, n) \in TokenMaps
         /\ \A d \in Device : MarkedUsed(m, d) \in TokenMaps
         /\ \A d \in Device : WithoutDevice(m, d) \in TokenMaps
         /\ \A n \in Nat : Pruned(m, n) \in TokenMaps
<1>1. ASSUME NEW d \in Device, NEW t \in Token, NEW n \in Nat
      PROVE  WithNewToken(m, t, d, n) \in TokenMaps
  BY DEF WithNewToken, TokenMaps, TokenData
<1>2. ASSUME NEW d \in Device PROVE MarkedUsed(m, d) \in TokenMaps
  BY NoDataAssumption DEF MarkedUsed, TokenMaps, TokenData, IsTokenKnown
<1>3. ASSUME NEW d \in Device PROVE WithoutDevice(m, d) \in TokenMaps
  BY DEF WithoutDevice, TokenMaps
<1>4. ASSUME NEW n \in Nat PROVE Pruned(m, n) \in TokenMaps
  BY DEF Pruned, TokenMaps
<1> QED  BY <1>1, <1>2, <1>3, <1>4

\* m2 holds no active token that m1 does not hold for the same device.
NoNewActive(m1, m2, n1, n2) ==
  \A t \in Token :
    IsTokenActive(m2, t, n2) => IsTokenActive(m1, t, n1) /\ m1[t].id = m2[t].id

\* Marking, deleting, pruning and the passing of time only retire tokens.
LEMMA OperationsRetire ==
  ASSUME NEW m \in TokenMaps, NEW n \in Nat
  PROVE  /\ \A d \in Device : NoNewActive(m, MarkedUsed(m, d), n, n)
         /\ \A d \in Device : NoNewActive(m, WithoutDevice(m, d), n, n)
         /\ NoNewActive(m, Pruned(m, n), n, n)
         /\ NoNewActive(m, m, n, n + 1)
<1> USE DEF NoNewActive, IsTokenActive, IsTokenExpired, IsTokenKnown
<1>1. ASSUME NEW d \in Device PROVE NoNewActive(m, MarkedUsed(m, d), n, n)
  BY NoDataAssumption DEF MarkedUsed, TokenMaps, TokenData
<1>2. ASSUME NEW d \in Device PROVE NoNewActive(m, WithoutDevice(m, d), n, n)
  BY DEF WithoutDevice
<1>3. NoNewActive(m, Pruned(m, n), n, n)
  BY DEF Pruned
<1>4. NoNewActive(m, m, n, n + 1)
  BY AgeAssumption, NoDataAssumption DEF TokenMaps, TokenData
<1> QED  BY <1>1, <1>2, <1>3, <1>4

=============================================================================
