----------------------------- MODULE CredLinks ------------------------------
(***************************************************************************)
(* What the credentials service promises of the links it hands out         *)
(* (src/src/credentials/credentialsFile.ts, "Sharing credentials flow"):   *)
(*                                                                         *)
(*   - a link belongs to one device and is never handed out for another;   *)
(*   - a device has one live link at a time: asking again gives the same;  *)
(*   - a link stays live until ExpireAge has passed, or until the links of  *)
(*     its device are closed, all of them together and no other: when its  *)
(*     device connects or is deleted, which happens outside of here;       *)
(*   - a link that is closed stays closed.                                 *)
(*                                                                         *)
(* open[t] is NoLink for a token that was never drawn or whose link is     *)
(* closed; drawn tells the two apart.                                      *)
(***************************************************************************)
EXTENDS Integers

CONSTANTS Device, Token, ExpireAge, NoLink

VARIABLES now, drawn, open

vars == <<now, drawn, open>>

Links == [owner : Device, born : Nat]

Live(t) == open[t] # NoLink /\ now - open[t].born =< ExpireAge

Init ==
  /\ now = 0
  /\ drawn = {}
  /\ open = [t \in Token |-> NoLink]

Tick == now' = now + 1 /\ UNCHANGED <<drawn, open>>

\* A first link for d, or a new one after the last was closed or expired.
Issue(d) ==
  /\ ~ \E t \in Token : Live(t) /\ open[t].owner = d
  /\ \E t \in Token \ drawn :
       /\ drawn' = drawn \union {t}
       /\ open' = [open EXCEPT ![t] = [owner |-> d, born |-> now]]
  /\ UNCHANGED now

\* The device connects to the VPN, or is deleted.
Retire(d) ==
  /\ open' = [t \in Token |->
                IF open[t] # NoLink /\ open[t].owner = d THEN NoLink
                                                         ELSE open[t]]
  /\ UNCHANGED <<now, drawn>>

\* The data of links that expired is dropped.
Forget ==
  /\ \A t \in Token : open'[t] = open[t] \/ (~Live(t) /\ open'[t] = NoLink)
  /\ open' \in [Token -> Links \union {NoLink}]
  /\ UNCHANGED <<now, drawn>>

Next == Tick \/ Forget \/ \E d \in Device : Issue(d) \/ Retire(d)

Spec == Init /\ [][Next]_vars

-----------------------------------------------------------------------------

\* What the users have from these promises: the links of a device that work
\* at the same time are one link,
OneLiveLink ==
  \A s, t \in Token :
    Live(s) /\ Live(t) /\ open[s].owner = open[t].owner => s = t

\* and one that does not work any more never works again, nor for anyone else.
StaysDead ==
  \A t \in drawn : Live(t)' => Live(t) /\ open'[t].owner = open[t].owner

DeadForGood == [][StaysDead]_vars

=============================================================================
