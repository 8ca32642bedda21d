--------------------------- MODULE AdminLinkProofs --------------------------
(***************************************************************************)
(* Proofs about AdminLink: a command that was told READY meets a server    *)
(* with a hostname unless the container ended since, the cached IP is never*)
(* older than it was, and who waits is not forgotten, for any number of    *)
(* commands, retries, kills and changes of the IP.                         *)
(***************************************************************************)
EXTENDS AdminLink, TLAPS

\* A server has its hostname from the end of the fetch on, and is READY last; one
\* that said so stays there until the container ends.
ReadyInv ==
  /\ \A c \in Cmd : saw[c] => boot = "end" \/ died[c]
  /\ boot \in {"init", "admin", "end"} => hostname
  /\ status = "READY" => boot \in {"end", "off"}
  /\ call[Start].at # "none" => boot = "admin"

\* What the IPs that are kept, on their way and in the DAPPMANAGER have to do
\* with each other.
IpInv ==
  /\ floor =< internalIp /\ internalIp =< dmIp
  /\ (\A x \in Caller : ~Fetching(x)) => floor = internalIp
  /\ \A x \in Caller :
       Fetching(x) =>
         call[x].ip = 0 \/ (floor =< call[x].ip /\ call[x].ip =< dmIp)

-----------------------------------------------------------------------------
(* Types.                                                                  *)

LEMMA NoCallIsACall ==
  [x \in Caller |-> NoCall] \in [Caller -> Calls \union {NoCall}]
OBVIOUS

LEMMA EndsTypes ==
  ASSUME TypeOK, Ends, UNCHANGED dmIp, dm' \in {"down", "empty", "up", "hung"},
         faults' \in 0..MaxFaults, died' \in [Cmd -> BOOLEAN]
  PROVE  TypeOK'
<1> USE AdminLinkAssumption DEF TypeOK, Ends, Under, Over
<1>1. call' \in [Caller -> Calls \union {NoCall}]
  BY NoCallIsACall
<1>2. cmd' \in [Cmd -> {"none"} \union Under \union Over]
  OBVIOUS
<1>3. internalIp' \in 0..MaxIp /\ floor' \in 0..MaxIp
  OBVIOUS
<1> QED  BY <1>1, <1>2, <1>3

LEMMA ReturnsTypes ==
  ASSUME TypeOK, NEW x \in Caller, NEW outcome \in Over, Returns(x, outcome)
  PROVE  /\ call' \in [Caller -> Calls \union {NoCall}]
         /\ boot' \in {"off", "fetch", "init", "admin", "end"}
         /\ status' \in Statuses
         /\ cmd' \in [Cmd -> {"none"} \union Under \union Over]
         /\ UNCHANGED <<hostname, gotTry, try, polls, saw, died>>
BY DEF TypeOK, Returns, Answered, Statuses, Caller

\* Every step keeps the types.
LEMMA TypesKept == TypeOK /\ [Next]_vars => TypeOK'
<1> SUFFICES ASSUME TypeOK, [Next]_vars PROVE TypeOK'
  OBVIOUS
<1> USE AdminLinkAssumption DEF TypeOK, Statuses, server, cache, client
<1>1. CASE DappmanagerChanges
  BY <1>1 DEF DappmanagerChanges
<1>2. CASE NewIp
  BY <1>2 DEF NewIp
<1>3. CASE Boot
  BY <1>3 DEF Boot
<1>4. CASE FetchHostname
  BY <1>4 DEF FetchHostname
<1>5. CASE GotAgain
  BY <1>5 DEF GotAgain
<1>6. CASE FetchAgain
  BY <1>6 DEF FetchAgain
<1>7. CASE GiveUp
  BY <1>7, EndsTypes DEF GiveUp
<1>8. CASE Initialize
  <2>1. [at |-> "askIp", ip |-> 0] \in Calls
    BY DEF Calls
  <2> QED  BY <1>8, <2>1 DEF Initialize
<1>9. CASE Dies
  <2>1. faults' \in 0..MaxFaults
    BY <1>9 DEF Dies
  <2> QED  BY <1>9, <2>1, EndsTypes DEF Dies
<1>10. ASSUME NEW x \in Caller, AskIp(x)
       PROVE  TypeOK'
  <2>1. [at |-> "takeIp", ip |-> IF dm = "up" THEN dmIp ELSE 0] \in Calls
    BY DEF Calls
  <2> QED  BY <1>10, <2>1 DEF AskIp
<1>11. ASSUME NEW x \in Caller, TakeIp(x)
       PROVE  TypeOK'
  <2>1. call[x] \in Calls
    BY <1>11 DEF TakeIp, Fetching, NoCall
  <2>2. internalIp' \in 0..MaxIp
    BY <1>11, <2>1 DEF TakeIp, Calls
  <2>3. floor' \in 0..MaxIp
    BY <1>11, <2>2 DEF TakeIp, Settles
  <2>4. CASE /\ call' = [call EXCEPT ![x] = [at |-> "getClient", ip |-> 0]]
             /\ UNCHANGED <<server, client>>
    <3>1. [at |-> "getClient", ip |-> 0] \in Calls
      BY DEF Calls
    <3> QED  BY <1>11, <2>2, <2>3, <2>4, <3>1 DEF TakeIp
  <2>5. CASE Returns(x, "failed")
    BY <1>11, <2>2, <2>3, <2>5, ReturnsTypes DEF TakeIp, Over
  <2> QED  BY <1>11, <2>4, <2>5 DEF TakeIp
<1>12. ASSUME NEW x \in Caller, MakeUrl(x)
       PROVE  TypeOK'
  <2>1. PICK outcome \in Over : Returns(x, outcome)
    BY <1>12 DEF MakeUrl, Over
  <2> QED  BY <1>12, <2>1, ReturnsTypes DEF MakeUrl
<1>13. ASSUME NEW c \in Cmd, PollReady(c)
       PROVE  TypeOK'
  BY <1>13 DEF PollReady, Under
<1>14. ASSUME NEW c \in Cmd, PollAgain(c)
       PROVE  TypeOK'
  BY <1>14 DEF PollAgain, Over
<1>15. ASSUME NEW c \in Cmd, PostCall(c)
       PROVE  TypeOK'
  <2>1. [at |-> "askIp", ip |-> 0] \in Calls
    BY DEF Calls
  <2> QED  BY <1>15, <2>1 DEF PostCall, Under, Over, Caller
<1>16. ASSUME NEW c \in Cmd, RunGetAdmin(c)
       PROVE  TypeOK'
  BY <1>16 DEF RunGetAdmin, Under
<1>17. ASSUME NEW c \in Cmd, RunVpncliGet(c)
       PROVE  TypeOK'
  BY <1>17 DEF RunVpncliGet, Under
<1>18. ASSUME NEW c \in Cmd, Interrupt(c)
       PROVE  TypeOK'
  BY <1>18 DEF Interrupt, Over
<1>19. CASE UNCHANGED vars
  BY <1>19 DEF vars
<1> QED  BY <1>1, <1>2, <1>3, <1>4, <1>5, <1>6, <1>7, <1>8, <1>9, <1>10, <1>11,
            <1>12, <1>13, <1>14, <1>15, <1>16, <1>17, <1>18, <1>19
         DEF Next, ServerStep, CallStep, CmdStep

LEMMA InitTypes == Init => TypeOK
<1>1. /\ 1 \in 1..MaxIp /\ 0 \in 0..MaxIp
      /\ 0 \in 0..GotRetries /\ 0 \in 0..Retries
      /\ 0 \in 0..ClientRetries /\ 0 \in 0..MaxFaults
  BY AdminLinkAssumption
<1> QED  BY <1>1, NoCallIsACall DEF Init, TypeOK, Statuses

\* The variables keep their types; the retries stay in their bounds.
THEOREM TypeCorrect == Spec => []TypeOK
BY InitTypes, TypesKept, PTL DEF Spec

-----------------------------------------------------------------------------
(* READY.                                                                  *)

\* The end of a process takes its hostname, and was noted for the commands it
\* told READY.
LEMMA EndsReady ==
  ASSUME TypeOK, Ends, \A c \in Cmd : saw[c] => died'[c]
  PROVE  ReadyInv'
<1>1. Start \in Caller
  BY DEF Caller
<1> QED  BY <1>1 DEF TypeOK, Ends, ReadyInv, NoCall

\* A call that goes on or ends keeps the invariant.
LEMMA ReturnsReady ==
  ASSUME TypeOK, ReadyInv, NEW x \in Caller, call[x].at # "none",
         NEW outcome, Returns(x, outcome)
  PROVE  ReadyInv'
<1>1. Start \in Caller
  BY DEF Caller
<1> QED  BY <1>1 DEF TypeOK, ReadyInv, Returns, NoCall

LEMMA CallGoesOnReady ==
  ASSUME TypeOK, ReadyInv, NEW x \in Caller, call[x].at # "none", NEW next,
         call' = [call EXCEPT ![x] = next],
         UNCHANGED <<server, client>>
  PROVE  ReadyInv'
<1>1. Start \in Caller
  BY DEF Caller
<1> QED  BY <1>1 DEF TypeOK, ReadyInv, server, client

LEMMA ReadyKept == TypeOK /\ ReadyInv /\ [Next]_vars => ReadyInv'
<1> SUFFICES ASSUME TypeOK, ReadyInv, [Next]_vars PROVE ReadyInv'
  OBVIOUS
<1> USE AdminLinkAssumption DEF TypeOK, ReadyInv, server, client
<1>s. Start \in Caller /\ \A c \in Cmd : c \in Caller /\ c # Start
  BY DEF Caller
<1>1. CASE DappmanagerChanges
  BY <1>1 DEF DappmanagerChanges
<1>2. CASE NewIp
  BY <1>2 DEF NewIp
<1>3. CASE Boot
  BY <1>3 DEF Boot
<1>4. CASE FetchHostname
  BY <1>4 DEF FetchHostname
<1>5. CASE GotAgain
  BY <1>5 DEF GotAgain
<1>6. CASE FetchAgain
  BY <1>6 DEF FetchAgain, FetchFails
<1>7. CASE GiveUp
  BY <1>7, EndsReady DEF GiveUp, FetchFails
<1>8. CASE Initialize
  BY <1>8, <1>s DEF Initialize
<1>9. CASE Dies
  BY <1>9, EndsReady DEF Dies
<1>10. ASSUME NEW x \in Caller, AskIp(x)
       PROVE  ReadyInv'
  BY <1>10, CallGoesOnReady DEF AskIp
<1>11. ASSUME NEW x \in Caller, TakeIp(x)
       PROVE  ReadyInv'
  <2>1. call[x].at # "none"
    BY <1>11 DEF TakeIp, Fetching
  <2> QED  BY <1>11, <2>1, CallGoesOnReady, ReturnsReady DEF TakeIp
<1>12. ASSUME NEW x \in Caller, MakeUrl(x)
       PROVE  ReadyInv'
  <2>1. call[x].at # "none"
    BY <1>12 DEF MakeUrl
  <2> QED  BY <1>12, <2>1, ReturnsReady DEF MakeUrl
<1>13. ASSUME NEW c \in Cmd, PollReady(c)
       PROVE  ReadyInv'
  BY <1>13 DEF PollReady, IsReady
<1>14. ASSUME NEW c \in Cmd, PollAgain(c)
       PROVE  ReadyInv'
  BY <1>14 DEF PollAgain
<1>15. ASSUME NEW c \in Cmd, PostCall(c)
       PROVE  ReadyInv'
  BY <1>15, <1>s DEF PostCall
<1>16. ASSUME NEW c \in Cmd, RunGetAdmin(c)
       PROVE  ReadyInv'
  BY <1>16 DEF RunGetAdmin
<1>17. ASSUME NEW c \in Cmd, RunVpncliGet(c)
       PROVE  ReadyInv'
  BY <1>17 DEF RunVpncliGet
<1>18. ASSUME NEW c \in Cmd, Interrupt(c)
       PROVE  ReadyInv'
  BY <1>18 DEF Interrupt
<1>19. CASE UNCHANGED vars
  BY <1>19 DEF vars
<1> QED  BY <1>1, <1>2, <1>3, <1>4, <1>5, <1>6, <1>7, <1>8, <1>9, <1>10, <1>11,
            <1>12, <1>13, <1>14, <1>15, <1>16, <1>17, <1>18, <1>19
         DEF Next, ServerStep, CallStep, CmdStep

\* A command that was told READY meets a server with a hostname unless the
\* container ended after it was told, for any number of commands and restarts.
THEOREM ReadyCommandsGetUrl == Spec => []ReadyMeansUrl
<1>1. Init => ReadyInv
  BY DEF Init, ReadyInv, Caller, NoCall
<1>2. ReadyInv => ReadyMeansUrl
  BY DEF ReadyInv, ReadyMeansUrl
<1> QED  BY <1>1, <1>2, ReadyKept, TypeCorrect, PTL DEF Spec

-----------------------------------------------------------------------------
(* The cached IP.                                                          *)

\* A step in which nothing is asked or answered.
LEMMA NoFetchChanges ==
  ASSUME TypeOK, IpInv, UNCHANGED cache, dmIp' \in Nat, dmIp =< dmIp',
         \A x \in Caller : (Fetching(x))' <=> Fetching(x),
         \A x \in Caller : Fetching(x) => call'[x] = call[x]
  PROVE  IpInv'
<1>1. \A x \in Caller : Fetching(x) => call[x] \in Calls
  BY DEF TypeOK, Fetching, NoCall
<1>2. \A x \in Caller : Fetching(x) => call[x].ip \in 0..MaxIp
  BY <1>1 DEF Calls
<1>3. floor' =< internalIp' /\ internalIp' =< dmIp'
  BY AdminLinkAssumption DEF TypeOK, IpInv, cache
<1>4. (\A x \in Caller : ~(Fetching(x))') => floor' = internalIp'
  BY DEF IpInv, cache
<1>5. ASSUME NEW x \in Caller, (Fetching(x))'
      PROVE  call'[x].ip = 0 \/ (floor' =< call'[x].ip /\ call'[x].ip =< dmIp')
  <2>1. Fetching(x) /\ call'[x] = call[x]
    BY <1>5
  <2> QED  BY <1>2, <2>1, AdminLinkAssumption DEF TypeOK, IpInv, cache
<1> QED  BY <1>3, <1>4, <1>5 DEF IpInv, Fetching

LEMMA EndsIp == ASSUME TypeOK, Ends, UNCHANGED dmIp PROVE IpInv'
<1>1. \A x \in Caller : ~(Fetching(x))'
  BY DEF Ends, Fetching, NoCall
<1> QED  BY <1>1, AdminLinkAssumption DEF TypeOK, Ends, IpInv, Fetching

\* The call of x is none that fetches, before and after the step.
LEMMA OtherCallIp ==
  ASSUME TypeOK, IpInv, UNCHANGED <<cache, dmIp>>, NEW x \in Caller, NEW next,
         call' = [call EXCEPT ![x] = next], ~Fetching(x), next.at # "takeIp"
  PROVE  IpInv'
<1>1. \A y \in Caller : y # x => call'[y] = call[y]
  BY DEF TypeOK
<1>2. ~(Fetching(x))'
  BY DEF TypeOK, Fetching
<1>3. \A y \in Caller : (Fetching(y))' <=> Fetching(y)
  BY <1>1, <1>2 DEF Fetching
<1>4. \A y \in Caller : Fetching(y) => call'[y] = call[y]
  BY <1>1
<1>5. dmIp' \in Nat /\ dmIp =< dmIp'
  BY AdminLinkAssumption DEF TypeOK
<1> QED  BY <1>3, <1>4, <1>5, NoFetchChanges

LEMMA AskIpKeeps ==
  ASSUME TypeOK, IpInv, NEW x \in Caller, AskIp(x)
  PROVE  IpInv'
<1> USE AdminLinkAssumption DEF TypeOK
<1>1. \A y \in Caller : y # x => call'[y] = call[y]
  BY DEF AskIp
<1>2. call'[x].at = "takeIp" /\ call'[x].ip = IF dm = "up" THEN dmIp ELSE 0
  BY DEF AskIp
<1>3. UNCHANGED <<internalIp, floor, dmIp>>
  BY DEF AskIp, cache
<1>4. floor =< dmIp
  BY DEF IpInv
<1>5. ASSUME NEW y \in Caller, (Fetching(y))'
      PROVE  call'[y].ip = 0 \/ (floor' =< call'[y].ip /\ call'[y].ip =< dmIp')
  <2>1. CASE y = x
    BY <1>2, <1>3, <1>4, <2>1
  <2>2. CASE y # x
    BY <1>1, <1>3, <1>5, <2>2 DEF IpInv, Fetching
  <2> QED  BY <2>1, <2>2
<1>6. (Fetching(x))'
  BY <1>2 DEF Fetching
<1> QED  BY <1>3, <1>5, <1>6 DEF IpInv, Fetching

LEMMA TakeIpKeeps ==
  ASSUME TypeOK, IpInv, NEW x \in Caller, TakeIp(x)
  PROVE  IpInv'
<1> USE AdminLinkAssumption DEF TypeOK
<1>1. \A y \in Caller : y # x => call'[y] = call[y]
  BY DEF TakeIp, Returns
<1>2. ~(Fetching(x))'
  BY DEF TakeIp, Returns, Fetching, NoCall
<1>3. dmIp' = dmIp /\ Settles /\ Fetching(x)
      /\ internalIp' = IF call[x].ip # 0 THEN call[x].ip ELSE internalIp
  BY DEF TakeIp
<1>4. call[x] \in Calls
  BY <1>3 DEF Fetching, NoCall
<1>5. internalIp' \in 0..MaxIp
  BY <1>3, <1>4 DEF Calls
<1>6. floor =< internalIp' /\ internalIp' =< dmIp
  BY <1>3, <1>4 DEF IpInv, Calls
<1>7. /\ floor' \in {floor, internalIp'}
      /\ (\A y \in Caller : ~(Fetching(y))') => floor' = internalIp'
      /\ (\E y \in Caller : (Fetching(y))') => floor' = floor
  BY <1>3 DEF Settles, Fetching
<1>8. floor' =< internalIp' /\ internalIp' =< dmIp'
  BY <1>3, <1>5, <1>6, <1>7
<1>9. ASSUME NEW y \in Caller, (Fetching(y))'
      PROVE  call'[y].ip = 0 \/ (floor' =< call'[y].ip /\ call'[y].ip =< dmIp')
  <2>1. y # x /\ floor' = floor /\ call'[y] = call[y] /\ Fetching(y)
    BY <1>1, <1>2, <1>7, <1>9 DEF Fetching
  <2> QED  BY <1>3, <2>1 DEF IpInv
<1> QED  BY <1>7, <1>8, <1>9 DEF IpInv, Fetching

\* A call is made only when there is none: by a start that is not there yet,
\* and by a command that waits for none.
FreeInv ==
  /\ boot = "init" => call[Start].at = "none"
  /\ \A c \in Cmd : cmd[c] \in {"poll", "call"} => call[c].at = "none"

LEMMA FreeKept == TypeOK /\ ReadyInv /\ FreeInv /\ [Next]_vars => FreeInv'
<1> SUFFICES ASSUME TypeOK, ReadyInv, FreeInv, [Next]_vars PROVE FreeInv'
  OBVIOUS
<1>r. ReadyInv'
  BY ReadyKept
<1>1. boot' = "init" => call'[Start].at = "none"
  BY <1>r DEF ReadyInv
<1> USE AdminLinkAssumption DEF TypeOK, FreeInv, server, client
<1>s. Cmd \subseteq Caller /\ \A c \in Cmd : c # Start
  BY DEF Caller
<1>2. ASSUME NEW c \in Cmd, cmd'[c] \in {"poll", "call"}
      PROVE  call'[c].at = "none"
  <2>c. \A x \in Caller : call[x].at # "none" \/ call[x] = NoCall
    BY DEF Calls
  <2>1. CASE DappmanagerChanges \/ NewIp \/ Boot \/ FetchHostname \/ GotAgain
             \/ FetchAgain \/ UNCHANGED vars
    BY <1>2, <2>1
    DEF DappmanagerChanges, NewIp, Boot, FetchHostname, GotAgain, FetchAgain,
        vars
  <2>2. CASE GiveUp \/ Dies
    BY <1>2, <1>s, <2>2 DEF GiveUp, Dies, Ends, NoCall
  <2>3. CASE Initialize
    BY <1>2, <1>s, <2>3 DEF Initialize
  <2>4. ASSUME NEW x \in Caller, AskIp(x)
        PROVE  call'[c].at = "none"
    BY <1>2, <1>s, <2>4 DEF AskIp
  <2>5. ASSUME NEW x \in Caller, Returns(x, "printed") \/ Returns(x, "failed")
        PROVE  call'[c].at = "none"
    BY <1>2, <1>s, <2>5 DEF Returns, Answered, NoCall
  <2>6. ASSUME NEW x \in Caller, TakeIp(x)
        PROVE  call'[c].at = "none"
    BY <1>2, <1>s, <2>5, <2>6 DEF TakeIp, Fetching
  <2>7. ASSUME NEW x \in Caller, MakeUrl(x)
        PROVE  call'[c].at = "none"
    BY <2>5, <2>7 DEF MakeUrl
  <2>8. ASSUME NEW e \in Cmd, CmdStep(e) \/ Interrupt(e)
        PROVE  call'[c].at = "none"
    BY <1>2, <1>s, <2>8
    DEF CmdStep, PollReady, PollAgain, PostCall, Interrupt
  <2>9. ASSUME NEW e \in Cmd, RunGetAdmin(e) \/ RunVpncliGet(e)
        PROVE  call'[c].at = "none"
    <3>1. CASE c = e
      BY <1>s, <2>9, <3>1 DEF RunGetAdmin, RunVpncliGet, Free, NoCall
    <3>2. CASE c # e
      BY <1>2, <2>9, <3>2 DEF RunGetAdmin, RunVpncliGet
    <3> QED  BY <3>1, <3>2
  <2>10. ASSUME NEW x \in Caller, CallStep(x)
         PROVE  call'[c].at = "none"
    BY <2>4, <2>6, <2>7, <2>10 DEF CallStep
  <2> QED  BY <2>1, <2>2, <2>3, <2>8, <2>9, <2>10 DEF Next, ServerStep
<1> QED  BY <1>1, <1>2

LEMMA IpKept == TypeOK /\ FreeInv /\ IpInv /\ [Next]_vars => IpInv'
<1> SUFFICES ASSUME TypeOK, FreeInv, IpInv, [Next]_vars PROVE IpInv'
  OBVIOUS
<1>s. Start \in Caller /\ Cmd \subseteq Caller
  BY DEF Caller
<1>n. dmIp \in Nat
  BY AdminLinkAssumption DEF TypeOK
<1>a. [at |-> "askIp", ip |-> 0].at # "takeIp"
  OBVIOUS
<1>u. ASSUME UNCHANGED <<call, cache>>, dmIp' \in Nat, dmIp =< dmIp'
      PROVE  IpInv'
  BY <1>u, NoFetchChanges DEF Fetching
<1>1. CASE GiveUp
  BY <1>1, EndsIp DEF GiveUp
<1>2. CASE Dies
  BY <1>2, EndsIp DEF Dies
<1>3. ASSUME NEW x \in Caller, CallStep(x)
      PROVE  IpInv'
  <2>1. CASE AskIp(x)
    BY <2>1, AskIpKeeps
  <2>2. CASE TakeIp(x)
    BY <2>2, TakeIpKeeps
  <2>3. CASE MakeUrl(x)
    <3>1. call' = [call EXCEPT ![x] = NoCall] /\ UNCHANGED <<cache, dmIp>>
      BY <2>3 DEF MakeUrl, Returns
    <3>2. ~Fetching(x) /\ NoCall.at # "takeIp"
      BY <2>3 DEF MakeUrl, Fetching, NoCall
    <3> QED  BY <3>1, <3>2, OtherCallIp
  <2> QED  BY <1>3, <2>1, <2>2, <2>3 DEF CallStep
<1>4. CASE Initialize
  <2>1. ~Fetching(Start)
    BY <1>4 DEF Initialize, FreeInv, Fetching
  <2>2. /\ call' = [call EXCEPT ![Start] = [at |-> "askIp", ip |-> 0]]
        /\ UNCHANGED <<cache, dmIp>>
    BY <1>4 DEF Initialize
  <2> QED  BY <1>s, <1>a, <2>1, <2>2, OtherCallIp
<1>5. ASSUME NEW c \in Cmd, PostCall(c)
      PROVE  IpInv'
  <2>1. ~Fetching(c) /\ c \in Caller
    BY <1>5, <1>s DEF PostCall, FreeInv, Fetching
  <2>2. CASE call' = [call EXCEPT ![c] = [at |-> "askIp", ip |-> 0]]
    <3>1. UNCHANGED <<cache, dmIp>>
      BY <1>5 DEF PostCall
    <3> QED  BY <1>a, <2>1, <2>2, <3>1, OtherCallIp
  <2>3. CASE UNCHANGED call
    BY <1>5, <1>n, <1>u, <2>3 DEF PostCall
  <2> QED  BY <1>5, <2>2, <2>3 DEF PostCall
<1>6. CASE NewIp
  BY <1>6, <1>n, <1>u DEF NewIp
<1>7. CASE DappmanagerChanges \/ Boot \/ FetchHostname \/ GotAgain \/ FetchAgain
           \/ UNCHANGED vars
  BY <1>7, <1>n, <1>u
  DEF DappmanagerChanges, Boot, FetchHostname, GotAgain, FetchAgain, vars
<1>8. ASSUME NEW c \in Cmd,
             \/ PollReady(c) \/ PollAgain(c)
             \/ RunGetAdmin(c) \/ RunVpncliGet(c) \/ Interrupt(c)
      PROVE  IpInv'
  BY <1>8, <1>n, <1>u
  DEF PollReady, PollAgain, RunGetAdmin, RunVpncliGet, Interrupt
<1> QED  BY <1>1, <1>2, <1>3, <1>4, <1>5, <1>6, <1>7, <1>8
         DEF Next, ServerStep, CmdStep

\* The IP that getInternalIpCached keeps is at least as new as it was when no
\* fetch was last under way, for any number of overlapping fetches.
THEOREM CachedIpIsKept == Spec => []IpNeverGoesBack
<1>1. Init => ReadyInv /\ FreeInv /\ IpInv
  BY AdminLinkAssumption
  DEF Init, ReadyInv, FreeInv, IpInv, Caller, NoCall, Fetching
<1>2. IpInv => IpNeverGoesBack
  BY DEF IpInv, IpNeverGoesBack
<1> QED  BY <1>1, <1>2, ReadyKept, FreeKept, IpKept, TypeCorrect, PTL DEF Spec

-----------------------------------------------------------------------------
(* Nobody waits for a call that is gone: the part of ServerGetsReady and   *)
(* CommandEnds that does not depend on fairness.                           *)

\* A call ends only by telling who waits for it.
LEMMA ReturnsTells ==
  ASSUME TypeOK, NobodyIsForgotten, NEW x \in Caller, NEW outcome \in Over,
         call[x] # NoCall, Returns(x, outcome)
  PROVE  NobodyIsForgotten'
<1> USE AdminLinkAssumption DEF TypeOK, NobodyIsForgotten, Returns
<1>1. Start \in Caller /\ Cmd \subseteq Caller
  BY DEF Caller
<1>2. boot' = "admin" <=> call'[Start] # NoCall
  <2>1. CASE x = Start
    BY <1>1, <2>1
  <2>2. CASE x # Start
    BY <1>1, <2>2
  <2> QED  BY <2>1, <2>2
<1>3. ASSUME NEW c \in Cmd, cmd'[c] = "wait"
      PROVE  call'[c] # NoCall
  <2>1. cmd[c] = "wait" /\ c # x
    BY <1>1, <1>3 DEF Answered, Over, Caller
  <2> QED  BY <1>1, <2>1
<1> QED  BY <1>2, <1>3

\* A call that goes on is still there.
LEMMA GoesOnTells ==
  ASSUME TypeOK, NobodyIsForgotten, NEW x \in Caller, NEW next,
         call[x] # NoCall, next # NoCall, call' = [call EXCEPT ![x] = next],
         UNCHANGED <<server, client>>
  PROVE  NobodyIsForgotten'
<1>1. Start \in Caller /\ Cmd \subseteq Caller
  BY DEF Caller
<1> QED  BY <1>1 DEF TypeOK, NobodyIsForgotten, server, client

\* A process that ends answers everyone: its connections are closed.
LEMMA EndsTells ==
  ASSUME TypeOK, Ends
  PROVE  NobodyIsForgotten'
<1>1. Start \in Caller
  BY DEF Caller
<1> QED  BY <1>1 DEF TypeOK, Ends, NobodyIsForgotten

\* Every step keeps NobodyIsForgotten.
LEMMA ForgottenKept ==
  TypeOK /\ NobodyIsForgotten /\ [Next]_vars => NobodyIsForgotten'
<1> SUFFICES ASSUME TypeOK, NobodyIsForgotten, [Next]_vars
             PROVE  NobodyIsForgotten'
  OBVIOUS
<1> USE AdminLinkAssumption DEF TypeOK, NobodyIsForgotten, server, client
<1>s. /\ Start \in Caller /\ Cmd \subseteq Caller
      /\ \A c \in Cmd : c # Start
  BY DEF Caller
<1>a. \A ip : \A at \in {"askIp", "takeIp", "getClient"} :
        [at |-> at, ip |-> ip] # NoCall
  BY DEF NoCall
<1>1. CASE DappmanagerChanges \/ NewIp \/ UNCHANGED vars
  BY <1>1 DEF DappmanagerChanges, NewIp, vars
<1>2. CASE Boot \/ FetchHostname \/ GotAgain \/ FetchAgain
  BY <1>2 DEF Boot, FetchHostname, GotAgain, FetchAgain
<1>3. CASE GiveUp \/ Dies
  BY <1>3, EndsTells DEF GiveUp, Dies
<1>4. CASE Initialize
  BY <1>4, <1>s, <1>a DEF Initialize
<1>5. ASSUME NEW x \in Caller, AskIp(x)
      PROVE  NobodyIsForgotten'
  <2>1. call[x] # NoCall
    BY <1>5 DEF AskIp, NoCall
  <2> QED  BY <1>5, <1>a, <2>1, GoesOnTells DEF AskIp
<1>6. ASSUME NEW x \in Caller, TakeIp(x)
      PROVE  NobodyIsForgotten'
  <2>1. call[x] # NoCall /\ "failed" \in Over
    BY <1>6 DEF TakeIp, Fetching, NoCall, Over
  <2> QED  BY <1>6, <1>a, <2>1, GoesOnTells, ReturnsTells DEF TakeIp
<1>7. ASSUME NEW x \in Caller, MakeUrl(x)
      PROVE  NobodyIsForgotten'
  <2>1. call[x] # NoCall /\ {"printed", "failed"} \subseteq Over
    BY <1>7 DEF MakeUrl, NoCall, Over
  <2> QED  BY <1>7, <2>1, ReturnsTells DEF MakeUrl
<1>8. ASSUME NEW c \in Cmd, PostCall(c)
      PROVE  NobodyIsForgotten'
  BY <1>8, <1>s, <1>a DEF PostCall
<1>9. ASSUME NEW c \in Cmd,
             \/ PollReady(c) \/ PollAgain(c)
             \/ RunGetAdmin(c) \/ RunVpncliGet(c) \/ Interrupt(c)
      PROVE  NobodyIsForgotten'
  BY <1>9 DEF PollReady, PollAgain, RunGetAdmin, RunVpncliGet, Interrupt
<1> QED  BY <1>1, <1>2, <1>3, <1>4, <1>5, <1>6, <1>7, <1>8, <1>9
         DEF Next, ServerStep, CallStep, CmdStep

\* A start that awaits getMasterAdminCred, and a command that awaits its link,
\* always have a call under way that ends by answering them.
THEOREM WaitersAreAnswered == Spec => []NobodyIsForgotten
<1>1. Init => NobodyIsForgotten
  BY DEF Init, NobodyIsForgotten, Caller
<1> QED  BY <1>1, ForgottenKept, TypeCorrect, PTL DEF Spec

=============================================================================
