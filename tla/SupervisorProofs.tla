-------------------------- MODULE SupervisorProofs --------------------------
(***************************************************************************)
(* Proofs about Supervisor: with any delays of which that of a restart is  *)
(* the shorter one, and restarts asked for while no start is due, there is *)
(* one child at most and a stop reaches it; and whatever the delays, and   *)
(* whenever restarts are asked for, something is due that runs openvpn.    *)
(***************************************************************************)
EXTENDS Supervisor, TLAPS

\* What the program as a whole guarantees of the calls, and of the delays.
Usage == ~AnyTime /\ RestartDelay < RestartWait

OneTimer(t, wait) ==
  /\ \A n \in 0..wait : t[n] =< 1
  /\ \A n, m \in 0..wait : t[n] > 0 /\ t[m] > 0 => n = m

\* The child the supervisor knows is the only one that runs or whose exit is
\* on its way.
KnowsChild == alive \union exited \subseteq {child}

\* A start is due only once, and only when nothing runs.
StartInv ==
  /\ OneTimer(startIn, RestartWait)
  /\ StartPending => alive \union exited = {}

\* A restart is due only once, while crashQueued is set, before any start that
\* is due, and finds no child only when no start is due.
RestartInv ==
  /\ OneTimer(restartIn, RestartDelay)
  /\ RestartPending => crashQueued
  /\ \A n \in 0..RestartDelay, m \in 0..RestartWait :
       restartIn[n] > 0 /\ startIn[m] > 0 => n < m
  /\ child = NoChild /\ crashQueued => ~StartPending

Inv ==
  /\ TypeOK
  /\ on => KnowsChild /\ StartInv /\ RestartInv
  /\ ~on => alive \subseteq killed /\ OneChild

-----------------------------------------------------------------------------

LEMMA TimersChange ==
  ASSUME NEW wait \in Nat, NEW t \in Timers(wait)
  PROVE  /\ t[wait] < MaxTimers => Added(t, wait) \in Timers(wait)
         /\ t[0] > 0 => Fired(t) \in Timers(wait)
         /\ Elapsed(t, wait) \in Timers(wait)
         /\ NoTimer(wait) \in Timers(wait)
<1> USE SupervisorAssumption DEF Timers
<1>1. wait \in 0..wait /\ 0 \in 0..wait
  OBVIOUS
<1>2. t[wait] < MaxTimers => Added(t, wait) \in Timers(wait)
  <2>1. t[wait] < MaxTimers => t[wait] + 1 \in 0..MaxTimers
    BY <1>1
  <2> QED  BY <1>1, <2>1 DEF Added
<1>3. t[0] > 0 => Fired(t) \in Timers(wait)
  <2>1. t[0] > 0 => t[0] - 1 \in 0..MaxTimers
    BY <1>1
  <2> QED  BY <1>1, <2>1 DEF Fired
<1>4. Elapsed(t, wait) \in Timers(wait)
  <2>1. \A n \in 0..wait : n # wait => n + 1 \in 0..wait
    OBVIOUS
  <2> QED  BY <2>1 DEF Elapsed
<1>5. NoTimer(wait) \in Timers(wait)
  BY DEF NoTimer
<1> QED  BY <1>2, <1>3, <1>4, <1>5

LEMMA StartChildTypes ==
  ASSUME TypeOK, StartChild
  PROVE  /\ child' \in Pid /\ crashQueued' = FALSE
         /\ alive' \subseteq Pid /\ alive \subseteq alive'
         /\ alive' \intersect exited = {}
         /\ failed' \in BOOLEAN
         /\ alive' \subseteq alive \union {child'}
BY DEF TypeOK, StartChild

\* Every step keeps the types.
LEMMA TypesKept == TypeOK /\ [Next]_vars => TypeOK'
<1> SUFFICES ASSUME TypeOK, [Next]_vars PROVE TypeOK'
  OBVIOUS
<1> USE SupervisorAssumption DEF TypeOK
<1>1. CASE RestartChild
  BY <1>1, TimersChange DEF RestartChild
<1>2. CASE RestartTimer
  <2>1. restartIn' \in Timers(RestartDelay)
    BY <1>2, TimersChange DEF RestartTimer
  <2>2. CASE StartChild /\ UNCHANGED killed
    BY <1>2, <2>1, <2>2, StartChildTypes DEF RestartTimer
  <2>3. CASE UNCHANGED <<child, crashQueued, alive, failed>>
    BY <1>2, <2>1, <2>3 DEF RestartTimer, StartChild
  <2> QED  BY <1>2, <2>2, <2>3 DEF RestartTimer
<1>3. CASE StartTimer
  <2>1. startIn' \in Timers(RestartWait)
    BY <1>3, TimersChange DEF StartTimer
  <2> QED  BY <1>3, <2>1, StartChildTypes DEF StartTimer
<1>4. ASSUME NEW p \in Pid, ChildExits(p)
      PROVE  TypeOK'
  BY <1>4 DEF ChildExits, timers
<1>5. ASSUME NEW p \in Pid, OnExit(p)
      PROVE  TypeOK'
  BY <1>5, TimersChange DEF OnExit
<1>6. CASE Shutdown
  BY <1>6, TimersChange DEF Shutdown
<1>7. CASE Tick
  BY <1>7, TimersChange DEF Tick
<1>8. CASE UNCHANGED vars
  BY <1>8 DEF vars
<1> QED  BY <1>1, <1>2, <1>3, <1>4, <1>5, <1>6, <1>7, <1>8 DEF Next

LEMMA InitTypes == Init => TypeOK
<1>1. \A wait \in Nat : NoTimer(wait) \in Timers(wait)
  BY SupervisorAssumption DEF NoTimer, Timers
<1> QED  BY <1>1, SupervisorAssumption DEF Init, TypeOK

\* The variables keep their types; the counts of timers stay in their bound.
THEOREM TypeCorrect == Spec => []TypeOK
<1>1. Init => TypeOK
  BY InitTypes
<1>2. TypeOK /\ [Next]_vars => TypeOK'
  BY TypesKept
<1> QED  BY <1>1, <1>2, PTL DEF Spec

-----------------------------------------------------------------------------
(* How timers that are due once change.                                    *)

LEMMA AddedTimer ==
  ASSUME NEW wait \in Nat, NEW t \in Timers(wait), \A n \in 0..wait : t[n] = 0
  PROVE  /\ OneTimer(Added(t, wait), wait)
         /\ \A n \in 0..wait : Added(t, wait)[n] > 0 => n = wait
BY SupervisorAssumption DEF Timers, Added, OneTimer

LEMMA FiredTimer ==
  ASSUME NEW wait \in Nat, NEW t \in Timers(wait), OneTimer(t, wait), t[0] > 0
  PROVE  \A n \in 0..wait : Fired(t)[n] = 0
<1> USE SupervisorAssumption DEF Timers, OneTimer
<1>1. 0 \in 0..wait /\ t[0] = 1
  OBVIOUS
<1>2. \A n \in 0..wait : n # 0 => t[n] = 0
  BY <1>1
<1> QED  BY <1>1, <1>2 DEF Fired

LEMMA ElapsedTimer ==
  ASSUME NEW wait \in Nat, NEW t \in Timers(wait), t[0] = 0
  PROVE  /\ OneTimer(t, wait) => OneTimer(Elapsed(t, wait), wait)
         /\ \A n \in 0..wait :
              Elapsed(t, wait)[n] > 0 => n + 1 \in 0..wait /\ t[n + 1] > 0
<1> USE SupervisorAssumption DEF Timers
<1>1. ASSUME NEW n \in 0..wait
      PROVE  /\ Elapsed(t, wait)[n] > 0 => n + 1 \in 0..wait /\ t[n + 1] > 0
             /\ Elapsed(t, wait)[n] > 0 => Elapsed(t, wait)[n] = t[n + 1]
             /\ Elapsed(t, wait)[n] \in Nat
  BY <1>1 DEF Elapsed
<1>2. OneTimer(t, wait) => OneTimer(Elapsed(t, wait), wait)
  <2> SUFFICES ASSUME OneTimer(t, wait) PROVE OneTimer(Elapsed(t, wait), wait)
    OBVIOUS
  <2>1. ASSUME NEW n \in 0..wait
        PROVE  Elapsed(t, wait)[n] =< 1
    BY <1>1 DEF OneTimer
  <2>2. ASSUME NEW n \in 0..wait, NEW m \in 0..wait,
               Elapsed(t, wait)[n] > 0, Elapsed(t, wait)[m] > 0
        PROVE  n = m
    <3>1. n + 1 = m + 1
      BY <1>1, <2>2 DEF OneTimer
    <3> QED  BY <3>1
  <2> QED  BY <2>1, <2>2 DEF OneTimer
<1> QED  BY <1>1, <1>2

-----------------------------------------------------------------------------

\* Every step of the supervisor keeps the invariant.
LEMMA InvKept ==
  ASSUME Usage, Inv, [Next]_vars
  PROVE  Inv'
<1> USE SupervisorAssumption DEF Usage
<1>t. TypeOK /\ TypeOK'
  BY TypesKept DEF Inv
<1>n. /\ RestartWait \in Nat /\ RestartDelay \in Nat
      /\ startIn \in Timers(RestartWait) /\ restartIn \in Timers(RestartDelay)
  BY <1>t DEF TypeOK
<1>z. /\ ~StartPending => \A n \in 0..RestartWait : startIn[n] = 0
      /\ ~RestartPending => \A n \in 0..RestartDelay : restartIn[n] = 0
  BY <1>n DEF StartPending, RestartPending, Timers
<1>s. \* What a child that starts needs: no other, and nothing that is due.
  ASSUME on, StartChild, UNCHANGED <<on, exited>>,
         alive \union exited = {},
         \A n \in 0..RestartWait : startIn'[n] = 0,
         \A n \in 0..RestartDelay : restartIn'[n] = 0
  PROVE  Inv'
  <2>1. KnowsChild'
    BY <1>s, <1>t, StartChildTypes DEF KnowsChild
  <2>2. ~StartPending' /\ ~RestartPending'
    BY <1>s DEF StartPending, RestartPending
  <2>3. OneTimer(startIn', RestartWait) /\ OneTimer(restartIn', RestartDelay)
    BY <1>s DEF OneTimer
  <2>4. StartInv' /\ RestartInv'
    BY <1>s, <2>2, <2>3 DEF StartInv, RestartInv
  <2> QED  BY <1>s, <1>t, <2>1, <2>4 DEF Inv
<1>1. CASE RestartChild
  <2>1. on /\ ~StartPending /\ ~crashQueued /\ KnowsChild /\ RestartInv
    BY <1>1 DEF RestartChild, Inv
  <2>2. ~RestartPending
    BY <2>1 DEF RestartInv
  <2>3. OneTimer(restartIn', RestartDelay)
    BY <1>1, <1>n, <1>z, <2>2, AddedTimer DEF RestartChild
  <2>4. ~StartPending' /\ crashQueued' /\ startIn' = startIn
    BY <1>1, <2>1 DEF RestartChild, StartPending
  <2>5. RestartInv'
    BY <2>3, <2>4 DEF RestartInv, StartPending
  <2>6. KnowsChild' /\ StartInv'
    BY <1>1, <2>4 DEF RestartChild, KnowsChild, StartInv, Inv
  <2> QED  BY <1>1, <1>t, <2>5, <2>6 DEF Inv, RestartChild
<1>2. CASE RestartTimer
  <2>1. on /\ KnowsChild /\ StartInv /\ RestartInv /\ restartIn[0] > 0
    BY <1>2 DEF RestartTimer, Inv
  <2>2. crashQueued
    BY <2>1 DEF RestartInv, RestartPending
  <2>3. \A n \in 0..RestartDelay : restartIn'[n] = 0
    BY <1>2, <1>n, <2>1, FiredTimer DEF RestartTimer, RestartInv
  <2>4. CASE child = NoChild /\ StartChild
    <3>1. ~StartPending
      BY <2>1, <2>2, <2>4 DEF RestartInv
    <3>2. alive \union exited = {}
      BY <1>t, <2>1, <2>4 DEF KnowsChild, TypeOK
    <3>3. \A n \in 0..RestartWait : startIn'[n] = 0
      BY <1>2, <1>z, <3>1 DEF RestartTimer
    <3> QED  BY <1>2, <1>s, <2>1, <2>3, <2>4, <3>2, <3>3 DEF RestartTimer
  <2>5. CASE UNCHANGED <<child, crashQueued, alive, failed>>
    <3>1. KnowsChild' /\ StartInv'
      BY <1>2, <2>1, <2>5
      DEF RestartTimer, KnowsChild, StartInv, StartPending
    <3>2. ~RestartPending' /\ OneTimer(restartIn', RestartDelay)
      BY <2>3 DEF RestartPending, OneTimer
    <3>3. RestartInv'
      BY <1>2, <2>1, <2>3, <2>5, <3>2
      DEF RestartTimer, RestartInv, StartPending
    <3> QED  BY <1>2, <1>t, <3>1, <3>3 DEF Inv, RestartTimer
  <2> QED  BY <1>2, <2>4, <2>5 DEF RestartTimer
<1>3. CASE StartTimer
  <2>1. on /\ StartInv /\ RestartInv /\ startIn[0] > 0
    BY <1>3 DEF StartTimer, Inv
  <2>2. alive \union exited = {}
    BY <2>1 DEF StartInv, StartPending
  <2>3. \A n \in 0..RestartWait : startIn'[n] = 0
    BY <1>3, <1>n, <2>1, FiredTimer DEF StartTimer, StartInv
  <2>4. ~RestartPending
    BY <2>1 DEF RestartInv, RestartPending
  <2>5. \A n \in 0..RestartDelay : restartIn'[n] = 0
    BY <1>3, <1>z, <2>4 DEF StartTimer
  <2> QED  BY <1>3, <1>s, <2>1, <2>2, <2>3, <2>5 DEF StartTimer
<1>4. ASSUME NEW p \in Pid, ChildExits(p)
      PROVE  Inv'
  <2>1. CASE on
    <3>1. KnowsChild' /\ StartInv'
      BY <1>4, <2>1
      DEF ChildExits, Inv, KnowsChild, StartInv, StartPending, timers
    <3>2. RestartInv'
      BY <1>4, <2>1
      DEF ChildExits, Inv, RestartInv, RestartPending, StartPending, timers
    <3> QED  BY <1>4, <1>t, <2>1, <3>1, <3>2 DEF ChildExits, Inv
  <2>2. CASE ~on
    BY <1>4, <1>t, <2>2 DEF ChildExits, Inv, OneChild
  <2> QED  BY <2>1, <2>2
<1>5. ASSUME NEW p \in Pid, OnExit(p)
      PROVE  Inv'
  <2>1. on /\ KnowsChild /\ StartInv /\ RestartInv /\ p \in exited
    BY <1>5 DEF OnExit, Inv
  <2>2. child = p /\ p # NoChild /\ exited' = {} /\ alive' = {}
    BY <1>5, <1>t, <2>1 DEF OnExit, KnowsChild, TypeOK
  <2>3. ~StartPending
    BY <2>1 DEF StartInv
  <2>4. /\ OneTimer(startIn', RestartWait)
        /\ \A n \in 0..RestartWait : startIn'[n] > 0 => n = RestartWait
    BY <1>5, <1>n, <1>z, <2>3, AddedTimer DEF OnExit
  <2>5. KnowsChild' /\ StartInv'
    BY <2>2, <2>4 DEF KnowsChild, StartInv
  <2>6. /\ restartIn' = restartIn /\ crashQueued' = crashQueued
        /\ child' = NoChild => ~crashQueued
    BY <1>5, <2>2 DEF OnExit
  <2>7. \A n \in 0..RestartDelay, m \in 0..RestartWait :
          startIn'[m] > 0 => n < m
    BY <1>n, <2>4
  <2>8. RestartInv'
    BY <2>1, <2>6, <2>7 DEF RestartInv, RestartPending
  <2> QED  BY <1>5, <1>t, <2>5, <2>8 DEF Inv, OnExit
<1>6. CASE Shutdown
  <2>1. KnowsChild
    BY <1>6 DEF Shutdown, Inv
  <2> QED  BY <1>6, <1>t, <2>1 DEF Shutdown, Inv, KnowsChild, OneChild
<1>7. CASE Tick
  <2>1. on /\ KnowsChild /\ StartInv /\ RestartInv
    BY <1>7 DEF Tick, Inv
  <2>2. /\ OneTimer(startIn', RestartWait)
        /\ \A n \in 0..RestartWait :
             startIn'[n] > 0 => n + 1 \in 0..RestartWait /\ startIn[n + 1] > 0
    BY <1>7, <1>n, <2>1, ElapsedTimer DEF Tick, StartInv
  <2>3. /\ OneTimer(restartIn', RestartDelay)
        /\ \A n \in 0..RestartDelay :
             restartIn'[n] > 0 =>
               n + 1 \in 0..RestartDelay /\ restartIn[n + 1] > 0
    BY <1>7, <1>n, <2>1, ElapsedTimer DEF Tick, RestartInv
  <2>4. (StartPending' => StartPending) /\ (RestartPending' => RestartPending)
    BY <2>2, <2>3 DEF StartPending, RestartPending
  <2>5. KnowsChild' /\ StartInv'
    BY <1>7, <2>1, <2>2, <2>4 DEF Tick, KnowsChild, StartInv
  <2>6. ASSUME NEW n \in 0..RestartDelay, NEW m \in 0..RestartWait,
               restartIn'[n] > 0, startIn'[m] > 0
        PROVE  n < m
    <3>1. n + 1 < m + 1
      BY <2>1, <2>2, <2>3, <2>6 DEF RestartInv
    <3> QED  BY <3>1
  <2>7. RestartInv'
    BY <1>7, <2>1, <2>3, <2>4, <2>6 DEF Tick, RestartInv
  <2> QED  BY <1>7, <1>t, <2>5, <2>7 DEF Inv, Tick
<1>8. CASE UNCHANGED vars
  BY <1>8, <1>t
  DEF vars, Inv, KnowsChild, StartInv, RestartInv, StartPending,
      RestartPending, OneChild, OneTimer
<1> QED  BY <1>1, <1>2, <1>3, <1>4, <1>5, <1>6, <1>7, <1>8 DEF Next

LEMMA InitInv == Init => Inv
<1> SUFFICES ASSUME Init PROVE Inv
  OBVIOUS
<1>1. ~StartPending /\ ~RestartPending
  BY DEF Init, StartPending, RestartPending, NoTimer
<1>2. OneTimer(startIn, RestartWait) /\ OneTimer(restartIn, RestartDelay)
  BY DEF Init, OneTimer, NoTimer
<1> QED  BY <1>1, <1>2, InitTypes
         DEF Init, Inv, KnowsChild, StartInv, RestartInv, RestartPending,
             StartPending

LEMMA Invariant == Usage /\ Spec => []Inv
<1>1. CASE Usage
  <2>1. Inv /\ [Next]_vars => Inv'
    BY <1>1, InvKept
  <2> QED  BY <2>1, InitInv, PTL DEF Spec
<1>2. CASE ~Usage
  BY <1>2
<1> QED  BY <1>1, <1>2

\* "Restarts a child process when it crashes" (supervisor.ts), and never starts
\* a second one next to it: for any delays in this order and any number of
\* exits and restarts.
THEOREM NeverTwoChildren == Usage /\ Spec => []OneChild
<1>1. Inv => OneChild
  BY DEF Inv, KnowsChild, OneChild
<1> QED  BY <1>1, Invariant, PTL

\* killChild is given the one child that runs, so a stop of the process always
\* reaches it.
THEOREM StopIsPassedOn == Usage /\ Spec => []StopReachesChildren
<1>1. Inv => StopReachesChildren
  BY DEF Inv, StopReachesChildren
<1> QED  BY <1>1, Invariant, PTL

-----------------------------------------------------------------------------
(* No callback is lost.  For this the caller may ask for restarts whenever *)
(* it wants, and the delays may have any order.                            *)

\* A child the supervisor knows, and could start, is one whose exit starts the
\* next, or a start is due.  The timer of a restart that finds a child counts
\* on it, for it starts nothing.
ChildIsWatched ==
  on /\ child # NoChild /\ ~failed => child \in alive \union exited \/ StartPending

\* A timer that is not due stays when time passes.
LEMMA StillPending ==
  ASSUME NEW wait \in Nat, NEW t \in Timers(wait), t[0] = 0,
         \E n \in 0..wait : t[n] > 0
  PROVE  \E n \in 0..wait : Elapsed(t, wait)[n] > 0
<1>1. PICK n \in 0..wait : t[n] > 0
  OBVIOUS
<1>2. n - 1 \in 0..wait /\ n - 1 # wait /\ (n - 1) + 1 = n
  BY <1>1
<1>3. Elapsed(t, wait)[n - 1] = t[n]
  BY <1>2 DEF Elapsed
<1> QED  BY <1>1, <1>2, <1>3

\* A timer that is set is pending.
LEMMA NowPending ==
  ASSUME NEW wait \in Nat, NEW t \in Timers(wait)
  PROVE  \E n \in 0..wait : Added(t, wait)[n] > 0
<1>1. wait \in 0..wait /\ t[wait] \in Nat
  BY SupervisorAssumption DEF Timers
<1>2. Added(t, wait)[wait] = t[wait] + 1
  BY <1>1 DEF Added, Timers
<1> QED  BY <1>1, <1>2

\* Every step keeps the child watched and the supervisor busy.
LEMMA NeverIdleKept ==
  TypeOK /\ ChildIsWatched /\ NeverIdle /\ [Next]_vars =>
    ChildIsWatched' /\ NeverIdle'
<1> SUFFICES ASSUME TypeOK, ChildIsWatched, NeverIdle, [Next]_vars
             PROVE  ChildIsWatched' /\ NeverIdle'
  OBVIOUS
<1> USE SupervisorAssumption DEF ChildIsWatched, NeverIdle
<1>t. /\ RestartWait \in Nat /\ RestartDelay \in Nat
      /\ startIn \in Timers(RestartWait) /\ restartIn \in Timers(RestartDelay)
      /\ exited \subseteq Pid /\ NoChild \notin Pid
  BY DEF TypeOK
<1>s. \* A child that starts runs, or is the one that could not be spawned.
  ASSUME StartChild, UNCHANGED exited
  PROVE  failed' \/ child' \in alive' \union exited'
  BY <1>s DEF StartChild
<1>1. CASE RestartChild
  <2>1. RestartPending'
    BY <1>1, <1>t, NowPending DEF RestartChild, RestartPending
  <2> QED  BY <1>1, <2>1 DEF RestartChild, StartPending
<1>2. CASE RestartTimer
  <2>1. CASE StartChild
    BY <1>2, <1>s, <2>1 DEF RestartTimer
  <2>2. CASE child # NoChild /\ UNCHANGED <<child, crashQueued, alive, failed>>
    BY <1>2, <2>2 DEF RestartTimer, StartPending
  <2> QED  BY <1>2, <2>1, <2>2 DEF RestartTimer
<1>3. CASE StartTimer
  BY <1>3, <1>s DEF StartTimer
<1>4. ASSUME NEW p \in Pid, ChildExits(p)
      PROVE  ChildIsWatched' /\ NeverIdle'
  <2>1. CASE on
    <3>1. alive' \union exited' = alive \union exited
      BY <1>4, <2>1 DEF ChildExits
    <3> QED
      BY <1>4, <3>1 DEF ChildExits, StartPending, RestartPending, timers
  <2>2. CASE ~on
    BY <1>4, <2>2 DEF ChildExits
  <2> QED  BY <2>1, <2>2
<1>5. ASSUME NEW p \in Pid, OnExit(p)
      PROVE  ChildIsWatched' /\ NeverIdle'
  <2>1. StartPending'
    BY <1>5, <1>t, NowPending DEF OnExit, StartPending
  <2> QED  BY <2>1
<1>6. CASE Shutdown
  BY <1>6 DEF Shutdown
<1>7. CASE Tick
  <2>1. StartPending => StartPending'
    BY <1>7, <1>t, StillPending DEF Tick, StartPending
  <2>2. RestartPending => RestartPending'
    BY <1>7, <1>t, StillPending DEF Tick, RestartPending
  <2> QED  BY <1>7, <2>1, <2>2 DEF Tick
<1>8. CASE UNCHANGED vars
  BY <1>8 DEF vars, StartPending, RestartPending
<1> QED  BY <1>1, <1>2, <1>3, <1>4, <1>5, <1>6, <1>7, <1>8 DEF Next

\* Once openvpn was asked for, something always happens that makes it run: the
\* part of AlwaysRunsAgain that does not depend on fairness, for any delays
\* and for restarts asked for at any time.
THEOREM SomethingIsDue == Spec => []NeverIdle
<1>1. Init => ChildIsWatched /\ NeverIdle
  BY DEF Init, ChildIsWatched, NeverIdle
<1> QED  BY <1>1, NeverIdleKept, TypeCorrect, PTL DEF Spec

=============================================================================
