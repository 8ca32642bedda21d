----------------------------- MODULE Supervisor -----------------------------
(***************************************************************************)
(* The supervisor of the openvpn process (src/src/utils/supervisor.ts): it *)
(* starts the child again a while after it exits, and lets the caller ask  *)
(* for a restart.  Its state is shared by three callbacks that the event   *)
(* loop runs in any order: the exit event of a child, the timer of a start *)
(* and the timer of a restart.                                             *)
(*                                                                         *)
(* Time is counted in units of the delay of a restart (50 ms).  A timer    *)
(* fires on time: the clock waits for those that are due.                  *)
(***************************************************************************)
EXTENDS Naturals

CONSTANTS
  Pid,           \* process ids, a bound on the processes at one time
  NoChild,       \* child is null
  RestartWait,   \* restartWait, the delay of a start after an exit
  RestartDelay,  \* the delay of the kill after restartChild
  MaxTimers,     \* bound on the timers of one kind due at one time
  AnyTime,       \* restart() may be called while a start is due
  Faults         \* what may go wrong: "spawn"

ASSUME SupervisorAssumption ==
  /\ NoChild \notin Pid
  /\ RestartWait \in Nat \ {0}
  /\ RestartDelay \in Nat \ {0}
  /\ MaxTimers \in Nat \ {0}
  /\ AnyTime \in BOOLEAN
  /\ Faults \subseteq {"spawn"}

VARIABLES
  on,           \* the supervisor's process runs
  wanted,       \* restart() was called
  child,        \* the child the supervisor knows, or one that could not start
  crashQueued,  \* a restart was asked for and no child started since
  alive,        \* the children that run
  exited,       \* those that exited, the event being on its way
  killed,       \* those of alive that were sent a signal
  startIn,      \* startIn[n]: how many setTimeout(startChild) are due in n
  restartIn,    \* restartIn[n]: how many timers of restartChild are due in n
  failed        \* history: a spawn failed

vars == <<on, wanted, child, crashQueued, alive, exited, killed, startIn,
          restartIn, failed>>
timers == <<startIn, restartIn>>

Timers(wait) == [0..wait -> 0..MaxTimers]

NoTimer(wait) == [n \in 0..wait |-> 0]

TypeOK ==
  /\ on \in BOOLEAN
  /\ wanted \in BOOLEAN
  /\ child \in Pid \union {NoChild}
  /\ crashQueued \in BOOLEAN
  /\ alive \subseteq Pid
  /\ exited \subseteq Pid \ alive
  /\ killed \subseteq alive
  /\ startIn \in Timers(RestartWait)
  /\ restartIn \in Timers(RestartDelay)
  /\ failed \in BOOLEAN

Init ==
  /\ on = TRUE
  /\ wanted = FALSE
  /\ child = NoChild
  /\ crashQueued = FALSE
  /\ alive = {}
  /\ exited = {}
  /\ killed = {}
  /\ startIn = NoTimer(RestartWait)
  /\ restartIn = NoTimer(RestartDelay)
  /\ failed = FALSE

StartPending == \E n \in 0..RestartWait : startIn[n] > 0
RestartPending == \E n \in 0..RestartDelay : restartIn[n] > 0

Added(t, n) == [t EXCEPT ![n] = @ + 1]
Fired(t) == [t EXCEPT ![0] = @ - 1]
Elapsed(t, wait) == [n \in 0..wait |-> IF n = wait THEN 0 ELSE t[n + 1]]

-----------------------------------------------------------------------------

\* startChild: spawn returns a child in any case.  When it fails there is no
\* process, and an "error" event in place of an "exit" event.
StartChild ==
  /\ crashQueued' = FALSE
  /\ \E p \in Pid \ (alive \union exited) :
       /\ child' = p
       /\ \/ alive' = alive \union {p} /\ UNCHANGED failed
          \/ "spawn" \in Faults /\ alive' = alive /\ failed' = TRUE

\* restartChild.  Called again before the child started, it does nothing.  The
\* one call there is (index.ts) comes when nothing is due yet: ~AnyTime.
RestartChild ==
  /\ on
  /\ AnyTime \/ ~StartPending
  /\ ~crashQueued
  /\ restartIn[RestartDelay] < MaxTimers
  /\ wanted' = TRUE
  /\ crashQueued' = TRUE
  /\ restartIn' = Added(restartIn, RestartDelay)
  /\ UNCHANGED <<on, child, alive, exited, killed, startIn, failed>>

\* Mutant: the child is started again at once, and again when it exits.
RestartTimerStarts ==
  /\ on
  /\ restartIn[0] > 0
  /\ restartIn' = Fired(restartIn)
  /\ StartChild
  /\ killed' = killed \union ({child} \intersect alive)
  /\ UNCHANGED <<on, wanted, exited, startIn>>

\* Mutant: a child that is gone counts as signalled.
RestartTimerGone ==
  /\ on
  /\ restartIn[0] > 0
  /\ restartIn' = Fired(restartIn)
  /\ \/ child = NoChild /\ StartChild /\ UNCHANGED killed
     \/ /\ child # NoChild
        /\ killed' = killed \union {child}
        /\ UNCHANGED <<child, crashQueued, alive, failed>>
  /\ UNCHANGED <<on, wanted, exited, startIn>>

\* Its timer: no child, start one; else kill it.  process.kill throws when
\* the child is gone, or has no pid, and the error is caught by the listener
\* of uncaughtException.
RestartTimer ==
  /\ on
  /\ restartIn[0] > 0
  /\ restartIn' = Fired(restartIn)
  /\ \/ child = NoChild /\ StartChild /\ UNCHANGED killed
     \/ /\ child # NoChild
        /\ killed' = killed \union ({child} \intersect alive)
        /\ UNCHANGED <<child, crashQueued, alive, failed>>
  /\ UNCHANGED <<on, wanted, exited, startIn>>

StartTimer ==
  /\ on
  /\ startIn[0] > 0
  /\ startIn' = Fired(startIn)
  /\ StartChild
  /\ UNCHANGED <<on, wanted, exited, killed, restartIn>>

\* A child ends, by itself or by a signal.
ChildExits(p) ==
  /\ p \in alive
  /\ alive' = alive \ {p}
  /\ killed' = killed \ {p}
  /\ exited' = IF on THEN exited \union {p} ELSE exited
  /\ UNCHANGED <<on, wanted, child, crashQueued, timers, failed>>

\* Mutant: a child that exits during a restart is not started again.
OnExitNoStart(p) ==
  /\ on
  /\ p \in exited
  /\ startIn[RestartWait] < MaxTimers
  /\ exited' = exited \ {p}
  /\ child' = IF crashQueued THEN child ELSE NoChild
  /\ startIn' = IF crashQueued THEN startIn ELSE Added(startIn, RestartWait)
  /\ UNCHANGED <<on, wanted, crashQueued, alive, killed, restartIn, failed>>

\* The listener of "exit".
OnExit(p) ==
  /\ on
  /\ p \in exited
  /\ startIn[RestartWait] < MaxTimers
  /\ exited' = exited \ {p}
  /\ child' = IF crashQueued THEN child ELSE NoChild
  /\ startIn' = Added(startIn, RestartWait)
  /\ UNCHANGED <<on, wanted, crashQueued, alive, killed, restartIn, failed>>

\* Mutant: the signal is not passed on.
ShutdownAlone ==
  /\ on
  /\ on' = FALSE
  /\ exited' = {}
  /\ startIn' = NoTimer(RestartWait)
  /\ restartIn' = NoTimer(RestartDelay)
  /\ UNCHANGED <<wanted, child, crashQueued, alive, killed, failed>>

\* SIGTERM, SIGINT, SIGHUP, SIGQUIT or process.exit: the signal is passed on
\* to the child, and the process exits with its timers.
Shutdown ==
  /\ on
  /\ on' = FALSE
  /\ killed' = killed \union ({child} \intersect alive)
  /\ exited' = {}
  /\ startIn' = NoTimer(RestartWait)
  /\ restartIn' = NoTimer(RestartDelay)
  /\ UNCHANGED <<wanted, child, crashQueued, alive, failed>>

Tick ==
  /\ on
  /\ startIn[0] = 0 /\ restartIn[0] = 0
  /\ startIn' = Elapsed(startIn, RestartWait)
  /\ restartIn' = Elapsed(restartIn, RestartDelay)
  /\ UNCHANGED <<on, wanted, child, crashQueued, alive, exited, killed, failed>>

Next ==
  \/ RestartChild
  \/ RestartTimer
  \/ StartTimer
  \/ \E p \in Pid : ChildExits(p)
  \/ \E p \in Pid : OnExit(p)
  \/ Shutdown
  \/ Tick

Spec == Init /\ [][Next]_vars

\* The event loop runs every callback that is ready, and time passes.  A
\* child need not exit, and nobody need call restart() or stop the process.
Fairness ==
  /\ WF_vars(RestartTimer)
  /\ WF_vars(StartTimer)
  /\ WF_vars(Tick)
  /\ \A p \in Pid : WF_vars(OnExit(p))

FairSpec == Spec /\ Fairness

-----------------------------------------------------------------------------

\* "Restarts a child process when it crashes": whatever the order of exits,
\* timers and restarts, two openvpn never run at the same time.
OneChild == \A p, q \in alive : p = q

\* The supervisor never loses sight of a child that runs, so a stop of the
\* container's process reaches it ("Pass kill signals through to child").
StopReachesChildren == ~on => alive \subseteq killed

\* No callback is lost: once openvpn was asked for, it runs, or its exit event
\* is on its way, or a timer is due that starts it, in every interleaving of
\* the three callbacks, unless a spawn failed.
NeverIdle ==
  on /\ wanted /\ ~failed =>
    alive \union exited # {} \/ StartPending \/ RestartPending

\* Once it was asked for, openvpn always runs again, however often it exits
\* and restarts are asked for, as long as the process itself goes on and no
\* spawn fails, which has no event that starts it again.
AlwaysRunsAgain == wanted ~> (alive # {} \/ ~on \/ failed)

=============================================================================
