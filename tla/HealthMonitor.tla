---------------------------- MODULE HealthMonitor ----------------------------
(***************************************************************************)
(* The health monitor (internal/core/app/health_monitor.go): one loop      *)
(* goroutine, one check goroutine per backend and cycle, and the goroutine *)
(* of main that calls Stop.                                                *)
(*                                                                         *)
(* A check goroutine asks the checker and then marks the backend in the    *)
(* repository.  What the checker answers and how the mark reaches the      *)
(* table are the business of the module that composes this one with the    *)
(* pool; here a check is probing, then marking, then gone.                 *)
(***************************************************************************)
CONSTANT Targets \* what GetBackends returns

VARIABLES
    loop,    \* where the loop goroutine is
    tick,    \* a tick is waiting in ticker.C, a channel of capacity one
    check,   \* the check goroutine of each backend
    stopCh,  \* stopCh has been closed
    stopper  \* the goroutine inside Stop

monitorVars == <<loop, tick, check, stopCh, stopper>>

Loop == {"new", "checking", "select", "stopped"}
Check == {"none", "probing", "marking"}
Stopper == {"none", "waiting", "graceful", "timedout"}

MonitorTypeOK ==
    /\ loop \in Loop
    /\ tick \in BOOLEAN
    /\ check \in [Targets -> Check]
    /\ stopCh \in BOOLEAN
    /\ stopper \in Stopper

MonitorInit ==
    /\ loop = "new"
    /\ tick = FALSE
    /\ check = [b \in Targets |-> "none"]
    /\ stopCh = FALSE
    /\ stopper = "none"

-----------------------------------------------------------------------------
\* performChecks begins: one goroutine per backend.
SpawnChecks ==
    /\ loop' = "checking"
    /\ check' = [b \in Targets |-> "probing"]

\* Start: the ticker is created and the first cycle begins at once.
Start ==
    /\ loop = "new"
    /\ SpawnChecks
    /\ UNCHANGED <<tick, stopCh, stopper>>

\* The ticker fires.  A tick that finds the channel full is dropped.
Tick ==
    /\ loop \in {"checking", "select"}
    /\ ~tick
    /\ tick' = TRUE
    /\ UNCHANGED <<loop, check, stopCh, stopper>>

\* Mutant: the goroutine stays after the checker has answered.
CheckReturnsLost(b) ==
    /\ check[b] = "probing"
    /\ check' = [check EXCEPT ![b] = "answered"]
    /\ UNCHANGED <<loop, tick, stopCh, stopper>>

\* The checker has answered for b; the goroutine goes on to mark b.
CheckReturns(b) ==
    /\ check[b] = "probing"
    /\ check' = [check EXCEPT ![b] = "marking"]
    /\ UNCHANGED <<loop, tick, stopCh, stopper>>

\* MarkBackendStatus has returned: checkWg.Done().
CheckDone(b) ==
    /\ check[b] = "marking"
    /\ check' = [check EXCEPT ![b] = "none"]
    /\ UNCHANGED <<loop, tick, stopCh, stopper>>

AllChecksDone == \A b \in Targets : check[b] = "none"

\* Mutant: performChecks does not wait for its goroutines.
CycleEndsAtOnce ==
    /\ loop = "checking"
    /\ loop' = "select"
    /\ UNCHANGED <<tick, check, stopCh, stopper>>

\* checkWg.Wait() returns and performChecks ends.
CycleEnds ==
    /\ loop = "checking"
    /\ AllChecksDone
    /\ loop' = "select"
    /\ UNCHANGED <<tick, check, stopCh, stopper>>

\* Mutant: the loop sees the tick but does not take it from the channel.
SelectTickKept ==
    /\ loop = "select"
    /\ tick
    /\ SpawnChecks
    /\ UNCHANGED <<tick, stopCh, stopper>>

\* The select of the loop.  With both channels ready Go picks either.
SelectTick ==
    /\ loop = "select"
    /\ tick
    /\ tick' = FALSE
    /\ SpawnChecks
    /\ UNCHANGED <<stopCh, stopper>>

SelectStop ==
    /\ loop = "select"
    /\ stopCh
    /\ loop' = "stopped"
    /\ tick' = FALSE
    /\ UNCHANGED <<check, stopCh, stopper>>

-----------------------------------------------------------------------------
\* Stop: the channel is closed, then Stop waits for the loop or its context.
\* main calls it once, after Start; the loop may not have run yet.
Stop ==
    /\ stopper = "none"
    /\ stopCh' = TRUE
    /\ stopper' = "waiting"
    /\ UNCHANGED <<loop, tick, check>>

\* wg.Wait() returned, waitCh is closed.
StopReturns ==
    /\ stopper = "waiting"
    /\ loop = "stopped"
    /\ stopper' = "graceful"
    /\ UNCHANGED <<loop, tick, check, stopCh>>

\* The context of Stop expires; the loop may be anywhere.
StopTimesOut ==
    /\ stopper = "waiting"
    /\ stopper' = "timedout"
    /\ UNCHANGED <<loop, tick, check, stopCh>>

-----------------------------------------------------------------------------
LoopStep == Start \/ CycleEnds \/ SelectTick \/ SelectStop

MonitorNext ==
    \/ LoopStep
    \/ Tick
    \/ \E b \in Targets : CheckReturns(b) \/ CheckDone(b)
    \/ Stop \/ StopReturns \/ StopTimesOut

MonitorSpec == MonitorInit /\ [][MonitorNext]_monitorVars

-----------------------------------------------------------------------------
\* When Stop has returned without a timeout no check is running, so nothing
\* will mark a backend any more (Stop, lines 97-113; performChecks waits for
\* its goroutines at line 92).
QuietAfterStop ==
    stopper = "graceful" => loop = "stopped" /\ AllChecksDone

\* The checks of two cycles never overlap: a check begins only when no check
\* of the cycle before is left, so a slow verdict cannot overwrite the
\* verdict of a later cycle (performChecks, lines 67-92).
CyclesDoNotOverlap ==
    [][\A b \in Targets : (check[b] = "none" /\ check'[b] = "probing") => AllChecksDone]_monitorVars
=============================================================================
