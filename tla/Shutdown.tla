------------------------------ MODULE Shutdown ------------------------------
(***************************************************************************)
(* The life of the process, from the start of its components to its exit   *)
(* (cmd/lb/main.go, lines 118-179): the health monitor against the clock,  *)
(* the HTTP server and the requests it is serving, the limiter, and main,  *)
(* which stops the three at once and waits for them a limited time.        *)
(*                                                                         *)
(* Time is counted in whole seconds.  Code that can run takes no time: the *)
(* clock moves only when no goroutine has a step to make.  What takes time *)
(* are the checks, up to their timeout, the requests and the closing of    *)
(* the connections of the hybrid limiter, both for ever if need be.        *)
(***************************************************************************)
EXTENDS HealthMonitor, Integers, FiniteSets

CONSTANTS
    Conns,        \* connections of the HTTP server
    Timeouts,     \* values of healthCheck.timeout, and
    Intervals,    \*    of healthCheck.interval, in the file
    MonitorGrace, \* what main gives the monitor to stop: 4 s,
    ServerGrace,  \*    the server: 5 s,
    TotalGrace    \*    and everything together: 15 s

ASSUME TargetsAssumption == IsFiniteSet(Targets)
ASSUME ConfigAssumption == Timeouts \subseteq Nat /\ Intervals \subseteq Nat
ASSUME GraceAssumption ==
    /\ MonitorGrace \in Nat /\ ServerGrace \in Nat /\ TotalGrace \in Nat
    /\ MonitorGrace <= ServerGrace /\ ServerGrace <= TotalGrace

VARIABLES
    config,   \* what LoadConfig has returned
    phase,    \* seconds since the ticker of the monitor last fired
    spent,    \* seconds since the checks of the cycle began
    main,     \* the goroutine of main
    seconds,  \* since the signal
    listener, \* the goroutine of ServerAdapter.Run
    conn,     \* the request of each connection
    server,   \* the goroutine of main in ServerAdapter.Stop
    limiter   \* the goroutine of main in RateLimiter.Stop

vars == <<monitorVars, config, phase, spent, main, seconds, listener, conn, server, limiter>>

clockVars == <<phase, spent, seconds>>
serverVars == <<listener, conn, server>>

\* Mutant: the values of the file are taken as they are.
ValidatedNot(c) == TRUE

\* LoadConfig refuses values that are not positive if checks are enabled.
Validated(c) == c.checks => c.timeout > 0 /\ c.interval > 0

\* Mutant: no warning of values that are equal.
WarnedLess(c) == c.timeout > c.interval

\* LoadConfig warns, and goes on.
Warned(c) == c.timeout >= c.interval

Config == {c \in [checks : BOOLEAN, timeout : Timeouts, interval : Intervals,
                  limiter : {"none", "memory", "hybrid"}] : Validated(c)}

TypeOK ==
    /\ MonitorTypeOK
    /\ config \in Config
    /\ phase \in 0 .. config.interval
    /\ spent \in 0 .. config.timeout
    /\ main \in {"serving", "stopping", "exited"}
    /\ seconds \in 0 .. TotalGrace + 1
    /\ listener \in {"starting", "open", "failed", "closed"}
    /\ conn \in [Conns -> {"idle", "active", "lost"}]
    /\ server \in {"serving", "stopping", "draining", "drained", "closed"}
    /\ limiter \in {"running", "stopping", "stopped"}

Init ==
    /\ MonitorInit
    /\ config \in Config
    /\ phase = 0 /\ spent = 0 /\ seconds = 0
    /\ main = "serving"
    /\ listener = "starting"
    /\ conn = [r \in Conns |-> "idle"]
    /\ server = "serving"
    /\ limiter = IF config.limiter = "none" THEN "stopped" ELSE "running"

Alive == main # "exited"

-----------------------------------------------------------------------------
(* The monitor                                                             *)

MonitorRuns ==
    /\ Alive /\ config.checks
    /\ LoopStep
    /\ spent' = 0
    /\ UNCHANGED <<config, phase, seconds, main, serverVars, limiter>>

CheckRuns(b) ==
    /\ Alive
    /\ CheckReturns(b) \/ CheckDone(b)
    /\ UNCHANGED <<config, clockVars, main, serverVars, limiter>>

\* The HTTP client of the checker gives up after its timeout.
CheckIsDue(b) ==
    /\ check[b] = "probing" => spent >= config.timeout
    /\ CheckRuns(b)

-----------------------------------------------------------------------------
(* The server                                                              *)

\* Run: ListenAndServe binds the address or fails; main is not told.
Listen ==
    /\ Alive
    /\ listener = "starting"
    /\ listener' \in {"open", "failed"}
    /\ UNCHANGED <<monitorVars, config, clockVars, main, conn, server, limiter>>

Arrive(r) ==
    /\ Alive
    /\ listener = "open" /\ conn[r] = "idle"
    /\ conn' = [conn EXCEPT ![r] = "active"]
    /\ UNCHANGED <<monitorVars, config, clockVars, main, listener, server, limiter>>

\* The handler has returned and the client has its answer.
Answer(r) ==
    /\ Alive
    /\ conn[r] = "active"
    /\ conn' = [conn EXCEPT ![r] = "idle"]
    /\ UNCHANGED <<monitorVars, config, clockVars, main, listener, server, limiter>>

NoneActive == \A r \in Conns : conn[r] # "active"

Cut == [r \in Conns |-> IF conn[r] = "active" THEN "lost" ELSE conn[r]]

\* Stop calls Shutdown: no connection is accepted any more, not even if
\* ListenAndServe has yet to begin.
ServerShutdown ==
    /\ Alive
    /\ server = "stopping"
    /\ server' = "draining"
    /\ listener' = IF listener = "failed" THEN "failed" ELSE "closed"
    /\ UNCHANGED <<monitorVars, config, clockVars, main, conn, limiter>>

\* Shutdown returns when no request is left, or
Drained ==
    /\ Alive
    /\ server = "draining" /\ NoneActive
    /\ server' = "drained"
    /\ UNCHANGED <<monitorVars, config, clockVars, main, listener, conn, limiter>>

\* with an error when its context expires; Close then cuts the connections.
ServerCloses ==
    /\ Alive
    /\ server = "draining" /\ seconds >= ServerGrace
    /\ server' = "closed"
    /\ conn' = Cut
    /\ UNCHANGED <<monitorVars, config, clockVars, main, listener, limiter>>

-----------------------------------------------------------------------------
(* main                                                                    *)

\* A signal arrives; main starts a goroutine for each component it stops.
Signal ==
    /\ main = "serving"
    /\ main' = "stopping"
    /\ server' = "stopping"
    /\ limiter' = IF config.limiter = "none" THEN "stopped" ELSE "stopping"
    /\ UNCHANGED <<monitorVars, config, clockVars, listener, conn>>

MonitorStop ==
    /\ main = "stopping" /\ config.checks
    /\ Stop \/ StopReturns \/ (seconds >= MonitorGrace /\ StopTimesOut)
    /\ UNCHANGED <<config, clockVars, main, serverVars, limiter>>

\* The in-memory limiter closes a channel, the hybrid one its connections.
LimiterStops ==
    /\ main = "stopping"
    /\ limiter = "stopping"
    /\ limiter' = "stopped"
    /\ UNCHANGED <<monitorVars, config, clockVars, main, serverVars>>

\* The monitor, if there is one, has been stopped or given up.
MonitorStopped == config.checks => stopper \in {"graceful", "timedout"}

\* Mutant: main does not count the server in its WaitGroup.
AllStoppedButServer == limiter = "stopped" /\ MonitorStopped

\* wg.Wait() has returned: every goroutine main started has.
AllStopped ==
    /\ limiter = "stopped"
    /\ MonitorStopped
    /\ server \in {"drained", "closed"}

\* Mutant: main waits for its WaitGroup alone.
MayExitWaiting == AllStopped

\* Mutant: nobody waits; the process ends only when its time is up.
MayExitLate == seconds >= TotalGrace

MayExit == AllStopped \/ seconds >= TotalGrace

\* main returns, and every goroutine ends with it.
Exit ==
    /\ main = "stopping"
    /\ MayExit
    /\ main' = "exited"
    /\ conn' = Cut
    /\ UNCHANGED <<monitorVars, config, clockVars, listener, server, limiter>>

-----------------------------------------------------------------------------
(* Time                                                                    *)

\* The steps that wait for nothing but a processor.
Runnable ==
    \/ MonitorRuns
    \/ \E b \in Targets : CheckIsDue(b)
    \/ Listen
    \/ ServerShutdown \/ Drained \/ ServerCloses
    \/ MonitorStop
    \/ config.limiter # "hybrid" /\ LimiterStops
    \/ Exit

LoopCanRun ==
    \/ loop = "new"
    \/ loop = "checking" /\ AllChecksDone
    \/ loop = "select" /\ (tick \/ stopCh)

CheckCanRun(b) ==
    \/ check[b] = "marking"
    \/ check[b] = "probing" /\ spent >= config.timeout

ServerCanRun ==
    \/ listener = "starting"
    \/ server = "stopping"
    \/ server = "draining" /\ (NoneActive \/ seconds >= ServerGrace)

StopCanRun ==
    \/ stopper = "none"
    \/ stopper = "waiting" /\ (loop = "stopped" \/ seconds >= MonitorGrace)

\* Some goroutine has such a step to make: Runnable is enabled, written as a
\* condition on the state.
CanRun ==
    /\ Alive
    /\ \/ config.checks /\ LoopCanRun
       \/ \E b \in Targets : CheckCanRun(b)
       \/ ServerCanRun
       \/ /\ main = "stopping"
          /\ \/ config.checks /\ StopCanRun
             \/ config.limiter # "hybrid" /\ limiter = "stopping"
             \/ MayExit

\* Ticks do not depend on what the loop is doing, but stop with it.
Fires == loop \in {"checking", "select"} /\ phase + 1 = config.interval

\* Mutant: a timer, which fires once, instead of a ticker.
TickerOnce ==
    IF Fires
    THEN phase' = config.interval /\ IF tick THEN UNCHANGED monitorVars ELSE Tick
    ELSE /\ phase' = IF loop \in {"checking", "select"} /\ phase < config.interval
                     THEN phase + 1 ELSE phase
         /\ UNCHANGED monitorVars

\* A tick that finds the channel full is dropped.
Ticker ==
    IF Fires
    THEN phase' = 0 /\ IF tick THEN UNCHANGED monitorVars ELSE Tick
    ELSE /\ phase' = IF loop \in {"checking", "select"} THEN phase + 1 ELSE 0
         /\ UNCHANGED monitorVars

\* A second passes.  seconds is counted to the last deadline.
Clock ==
    /\ Alive
    /\ ~CanRun
    /\ Ticker
    /\ spent' = IF loop = "checking" THEN spent + 1 ELSE spent
    /\ seconds' = IF main = "stopping" /\ seconds <= TotalGrace THEN seconds + 1 ELSE seconds
    /\ UNCHANGED <<config, main, serverVars, limiter>>

-----------------------------------------------------------------------------
Next ==
    \/ MonitorRuns
    \/ \E b \in Targets : CheckRuns(b)
    \/ Listen \/ ServerShutdown \/ Drained \/ ServerCloses
    \/ \E r \in Conns : Arrive(r) \/ Answer(r)
    \/ Signal \/ MonitorStop \/ LimiterStops \/ Exit
    \/ Clock

\* Time passes and goroutines that can run are scheduled.  No request need
\* end, no signal come, and no hybrid limiter close its connections.
Fairness == WF_vars(Clock) /\ WF_vars(Runnable)

Spec == Init /\ [][Next]_vars /\ Fairness

-----------------------------------------------------------------------------
\* With a configuration that LoadConfig accepts without a warning and a check
\* timeout below the grace, the monitor always stops before main gives up on
\* it, whatever the signal finds it doing: in the middle of a cycle or with
\* a tick waiting (HealthMonitor.Stop, lines 97-113; config.go, lines
\* 126-136).
StopIsInTime ==
    (stopper = "timedout" /\ ~Warned(config)) => config.timeout >= MonitorGrace

Steps(n, cond) == IF cond THEN n ELSE 0

\* How many checks are in that state.
Checking(state) == Cardinality({b \in Targets : check[b] = state})

\* A cycle begins, makes two steps for each check, and ends.
CycleSteps == 2 * Cardinality(Targets) + 2

ChecksLeft == 2 * Checking("probing") + Checking("marking")

\* A cycle for each tick that waits, and the first one.
CyclesLeft == CycleSteps * (Steps(1, loop = "new") + Steps(1, tick))

StagesLeft ==
    Steps(1, loop = "checking") + Steps(1, loop # "stopped")
    + Steps(2, stopper = "none") + Steps(1, stopper = "waiting")
    + Steps(1, listener = "starting")
    + Steps(2, server = "stopping") + Steps(1, server = "draining")
    + Steps(1, limiter = "stopping") + Steps(1, main # "exited")

\* The most steps the process can still make before it has to wait for the
\* clock, a request or a signal.
Work == ChecksLeft + CyclesLeft + StagesLeft

\* Between two seconds the process makes finitely many steps and comes to rest:
\* no goroutine wakes itself, and none wakes another that has just run.  It is
\* what lets the model take the code for instantaneous, and what keeps a loop
\* from spinning on a closed channel or an expired deadline (Start, lines
\* 48-59 of health_monitor.go; main, lines 134-177).
ComesToRest ==
    [][\/ Work' < Work
       \/ Clock \/ Signal
       \/ \E r \in Conns : Arrive(r) \/ Answer(r)]_vars

\* No request is cut before the server had its whole grace, however early the
\* monitor and the limiter are done (main, lines 157-177; Stop, server.go,
\* lines 71-75).
LostOnlyAfterGrace ==
    [][\A r \in Conns :
         (conn[r] = "active" /\ conn'[r] = "lost") => seconds >= ServerGrace]_vars

\* The process ends within the grace of the server after the signal; only the
\* hybrid limiter, which stops without a context, can use up the time of
\* all (main, lines 134-177).
ExitsInTime ==
    seconds <= IF config.limiter = "hybrid" THEN TotalGrace ELSE ServerGrace

\* A signal ends the process, even if a limiter never stops, a request never
\* ends or the server never came up (main, lines 172-177).
SignalEndsProcess == main = "stopping" ~> main = "exited"

\* Until it is stopped the monitor checks the backends again and again: the
\* ticks lost while a cycle is running do not starve the loop
\* (HealthMonitor.Start, lines 44-53).
KeepsChecking == []<>(loop = "checking" \/ stopCh \/ ~config.checks)

\* What the README says of the shutdown: no request is lost (README.md, line
\* 43).  A request that lasts longer than the grace of the server is.
NoRequestLost == \A r \in Conns : conn[r] # "lost"
=============================================================================
