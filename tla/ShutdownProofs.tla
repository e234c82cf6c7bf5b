--------------------------- MODULE ShutdownProofs ---------------------------
(***************************************************************************)
(* The life of the process, proved for any number of backends and          *)
(* connections, any configuration and any deadlines: the cycles of the     *)
(* monitor, alone and under the clock, the grace of the requests, the time *)
(* main takes to stop and to exit, and the steps made between two seconds. *)
(***************************************************************************)
EXTENDS Shutdown, FiniteSetTheorems, TLAPS

(* The monitor alone.                                                      *)

\* A check runs only inside a cycle, and Stop returns without a timeout only
\* after the loop: what QuietAfterStop needs to be inductive.
CycleInv ==
    /\ MonitorTypeOK
    /\ loop # "checking" => AllChecksDone
    /\ stopper = "graceful" => loop = "stopped"

USE DEF Loop, Check, Stopper

LEMMA CycleInit == MonitorInit => CycleInv
BY DEF MonitorInit, CycleInv, MonitorTypeOK, AllChecksDone

LEMMA CycleStep == CycleInv /\ [MonitorNext]_monitorVars => CycleInv'
<1> SUFFICES ASSUME CycleInv, [MonitorNext]_monitorVars PROVE CycleInv'
  OBVIOUS
<1> USE DEF CycleInv, MonitorTypeOK, AllChecksDone
<1>1. CASE Start \/ SelectTick
  BY <1>1 DEF Start, SelectTick, SpawnChecks
<1>2. CASE CycleEnds \/ SelectStop
  BY <1>2 DEF CycleEnds, SelectStop
<1>3. CASE Tick
  BY <1>3 DEF Tick
<1>4. ASSUME NEW b \in Targets, CheckReturns(b) \/ CheckDone(b) PROVE CycleInv'
  <2>1. loop = "checking"
    BY <1>4 DEF CheckReturns, CheckDone
  <2> QED
    BY <1>4, <2>1 DEF CheckReturns, CheckDone
<1>5. CASE Stop \/ StopReturns \/ StopTimesOut
  BY <1>5 DEF Stop, StopReturns, StopTimesOut
<1>6. CASE UNCHANGED monitorVars
  BY <1>6 DEF monitorVars
<1> QED
  BY <1>1, <1>2, <1>3, <1>4, <1>5, <1>6 DEF MonitorNext, LoopStep

LEMMA CycleHolds == MonitorSpec => []CycleInv
BY CycleInit, CycleStep, PTL DEF MonitorSpec

\* The loop, the checks and Stop are always in one of their states.
THEOREM MonitorTypeCorrect == MonitorSpec => []MonitorTypeOK
<1>1. CycleInv => MonitorTypeOK
  BY DEF CycleInv
<1> QED
  BY <1>1, CycleHolds, PTL

\* After a graceful Stop nobody checks and nobody marks any more.
THEOREM QuietAfterStopHolds == MonitorSpec => []QuietAfterStop
<1>1. CycleInv => QuietAfterStop
  BY DEF CycleInv, QuietAfterStop
<1> QED
  BY <1>1, CycleHolds, PTL

\* A check of a cycle begins when the cycle before has left none.
THEOREM CyclesDoNotOverlapHolds == MonitorSpec => CyclesDoNotOverlap
<1> DEFINE Begins == \A b \in Targets :
                       (check[b] = "none" /\ check'[b] = "probing") => AllChecksDone
<1>1. CycleInv /\ [MonitorNext]_monitorVars => [Begins]_monitorVars
  <2> SUFFICES ASSUME CycleInv, MonitorNext, NEW b \in Targets,
                      check[b] = "none", check'[b] = "probing"
               PROVE  AllChecksDone
    OBVIOUS
  <2>1. CASE Start \/ SelectTick
    BY <2>1 DEF Start, SelectTick, CycleInv
  <2>2. CASE CycleEnds \/ SelectStop \/ Tick \/ Stop \/ StopReturns \/ StopTimesOut
    BY <2>2 DEF CycleEnds, SelectStop, Tick, Stop, StopReturns, StopTimesOut
  <2>3. ASSUME NEW d \in Targets, CheckReturns(d) \/ CheckDone(d) PROVE AllChecksDone
    BY <2>3 DEF CheckReturns, CheckDone, CycleInv, MonitorTypeOK
  <2> QED
    BY <2>1, <2>2, <2>3 DEF MonitorNext, LoopStep
<1>2. MonitorSpec => [][Begins]_monitorVars
  BY <1>1, CycleHolds, PTL DEF MonitorSpec
<1> QED
  BY <1>2 DEF CyclesDoNotOverlap

-----------------------------------------------------------------------------
(* The monitor in the process.                                             *)

LEMMA InitMaps == Init => MonitorInit
BY DEF Init

LEMMA StepMaps == [Next]_vars => [MonitorNext]_monitorVars
<1> SUFFICES ASSUME [Next]_vars PROVE [MonitorNext]_monitorVars
  OBVIOUS
<1>1. CASE MonitorRuns
  BY <1>1 DEF MonitorRuns, MonitorNext
<1>2. ASSUME NEW b \in Targets, CheckRuns(b) PROVE MonitorNext
  BY <1>2 DEF CheckRuns, MonitorNext
<1>3. CASE Listen \/ ServerShutdown \/ Drained \/ ServerCloses
  BY <1>3 DEF Listen, ServerShutdown, Drained, ServerCloses
<1>4. ASSUME NEW r \in Conns, Arrive(r) \/ Answer(r) PROVE UNCHANGED monitorVars
  BY <1>4 DEF Arrive, Answer
<1>5. CASE Signal \/ LimiterStops \/ Exit
  BY <1>5 DEF Signal, LimiterStops, Exit
<1>6. CASE MonitorStop
  BY <1>6 DEF MonitorStop, MonitorNext
<1>7. CASE Clock
  <2>1. Ticker
    BY <1>7 DEF Clock
  <2> QED
    BY <2>1 DEF Ticker, MonitorNext
<1>8. CASE UNCHANGED vars
  BY <1>8 DEF vars
<1> QED
  BY <1>1, <1>2, <1>3, <1>4, <1>5, <1>6, <1>7, <1>8 DEF Next

\* Every behaviour of the process is one of the monitor alone: neither the
\* clock nor the rest of the process adds anything to it.
THEOREM MonitorIsImplemented == Spec => MonitorSpec
BY InitMaps, StepMaps, PTL DEF Spec, MonitorSpec

\* After a graceful Stop nobody checks any more, whatever the process does.
THEOREM ProcessIsQuietAfterStop == Spec => []QuietAfterStop
BY MonitorIsImplemented, QuietAfterStopHolds, PTL

\* The check cycles of the process never overlap.
THEOREM ProcessCyclesDoNotOverlap == Spec => CyclesDoNotOverlap
BY MonitorIsImplemented, CyclesDoNotOverlapHolds

-----------------------------------------------------------------------------
\* The server stops listening before it drains, and has no request left when
\* its Stop returns, so that main cannot cut one when it exits early.
ServerInv ==
    /\ conn \in [Conns -> {"idle", "active", "lost"}]
    /\ seconds \in Nat
    /\ main = "serving" => server = "serving"
    /\ server \in {"draining", "drained", "closed"} => listener \in {"failed", "closed"}
    /\ server \in {"drained", "closed"} => NoneActive

LEMMA ServerInit == Init => ServerInv
BY DEF Init, ServerInv

LEMMA ServerStep == ServerInv /\ [Next]_vars => ServerInv'
<1> SUFFICES ASSUME ServerInv, [Next]_vars PROVE ServerInv'
  OBVIOUS
<1> USE DEF ServerInv, NoneActive, serverVars, clockVars
<1>1. CASE MonitorRuns \/ MonitorStop \/ LimiterStops
  BY <1>1 DEF MonitorRuns, MonitorStop, LimiterStops
<1>2. ASSUME NEW b \in Targets, CheckRuns(b) PROVE ServerInv'
  BY <1>2 DEF CheckRuns
<1>3. CASE Listen \/ ServerShutdown \/ Drained
  BY <1>3 DEF Listen, ServerShutdown, Drained, Alive
<1>4. CASE ServerCloses \/ Exit
  BY <1>4 DEF ServerCloses, Exit, Cut
<1>5. ASSUME NEW r \in Conns, Arrive(r) \/ Answer(r) PROVE ServerInv'
  BY <1>5 DEF Arrive, Answer
<1>6. CASE Signal
  BY <1>6 DEF Signal
<1>7. CASE Clock
  BY <1>7, GraceAssumption DEF Clock
<1>8. CASE UNCHANGED vars
  BY <1>8 DEF vars
<1> QED
  BY <1>1, <1>2, <1>3, <1>4, <1>5, <1>6, <1>7, <1>8 DEF Next

LEMMA ServerHolds == Spec => []ServerInv
BY ServerInit, ServerStep, PTL DEF Spec

\* No request is cut before the server had its grace: neither by Close nor by
\* the end of the process.
THEOREM LostOnlyAfterGraceHolds == Spec => LostOnlyAfterGrace
<1> DEFINE Late == \A r \in Conns :
                     (conn[r] = "active" /\ conn'[r] = "lost") => seconds >= ServerGrace
<1>1. ServerInv /\ [Next]_vars => [Late]_vars
  <2> SUFFICES ASSUME ServerInv, Next, NEW r \in Conns,
                      conn[r] = "active", conn'[r] = "lost"
               PROVE  seconds >= ServerGrace
    OBVIOUS
  <2>1. CASE ServerCloses
    BY <2>1 DEF ServerCloses
  <2>2. CASE Exit
    BY <2>2, GraceAssumption DEF Exit, MayExit, AllStopped, ServerInv, NoneActive
  <2>3. ASSUME NEW d \in Conns, Arrive(d) \/ Answer(d) PROVE FALSE
    BY <2>3 DEF Arrive, Answer, ServerInv
  <2>4. ASSUME UNCHANGED conn PROVE FALSE
    BY <2>4
  <2>5. ASSUME NEW b \in Targets, CheckRuns(b) PROVE FALSE
    BY <2>5 DEF CheckRuns, serverVars
  <2> QED
    BY <2>1, <2>2, <2>3, <2>4, <2>5
       DEF Next, MonitorRuns, Listen, ServerShutdown, Drained, Signal, MonitorStop,
           LimiterStops, Clock, serverVars
<1>2. Spec => [][Late]_vars
  BY <1>1, ServerHolds, PTL DEF Spec
<1> QED
  BY <1>2 DEF LostOnlyAfterGrace

-----------------------------------------------------------------------------
(* The clock, and the deadlines of main.                                   *)

\* What runs has been started, and what main stops has been told to.
LifeInv ==
    /\ config.checks => phase < config.interval
    /\ ~config.checks => loop = "new" /\ stopper = "none"
    /\ loop = "new" => phase = 0 /\ ~tick
    /\ main = "serving" => seconds = 0 /\ stopper = "none" /\ server = "serving"
    /\ main = "stopping" => server # "serving" /\ limiter # "running"
    /\ stopper # "none" => stopCh

ProcessInv == TypeOK /\ CycleInv /\ LifeInv

LEMMA ConfigFacts ==
    ASSUME config \in Config
    PROVE  /\ config.checks \in BOOLEAN
           /\ config.timeout \in Nat /\ config.interval \in Nat
           /\ config.limiter \in {"none", "memory", "hybrid"}
           /\ config.checks => config.timeout > 0 /\ config.interval > 0
BY ConfigAssumption DEF Config, Validated

LEMMA ProcessInit == Init => ProcessInv
<1> SUFFICES ASSUME Init PROVE ProcessInv
  OBVIOUS
<1>1. CycleInv
  BY CycleInit DEF Init
<1>2. TypeOK /\ LifeInv
  BY <1>1, ConfigFacts, GraceAssumption
     DEF Init, MonitorInit, TypeOK, LifeInv, CycleInv
<1> QED
  BY <1>1, <1>2 DEF ProcessInv

\* A cycle in progress is waiting for a check, and that check has time left.
LEMMA ChecksHaveTime ==
    ASSUME ProcessInv, Alive, ~CanRun, loop = "checking"
    PROVE  spent < config.timeout
<1>1. config.checks
  BY DEF ProcessInv, LifeInv
<1>2. PICK b \in Targets : check[b] # "none"
  BY <1>1 DEF CanRun, LoopCanRun, AllChecksDone
<1>3. check[b] = "probing" /\ ~(spent >= config.timeout)
  BY <1>2 DEF CanRun, CheckCanRun, ProcessInv, CycleInv, MonitorTypeOK
<1> QED
  BY <1>3, ConfigFacts DEF ProcessInv, TypeOK

LEMMA ProcessStep == ProcessInv /\ [Next]_vars => ProcessInv'
<1> SUFFICES ASSUME ProcessInv, [Next]_vars PROVE ProcessInv'
  OBVIOUS
<1>1. CycleInv'
  BY StepMaps, CycleStep DEF ProcessInv
<1>2. MonitorTypeOK'
  BY <1>1 DEF CycleInv
<1>3. config \in Config /\ TypeOK /\ LifeInv
  BY DEF ProcessInv, TypeOK
<1> SUFFICES TypeOK' /\ LifeInv'
  BY <1>1 DEF ProcessInv
<1> USE <1>2, <1>3 DEF TypeOK, LifeInv, serverVars, clockVars
<1>4. CASE MonitorRuns
  BY <1>4, ConfigFacts
     DEF MonitorRuns, LoopStep, Start, CycleEnds, SelectTick, SelectStop, SpawnChecks
<1>5. ASSUME NEW b \in Targets, CheckRuns(b) PROVE TypeOK' /\ LifeInv'
  BY <1>5 DEF CheckRuns, CheckReturns, CheckDone
<1>6. CASE Listen \/ ServerShutdown \/ Drained \/ ServerCloses \/ Exit
  BY <1>6 DEF Listen, ServerShutdown, Drained, ServerCloses, Exit, Cut, Alive, monitorVars
<1>7. ASSUME NEW r \in Conns, Arrive(r) \/ Answer(r) PROVE TypeOK' /\ LifeInv'
  BY <1>7 DEF Arrive, Answer, monitorVars
<1>8. CASE Signal
  BY <1>8 DEF Signal, monitorVars
<1>9. CASE MonitorStop
  BY <1>9, ConfigFacts DEF MonitorStop, Stop, StopReturns, StopTimesOut
<1>10. CASE LimiterStops
  BY <1>10 DEF LimiterStops, monitorVars
<1>11. CASE Clock
  <2>1. /\ Alive /\ ~CanRun /\ Ticker
        /\ spent' = IF loop = "checking" THEN spent + 1 ELSE spent
        /\ seconds' = IF main = "stopping" /\ seconds <= TotalGrace
                      THEN seconds + 1 ELSE seconds
        /\ UNCHANGED <<config, main, serverVars, limiter>>
    BY <1>11 DEF Clock
  <2>2. spent' \in 0 .. config'.timeout
    BY <2>1, ChecksHaveTime, ConfigFacts DEF ProcessInv
  <2>3. seconds' \in 0 .. TotalGrace + 1 /\ (main' = "serving" => seconds' = 0)
    BY <2>1, GraceAssumption
  <2>4. UNCHANGED <<loop, check, stopCh, stopper>>
    BY <2>1 DEF Ticker, Tick, monitorVars
  <2>5. loop # "new" => config.checks
    OBVIOUS
  <2>6. /\ phase' \in 0 .. config.interval
        /\ config.checks => phase' < config.interval
        /\ loop = "new" => phase' = 0 /\ ~tick'
    BY <2>1, <2>5, ConfigFacts DEF Ticker, Fires, Tick, monitorVars
  <2> QED
    BY <2>1, <2>2, <2>3, <2>4, <2>6
<1>12. CASE UNCHANGED vars
  BY <1>12 DEF vars, monitorVars
<1> QED
  BY <1>4, <1>5, <1>6, <1>7, <1>8, <1>9, <1>10, <1>11, <1>12 DEF Next

LEMMA ProcessHolds == Spec => []ProcessInv
BY ProcessInit, ProcessStep, PTL DEF Spec

\* The process is always in one of its states: in particular no check lasts
\* longer than its timeout, and the seconds since the signal stay below the
\* last deadline (main, lines 118-180).
THEOREM TypeCorrect == Spec => []TypeOK
<1>1. ProcessInv => TypeOK
  BY DEF ProcessInv
<1> QED
  BY <1>1, ProcessHolds, PTL

\* What main still waits for when time passes after the signal.
LEMMA WhatMainWaitsFor ==
    ASSUME ProcessInv, Alive, ~CanRun, main = "stopping"
    PROVE  /\ seconds < TotalGrace
           /\ config.limiter # "hybrid" => seconds < ServerGrace
<1> USE DEF ProcessInv, TypeOK, LifeInv
<1>1. seconds \in Nat /\ ~MayExit
  BY GraceAssumption DEF CanRun
<1>2. seconds < TotalGrace
  BY <1>1, GraceAssumption DEF MayExit
<1>3. ASSUME config.limiter # "hybrid" PROVE seconds < ServerGrace
  <2>1. limiter = "stopped"
    BY <1>3 DEF CanRun
  <2>2. server = "draining" => seconds < ServerGrace
    BY <1>1, GraceAssumption DEF CanRun, ServerCanRun
  <2>3. server # "draining" => server \in {"drained", "closed"}
    BY DEF CanRun, ServerCanRun
  <2>4. MonitorStopped \/ (config.checks /\ stopper \in {"none", "waiting"})
    BY DEF MonitorStopped, MonitorTypeOK, Stopper
  <2>5. ASSUME config.checks, stopper \in {"none", "waiting"} PROVE seconds < ServerGrace
    <3>1. loop # "new" /\ stopper = "waiting" /\ seconds < MonitorGrace
      BY <1>1, <2>5, GraceAssumption DEF CanRun, LoopCanRun, StopCanRun
    <3> QED
      BY <1>1, <3>1, GraceAssumption
  <2> QED
    BY <1>1, <2>1, <2>2, <2>3, <2>4, <2>5 DEF MayExit, AllStopped
<1> QED
  BY <1>2, <1>3

\* Unless the hybrid limiter is in use, main exits within the grace of the
\* server after the signal; with it, within the time of all (main, lines
\* 134-177).
THEOREM ExitsInTimeHolds == Spec => []ExitsInTime
<1>1. Init => ExitsInTime
  BY GraceAssumption DEF Init, ExitsInTime
<1>2. ProcessInv /\ ExitsInTime /\ [Next]_vars => ExitsInTime'
  <2> SUFFICES ASSUME ProcessInv, ExitsInTime, [Next]_vars PROVE ExitsInTime'
    OBVIOUS
  <2>1. CASE UNCHANGED <<config, seconds>>
    BY <2>1 DEF ExitsInTime
  <2>2. CASE Clock
    BY <2>2, WhatMainWaitsFor, GraceAssumption
       DEF Clock, ExitsInTime, ProcessInv, TypeOK
  <2> QED
    BY <2>1, <2>2
       DEF Next, vars, clockVars, MonitorRuns, CheckRuns, Listen, ServerShutdown, Drained,
           ServerCloses, Arrive, Answer, Signal, MonitorStop, LimiterStops, Exit
<1> QED
  BY <1>1, <1>2, ProcessHolds, PTL DEF Spec

\* With a configuration LoadConfig does not warn of no cycle outlasts the
\* ticker, so that Stop finds at most one cycle in progress, and a tick that
\* waits in the channel when Stop is called starts one in the same second:
\* Stop has waited no longer than that cycle has lasted.
PromptInv ==
    (config.checks /\ ~Warned(config)) =>
       /\ loop = "checking" => ~tick /\ phase = spent
       /\ (loop = "select" /\ tick) => phase = 0
       /\ stopper = "none" => seconds = 0
       /\ stopper = "waiting" =>
            /\ loop = "new" => seconds = 0
            /\ loop = "checking" => seconds <= spent
            /\ (loop = "select" /\ tick) => seconds = 0
            /\ seconds <= config.timeout

LEMMA PromptInit == Init => PromptInv /\ StopIsInTime
BY DEF Init, MonitorInit, PromptInv, StopIsInTime

LEMMA PromptStep ==
    ProcessInv /\ PromptInv /\ StopIsInTime /\ [Next]_vars => PromptInv' /\ StopIsInTime'
<1> SUFFICES ASSUME ProcessInv, PromptInv, StopIsInTime, [Next]_vars
             PROVE  PromptInv' /\ StopIsInTime'
  OBVIOUS
<1>1. /\ config \in Config /\ TypeOK /\ LifeInv
      /\ seconds \in Nat /\ spent \in Nat /\ phase \in Nat
  BY GraceAssumption DEF ProcessInv, TypeOK
<1>2. config.timeout \in Nat /\ config.interval \in Nat
  BY <1>1, ConfigFacts
<1> USE <1>1, <1>2 DEF PromptInv, StopIsInTime, LifeInv, Warned, serverVars, clockVars
<1>3. CASE MonitorRuns
  <2>1. CASE Start
    BY <1>3, <2>1 DEF MonitorRuns, Start, SpawnChecks
  <2>2. CASE SelectTick
    BY <1>3, <2>2 DEF MonitorRuns, SelectTick, SpawnChecks
  <2>3. CASE CycleEnds \/ SelectStop
    BY <1>3, <2>3 DEF MonitorRuns, CycleEnds, SelectStop
  <2> QED
    BY <1>3, <2>1, <2>2, <2>3 DEF MonitorRuns, LoopStep
<1>4. ASSUME NEW b \in Targets, CheckRuns(b) PROVE PromptInv' /\ StopIsInTime'
  BY <1>4 DEF CheckRuns, CheckReturns, CheckDone
<1>5. CASE Listen \/ ServerShutdown \/ Drained \/ ServerCloses \/ Exit \/ LimiterStops
  BY <1>5 DEF Listen, ServerShutdown, Drained, ServerCloses, Exit, LimiterStops, monitorVars
<1>6. ASSUME NEW r \in Conns, Arrive(r) \/ Answer(r) PROVE PromptInv' /\ StopIsInTime'
  BY <1>6 DEF Arrive, Answer, monitorVars
<1>7. CASE Signal
  BY <1>7 DEF Signal, monitorVars
<1>8. CASE MonitorStop
  <2>1. CASE Stop
    BY <1>8, <2>1 DEF MonitorStop, Stop
  <2>2. CASE StopReturns
    BY <1>8, <2>2 DEF MonitorStop, StopReturns
  <2>3. CASE seconds >= MonitorGrace /\ StopTimesOut
    BY <1>8, <2>3, GraceAssumption DEF MonitorStop, StopTimesOut
  <2> QED
    BY <1>8, <2>1, <2>2, <2>3 DEF MonitorStop
<1>9. CASE Clock
  <2>1. /\ Alive /\ ~CanRun /\ Ticker
        /\ spent' = IF loop = "checking" THEN spent + 1 ELSE spent
        /\ seconds' = IF main = "stopping" /\ seconds <= TotalGrace
                      THEN seconds + 1 ELSE seconds
        /\ UNCHANGED <<config, main, serverVars, limiter>>
    BY <1>9 DEF Clock
  <2>2. UNCHANGED <<config, loop, check, stopCh, stopper>>
    BY <2>1 DEF Ticker, Tick, monitorVars
  <2>3. StopIsInTime'
    BY <2>2
  <2>4. ASSUME config.checks, ~Warned(config) PROVE PromptInv'
    <3>1. /\ loop = "checking" \/ (loop = "select" /\ ~tick /\ ~stopCh) \/ loop = "stopped"
          /\ main = "stopping" =>
               stopper # "none" /\ (stopper = "waiting" => loop # "stopped")
      BY <2>1, <2>4, <1>1
         DEF CanRun, LoopCanRun, StopCanRun, TypeOK, MonitorTypeOK, Loop
    <3>2. main = "serving" \/ main = "stopping"
      BY <1>1, <2>1 DEF Alive, TypeOK
    <3>3. stopper = "none" => seconds' = 0
      BY <2>1, <2>4, <3>1, <3>2
    <3>4. CASE loop = "checking"
      <4>1. spent < config.timeout
        BY <2>1, <3>4, ChecksHaveTime
      <4>2. ~tick' /\ phase' = spent' /\ spent' = spent + 1
        BY <2>1, <2>4, <3>4, <4>1 DEF Ticker, Fires, monitorVars
      <4>3. seconds' \in Nat /\ seconds' <= seconds + 1
        BY <2>1
      <4> QED
        BY <2>2, <2>4, <3>3, <3>4, <4>1, <4>2, <4>3
    <3>5. CASE loop = "select" /\ ~tick /\ ~stopCh
      <4>1. tick' => phase' = 0
        BY <2>1, <3>5 DEF Ticker, Tick, monitorVars
      <4>2. stopper = "none"
        BY <3>5
      <4> QED
        BY <2>2, <3>3, <3>5, <4>1, <4>2
    <3>6. CASE loop = "stopped"
      <4>1. stopper # "waiting" \/ seconds' = seconds
        BY <2>1, <3>1, <3>2, <3>6
      <4> QED
        BY <2>2, <2>4, <3>3, <3>6, <4>1
    <3> QED
      BY <3>1, <3>4, <3>5, <3>6
  <2> QED
    BY <2>2, <2>3, <2>4
<1>10. CASE UNCHANGED vars
  BY <1>10 DEF vars, monitorVars
<1> QED
  BY <1>3, <1>4, <1>5, <1>6, <1>7, <1>8, <1>9, <1>10 DEF Next

\* With a configuration that LoadConfig accepts without a warning and a check
\* timeout below the grace of the monitor, Stop never times out, whatever the
\* signal finds the loop doing (HealthMonitor.Stop, lines 97-113; config.go,
\* lines 126-136).
THEOREM StopIsInTimeHolds == Spec => []StopIsInTime
BY ProcessHolds, PromptInit, PromptStep, PTL DEF Spec

-----------------------------------------------------------------------------
(* The steps between two seconds.                                          *)

LEMMA CheckingIsCount ==
    ASSUME NEW state
    PROVE  Checking(state) \in Nat /\ Checking(state)' \in Nat
<1>1. /\ IsFiniteSet({b \in Targets : check[b] = state})
      /\ IsFiniteSet({b \in Targets : check'[b] = state})
  BY TargetsAssumption, FS_Subset
<1> QED
  BY <1>1, FS_CardinalityType DEF Checking

LEMMA CycleStepsIs == CycleSteps \in Nat /\ CycleSteps = 2 * Cardinality(Targets) + 2
BY TargetsAssumption, FS_CardinalityType DEF CycleSteps

\* One check fewer is in the state that b leaves, one more in the one it
\* enters.
LEMMA CheckMoves ==
    ASSUME MonitorTypeOK, NEW b \in Targets, NEW from, NEW to, from # to,
           check[b] = from, check' = [check EXCEPT ![b] = to]
    PROVE  /\ Checking(from)' = Checking(from) - 1
           /\ Checking(to)' = Checking(to) + 1
           /\ \A other : other \notin {from, to} => Checking(other)' = Checking(other)
<1> DEFINE In(state) == {d \in Targets : check[d] = state}
           Then(state) == {d \in Targets : check'[d] = state}
<1>1. \A d \in Targets : check'[d] = IF d = b THEN to ELSE check[d]
  BY DEF MonitorTypeOK
<1>2. b \in In(from) /\ b \notin In(to)
  OBVIOUS
<1>3. Then(from) = In(from) \ {b} /\ Then(to) = In(to) \cup {b}
  BY <1>1
<1>4. IsFiniteSet(In(from)) /\ IsFiniteSet(In(to))
  BY TargetsAssumption, FS_Subset
<1>5. Cardinality(Then(from)) = Cardinality(In(from)) - 1
  <2> HIDE DEF In, Then
  <2> QED
    BY <1>2, <1>3, <1>4, FS_RemoveElement
<1>6. Cardinality(Then(to)) = Cardinality(In(to)) + 1
  <2> HIDE DEF In, Then
  <2> QED
    BY <1>2, <1>3, <1>4, FS_AddElement
<1>7. ASSUME NEW other, other \notin {from, to} PROVE Then(other) = In(other)
  BY <1>1, <1>7
<1> QED
  BY <1>5, <1>6, <1>7 DEF Checking

LEMMA AllProbing ==
    ASSUME SpawnChecks
    PROVE  Checking("probing")' = Cardinality(Targets) /\ Checking("marking")' = 0
<1>1. {b \in Targets : check'[b] = "probing"} = Targets
  BY DEF SpawnChecks
<1>2. {b \in Targets : check'[b] = "marking"} = {}
  BY DEF SpawnChecks
<1> QED
  BY <1>1, <1>2, FS_EmptySet DEF Checking

LEMMA NoneChecking ==
    ASSUME AllChecksDone
    PROVE  Checking("probing") = 0 /\ Checking("marking") = 0
<1>1. {b \in Targets : check[b] = "probing"} = {}
  BY DEF AllChecksDone
<1>2. {b \in Targets : check[b] = "marking"} = {}
  BY DEF AllChecksDone
<1> QED
  BY <1>1, <1>2, FS_EmptySet DEF Checking

LEMMA ChecksLeftIs == ChecksLeft \in Nat /\ ChecksLeft' \in Nat
<1>1. /\ Checking("probing") \in Nat /\ Checking("probing")' \in Nat
      /\ Checking("marking") \in Nat /\ Checking("marking")' \in Nat
  BY CheckingIsCount
<1>2. /\ ChecksLeft = 2 * Checking("probing") + Checking("marking")
      /\ ChecksLeft' = 2 * Checking("probing")' + Checking("marking")'
  BY DEF ChecksLeft
<1> QED
  BY <1>1, <1>2

\* A start or a tick is worth a cycle.
CyclesOf(begins, ticks) ==
    IF begins /\ ticks THEN 2 * CycleSteps ELSE IF begins \/ ticks THEN CycleSteps ELSE 0

LEMMA CyclesLeftIs ==
    /\ CyclesLeft = CyclesOf(loop = "new", tick)
    /\ CyclesLeft' = CyclesOf(loop' = "new", tick')
<1>1. ASSUME NEW begins, NEW ticks
      PROVE  CycleSteps * (Steps(1, begins) + Steps(1, ticks)) = CyclesOf(begins, ticks)
  <2>1. CycleSteps \in Nat /\ CycleSteps * 0 = 0 /\ CycleSteps * 1 = CycleSteps
        /\ CycleSteps * 2 = 2 * CycleSteps
    BY CycleStepsIs
  <2>2. CASE begins /\ ticks
    BY <2>1, <2>2 DEF CyclesOf, Steps
  <2>3. CASE ~begins /\ ~ticks
    BY <2>1, <2>3 DEF CyclesOf, Steps
  <2>4. CASE begins /\ ~ticks
    BY <2>1, <2>4 DEF CyclesOf, Steps
  <2>5. CASE ~begins /\ ticks
    BY <2>1, <2>5 DEF CyclesOf, Steps
  <2> QED
    BY <2>2, <2>3, <2>4, <2>5
<1>2. CycleSteps' = CycleSteps
  BY DEF CycleSteps
<1> QED
  BY <1>1, <1>2 DEF CyclesLeft

LEMMA StagesLeftIs == StagesLeft \in Nat /\ StagesLeft' \in Nat
BY DEF StagesLeft, Steps

\* What can be lowered only finitely often.
LEMMA WorkIsNat == Work \in Nat
BY ChecksLeftIs, CyclesLeftIs, StagesLeftIs, CycleStepsIs DEF Work, CyclesOf

LEMMA LessWork ==
    ASSUME CyclesLeft \in Nat, CyclesLeft' \in Nat, ChecksLeft' = ChecksLeft,
           CyclesLeft' <= CyclesLeft, StagesLeft' < StagesLeft
    PROVE  Work' < Work
<1>1. /\ StagesLeft \in Nat /\ StagesLeft' \in Nat
      /\ ChecksLeft \in Nat /\ ChecksLeft' \in Nat
  BY StagesLeftIs, ChecksLeftIs
<1>2. \A a, b, c, d, e, f \in Nat :
        (d = a /\ e <= b /\ f < c) => d + e + f < a + b + c
  OBVIOUS
<1>3. ChecksLeft' + CyclesLeft' + StagesLeft' < ChecksLeft + CyclesLeft + StagesLeft
  BY <1>1, <1>2, Zenon
<1> QED
  BY <1>3 DEF Work

\* What a step of a shutdown leaves is less by a stage.
LEMMA StageIsPaid ==
    ASSUME UNCHANGED check, UNCHANGED <<loop, tick>>, StagesLeft' < StagesLeft
    PROVE  Work' < Work
<1>1. ChecksLeft' = ChecksLeft /\ CyclesLeft' = CyclesLeft
  BY DEF ChecksLeft, CyclesLeft, Checking, CycleSteps, Steps
<1>2. CyclesLeft \in Nat
  BY CyclesLeftIs, CycleStepsIs DEF CyclesOf
<1> QED
  BY <1>1, <1>2, LessWork

\* The steps of a cycle are paid for by the tick, or the start, that begins it.
LEMMA LoopIsPaid ==
    ASSUME ProcessInv, MonitorRuns
    PROVE  Work' < Work
<1> USE DEF CyclesOf
<1>1. UNCHANGED <<stopper, listener, server, limiter, main>>
  BY DEF MonitorRuns, LoopStep, Start, CycleEnds, SelectTick, SelectStop, serverVars
<1>2. CycleSteps \in Nat /\ CycleSteps' = CycleSteps
  BY CycleStepsIs DEF CycleSteps
<1>3. CASE Start \/ SelectTick
  <2>1. AllChecksDone
    BY <1>3 DEF Start, SelectTick, ProcessInv, CycleInv
  <2>2. ChecksLeft = 0
    BY <2>1, NoneChecking DEF ChecksLeft
  <2>3. SpawnChecks
    BY <1>3 DEF Start, SelectTick
  <2>4. ChecksLeft' = 2 * Cardinality(Targets)
    BY <2>3, AllProbing, TargetsAssumption, FS_CardinalityType DEF ChecksLeft
  <2>5. CyclesLeft = CyclesLeft' + CycleSteps /\ CyclesLeft' \in Nat
    <3>1. CASE Start
      BY <1>2, <3>1, CyclesLeftIs DEF Start, SpawnChecks
    <3>2. CASE SelectTick
      BY <1>2, <3>2, CyclesLeftIs DEF SelectTick, SpawnChecks
    <3> QED
      BY <1>3, <3>1, <3>2
  <2>6. StagesLeft' = StagesLeft + 1
    BY <1>1, <1>3 DEF Start, SelectTick, SpawnChecks, StagesLeft, Steps
  <2>7. Cardinality(Targets) \in Nat
    BY TargetsAssumption, FS_CardinalityType
  <2> QED
    BY <2>2, <2>4, <2>5, <2>6, <2>7, CycleStepsIs, StagesLeftIs DEF Work
<1>4. CASE CycleEnds
  <2>1. ChecksLeft' = ChecksLeft
    BY <1>4 DEF CycleEnds, ChecksLeft, Checking
  <2>2. CyclesLeft' = CyclesLeft /\ CyclesLeft \in Nat
    BY <1>2, <1>4, CyclesLeftIs DEF CycleEnds
  <2>3. StagesLeft' < StagesLeft
    BY <1>1, <1>4 DEF CycleEnds, StagesLeft, Steps
  <2> QED
    BY <2>1, <2>2, <2>3, LessWork
<1>5. CASE SelectStop
  <2>1. ChecksLeft' = ChecksLeft
    BY <1>5 DEF SelectStop, ChecksLeft, Checking
  <2>2. CyclesLeft' <= CyclesLeft /\ CyclesLeft' \in Nat /\ CyclesLeft \in Nat
    BY <1>2, <1>5, CyclesLeftIs DEF SelectStop
  <2>3. StagesLeft' < StagesLeft
    BY <1>1, <1>5 DEF SelectStop, StagesLeft, Steps
  <2> QED
    BY <2>1, <2>2, <2>3, LessWork
<1> QED
  BY <1>3, <1>4, <1>5 DEF MonitorRuns, LoopStep

\* A check that has its answer, or has marked, has a step less to make.
LEMMA CheckIsPaid ==
    ASSUME ProcessInv, NEW b \in Targets, CheckRuns(b)
    PROVE  Work' < Work
<1>1. UNCHANGED <<loop, tick, stopper, listener, server, limiter, main>>
  BY DEF CheckRuns, CheckReturns, CheckDone, serverVars
<1>2. CyclesLeft' = CyclesLeft /\ StagesLeft' = StagesLeft
  BY <1>1 DEF CyclesLeft, StagesLeft, CycleSteps, Steps
<1>3. CyclesLeft \in Nat
  BY CyclesLeftIs, CycleStepsIs DEF CyclesOf
<1>4. /\ Checking("probing") \in Nat /\ Checking("probing")' \in Nat
      /\ Checking("marking") \in Nat /\ Checking("marking")' \in Nat
  BY CheckingIsCount
<1>5. MonitorTypeOK
  BY DEF ProcessInv, TypeOK
<1>6. \/ /\ Checking("probing")' = Checking("probing") - 1
         /\ Checking("marking")' = Checking("marking") + 1
      \/ /\ Checking("probing")' = Checking("probing")
         /\ Checking("marking")' = Checking("marking") - 1
  <2>1. CASE CheckReturns(b)
    BY <1>5, <2>1, CheckMoves DEF CheckReturns
  <2>2. CASE CheckDone(b)
    <3>1. check[b] = "marking" /\ check' = [check EXCEPT ![b] = "none"]
      BY <2>2 DEF CheckDone
    <3>2. "marking" # "none"
      OBVIOUS
    <3>3. /\ Checking("marking")' = Checking("marking") - 1
          /\ \A other : other \notin {"marking", "none"} => Checking(other)' = Checking(other)
      BY <1>5, <3>1, <3>2, CheckMoves, Zenon
    <3> QED
      BY <3>3
  <2> QED
    BY <2>1, <2>2 DEF CheckRuns
<1>7. ChecksLeft' = ChecksLeft - 1
  BY <1>4, <1>6 DEF ChecksLeft
<1> QED
  BY <1>2, <1>3, <1>7, ChecksLeftIs, StagesLeftIs DEF Work

\* Between two seconds the process makes finitely many steps: each one that is
\* not a second, a signal or the coming and going of a request lowers Work,
\* which is a natural number (WorkIsNat).  So a busy process comes to rest
\* without the clock, and the model may let it run in no time at all (Start,
\* lines 48-59 of health_monitor.go; main, lines 134-177).
THEOREM ComesToRestHolds == Spec => ComesToRest
<1> DEFINE Less == \/ Work' < Work
                   \/ Clock \/ Signal
                   \/ \E r \in Conns : Arrive(r) \/ Answer(r)
<1>1. ProcessInv /\ [Next]_vars => [Less]_vars
  <2> SUFFICES ASSUME ProcessInv, Next, ~Clock, ~Signal,
                      ~\E r \in Conns : Arrive(r) \/ Answer(r)
               PROVE  Work' < Work
    OBVIOUS
  <2> USE DEF StagesLeft, Steps, serverVars, monitorVars
  <2>1. CASE MonitorRuns
    BY <2>1, LoopIsPaid
  <2>2. ASSUME NEW b \in Targets, CheckRuns(b) PROVE Work' < Work
    BY <2>2, CheckIsPaid
  <2>3. CASE Listen
    BY <2>3, StageIsPaid DEF Listen
  <2>4. CASE ServerShutdown
    BY <2>4, StageIsPaid DEF ServerShutdown
  <2>5. CASE Drained \/ ServerCloses
    BY <2>5, StageIsPaid DEF Drained, ServerCloses
  <2>6. CASE MonitorStop
    BY <2>6, StageIsPaid DEF MonitorStop, Stop, StopReturns, StopTimesOut
  <2>7. CASE LimiterStops
    BY <2>7, StageIsPaid DEF LimiterStops
  <2>8. CASE Exit
    BY <2>8, StageIsPaid DEF Exit
  <2> QED
    BY <2>1, <2>2, <2>3, <2>4, <2>5, <2>6, <2>7, <2>8 DEF Next
<1>2. Spec => [][Less]_vars
  BY <1>1, ProcessHolds, PTL DEF Spec
<1> QED
  BY <1>2 DEF ComesToRest
=============================================================================
