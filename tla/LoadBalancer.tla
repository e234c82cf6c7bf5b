---------------------------- MODULE LoadBalancer ----------------------------
(***************************************************************************)
(* The load balancer while it runs: request goroutines, the health monitor *)
(* and the backends themselves around one pool, as cmd/lb/main.go wires    *)
(* them.  Requests and checks meet only in the pool: both mark, only       *)
(* requests look up.                                                       *)
(*                                                                         *)
(* Every action of the components occurs here, joined where one goroutine  *)
(* is in two components at once: asking for a backend is a lookup of the   *)
(* pool, a failed forward and a finished check begin a mark.  main never   *)
(* calls SetStrategy, IncrementConnections or DecrementConnections, so the *)
(* strategy stays round-robin; the shutdown is not part of this module.    *)
(***************************************************************************)
EXTENDS Integers

CONSTANTS
    Requests, N, CounterMod, MaxAttempts, Kinds, ClientsFail,
    BackendsFail, \* whether a backend may go down
    HealthChecks, \* healthCheck.enabled: without it there is no monitor
    None

Backends == 0 .. N - 1

ASSUME LoadBalancerAssumption ==
    /\ N \in Nat \ {0} /\ CounterMod \in Nat /\ N <= CounterMod
    /\ MaxAttempts \in Nat \ {0}
    /\ Kinds \subseteq {"none", "fresh", "upgrade"}
    /\ {BackendsFail, HealthChecks, ClientsFail} \subseteq BOOLEAN
    /\ None \notin Backends

\* A request goroutine is not a check goroutine.
ASSUME GoroutinesAssumption == Requests \cap Backends = {}

VARIABLES
    up,                                          \* the backends themselves
    alive, current, strategy, connections, frame,\* the pool
    loop, tick, check, stopCh, stopper,          \* the health monitor
    pc, attempts, target, body, gone, answer     \* the requests

poolVars == <<alive, current, strategy, connections, frame>>
monitorVars == <<loop, tick, check, stopCh, stopper>>
serviceVars == <<pc, attempts, target, body, gone, answer>>
vars == <<up, poolVars, monitorVars, serviceVars>>

\* Every backend has a URL of its own, here the backend itself.  The check
\* goroutine of backend b calls the pool under the name b.
Pool == INSTANCE MemoryPool
          WITH Callers <- Requests \cup Backends, Urls <- Backends,
               UrlOf <- [b \in Backends |-> b], MaxConnections <- 0

Monitor == INSTANCE HealthMonitor WITH Targets <- Backends

Service == INSTANCE LoadBalancerService WITH Entries <- Backends

Serving == {b \in Backends : up[b]}

Init ==
    /\ up \in [Backends -> BOOLEAN]
    /\ BackendsFail \/ \A b \in Backends : up[b]
    /\ Pool!Init
    /\ Monitor!MonitorInit
    /\ Service!ServiceInit

-----------------------------------------------------------------------------
(* HandleRequest                                                           *)

Arrive(r) ==
    /\ \E k \in Kinds : Service!Arrive(r, k)
    /\ UNCHANGED <<up, poolVars, monitorVars>>

AskPool(r) ==
    /\ Service!NextAttempt(r)
    /\ Pool!GetNextHealthyBackend(r)
    /\ UNCHANGED <<up, monitorVars>>

Look(r) ==
    /\ r \in Requests
    /\ Pool!Scan(r)
    /\ UNCHANGED <<up, monitorVars, serviceVars>>

Receive(r) ==
    /\ Pool!Return(r)
    /\ Service!Picked(r, frame[r].res)
    /\ UNCHANGED <<up, monitorVars>>

ResponseBegins(r) ==
    /\ Service!ResponseBegins(r, Serving)
    /\ UNCHANGED <<up, poolVars, monitorVars>>

\* Mutant: the backend is not marked.
ForwardFailsUnmarked(r) ==
    /\ Service!ForwardFails(r, Serving)
    /\ UNCHANGED <<up, poolVars, monitorVars>>

ForwardFails(r) ==
    /\ Service!ForwardFails(r, Serving)
    /\ Pool!MarkBackendStatus(r, target[r], FALSE)
    /\ UNCHANGED <<up, monitorVars>>

ForwardSucceeds(r) ==
    /\ Service!ForwardSucceeds(r)
    /\ UNCHANGED <<up, poolVars, monitorVars>>

ForwardPanics(r) ==
    /\ Service!ForwardPanics(r, Serving)
    /\ UNCHANGED <<up, poolVars, monitorVars>>

\* Mutant: the mark is left to another goroutine, nobody waits for it.
GiveUpUnwaited(r) ==
    /\ Service!GiveUp(r)
    /\ UNCHANGED <<up, poolVars, monitorVars>>

GiveUp(r) ==
    /\ Pool!Idle(r)
    /\ Service!GiveUp(r)
    /\ UNCHANGED <<up, poolVars, monitorVars>>

Finish(r) ==
    /\ Service!Finish(r)
    /\ UNCHANGED <<up, poolVars, monitorVars>>

\* Everything the goroutine of a request does once the request has arrived.
Serve(r) ==
    \/ AskPool(r) \/ Look(r) \/ Receive(r)
    \/ ResponseBegins(r) \/ ForwardFails(r)
    \/ ForwardSucceeds(r) \/ ForwardPanics(r)
    \/ GiveUp(r)

Leave(r) ==
    /\ Service!Leave(r)
    /\ UNCHANGED <<up, poolVars, monitorVars>>

-----------------------------------------------------------------------------
(* The health monitor                                                      *)

\* main creates and starts the monitor only if the configuration asks for it.
MonitorLoop ==
    /\ HealthChecks
    /\ Monitor!LoopStep
    /\ UNCHANGED <<up, poolVars, serviceVars>>

Tick ==
    /\ Monitor!Tick
    /\ UNCHANGED <<up, poolVars, serviceVars>>

\* Mutants: every check finds the backend dead, or alive.
CheckFindsDead(b) ==
    /\ Monitor!CheckReturns(b)
    /\ Pool!MarkBackendStatus(b, b, FALSE)
    /\ UNCHANGED <<up, serviceVars>>

CheckFindsAlive(b) ==
    /\ Monitor!CheckReturns(b)
    /\ Pool!MarkBackendStatus(b, b, TRUE)
    /\ UNCHANGED <<up, serviceVars>>

\* The check of b reports what the backend is at this moment and begins to
\* mark it; it may have changed when the mark is written.
CheckReturns(b) ==
    /\ Monitor!CheckReturns(b)
    /\ Pool!MarkBackendStatus(b, b, up[b])
    /\ UNCHANGED <<up, serviceVars>>

CheckDone(b) ==
    /\ Pool!Idle(b)
    /\ Monitor!CheckDone(b)
    /\ UNCHANGED <<up, poolVars, serviceVars>>

-----------------------------------------------------------------------------
\* One step of the loop of MarkBackendStatus, of a request or of a check.
WriteMark(c) ==
    /\ Pool!Mark(c)
    /\ UNCHANGED <<up, monitorVars, serviceVars>>

GoesDown(b) ==
    /\ BackendsFail /\ up[b]
    /\ up' = [up EXCEPT ![b] = FALSE]
    /\ UNCHANGED <<poolVars, monitorVars, serviceVars>>

ComesBack(b) ==
    /\ ~up[b]
    /\ up' = [up EXCEPT ![b] = TRUE]
    /\ UNCHANGED <<poolVars, monitorVars, serviceVars>>

Next ==
    \/ \E r \in Requests : Arrive(r) \/ Serve(r) \/ Leave(r) \/ Finish(r)
    \/ MonitorLoop \/ Tick
    \/ \E b \in Backends : CheckReturns(b) \/ CheckDone(b)
    \/ \E c \in Requests \cup Backends : WriteMark(c)
    \/ \E b \in Backends : GoesDown(b) \/ ComesBack(b)

\* The loop, its ticker and the checks it has begun.
Monitoring ==
    \/ MonitorLoop \/ Tick
    \/ \E b \in Backends : CheckReturns(b) \/ CheckDone(b) \/ WriteMark(b)

\* Goroutines are scheduled, a backend that takes a request answers it or
\* breaks the connection, a check ends by its timeout and the ticker ticks.
\* It is enough that something of the monitor runs: the loop waits for the
\* checks of a cycle, which are finitely many steps, and then for a tick.
\* Nothing is assumed of the arrival of requests or of the failures.
Fairness ==
    /\ \A r \in Requests : WF_vars(Serve(r) \/ WriteMark(r))
    /\ WF_vars(Monitoring)

Spec == Init /\ [][Next]_vars /\ Fairness

-----------------------------------------------------------------------------
TypeOK ==
    /\ up \in [Backends -> BOOLEAN]
    /\ Pool!TypeOK
    /\ Monitor!MonitorTypeOK
    /\ Service!ServiceTypeOK

\* A goroutine is inside the pool exactly where its component says it is: no
\* request answers its client, waits for a backend or takes another attempt
\* while it still holds the read lock of the pool, and no check cycle ends
\* while one of its marks is being written (HandleRequest, lines 47-83;
\* performChecks, lines 72-92).
NobodyLeavesHoldingTheLock ==
    /\ \A r \in Requests :
          /\ Pool!InLookup(r) \/ frame[r].op = "ret" <=> pc[r] = "pick"
          /\ Pool!InMark(r) => pc[r] = "mark" /\ frame[r].url = target[r]
    /\ \A b \in Backends :
          Pool!HoldsReadLock(b) => /\ check[b] = "marking" /\ loop = "checking"
                                   /\ frame[b].url = b

\* A dead flag turns alive only by the check of that backend, in the cycle
\* the loop is waiting for; it turns dead only by that check or by a request
\* that failed on that backend (lines 79 and 87 of the two callers of
\* MarkBackendStatus).
FlagsChangeHands ==
    [][\A b \in Backends :
          /\ ~alive[b] /\ alive'[b] => loop = "checking" /\ check[b] = "marking"
          /\ alive[b] /\ ~alive'[b] =>
                \/ check[b] = "marking"
                \/ \E r \in Requests : pc[r] = "mark" /\ target[r] = b]_vars

\* Without health checks nothing brings a backend back (main.go, line 83): once
\* every flag is dead they all stay dead, whatever marks and lookups are still
\* in progress, and no lookup, not even one that began before, finds a backend.
DownForGood ==
    [][~HealthChecks /\ (\A b \in Backends : ~alive[b]) =>
          /\ \A b \in Backends : ~alive'[b]
          /\ \A r \in Requests :
                Pool!InLookup(r) /\ ~Pool!InLookup(r)' => frame'[r].res = None]_vars

\* The steps the goroutine of r has left in its attempt if that fails: the rest
\* of the lookup, its result, the forward, the load and the store of the mark.
StepsOfAttempt(r) ==
    CASE pc[r] = "pick" /\ frame[r].op = "scan" -> (N - frame[r].i) + 4
      [] pc[r] = "pick" /\ frame[r].op # "scan" -> 4
      [] pc[r] = "forward" -> 3
      [] pc[r] = "mark" /\ frame[r].op = "mark" -> 2
      [] pc[r] = "mark" /\ frame[r].op = "store" -> 1
      [] OTHER -> 0

\* With the attempts that follow, N + 5 steps each, and the answer.
StepsLeft(r) == (MaxAttempts - attempts[r]) * (N + 5) + StepsOfAttempt(r) + 1

\* The pool is wait-free for the requests: at most MaxAttempts * (N + 5) + 1
\* steps of its own goroutine end a request, and no step of another request, of
\* a check or of the loop makes its way any longer (HandleRequest, lines 47-90;
\* the loops of memory_pool.go, lines 109-120 and 239-247).
NobodyIsHeldUp ==
    [][\A r \in Requests : Service!InFlight(r) =>
          \/ UNCHANGED <<pc[r], attempts[r], target[r], frame[r]>>
          \/ ~Service!InFlight(r)'
          \/ StepsLeft(r)' < StepsLeft(r)]_vars

\* While every backend is up, a client that waits for its answer is not
\* refused.
No503WhileAllUp ==
    [][ \A r \in Requests :
          (answer[r] # "503" /\ answer'[r] = "503" /\ ~gone[r])
             => \E b \in Backends : ~up[b] ]_vars

\* A backend is excluded by a request only if it failed that request: it was
\* not up when the forward ended.
FailsOnlyOnFailing ==
    \A r \in Requests : (pc[r] = "forward" /\ pc'[r] = "mark") => ~up[target[r]]

OnlyFailingBackendsAreMarked == [][FailsOnlyOnFailing]_vars

-----------------------------------------------------------------------------
\* Every request that arrives is answered or aborted, none stays in flight for
\* ever: the retries end.
EveryRequestEnds == \A r \in Requests : []<>~Service!InFlight(r)

\* A backend that comes back for good is in rotation again for good, though
\* late marks of requests that failed on it may still exclude it for a while
\* - provided that from some time on requests fail only on backends that do
\* fail.  Without that condition it is false: HandleRequest marks the backend
\* also for a client that has gone, a body that broke off and a body that an
\* earlier attempt has consumed, so that a backend which is up for good can be
\* excluded again and again (performChecks, lines 72-89; HandleRequest, line
\* 79; Forward, line 75).
Recovery ==
    \A b \in Backends :
       <>[]up[b] /\ <>[][FailsOnlyOnFailing]_vars => <>[]alive[b]

\* A backend that is down for good is out of rotation for good, though a
\* check that saw it up may still be writing its verdict.
Exclusion == \A b \in Backends : <>[](~up[b]) => <>[](~alive[b])
=============================================================================
