------------------------- MODULE LoadBalancerProofs -------------------------
(***************************************************************************)
(* The load balancer while it runs, proved for any number of requests and  *)
(* backends, with and without the monitor: who is where inside the pool,   *)
(* who turns which flag, and what a request that retries can count on.     *)
(***************************************************************************)
EXTENDS LoadBalancerHistory, RingLemmas, FiniteSetTheorems

Callers == Requests \cup Backends

\* The parts of LoadBalancerAssumption and what the instances make of them.
LEMMA Constants ==
    /\ N \in Nat \ {0} /\ CounterMod \in Nat /\ N <= CounterMod
    /\ MaxAttempts \in Nat \ {0}
    /\ Kinds \subseteq {"none", "fresh", "upgrade"}
    /\ None \notin Backends
    /\ Requests \cap Backends = {}
    /\ Pool!Backends = Backends
BY LoadBalancerAssumption, GoroutinesAssumption DEF Pool!Backends, Backends

-----------------------------------------------------------------------------
(* The steps of the pool, as they are taken here: round-robin lookups, and *)
(* marks of a URL that only one entry has.                                 *)

\* Caller c has the frame f now, one that points at an entry inside a loop.
FrameBecomes(c, f) ==
    /\ f \in Pool!Frames
    /\ f.op \in {"scan", "count", "mark", "store"} => f.i \in Backends
    /\ frame' = [frame EXCEPT ![c] = f]

FramesOK ==
    /\ frame \in [Callers -> Pool!Frames]
    /\ \A c \in Callers : Pool!HoldsReadLock(c) => frame[c].i \in Backends

LEMMA NoCallType == Pool!NoCall \in Pool!Frames /\ Pool!NoCall.op = "idle"
BY Constants DEF Pool!NoCall, Pool!Frames, Pool!Strategies

LEMMA FramesStayOK ==
    ASSUME FramesOK, NEW c \in Callers, NEW f, FrameBecomes(c, f)
    PROVE  FramesOK'
<1>1. frame' \in [Callers -> Pool!Frames]
  BY DEF FramesOK, FrameBecomes
<1>2. ASSUME NEW d \in Callers, Pool!HoldsReadLock(d)'
      PROVE  frame'[d].i \in Backends
  <2>1. CASE d = c
    BY <1>2, <2>1
    DEF FramesOK, FrameBecomes, Pool!HoldsReadLock, Pool!InLookup, Pool!InMark
  <2>2. CASE d # c
    BY <1>2, <2>2
    DEF FramesOK, FrameBecomes, Pool!HoldsReadLock, Pool!InLookup, Pool!InMark
  <2> QED
    BY <2>1, <2>2
<1> QED
  BY <1>1, <1>2 DEF FramesOK

LEMMA LookupBegins ==
    ASSUME FramesOK, NEW c \in Callers, strategy = "round-robin",
           current \in 0 .. CounterMod - 1, Pool!GetNextHealthyBackend(c)
    PROVE  /\ \E f : /\ FrameBecomes(c, f) /\ f.ticket = current
                     /\ f.op = "scan" /\ f.by = "round-robin" /\ f.i = 0
           /\ current' = (current + 1) % CounterMod
           /\ current' \in 0 .. CounterMod - 1
<1> DEFINE f == [Pool!NoCall EXCEPT !.op = "scan", !.by = "round-robin",
                                    !.ticket = current]
<1>1. /\ f \in Pool!Frames /\ f.ticket = current
      /\ f.op = "scan" /\ f.by = "round-robin" /\ f.i = 0
  BY NoCallType DEF Pool!Frames, Pool!NoCall, Pool!Strategies
<1>2. frame' = [frame EXCEPT ![c] = f]
  BY DEF Pool!GetNextHealthyBackend
<1>3. current' = (current + 1) % CounterMod /\ current' \in 0 .. CounterMod - 1
  BY Constants DEF Pool!GetNextHealthyBackend
<1>4. 0 \in Backends
  BY Constants DEF Backends
<1> HIDE DEF f
<1> QED
  BY <1>1, <1>2, <1>3, <1>4 DEF FrameBecomes

LEMMA AnswerBecomes ==
    ASSUME FramesOK, NEW c \in Callers, NEW i \in 0 .. N,
           NEW b \in Backends \cup {None}, Pool!Answer(c, i, b)
    PROVE  \E f : /\ FrameBecomes(c, f) /\ f.op = "ret" /\ f.res = b
                  /\ f.by = frame[c].by /\ f.ticket = frame[c].ticket
<1> DEFINE f == [Pool!NoCall EXCEPT !.op = "ret", !.by = frame[c].by,
                    !.ticket = frame[c].ticket, !.i = i, !.res = b]
<1>1. frame[c] \in Pool!Frames
  BY DEF FramesOK
<1>2. /\ f \in Pool!Frames /\ f.op = "ret" /\ f.res = b
      /\ f.by = frame[c].by /\ f.ticket = frame[c].ticket
  BY <1>1, NoCallType, Constants DEF Pool!Frames, Pool!NoCall
<1>3. frame' = [frame EXCEPT ![c] = f]
  BY DEF Pool!Answer
<1> HIDE DEF f
<1> QED
  BY <1>2, <1>3 DEF FrameBecomes

\* An iteration of the loop: the entry is alive and the answer, or dead and
\* passed, or dead and the last one.
LEMMA LookupSteps ==
    ASSUME FramesOK, NEW c \in Callers, Pool!Scan(c),
           frame[c].op # "count", frame[c].by = "round-robin"
    PROVE  /\ frame[c].op = "scan" /\ frame[c].i \in Backends
           /\ UNCHANGED <<alive, current, strategy, connections>>
           /\ LET b == Pool!RingIndex(c, frame[c].i)
              IN  /\ b \in Backends
                  /\ \E f : /\ FrameBecomes(c, f) /\ f.by = "round-robin"
                            /\ f.ticket = frame[c].ticket
                            /\ \/ alive[b] /\ f.op = "ret" /\ f.res = b
                               \/ /\ ~alive[b] /\ frame[c].i + 1 = N
                                  /\ f.op = "ret" /\ f.res = None
                               \/ /\ ~alive[b] /\ f.op = "scan"
                                  /\ f.i = frame[c].i + 1
<1> DEFINE i == frame[c].i
           b == Pool!RingIndex(c, i)
<1>1. Pool!ScanRoundRobin(c)
  BY DEF Pool!Scan, Pool!ScanRandom, Pool!ScanLeast, Pool!CountConnections
<1>2. /\ frame[c].op = "scan"
      /\ UNCHANGED <<alive, current, strategy, connections>>
  BY <1>1 DEF Pool!ScanRoundRobin
<1>3. i \in Backends /\ i \in 0 .. N /\ N \in 0 .. N /\ frame[c] \in Pool!Frames
  BY <1>2, Constants DEF FramesOK, Pool!HoldsReadLock, Pool!InLookup, Backends
<1>4. b \in Backends
  <2>1. frame[c].ticket + i \in Nat
    BY <1>3 DEF Pool!Frames, Backends
  <2>2. (frame[c].ticket + i) % CounterMod \in Nat
    BY <2>1, Constants
  <2> QED
    BY <2>2, Constants DEF Pool!RingIndex, Backends
<1>5. CASE alive[b] /\ Pool!Answer(c, i, b)
  BY <1>2, <1>3, <1>4, <1>5, AnswerBecomes
<1>6. CASE ~alive[b] /\ i + 1 = N /\ Pool!Answer(c, N, None)
  BY <1>2, <1>3, <1>4, <1>6, AnswerBecomes
<1>7. CASE ~alive[b] /\ i + 1 < N /\ frame' = [frame EXCEPT ![c].i = i + 1]
  <2> DEFINE f == [frame[c] EXCEPT !.i = i + 1]
  <2>1. i + 1 \in Backends /\ i + 1 \in 0 .. N
    BY <1>3, <1>7, Constants DEF Backends
  <2>2. /\ f \in Pool!Frames /\ f.i = i + 1 /\ f.op = "scan"
        /\ f.by = "round-robin" /\ f.ticket = frame[c].ticket
    BY <1>2, <1>3, <2>1 DEF Pool!Frames
  <2>3. frame' = [frame EXCEPT ![c] = f]
    BY <1>7
  <2> HIDE DEF f
  <2> QED
    BY <1>2, <1>3, <1>4, <1>7, <2>1, <2>2, <2>3 DEF FrameBecomes
<1> QED
  BY <1>1, <1>5, <1>6, <1>7 DEF Pool!ScanRoundRobin

\* MarkBackendStatus finds the entry of the URL at once.
LEMMA MarkBegins ==
    ASSUME FramesOK, NEW c \in Callers, NEW b \in Backends, NEW v \in BOOLEAN,
           Pool!MarkBackendStatus(c, b, v)
    PROVE  \E f : /\ FrameBecomes(c, f) /\ f.op = "mark"
                  /\ f.i = b /\ f.url = b /\ f.val = v
<1> DEFINE f == [Pool!NoCall EXCEPT !.op = "mark", !.i = b, !.url = b, !.val = v]
<1>1. PICK j \in 0 .. N :
         /\ Pool!FirstMatch(b, 0, j)
         /\ frame' = [frame EXCEPT ![c] =
                        IF j = N THEN Pool!NoCall
                        ELSE [Pool!NoCall EXCEPT !.op = "mark", !.i = j,
                                                 !.url = b, !.val = v]]
  BY DEF Pool!MarkBackendStatus, Pool!MarkFrom
<1>2. j = b /\ j # N
  <2>1. b \in 0 .. N - 1 /\ [x \in Backends |-> x][b] = b
    BY DEF Backends
  <2>2. j # N
    BY <1>1, <2>1, Constants DEF Pool!FirstMatch
  <2>3. j \in Backends
    BY <2>2, Constants DEF Backends
  <2> QED
    BY <1>1, <2>2, <2>3, Constants DEF Pool!FirstMatch, Backends
<1>3. /\ f \in Pool!Frames /\ f.op = "mark"
      /\ f.i = b /\ f.url = b /\ f.val = v
  <2>1. b \in 0 .. N
    BY Constants DEF Backends
  <2> QED
    BY <2>1, NoCallType DEF Pool!Frames, Pool!NoCall
<1>4. frame' = [frame EXCEPT ![c] = f]
  BY <1>1, <1>2
<1> HIDE DEF f
<1> QED
  BY <1>3, <1>4 DEF FrameBecomes

\* The two callers of MarkBackendStatus.
LEMMA ForwardFailsMarks ==
    ASSUME FramesOK, NEW r \in Requests, ForwardFails(r), target[r] \in Backends
    PROVE  \E f : /\ FrameBecomes(r, f) /\ f.op = "mark"
                  /\ f.i = target[r] /\ f.url = target[r] /\ f.val = FALSE
<1>1. Pool!MarkBackendStatus(r, target[r], FALSE)
  BY DEF ForwardFails
<1>2. r \in Callers /\ FALSE \in BOOLEAN
  BY DEF Callers
<1> QED
  BY <1>1, <1>2, MarkBegins, Zenon

LEMMA CheckReturnsMarks ==
    ASSUME FramesOK, NEW b \in Backends, CheckReturns(b), up[b] \in BOOLEAN
    PROVE  \E f : /\ FrameBecomes(b, f) /\ f.op = "mark"
                  /\ f.i = b /\ f.url = b
<1> DEFINE v == up[b]
<1>1. Pool!MarkBackendStatus(b, b, v)
  BY DEF CheckReturns
<1>2. b \in Callers /\ v \in BOOLEAN
  BY DEF Callers
<1> HIDE DEF v
<1>3. \E f : /\ FrameBecomes(b, f) /\ f.op = "mark"
             /\ f.i = b /\ f.url = b /\ f.val = v
  BY <1>1, <1>2, MarkBegins
<1> QED
  BY <1>3

\* The rest of a mark: the flag is loaded and, if it differs, stored.  No
\* other entry has that URL, so the loop ends.
LEMMA MarkSteps ==
    ASSUME FramesOK, NEW c \in Callers, NEW b \in Backends, Pool!Mark(c),
           frame[c].i = b, frame[c].url = b
    PROVE  /\ UNCHANGED <<current, strategy, connections>>
           /\ \/ /\ alive[b] = frame[c].val /\ alive' = alive
                 /\ FrameBecomes(c, Pool!NoCall)
              \/ /\ alive' = [alive EXCEPT ![b] = frame[c].val]
                 /\ FrameBecomes(c, Pool!NoCall)
              \/ /\ alive' = alive /\ frame[c].op = "mark"
                 /\ \E f : /\ FrameBecomes(c, f) /\ f.op = "store"
                           /\ f.i = b /\ f.url = b /\ f.val = frame[c].val
<1>1. frame[c] \in Pool!Frames
  BY DEF FramesOK
<1>2. ASSUME Pool!MarkFrom(c, b, frame[c].val, b + 1)
      PROVE  FrameBecomes(c, Pool!NoCall)
  <2>1. PICK j \in b + 1 .. N :
           /\ Pool!FirstMatch(b, b + 1, j)
           /\ frame' = [frame EXCEPT ![c] =
                          IF j = N THEN Pool!NoCall
                          ELSE [Pool!NoCall EXCEPT !.op = "mark", !.i = j,
                                          !.url = b, !.val = frame[c].val]]
    BY <1>2 DEF Pool!MarkFrom
  <2>2. j = N
    BY <2>1, Constants DEF Pool!FirstMatch, Backends
  <2> QED
    BY <2>1, <2>2, NoCallType DEF FrameBecomes
<1>3. ASSUME frame' = [frame EXCEPT ![c].op = "store"]
      PROVE  \E f : /\ FrameBecomes(c, f) /\ f.op = "store"
                    /\ f.i = b /\ f.url = b /\ f.val = frame[c].val
  <2> DEFINE f == [frame[c] EXCEPT !.op = "store"]
  <2>1. /\ f \in Pool!Frames /\ f.op = "store"
        /\ f.i = b /\ f.url = b /\ f.val = frame[c].val
    BY <1>1 DEF Pool!Frames
  <2>2. frame' = [frame EXCEPT ![c] = f]
    BY <1>3
  <2> HIDE DEF f
  <2> QED
    BY <2>1, <2>2 DEF FrameBecomes
<1>4. CASE Pool!MarkLoad(c)
  BY <1>2, <1>3, <1>4 DEF Pool!MarkLoad
<1>5. CASE Pool!MarkStore(c)
  BY <1>2, <1>5 DEF Pool!MarkStore
<1> QED
  BY <1>4, <1>5 DEF Pool!Mark

-----------------------------------------------------------------------------
(* Who is where.                                                           *)

RequestInv(r) ==
    /\ frame[r].op # "count"
    /\ frame[r].op \in {"scan", "ret"} => frame[r].by = "round-robin"
    /\ frame[r].op \in {"scan", "ret"} <=> pc[r] = "pick"
    /\ Pool!InMark(r) => /\ pc[r] = "mark" /\ ~frame[r].val
                         /\ frame[r].url = target[r] /\ frame[r].i = target[r]

CheckInv(b) ==
    /\ frame[b].op \in {"idle", "mark", "store"}
    /\ Pool!InMark(b) => /\ check[b] = "marking"
                         /\ frame[b].url = b /\ frame[b].i = b
    /\ check[b] # "none" => loop = "checking"

\* The components agree on where each goroutine is.
CoupledInv ==
    /\ TypeOK
    /\ strategy = "round-robin"
    /\ \A r \in Requests : RequestInv(r)
    /\ \A b \in Backends : CheckInv(b)

LEMMA PoolType ==
    Pool!TypeOK <=> /\ FramesOK
                    /\ alive \in [Backends -> BOOLEAN]
                    /\ current \in 0 .. CounterMod - 1
                    /\ strategy \in Pool!Strategies
                    /\ connections \in [Backends -> 0 .. 0]
BY Constants DEF Pool!TypeOK, FramesOK, Callers

LEMMA CoupledInit == Init => CoupledInv
<1> SUFFICES ASSUME Init PROVE CoupledInv
  OBVIOUS
<1>1. FramesOK /\ Pool!TypeOK /\ strategy = "round-robin"
  BY NoCallType, PoolType, Constants
  DEF Init, Pool!Init, FramesOK, Pool!HoldsReadLock, Pool!InLookup, Pool!InMark,
      Callers, Pool!Strategies
<1>2. Monitor!MonitorTypeOK
  BY DEF Init, Monitor!MonitorInit, Monitor!MonitorTypeOK, Monitor!Loop,
         Monitor!Check, Monitor!Stopper
<1>3. Service!ServiceTypeOK
  BY Constants DEF Init, Service!ServiceInit, Service!ServiceTypeOK
<1>4. \A c \in Callers : frame[c].op = "idle"
  BY NoCallType DEF Init, Pool!Init, Callers
<1>5. ASSUME NEW r \in Requests PROVE RequestInv(r)
  BY <1>4 DEF Init, Service!ServiceInit, RequestInv, Pool!InMark, Callers
<1>6. ASSUME NEW b \in Backends PROVE CheckInv(b)
  BY <1>4 DEF Init, Monitor!MonitorInit, CheckInv, Pool!InMark, Callers
<1> QED
  BY <1>1, <1>2, <1>3, <1>5, <1>6 DEF CoupledInv, TypeOK, Init

\* A step of the goroutine of request r, if the rest is as it was.
LEMMA RequestMoves ==
    ASSUME CoupledInv, NEW r \in Requests, RequestInv(r)',
           FramesOK', Service!ServiceTypeOK', alive' \in [Backends -> BOOLEAN],
           current' \in 0 .. CounterMod - 1,
           UNCHANGED <<up, strategy, connections, monitorVars>>,
           \A c \in Callers \ {r} : frame'[c] = frame[c],
           \A q \in Requests \ {r} : pc'[q] = pc[q] /\ target'[q] = target[q]
    PROVE  CoupledInv'
<1>1. TypeOK'
  <2>1. Pool!TypeOK'
    BY Constants DEF CoupledInv, TypeOK, Pool!TypeOK, FramesOK, Callers
  <2>2. Monitor!MonitorTypeOK'
    BY DEF CoupledInv, TypeOK, monitorVars, Monitor!MonitorTypeOK
  <2> QED
    BY <2>1, <2>2 DEF CoupledInv, TypeOK
<1>2. ASSUME NEW q \in Requests \ {r} PROVE RequestInv(q)'
  BY <1>2 DEF CoupledInv, RequestInv, Pool!InMark, Callers
<1>3. ASSUME NEW b \in Backends PROVE CheckInv(b)'
  <2>1. b \in Callers \ {r}
    BY Constants DEF Callers
  <2> QED
    BY <2>1 DEF CoupledInv, CheckInv, Pool!InMark, monitorVars
<1> QED
  BY <1>1, <1>2, <1>3 DEF CoupledInv

\* A step of the check goroutine of backend b.
LEMMA CheckMoves ==
    ASSUME CoupledInv, NEW b \in Backends, CheckInv(b)',
           FramesOK', Monitor!MonitorTypeOK', alive' \in [Backends -> BOOLEAN],
           UNCHANGED <<up, current, strategy, connections, loop, serviceVars>>,
           \A c \in Callers \ {b} : frame'[c] = frame[c],
           \A d \in Backends \ {b} : check'[d] = check[d]
    PROVE  CoupledInv'
<1>1. TypeOK'
  <2>1. Pool!TypeOK'
    BY Constants DEF CoupledInv, TypeOK, Pool!TypeOK, FramesOK, Callers
  <2>2. Service!ServiceTypeOK'
    BY DEF CoupledInv, TypeOK, serviceVars, Service!ServiceTypeOK
  <2> QED
    BY <2>1, <2>2 DEF CoupledInv, TypeOK
<1>2. ASSUME NEW q \in Requests PROVE RequestInv(q)'
  <2>1. q \in Callers \ {b}
    BY Constants DEF Callers
  <2> QED
    BY <2>1 DEF CoupledInv, RequestInv, Pool!InMark, serviceVars
<1>3. ASSUME NEW d \in Backends \ {b} PROVE CheckInv(d)'
  BY <1>3 DEF CoupledInv, CheckInv, Pool!InMark, Callers
<1> QED
  BY <1>1, <1>2, <1>3 DEF CoupledInv

\* What a request does outside the pool keeps the types and is its own.
LEMMA ServiceMoves ==
    ASSUME Service!ServiceTypeOK, NEW r \in Requests, NEW serving,
           \/ \E k \in Kinds : Service!Arrive(r, k)
           \/ Service!NextAttempt(r) \/ Service!GiveUp(r)
           \/ \E b \in Backends \cup {None} : Service!Picked(r, b)
           \/ Service!ResponseBegins(r, serving) \/ Service!ForwardFails(r, serving)
           \/ Service!ForwardSucceeds(r) \/ Service!ForwardPanics(r, serving)
           \/ Service!Leave(r) \/ Service!Finish(r)
    PROVE  /\ Service!ServiceTypeOK'
           /\ \A q \in Requests \ {r} :
                 /\ pc'[q] = pc[q] /\ target'[q] = target[q]
                 /\ attempts'[q] = attempts[q]
<1> USE Constants DEF Service!ServiceTypeOK, Service!Goto, Service!Respond
<1>1. CASE \E k \in Kinds : Service!Arrive(r, k)
  <2>1. PICK k \in {"none", "fresh", "upgrade"} : Service!Arrive(r, k)
    BY <1>1
  <2> QED
    BY <2>1 DEF Service!Arrive
<1>2. CASE Service!NextAttempt(r)
  BY <1>2 DEF Service!NextAttempt
<1>3. CASE Service!GiveUp(r)
  BY <1>3 DEF Service!GiveUp
<1>4. ASSUME NEW b \in Backends \cup {None}, Service!Picked(r, b)
      PROVE  /\ Service!ServiceTypeOK'
             /\ \A q \in Requests \ {r} :
                   /\ pc'[q] = pc[q] /\ target'[q] = target[q]
                   /\ attempts'[q] = attempts[q]
  BY <1>4 DEF Service!Picked
<1>5. CASE Service!ResponseBegins(r, serving)
  BY <1>5 DEF Service!ResponseBegins
<1>6. CASE Service!ForwardFails(r, serving)
  BY <1>6 DEF Service!ForwardFails
<1>7. CASE Service!ForwardSucceeds(r)
  BY <1>7 DEF Service!ForwardSucceeds
<1>8. CASE Service!ForwardPanics(r, serving)
  BY <1>8 DEF Service!ForwardPanics
<1>9. CASE Service!Leave(r)
  BY <1>9 DEF Service!Leave
<1>10. CASE Service!Finish(r)
  BY <1>10 DEF Service!Finish
<1> QED
  BY <1>1, <1>2, <1>3, <1>4, <1>5, <1>6, <1>7, <1>8, <1>9, <1>10

\* What the invariant says of one request and of one check, unfolded.
LEMMA CoupledFacts ==
    ASSUME CoupledInv
    PROVE  /\ FramesOK /\ Service!ServiceTypeOK /\ Monitor!MonitorTypeOK
           /\ alive \in [Backends -> BOOLEAN] /\ current \in 0 .. CounterMod - 1
           /\ up \in [Backends -> BOOLEAN] /\ strategy = "round-robin"
           /\ \A r \in Requests : RequestInv(r) /\ r \in Callers
           /\ \A b \in Backends : CheckInv(b) /\ b \in Callers
BY PoolType DEF CoupledInv, TypeOK, Callers

\* A request that does nothing in the pool, and is not in it.
LEMMA OutsideKeepsCoupled ==
    ASSUME CoupledInv, NEW r \in Requests,
           Service!ServiceTypeOK',
           \A q \in Requests \ {r} : pc'[q] = pc[q] /\ target'[q] = target[q],
           UNCHANGED <<up, poolVars, monitorVars>>,
           \/ pc'[r] = pc[r] /\ target'[r] = target[r]
           \/ frame[r].op = "idle" /\ pc'[r] # "pick"
    PROVE  CoupledInv'
<1>1. RequestInv(r)'
  BY CoupledFacts DEF RequestInv, Pool!InMark, poolVars
<1>2. FramesOK'
  BY CoupledFacts
  DEF FramesOK, poolVars, Pool!HoldsReadLock, Pool!InLookup, Pool!InMark
<1> QED
  BY <1>1, <1>2, CoupledFacts, RequestMoves DEF poolVars

LEMMA ServeKeepsCoupled ==
    ASSUME CoupledInv, NEW r \in Requests,
           Arrive(r) \/ Serve(r) \/ Leave(r) \/ Finish(r)
    PROVE  CoupledInv'
<1>0. /\ frame[r].op \in {"idle", "scan", "count", "ret", "mark", "store"}
      /\ RequestInv(r) /\ r \in Callers /\ FramesOK
      /\ frame[r] \in Pool!Frames
  BY CoupledFacts DEF FramesOK, Pool!Frames
<1>a. pc[r] \notin {"pick", "mark"} => frame[r].op = "idle"
  BY <1>0 DEF RequestInv, Pool!InMark
<1>1. ASSUME /\ Service!Leave(r) \/ (\E k \in Kinds : Service!Arrive(r, k))
                \/ Service!ResponseBegins(r, Serving) \/ Service!ForwardSucceeds(r)
                \/ Service!ForwardPanics(r, Serving)
                \/ (Service!GiveUp(r) /\ Pool!Idle(r)) \/ Service!Finish(r)
             /\ UNCHANGED <<up, poolVars, monitorVars>>
      PROVE  CoupledInv'
  <2>1. /\ Service!ServiceTypeOK'
        /\ \A q \in Requests \ {r} : pc'[q] = pc[q] /\ target'[q] = target[q]
    BY <1>1, CoupledFacts, ServiceMoves
  <2>2. CASE Service!Leave(r)
    BY <1>1, <2>1, <2>2, OutsideKeepsCoupled DEF Service!Leave
  <2>3. CASE ~Service!Leave(r)
    <3>1. pc'[r] # "pick"
      BY <1>1, <2>3, CoupledFacts
      DEF Service!Arrive, Service!ResponseBegins, Service!ForwardSucceeds,
          Service!ForwardPanics, Service!GiveUp, Service!Finish, Service!Goto,
          Service!Respond, Service!ServiceTypeOK
    <3>2. frame[r].op = "idle"
      BY <1>1, <1>a, <2>3
      DEF Service!Arrive, Service!ResponseBegins, Service!ForwardSucceeds,
          Service!ForwardPanics, Service!Finish, Service!Goto,
          Service!Respond, Pool!Idle
    <3> QED
      BY <1>1, <2>1, <3>1, <3>2, OutsideKeepsCoupled
  <2> QED
    BY <2>2, <2>3
<1>2. CASE AskPool(r)
  <2>1. PICK f : /\ FrameBecomes(r, f)
                 /\ f.op = "scan" /\ f.by = "round-robin" /\ f.i = 0
    BY <1>0, <1>2, CoupledFacts, LookupBegins DEF AskPool
  <2>2. current' \in 0 .. CounterMod - 1
    BY <1>0, <1>2, CoupledFacts, LookupBegins DEF AskPool
  <2>3. /\ Service!ServiceTypeOK' /\ pc'[r] = "pick"
        /\ \A q \in Requests \ {r} : pc'[q] = pc[q] /\ target'[q] = target[q]
    BY <1>2, CoupledFacts, ServiceMoves
    DEF AskPool, Service!NextAttempt, Service!Goto, Service!ServiceTypeOK
  <2>4. FramesOK' /\ frame'[r] = f /\ \A c \in Callers \ {r} : frame'[c] = frame[c]
    BY <1>0, <2>1, FramesStayOK DEF FrameBecomes, FramesOK
  <2>5. RequestInv(r)'
    BY <2>1, <2>3, <2>4 DEF RequestInv, Pool!InMark
  <2> QED
    BY <1>2, <2>2, <2>3, <2>4, <2>5, CoupledFacts, RequestMoves
    DEF AskPool, Pool!GetNextHealthyBackend
<1>3. CASE Look(r)
  <2>1. frame[r].by = "round-robin" /\ frame[r].op # "count"
    BY <1>0, <1>3 DEF RequestInv, Look, Pool!Scan, Pool!ScanRoundRobin,
                      Pool!ScanRandom, Pool!ScanLeast, Pool!CountConnections
  <2>2. PICK f : /\ FrameBecomes(r, f) /\ f.by = "round-robin"
                 /\ f.op \in {"scan", "ret"}
    BY <1>0, <1>3, <2>1, LookupSteps DEF Look
  <2>3. frame[r].op = "scan" /\ UNCHANGED <<alive, current, strategy, connections>>
    BY <1>0, <1>3, <2>1, LookupSteps DEF Look
  <2>4. FramesOK' /\ frame'[r] = f /\ \A c \in Callers \ {r} : frame'[c] = frame[c]
    BY <1>0, <2>2, FramesStayOK DEF FrameBecomes, FramesOK
  <2>5. UNCHANGED <<pc, target>> /\ Service!ServiceTypeOK'
    BY <1>3, CoupledFacts DEF Look, serviceVars, Service!ServiceTypeOK
  <2>6. RequestInv(r)'
    BY <1>0, <2>2, <2>3, <2>4, <2>5 DEF RequestInv, Pool!InMark
  <2> QED
    BY <1>3, <2>3, <2>4, <2>5, <2>6, CoupledFacts, RequestMoves DEF Look
<1>4. CASE Receive(r)
  <2>1. FrameBecomes(r, Pool!NoCall)
    BY <1>4, NoCallType DEF Receive, Pool!Return, FrameBecomes
  <2>2. /\ FramesOK' /\ frame'[r].op = "idle"
        /\ \A c \in Callers \ {r} : frame'[c] = frame[c]
    BY <1>0, <2>1, NoCallType, FramesStayOK DEF FrameBecomes, FramesOK
  <2>3. frame[r].res \in Backends \cup {None}
    BY <1>0, Constants DEF Pool!Frames
  <2>4. /\ Service!ServiceTypeOK'
        /\ \A q \in Requests \ {r} : pc'[q] = pc[q] /\ target'[q] = target[q]
    BY <1>4, <2>3, CoupledFacts, ServiceMoves DEF Receive
  <2>5. pc'[r] # "pick"
    BY <1>4, CoupledFacts
    DEF Receive, Service!Picked, Service!Goto, Service!Respond, Service!ServiceTypeOK
  <2>6. RequestInv(r)'
    BY <2>2, <2>5 DEF RequestInv, Pool!InMark
  <2> QED
    BY <1>4, <2>2, <2>4, <2>6, CoupledFacts, RequestMoves DEF Receive, Pool!Return
<1>5. CASE ForwardFails(r)
  <2>1. /\ target[r] \in Backends /\ pc'[r] = "mark" /\ target'[r] = target[r]
        /\ Service!ServiceTypeOK'
        /\ \A q \in Requests \ {r} : pc'[q] = pc[q] /\ target'[q] = target[q]
    BY <1>5, CoupledFacts, ServiceMoves
    DEF ForwardFails, Service!ForwardFails, Service!Goto, Service!ServiceTypeOK
  <2>2. PICK f : /\ FrameBecomes(r, f) /\ f.op = "mark"
                 /\ f.i = target[r] /\ f.url = target[r] /\ f.val = FALSE
    BY <1>0, <1>5, <2>1, ForwardFailsMarks
  <2>3. FramesOK' /\ frame'[r] = f /\ \A c \in Callers \ {r} : frame'[c] = frame[c]
    BY <1>0, <2>2, FramesStayOK DEF FrameBecomes, FramesOK
  <2>4. RequestInv(r)'
    BY <2>1, <2>2, <2>3 DEF RequestInv, Pool!InMark
  <2> QED
    BY <1>5, <2>1, <2>3, <2>4, CoupledFacts, RequestMoves
    DEF ForwardFails, Pool!MarkBackendStatus
<1> QED
  BY <1>1, <1>2, <1>3, <1>4, <1>5
  DEF Arrive, Serve, Leave, Finish, ResponseBegins, ForwardSucceeds, ForwardPanics, GiveUp

LEMMA CheckKeepsCoupled ==
    ASSUME CoupledInv, NEW b \in Backends, CheckReturns(b) \/ CheckDone(b)
    PROVE  CoupledInv'
<1>1. b \in Callers /\ CheckInv(b) /\ FramesOK /\ up[b] \in BOOLEAN
  BY CoupledFacts
<1>2. /\ Monitor!MonitorTypeOK' /\ loop' = loop
      /\ \A d \in Backends \ {b} : check'[d] = check[d]
  BY CoupledFacts
  DEF CheckReturns, CheckDone, Monitor!CheckReturns, Monitor!CheckDone,
      Monitor!MonitorTypeOK, Monitor!Check
<1>3. CASE CheckReturns(b)
  <2>1. PICK f : FrameBecomes(b, f) /\ f.op = "mark" /\ f.i = b /\ f.url = b
    BY <1>1, <1>3, CheckReturnsMarks
  <2>2. FramesOK' /\ frame'[b] = f /\ \A c \in Callers \ {b} : frame'[c] = frame[c]
    BY <1>1, <2>1, FramesStayOK DEF FrameBecomes, FramesOK
  <2>3. check[b] # "none" /\ check'[b] = "marking"
    BY <1>3, CoupledFacts
    DEF CheckReturns, Monitor!CheckReturns, Monitor!MonitorTypeOK
  <2>4. CheckInv(b)'
    BY <1>1, <1>2, <2>1, <2>2, <2>3 DEF CheckInv, Pool!InMark
  <2> QED
    BY <1>2, <1>3, <2>2, <2>4, CoupledFacts, CheckMoves
    DEF CheckReturns, Pool!MarkBackendStatus
<1>4. CASE CheckDone(b)
  <2>1. frame' = frame /\ frame[b].op = "idle" /\ check'[b] = "none"
    BY <1>4, CoupledFacts
    DEF CheckDone, poolVars, Pool!Idle, Monitor!CheckDone, Monitor!MonitorTypeOK
  <2>2. CheckInv(b)'
    BY <2>1 DEF CheckInv, Pool!InMark
  <2>3. FramesOK'
    BY <1>1, <2>1 DEF FramesOK, Pool!HoldsReadLock, Pool!InLookup, Pool!InMark
  <2> QED
    BY <1>2, <1>4, <2>1, <2>2, <2>3, CoupledFacts, CheckMoves DEF CheckDone, poolVars
<1> QED
  BY <1>3, <1>4

\* One step of a mark: whose it is, what it marks, and what it does.
LEMMA WriteMarkSteps ==
    ASSUME CoupledInv, NEW c \in Callers, WriteMark(c)
    PROVE  \E b \in Backends :
             /\ Pool!InMark(c) /\ frame[c].i = b /\ frame[c].url = b
             /\ \/ c \in Requests /\ pc[c] = "mark" /\ target[c] = b /\ ~frame[c].val
                \/ c = b /\ check[b] = "marking" /\ loop = "checking"
             /\ UNCHANGED <<current, strategy, connections>>
             /\ \/ /\ alive[b] = frame[c].val /\ alive' = alive
                   /\ FrameBecomes(c, Pool!NoCall)
                \/ /\ alive' = [alive EXCEPT ![b] = frame[c].val]
                   /\ FrameBecomes(c, Pool!NoCall)
                \/ /\ alive' = alive /\ frame[c].op = "mark"
                   /\ \E f : /\ FrameBecomes(c, f) /\ f.op = "store"
                             /\ f.i = b /\ f.url = b /\ f.val = frame[c].val
<1>1. Pool!Mark(c) /\ Pool!InMark(c)
  BY DEF WriteMark, Pool!Mark, Pool!MarkLoad, Pool!MarkStore, Pool!InMark
<1>2. FramesOK /\ frame[c].i \in Backends
  BY <1>1, CoupledFacts DEF FramesOK, Pool!HoldsReadLock
<1>3. CASE c \in Requests
  <2>1. RequestInv(c)
    BY <1>3, CoupledFacts
  <2> QED
    BY <1>1, <1>2, <1>3, <2>1, MarkSteps DEF RequestInv
<1>4. CASE c \in Backends
  <2>1. CheckInv(c)
    BY <1>4, CoupledFacts
  <2> QED
    BY <1>1, <1>2, <1>4, <2>1, MarkSteps DEF CheckInv
<1> QED
  BY <1>3, <1>4 DEF Callers

LEMMA WriteMarkKeepsCoupled ==
    ASSUME CoupledInv, NEW c \in Callers, WriteMark(c)
    PROVE  CoupledInv'
<1>1. PICK b \in Backends :
             /\ Pool!InMark(c) /\ frame[c].i = b /\ frame[c].url = b
             /\ \/ c \in Requests /\ pc[c] = "mark" /\ target[c] = b /\ ~frame[c].val
                \/ c = b /\ check[b] = "marking" /\ loop = "checking"
             /\ UNCHANGED <<current, strategy, connections>>
             /\ alive' = alive \/ alive' = [alive EXCEPT ![b] = frame[c].val]
             /\ \E f : /\ FrameBecomes(c, f)
                       /\ \/ f.op = "idle"
                          \/ /\ f.op = "store" /\ f.i = b /\ f.url = b
                             /\ f.val = frame[c].val
  BY WriteMarkSteps, NoCallType
<1>2. PICK f : /\ FrameBecomes(c, f)
               /\ \/ f.op = "idle"
                  \/ f.op = "store" /\ f.i = b /\ f.url = b /\ f.val = frame[c].val
  BY <1>1
<1>3. FramesOK' /\ frame'[c] = f /\ \A d \in Callers \ {c} : frame'[d] = frame[d]
  <2>1. FramesOK
    BY CoupledFacts
  <2> QED
    BY <1>2, <2>1, FramesStayOK DEF FrameBecomes, FramesOK
<1>4. alive' \in [Backends -> BOOLEAN]
  BY <1>1, CoupledFacts DEF FramesOK, Pool!Frames
<1>5. UNCHANGED <<up, monitorVars, serviceVars>>
  BY DEF WriteMark
<1>6. CASE c \in Requests
  <2>1. RequestInv(c) /\ ~frame[c].val /\ pc[c] = "mark" /\ target[c] = b
    BY <1>1, <1>6, CoupledFacts, Constants
  <2>2. RequestInv(c)'
    BY <1>2, <1>3, <1>5, <2>1 DEF RequestInv, Pool!InMark, serviceVars
  <2>3. Service!ServiceTypeOK'
    BY <1>5, CoupledFacts DEF Service!ServiceTypeOK, serviceVars
  <2> QED
    BY <1>1, <1>3, <1>4, <1>5, <1>6, <2>2, <2>3, CoupledFacts, RequestMoves
    DEF serviceVars
<1>7. CASE c \in Backends
  <2>1. c = b /\ check[c] = "marking" /\ loop = "checking"
    BY <1>1, <1>7, Constants
  <2>2. CheckInv(c)'
    BY <1>2, <1>3, <1>5, <2>1 DEF CheckInv, Pool!InMark, monitorVars
  <2>3. Monitor!MonitorTypeOK'
    BY <1>5, CoupledFacts DEF Monitor!MonitorTypeOK, monitorVars
  <2> QED
    BY <1>1, <1>3, <1>4, <1>5, <1>7, <2>2, <2>3, CheckMoves
    DEF monitorVars
<1> QED
  BY <1>6, <1>7 DEF Callers

\* The loop and the ticker, and the backends themselves, move no goroutine
\* inside the pool.
LEMMA RestKeepsCoupled ==
    ASSUME CoupledInv, UNCHANGED <<poolVars, serviceVars>>,
           \/ MonitorLoop \/ Tick \/ UNCHANGED vars
           \/ \E b \in Backends : GoesDown(b) \/ ComesBack(b)
    PROVE  CoupledInv'
<1>1. \A b \in Backends : CheckInv(b)'
  <2> SUFFICES ASSUME NEW b \in Backends PROVE CheckInv(b)'
    OBVIOUS
  <2>1. CheckInv(b) /\ UNCHANGED frame
    BY CoupledFacts DEF poolVars
  <2>2. ASSUME loop' = loop, check' = check PROVE CheckInv(b)'
    BY <2>1, <2>2 DEF CheckInv, Pool!InMark
  <2>3. CASE MonitorLoop
    <3>1. CASE Monitor!Start \/ Monitor!SelectTick
      BY <2>1, <3>1 DEF CheckInv, Pool!InMark, Monitor!Start, Monitor!SelectTick,
                        Monitor!SpawnChecks
    <3>2. CASE Monitor!CycleEnds \/ Monitor!SelectStop
      BY <2>1, <3>2 DEF CheckInv, Pool!InMark, Monitor!CycleEnds,
                        Monitor!SelectStop, Monitor!AllChecksDone
    <3> QED
      BY <2>3, <3>1, <3>2 DEF MonitorLoop, Monitor!LoopStep
  <2> QED
    BY <2>2, <2>3 DEF Tick, Monitor!Tick, GoesDown, ComesBack, vars, monitorVars
<1>2. \A r \in Requests : RequestInv(r)'
  BY CoupledFacts DEF RequestInv, Pool!InMark, poolVars, serviceVars
<1>3. Monitor!MonitorTypeOK'
  BY CoupledFacts
  DEF MonitorLoop, Monitor!LoopStep, Monitor!Start, Monitor!SelectTick,
      Monitor!SpawnChecks, Monitor!CycleEnds, Monitor!SelectStop, Tick, Monitor!Tick,
      GoesDown, ComesBack, vars, monitorVars, Monitor!MonitorTypeOK, Monitor!Loop,
      Monitor!Check
<1>4. up' \in [Backends -> BOOLEAN]
  BY CoupledFacts DEF MonitorLoop, Tick, GoesDown, ComesBack, vars
<1>5. Pool!TypeOK' /\ Service!ServiceTypeOK' /\ strategy' = "round-robin"
  BY DEF CoupledInv, TypeOK, poolVars, serviceVars, Pool!TypeOK,
         Service!ServiceTypeOK, Pool!HoldsReadLock, Pool!InLookup, Pool!InMark
<1> QED
  BY <1>1, <1>2, <1>3, <1>4, <1>5 DEF CoupledInv, TypeOK

LEMMA CoupledStep == CoupledInv /\ [Next]_vars => CoupledInv'
<1> SUFFICES ASSUME CoupledInv, [Next]_vars PROVE CoupledInv'
  OBVIOUS
<1>1. CASE \E r \in Requests : Arrive(r) \/ Serve(r) \/ Leave(r) \/ Finish(r)
  BY <1>1, ServeKeepsCoupled
<1>2. CASE \E b \in Backends : CheckReturns(b) \/ CheckDone(b)
  BY <1>2, CheckKeepsCoupled
<1>3. CASE \E c \in Requests \cup Backends : WriteMark(c)
  BY <1>3, WriteMarkKeepsCoupled DEF Callers
<1>4. CASE \/ MonitorLoop \/ Tick \/ UNCHANGED vars
           \/ \E b \in Backends : GoesDown(b) \/ ComesBack(b)
  <2>1. UNCHANGED <<poolVars, serviceVars>>
    BY <1>4 DEF MonitorLoop, Tick, GoesDown, ComesBack, vars
  <2> QED
    BY <1>4, <2>1, RestKeepsCoupled
<1> QED
  BY <1>1, <1>2, <1>3, <1>4 DEF Next

LEMMA CoupledHolds == Spec => []CoupledInv
BY CoupledInit, CoupledStep, PTL DEF Spec

\* The pool, the monitor and the requests keep their types in each other's
\* company; in particular the pool never answers a backend it does not have.
THEOREM TypeCorrect == Spec => []TypeOK
<1>1. CoupledInv => TypeOK
  BY DEF CoupledInv
<1> QED
  BY <1>1, CoupledHolds, PTL

\* No goroutine leaves HandleRequest or a check cycle with the read lock of
\* the pool in its hands.
THEOREM NobodyLeavesHoldingTheLockHolds == Spec => []NobodyLeavesHoldingTheLock
<1>1. CoupledInv => NobodyLeavesHoldingTheLock
  <2> SUFFICES ASSUME CoupledInv PROVE NobodyLeavesHoldingTheLock
    OBVIOUS
  <2>1. ASSUME NEW r \in Requests
        PROVE  /\ Pool!InLookup(r) \/ frame[r].op = "ret" <=> pc[r] = "pick"
               /\ Pool!InMark(r) => pc[r] = "mark" /\ frame[r].url = target[r]
    BY CoupledFacts DEF RequestInv, Pool!InLookup
  <2>2. ASSUME NEW b \in Backends, Pool!HoldsReadLock(b)
        PROVE  check[b] = "marking" /\ loop = "checking" /\ frame[b].url = b
    BY <2>2, CoupledFacts DEF CheckInv, Pool!HoldsReadLock, Pool!InLookup, Pool!InMark
  <2> QED
    BY <2>1, <2>2 DEF NobodyLeavesHoldingTheLock
<1> QED
  BY <1>1, CoupledHolds, PTL

\* Whose marks turn the flags.
FlagsTurn ==
    \A b \in Backends :
       /\ ~alive[b] /\ alive'[b] => loop = "checking" /\ check[b] = "marking"
       /\ alive[b] /\ ~alive'[b] =>
             \/ check[b] = "marking"
             \/ \E r \in Requests : pc[r] = "mark" /\ target[r] = b

LEMMA FlagsTurnOnlySo == CoupledInv /\ [Next]_vars => FlagsTurn
<1> SUFFICES ASSUME CoupledInv, [Next]_vars PROVE FlagsTurn
  OBVIOUS
<1>1. ASSUME NEW c \in Callers, WriteMark(c) PROVE FlagsTurn
  BY <1>1, WriteMarkSteps, CoupledFacts DEF FlagsTurn
<1>2. ASSUME alive' = alive PROVE FlagsTurn
  BY <1>2 DEF FlagsTurn
<1>3. CASE \E r \in Requests : Arrive(r) \/ Serve(r) \/ Leave(r) \/ Finish(r)
  BY <1>2, <1>3
  DEF Arrive, Serve, Leave, Finish, AskPool, Look, Receive, ResponseBegins,
      ForwardFails, ForwardSucceeds, ForwardPanics, GiveUp, poolVars,
      Pool!GetNextHealthyBackend, Pool!Scan, Pool!ScanRoundRobin, Pool!ScanRandom,
      Pool!ScanLeast, Pool!CountConnections, Pool!Return, Pool!MarkBackendStatus
<1>4. CASE \/ MonitorLoop \/ Tick \/ UNCHANGED vars
           \/ \E b \in Backends : \/ CheckReturns(b) \/ CheckDone(b)
                                  \/ GoesDown(b) \/ ComesBack(b)
  BY <1>2, <1>4
  DEF MonitorLoop, Tick, CheckReturns, CheckDone, GoesDown, ComesBack, vars, poolVars,
      Pool!MarkBackendStatus
<1> QED
  BY <1>1, <1>3, <1>4 DEF Next, Callers

\* A flag turns alive by the check of its backend only, and dead by that or
\* by a request that failed on that backend.
THEOREM FlagsChangeHandsHolds == Spec => FlagsChangeHands
<1>1. CoupledInv /\ [Next]_vars => [FlagsTurn]_vars
  BY FlagsTurnOnlySo
<1>2. Spec => [][FlagsTurn]_vars
  BY <1>1, CoupledHolds, PTL DEF Spec
<1> QED
  BY <1>2 DEF FlagsChangeHands, FlagsTurn

-----------------------------------------------------------------------------
(* The components are implemented.                                         *)

\* Around the pool nothing happens to its state that is no step of the pool,
\* and around the monitor no step that is not one of the monitor: the
\* invariants of each hold in the load balancer as they do alone.
THEOREM ComponentsAreImplemented ==
    Spec => /\ Pool!Init /\ [][Pool!Next]_poolVars
            /\ Monitor!MonitorSpec
<1>1. Init => Pool!Init /\ Monitor!MonitorInit
  BY DEF Init
<1>2. CoupledInv /\ [Next]_vars => [Pool!Next]_poolVars
  <2> SUFFICES ASSUME CoupledInv, [Next]_vars PROVE [Pool!Next]_poolVars
    OBVIOUS
  <2>1. ASSUME NEW c \in Callers, Pool!Step(c) PROVE Pool!Next
    BY <2>1 DEF Pool!Next, Callers
  <2>2. ASSUME NEW r \in Requests, Arrive(r) \/ Serve(r) \/ Leave(r) \/ Finish(r)
        PROVE  [Pool!Next]_poolVars
    <3>1. CASE AskPool(r) \/ Look(r) \/ Receive(r)
      BY <2>1, <3>1 DEF AskPool, Look, Receive, Pool!Step, Callers
    <3>2. CASE ForwardFails(r)
      <4>1. target[r] \in Backends
        BY <3>2, CoupledFacts
        DEF ForwardFails, Service!ForwardFails, Service!Goto, Service!ServiceTypeOK
      <4> QED
        BY <2>1, <3>2, <4>1 DEF ForwardFails, Pool!Step, Callers
    <3> QED
      BY <2>2, <3>1, <3>2
      DEF Arrive, Serve, Leave, Finish, ResponseBegins, ForwardSucceeds,
          ForwardPanics, GiveUp
  <2>3. ASSUME NEW b \in Backends, CheckReturns(b) PROVE Pool!Next
    BY <2>1, <2>3, CoupledFacts DEF CheckReturns, Pool!Step, Callers
  <2>4. ASSUME NEW c \in Callers, WriteMark(c) PROVE Pool!Next
    BY <2>1, <2>4 DEF WriteMark, Pool!Step
  <2>5. CASE \/ MonitorLoop \/ Tick \/ UNCHANGED vars
             \/ \E b \in Backends : CheckDone(b) \/ GoesDown(b) \/ ComesBack(b)
    BY <2>5 DEF MonitorLoop, Tick, CheckDone, GoesDown, ComesBack, vars
  <2> QED
    BY <2>2, <2>3, <2>4, <2>5 DEF Next, Callers
<1>3. [Next]_vars => [Monitor!MonitorNext]_(Monitor!monitorVars)
  <2> SUFFICES ASSUME [Next]_vars
               PROVE  Monitor!MonitorNext \/ UNCHANGED monitorVars
    BY DEF monitorVars, Monitor!monitorVars
  <2>1. ASSUME NEW b \in Backends, CheckReturns(b) \/ CheckDone(b)
        PROVE  Monitor!MonitorNext
    BY <2>1 DEF CheckReturns, CheckDone, Monitor!MonitorNext
  <2>2. CASE MonitorLoop \/ Tick
    BY <2>2 DEF MonitorLoop, Tick, Monitor!MonitorNext
  <2>3. CASE \E r \in Requests : Arrive(r) \/ Serve(r) \/ Leave(r) \/ Finish(r)
    BY <2>3
    DEF Arrive, Serve, Leave, Finish, AskPool, Look, Receive, ResponseBegins,
        ForwardFails, ForwardSucceeds, ForwardPanics, GiveUp
  <2>4. CASE \/ \E c \in Requests \cup Backends : WriteMark(c)
             \/ \E b \in Backends : GoesDown(b) \/ ComesBack(b)
             \/ UNCHANGED vars
    BY <2>4 DEF WriteMark, GoesDown, ComesBack, vars
  <2> QED
    BY <2>1, <2>2, <2>3, <2>4 DEF Next
<1> QED
  BY <1>1, <1>2, <1>3, CoupledHolds, PTL DEF Spec, Monitor!MonitorSpec

-----------------------------------------------------------------------------
(* One request and the others.                                             *)

\* What the goroutine of r does, whichever component it is in.
StepOf(r) == Arrive(r) \/ Serve(r) \/ Leave(r) \/ Finish(r) \/ WriteMark(r)

LEMMA OthersLeaveAlone ==
    ASSUME CoupledInv, NEW r \in Requests, [Next]_vars, ~StepOf(r)
    PROVE  /\ frame'[r] = frame[r] /\ pc'[r] = pc[r]
           /\ target'[r] = target[r] /\ attempts'[r] = attempts[r]
<1>0. r \in Callers /\ FramesOK
  BY CoupledFacts
<1>1. ASSUME NEW q \in Requests, Arrive(q) \/ Serve(q) \/ Leave(q) \/ Finish(q)
      PROVE  /\ frame'[r] = frame[r] /\ pc'[r] = pc[r]
             /\ target'[r] = target[r] /\ attempts'[r] = attempts[r]
  <2>1. q # r /\ r \in Requests \ {q}
    BY <1>1 DEF StepOf
  <2>2. RequestInv(q) /\ q \in Callers /\ frame[q] \in Pool!Frames
    BY <1>0, CoupledFacts DEF FramesOK
  <2>3. CASE Look(q)
    <3>1. frame[q].by = "round-robin" /\ frame[q].op # "count"
      BY <2>2, <2>3 DEF RequestInv, Look, Pool!Scan, Pool!ScanRoundRobin,
                        Pool!ScanRandom, Pool!ScanLeast, Pool!CountConnections
    <3>2. \E f : FrameBecomes(q, f)
      BY <1>0, <2>2, <2>3, <3>1, LookupSteps DEF Look
    <3> QED
      BY <1>0, <2>1, <2>3, <3>2 DEF Look, serviceVars, FrameBecomes, FramesOK
  <2>4. CASE ForwardFails(q)
    <3>1. target[q] \in Backends
      BY <2>4, CoupledFacts
      DEF ForwardFails, Service!ForwardFails, Service!Goto, Service!ServiceTypeOK
    <3>2. \E f : FrameBecomes(q, f)
      BY <1>0, <2>2, <2>4, <3>1, ForwardFailsMarks
    <3>3. frame'[r] = frame[r]
      BY <1>0, <2>1, <3>2 DEF FrameBecomes, FramesOK
    <3> QED
      BY <2>1, <2>4, <3>3, CoupledFacts, ServiceMoves DEF ForwardFails
  <2>5. CASE AskPool(q)
    <3>1. frame'[r] = frame[r]
      BY <1>0, <2>1, <2>5 DEF AskPool, Pool!GetNextHealthyBackend, FramesOK
    <3> QED
      BY <2>1, <2>5, <3>1, CoupledFacts, ServiceMoves DEF AskPool
  <2>6. CASE Receive(q)
    <3>1. frame'[r] = frame[r]
      BY <1>0, <2>1, <2>6 DEF Receive, Pool!Return, FramesOK
    <3>2. frame[q].res \in Backends \cup {None}
      BY <2>2, Constants DEF Pool!Frames
    <3> QED
      BY <2>1, <2>6, <3>1, <3>2, CoupledFacts, ServiceMoves DEF Receive
  <2>7. CASE Arrive(q) \/ ResponseBegins(q) \/ ForwardSucceeds(q)
             \/ ForwardPanics(q) \/ GiveUp(q) \/ Leave(q) \/ Finish(q)
    <3>1. frame' = frame
      BY <2>7 DEF Arrive, ResponseBegins, ForwardSucceeds, ForwardPanics, GiveUp,
                  Leave, Finish, poolVars
    <3> QED
      BY <2>1, <2>7, <3>1, CoupledFacts, ServiceMoves
      DEF Arrive, ResponseBegins, ForwardSucceeds, ForwardPanics, GiveUp, Leave, Finish
  <2> QED
    BY <1>1, <2>3, <2>4, <2>5, <2>6, <2>7 DEF Serve
<1>2. ASSUME NEW b \in Backends, CheckReturns(b) \/ CheckDone(b)
      PROVE  frame'[r] = frame[r] /\ UNCHANGED serviceVars
  <2>1. r # b /\ b \in Callers /\ up[b] \in BOOLEAN
    BY Constants, CoupledFacts
  <2>2. CASE CheckReturns(b)
    <3>1. \E f : FrameBecomes(b, f)
      BY <1>0, <2>1, <2>2, CheckReturnsMarks
    <3> QED
      BY <1>0, <2>1, <2>2, <3>1 DEF CheckReturns, FrameBecomes, FramesOK
  <2> QED
    BY <1>2, <2>2 DEF CheckDone, poolVars
<1>3. ASSUME NEW c \in Callers, WriteMark(c)
      PROVE  frame'[r] = frame[r] /\ UNCHANGED serviceVars
  <2>1. c # r
    BY <1>3 DEF StepOf
  <2>2. \E f : FrameBecomes(c, f)
    BY <1>3, WriteMarkSteps
  <2> QED
    BY <1>0, <1>3, <2>1, <2>2 DEF WriteMark, FrameBecomes, FramesOK
<1>4. CASE \/ MonitorLoop \/ Tick \/ UNCHANGED vars
           \/ \E b \in Backends : GoesDown(b) \/ ComesBack(b)
  BY <1>4 DEF MonitorLoop, Tick, GoesDown, ComesBack, vars, poolVars, serviceVars
<1> QED
  BY <1>1, <1>2, <1>3, <1>4 DEF Next, Callers, serviceVars

-----------------------------------------------------------------------------
(* Without a monitor.                                                      *)

NoMonitor == loop = "new"

LEMMA NoMonitorStays ==
    ASSUME ~HealthChecks, NoMonitor, [Next]_vars PROVE NoMonitor'
BY DEF NoMonitor, Next, vars, monitorVars, MonitorLoop, Tick, Monitor!Tick, Arrive,
       Serve, Leave, Finish, AskPool, Look, Receive, ResponseBegins, ForwardFails,
       ForwardSucceeds, ForwardPanics, GiveUp, CheckReturns, CheckDone,
       Monitor!CheckReturns, Monitor!CheckDone, WriteMark, GoesDown, ComesBack

LEMMA NoMonitorHolds ==
    ASSUME ~HealthChecks PROVE Spec => []NoMonitor
<1>1. Init => NoMonitor
  BY DEF Init, Monitor!MonitorInit, NoMonitor
<1>2. NoMonitor /\ [Next]_vars => NoMonitor'
  BY NoMonitorStays
<1> QED
  BY <1>1, <1>2, PTL DEF Spec

\* Without health checks a pool that is down stays down: no mark and no lookup
\* that is still in progress brings a backend back.
THEOREM DownForGoodHolds == Spec => DownForGood
<1> DEFINE Down ==
      ~HealthChecks /\ (\A b \in Backends : ~alive[b]) =>
         /\ \A b \in Backends : ~alive'[b]
         /\ \A r \in Requests :
               Pool!InLookup(r) /\ ~Pool!InLookup(r)' => frame'[r].res = None
<1>1. CASE HealthChecks
  <2>1. TRUE => Down
    BY <1>1
  <2>2. TRUE => [Down]_vars
    BY <2>1
  <2>3. Spec => [][Down]_vars
    BY <2>2, PTL
  <2> QED
    BY <2>3 DEF DownForGood
<1>2. CASE ~HealthChecks
  <2>1. CoupledInv /\ NoMonitor /\ [Next]_vars => [Down]_vars
    <3> SUFFICES ASSUME CoupledInv, NoMonitor, [Next]_vars,
                        \A b \in Backends : ~alive[b]
                 PROVE  Down
      OBVIOUS
    <3>1. \A b \in Backends : ~alive'[b]
      BY FlagsTurnOnlySo DEF FlagsTurn, NoMonitor
    <3>2. ASSUME NEW r \in Requests, Pool!InLookup(r), ~Pool!InLookup(r)'
          PROVE  frame'[r].res = None
      <4>0. /\ r \in Callers /\ FramesOK /\ RequestInv(r)
            /\ frame[r].op \in {"scan", "count"}
        BY <3>2, CoupledFacts DEF Pool!InLookup
      <4>1. StepOf(r)
        BY <3>2, OthersLeaveAlone DEF Pool!InLookup
      <4>2. CASE Look(r)
        <5>1. frame[r].by = "round-robin" /\ frame[r].op # "count"
          BY <4>0 DEF RequestInv
        <5>2. PICK f :
                 /\ FrameBecomes(r, f)
                 /\ \/ \E b \in Backends : alive[b]
                    \/ f.op = "ret" /\ f.res = None
                    \/ f.op = "scan"
          BY <4>0, <4>2, <5>1, LookupSteps DEF Look
        <5>3. frame'[r] = f
          BY <4>0, <5>2 DEF FrameBecomes, FramesOK
        <5> QED
          BY <3>2, <5>2, <5>3 DEF Pool!InLookup
      <4>3. CASE ~Look(r)
        <5>1. pc[r] = "pick"
          BY <4>0 DEF RequestInv
        <5>2. ~Arrive(r) /\ ~Finish(r) /\ ~ResponseBegins(r) /\ ~ForwardFails(r)
              /\ ~ForwardSucceeds(r) /\ ~ForwardPanics(r)
          BY <5>1
          DEF Arrive, Finish, ResponseBegins, ForwardFails, ForwardSucceeds,
              ForwardPanics, Service!Arrive, Service!Finish, Service!ResponseBegins,
              Service!ForwardFails, Service!ForwardSucceeds, Service!ForwardPanics,
              Service!Goto, Service!Respond
        <5>3. ~AskPool(r) /\ ~Receive(r) /\ ~GiveUp(r) /\ ~WriteMark(r)
          BY <4>0
          DEF AskPool, Pool!GetNextHealthyBackend, Pool!Idle, Receive, Pool!Return,
              GiveUp, WriteMark, Pool!Mark, Pool!MarkLoad, Pool!MarkStore
        <5>4. frame' = frame
          BY <4>1, <4>3, <5>2, <5>3 DEF StepOf, Serve, Leave, poolVars
        <5> QED
          BY <3>2, <5>4 DEF Pool!InLookup
      <4> QED
        BY <4>2, <4>3
    <3> QED
      BY <3>1, <3>2
  <2>2. Spec => [][Down]_vars
    BY <1>2, <2>1, NoMonitorHolds, CoupledHolds, PTL DEF Spec
  <2> QED
    BY <2>2 DEF DownForGood
<1> QED
  BY <1>1, <1>2

-----------------------------------------------------------------------------
(* The steps a request has left.                                           *)

\* What they are in each place.
LEMMA StepsOfAttemptIs ==
    ASSUME NEW r \in Requests
    PROVE  /\ pc[r] = "pick" /\ frame[r].op = "scan" =>
                 StepsOfAttempt(r) = (N - frame[r].i) + 4
           /\ pc[r] = "pick" /\ frame[r].op # "scan" => StepsOfAttempt(r) = 4
           /\ pc[r] = "forward" => StepsOfAttempt(r) = 3
           /\ pc[r] = "mark" /\ frame[r].op = "mark" => StepsOfAttempt(r) = 2
           /\ pc[r] = "mark" /\ frame[r].op = "store" => StepsOfAttempt(r) = 1
           /\ pc[r] \in {"loop", "copy"} => StepsOfAttempt(r) = 0
           /\ pc[r] = "mark" /\ frame[r].op = "idle" => StepsOfAttempt(r) = 0
BY DEF StepsOfAttempt

\* Within an attempt they are fewer if those of the attempt are.
LEMMA FewerInAttempt ==
    ASSUME CoupledInv, NEW r \in Requests, attempts'[r] = attempts[r],
           StepsOfAttempt(r) \in Int, StepsOfAttempt(r)' \in Int,
           StepsOfAttempt(r)' < StepsOfAttempt(r)
    PROVE  StepsLeft(r)' < StepsLeft(r)
<1> DEFINE rest == (MaxAttempts - attempts[r]) * (N + 5)
<1>1. rest \in Int /\ rest' = rest
  BY CoupledFacts, Constants DEF Service!ServiceTypeOK
<1>2. StepsLeft(r) = rest + StepsOfAttempt(r) + 1
  BY DEF StepsLeft
<1>3. StepsLeft(r)' = rest + StepsOfAttempt(r)' + 1
  BY <1>1 DEF StepsLeft
<1> HIDE DEF rest
<1> QED
  BY <1>1, <1>2, <1>3

\* Another attempt is paid for by those that are left.
LEMMA AttemptIsPaid ==
    ASSUME NEW m \in Int, NEW n \in Int
    PROVE  (m - 1) * (n + 5) + (n + 4) + 1 < m * (n + 5) + 0 + 1
<1>1. m * (n + 5) = (m - 1) * (n + 5) + (n + 5) /\ (m - 1) * (n + 5) \in Int
  OBVIOUS
<1> QED
  BY <1>1

LEMMA OwnStepIsOneLess ==
    ASSUME CoupledInv, [Next]_vars, NEW r \in Requests, Service!InFlight(r), StepOf(r)
    PROVE  \/ UNCHANGED <<pc[r], attempts[r], target[r], frame[r]>>
           \/ ~Service!InFlight(r)'
           \/ StepsLeft(r)' < StepsLeft(r)
<1>0. /\ RequestInv(r) /\ r \in Callers /\ FramesOK /\ frame[r] \in Pool!Frames
      /\ Service!ServiceTypeOK
  BY CoupledFacts DEF FramesOK
<1>p. /\ pc'[r] = "pick" /\ frame'[r].op = "scan" =>
            StepsOfAttempt(r)' = (N - frame'[r].i) + 4
      /\ pc'[r] = "pick" /\ frame'[r].op # "scan" => StepsOfAttempt(r)' = 4
      /\ pc'[r] = "forward" => StepsOfAttempt(r)' = 3
      /\ pc'[r] = "mark" /\ frame'[r].op = "mark" => StepsOfAttempt(r)' = 2
      /\ pc'[r] = "mark" /\ frame'[r].op = "store" => StepsOfAttempt(r)' = 1
      /\ pc'[r] \in {"loop", "copy"} => StepsOfAttempt(r)' = 0
      /\ pc'[r] = "mark" /\ frame'[r].op = "idle" => StepsOfAttempt(r)' = 0
  BY DEF StepsOfAttempt
<1>1. CASE Leave(r)
  BY <1>1 DEF Leave, Service!Leave, poolVars
<1>2. CASE Arrive(r) \/ Finish(r)
  BY <1>0, <1>2
  DEF Arrive, Finish, Service!Arrive, Service!Finish, Service!Goto, Service!InFlight
<1>3. CASE AskPool(r)
  <2>1. /\ pc[r] \in {"loop", "mark"} /\ pc'[r] = "pick" /\ frame[r].op = "idle"
        /\ attempts'[r] = attempts[r] + 1 /\ attempts[r] \in Nat
    BY <1>0, <1>3
    DEF AskPool, Service!NextAttempt, Service!Goto, Service!ServiceTypeOK,
        Pool!GetNextHealthyBackend, Pool!Idle
  <2>2. PICK f : FrameBecomes(r, f) /\ f.op = "scan" /\ f.i = 0
    BY <1>0, <1>3, CoupledFacts, LookupBegins DEF AskPool
  <2>3. frame'[r].op = "scan" /\ frame'[r].i = 0
    BY <1>0, <2>2 DEF FrameBecomes, FramesOK
  <2>4. StepsOfAttempt(r) = 0 /\ StepsOfAttempt(r)' = N + 4
    BY <1>p, <2>1, <2>3, StepsOfAttemptIs, Constants
  <2> DEFINE m == MaxAttempts - attempts[r]
  <2>5. m \in Int /\ N \in Int /\ MaxAttempts - attempts'[r] = m - 1
    BY <2>1, Constants
  <2>6. StepsLeft(r) = m * (N + 5) + 0 + 1
    BY <2>4 DEF StepsLeft
  <2>7. StepsLeft(r)' = (m - 1) * (N + 5) + (N + 4) + 1
    BY <2>4, <2>5 DEF StepsLeft
  <2> HIDE DEF m
  <2> QED
    BY <2>5, <2>6, <2>7, AttemptIsPaid
<1>4. CASE Look(r)
  <2>1. frame[r].by = "round-robin" /\ frame[r].op # "count"
    BY <1>0, <1>4 DEF RequestInv, Look, Pool!Scan, Pool!ScanRoundRobin,
                      Pool!ScanRandom, Pool!ScanLeast, Pool!CountConnections
  <2>2. frame[r].op = "scan" /\ frame[r].i \in Backends /\ pc[r] = "pick"
    BY <1>0, <1>4, <2>1, LookupSteps DEF Look, RequestInv
  <2>3. PICK f : /\ FrameBecomes(r, f)
                 /\ f.op = "ret" \/ (f.op = "scan" /\ f.i = frame[r].i + 1)
    BY <1>0, <1>4, <2>1, LookupSteps DEF Look
  <2>4. frame'[r] = f /\ pc' = pc /\ attempts' = attempts
    BY <1>0, <1>4, <2>3 DEF Look, serviceVars, FrameBecomes, FramesOK
  <2>5. frame[r].i \in 0 .. N - 1 /\ N \in Nat
    BY <2>2, Constants DEF Backends
  <2>6. /\ StepsOfAttempt(r) = (N - frame[r].i) + 4
        /\ StepsOfAttempt(r)' = 4 \/ StepsOfAttempt(r)' = (N - (frame[r].i + 1)) + 4
    BY <1>p, <2>2, <2>3, <2>4, StepsOfAttemptIs
  <2> QED
    BY <2>4, <2>5, <2>6, FewerInAttempt
<1>5. CASE Receive(r)
  <2>1. /\ pc[r] = "pick" /\ frame[r].op = "ret" /\ pc'[r] \in {"forward", "done"}
        /\ attempts' = attempts
    BY <1>0, <1>5
    DEF Receive, Pool!Return, RequestInv, Service!Picked, Service!Goto,
        Service!Respond, Service!ServiceTypeOK
  <2> QED
    BY <1>p, <2>1, StepsOfAttemptIs, FewerInAttempt DEF Service!InFlight
<1>6. CASE ResponseBegins(r)
  <2>1. pc[r] = "forward" /\ pc'[r] = "copy" /\ attempts' = attempts
    BY <1>0, <1>6
    DEF ResponseBegins, Service!ResponseBegins, Service!Goto, Service!ServiceTypeOK
  <2> QED
    BY <1>p, <2>1, StepsOfAttemptIs, FewerInAttempt
<1>7. CASE ForwardFails(r)
  <2>1. /\ pc[r] = "forward" /\ pc'[r] = "mark" /\ attempts' = attempts
        /\ target[r] \in Backends
    BY <1>0, <1>7
    DEF ForwardFails, Service!ForwardFails, Service!Goto, Service!ServiceTypeOK
  <2>2. PICK f : FrameBecomes(r, f) /\ f.op = "mark"
    BY <1>0, <1>7, <2>1, ForwardFailsMarks
  <2>3. frame'[r].op = "mark"
    BY <1>0, <2>2 DEF FrameBecomes, FramesOK
  <2> QED
    BY <1>p, <2>1, <2>3, StepsOfAttemptIs, FewerInAttempt
<1>8. CASE WriteMark(r)
  <2>1. /\ Pool!InMark(r) /\ pc[r] = "mark"
        /\ \E f : /\ FrameBecomes(r, f)
                  /\ f.op = "idle" \/ (f.op = "store" /\ frame[r].op = "mark")
    BY <1>0, <1>8, WriteMarkSteps, NoCallType, Constants
  <2>2. \/ frame'[r].op = "idle"
        \/ frame'[r].op = "store" /\ frame[r].op = "mark"
    BY <1>0, <2>1 DEF FrameBecomes, FramesOK
  <2>3. pc' = pc /\ attempts' = attempts
    BY <1>8 DEF WriteMark, serviceVars
  <2> QED
    BY <1>p, <2>1, <2>2, <2>3, StepsOfAttemptIs, FewerInAttempt DEF Pool!InMark
<1>9. CASE ForwardSucceeds(r) \/ ForwardPanics(r) \/ GiveUp(r)
  <2>1. pc'[r] = "done"
    BY <1>0, <1>9
    DEF ForwardSucceeds, ForwardPanics, GiveUp, Service!ForwardSucceeds,
        Service!ForwardPanics, Service!GiveUp, Service!Goto, Service!Respond,
        Service!ServiceTypeOK
  <2> QED
    BY <2>1 DEF Service!InFlight
<1> QED
  BY <1>1, <1>2, <1>3, <1>4, <1>5, <1>6, <1>7, <1>8, <1>9 DEF StepOf, Serve

\* The pool is wait-free for the requests, however many there are: every step
\* of a request shortens its way, and no step of anybody else makes it longer.
THEOREM NobodyIsHeldUpHolds == Spec => NobodyIsHeldUp
<1> DEFINE Nearer ==
      \A r \in Requests : Service!InFlight(r) =>
         \/ UNCHANGED <<pc[r], attempts[r], target[r], frame[r]>>
         \/ ~Service!InFlight(r)'
         \/ StepsLeft(r)' < StepsLeft(r)
<1>1. CoupledInv /\ [Next]_vars => [Nearer]_vars
  <2> SUFFICES ASSUME CoupledInv, [Next]_vars, NEW r \in Requests, Service!InFlight(r)
               PROVE  \/ UNCHANGED <<pc[r], attempts[r], target[r], frame[r]>>
                      \/ ~Service!InFlight(r)'
                      \/ StepsLeft(r)' < StepsLeft(r)
    OBVIOUS
  <2>1. CASE StepOf(r)
    BY <2>1, OwnStepIsOneLess
  <2>2. CASE ~StepOf(r)
    BY <2>2, OthersLeaveAlone
  <2> QED
    BY <2>1, <2>2
<1>2. Spec => [][Nearer]_vars
  BY <1>1, CoupledHolds, PTL DEF Spec
<1> QED
  BY <1>2 DEF NobodyIsHeldUp

MostSteps == MaxAttempts * (N + 5) + 1

StepsInv(r) ==
    /\ pc[r] = "idle" => attempts[r] = 0
    /\ Service!InFlight(r) => StepsLeft(r) <= MostSteps

LEMMA StepsLeftIs ==
    ASSUME CoupledInv, NEW r \in Requests, Service!InFlight(r)
    PROVE  StepsLeft(r) \in Nat \ {0}
<1> DEFINE rest == (MaxAttempts - attempts[r]) * (N + 5)
<1>0. /\ RequestInv(r) /\ frame[r] \in Pool!Frames
      /\ pc[r] \in {"loop", "pick", "forward", "copy", "mark"}
      /\ frame[r].op \in {"idle", "scan", "ret", "mark", "store"}
  BY CoupledFacts
  DEF FramesOK, Service!ServiceTypeOK, Service!InFlight, RequestInv, Pool!Frames
<1>1. rest \in Nat
  <2>1. MaxAttempts - attempts[r] \in Nat /\ N + 5 \in Nat
    BY CoupledFacts, Constants DEF Service!ServiceTypeOK
  <2>2. \A x, y \in Nat : x * y \in Nat
    OBVIOUS
  <2> QED
    BY <2>1, <2>2
<1>2. StepsOfAttempt(r) \in Nat
  <2>1. frame[r].i \in 0 .. N
    BY <1>0 DEF Pool!Frames
  <2>2. pc[r] = "mark" => frame[r].op \in {"idle", "mark", "store"}
    BY <1>0 DEF RequestInv
  <2> QED
    BY <1>0, <2>1, <2>2, StepsOfAttemptIs, Constants
<1>3. StepsLeft(r) = rest + StepsOfAttempt(r) + 1
  BY DEF StepsLeft
<1> HIDE DEF rest
<1> QED
  BY <1>1, <1>2, <1>3

LEMMA StepsStep ==
    ASSUME CoupledInv, CoupledInv', [Next]_vars, NEW r \in Requests, StepsInv(r)
    PROVE  StepsInv(r)'
<1>0. Service!ServiceTypeOK /\ MostSteps \in Int /\ MostSteps' = MostSteps
  BY CoupledFacts, Constants DEF MostSteps
<1>a. StepsLeft(r)' \in Int
  <2>1. /\ frame'[r] \in Pool!Frames /\ attempts'[r] \in Nat
    BY DEF CoupledInv, TypeOK, Pool!TypeOK, Service!ServiceTypeOK
  <2>2. (MaxAttempts - attempts'[r]) * (N + 5) \in Int /\ frame'[r].i \in Int
    BY <2>1, Constants DEF Pool!Frames
  <2>3. StepsOfAttempt(r)' \in Int
    BY <2>2, Constants DEF StepsOfAttempt
  <2> QED
    BY <2>2, <2>3 DEF StepsLeft
<1>1. ASSUME Service!InFlight(r), Service!InFlight(r)'
      PROVE  StepsLeft(r)' <= StepsLeft(r)
  <2>1. StepsLeft(r) \in Int
    BY <1>1, StepsLeftIs
  <2>2. CASE UNCHANGED <<pc[r], attempts[r], target[r], frame[r]>>
    <3>1. StepsLeft(r)' = StepsLeft(r)
      BY <2>2 DEF StepsLeft, StepsOfAttempt
    <3> QED
      BY <2>1, <3>1
  <2> QED
    BY <1>1, <1>a, <2>1, <2>2, OwnStepIsOneLess, OthersLeaveAlone
<1>2. CASE Service!InFlight(r)
  <2>1. pc'[r] # "idle"
    <3>1. CASE StepOf(r)
      BY <1>0, <1>2, <3>1
      DEF StepOf, Arrive, Serve, Leave, Finish, AskPool, Look, Receive, ResponseBegins,
          ForwardFails, ForwardSucceeds, ForwardPanics, GiveUp, WriteMark,
          Service!Arrive, Service!NextAttempt, Service!Picked, Service!ResponseBegins,
          Service!ForwardFails, Service!ForwardSucceeds, Service!ForwardPanics,
          Service!GiveUp, Service!Leave, Service!Finish, Service!Goto, Service!Respond,
          Service!ServiceTypeOK, Service!InFlight, serviceVars
    <3> QED
      BY <1>2, <3>1, OthersLeaveAlone DEF Service!InFlight
  <2>2. StepsLeft(r) \in Int
    BY <1>2, StepsLeftIs
  <2> QED
    BY <1>0, <1>1, <1>2, <1>a, <2>1, <2>2 DEF StepsInv
<1>3. CASE ~Service!InFlight(r)
  <2>1. CASE Arrive(r)
    <3>1. pc[r] = "idle" /\ pc'[r] = "loop" /\ attempts' = attempts
      BY <1>0, <2>1 DEF Arrive, Service!Arrive, Service!Goto, Service!ServiceTypeOK
    <3>2. StepsOfAttempt(r)' = 0 /\ attempts'[r] = 0
      BY <3>1 DEF StepsOfAttempt, StepsInv
    <3>3. StepsLeft(r)' = (MaxAttempts - 0) * (N + 5) + 0 + 1
      BY <3>2 DEF StepsLeft
    <3> QED
      BY <1>0, <3>1, <3>3, Constants DEF StepsInv, MostSteps
  <2>2. CASE Finish(r)
    <3>1. pc'[r] = "idle" /\ attempts'[r] = 0
      BY <1>0, <2>2 DEF Finish, Service!Finish, Service!Goto, Service!ServiceTypeOK
    <3> QED
      BY <3>1 DEF StepsInv, Service!InFlight
  <2>3. CASE ~Arrive(r) /\ ~Finish(r)
    <3>1. ~StepOf(r)
      <4>1. RequestInv(r)
        BY CoupledFacts
      <4> QED
        BY <1>0, <1>3, <2>3, <4>1
        DEF StepOf, Serve, Leave, AskPool, Look, Receive, ResponseBegins,
            ForwardFails, ForwardSucceeds, ForwardPanics, GiveUp, WriteMark, RequestInv,
            Service!NextAttempt, Service!Picked, Service!ResponseBegins,
            Service!ForwardFails, Service!ForwardSucceeds, Service!ForwardPanics,
            Service!GiveUp, Service!Leave, Service!Goto, Service!Respond,
            Service!InFlight, Pool!Scan, Pool!ScanRoundRobin, Pool!ScanRandom,
            Pool!ScanLeast, Pool!CountConnections, Pool!Return, Pool!Mark,
            Pool!MarkLoad, Pool!MarkStore, Pool!InMark
    <3> QED
      BY <1>3, <3>1, OthersLeaveAlone DEF StepsInv, Service!InFlight
  <2> QED
    BY <2>1, <2>2, <2>3
<1> QED
  BY <1>2, <1>3

\* A request in progress has at most MaxAttempts * (N + 5) + 1 steps of its own
\* goroutine before its end, and at least one: together with NobodyIsHeldUp,
\* that many steps end it, whatever the others do meanwhile.
THEOREM StepsAreBounded ==
    Spec => [](\A r \in Requests : Service!InFlight(r) => StepsLeft(r) \in 1 .. MostSteps)
<1> DEFINE I == \A r \in Requests : StepsInv(r)
           Bounded == \A r \in Requests :
                         Service!InFlight(r) => StepsLeft(r) \in 1 .. MostSteps
<1>1. Init => I
  BY DEF Init, Service!ServiceInit, StepsInv, Service!InFlight
<1>2. CoupledInv /\ CoupledInv' /\ I /\ [Next]_vars => I'
  BY StepsStep
<1>3. CoupledInv /\ I => Bounded
  <2> SUFFICES ASSUME CoupledInv, I, NEW r \in Requests, Service!InFlight(r)
               PROVE  StepsLeft(r) \in 1 .. MostSteps
    OBVIOUS
  <2>1. StepsLeft(r) \in Nat \ {0} /\ StepsLeft(r) <= MostSteps
    BY StepsLeftIs DEF StepsInv
  <2>2. MostSteps \in Int
    BY Constants DEF MostSteps
  <2> QED
    BY <2>1, <2>2
<1>4. Spec => []Bounded
  BY <1>1, <1>2, <1>3, CoupledHolds, PTL DEF Spec
<1> QED
  BY <1>4

-----------------------------------------------------------------------------
(* What a request has condemned.                                           *)

\* A request has not been given a backend it condemned, and a condemned
\* backend is dead as soon as its mark is written.
CondemnedInv(r) ==
    /\ condemned[r] \subseteq Backends
    /\ \A b \in condemned[r] : alive[b] => Pool!InMark(r) /\ target[r] = b
    /\ frame[r].op = "ret" => frame[r].res \notin condemned[r]
    /\ pc[r] \in {"forward", "copy"} => target[r] \notin condemned[r]

\* What the history does in a step in which r does not fail.
LEMMA CondemnedShrinks ==
    ASSUME Observe, NEW r \in Requests, ~(pc[r] = "forward" /\ pc'[r] = "mark")
    PROVE  \A b \in condemned'[r] :
              b \in condemned[r] /\ (b \in Backends => ~alive'[b] \/ alive[b])
BY DEF Observe, Condemn, Revived

\* The step of another goroutine, or one of r that keeps it where it is.
LEMMA SamePlaceKeepsCondemned ==
    ASSUME Observe, NEW r \in Requests, CondemnedInv(r), RequestInv(r), RequestInv(r)',
           frame'[r] = frame[r],
           ~(pc[r] = "forward" /\ pc'[r] = "mark"),
           pc'[r] \in {"forward", "copy"} =>
              pc[r] \in {"forward", "copy"} /\ target'[r] = target[r]
    PROVE  CondemnedInv(r)'
<1>1. ASSUME NEW b \in condemned'[r], alive'[b]
      PROVE  Pool!InMark(r)' /\ target'[r] = b
  <2>1. alive[b] /\ b \in condemned[r]
    BY <1>1, CondemnedShrinks DEF CondemnedInv
  <2> QED
    BY <2>1 DEF CondemnedInv, RequestInv, Pool!InMark
<1> QED
  BY <1>1, CondemnedShrinks DEF CondemnedInv

LEMMA CondemnedStep ==
    ASSUME CoupledInv, CoupledInv', [Next]_vars, Observe,
           NEW r \in Requests, CondemnedInv(r)
    PROVE  CondemnedInv(r)'
<1>0. /\ RequestInv(r) /\ RequestInv(r)' /\ r \in Callers /\ FramesOK
      /\ frame[r] \in Pool!Frames
  <2>1. RequestInv(r)'
    BY DEF CoupledInv
  <2> QED
    BY <2>1, CoupledFacts DEF FramesOK
<1>1. CASE ~StepOf(r)
  BY <1>0, <1>1, OthersLeaveAlone, SamePlaceKeepsCondemned
<1>2. CASE Arrive(r) \/ ResponseBegins(r) \/ ForwardSucceeds(r) \/ ForwardPanics(r)
           \/ GiveUp(r) \/ Leave(r) \/ Finish(r)
  <2>1. frame'[r] = frame[r]
    BY <1>2 DEF Arrive, ResponseBegins, ForwardSucceeds, ForwardPanics, GiveUp,
                Leave, Finish, poolVars
  <2>2. /\ ~(pc[r] = "forward" /\ pc'[r] = "mark")
        /\ pc'[r] \in {"forward", "copy"} =>
              pc[r] \in {"forward", "copy"} /\ target'[r] = target[r]
    BY <1>2, CoupledFacts
    DEF Arrive, ResponseBegins, ForwardSucceeds, ForwardPanics, GiveUp, Leave, Finish,
        Service!Arrive, Service!ResponseBegins, Service!ForwardSucceeds,
        Service!ForwardPanics, Service!GiveUp, Service!Leave, Service!Finish,
        Service!Goto, Service!Respond, Service!ServiceTypeOK
  <2> QED
    BY <1>0, <2>1, <2>2, SamePlaceKeepsCondemned
<1>3. CASE AskPool(r)
  <2>1. PICK f : FrameBecomes(r, f) /\ f.op = "scan"
    BY <1>0, <1>3, CoupledFacts, LookupBegins DEF AskPool
  <2>2. /\ pc'[r] = "pick" /\ alive' = alive /\ frame[r].op = "idle"
        /\ frame'[r].op = "scan"
    BY <1>0, <1>3, <2>1, CoupledFacts
    DEF AskPool, Service!NextAttempt, Service!Goto, Service!ServiceTypeOK,
        Pool!GetNextHealthyBackend, Pool!Idle, FrameBecomes, FramesOK
  <2> QED
    BY <2>2, CondemnedShrinks DEF CondemnedInv, Pool!InMark
<1>4. CASE Look(r)
  <2>1. frame[r].by = "round-robin" /\ frame[r].op # "count"
    BY <1>0, <1>4 DEF RequestInv, Look, Pool!Scan, Pool!ScanRoundRobin,
                      Pool!ScanRandom, Pool!ScanLeast, Pool!CountConnections
  <2>2. PICK f : /\ FrameBecomes(r, f)
                 /\ f.op = "ret" /\ f.res \in Backends => alive[f.res]
    BY <1>0, <1>4, <2>1, LookupSteps, Constants DEF Look
  <2>3. frame[r].op = "scan" /\ alive' = alive
    BY <1>0, <1>4, <2>1, LookupSteps DEF Look
  <2>4. frame'[r] = f /\ pc' = pc /\ target' = target /\ pc[r] = "pick"
    BY <1>0, <1>4, <2>2, <2>3 DEF Look, serviceVars, FrameBecomes, FramesOK, RequestInv
  <2> QED
    BY <2>2, <2>3, <2>4, CondemnedShrinks DEF CondemnedInv, Pool!InMark
<1>5. CASE Receive(r)
  <2>1. /\ frame[r].op = "ret" /\ alive' = alive /\ frame'[r].op = "idle"
        /\ pc'[r] = "forward" => target'[r] = frame[r].res
        /\ pc[r] = "pick" /\ pc'[r] # "copy"
    BY <1>0, <1>5, NoCallType, CoupledFacts
    DEF Receive, Pool!Return, Service!Picked, Service!Goto, Service!Respond,
        Service!ServiceTypeOK, FramesOK
  <2> QED
    BY <2>1, CondemnedShrinks DEF CondemnedInv, Pool!InMark
<1>6. CASE ForwardFails(r)
  <2>1. /\ target[r] \in Backends /\ target'[r] = target[r] /\ alive' = alive
        /\ pc[r] = "forward" /\ pc'[r] = "mark" /\ frame[r].op = "idle"
    BY <1>0, <1>6, CoupledFacts
    DEF ForwardFails, Service!ForwardFails, Service!Goto, Service!ServiceTypeOK,
        Pool!MarkBackendStatus, Pool!Idle
  <2>2. PICK f : FrameBecomes(r, f) /\ f.op = "mark"
    BY <1>0, <1>6, <2>1, ForwardFailsMarks
  <2>3. frame'[r].op = "mark"
    BY <1>0, <2>2 DEF FrameBecomes, FramesOK
  <2>4. condemned'[r] \subseteq condemned[r] \cup {target[r]}
    BY DEF Observe, Condemn
  <2> QED
    BY <2>1, <2>3, <2>4 DEF CondemnedInv, Pool!InMark
<1>7. CASE WriteMark(r)
  <2>1. PICK b \in Backends :
          /\ frame[r].i = b /\ frame[r].url = b
          /\ pc[r] = "mark" /\ target[r] = b /\ ~frame[r].val
          /\ \/ ~alive[b] /\ alive' = alive /\ FrameBecomes(r, Pool!NoCall)
             \/ alive' = [alive EXCEPT ![b] = FALSE] /\ FrameBecomes(r, Pool!NoCall)
             \/ alive' = alive /\ \E f : FrameBecomes(r, f) /\ f.op = "store"
    <3>1. frame[r].val \in BOOLEAN
      BY <1>0 DEF Pool!Frames
    <3> QED
      BY <1>0, <1>7, <3>1, WriteMarkSteps, Constants
  <2>2. frame'[r].op \in {"idle", "store"}
    BY <1>0, <2>1, NoCallType DEF FrameBecomes, FramesOK
  <2>3. \/ ~alive'[b] /\ \A d \in Backends \ {b} : alive'[d] = alive[d]
        \/ alive' = alive /\ frame'[r].op = "store"
    BY <1>0, <2>1, CoupledFacts DEF FrameBecomes, FramesOK
  <2>4. pc' = pc /\ target' = target
    BY <1>7 DEF WriteMark, serviceVars
  <2> QED
    BY <2>1, <2>2, <2>3, <2>4, CondemnedShrinks DEF CondemnedInv, Pool!InMark
<1> QED
  BY <1>1, <1>2, <1>3, <1>4, <1>5, <1>6, <1>7 DEF StepOf, Serve

\* What the observed load balancer adds to CoupledInv.
CondemnedInvs == CoupledInv /\ \A r \in Requests : CondemnedInv(r)

LEMMA CondemnedInvsHold == HSpec => []CondemnedInvs
<1>1. HInit => CondemnedInvs
  <2> SUFFICES ASSUME HInit PROVE CondemnedInvs
    OBVIOUS
  <2>1. CoupledInv
    BY CoupledInit DEF HInit
  <2>2. ASSUME NEW r \in Requests PROVE CondemnedInv(r)
    BY DEF HInit, CondemnedInv
  <2> QED
    BY <2>1, <2>2 DEF CondemnedInvs
<1>2. CondemnedInvs /\ [Next /\ Observe]_hvars => CondemnedInvs'
  <2> SUFFICES ASSUME CondemnedInvs, [Next /\ Observe]_hvars PROVE CondemnedInvs'
    OBVIOUS
  <2>1. CASE Next /\ Observe
    <3>1. CoupledInv'
      BY <2>1, CoupledStep DEF CondemnedInvs
    <3> QED
      BY <2>1, <3>1, CondemnedStep DEF CondemnedInvs
  <2>2. CASE UNCHANGED hvars
    <3>1. CoupledInv'
      BY <2>2, CoupledStep DEF CondemnedInvs, hvars
    <3>2. ASSUME NEW r \in Requests PROVE CondemnedInv(r)'
      BY <2>2 DEF CondemnedInvs, CondemnedInv, hvars, history, vars, poolVars,
                  serviceVars, Pool!InMark
    <3> QED
      BY <3>1, <3>2 DEF CondemnedInvs
  <2> QED
    BY <2>1, <2>2
<1> QED
  BY <1>1, <1>2, PTL DEF HSpec

\* A request that retries is never given a backend it has failed on, unless a
\* check has revived it, for any number of requests, backends and attempts.
THEOREM RetryAvoidsCondemnedHolds == HSpec => []RetryAvoidsCondemned
<1>1. CondemnedInvs => RetryAvoidsCondemned
  BY DEF CondemnedInvs, CondemnedInv, RetryAvoidsCondemned
<1> QED
  BY <1>1, CondemnedInvsHold, PTL

-----------------------------------------------------------------------------
(* Requests against requests: no 503 past a sound backend.                 *)

\* The counter does not wrap within the turn of r, or not where it matters.
RingWhole(r) == frame[r].ticket + N <= CounterMod \/ CounterMod % N = 0

\* A lookup passes no backend that was sound since the request arrived, and
\* finds nothing only if there is none.
SoundInv(r) ==
    /\ sound[r] \subseteq {b \in Backends : alive[b]}
    /\ frame[r].op = "scan" /\ RingWhole(r) =>
          \A k \in 0 .. frame[r].i - 1 : (frame[r].ticket + k) % N \notin sound[r]
    /\ frame[r].op = "ret" /\ frame[r].res = None /\ RingWhole(r) => sound[r] = {}

LEMMA SoundShrinks ==
    ASSUME Observe, NEW r \in Requests
    PROVE  /\ sound'[r] \subseteq {b \in Backends : alive'[b]}
           /\ pc[r] \notin {"idle", "done"} => sound'[r] \subseteq sound[r]
BY DEF Observe, StillSound, InFlight, Sound

\* Where the wrap of the counter does not cut it, the ring is N entries long.
LEMMA RingIndexIs ==
    ASSUME NEW r, frame[r].ticket \in 0 .. CounterMod - 1, NEW k \in 0 .. N - 1,
           frame[r].ticket + N <= CounterMod \/ CounterMod % N = 0
    PROVE  Pool!RingIndex(r, k) = (frame[r].ticket + k) % N
<1>1. N \in Nat \ {0} /\ CounterMod \in Nat /\ N <= CounterMod
  BY Constants
<1> QED
  BY <1>1, WrapIsHarmless DEF Pool!RingIndex

LEMMA SoundStep ==
    ASSUME CoupledInv, [Next]_vars, Observe, NEW r \in Requests, SoundInv(r)
    PROVE  SoundInv(r)'
<1>0. RequestInv(r) /\ r \in Callers /\ FramesOK /\ frame[r] \in Pool!Frames
  BY CoupledFacts DEF FramesOK
<1>1. ASSUME frame'[r] = frame[r] PROVE SoundInv(r)'
  BY <1>0, <1>1, SoundShrinks DEF SoundInv, RequestInv, RingWhole
<1>2. ASSUME frame'[r].op \notin {"scan", "ret"} PROVE SoundInv(r)'
  BY <1>2, SoundShrinks DEF SoundInv
<1>3. CASE ~StepOf(r)
  BY <1>1, <1>3, OthersLeaveAlone
<1>4. CASE Arrive(r) \/ ResponseBegins(r) \/ ForwardSucceeds(r) \/ ForwardPanics(r)
           \/ GiveUp(r) \/ Leave(r) \/ Finish(r)
  BY <1>1, <1>4 DEF Arrive, ResponseBegins, ForwardSucceeds, ForwardPanics, GiveUp,
                    Leave, Finish, poolVars
<1>5. CASE AskPool(r)
  <2>1. PICK f : FrameBecomes(r, f) /\ f.op = "scan" /\ f.i = 0
    BY <1>0, <1>5, CoupledFacts, LookupBegins DEF AskPool
  <2>2. frame'[r].op = "scan" /\ frame'[r].i = 0
    BY <1>0, <2>1 DEF FrameBecomes, FramesOK
  <2> QED
    BY <2>2, SoundShrinks DEF SoundInv
<1>6. CASE Look(r)
  <2> DEFINE i == frame[r].i
             b == Pool!RingIndex(r, i)
  <2>1. frame[r].by = "round-robin" /\ frame[r].op # "count"
    BY <1>0, <1>6 DEF RequestInv, Look, Pool!Scan, Pool!ScanRoundRobin,
                      Pool!ScanRandom, Pool!ScanLeast, Pool!CountConnections
  <2>2. /\ frame[r].op = "scan" /\ i \in Backends /\ alive' = alive
        /\ pc[r] = "pick"
    BY <1>0, <1>6, <2>1, LookupSteps DEF Look, RequestInv
  <2>3. PICK f : /\ FrameBecomes(r, f) /\ f.ticket = frame[r].ticket
                 /\ \/ alive[b] /\ f.op = "ret" /\ f.res = b /\ b \in Backends
                    \/ ~alive[b] /\ i + 1 = N /\ f.op = "ret" /\ f.res = None
                    \/ ~alive[b] /\ f.op = "scan" /\ f.i = i + 1
    BY <1>0, <1>6, <2>1, LookupSteps DEF Look
  <2>4. frame'[r] = f
    BY <1>0, <2>3 DEF FrameBecomes, FramesOK
  <2>5. /\ frame[r].ticket \in 0 .. CounterMod - 1 /\ i \in 0 .. N - 1
        /\ RingWhole(r) => b = (frame[r].ticket + i) % N
    <3>1. frame[r].ticket \in 0 .. CounterMod - 1 /\ i \in 0 .. N - 1
      BY <1>0, <2>2 DEF Pool!Frames, Backends
    <3> QED
      BY <3>1, RingIndexIs, Zenon DEF RingWhole
  <2>6. sound'[r] \subseteq sound[r] /\ sound'[r] \subseteq {d \in Backends : alive[d]}
    BY <2>2, SoundShrinks
  <2>7. ASSUME ~alive[b], RingWhole(r)
        PROVE  \A k \in 0 .. i : (frame[r].ticket + k) % N \notin sound'[r]
    <3>1. b \notin sound'[r]
      BY <2>6, <2>7
    <3> HIDE DEF b
    <3> QED
      BY <2>2, <2>5, <2>6, <2>7, <3>1 DEF SoundInv
  <2>8. CASE f.op = "ret" /\ f.res = b /\ b \in Backends
    BY <2>4, <2>6, <2>8, <2>2, SoundShrinks, Constants DEF SoundInv
  <2>9. CASE ~alive[b] /\ i + 1 = N /\ f.op = "ret" /\ f.res = None
    <3>1. ASSUME NEW d \in Backends, RingWhole(r) PROVE d \notin sound'[r]
      <4>1. PICK k \in 0 .. N - 1 : (frame[r].ticket + k) % N = d
        <5>1. frame[r].ticket \in Nat /\ d \in 0 .. N - 1
          BY <2>5 DEF Backends
        <5> QED
          BY <5>1, Constants, FullTurn
      <4> QED
        BY <2>5, <2>7, <2>9, <3>1, <4>1
    <3> QED
      BY <2>3, <2>4, <2>6, <2>9, <3>1, SoundShrinks DEF SoundInv, RingWhole
  <2>10. CASE ~alive[b] /\ f.op = "scan" /\ f.i = i + 1
    <3>1. 0 .. i = 0 .. f.i - 1
      BY <2>5, <2>10
    <3> QED
      BY <2>3, <2>4, <2>7, <2>10, <3>1, SoundShrinks DEF SoundInv, RingWhole
  <2> QED
    BY <2>3, <2>8, <2>9, <2>10
<1>7. CASE Receive(r)
  BY <1>0, <1>2, <1>7, NoCallType DEF Receive, Pool!Return, FramesOK
<1>8. CASE ForwardFails(r)
  <2>1. target[r] \in Backends
    BY <1>8, CoupledFacts
    DEF ForwardFails, Service!ForwardFails, Service!Goto, Service!ServiceTypeOK
  <2>2. PICK f : FrameBecomes(r, f) /\ f.op = "mark"
    BY <1>0, <1>8, <2>1, ForwardFailsMarks
  <2> QED
    BY <1>0, <1>2, <2>2 DEF FrameBecomes, FramesOK
<1>9. CASE WriteMark(r)
  <2>1. PICK f : FrameBecomes(r, f) /\ f.op \in {"idle", "store"}
    BY <1>0, <1>9, WriteMarkSteps, NoCallType
  <2> QED
    BY <1>0, <1>2, <2>1 DEF FrameBecomes, FramesOK
<1> QED
  BY <1>3, <1>4, <1>5, <1>6, <1>7, <1>8, <1>9 DEF StepOf, Serve

\* Without a monitor each attempt of a request that failed has condemned a
\* backend of its own, so the attempts run out only after that many.
CountInv(r) ==
    /\ NoMonitor
    /\ pc[r] \in {"idle", "loop"} => attempts[r] = 0
    /\ pc[r] \in {"pick", "forward", "copy"} =>
          attempts[r] <= Cardinality(condemned[r]) + 1
    /\ pc[r] = "mark" => attempts[r] <= Cardinality(condemned[r])

LEMMA CondemnedIsFinite ==
    ASSUME NEW S \in SUBSET Backends
    PROVE  /\ IsFiniteSet(S) /\ Cardinality(S) \in Nat
           /\ Cardinality(S) >= N => S = Backends
<1>1. IsFiniteSet(Backends) /\ Cardinality(Backends) = N
  BY Constants, FS_Interval DEF Backends
<1>2. /\ IsFiniteSet(S) /\ Cardinality(S) <= Cardinality(Backends)
      /\ Cardinality(Backends) = Cardinality(S) => Backends = S
  BY <1>1, FS_Subset
<1>3. Cardinality(S) \in Nat
  BY <1>2, FS_CardinalityType
<1> QED
  BY <1>1, <1>2, <1>3, Constants

LEMMA CountStep ==
    ASSUME CoupledInv, [Next]_vars, Observe, ~HealthChecks,
           NEW r \in Requests, CondemnedInv(r), CountInv(r)
    PROVE  CountInv(r)'
<1>0. /\ RequestInv(r) /\ r \in Callers /\ FramesOK
      /\ attempts[r] \in Nat /\ Cardinality(condemned[r]) \in Nat
      /\ IsFiniteSet(condemned[r])
  BY CoupledFacts, CondemnedIsFinite DEF CondemnedInv, Service!ServiceTypeOK
<1>1. NoMonitor'
  BY NoMonitorStays DEF CountInv
<1>2. Revived = {}
  BY FlagsTurnOnlySo DEF FlagsTurn, Revived, CountInv, NoMonitor
<1>3. ASSUME pc'[r] \notin {"idle", "done"}, ~(pc[r] = "forward" /\ pc'[r] = "mark")
      PROVE  condemned'[r] = condemned[r]
  BY <1>2, <1>3 DEF Observe, Condemn, InFlight
<1>4. CASE pc'[r] = pc[r] /\ attempts'[r] = attempts[r]
  BY <1>1, <1>3, <1>4 DEF CountInv
<1>5. CASE ~StepOf(r) \/ Leave(r) \/ Look(r) \/ WriteMark(r)
  BY <1>4, <1>5, OthersLeaveAlone
  DEF Leave, Look, WriteMark, Service!Leave, serviceVars
<1>6. CASE Arrive(r)
  <2>1. pc[r] = "idle" /\ pc'[r] = "loop" /\ attempts'[r] = attempts[r]
    BY <1>6, CoupledFacts
    DEF Arrive, Service!Arrive, Service!Goto, Service!ServiceTypeOK
  <2> QED
    BY <1>1, <2>1 DEF CountInv
<1>7. CASE AskPool(r)
  <2>1. pc[r] \in {"loop", "mark"} /\ pc'[r] = "pick" /\ attempts'[r] = attempts[r] + 1
    BY <1>7, CoupledFacts
    DEF AskPool, Service!NextAttempt, Service!Goto, Service!ServiceTypeOK
  <2> QED
    BY <1>0, <1>1, <1>3, <2>1 DEF CountInv
<1>8. CASE Receive(r) \/ ResponseBegins(r)
  <2>1. /\ pc[r] \in {"pick", "forward"} /\ pc'[r] \in {"forward", "copy", "done"}
        /\ attempts' = attempts
    BY <1>8, CoupledFacts
    DEF Receive, ResponseBegins, Service!Picked, Service!ResponseBegins, Service!Goto,
        Service!Respond, Service!ServiceTypeOK
  <2> QED
    BY <1>0, <1>1, <1>3, <2>1 DEF CountInv
<1>9. CASE ForwardFails(r)
  <2>1. /\ pc[r] = "forward" /\ pc'[r] = "mark" /\ attempts' = attempts
        /\ target[r] \notin condemned[r]
    BY <1>9, CoupledFacts
    DEF ForwardFails, Service!ForwardFails, Service!Goto, Service!ServiceTypeOK,
        CondemnedInv
  <2>2. condemned'[r] = condemned[r] \cup {target[r]}
    BY <1>2, <2>1 DEF Observe, Condemn, InFlight
  <2>3. Cardinality(condemned[r] \cup {target[r]}) = Cardinality(condemned[r]) + 1
    BY <1>0, <2>1, FS_AddElement
  <2> QED
    BY <1>0, <1>1, <2>1, <2>2, <2>3 DEF CountInv
<1>10. CASE ForwardSucceeds(r) \/ ForwardPanics(r) \/ GiveUp(r)
  <2>1. pc'[r] = "done"
    BY <1>10, CoupledFacts
    DEF ForwardSucceeds, ForwardPanics, GiveUp, Service!ForwardSucceeds,
        Service!ForwardPanics, Service!GiveUp, Service!Goto, Service!Respond,
        Service!ServiceTypeOK
  <2> QED
    BY <1>1, <2>1 DEF CountInv
<1>11. CASE Finish(r)
  <2>1. pc'[r] = "idle" /\ attempts'[r] = 0
    BY <1>11, CoupledFacts
    DEF Finish, Service!Finish, Service!Goto, Service!ServiceTypeOK
  <2> QED
    BY <1>1, <2>1 DEF CountInv
<1> QED
  BY <1>5, <1>6, <1>7, <1>8, <1>9, <1>10, <1>11 DEF StepOf, Serve

\* Who is refused: a request that found nothing, or failed MaxAttempts times.
LEMMA WhoIsRefused ==
    ASSUME CoupledInv, [Next]_vars, NEW r \in Requests,
           answer[r] # "503", answer'[r] = "503"
    PROVE  \/ frame[r].op = "ret" /\ frame[r].res = None
           \/ /\ pc[r] = "mark" /\ attempts[r] = MaxAttempts
              /\ frame[r].op = "idle"
<1>0. answer \in [Requests -> {"none", "ok", "503", "aborted"}]
  BY CoupledFacts DEF Service!ServiceTypeOK
<1>1. ASSUME UNCHANGED answer PROVE FALSE
  BY <1>1
<1>2. ASSUME NEW q \in Requests, Arrive(q) \/ Serve(q) \/ Leave(q) \/ Finish(q)
      PROVE  \/ frame[r].op = "ret" /\ frame[r].res = None
             \/ /\ pc[r] = "mark" /\ attempts[r] = MaxAttempts
                /\ frame[r].op = "idle"
  <2>1. CASE Receive(q)
    BY <1>0, <1>1, <2>1
    DEF Receive, Pool!Return, Service!Picked, Service!Respond
  <2>2. CASE GiveUp(q)
    BY <1>0, <2>2 DEF GiveUp, Pool!Idle, Service!GiveUp, Service!Goto, Service!Respond
  <2>3. CASE ForwardSucceeds(q) \/ ForwardPanics(q) \/ Finish(q)
    BY <1>0, <2>3
    DEF ForwardSucceeds, ForwardPanics, Finish, Service!ForwardSucceeds,
        Service!ForwardPanics, Service!Finish, Service!Respond
  <2>4. CASE Arrive(q) \/ AskPool(q) \/ Look(q) \/ ResponseBegins(q)
             \/ ForwardFails(q) \/ Leave(q)
    BY <1>1, <2>4
    DEF Arrive, AskPool, Look, ResponseBegins, ForwardFails, Leave, serviceVars,
        Service!Arrive, Service!NextAttempt, Service!ResponseBegins,
        Service!ForwardFails, Service!Leave
  <2> QED
    BY <1>2, <2>1, <2>2, <2>3, <2>4 DEF Serve
<1>3. CASE \/ MonitorLoop \/ Tick \/ UNCHANGED vars
           \/ \E b \in Backends : CheckReturns(b) \/ CheckDone(b)
           \/ \E c \in Requests \cup Backends : WriteMark(c)
           \/ \E b \in Backends : GoesDown(b) \/ ComesBack(b)
  BY <1>1, <1>3 DEF MonitorLoop, Tick, CheckReturns, CheckDone, WriteMark, GoesDown,
                    ComesBack, vars, serviceVars
<1> QED
  BY <1>2, <1>3 DEF Next

\* Without health checks, no request is refused while some backend was up
\* and in rotation from its first to its last moment, whatever other requests
\* do to the flags and the counter, if there are at most as many backends as
\* attempts (of more backends, MaxAttempts may fail one request) and unless
\* its last lookup is one of those in which the uint64 counter wraps.
THEOREM RefusedOnlyAroundTheWrap ==
    ASSUME ~HealthChecks, N <= MaxAttempts
    PROVE  HSpec => [][\A r \in Requests :
                         (answer[r] # "503" /\ answer'[r] = "503") =>
                            sound[r] = {} \/ (frame[r].op = "ret" /\ ~RingWhole(r))]_hvars
<1> DEFINE Past ==
      \A r \in Requests :
         (answer[r] # "503" /\ answer'[r] = "503") =>
            sound[r] = {} \/ (frame[r].op = "ret" /\ ~RingWhole(r))
<1>1. HInit => \A r \in Requests : SoundInv(r) /\ CountInv(r)
  <2> SUFFICES ASSUME HInit, NEW r \in Requests PROVE SoundInv(r) /\ CountInv(r)
    OBVIOUS
  <2>1. /\ frame[r].op = "idle" /\ sound[r] = {}
        /\ pc[r] = "idle" /\ attempts[r] = 0
    BY NoCallType DEF HInit, Init, Pool!Init, Service!ServiceInit, Callers
  <2>2. NoMonitor
    BY DEF HInit, Init, Monitor!MonitorInit, NoMonitor
  <2> QED
    BY <2>1, <2>2 DEF SoundInv, CountInv
<1>2. /\ CondemnedInvs /\ (\A r \in Requests : SoundInv(r) /\ CountInv(r))
      /\ [Next /\ Observe]_hvars
      => (\A r \in Requests : SoundInv(r) /\ CountInv(r))'
  <2> SUFFICES ASSUME CondemnedInvs, \A r \in Requests : SoundInv(r) /\ CountInv(r),
                      [Next /\ Observe]_hvars, NEW r \in Requests
               PROVE  SoundInv(r)' /\ CountInv(r)'
    OBVIOUS
  <2>1. CASE Next /\ Observe
    BY <2>1, SoundStep, CountStep DEF CondemnedInvs
  <2>2. CASE UNCHANGED hvars
    BY <2>2 DEF SoundInv, RingWhole, CountInv, NoMonitor, hvars, history, vars, poolVars,
                monitorVars, serviceVars
  <2> QED
    BY <2>1, <2>2
<1>3. /\ CondemnedInvs /\ (\A r \in Requests : SoundInv(r) /\ CountInv(r))
      /\ [Next /\ Observe]_hvars
      => [Past]_hvars
  <2> SUFFICES ASSUME CondemnedInvs, \A q \in Requests : SoundInv(q) /\ CountInv(q),
                      Next, NEW r \in Requests,
                      answer[r] # "503", answer'[r] = "503"
               PROVE  sound[r] = {} \/ (frame[r].op = "ret" /\ ~RingWhole(r))
    OBVIOUS
  <2>1. CASE frame[r].op = "ret" /\ frame[r].res = None
    BY <2>1 DEF SoundInv
  <2>2. CASE pc[r] = "mark" /\ attempts[r] = MaxAttempts /\ frame[r].op = "idle"
    <3>1. CondemnedInv(r) /\ SoundInv(r) /\ CountInv(r)
      BY DEF CondemnedInvs
    <3>2. condemned[r] = Backends
      BY <2>2, <3>1, CondemnedIsFinite, Constants DEF CondemnedInv, CountInv
    <3> QED
      BY <2>2, <3>1, <3>2 DEF CondemnedInv, SoundInv, Pool!InMark
  <2> QED
    BY <2>1, <2>2, WhoIsRefused DEF CondemnedInvs
<1> QED
  BY <1>1, <1>2, <1>3, CondemnedInvsHold, PTL DEF HSpec

\* Where the number of backends divides the range of the counter (one, two or
\* any other power of two) no request is refused past a sound backend at all.
THEOREM No503PastASoundBackendHolds ==
    ASSUME ~HealthChecks, N <= MaxAttempts, CounterMod % N = 0
    PROVE  HSpec => No503PastASoundBackend
<1> DEFINE Refused == \A r \in Requests :
                         (answer[r] # "503" /\ answer'[r] = "503") =>
                            sound[r] = {} \/ (frame[r].op = "ret" /\ ~RingWhole(r))
           Past == \A r \in Requests :
                      (answer[r] # "503" /\ answer'[r] = "503") => sound[r] = {}
<1>1. HSpec => [][Refused]_hvars
  BY RefusedOnlyAroundTheWrap
<1>2. [Refused]_hvars => [Past]_hvars
  BY DEF RingWhole
<1>3. HSpec => [][Past]_hvars
  BY <1>1, <1>2, PTL
<1> QED
  BY <1>3 DEF No503PastASoundBackend

-----------------------------------------------------------------------------
(* Requests against the monitor: nobody is passed over by a whole turn.    *)

\* The range of the counter is so many whole turns.
WholeTurns == Divides(N, CounterMod)

\* The n entries from ticket t on.
Reach(t, n) == {(t + j) % N : j \in 0 .. n - 1}

LEMMA ReachAll == ASSUME NEW t \in Nat PROVE Backends \subseteq Reach(t, N)
<1> SUFFICES ASSUME NEW b \in Backends PROVE b \in Reach(t, N)
  OBVIOUS
<1>1. \E i \in 0 .. N - 1 : (t + i) % N = b
  BY FullTurn, Constants, b \in 0 .. N - 1 DEF Backends
<1> QED
  BY <1>1 DEF Reach

LEMMA ReachNext ==
    ASSUME WholeTurns, NEW t \in 0 .. CounterMod - 1, NEW n \in Int
    PROVE  Reach(t, n + 1) \subseteq {t % N} \cup Reach((t + 1) % CounterMod, n)
<1> SUFFICES ASSUME NEW k \in 0 .. (n + 1) - 1, k # 0
             PROVE  (t + k) % N \in Reach((t + 1) % CounterMod, n)
  BY DEF Reach
<1>1. k \in Nat \ {0} /\ k - 1 \in 0 .. n - 1
  OBVIOUS
<1>2. (((t + 1) % CounterMod) + (k - 1)) % N = (t + k) % N
  <2>1. N \in Nat \ {0} /\ CounterMod \in Nat
    BY Constants
  <2> QED
    BY <1>1, <2>1, NextTicket, Zenon DEF WholeTurns
<1> QED
  BY <1>1, <1>2 DEF Reach

\* Where the tickets of r have not been since anybody else drew one: among the
\* N entries from the counter on, but one less for each attempt since.  What
\* others draw moves the counter, and puts all N before it again.  Failing on
\* the last of them, r has marked it, so that it is not sound any more.
TurnInv(r) ==
    /\ streak[r] \in Nat
    /\ pc[r] \in {"idle", "loop"} => streak[r] = 0
    /\ pc[r] = "pick" =>
          sound[r] \subseteq {frame[r].ticket % N} \cup Reach(current, N - streak[r])
    /\ frame[r].op = "ret" /\ frame[r].ticket % N \in sound[r] =>
          frame[r].res = frame[r].ticket % N
    /\ pc[r] \in {"forward", "copy", "mark"} =>
          sound[r] \subseteq {target[r]} \cup Reach(current, N - streak[r])
    /\ pc[r] = "mark" /\ ~Pool!InMark(r) => target[r] \notin sound[r]

\* What the streak of r does in a step.
LEMMA StreakMoves ==
    ASSUME Observe, NEW r \in Requests
    PROVE  /\ ~InFlight(r)' => streak'[r] = 0
           /\ \/ streak'[r] = 0
              \/ /\ \A q \in Requests \ {r} : ~BeginsAttempt(q)
                 /\ streak'[r] = IF BeginsAttempt(r) THEN streak[r] + 1 ELSE streak[r]
BY DEF Observe, Streak

\* The counter moves with the tickets only.
LEMMA OnlyTicketsCount ==
    ASSUME CoupledInv, [Next]_vars, NEW r \in Requests, ~AskPool(r),
           \A q \in Requests \ {r} : ~BeginsAttempt(q)
    PROVE  current' = current
<1>1. ASSUME NEW q \in Requests, Arrive(q) \/ Serve(q) \/ Leave(q) \/ Finish(q)
      PROVE  current' = current
  <2>1. CASE AskPool(q)
    <3>1. q # r /\ BeginsAttempt(q)
      BY <2>1, CoupledFacts
      DEF AskPool, BeginsAttempt, Service!NextAttempt, Service!Goto,
          Service!ServiceTypeOK
    <3> QED
      BY <3>1
  <2>2. CASE Look(q)
    <3>1. /\ FramesOK /\ q \in Callers
          /\ frame[q].by = "round-robin" /\ frame[q].op # "count"
      BY <2>2, CoupledFacts
      DEF RequestInv, Look, Pool!Scan, Pool!ScanRoundRobin, Pool!ScanRandom,
          Pool!ScanLeast, Pool!CountConnections
    <3> QED
      BY <2>2, <3>1, LookupSteps DEF Look
  <2>3. CASE ~AskPool(q) /\ ~Look(q)
    BY <1>1, <2>3
    DEF Arrive, Serve, Leave, Finish, Receive, ResponseBegins, ForwardFails,
        ForwardSucceeds, ForwardPanics, GiveUp, poolVars, Pool!Return,
        Pool!MarkBackendStatus
  <2> QED
    BY <2>1, <2>2, <2>3
<1>2. ASSUME NEW c \in Requests \cup Backends, WriteMark(c) PROVE current' = current
  BY <1>2, WriteMarkSteps DEF Callers
<1>3. CASE \/ MonitorLoop \/ Tick \/ UNCHANGED vars
           \/ \E b \in Backends : CheckReturns(b) \/ CheckDone(b)
           \/ \E b \in Backends : GoesDown(b) \/ ComesBack(b)
  BY <1>3 DEF MonitorLoop, Tick, CheckReturns, CheckDone, GoesDown, ComesBack, vars,
              poolVars, Pool!MarkBackendStatus
<1> QED
  BY <1>1, <1>2, <1>3 DEF Next

\* It is enough to look at steps in which nobody else draws a ticket: after
\* one of another request all N entries are before r again.
LEMMA TurnParts ==
    ASSUME CoupledInv, CoupledInv', [Next]_vars, Observe,
           NEW r \in Requests, TurnInv(r),
           pc'[r] = "loop" => streak[r] = 0 /\ ~BeginsAttempt(r),
           frame'[r].op = "ret" /\ frame'[r].ticket % N \in sound'[r] =>
              frame'[r].res = frame'[r].ticket % N,
           (pc[r] = "mark" /\ ~Pool!InMark(r) => target[r] \notin sound[r])',
           streak'[r] # 0 /\ pc'[r] = "pick" =>
              sound'[r] \subseteq
                 {frame'[r].ticket % N} \cup Reach(current', N - streak'[r]),
           streak'[r] # 0 /\ pc'[r] \in {"forward", "copy", "mark"} =>
              sound'[r] \subseteq {target'[r]} \cup Reach(current', N - streak'[r])
    PROVE  TurnInv(r)'
<1>1. streak'[r] \in Nat
  BY StreakMoves DEF TurnInv
<1>2. pc'[r] \in {"idle", "loop"} => streak'[r] = 0
  BY StreakMoves DEF InFlight
<1>3. ASSUME streak'[r] = 0 PROVE sound'[r] \subseteq Reach(current', N - streak'[r])
  <2>1. current' \in Nat /\ N - streak'[r] = N
    <3>1. current' \in 0 .. CounterMod - 1
      BY PoolType DEF CoupledInv, TypeOK, Pool!TypeOK
    <3> QED
      BY <1>3, <3>1, Constants
  <2>2. Backends \subseteq Reach(current', N)
    BY <2>1, ReachAll
  <2> QED
    BY <2>1, <2>2, SoundShrinks
<1> QED
  BY <1>1, <1>2, <1>3 DEF TurnInv, Pool!InMark, Reach

LEMMA TurnStep ==
    ASSUME WholeTurns, CoupledInv, [Next]_vars, Observe,
           NEW r \in Requests, SoundInv(r), TurnInv(r)
    PROVE  TurnInv(r)'
<1>0. /\ RequestInv(r) /\ r \in Callers /\ FramesOK /\ frame[r] \in Pool!Frames
      /\ streak[r] \in Nat /\ current \in 0 .. CounterMod - 1
      /\ pc[r] \in {"idle", "loop", "pick", "forward", "copy", "mark", "done"}
  BY CoupledFacts DEF FramesOK, Service!ServiceTypeOK, TurnInv
<1>1. pc[r] \notin {"idle", "done"} => sound'[r] \subseteq sound[r]
  BY SoundShrinks
<1>c. CoupledInv'
  BY CoupledStep
\* Without a ticket of r or of anybody else.
<1>s. ASSUME ~BeginsAttempt(r), ~AskPool(r), streak'[r] # 0
      PROVE  streak'[r] = streak[r] /\ current' = current
  BY <1>s, StreakMoves, OnlyTicketsCount
<1>3. CASE ~StepOf(r) \/ Leave(r)
  <2>1. /\ frame'[r] = frame[r] /\ pc'[r] = pc[r] /\ target'[r] = target[r]
    BY <1>3, OthersLeaveAlone DEF Leave, Service!Leave, poolVars
  <2>2. ~AskPool(r) /\ ~BeginsAttempt(r)
    BY <2>1, CoupledFacts
    DEF AskPool, Service!NextAttempt, Service!Goto, Service!ServiceTypeOK, BeginsAttempt
  <2> QED
    BY <1>0, <1>1, <1>c, <1>s, <2>1, <2>2, TurnParts
    DEF TurnInv, RequestInv, Pool!InMark
<1>4. CASE Arrive(r)
  <2>1. pc[r] = "idle" /\ pc'[r] = "loop" /\ frame' = frame
    BY <1>4, CoupledFacts
    DEF Arrive, Service!Arrive, Service!Goto, Service!ServiceTypeOK, poolVars
  <2>2. frame'[r].op # "ret" /\ ~BeginsAttempt(r)
    BY <1>0, <2>1 DEF RequestInv, BeginsAttempt
  <2> QED
    BY <1>c, <2>1, <2>2, TurnParts DEF TurnInv
<1>5. CASE AskPool(r)
  <2>1. pc[r] \in {"loop", "mark"} /\ pc'[r] = "pick" /\ BeginsAttempt(r)
    BY <1>5, CoupledFacts
    DEF AskPool, Service!NextAttempt, Service!Goto, Service!ServiceTypeOK, BeginsAttempt
  <2>2. /\ frame'[r].op = "scan" /\ frame'[r].ticket = current
        /\ current' = (current + 1) % CounterMod
    <3>1. PICK f : FrameBecomes(r, f) /\ f.op = "scan" /\ f.ticket = current
      BY <1>0, <1>5, CoupledFacts, LookupBegins DEF AskPool
    <3>2. current' = (current + 1) % CounterMod
      BY <1>0, <1>5, CoupledFacts, LookupBegins DEF AskPool
    <3> QED
      BY <1>0, <3>1, <3>2 DEF FrameBecomes, FramesOK
  <2>3. sound'[r] \subseteq Reach(current, N - streak[r])
    <3>1. CASE pc[r] = "loop"
      <4>1. sound'[r] \subseteq Backends /\ current \in Nat
        BY <1>0, SoundShrinks
      <4>2. N - streak[r] = N
        BY <3>1, Constants DEF TurnInv
      <4> QED
        BY <4>1, <4>2, ReachAll
    <3>2. CASE pc[r] = "mark"
      <4>1. ~Pool!InMark(r)
        BY <1>5 DEF AskPool, Pool!GetNextHealthyBackend, Pool!Idle, Pool!InMark
      <4> QED
        BY <1>1, <3>2, <4>1 DEF TurnInv
    <3> QED
      BY <2>1, <3>1, <3>2
  <2>4. ASSUME streak'[r] # 0
        PROVE  sound'[r] \subseteq {current % N} \cup Reach(current', N - streak'[r])
    <3>1. streak'[r] = streak[r] + 1
      BY <2>1, <2>4, StreakMoves
    <3>2. N - streak'[r] \in Int /\ (N - streak'[r]) + 1 = N - streak[r]
      BY <1>0, <3>1, Constants
    <3>3. Reach(current, (N - streak'[r]) + 1)
            \subseteq {current % N} \cup Reach((current + 1) % CounterMod, N - streak'[r])
      BY <1>0, <3>2, ReachNext
    <3> QED
      BY <2>2, <2>3, <3>2, <3>3
  <2> QED
    BY <1>c, <2>1, <2>2, <2>4, TurnParts
<1>6. CASE Look(r)
  <2> DEFINE i == frame[r].i
             b == Pool!RingIndex(r, i)
             t == frame[r].ticket
  <2>1. frame[r].by = "round-robin" /\ frame[r].op # "count"
    BY <1>0, <1>6 DEF RequestInv, Look, Pool!Scan, Pool!ScanRoundRobin,
                      Pool!ScanRandom, Pool!ScanLeast, Pool!CountConnections
  <2>2. /\ frame[r].op = "scan" /\ i \in Backends /\ alive' = alive
        /\ current' = current /\ pc[r] = "pick"
    BY <1>0, <1>6, <2>1, LookupSteps DEF Look, RequestInv
  <2>3. PICK f : /\ FrameBecomes(r, f) /\ f.ticket = t
                 /\ f.op = "ret" => \/ alive[b] /\ f.res = b
                                    \/ ~alive[b]
    BY <1>0, <1>6, <2>1, LookupSteps DEF Look
  <2>4. frame'[r] = f
    BY <1>0, <2>3 DEF FrameBecomes, FramesOK
  <2>5. t \in 0 .. CounterMod - 1 /\ i \in 0 .. N - 1 /\ RingWhole(r)
    BY <1>0, <2>2 DEF Pool!Frames, Backends, RingWhole, WholeTurns, Divides
  <2>6. sound'[r] \subseteq sound[r] /\ sound'[r] \subseteq {d \in Backends : alive[d]}
    BY <2>2, SoundShrinks
  <2>7. ASSUME f.op = "ret", t % N \in sound'[r] PROVE f.res = t % N
    <3>1. i = 0
      <4>1. i > 0 => 0 \in 0 .. i - 1 /\ t + 0 = t
        BY <2>5
      <4> QED
        BY <2>2, <2>5, <2>6, <2>7, <4>1 DEF SoundInv
    <3>2. b = t % N
      <4>1. b = (t + i) % N
        BY <2>5, RingIndexIs, Zenon DEF RingWhole
      <4>2. t + i = t
        BY <2>5, <3>1
      <4> HIDE DEF b, i, t
      <4> QED
        BY <4>1, <4>2
    <3>3. alive[b]
      BY <2>6, <2>7, <3>2
    <3> QED
      BY <2>3, <2>7, <3>2, <3>3
  <2>8. pc' = pc /\ ~BeginsAttempt(r)
    BY <1>6 DEF Look, serviceVars, BeginsAttempt
  <2>9. ASSUME streak'[r] # 0 PROVE streak'[r] = streak[r]
    BY <2>8, <2>9, StreakMoves
  <2>10. streak'[r] # 0 => sound'[r] \subseteq {t % N} \cup Reach(current', N - streak'[r])
    BY <2>2, <2>6, <2>9 DEF TurnInv
  <2>11. frame'[r].ticket = t /\ pc'[r] = "pick"
    BY <2>2, <2>3, <2>4, <2>8
  <2>12. frame'[r].op = "ret" /\ t % N \in sound'[r] => frame'[r].res = t % N
    BY <2>4, <2>7
  <2> HIDE DEF t, i, b
  <2> QED
    BY <1>c, <2>10, <2>11, <2>12, TurnParts
<1>7. CASE Receive(r)
  <2> DEFINE t == frame[r].ticket
  <2>1. frame[r].op = "ret" /\ pc[r] = "pick" /\ frame'[r] = Pool!NoCall
    BY <1>0, <1>7 DEF Receive, Pool!Return, RequestInv, FramesOK
  <2>2. \/ pc'[r] = "done"
        \/ pc'[r] = "forward" /\ target'[r] = frame[r].res
    BY <1>7, CoupledFacts
    DEF Receive, Service!Picked, Service!Goto, Service!Respond, Service!ServiceTypeOK
  <2>3. sound[r] \subseteq {t % N} \cup Reach(current, N - streak[r])
    BY <2>1 DEF TurnInv
  <2>4. t % N \in sound[r] => frame[r].res = t % N
    BY <2>1 DEF TurnInv
  <2>5. ~AskPool(r) /\ ~BeginsAttempt(r)
    BY <2>1 DEF AskPool, Pool!GetNextHealthyBackend, Pool!Idle, BeginsAttempt
  <2> HIDE DEF t
  <2>6. streak'[r] # 0 /\ pc'[r] = "forward" =>
           sound'[r] \subseteq {target'[r]} \cup Reach(current', N - streak'[r])
    BY <1>1, <1>s, <2>1, <2>2, <2>3, <2>4, <2>5
  <2> QED
    BY <1>c, <2>1, <2>2, <2>6, NoCallType, TurnParts
<1>8. CASE ResponseBegins(r)
  <2>1. /\ pc[r] = "forward" /\ pc'[r] = "copy" /\ target' = target /\ frame' = frame
    BY <1>8, CoupledFacts
    DEF ResponseBegins, Service!ResponseBegins, Service!Goto, Service!ServiceTypeOK,
        poolVars
  <2>2. ~AskPool(r) /\ ~BeginsAttempt(r) /\ frame[r].op # "ret"
    BY <1>0, <2>1
    DEF AskPool, Service!NextAttempt, Service!Goto, BeginsAttempt, RequestInv
  <2>3. streak'[r] # 0 =>
           sound'[r] \subseteq {target'[r]} \cup Reach(current', N - streak'[r])
    BY <1>1, <1>s, <2>1, <2>2 DEF TurnInv
  <2> QED
    BY <1>c, <2>1, <2>2, <2>3, TurnParts
<1>9. CASE ForwardFails(r)
  <2>1. /\ pc[r] = "forward" /\ pc'[r] = "mark" /\ target' = target
        /\ target[r] \in Backends
    BY <1>9, CoupledFacts
    DEF ForwardFails, Service!ForwardFails, Service!Goto, Service!ServiceTypeOK
  <2>2. ~AskPool(r) /\ ~BeginsAttempt(r)
    BY <2>1 DEF AskPool, Service!NextAttempt, Service!Goto, BeginsAttempt
  <2>3. target[r] \in Backends /\ r \in Callers /\ FramesOK
    BY <1>0, <2>1
  <2>4. PICK f : FrameBecomes(r, f) /\ f.op = "mark"
    BY <1>9, <2>3, ForwardFailsMarks
  <2>5. frame'[r].op = "mark"
    BY <1>0, <2>4 DEF FrameBecomes, FramesOK
  <2>6. streak'[r] # 0 =>
           sound'[r] \subseteq {target'[r]} \cup Reach(current', N - streak'[r])
    BY <1>1, <1>s, <2>1, <2>2 DEF TurnInv
  <2> QED
    BY <1>c, <2>1, <2>5, <2>6, TurnParts DEF Pool!InMark
<1>10. CASE WriteMark(r)
  <2>1. PICK b \in Backends :
          /\ pc[r] = "mark" /\ target[r] = b /\ ~frame[r].val
          /\ Pool!InMark(r)
          /\ \/ alive' = alive /\ ~alive[b] /\ FrameBecomes(r, Pool!NoCall)
             \/ alive' = [alive EXCEPT ![b] = FALSE] /\ FrameBecomes(r, Pool!NoCall)
             \/ \E f : FrameBecomes(r, f) /\ f.op = "store"
    <3>1. r \notin Backends
      BY Constants
    <3>2. frame[r].val \in BOOLEAN /\ (~frame[r].val => frame[r].val = FALSE)
      BY <1>0 DEF Pool!Frames
    <3> QED
      BY <1>0, <1>10, <3>1, <3>2, WriteMarkSteps
  <2>2. pc' = pc /\ target' = target
    BY <1>10 DEF WriteMark, serviceVars
  <2>3. ~AskPool(r) /\ ~BeginsAttempt(r)
    BY <2>1, <2>2
    DEF AskPool, Pool!GetNextHealthyBackend, Pool!Idle, BeginsAttempt, Pool!InMark
  <2>4. streak'[r] # 0 =>
           sound'[r] \subseteq {target'[r]} \cup Reach(current', N - streak'[r])
    BY <1>1, <1>s, <2>1, <2>2, <2>3 DEF TurnInv
  <2>5. CASE FrameBecomes(r, Pool!NoCall) /\ ~alive'[target[r]]
    <3>1. frame'[r].op = "idle"
      BY <1>0, <2>5, NoCallType DEF FrameBecomes, FramesOK
    <3>2. target[r] \notin sound'[r]
      BY <2>5, SoundShrinks
    <3> QED
      BY <1>c, <2>1, <2>2, <2>4, <3>1, <3>2, TurnParts
  <2>6. CASE \E f : FrameBecomes(r, f) /\ f.op = "store"
    <3>1. frame'[r].op = "store"
      BY <1>0, <2>6 DEF FrameBecomes, FramesOK
    <3> QED
      BY <1>c, <2>1, <2>2, <2>4, <3>1, TurnParts DEF Pool!InMark
  <2>7. alive' = [alive EXCEPT ![target[r]] = FALSE] => ~alive'[target[r]]
    BY <2>1, CoupledFacts
  <2> QED
    BY <2>1, <2>5, <2>6, <2>7
<1>11. CASE ForwardSucceeds(r) \/ ForwardPanics(r) \/ GiveUp(r) \/ Finish(r)
  <2>1. pc[r] # "pick" /\ pc'[r] \in {"done", "idle"} /\ frame' = frame
    BY <1>11, CoupledFacts
    DEF ForwardSucceeds, ForwardPanics, GiveUp, Finish, Service!ForwardSucceeds,
        Service!ForwardPanics, Service!GiveUp, Service!Finish, Service!Goto,
        Service!Respond, Service!ServiceTypeOK, poolVars
  <2>2. frame'[r].op # "ret"
    BY <1>0, <2>1 DEF RequestInv
  <2> QED
    BY <1>c, <2>1, <2>2, TurnParts
<1> QED
  BY <1>3, <1>4, <1>5, <1>6, <1>7, <1>8, <1>9, <1>10, <1>11 DEF StepOf, Serve

\* All of it together, for every request.
TurnInvs == CondemnedInvs /\ \A r \in Requests : SoundInv(r) /\ TurnInv(r)

LEMMA TurnInvsHold == ASSUME CounterMod % N = 0 PROVE HSpec => []TurnInvs
<1> DEFINE I == \A r \in Requests : SoundInv(r) /\ TurnInv(r)
<1>1. HInit => I
  <2> SUFFICES ASSUME HInit, NEW r \in Requests PROVE SoundInv(r) /\ TurnInv(r)
    OBVIOUS
  <2>1. /\ frame[r].op = "idle" /\ sound[r] = {}
        /\ pc[r] = "idle" /\ streak[r] = 0
    BY NoCallType DEF HInit, Init, Pool!Init, Service!ServiceInit, Callers
  <2> QED
    BY <2>1 DEF SoundInv, TurnInv
<1>2. CondemnedInvs /\ I /\ [Next /\ Observe]_hvars => I'
  <2> SUFFICES ASSUME CondemnedInvs, I, [Next /\ Observe]_hvars,
                      NEW r \in Requests
               PROVE  SoundInv(r)' /\ TurnInv(r)'
    OBVIOUS
  <2>1. CASE Next /\ Observe
    BY <2>1, SoundStep, TurnStep DEF CondemnedInvs, WholeTurns, Divides
  <2>2. CASE UNCHANGED hvars
    BY <2>2 DEF SoundInv, RingWhole, TurnInv, Reach, Pool!InMark, hvars, history, vars,
                poolVars, serviceVars
  <2> QED
    BY <2>1, <2>2
<1>3. CondemnedInvs /\ I => TurnInvs
  BY DEF TurnInvs
<1> QED
  BY <1>1, <1>2, <1>3, CondemnedInvsHold, PTL DEF HSpec

\* Among any number of requests and whatever the checks do to the flags, a
\* request is refused past a sound backend only if its last attempt failed as
\* well and others drew tickets among its last N: its tickets since then are
\* consecutive, and of N of those one begins at the sound backend.
THEOREM RefusedOnlyIfOvertakenHolds ==
    ASSUME CounterMod % N = 0
    PROVE  HSpec => RefusedOnlyIfOvertaken
<1> DEFINE Overtaken ==
      \A r \in Requests :
         (answer[r] # "503" /\ answer'[r] = "503") =>
            sound[r] = {} \/ (pc[r] = "mark" /\ streak[r] < N)
<1>1. TurnInvs /\ [Next /\ Observe]_hvars => [Overtaken]_hvars
  <2> SUFFICES ASSUME TurnInvs, Next, NEW r \in Requests,
                      answer[r] # "503", answer'[r] = "503"
               PROVE  sound[r] = {} \/ (pc[r] = "mark" /\ streak[r] < N)
    OBVIOUS
  <2>1. SoundInv(r) /\ TurnInv(r) /\ CoupledInv
    BY DEF TurnInvs, CondemnedInvs
  <2>2. CASE frame[r].op = "ret" /\ frame[r].res = None
    <3>1. RingWhole(r)
      BY Zenon DEF RingWhole
    <3> QED
      BY <2>1, <2>2, <3>1 DEF SoundInv
  <2>3. CASE pc[r] = "mark" /\ frame[r].op = "idle" /\ streak[r] >= N
    <3>1. Reach(current, N - streak[r]) = {}
      <4>1. 0 .. (N - streak[r]) - 1 = {}
        BY <2>1, <2>3, Constants DEF TurnInv
      <4> QED
        BY <4>1 DEF Reach
    <3> QED
      BY <2>1, <2>3, <3>1 DEF TurnInv, Pool!InMark
  <2>4. streak[r] \in Nat /\ N \in Nat
    BY <2>1, Constants DEF TurnInv
  <2> QED
    BY <2>1, <2>2, <2>3, <2>4, WhoIsRefused
<1>2. HSpec => [][Overtaken]_hvars
  BY <1>1, TurnInvsHold, PTL DEF HSpec
<1> QED
  BY <1>2 DEF RefusedOnlyIfOvertaken

-----------------------------------------------------------------------------
(* One request at a time against the monitor: no 503 past a sound backend. *)

\* At most one request is in progress at any time: nobody else takes tickets.
Alone == \A p, q \in Requests : p = q

\* Then every attempt lengthens its streak.
AloneInv(r) ==
    /\ pc[r] \in {"idle", "loop"} => attempts[r] = 0 /\ streak[r] = 0
    /\ InFlight(r) => streak[r] = attempts[r]

LEMMA AloneStep ==
    ASSUME Alone, CoupledInv, [Next]_vars, Observe,
           NEW r \in Requests, AloneInv(r)
    PROVE  AloneInv(r)'
<1>0. attempts[r] \in Nat /\ Service!ServiceTypeOK
  BY CoupledFacts DEF Service!ServiceTypeOK
<1>1. streak'[r] = IF ~InFlight(r)' THEN 0
                   ELSE IF BeginsAttempt(r) THEN streak[r] + 1 ELSE streak[r]
  BY DEF Alone, Observe, Streak
<1>2. CASE pc'[r] = pc[r] /\ attempts'[r] = attempts[r]
  BY <1>1, <1>2 DEF AloneInv, InFlight, BeginsAttempt
<1>3. CASE ~StepOf(r) \/ Leave(r) \/ Look(r) \/ WriteMark(r)
  BY <1>2, <1>3, OthersLeaveAlone
  DEF Leave, Look, WriteMark, Service!Leave, serviceVars
<1>4. CASE AskPool(r)
  <2>1. /\ pc[r] \in {"loop", "mark"} /\ pc'[r] = "pick"
        /\ attempts'[r] = attempts[r] + 1
    BY <1>0, <1>4
    DEF AskPool, Service!NextAttempt, Service!Goto, Service!ServiceTypeOK
  <2> QED
    BY <1>0, <1>1, <2>1 DEF AloneInv, InFlight, BeginsAttempt
<1>5. CASE Arrive(r)
  <2>1. pc[r] = "idle" /\ pc'[r] = "loop" /\ attempts' = attempts
    BY <1>0, <1>5 DEF Arrive, Service!Arrive, Service!Goto, Service!ServiceTypeOK
  <2> QED
    BY <1>1, <2>1 DEF AloneInv, InFlight, BeginsAttempt
<1>6. CASE Receive(r) \/ ResponseBegins(r) \/ ForwardFails(r)
  <2>1. /\ pc[r] \in {"pick", "forward"} /\ attempts' = attempts
        /\ pc'[r] \in {"forward", "copy", "mark", "done"}
    BY <1>0, <1>6
    DEF Receive, ResponseBegins, ForwardFails, Service!Picked, Service!Respond,
        Service!ResponseBegins, Service!ForwardFails, Service!Goto,
        Service!ServiceTypeOK
  <2> QED
    BY <1>1, <2>1 DEF AloneInv, InFlight, BeginsAttempt
<1>7. CASE ForwardSucceeds(r) \/ ForwardPanics(r) \/ GiveUp(r)
  <2>1. pc'[r] = "done"
    BY <1>0, <1>7
    DEF ForwardSucceeds, ForwardPanics, GiveUp, Service!ForwardSucceeds,
        Service!ForwardPanics, Service!GiveUp, Service!Goto, Service!Respond,
        Service!ServiceTypeOK
  <2> QED
    BY <2>1 DEF AloneInv, InFlight
<1>8. CASE Finish(r)
  <2>1. pc'[r] = "idle" /\ attempts'[r] = 0
    BY <1>0, <1>8 DEF Finish, Service!Finish, Service!Goto, Service!ServiceTypeOK
  <2> QED
    BY <1>1, <2>1 DEF AloneInv, InFlight
<1> QED
  BY <1>3, <1>4, <1>5, <1>6, <1>7, <1>8 DEF StepOf, Serve

\* A request that has the balancer for itself is not refused past a sound
\* backend, whatever the checks do to the flags of the others meanwhile:
\* nobody overtakes it.
THEOREM No503ForALoneRequest ==
    ASSUME Alone, N <= MaxAttempts, CounterMod % N = 0
    PROVE  HSpec => No503PastASoundBackend
<1> DEFINE Past == \A r \in Requests :
                      (answer[r] # "503" /\ answer'[r] = "503") => sound[r] = {}
           Overtaken ==
              \A r \in Requests :
                 (answer[r] # "503" /\ answer'[r] = "503") =>
                    sound[r] = {} \/ (pc[r] = "mark" /\ streak[r] < N)
           Lone == \A r \in Requests : AloneInv(r)
<1>1. HInit => Lone
  BY DEF HInit, Init, Service!ServiceInit, AloneInv, InFlight
<1>2. CondemnedInvs /\ Lone /\ [Next /\ Observe]_hvars => Lone'
  <2> SUFFICES ASSUME CondemnedInvs, Lone, [Next /\ Observe]_hvars, NEW r \in Requests
               PROVE  AloneInv(r)'
    OBVIOUS
  <2>1. CASE Next /\ Observe
    BY <2>1, AloneStep DEF CondemnedInvs
  <2>2. CASE UNCHANGED hvars
    BY <2>2 DEF AloneInv, InFlight, hvars, history, vars, serviceVars
  <2> QED
    BY <2>1, <2>2
<1>3. CondemnedInvs /\ Lone /\ [Next /\ Observe]_hvars /\ [Overtaken]_hvars => [Past]_hvars
  <2> SUFFICES ASSUME CondemnedInvs, Lone, Next, Overtaken, NEW r \in Requests,
                      answer[r] # "503", answer'[r] = "503", sound[r] # {}
               PROVE  FALSE
    OBVIOUS
  <2>1. pc[r] = "mark" /\ streak[r] < N
    OBVIOUS
  <2>2. frame[r].op = "ret" \/ attempts[r] = MaxAttempts
    BY WhoIsRefused DEF CondemnedInvs
  <2>3. RequestInv(r)
    BY CoupledFacts DEF CondemnedInvs
  <2>4. attempts[r] = MaxAttempts /\ streak[r] = attempts[r]
    BY <2>1, <2>2, <2>3 DEF RequestInv, AloneInv, InFlight
  <2> QED
    BY <2>1, <2>4, Constants
<1>4. HSpec => [][Overtaken]_hvars
  BY RefusedOnlyIfOvertakenHolds DEF RefusedOnlyIfOvertaken
<1>5. HSpec => [][Past]_hvars
  BY <1>1, <1>2, <1>3, <1>4, CondemnedInvsHold, PTL DEF HSpec
<1> QED
  BY <1>5 DEF No503PastASoundBackend
=============================================================================
