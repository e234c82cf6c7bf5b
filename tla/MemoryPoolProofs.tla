-------------------------- MODULE MemoryPoolProofs --------------------------
(***************************************************************************)
(* Theorems about the memory pool for any number of callers and entries,   *)
(* any assignment of URLs and any range of the counter.                    *)
(***************************************************************************)
EXTENDS MemoryPoolHistory, TLAPS

-----------------------------------------------------------------------------
(* Type correctness.                                                       *)

\* What TypeOK says of the frames.
FramesOK ==
    /\ frame \in [Callers -> Frames]
    /\ \A c \in Callers : HoldsReadLock(c) => frame[c].i \in Backends

LEMMA NoCallType == NoCall \in Frames
BY NAssumption, CounterAssumption, BoundAssumption
DEF NoCall, Frames, Strategies

\* A step that gives caller c the frame f, a frame of the right type that
\* points at an entry whenever it holds the lock, keeps all frames well-typed.
LEMMA FrameUpdate ==
    ASSUME FramesOK, NEW c \in Callers, NEW f \in Frames,
           f.op \in {"scan", "count", "mark", "store"} => f.i \in Backends,
           frame' = [frame EXCEPT ![c] = f]
    PROVE  FramesOK'
<1>1. frame' \in [Callers -> Frames]
  BY DEF FramesOK
<1>2. ASSUME NEW d \in Callers, HoldsReadLock(d)'
      PROVE  frame'[d].i \in Backends
  <2>1. CASE d = c
    <3>1. frame'[d] = f
      BY <2>1 DEF FramesOK
    <3> QED
      BY <3>1, <1>2 DEF HoldsReadLock, InLookup, InMark
  <2>2. CASE d # c
    <3>1. frame'[d] = frame[d]
      BY <2>2 DEF FramesOK
    <3> QED
      BY <3>1, <1>2 DEF FramesOK, HoldsReadLock, InLookup, InMark
  <2> QED
    BY <2>1, <2>2
<1> QED
  BY <1>1, <1>2 DEF FramesOK

LEMMA AnswerType ==
    ASSUME FramesOK, NEW c \in Callers, NEW i \in 0 .. N,
           NEW r \in Backends \cup {None}, Answer(c, i, r)
    PROVE  FramesOK'
<1> DEFINE f == [NoCall EXCEPT !.op = "ret", !.by = frame[c].by,
                               !.ticket = frame[c].ticket, !.i = i, !.res = r]
<1>1. frame[c] \in Frames
  BY DEF FramesOK
<1>2. f \in Frames /\ f.op = "ret"
  BY <1>1, NoCallType DEF Frames, NoCall
<1>3. frame' = [frame EXCEPT ![c] = f]
  BY DEF Answer
<1> HIDE DEF f
<1> QED
  BY <1>2, <1>3, FrameUpdate

LEMMA NextEntryType ==
    ASSUME FramesOK, NEW c \in Callers, frame[c].i \in Backends,
           NEW kept \in SUBSET Backends, NEW least \in 0 .. MaxConnections,
           NextEntry(c, kept, least)
    PROVE  FramesOK'
<1>1. frame[c] \in Frames
  BY DEF FramesOK
<1>2. CASE \E r \in kept \cup {None} : Answer(c, N, r)
  <2>1. PICK r \in kept \cup {None} : Answer(c, N, r)
    BY <1>2
  <2> QED
    BY <2>1, NAssumption, AnswerType
<1>3. CASE /\ frame[c].i + 1 < N
           /\ frame' = [frame EXCEPT ![c] = [@ EXCEPT !.op = "scan",
                          !.i = frame[c].i + 1, !.kept = kept, !.least = least]]
  <2> DEFINE f == [frame[c] EXCEPT !.op = "scan", !.i = frame[c].i + 1,
                                   !.kept = kept, !.least = least]
  <2>1. frame[c].i + 1 \in Backends /\ frame[c].i + 1 \in 0 .. N
    BY <1>3, NAssumption DEF Backends
  <2>2. f \in Frames /\ f.i = frame[c].i + 1
    BY <1>1, <2>1 DEF Frames
  <2>3. frame' = [frame EXCEPT ![c] = f]
    BY <1>3
  <2> HIDE DEF f
  <2> QED
    BY <2>1, <2>2, <2>3, FrameUpdate
<1> QED
  BY <1>2, <1>3 DEF NextEntry

LEMMA MarkFromType ==
    ASSUME FramesOK, NEW c \in Callers, NEW u \in Urls \cup {None},
           NEW v \in BOOLEAN, NEW i \in 0 .. N, MarkFrom(c, u, v, i)
    PROVE  FramesOK'
<1>1. PICK j \in i .. N :
        frame' = [frame EXCEPT ![c] =
                    IF j = N THEN NoCall
                    ELSE [NoCall EXCEPT !.op = "mark", !.i = j,
                                        !.url = u, !.val = v]]
  BY DEF MarkFrom
<1> DEFINE f == [NoCall EXCEPT !.op = "mark", !.i = j, !.url = u, !.val = v]
<1>2. CASE j = N
  <2>1. NoCall.op = "idle"
    BY DEF NoCall
  <2> QED
    BY <1>1, <1>2, <2>1, NoCallType, FrameUpdate
<1>3. CASE j # N
  <2>1. j \in Backends /\ j \in 0 .. N
    BY <1>3, NAssumption DEF Backends
  <2>2. f \in Frames /\ f.i = j
    BY <2>1, NoCallType DEF Frames, NoCall
  <2>3. frame' = [frame EXCEPT ![c] = f]
    BY <1>1, <1>3
  <2> HIDE DEF f
  <2> QED
    BY <2>1, <2>2, <2>3, FrameUpdate
<1> QED
  BY <1>2, <1>3

LEMMA InitTypeOK == Init => TypeOK
BY NAssumption, CounterAssumption, BoundAssumption, NoCallType
DEF Init, TypeOK, Strategies, HoldsReadLock, InLookup, InMark, NoCall

\* One step per action; each leaves all but the variables it is about alone.
LEMMA NextTypeOK == TypeOK /\ [Next]_vars => TypeOK'
<1> SUFFICES ASSUME TypeOK, [Next]_vars PROVE TypeOK'
  OBVIOUS
<1> USE NAssumption, CounterAssumption, BoundAssumption, UrlAssumption
<1>1. FramesOK
  BY DEF TypeOK, FramesOK
<1>3. ASSUME NEW c \in Callers PROVE frame[c] \in Frames
  BY <1>1 DEF FramesOK
<1>4. ASSUME NEW c \in Callers, GetNextHealthyBackend(c) PROVE FramesOK'
  <2> DEFINE t == IF strategy = "round-robin" THEN current ELSE 0
             f == [NoCall EXCEPT !.op = "scan", !.by = strategy, !.ticket = t]
  <2>1. t \in 0 .. CounterMod - 1
    BY DEF TypeOK
  <2>2. f \in Frames /\ f.i = 0
    BY <2>1, NoCallType DEF Frames, NoCall, TypeOK
  <2>3. 0 \in Backends
    BY DEF Backends
  <2>4. frame' = [frame EXCEPT ![c] = f]
    BY <1>4 DEF GetNextHealthyBackend
  <2> HIDE DEF f
  <2> QED
    BY <1>1, <2>2, <2>3, <2>4, FrameUpdate
<1>5. ASSUME NEW c \in Callers, Scan(c) PROVE FramesOK'
  <2>1. /\ frame[c].i \in Backends /\ frame[c].i \in 0 .. N /\ N \in 0 .. N
        /\ frame[c].kept \in SUBSET Backends
        /\ frame[c].least \in 0 .. MaxConnections
    <3>1. HoldsReadLock(c)
      BY <1>5 DEF Scan, ScanRoundRobin, ScanRandom, ScanLeast, CountConnections,
                  HoldsReadLock, InLookup
    <3> QED
      BY <1>1, <1>3, <3>1 DEF FramesOK, Frames
  <2>2. CASE ScanRoundRobin(c)
    <3> DEFINE i == frame[c].i
    <3>1. RingIndex(c, i) \in Backends
      <4>1. frame[c].ticket + i \in Nat
        BY <1>3, <2>1 DEF Frames
      <4>2. (frame[c].ticket + i) % CounterMod \in Nat
        BY <4>1
      <4> QED
        BY <4>2 DEF RingIndex, Backends
    <3>2. CASE Answer(c, i, RingIndex(c, i)) \/ Answer(c, N, None)
      BY <1>1, <2>1, <3>1, <3>2, AnswerType
    <3>3. CASE i + 1 < N /\ frame' = [frame EXCEPT ![c].i = i + 1]
      <4> DEFINE f == [frame[c] EXCEPT !.i = i + 1]
      <4>1. i + 1 \in Backends /\ i + 1 \in 0 .. N
        BY <2>1, <3>3 DEF Backends
      <4>2. f \in Frames /\ f.i = i + 1
        BY <1>3, <4>1 DEF Frames
      <4>3. frame' = [frame EXCEPT ![c] = f]
        BY <3>3
      <4> HIDE DEF f
      <4> QED
        BY <1>1, <4>1, <4>2, <4>3, FrameUpdate
    <3> QED
      BY <2>2, <3>2, <3>3 DEF ScanRoundRobin
  <2>3. CASE ScanRandom(c)
    <3> DEFINE kept == IF alive[frame[c].i] THEN frame[c].kept \cup {frame[c].i}
                                            ELSE frame[c].kept
    <3>1. kept \in SUBSET Backends /\ 0 \in 0 .. MaxConnections
      BY <2>1
    <3>2. NextEntry(c, kept, 0)
      BY <2>3 DEF ScanRandom
    <3> HIDE DEF kept
    <3> QED
      BY <1>1, <2>1, <3>1, <3>2, NextEntryType
  <2>4. CASE ScanLeast(c)
    <3>1. CASE NextEntry(c, frame[c].kept, frame[c].least)
      BY <1>1, <2>1, <3>1, NextEntryType
    <3>2. CASE frame' = [frame EXCEPT ![c].op = "count"]
      <4> DEFINE f == [frame[c] EXCEPT !.op = "count"]
      <4>1. f \in Frames /\ f.i = frame[c].i
        BY <1>3 DEF Frames
      <4>2. frame' = [frame EXCEPT ![c] = f]
        BY <3>2
      <4> HIDE DEF f
      <4> QED
        BY <1>1, <2>1, <4>1, <4>2, FrameUpdate
    <3> QED
      BY <2>4, <3>1, <3>2 DEF ScanLeast
  <2>5. CASE CountConnections(c)
    <3>1. /\ connections[UrlOf[frame[c].i]] \in 0 .. MaxConnections
          /\ {frame[c].i} \in SUBSET Backends
      BY <2>1 DEF TypeOK
    <3> QED
      BY <1>1, <2>1, <2>5, <3>1, NextEntryType DEF CountConnections
  <2> QED
    BY <1>5, <2>2, <2>3, <2>4, <2>5 DEF Scan
<1>6. ASSUME NEW c \in Callers, Return(c) PROVE FramesOK'
  BY <1>1, <1>6, NoCallType, FrameUpdate, NoCall.op = "idle" DEF Return, NoCall
<1>7. ASSUME NEW c \in Callers, NEW u \in Urls, NEW v \in BOOLEAN,
             MarkBackendStatus(c, u, v)
      PROVE  FramesOK'
  BY <1>1, <1>7, 0 \in 0 .. N, MarkFromType DEF MarkBackendStatus
<1>8. ASSUME NEW c \in Callers, Mark(c)
      PROVE  FramesOK' /\ alive' \in [Backends -> BOOLEAN]
  <2>1. /\ frame[c].i \in Backends /\ frame[c].i + 1 \in 0 .. N
        /\ frame[c].val \in BOOLEAN /\ frame[c].url \in Urls \cup {None}
    <3>1. HoldsReadLock(c)
      BY <1>8 DEF Mark, MarkLoad, MarkStore, HoldsReadLock, InMark
    <3> QED
      BY <1>1, <1>3, <3>1 DEF FramesOK, Frames, Backends
  <2>2. CASE MarkLoad(c)
    <3>1. alive' = alive
      BY <2>2 DEF MarkLoad
    <3>2. CASE MarkFrom(c, frame[c].url, frame[c].val, frame[c].i + 1)
      BY <1>1, <2>1, <3>1, <3>2, MarkFromType DEF TypeOK
    <3>3. CASE frame' = [frame EXCEPT ![c].op = "store"]
      <4> DEFINE f == [frame[c] EXCEPT !.op = "store"]
      <4>1. f \in Frames /\ f.i = frame[c].i
        BY <1>3 DEF Frames
      <4>2. frame' = [frame EXCEPT ![c] = f]
        BY <3>3
      <4> HIDE DEF f
      <4>3. FramesOK'
        BY <1>1, <2>1, <4>1, <4>2, FrameUpdate
      <4> QED
        BY <3>1, <4>3 DEF TypeOK
    <3> QED
      BY <2>2, <3>2, <3>3 DEF MarkLoad
  <2>3. CASE MarkStore(c)
    <3>1. FramesOK'
      BY <1>1, <2>1, <2>3, MarkFromType DEF MarkStore
    <3>2. alive' \in [Backends -> BOOLEAN]
      BY <2>1, <2>3 DEF MarkStore, TypeOK
    <3> QED
      BY <3>1, <3>2
  <2> QED
    BY <1>8, <2>2, <2>3 DEF Mark
<1>9. ASSUME NEW b \in Backends, IncrementConnections(b) \/ DecrementConnections(b)
      PROVE  connections' \in [Urls -> 0 .. MaxConnections]
  <2>1. UrlOf[b] \in Urls /\ connections[UrlOf[b]] \in 0 .. MaxConnections
    BY DEF TypeOK
  <2> QED
    BY <1>9, <2>1 DEF IncrementConnections, DecrementConnections, TypeOK
<1>10. ASSUME NEW c \in Callers, Step(c) PROVE TypeOK'
  <2>1. /\ strategy' = strategy /\ connections' = connections
        /\ current' \in 0 .. CounterMod - 1
    BY <1>10 DEF Step, GetNextHealthyBackend, Scan, ScanRoundRobin, ScanRandom,
                 ScanLeast, CountConnections, Return, MarkBackendStatus, Mark,
                 MarkLoad, MarkStore, TypeOK
  <2>2. Mark(c) \/ alive' = alive
    BY <1>10 DEF Step, GetNextHealthyBackend, Scan, ScanRoundRobin, ScanRandom,
                 ScanLeast, CountConnections, Return, MarkBackendStatus
  <2>3. FramesOK' /\ alive' \in [Backends -> BOOLEAN]
    BY <1>10, <2>2, <1>4, <1>5, <1>6, <1>7, <1>8 DEF Step, TypeOK
  <2> QED
    BY <2>1, <2>3 DEF TypeOK, FramesOK
<1>11. ASSUME NEW s \in Strategies, SetStrategy(s) PROVE TypeOK'
  BY <1>11 DEF SetStrategy, TypeOK, HoldsReadLock, InLookup, InMark
<1>12. ASSUME NEW b \in Backends, IncrementConnections(b) \/ DecrementConnections(b)
       PROVE  TypeOK'
  BY <1>9, <1>12
  DEF IncrementConnections, DecrementConnections, TypeOK, HoldsReadLock, InLookup, InMark
<1>13. CASE UNCHANGED vars
  BY <1>13 DEF vars, TypeOK, HoldsReadLock, InLookup, InMark
<1> QED
  BY <1>10, <1>11, <1>12, <1>13 DEF Next

\* The pool never leaves its types: the counter stays in the range of its
\* word, no connection count goes negative, and a goroutine inside a loop
\* always points at an entry of the table (memory_pool.go, lines 157, 183,
\* 240, 109).
THEOREM TypeCorrect == Spec => []TypeOK
<1>1. Init => TypeOK
  BY InitTypeOK
<1>2. TypeOK /\ [Next]_vars => TypeOK'
  BY NextTypeOK
<1> QED
  BY <1>1, <1>2, PTL DEF Spec

-----------------------------------------------------------------------------
(* The marks implement the abstract board: initial states and steps.  What *)
(* BoardSpec says of fairness is left to TLC.                              *)

\* A mark in progress is at an entry of its URL; nobody else has a verdict.
MarksInv ==
    \A c \in Callers :
       /\ InMark(c) => frame[c].i \in Matching(frame[c].url) /\ frame[c].url \in Urls
       /\ ~InMark(c) => frame[c].val = FALSE

\* The board as frame f shows it.
TodoOf(f) == IF f.op \in {"mark", "store"}
             THEN {j \in Matching(f.url) : j >= f.i} ELSE {}

ValOf(f) == f.val

LEMMA BoardIs == /\ todo = [c \in Callers |-> TodoOf(frame[c])]
                 /\ val = [c \in Callers |-> ValOf(frame[c])]
BY DEF todo, TodoOf, InMark, val, ValOf

\* What a new frame of c shows of c, and that it shows nothing else.
LEMMA BoardMoves ==
    ASSUME FramesOK, NEW c \in Callers, NEW f, frame' = [frame EXCEPT ![c] = f]
    PROVE  /\ todo' = [todo EXCEPT ![c] = TodoOf(f)]
           /\ val' = [val EXCEPT ![c] = ValOf(f)]
           /\ todo[c] = TodoOf(frame[c]) /\ val[c] = ValOf(frame[c])
<1>1. ASSUME NEW d \in Callers PROVE frame'[d] = IF d = c THEN f ELSE frame[d]
  BY DEF FramesOK
<1>2. /\ todo' = [d \in Callers |-> TodoOf(frame'[d])]
      /\ val' = [d \in Callers |-> ValOf(frame'[d])]
  BY DEF todo, TodoOf, InMark, val, ValOf
<1>3. todo' = [todo EXCEPT ![c] = TodoOf(f)] /\ todo[c] = TodoOf(frame[c])
  BY <1>1, <1>2, BoardIs
<1>4. val' = [val EXCEPT ![c] = ValOf(f)] /\ val[c] = ValOf(frame[c])
  BY <1>1, <1>2, BoardIs
<1> QED
  BY <1>3, <1>4

\* A new frame of c that shows the same of c shows the same board.
LEMMA SameBoard ==
    ASSUME FramesOK, NEW c \in Callers, NEW f, frame' = [frame EXCEPT ![c] = f],
           TodoOf(f) = TodoOf(frame[c]), ValOf(f) = ValOf(frame[c])
    PROVE  todo' = todo /\ val' = val
<1>1. /\ todo' = [todo EXCEPT ![c] = TodoOf(f)]
      /\ val' = [val EXCEPT ![c] = ValOf(f)]
      /\ todo[c] = TodoOf(frame[c]) /\ val[c] = ValOf(frame[c])
  BY BoardMoves
<1>2. todo' = [todo EXCEPT ![c] = todo[c]]
  BY <1>1
<1>3. val' = [val EXCEPT ![c] = val[c]]
  BY <1>1
<1> QED
  BY <1>2, <1>3, BoardIs

\* A frame that is in no mark, in place of another one, shows nothing new.
LEMMA HiddenFrame ==
    ASSUME FramesOK, MarksInv, NEW c \in Callers, NEW f,
           frame' = [frame EXCEPT ![c] = f],
           f.op \notin {"mark", "store"}, f.val = FALSE, ~InMark(c)
    PROVE  todo' = todo /\ val' = val /\ MarksInv'
<1>1. TodoOf(f) = {} /\ TodoOf(frame[c]) = {} /\ frame[c].val = FALSE
  BY DEF TodoOf, InMark, MarksInv
<1>2. todo' = todo /\ val' = val
  <2>1. ValOf(f) = ValOf(frame[c])
    BY <1>1 DEF ValOf
  <2> QED
    BY <1>1, <2>1, SameBoard
<1>3. ASSUME NEW d \in Callers PROVE frame'[d] = IF d = c THEN f ELSE frame[d]
  BY DEF FramesOK
<1>4. MarksInv'
  BY <1>3 DEF MarksInv, InMark
<1> QED
  BY <1>2, <1>4

\* What MarkFrom gives c: the rest of the entries of u from i on, none of
\* them left out, and the verdict as long as there is one.
LEMMA MarkFromShows ==
    ASSUME FramesOK, MarksInv, NEW c \in Callers, NEW u \in Urls, NEW v \in BOOLEAN,
           NEW i \in 0 .. N, MarkFrom(c, u, v, i)
    PROVE  LET rest == {k \in Matching(u) : k >= i}
           IN  /\ todo' = [todo EXCEPT ![c] = rest]
               /\ val' = [val EXCEPT ![c] = rest # {} /\ v]
               /\ MarksInv'
<1> DEFINE rest == {k \in Matching(u) : k >= i}
<1>1. PICK j \in i .. N :
        /\ FirstMatch(u, i, j)
        /\ frame' = [frame EXCEPT ![c] =
                       IF j = N THEN NoCall
                       ELSE [NoCall EXCEPT !.op = "mark", !.i = j,
                                           !.url = u, !.val = v]]
  BY DEF MarkFrom
<1> DEFINE f == IF j = N THEN NoCall
                ELSE [NoCall EXCEPT !.op = "mark", !.i = j, !.url = u, !.val = v]
<1>2. /\ j = N => f.op = "idle" /\ f.val = FALSE
      /\ j # N => f.op = "mark" /\ f.i = j /\ f.url = u /\ f.val = v
  BY DEF NoCall
<1>3. frame' = [frame EXCEPT ![c] = f]
  BY <1>1
<1> HIDE DEF f
<1>4. \A k \in Matching(u) : k >= i => k >= j
  BY <1>1, NAssumption DEF FirstMatch, Matching, Backends
<1>5. j # N => j \in Matching(u)
  BY <1>1, NAssumption DEF FirstMatch, Matching, Backends
<1>6. rest = {k \in Matching(u) : k >= j}
  BY <1>1, <1>4, NAssumption DEF Matching, Backends
<1>7. TodoOf(f) = rest
  <2>1. CASE j = N
    BY <1>2, <1>6, <2>1, NAssumption DEF TodoOf, Matching, Backends
  <2>2. CASE j # N
    BY <1>2, <1>6, <2>2 DEF TodoOf
  <2> QED
    BY <2>1, <2>2
<1>8. ValOf(f) = (rest # {} /\ v)
  <2>1. CASE j = N
    <3>1. rest = {}
      BY <1>6, <2>1, NAssumption DEF Matching, Backends
    <3> HIDE DEF rest
    <3> QED
      BY <1>2, <2>1, <3>1, Zenon DEF ValOf
  <2>2. CASE j # N
    <3>1. rest # {}
      BY <1>1, <1>5, <2>2
    <3> HIDE DEF rest
    <3> QED
      BY <1>2, <2>2, <3>1, Zenon DEF ValOf
  <2> QED
    BY <2>1, <2>2
<1>9. todo' = [todo EXCEPT ![c] = rest] /\ val' = [val EXCEPT ![c] = rest # {} /\ v]
  <2> HIDE DEF rest
  <2>1. todo' = [todo EXCEPT ![c] = TodoOf(f)] /\ val' = [val EXCEPT ![c] = ValOf(f)]
    BY <1>3, BoardMoves
  <2> QED
    BY <1>7, <1>8, <2>1, Zenon
<1>10. MarksInv'
  <2>1. ASSUME NEW d \in Callers PROVE frame'[d] = IF d = c THEN f ELSE frame[d]
    BY <1>3 DEF FramesOK
  <2> QED
    BY <1>2, <1>5, <2>1 DEF MarksInv, InMark
<1> QED
  BY <1>9, <1>10

\* A lookup is nowhere on the board.
LEMMA LookupIsHidden ==
    ASSUME TypeOK, MarksInv, NEW c \in Callers,
           GetNextHealthyBackend(c) \/ Scan(c) \/ Return(c)
    PROVE  todo' = todo /\ val' = val /\ alive' = alive /\ MarksInv'
<1>1. FramesOK /\ frame[c] \in Frames
  BY DEF TypeOK, FramesOK
<1>2. ~InMark(c) /\ frame[c].val = FALSE /\ alive' = alive
  BY DEF GetNextHealthyBackend, Scan, Return, ScanRoundRobin, ScanRandom, ScanLeast,
         CountConnections, Idle, InMark, MarksInv
<1>3. ASSUME NEW i, NEW b, Answer(c, i, b)
      PROVE  todo' = todo /\ val' = val /\ MarksInv'
  <2> DEFINE f == [NoCall EXCEPT !.op = "ret", !.by = frame[c].by,
                     !.ticket = frame[c].ticket, !.i = i, !.res = b]
  <2>1. f.op = "ret" /\ f.val = FALSE
    BY DEF NoCall
  <2>2. frame' = [frame EXCEPT ![c] = f]
    BY <1>3 DEF Answer
  <2> HIDE DEF f
  <2> QED
    BY <1>1, <1>2, <2>1, <2>2, HiddenFrame
<1>4. ASSUME NEW f, frame' = [frame EXCEPT ![c] = f],
             f.op \in {"idle", "scan", "count"}, f.val = frame[c].val
      PROVE  todo' = todo /\ val' = val /\ MarksInv'
  BY <1>1, <1>2, <1>4, HiddenFrame
<1>5. ASSUME NEW kept, NEW least, NextEntry(c, kept, least)
      PROVE  todo' = todo /\ val' = val /\ MarksInv'
  <2> DEFINE f == [frame[c] EXCEPT !.op = "scan", !.i = frame[c].i + 1,
                                   !.kept = kept, !.least = least]
  <2>1. f.op = "scan" /\ f.val = frame[c].val
    BY <1>1 DEF Frames
  <2>2. CASE frame' = [frame EXCEPT ![c] = f]
    <3> HIDE DEF f
    <3> QED
      BY <1>4, <2>1, <2>2
  <2> QED
    BY <1>3, <1>5, <2>2 DEF NextEntry
<1>6. CASE GetNextHealthyBackend(c)
  <2> DEFINE f == [NoCall EXCEPT !.op = "scan", !.by = strategy,
                     !.ticket = IF strategy = "round-robin" THEN current ELSE 0]
  <2>1. f.op = "scan" /\ f.val = FALSE
    BY DEF NoCall
  <2>2. frame' = [frame EXCEPT ![c] = f]
    BY <1>6 DEF GetNextHealthyBackend
  <2> HIDE DEF f
  <2> QED
    BY <1>2, <1>4, <2>1, <2>2
<1>7. CASE Return(c)
  BY <1>2, <1>4, <1>7 DEF Return, NoCall
<1>8. CASE ScanRoundRobin(c)
  <2> DEFINE f == [frame[c] EXCEPT !.i = frame[c].i + 1]
  <2>1. ASSUME frame' = [frame EXCEPT ![c].i = frame[c].i + 1]
        PROVE  todo' = todo /\ val' = val /\ MarksInv'
    <3>1. f.op = "scan" /\ f.val = frame[c].val
      BY <1>1, <1>8 DEF Frames, ScanRoundRobin
    <3>2. frame' = [frame EXCEPT ![c] = f]
      BY <2>1
    <3> HIDE DEF f
    <3> QED
      BY <1>4, <3>1, <3>2
  <2> QED
    BY <1>2, <1>3, <1>8, <2>1 DEF ScanRoundRobin
<1>9. CASE ScanLeast(c)
  <2> DEFINE f == [frame[c] EXCEPT !.op = "count"]
  <2>1. ASSUME frame' = [frame EXCEPT ![c].op = "count"]
        PROVE  todo' = todo /\ val' = val /\ MarksInv'
    <3>1. f.op = "count" /\ f.val = frame[c].val
      BY <1>1 DEF Frames
    <3>2. frame' = [frame EXCEPT ![c] = f]
      BY <2>1
    <3> HIDE DEF f
    <3> QED
      BY <1>4, <3>1, <3>2
  <2> QED
    BY <1>2, <1>5, <1>9, <2>1 DEF ScanLeast
<1>10. CASE ScanRandom(c) \/ CountConnections(c)
  BY <1>2, <1>5, <1>10 DEF ScanRandom, CountConnections
<1> QED
  BY <1>2, <1>6, <1>7, <1>8, <1>9, <1>10 DEF Scan

LEMMA MarkBeginsOnBoard ==
    ASSUME TypeOK, MarksInv, NEW c \in Callers, NEW u \in Urls, NEW v \in BOOLEAN,
           MarkBackendStatus(c, u, v)
    PROVE  Board!Begin(c, Matching(u), v) /\ MarksInv'
<1>1. FramesOK
  BY DEF TypeOK, FramesOK
<1>2. 0 \in 0 .. N /\ {k \in Matching(u) : k >= 0} = Matching(u)
  BY NAssumption DEF Matching, Backends
<1>3. todo[c] = {}
  BY <1>1 DEF MarkBackendStatus, Idle, todo, InMark
<1>4. MarkFrom(c, u, v, 0) /\ alive' = alive
  BY DEF MarkBackendStatus
<1>5. /\ todo' = [todo EXCEPT ![c] = Matching(u)]
      /\ val' = [val EXCEPT ![c] = Matching(u) # {} /\ v]
      /\ MarksInv'
  BY <1>1, <1>2, <1>4, MarkFromShows
<1> QED
  BY <1>3, <1>4, <1>5 DEF Board!Begin

LEMMA MarkWritesOnBoard ==
    ASSUME TypeOK, MarksInv, NEW c \in Callers, Mark(c)
    PROVE  /\ MarksInv'
           /\ \/ Board!Write(c, frame[c].i) /\ frame[c].i \in Backends
              \/ UNCHANGED <<alive, todo, val>>
<1> DEFINE i == frame[c].i
           u == frame[c].url
           v == frame[c].val
<1>1. FramesOK /\ frame[c] \in Frames
  BY DEF TypeOK, FramesOK
<1>2. InMark(c) /\ i \in Matching(u) /\ u \in Urls /\ v \in BOOLEAN /\ i \in Backends
  BY <1>1 DEF Mark, MarkLoad, MarkStore, InMark, MarksInv, Frames, Matching
<1>3. todo[c] = {k \in Matching(u) : k >= i} /\ val[c] = v
  BY <1>2 DEF todo, val
<1>4. ASSUME alive' = [alive EXCEPT ![i] = v], MarkFrom(c, u, v, i + 1)
      PROVE  MarksInv' /\ Board!Write(c, i)
  <2>1. i + 1 \in 0 .. N
    BY <1>2, NAssumption DEF Backends
  <2>2. {k \in Matching(u) : k >= i + 1} = todo[c] \ {i}
    BY <1>2, <1>3, NAssumption DEF Matching, Backends
  <2>3. /\ MarksInv'
        /\ todo' = [todo EXCEPT ![c] = todo[c] \ {i}]
        /\ val' = [val EXCEPT ![c] = (todo[c] \ {i}) # {} /\ v]
    BY <1>1, <1>2, <1>4, <2>1, <2>2, MarkFromShows
  <2>4. i \in todo[c] /\ ((todo[c] \ {i}) # {} <=> todo[c] # {i})
    BY <1>2, <1>3, NAssumption DEF Backends
  <2> QED
    BY <1>3, <1>4, <2>3, <2>4 DEF Board!Write
<1>5. ASSUME frame' = [frame EXCEPT ![c].op = "store"]
      PROVE  MarksInv' /\ todo' = todo /\ val' = val
  <2> DEFINE f == [frame[c] EXCEPT !.op = "store"]
  <2>1. f.op = "store" /\ f.i = i /\ f.url = u /\ f.val = v
    BY <1>1 DEF Frames
  <2>2. frame' = [frame EXCEPT ![c] = f]
    BY <1>5
  <2> HIDE DEF f
  <2>3. TodoOf(f) = todo[c]
    BY <1>3, <2>1 DEF TodoOf
  <2>4. todo' = todo /\ val' = val
    <3>1. TodoOf(f) = TodoOf(frame[c]) /\ ValOf(f) = ValOf(frame[c])
      BY <2>1, <2>3, BoardIs DEF ValOf
    <3> QED
      BY <1>1, <2>2, <3>1, SameBoard
  <2>5. ASSUME NEW d \in Callers PROVE frame'[d] = IF d = c THEN f ELSE frame[d]
    BY <1>1, <2>2 DEF FramesOK
  <2> QED
    BY <1>2, <2>1, <2>4, <2>5 DEF MarksInv, InMark
<1>6. CASE MarkStore(c)
  BY <1>2, <1>4, <1>6 DEF MarkStore
<1>7. CASE MarkLoad(c) /\ alive[i] = v
  <2>1. alive' = [alive EXCEPT ![i] = v]
    BY <1>2, <1>7 DEF MarkLoad, TypeOK
  <2> QED
    BY <1>2, <1>4, <1>7, <2>1 DEF MarkLoad
<1>8. CASE MarkLoad(c) /\ alive[i] # v
  BY <1>5, <1>8 DEF MarkLoad
<1> QED
  BY <1>6, <1>7, <1>8 DEF Mark

LEMMA BoardStep ==
    TypeOK /\ MarksInv /\ [Next]_vars
       => MarksInv' /\ [Board!BoardNext]_(Board!boardVars)
<1> SUFFICES ASSUME TypeOK, MarksInv, [Next]_vars
             PROVE  MarksInv' /\ (Board!BoardNext \/ UNCHANGED <<alive, todo, val>>)
  BY DEF Board!boardVars
<1>1. ASSUME NEW c \in Callers, NEW u \in Urls, NEW v \in BOOLEAN,
             MarkBackendStatus(c, u, v)
      PROVE  MarksInv' /\ Board!BoardNext
  BY <1>1, MarkBeginsOnBoard DEF Board!BoardNext
<1>2. ASSUME NEW c \in Callers, Mark(c)
      PROVE  MarksInv' /\ (Board!BoardNext \/ UNCHANGED <<alive, todo, val>>)
  BY <1>2, MarkWritesOnBoard DEF Board!BoardNext
<1>3. ASSUME NEW c \in Callers, Step(c)
      PROVE  MarksInv' /\ (Board!BoardNext \/ UNCHANGED <<alive, todo, val>>)
  BY <1>1, <1>2, <1>3, LookupIsHidden DEF Step
<1>4. ASSUME UNCHANGED <<alive, frame>>
      PROVE  MarksInv' /\ UNCHANGED <<alive, todo, val>>
  BY <1>4 DEF MarksInv, InMark, todo, val
<1> QED
  BY <1>3, <1>4 DEF Next, SetStrategy, IncrementConnections, DecrementConnections, vars

\* Every mark takes effect once on every entry of its URL as one atomic
\* write, although it loads and stores in two operations and others mark the
\* same URL meanwhile: the pool starts where the abstract board starts, and
\* each of its steps is one of the board or none (MarkBackendStatus, lines
\* 104-124).
THEOREM MarksAreWrites ==
    HSpec => Board!BoardInit /\ [][Board!BoardNext]_(Board!boardVars)
<1>1. HInit => TypeOK /\ MarksInv /\ Board!BoardInit
  <2> SUFFICES ASSUME HInit PROVE TypeOK /\ MarksInv /\ Board!BoardInit
    OBVIOUS
  <2>1. \A c \in Callers : frame[c].op = "idle" /\ frame[c].val = FALSE
    BY DEF HInit, Init, NoCall
  <2>2. MarksInv
    BY <2>1 DEF MarksInv, InMark
  <2>3. Board!BoardInit
    BY <2>1 DEF Board!BoardInit, todo, val, InMark, HInit, Init
  <2> QED
    BY <2>2, <2>3, InitTypeOK DEF HInit
<1>2. TypeOK /\ MarksInv /\ [Next /\ Observe]_hvars
        => TypeOK' /\ MarksInv' /\ [Board!BoardNext]_(Board!boardVars)
  BY NextTypeOK, BoardStep DEF hvars
<1> QED
  BY <1>1, <1>2, PTL DEF HSpec
=============================================================================
