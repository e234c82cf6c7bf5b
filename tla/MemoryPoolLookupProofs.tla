----------------------- MODULE MemoryPoolLookupProofs -----------------------
(***************************************************************************)
(* What a lookup may answer, proved for any number of callers and entries  *)
(* and any range of the counter.                                           *)
(***************************************************************************)
EXTENDS MemoryPoolProofs, RingLemmas

-----------------------------------------------------------------------------
(* The inductive invariant: what the history of a lookup in progress says  *)
(* about the entries it has already passed.                                *)

\* While c scans, its history is about the flags as they are now.
HistoryIsCurrent(c) ==
    InLookup(c) => upAll[c] \subseteq Alive /\ downAll[c] \subseteq Backends \ Alive

\* Round-robin: no entry passed so far was alive throughout.
RingScanned(c) ==
    (Lookup(c) /\ frame[c].by = "round-robin") =>
       /\ frame[c].op # "count"
       /\ \A k \in 0 .. frame[c].i - 1 : RingIndex(c, k) \notin upAll[c]
       /\ frame[c].op = "ret" =>
             \/ frame[c].res = None /\ frame[c].i = N
             \/ frame[c].i \in Backends /\ frame[c].res = RingIndex(c, frame[c].i)

\* The other loops: nothing dead throughout is kept, and nothing is kept only
\* if no entry passed so far was alive throughout.
ListScanned(c) ==
    (Lookup(c) /\ frame[c].by # "round-robin") =>
       /\ InLookup(c) => /\ frame[c].kept \cap downAll[c] = {}
                         /\ frame[c].kept = {} =>
                               \A k \in 0 .. frame[c].i - 1 : k \notin upAll[c]
       /\ frame[c].op = "count" => frame[c].i \notin downAll[c]
       /\ frame[c].op = "ret" /\ frame[c].res = None => upAll[c] = {}

AnswerNotDead(c) == frame[c].op = "ret" => frame[c].res \notin downAll[c]

CallerInv(c) ==
    /\ upAll[c] \subseteq Backends /\ downAll[c] \subseteq Backends
    /\ HistoryIsCurrent(c)
    /\ RingScanned(c)
    /\ ListScanned(c)
    /\ AnswerNotDead(c)

LookupInv == TypeOK /\ \A c \in Callers : CallerInv(c)

-----------------------------------------------------------------------------
(* What one step does to the history.                                      *)

LEMMA Remembered ==
    ASSUME Observe, NEW c \in Callers
    PROVE  /\ ~Lookup(c)' => upAll'[c] = {} /\ downAll'[c] = {}
           /\ Lookup(c)' /\ ~Lookup(c) =>
                 upAll'[c] = Alive' /\ downAll'[c] = Backends \ Alive'
           /\ Lookup(c)' /\ InLookup(c) =>
                 /\ upAll'[c] = upAll[c] \cap Alive'
                 /\ downAll'[c] = downAll[c] \cap (Backends \ Alive')
           /\ Lookup(c)' /\ frame[c].op = "ret" =>
                 upAll'[c] = upAll[c] /\ downAll'[c] = downAll[c]
<1>1. /\ upAll'[c] = Remember(c, upAll[c], Alive')
      /\ downAll'[c] = Remember(c, downAll[c], Backends \ Alive')
  BY DEF Observe
<1>2. /\ InLookup(c) => Lookup(c)
      /\ frame[c].op = "ret" => Lookup(c) /\ ~InLookup(c)
  BY DEF Lookup, InLookup
<1> QED
  BY <1>1, <1>2 DEF Remember

\* A step that leaves the frame of c alone, whatever it does to the flags.
LEMMA OthersKeepCallerInv ==
    ASSUME NEW c \in Callers, CallerInv(c), Observe, frame'[c] = frame[c]
    PROVE  CallerInv(c)'
<1>1. Lookup(c)' = Lookup(c) /\ InLookup(c)' = InLookup(c)
  BY DEF Lookup, InLookup
<1>2. /\ upAll'[c] \subseteq upAll[c] \/ ~Lookup(c)
      /\ downAll'[c] \subseteq downAll[c] \/ ~Lookup(c)
      /\ InLookup(c) => upAll'[c] \subseteq Alive' /\ downAll'[c] \subseteq Backends \ Alive'
      /\ ~Lookup(c) => upAll'[c] = {} /\ downAll'[c] = {}
  BY <1>1, Remembered DEF Lookup, InLookup
<1>3. upAll'[c] \subseteq Backends /\ downAll'[c] \subseteq Backends
  BY <1>2 DEF CallerInv
<1>4. HistoryIsCurrent(c)'
  BY <1>1, <1>2 DEF HistoryIsCurrent
<1>5. RingScanned(c)'
  BY <1>1, <1>2 DEF RingScanned, RingIndex, CallerInv
<1>6. ListScanned(c)'
  BY <1>1, <1>2 DEF ListScanned, CallerInv
<1>7. AnswerNotDead(c)'
  BY <1>1, <1>2 DEF AnswerNotDead, CallerInv, Lookup
<1> QED
  BY <1>3, <1>4, <1>5, <1>6, <1>7 DEF CallerInv

\* A step of c that leaves the pool.
LEMMA LeavingKeepsCallerInv ==
    ASSUME Observe, NEW c \in Callers, ~Lookup(c)'
    PROVE  CallerInv(c)'
BY Remembered
DEF CallerInv, HistoryIsCurrent, RingScanned, ListScanned, AnswerNotDead, Lookup

\* The first step of a lookup.
LEMMA BeginKeepsCallerInv ==
    ASSUME TypeOK, Observe, NEW c \in Callers, GetNextHealthyBackend(c)
    PROVE  CallerInv(c)'
<1>1. /\ frame'[c].op = "scan" /\ frame'[c].i = 0 /\ frame'[c].kept = {}
  BY DEF GetNextHealthyBackend, TypeOK, NoCall
<1>2. Lookup(c)' /\ ~Lookup(c)
  BY <1>1 DEF GetNextHealthyBackend, Idle, Lookup, InLookup
<1>3. upAll'[c] = Alive' /\ downAll'[c] = Backends \ Alive'
  BY <1>2, Remembered
<1>4. Alive' \subseteq Backends
  BY DEF Alive
<1> QED
  BY <1>1, <1>3, <1>4
  DEF CallerInv, HistoryIsCurrent, RingScanned, ListScanned, AnswerNotDead

\* The frames that Answer and NextEntry leave behind.
LEMMA AnswerFrame ==
    ASSUME TypeOK, NEW c \in Callers, NEW i, NEW r, Answer(c, i, r)
    PROVE  /\ frame'[c].op = "ret" /\ frame'[c].by = frame[c].by
           /\ frame'[c].ticket = frame[c].ticket
           /\ frame'[c].i = i /\ frame'[c].res = r
BY DEF Answer, TypeOK, NoCall

LEMMA NextEntryFrame ==
    ASSUME TypeOK, NEW c \in Callers, NEW kept, NEW least,
           NextEntry(c, kept, least)
    PROVE  \/ /\ frame'[c].op = "scan" /\ frame'[c].by = frame[c].by
              /\ frame'[c].i = frame[c].i + 1 /\ frame'[c].kept = kept
           \/ /\ frame'[c].op = "ret" /\ frame'[c].by = frame[c].by
              /\ frame[c].i + 1 = N
              /\ \/ kept = {} /\ frame'[c].res = None
                 \/ frame'[c].res \in kept
<1>1. CASE \E b \in kept : frame[c].i + 1 = N /\ Answer(c, N, b)
  BY <1>1, AnswerFrame
<1>2. CASE frame[c].i + 1 = N /\ kept = {} /\ Answer(c, N, None)
  BY <1>2, AnswerFrame
<1>3. CASE frame' = [frame EXCEPT ![c] = [@ EXCEPT !.op = "scan",
                       !.i = frame[c].i + 1, !.kept = kept, !.least = least]]
  <2>1. frame[c] \in Frames /\ frame'[c] = [frame[c] EXCEPT !.op = "scan",
                       !.i = frame[c].i + 1, !.kept = kept, !.least = least]
    BY <1>3 DEF TypeOK
  <2> QED
    BY <2>1 DEF Frames
<1> QED
  BY <1>1, <1>2, <1>3 DEF NextEntry

\* While c scans, its own steps change no flag, so its history stays.
LEMMA ScanKeepsHistory ==
    ASSUME TypeOK, NEW c \in Callers, CallerInv(c), Observe, alive' = alive,
           InLookup(c), Lookup(c)'
    PROVE  upAll'[c] = upAll[c] /\ downAll'[c] = downAll[c]
<1>1. Alive' = Alive
  BY DEF Alive
<1>2. /\ upAll'[c] = upAll[c] \cap Alive
      /\ downAll'[c] = downAll[c] \cap (Backends \ Alive)
  BY <1>1, Remembered
<1>3. upAll[c] \subseteq Alive /\ downAll[c] \subseteq Backends \ Alive
  BY DEF CallerInv, HistoryIsCurrent
<1> QED
  BY <1>2, <1>3

\* A step of the round-robin loop.
LEMMA ScanRoundRobinKeepsCallerInv ==
    ASSUME TypeOK, NEW c \in Callers, CallerInv(c), Observe, ScanRoundRobin(c)
    PROVE  CallerInv(c)'
<1> USE NAssumption, NoneAssumption
<1> DEFINE i == frame[c].i
           b == RingIndex(c, i)
<1>1. /\ frame[c] \in Frames /\ frame[c].op = "scan" /\ InLookup(c) /\ Lookup(c)
      /\ frame[c].by = "round-robin" /\ alive' = alive /\ i \in Backends
  BY DEF ScanRoundRobin, TypeOK, InLookup, Lookup, HoldsReadLock
<1>2. /\ frame'[c].by = "round-robin" /\ frame'[c].ticket = frame[c].ticket
      /\ \/ /\ frame'[c].op = "ret" /\ frame'[c].i = i /\ frame'[c].res = b
            /\ alive[b]
         \/ /\ frame'[c].op = "ret" /\ frame'[c].i = N /\ frame'[c].res = None
            /\ ~alive[b] /\ i + 1 = N
         \/ /\ frame'[c].op = "scan" /\ frame'[c].i = i + 1
            /\ ~alive[b]
  <2>1. CASE alive[b] /\ Answer(c, i, b)
    BY <1>1, <2>1, AnswerFrame
  <2>2. CASE ~alive[b] /\ i + 1 = N /\ Answer(c, N, None)
    BY <1>1, <2>2, AnswerFrame
  <2>3. CASE ~alive[b] /\ frame' = [frame EXCEPT ![c].i = i + 1]
    <3>1. frame'[c] = [frame[c] EXCEPT !.i = i + 1]
      BY <2>3 DEF TypeOK
    <3> QED
      BY <1>1, <2>3, <3>1 DEF Frames
  <2> QED
    BY <2>1, <2>2, <2>3 DEF ScanRoundRobin
<1>3. Lookup(c)'
  BY <1>2 DEF Lookup, InLookup
<1>4. upAll'[c] = upAll[c] /\ downAll'[c] = downAll[c]
  BY <1>1, <1>3, ScanKeepsHistory
<1>5. Alive' = Alive
  BY <1>1 DEF Alive
<1>6. /\ alive[b] => b \notin downAll[c]
      /\ ~alive[b] => b \notin upAll[c]
  BY <1>1 DEF CallerInv, HistoryIsCurrent, Alive
<1>7. \A k \in 0 .. i - 1 : RingIndex(c, k) \notin upAll[c]
  BY <1>1 DEF CallerInv, RingScanned
<1>8. \A k : (((frame'[c].ticket + k) % CounterMod) % N)
              = (((frame[c].ticket + k) % CounterMod) % N)
  BY <1>2
<1>9. HistoryIsCurrent(c)'
  BY <1>1, <1>4, <1>5 DEF CallerInv, HistoryIsCurrent
<1>10. RingScanned(c)'
  <2>1. ~alive[b] => \A k \in 0 .. i : RingIndex(c, k) \notin upAll[c]
    BY <1>1, <1>6, <1>7 DEF Backends
  <2>2. \A k \in 0 .. frame'[c].i - 1 :
           (((frame'[c].ticket + k) % CounterMod) % N) \notin upAll'[c]
    BY <1>1, <1>2, <1>4, <1>7, <2>1 DEF RingIndex, Backends
  <2>3. frame'[c].res = b /\ frame'[c].i = i =>
           frame'[c].res = (((frame'[c].ticket + frame'[c].i) % CounterMod) % N)
    BY <1>2 DEF RingIndex
  <2> QED
    BY <1>1, <1>2, <2>2, <2>3 DEF RingScanned, RingIndex
<1>11. ListScanned(c)'
  BY <1>2 DEF ListScanned
<1>12. AnswerNotDead(c)'
  BY <1>2, <1>4, <1>6 DEF AnswerNotDead, CallerInv
<1> QED
  BY <1>4, <1>9, <1>10, <1>11, <1>12 DEF CallerInv

\* A step of one of the two loops over the list.
LEMMA ScanListKeepsCallerInv ==
    ASSUME TypeOK, NEW c \in Callers, CallerInv(c), Observe,
           ScanRandom(c) \/ ScanLeast(c) \/ CountConnections(c)
    PROVE  CallerInv(c)'
<1> USE NAssumption, NoneAssumption
<1> DEFINE i == frame[c].i
<1>1. /\ frame[c] \in Frames /\ InLookup(c) /\ Lookup(c)
      /\ frame[c].op \in {"scan", "count"}
      /\ frame[c].by # "round-robin" /\ alive' = alive /\ i \in Backends
  <2>1. frame[c] \in Frames /\ frame[c].op \in {"scan", "count"} /\ alive' = alive
    BY DEF ScanRandom, ScanLeast, CountConnections, TypeOK
  <2>2. InLookup(c) /\ Lookup(c) /\ i \in Backends
    BY <2>1 DEF InLookup, Lookup, HoldsReadLock, TypeOK
  <2>3. frame[c].by # "round-robin"
    BY <2>2 DEF ScanRandom, ScanLeast, CountConnections, CallerInv, RingScanned
  <2> QED
    BY <2>1, <2>2, <2>3
<1>2. /\ frame[c].kept \cap downAll[c] = {}
      /\ frame[c].kept = {} => \A k \in 0 .. i - 1 : k \notin upAll[c]
      /\ frame[c].op = "count" => i \notin downAll[c]
  BY <1>1 DEF CallerInv, ListScanned
<1>3. /\ alive[i] => i \notin downAll[c]
      /\ ~alive[i] => i \notin upAll[c]
  BY <1>1 DEF CallerInv, HistoryIsCurrent, Alive
<1>4. Alive' = Alive
  BY <1>1 DEF Alive
\* The goal for a step that ends an iteration with the candidates kept.
<1>5. ASSUME NEW kept, NEW least, NextEntry(c, kept, least),
             kept \subseteq Backends, kept \cap downAll[c] = {},
             kept = {} => frame[c].kept = {} /\ i \notin upAll[c]
      PROVE  CallerInv(c)'
  <2>1. /\ frame'[c].by # "round-robin"
        /\ \/ /\ frame'[c].op = "scan" /\ frame'[c].i = i + 1
              /\ frame'[c].kept = kept
           \/ /\ frame'[c].op = "ret" /\ i + 1 = N
              /\ \/ kept = {} /\ frame'[c].res = None
                 \/ frame'[c].res \in kept
    BY <1>1, <1>5, NextEntryFrame
  <2>2. Lookup(c)'
    BY <2>1 DEF Lookup, InLookup
  <2>3. upAll'[c] = upAll[c] /\ downAll'[c] = downAll[c]
    BY <1>1, <2>2, ScanKeepsHistory
  <2>4. kept = {} => \A k \in 0 .. i : k \notin upAll[c]
    BY <1>1, <1>2, <1>5 DEF Backends
  <2>5. HistoryIsCurrent(c)'
    BY <1>1, <1>4, <2>3 DEF CallerInv, HistoryIsCurrent
  <2>6. RingScanned(c)'
    BY <2>1 DEF RingScanned
  <2>7. ListScanned(c)'
    <3>1. kept = {} /\ i + 1 = N => upAll'[c] = {}
      BY <1>1, <2>3, <2>4 DEF CallerInv, Backends
    <3>2. frame'[c].op = "ret" /\ frame'[c].res = None => upAll'[c] = {}
      BY <1>5, <2>1, <3>1
    <3>3. frame'[c].op = "scan" =>
             /\ frame'[c].kept \cap downAll'[c] = {}
             /\ frame'[c].kept = {} =>
                   \A k \in 0 .. frame'[c].i - 1 : k \notin upAll'[c]
      BY <1>1, <1>5, <2>1, <2>3, <2>4 DEF Backends
    <3> QED
      BY <2>1, <3>2, <3>3 DEF ListScanned, InLookup
  <2>8. AnswerNotDead(c)'
    BY <1>5, <2>1, <2>3 DEF AnswerNotDead, CallerInv
  <2> QED
    BY <2>3, <2>5, <2>6, <2>7, <2>8 DEF CallerInv
<1>6. CASE ScanRandom(c)
  <2> DEFINE kept == IF alive[i] THEN frame[c].kept \cup {i} ELSE frame[c].kept
  <2>1. NextEntry(c, kept, 0)
    BY <1>6 DEF ScanRandom
  <2>2. kept \subseteq Backends
    BY <1>1 DEF Frames
  <2>3. /\ kept \cap downAll[c] = {}
        /\ kept = {} => frame[c].kept = {} /\ i \notin upAll[c]
    BY <1>2, <1>3
  <2> HIDE DEF kept
  <2> QED
    BY <1>5, <2>1, <2>2, <2>3
<1>7. CASE ScanLeast(c) /\ ~alive[i]
  <2>1. NextEntry(c, frame[c].kept, frame[c].least)
    BY <1>7 DEF ScanLeast
  <2>2. frame[c].kept \subseteq Backends
    BY <1>1 DEF Frames
  <2> QED
    BY <1>2, <1>3, <1>5, <1>7, <2>1, <2>2
<1>8. CASE ScanLeast(c) /\ alive[i]
  <2>1. frame'[c] = [frame[c] EXCEPT !.op = "count"]
    BY <1>8 DEF ScanLeast, TypeOK
  <2>2. /\ frame'[c].op = "count" /\ frame'[c].by = frame[c].by
        /\ frame'[c].i = i /\ frame'[c].kept = frame[c].kept
    BY <1>1, <2>1 DEF Frames
  <2>3. Lookup(c)'
    BY <2>2 DEF Lookup, InLookup
  <2>4. upAll'[c] = upAll[c] /\ downAll'[c] = downAll[c]
    BY <1>1, <2>3, ScanKeepsHistory
  <2>5. HistoryIsCurrent(c)'
    BY <1>1, <1>4, <2>4 DEF CallerInv, HistoryIsCurrent
  <2> QED
    BY <1>1, <1>2, <1>3, <1>8, <2>2, <2>4, <2>5
    DEF CallerInv, RingScanned, ListScanned, AnswerNotDead
<1>9. CASE CountConnections(c)
  <2>1. \/ \E least : NextEntry(c, {i}, least)
        \/ frame[c].kept # {} /\ NextEntry(c, frame[c].kept, frame[c].least)
    BY <1>9 DEF CountConnections
  <2>2. frame[c].kept \subseteq Backends /\ {i} \subseteq Backends
    BY <1>1 DEF Frames
  <2>3. {i} \cap downAll[c] = {}
    BY <1>2, <1>9 DEF CountConnections
  <2>4. CASE \E least : NextEntry(c, {i}, least)
    BY <1>5, <2>2, <2>3, <2>4
  <2>5. CASE frame[c].kept # {} /\ NextEntry(c, frame[c].kept, frame[c].least)
    BY <1>2, <1>5, <2>2, <2>5
  <2> QED
    BY <2>1, <2>4, <2>5
<1> QED
  BY <1>6, <1>7, <1>8, <1>9 DEF ScanLeast

-----------------------------------------------------------------------------
(* The invariant is inductive.                                             *)

LEMMA InitLookupInv == HInit => LookupInv
<1> SUFFICES ASSUME HInit PROVE LookupInv
  OBVIOUS
<1>1. TypeOK
  BY InitTypeOK DEF HInit
<1>2. ASSUME NEW c \in Callers PROVE CallerInv(c)
  <2>1. frame[c].op = "idle" /\ upAll[c] = {} /\ downAll[c] = {}
    BY DEF HInit, Init, NoCall
  <2> QED
    BY <2>1 DEF CallerInv, HistoryIsCurrent, RingScanned, ListScanned,
                AnswerNotDead, Lookup, InLookup
<1> QED
  BY <1>1, <1>2 DEF LookupInv

\* A step of one caller leaves the frames of the others alone.
LEMMA StepIsLocal ==
    ASSUME TypeOK, NEW c \in Callers, Step(c), NEW d \in Callers, d # c
    PROVE  frame'[d] = frame[d]
<1>1. CASE \E f : frame' = [frame EXCEPT ![c] = f]
  BY <1>1 DEF TypeOK
<1>2. ASSUME NEW i, NEW r, Answer(c, i, r) PROVE \E f : frame' = [frame EXCEPT ![c] = f]
  BY <1>2 DEF Answer
<1>3. ASSUME NEW k, NEW l, NextEntry(c, k, l)
      PROVE  \E f : frame' = [frame EXCEPT ![c] = f]
  BY <1>2, <1>3 DEF NextEntry
<1>4. ASSUME NEW u, NEW v, NEW i, MarkFrom(c, u, v, i)
      PROVE  \E f : frame' = [frame EXCEPT ![c] = f]
  BY <1>4 DEF MarkFrom
<1>5. CASE Scan(c)
  <2>1. CASE ScanRoundRobin(c)
    BY <1>1, <1>2, <2>1 DEF ScanRoundRobin
  <2>2. CASE ScanRandom(c) \/ ScanLeast(c) \/ CountConnections(c)
    BY <1>1, <1>3, <2>2 DEF ScanRandom, ScanLeast, CountConnections
  <2> QED
    BY <1>5, <2>1, <2>2 DEF Scan
<1>6. CASE Mark(c)
  BY <1>1, <1>4, <1>6 DEF Mark, MarkLoad, MarkStore
<1>7. CASE \E u \in Urls, v \in BOOLEAN : MarkBackendStatus(c, u, v)
  BY <1>1, <1>4, <1>7 DEF MarkBackendStatus
<1>8. CASE GetNextHealthyBackend(c) \/ Return(c)
  BY <1>1, <1>8 DEF GetNextHealthyBackend, Return
<1> QED
  BY <1>5, <1>6, <1>7, <1>8 DEF Step

\* A caller that begins or goes on marking is in no lookup.
LEMMA MarkIsNoLookup ==
    ASSUME TypeOK, NEW c \in Callers,
           \/ Return(c) \/ Mark(c)
           \/ \E u \in Urls, v \in BOOLEAN : MarkBackendStatus(c, u, v)
    PROVE  ~Lookup(c)'
<1>1. ASSUME NEW u, NEW v, NEW i, MarkFrom(c, u, v, i)
      PROVE  frame'[c].op \in {"idle", "mark"}
  BY <1>1 DEF MarkFrom, TypeOK, NoCall
<1>2. CASE MarkLoad(c) /\ frame' = [frame EXCEPT ![c].op = "store"]
  BY <1>2 DEF TypeOK, Frames, Lookup, InLookup
<1>3. CASE Return(c)
  BY <1>3 DEF Return, TypeOK, NoCall, Lookup, InLookup
<1> QED
  BY <1>1, <1>2, <1>3
  DEF Mark, MarkLoad, MarkStore, MarkBackendStatus, Lookup, InLookup

LEMMA NextLookupInv == LookupInv /\ [Next /\ Observe]_hvars => LookupInv'
<1> SUFFICES ASSUME LookupInv, [Next /\ Observe]_hvars PROVE LookupInv'
  OBVIOUS
<1>1. TypeOK'
  <2>1. TypeOK /\ [Next]_vars
    BY DEF LookupInv, hvars
  <2> QED
    BY <2>1, NextTypeOK
<1>2. ASSUME Next, Observe, NEW d \in Callers PROVE CallerInv(d)'
  <2>1. TypeOK /\ CallerInv(d)
    BY DEF LookupInv
  <2>2. CASE frame'[d] = frame[d]
    BY <1>2, <2>1, <2>2, OthersKeepCallerInv
  <2>3. CASE Step(d)
    <3>1. CASE GetNextHealthyBackend(d)
      BY <1>2, <2>1, <3>1, BeginKeepsCallerInv
    <3>2. CASE Scan(d)
      BY <1>2, <2>1, <3>2, ScanRoundRobinKeepsCallerInv, ScanListKeepsCallerInv DEF Scan
    <3>3. CASE \/ Return(d) \/ Mark(d)
               \/ \E u \in Urls, v \in BOOLEAN : MarkBackendStatus(d, u, v)
      BY <1>2, <2>1, <3>3, MarkIsNoLookup, LeavingKeepsCallerInv
    <3> QED
      BY <2>3, <3>1, <3>2, <3>3 DEF Step
  <2>4. ASSUME NEW c \in Callers, Step(c), c # d PROVE frame'[d] = frame[d]
    BY <2>1, <2>4, StepIsLocal
  <2>5. (\E c \in Callers : Step(c)) \/ frame' = frame
    BY <1>2 DEF Next, SetStrategy, IncrementConnections, DecrementConnections
  <2> QED
    BY <2>2, <2>3, <2>4, <2>5
<1>3. ASSUME UNCHANGED hvars, NEW d \in Callers PROVE CallerInv(d)'
  BY <1>3
  DEF LookupInv, hvars, vars, history, CallerInv, HistoryIsCurrent, RingScanned,
      ListScanned, AnswerNotDead, Lookup, InLookup, RingIndex, Alive
<1> QED
  BY <1>1, <1>2, <1>3 DEF LookupInv

LEMMA LookupInvHolds == HSpec => []LookupInv
<1>1. HInit => LookupInv
  BY InitLookupInv
<1>2. LookupInv /\ [Next /\ Observe]_hvars => LookupInv'
  BY NextLookupInv
<1> QED
  BY <1>1, <1>2, PTL DEF HSpec

-----------------------------------------------------------------------------
(* The theorems.                                                           *)

\* Where the ring is whole, the index the code computes is the ring's.
LEMMA RingIndexIsFromTicket ==
    ASSUME TypeOK, NEW c \in Callers, RingWhole(c), NEW k \in 0 .. N - 1
    PROVE  RingIndex(c, k) = FromTicket(c, k)
<1>1. frame[c].ticket \in 0 .. CounterMod - 1
  BY DEF TypeOK, Frames
<1>2. N \in Nat \ {0} /\ CounterMod \in Nat /\ N <= CounterMod
  BY NAssumption, CounterAssumption
<1>3. frame[c].ticket + N <= CounterMod \/ CounterMod % N = 0
  BY DEF RingWhole
<1> QED
  BY <1>1, <1>2, <1>3, WrapIsHarmless DEF RingIndex, FromTicket

\* Round-robin answers the first entry from its ticket on that was not dead at
\* some moment of the lookup (getRoundRobinBackend, lines 237-247).
THEOREM RingOrderHolds == HSpec => []RingOrder
<1>1. ASSUME LookupInv PROVE RingOrder
  <2> SUFFICES ASSUME NEW c \in Callers, frame[c].op = "ret",
                      frame[c].by = "round-robin", RingWhole(c)
               PROVE  /\ \A k \in 0 .. frame[c].i - 1 : FromTicket(c, k) \notin upAll[c]
                      /\ frame[c].res # None => frame[c].res = FromTicket(c, frame[c].i)
    BY DEF RingOrder
  <2> USE NAssumption
  <2>1. TypeOK /\ RingScanned(c) /\ Lookup(c) /\ frame[c].i \in 0 .. N
    BY <1>1 DEF LookupInv, CallerInv, Lookup, TypeOK, Frames
  <2>2. \A k \in 0 .. N - 1 : RingIndex(c, k) = FromTicket(c, k)
    BY <2>1, RingIndexIsFromTicket
  <2>3. \A k \in 0 .. frame[c].i - 1 : RingIndex(c, k) \notin upAll[c]
    BY <2>1 DEF RingScanned
  <2>4. \A k \in 0 .. frame[c].i - 1 : k \in 0 .. N - 1
    BY <2>1
  <2>5. frame[c].res # None =>
           frame[c].i \in 0 .. N - 1 /\ frame[c].res = RingIndex(c, frame[c].i)
    BY <2>1 DEF RingScanned, Backends
  <2> QED
    BY <2>2, <2>3, <2>4, <2>5
<1> QED
  BY <1>1, LookupInvHolds, PTL

\* "No healthy backend" is answered only if no entry was alive throughout the
\* lookup, as long as the ring is whole (lines 126-151).
THEOREM NoFalseUnhealthyHolds == HSpec => []NoFalseUnhealthy
<1>1. ASSUME LookupInv PROVE NoFalseUnhealthy
  <2> SUFFICES ASSUME NEW c \in Callers, frame[c].op = "ret", frame[c].res = None,
                      frame[c].by = "round-robin" => RingWhole(c)
               PROVE  upAll[c] = {}
    BY DEF NoFalseUnhealthy
  <2> USE NAssumption, NoneAssumption
  <2>1. TypeOK /\ CallerInv(c) /\ Lookup(c) /\ upAll[c] \subseteq Backends
    BY <1>1 DEF LookupInv, CallerInv, Lookup
  <2>2. CASE frame[c].by # "round-robin"
    BY <2>1, <2>2 DEF CallerInv, ListScanned
  <2>3. CASE frame[c].by = "round-robin"
    <3>1. RingIndex(c, frame[c].i) \in Backends \/ frame[c].i = N
      <4>1. CASE frame[c].i \in Backends
        <5>1. frame[c].ticket + frame[c].i \in Nat /\ CounterMod \in Nat \ {0}
          BY <2>1, <4>1, CounterAssumption DEF TypeOK, Frames, Backends
        <5>2. (frame[c].ticket + frame[c].i) % CounterMod \in Nat
          BY <5>1
        <5> QED
          BY <5>2 DEF RingIndex, Backends
      <4> QED
        BY <2>1, <2>3, <4>1 DEF CallerInv, RingScanned
    <3>2. frame[c].i = N
      BY <2>1, <2>3, <3>1 DEF CallerInv, RingScanned
    <3>3. \A k \in 0 .. N - 1 : FromTicket(c, k) \notin upAll[c]
      <4>1. \A k \in 0 .. N - 1 : RingIndex(c, k) = FromTicket(c, k)
        BY <2>1, <2>3, RingIndexIsFromTicket
      <4> QED
        BY <2>1, <2>3, <3>2, <4>1 DEF CallerInv, RingScanned
    <3>4. \A b \in Backends : \E k \in 0 .. N - 1 : FromTicket(c, k) = b
      <4>1. frame[c].ticket \in Nat /\ N \in Nat \ {0}
        BY <2>1 DEF TypeOK, Frames
      <4> QED
        BY <4>1, FullTurn DEF FromTicket, Backends
    <3> QED
      BY <2>1, <3>3, <3>4
  <2> QED
    BY <2>2, <2>3
<1> QED
  BY <1>1, LookupInvHolds, PTL

\* No answer was dead at every moment of its lookup (lines 160, 184, 243).
THEOREM NoDeadPickHolds == HSpec => []NoDeadPick
<1>1. LookupInv => NoDeadPick
  BY DEF LookupInv, CallerInv, AnswerNotDead, NoDeadPick
<1> QED
  BY <1>1, LookupInvHolds, PTL

-----------------------------------------------------------------------------
(* Least-connections selection answers an entry with the fewest            *)
(* connections, although flags and counts are read one by one under        *)
(* different locks.                                                        *)

Count(b) == connections[UrlOf[b]]

\* In a lookup during which no count changed: the kept entry has the count the
\* loop remembers, and every entry passed so far that was alive throughout
\* has at least that many.
LeastSoFar(c) ==
    /\ \A b \in frame[c].kept : Count(b) = frame[c].least
    /\ \A k \in 0 .. frame[c].i - 1 :
          k \in upAll[c] => frame[c].kept # {} /\ frame[c].least <= Count(k)

LeastAnswered(c) ==
    frame[c].res # None => \A b \in upAll[c] : Count(frame[c].res) <= Count(b)

LeastInv(c) ==
    (Lookup(c) /\ frame[c].by = "least-connections") =>
       /\ InLookup(c) => LeastSoFar(c)
       /\ frame[c].op = "ret" => LeastAnswered(c)

QuietInv == \A c \in quiet : c \in Callers /\ LeastInv(c)

-----------------------------------------------------------------------------
LEMMA QuietMeansUnchanged ==
    ASSUME Observe, NEW c \in quiet'
    PROVE  /\ c \in Callers /\ Lookup(c)'
           /\ Lookup(c) => c \in quiet /\ connections' = connections
BY DEF Observe

\* A step that leaves the frame of c alone.
LEMMA OthersKeepLeastInv ==
    ASSUME NEW c \in Callers, Observe, LeastInv(c), frame'[c] = frame[c],
           Lookup(c), connections' = connections
    PROVE  LeastInv(c)'
<1>1. Lookup(c)' = Lookup(c) /\ InLookup(c)' = InLookup(c)
  BY DEF Lookup, InLookup
<1>2. upAll'[c] \subseteq upAll[c]
  BY <1>1, Remembered DEF Lookup, InLookup
<1>3. \A b : (connections'[UrlOf[b]]) = (connections[UrlOf[b]])
  OBVIOUS
<1>4. InLookup(c) /\ LeastSoFar(c) => LeastSoFar(c)'
  BY <1>2, <1>3 DEF LeastSoFar, Count
<1>5. LeastAnswered(c) => LeastAnswered(c)'
  BY <1>2, <1>3 DEF LeastAnswered, Count
<1> QED
  BY <1>1, <1>4, <1>5 DEF LeastInv

\* A step of the loop that goes to the next entry, or ends, with kept.
LEMMA NextEntryKeepsLeastInv ==
    ASSUME TypeOK, NEW c \in Callers, CallerInv(c), LookupInv', Observe,
           InLookup(c), alive' = alive, connections' = connections,
           frame[c].by = "least-connections", frame[c].i \in Backends,
           NEW kept \in SUBSET Backends, NEW least \in 0 .. MaxConnections,
           NextEntry(c, kept, least),
           \A b \in kept : Count(b) = least,
           \A k \in 0 .. frame[c].i :
              k \in upAll[c] => kept # {} /\ least <= Count(k)
    PROVE  LeastInv(c)'
<1> USE NAssumption
<1>1. \/ /\ frame'[c].op = "scan" /\ frame'[c].i = frame[c].i + 1
         /\ frame'[c].kept = kept /\ frame'[c].least = least
      \/ /\ frame'[c].op = "ret" /\ frame[c].i + 1 = N
         /\ \/ kept = {} /\ frame'[c].res = None
            \/ frame'[c].res \in kept
  <2>1. CASE frame' = [frame EXCEPT ![c] = [@ EXCEPT !.op = "scan",
                  !.i = frame[c].i + 1, !.kept = kept, !.least = least]]
    <3>1. frame[c] \in Frames /\ frame'[c] = [frame[c] EXCEPT !.op = "scan",
                  !.i = frame[c].i + 1, !.kept = kept, !.least = least]
      BY <2>1 DEF TypeOK
    <3> QED
      BY <3>1 DEF Frames
  <2>2. CASE \E r \in kept : frame[c].i + 1 = N /\ Answer(c, N, r)
    BY <2>2, AnswerFrame
  <2>3. CASE frame[c].i + 1 = N /\ kept = {} /\ Answer(c, N, None)
    BY <2>3, AnswerFrame
  <2> QED
    BY <2>1, <2>2, <2>3 DEF NextEntry
<1>2. Lookup(c)'
  BY <1>1 DEF Lookup, InLookup
<1>3. upAll'[c] = upAll[c] /\ upAll[c] \subseteq Backends
  BY <1>2, ScanKeepsHistory DEF CallerInv
<1>4. \A b : (connections'[UrlOf[b]]) = Count(b)
  BY DEF Count
<1>5. CASE frame'[c].op = "scan"
  <2>1. 0 .. frame'[c].i - 1 = 0 .. frame[c].i
    BY <1>1, <1>5 DEF Backends
  <2>2. LeastSoFar(c)'
    BY <1>1, <1>3, <1>4, <1>5, <2>1 DEF LeastSoFar, Count
  <2> QED
    BY <1>5, <2>2 DEF LeastInv
<1>6. CASE frame'[c].op = "ret"
  <2>1. frame'[c].res # None => frame'[c].res \in kept
    BY <1>1, <1>6
  <2>2. upAll[c] \subseteq 0 .. frame[c].i
    BY <1>1, <1>3, <1>6 DEF Backends
  <2>3. LeastAnswered(c)'
    BY <1>3, <1>4, <2>1, <2>2 DEF LeastAnswered, Count
  <2> QED
    BY <1>6, <2>3 DEF LeastInv, InLookup
<1> QED
  BY <1>1, <1>5, <1>6

LEMMA ScanKeepsLeastInv ==
    ASSUME TypeOK, NEW c \in Callers, CallerInv(c), LookupInv', Observe,
           LeastInv(c), Scan(c)
    PROVE  LeastInv(c)'
<1> USE NAssumption
<1> DEFINE i == frame[c].i
<1>1. /\ frame[c] \in Frames /\ alive' = alive /\ connections' = connections
      /\ InLookup(c) /\ Lookup(c) /\ i \in Backends
  <2>1. /\ frame[c].op \in {"scan", "count"}
        /\ alive' = alive /\ connections' = connections
    BY DEF Scan, ScanRoundRobin, ScanRandom, ScanLeast, CountConnections
  <2> QED
    BY <2>1 DEF InLookup, Lookup, HoldsReadLock, TypeOK
<1>2. frame'[c].by = frame[c].by
  <2>1. CASE ScanRoundRobin(c)
    BY <1>1, <2>1, AnswerFrame DEF ScanRoundRobin, TypeOK, Frames
  <2>2. CASE ScanRandom(c) \/ CountConnections(c)
    BY <2>2, NextEntryFrame DEF ScanRandom, CountConnections
  <2>3. CASE ScanLeast(c)
    BY <1>1, <2>3, NextEntryFrame DEF ScanLeast, TypeOK, Frames
  <2> QED
    BY <2>1, <2>2, <2>3 DEF Scan
<1>3. CASE frame[c].by # "least-connections"
  BY <1>2, <1>3 DEF LeastInv
<1>4. CASE frame[c].by = "least-connections"
  <2>1. LeastSoFar(c)
    BY <1>1, <1>4 DEF LeastInv
  <2>2. /\ frame[c].kept \in SUBSET Backends
        /\ frame[c].least \in 0 .. MaxConnections
        /\ \A b \in Backends : Count(b) \in 0 .. MaxConnections
    BY <1>1, UrlAssumption DEF Frames, TypeOK, Count
  <2>3. CASE ScanLeast(c) /\ ~alive[i]
    <3>1. NextEntry(c, frame[c].kept, frame[c].least)
      BY <2>3 DEF ScanLeast
    <3>2. i \notin upAll[c]
      BY <1>1, <2>3 DEF CallerInv, HistoryIsCurrent, Alive
    <3>3. \A k \in 0 .. i : k \in upAll[c] =>
             frame[c].kept # {} /\ frame[c].least <= Count(k)
      BY <1>1, <2>1, <3>2 DEF LeastSoFar, Backends
    <3>4. \A b \in frame[c].kept : Count(b) = frame[c].least
      BY <2>1 DEF LeastSoFar
    <3> QED
      BY <1>1, <1>4, <2>2, <3>1, <3>3, <3>4, NextEntryKeepsLeastInv
  <2>4. CASE ScanLeast(c) /\ frame' = [frame EXCEPT ![c].op = "count"]
    <3>1. frame'[c] = [frame[c] EXCEPT !.op = "count"]
      BY <2>4 DEF TypeOK
    <3>2. /\ frame'[c].op = "count" /\ frame'[c].i = i
          /\ frame'[c].kept = frame[c].kept /\ frame'[c].least = frame[c].least
      BY <1>1, <3>1 DEF Frames
    <3>3. Lookup(c)'
      BY <3>2 DEF Lookup, InLookup
    <3>4. upAll'[c] = upAll[c]
      BY <1>1, <3>3, ScanKeepsHistory
    <3>5. LeastSoFar(c)'
      BY <1>1, <2>1, <3>2, <3>4 DEF LeastSoFar, Count
    <3> QED
      BY <3>2, <3>5 DEF LeastInv
  <2>5. CASE CountConnections(c)
    <3>1. CASE /\ frame[c].kept = {} \/ Count(i) < frame[c].least
               /\ NextEntry(c, {i}, Count(i))
      <4>1. \A k \in 0 .. i : k \in upAll[c] => {i} # {} /\ Count(i) <= Count(k)
        <5> SUFFICES ASSUME NEW k \in 0 .. i, k \in upAll[c]
                     PROVE  Count(i) <= Count(k)
          OBVIOUS
        <5>1. Count(i) \in Int /\ k \in Backends /\ Count(k) \in Int
          BY <1>1, <2>2 DEF CallerInv
        <5>2. CASE k = i
          BY <5>1, <5>2
        <5>3. CASE k # i
          <6>1. frame[c].kept # {} /\ frame[c].least <= Count(k)
            BY <1>1, <2>1, <5>3 DEF LeastSoFar, Backends
          <6> QED
            BY <2>2, <3>1, <5>1, <6>1
        <5> QED
          BY <5>2, <5>3
      <4>2. {i} \in SUBSET Backends /\ Count(i) \in 0 .. MaxConnections
        BY <1>1, <2>2
      <4> HIDE DEF i
      <4>3. \A b \in {i} : Count(b) = Count(i)
        OBVIOUS
      <4> QED
        BY <1>1, <1>4, <3>1, <4>1, <4>2, <4>3, NextEntryKeepsLeastInv DEF i
    <3>2. CASE /\ frame[c].kept # {} /\ Count(i) >= frame[c].least
               /\ NextEntry(c, frame[c].kept, frame[c].least)
      <4>1. \A k \in 0 .. i : k \in upAll[c] =>
               frame[c].kept # {} /\ frame[c].least <= Count(k)
        BY <1>1, <2>1, <2>2, <3>2 DEF LeastSoFar, Backends
      <4>2. \A b \in frame[c].kept : Count(b) = frame[c].least
        BY <2>1 DEF LeastSoFar
      <4> QED
        BY <1>1, <1>4, <2>2, <3>2, <4>1, <4>2, NextEntryKeepsLeastInv
    <3> QED
      BY <2>5, <3>1, <3>2 DEF CountConnections, Count
  <2> QED
    BY <1>4, <2>3, <2>4, <2>5 DEF Scan, ScanRoundRobin, ScanRandom, ScanLeast
<1> QED
  BY <1>3, <1>4

-----------------------------------------------------------------------------
LEMMA NextQuietInv ==
    LookupInv /\ LookupInv' /\ QuietInv /\ [Next /\ Observe]_hvars => QuietInv'
<1> SUFFICES ASSUME LookupInv, LookupInv', QuietInv, [Next /\ Observe]_hvars
             PROVE  QuietInv'
  OBVIOUS
<1>1. ASSUME Next, Observe, NEW d \in quiet' PROVE d \in Callers /\ LeastInv(d)'
  <2>1. /\ d \in Callers /\ Lookup(d)'
        /\ Lookup(d) => d \in quiet /\ connections' = connections
    BY <1>1, QuietMeansUnchanged
  <2>2. TypeOK /\ CallerInv(d) /\ (Lookup(d) => LeastInv(d))
    BY <2>1 DEF LookupInv, QuietInv
  <2>3. CASE frame'[d] = frame[d]
    <3>1. Lookup(d)
      BY <2>1, <2>3 DEF Lookup, InLookup
    <3> QED
      BY <1>1, <2>1, <2>2, <2>3, <3>1, OthersKeepLeastInv
  <2>4. CASE Step(d)
    <3>1. CASE GetNextHealthyBackend(d)
      <4>1. frame'[d].op = "scan" /\ frame'[d].i = 0 /\ frame'[d].kept = {}
        BY <2>1, <2>2, <3>1 DEF GetNextHealthyBackend, TypeOK, NoCall
      <4> QED
        BY <2>1, <4>1 DEF LeastInv, LeastSoFar
    <3>2. CASE Scan(d)
      <4>1. Lookup(d)
        BY <3>2 DEF Scan, ScanRoundRobin, ScanRandom, ScanLeast, CountConnections,
                    Lookup, InLookup
      <4> QED
        BY <1>1, <2>1, <2>2, <3>2, <4>1, ScanKeepsLeastInv
    <3>3. CASE \/ Return(d) \/ Mark(d)
               \/ \E u \in Urls, v \in BOOLEAN : MarkBackendStatus(d, u, v)
      BY <2>1, <2>2, <3>3, MarkIsNoLookup
    <3> QED
      BY <2>4, <3>1, <3>2, <3>3 DEF Step
  <2>5. ASSUME NEW c \in Callers, Step(c), c # d PROVE frame'[d] = frame[d]
    BY <2>1, <2>2, <2>5, StepIsLocal
  <2>6. (\E c \in Callers : Step(c)) \/ frame' = frame
    BY <1>1 DEF Next, SetStrategy, IncrementConnections, DecrementConnections
  <2> QED
    BY <2>1, <2>3, <2>4, <2>5, <2>6
<1>2. CASE UNCHANGED hvars
  BY <1>2 DEF QuietInv, hvars, vars, history, LeastInv, LeastSoFar, LeastAnswered,
              Count, Lookup, InLookup
<1> QED
  BY <1>1, <1>2 DEF QuietInv

\* No entry that was alive throughout a least-connections lookup has fewer
\* connections than the answer, if no count changed meanwhile
\* (getLeastConnectionsBackend, lines 153-178).
THEOREM LeastLoadedHolds == HSpec => []LeastLoaded
<1>1. HInit => QuietInv
  BY DEF HInit, QuietInv
<1>2. LookupInv /\ LookupInv' /\ QuietInv /\ [Next /\ Observe]_hvars => QuietInv'
  BY NextQuietInv
<1>3. QuietInv => LeastLoaded
  BY DEF QuietInv, LeastInv, LeastAnswered, LeastLoaded, Count, Lookup
<1> QED
  BY <1>1, <1>2, <1>3, LookupInvHolds, PTL DEF HSpec
=============================================================================
