----------------------------- MODULE MemoryPool -----------------------------
(***************************************************************************)
(* The in-memory backend repository                                        *)
(* (internal/adapters/secondary/repository/memory_pool.go).                *)
(*                                                                         *)
(* Request goroutines and health-check goroutines (Callers) share one      *)
(* table.  Its RWMutex is only ever taken for reading by the two hot       *)
(* operations, GetNextHealthyBackend and MarkBackendStatus, so their loops *)
(* interleave freely: one step of this module is one atomic operation on   *)
(* the shared state (one load of an alive flag, one store, one read of a   *)
(* connection count under its own mutex).  Only SetStrategy takes the lock *)
(* for writing.                                                            *)
(***************************************************************************)
EXTENDS Integers

CONSTANTS
    Callers,        \* goroutines that may be inside the pool
    N,              \* number of entries of the table
    CounterMod,     \* range of the uint64 round-robin counter (2^64)
    Urls,           \* URL strings MarkBackendStatus may be called with
    UrlOf,          \* URL string of each entry; two entries may share one
    MaxConnections, \* bound on a connection count, for model checking
    None            \* no backend, no URL

Backends == 0 .. N - 1

ASSUME NAssumption == N \in Nat \ {0}
ASSUME CounterAssumption == CounterMod \in Nat /\ N <= CounterMod
ASSUME UrlAssumption == UrlOf \in [Backends -> Urls]
ASSUME BoundAssumption == MaxConnections \in Nat
ASSUME NoneAssumption == None \notin Backends /\ None \notin Urls

VARIABLES
    alive,       \* the atomic flag of each entry
    current,     \* the round-robin counter
    strategy,    \* the selection strategy, guarded by mux
    connections, \* active connections by URL string, guarded by connectionsMux
    frame        \* what each caller is doing inside the pool

vars == <<alive, current, strategy, connections, frame>>

Strategies == {"round-robin", "least-connections", "random"}

(***************************************************************************)
(* The locals of a caller.  "scan" and "count" are inside                  *)
(* GetNextHealthyBackend (about to load the flag of entry i, about to read *)
(* its connection count); "ret" has its result in res; "mark" and "store"  *)
(* are inside MarkBackendStatus (about to load, about to store entry i).   *)
(* kept is the candidate set: the entry with the fewest connections so far *)
(* (least-connections), or every entry seen alive (random).                *)
(***************************************************************************)
NoCall == [op |-> "idle", by |-> "round-robin", ticket |-> 0, i |-> 0,
           kept |-> {}, least |-> 0, url |-> None, val |-> FALSE,
           res |-> None]

Frames == [op : {"idle", "scan", "count", "ret", "mark", "store"},
           by : Strategies, ticket : 0 .. CounterMod - 1, i : 0 .. N,
           kept : SUBSET Backends, least : 0 .. MaxConnections,
           url : Urls \cup {None}, val : BOOLEAN,
           res : Backends \cup {None}]

Idle(c) == frame[c].op = "idle"
InLookup(c) == frame[c].op \in {"scan", "count"}
InMark(c) == frame[c].op \in {"mark", "store"}
HoldsReadLock(c) == InLookup(c) \/ InMark(c)

TypeOK ==
    /\ alive \in [Backends -> BOOLEAN]
    /\ current \in 0 .. CounterMod - 1
    /\ strategy \in Strategies
    /\ connections \in [Urls -> 0 .. MaxConnections]
    /\ frame \in [Callers -> Frames]
    /\ \A c \in Callers : HoldsReadLock(c) => frame[c].i \in Backends

-----------------------------------------------------------------------------
Init ==
    /\ alive = [b \in Backends |-> TRUE]
    /\ current = 0
    /\ strategy = "round-robin"
    /\ connections = [u \in Urls |-> 0]
    /\ frame = [c \in Callers |-> NoCall]

-----------------------------------------------------------------------------
(* GetNextHealthyBackend                                                   *)

\* The read lock is taken and, for round-robin, a ticket is drawn by the
\* atomic add: AddUint64(&current, 1) - 1 is the value before the add.
GetNextHealthyBackend(c) ==
    /\ Idle(c)
    /\ frame' = [frame EXCEPT ![c] =
                   [NoCall EXCEPT !.op = "scan", !.by = strategy,
                      !.ticket = IF strategy = "round-robin" THEN current ELSE 0]]
    /\ current' = IF strategy = "round-robin"
                  THEN (current + 1) % CounterMod ELSE current
    /\ UNCHANGED <<alive, strategy, connections>>

\* Mutant: the loop reads the shared counter again instead of its own ticket.
RingIndexShared(c, i) == ((current + i) % CounterMod) % N

\* The entry the round-robin loop of caller c looks at with loop counter i.
\* The sum is a uint64 and wraps before the remainder by N is taken.
RingIndex(c, i) == ((frame[c].ticket + i) % CounterMod) % N

Answer(c, i, r) ==
    frame' = [frame EXCEPT ![c] = [NoCall EXCEPT !.op = "ret", !.by = frame[c].by,
                                     !.ticket = frame[c].ticket,
                                     !.i = i, !.res = r]]

\* Mutant: the loop stops one entry short of a full turn.
ScanRoundRobinShort(c) ==
    /\ frame[c].op = "scan" /\ frame[c].by = "round-robin"
    /\ LET i == frame[c].i
           b == RingIndex(c, i)
       IN  \/ alive[b] /\ Answer(c, i, b)
           \/ ~alive[b] /\ i + 2 >= N /\ Answer(c, N, None)
           \/ ~alive[b] /\ i + 2 < N /\ frame' = [frame EXCEPT ![c].i = i + 1]
    /\ UNCHANGED <<alive, current, strategy, connections>>

\* One iteration of the round-robin loop: the first alive entry is returned.
ScanRoundRobin(c) ==
    /\ frame[c].op = "scan" /\ frame[c].by = "round-robin"
    /\ LET i == frame[c].i
           b == RingIndex(c, i)
       IN  \/ alive[b] /\ Answer(c, i, b)
           \/ ~alive[b] /\ i + 1 = N /\ Answer(c, N, None)
           \/ ~alive[b] /\ i + 1 < N /\ frame' = [frame EXCEPT ![c].i = i + 1]
    /\ UNCHANGED <<alive, current, strategy, connections>>

\* The other loops go on to the next entry, or end with a member of kept:
\* its only member, or the one rand.Intn points at.
NextEntry(c, kept, least) ==
    LET i == frame[c].i
    IN  \/ /\ i + 1 < N
           /\ frame' = [frame EXCEPT ![c] = [@ EXCEPT !.op = "scan", !.i = i + 1,
                                               !.kept = kept, !.least = least]]
        \/ i + 1 = N /\ kept = {} /\ Answer(c, N, None)
        \/ i + 1 = N /\ \E b \in kept : Answer(c, N, b)

\* Mutant: the flag is not looked at.
ScanRandomBlind(c) ==
    /\ frame[c].op = "scan" /\ frame[c].by = "random"
    /\ NextEntry(c, frame[c].kept \cup {frame[c].i}, 0)
    /\ UNCHANGED <<alive, current, strategy, connections>>

\* One iteration of the loop that collects the alive entries.
ScanRandom(c) ==
    /\ frame[c].op = "scan" /\ frame[c].by = "random"
    /\ LET b == frame[c].i
       IN  NextEntry(c, IF alive[b] THEN frame[c].kept \cup {b}
                                    ELSE frame[c].kept, 0)
    /\ UNCHANGED <<alive, current, strategy, connections>>

\* One iteration of the least-connections loop reads the flag first ...
ScanLeast(c) ==
    /\ frame[c].op = "scan" /\ frame[c].by = "least-connections"
    /\ \/ alive[frame[c].i] /\ frame' = [frame EXCEPT ![c].op = "count"]
       \/ ~alive[frame[c].i] /\ NextEntry(c, frame[c].kept, frame[c].least)
    /\ UNCHANGED <<alive, current, strategy, connections>>

\* Mutant: the minimum is not updated with the selection.
CountConnectionsOnce(c) ==
    /\ frame[c].op = "count"
    /\ LET b == frame[c].i
           count == connections[UrlOf[b]]
       IN  \/ /\ frame[c].kept = {} \/ count < frame[c].least
              /\ NextEntry(c, {b}, frame[c].least)
           \/ /\ frame[c].kept # {} /\ count >= frame[c].least
              /\ NextEntry(c, frame[c].kept, frame[c].least)
    /\ UNCHANGED <<alive, current, strategy, connections>>

\* ... and then, under the other mutex, the connection count.  With nothing
\* selected yet the minimum is MaxInt, which every count is below.
CountConnections(c) ==
    /\ frame[c].op = "count"
    /\ LET b == frame[c].i
           count == connections[UrlOf[b]]
       IN  \/ /\ frame[c].kept = {} \/ count < frame[c].least
              /\ NextEntry(c, {b}, count)
           \/ /\ frame[c].kept # {} /\ count >= frame[c].least
              /\ NextEntry(c, frame[c].kept, frame[c].least)
    /\ UNCHANGED <<alive, current, strategy, connections>>

\* The caller takes the result (frame[c].res) and leaves the pool.
Return(c) ==
    /\ frame[c].op = "ret"
    /\ frame' = [frame EXCEPT ![c] = NoCall]
    /\ UNCHANGED <<alive, current, strategy, connections>>

-----------------------------------------------------------------------------
(* MarkBackendStatus                                                       *)

\* j is the first entry from i on with URL string u; N when there is none.
FirstMatch(u, i, j) ==
    /\ j \in i .. N
    /\ j < N => UrlOf[j] = u
    /\ \A k \in i .. j - 1 : UrlOf[k] # u

\* The loop of c goes on with the first entry from i on that matches u, or
\* ends.  The entries that do not match are passed over in the same step.
MarkFrom(c, u, v, i) ==
    \E j \in i .. N :
       /\ FirstMatch(u, i, j)
       /\ frame' = [frame EXCEPT ![c] =
                      IF j = N THEN NoCall
                      ELSE [NoCall EXCEPT !.op = "mark", !.i = j,
                                          !.url = u, !.val = v]]

MarkBackendStatus(c, u, v) ==
    /\ Idle(c)
    /\ MarkFrom(c, u, v, 0)
    /\ UNCHANGED <<alive, current, strategy, connections>>

\* Mutant: an entry that needs no update ends the loop.
MarkLoadBreaks(c) ==
    /\ frame[c].op = "mark"
    /\ frame' = IF alive[frame[c].i] = frame[c].val
                THEN [frame EXCEPT ![c] = NoCall]
                ELSE [frame EXCEPT ![c].op = "store"]
    /\ UNCHANGED <<alive, current, strategy, connections>>

\* The flag is loaded; an equal value is left alone ...
MarkLoad(c) ==
    /\ frame[c].op = "mark"
    /\ IF alive[frame[c].i] = frame[c].val
       THEN MarkFrom(c, frame[c].url, frame[c].val, frame[c].i + 1)
       ELSE frame' = [frame EXCEPT ![c].op = "store"]
    /\ UNCHANGED <<alive, current, strategy, connections>>

\* Mutant: the flag is turned, whatever it is by now.
MarkStoreTurns(c) ==
    /\ frame[c].op = "store"
    /\ alive' = [alive EXCEPT ![frame[c].i] = ~@]
    /\ MarkFrom(c, frame[c].url, frame[c].val, frame[c].i + 1)
    /\ UNCHANGED <<current, strategy, connections>>

\* ... and a different one is overwritten, in a later atomic operation.
MarkStore(c) ==
    /\ frame[c].op = "store"
    /\ alive' = [alive EXCEPT ![frame[c].i] = frame[c].val]
    /\ MarkFrom(c, frame[c].url, frame[c].val, frame[c].i + 1)
    /\ UNCHANGED <<current, strategy, connections>>

-----------------------------------------------------------------------------
(* The operations that are one critical section each.                      *)

SetStrategy(s) ==
    /\ \A c \in Callers : ~HoldsReadLock(c)
    /\ strategy' = s
    /\ UNCHANGED <<alive, current, connections, frame>>

IncrementConnections(b) ==
    /\ connections[UrlOf[b]] < MaxConnections
    /\ connections' = [connections EXCEPT ![UrlOf[b]] = @ + 1]
    /\ UNCHANGED <<alive, current, strategy, frame>>

\* Mutant: a count is decremented below zero.
DecrementConnectionsAlways(b) ==
    /\ connections' = [connections EXCEPT ![UrlOf[b]] = @ - 1]
    /\ UNCHANGED <<alive, current, strategy, frame>>

DecrementConnections(b) ==
    /\ connections[UrlOf[b]] > 0
    /\ connections' = [connections EXCEPT ![UrlOf[b]] = @ - 1]
    /\ UNCHANGED <<alive, current, strategy, frame>>

-----------------------------------------------------------------------------
Scan(c) == ScanRoundRobin(c) \/ ScanRandom(c) \/ ScanLeast(c) \/ CountConnections(c)
Mark(c) == MarkLoad(c) \/ MarkStore(c)

Step(c) ==
    \/ GetNextHealthyBackend(c)
    \/ Scan(c)
    \/ Return(c)
    \/ \E u \in Urls, v \in BOOLEAN : MarkBackendStatus(c, u, v)
    \/ Mark(c)

Next ==
    \/ \E c \in Callers : Step(c)
    \/ \E s \in Strategies : SetStrategy(s)
    \/ \E b \in Backends : IncrementConnections(b) \/ DecrementConnections(b)

\* A goroutine inside the pool holds only a read lock and never waits: it is
\* scheduled until it leaves.
Fairness == \A c \in Callers : WF_vars(Scan(c) \/ Mark(c))

Spec == Init /\ [][Next]_vars /\ Fairness
=============================================================================
