-------------------------- MODULE MemoryPoolHistory --------------------------
(***************************************************************************)
(* The memory pool observed: history variables that record, for every      *)
(* lookup in progress, which entries kept their status since the lookup    *)
(* began.  They constrain no step of the pool.  What a lookup may answer   *)
(* while other goroutines flip the flags under it is stated with them.     *)
(***************************************************************************)
EXTENDS MemoryPool

VARIABLES
    upAll,   \* entries alive at every moment of the caller's lookup
    downAll, \* entries dead at every moment of the caller's lookup
    quiet    \* callers in a lookup since which no connection count changed

history == <<upAll, downAll, quiet>>
hvars == <<vars, history>>

HInit ==
    /\ Init
    /\ upAll = [c \in Callers |-> {}]
    /\ downAll = [c \in Callers |-> {}]
    /\ quiet = {}

Alive == {b \in Backends : alive[b]}

Lookup(c) == InLookup(c) \/ frame[c].op = "ret"

\* What an observer of the entries in state s (alive or dead) remembers for
\* caller c: all of them when a lookup begins, those still in s while it
\* scans, and from the answer on no change.
Remember(c, seen, s) ==
    CASE ~Lookup(c)' -> {}
      [] Lookup(c)' /\ ~Lookup(c) -> s
      [] Lookup(c)' /\ InLookup(c) -> seen \cap s
      [] OTHER -> seen

Observe ==
    /\ upAll' = [c \in Callers |-> Remember(c, upAll[c], Alive')]
    /\ downAll' = [c \in Callers |-> Remember(c, downAll[c], Backends \ Alive')]
    /\ quiet' = {c \in Callers : /\ Lookup(c)'
                                 /\ \/ ~Lookup(c)
                                    \/ c \in quiet /\ connections' = connections}

HSpec == HInit /\ [][Next /\ Observe]_hvars /\ Fairness

-----------------------------------------------------------------------------
(* What a lookup may answer.                                               *)

\* The entry at distance k from the ticket of caller c, on the ring.
FromTicket(c, k) == (frame[c].ticket + k) % N

\* Where the uint64 sum wraps within the loop that started at this ticket, the
\* ring is cut, unless N divides the range of the counter.
RingWhole(c) == frame[c].ticket + N <= CounterMod \/ CounterMod % N = 0

\* Round-robin answers the first entry of the ring, counted from the ticket
\* the atomic add gave to this caller: no entry before the answer was alive
\* throughout the lookup.  In particular, with nothing failing, every lookup
\* answers the entry of its own ticket, which is what spreads the requests
\* evenly whatever the interleaving (getRoundRobinBackend, lines 237-247).
RingOrder ==
    \A c \in Callers :
       (frame[c].op = "ret" /\ frame[c].by = "round-robin" /\ RingWhole(c)) =>
          /\ \A k \in 0 .. frame[c].i - 1 : FromTicket(c, k) \notin upAll[c]
          /\ frame[c].res # None => frame[c].res = FromTicket(c, frame[c].i)

\* "No healthy backend" is never answered while some entry was alive
\* throughout the lookup: the answer behind a 503 is not an artefact of the
\* loop racing the marks, under any of the three strategies.  Round-robin
\* gives that only while ticket + i does not wrap around 2^64, or
\* if N is a power of two (GetNextHealthyBackend, lines 126-151).
NoFalseUnhealthy ==
    \A c \in Callers :
       (frame[c].op = "ret" /\ frame[c].res = None) =>
          \/ upAll[c] = {}
          \/ frame[c].by = "round-robin" /\ ~RingWhole(c)

\* No lookup answers an entry that was dead from its first to its last step,
\* whichever entries change meanwhile (lines 160, 184 and 243).
NoDeadPick ==
    \A c \in Callers : frame[c].op = "ret" => frame[c].res \notin downAll[c]

\* Least-connections: when no count changed during the lookup, no entry
\* alive throughout has fewer connections than the answer.  The flag and the
\* count are read in different critical sections, entry by entry
\* (getLeastConnectionsBackend, lines 157-167).
LeastLoaded ==
    \A c \in quiet :
       ( /\ frame[c].op = "ret" /\ frame[c].by = "least-connections"
         /\ frame[c].res # None ) =>
          \A b \in upAll[c] :
             connections[UrlOf[frame[c].res]] <= connections[UrlOf[b]]

-----------------------------------------------------------------------------
(* The marks implement the abstract board.                                 *)

Matching(u) == {j \in Backends : UrlOf[j] = u}

todo == [c \in Callers |-> IF InMark(c)
                           THEN {j \in Matching(frame[c].url) : j >= frame[c].i}
                           ELSE {}]
val == [c \in Callers |-> frame[c].val]

Board == INSTANCE StatusBoard
           WITH Entries <- Backends, Groups <- {Matching(u) : u \in Urls}

\* MarkBackendStatus loads a flag and stores it in two atomic operations, and
\* two goroutines may mark the same URL with opposite verdicts; still every
\* mark takes effect once on every entry of its URL as one atomic write, and
\* ends (lines 104-124).
MarksAreAtomicWrites == Board!BoardSpec
=============================================================================
