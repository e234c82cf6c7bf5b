-------------------------- MODULE MemoryRateLimiter --------------------------
(***************************************************************************)
(* The in-memory token buckets                                             *)
(* (internal/adapters/secondary/rate_limiter/memory/token_bucket.go).      *)
(*                                                                         *)
(* rl.mu makes every operation of the limiter one step: Allow, SetRateLimit*)
(* and RemoveRateLimit hold it for writing, and the refill goroutine holds *)
(* it for reading from its first bucket to its last.                       *)
(*                                                                         *)
(* Time passes in units of 1/Second.  A bucket keeps its age, the time     *)
(* since lastRefill; tokens is an int64.  The refill goroutine wakes up on *)
(* a tick of a one-second ticker, at once or late.                         *)
(***************************************************************************)
EXTENDS Integers

CONSTANTS
    Clients, \* client identifiers, as getClientID builds them
    Second,  \* units of time in a second
    MaxInt,  \* the largest int64
    MaxAge,  \* bound on an age: how late the refill goroutine may be
    None     \* no bucket

ASSUME TimeAssumption == Second \in Nat \ {0} /\ MaxAge \in Nat /\ MaxAge >= 2 * Second
ASSUME WidthAssumption == MaxInt \in Nat

VARIABLES
    bucket,     \* rl.clients: the bucket of each client that has a limit
    phase,      \* time since the last tick
    tick,       \* a tick is waiting in ticker.C, a channel of capacity one
    refillLoop, \* the refill goroutine
    stopCh      \* Stop has been called

limiterVars == <<bucket, phase, tick, refillLoop, stopCh>>

Limited(c) == bucket[c] # None

BucketType == [tokens : -(MaxInt + 1) .. MaxInt, capacity : 1 .. MaxInt,
               rate : 1 .. MaxInt, age : 0 .. MaxAge]

LimiterTypeOK ==
    /\ bucket \in [Clients -> BucketType \cup {None}]
    /\ \A c \in Clients : Limited(c) => bucket[c].tokens <= bucket[c].capacity
    /\ phase \in 0 .. Second - 1
    /\ tick \in BOOLEAN
    /\ refillLoop \in {"running", "stopped"}
    /\ stopCh \in BOOLEAN

LimiterInit ==
    /\ bucket = [c \in Clients |-> None]
    /\ phase = 0
    /\ tick = FALSE
    /\ refillLoop = "running"
    /\ stopCh = FALSE

-----------------------------------------------------------------------------
\* A client without a limit may do everything.
Allow(c) ==
    /\ Limited(c) => bucket[c].tokens > 0
    /\ bucket' = IF Limited(c) THEN [bucket EXCEPT ![c].tokens = @ - 1] ELSE bucket
    /\ UNCHANGED <<phase, tick, refillLoop, stopCh>>

\* The bucket of c is replaced by a new one, which is full.
SetRateLimit(c, s) ==
    /\ bucket' = [bucket EXCEPT ![c] = [tokens |-> s.capacity, capacity |-> s.capacity,
                                        rate |-> s.rate, age |-> 0]]
    /\ UNCHANGED <<phase, tick, refillLoop, stopCh>>

RemoveRateLimit(c) ==
    /\ bucket' = [bucket EXCEPT ![c] = None]
    /\ UNCHANGED <<phase, tick, refillLoop, stopCh>>

-----------------------------------------------------------------------------
\* A sum of two int64 of which neither is much below zero.
Wrap(n) == IF n > MaxInt THEN n - 2 * (MaxInt + 1) ELSE n

Minimum(m, n) == IF m < n THEN m ELSE n

TokensToAdd(b) == (b.age * b.rate) \div Second

\* Mutants: the capacity is not looked at; the tokens left over are lost;
\* lastRefill is not moved.
RefilledOver(b) ==
    IF TokensToAdd(b) > 0
    THEN [b EXCEPT !.tokens = Wrap(b.tokens + TokensToAdd(b)), !.age = 0]
    ELSE b

RefilledFromZero(b) ==
    IF TokensToAdd(b) > 0
    THEN [b EXCEPT !.tokens = Minimum(b.capacity, TokensToAdd(b)), !.age = 0]
    ELSE b

RefilledAgain(b) ==
    IF TokensToAdd(b) > 0
    THEN [b EXCEPT !.tokens = Minimum(b.capacity, Wrap(b.tokens + TokensToAdd(b)))]
    ELSE b

\* Only a refill that adds something moves lastRefill; what is left of the
\* last whole token is then forgotten.
Refilled(b) ==
    IF TokensToAdd(b) > 0
    THEN [b EXCEPT !.tokens = Minimum(b.capacity, Wrap(b.tokens + TokensToAdd(b))),
                   !.age = 0]
    ELSE b

\* Mutant: the goroutine ends with the first refill.
RefillOnce ==
    /\ refillLoop = "running" /\ tick
    /\ tick' = FALSE
    /\ bucket' = [c \in Clients |-> IF Limited(c) THEN Refilled(bucket[c]) ELSE None]
    /\ refillLoop' = "stopped"
    /\ UNCHANGED <<phase, stopCh>>

RefillAll ==
    /\ refillLoop = "running" /\ tick
    /\ tick' = FALSE
    /\ bucket' = [c \in Clients |-> IF Limited(c) THEN Refilled(bucket[c]) ELSE None]
    /\ UNCHANGED <<phase, refillLoop, stopCh>>

RefillStops ==
    /\ refillLoop = "running" /\ stopCh
    /\ refillLoop' = "stopped"
    /\ UNCHANGED <<bucket, phase, tick, stopCh>>

\* The channel is closed and the ticker stopped.  main calls Stop once.
StopLimiter ==
    /\ ~stopCh
    /\ stopCh' = TRUE
    /\ UNCHANGED <<bucket, phase, tick, refillLoop>>

\* One unit of time.  A tick that finds the channel full is dropped.
PassTime ==
    /\ \A c \in Clients : Limited(c) => bucket[c].age < MaxAge
    /\ bucket' = [c \in Clients |-> IF Limited(c)
                                    THEN [bucket[c] EXCEPT !.age = @ + 1] ELSE None]
    /\ phase' = (phase + 1) % Second
    /\ tick' = (tick \/ (phase + 1 = Second /\ ~stopCh))
    /\ UNCHANGED <<refillLoop, stopCh>>
=============================================================================
