------------------------- MODULE HybridRateLimiter -------------------------
(***************************************************************************)
(* The hybrid rate limiter (internal/adapters/secondary/storage/hybrid/    *)
(* hybrid.go): the settings of a client are a row of PostgreSQL with a copy*)
(* in Redis that expires after an hour; its tokens are two keys of Redis,  *)
(* which a script reads and writes in one step.                            *)
(*                                                                         *)
(* Every call of a store is a step of its own and may fail, applied or not.*)
(* Time is relative and in whole seconds, as time.Now().Unix() gives it: a *)
(* bucket has the age of its last_refill.  A request reads the clock at    *)
(* some moment between its settings and the script, so the script works    *)
(* with a time that lags behind.                                           *)
(***************************************************************************)
EXTENDS Integers

CONSTANTS
    Askers,   \* goroutines of the HTTP server inside the middleware
    Clients,
    Settings, \* the limits a client may have
    None,
    MaxAge,   \* ages are counted so far,
    MaxLag    \* and a request is slow so long

VARIABLES
    stored, \* rate_limit_settings
    cached, \* the keys ratelimit:settings:<client>
    bucket, \* the keys ratelimit:<client>:tokens and :last_refill
    ask     \* where each goroutine is in Allow

limiterVars == <<stored, cached, bucket>>

Ended(verdict) == [at |-> "idle", verdict |-> verdict]

Asks ==
    [at : {"get", "query"}, client : Clients]
      \cup [at : {"fill", "eval"}, client : Clients, limit : Settings, lag : 0 .. MaxLag]
      \cup [at : {"idle"}, verdict : {"passed", "refused", "panicked"}]

LimiterTypeOK ==
    /\ stored \in [Clients -> Settings \cup {None}]
    /\ cached \in [Clients -> Settings \cup {None}]
    /\ bucket \in [Clients -> [tokens : Nat, age : 0 .. MaxAge] \cup {None}]

LimiterInit ==
    /\ stored = [c \in Clients |-> None]
    /\ cached = [c \in Clients |-> None]
    /\ bucket = [c \in Clients |-> None]

-----------------------------------------------------------------------------
(* Allow                                                                   *)

Goto(r, frame) == ask' = [ask EXCEPT ![r] = frame]

Finish(r, verdict) == Goto(r, Ended(verdict))

Allow(r, c) ==
    /\ ask[r].at = "idle"
    /\ Goto(r, [at |-> "get", client |-> c])
    /\ UNCHANGED limiterVars

With(at, r, s) == [at |-> at, client |-> ask[r].client, limit |-> s, lag |-> 0]

\* getSettings asks Redis; an error is a miss.
GetCached(r) ==
    /\ ask[r].at = "get"
    /\ \/ /\ cached[ask[r].client] # None
          /\ Goto(r, With("eval", r, cached[ask[r].client]))
       \/ Goto(r, [ask[r] EXCEPT !.at = "query"])
    /\ UNCHANGED limiterVars

\* getSettings asks PostgreSQL.  No row is no error but no settings either,
\* which Allow takes for settings and panics; an error lets the request pass.
QuerySettings(r) ==
    /\ ask[r].at = "query"
    /\ LET s == stored[ask[r].client] IN
         \/ s # None /\ Goto(r, With("fill", r, s))
         \/ s = None /\ Finish(r, "panicked")
         \/ Finish(r, "passed")
    /\ UNCHANGED limiterVars

\* The settings that were read go to the cache, or fail to.
FillCache(r) ==
    /\ ask[r].at = "fill"
    /\ cached' \in {cached, [cached EXCEPT ![ask[r].client] = ask[r].limit]}
    /\ Goto(r, With("eval", r, ask[r].limit))
    /\ UNCHANGED <<stored, bucket>>

Least(a, b) == IF a < b THEN a ELSE b

\* What the script finds in the bucket of c at the time lag seconds ago,
\* which may be before last_refill.
Refilled(c, s, lag) ==
    IF bucket[c] = None THEN s.capacity
    ELSE Least(s.capacity, bucket[c].tokens + (bucket[c].age - lag) * s.rate)

\* Mutant: a grant leaves last_refill where it is.
EvalGrantsKeepsRefill(r, lag) ==
    /\ ask[r].at = "eval"
    /\ lag <= ask[r].lag
    /\ LET c == ask[r].client
           tokens == Refilled(c, ask[r].limit, lag)
       IN  /\ tokens > 0
           /\ bucket' = [bucket EXCEPT ![c] =
                [tokens |-> tokens - 1, age |-> IF bucket[c] = None THEN lag ELSE bucket[c].age]]
    /\ Finish(r, "passed")
    /\ UNCHANGED <<stored, cached>>

\* Mutant: an empty bucket gives a token.
EvalGrantsEmpty(r, lag) ==
    /\ ask[r].at = "eval"
    /\ lag <= ask[r].lag
    /\ LET c == ask[r].client
           tokens == Refilled(c, ask[r].limit, lag)
       IN  /\ tokens >= 0
           /\ bucket' = [bucket EXCEPT ![c] = [tokens |-> tokens - 1, age |-> lag]]
    /\ Finish(r, "passed")
    /\ UNCHANGED <<stored, cached>>

\* The script refills the bucket, takes a token and writes both keys.
EvalGrants(r, lag) ==
    /\ ask[r].at = "eval"
    /\ lag <= ask[r].lag
    /\ LET c == ask[r].client
           tokens == Refilled(c, ask[r].limit, lag)
       IN  /\ tokens > 0
           /\ bucket' = [bucket EXCEPT ![c] = [tokens |-> tokens - 1, age |-> lag]]
    /\ Finish(r, "passed")
    /\ UNCHANGED <<stored, cached>>

\* The script writes nothing.
EvalRefuses(r, lag) ==
    /\ ask[r].at = "eval"
    /\ lag <= ask[r].lag
    /\ Refilled(ask[r].client, ask[r].limit, lag) <= 0
    /\ Finish(r, "refused")
    /\ UNCHANGED limiterVars

\* No answer of Redis lets the request pass.
EvalFails(r) ==
    /\ ask[r].at = "eval"
    /\ Finish(r, "passed")
    /\ UNCHANGED limiterVars

-----------------------------------------------------------------------------
(* SetRateLimit and RemoveRateLimit, a step for each store                 *)

\* Mutant: ON CONFLICT DO NOTHING.
UpsertNew(c, s) ==
    /\ stored' = IF stored[c] = None THEN [stored EXCEPT ![c] = s] ELSE stored
    /\ UNCHANGED <<cached, bucket>>

Upsert(c, s) ==
    /\ stored' = [stored EXCEPT ![c] = s]
    /\ UNCHANGED <<cached, bucket>>

DeleteRow(c) ==
    /\ stored' = [stored EXCEPT ![c] = None]
    /\ UNCHANGED <<cached, bucket>>

\* Mutant: SetRateLimit deletes another key.
DropSettingsNot(c) == UNCHANGED limiterVars

\* SetRateLimit deletes the cached settings and does not look at the result.
DropSettings(c) ==
    /\ cached' = [cached EXCEPT ![c] = None]
    /\ UNCHANGED <<stored, bucket>>

\* Mutant: RemoveRateLimit deletes the cached settings alone.
DropKeysButTokens(c) ==
    /\ cached' = [cached EXCEPT ![c] = None]
    /\ UNCHANGED <<stored, bucket>>

\* RemoveRateLimit deletes all the keys of the client.
DropKeys(c) ==
    /\ cached' = [cached EXCEPT ![c] = None]
    /\ bucket' = [bucket EXCEPT ![c] = None]
    /\ UNCHANGED stored

-----------------------------------------------------------------------------
(* Redis and time                                                          *)

\* The hour of the cached settings is over.
Expire(c) ==
    /\ cached[c] # None
    /\ DropSettings(c)

\* Redis starts again, empty.
RedisRestarts ==
    /\ cached' = [c \in Clients |-> None]
    /\ bucket' = [c \in Clients |-> None]
    /\ UNCHANGED stored

Older(age) == Least(age + 1, MaxAge)

LimiterAges ==
    /\ bucket' = [c \in Clients |->
                    IF bucket[c] = None THEN None
                    ELSE [bucket[c] EXCEPT !.age = Older(@)]]
    /\ UNCHANGED <<stored, cached>>
=============================================================================
