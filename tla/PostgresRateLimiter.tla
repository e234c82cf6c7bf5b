------------------------ MODULE PostgresRateLimiter ------------------------
(***************************************************************************)
(* The PostgreSQL rate limiter (internal/adapters/secondary/rate_limiter/  *)
(* postgres/token_bucket.go): settings and tokens of a client are one row, *)
(* which Allow locks with SELECT ... FOR UPDATE, refills and writes back in*)
(* one transaction.                                                        *)
(*                                                                         *)
(* A statement that needs a locked row waits.  Every statement may fail,   *)
(* applied or not.  Time is relative: a row has the age of its last_refill,*)
(* and a transaction the time since it read the clock.                     *)
(***************************************************************************)
EXTENDS Integers

CONSTANTS
    Askers,   \* goroutines of the HTTP server inside the middleware
    Clients,
    Settings, \* the limits a client may have
    None,
    Second,   \* units of time in a second
    MaxInt,   \* the largest int64
    MaxAge,   \* ages are counted so far,
    MaxLag    \* and a transaction or a statement is slow so long

VARIABLES
    row,  \* rate_limits
    lock, \* the transaction that has locked the row of a client
    ask   \* where each goroutine is in Allow

limiterVars == <<row, lock>>

Ended(verdict) == [at |-> "idle", verdict |-> verdict]

\* tokens are what the transaction is about to write.
Asks ==
    [at : {"begin", "select"}, client : Clients]
      \cup [at : {"update"}, client : Clients, tokens : Nat, lag : 0 .. MaxLag]
      \cup [at : {"idle"}, verdict : {"passed", "refused", "panicked"}]

LimiterTypeOK ==
    /\ row \in [Clients -> [limit : Settings, tokens : Nat, age : 0 .. MaxAge] \cup {None}]
    /\ lock \in [Clients -> Askers \cup {None}]

LimiterInit ==
    /\ row = [c \in Clients |-> None]
    /\ lock = [c \in Clients |-> None]

-----------------------------------------------------------------------------
(* Allow                                                                   *)

Goto(r, frame) == ask' = [ask EXCEPT ![r] = frame]

Finish(r, verdict) == Goto(r, Ended(verdict))

Allow(r, c) ==
    /\ ask[r].at = "idle"
    /\ Goto(r, [at |-> "begin", client |-> c])
    /\ UNCHANGED limiterVars

\* No transaction lets the request pass.
BeginTx(r) ==
    /\ ask[r].at = "begin"
    /\ \/ Goto(r, [ask[r] EXCEPT !.at = "select"])
       \/ Finish(r, "passed")
    /\ UNCHANGED limiterVars

Least(a, b) == IF a < b THEN a ELSE b

\* A sum of two int64 that are not negative.
Wrap(n) == IF n > MaxInt THEN n - 2 * (MaxInt + 1) ELSE n

\* The fraction of a token is cut off; the sum is compared with the capacity
\* after it has overflowed.
NewTokens(c) ==
    Least(row[c].limit.capacity,
          Wrap(row[c].tokens + (row[c].age * row[c].limit.rate) \div Second))

\* The row is locked and the clock is read.
SelectForUpdate(r) ==
    /\ ask[r].at = "select"
    /\ LET c == ask[r].client IN
         /\ lock[c] = None
         /\ row[c] # None /\ NewTokens(c) > 0
         /\ lock' = [lock EXCEPT ![c] = r]
         /\ Goto(r, [at |-> "update", client |-> c, tokens |-> NewTokens(c) - 1, lag |-> 0])
    /\ UNCHANGED row

\* Mutant: the transaction of a refused request is left open.
SelectRefusesLocked(r) ==
    /\ ask[r].at = "select"
    /\ LET c == ask[r].client IN
         /\ lock[c] = None
         /\ row[c] # None /\ NewTokens(c) <= 0
         /\ lock' = [lock EXCEPT ![c] = r]
    /\ Finish(r, "refused")
    /\ UNCHANGED row

\* Mutant: a refusal writes last_refill too.
SelectRefusesAndRefills(r) ==
    /\ ask[r].at = "select"
    /\ LET c == ask[r].client IN
         /\ lock[c] = None
         /\ row[c] # None /\ NewTokens(c) <= 0
         /\ row' = [row EXCEPT ![c] = [@ EXCEPT !.age = 0]]
    /\ Finish(r, "refused")
    /\ UNCHANGED lock

\* Too few tokens: the transaction is rolled back and the row stays as it is.
SelectRefuses(r) ==
    /\ ask[r].at = "select"
    /\ LET c == ask[r].client IN
         /\ lock[c] = None
         /\ row[c] # None /\ NewTokens(c) <= 0
    /\ Finish(r, "refused")
    /\ UNCHANGED limiterVars

\* No row, no limit; and an error lets the request pass.
SelectPasses(r) ==
    /\ ask[r].at = "select"
    /\ Finish(r, "passed")
    /\ UNCHANGED limiterVars

Unlock(c) == lock' = [lock EXCEPT ![c] = None]

\* UPDATE and COMMIT.  last_refill is the time that was read under the lock.
Commit(r) ==
    /\ ask[r].at = "update"
    /\ LET c == ask[r].client IN
         /\ row' = [row EXCEPT ![c] = [@ EXCEPT !.tokens = ask[r].tokens, !.age = ask[r].lag]]
         /\ Unlock(c)
    /\ Finish(r, "passed")

\* UPDATE or COMMIT fails: the transaction is rolled back, the request passes.
CommitFails(r) ==
    /\ ask[r].at = "update"
    /\ Unlock(ask[r].client)
    /\ Finish(r, "passed")
    /\ UNCHANGED row

-----------------------------------------------------------------------------
(* SetRateLimit and RemoveRateLimit, one statement each                    *)

\* The row starts full, at the time read before the statement was sent.
Upsert(c, s, lag) ==
    /\ lock[c] = None
    /\ row' = [row EXCEPT ![c] = [limit |-> s, tokens |-> s.capacity, age |-> lag]]
    /\ UNCHANGED lock

DeleteRow(c) ==
    /\ lock[c] = None
    /\ row' = [row EXCEPT ![c] = None]
    /\ UNCHANGED lock

-----------------------------------------------------------------------------
\* The process ends; the server rolls its transactions back.
ConnectionsLost ==
    /\ lock' = [c \in Clients |-> None]
    /\ UNCHANGED row

Older(age) == Least(age + 1, MaxAge)

LimiterAges ==
    /\ row' = [c \in Clients |->
                 IF row[c] = None THEN None ELSE [row[c] EXCEPT !.age = Older(@)]]
    /\ UNCHANGED lock
=============================================================================
