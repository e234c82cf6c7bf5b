--------------------------- MODULE StoredLimiting ---------------------------
(***************************************************************************)
(* Rate limiting with a limiter that keeps its state in a store: the       *)
(* middleware asks it for every request, the API changes it through the    *)
(* service, and the process may restart between any two steps of either,   *)
(* while the stores keep what they have.                                   *)
(*                                                                         *)
(* A behaviour has one of the two limiters, as cmd/lb/main.go takes one of *)
(* them by STORAGE_TYPE.  main itself knows the hybrid limiter only; the   *)
(* PostgreSQL limiter fits the same ports and is composed the same way.    *)
(***************************************************************************)
EXTENDS Integers

CONSTANTS
    Askers,    \* goroutines of the HTTP server inside the middleware
    Handlers,  \* goroutines of the HTTP server that serve the API
    Clients,
    Requested, \* the settings clients of the API ask for
    Storages,  \* the limiters that are looked at
    None,
    Second,    \* units of time in a second, for the PostgreSQL limiter
    MaxInt,    \* the largest int64
    MaxAge, MaxLag,
    MaxWindow  \* length of the longest window that is looked at

ASSUME StorageAssumption == Storages \subseteq {"hybrid", "postgres"}
ASSUME WidthAssumption == MaxInt \in Nat
ASSUME SettingsAssumption ==
    Requested \subseteq [capacity : 0 .. MaxInt, rate : 0 .. MaxInt]
ASSUME NoneAssumption ==
    None \notin Askers \cup Requested \cup Nat
                 \cup [tokens : Nat, age : Nat] \cup [limit : Requested, tokens : Nat, age : Nat]
ASSUME TimeAssumption ==
    /\ Second \in Nat \ {0} /\ MaxAge \in Nat /\ MaxLag \in Nat
    /\ MaxWindow \in Nat /\ MaxLag <= MaxAge

VARIABLES
    storage,                \* the limiter of this process
    stored, cached, bucket, \* the stores of the hybrid limiter
    row, lock,              \* the store of the PostgreSQL limiter
    ask,                    \* the requests inside Allow
    settings, call,         \* the service
    written                 \* handlers whose change has reached PostgreSQL

Service == INSTANCE RateLimitService

Settings == {s \in Requested : Service!Valid(s)}

Hybrid == INSTANCE HybridRateLimiter
Postgres == INSTANCE PostgresRateLimiter

\* History, per client.
VARIABLES
    faulted,  \* its last change failed or came before the last restart
    raced,    \* a copy of older settings may get or stay in the cache
    outlived, \* requests that know its limit have outlived its removal
    window,   \* the tokens taken under one limit in a window of time
    since     \* the time since a token was taken last

hybridVars == <<stored, cached, bucket>>
postgresVars == <<row, lock>>
serviceVars == <<settings, call, written>>
history == <<faulted, raced, outlived, window, since>>
vars == <<storage, hybridVars, postgresVars, ask, serviceVars, history>>

NoWindow == [limit |-> None, granted |-> 0, length |-> 0, lag |-> 0]

Init ==
    /\ storage \in Storages
    /\ Hybrid!LimiterInit
    /\ Postgres!LimiterInit
    /\ ask = [r \in Askers |-> Hybrid!Ended("passed")]
    /\ Service!ServiceInit
    /\ written = [h \in Handlers |-> FALSE]
    /\ faulted = [c \in Clients |-> FALSE]
    /\ raced = [c \in Clients |-> FALSE]
    /\ outlived = [c \in Clients |-> FALSE]
    /\ window = [c \in Clients |-> NoWindow]
    /\ since = [c \in Clients |-> None]

-----------------------------------------------------------------------------
(* The middleware                                                          *)

\* A token of c was taken under the limit s, at the time lag ago.
Counted(c, s, lag) ==
    /\ window' = [window EXCEPT ![c] =
         IF @.limit = s THEN [@ EXCEPT !.granted = window[c].granted + 1]
         ELSE [limit |-> s, granted |-> 1, length |-> 0, lag |-> lag]]
    /\ since' = [since EXCEPT ![c] = 0]
    /\ UNCHANGED <<faulted, raced, outlived>>

HybridAsk(r) ==
    /\ storage = "hybrid"
    /\ \/ Hybrid!GetCached(r) \/ Hybrid!QuerySettings(r) \/ Hybrid!FillCache(r)
       \/ \E lag \in 0 .. MaxLag : Hybrid!EvalRefuses(r, lag)
       \/ Hybrid!EvalFails(r)
    /\ UNCHANGED <<storage, postgresVars, serviceVars, history>>

HybridGrant(r) ==
    /\ storage = "hybrid"
    /\ \E lag \in 0 .. MaxLag :
         /\ Hybrid!EvalGrants(r, lag)
         /\ Counted(ask[r].client, ask[r].limit, lag)
    /\ UNCHANGED <<storage, postgresVars, serviceVars>>

PostgresAsk(r) ==
    /\ storage = "postgres"
    /\ \/ Postgres!BeginTx(r)
       \/ Postgres!SelectForUpdate(r) \/ Postgres!SelectRefuses(r) \/ Postgres!SelectPasses(r)
       \/ Postgres!CommitFails(r)
    /\ UNCHANGED <<storage, hybridVars, serviceVars, history>>

PostgresGrant(r) ==
    /\ storage = "postgres"
    /\ Postgres!Commit(r)
    /\ Counted(ask[r].client, row[ask[r].client].limit, ask[r].lag)
    /\ UNCHANGED <<storage, hybridVars, serviceVars>>

\* A request enters the middleware.
Request(r, c) ==
    /\ \/ storage = "hybrid" /\ Hybrid!Allow(r, c) /\ UNCHANGED postgresVars
       \/ storage = "postgres" /\ Postgres!Allow(r, c) /\ UNCHANGED hybridVars
    /\ UNCHANGED <<storage, serviceVars, history>>

-----------------------------------------------------------------------------
(* The API                                                                 *)

PostClient(h, c, s) ==
    /\ Service!CreateOrUpdateClient(h, c, s)
    /\ UNCHANGED <<storage, hybridVars, postgresVars, ask, written, history>>

DeleteClient(h, c) ==
    /\ Service!RemoveClient(h, c)
    /\ UNCHANGED <<storage, hybridVars, postgresVars, ask, written, history>>

\* What the change of h does to the stores if it is applied.
Applied(h) ==
    LET c == call[h].client IN
    \/ /\ storage = "hybrid" /\ UNCHANGED postgresVars
       /\ \/ call[h].op = "set" /\ Hybrid!Upsert(c, call[h].settings)
          \/ call[h].op = "remove" /\ Hybrid!DeleteRow(c)
    \/ /\ storage = "postgres" /\ UNCHANGED hybridVars
       /\ \/ \E lag \in 0 .. MaxLag :
               call[h].op = "set" /\ Postgres!Upsert(c, call[h].settings, lag)
          \/ call[h].op = "remove" /\ Postgres!DeleteRow(c)

\* The tokens of a PostgreSQL row begin anew with its settings.
WindowsAfterChange(c) ==
    IF storage = "postgres" THEN [window EXCEPT ![c] = NoWindow] ELSE window

\* The hybrid limiter has a second store to change; the other one returns.
WritesNext(h) ==
    IF storage = "hybrid"
    THEN written' = [written EXCEPT ![h] = TRUE] /\ UNCHANGED <<settings, call>>
    ELSE Service!ChangeReturns(h) /\ UNCHANGED written

\* Requests that have read settings of c other than the ones stored now, and
\* not yet put them into the cache.
Racers(c) ==
    {r \in Askers : ask[r].at = "fill" /\ ask[r].client = c /\ ask[r].limit # stored'[c]}

Write(h) ==
    /\ call[h] # Service!NoChange /\ ~written[h]
    /\ Applied(h)
    /\ WritesNext(h)
    /\ faulted' = [faulted EXCEPT ![call[h].client] = FALSE]
    /\ raced' = [raced EXCEPT ![call[h].client] = Racers(call[h].client) # {}]
    /\ outlived' = [outlived EXCEPT ![call[h].client] = FALSE]
    /\ window' = WindowsAfterChange(call[h].client)
    /\ UNCHANGED <<storage, ask, since>>

\* PostgreSQL answers an error, whether it has applied the change or not.
\* SetRateLimit returns it, and so does the API; RemoveRateLimit goes on
\* with Redis, and the service ignores what it returns.
WriteFails(h) ==
    /\ call[h] # Service!NoChange /\ ~written[h]
    /\ \/ Applied(h) /\ window' = WindowsAfterChange(call[h].client)
       \/ UNCHANGED <<hybridVars, postgresVars, window>>
    /\ IF call[h].op = "set"
       THEN Service!ChangeReturns(h) /\ UNCHANGED written
       ELSE WritesNext(h)
    /\ faulted' = [faulted EXCEPT ![call[h].client] = TRUE]
    /\ raced' = [raced EXCEPT ![call[h].client] = TRUE]
    /\ UNCHANGED <<storage, ask, outlived, since>>

\* Requests that have settings of c in their hands.
Knowing(c) == {r \in Askers : ask[r].at \in {"fill", "eval"} /\ ask[r].client = c}

\* The Redis half of a change.
Drop(h) ==
    /\ written[h]
    /\ LET c == call[h].client IN
       \/ call[h].op = "set" /\ Hybrid!DropSettings(c) /\ UNCHANGED <<window, outlived>>
       \/ call[h].op = "remove" /\ Hybrid!DropKeys(c)
            /\ window' = [window EXCEPT ![c] = NoWindow]
            /\ outlived' = [outlived EXCEPT ![c] = Knowing(c) # {}]
    /\ Service!ChangeReturns(h)
    /\ written' = [written EXCEPT ![h] = FALSE]
    /\ UNCHANGED <<storage, postgresVars, ask, faulted, raced, since>>

\* Redis fails; SetRateLimit does not look, and the service ignores what
\* RemoveRateLimit returns.
DropFails(h) ==
    /\ written[h]
    /\ Service!ChangeReturns(h)
    /\ written' = [written EXCEPT ![h] = FALSE]
    /\ raced' = [raced EXCEPT ![call[h].client] = TRUE]
    /\ UNCHANGED <<storage, hybridVars, postgresVars, ask, faulted, outlived, window, since>>

-----------------------------------------------------------------------------
(* Restarts and time                                                       *)

\* The process starts again: requests and changes are gone, the table of
\* the service is empty, and nothing reads it back from the store.
Restart ==
    /\ ask' = [r \in Askers |-> Hybrid!Ended("passed")]
    /\ settings' = [c \in Clients |-> None]
    /\ call' = [h \in Handlers |-> Service!NoChange]
    /\ written' = [h \in Handlers |-> FALSE]
    /\ Postgres!ConnectionsLost
    /\ faulted' = [c \in Clients |-> TRUE]
    /\ raced' = [c \in Clients |-> raced[c] \/ \E h \in Handlers : written[h] /\ call[h].client = c]
    /\ UNCHANGED <<storage, hybridVars, outlived, window, since>>

Expire(c) ==
    /\ Hybrid!Expire(c)
    /\ UNCHANGED <<storage, postgresVars, ask, serviceVars, history>>

RedisRestarts ==
    /\ storage = "hybrid"
    /\ Hybrid!RedisRestarts
    /\ window' = [c \in Clients |-> NoWindow]
    /\ UNCHANGED <<storage, postgresVars, ask, serviceVars, faulted, raced, outlived, since>>

\* Requests that have a lag, and get slower.
Slow == {r \in Askers : ask[r].at \in {"eval", "update"}}

\* A unit of time passes: a second for the hybrid limiter.
Clock ==
    /\ \A r \in Slow : ask[r].lag < MaxLag
    /\ ask' = [r \in Askers |->
                 IF r \in Slow THEN [ask[r] EXCEPT !.lag = @ + 1] ELSE ask[r]]
    /\ Hybrid!LimiterAges
    /\ Postgres!LimiterAges
    /\ window' = [c \in Clients |->
                    IF window[c].limit # None /\ window[c].length < MaxWindow
                    THEN [window[c] EXCEPT !.length = @ + 1] ELSE NoWindow]
    /\ since' = [c \in Clients |-> IF since[c] = None THEN None ELSE Hybrid!Older(since[c])]
    /\ UNCHANGED <<storage, serviceVars, faulted, raced, outlived>>

\* The next grant opens a new window.
CloseWindow(c) ==
    /\ window' = [window EXCEPT ![c] = NoWindow]
    /\ UNCHANGED <<storage, hybridVars, postgresVars, ask, serviceVars, faulted, raced, outlived, since>>

-----------------------------------------------------------------------------
AskStep(r) == HybridAsk(r) \/ HybridGrant(r) \/ PostgresAsk(r) \/ PostgresGrant(r)
HandlerStep(h) == Write(h) \/ WriteFails(h) \/ Drop(h) \/ DropFails(h)

Next ==
    \/ \E r \in Askers : AskStep(r)
    \/ \E r \in Askers, c \in Clients : Request(r, c)
    \/ \E h \in Handlers : HandlerStep(h)
    \/ \E h \in Handlers, c \in Clients, s \in Requested : PostClient(h, c, s)
    \/ \E h \in Handlers, c \in Clients : DeleteClient(h, c)
    \/ \E c \in Clients : Expire(c) \/ CloseWindow(c)
    \/ Restart \/ RedisRestarts \/ Clock

Spec == Init /\ [][Next]_vars

-----------------------------------------------------------------------------
TypeOK ==
    /\ storage \in Storages
    /\ Hybrid!LimiterTypeOK
    /\ Postgres!LimiterTypeOK
    /\ ask \in [Askers -> IF storage = "hybrid" THEN Hybrid!Asks ELSE Postgres!Asks]
    /\ Service!ServiceTypeOK
    /\ written \in [Handlers -> BOOLEAN]
    /\ faulted \in [Clients -> BOOLEAN]
    /\ raced \in [Clients -> BOOLEAN]
    /\ outlived \in [Clients -> BOOLEAN]
    /\ window \in [Clients -> [limit : Settings \cup {None}, granted : Nat,
                               length : 0 .. MaxWindow, lag : 0 .. MaxLag]]
    /\ since \in [Clients -> 0 .. MaxAge \cup {None}]

\* The units of time in which a token flows at the rate one.
Unit == IF storage = "hybrid" THEN 1 ELSE Second

\* In a window of time in which one limit decides, a client is granted at
\* most its capacity and what flows in meanwhile, counting from when the
\* first of the requests read the clock, although requests reach the script
\* with clock readings in any order (hybrid.go, lines 118-139 and 145;
\* token_bucket.go of postgres, lines 90-107).
BurstBound ==
    \A c \in Clients : window[c].limit # None =>
       Unit * window[c].granted
         <= Unit * window[c].limit.capacity
              + window[c].limit.rate * (window[c].length + window[c].lag)

\* There is room in an int64 for a full row and all that flows into it.
Roomy(s) == s.capacity + (MaxAge * s.rate) \div Second <= MaxInt

\* A client is refused only if it was granted a token, and less than another
\* has flowed between its last grant and the moment the request read the clock:
\* neither refusals nor a change of the limits use up what flows in (hybrid.go,
\* lines 121-141; postgres, lines 90-119).  In PostgreSQL the limit must be
\* roomy: a sum of tokens that overflows is negative and refuses a client with
\* a full row (postgres, line 93).
RefusedSoonAfterGrant ==
    [][\A r \in Askers :
         (ask[r].at \in {"eval", "select"} /\ ask'[r] = Hybrid!Ended("refused")
            /\ (storage = "hybrid" \/ Roomy(row[ask[r].client].limit))) =>
            LET c == ask[r].client
                rate == IF storage = "hybrid" THEN ask[r].limit.rate ELSE row[c].limit.rate
                lag == IF storage = "hybrid" THEN ask[r].lag ELSE 0
            IN  since[c] # None /\ (since[c] - lag) * rate < Unit]_vars

\* The limit the store holds for c.
Kept(c) ==
    IF storage = "hybrid" THEN stored[c]
    ELSE IF row[c] = None THEN None ELSE row[c].limit

\* What the API lists is what the store keeps, whenever a reader can look,
\* for every client whose last change has not failed and was made since the
\* last restart (ratelimit_service.go, lines 39-44 and 55-63).
ListedIsKept ==
    Service!Unlocked => \A c \in Clients : faulted[c] \/ settings[c] = Kept(c)

\* Between changes the cache holds no other settings than the store, unless a
\* request that read the store before the change filled the cache after it,
\* or the change did not get to the cache: it failed or the process ended
\* (hybrid.go, lines 165-176 and 194-210).
StaleOnlyByRace ==
    \A c \in Clients :
       cached[c] \in {None, stored[c]} \/ raced[c]
         \/ \E h \in Handlers : written[h] /\ call[h].client = c

\* A client whose limits have been removed has no tokens left in the store,
\* where they would wait without expiration for its next limit, unless a
\* request that knew the limits outlived the removal, or the removal did not
\* get to Redis (hybrid.go, lines 63-98 and 129-139).
LeftoverOnlyByRace ==
    \A c \in Clients :
       bucket[c] = None \/ stored[c] # None \/ outlived[c] \/ raced[c]
         \/ \E h \in Handlers : written[h] /\ call[h].client = c

\* A locked row belongs to a transaction that is about to write it: no way
\* out of Allow, and no restart, leaves a lock behind (postgres, lines 71 and
\* 76-119).
LocksAreInUse ==
    \A c \in Clients : lock[c] # None =>
       ask[lock[c]].at = "update" /\ ask[lock[c]].client = c

\* What the end-to-end test and the PostgreSQL limiter say of a client
\* without a limit: its requests are served (tests/e2e/main_test.go, lines
\* 28-33; postgres, line 84).
UnlimitedPass == \A r \in Askers : ask[r] # Hybrid!Ended("panicked")
=============================================================================
