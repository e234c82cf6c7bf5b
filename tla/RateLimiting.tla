---------------------------- MODULE RateLimiting ----------------------------
(***************************************************************************)
(* Rate limiting with the in-memory limiter: the middleware asks it for    *)
(* every request, the API changes it through the service, its own goroutine*)
(* refills it.  cmd/lb/main.go gives the middleware and the service the    *)
(* same limiter.                                                           *)
(*                                                                         *)
(* A history variable counts what a client is granted in a window of time, *)
(* opened at any moment while it has a limit.                              *)
(***************************************************************************)
EXTENDS MemoryRateLimiter

CONSTANTS
    Handlers,  \* goroutines of the HTTP server that serve the API
    Requested, \* the settings clients of the API ask for
    MaxWindow  \* length of the longest window that is looked at

ASSUME SettingsAssumption ==
    Requested \subseteq [capacity : 0 .. MaxInt, rate : 0 .. MaxInt]
ASSUME NoneAssumption == None \notin Requested /\ None \notin BucketType
ASSUME WindowAssumption == MaxWindow \in Nat

VARIABLES settings, call \* the service

Service == INSTANCE RateLimitService

serviceVars == <<settings, call>>

\* Per client: the requests granted in the window, its length so far, and
\* the age and the tokens of the bucket when it was opened.
VARIABLE window

vars == <<limiterVars, serviceVars, window>>

Opened(b) == [granted |-> 0, length |-> 0, age |-> b.age, tokens |-> b.tokens]

Closed == [granted |-> 0, length |-> 0, age |-> 0, tokens |-> 0]

Init ==
    /\ LimiterInit
    /\ Service!ServiceInit
    /\ window = [c \in Clients |-> Closed]

-----------------------------------------------------------------------------
(* The middleware                                                          *)

\* A granted request goes on to the load balancer; a refused one is answered
\* 429 and changes nothing.
Request(c) ==
    /\ Allow(c)
    /\ window' = IF Limited(c) THEN [window EXCEPT ![c].granted = @ + 1] ELSE window
    /\ UNCHANGED serviceVars

-----------------------------------------------------------------------------
(* The API                                                                 *)

PostClient(h, c, s) ==
    /\ Service!CreateOrUpdateClient(h, c, s)
    /\ UNCHANGED <<limiterVars, window>>

DeleteClient(h, c) ==
    /\ Service!RemoveClient(h, c)
    /\ UNCHANGED <<limiterVars, window>>

LimiterIsSet(h) ==
    /\ call[h].op = "set"
    /\ SetRateLimit(call[h].client, call[h].settings)
    /\ Service!ChangeReturns(h)
    /\ window' = [window EXCEPT ![call[h].client] = Opened(bucket'[call[h].client])]

LimiterIsRemoved(h) ==
    /\ call[h].op = "remove"
    /\ RemoveRateLimit(call[h].client)
    /\ Service!ChangeReturns(h)
    /\ window' = [window EXCEPT ![call[h].client] = Closed]

-----------------------------------------------------------------------------
(* Time                                                                    *)

Refill ==
    /\ RefillAll
    /\ UNCHANGED <<serviceVars, window>>

Clock ==
    /\ PassTime
    /\ window' = [c \in Clients |->
                    IF ~Limited(c) THEN Closed
                    ELSE IF window[c].length < MaxWindow
                         THEN [window[c] EXCEPT !.length = @ + 1]
                         ELSE Opened(bucket'[c])]
    /\ UNCHANGED serviceVars

Stop ==
    /\ StopLimiter \/ RefillStops
    /\ UNCHANGED <<serviceVars, window>>

OpenWindow(c) ==
    /\ Limited(c)
    /\ window' = [window EXCEPT ![c] = Opened(bucket[c])]
    /\ UNCHANGED <<limiterVars, serviceVars>>

Next ==
    \/ \E c \in Clients : Request(c) \/ OpenWindow(c)
    \/ \E h \in Handlers :
          \/ \E c \in Clients, s \in Requested : PostClient(h, c, s)
          \/ \E c \in Clients : DeleteClient(h, c)
          \/ LimiterIsSet(h) \/ LimiterIsRemoved(h)
    \/ Refill \/ Clock \/ Stop

\* Time passes, and a goroutine that can run is scheduled: the refill
\* goroutine after a tick, and a handler that holds s.mu.
Fairness ==
    /\ WF_vars(Clock)
    /\ WF_vars(Refill)
    /\ \A h \in Handlers : WF_vars(LimiterIsSet(h) \/ LimiterIsRemoved(h))

Spec == Init /\ [][Next]_vars /\ Fairness

-----------------------------------------------------------------------------
TypeOK ==
    /\ LimiterTypeOK
    /\ Service!ServiceTypeOK

\* The promise of the token bucket: in a window of time no client is granted
\* more than the capacity of its bucket and what flows in meanwhile at the
\* rate it was given, where the flow since the last refill before the window
\* counts too (Allow, lines 62-65; refillAll, lines 122-129).
BurstBound ==
    \A c \in Clients : Limited(c) =>
       Second * window[c].granted
          <= Second * bucket[c].capacity
               + bucket[c].rate * (window[c].age + window[c].length)

\* There is room in an int64 for a full bucket and the largest refill.
Roomy(b) == b.capacity + (MaxAge * b.rate) \div Second <= MaxInt

\* A token is only lost by a grant: a client is never refused before it was
\* granted, since any moment, the tokens it had then.  A refill gives this
\* only if the sum of the tokens cannot overflow (refillAll, lines 124-128).
NothingLost ==
    \A c \in Clients : (Limited(c) /\ Roomy(bucket[c])) =>
       bucket[c].tokens >= 0
         /\ bucket[c].tokens + window[c].granted >= window[c].tokens

Limits(c) == IF Limited(c)
             THEN [capacity |-> bucket[c].capacity, rate |-> bucket[c].rate]
             ELSE None

\* What the API lists is what the middleware enforces, at every moment a
\* reader can look, whatever changes run at the same time
\* (CreateOrUpdateClient and RemoveClient, ratelimit_service.go, lines
\* 39-44 and 55-63).
ListedIsEnforced ==
    Service!Unlocked => \A c \in Clients : settings[c] = Limits(c)

\* An empty bucket gets a token as long as the limiter is not stopped, even
\* at the lowest rate and however late the refills are.
EmptyBucketRefills ==
    \A c \in Clients :
       (Limited(c) /\ Roomy(bucket[c]) /\ bucket[c].tokens = 0)
          ~> (stopCh \/ ~Limited(c) \/ bucket[c].tokens > 0)
=============================================================================
