------------------------- MODULE LoadBalancerHistory -------------------------
(***************************************************************************)
(* The load balancer observed, and what makes it correct.  Three history   *)
(* variables remember, for every request in progress, which backends it    *)
(* has condemned, which were sound all along and how many of its attempts  *)
(* came after the last ticket of anybody else.  They constrain no step.    *)
(***************************************************************************)
EXTENDS LoadBalancer

VARIABLES
    condemned, \* backends the request failed on, whose flag no check raised since
    sound,     \* backends up and alive at every moment of the request
    streak     \* its attempts since another request last drew a ticket

history == <<condemned, sound, streak>>
hvars == <<vars, history>>

Sound == {b \in Backends : up[b] /\ alive[b]}
InFlight(r) == pc[r] \notin {"idle", "done"}

HInit ==
    /\ Init
    /\ condemned = [r \in Requests |-> {}]
    /\ sound = [r \in Requests |-> {}]
    /\ streak = [r \in Requests |-> 0]

Revived == {b \in Backends : ~alive[b] /\ alive'[b]}

Condemn(r) ==
    IF ~InFlight(r)' THEN {}
    ELSE (condemned[r] \ Revived)
           \cup (IF pc[r] = "forward" /\ pc'[r] = "mark" THEN {target[r]} ELSE {})

\* What is left of the backends that were sound since r arrived.
StillSound(r) ==
    IF ~InFlight(r)' THEN {}
    ELSE IF InFlight(r) THEN sound[r] \cap Sound' ELSE Sound'

\* An attempt begins with the ticket of its lookup.
BeginsAttempt(r) == pc[r] # "pick" /\ pc'[r] = "pick"

Streak(r) ==
    IF ~InFlight(r)' \/ \E q \in Requests \ {r} : BeginsAttempt(q) THEN 0
    ELSE IF BeginsAttempt(r) THEN streak[r] + 1 ELSE streak[r]

Observe ==
    /\ condemned' = [r \in Requests |-> Condemn(r)]
    /\ sound' = [r \in Requests |-> StillSound(r)]
    /\ streak' = [r \in Requests |-> Streak(r)]

HSpec == HInit /\ [][Next /\ Observe]_hvars /\ Fairness

-----------------------------------------------------------------------------
\* A request never tries again a backend it has failed on, unless a check
\* has raised its flag since, be it with a verdict older than the failure: the
\* mark is written before the next lookup begins and nothing else undoes it,
\* whatever other goroutines do (HandleRequest, lines 75-82).
RetryAvoidsCondemned ==
    \A r \in Requests : pc[r] \in {"forward", "copy"} => target[r] \notin condemned[r]

\* A request is not refused while some backend was up and marked alive from
\* its first to its last moment.
No503PastASoundBackend ==
    [][ \A r \in Requests :
          (answer[r] # "503" /\ answer'[r] = "503") => sound[r] = {} ]_hvars

\* Against the monitor that promise cannot be kept: others can overtake a
\* request at each of its attempts, so that all its tickets lead it past the
\* sound backend.  But it is refused past one only after MaxAttempts failures,
\* never by a lookup, and only if another request has drawn a ticket since its
\* last N attempts began: N tickets in a row go once around the table
\* (getRoundRobinBackend, lines 237-247; HandleRequest, lines 47-83).
RefusedOnlyIfOvertaken ==
    [][ \A r \in Requests :
          (answer[r] # "503" /\ answer'[r] = "503")
             => sound[r] = {} \/ (pc[r] = "mark" /\ streak[r] < N) ]_hvars
=============================================================================
