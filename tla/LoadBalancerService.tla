------------------------- MODULE LoadBalancerService -------------------------
(***************************************************************************)
(* HandleRequest (internal/core/app/loadbalancer_service.go) and the       *)
(* forwarder it calls (internal/adapters/secondary/proxy/reverse_proxy.go).*)
(*                                                                         *)
(* A request is one goroutine of the HTTP server.  It asks the pool for a  *)
(* backend, forwards, and on an error marks the backend and tries again,   *)
(* at most MaxAttempts times.  The pool is another module: a request is in *)
(* it in state "pick", and in state "mark" until the mark has returned;    *)
(* the result of a lookup is a parameter.                                  *)
(*                                                                         *)
(* Of the reverse proxy of net/http/httputil the model keeps what          *)
(* HandleRequest can tell apart.  An error before the response has begun   *)
(* goes to the ErrorHandler and out of Forward; an error after it began    *)
(* (state "copy") panics with ErrAbortHandler and ends the goroutine, with *)
(* neither a mark nor an answer.  A status of 5xx is a success.  ServeHTTP *)
(* closes the body of the request when it returns, so that a later attempt *)
(* cannot send it ("spent").  The client can make an attempt fail as well, *)
(* on whatever backend: it goes away, which cancels the context of the     *)
(* request, its body breaks off, or the upgrade of the protocol it asks    *)
(* for cannot be made.                                                     *)
(***************************************************************************)
EXTENDS Naturals

CONSTANTS
    Requests,    \* goroutines of the HTTP server
    Entries,     \* what the pool may answer
    MaxAttempts, \* serviceMaxRetries
    Kinds,       \* which requests arrive: with no body, a "fresh" one, an "upgrade"
    ClientsFail, \* whether clients may make an attempt fail
    None

VARIABLES
    pc,       \* where each request is
    attempts, \* the attempts begun so far
    target,   \* the backend of the current attempt, of the last one in "pick"
    body,     \* the body of the request
    gone,     \* the client has closed the connection
    answer    \* how the request ended

serviceVars == <<pc, attempts, target, body, gone, answer>>

ServiceTypeOK ==
    /\ pc \in [Requests -> {"idle", "loop", "pick", "forward", "copy", "mark", "done"}]
    /\ attempts \in [Requests -> 0 .. MaxAttempts]
    /\ target \in [Requests -> Entries \cup {None}]
    /\ body \in [Requests -> {"none", "fresh", "spent", "upgrade"}]
    /\ gone \in [Requests -> BOOLEAN]
    /\ answer \in [Requests -> {"none", "ok", "503", "aborted"}]
    /\ \A r \in Requests :
          pc[r] \in {"forward", "copy", "mark"} => target[r] \in Entries

ServiceInit ==
    /\ pc = [r \in Requests |-> "idle"]
    /\ attempts = [r \in Requests |-> 0]
    /\ target = [r \in Requests |-> None]
    /\ body = [r \in Requests |-> "none"]
    /\ gone = [r \in Requests |-> FALSE]
    /\ answer = [r \in Requests |-> "none"]

Goto(r, from, to) == pc[r] \in from /\ pc' = [pc EXCEPT ![r] = to]

Respond(r, from, a) ==
    /\ Goto(r, from, "done")
    /\ answer' = [answer EXCEPT ![r] = a]
    /\ target' = [target EXCEPT ![r] = None]

-----------------------------------------------------------------------------
Arrive(r, k) ==
    /\ Goto(r, {"idle"}, "loop")
    /\ body' = [body EXCEPT ![r] = k]
    /\ UNCHANGED <<attempts, target, gone, answer>>

\* Mutant: the attempts are not counted.
NextAttemptForever(r) ==
    /\ Goto(r, {"loop", "mark"}, "pick")
    /\ UNCHANGED <<attempts, target, body, gone, answer>>

\* The condition of the loop, at first or after a mark: another attempt, which
\* begins in the pool ...
NextAttempt(r) ==
    /\ attempts[r] < MaxAttempts
    /\ Goto(r, {"loop", "mark"}, "pick")
    /\ attempts' = [attempts EXCEPT ![r] = @ + 1]
    /\ UNCHANGED <<target, body, gone, answer>>

\* Mutant: the first failure ends the loop.
GiveUpAtOnce(r) ==
    /\ Respond(r, {"mark"}, "503")
    /\ UNCHANGED <<attempts, body, gone>>

\* ... or the end of the attempts.
GiveUp(r) ==
    /\ attempts[r] = MaxAttempts
    /\ Respond(r, {"mark"}, "503")
    /\ UNCHANGED <<attempts, body, gone>>

\* Mutant: found is not looked at.
PickedAnything(r, b) ==
    /\ Goto(r, {"pick"}, "forward")
    /\ target' = [target EXCEPT ![r] = b]
    /\ UNCHANGED <<attempts, body, gone, answer>>

\* The pool has answered b; with no backend the loop is left at once.
Picked(r, b) ==
    /\ \/ /\ b # None
          /\ Goto(r, {"pick"}, "forward")
          /\ target' = [target EXCEPT ![r] = b]
          /\ UNCHANGED answer
       \/ b = None /\ Respond(r, {"pick"}, "503")
    /\ UNCHANGED <<attempts, body, gone>>

-----------------------------------------------------------------------------
\* Forward, with serving the set of backends that accept and answer now.

CanSend(r, serving) == target[r] \in serving /\ body[r] # "spent"

\* The response header arrives and is passed on to the client.
ResponseBegins(r, serving) ==
    /\ CanSend(r, serving)
    /\ Goto(r, {"forward"}, "copy")
    /\ UNCHANGED <<attempts, target, body, gone, answer>>

\* The client has gone, or its body or the upgrade may break.
ClientMayFail(r) == gone[r] \/ (ClientsFail /\ body[r] \in {"fresh", "upgrade"})

\* The ErrorHandler captures an error and Forward returns it.  HandleRequest
\* marks the backend, whatever the error was.
ForwardFails(r, serving) ==
    /\ ~CanSend(r, serving) \/ ClientMayFail(r)
    /\ Goto(r, {"forward"}, "mark")
    /\ body' = [body EXCEPT ![r] = IF @ = "fresh" THEN "spent" ELSE @]
    /\ UNCHANGED <<attempts, target, gone, answer>>

\* The response is complete, Forward returns nil.
ForwardSucceeds(r) ==
    /\ Respond(r, {"copy"}, "ok")
    /\ UNCHANGED <<attempts, body, gone>>

\* The backend or the client is lost in the middle of the response.
ForwardPanics(r, serving) ==
    /\ target[r] \notin serving \/ gone[r]
    /\ Respond(r, {"copy"}, "aborted")
    /\ UNCHANGED <<attempts, body, gone>>

-----------------------------------------------------------------------------
InFlight(r) == pc[r] \notin {"idle", "done"}

\* The client closes the connection: the context of the request is cancelled.
Leave(r) ==
    /\ ClientsFail /\ InFlight(r) /\ ~gone[r]
    /\ gone' = [gone EXCEPT ![r] = TRUE]
    /\ UNCHANGED <<pc, attempts, target, body, answer>>

\* The goroutine ends; the model reuses its name for another request.
Finish(r) ==
    /\ Goto(r, {"done"}, "idle")
    /\ attempts' = [attempts EXCEPT ![r] = 0]
    /\ body' = [body EXCEPT ![r] = "none"]
    /\ gone' = [gone EXCEPT ![r] = FALSE]
    /\ answer' = [answer EXCEPT ![r] = "none"]
    /\ UNCHANGED target
=============================================================================
