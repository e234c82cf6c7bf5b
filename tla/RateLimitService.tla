-------------------------- MODULE RateLimitService --------------------------
(***************************************************************************)
(* The service behind the rate-limit API                                   *)
(* (internal/core/app/ratelimit_service.go, called by                      *)
(* internal/adapters/primary/http/rate_limit_api_handler.go).              *)
(*                                                                         *)
(* It keeps a table of settings of its own next to the limiter's.  A change*)
(* holds s.mu from the write to its own table until the limiter has        *)
(* returned; Get and List take s.mu for reading, so they see the table only*)
(* while no change is under way.  Requests that are refused before the lock*)
(* (bad JSON, a capacity or rate not above zero, an empty or unknown       *)
(* client) change nothing.                                                 *)
(***************************************************************************)
EXTENDS Integers

CONSTANTS
    Handlers,  \* goroutines of the HTTP server that serve the API
    Clients,
    Requested, \* the settings clients of the API ask for
    None       \* no settings

VARIABLES
    settings, \* s.settings
    call      \* what each handler is about to ask the limiter, holding s.mu

serviceVars == <<settings, call>>

NoChange == [op |-> "none"]

Valid(s) == s.capacity > 0 /\ s.rate > 0

Change == [op : {"set"}, client : Clients, settings : {s \in Requested : Valid(s)}]
             \cup [op : {"remove"}, client : Clients]

ServiceTypeOK ==
    /\ settings \in [Clients -> {s \in Requested : Valid(s)} \cup {None}]
    /\ call \in [Handlers -> Change \cup {NoChange}]

ServiceInit ==
    /\ settings = [c \in Clients |-> None]
    /\ call = [h \in Handlers |-> NoChange]

-----------------------------------------------------------------------------
\* s.mu is not held for writing, as far as changes are concerned.
Unlocked == \A h \in Handlers : call[h] = NoChange

\* Mutant: s.mu is released before the limiter is called.
CreateOrUpdateClientUnlocked(h, c, s) ==
    /\ Valid(s)
    /\ call[h] = NoChange
    /\ settings' = [settings EXCEPT ![c] = s]
    /\ call' = [call EXCEPT ![h] = [op |-> "set", client |-> c, settings |-> s]]

CreateOrUpdateClient(h, c, s) ==
    /\ Valid(s)
    /\ Unlocked
    /\ settings' = [settings EXCEPT ![c] = s]
    /\ call' = [call EXCEPT ![h] = [op |-> "set", client |-> c, settings |-> s]]

RemoveClient(h, c) ==
    /\ Unlocked
    /\ settings[c] # None
    /\ settings' = [settings EXCEPT ![c] = None]
    /\ call' = [call EXCEPT ![h] = [op |-> "remove", client |-> c]]

\* The limiter has returned; s.mu is released.
ChangeReturns(h) ==
    /\ call[h] # NoChange
    /\ call' = [call EXCEPT ![h] = NoChange]
    /\ UNCHANGED settings
=============================================================================
