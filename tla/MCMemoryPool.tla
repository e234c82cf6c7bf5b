---------------------------- MODULE MCMemoryPool ----------------------------
(***************************************************************************)
(* Two small pools.                                                        *)
(*                                                                         *)
(* HSpec with three entries, two of which share a URL, and two callers     *)
(* that may do anything: two lookups share the counter, two marks race on  *)
(* one URL.  No connections are counted.                                   *)
(*                                                                         *)
(* RolesSpec with the same entries: one goroutine looks up, another marks, *)
(* connections come and go.  The range of the counter is no multiple of    *)
(* three, as 2^64 is not.                                                  *)
(***************************************************************************)
EXTENDS MemoryPoolHistory

CONSTANTS u1, u2, stranger, looker, marker

TwoUrls == [b \in Backends |-> IF b = N - 1 THEN u2 ELSE u1]

RolesNext ==
    \/ GetNextHealthyBackend(looker) \/ Scan(looker) \/ Return(looker)
    \/ \E u \in Urls, v \in BOOLEAN : MarkBackendStatus(marker, u, v)
    \/ Mark(marker)
    \/ \E s \in Strategies : SetStrategy(s)
    \/ \E b \in Backends : IncrementConnections(b) \/ DecrementConnections(b)

RolesSpec == HInit /\ [][RolesNext /\ Observe]_hvars /\ Fairness
=============================================================================
