--------------------------- MODULE MCRateLimiting ---------------------------
(***************************************************************************)
(* Settings for small buckets.  slow is refilled at less than a token per  *)
(* unit of time, huge leaves no room for a refill in its integer, and      *)
(* nothing is what the API must refuse.                                    *)
(***************************************************************************)
EXTENDS RateLimiting

slow == [capacity |-> 2, rate |-> 1]
quick == [capacity |-> 1, rate |-> 3]
huge == [capacity |-> MaxInt, rate |-> 1]
nothing == [capacity |-> 0, rate |-> 1]

MCRequested == {slow, quick, huge, nothing}
=============================================================================
