-------------------------- MODULE MCStoredLimiting --------------------------
(***************************************************************************)
(* Settings for small buckets: two that differ in both numbers, and one    *)
(* the API must refuse.  With MaxInt = 3 a full row of quick overflows     *)
(* when three tokens flow into it.                                         *)
(***************************************************************************)
EXTENDS StoredLimiting, TLC

slow == [capacity |-> 2, rate |-> 1]
quick == [capacity |-> 1, rate |-> 2]
nothing == [capacity |-> 1, rate |-> 0]

AskersAreAlike == Permutations(Askers)

MCRequested == {slow, quick, nothing}
=============================================================================
