--------------------------- MODULE MCLoadBalancer ---------------------------
(***************************************************************************)
(* Two requests and the monitor, for TLC.                                  *)
(***************************************************************************)
EXTENDS LoadBalancerHistory, TLC

\* The requests do the same and nothing tells them apart.
Symmetry == Permutations(Requests)

\* A bound: of two checks of a cycle the one of the first backend finishes
\* first.  LoadBalancer_live.cfg has them in any order, with one request.
ChecksInOrder ==
    \A b, d \in Backends : b < d /\ check[d] = "marking" => check[b] = "none"
=============================================================================
