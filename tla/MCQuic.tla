------------------------------- MODULE MCQuic -------------------------------
(***************************************************************************)
(* Command lines for QuicSimulation: two connections that race for the     *)
(* requests with an interval, two whose host may lose its node's task, one *)
(* connection with concurrent streams and one with the connectivity check, *)
(* where both hosts may; the two that are refused, and the two that never  *)
(* end.                                                                    *)
(***************************************************************************)
EXTENDS QuicSimulation

Line(c, s, r, i, k, f) == [conns |-> c, streams |-> s, requests |-> r, interval |-> i, check |-> k, fragile |-> f]

CommandLines ==
  { Line(2, 1, 2, TRUE, FALSE, {}), Line(2, 1, 1, FALSE, FALSE, {"b_to_a"}),
    Line(1, 2, 3, FALSE, FALSE, Way), Line(1, 1, 1, FALSE, TRUE, Way),
    Line(1, 2, 1, TRUE, FALSE, {}), Line(3, 1, 1, FALSE, FALSE, {}),
    Line(0, 1, 1, FALSE, FALSE, Way), Line(1, 0, 1, FALSE, FALSE, {}) }
=============================================================================
