---------------------------- MODULE MCMiddleware ----------------------------
(***************************************************************************)
(* RouterMiddleware for TLC: the inputs of each run.                       *)
(***************************************************************************)
EXTENDS RouterMiddlewareHistory

Config(max, window, burst, threshold, recovery, retention) ==
    [max |-> max, window |-> window, enabled |-> TRUE, threshold |-> threshold,
     recovery |-> recovery, retention |-> retention, burst |-> burst]

\* Limits of 2 in 2, with a burst, and none.
RateConfigs == {Config(1, 2, 1, 0, 0, 0), Config(0, 0, 0, 0, 0, 0)}

\* A longer window than the route's, and the two values that mean no limit.
RateOverrides == {[calls |-> 1, window |-> 3], [calls |-> 0, window |-> 0],
                  [calls |-> 1, window |-> 0]}

\* Thresholds of 1 and 2, and 0 for none; with and without recovery; logs of
\* no, one and two calls, and one too many; and a route that is disabled.
StateConfigs ==
    {Config(0, 0, 0, 2, 1, 1), Config(0, 0, 0, 1, 0, 0), Config(0, 0, 0, 0, 1, 2),
     [Config(0, 0, 0, 1, 2, 0) EXCEPT !.enabled = FALSE],
     [Config(0, 0, 0, 1, 2, 3) EXCEPT !.enabled = FALSE]}

NoInputs == {}

=============================================================================
