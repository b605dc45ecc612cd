--------------------------- MODULE MCUpstreamPool ---------------------------
(* Small instances of UpstreamPool: two targets and two requests, under a  *)
(* rotating balancer with cookies, a comparing one with health probes, and *)
(* the smooth weighted one, which locks and keeps clones.                  *)
EXTENDS UpstreamPool

CONSTANTS q1, q2

\* Target t has weight t + 1.
MCWeight == [t \in Targets |-> t + 1]

Route(algorithm, maxFailures, cooldown, probed) ==
    [algorithm |-> algorithm, maxFailures |-> maxFailures,
     cooldown |-> cooldown, probed |-> probed]

MCRoutes == {Route("sticky_cookie", 2, 2, FALSE),
             Route("least_conn", 1, 1, TRUE),
             Route("weighted_round_robin", 1, 1, FALSE)}
=============================================================================
