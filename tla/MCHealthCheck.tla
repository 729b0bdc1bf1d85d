---------------------------- MODULE MCHealthCheck ----------------------------
(* HealthTimes on two routes with a backend each.                          *)
EXTENDS HealthTimes

TwoRoutes == <<<<"a">>, <<"b">>>>
=============================================================================
