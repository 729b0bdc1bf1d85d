----------------------------- MODULE MCHistory ------------------------------
(* BalancerHistory on the route lists of BalancerConfigs.                  *)
EXTENDS BalancerHistory, BalancerConfigs
=============================================================================
