----------------------------- MODULE MCBalancer -----------------------------
(* Balancer on the route lists of BalancerConfigs.                         *)
EXTENDS Balancer, BalancerConfigs
=============================================================================
