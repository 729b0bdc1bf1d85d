------------------------------ MODULE MCStats -------------------------------
(* Stats with a pool of backends that all have one URL.                    *)
EXTENDS Stats
OneUrl == [b \in Bid |-> "u"]
=============================================================================
