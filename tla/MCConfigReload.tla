--------------------------- MODULE MCConfigReload ---------------------------
(* ConfigReload with a file that may hold two good configurations, one     *)
(* with bad routes, one with half a pair, half a text, or nothing.         *)
EXTENDS ConfigReload

MCContent == {"old", "new", "bad", "lone", "half", "none"}
MCMalformed == {"half", "none"}
MCRejected == {"bad"}
MCHalfTls == {"lone"}
MCCertPath == [c \in MCContent |-> IF c \in {"bad", "lone"} THEN "no path" ELSE "p"]
=============================================================================
