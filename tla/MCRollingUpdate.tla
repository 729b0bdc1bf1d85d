--------------------------- MODULE MCRollingUpdate ---------------------------
(* RollingUpdate on one route with two backends.                           *)
EXTENDS RollingUpdate

OneRoute == <<<<"a", "b">>>>
=============================================================================
