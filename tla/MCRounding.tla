----------------------------- MODULE MCRounding -----------------------------
(* A node with three tolerances: enough to be widened twice in one attempt, *)
(* or in one attempt and again in the next.                                 *)
EXTENDS Rounding
=============================================================================
