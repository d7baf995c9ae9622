--------------------------- MODULE MCCoordinator ---------------------------
(* The coordinator on small instances.                                     *)
EXTENDS Coordinator, TLC

CONSTANTS a, b

\* No property tells the tokens apart.
Symmetric == Permutations({a, b})
=============================================================================
