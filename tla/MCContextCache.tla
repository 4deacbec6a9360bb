--------------------------- MODULE MCContextCache ---------------------------
(***************************************************************************)
(* ContextCache with its goroutines as interchangeable model values.       *)
(***************************************************************************)
EXTENDS ContextCache, TLC

CONSTANTS g1, g2, r1, r2

Goroutines == Permutations({g1, g2}) \union Permutations({r1, r2})
=============================================================================
