------------------------------- MODULE MCSwarm -------------------------------
(* Small instances of Swarm for TLC. *)
EXTENDS Swarm, TLC

CONSTANTS a, b, g1, g2, h1, h2

\* The bots, and the goroutines of each kind, are all alike.
Alike == Permutations(Bots) \union Permutations(Speakers) \union Permutations(Handlers)
=============================================================================
