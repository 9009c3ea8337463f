------------------------------- MODULE MCTurns -------------------------------
(* Bounded instances of Turns for TLC. *)
EXTENDS Turns, TLC

CONSTANTS a1, h1, h2

OneAgent == (h1 :> a1) @@ (h2 :> a1)
ThreadsAlike == Permutations({h1, h2})
=============================================================================
