----------------------------- MODULE MCEpisode ------------------------------
(***************************************************************************)
(* Episode with room for three worldlines and three events, so that        *)
(* grandchildren, siblings, two forks at one event and both limits occur,  *)
(* and for two checkpoints, the second made from the first or not.         *)
(***************************************************************************)
EXTENDS Episode

CONSTANTS noSequence, g1, noGeneration, v1, noIntervention, a, b, bad

MCWorldlines == 0 .. 2
MCSymmetry == Permutations({a, b})

=============================================================================
