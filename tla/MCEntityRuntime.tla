-------------------------- MODULE MCEntityRuntime --------------------------
(* EntityRuntime for TLC.                                                   *)
EXTENDS EntityRuntime, TLC

Symmetry == Permutations(Entity) \cup Permutations(Runner) \cup Permutations(Msg)
=============================================================================
