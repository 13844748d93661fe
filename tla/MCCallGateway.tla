--------------------------- MODULE MCCallGateway ---------------------------
(* CallGateway for TLC.                                                     *)
EXTENDS CallGateway, TLC

Symmetry == Permutations(Call)
=============================================================================
