------------------------------ MODULE MCAshmem ------------------------------
(* Ashmem for TLC.                                                         *)
EXTENDS Ashmem, TLC

AreaSymmetry == Permutations(Areas)
=============================================================================
