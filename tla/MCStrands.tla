------------------------------ MODULE MCStrands ------------------------------
(* A small instance of Strands for TLC.                                    *)
EXTENDS Strands, TLC

Symmetry == Permutations(Strand \ {Main})
=============================================================================
