--------------------------------- MODULE MCGC ---------------------------------
(* The objects are interchangeable: only safety is checked with Symmetry.      *)
EXTENDS GC, TLC

Symmetry == Permutations(Objects)
=============================================================================
