------------------------- MODULE MCReflectionClient -------------------------
(* A small instance of ReflectionClient for TLC.                           *)
EXTENDS ReflectionClient, TLC

StreamSymmetry == Permutations(Stream)
=============================================================================
