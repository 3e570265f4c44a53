---------------------------- MODULE MCRoundRobin ----------------------------
(* A small instance of RoundRobin for TLC.                                 *)
EXTENDS RoundRobin, TLC

Symmetric == Permutations(Upstream) \cup Permutations(Request)
=============================================================================
