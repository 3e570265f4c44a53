----------------------------- MODULE MCRegistry -----------------------------
(* Small instances of Registry for TLC.                                    *)
EXTENDS Registry, TLC

CONSTANTS s1, s2

Nothing == [s \in Service |-> 0]
OnlyOne == [Nothing EXCEPT ![s1] = 1]
Both    == [s \in Service |-> 1]
Twice   == [Nothing EXCEPT ![s1] = 2]

(* A redeployment adds or takes away the second service.                   *)
TwoReplies == {OnlyOne, Both}
(* It trades the second service for a list that names the first one twice. *)
OddReplies == {Both, Twice}
(* Also a list that names none.                                            *)
AllReplies == {Nothing, OnlyOne, Both, Twice}

Symmetric == Permutations(Upstream) \cup Permutations(Provider)
=============================================================================
