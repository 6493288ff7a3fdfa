-------------------------- MODULE MCVideoBroadcast --------------------------
(* One object the page starts with and one it creates and may drop.         *)
EXTENDS VideoBroadcast, TLC

MCMaxCalls == [o \in Objects |-> IF o \in Transient THEN 1 ELSE 3]
Symmetry == Permutations(Channels)
=============================================================================
