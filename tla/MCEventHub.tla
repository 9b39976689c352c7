------------------------------ MODULE MCEventHub ------------------------------
(* EventHub on a small instance.                                              *)
EXTENDS EventHub, TLC

ProcessSymmetry == Permutations(Streams) \cup Permutations(Handlers)
===============================================================================
