------------------------------- MODULE MCCleanup -------------------------------
(* Cleanup on a small instance.                                               *)
EXTENDS Cleanup, TLC

IdSymmetry == Permutations(Workspaces)
===============================================================================
