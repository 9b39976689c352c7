------------------------------ MODULE MCSyncPull ------------------------------
(* SyncPull on a small instance.                                              *)
EXTENDS SyncPull, TLC

IdSymmetry == Permutations(Workspaces)
===============================================================================
