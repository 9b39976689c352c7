------------------------------ MODULE MCSyncPush ------------------------------
(* SyncPush on a small instance.                                              *)
EXTENDS SyncPush

NoLimit    == -1
IdSymmetry == Permutations(Workspaces) \cup Permutations(Bookmarks)
===============================================================================
