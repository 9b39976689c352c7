------------------------------- MODULE MCRestApi -------------------------------
(* RestApi, with its search index, on a small instance.                       *)
EXTENDS SearchIndex, TLC

IdSymmetry == Permutations(Workspaces) \cup Permutations(Collections)
===============================================================================
