--------------------------- MODULE WorkspaceContract ---------------------------
(***************************************************************************)
(* What the service promises about a user's workspaces, whoever acts on    *)
(* them: the three-state table of ARCHITECTURE.md ("Workspace 生命周期")    *)
(* without rows, sequence numbers or transactions.                         *)
(*                                                                         *)
(* One step may move several workspaces, because one push may.             *)
(***************************************************************************)
EXTENDS Integers

CONSTANTS Workspaces

VARIABLE state

Absent   == -1
Active   == 0
Retained == 1
Terminal == 2

(* The moves one transaction may make with one workspace.                     *)
Moves == {<<Absent, Active>>,
          <<Active, Retained>>,
          <<Active, Terminal>>,      \* deleted and purged by one push
          <<Retained, Active>>,
          <<Retained, Terminal>>}

HasActive(s) == \E w \in Workspaces : s[w] = Active

Init == state \in [Workspaces -> {Absent, Active}]

(* A workspace moves along Moves; a terminal one never does; and a user who   *)
(* has an active workspace is never left without one.                         *)
Transaction(next) ==
    /\ \A w \in Workspaces : next[w] = state[w] \/ <<state[w], next[w]>> \in Moves
    /\ HasActive(state) => HasActive(next)
    /\ state' = next

Next == \E next \in [Workspaces -> {Absent, Active, Retained, Terminal}] : Transaction(next)

Spec == Init /\ [][Next]_state
===============================================================================
