--------------------------- MODULE SyncDependencies ---------------------------
(***************************************************************************)
(* internal/handler/sync_dependencies.go: the quota ledger of one push and *)
(* the classification of an entity's parent.                               *)
(***************************************************************************)
EXTENDS SyncTables

Unlimited == -1

(* A ledger: the limit; retained, the ids that count; young, the ones among   *)
(* them whose updated_at is not before the push's now; seen, the ids decided  *)
(* on.  The code's count field is the size of retained.                       *)
NewRetainedQuota(limit, retained, young) ==
    [limit |-> limit, retained |-> retained, young |-> young, seen |-> {}]

(* Mutant of Admitted: one too many.                                          *)
AdmittedAtLimit(quota, id, terminal) ==
    \/ quota.limit = Unlimited
    \/ terminal
    \/ id \in quota.seen \cup quota.retained
    \/ Cardinality(quota.retained) <= quota.limit

(* The value Admit returns.                                                   *)
Admitted(quota, id, terminal) ==
    \/ quota.limit = Unlimited
    \/ terminal
    \/ id \in quota.seen \cup quota.retained
    \/ Cardinality(quota.retained) < quota.limit

(* The ledger Admit leaves.                                                   *)
Admit(quota, id, terminal) ==
    IF id \in quota.seen \/ ~Admitted(quota, id, terminal) THEN quota
    ELSE IF terminal
    THEN [quota EXCEPT !.retained = @ \ ({id} \ quota.young), !.seen = @ \cup {id}]
    ELSE [quota EXCEPT !.retained = @ \cup {id}, !.seen = @ \cup {id}]

ReleaseApplied(quota, ids) == [quota EXCEPT !.retained = @ \ ids]

-------------------------------------------------------------------------------
(* Why an entity may not have this parent, "" when it may.  owned stands for  *)
(* ownedActive and acceptedInRequest, which is part of it; unavailable gives  *)
(* a reason for some ids and "" for the others.                               *)
ParentRejection(parent, allowNil, owned, unavailable) ==
    CASE parent = NoId -> IF allowNil THEN "" ELSE "invalid_parent"
      [] parent # NoId /\ unavailable[parent] # "" -> unavailable[parent]
      [] parent # NoId /\ unavailable[parent] = "" ->
            IF parent \in owned THEN "" ELSE "invalid_parent"
===============================================================================
