----------------------------- MODULE AccountsProofs -----------------------------
(***************************************************************************)
(* What holds of sessions and account deletion for any number of requests  *)
(* and tokens and any term: the invariants of Accounts and the promise     *)
(* that a deletion keeps its term, from one inductive invariant.           *)
(***************************************************************************)
EXTENDS Accounts, TLAPS

Holding(r) == req[r].pc \in {"taken", "stored"}
Storing(r) == req[r].pc = "stored"
Issuing(r) == req[r].pc = "issued"
Issued(t)  == root[t] # 0

-------------------------------------------------------------------------------
(* The parts of the inductive invariant.                                      *)

RequestRecord == [pc : Steps, token : 0..MaxTokens, new : 0..MaxTokens,
                  now : Nat, seen : SUBSET Tokens]

(* The types of the variables; that locked rows are in the table comes from   *)
(* RequestsHold.                                                              *)
RowsTyped ==
    /\ user \in [account : {"none", "live", "deleted"}, requested : Time, reminded : BOOLEAN]
    /\ live \subseteq Tokens
    /\ root \in [Tokens -> 0..MaxTokens]
    /\ req \in [Requests -> RequestRecord]
    /\ worker \in [pc : Phases, now : Nat]
    /\ clock \in Nat
    /\ spent \subseteq Tokens

(* Tokens are issued in order, and descend from a login that came before.     *)
TokensInOrder ==
    /\ \A t \in Tokens : root[t] <= t
    /\ \A t, u \in Tokens : t < u /\ Issued(u) => Issued(t)
    /\ \A t \in live \cup spent : Issued(t)

(* What a request holds.  A rotation has its token, which is valid until it   *)
(* commits, and its successor, which is not yet.                              *)
RequestsHold ==
    \A r \in Requests :
        /\ Holding(r) => req[r].token \in live
        /\ Storing(r) => /\ req[r].new \in Tokens \ (live \cup spent)
                         /\ Issued(req[r].new)
                         /\ root[req[r].new] = root[req[r].token]
        /\ Issuing(r) => req[r].new \in Tokens /\ Issued(req[r].new)
        /\ \A t \in req[r].seen : Issued(t)

(* Two requests hold different tokens.                                        *)
RequestsApart ==
    \A r, s \in Requests :
        /\ r # s /\ Holding(r) /\ Holding(s) => req[r].token # req[s].token
        /\ r # s /\ Storing(r) /\ Storing(s) => req[r].new # req[s].new
        /\ Issuing(r) /\ Storing(s) => req[r].new # req[s].new
        /\ Holding(r) /\ Issuing(s) => req[r].token # req[s].new
        /\ Storing(s) => req[s].new \notin req[r].seen

(* The users row is there while a rotation shares it or phase 4 holds it, and *)
(* never both at once.                                                        *)
RowIsThere ==
    /\ RowShared => Exists /\ ~RowHeld
    /\ RowHeld => Exists

(* Phase 4 goes by a time that has come, and the row it holds is due.         *)
WorkerKnows ==
    /\ worker.pc \in {"delete", "deleting"} => worker.now <= clock
    /\ RowHeld => DueAt(worker.now)

(* The inductive invariant.                                                   *)
AccountInv ==
    /\ RowsTyped
    /\ TokensInOrder
    /\ RequestsHold
    /\ RequestsApart
    /\ RowIsThere
    /\ WorkerKnows
    /\ OneTokenPerLogin
    /\ NoTokenOutlivesItsAccount
    /\ SpentStaysSpent

-------------------------------------------------------------------------------
(* The invariant holds of the empty database.                                 *)
LEMMA InitInv == AccountInit => AccountInv
<1> USE AccountAssumption DEF AccountInit
<1>1. AccountInit => RowsTyped
  BY DEF RowsTyped, NoRequest, Resting, RequestRecord, Steps, Phases, Time, Null
<1>2. AccountInit => TokensInOrder /\ OneTokenPerLogin /\ NoTokenOutlivesItsAccount /\ SpentStaysSpent
  BY DEF TokensInOrder, Issued, Tokens, OneTokenPerLogin, NoTokenOutlivesItsAccount, SpentStaysSpent
<1>3. AccountInit => RequestsHold /\ RequestsApart
  BY DEF RequestsHold, RequestsApart, Holding, Storing, Issuing, NoRequest
<1>4. AccountInit => RowIsThere /\ WorkerKnows
  BY DEF RowIsThere, WorkerKnows, RowShared, RowHeld, NoRequest, Resting
<1> QED BY <1>1, <1>2, <1>3, <1>4 DEF AccountInv

(* What is said of the tables alone survives a step that writes none of them. *)
LEMMA TablesUntouched ==
    ASSUME AccountInv, UNCHANGED <<user, live, root, spent>>
    PROVE  /\ TokensInOrder' /\ OneTokenPerLogin'
           /\ NoTokenOutlivesItsAccount' /\ SpentStaysSpent'
BY DEF AccountInv, TokensInOrder, Issued, OneTokenPerLogin, NoTokenOutlivesItsAccount,
       SpentStaysSpent, Exists

(* What is said of requests and tokens survives a step of the worker or the   *)
(* clock.                                                                     *)
LEMMA RequestsUntouched ==
    ASSUME AccountInv, UNCHANGED <<req, live, root, spent>>
    PROVE  RequestsHold' /\ RequestsApart'
BY DEF AccountInv, RequestsHold, RequestsApart, Holding, Storing, Issuing, Issued

-------------------------------------------------------------------------------
(* A request that takes no token and has none to hand over disturbs nothing,  *)
(* whatever else its record says.                                             *)
LEMMA SetAside ==
    ASSUME AccountInv, NEW r \in Requests, NEW x \in RequestRecord,
           req' = [req EXCEPT ![r] = x],
           x.pc \notin {"issued", "taken", "stored"},
           x.seen \subseteq req[r].seen \cup live,
           UNCHANGED <<user, live, root, worker, clock, spent>>
    PROVE  AccountInv'
<1> USE DEF AccountInv, RowsTyped
<1>1. RowsTyped'
  OBVIOUS
<1>2. RequestsHold'
  BY DEF RequestsHold, TokensInOrder, Holding, Storing, Issuing, Issued
<1>3. RequestsApart'
  BY DEF RequestsApart, RequestsHold, Holding, Storing, Issuing
<1>4. RowIsThere' /\ WorkerKnows'
  BY DEF RowIsThere, WorkerKnows, RowShared, RowHeld, DueAt, Exists
<1> QED BY <1>1, <1>2, <1>3, <1>4, TablesUntouched

(* Requests that have only read, or are abandoned: the first step of a        *)
(* registration, a login, a reset and a deletion, the start of a revocation,  *)
(* and a failure anywhere.                                                    *)
LEMMA QuietSteps ==
    ASSUME AccountInv, NEW r \in Requests,
           \/ RegisterCount(r) \/ LoginRead(r) \/ ResetPassword(r)
           \/ DeleteAccount(r) \/ Revoke(r) \/ GiveUp(r)
    PROVE  AccountInv'
<1>0. req[r] \in RequestRecord /\ live \subseteq Tokens /\ clock \in Nat
  BY DEF AccountInv, RowsTyped
<1>1. CASE RegisterCount(r)
  <2>1. [req[r] EXCEPT !.pc = "counted"] \in RequestRecord
    BY <1>0 DEF RequestRecord, Steps
  <2> QED BY <1>0, <1>1, <2>1, SetAside DEF RegisterCount, Goto, RequestRecord
<1>2. CASE LoginRead(r)
  <2>1. [req[r] EXCEPT !.pc = "found"] \in RequestRecord
    BY <1>0 DEF RequestRecord, Steps
  <2> QED BY <1>0, <1>2, <2>1, SetAside DEF LoginRead, Goto, RequestRecord
<1>3. CASE ResetPassword(r)
  <2>1. [req[r] EXCEPT !.pc = "revoke"] \in RequestRecord
    BY <1>0 DEF RequestRecord, Steps
  <2> QED BY <1>0, <1>3, <2>1, SetAside DEF ResetPassword, Goto, RequestRecord
<1>4. CASE DeleteAccount(r)
  <2>1. [req[r] EXCEPT !.pc = "checked", !.now = clock] \in RequestRecord
    BY <1>0 DEF RequestRecord, Steps
  <2> QED BY <1>0, <1>4, <2>1, SetAside DEF DeleteAccount, RequestRecord
<1>5. CASE Revoke(r)
  <2>1. [req[r] EXCEPT !.pc = "revoking", !.seen = live] \in RequestRecord
    BY <1>0 DEF RequestRecord, Steps
  <2>2. /\ [req[r] EXCEPT !.pc = "revoking", !.seen = live].pc = "revoking"
        /\ [req[r] EXCEPT !.pc = "revoking", !.seen = live].seen = live
    BY <1>0 DEF RequestRecord
  <2> QED BY <1>5, <2>1, <2>2, SetAside DEF Revoke
<1>6. CASE GiveUp(r)
  <2>1. NoRequest \in RequestRecord
    BY AccountAssumption DEF NoRequest, RequestRecord, Steps
  <2> QED BY <1>0, <1>6, <2>1, SetAside DEF GiveUp, Answer, NoRequest
<1> QED BY <1>1, <1>2, <1>3, <1>4, <1>5, <1>6

(* The second INSERT of an address fails; the first finds no row and no       *)
(* token.                                                                     *)
LEMMA RegisterInsertStep ==
    ASSUME AccountInv, NEW r \in Requests, RegisterInsert(r)
    PROVE  AccountInv'
<1> USE AccountAssumption DEF AccountInv, RowsTyped, RegisterInsert, Goto, Answer,
          NoRequest
<1>1. RowsTyped'
  BY DEF RowsTyped, RequestRecord, Steps
<1>2. TokensInOrder'
  BY DEF TokensInOrder, Issued
<1>3. RequestsHold'
  BY DEF RequestsHold, RequestRecord, RequestsApart, Holding, Storing, Issuing, Issued
<1>4. RequestsApart'
  BY DEF RequestsApart, RequestRecord, Holding, Storing, Issuing
<1>5. RowIsThere'
  BY DEF RowIsThere, RowShared, Exists, RowHeld
<1>6. WorkerKnows'
  BY DEF WorkerKnows, DueAt, RowHeld, Exists
<1>7. OneTokenPerLogin'
  BY DEF OneTokenPerLogin
<1>8. NoTokenOutlivesItsAccount'
  BY DEF NoTokenOutlivesItsAccount, Exists
<1>9. SpentStaysSpent'
  BY DEF SpentStaysSpent
<1> QED BY <1>1, <1>2, <1>3, <1>4, <1>5, <1>6, <1>7, <1>8, <1>9

(* The first token of a registration starts a login of its own.               *)
LEMMA RegisterIssueStep ==
    ASSUME AccountInv, NEW r \in Requests, NEW t \in Tokens, RegisterIssue(r, t)
    PROVE  AccountInv'
<1> USE AccountAssumption DEF AccountInv, RowsTyped, RegisterIssue, Answer, Issue,
          NoRequest, Fresh, Exists, RowHeld
<1>1. RowsTyped'
  <2>1. req' \in [Requests -> RequestRecord]
    BY DEF RequestRecord, Steps
  <2>2. root' \in [Tokens -> 0..MaxTokens]
    BY DEF Tokens
  <2> QED BY <2>1, <2>2 DEF Time
<1>2. TokensInOrder'
  BY DEF TokensInOrder, Issued, Tokens
<1>3. RequestsHold'
  BY DEF RequestsHold, Holding, Storing, Issuing, Issued
<1>4. RequestsApart'
  BY DEF RequestsApart, Holding, Storing, Issuing
<1>5. RowIsThere'
  BY DEF RowIsThere
<1>6. WorkerKnows'
  BY DEF WorkerKnows
<1>7. OneTokenPerLogin'
  BY DEF OneTokenPerLogin, TokensInOrder, Issued, Tokens
<1>8. NoTokenOutlivesItsAccount'
  BY DEF NoTokenOutlivesItsAccount
<1>9. SpentStaysSpent'
  BY DEF SpentStaysSpent, TokensInOrder, Issued
<1> QED BY <1>1, <1>2, <1>3, <1>4, <1>5, <1>6, <1>7, <1>8, <1>9

(* The token of a login starts one of its own, and no request has it yet.     *)
LEMMA LoginIssueStep ==
    ASSUME AccountInv, NEW r \in Requests, NEW t \in Tokens, LoginIssue(r, t)
    PROVE  AccountInv'
<1> USE AccountAssumption DEF AccountInv, RowsTyped, LoginIssue, Issue, Fresh, Exists,
          RowHeld
<1>1. RowsTyped'
  <2>0. t \in 0..MaxTokens /\ req[r] \in RequestRecord
    BY DEF Tokens
  <2>1. [req[r] EXCEPT !.pc = "issued", !.new = t] \in RequestRecord
    BY <2>0 DEF RequestRecord, Steps
  <2>2. req' \in [Requests -> RequestRecord]
    BY <2>1
  <2>3. root' \in [Tokens -> 0..MaxTokens]
    BY DEF Tokens
  <2> QED BY <2>2, <2>3 DEF Time
<1>2. TokensInOrder'
  BY DEF TokensInOrder, Issued, Tokens
<1>3. RequestsHold'
  <2>1. Issued(t)' /\ \A u \in Tokens : u # t => (Issued(u)' <=> Issued(u))
    BY DEF Issued, Tokens
  <2>2. \A q \in Requests : q # r => req'[q] = req[q]
    OBVIOUS
  <2>3. /\ req'[r].pc = "issued" /\ req'[r].new = t /\ req'[r].seen = req[r].seen
    BY DEF RequestRecord
  <2>4. \A q \in Requests : Storing(q) => req[q].new # t /\ req[q].token # t
    BY DEF RequestsHold, TokensInOrder, Issued, Storing, Holding
  <2>5. \A q \in Requests : req[q].seen \subseteq Tokens
    BY DEF RequestRecord
  <2>6. \A q \in Requests : Storing(q) => /\ root'[req[q].token] = root[req[q].token]
                                          /\ root'[req[q].new] = root[req[q].new]
    BY <2>4
  <2> QED BY <2>1, <2>2, <2>3, <2>4, <2>5, <2>6 DEF RequestsHold, Holding, Storing, Issuing
<1>4. RequestsApart'
  BY DEF RequestsApart, RequestsHold, TokensInOrder, Holding, Storing, Issuing, Issued
<1>5. RowIsThere'
  BY DEF RowIsThere
<1>6. WorkerKnows'
  BY DEF WorkerKnows
<1>7. OneTokenPerLogin'
  BY DEF OneTokenPerLogin, TokensInOrder, Issued, Tokens
<1>8. NoTokenOutlivesItsAccount'
  BY DEF NoTokenOutlivesItsAccount
<1>9. SpentStaysSpent'
  BY DEF SpentStaysSpent, TokensInOrder, Issued
<1> QED BY <1>1, <1>2, <1>3, <1>4, <1>5, <1>6, <1>7, <1>8, <1>9

(* The login's UPDATE waits for phase 4, so the row phase 4 holds stays due.  *)
LEMMA LoginUpdateStep ==
    ASSUME AccountInv, NEW r \in Requests, LoginUpdate(r)
    PROVE  AccountInv'
<1> USE AccountAssumption DEF AccountInv, RowsTyped, LoginUpdate, Answer, NoRequest,
          Exists, RowHeld
<1>1. RowsTyped'
  <2>1. req' \in [Requests -> RequestRecord]
    BY DEF RequestRecord, Steps
  <2>2. user' \in [account : {"none", "live", "deleted"}, requested : Time, reminded : BOOLEAN]
    BY DEF Time, Null
  <2> QED BY <2>1, <2>2
<1>2. TokensInOrder'
  BY DEF TokensInOrder, Issued
<1>3. RequestsHold'
  BY DEF RequestsHold, Holding, Storing, Issuing, Issued
<1>4. RequestsApart'
  BY DEF RequestsApart, Holding, Storing, Issuing
<1>5. RowIsThere'
  BY DEF RowIsThere, RowShared
<1>6. WorkerKnows'
  BY DEF WorkerKnows
<1>7. OneTokenPerLogin'
  BY DEF OneTokenPerLogin
<1>8. NoTokenOutlivesItsAccount'
  BY DEF NoTokenOutlivesItsAccount
<1>9. SpentStaysSpent'
  BY DEF SpentStaysSpent
<1> QED BY <1>1, <1>2, <1>3, <1>4, <1>5, <1>6, <1>7, <1>8, <1>9

(* The token taken back is the request's own: no rotation has it.             *)
LEMMA LoginUpdateFailsStep ==
    ASSUME AccountInv, NEW r \in Requests, LoginUpdateFails(r)
    PROVE  AccountInv'
<1> USE AccountAssumption DEF AccountInv, RowsTyped, LoginUpdateFails, Answer,
          NoRequest
<1>1. RowsTyped'
  <2>1. req' \in [Requests -> RequestRecord]
    BY DEF RequestRecord, Steps
  <2>2. req[r].new \in Tokens
    BY DEF RequestsHold, Issuing
  <2> QED BY <2>1, <2>2
<1>2. TokensInOrder'
  <2>1. req[r].new \in Tokens /\ Issued(req[r].new)
    BY DEF RequestsHold, Issuing
  <2> QED BY <2>1 DEF TokensInOrder, Issued
<1>3. RequestsHold'
  BY DEF RequestsHold, RequestsApart, Holding, Storing, Issuing, Issued
<1>4. RequestsApart'
  BY DEF RequestsApart, Holding, Storing, Issuing
<1>5. RowIsThere'
  BY DEF RowIsThere, RowShared, Exists, RowHeld
<1>6. WorkerKnows'
  BY DEF WorkerKnows, DueAt, RowHeld, Exists
<1>7. OneTokenPerLogin'
  BY DEF OneTokenPerLogin
<1>8. NoTokenOutlivesItsAccount'
  BY DEF NoTokenOutlivesItsAccount, Exists
<1>9. SpentStaysSpent'
  BY DEF SpentStaysSpent
<1> QED BY <1>1, <1>2, <1>3, <1>4, <1>5, <1>6, <1>7, <1>8, <1>9

-------------------------------------------------------------------------------
(* The token taken is locked by no other rotation.                            *)
LEMMA RefreshTakeStep ==
    ASSUME AccountInv, NEW r \in Requests, NEW t \in Tokens, RefreshTake(r, t)
    PROVE  AccountInv'
<1> USE AccountAssumption DEF AccountInv, RowsTyped, RefreshTake, Locked, Undelivered
<1>1. RowsTyped'
  <2>0. t \in 0..MaxTokens /\ req[r] \in RequestRecord
    BY DEF Tokens
  <2>1. [req[r] EXCEPT !.pc = "taken", !.token = t] \in RequestRecord
    BY <2>0 DEF RequestRecord, Steps
  <2> QED BY <2>1
<1>2. RequestsHold'
  BY DEF RequestsHold, Holding, Storing, Issuing, Issued
<1>3. RequestsApart'
  BY DEF RequestsApart, Holding, Storing, Issuing
<1>4. RowIsThere'
  BY DEF RowIsThere, RowShared, Exists, RowHeld
<1>5. WorkerKnows'
  BY DEF WorkerKnows, DueAt, RowHeld, Exists
<1> QED BY <1>1, <1>2, <1>3, <1>4, <1>5, TablesUntouched

(* The successor descends from the login of the token it replaces, is of no   *)
(* request yet, and comes after it.                                           *)
LEMMA RefreshStoreStep ==
    ASSUME AccountInv, NEW r \in Requests, NEW t \in Tokens, RefreshStore(r, t)
    PROVE  AccountInv'
<1> USE AccountAssumption DEF AccountInv, RowsTyped, RefreshStore, Fresh, Exists,
          RowHeld
<1>1. RowsTyped'
  <2>0. t \in 0..MaxTokens /\ req[r] \in RequestRecord
    BY DEF Tokens
  <2>1. [req[r] EXCEPT !.pc = "stored", !.new = t] \in RequestRecord
    BY <2>0 DEF RequestRecord, Steps
  <2>2. req[r].token \in Tokens
    BY DEF RequestsHold, Holding
  <2>3. root' \in [Tokens -> 0..MaxTokens]
    BY <2>2
  <2> QED BY <2>1, <2>3
<1>2. TokensInOrder'
  <2>1. req[r].token \in live
    BY DEF RequestsHold, Holding
  <2>2. root[req[r].token] # 0 /\ root[req[r].token] <= req[r].token
    BY <2>1 DEF TokensInOrder, Issued
  <2>3. req[r].token < t
    BY <2>1, <2>2 DEF TokensInOrder, Issued, Tokens
  <2>4. root' = [root EXCEPT ![t] = root[req[r].token]] /\ root[req[r].token] <= t
    BY <2>1, <2>2, <2>3 DEF Tokens
  <2>5. \A u \in Tokens : u < t => root[u] # 0
    BY DEF Tokens
  <2> QED BY <2>2, <2>4, <2>5 DEF TokensInOrder, Issued, Tokens
<1>3. RequestsHold'
  BY DEF RequestsHold, TokensInOrder, Holding, Storing, Issuing, Issued
<1>4. RequestsApart'
  BY DEF RequestsApart, RequestsHold, Holding, Storing, Issuing, Issued
<1>5. RowIsThere'
  BY DEF RowIsThere
<1>6. WorkerKnows'
  BY DEF WorkerKnows
<1>7. OneTokenPerLogin'
  BY DEF OneTokenPerLogin, TokensInOrder, Issued
<1>8. NoTokenOutlivesItsAccount'
  BY DEF NoTokenOutlivesItsAccount
<1>9. SpentStaysSpent'
  BY DEF SpentStaysSpent
<1> QED BY <1>1, <1>2, <1>3, <1>4, <1>5, <1>6, <1>7, <1>8, <1>9

(* The commit puts the successor in the place of the token: the login still   *)
(* has one, and a token that was never valid was never spent.                 *)
LEMMA RefreshCommitStep ==
    ASSUME AccountInv, NEW r \in Requests, RefreshCommit(r)
    PROVE  AccountInv'
<1> USE AccountAssumption DEF AccountInv, RowsTyped, RefreshCommit, Answer, NoRequest
<1>1. RowsTyped'
  <2>1. req' \in [Requests -> RequestRecord]
    BY DEF RequestRecord, Steps
  <2>2. req[r].token \in Tokens /\ req[r].new \in Tokens
    BY DEF RequestsHold, Holding, Storing
  <2> QED BY <2>1, <2>2
<1>2. TokensInOrder'
  BY DEF TokensInOrder, Issued, RequestsHold, Storing
<1>3. RequestsHold'
  BY DEF RequestsHold, RequestsApart, Holding, Storing, Issuing, Issued
<1>4. RequestsApart'
  BY DEF RequestsApart, Holding, Storing, Issuing
<1>5. RowIsThere'
  BY DEF RowIsThere, RowShared, Exists, RowHeld
<1>6. WorkerKnows'
  BY DEF WorkerKnows, DueAt, RowHeld, Exists
<1>7. OneTokenPerLogin'
  <2>1. req[r].token \in live /\ root[req[r].new] = root[req[r].token]
    BY DEF RequestsHold, Holding, Storing
  <2> QED BY <2>1 DEF OneTokenPerLogin
<1>8. NoTokenOutlivesItsAccount'
  BY DEF NoTokenOutlivesItsAccount, RowIsThere, RowShared, Exists
<1>9. SpentStaysSpent'
  <2>1. req[r].token \in live /\ req[r].new \notin live \cup spent
    BY DEF RequestsHold, Holding, Storing
  <2> QED BY <2>1 DEF SpentStaysSpent
<1> QED BY <1>1, <1>2, <1>3, <1>4, <1>5, <1>6, <1>7, <1>8, <1>9

-------------------------------------------------------------------------------
(* A logout takes a token that no rotation holds.                             *)
LEMMA LogoutStep ==
    ASSUME AccountInv, NEW t \in Tokens, Logout(t)
    PROVE  AccountInv'
<1> USE AccountAssumption DEF AccountInv, RowsTyped, Logout, Locked, Undelivered
<1>1. RowsTyped'
  BY DEF RowsTyped
<1>2. TokensInOrder'
  BY DEF TokensInOrder, Issued
<1>3. RequestsHold'
  BY DEF RequestsHold, Holding, Storing, Issuing, Issued
<1>4. RequestsApart'
  BY DEF RequestsApart, Holding, Storing, Issuing
<1>5. RowIsThere'
  BY DEF RowIsThere, RowShared, Exists, RowHeld
<1>6. WorkerKnows'
  BY DEF WorkerKnows, DueAt, RowHeld, Exists
<1>7. OneTokenPerLogin'
  BY DEF OneTokenPerLogin
<1>8. NoTokenOutlivesItsAccount'
  BY DEF NoTokenOutlivesItsAccount, Exists
<1>9. SpentStaysSpent'
  BY DEF SpentStaysSpent
<1> QED BY <1>1, <1>2, <1>3, <1>4, <1>5, <1>6, <1>7, <1>8, <1>9

(* The UPDATE of delete-account waits for phase 4 as the login's does.        *)
LEMMA ScheduleDeletionStep ==
    ASSUME AccountInv, NEW r \in Requests, ScheduleDeletion(r)
    PROVE  AccountInv'
<1> USE AccountAssumption DEF AccountInv, RowsTyped, ScheduleDeletion, Exists, RowHeld
<1>1. RowsTyped'
  <2>1. req[r] \in RequestRecord
    OBVIOUS
  <2>2. [req[r] EXCEPT !.pc = "revoke", !.now = 0] \in RequestRecord /\ req[r].now \in Nat
    BY <2>1 DEF RequestRecord, Steps
  <2>3. user' \in [account : {"none", "live", "deleted"}, requested : Time, reminded : BOOLEAN]
    BY <2>2 DEF Time
  <2> QED BY <2>2, <2>3
<1>2. TokensInOrder'
  BY DEF TokensInOrder, Issued
<1>3. RequestsHold'
  BY DEF RequestsHold, Holding, Storing, Issuing, Issued
<1>4. RequestsApart'
  BY DEF RequestsApart, Holding, Storing, Issuing
<1>5. RowIsThere'
  BY DEF RowIsThere, RowShared
<1>6. WorkerKnows'
  BY DEF WorkerKnows
<1>7. OneTokenPerLogin'
  BY DEF OneTokenPerLogin
<1>8. NoTokenOutlivesItsAccount'
  BY DEF NoTokenOutlivesItsAccount
<1>9. SpentStaysSpent'
  BY DEF SpentStaysSpent
<1> QED BY <1>1, <1>2, <1>3, <1>4, <1>5, <1>6, <1>7, <1>8, <1>9

(* The revocation has waited for the rotations that hold what it saw, and it  *)
(* saw no successor that was not committed.                                   *)
LEMMA RevokeSeenStep ==
    ASSUME AccountInv, NEW r \in Requests, RevokeSeen(r)
    PROVE  AccountInv'
<1> USE AccountAssumption DEF AccountInv, RowsTyped, RevokeSeen, Answer, NoRequest,
          Locked
<1>1. RowsTyped'
  BY DEF RowsTyped, RequestRecord, Steps
<1>2. TokensInOrder'
  BY DEF TokensInOrder, Issued, RequestsHold
<1>3. RequestsHold'
  BY DEF RequestsHold, RequestsApart, Holding, Storing, Issuing, Issued
<1>4. RequestsApart'
  BY DEF RequestsApart, Holding, Storing, Issuing
<1>5. RowIsThere'
  BY DEF RowIsThere, RowShared, Exists, RowHeld
<1>6. WorkerKnows'
  BY DEF WorkerKnows, DueAt, RowHeld, Exists
<1>7. OneTokenPerLogin'
  BY DEF OneTokenPerLogin
<1>8. NoTokenOutlivesItsAccount'
  BY DEF NoTokenOutlivesItsAccount, Exists
<1>9. SpentStaysSpent'
  BY DEF SpentStaysSpent
<1> QED BY <1>1, <1>2, <1>3, <1>4, <1>5, <1>6, <1>7, <1>8, <1>9

-------------------------------------------------------------------------------
(* Steps of the worker that only read or lock: the row phase 4 locks is due   *)
(* by the time it goes by, and shared with no rotation.                       *)
LEMMA WorkerMoves ==
    ASSUME AccountInv, FindReminders \/ FindDueAccount \/ LockAccount \/ PhaseFails
    PROVE  AccountInv'
<1> USE DEF AccountInv, RowsTyped, FindReminders, FindDueAccount, LockAccount, PhaseFails
<1>0. UNCHANGED <<user, live, root, req, clock, spent>>
  OBVIOUS
<1>1. RowsTyped'
  <2>1. worker' \in [pc : Phases, now : Nat]
    BY DEF Work, Resting, Phases
  <2> QED BY <1>0, <2>1
<1>2. RowIsThere'
  BY DEF RowIsThere, RowShared, RowHeld, DueAt, Exists, Work, Resting
<1>3. WorkerKnows'
  BY DEF WorkerKnows, RowHeld, DueAt, Exists, Work, Resting
<1> QED BY <1>0, <1>1, <1>2, <1>3, TablesUntouched, RequestsUntouched

(* The reminder marks the row and leaves its term.                            *)
LEMMA MarkRemindedStep ==
    ASSUME AccountInv, MarkReminded
    PROVE  AccountInv'
<1> USE AccountAssumption DEF AccountInv, RowsTyped, MarkReminded, Work
<1>1. RowsTyped'
  BY DEF RowsTyped, Phases
<1>2. TokensInOrder'
  BY DEF TokensInOrder, Issued
<1>3. RowIsThere'
  BY DEF RowIsThere, RowShared, Exists, RowHeld
<1>4. WorkerKnows'
  BY DEF WorkerKnows, RowHeld
<1>5. OneTokenPerLogin'
  BY DEF OneTokenPerLogin
<1>6. NoTokenOutlivesItsAccount'
  BY DEF NoTokenOutlivesItsAccount, Exists
<1>7. SpentStaysSpent'
  BY DEF SpentStaysSpent
<1> QED BY <1>1, <1>2, <1>3, <1>4, <1>5, <1>6, <1>7, RequestsUntouched

(* The cascade has waited for every rotation: nothing is held and nothing is  *)
(* left.                                                                      *)
LEMMA DeleteUserStep ==
    ASSUME AccountInv, DeleteUser
    PROVE  AccountInv'
<1> USE AccountAssumption DEF AccountInv, RowsTyped, DeleteUser, Resting, Locked
<1>1. RowsTyped'
  BY DEF RowsTyped, Phases
<1>2. TokensInOrder'
  BY DEF TokensInOrder, Issued
<1>3. RequestsHold'
  <2>1. \A q \in Requests : ~Holding(q) /\ ~Storing(q)
    BY DEF Locked, Holding, Storing
  <2> QED BY <2>1 DEF RequestsHold, Holding, Storing, Issuing, Issued
<1>4. RequestsApart'
  BY DEF RequestsApart, Holding, Storing
<1>5. RowIsThere'
  BY DEF RowIsThere, RowShared, RowHeld
<1>6. WorkerKnows'
  BY DEF WorkerKnows, RowHeld
<1>7. OneTokenPerLogin'
  BY DEF OneTokenPerLogin
<1>8. NoTokenOutlivesItsAccount'
  BY DEF NoTokenOutlivesItsAccount
<1>9. SpentStaysSpent'
  BY DEF SpentStaysSpent
<1> QED BY <1>1, <1>2, <1>3, <1>4, <1>5, <1>6, <1>7, <1>8, <1>9

(* After a restart nobody holds anything.                                     *)
LEMMA RestartStep ==
    ASSUME AccountInv, Restart
    PROVE  AccountInv'
<1> USE AccountAssumption DEF AccountInv, RowsTyped, Restart, NoRequest, Resting
<1>1. RowsTyped'
  BY DEF RequestRecord, Steps, Phases
<1>2. RequestsHold' /\ RequestsApart'
  BY DEF RequestsHold, RequestsApart, Holding, Storing, Issuing
<1>3. RowIsThere' /\ WorkerKnows'
  BY DEF RowIsThere, WorkerKnows, RowShared, RowHeld
<1> QED BY <1>1, <1>2, <1>3, TablesUntouched

(* The clock only goes on, so a time that has come stays so.                  *)
LEMMA TickStep ==
    ASSUME AccountInv, Tick
    PROVE  AccountInv'
<1> USE AccountAssumption DEF AccountInv, RowsTyped, Tick
<1>1. RowsTyped'
  OBVIOUS
<1>2. RowIsThere' /\ WorkerKnows'
  BY DEF RowIsThere, WorkerKnows, RowShared, RowHeld, DueAt, Exists
<1> QED BY <1>1, <1>2, TablesUntouched, RequestsUntouched

-------------------------------------------------------------------------------
(* Every step keeps the invariant.                                            *)
LEMMA NextInv == AccountInv /\ [AccountNext]_accountVars => AccountInv'
<1> SUFFICES ASSUME AccountInv, [AccountNext]_accountVars
             PROVE  AccountInv'
  OBVIOUS
<1>1. ASSUME NEW r \in Requests, Arrive(r)
      PROVE  AccountInv'
  BY <1>1, QuietSteps, RefreshTakeStep DEF Arrive
<1>2. ASSUME NEW r \in Requests, Proceed(r)
      PROVE  AccountInv'
  BY <1>2, QuietSteps, RegisterInsertStep, RegisterIssueStep, LoginIssueStep,
     LoginUpdateStep, LoginUpdateFailsStep, RefreshStoreStep, RefreshCommitStep,
     ScheduleDeletionStep, RevokeSeenStep DEF Proceed
<1>3. CASE Sweep
  BY <1>3, WorkerMoves, MarkRemindedStep, DeleteUserStep DEF Sweep
<1>4. CASE UNCHANGED accountVars
  <2>1. RowsTyped' /\ RowIsThere' /\ WorkerKnows'
    BY <1>4 DEF AccountInv, accountVars, RowsTyped, RowIsThere, WorkerKnows, RowShared,
                RowHeld, DueAt, Exists
  <2> QED BY <1>4, <2>1, TablesUntouched, RequestsUntouched DEF AccountInv, accountVars
<1> QED BY <1>1, <1>2, <1>3, <1>4, LogoutStep, RestartStep, TickStep DEF AccountNext

(* AccountInv holds in every state: requests, worker, restarts and clock in   *)
(* any order, for any number of requests and tokens.                          *)
THEOREM AccountInvariant == AccountSpec => []AccountInv
<1> QED BY InitInv, NextInv, PTL DEF AccountSpec

(* Rows, requests and worker keep their types, and a token row that a         *)
(* rotation has locked stays in the table (the row locks of Refresh).         *)
THEOREM AccountTypeCorrect == AccountSpec => []AccountTypeOK
<1>1. AccountInv => AccountTypeOK
  BY DEF AccountInv, AccountTypeOK, RowsTyped, RequestRecord, RequestsHold, Holding, Locked
<1> QED BY <1>1, AccountInvariant, PTL

(* A login has at most one valid refresh token, whatever rotations of it run  *)
(* at once, fail or are cut short (Refresh's DELETE ... RETURNING and INSERT  *)
(* in one transaction).                                                       *)
THEOREM LoginsHaveOneToken == AccountSpec => []OneTokenPerLogin
<1>1. AccountInv => OneTokenPerLogin
  BY DEF AccountInv
<1> QED BY <1>1, AccountInvariant, PTL

(* No refresh token outlives its account: not one that a login or a rotation  *)
(* issues beside phase 4's DELETE (the foreign key and its row locks).        *)
THEOREM TokensHaveAnAccount == AccountSpec => []NoTokenOutlivesItsAccount
<1>1. AccountInv => NoTokenOutlivesItsAccount
  BY DEF AccountInv
<1> QED BY <1>1, AccountInvariant, PTL

(* A token that was rotated, logged out or revoked is never valid again.      *)
THEOREM SpentTokensStaySpent == AccountSpec => []SpentStaysSpent
<1>1. AccountInv => SpentStaysSpent
  BY DEF AccountInv
<1> QED BY <1>1, AccountInvariant, PTL

(* Phase 4 deletes an account only when its term is over by the row as it is  *)
(* at the deletion, although it found the account by an earlier query and     *)
(* requests change the row in between.                                        *)
THEOREM DeletionsKeepTheirTerm == AccountSpec => DeletionKeepsItsTerm
<1> DEFINE Deleted == user.account = "live" /\ user'.account = "deleted"
<1>1. AccountInv /\ [AccountNext]_accountVars => (Deleted => DueAt(clock))
  <2> SUFFICES ASSUME AccountInv, [AccountNext]_accountVars, Deleted
               PROVE  DueAt(clock)
    OBVIOUS
  <2>0. user \in [account : {"none", "live", "deleted"}, requested : Time, reminded : BOOLEAN]
    BY DEF AccountInv, RowsTyped
  <2>1. ASSUME NEW r \in Requests, Arrive(r)
        PROVE  FALSE
    BY <2>1 DEF Arrive, RegisterCount, LoginRead, RefreshTake, ResetPassword, DeleteAccount
  <2>2. ASSUME NEW r \in Requests, Proceed(r)
        PROVE  FALSE
    BY <2>0, <2>2 DEF Proceed, RegisterInsert, RegisterIssue, LoginIssue, RefreshStore,
       LoginUpdate, LoginUpdateFails, RefreshCommit, ScheduleDeletion, Revoke, RevokeSeen,
       GiveUp, Exists
  <2>3. ASSUME FindReminders \/ MarkReminded \/ FindDueAccount \/ LockAccount \/ PhaseFails
        PROVE  FALSE
    BY <2>0, <2>3 DEF FindReminders, MarkReminded, FindDueAccount, LockAccount, PhaseFails
  <2>4. CASE DeleteUser
    <3>1. DueAt(worker.now) /\ worker.now <= clock
      BY <2>4 DEF DeleteUser, AccountInv, WorkerKnows, RowHeld
    <3>2. worker.now \in Nat /\ clock \in Nat /\ Term \in Nat
      BY AccountAssumption DEF AccountInv, RowsTyped
    <3>3. user.requested \in Nat
      BY <2>0, <3>1 DEF DueAt, Time
    <3> QED BY <3>1, <3>2, <3>3 DEF DueAt
  <2>5. \A t \in Tokens : ~Logout(t)
    BY DEF Logout
  <2> QED BY <2>1, <2>2, <2>3, <2>4, <2>5
          DEF AccountNext, Sweep, Restart, Tick, accountVars
<1> HIDE DEF Deleted
<1>2. AccountInv /\ [AccountNext]_accountVars => [Deleted => DueAt(clock)]_accountVars
  BY <1>1
<1>3. AccountSpec => [][Deleted => DueAt(clock)]_accountVars
  BY <1>2, AccountInvariant, PTL DEF AccountSpec
<1> QED BY <1>3 DEF DeletionKeepsItsTerm, Deleted
===============================================================================
