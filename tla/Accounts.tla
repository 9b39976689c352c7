-------------------------------- MODULE Accounts --------------------------------
(***************************************************************************)
(* One account from its registration to its deletion: the sessions of      *)
(* internal/handler/auth.go and the account phases 3 and 4 of              *)
(* internal/handler/cleanup.go, over the tables users and refresh_tokens.  *)
(*                                                                         *)
(* Requests run concurrently, one SQL statement at a time.  Only Refresh   *)
(* is a transaction; everything else commits statement by statement.  The  *)
(* row locks matter and are modelled: Refresh holds the row of the token   *)
(* it takes, and a share of the users row once it has inserted the new     *)
(* token (the foreign key's check); phase 4 holds the users row while its  *)
(* DELETE cascades to the tokens.  Whoever needs a row held by another     *)
(* waits, and PostgreSQL fails one of two that wait for each other.        *)
(*                                                                         *)
(* Left out: passwords, one-time codes and their counters, e-mails,        *)
(* captcha, expired tokens (refused, no step) and suspended accounts       *)
(* (nothing in the repository suspends one).  A later registration with    *)
(* the same address is another account.                                    *)
(***************************************************************************)
EXTENDS Integers

CONSTANTS Requests,    \* HTTP requests that may be under way together
          MaxTokens,   \* bound: refresh tokens issued
          MaxClock,    \* bound: the clock stops there
          Term,        \* the 30 days from request to deletion
          Notice       \* the 3 days from reminder to deletion

ASSUME AccountAssumption ==
    /\ MaxTokens \in Nat /\ MaxClock \in Nat /\ Term \in Nat /\ Notice \in Nat

Null   == -1
Tokens == 1..MaxTokens

VARIABLES user,      \* the users row
          live,      \* the committed rows of refresh_tokens
          root,      \* the login a token descends from, 0 before it is issued
          req,       \* the requests under way, with their local variables
          worker,    \* where phases 3 and 4 are, and phase 4's now
          clock,     \* time.Now()
          spent      \* history: the tokens a rotation, a logout or a revocation took away

accountVars == <<user, live, root, req, worker, clock, spent>>

Steps  == {"idle", "counted", "inserted", "found", "issued", "taken", "stored",
           "checked", "revoke", "revoking"}
Phases == {"idle", "remind", "sweep", "delete", "deleting"}

NoRequest == [pc |-> "idle", token |-> 0, new |-> 0, now |-> 0, seen |-> {}]
Resting   == [pc |-> "idle", now |-> 0]

-------------------------------------------------------------------------------
(* Rows and locks.                                                            *)

Exists == user.account = "live"

(* Token rows that a rotation under way has locked.                           *)
Locked == {req[r].token : r \in {q \in Requests : req[q].pc \in {"taken", "stored"}}}

(* A rotation under way holds a share of the users row.                       *)
RowShared == \E r \in Requests : req[r].pc = "stored"

(* Phase 4's DELETE holds the users row.                                      *)
RowHeld == worker.pc = "deleting"

(* Tokens that are stored and not yet in the client's hands.                  *)
Undelivered == {req[r].new : r \in {q \in Requests : req[q].pc = "issued"}}

Fresh(t) == root[t] = 0 /\ \A u \in 1..(t - 1) : root[u] # 0

(* phase 4's condition, and phase 3's window before it.                       *)
DueAt(time)   == Exists /\ user.requested # Null /\ user.requested + Term <= time
NoticeAt(time) ==
    /\ Exists
    /\ user.requested # Null
    /\ user.requested + Term > time
    /\ user.requested + Term <= time + Notice
    /\ ~user.reminded

-------------------------------------------------------------------------------
AccountInit ==
    /\ user = [account |-> "none", requested |-> Null, reminded |-> FALSE]
    /\ live = {}
    /\ root = [t \in Tokens |-> 0]
    /\ req = [r \in Requests |-> NoRequest]
    /\ worker = Resting
    /\ clock = 0
    /\ spent = {}

Goto(r, step) == req' = [req EXCEPT ![r].pc = step]
Answer(r)     == req' = [req EXCEPT ![r] = NoRequest]

(* issueTokensWithStore outside a transaction: the INSERT waits for the users *)
(* row and fails without one.                                                 *)
Issue(t) ==
    /\ Fresh(t)
    /\ root' = [root EXCEPT ![t] = t]
    /\ live' = live \cup {t}

-------------------------------------------------------------------------------
(* POST /auth/register: COUNT, INSERT, tokens.                                *)

RegisterCount(r) ==
    /\ req[r].pc = "idle"
    /\ user.account = "none"
    /\ Goto(r, "counted")
    /\ UNCHANGED <<user, live, root, worker, clock, spent>>

(* Of two requests that both counted none, UNIQUE (email) stops the second.   *)
RegisterInsert(r) ==
    /\ req[r].pc = "counted"
    /\ \/ /\ user.account = "none"
          /\ user' = [user EXCEPT !.account = "live"]
          /\ Goto(r, "inserted")
       \/ /\ user.account # "none"
          /\ Answer(r)
          /\ UNCHANGED user
    /\ UNCHANGED <<live, root, worker, clock, spent>>

RegisterIssue(r, t) ==
    /\ req[r].pc = "inserted"
    /\ Exists /\ ~RowHeld
    /\ Issue(t)
    /\ Answer(r)
    /\ UNCHANGED <<user, worker, clock, spent>>

-------------------------------------------------------------------------------
(* POST /auth/login: SELECT, tokens, UPDATE.                                  *)

LoginRead(r) ==
    /\ req[r].pc = "idle"
    /\ Exists
    /\ Goto(r, "found")
    /\ UNCHANGED <<user, live, root, worker, clock, spent>>

(* Mutant of LoginIssue: the token does not need the users row.               *)
LoginIssueWithoutUser(r, t) ==
    /\ req[r].pc = "found"
    /\ ~RowHeld
    /\ Issue(t)
    /\ req' = [req EXCEPT ![r].pc = "issued", ![r].new = t]
    /\ UNCHANGED <<user, worker, clock, spent>>

LoginIssue(r, t) ==
    /\ req[r].pc = "found"
    /\ Exists /\ ~RowHeld
    /\ Issue(t)
    /\ req' = [req EXCEPT ![r].pc = "issued", ![r].new = t]
    /\ UNCHANGED <<user, worker, clock, spent>>

(* A login cancels a scheduled deletion.  The rows affected are not looked    *)
(* at: the answer is 200 although phase 4 deleted the account since.          *)
LoginUpdate(r) ==
    /\ req[r].pc = "issued"
    /\ ~RowHeld
    /\ user' = IF Exists THEN [user EXCEPT !.requested = Null, !.reminded = FALSE]
                         ELSE user
    /\ Answer(r)
    /\ UNCHANGED <<live, root, worker, clock, spent>>

(* The UPDATE fails: the handler takes the token back.                        *)
LoginUpdateFails(r) ==
    /\ req[r].pc = "issued"
    /\ live' = live \ {req[r].new}
    /\ spent' = spent \cup {req[r].new}
    /\ Answer(r)
    /\ UNCHANGED <<user, root, worker, clock>>

-------------------------------------------------------------------------------
(* POST /auth/refresh: one transaction.                                       *)

(* Mutant of RefreshTake: the token is looked up without locking its row.     *)
RefreshTakeUnlocked(r, t) ==
    /\ req[r].pc = "idle"
    /\ t \in live \ Undelivered
    /\ req' = [req EXCEPT ![r].pc = "taken", ![r].token = t]
    /\ UNCHANGED <<user, live, root, worker, clock, spent>>

(* DELETE ... RETURNING, which waits for another rotation of the same token;  *)
(* then the SELECT of the user.                                               *)
RefreshTake(r, t) ==
    /\ req[r].pc = "idle"
    /\ t \in live \ (Locked \cup Undelivered)
    /\ req' = [req EXCEPT ![r].pc = "taken", ![r].token = t]
    /\ UNCHANGED <<user, live, root, worker, clock, spent>>

(* The INSERT: visible to others at the commit only.                          *)
RefreshStore(r, t) ==
    /\ req[r].pc = "taken"
    /\ Exists /\ ~RowHeld
    /\ Fresh(t)
    /\ root' = [root EXCEPT ![t] = root[req[r].token]]
    /\ req' = [req EXCEPT ![r].pc = "stored", ![r].new = t]
    /\ UNCHANGED <<user, live, worker, clock, spent>>

RefreshCommit(r) ==
    /\ req[r].pc = "stored"
    /\ live' = (live \ {req[r].token}) \cup {req[r].new}
    /\ spent' = spent \cup {req[r].token}
    /\ Answer(r)
    /\ UNCHANGED <<user, root, worker, clock>>

-------------------------------------------------------------------------------
(* Mutant of Logout: the DELETE does not wait for a rotation of the token.    *)
LogoutUnlocked(t) ==
    /\ t \in live \ Undelivered
    /\ live' = live \ {t}
    /\ spent' = spent \cup {t}
    /\ UNCHANGED <<user, root, req, worker, clock>>

(* POST /auth/logout                                                          *)
Logout(t) ==
    /\ t \in live \ (Locked \cup Undelivered)
    /\ live' = live \ {t}
    /\ spent' = spent \cup {t}
    /\ UNCHANGED <<user, root, req, worker, clock>>

(* POST /auth/reset-password with a code that matched: the new password is    *)
(* stored, the revocation comes next.                                         *)
ResetPassword(r) ==
    /\ req[r].pc = "idle"
    /\ Exists /\ ~RowHeld
    /\ Goto(r, "revoke")
    /\ UNCHANGED <<user, live, root, worker, clock, spent>>

(* POST /auth/delete-account, up to the answer 409 of a pending deletion.     *)
(* The handler counts the term from a later last_login_at if there is one;    *)
(* only a login beside the request leaves one, and 409 is no step.            *)
DeleteAccount(r) ==
    /\ req[r].pc = "idle"
    /\ Exists
    /\ root # [t \in Tokens |-> 0]
    /\ user.requested # Null => DueAt(clock)
    /\ req' = [req EXCEPT ![r].pc = "checked", ![r].now = clock]
    /\ UNCHANGED <<user, live, root, worker, clock, spent>>

(* Its UPDATE repeats no condition and stores the time it started at.         *)
ScheduleDeletion(r) ==
    /\ req[r].pc = "checked"
    /\ ~RowHeld
    /\ user' = IF Exists THEN [user EXCEPT !.requested = req[r].now, !.reminded = FALSE]
                         ELSE user
    /\ req' = [req EXCEPT ![r].pc = "revoke", ![r].now = 0]
    /\ UNCHANGED <<live, root, worker, clock, spent>>

(* DELETE FROM refresh_tokens WHERE user_id: the rows it sees when it starts, *)
Revoke(r) ==
    /\ req[r].pc = "revoke"
    /\ req' = [req EXCEPT ![r].pc = "revoking", ![r].seen = live]
    /\ UNCHANGED <<user, live, root, worker, clock, spent>>

(* Mutant of RevokeSeen: rows that a rotation has locked are skipped.         *)
RevokeUnlocked(r) ==
    /\ req[r].pc = "revoking"
    /\ live' = live \ (req[r].seen \ Locked)
    /\ spent' = spent \cup req[r].seen
    /\ Answer(r)
    /\ UNCHANGED <<user, root, worker, clock>>

(* and it waits for the rotations that hold one of them.                      *)
RevokeSeen(r) ==
    /\ req[r].pc = "revoking"
    /\ req[r].seen \cap Locked = {}
    /\ live' = live \ req[r].seen
    /\ spent' = spent \cup req[r].seen
    /\ Answer(r)
    /\ UNCHANGED <<user, root, worker, clock>>

(* A statement fails, PostgreSQL breaks a deadlock, or the client goes away   *)
(* and its context is cancelled: a transaction rolls back, committed          *)
(* statements stay.                                                           *)
GiveUp(r) ==
    /\ req[r].pc # "idle"
    /\ Answer(r)
    /\ UNCHANGED <<user, live, root, worker, clock, spent>>

-------------------------------------------------------------------------------
(* The cleanup worker.                                                        *)

Work(phase) == worker' = [pc |-> phase, now |-> 0]

(* phase 3's query.                                                           *)
FindReminders ==
    /\ worker.pc = "idle"
    /\ Work(IF NoticeAt(clock) THEN "remind" ELSE "sweep")
    /\ UNCHANGED <<user, live, root, req, clock, spent>>

(* The reminder is sent and the row marked by its id, or marking it fails.    *)
MarkReminded ==
    /\ worker.pc = "remind"
    /\ user' \in {user, [user EXCEPT !.reminded = TRUE]}
    /\ Work("sweep")
    /\ UNCHANGED <<live, root, req, clock, spent>>

(* Mutant of FindDueAccount: only accounts that were reminded are found.      *)
FindRemindedAccount ==
    /\ worker.pc = "sweep"
    /\ worker' = IF DueAt(clock) /\ user.reminded THEN [pc |-> "delete", now |-> clock]
                                                  ELSE Resting
    /\ UNCHANGED <<user, live, root, req, clock, spent>>

(* phase 4's query.                                                           *)
FindDueAccount ==
    /\ worker.pc = "sweep"
    /\ worker' = IF DueAt(clock) THEN [pc |-> "delete", now |-> clock] ELSE Resting
    /\ UNCHANGED <<user, live, root, req, clock, spent>>

(* Mutant of LockAccount: the DELETE goes by the id alone.                    *)
LockAccountById ==
    /\ worker.pc = "delete"
    /\ ~RowShared
    /\ worker' = [worker EXCEPT !.pc = "deleting"]
    /\ UNCHANGED <<user, live, root, req, clock, spent>>

(* DELETE FROM users: it waits for the row, looks at it again and takes it.   *)
LockAccount ==
    /\ worker.pc = "delete"
    /\ ~RowShared
    /\ worker' = IF DueAt(worker.now) THEN [worker EXCEPT !.pc = "deleting"] ELSE Resting
    /\ UNCHANGED <<user, live, root, req, clock, spent>>

(* The foreign key deletes the tokens, once no rotation holds one; commit.    *)
DeleteUser ==
    /\ worker.pc = "deleting"
    /\ Locked = {}
    /\ user' = [user EXCEPT !.account = "deleted"]
    /\ live' = {}
    /\ spent' = spent \cup live
    /\ worker' = Resting
    /\ UNCHANGED <<root, req, clock>>

(* A query or the DELETE fails, of a deadlock for instance.                   *)
PhaseFails ==
    /\ worker.pc \in {"sweep", "delete", "deleting"}
    /\ worker' = Resting
    /\ UNCHANGED <<user, live, root, req, clock, spent>>

(* The server stops and starts.                                               *)
Restart ==
    /\ req' = [r \in Requests |-> NoRequest]
    /\ worker' = Resting
    /\ UNCHANGED <<user, live, root, clock, spent>>

Tick ==
    /\ clock < MaxClock
    /\ clock' = clock + 1
    /\ UNCHANGED <<user, live, root, req, worker, spent>>

-------------------------------------------------------------------------------
Arrive(r) ==
    \/ RegisterCount(r)
    \/ LoginRead(r)
    \/ \E t \in Tokens : RefreshTake(r, t)
    \/ ResetPassword(r)
    \/ DeleteAccount(r)

Proceed(r) ==
    \/ RegisterInsert(r)
    \/ \E t \in Tokens : RegisterIssue(r, t) \/ LoginIssue(r, t) \/ RefreshStore(r, t)
    \/ LoginUpdate(r)
    \/ LoginUpdateFails(r)
    \/ RefreshCommit(r)
    \/ ScheduleDeletion(r)
    \/ Revoke(r)
    \/ RevokeSeen(r)
    \/ GiveUp(r)

Sweep ==
    \/ FindReminders
    \/ MarkReminded
    \/ FindDueAccount
    \/ LockAccount
    \/ DeleteUser
    \/ PhaseFails

AccountNext ==
    \/ \E r \in Requests : Arrive(r) \/ Proceed(r)
    \/ \E t \in Tokens : Logout(t)
    \/ Sweep
    \/ Restart
    \/ Tick

AccountSpec == AccountInit /\ [][AccountNext]_accountVars

(* The ticker keeps firing and the worker keeps running; what it tries in     *)
(* sweep after sweep is not cut short by a restart or a failure every single  *)
(* time, and does not find a rotation under way every single time.            *)
AtDelete == worker.pc = "delete"

AccountFairness ==
    /\ WF_accountVars(Sweep)
    /\ SF_accountVars(FindDueAccount)
    /\ SF_accountVars(LockAccount /\ Locked = {})
    /\ SF_accountVars(DeleteUser)
    /\ []<>AtDelete => []<>(AtDelete /\ Locked = {})

LiveAccountSpec == AccountSpec /\ AccountFairness

-------------------------------------------------------------------------------
(* Properties.                                                                *)

Time == Nat \cup {Null}

(* Rows, requests and worker keep their types, and a row that a rotation has  *)
(* locked stays in the table.                                                 *)
AccountTypeOK ==
    /\ user \in [account : {"none", "live", "deleted"}, requested : Time,
                 reminded : BOOLEAN]
    /\ live \subseteq Tokens
    /\ root \in [Tokens -> 0..MaxTokens]
    /\ req \in [Requests -> [pc : Steps, token : 0..MaxTokens, new : 0..MaxTokens,
                             now : Nat, seen : SUBSET Tokens]]
    /\ worker \in [pc : Phases, now : Nat]
    /\ clock \in Nat
    /\ spent \subseteq Tokens
    /\ Locked \subseteq live

(* A login has one valid refresh token at a time, however many rotations of   *)
(* it run at once, fail or are cut short.                                     *)
OneTokenPerLogin == \A t, u \in live : root[t] = root[u] => t = u

(* No session is left without its account: not by a login or a rotation that  *)
(* runs beside phase 4.                                                       *)
NoTokenOutlivesItsAccount == ~Exists => live = {}

(* A token that was rotated, logged out or revoked is never valid again: not  *)
(* even when a rotation that held it rolls back.                              *)
SpentStaysSpent == live \cap spent = {}

(* An account is deleted only when its term is over by the row as it is then: *)
(* the one phase 4 found may have been cancelled by a login, and requested    *)
(* again, since.                                                              *)
DeletionKeepsItsTerm ==
    [][user.account = "live" /\ user'.account = "deleted" => DueAt(clock)]_accountVars

(* A deletion that is due is carried out or cancelled, although phase 4 may   *)
(* be the victim of a deadlock with a rotation, fail or be restarted.         *)
RequestedIsDeleted == DueAt(clock) ~> ~DueAt(clock)
===============================================================================
