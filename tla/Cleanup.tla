-------------------------------- MODULE Cleanup --------------------------------
(***************************************************************************)
(* The cleanup goroutine (internal/handler/cleanup.go), running beside the *)
(* REST routes and legacy pushes of RestApi: one round promotes expired    *)
(* rows to tombstones (phase 1), purges expired workspaces                 *)
(* (expireWorkspaces) and hard-deletes old tombstones (phase 2).  One      *)
(* server instance.                                                        *)
(*                                                                         *)
(* Clients act between any two statements of the round, the database may   *)
(* fail any of them, and the server may stop anywhere and start again,     *)
(* which runs the schema file and then a round.  Phases 3 and 4 touch      *)
(* account rows only: they are in module Accounts.                         *)
(***************************************************************************)
EXTENDS RestApi

CONSTANTS PlanGrace,    \* limits.TrashGraceDays of the user's plan; < 0 is never
          TrashGrace,   \* TRASH_GRACE_DAYS
          Window,       \* tombstoneWindowDays
          RoundPeriod   \* the 24 h between two ticks of Run's ticker

ASSUME GraceAssumption ==
    /\ PlanGrace \in Int
    /\ TrashGrace \in Nat
    /\ Window \in Nat
    /\ RoundPeriod \in Nat

VARIABLES pc,       \* where the round is
          now,      \* the time the round started: runOnce's now
          scanned,  \* expireWorkspaces: the deleted_at of each candidate not yet handled
          born      \* history: when phase 1 made each row a tombstone, Null before

worker      == <<pc, now, scanned, born>>
cleanupVars == <<db, clock, shown, pc, now, scanned, born>>

Phases == {"idle", "due", "promote", "scan", "expire", "bookmarks", "collections", "groups"}

NothingScanned == [w \in Workspaces |-> Null]

-------------------------------------------------------------------------------
(* The tables a step of the round leaves.                                     *)

Expired(deletedAt, limit) == deletedAt # Null /\ deletedAt < limit

(* Mutant of Promoted: groups keep their sequence number.                     *)
PromotedGroupsSilently(d, limit, seq) ==
    [d EXCEPT
      !.bm  = [b \in Bookmarks |->
                IF d.bm[b].is_trashed = Retained /\ Expired(d.bm[b].deleted_at, limit)
                THEN [d.bm[b] EXCEPT !.is_trashed = Terminal, !.seq = seq] ELSE d.bm[b]],
      !.col = [c \in Collections |->
                IF d.col[c].is_deleted = Retained /\ Expired(d.col[c].deleted_at, limit)
                THEN [d.col[c] EXCEPT !.is_deleted = Terminal, !.seq = seq] ELSE d.col[c]],
      !.grp = [g \in Groups |->
                IF d.grp[g].is_deleted = Retained /\ Expired(d.grp[g].deleted_at, limit)
                THEN [d.grp[g] EXCEPT !.is_deleted = Terminal] ELSE d.grp[g]]]

(* Phase 1's three UPDATEs: state 1 past the grace period becomes state 2.    *)
Promoted(d, limit, seq) ==
    [d EXCEPT
      !.bm  = [b \in Bookmarks |->
                IF d.bm[b].is_trashed = Retained /\ Expired(d.bm[b].deleted_at, limit)
                THEN [d.bm[b] EXCEPT !.is_trashed = Terminal, !.seq = seq] ELSE d.bm[b]],
      !.col = [c \in Collections |->
                IF d.col[c].is_deleted = Retained /\ Expired(d.col[c].deleted_at, limit)
                THEN [d.col[c] EXCEPT !.is_deleted = Terminal, !.seq = seq] ELSE d.col[c]],
      !.grp = [g \in Groups |->
                IF d.grp[g].is_deleted = Retained /\ Expired(d.grp[g].deleted_at, limit)
                THEN [d.grp[g] EXCEPT !.is_deleted = Terminal, !.seq = seq] ELSE d.grp[g]]]

(* The user has a row for phase 1 to promote.                                 *)
HasExpired(d, limit) == Promoted(d, limit, NextSeq(d)) # d

(* What phase 2 hard-deletes.                                                 *)
DueBookmarks(d, cutoff) ==
    {b \in Bookmarks : d.bm[b].is_trashed = Terminal /\ Expired(d.bm[b].deleted_at, cutoff)}
DueCollections(d, cutoff) ==
    {c \in Collections : d.col[c].is_deleted = Terminal /\ Expired(d.col[c].deleted_at, cutoff)}
DueGroups(d, cutoff) ==
    {g \in Groups : d.grp[g].is_deleted = Terminal /\ Expired(d.grp[g].deleted_at, cutoff)}

(* The last statement of the schema file that touches rows: collections that  *)
(* an old client stored as active with a deletion time are trashed.           *)
Backfilled(d) ==
    [d EXCEPT !.col = [c \in Collections |->
        IF d.col[c].is_deleted = Active /\ d.col[c].deleted_at # Null
        THEN [d.col[c] EXCEPT !.is_deleted = Retained] ELSE d.col[c]]]

-------------------------------------------------------------------------------
(* A user with two or more workspaces, one of them holding every collection   *)
(* and group; stamp is the deletion time an old client sent with them.        *)
Populated(w, stamp) ==
    [ws  |-> [v \in Workspaces |-> [is_deleted |-> Active, deletion_model |-> 1,
                                    deleted_at |-> Null, seq |-> 1]],
     col |-> [c \in Collections |-> [is_deleted |-> Active, workspace_id |-> w,
                                     deleted_at |-> stamp, seq |-> 1]],
     bm  |-> [b \in Bookmarks |-> NoBookmark],
     grp |-> [g \in Groups |-> [is_deleted |-> Active, workspace_id |-> w,
                                deleted_at |-> Null, seq |-> 1]],
     seq |-> 1]

CleanupInit ==
    /\ \E w \in Workspaces, stamp \in {Null, 0} : db = Populated(w, stamp)
    /\ clock = 0
    /\ shown = [w \in Workspaces |-> Nothing]
    /\ pc = "idle"
    /\ now = 0
    /\ scanned = NothingScanned
    /\ born = [bm  |-> [b \in Bookmarks |-> Null],
               col |-> [c \in Collections |-> Null],
               grp |-> [g \in Groups |-> Null]]

(* now is a local variable of the round: 0 when there is none.                *)
Goto(phase) ==
    /\ pc' = phase
    /\ now' = IF phase = "idle" THEN 0 ELSE now
    /\ UNCHANGED <<scanned, born>>

Keep == UNCHANGED <<db, clock, shown>>

(* Mutant of StartRound: the round keeps the threshold instead of the time.   *)
StartRoundAtThreshold ==
    /\ pc = "idle"
    /\ pc' = "due"
    /\ now' = clock - TrashGrace
    /\ UNCHANGED <<scanned, born>>
    /\ Keep

(* runOnce, at the start and at every tick of the 24 h ticker.                *)
StartRound ==
    /\ pc = "idle"
    /\ pc' = "due"
    /\ now' = clock
    /\ UNCHANGED <<scanned, born>>
    /\ Keep

(* Phase 1's query for the users with expired rows.                           *)
FindDue ==
    /\ pc = "due"
    /\ Goto(IF HasExpired(db, now - TrashGrace) THEN "promote" ELSE "scan")
    /\ Keep

(* A row in state old becomes a tombstone; a tombstone is hard-deleted.       *)
Buried(old, new)  == old # Terminal /\ new = Terminal
Removed(old, new) == old = Terminal /\ new = Absent

(* phase1ForUser: one transaction.                                            *)
Promote ==
    /\ pc = "promote"
    /\ Store(Promoted(db, now - TrashGrace, NextSeq(db)))
    /\ pc' = "scan"
    /\ born' = [bm  |-> [b \in Bookmarks |->
                           IF Buried(db.bm[b].is_trashed, db'.bm[b].is_trashed)
                           THEN clock ELSE born.bm[b]],
                col |-> [c \in Collections |->
                           IF Buried(db.col[c].is_deleted, db'.col[c].is_deleted)
                           THEN clock ELSE born.col[c]],
                grp |-> [g \in Groups |->
                           IF Buried(db.grp[g].is_deleted, db'.grp[g].is_deleted)
                           THEN clock ELSE born.grp[g]]]
    /\ UNCHANGED <<now, scanned>>

(* expireWorkspaces: the candidates, with the deletion time they have now.    *)
ScanWorkspaces ==
    /\ pc = "scan"
    /\ pc' = "expire"
    /\ scanned' = [w \in Workspaces |-> IF db.ws[w].is_deleted = Retained
                                        THEN db.ws[w].deleted_at ELSE Null]
    /\ UNCHANGED <<now, born>>
    /\ Keep

(* One candidate is past the plan's grace period, by the scanned time.        *)
PastGrace(w) ==
    /\ pc = "expire"
    /\ scanned[w] # Null
    /\ PlanGrace >= 0
    /\ scanned[w] <= now - PlanGrace

Handled(w) == scanned' = [scanned EXCEPT ![w] = Null] /\ UNCHANGED <<pc, now, born>>

(* lifecycle.Apply(purge) commits.                                            *)
ExpireWorkspace(w) ==
    /\ PastGrace(w)
    /\ Rejection(db, w, "purge", 1) = ""
    /\ ~Idempotent(db, w, "purge")
    /\ Store(Applied(db, w, "purge", 1, NextSeq(db), clock))
    /\ Handled(w)

(* Not due, refused, already done, or the transaction failed: next candidate. *)
SkipWorkspace(w) ==
    /\ pc = "expire"
    /\ scanned[w] # Null
    /\ Handled(w)
    /\ Keep

FinishExpiry ==
    /\ pc = "expire"
    /\ scanned = NothingScanned
    /\ Goto("bookmarks")
    /\ Keep

(* Mutant of Cutoff: tombstones go with the grace period.                     *)
CutoffWithoutWindow == now - TrashGrace

(* Phase 2's three statements.  They take no sequence number.                 *)
Cutoff == now - TrashGrace - Window

Erase(e, next) ==
    /\ db' = e
    /\ UNCHANGED <<clock, shown>>
    /\ Goto(next)

EraseBookmarks   == pc = "bookmarks" /\ Erase(DropBookmarks(db, DueBookmarks(db, Cutoff)), "collections")
EraseCollections == pc = "collections" /\ Erase(DropCollections(db, DueCollections(db, Cutoff)), "groups")
EraseGroups      == pc = "groups" /\ Erase(DropGroups(db, DueGroups(db, Cutoff)), "idle")

(* Mutant of StepFails: phase 2 goes on after a failed statement.             *)
StepFailsAndPhase2GoesOn ==
    /\ \/ pc \in {"due", "promote"} /\ Goto("scan")
       \/ pc = "scan" /\ Goto("bookmarks")
       \/ pc = "bookmarks" /\ Goto("collections")
       \/ pc = "collections" /\ Goto("groups")
       \/ pc = "groups" /\ Goto("idle")
    /\ Keep

(* A failed statement: phase 1 and the scan give up and the next part of the  *)
(* round runs; phase 2 gives up altogether.                                   *)
StepFails ==
    /\ \/ pc \in {"due", "promote"} /\ Goto("scan")
       \/ pc = "scan" /\ Goto("bookmarks")
       \/ pc \in {"bookmarks", "collections", "groups"} /\ Goto("idle")
    /\ Keep

(* The server stops and starts: db.Migrate runs the schema file.              *)
Restart ==
    /\ db' = Backfilled(db)
    /\ pc' = "idle"
    /\ now' = 0
    /\ scanned' = NothingScanned
    /\ UNCHANGED <<clock, shown, born>>

Round ==
    \/ StartRound
    \/ FindDue
    \/ Promote
    \/ ScanWorkspaces
    \/ \E w \in Workspaces : ExpireWorkspace(w) \/ SkipWorkspace(w)
    \/ FinishExpiry
    \/ EraseBookmarks
    \/ EraseCollections
    \/ EraseGroups
    \/ StepFails

Clients == Next /\ UNCHANGED worker

CleanupNext == Clients \/ Round \/ Restart

CleanupSpec == CleanupInit /\ [][CleanupNext]_cleanupVars

(* The ticker keeps firing, the goroutine keeps running, and a step that is   *)
(* tried again and again does not fail, or is not cut short by a restart,     *)
(* every time.                                                                *)
Fairness ==
    /\ WF_cleanupVars(Round)
    /\ SF_cleanupVars(FindDue)
    /\ SF_cleanupVars(Promote)
    /\ SF_cleanupVars(ScanWorkspaces)
    /\ \A w \in Workspaces : SF_cleanupVars(ExpireWorkspace(w))

LiveSpec == CleanupSpec /\ Fairness

-------------------------------------------------------------------------------
(* Properties.                                                                *)

(* Every row stays of its type beside the worker, whose program counter,      *)
(* times and candidates have theirs.                                          *)
CleanupTypeOK ==
    /\ TypeOK
    /\ pc \in Phases
    /\ now \in Nat
    /\ scanned \in [Workspaces -> Timestamp]
    /\ born \in [bm  : [Bookmarks -> Timestamp],
                 col : [Collections -> Timestamp],
                 grp : [Groups -> Timestamp]]

(* The worker never purges an active workspace, although the candidates it    *)
(* works through may have been restored since the scan.                       *)
WorkerSparesActive ==
    [][\A w \in Workspaces :
         pc = "expire" /\ db.ws[w].is_deleted = Active => db'.ws[w].is_deleted # Terminal]_cleanupVars

(* A bookmark that is due for deletion itself is never left behind by the     *)
(* deletion of its collection: phase 2 works bottom up and stops at the first *)
(* failure.                                                                   *)
NoDueBookmarkIsStranded ==
    [][\A b \in Bookmarks :
         /\ pc = "collections"
         /\ b \in DueBookmarks(db, Cutoff)
         /\ db.bm[b].collection_id # NoId
         /\ db'.bm[b].is_trashed # Absent
         => db'.bm[b].collection_id # NoId]_cleanupVars

(* A bookmark, collection or group becomes a tombstone under a new sequence   *)
(* number, so that clients pull it ("bumping seq so tombstones appear in      *)
(* delta pulls").                                                             *)
UnderNewSeq(seq) == seq = db'.seq /\ db'.seq > db.seq

TombstonesArePublished ==
    [][/\ \A b \in Bookmarks :
            Buried(db.bm[b].is_trashed, db'.bm[b].is_trashed) => UnderNewSeq(db'.bm[b].seq)
       /\ \A c \in Collections :
            Buried(db.col[c].is_deleted, db'.col[c].is_deleted) => UnderNewSeq(db'.col[c].seq)
       /\ \A g \in Groups :
            Buried(db.grp[g].is_deleted, db'.grp[g].is_deleted) => UnderNewSeq(db'.grp[g].seq)
      ]_cleanupVars

(* No REST route, legacy delete or restore, round or restart brings a         *)
(* tombstone back: devices have dropped their copy.  Phase 1 gives it a       *)
(* number above its root's, the very evidence by which a late legacy restore  *)
(* takes the children it brings back.  Other pushes are not in this module.   *)
Final(old, new) == old = Terminal => new \in {Terminal, Absent}

TombstonesAreFinal ==
    [][/\ \A b \in Bookmarks : Final(db.bm[b].is_trashed, db'.bm[b].is_trashed)
       /\ \A c \in Collections : Final(db.col[c].is_deleted, db'.col[c].is_deleted)
       /\ \A g \in Groups : Final(db.grp[g].is_deleted, db'.grp[g].is_deleted)]_cleanupVars

(* A workspace does not stay retained past its plan's grace period: it is     *)
(* purged or restored in the end, whatever rounds failed or were cut short.   *)
Overdue(w) ==
    /\ db.ws[w].is_deleted = Retained
    /\ db.ws[w].deleted_at <= clock - PlanGrace

ExpiredIsPurged == \A w \in Workspaces : Overdue(w) ~> ~Overdue(w)

(* tombstoneWindowDays is "the maximum expected delta-sync lag across         *)
(* devices".  Both phases measure from deleted_at, so what phase 1 is late by *)
(* is lost from the window.  A tombstone it made within one period of the     *)
(* row's expiry, which is when the next tick comes, is there to be pulled for *)
(* all of the window but that period, whatever rounds failed, were cut short  *)
(* or came early with a restart since.                                        *)
Kept(bornAt, deletedAt) ==
    bornAt <= deletedAt + TrashGrace + RoundPeriod => clock - bornAt > Window - RoundPeriod

TombstoneLosesAtMostARound ==
    [][/\ pc = "bookmarks" /\ pc' # pc =>
            \A b \in Bookmarks :
               Removed(db.bm[b].is_trashed, db'.bm[b].is_trashed)
                  => Kept(born.bm[b], db.bm[b].deleted_at)
       /\ pc = "collections" /\ pc' # pc =>
            \A c \in Collections :
               Removed(db.col[c].is_deleted, db'.col[c].is_deleted)
                  => Kept(born.col[c], db.col[c].deleted_at)
       /\ pc = "groups" /\ pc' # pc =>
            \A g \in Groups :
               Removed(db.grp[g].is_deleted, db'.grp[g].is_deleted)
                  => Kept(born.grp[g], db.grp[g].deleted_at)]_cleanupVars

(* ARCHITECTURE.md says that a failing step of phase 2 stops the rest so that *)
(* no foreign-key orphan appears: no bookmark loses its collection to         *)
(* phase 2.                                                                   *)
NoOrphanByCleanup ==
    [][\A b \in Bookmarks :
         /\ pc = "collections"
         /\ db.bm[b].collection_id # NoId
         /\ db'.bm[b].is_trashed # Absent
         => db'.bm[b].collection_id # NoId]_cleanupVars
===============================================================================
