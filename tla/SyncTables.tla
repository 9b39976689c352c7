------------------------------ MODULE SyncTables ------------------------------
(***************************************************************************)
(* The PostgreSQL tables that TabSlate synchronises, for one user: what a  *)
(* row holds, which rows the REST queries show, and the per-user sequence  *)
(* counter (db/schema.pg.sql, internal/handler/sync_seq.go).               *)
(*                                                                         *)
(* One user is enough: every statement of the handlers filters on user_id, *)
(* and the sequence counter, its row lock and the quotas are per user.     *)
(* Names, urls, colours, positions and tabs are left out, since no rule of *)
(* the program reads them, and so is updated_at, which only says whether a *)
(* row was written in the same millisecond as a push.                      *)
(***************************************************************************)
EXTENDS Integers, FiniteSets

CONSTANTS Workspaces,   \* the workspace ids
          Collections,  \* the collection ids
          Bookmarks,    \* the bookmark ids
          Groups,       \* the saved-group ids
          NoId          \* SQL NULL in a foreign-key column

ASSUME IdAssumption ==
    /\ NoId \notin Workspaces
    /\ NoId \notin Collections

-------------------------------------------------------------------------------
(* Row states: is_deleted of workspaces, collections and groups, is_trashed   *)
(* of bookmarks.  Absent is "no such row", the -1 of ApplyInTx's targetState. *)

Absent   == -1
Active   == 0
Retained == 1
Terminal == 2

States   == {Absent, Active, Retained, Terminal}

Null      == -1              \* SQL NULL in a timestamp column
Timestamp == Nat \cup {Null}

WorkspaceRow  == [is_deleted : States, deletion_model : {0, 1},
                  deleted_at : Timestamp, seq : Nat]
CollectionRow == [is_deleted : States, workspace_id : Workspaces \cup {NoId},
                  deleted_at : Timestamp, seq : Nat]
BookmarkRow   == [is_trashed : States, collection_id : Collections \cup {NoId},
                  deleted_at : Timestamp, seq : Nat]
GroupRow      == [is_deleted : States, workspace_id : Workspaces \cup {NoId},
                  deleted_at : Timestamp, seq : Nat]

(* ws, col, bm and grp are the tables; seq is the user_sync_seq row.          *)
Database == [ws  : [Workspaces -> WorkspaceRow],
             col : [Collections -> CollectionRow],
             bm  : [Bookmarks -> BookmarkRow],
             grp : [Groups -> GroupRow],
             seq : Nat]

NoWorkspace  == [is_deleted |-> Absent, deletion_model |-> 1,
                 deleted_at |-> Null, seq |-> 0]
NoCollection == [is_deleted |-> Absent, workspace_id |-> NoId,
                 deleted_at |-> Null, seq |-> 0]
NoBookmark   == [is_trashed |-> Absent, collection_id |-> NoId,
                 deleted_at |-> Null, seq |-> 0]
NoGroup      == NoCollection

EmptyDatabase == [ws  |-> [w \in Workspaces |-> NoWorkspace],
                  col |-> [c \in Collections |-> NoCollection],
                  bm  |-> [b \in Bookmarks |-> NoBookmark],
                  grp |-> [g \in Groups |-> NoGroup],
                  seq |-> 0]

-------------------------------------------------------------------------------
(* What the queries see.  Every REST read and write joins up to an active     *)
(* workspace.                                                                 *)

ActiveWorkspaces(d) == {w \in Workspaces : d.ws[w].is_deleted = Active}

WorkspaceActive(d, w) == w \in ActiveWorkspaces(d)

(* JOIN workspaces w ON w.id = c.workspace_id ... WHERE c.deleted_at IS NULL  *)
(* AND w.is_deleted = 0: the guard of every collection route.                 *)
CollectionListed(d, c) ==
    /\ c \in Collections
    /\ d.col[c].is_deleted # Absent
    /\ d.col[c].deleted_at = Null
    /\ WorkspaceActive(d, d.col[c].workspace_id)

(* The parent test of the bookmark routes: also is_deleted = 0.               *)
CollectionUsable(d, c) ==
    /\ CollectionListed(d, c)
    /\ d.col[c].is_deleted = Active

(* The rows the bookmark routes can name: not deleted, in a usable collection *)
BookmarkReachable(d, b) ==
    /\ d.bm[b].is_trashed # Absent
    /\ d.bm[b].deleted_at = Null
    /\ CollectionUsable(d, d.bm[b].collection_id)

(* GET /bookmarks without trashed=true                                        *)
BookmarkListed(d, b) ==
    /\ BookmarkReachable(d, b)
    /\ d.bm[b].is_trashed = Active

(* incrementSeq: the value the transaction's upsert of user_sync_seq returns. *)
(* The row lock it takes is held to the commit, so the transactions of one    *)
(* user that write take turns, in the order of their sequence numbers.        *)
NextSeq(d) == d.seq + 1

(* Rows by parent.                                                            *)
CollectionsOf(d, w) == {c \in Collections : d.col[c].workspace_id = w}
BookmarksOf(d, w)   == {b \in Bookmarks : d.bm[b].collection_id \in CollectionsOf(d, w)}
GroupsOf(d, w)      == {g \in Groups : d.grp[g].workspace_id = w}

-------------------------------------------------------------------------------
(* UPDATE ... SET is_deleted (is_trashed) = state, deleted_at = at, seq = seq, *)
(* for the rows of a set.                                                     *)

MarkCollections(d, C, state, at, seq) ==
    [d EXCEPT !.col = [c \in Collections |->
        IF c \in C
        THEN [d.col[c] EXCEPT !.is_deleted = state, !.deleted_at = at, !.seq = seq]
        ELSE d.col[c]]]

MarkBookmarks(d, B, state, at, seq) ==
    [d EXCEPT !.bm = [b \in Bookmarks |->
        IF b \in B
        THEN [d.bm[b] EXCEPT !.is_trashed = state, !.deleted_at = at, !.seq = seq]
        ELSE d.bm[b]]]

MarkGroups(d, G, state, at, seq) ==
    [d EXCEPT !.grp = [g \in Groups |->
        IF g \in G
        THEN [d.grp[g] EXCEPT !.is_deleted = state, !.deleted_at = at, !.seq = seq]
        ELSE d.grp[g]]]

(* DELETE FROM, with the foreign key of bookmarks.collection_id: ON DELETE    *)
(* SET NULL, which bumps no seq.                                              *)

DropGroups(d, G) ==
    [d EXCEPT !.grp = [g \in Groups |-> IF g \in G THEN NoGroup ELSE d.grp[g]]]

DropBookmarks(d, B) ==
    [d EXCEPT !.bm = [b \in Bookmarks |-> IF b \in B THEN NoBookmark ELSE d.bm[b]]]

DropCollections(d, C) ==
    [d EXCEPT
      !.col = [c \in Collections |-> IF c \in C THEN NoCollection ELSE d.col[c]],
      !.bm  = [b \in Bookmarks |-> IF d.bm[b].collection_id \in C
                                   THEN [d.bm[b] EXCEPT !.collection_id = NoId]
                                   ELSE d.bm[b]]]
===============================================================================
