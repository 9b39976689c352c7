-------------------------------- MODULE RestApi --------------------------------
(***************************************************************************)
(* The REST routes that change synchronised rows                           *)
(* (internal/handler/workspaces.go, collections.go, bookmarks.go) and the  *)
(* workspace lifecycle they share with version-0 pushes.                   *)
(*                                                                         *)
(* One action per route.  A route runs one transaction that takes the      *)
(* user's sequence-counter lock first and holds it to the commit, so the   *)
(* transactions of a user are atomic towards each other; a serialization   *)
(* failure of the lifecycle transaction rolls back and is no step.  A      *)
(* request answered 404, 409 or 410 rolls back too: sequence number        *)
(* included, so it is no step either.                                      *)
(*                                                                         *)
(* The plan is the open-source one, every limit -1 (billing/local), so the *)
(* create routes skip their quota query.                                   *)
(***************************************************************************)
EXTENDS LifecycleService

CONSTANTS MaxSeq,    \* bound: no transaction starts once the counter is there
          MaxClock   \* bound: the clock stops there

ASSUME BoundAssumption == MaxSeq \in Nat /\ MaxClock \in Nat

VARIABLES db,      \* the database
          clock,   \* time.Now(), as far as the rows tell times apart
          shown    \* history: what each workspace showed when it was last deleted

vars == <<db, clock, shown>>

-------------------------------------------------------------------------------
(* History.  shown[w] is what a client saw under w just before the step that  *)
(* took w from active to retained.                                            *)

Nothing == [col |-> {}, bm |-> {}, grp |-> {}, listed |-> {}]

ShownIn(d, w) ==
    [col |-> {c \in CollectionsOf(d, w) : d.col[c].is_deleted = Active},
     bm  |-> {b \in BookmarksOf(d, w) : /\ d.bm[b].is_trashed = Active
                                        /\ d.col[d.bm[b].collection_id].is_deleted = Active},
     grp |-> {g \in GroupsOf(d, w) : d.grp[g].is_deleted = Active},
     listed |-> {b \in BookmarksOf(d, w) : BookmarkListed(d, b)}]

Deleted(d, e, w) == d.ws[w].is_deleted = Active /\ e.ws[w].is_deleted = Retained

(* One committed transaction: the new database, with the sequence number it   *)
(* took.                                                                      *)
Store(e) ==
    /\ db' = [e EXCEPT !.seq = NextSeq(db)]
    /\ shown' = [w \in Workspaces |-> IF Deleted(db, e, w) THEN ShownIn(db, w) ELSE shown[w]]
    /\ UNCHANGED clock

(* One committed transaction of a client, within the bound.                   *)
Commit(e) == db.seq < MaxSeq /\ Store(e)

-------------------------------------------------------------------------------
(* The user registers (user_sync_seq at 0), and may already have pushed a     *)
(* first workspace with saved groups, which only a push creates.              *)
FirstPush(w, G) ==
    [EmptyDatabase EXCEPT
      !.ws[w] = [is_deleted |-> Active, deletion_model |-> 1,
                 deleted_at |-> Null, seq |-> 1],
      !.grp = [g \in Groups |-> IF g \in G
                                THEN [is_deleted |-> Active, workspace_id |-> w,
                                      deleted_at |-> Null, seq |-> 1]
                                ELSE NoGroup],
      !.seq = 1]

Init ==
    /\ \/ db = EmptyDatabase
       \/ \E w \in Workspaces, G \in SUBSET Groups : db = FirstPush(w, G)
    /\ clock = 0
    /\ shown = [w \in Workspaces |-> Nothing]

Tick ==
    /\ clock < MaxClock
    /\ clock' = clock + 1
    /\ UNCHANGED <<db, shown>>

-------------------------------------------------------------------------------
(* Workspaces.                                                                *)

(* POST /workspaces; uuid.NewString never repeats an id that has a row.       *)
CreateWorkspace(w) ==
    /\ db.ws[w].is_deleted = Absent
    /\ Commit([db EXCEPT !.ws[w] = [is_deleted |-> Active, deletion_model |-> 1,
                                    deleted_at |-> Null, seq |-> NextSeq(db)]])

(* PUT /workspaces/:id                                                        *)
UpdateWorkspace(w) ==
    /\ WorkspaceActive(db, w)
    /\ Commit([db EXCEPT !.ws[w].seq = NextSeq(db)])

(* WorkspaceLifecycleService.Apply: a refused or idempotent request rolls     *)
(* back.                                                                      *)
Apply(w, action, deletionModel) ==
    /\ Rejection(db, w, action, deletionModel) = ""
    /\ ~Idempotent(db, w, action)
    /\ Commit(Applied(db, w, action, deletionModel, NextSeq(db), clock))

DeleteWorkspace(w)            == Apply(w, "delete", 1)
RestoreWorkspace(w)           == Apply(w, "restore", 1)
PermanentlyDeleteWorkspace(w) == Apply(w, "purge", 1)

(* A version-0 push of one deleted workspace: ApplyInTx with deletion model   *)
(* 0.  A push commits, and spends a sequence number, whatever the answer.     *)
PushLegacyDelete(w) ==
    Commit(Applied(db, w, "delete", 0, NextSeq(db), clock))

-------------------------------------------------------------------------------
(* Collections.                                                               *)

(* Mutant of CreateCollection: the target workspace need not be active.       *)
CreateCollectionAnywhere(c, w) ==
    /\ db.col[c].is_deleted = Absent
    /\ db.ws[w].is_deleted # Absent
    /\ Commit([db EXCEPT !.col[c] = [is_deleted |-> Active, workspace_id |-> w,
                                     deleted_at |-> Null, seq |-> NextSeq(db)]])

(* POST /collections: INSERT ... SELECT from the active target workspace.     *)
CreateCollection(c, w) ==
    /\ db.col[c].is_deleted = Absent
    /\ WorkspaceActive(db, w)
    /\ Commit([db EXCEPT !.col[c] = [is_deleted |-> Active, workspace_id |-> w,
                                     deleted_at |-> Null, seq |-> NextSeq(db)]])

(* PUT /collections/:id, which may move it to workspace w.                    *)
UpdateCollection(c, w) ==
    /\ CollectionListed(db, c)
    /\ WorkspaceActive(db, w)
    /\ Commit([db EXCEPT !.col[c].workspace_id = w, !.col[c].seq = NextSeq(db)])

(* DELETE /collections/:id: the bookmarks in it are left as they are.         *)
DeleteCollection(c) ==
    /\ CollectionListed(db, c)
    /\ Commit([db EXCEPT !.col[c].is_deleted = Retained, !.col[c].deleted_at = clock,
                         !.col[c].seq = NextSeq(db)])

-------------------------------------------------------------------------------
(* Bookmarks.                                                                 *)

(* POST /bookmarks: without a collection, or in one the user can reach; the   *)
(* request chooses is_trashed, and deleted_at stays NULL whatever it says.    *)
CreateBookmark(b, parent, trashed) ==
    /\ db.bm[b].is_trashed = Absent
    /\ parent = NoId \/ CollectionUsable(db, parent)
    /\ Commit([db EXCEPT !.bm[b] = [is_trashed |-> trashed, collection_id |-> parent,
                                    deleted_at |-> Null, seq |-> NextSeq(db)]])

(* PUT /bookmarks/:id, which may move it to collection c.                     *)
UpdateBookmark(b, c, trashed) ==
    /\ BookmarkReachable(db, b)
    /\ CollectionUsable(db, c)
    /\ Commit([db EXCEPT !.bm[b] = [is_trashed |-> trashed, collection_id |-> c,
                                    deleted_at |-> Null, seq |-> NextSeq(db)]])

(* Mutant of DeleteBookmark: the row keeps its sequence number.               *)
DeleteBookmarkSilently(b) ==
    /\ BookmarkReachable(db, b)
    /\ Commit([db EXCEPT !.bm[b].deleted_at = clock])

(* DELETE /bookmarks/:id sets deleted_at and leaves is_trashed alone.         *)
DeleteBookmark(b) ==
    /\ BookmarkReachable(db, b)
    /\ Commit([db EXCEPT !.bm[b].deleted_at = clock, !.bm[b].seq = NextSeq(db)])

-------------------------------------------------------------------------------
WorkspaceRoutes ==
    \E w \in Workspaces :
        \/ CreateWorkspace(w)
        \/ UpdateWorkspace(w)
        \/ DeleteWorkspace(w)
        \/ RestoreWorkspace(w)
        \/ PermanentlyDeleteWorkspace(w)
        \/ PushLegacyDelete(w)

CollectionRoutes ==
    \E c \in Collections :
        \/ \E w \in Workspaces : CreateCollection(c, w) \/ UpdateCollection(c, w)
        \/ DeleteCollection(c)

BookmarkRoutes ==
    \E b \in Bookmarks :
        \/ \E parent \in Collections \cup {NoId}, trashed \in {Active, Retained} :
              CreateBookmark(b, parent, trashed)
        \/ \E c \in Collections, trashed \in {Active, Retained} : UpdateBookmark(b, c, trashed)
        \/ DeleteBookmark(b)

Next == WorkspaceRoutes \/ CollectionRoutes \/ BookmarkRoutes \/ Tick

Spec == Init /\ [][Next]_vars

-------------------------------------------------------------------------------
(* Properties.                                                                *)

ShownRecord == [col : SUBSET Collections, bm : SUBSET Bookmarks,
                grp : SUBSET Groups, listed : SUBSET Bookmarks]

(* Every table row, the sequence counter and the clock keep their type.       *)
TypeOK ==
    /\ db \in Database
    /\ clock \in Nat
    /\ shown \in [Workspaces -> ShownRecord]

(* A workspace row has a deletion time exactly when it is retained or         *)
(* purged.  expireWorkspaces only looks at rows that have one, and a purged   *)
(* root must keep it to be pulled as a tombstone.                             *)
DeletionIsStamped ==
    \A w \in Workspaces :
        (db.ws[w].is_deleted \in {Retained, Terminal}) <=> (db.ws[w].deleted_at # Null)

(* Nothing is left under a purged workspace, whatever was created, moved or   *)
(* deleted under it before and by whom: no collection and no group points to  *)
(* it (applyWorkspacePurge against every route that inserts or moves rows).   *)
PurgedLeavesNothing ==
    \A w \in Workspaces :
        db.ws[w].is_deleted = Terminal => CollectionsOf(db, w) = {} /\ GroupsOf(db, w) = {}

(* After a legacy delete nothing under the workspace is active: no collection *)
(* and no group, and no untrashed bookmark in a collection that the restore   *)
(* would bring back (applyLegacyDeleteInTx, and every route afterwards).      *)
LegacyCascadeIsComplete ==
    \A w \in Workspaces :
        db.ws[w].is_deleted = Retained /\ db.ws[w].deletion_model = 0 =>
            /\ ShownIn(db, w) = Nothing
            /\ \A b \in BookmarksOf(db, w) :
                  db.bm[b].collection_id \in EvidenceCollections(db, w) =>
                      db.bm[b].is_trashed # Active

(* What has an active workspace keeps one, a purged root never changes again, *)
(* and a workspace moves only along the lifecycle: this module implements the *)
(* abstract contract.                                                         *)
Contract == INSTANCE WorkspaceContract
                WITH state <- [w \in Workspaces |-> db.ws[w].is_deleted]
ImplementsContract == Contract!Spec

(* A purged root is frozen to the last column: no late delete, restore,       *)
(* update or legacy push rewrites the scrubbed row (ApplyInTx lines 146-153). *)
TombstoneIsFrozen ==
    [][\A w \in Workspaces :
         db.ws[w].is_deleted = Terminal => db'.ws[w] = db.ws[w]]_db

(* A bookmark that has a collection keeps one for as long as it has a row: no *)
(* deletion of a collection strands it through ON DELETE SET NULL.            *)
NoBookmarkIsStranded ==
    [][\A b \in Bookmarks :
         /\ db.bm[b].collection_id # NoId
         /\ db'.bm[b].is_trashed # Absent
         => db'.bm[b].collection_id # NoId]_db

(* A change that a client at sequence number d.seq can learn by pulling: the  *)
(* row carries the new number, or it went with a root that does.              *)
PurgedNow(d, e, w) ==
    /\ w \in Workspaces
    /\ d.ws[w].is_deleted # Terminal
    /\ e.ws[w].is_deleted = Terminal
    /\ e.ws[w].seq = e.seq

Published(d, e) ==
    /\ e.seq > d.seq
    /\ \A w \in Workspaces : e.ws[w] # d.ws[w] => e.ws[w].seq = e.seq
    /\ \A c \in Collections : e.col[c] # d.col[c] =>
          IF e.col[c].is_deleted = Absent THEN PurgedNow(d, e, d.col[c].workspace_id)
                                          ELSE e.col[c].seq = e.seq
    /\ \A b \in Bookmarks : e.bm[b] # d.bm[b] =>
          IF e.bm[b].is_trashed = Absent
          THEN \E c \in Collections : /\ c = d.bm[b].collection_id
                                      /\ PurgedNow(d, e, d.col[c].workspace_id)
          ELSE e.bm[b].seq = e.seq
    /\ \A g \in Groups : e.grp[g] # d.grp[g] =>
          IF e.grp[g].is_deleted = Absent THEN PurgedNow(d, e, d.grp[g].workspace_id)
                                          ELSE e.grp[g].seq = e.seq

(* Every transaction publishes every row it changed: an incremental pull from *)
(* any earlier sequence number sees the row, or the tombstone of the          *)
(* workspace the row went with.                                               *)
EveryChangeIsPublished == [][Published(db, db')]_db

(* Restoring a workspace, under either deletion model, brings back the        *)
(* collections, groups and bookmarks it had when it was deleted, by their     *)
(* is_deleted and is_trashed, and none that was marked before (the sequence   *)
(* evidence of applyLegacyRestoreInTx, and the untouched rows of              *)
(* applyWorkspaceDelete).                                                     *)
Restored(w) == db.ws[w].is_deleted = Retained /\ db'.ws[w].is_deleted = Active

RestoreIsExact ==
    [][\A w \in Workspaces : Restored(w) =>
         LET now == ShownIn(db', w) IN
         /\ now.col = shown[w].col
         /\ now.bm  = shown[w].bm
         /\ now.grp = shown[w].grp]_vars

(* ARCHITECTURE.md says of the legacy restore that records that were already  *)
(* deleted on their own before are not brought back by mistake: a bookmark    *)
(* that is listed after the restore was listed before the delete.             *)
RestoreKeepsEarlierDeletions ==
    [][\A w \in Workspaces : Restored(w) =>
         \A b \in BookmarksOf(db', w) : BookmarkListed(db', b) => b \in shown[w].listed]_vars
===============================================================================
