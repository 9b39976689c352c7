--------------------------- MODULE LifecycleService ---------------------------
(***************************************************************************)
(* WorkspaceLifecycleService.ApplyInTx of                                  *)
(* internal/handler/workspace_lifecycle.go as functions of the database:   *)
(* when an action is refused, when it changes nothing, and the tables it   *)
(* leaves.  The REST routes, the sync push and the cleanup worker all call *)
(* it; d is the database as the calling transaction sees it, seq and now   *)
(* are the transaction's sequence number and time.                         *)
(***************************************************************************)
EXTENDS SyncTables

LifecycleActions == {"delete", "restore", "purge"}

-------------------------------------------------------------------------------
(* The early returns of ApplyInTx, in the order of the code.                  *)

(* Mutant of Rejection: the guard of the last active workspace compares with  *)
(* < 1.                                                                       *)
RejectionOfNoneActive(d, w, action, deletionModel) ==
    CASE d.ws[w].is_deleted = Absent -> "stale"
      [] d.ws[w].is_deleted = Terminal /\ action # "purge" -> "permanently_deleted"
      [] d.ws[w].is_deleted = Retained /\ action = "delete" /\
         d.ws[w].deletion_model # deletionModel -> "stale"
      [] d.ws[w].is_deleted = Active /\ action = "delete" /\
         Cardinality(ActiveWorkspaces(d)) < 1 -> "last_active_workspace"
      [] d.ws[w].is_deleted = Active /\ action = "purge" -> "stale"
      [] OTHER -> ""

(* Mutant of Rejection: a purge needs no retained root.                       *)
RejectionPurgingActive(d, w, action, deletionModel) ==
    CASE d.ws[w].is_deleted = Absent -> "stale"
      [] d.ws[w].is_deleted = Terminal /\ action # "purge" -> "permanently_deleted"
      [] d.ws[w].is_deleted = Retained /\ action = "delete" /\
         d.ws[w].deletion_model # deletionModel -> "stale"
      [] d.ws[w].is_deleted = Active /\ action = "delete" /\
         Cardinality(ActiveWorkspaces(d)) <= 1 -> "last_active_workspace"
      [] OTHER -> ""

(* The reason a request is refused with, "" when it is not.                   *)
Rejection(d, w, action, deletionModel) ==
    LET row == d.ws[w] IN
    CASE row.is_deleted = Absent -> "stale"
      [] row.is_deleted = Terminal ->
            IF action = "purge" THEN "" ELSE "permanently_deleted"
      [] action = "delete" /\ row.is_deleted = Retained ->
            IF row.deletion_model # deletionModel THEN "stale" ELSE ""
      [] action = "delete" /\ row.is_deleted = Active ->
            IF Cardinality(ActiveWorkspaces(d)) <= 1 THEN "last_active_workspace" ELSE ""
      [] action = "purge" /\ row.is_deleted = Active -> "stale"
      [] OTHER -> ""

(* Mutant of Idempotent: a purge of a purged root is carried out again.       *)
IdempotentButForPurge(d, w, action) ==
    \/ action = "delete"  /\ d.ws[w].is_deleted = Retained
    \/ action = "restore" /\ d.ws[w].is_deleted = Active

(* Accepted and already so: effect.Changed is false.                          *)
Idempotent(d, w, action) ==
    \/ action = "purge"   /\ d.ws[w].is_deleted = Terminal
    \/ action = "delete"  /\ d.ws[w].is_deleted = Retained
    \/ action = "restore" /\ d.ws[w].is_deleted = Active

-------------------------------------------------------------------------------
(* Mutant of ParentDelete: the protocol version is stored as the deletion     *)
(* model.                                                                     *)
ParentDeleteStoringVersion(d, w, deletionModel, seq, now) ==
    [d EXCEPT !.ws[w] = [is_deleted |-> Retained, deletion_model |-> 2 * deletionModel,
                         deleted_at |-> now, seq |-> seq]]

(* Mutant of ParentDelete: the root gets no deletion time.                    *)
ParentDeleteUnstamped(d, w, deletionModel, seq, now) ==
    [d EXCEPT !.ws[w].is_deleted = Retained, !.ws[w].deletion_model = deletionModel,
              !.ws[w].seq = seq]

(* applyWorkspaceDelete: only the root is marked.                             *)
ParentDelete(d, w, deletionModel, seq, now) ==
    [d EXCEPT !.ws[w] = [is_deleted |-> Retained, deletion_model |-> deletionModel,
                         deleted_at |-> now, seq |-> seq]]

(* What applyLegacyDeleteInTx finds active under the workspace.               *)
LiveCollections(d, w) == {c \in CollectionsOf(d, w) : d.col[c].is_deleted = Active}
LiveBookmarks(d, w)   == {b \in Bookmarks : /\ d.bm[b].collection_id \in LiveCollections(d, w)
                                            /\ d.bm[b].is_trashed = Active}
LiveGroups(d, w)      == {g \in GroupsOf(d, w) : d.grp[g].is_deleted = Active}

(* Mutant of LegacyDelete: the collections are marked before the bookmarks,   *)
(* whose statement then finds no active collection.                           *)
LegacyDeleteCollectionsFirst(d, w, seq, now) ==
    LET root == ParentDelete(d, w, 0, seq, now)
        cols == MarkCollections(root, LiveCollections(root, w), Retained, now, seq)
        bms  == MarkBookmarks(cols, LiveBookmarks(cols, w), Retained, now, seq)
    IN  MarkGroups(bms, LiveGroups(bms, w), Retained, now, seq)

(* applyLegacyDeleteInTx: the root, and what was active under it.             *)
LegacyDelete(d, w, seq, now) ==
    LET root == ParentDelete(d, w, 0, seq, now)
        bms  == MarkBookmarks(root, LiveBookmarks(root, w), Retained, now, seq)
        cols == MarkCollections(bms, LiveCollections(bms, w), Retained, now, seq)
    IN  MarkGroups(cols, LiveGroups(cols, w), Retained, now, seq)

(* Mutant of ParentRestore: deleted_at is not cleared.                        *)
ParentRestoreStamped(d, w, seq, now) ==
    [d EXCEPT !.ws[w].is_deleted = Active, !.ws[w].deletion_model = 1,
              !.ws[w].seq = seq]

(* applyWorkspaceRestore: only the root is cleared.                           *)
ParentRestore(d, w, seq, now) ==
    [d EXCEPT !.ws[w] = [is_deleted |-> Active, deletion_model |-> 1,
                         deleted_at |-> Null, seq |-> seq]]

(* Mutant of EvidenceCollections: no lower bound on the sequence number.      *)
EvidenceOfAnyAge(d, w) ==
    {c \in CollectionsOf(d, w) : d.col[c].is_deleted = Retained}

(* Mutant of EvidenceCollections: the sequence number alone is evidence.      *)
EvidenceBySeqOnly(d, w) == {c \in CollectionsOf(d, w) : d.col[c].seq >= d.ws[w].seq}

(* The rows whose sequence number says that they went with the root: the      *)
(* "seq evidence" of applyLegacyRestoreInTx.                                  *)
EvidenceCollections(d, w) ==
    {c \in CollectionsOf(d, w) : /\ d.col[c].is_deleted = Retained
                                 /\ d.col[c].seq >= d.ws[w].seq}
EvidenceBookmarks(d, w) ==
    {b \in Bookmarks : /\ d.bm[b].collection_id \in EvidenceCollections(d, w)
                       /\ d.bm[b].is_trashed = Retained
                       /\ d.bm[b].seq >= d.ws[w].seq}
EvidenceGroups(d, w) ==
    {g \in GroupsOf(d, w) : /\ d.grp[g].is_deleted = Retained
                            /\ d.grp[g].seq >= d.ws[w].seq}

(* applyLegacyRestoreInTx: the root is cleared last, for its seq is the       *)
(* evidence.                                                                  *)
LegacyRestore(d, w, seq, now) ==
    LET bms  == MarkBookmarks(d, EvidenceBookmarks(d, w), Active, Null, seq)
        cols == MarkCollections(bms, EvidenceCollections(bms, w), Active, Null, seq)
        grps == MarkGroups(cols, EvidenceGroups(cols, w), Active, Null, seq)
    IN  ParentRestore(grps, w, seq, now)

(* Mutant of Purge: the collections are dropped before the bookmarks.         *)
PurgeCollectionsFirst(d, w, seq, now) ==
    DropCollections(
        DropGroups([d EXCEPT !.ws[w].is_deleted = Terminal, !.ws[w].seq = seq], GroupsOf(d, w)),
        CollectionsOf(d, w))

(* applyWorkspacePurge: the root becomes a tombstone that keeps its           *)
(* deleted_at; its groups, bookmarks and collections are dropped, in that     *)
(* order.                                                                     *)
Purge(d, w, seq, now) ==
    LET root == [d EXCEPT !.ws[w].is_deleted = Terminal, !.ws[w].seq = seq]
        grps == DropGroups(root, GroupsOf(root, w))
        bms  == DropBookmarks(grps, BookmarksOf(grps, w))
    IN  DropCollections(bms, CollectionsOf(bms, w))

-------------------------------------------------------------------------------
(* The tables after ApplyInTx: as they were when the request is refused or    *)
(* changes nothing.                                                           *)
Applied(d, w, action, deletionModel, seq, now) ==
    IF Rejection(d, w, action, deletionModel) # "" \/ Idempotent(d, w, action) THEN d
    ELSE CASE action = "delete"  -> IF deletionModel = 0
                                    THEN LegacyDelete(d, w, seq, now)
                                    ELSE ParentDelete(d, w, deletionModel, seq, now)
           [] action = "restore" -> IF d.ws[w].deletion_model = 0
                                    THEN LegacyRestore(d, w, seq, now)
                                    ELSE ParentRestore(d, w, seq, now)
           [] action = "purge"   -> Purge(d, w, seq, now)

-------------------------------------------------------------------------------
(* The bookmarks whose search documents ApplyInTx asks its caller to delete   *)
(* and to store again: WorkspaceLifecycleEffect.                              *)

NoEffect == [deletes |-> {}, upserts |-> {}]

(* workspaceSearchDocuments                                                   *)
WorkspaceDocuments(d, w) == {b \in BookmarksOf(d, w) : d.bm[b].is_trashed = Active}

(* Mutant of Effect: a restored root sends no documents.                      *)
EffectOfDeletionsOnly(d, w, action, deletionModel) ==
    IF Rejection(d, w, action, deletionModel) # "" \/ Idempotent(d, w, action) THEN NoEffect
    ELSE CASE action = "delete" /\ deletionModel = 0 ->
                 [NoEffect EXCEPT !.deletes = LiveBookmarks(d, w)]
           [] action = "restore" -> NoEffect
           [] OTHER -> [NoEffect EXCEPT !.deletes = BookmarksOf(d, w)]

(* Mutant of Effect: a purge relies on the deletion that came before it.      *)
EffectWithoutPurge(d, w, action, deletionModel) ==
    IF Rejection(d, w, action, deletionModel) # "" \/ Idempotent(d, w, action) THEN NoEffect
    ELSE CASE action = "delete" /\ deletionModel = 0 ->
                 [NoEffect EXCEPT !.deletes = LiveBookmarks(d, w)]
           [] action = "delete" /\ deletionModel # 0 ->
                 [NoEffect EXCEPT !.deletes = BookmarksOf(d, w)]
           [] action = "restore" /\ d.ws[w].deletion_model = 0 ->
                 [NoEffect EXCEPT !.upserts = EvidenceBookmarks(d, w)]
           [] action = "restore" /\ d.ws[w].deletion_model # 0 ->
                 [NoEffect EXCEPT !.upserts = WorkspaceDocuments(d, w)]
           [] action = "purge" -> NoEffect

Effect(d, w, action, deletionModel) ==
    IF Rejection(d, w, action, deletionModel) # "" \/ Idempotent(d, w, action) THEN NoEffect
    ELSE CASE action = "delete" /\ deletionModel = 0 ->
                 [NoEffect EXCEPT !.deletes = LiveBookmarks(d, w)]
           [] action = "restore" /\ d.ws[w].deletion_model = 0 ->
                 [NoEffect EXCEPT !.upserts = EvidenceBookmarks(d, w)]
           [] action = "restore" /\ d.ws[w].deletion_model # 0 ->
                 [NoEffect EXCEPT !.upserts = WorkspaceDocuments(d, w)]
           [] OTHER -> [NoEffect EXCEPT !.deletes = BookmarksOf(d, w)]
===============================================================================
