----------------------------- MODULE RestApiProofs -----------------------------
(***************************************************************************)
(* Proofs about RestApi, for every set of ids and every bound: the tables  *)
(* keep their type, deletions are stamped, nothing is left under a purged  *)
(* workspace, a purged root never changes, and no bookmark is stranded.    *)
(*                                                                         *)
(* The second half says what one step of RestApi does to each row, stated  *)
(* once for the proofs here and about the modules that extend RestApi: the *)
(* rows each lifecycle operation marks or drops, the single row each route *)
(* writes, and that nothing changes under a workspace that is not active.  *)
(* From it the theorems that relate a step to what came before: every      *)
(* change is published under the sequence number of its transaction, a     *)
(* legacy delete leaves nothing active behind, and a restore of either     *)
(* deletion model brings back what the delete took.                        *)
(***************************************************************************)
EXTENDS RestApi, FiniteSetTheorems, TLAPS

-------------------------------------------------------------------------------
(* The statements that mark and drop rows keep the tables' type.              *)

(* Marking rows keeps the tables' types.                                      *)
LEMMA MarkType ==
    ASSUME NEW d \in Database, NEW S, NEW state \in States,
           NEW at \in Timestamp, NEW seq \in Nat
    PROVE  /\ MarkCollections(d, S, state, at, seq) \in Database
           /\ MarkBookmarks(d, S, state, at, seq) \in Database
           /\ MarkGroups(d, S, state, at, seq) \in Database
<1>1. MarkCollections(d, S, state, at, seq) \in Database
  BY DEF MarkCollections, Database, CollectionRow
<1>2. MarkBookmarks(d, S, state, at, seq) \in Database
  BY DEF MarkBookmarks, Database, BookmarkRow
<1>3. MarkGroups(d, S, state, at, seq) \in Database
  BY DEF MarkGroups, Database, GroupRow
<1> QED BY <1>1, <1>2, <1>3

(* So does dropping the children of a workspace.                              *)
LEMMA DropType ==
    ASSUME NEW d \in Database, NEW S
    PROVE  /\ DropGroups(d, S) \in Database
           /\ DropBookmarks(d, S) \in Database
           /\ DropCollections(d, S) \in Database
<1> USE DEF Database, States, Timestamp, Absent, Null
<1>1. DropGroups(d, S) \in Database
  BY DEF DropGroups, GroupRow, NoGroup, NoCollection
<1>2. DropBookmarks(d, S) \in Database
  BY DEF DropBookmarks, BookmarkRow, NoBookmark
<1>3. DropCollections(d, S) \in Database
  <2> DEFINE col == [c \in Collections |-> IF c \in S THEN NoCollection ELSE d.col[c]]
             bm  == [b \in Bookmarks |-> IF d.bm[b].collection_id \in S
                                         THEN [d.bm[b] EXCEPT !.collection_id = NoId]
                                         ELSE d.bm[b]]
  <2>1. col \in [Collections -> CollectionRow]
    BY DEF CollectionRow, NoCollection
  <2>2. bm \in [Bookmarks -> BookmarkRow]
    BY DEF BookmarkRow
  <2>3. DropCollections(d, S) = [d EXCEPT !.col = col, !.bm = bm]
    BY DEF DropCollections
  <2> HIDE DEF col, bm
  <2> QED BY <2>1, <2>2, <2>3
<1> QED BY <1>1, <1>2, <1>3

(* One workspace row replaced.                                                *)
LEMMA WorkspaceType ==
    ASSUME NEW d \in Database, NEW w \in Workspaces, NEW row \in WorkspaceRow
    PROVE  [d EXCEPT !.ws[w] = row] \in Database
BY DEF Database

-------------------------------------------------------------------------------
(* The lifecycle.                                                             *)

(* The parent-only delete and restore keep the tables' types.                 *)
LEMMA ParentType ==
    ASSUME NEW d \in Database, NEW w \in Workspaces, NEW model \in {0, 1},
           NEW seq \in Nat, NEW now \in Nat
    PROVE  /\ ParentDelete(d, w, model, seq, now) \in Database
           /\ ParentRestore(d, w, seq, now) \in Database
BY WorkspaceType DEF ParentDelete, ParentRestore, WorkspaceRow, States, Timestamp,
                     Retained, Active, Null

(* So do the legacy delete and restore with their cascades.                   *)
LEMMA LegacyType ==
    ASSUME NEW d \in Database, NEW w \in Workspaces, NEW seq \in Nat, NEW now \in Nat
    PROVE  /\ LegacyDelete(d, w, seq, now) \in Database
           /\ LegacyRestore(d, w, seq, now) \in Database
<1> USE MarkType, ParentType DEF States, Timestamp
<1>1. LegacyDelete(d, w, seq, now) \in Database
  BY DEF LegacyDelete
<1>2. LegacyRestore(d, w, seq, now) \in Database
  BY DEF LegacyRestore
<1> QED BY <1>1, <1>2

(* So does the purge.                                                         *)
LEMMA PurgeType ==
    ASSUME NEW d \in Database, NEW w \in Workspaces, NEW seq \in Nat, NEW now \in Nat
    PROVE  Purge(d, w, seq, now) \in Database
<1> DEFINE root == [d EXCEPT !.ws[w].is_deleted = Terminal, !.ws[w].seq = seq]
           grps == DropGroups(root, GroupsOf(root, w))
           bms  == DropBookmarks(grps, BookmarksOf(grps, w))
<1>1. root \in Database
  <2>1. [d.ws EXCEPT ![w] = [@ EXCEPT !.is_deleted = Terminal, !.seq = seq]]
           \in [Workspaces -> WorkspaceRow]
    BY DEF Database, WorkspaceRow, States
  <2> QED BY <2>1 DEF Database
<1>2. grps \in Database
  BY <1>1, DropType
<1>3. bms \in Database
  BY <1>2, DropType
<1>4. Purge(d, w, seq, now) = DropCollections(bms, CollectionsOf(bms, w))
  BY DEF Purge
<1> QED BY <1>3, <1>4, DropType

(* So does every answer of ApplyInTx.                                         *)
LEMMA AppliedType ==
    ASSUME NEW d \in Database, NEW w \in Workspaces, NEW action \in LifecycleActions,
           NEW model \in {0, 1}, NEW seq \in Nat, NEW now \in Nat
    PROVE  Applied(d, w, action, model, seq, now) \in Database
BY ParentType, LegacyType, PurgeType DEF Applied, LifecycleActions

-------------------------------------------------------------------------------
(* Type correctness.                                                          *)

(* What every committed transaction does to the type invariant.               *)
LEMMA StoreType ==
    ASSUME TypeOK, NEW e \in Database, Store(e)
    PROVE  TypeOK'
<1>1. db' \in Database
  BY DEF Store, TypeOK, Database, NextSeq
<1>2. \A w \in Workspaces : ShownIn(db, w) \in ShownRecord
  BY DEF ShownIn, ShownRecord, BookmarksOf, CollectionsOf, GroupsOf
<1>3. shown' \in [Workspaces -> ShownRecord]
  BY <1>2 DEF Store, TypeOK
<1> QED BY <1>1, <1>3 DEF Store, TypeOK

(* The database of a user who has just registered.                            *)
LEMMA EmptyType == EmptyDatabase \in Database
BY DEF EmptyDatabase, Database, NoWorkspace, NoCollection, NoBookmark, NoGroup,
       WorkspaceRow, CollectionRow, BookmarkRow, GroupRow, States, Timestamp, Absent, Null

(* The tables start well typed.                                               *)
LEMMA InitType == Init => TypeOK
<1> SUFFICES ASSUME Init PROVE TypeOK
  OBVIOUS
<1>1. EmptyDatabase \in Database
  BY EmptyType
<1>2. \A w \in Workspaces, G \in SUBSET Groups : FirstPush(w, G) \in Database
  BY <1>1 DEF FirstPush, Database, WorkspaceRow, GroupRow, NoGroup, NoCollection,
              States, Timestamp, Active, Absent, Null
<1>3. db \in Database
  BY <1>1, <1>2 DEF Init
<1>4. shown \in [Workspaces -> ShownRecord]
  BY DEF Init, Nothing, ShownRecord
<1> QED BY <1>3, <1>4 DEF Init, TypeOK

(* The rows the routes write have their type.                                 *)
LEMMA RouteType ==
    ASSUME NEW d \in Database, NEW now \in Nat, NEW seq \in Nat
    PROVE  /\ \A w \in Workspaces :
                /\ [d EXCEPT !.ws[w] = [is_deleted |-> Active, deletion_model |-> 1,
                                        deleted_at |-> Null, seq |-> seq]] \in Database
                /\ [d EXCEPT !.ws[w].seq = seq] \in Database
           /\ \A c \in Collections, w \in Workspaces :
                /\ [d EXCEPT !.col[c] = [is_deleted |-> Active, workspace_id |-> w,
                                         deleted_at |-> Null, seq |-> seq]] \in Database
                /\ [d EXCEPT !.col[c].workspace_id = w, !.col[c].seq = seq] \in Database
           /\ \A c \in Collections :
                [d EXCEPT !.col[c].is_deleted = Retained, !.col[c].deleted_at = now,
                          !.col[c].seq = seq] \in Database
           /\ \A b \in Bookmarks, c \in Collections \cup {NoId}, state \in {Active, Retained} :
                [d EXCEPT !.bm[b] = [is_trashed |-> state, collection_id |-> c,
                                     deleted_at |-> Null, seq |-> seq]] \in Database
           /\ \A b \in Bookmarks :
                [d EXCEPT !.bm[b].deleted_at = now, !.bm[b].seq = seq] \in Database
<1> USE DEF Database, States, Timestamp
<1>1. ASSUME NEW w \in Workspaces
      PROVE  /\ [d EXCEPT !.ws[w] = [is_deleted |-> Active, deletion_model |-> 1,
                                      deleted_at |-> Null, seq |-> seq]] \in Database
             /\ [d EXCEPT !.ws[w].seq = seq] \in Database
  BY DEF WorkspaceRow
<1>2. ASSUME NEW c \in Collections, NEW w \in Workspaces
      PROVE  [d EXCEPT !.col[c] = [is_deleted |-> Active, workspace_id |-> w,
                                   deleted_at |-> Null, seq |-> seq]] \in Database
  BY DEF CollectionRow
<1>3. ASSUME NEW c \in Collections, NEW w \in Workspaces
      PROVE  [d EXCEPT !.col[c].workspace_id = w, !.col[c].seq = seq] \in Database
  <2>1. [d.col EXCEPT ![c] = [@ EXCEPT !.workspace_id = w, !.seq = seq]]
           \in [Collections -> CollectionRow]
    BY DEF CollectionRow
  <2> QED BY <2>1
<1>4. ASSUME NEW c \in Collections
      PROVE  [d EXCEPT !.col[c].is_deleted = Retained, !.col[c].deleted_at = now,
                       !.col[c].seq = seq] \in Database
  <2>1. [d.col EXCEPT ![c] = [@ EXCEPT !.is_deleted = Retained, !.deleted_at = now, !.seq = seq]]
           \in [Collections -> CollectionRow]
    BY DEF CollectionRow
  <2> QED BY <2>1
<1>5. ASSUME NEW b \in Bookmarks, NEW c \in Collections \cup {NoId},
             NEW state \in {Active, Retained}
      PROVE  [d EXCEPT !.bm[b] = [is_trashed |-> state, collection_id |-> c,
                                  deleted_at |-> Null, seq |-> seq]] \in Database
  BY DEF BookmarkRow
<1>6. ASSUME NEW b \in Bookmarks
      PROVE  [d EXCEPT !.bm[b].deleted_at = now, !.bm[b].seq = seq] \in Database
  <2>1. [d.bm EXCEPT ![b] = [@ EXCEPT !.deleted_at = now, !.seq = seq]]
           \in [Bookmarks -> BookmarkRow]
    BY DEF BookmarkRow
  <2> QED BY <2>1
<1> HIDE DEF Database, States, Timestamp
<1> QED BY <1>1, <1>2, <1>3, <1>4, <1>5, <1>6

(* So does ApplyInTx called with the next number and the clock.               *)
LEMMA ApplyType ==
    ASSUME TypeOK, NEW w \in Workspaces, NEW action \in LifecycleActions, NEW model \in {0, 1}
    PROVE  Applied(db, w, action, model, NextSeq(db), clock) \in Database
<1>1. db \in Database /\ clock \in Nat /\ NextSeq(db) \in Nat
  BY DEF TypeOK, NextSeq, Database
<1> QED BY <1>1, AppliedType

(* Every step of the routes keeps the types.                                  *)
LEMMA NextType == TypeOK /\ [Next]_vars => TypeOK'
<1> SUFFICES ASSUME TypeOK, [Next]_vars PROVE TypeOK'
  OBVIOUS
<1> DEFINE seq == NextSeq(db)
<1>1. db \in Database /\ clock \in Nat /\ seq \in Nat
  BY DEF TypeOK, NextSeq, Database
<1>2. CASE UNCHANGED vars
  BY <1>2 DEF vars, TypeOK
<1>3. CASE Tick
  BY <1>3 DEF Tick, TypeOK
<1>4. ASSUME NEW w \in Workspaces, CreateWorkspace(w) \/ UpdateWorkspace(w) PROVE TypeOK'
  BY <1>1, <1>4, RouteType, StoreType DEF CreateWorkspace, UpdateWorkspace, Commit
<1>5. ASSUME NEW w \in Workspaces, DeleteWorkspace(w) \/ RestoreWorkspace(w) \/
             PermanentlyDeleteWorkspace(w) \/ PushLegacyDelete(w)
      PROVE  TypeOK'
  BY <1>5, ApplyType, StoreType
     DEF DeleteWorkspace, RestoreWorkspace, PermanentlyDeleteWorkspace, PushLegacyDelete,
         Apply, Commit, LifecycleActions
<1>6. ASSUME NEW c \in Collections, NEW w \in Workspaces,
             CreateCollection(c, w) \/ UpdateCollection(c, w)
      PROVE  TypeOK'
  BY <1>1, <1>6, RouteType, StoreType DEF CreateCollection, UpdateCollection, Commit
<1>7. ASSUME NEW c \in Collections, DeleteCollection(c) PROVE TypeOK'
  BY <1>1, <1>7, RouteType, StoreType DEF DeleteCollection, Commit
<1>8. ASSUME NEW b \in Bookmarks, NEW c \in Collections \cup {NoId},
             NEW trashed \in {Active, Retained},
             CreateBookmark(b, c, trashed) \/ UpdateBookmark(b, c, trashed)
      PROVE  TypeOK'
  BY <1>1, <1>8, RouteType, StoreType DEF CreateBookmark, UpdateBookmark, Commit
<1>9. ASSUME NEW b \in Bookmarks, DeleteBookmark(b) PROVE TypeOK'
  BY <1>1, <1>9, RouteType, StoreType DEF DeleteBookmark, Commit
<1> QED
  BY <1>2, <1>3, <1>4, <1>5, <1>6, <1>7, <1>8, <1>9
     DEF Next, WorkspaceRoutes, CollectionRoutes, BookmarkRoutes

(* Whatever the routes and the legacy pushes do, in whatever order, every row *)
(* keeps the type of its table and the history its own.                       *)
THEOREM TypeCorrect == Spec => []TypeOK
<1>1. Init => TypeOK
  BY InitType
<1>2. TypeOK /\ [Next]_vars => TypeOK'
  BY NextType
<1> QED BY <1>1, <1>2, PTL DEF Spec

-------------------------------------------------------------------------------
(* What the lifecycle leaves alone.                                           *)

SameParents(d, e) ==
    /\ \A c \in Collections : e.col[c].workspace_id = d.col[c].workspace_id
    /\ \A g \in Groups : e.grp[g].workspace_id = d.grp[g].workspace_id
    /\ \A b \in Bookmarks : /\ e.bm[b].collection_id = d.bm[b].collection_id
                            /\ e.bm[b].is_trashed = Absent => d.bm[b].is_trashed = Absent

(* Marking rows moves and removes none of them and touches no workspace.      *)
LEMMA MarkKeeps ==
    ASSUME NEW d \in Database, NEW S, NEW state, state # Absent, NEW at, NEW seq
    PROVE  /\ MarkCollections(d, S, state, at, seq).ws = d.ws
           /\ MarkBookmarks(d, S, state, at, seq).ws = d.ws
           /\ MarkGroups(d, S, state, at, seq).ws = d.ws
           /\ SameParents(d, MarkCollections(d, S, state, at, seq))
           /\ SameParents(d, MarkBookmarks(d, S, state, at, seq))
           /\ SameParents(d, MarkGroups(d, S, state, at, seq))
<1> USE DEF Database, CollectionRow, BookmarkRow, GroupRow, SameParents
<1>1. /\ MarkCollections(d, S, state, at, seq).ws = d.ws
      /\ SameParents(d, MarkCollections(d, S, state, at, seq))
  BY DEF MarkCollections
<1>2. /\ MarkBookmarks(d, S, state, at, seq).ws = d.ws
      /\ SameParents(d, MarkBookmarks(d, S, state, at, seq))
  BY DEF MarkBookmarks
<1>3. /\ MarkGroups(d, S, state, at, seq).ws = d.ws
      /\ SameParents(d, MarkGroups(d, S, state, at, seq))
  BY DEF MarkGroups
<1> HIDE DEF Database, CollectionRow, BookmarkRow, GroupRow, SameParents
<1> QED BY <1>1, <1>2, <1>3

(* Dropping rows touches no workspace and puts nothing under one; the dropped *)
(* rows are under none.                                                       *)
LEMMA DropKeeps ==
    ASSUME NEW d \in Database, NEW S
    PROVE  /\ DropGroups(d, S).ws = d.ws
           /\ DropBookmarks(d, S).ws = d.ws
           /\ DropCollections(d, S).ws = d.ws
           /\ DropGroups(d, S).col = d.col
           /\ DropBookmarks(d, S).col = d.col
           /\ DropBookmarks(d, S).grp = d.grp
           /\ DropCollections(d, S).grp = d.grp
           /\ \A g \in Groups : DropGroups(d, S).grp[g] = IF g \in S THEN NoGroup ELSE d.grp[g]
           /\ \A c \in Collections :
                 DropCollections(d, S).col[c] = IF c \in S THEN NoCollection ELSE d.col[c]
BY DEF Database, DropGroups, DropBookmarks, DropCollections

(* Only row w differs.  And the rows after each of the lifecycle's operations.*)
OneRow(d, w, row, e) == e.ws = [d.ws EXCEPT ![w] = row]

RetainedRow(model, seq, now) ==
    [is_deleted |-> Retained, deletion_model |-> model, deleted_at |-> now, seq |-> seq]
RestoredRow(seq) ==
    [is_deleted |-> Active, deletion_model |-> 1, deleted_at |-> Null, seq |-> seq]
PurgedRow(row, seq) == [row EXCEPT !.is_deleted = Terminal, !.seq = seq]

(* A parent-only delete changes the root's row alone.                         *)
LEMMA ParentDeleteKeeps ==
    ASSUME NEW d \in Database, NEW w \in Workspaces, NEW model \in {0, 1},
           NEW seq \in Nat, NEW now \in Nat
    PROVE  /\ OneRow(d, w, RetainedRow(model, seq, now), ParentDelete(d, w, model, seq, now))
           /\ SameParents(d, ParentDelete(d, w, model, seq, now))
BY DEF Database, ParentDelete, OneRow, RetainedRow, SameParents

(* So does a parent-only restore.                                             *)
LEMMA ParentRestoreKeeps ==
    ASSUME NEW d \in Database, NEW w \in Workspaces, NEW seq \in Nat, NEW now \in Nat
    PROVE  /\ OneRow(d, w, RestoredRow(seq), ParentRestore(d, w, seq, now))
           /\ SameParents(d, ParentRestore(d, w, seq, now))
BY DEF Database, ParentRestore, OneRow, RestoredRow, SameParents

(* Rows that keep their parents over two steps keep them over both.           *)
LEMMA SameParentsChain ==
    ASSUME NEW d, NEW e, NEW f, SameParents(d, e), SameParents(e, f)
    PROVE  SameParents(d, f)
BY DEF SameParents

(* The legacy cascades change the root's row, and keep every row's parent.    *)
LEMMA LegacyKeeps ==
    ASSUME NEW d \in Database, NEW w \in Workspaces, NEW seq \in Nat, NEW now \in Nat
    PROVE  /\ OneRow(d, w, RetainedRow(0, seq, now), LegacyDelete(d, w, seq, now))
           /\ OneRow(d, w, RestoredRow(seq), LegacyRestore(d, w, seq, now))
           /\ SameParents(d, LegacyDelete(d, w, seq, now))
           /\ SameParents(d, LegacyRestore(d, w, seq, now))
<1>1. /\ OneRow(d, w, RetainedRow(0, seq, now), LegacyDelete(d, w, seq, now))
      /\ SameParents(d, LegacyDelete(d, w, seq, now))
  <2> DEFINE root == ParentDelete(d, w, 0, seq, now)
             bms  == MarkBookmarks(root, LiveBookmarks(root, w), Retained, now, seq)
             cols == MarkCollections(bms, LiveCollections(bms, w), Retained, now, seq)
             grps == MarkGroups(cols, LiveGroups(cols, w), Retained, now, seq)
  <2>0. Retained \in States /\ now \in Timestamp /\ Retained # Absent
    BY DEF States, Timestamp, Retained, Absent
  <2>1. /\ root \in Database
        /\ OneRow(d, w, RetainedRow(0, seq, now), root)
        /\ SameParents(d, root)
    BY ParentType, ParentDeleteKeeps
  <2> HIDE DEF root
  <2>2. bms \in Database /\ bms.ws = root.ws /\ SameParents(root, bms)
    BY <2>0, <2>1, MarkType, MarkKeeps
  <2> HIDE DEF bms
  <2>3. cols \in Database /\ cols.ws = bms.ws /\ SameParents(bms, cols)
    BY <2>0, <2>2, MarkType, MarkKeeps
  <2> HIDE DEF cols
  <2>4. grps.ws = cols.ws /\ SameParents(cols, grps)
    BY <2>0, <2>3, MarkKeeps
  <2>5. LegacyDelete(d, w, seq, now) = grps
    BY DEF LegacyDelete, root, bms, cols
  <2> QED BY <2>1, <2>2, <2>3, <2>4, <2>5, SameParentsChain DEF OneRow
<1>2. /\ OneRow(d, w, RestoredRow(seq), LegacyRestore(d, w, seq, now))
      /\ SameParents(d, LegacyRestore(d, w, seq, now))
  <2> DEFINE bms  == MarkBookmarks(d, EvidenceBookmarks(d, w), Active, Null, seq)
             cols == MarkCollections(bms, EvidenceCollections(bms, w), Active, Null, seq)
             grps == MarkGroups(cols, EvidenceGroups(cols, w), Active, Null, seq)
  <2>0. Active \in States /\ Null \in Timestamp /\ Active # Absent
    BY DEF States, Timestamp, Active, Absent
  <2>2. bms \in Database /\ bms.ws = d.ws /\ SameParents(d, bms)
    BY <2>0, MarkType, MarkKeeps
  <2> HIDE DEF bms
  <2>3. cols \in Database /\ cols.ws = bms.ws /\ SameParents(bms, cols)
    BY <2>0, <2>2, MarkType, MarkKeeps
  <2> HIDE DEF cols
  <2>4. grps \in Database /\ grps.ws = cols.ws /\ SameParents(cols, grps)
    BY <2>0, <2>3, MarkType, MarkKeeps
  <2> HIDE DEF grps
  <2>5. LegacyRestore(d, w, seq, now) = ParentRestore(grps, w, seq, now)
    BY DEF LegacyRestore, bms, cols, grps
  <2>6. SameParents(grps, ParentRestore(grps, w, seq, now))
        /\ OneRow(grps, w, RestoredRow(seq), ParentRestore(grps, w, seq, now))
    BY <2>4, ParentRestoreKeeps
  <2> QED BY <2>2, <2>3, <2>4, <2>5, <2>6, SameParentsChain DEF OneRow
<1> QED BY <1>1, <1>2

(* A purge leaves nothing under the root it scrubs, and puts nothing under    *)
(* any other.                                                                 *)
LEMMA PurgeKeeps ==
    ASSUME NEW d \in Database, NEW w \in Workspaces, NEW seq \in Nat, NEW now \in Nat
    PROVE  /\ OneRow(d, w, PurgedRow(d.ws[w], seq), Purge(d, w, seq, now))
           /\ \A v \in Workspaces :
                 /\ CollectionsOf(Purge(d, w, seq, now), v) = CollectionsOf(d, v) \ CollectionsOf(d, w)
                 /\ GroupsOf(Purge(d, w, seq, now), v) = GroupsOf(d, v) \ GroupsOf(d, w)
<1> DEFINE root == [d EXCEPT !.ws[w].is_deleted = Terminal, !.ws[w].seq = seq]
           grps == DropGroups(root, GroupsOf(root, w))
           bms  == DropBookmarks(grps, BookmarksOf(grps, w))
           cols == DropCollections(bms, CollectionsOf(bms, w))
<1>1. /\ root \in Database
      /\ OneRow(d, w, PurgedRow(d.ws[w], seq), root)
      /\ root.col = d.col
      /\ root.grp = d.grp
  <2>1. [d.ws EXCEPT ![w] = [@ EXCEPT !.is_deleted = Terminal, !.seq = seq]]
           \in [Workspaces -> WorkspaceRow]
    BY DEF Database, WorkspaceRow, States
  <2> QED BY <2>1 DEF Database, OneRow, PurgedRow
<1> HIDE DEF root
<1>2. /\ grps \in Database
      /\ grps.ws = root.ws
      /\ grps.col = root.col
      /\ \A g \in Groups : grps.grp[g] = IF g \in GroupsOf(root, w) THEN NoGroup ELSE root.grp[g]
  BY <1>1, DropType, DropKeeps
<1> HIDE DEF grps
<1>3. /\ bms \in Database
      /\ bms.ws = grps.ws
      /\ bms.col = grps.col
      /\ bms.grp = grps.grp
  BY <1>2, DropType, DropKeeps
<1> HIDE DEF bms
<1>4. /\ cols.ws = bms.ws
      /\ cols.grp = bms.grp
      /\ \A c \in Collections :
            cols.col[c] = IF c \in CollectionsOf(bms, w) THEN NoCollection ELSE bms.col[c]
  BY <1>3, DropKeeps
<1> HIDE DEF cols
<1>5. Purge(d, w, seq, now) = cols
  BY DEF Purge, root, grps, bms, cols
<1>6. ASSUME NEW v \in Workspaces
      PROVE  CollectionsOf(cols, v) = CollectionsOf(d, v) \ CollectionsOf(d, w)
  BY <1>1, <1>2, <1>3, <1>4, IdAssumption DEF CollectionsOf, NoCollection
<1>7. ASSUME NEW v \in Workspaces
      PROVE  GroupsOf(cols, v) = GroupsOf(d, v) \ GroupsOf(d, w)
  BY <1>1, <1>2, <1>3, <1>4, IdAssumption DEF GroupsOf, NoGroup, NoCollection
<1> QED BY <1>1, <1>2, <1>3, <1>4, <1>5, <1>6, <1>7 DEF OneRow

(* The workspace rows ApplyInTx may leave, and when.                          *)
LEMMA AppliedWorkspaces ==
    ASSUME NEW d \in Database, NEW w \in Workspaces, NEW action \in LifecycleActions,
           NEW model \in {0, 1}, NEW seq \in Nat, NEW now \in Nat
    PROVE  LET e == Applied(d, w, action, model, seq, now) IN
           \/ e = d
           \/ /\ d.ws[w].is_deleted = Active
              /\ ~(Cardinality(ActiveWorkspaces(d)) <= 1)
              /\ OneRow(d, w, RetainedRow(model, seq, now), e)
              /\ SameParents(d, e)
           \/ /\ d.ws[w].is_deleted = Retained
              /\ OneRow(d, w, RestoredRow(seq), e)
              /\ SameParents(d, e)
           \/ /\ d.ws[w].is_deleted = Retained
              /\ e = Purge(d, w, seq, now)
<1> DEFINE e == Applied(d, w, action, model, seq, now)
           state == d.ws[w].is_deleted
<1>0. state \in States
  BY DEF Database, WorkspaceRow
<1>1. CASE Rejection(d, w, action, model) # "" \/ Idempotent(d, w, action)
  <2>1. e = d
    BY <1>1 DEF Applied
  <2> QED BY <2>1
<1>2. CASE Rejection(d, w, action, model) = "" /\ ~Idempotent(d, w, action)
  <2> USE <1>2
  <2>1. CASE action = "delete"
    <3>1. state = Active /\ ~(Cardinality(ActiveWorkspaces(d)) <= 1)
      BY <1>0, <2>1 DEF Rejection, Idempotent, States, Absent, Active, Retained, Terminal
    <3>2. e = IF model = 0 THEN LegacyDelete(d, w, seq, now)
                           ELSE ParentDelete(d, w, model, seq, now)
      BY <2>1 DEF Applied
    <3> QED BY <3>1, <3>2, LegacyKeeps, ParentDeleteKeeps
  <2>2. CASE action = "restore"
    <3>1. state = Retained
      BY <1>0, <2>2 DEF Rejection, Idempotent, States, Absent, Active, Retained, Terminal
    <3>2. e = IF d.ws[w].deletion_model = 0 THEN LegacyRestore(d, w, seq, now)
                                            ELSE ParentRestore(d, w, seq, now)
      BY <2>2 DEF Applied
    <3> QED BY <3>1, <3>2, LegacyKeeps, ParentRestoreKeeps
  <2>3. CASE action = "purge"
    <3>1. state = Retained
      BY <1>0, <2>3 DEF Rejection, Idempotent, States, Absent, Active, Retained, Terminal
    <3>2. e = Purge(d, w, seq, now)
      BY <2>3 DEF Applied
    <3> QED BY <3>1, <3>2
  <2> QED BY <2>1, <2>2, <2>3 DEF LifecycleActions
<1> QED BY <1>1, <1>2

(* A transaction's tables are those of the next state.                        *)
LEMMA StoreTables ==
    ASSUME NEW e \in Database, Store(e)
    PROVE  db'.ws = e.ws /\ db'.col = e.col /\ db'.bm = e.bm /\ db'.grp = e.grp
BY DEF Store, Database

-------------------------------------------------------------------------------
(* The life of a workspace row.                                               *)

(* The only ways in which one step changes one row.                           *)
RowStep(old, new) ==
    \/ new = old
    \/ old.is_deleted = Absent /\ new = RestoredRow(NextSeq(db))
    \/ old.is_deleted = Active /\ new = [old EXCEPT !.seq = NextSeq(db)]
    \/ old.is_deleted = Active /\ \E model \in {0, 1} :
                                     new = RetainedRow(model, NextSeq(db), clock)
    \/ old.is_deleted = Retained /\ new = RestoredRow(NextSeq(db))
    \/ old.is_deleted = Retained /\ new = PurgedRow(old, NextSeq(db))

HasActive(d) == ActiveWorkspaces(d) # {}

(* With two active workspaces, one is left when the other is deleted.         *)
LEMMA AnotherActive ==
    ASSUME NEW d, NEW w \in Workspaces, ~(Cardinality(ActiveWorkspaces(d)) <= 1)
    PROVE  \E v \in Workspaces \ {w} : d.ws[v].is_deleted = Active
<1> SUFFICES ASSUME ActiveWorkspaces(d) \subseteq {w} PROVE FALSE
  BY DEF ActiveWorkspaces
<1>1. IsFiniteSet({w}) /\ Cardinality({w}) = 1
  BY FS_Singleton
<1>2. Cardinality(ActiveWorkspaces(d)) <= 1
  BY <1>1, FS_Subset
<1> QED BY <1>2

(* A stored lifecycle operation moves one row of the workspaces by a row step. *)
LEMMA ApplyStep ==
    ASSUME TypeOK, NEW w \in Workspaces, NEW action \in LifecycleActions, NEW model \in {0, 1},
           Store(Applied(db, w, action, model, NextSeq(db), clock))
    PROVE  /\ \A v \in Workspaces : RowStep(db.ws[v], db'.ws[v])
           /\ HasActive(db) => HasActive(db')
<1> DEFINE e == Applied(db, w, action, model, NextSeq(db), clock)
<1>1. db \in Database /\ clock \in Nat /\ NextSeq(db) \in Nat /\ db.ws \in [Workspaces -> WorkspaceRow]
  BY DEF TypeOK, NextSeq, Database
<1>2. e \in Database /\ db'.ws = e.ws
  BY ApplyType, StoreTables
<1>3. CASE e = db
  BY <1>2, <1>3 DEF RowStep, HasActive, ActiveWorkspaces
<1>4. CASE /\ db.ws[w].is_deleted = Active
           /\ ~(Cardinality(ActiveWorkspaces(db)) <= 1)
           /\ OneRow(db, w, RetainedRow(model, NextSeq(db), clock), e)
  <2>1. PICK u \in Workspaces \ {w} : db.ws[u].is_deleted = Active
    BY <1>4, AnotherActive
  <2>2. db'.ws[u].is_deleted = Active
    BY <1>1, <1>2, <1>4, <2>1 DEF OneRow
  <2> QED BY <1>1, <1>2, <1>4, <2>2 DEF RowStep, OneRow, HasActive, ActiveWorkspaces
<1>5. CASE /\ db.ws[w].is_deleted = Retained
           /\ OneRow(db, w, RestoredRow(NextSeq(db)), e)
  BY <1>1, <1>2, <1>5 DEF RowStep, OneRow, HasActive, ActiveWorkspaces, RestoredRow
<1>6. CASE /\ db.ws[w].is_deleted = Retained
           /\ e = Purge(db, w, NextSeq(db), clock)
  <2>1. OneRow(db, w, PurgedRow(db.ws[w], NextSeq(db)), e)
    BY <1>1, <1>6, PurgeKeeps
  <2> QED BY <1>1, <1>2, <1>6, <2>1 DEF RowStep, OneRow, HasActive, ActiveWorkspaces, Retained, Active
<1> QED BY <1>1, <1>3, <1>4, <1>5, <1>6, AppliedWorkspaces

(* The routes of collections and bookmarks do not touch workspaces.           *)
LEMMA OtherRoutesKeepWorkspaces ==
    ASSUME TypeOK, CollectionRoutes \/ BookmarkRoutes
    PROVE  db'.ws = db.ws
<1>1. db \in Database /\ clock \in Nat /\ NextSeq(db) \in Nat
  BY DEF TypeOK, NextSeq, Database
<1>2. CASE CollectionRoutes
  BY <1>1, <1>2 DEF CollectionRoutes, CreateCollection, UpdateCollection, DeleteCollection,
                    Commit, Store, Database
<1>3. CASE BookmarkRoutes
  BY <1>1, <1>3 DEF BookmarkRoutes, CreateBookmark, UpdateBookmark, DeleteBookmark,
                    Commit, Store, Database
<1> QED BY <1>2, <1>3

(* So does every step of the routes.                                          *)
LEMMA WorkspaceStep ==
    ASSUME TypeOK, [Next]_vars
    PROVE  /\ \A v \in Workspaces : RowStep(db.ws[v], db'.ws[v])
           /\ HasActive(db) => HasActive(db')
<1>1. db \in Database /\ clock \in Nat /\ NextSeq(db) \in Nat /\ db.ws \in [Workspaces -> WorkspaceRow]
  BY DEF TypeOK, NextSeq, Database
<1>2. CASE db'.ws = db.ws
  BY <1>2 DEF RowStep, HasActive, ActiveWorkspaces
<1>3. ASSUME NEW w \in Workspaces, CreateWorkspace(w)
      PROVE  /\ \A v \in Workspaces : RowStep(db.ws[v], db'.ws[v])
             /\ HasActive(db) => HasActive(db')
  <2>1. db'.ws = [db.ws EXCEPT ![w] = RestoredRow(NextSeq(db))]
    BY <1>1, <1>3 DEF CreateWorkspace, Commit, Store, RestoredRow, Database
  <2> QED BY <1>1, <1>3, <2>1
          DEF CreateWorkspace, RowStep, HasActive, ActiveWorkspaces, RestoredRow
<1>4. ASSUME NEW w \in Workspaces, UpdateWorkspace(w)
      PROVE  /\ \A v \in Workspaces : RowStep(db.ws[v], db'.ws[v])
             /\ HasActive(db) => HasActive(db')
  <2>1. db'.ws = [db.ws EXCEPT ![w] = [@ EXCEPT !.seq = NextSeq(db)]]
    BY <1>1, <1>4 DEF UpdateWorkspace, Commit, Store, Database
  <2>2. db.ws[w].is_deleted = Active /\ db'.ws[w].is_deleted = Active
    BY <1>1, <1>4, <2>1 DEF UpdateWorkspace, WorkspaceActive, ActiveWorkspaces, WorkspaceRow
  <2> QED BY <1>1, <2>1, <2>2 DEF RowStep, HasActive, ActiveWorkspaces
<1>5. ASSUME NEW w \in Workspaces, DeleteWorkspace(w) \/ RestoreWorkspace(w) \/
             PermanentlyDeleteWorkspace(w) \/ PushLegacyDelete(w)
      PROVE  /\ \A v \in Workspaces : RowStep(db.ws[v], db'.ws[v])
             /\ HasActive(db) => HasActive(db')
  BY <1>5, ApplyStep
     DEF DeleteWorkspace, RestoreWorkspace, PermanentlyDeleteWorkspace, PushLegacyDelete,
         Apply, Commit, LifecycleActions
<1>6. CASE Tick \/ UNCHANGED vars
  BY <1>2, <1>6 DEF Tick, vars
<1>7. CASE CollectionRoutes \/ BookmarkRoutes
  BY <1>2, <1>7, OtherRoutesKeepWorkspaces
<1> QED BY <1>3, <1>4, <1>5, <1>6, <1>7 DEF Next, WorkspaceRoutes

(* What a row step does to the state and the deletion time.                   *)
LEMMA RowStepStates ==
    ASSUME NEW old \in WorkspaceRow, NEW new, RowStep(old, new)
    PROVE  \/ new = old
           \/ /\ old.is_deleted = Absent
              /\ new.is_deleted = Active /\ new.deleted_at = Null
           \/ /\ old.is_deleted = Active
              /\ new.is_deleted = Active /\ new.deleted_at = old.deleted_at
           \/ /\ old.is_deleted = Active
              /\ new.is_deleted = Retained /\ new.deleted_at = clock
           \/ /\ old.is_deleted = Retained
              /\ new.is_deleted = Active /\ new.deleted_at = Null
           \/ /\ old.is_deleted = Retained
              /\ new.is_deleted = Terminal /\ new.deleted_at = old.deleted_at
<1>1. CASE new = [old EXCEPT !.seq = NextSeq(db)] /\ old.is_deleted = Active
  BY <1>1 DEF WorkspaceRow
<1>2. CASE new = PurgedRow(old, NextSeq(db)) /\ old.is_deleted = Retained
  BY <1>2 DEF WorkspaceRow, PurgedRow
<1>3. CASE new = RestoredRow(NextSeq(db)) /\ old.is_deleted \in {Absent, Retained}
  BY <1>3 DEF RestoredRow
<1>4. ASSUME NEW model \in {0, 1}, new = RetainedRow(model, NextSeq(db), clock),
             old.is_deleted = Active
      PROVE  new.is_deleted = Retained /\ new.deleted_at = clock
  BY <1>4 DEF RetainedRow
<1> QED BY <1>1, <1>2, <1>3, <1>4 DEF RowStep

(* A root that a delete or the purge of an expired one left has a deletion    *)
(* time and an active one has none: what expireWorkspaces selects by is       *)
(* there, and the tombstone keeps it.                                         *)
THEOREM DeletionStamped == Spec => []DeletionIsStamped
<1> DEFINE IInv == TypeOK /\ DeletionIsStamped
<1>1. Init => IInv
  <2> SUFFICES ASSUME Init PROVE DeletionIsStamped
    BY InitType
  <2> USE DEF NoWorkspace, DeletionIsStamped, Absent, Active, Retained, Terminal, Null
  <2>1. CASE db = EmptyDatabase
    BY <2>1 DEF EmptyDatabase
  <2>2. ASSUME NEW w \in Workspaces, NEW G \in SUBSET Groups, db = FirstPush(w, G)
        PROVE  DeletionIsStamped
    BY <2>2 DEF FirstPush, EmptyDatabase
  <2> QED BY <2>1, <2>2 DEF Init
<1>2. IInv /\ [Next]_vars => IInv'
  <2> SUFFICES ASSUME IInv, [Next]_vars PROVE DeletionIsStamped'
    BY NextType
  <2> SUFFICES ASSUME NEW w \in Workspaces
               PROVE  (db'.ws[w].is_deleted \in {Retained, Terminal}) <=> (db'.ws[w].deleted_at # Null)
    BY DEF DeletionIsStamped
  <2>1. RowStep(db.ws[w], db'.ws[w])
    BY WorkspaceStep
  <2>2. clock \in Nat /\ db.ws[w] \in WorkspaceRow
    BY DEF TypeOK, Database
  <2>3. (db.ws[w].is_deleted \in {Retained, Terminal}) <=> (db.ws[w].deleted_at # Null)
    BY DEF DeletionIsStamped
  <2> QED BY <2>1, <2>2, <2>3, RowStepStates DEF Absent, Active, Retained, Terminal, Null
<1> QED BY <1>1, <1>2, PTL DEF Spec

(* Once a root is purged no route and no legacy push ever changes its row     *)
(* again.                                                                     *)
THEOREM TombstoneFrozen == Spec => TombstoneIsFrozen
<1>1. TypeOK /\ [Next]_vars =>
        [\A w \in Workspaces : db.ws[w].is_deleted = Terminal => db'.ws[w] = db.ws[w]]_db
  <2> SUFFICES ASSUME TypeOK, [Next]_vars, NEW w \in Workspaces, db.ws[w].is_deleted = Terminal
               PROVE  db'.ws[w] = db.ws[w]
    OBVIOUS
  <2>1. RowStep(db.ws[w], db'.ws[w])
    BY WorkspaceStep
  <2> QED BY <2>1 DEF RowStep, Absent, Active, Retained, Terminal
<1> QED BY <1>1, TypeCorrect, PTL DEF Spec, TombstoneIsFrozen

(* Steps of the rows, and an active workspace kept, make a step of the        *)
(* contract.                                                                  *)
LEMMA ContractStep ==
    ASSUME TypeOK, TypeOK',
           \A w \in Workspaces : RowStep(db.ws[w], db'.ws[w]),
           HasActive(db) => HasActive(db')
    PROVE  Contract!Next
<1> DEFINE state == [w \in Workspaces |-> db.ws[w].is_deleted]
           next == [w \in Workspaces |-> db'.ws[w].is_deleted]
<1>1. next \in [Workspaces -> {Contract!Absent, Contract!Active, Contract!Retained, Contract!Terminal}]
  BY DEF TypeOK, Database, WorkspaceRow, States, Absent, Active, Retained, Terminal,
         Contract!Absent, Contract!Active, Contract!Retained, Contract!Terminal
<1>2. ASSUME NEW w \in Workspaces
      PROVE  next[w] = state[w] \/ <<state[w], next[w]>> \in Contract!Moves
  <2>1. RowStep(db.ws[w], db'.ws[w]) /\ db.ws[w] \in WorkspaceRow
    BY DEF TypeOK, Database
  <2>2. \/ db'.ws[w].is_deleted = db.ws[w].is_deleted
        \/ db.ws[w].is_deleted = Absent /\ db'.ws[w].is_deleted = Active
        \/ db.ws[w].is_deleted = Active /\ db'.ws[w].is_deleted = Retained
        \/ db.ws[w].is_deleted = Retained /\ db'.ws[w].is_deleted = Active
        \/ db.ws[w].is_deleted = Retained /\ db'.ws[w].is_deleted = Terminal
    BY <2>1, RowStepStates
  <2> QED BY <2>2 DEF Contract!Moves, Absent, Active, Retained, Terminal,
                      Contract!Absent, Contract!Active, Contract!Retained, Contract!Terminal
<1>3. Contract!HasActive(state) => Contract!HasActive(next)
  BY DEF HasActive, ActiveWorkspaces, Active, Contract!HasActive, Contract!Active
<1> QED BY <1>1, <1>2, <1>3 DEF Contract!Next, Contract!Transaction

(* The routes and legacy pushes implement the workspace contract, for any     *)
(* number of workspaces: each moves along the three-state lifecycle only, and *)
(* who has an active workspace is never left without one.                     *)
THEOREM ContractImplemented == Spec => ImplementsContract
<1> DEFINE abstract == [w \in Workspaces |-> db.ws[w].is_deleted]
<1>1. Init => Contract!Init
  <2> SUFFICES ASSUME Init, NEW w \in Workspaces PROVE db.ws[w].is_deleted \in {Absent, Active}
    BY DEF Contract!Init, Contract!Absent, Contract!Active, Absent, Active
  <2> USE DEF NoWorkspace, EmptyDatabase
  <2>1. CASE db = EmptyDatabase
    BY <2>1
  <2>2. ASSUME NEW v \in Workspaces, NEW G \in SUBSET Groups, db = FirstPush(v, G)
        PROVE  db.ws[w].is_deleted \in {Absent, Active}
    BY <2>2 DEF FirstPush
  <2> QED BY <2>1, <2>2 DEF Init
<1>2. TypeOK /\ TypeOK' /\ [Next]_vars => [Contract!Next]_abstract
  BY WorkspaceStep, ContractStep
<1> QED BY <1>1, <1>2, TypeCorrect, PTL DEF Spec, ImplementsContract, Contract!Spec

-------------------------------------------------------------------------------
(* What is under a purged root.                                               *)

NothingUnder(d, w) == CollectionsOf(d, w) = {} /\ GroupsOf(d, w) = {}

PurgedEmpty(d) == \A w \in Workspaces : d.ws[w].is_deleted = Terminal => NothingUnder(d, w)

(* A lifecycle operation leaves nothing under a tombstone.                    *)
LEMMA AppliedLeavesNothing ==
    ASSUME NEW d \in Database, PurgedEmpty(d), NEW w \in Workspaces,
           NEW action \in LifecycleActions, NEW model \in {0, 1},
           NEW seq \in Nat, NEW now \in Nat
    PROVE  PurgedEmpty(Applied(d, w, action, model, seq, now))
<1> DEFINE e == Applied(d, w, action, model, seq, now)
<1>0. d.ws \in [Workspaces -> WorkspaceRow]
  BY DEF Database
<1>1. CASE e = d
  BY <1>1
<1>2. ASSUME NEW row, row.is_deleted # Terminal, OneRow(d, w, row, e), SameParents(d, e)
      PROVE  PurgedEmpty(e)
  <2> SUFFICES ASSUME NEW v \in Workspaces, e.ws[v].is_deleted = Terminal
               PROVE  NothingUnder(e, v)
    BY DEF PurgedEmpty
  <2>1. d.ws[v].is_deleted = Terminal
    BY <1>0, <1>2 DEF OneRow
  <2>2. NothingUnder(d, v)
    BY <2>1 DEF PurgedEmpty
  <2> QED BY <1>2, <2>2 DEF NothingUnder, CollectionsOf, GroupsOf, SameParents
<1>3. CASE e = Purge(d, w, seq, now)
  <2> SUFFICES ASSUME NEW v \in Workspaces, e.ws[v].is_deleted = Terminal
               PROVE  NothingUnder(e, v)
    BY DEF PurgedEmpty
  <2>1. /\ OneRow(d, w, PurgedRow(d.ws[w], seq), e)
        /\ CollectionsOf(e, v) = CollectionsOf(d, v) \ CollectionsOf(d, w)
        /\ GroupsOf(e, v) = GroupsOf(d, v) \ GroupsOf(d, w)
    BY <1>3, PurgeKeeps
  <2>2. CASE v = w
    BY <2>1, <2>2 DEF NothingUnder
  <2>3. CASE v # w
    <3>1. d.ws[v].is_deleted = Terminal
      BY <1>0, <2>1, <2>3 DEF OneRow
    <3>2. NothingUnder(d, v)
      BY <3>1 DEF PurgedEmpty
    <3> QED BY <2>1, <3>2 DEF NothingUnder
  <2> QED BY <2>2, <2>3
<1>4. RetainedRow(model, seq, now).is_deleted # Terminal /\ RestoredRow(seq).is_deleted # Terminal
  BY DEF RetainedRow, RestoredRow, Retained, Active, Terminal
<1> QED BY <1>1, <1>2, <1>3, <1>4, AppliedWorkspaces

(* A collection is stored under an active workspace only.                     *)
LEMMA CollectionRouteLeavesNothing ==
    ASSUME TypeOK, PurgedEmpty(db), CollectionRoutes
    PROVE  PurgedEmpty(db')
<1>0. db \in Database /\ clock \in Nat /\ NextSeq(db) \in Nat /\ db.ws \in [Workspaces -> WorkspaceRow]
  BY DEF TypeOK, NextSeq, Database
<1>1. db'.ws = db.ws /\ db'.grp = db.grp
  <2>1. ASSUME NEW c \in Collections, NEW w \in Workspaces, CreateCollection(c, w)
        PROVE  db'.ws = db.ws /\ db'.grp = db.grp
    BY <1>0, <2>1 DEF CreateCollection, Commit, Store, Database
  <2>2. ASSUME NEW c \in Collections, NEW w \in Workspaces, UpdateCollection(c, w)
        PROVE  db'.ws = db.ws /\ db'.grp = db.grp
    BY <1>0, <2>2 DEF UpdateCollection, Commit, Store, Database
  <2>3. ASSUME NEW c \in Collections, DeleteCollection(c)
        PROVE  db'.ws = db.ws /\ db'.grp = db.grp
    BY <1>0, <2>3 DEF DeleteCollection, Commit, Store, Database
  <2> QED BY <2>1, <2>2, <2>3 DEF CollectionRoutes
<1>2. \A c \in Collections : \/ db'.col[c].workspace_id = db.col[c].workspace_id
                             \/ WorkspaceActive(db, db'.col[c].workspace_id)
  <2>1. ASSUME NEW c \in Collections, NEW w \in Workspaces, CreateCollection(c, w)
        PROVE  /\ db'.col = [db.col EXCEPT ![c] = db'.col[c]]
               /\ db'.col[c].workspace_id = w
               /\ WorkspaceActive(db, w)
    BY <1>0, <2>1 DEF CreateCollection, Commit, Store, Database, CollectionRow
  <2>2. ASSUME NEW c \in Collections, NEW w \in Workspaces, UpdateCollection(c, w)
        PROVE  /\ db'.col = [db.col EXCEPT ![c] = db'.col[c]]
               /\ db'.col[c].workspace_id = w
               /\ WorkspaceActive(db, w)
    BY <1>0, <2>2 DEF UpdateCollection, Commit, Store, Database, CollectionRow
  <2>4. db.col \in [Collections -> CollectionRow]
    BY <1>0 DEF Database
  <2>3. ASSUME NEW c \in Collections, DeleteCollection(c)
        PROVE  /\ db'.col = [db.col EXCEPT ![c] = db'.col[c]]
               /\ db'.col[c].workspace_id = db.col[c].workspace_id
    <3>1. db'.col = [db.col EXCEPT ![c] = [[[db.col[c] EXCEPT !.is_deleted = Retained]
                                                       EXCEPT !.deleted_at = clock]
                                                       EXCEPT !.seq = NextSeq(db)]]
      BY <1>0, <2>3, <2>4 DEF DeleteCollection, Commit, Store, Database, CollectionRow
    <3>2. db.col[c] \in CollectionRow
      BY <2>4
    <3> HIDE DEF CollectionRow
    <3>3. db'.col[c] = [[[db.col[c] EXCEPT !.is_deleted = Retained]
                                    EXCEPT !.deleted_at = clock]
                                    EXCEPT !.seq = NextSeq(db)]
      BY <2>4, <3>1
    <3>4. db'.col = [db.col EXCEPT ![c] = db'.col[c]]
      BY <3>1, <3>3
    <3> QED BY <3>2, <3>3, <3>4 DEF CollectionRow
  <2> QED BY <2>1, <2>2, <2>3, <2>4 DEF CollectionRoutes
<1> SUFFICES ASSUME NEW w \in Workspaces, db'.ws[w].is_deleted = Terminal
             PROVE  NothingUnder(db', w)
  BY DEF PurgedEmpty
<1>3. NothingUnder(db, w) /\ ~WorkspaceActive(db, w)
  BY <1>1 DEF PurgedEmpty, WorkspaceActive, ActiveWorkspaces, Active, Terminal
<1> QED BY <1>1, <1>2, <1>3 DEF NothingUnder, CollectionsOf, GroupsOf

(* Nothing is ever left, put or moved under a purged workspace, for any       *)
(* number of workspaces, collections and groups: the purge takes everything   *)
(* (workspace_lifecycle.go) and no route reaches the root again.              *)
THEOREM PurgedIsEmpty == Spec => []PurgedLeavesNothing
<1> DEFINE IInv == TypeOK /\ PurgedEmpty(db)
<1>1. Init => IInv
  <2> SUFFICES ASSUME Init PROVE PurgedEmpty(db)
    BY InitType
  <2> USE DEF PurgedEmpty, NoWorkspace, EmptyDatabase, Absent, Active, Terminal
  <2>1. CASE db = EmptyDatabase
    BY <2>1
  <2>2. ASSUME NEW w \in Workspaces, NEW G \in SUBSET Groups, db = FirstPush(w, G)
        PROVE  PurgedEmpty(db)
    <3>1. \A v \in Workspaces : db.ws[v].is_deleted # Terminal
      BY <2>2 DEF FirstPush
    <3> QED BY <3>1
  <2> QED BY <2>1, <2>2 DEF Init
<1>2. IInv /\ [Next]_vars => IInv'
  <2> SUFFICES ASSUME IInv, [Next]_vars PROVE PurgedEmpty(db')
    BY NextType
  <2>0. db \in Database /\ clock \in Nat /\ NextSeq(db) \in Nat /\ db.ws \in [Workspaces -> WorkspaceRow]
    BY DEF TypeOK, NextSeq, Database
  <2>1. CASE Tick \/ UNCHANGED vars
    BY <2>1 DEF Tick, vars
  <2>2. ASSUME NEW w \in Workspaces, CreateWorkspace(w) \/ UpdateWorkspace(w)
        PROVE  PurgedEmpty(db')
    <3>1. db'.col = db.col /\ db'.grp = db.grp
      BY <2>0, <2>2 DEF CreateWorkspace, UpdateWorkspace, Commit, Store, Database
    <3>2. db'.ws = [db.ws EXCEPT ![w] = db'.ws[w]] /\ db'.ws[w].is_deleted = Active
      <4>1. CASE CreateWorkspace(w)
        BY <2>0, <4>1 DEF CreateWorkspace, Commit, Store, Database, WorkspaceRow
      <4>2. CASE UpdateWorkspace(w)
        BY <2>0, <4>2 DEF UpdateWorkspace, Commit, Store, Database, WorkspaceRow,
                          WorkspaceActive, ActiveWorkspaces
      <4> QED BY <2>2, <4>1, <4>2
    <3>3. \A v \in Workspaces : db'.ws[v].is_deleted = Terminal => db.ws[v].is_deleted = Terminal
      BY <2>0, <3>2 DEF Active, Terminal
    <3> QED BY <3>1, <3>3 DEF PurgedEmpty, NothingUnder, CollectionsOf, GroupsOf
  <2>3. ASSUME NEW w \in Workspaces, DeleteWorkspace(w) \/ RestoreWorkspace(w) \/
               PermanentlyDeleteWorkspace(w) \/ PushLegacyDelete(w)
        PROVE  PurgedEmpty(db')
    <3>1. PICK action \in LifecycleActions, model \in {0, 1} :
             Store(Applied(db, w, action, model, NextSeq(db), clock))
      BY <2>3 DEF DeleteWorkspace, RestoreWorkspace, PermanentlyDeleteWorkspace,
                  PushLegacyDelete, Apply, Commit, LifecycleActions
    <3> DEFINE e == Applied(db, w, action, model, NextSeq(db), clock)
    <3>2. db'.ws = e.ws /\ db'.col = e.col /\ db'.grp = e.grp
      BY <3>1, ApplyType, StoreTables
    <3>3. PurgedEmpty(e)
      BY <2>0, AppliedLeavesNothing
    <3> HIDE DEF e
    <3> QED BY <3>2, <3>3 DEF PurgedEmpty, NothingUnder, CollectionsOf, GroupsOf
  <2>4. CASE CollectionRoutes
    BY <2>4, CollectionRouteLeavesNothing
  <2>5. CASE BookmarkRoutes
    <3>1. db'.ws = db.ws /\ db'.col = db.col /\ db'.grp = db.grp
      BY <2>0, <2>5 DEF BookmarkRoutes, CreateBookmark, UpdateBookmark, DeleteBookmark,
                        Commit, Store, Database
    <3> QED BY <3>1 DEF PurgedEmpty, NothingUnder, CollectionsOf, GroupsOf
  <2> QED BY <2>1, <2>2, <2>3, <2>4, <2>5 DEF Next, WorkspaceRoutes
<1>3. IInv => PurgedLeavesNothing
  BY DEF PurgedEmpty, NothingUnder, PurgedLeavesNothing
<1> QED BY <1>1, <1>2, <1>3, PTL DEF Spec

-------------------------------------------------------------------------------
(* No bookmark loses its collection.                                          *)

(* The links of the bookmarks that e keeps are those of d; a row that is gone *)
(* has none.                                                                  *)
Unlinked(d) == \A b \in Bookmarks : d.bm[b].is_trashed = Absent => d.bm[b].collection_id = NoId

LinksKept(d, e) ==
    \A b \in Bookmarks :
        \/ e.bm[b] = NoBookmark
        \/ /\ e.bm[b].collection_id = d.bm[b].collection_id
           /\ e.bm[b].is_trashed = Absent => d.bm[b].is_trashed = Absent

(* The purge drops the bookmarks of the workspace before the collections, so  *)
(* ON DELETE SET NULL finds no bookmark.                                      *)
LEMMA PurgeLinks ==
    ASSUME NEW d \in Database, NEW w \in Workspaces, NEW seq \in Nat, NEW now \in Nat
    PROVE  LinksKept(d, Purge(d, w, seq, now))
<1> DEFINE root == [d EXCEPT !.ws[w].is_deleted = Terminal, !.ws[w].seq = seq]
           grps == DropGroups(root, GroupsOf(root, w))
           bms  == DropBookmarks(grps, BookmarksOf(grps, w))
           cols == DropCollections(bms, CollectionsOf(bms, w))
<1>1. root.col = d.col /\ root.bm = d.bm
  BY DEF Database
<1>2. root \in Database
  <2>1. [d.ws EXCEPT ![w] = [@ EXCEPT !.is_deleted = Terminal, !.seq = seq]]
           \in [Workspaces -> WorkspaceRow]
    BY DEF Database, WorkspaceRow, States
  <2> QED BY <2>1 DEF Database
<1> HIDE DEF root
<1>3. grps \in Database /\ grps.col = root.col /\ grps.bm = root.bm
  <2>1. grps \in Database /\ grps.col = root.col
    BY <1>2, DropType, DropKeeps
  <2>2. grps.bm = root.bm
    BY <1>2 DEF DropGroups, Database
  <2> QED BY <2>1, <2>2
<1> HIDE DEF grps
<1>4. /\ bms \in Database
      /\ bms.col = grps.col
      /\ \A b \in Bookmarks :
            bms.bm[b] = IF b \in BookmarksOf(grps, w) THEN NoBookmark ELSE grps.bm[b]
  <2>1. bms \in Database /\ bms.col = grps.col
    BY <1>3, DropType, DropKeeps
  <2>2. \A b \in Bookmarks :
           bms.bm[b] = IF b \in BookmarksOf(grps, w) THEN NoBookmark ELSE grps.bm[b]
    BY <1>3 DEF DropBookmarks, Database
  <2> QED BY <2>1, <2>2
<1> HIDE DEF bms
<1>5. \A b \in Bookmarks : bms.bm[b].collection_id \notin CollectionsOf(bms, w)
  BY <1>3, <1>4, IdAssumption DEF BookmarksOf, CollectionsOf, NoBookmark
<1>6. \A b \in Bookmarks : cols.bm[b] = bms.bm[b]
  BY <1>4, <1>5 DEF DropCollections, Database
<1> HIDE DEF cols
<1>7. Purge(d, w, seq, now) = cols
  BY DEF Purge, root, grps, bms, cols
<1> QED BY <1>1, <1>3, <1>4, <1>6, <1>7 DEF LinksKept

(* A lifecycle operation strands no bookmark: each keeps its collection or goes. *)
LEMMA AppliedLinks ==
    ASSUME NEW d \in Database, NEW w \in Workspaces, NEW action \in LifecycleActions,
           NEW model \in {0, 1}, NEW seq \in Nat, NEW now \in Nat
    PROVE  LinksKept(d, Applied(d, w, action, model, seq, now))
<1> DEFINE e == Applied(d, w, action, model, seq, now)
<1>1. e = d \/ SameParents(d, e) \/ e = Purge(d, w, seq, now)
  BY AppliedWorkspaces
<1> HIDE DEF e
<1>2. LinksKept(d, d)
  BY DEF LinksKept
<1>3. SameParents(d, e) => LinksKept(d, e)
  BY DEF SameParents, LinksKept
<1> QED BY <1>1, <1>2, <1>3, PurgeLinks DEF e

(* A bookmark that has a collection keeps one for as long as it has a row,    *)
(* for any database: the purge's order against the foreign key of             *)
(* schema.pg.sql.  (The cleanup worker's phase 2 has no such theorem: see     *)
(* NoOrphanByCleanup.)                                                        *)
THEOREM BookmarksKeepTheirCollection == Spec => NoBookmarkIsStranded
<1> DEFINE IInv == TypeOK /\ Unlinked(db)
           Step == \A b \in Bookmarks :
                      /\ db.bm[b].collection_id # NoId
                      /\ db'.bm[b].is_trashed # Absent
                      => db'.bm[b].collection_id # NoId
<1>1. Init => IInv
  <2> SUFFICES ASSUME Init PROVE Unlinked(db)
    BY InitType
  <2>1. CASE db = EmptyDatabase
    BY <2>1 DEF Unlinked, EmptyDatabase, NoBookmark
  <2>2. ASSUME NEW w \in Workspaces, NEW G \in SUBSET Groups, db = FirstPush(w, G)
        PROVE  Unlinked(db)
    BY <2>2 DEF Unlinked, FirstPush, EmptyDatabase, NoBookmark
  <2> QED BY <2>1, <2>2 DEF Init
<1>2. IInv /\ [Next]_vars => Step /\ Unlinked(db')
  <2> SUFFICES ASSUME IInv, [Next]_vars PROVE Step /\ Unlinked(db')
    OBVIOUS
  <2>0. /\ db \in Database /\ clock \in Nat /\ NextSeq(db) \in Nat
        /\ db.bm \in [Bookmarks -> BookmarkRow]
    BY DEF TypeOK, NextSeq, Database
  <2>1. LinksKept(db, db') => Step /\ Unlinked(db')
    BY DEF LinksKept, Unlinked, NoBookmark
  <2>2. db'.bm = db.bm => LinksKept(db, db')
    BY DEF LinksKept
  <2>3. CASE Tick \/ UNCHANGED vars
    BY <2>1, <2>2, <2>3 DEF Tick, vars
  <2>4. ASSUME NEW w \in Workspaces, CreateWorkspace(w) \/ UpdateWorkspace(w)
        PROVE  db'.bm = db.bm
    BY <2>0, <2>4 DEF CreateWorkspace, UpdateWorkspace, Commit, Store, Database
  <2>5. ASSUME NEW w \in Workspaces, DeleteWorkspace(w) \/ RestoreWorkspace(w) \/
               PermanentlyDeleteWorkspace(w) \/ PushLegacyDelete(w)
        PROVE  LinksKept(db, db')
    <3>1. PICK action \in LifecycleActions, model \in {0, 1} :
             Store(Applied(db, w, action, model, NextSeq(db), clock))
      BY <2>5 DEF DeleteWorkspace, RestoreWorkspace, PermanentlyDeleteWorkspace,
                  PushLegacyDelete, Apply, Commit, LifecycleActions
    <3> DEFINE e == Applied(db, w, action, model, NextSeq(db), clock)
    <3>2. db'.bm = e.bm
      BY <3>1, ApplyType, StoreTables
    <3>3. LinksKept(db, e)
      BY <2>0, AppliedLinks
    <3> HIDE DEF e
    <3> QED BY <3>2, <3>3 DEF LinksKept
  <2>6. CASE CollectionRoutes
    <3>1. db'.bm = db.bm
      BY <2>0, <2>6 DEF CollectionRoutes, CreateCollection, UpdateCollection,
                        DeleteCollection, Commit, Store, Database
    <3> QED BY <2>1, <2>2, <3>1
  <2>7. CASE BookmarkRoutes
    <3>1. ASSUME NEW b \in Bookmarks, NEW parent \in Collections \cup {NoId},
                 NEW trashed \in {Active, Retained},
                 \/ CreateBookmark(b, parent, trashed)
                 \/ parent \in Collections /\ UpdateBookmark(b, parent, trashed)
          PROVE  /\ db'.bm = [db.bm EXCEPT ![b] = db'.bm[b]]
                 /\ db'.bm[b].is_trashed # Absent
                 /\ db.bm[b].collection_id # NoId => db'.bm[b].collection_id # NoId
      <4> DEFINE row == [is_trashed |-> trashed, collection_id |-> parent,
                         deleted_at |-> Null, seq |-> NextSeq(db)]
      <4>1. db'.bm = [db.bm EXCEPT ![b] = row]
        BY <2>0, <3>1 DEF CreateBookmark, UpdateBookmark, Commit, Store, Database
      <4>2. row.is_trashed # Absent /\ row.collection_id = parent
        BY DEF Active, Retained, Absent
      <4>3. db.bm[b].collection_id # NoId => parent # NoId
        BY <3>1, IdAssumption DEF CreateBookmark, Unlinked
      <4> HIDE DEF row
      <4> QED BY <2>0, <4>1, <4>2, <4>3
    <3>2. ASSUME NEW b \in Bookmarks, DeleteBookmark(b)
          PROVE  /\ db'.bm = [db.bm EXCEPT ![b] = db'.bm[b]]
                 /\ db'.bm[b].is_trashed # Absent
                 /\ db'.bm[b].collection_id = db.bm[b].collection_id
      <4> DEFINE row == [[db.bm[b] EXCEPT !.deleted_at = clock] EXCEPT !.seq = NextSeq(db)]
      <4>1. db'.bm = [db.bm EXCEPT ![b] = row] /\ db.bm[b].is_trashed # Absent
        BY <2>0, <3>2 DEF DeleteBookmark, BookmarkReachable, Commit, Store, Database
      <4>2. row.is_trashed = db.bm[b].is_trashed /\ row.collection_id = db.bm[b].collection_id
        BY <2>0 DEF BookmarkRow
      <4> HIDE DEF row
      <4> QED BY <2>0, <4>1, <4>2
    <3> DEFINE Relinked(b) ==
          /\ db'.bm = [db.bm EXCEPT ![b] = db'.bm[b]]
          /\ db'.bm[b].is_trashed # Absent
          /\ db.bm[b].collection_id # NoId => db'.bm[b].collection_id # NoId
    <3>3. PICK b \in Bookmarks :
             \/ \E parent \in Collections \cup {NoId}, trashed \in {Active, Retained} :
                   CreateBookmark(b, parent, trashed)
             \/ \E c \in Collections, trashed \in {Active, Retained} :
                   UpdateBookmark(b, c, trashed)
             \/ DeleteBookmark(b)
      BY <2>7 DEF BookmarkRoutes
    <3>4. ASSUME NEW parent \in Collections \cup {NoId}, NEW trashed \in {Active, Retained},
                 CreateBookmark(b, parent, trashed)
          PROVE  Relinked(b)
      BY <3>1, <3>4
    <3>5. ASSUME NEW c \in Collections, NEW trashed \in {Active, Retained},
                 UpdateBookmark(b, c, trashed)
          PROVE  Relinked(b)
      BY <3>1, <3>5
    <3>6. ASSUME DeleteBookmark(b) PROVE Relinked(b)
      BY <3>2, <3>6
    <3>7. Relinked(b)
      BY <3>3, <3>4, <3>5, <3>6
    <3> QED BY <2>0, <3>7 DEF Unlinked
  <2> QED BY <2>1, <2>2, <2>3, <2>4, <2>5, <2>6, <2>7 DEF Next, WorkspaceRoutes
<1>3. IInv /\ [Next]_vars => IInv'
  BY <1>2, NextType DEF Unlinked
<1>4. IInv /\ [Next]_vars => [Step]_db
  BY <1>2
<1> QED BY <1>1, <1>3, <1>4, PTL DEF Spec, NoBookmarkIsStranded

-------------------------------------------------------------------------------
(* The children of workspaces, after one operation.                           *)

SameChildren(d, e) == e.col = d.col /\ e.bm = d.bm /\ e.grp = d.grp

MarkedRow(row, state, at, seq) ==
    [row EXCEPT !.is_deleted = state, !.deleted_at = at, !.seq = seq]
MarkedBookmark(row, state, at, seq) ==
    [row EXCEPT !.is_trashed = state, !.deleted_at = at, !.seq = seq]

MarkedChildren(d, e, C, B, G, state, at, seq) ==
    /\ \A c \in Collections :
          e.col[c] = IF c \in C THEN MarkedRow(d.col[c], state, at, seq) ELSE d.col[c]
    /\ \A b \in Bookmarks :
          e.bm[b] = IF b \in B THEN MarkedBookmark(d.bm[b], state, at, seq) ELSE d.bm[b]
    /\ \A g \in Groups :
          e.grp[g] = IF g \in G THEN MarkedRow(d.grp[g], state, at, seq) ELSE d.grp[g]

DroppedChildren(d, e, w) ==
    /\ \A c \in Collections :
          e.col[c] = IF c \in CollectionsOf(d, w) THEN NoCollection ELSE d.col[c]
    /\ \A b \in Bookmarks :
          e.bm[b] = IF b \in BookmarksOf(d, w) THEN NoBookmark ELSE d.bm[b]
    /\ \A g \in Groups :
          e.grp[g] = IF g \in GroupsOf(d, w) THEN NoGroup ELSE d.grp[g]

(* One statement marks the rows of its set and no other.                      *)
LEMMA MarkRows ==
    ASSUME NEW d \in Database, NEW S, NEW state, NEW at, NEW seq
    PROVE  /\ LET e == MarkCollections(d, S, state, at, seq) IN
              /\ e.ws = d.ws /\ e.bm = d.bm /\ e.grp = d.grp
              /\ \A c \in Collections :
                    e.col[c] = IF c \in S THEN MarkedRow(d.col[c], state, at, seq) ELSE d.col[c]
           /\ LET e == MarkBookmarks(d, S, state, at, seq) IN
              /\ e.ws = d.ws /\ e.col = d.col /\ e.grp = d.grp
              /\ \A b \in Bookmarks :
                    e.bm[b] = IF b \in S THEN MarkedBookmark(d.bm[b], state, at, seq) ELSE d.bm[b]
           /\ LET e == MarkGroups(d, S, state, at, seq) IN
              /\ e.ws = d.ws /\ e.col = d.col /\ e.bm = d.bm
              /\ \A g \in Groups :
                    e.grp[g] = IF g \in S THEN MarkedRow(d.grp[g], state, at, seq) ELSE d.grp[g]
BY DEF Database, MarkCollections, MarkBookmarks, MarkGroups, MarkedRow, MarkedBookmark

(* The parent-only delete and restore leave the children alone.               *)
LEMMA ParentRows ==
    ASSUME NEW d \in Database, NEW w \in Workspaces, NEW model \in {0, 1},
           NEW seq \in Nat, NEW now \in Nat
    PROVE  /\ SameChildren(d, ParentDelete(d, w, model, seq, now))
           /\ SameChildren(d, ParentRestore(d, w, seq, now))
BY DEF Database, ParentDelete, ParentRestore, SameChildren

(* The legacy delete marks what was active, though it marks the bookmarks     *)
(* first and looks for each table's rows in the tables as they then are.      *)
LEMMA LegacyDeleteRows ==
    ASSUME NEW d \in Database, NEW w \in Workspaces, NEW seq \in Nat, NEW now \in Nat
    PROVE  MarkedChildren(d, LegacyDelete(d, w, seq, now), LiveCollections(d, w),
                          LiveBookmarks(d, w), LiveGroups(d, w), Retained, now, seq)
<1> DEFINE root == ParentDelete(d, w, 0, seq, now)
           bms  == MarkBookmarks(root, LiveBookmarks(root, w), Retained, now, seq)
           cols == MarkCollections(bms, LiveCollections(bms, w), Retained, now, seq)
           grps == MarkGroups(cols, LiveGroups(cols, w), Retained, now, seq)
<1>0. Retained \in States /\ now \in Timestamp
  BY DEF States, Timestamp, Retained
<1>1. root \in Database /\ SameChildren(d, root)
  BY ParentType, ParentRows
<1> HIDE DEF root
<1>2. /\ LiveCollections(root, w) = LiveCollections(d, w)
      /\ LiveBookmarks(root, w) = LiveBookmarks(d, w)
      /\ LiveGroups(root, w) = LiveGroups(d, w)
  BY <1>1 DEF SameChildren, LiveCollections, LiveBookmarks, LiveGroups, CollectionsOf, GroupsOf
<1>3. /\ bms \in Database
      /\ bms.col = root.col /\ bms.grp = root.grp
      /\ \A b \in Bookmarks :
            bms.bm[b] = IF b \in LiveBookmarks(root, w)
                        THEN MarkedBookmark(root.bm[b], Retained, now, seq) ELSE root.bm[b]
  BY <1>0, <1>1, MarkType, MarkRows
<1> HIDE DEF bms
<1>4. LiveCollections(bms, w) = LiveCollections(d, w) /\ LiveGroups(bms, w) = LiveGroups(d, w)
  BY <1>1, <1>3 DEF SameChildren, LiveCollections, LiveGroups, CollectionsOf, GroupsOf
<1>5. /\ cols \in Database
      /\ cols.bm = bms.bm /\ cols.grp = bms.grp
      /\ \A c \in Collections :
            cols.col[c] = IF c \in LiveCollections(bms, w)
                          THEN MarkedRow(bms.col[c], Retained, now, seq) ELSE bms.col[c]
  BY <1>0, <1>3, MarkType, MarkRows
<1> HIDE DEF cols
<1>6. LiveGroups(cols, w) = LiveGroups(d, w)
  BY <1>4, <1>5 DEF LiveGroups, GroupsOf
<1>7. /\ grps.bm = cols.bm /\ grps.col = cols.col
      /\ \A g \in Groups :
            grps.grp[g] = IF g \in LiveGroups(cols, w)
                          THEN MarkedRow(cols.grp[g], Retained, now, seq) ELSE cols.grp[g]
  BY <1>0, <1>5, MarkRows
<1> HIDE DEF grps
<1>8. LegacyDelete(d, w, seq, now) = grps
  BY DEF LegacyDelete, root, bms, cols, grps
<1> QED BY <1>1, <1>2, <1>3, <1>4, <1>5, <1>6, <1>7, <1>8 DEF MarkedChildren, SameChildren

(* The legacy restore marks the rows with sequence evidence.                  *)
LEMMA LegacyRestoreRows ==
    ASSUME NEW d \in Database, NEW w \in Workspaces, NEW seq \in Nat, NEW now \in Nat
    PROVE  MarkedChildren(d, LegacyRestore(d, w, seq, now), EvidenceCollections(d, w),
                          EvidenceBookmarks(d, w), EvidenceGroups(d, w), Active, Null, seq)
<1> DEFINE bms  == MarkBookmarks(d, EvidenceBookmarks(d, w), Active, Null, seq)
           cols == MarkCollections(bms, EvidenceCollections(bms, w), Active, Null, seq)
           grps == MarkGroups(cols, EvidenceGroups(cols, w), Active, Null, seq)
<1>0. Active \in States /\ Null \in Timestamp
  BY DEF States, Timestamp, Active
<1>1. /\ bms \in Database
      /\ bms.ws = d.ws /\ bms.col = d.col /\ bms.grp = d.grp
      /\ \A b \in Bookmarks :
            bms.bm[b] = IF b \in EvidenceBookmarks(d, w)
                        THEN MarkedBookmark(d.bm[b], Active, Null, seq) ELSE d.bm[b]
  BY <1>0, MarkType, MarkRows
<1> HIDE DEF bms
<1>2. EvidenceCollections(bms, w) = EvidenceCollections(d, w)
  BY <1>1 DEF EvidenceCollections, CollectionsOf
<1>3. /\ cols \in Database
      /\ cols.ws = bms.ws /\ cols.bm = bms.bm /\ cols.grp = bms.grp
      /\ \A c \in Collections :
            cols.col[c] = IF c \in EvidenceCollections(bms, w)
                          THEN MarkedRow(bms.col[c], Active, Null, seq) ELSE bms.col[c]
  BY <1>0, <1>1, MarkType, MarkRows
<1> HIDE DEF cols
<1>4. EvidenceGroups(cols, w) = EvidenceGroups(d, w)
  BY <1>1, <1>3 DEF EvidenceGroups, GroupsOf
<1>5. /\ grps \in Database
      /\ grps.bm = cols.bm /\ grps.col = cols.col
      /\ \A g \in Groups :
            grps.grp[g] = IF g \in EvidenceGroups(cols, w)
                          THEN MarkedRow(cols.grp[g], Active, Null, seq) ELSE cols.grp[g]
  BY <1>0, <1>3, MarkType, MarkRows
<1> HIDE DEF grps
<1>6. LegacyRestore(d, w, seq, now) = ParentRestore(grps, w, seq, now)
  BY DEF LegacyRestore, bms, cols, grps
<1>7. SameChildren(grps, ParentRestore(grps, w, seq, now))
  BY <1>5, ParentRows
<1> QED BY <1>1, <1>2, <1>3, <1>4, <1>5, <1>6, <1>7 DEF MarkedChildren, SameChildren

(* The purge drops every row under the root, and no other: the foreign key    *)
(* finds no bookmark to set to NULL.                                          *)
LEMMA PurgeRows ==
    ASSUME NEW d \in Database, NEW w \in Workspaces, NEW seq \in Nat, NEW now \in Nat
    PROVE  DroppedChildren(d, Purge(d, w, seq, now), w)
<1> DEFINE root == [d EXCEPT !.ws[w].is_deleted = Terminal, !.ws[w].seq = seq]
           grps == DropGroups(root, GroupsOf(root, w))
           bms  == DropBookmarks(grps, BookmarksOf(grps, w))
           cols == DropCollections(bms, CollectionsOf(bms, w))
<1>1. root \in Database /\ SameChildren(d, root)
  <2>1. [d.ws EXCEPT ![w] = [@ EXCEPT !.is_deleted = Terminal, !.seq = seq]]
           \in [Workspaces -> WorkspaceRow]
    BY DEF Database, WorkspaceRow, States
  <2> QED BY <2>1 DEF Database, SameChildren
<1> HIDE DEF root
<1>2. /\ grps \in Database
      /\ grps.col = root.col /\ grps.bm = root.bm
      /\ \A g \in Groups : grps.grp[g] = IF g \in GroupsOf(root, w) THEN NoGroup ELSE root.grp[g]
  <2>1. grps.bm = root.bm
    BY <1>1 DEF DropGroups, Database
  <2> QED BY <1>1, <2>1, DropType, DropKeeps
<1> HIDE DEF grps
<1>3. /\ bms \in Database
      /\ bms.col = grps.col /\ bms.grp = grps.grp
      /\ \A b \in Bookmarks :
            bms.bm[b] = IF b \in BookmarksOf(grps, w) THEN NoBookmark ELSE grps.bm[b]
  <2>1. \A b \in Bookmarks :
           bms.bm[b] = IF b \in BookmarksOf(grps, w) THEN NoBookmark ELSE grps.bm[b]
    BY <1>2 DEF DropBookmarks, Database
  <2> QED BY <1>2, <2>1, DropType, DropKeeps
<1> HIDE DEF bms
<1>4. \A b \in Bookmarks : bms.bm[b].collection_id \notin CollectionsOf(bms, w)
  BY <1>2, <1>3, IdAssumption DEF BookmarksOf, CollectionsOf, NoBookmark
<1>5. \A b \in Bookmarks : cols.bm[b] = bms.bm[b]
  BY <1>3, <1>4 DEF DropCollections, Database
<1>6. /\ cols.grp = bms.grp
      /\ \A c \in Collections :
            cols.col[c] = IF c \in CollectionsOf(bms, w) THEN NoCollection ELSE bms.col[c]
  BY <1>3, DropKeeps
<1> HIDE DEF cols
<1>7. Purge(d, w, seq, now) = cols
  BY DEF Purge, root, grps, bms, cols
<1>8. /\ GroupsOf(root, w) = GroupsOf(d, w)
      /\ BookmarksOf(grps, w) = BookmarksOf(d, w)
      /\ CollectionsOf(bms, w) = CollectionsOf(d, w)
  BY <1>1, <1>2, <1>3 DEF SameChildren, GroupsOf, BookmarksOf, CollectionsOf
<1> QED BY <1>1, <1>2, <1>3, <1>5, <1>6, <1>7, <1>8 DEF DroppedChildren, SameChildren

-------------------------------------------------------------------------------
(* The tables after each kind of transaction.                                 *)

(* A workspace is created, or an active one updated.                          *)
WorkspaceWrite(d, e, w, seq) ==
    /\ SameChildren(d, e)
    /\ \/ d.ws[w].is_deleted = Absent /\ OneRow(d, w, RestoredRow(seq), e)
       \/ d.ws[w].is_deleted = Active /\ OneRow(d, w, [d.ws[w] EXCEPT !.seq = seq], e)

(* A collection is created, moved or deleted: from an active workspace to an  *)
(* active one.                                                                *)
CollectionWrite(d, e, c, row, seq) ==
    /\ e.ws = d.ws /\ e.bm = d.bm /\ e.grp = d.grp
    /\ e.col = [d.col EXCEPT ![c] = row]
    /\ row.seq = seq
    /\ row.workspace_id \in ActiveWorkspaces(d)
    /\ \/ d.col[c].is_deleted = Absent /\ row.is_deleted = Active
       \/ CollectionListed(d, c) /\ row.is_deleted \in {d.col[c].is_deleted, Retained}

(* A bookmark is created, moved or deleted: between usable collections.       *)
BookmarkWrite(d, e, b, row, seq) ==
    /\ e.ws = d.ws /\ e.col = d.col /\ e.grp = d.grp
    /\ e.bm = [d.bm EXCEPT ![b] = row]
    /\ row.seq = seq
    /\ row.is_trashed # Absent
    /\ row.is_trashed \in {Active, Retained, d.bm[b].is_trashed}
    /\ row.collection_id = NoId \/ CollectionUsable(d, row.collection_id)
    /\ \/ d.bm[b].is_trashed = Absent
       \/ BookmarkReachable(d, b) /\ row.collection_id # NoId

DeleteStep(d, e, w, model, seq, now) ==
    /\ d.ws[w].is_deleted = Active
    /\ OneRow(d, w, RetainedRow(model, seq, now), e)
    /\ IF model = 0
       THEN MarkedChildren(d, e, LiveCollections(d, w), LiveBookmarks(d, w), LiveGroups(d, w),
                           Retained, now, seq)
       ELSE SameChildren(d, e)

RestoreStep(d, e, w, seq) ==
    /\ d.ws[w].is_deleted = Retained
    /\ OneRow(d, w, RestoredRow(seq), e)
    /\ IF d.ws[w].deletion_model = 0
       THEN MarkedChildren(d, e, EvidenceCollections(d, w), EvidenceBookmarks(d, w),
                           EvidenceGroups(d, w), Active, Null, seq)
       ELSE SameChildren(d, e)

PurgeStep(d, e, w, seq) ==
    /\ d.ws[w].is_deleted = Retained
    /\ OneRow(d, w, PurgedRow(d.ws[w], seq), e)
    /\ DroppedChildren(d, e, w)

(* The lifecycle: one of the three, or nothing.                               *)
LifecycleStep(d, e, w, model, seq, now) ==
    \/ DeleteStep(d, e, w, model, seq, now)
    \/ RestoreStep(d, e, w, seq)
    \/ PurgeStep(d, e, w, seq)

Accepted(d, w, action, model) ==
    Rejection(d, w, action, model) = "" /\ ~Idempotent(d, w, action)

(* ApplyInTx changes nothing, or makes the lifecycle step of its action.      *)
LEMMA AppliedRows ==
    ASSUME NEW d \in Database, NEW w \in Workspaces, NEW action \in LifecycleActions,
           NEW model \in {0, 1}, NEW seq \in Nat, NEW now \in Nat
    PROVE  LET e == Applied(d, w, action, model, seq, now) IN
           /\ ~Accepted(d, w, action, model) => e = d
           /\ Accepted(d, w, action, model) =>
                 \/ action = "delete"  /\ DeleteStep(d, e, w, model, seq, now)
                 \/ action = "restore" /\ RestoreStep(d, e, w, seq)
                 \/ action = "purge"   /\ PurgeStep(d, e, w, seq)
<1> DEFINE e == Applied(d, w, action, model, seq, now)
           state == d.ws[w].is_deleted
<1>0. state \in States /\ d.ws[w].deletion_model \in {0, 1}
  BY DEF Database, WorkspaceRow
<1>1. ASSUME ~Accepted(d, w, action, model) PROVE e = d
  BY <1>1 DEF Accepted, Applied
<1>2. ASSUME Accepted(d, w, action, model)
      PROVE  \/ action = "delete"  /\ DeleteStep(d, e, w, model, seq, now)
             \/ action = "restore" /\ RestoreStep(d, e, w, seq)
             \/ action = "purge"   /\ PurgeStep(d, e, w, seq)
  <2> USE <1>2 DEF Accepted
  <2>1. CASE action = "delete"
    <3>1. state = Active
      BY <1>0, <2>1 DEF Rejection, Idempotent, States, Absent, Active, Retained, Terminal
    <3>2. e = IF model = 0 THEN LegacyDelete(d, w, seq, now)
                           ELSE ParentDelete(d, w, model, seq, now)
      BY <2>1 DEF Applied
    <3>3. DeleteStep(d, e, w, model, seq, now)
      <4> HIDE <1>2 DEF Accepted
      <4>1. CASE model = 0
        BY <3>1, <3>2, <4>1, LegacyKeeps, LegacyDeleteRows DEF DeleteStep
      <4>2. CASE model # 0
        BY <3>1, <3>2, <4>2, ParentDeleteKeeps, ParentRows DEF DeleteStep
      <4> QED BY <4>1, <4>2
    <3> QED BY <2>1, <3>3
  <2>2. CASE action = "restore"
    <3>1. state = Retained
      BY <1>0, <2>2 DEF Rejection, Idempotent, States, Absent, Active, Retained, Terminal
    <3>2. e = IF d.ws[w].deletion_model = 0 THEN LegacyRestore(d, w, seq, now)
                                            ELSE ParentRestore(d, w, seq, now)
      BY <2>2 DEF Applied
    <3>3. RestoreStep(d, e, w, seq)
      <4> HIDE <1>2 DEF Accepted
      <4>1. CASE d.ws[w].deletion_model = 0
        BY <3>1, <3>2, <4>1, LegacyKeeps, LegacyRestoreRows DEF RestoreStep
      <4>2. CASE d.ws[w].deletion_model # 0
        BY <3>1, <3>2, <4>2, ParentRestoreKeeps, ParentRows DEF RestoreStep
      <4> QED BY <4>1, <4>2
    <3> QED BY <2>2, <3>3
  <2>3. CASE action = "purge"
    <3>1. state = Retained
      BY <1>0, <2>3 DEF Rejection, Idempotent, States, Absent, Active, Retained, Terminal
    <3>2. e = Purge(d, w, seq, now)
      BY <2>3 DEF Applied
    <3>3. PurgeStep(d, e, w, seq)
      <4> HIDE <1>2 DEF Accepted
      <4>1. OneRow(d, w, PurgedRow(d.ws[w], seq), Purge(d, w, seq, now))
        BY PurgeKeeps
      <4>2. DroppedChildren(d, Purge(d, w, seq, now), w)
        BY PurgeRows
      <4> HIDE DEF e
      <4> QED BY <3>1, <3>2, <4>1, <4>2 DEF PurgeStep
    <3> QED BY <2>3, <3>3
  <2> QED BY <2>1, <2>2, <2>3 DEF LifecycleActions
<1> QED BY <1>1, <1>2

-------------------------------------------------------------------------------
(* What every committed transaction does beside its rows.                     *)
Numbered ==
    /\ db'.seq = NextSeq(db)
    /\ shown' = [w \in Workspaces |-> IF Deleted(db, db', w) THEN ShownIn(db, w) ELSE shown[w]]
    /\ clock' = clock

(* A stored transaction carries the next number.                              *)
LEMMA StoreNumbers ==
    ASSUME NEW e \in Database, Store(e) PROVE Numbered
BY DEF Store, Numbered, Database, Deleted

(* The rows the routes of collections and bookmarks write.                    *)
LEMMA CollectionRouteWrites ==
    ASSUME TypeOK, CollectionRoutes
    PROVE  \E c \in Collections, row \in CollectionRow :
              Numbered /\ CollectionWrite(db, db', c, row, NextSeq(db))
<1>0. db \in Database /\ clock \in Nat /\ NextSeq(db) \in Nat /\ db.col \in [Collections -> CollectionRow]
  BY DEF TypeOK, NextSeq, Database
<1>1. ASSUME NEW c \in Collections, NEW w \in Workspaces, CreateCollection(c, w)
      PROVE  \E row \in CollectionRow : Numbered /\ CollectionWrite(db, db', c, row, NextSeq(db))
  <2> DEFINE row == [is_deleted |-> Active, workspace_id |-> w,
                     deleted_at |-> Null, seq |-> NextSeq(db)]
             e == [db EXCEPT !.col[c] = row]
  <2>1. row \in CollectionRow
    BY <1>0 DEF CollectionRow, States, Timestamp
  <2>2. e \in Database /\ Store(e)
    BY <1>0, <1>1, RouteType DEF CreateCollection, Commit
  <2>3. e.ws = db.ws /\ e.bm = db.bm /\ e.grp = db.grp /\ e.col = [db.col EXCEPT ![c] = row]
    BY <1>0 DEF Database
  <2> HIDE DEF e
  <2>4. db.col[c].is_deleted = Absent /\ w \in ActiveWorkspaces(db)
    BY <1>1 DEF CreateCollection, WorkspaceActive
  <2> QED BY <2>1, <2>2, <2>3, <2>4, StoreTables, StoreNumbers DEF CollectionWrite
<1>2. ASSUME NEW c \in Collections, NEW w \in Workspaces, UpdateCollection(c, w)
      PROVE  \E row \in CollectionRow : Numbered /\ CollectionWrite(db, db', c, row, NextSeq(db))
  <2> DEFINE row == [db.col[c] EXCEPT !.workspace_id = w, !.seq = NextSeq(db)]
             e == [db EXCEPT !.col[c].workspace_id = w, !.col[c].seq = NextSeq(db)]
  <2>1. /\ row \in CollectionRow /\ row.workspace_id = w /\ row.seq = NextSeq(db)
        /\ row.is_deleted = db.col[c].is_deleted
    BY <1>0 DEF CollectionRow
  <2>2. e \in Database /\ Store(e)
    BY <1>0, <1>2, RouteType DEF UpdateCollection, Commit
  <2>3. e.ws = db.ws /\ e.bm = db.bm /\ e.grp = db.grp /\ e.col = [db.col EXCEPT ![c] = row]
    BY <1>0 DEF Database
  <2> HIDE DEF e, row
  <2>4. CollectionListed(db, c) /\ w \in ActiveWorkspaces(db)
    BY <1>2 DEF UpdateCollection, WorkspaceActive
  <2> QED BY <2>1, <2>2, <2>3, <2>4, StoreTables, StoreNumbers DEF CollectionWrite
<1>3. ASSUME NEW c \in Collections, DeleteCollection(c)
      PROVE  \E row \in CollectionRow : Numbered /\ CollectionWrite(db, db', c, row, NextSeq(db))
  <2> DEFINE row == [db.col[c] EXCEPT !.is_deleted = Retained, !.deleted_at = clock, !.seq = NextSeq(db)]
             e == [db EXCEPT !.col[c].is_deleted = Retained, !.col[c].deleted_at = clock,
                             !.col[c].seq = NextSeq(db)]
  <2>1. /\ row \in CollectionRow /\ row.workspace_id = db.col[c].workspace_id
        /\ row.seq = NextSeq(db)
        /\ row.is_deleted = Retained
    BY <1>0 DEF CollectionRow, States, Timestamp
  <2>2. e \in Database /\ Store(e)
    BY <1>0, <1>3, RouteType DEF DeleteCollection, Commit
  <2>3. e.ws = db.ws /\ e.bm = db.bm /\ e.grp = db.grp /\ e.col = [db.col EXCEPT ![c] = row]
    BY <1>0 DEF Database
  <2> HIDE DEF e, row
  <2>4. CollectionListed(db, c) /\ db.col[c].workspace_id \in ActiveWorkspaces(db)
    BY <1>3 DEF DeleteCollection, CollectionListed, WorkspaceActive
  <2> QED BY <2>1, <2>2, <2>3, <2>4, StoreTables, StoreNumbers DEF CollectionWrite
<1> QED BY <1>1, <1>2, <1>3 DEF CollectionRoutes

(* A bookmark route writes one row of the bookmarks.                          *)
LEMMA BookmarkRouteWrites ==
    ASSUME TypeOK, BookmarkRoutes
    PROVE  \E b \in Bookmarks, row \in BookmarkRow :
              Numbered /\ BookmarkWrite(db, db', b, row, NextSeq(db))
<1>0. db \in Database /\ clock \in Nat /\ NextSeq(db) \in Nat /\ db.bm \in [Bookmarks -> BookmarkRow]
  BY DEF TypeOK, NextSeq, Database
<1>1. ASSUME NEW b \in Bookmarks, NEW parent \in Collections \cup {NoId},
             NEW trashed \in {Active, Retained},
             \/ CreateBookmark(b, parent, trashed)
             \/ parent \in Collections /\ UpdateBookmark(b, parent, trashed)
      PROVE  \E row \in BookmarkRow : Numbered /\ BookmarkWrite(db, db', b, row, NextSeq(db))
  <2> DEFINE row == [is_trashed |-> trashed, collection_id |-> parent,
                     deleted_at |-> Null, seq |-> NextSeq(db)]
             e == [db EXCEPT !.bm[b] = row]
  <2>1. row \in BookmarkRow /\ row.is_trashed # Absent
    BY <1>0 DEF BookmarkRow, States, Timestamp, Absent, Active, Retained
  <2>2. e \in Database /\ Store(e)
    BY <1>0, <1>1, RouteType DEF CreateBookmark, UpdateBookmark, Commit
  <2>3. e.ws = db.ws /\ e.col = db.col /\ e.grp = db.grp /\ e.bm = [db.bm EXCEPT ![b] = row]
    BY <1>0 DEF Database
  <2>4. row.collection_id = parent /\ row.seq = NextSeq(db) /\ row.is_trashed \in {Active, Retained}
    OBVIOUS
  <2> HIDE DEF e, row
  <2>5. \/ db.bm[b].is_trashed = Absent /\ (parent = NoId \/ CollectionUsable(db, parent))
        \/ BookmarkReachable(db, b) /\ CollectionUsable(db, parent) /\ parent # NoId
    BY <1>1, IdAssumption DEF CreateBookmark, UpdateBookmark
  <2> QED BY <2>1, <2>2, <2>3, <2>4, <2>5, StoreTables, StoreNumbers DEF BookmarkWrite
<1>2. ASSUME NEW b \in Bookmarks, DeleteBookmark(b)
      PROVE  \E row \in BookmarkRow : Numbered /\ BookmarkWrite(db, db', b, row, NextSeq(db))
  <2> DEFINE row == [db.bm[b] EXCEPT !.deleted_at = clock, !.seq = NextSeq(db)]
             e == [db EXCEPT !.bm[b].deleted_at = clock, !.bm[b].seq = NextSeq(db)]
  <2>1. /\ row \in BookmarkRow /\ row.is_trashed = db.bm[b].is_trashed
        /\ row.collection_id = db.bm[b].collection_id
        /\ row.seq = NextSeq(db)
    BY <1>0 DEF BookmarkRow, Timestamp
  <2>2. e \in Database /\ Store(e)
    BY <1>0, <1>2, RouteType DEF DeleteBookmark, Commit
  <2>3. e.ws = db.ws /\ e.col = db.col /\ e.grp = db.grp /\ e.bm = [db.bm EXCEPT ![b] = row]
    BY <1>0 DEF Database
  <2> HIDE DEF e, row
  <2>4. BookmarkReachable(db, b) /\ db.bm[b].is_trashed # Absent
        /\ CollectionUsable(db, db.bm[b].collection_id) /\ db.bm[b].collection_id # NoId
    BY <1>2, IdAssumption DEF DeleteBookmark, BookmarkReachable, CollectionUsable, CollectionListed
  <2> QED BY <2>1, <2>2, <2>3, <2>4, StoreTables, StoreNumbers DEF BookmarkWrite
<1> QED BY <1>1, <1>2 DEF BookmarkRoutes

(* The row a workspace route of its own writes.                               *)
LEMMA WorkspaceRowWrites ==
    ASSUME TypeOK, NEW u \in Workspaces, CreateWorkspace(u) \/ UpdateWorkspace(u)
    PROVE  \E w \in Workspaces : Numbered /\ WorkspaceWrite(db, db', w, NextSeq(db))
<1>0. db \in Database /\ clock \in Nat /\ NextSeq(db) \in Nat /\ db.ws \in [Workspaces -> WorkspaceRow]
  BY DEF TypeOK, NextSeq, Database
<1>1. ASSUME NEW w \in Workspaces, CreateWorkspace(w)
      PROVE  Numbered /\ WorkspaceWrite(db, db', w, NextSeq(db))
  <2> DEFINE e == [db EXCEPT !.ws[w] = RestoredRow(NextSeq(db))]
  <2>1. e \in Database /\ Store(e)
    BY <1>0, <1>1, RouteType DEF CreateWorkspace, Commit, RestoredRow
  <2>2. SameChildren(db, e) /\ OneRow(db, w, RestoredRow(NextSeq(db)), e)
    BY <1>0 DEF Database, SameChildren, OneRow
  <2> HIDE DEF e
  <2>3. db.ws[w].is_deleted = Absent
    BY <1>1 DEF CreateWorkspace
  <2> QED BY <2>1, <2>2, <2>3, StoreTables, StoreNumbers DEF WorkspaceWrite, SameChildren, OneRow
<1>2. ASSUME NEW w \in Workspaces, UpdateWorkspace(w)
      PROVE  Numbered /\ WorkspaceWrite(db, db', w, NextSeq(db))
  <2> DEFINE e == [db EXCEPT !.ws[w].seq = NextSeq(db)]
  <2>1. e \in Database /\ Store(e)
    BY <1>0, <1>2, RouteType DEF UpdateWorkspace, Commit
  <2>2. SameChildren(db, e) /\ OneRow(db, w, [db.ws[w] EXCEPT !.seq = NextSeq(db)], e)
    BY <1>0 DEF Database, SameChildren, OneRow
  <2> HIDE DEF e
  <2>3. db.ws[w].is_deleted = Active
    BY <1>2 DEF UpdateWorkspace, WorkspaceActive, ActiveWorkspaces
  <2> QED BY <2>1, <2>2, <2>3, StoreTables, StoreNumbers DEF WorkspaceWrite, SameChildren, OneRow
<1> QED BY <1>1, <1>2

(* One route of a workspace.                                                  *)
LEMMA WorkspaceRouteWrites ==
    ASSUME TypeOK, WorkspaceRoutes
    PROVE  /\ Numbered
           /\ \/ db'.ws = db.ws /\ SameChildren(db, db')
              \/ \E w \in Workspaces :
                    \/ WorkspaceWrite(db, db', w, NextSeq(db))
                    \/ \E model \in {0, 1} : LifecycleStep(db, db', w, model, NextSeq(db), clock)
<1>0. db \in Database /\ clock \in Nat /\ NextSeq(db) \in Nat
  BY DEF TypeOK, NextSeq, Database
<1>3. ASSUME NEW w \in Workspaces, DeleteWorkspace(w) \/ RestoreWorkspace(w) \/
             PermanentlyDeleteWorkspace(w) \/ PushLegacyDelete(w)
      PROVE  /\ Numbered
             /\ \/ db'.ws = db.ws /\ SameChildren(db, db')
                \/ \E model \in {0, 1} : LifecycleStep(db, db', w, model, NextSeq(db), clock)
  <2>1. PICK action \in LifecycleActions, model \in {0, 1} :
           Store(Applied(db, w, action, model, NextSeq(db), clock))
    BY <1>3 DEF DeleteWorkspace, RestoreWorkspace, PermanentlyDeleteWorkspace,
                PushLegacyDelete, Apply, Commit, LifecycleActions
  <2> DEFINE e == Applied(db, w, action, model, NextSeq(db), clock)
  <2>2. \/ e = db
        \/ DeleteStep(db, e, w, model, NextSeq(db), clock)
        \/ RestoreStep(db, e, w, NextSeq(db))
        \/ PurgeStep(db, e, w, NextSeq(db))
    BY <1>0, AppliedRows
  <2>3. e \in Database /\ Store(e)
    BY <2>1, ApplyType
  <2> HIDE DEF e
  <2>4. db'.ws = e.ws /\ db'.col = e.col /\ db'.bm = e.bm /\ db'.grp = e.grp /\ Numbered
    BY <2>3, StoreTables, StoreNumbers
  <2>5. \/ db'.ws = db.ws /\ SameChildren(db, db')
        \/ LifecycleStep(db, db', w, model, NextSeq(db), clock)
    BY <2>2, <2>4 DEF LifecycleStep, DeleteStep, RestoreStep, PurgeStep, OneRow, SameChildren,
                      MarkedChildren, DroppedChildren
  <2> QED BY <2>4, <2>5
<1> QED BY <1>3, WorkspaceRowWrites DEF WorkspaceRoutes

(* The whole next-state relation, row by row.                                 *)
Transaction ==
    \/ db'.ws = db.ws /\ SameChildren(db, db')
    \/ \E w \in Workspaces : WorkspaceWrite(db, db', w, NextSeq(db))
    \/ \E c \in Collections, row \in CollectionRow : CollectionWrite(db, db', c, row, NextSeq(db))
    \/ \E b \in Bookmarks, row \in BookmarkRow : BookmarkWrite(db, db', b, row, NextSeq(db))
    \/ \E w \in Workspaces, model \in {0, 1} :
          LifecycleStep(db, db', w, model, NextSeq(db), clock)

(* A step of the routes changes nothing, or is one numbered transaction.      *)
LEMMA StepRows ==
    ASSUME TypeOK, [Next]_vars
    PROVE  (db' = db /\ shown' = shown) \/ (Numbered /\ Transaction)
<1>1. CASE Tick \/ UNCHANGED vars
  BY <1>1 DEF Tick, vars
<1>2. CASE WorkspaceRoutes
  BY <1>2, WorkspaceRouteWrites DEF Transaction
<1>3. CASE CollectionRoutes
  BY <1>3, CollectionRouteWrites DEF Transaction
<1>4. CASE BookmarkRoutes
  BY <1>4, BookmarkRouteWrites DEF Transaction
<1> QED BY <1>1, <1>2, <1>3, <1>4 DEF Next

-------------------------------------------------------------------------------
(* What the foreign keys and the sequence counter keep true of every row.     *)

(* No row is left of what is gone, a row's parent is there, and a row that is *)
(* there carries a sequence number, none of them above the counter.           *)
AbsentRows(d) ==
    /\ \A c \in Collections : d.col[c].is_deleted = Absent => d.col[c] = NoCollection
    /\ \A b \in Bookmarks : d.bm[b].is_trashed = Absent => d.bm[b] = NoBookmark
    /\ \A g \in Groups : d.grp[g].is_deleted = Absent => d.grp[g] = NoGroup

ParentsPresent(d) ==
    /\ \A w \in Workspaces :
          d.ws[w].is_deleted = Absent => CollectionsOf(d, w) = {} /\ GroupsOf(d, w) = {}
    /\ \A c \in Collections, b \in Bookmarks :
          d.bm[b].collection_id = c => d.col[c].is_deleted # Absent

SeqBounded(d) ==
    /\ \A w \in Workspaces : d.ws[w].seq <= d.seq
    /\ \A c \in Collections : d.col[c].seq <= d.seq
    /\ \A b \in Bookmarks : d.bm[b].seq <= d.seq
    /\ \A g \in Groups : d.grp[g].seq <= d.seq

Sequenced(d) ==
    /\ \A w \in Workspaces : d.ws[w].is_deleted # Absent => d.ws[w].seq > 0
    /\ \A c \in Collections : d.col[c].is_deleted # Absent => d.col[c].seq > 0
    /\ \A b \in Bookmarks : d.bm[b].is_trashed # Absent => d.bm[b].seq > 0
    /\ \A g \in Groups : d.grp[g].is_deleted # Absent => d.grp[g].seq > 0

Consistent(d) == AbsentRows(d) /\ ParentsPresent(d) /\ SeqBounded(d) /\ Sequenced(d)

(* A transaction that stamps every row it writes with its number.             *)
LEMMA SeqStep ==
    ASSUME NEW d \in Database, NEW e \in Database, e.seq = NextSeq(d),
           SeqBounded(d), Sequenced(d),
           \A w \in Workspaces : e.ws[w] = d.ws[w] \/ e.ws[w].seq = e.seq,
           \A c \in Collections : \/ e.col[c] = d.col[c]
                                 \/ e.col[c].seq = e.seq
                                 \/ e.col[c] = NoCollection,
           \A b \in Bookmarks : \/ e.bm[b] = d.bm[b]
                               \/ e.bm[b].seq = e.seq
                               \/ e.bm[b] = NoBookmark,
           \A g \in Groups : \/ e.grp[g] = d.grp[g]
                            \/ e.grp[g].seq = e.seq
                            \/ e.grp[g] = NoGroup
    PROVE  SeqBounded(e) /\ Sequenced(e)
<1>1. d.seq \in Nat /\ e.seq = d.seq + 1
  BY DEF Database, NextSeq
<1>2. /\ \A w \in Workspaces : d.ws[w].seq \in Nat
      /\ \A c \in Collections : d.col[c].seq \in Nat
      /\ \A b \in Bookmarks : d.bm[b].seq \in Nat
      /\ \A g \in Groups : d.grp[g].seq \in Nat
  BY DEF Database, WorkspaceRow, CollectionRow, BookmarkRow, GroupRow
<1>3. \A w \in Workspaces : e.ws[w].seq <= e.seq
  BY <1>1, <1>2 DEF SeqBounded
<1>7. \A w \in Workspaces : e.ws[w].is_deleted # Absent => e.ws[w].seq > 0
  BY <1>1, <1>2 DEF Sequenced
<1>4. \A c \in Collections : e.col[c].seq <= e.seq
  BY <1>1, <1>2 DEF SeqBounded, NoCollection
<1>8. \A c \in Collections : e.col[c].is_deleted # Absent => e.col[c].seq > 0
  BY <1>1, <1>2 DEF Sequenced, NoCollection
<1>5. \A b \in Bookmarks : e.bm[b].seq <= e.seq
  BY <1>1, <1>2 DEF SeqBounded, NoBookmark
<1>9. \A b \in Bookmarks : e.bm[b].is_trashed # Absent => e.bm[b].seq > 0
  BY <1>1, <1>2 DEF Sequenced, NoBookmark
<1>6. \A g \in Groups : e.grp[g].seq <= e.seq
  BY <1>1, <1>2 DEF SeqBounded, NoGroup, NoCollection
<1>10. \A g \in Groups : e.grp[g].is_deleted # Absent => e.grp[g].seq > 0
  BY <1>1, <1>2 DEF Sequenced, NoGroup, NoCollection
<1>11. SeqBounded(e)
  BY <1>3, <1>4, <1>5, <1>6 DEF SeqBounded
<1>12. Sequenced(e)
  BY <1>7, <1>8, <1>9, <1>10 DEF Sequenced
<1> QED BY <1>11, <1>12

(* The rows a marked set leaves: each keeps its parent and is there before    *)
(* and after.                                                                 *)
LEMMA MarkedIsConsistent ==
    ASSUME NEW d \in Database, NEW e \in Database, Consistent(d), e.seq = NextSeq(d),
           NEW w \in Workspaces, NEW row, OneRow(d, w, row, e), row.seq = e.seq,
           row.is_deleted # Absent,
           NEW C, NEW B, NEW G, NEW state, state # Absent, NEW at,
           MarkedChildren(d, e, C, B, G, state, at, e.seq),
           \A c \in C : d.col[c].is_deleted # Absent,
           \A b \in B : d.bm[b].is_trashed # Absent,
           \A g \in G : d.grp[g].is_deleted # Absent,
           d.ws[w].is_deleted # Absent
    PROVE  Consistent(e)
<1>0. /\ d.seq \in Nat /\ e.seq = d.seq + 1
      /\ d.ws \in [Workspaces -> WorkspaceRow]
      /\ d.col \in [Collections -> CollectionRow]
      /\ d.bm \in [Bookmarks -> BookmarkRow]
      /\ d.grp \in [Groups -> GroupRow]
      /\ AbsentRows(d) /\ ParentsPresent(d) /\ SeqBounded(d) /\ Sequenced(d)
  BY DEF Database, NextSeq, Consistent
<1>1. \A v \in Workspaces : e.ws[v] = d.ws[v] \/ e.ws[v].seq = e.seq
  BY <1>0 DEF OneRow
<1>1a. \A v \in Workspaces : e.ws[v].is_deleted = Absent => d.ws[v].is_deleted = Absent
  BY <1>0 DEF OneRow
<1>2. \A c \in Collections :
         \/ e.col[c] = d.col[c]
         \/ /\ e.col[c].workspace_id = d.col[c].workspace_id
            /\ e.col[c].is_deleted # Absent /\ d.col[c].is_deleted # Absent
            /\ e.col[c].seq = e.seq
  BY <1>0 DEF MarkedChildren, MarkedRow, CollectionRow
<1>3. \A b \in Bookmarks :
         \/ e.bm[b] = d.bm[b]
         \/ /\ e.bm[b].collection_id = d.bm[b].collection_id
            /\ e.bm[b].is_trashed # Absent /\ d.bm[b].is_trashed # Absent
            /\ e.bm[b].seq = e.seq
  BY <1>0 DEF MarkedChildren, MarkedBookmark, BookmarkRow
<1>4. \A g \in Groups :
         \/ e.grp[g] = d.grp[g]
         \/ /\ e.grp[g].workspace_id = d.grp[g].workspace_id
            /\ e.grp[g].is_deleted # Absent /\ d.grp[g].is_deleted # Absent
            /\ e.grp[g].seq = e.seq
  BY <1>0 DEF MarkedChildren, MarkedRow, GroupRow
<1>5. AbsentRows(e)
  BY <1>0, <1>2, <1>3, <1>4 DEF AbsentRows
<1>6. ParentsPresent(e)
  <2>1. ASSUME NEW v \in Workspaces, e.ws[v].is_deleted = Absent
        PROVE  CollectionsOf(e, v) = {} /\ GroupsOf(e, v) = {}
    <3>1. CollectionsOf(d, v) = {} /\ GroupsOf(d, v) = {}
      BY <1>0, <1>1a, <2>1 DEF ParentsPresent
    <3> QED BY <1>2, <1>4, <3>1 DEF CollectionsOf, GroupsOf
  <2>2. \A c \in Collections, b \in Bookmarks :
           e.bm[b].collection_id = c => e.col[c].is_deleted # Absent
    BY <1>0, <1>2, <1>3 DEF ParentsPresent
  <2> QED BY <2>1, <2>2 DEF ParentsPresent
<1>7. /\ \A c \in Collections : e.col[c] = d.col[c] \/ e.col[c].seq = e.seq
      /\ \A b \in Bookmarks : e.bm[b] = d.bm[b] \/ e.bm[b].seq = e.seq
      /\ \A g \in Groups : e.grp[g] = d.grp[g] \/ e.grp[g].seq = e.seq
  BY <1>2, <1>3, <1>4
<1>8. SeqBounded(e) /\ Sequenced(e)
  BY <1>0, <1>1, <1>7, SeqStep
<1> QED BY <1>5, <1>6, <1>8 DEF Consistent

(* What a purge leaves under the other workspaces.                            *)
LEMMA DroppedIsConsistent ==
    ASSUME NEW d \in Database, NEW e \in Database, Consistent(d), e.seq = NextSeq(d),
           NEW w \in Workspaces, OneRow(d, w, PurgedRow(d.ws[w], e.seq), e),
           DroppedChildren(d, e, w)
    PROVE  Consistent(e)
<1>0. AbsentRows(d) /\ ParentsPresent(d) /\ SeqBounded(d) /\ Sequenced(d)
  BY DEF Consistent
<1>1. \A v \in Workspaces : e.ws[v] = d.ws[v] \/ e.ws[v].seq = e.seq
  BY DEF OneRow, PurgedRow, Database, WorkspaceRow
<1>1a. \A v \in Workspaces : e.ws[v].is_deleted = Absent => d.ws[v].is_deleted = Absent
  BY DEF OneRow, PurgedRow, Database, WorkspaceRow, Absent, Terminal
<1>1b. \A c \in Collections : c \notin CollectionsOf(d, w) => e.col[c] = d.col[c]
  BY DEF DroppedChildren
<1>2. /\ \A c \in Collections : e.col[c] = d.col[c] \/ e.col[c] = NoCollection
      /\ \A b \in Bookmarks : e.bm[b] = d.bm[b] \/ e.bm[b] = NoBookmark
      /\ \A g \in Groups : e.grp[g] = d.grp[g] \/ e.grp[g] = NoGroup
  BY DEF DroppedChildren
<1>3. AbsentRows(e)
  BY <1>0, <1>2 DEF AbsentRows
<1>4. ASSUME NEW v \in Workspaces, e.ws[v].is_deleted = Absent
      PROVE  CollectionsOf(e, v) = {} /\ GroupsOf(e, v) = {}
  <2>1. CollectionsOf(d, v) = {} /\ GroupsOf(d, v) = {}
    BY <1>0, <1>1a, <1>4 DEF ParentsPresent
  <2>2. NoCollection.workspace_id # v /\ NoGroup.workspace_id # v
    BY IdAssumption DEF NoCollection, NoGroup
  <2> HIDE DEF NoCollection, NoGroup
  <2> QED BY <1>2, <2>1, <2>2 DEF CollectionsOf, GroupsOf
<1>5. ASSUME NEW c \in Collections, NEW b \in Bookmarks, e.bm[b].collection_id = c
      PROVE  e.col[c].is_deleted # Absent
  <2>1. b \notin BookmarksOf(d, w) /\ d.bm[b].collection_id = c
    BY <1>5, IdAssumption DEF DroppedChildren, NoBookmark
  <2>2. c \notin CollectionsOf(d, w) /\ d.col[c].is_deleted # Absent
    BY <1>0, <2>1 DEF BookmarksOf, ParentsPresent
  <2>3. e.col[c] = d.col[c]
    BY <1>1b, <2>2
  <2> QED BY <2>2, <2>3
<1>6. ParentsPresent(e)
  BY <1>4, <1>5 DEF ParentsPresent
<1>7. SeqBounded(e) /\ Sequenced(e)
  BY <1>0, <1>1, <1>2, SeqStep
<1> QED BY <1>3, <1>6, <1>7 DEF Consistent

(* A collection route that writes one row keeps the tables consistent.        *)
LEMMA CollectionWriteIsConsistent ==
    ASSUME NEW d \in Database, NEW e \in Database, Consistent(d), e.seq = NextSeq(d),
           NEW c \in Collections, NEW row \in CollectionRow, CollectionWrite(d, e, c, row, e.seq)
    PROVE  Consistent(e)
<1>0. d.col \in [Collections -> CollectionRow]
  BY DEF Database
<1>1. /\ e.col[c] = row /\ row.is_deleted # Absent /\ row.seq = e.seq
      /\ row.workspace_id \in ActiveWorkspaces(d)
      /\ \A k \in Collections : k # c => e.col[k] = d.col[k]
      /\ e.ws = d.ws /\ e.bm = d.bm /\ e.grp = d.grp
  BY <1>0 DEF CollectionWrite, CollectionListed, Absent, Active, Retained
<1>2. AbsentRows(e)
  BY <1>1 DEF Consistent, AbsentRows
<1>3. ASSUME NEW v \in Workspaces, e.ws[v].is_deleted = Absent
      PROVE  CollectionsOf(e, v) = {} /\ GroupsOf(e, v) = {}
  <2>1. CollectionsOf(d, v) = {} /\ GroupsOf(d, v) = {}
    BY <1>1, <1>3 DEF Consistent, ParentsPresent
  <2>2. row.workspace_id # v
    BY <1>1, <1>3 DEF ActiveWorkspaces, Active, Absent
  <2> QED BY <1>1, <2>1, <2>2 DEF CollectionsOf, GroupsOf
<1>4. ParentsPresent(e)
  BY <1>1, <1>3 DEF Consistent, ParentsPresent
<1>5. SeqBounded(e) /\ Sequenced(e)
  BY <1>1, SeqStep DEF Consistent
<1> QED BY <1>2, <1>4, <1>5 DEF Consistent

(* So does a bookmark route.                                                  *)
LEMMA BookmarkWriteIsConsistent ==
    ASSUME NEW d \in Database, NEW e \in Database, Consistent(d), e.seq = NextSeq(d),
           NEW b \in Bookmarks, NEW row \in BookmarkRow, BookmarkWrite(d, e, b, row, e.seq)
    PROVE  Consistent(e)
<1>0. d.bm \in [Bookmarks -> BookmarkRow]
  BY DEF Database
<1>1. /\ e.bm[b] = row /\ row.is_trashed # Absent /\ row.seq = e.seq
      /\ row.collection_id = NoId \/ CollectionUsable(d, row.collection_id)
      /\ \A k \in Bookmarks : k # b => e.bm[k] = d.bm[k]
      /\ e.ws = d.ws /\ e.col = d.col /\ e.grp = d.grp
  BY <1>0 DEF BookmarkWrite
<1>2. AbsentRows(e)
  BY <1>1 DEF Consistent, AbsentRows
<1>3. ASSUME NEW c \in Collections, NEW k \in Bookmarks, e.bm[k].collection_id = c
      PROVE  e.col[c].is_deleted # Absent
  <2>1. CASE k # b
    BY <1>1, <1>3, <2>1 DEF Consistent, ParentsPresent
  <2>2. CASE k = b
    BY <1>1, <1>3, <2>2, IdAssumption DEF CollectionUsable, Active, Absent
  <2> QED BY <2>1, <2>2
<1>4. ParentsPresent(e)
  BY <1>1, <1>3 DEF Consistent, ParentsPresent, CollectionsOf, GroupsOf
<1>5. SeqBounded(e) /\ Sequenced(e)
  BY <1>1, SeqStep DEF Consistent
<1> QED BY <1>2, <1>4, <1>5 DEF Consistent

(* So does a workspace route.                                                 *)
LEMMA WorkspaceWriteIsConsistent ==
    ASSUME NEW d \in Database, NEW e \in Database, Consistent(d), e.seq = NextSeq(d),
           NEW w \in Workspaces, NEW row, OneRow(d, w, row, e), row.seq = e.seq,
           row.is_deleted # Absent, SameChildren(d, e)
    PROVE  Consistent(e)
<1>0. /\ AbsentRows(d) /\ ParentsPresent(d) /\ SeqBounded(d) /\ Sequenced(d)
      /\ e.col = d.col /\ e.bm = d.bm /\ e.grp = d.grp
  BY DEF Consistent, SameChildren
<1>1. \A v \in Workspaces : e.ws[v] = d.ws[v] \/ e.ws[v].seq = e.seq
  BY DEF OneRow, Database
<1>1a. \A v \in Workspaces : e.ws[v].is_deleted = Absent => d.ws[v].is_deleted = Absent
  BY DEF OneRow, Database
<1>2. AbsentRows(e)
  BY <1>0 DEF AbsentRows
<1>3. ParentsPresent(e)
  BY <1>0, <1>1a DEF ParentsPresent, CollectionsOf, GroupsOf
<1>4. SeqBounded(e) /\ Sequenced(e)
  BY <1>0, <1>1, SeqStep
<1> QED BY <1>2, <1>3, <1>4 DEF Consistent

(* Every step keeps the tables consistent.                                    *)
LEMMA ConsistentStep == TypeOK /\ Consistent(db) /\ [Next]_vars => Consistent(db')
<1> SUFFICES ASSUME TypeOK, Consistent(db), [Next]_vars PROVE Consistent(db')
  OBVIOUS
<1> DEFINE seq == NextSeq(db)
<1>0. /\ db \in Database /\ db' \in Database /\ clock \in Nat /\ seq \in Nat
      /\ db.ws \in [Workspaces -> WorkspaceRow]
  BY NextType DEF TypeOK, NextSeq, Database
<1>1. CASE db' = db
  BY <1>1
<1>2. CASE Numbered /\ Transaction
  <2>0. db'.seq = seq
    BY <1>2 DEF Numbered
  <2> HIDE DEF seq
  <2>1. CASE db'.ws = db.ws /\ SameChildren(db, db')
    <3>1. SeqBounded(db') /\ Sequenced(db')
      BY <1>0, <2>0, <2>1, SeqStep DEF Consistent, SameChildren, seq
    <3> QED BY <2>1, <3>1 DEF Consistent, AbsentRows, ParentsPresent, SameChildren,
                              CollectionsOf, GroupsOf
  <2>2. ASSUME NEW w \in Workspaces, WorkspaceWrite(db, db', w, seq) PROVE Consistent(db')
    <3> DEFINE row == IF db.ws[w].is_deleted = Absent THEN RestoredRow(seq)
                                                      ELSE [db.ws[w] EXCEPT !.seq = seq]
    <3>1. OneRow(db, w, row, db') /\ SameChildren(db, db')
      BY <2>2 DEF WorkspaceWrite, Active, Absent
    <3>2. row.seq = seq /\ row.is_deleted # Absent
      BY <1>0 DEF RestoredRow, WorkspaceRow, Active, Absent
    <3> HIDE DEF row
    <3> QED BY <1>0, <2>0, <3>1, <3>2, WorkspaceWriteIsConsistent DEF seq
  <2>3. ASSUME NEW c \in Collections, NEW row \in CollectionRow,
               CollectionWrite(db, db', c, row, seq)
        PROVE  Consistent(db')
    BY <1>0, <2>0, <2>3, CollectionWriteIsConsistent DEF seq
  <2>4. ASSUME NEW b \in Bookmarks, NEW row \in BookmarkRow, BookmarkWrite(db, db', b, row, seq)
        PROVE  Consistent(db')
    BY <1>0, <2>0, <2>4, BookmarkWriteIsConsistent DEF seq
  <2>5. ASSUME NEW w \in Workspaces, NEW model \in {0, 1}, DeleteStep(db, db', w, model, seq, clock)
        PROVE  Consistent(db')
    <3>1. /\ OneRow(db, w, RetainedRow(model, seq, clock), db')
          /\ db.ws[w].is_deleted # Absent
          /\ RetainedRow(model, seq, clock).seq = seq
          /\ RetainedRow(model, seq, clock).is_deleted # Absent
      BY <2>5 DEF DeleteStep, RetainedRow, Active, Absent, Retained
    <3>2. CASE model = 0
      <4>1. /\ \A c \in LiveCollections(db, w) : db.col[c].is_deleted # Absent
            /\ \A b \in LiveBookmarks(db, w) : db.bm[b].is_trashed # Absent
            /\ \A g \in LiveGroups(db, w) : db.grp[g].is_deleted # Absent
        BY DEF LiveCollections, LiveBookmarks, LiveGroups, Active, Absent
      <4>2. MarkedChildren(db, db', LiveCollections(db, w), LiveBookmarks(db, w),
                           LiveGroups(db, w), Retained, clock, seq)
        BY <2>5, <3>2 DEF DeleteStep
      <4>3. Retained # Absent
        BY DEF Retained, Absent
      <4>4. db'.seq = NextSeq(db)
        BY <2>0 DEF seq
      <4> QED BY <1>0, <2>0, <3>1, <4>1, <4>2, <4>3, <4>4, MarkedIsConsistent
    <3>3. CASE model # 0
      <4>1. SameChildren(db, db')
        BY <2>5, <3>3 DEF DeleteStep
      <4> QED BY <1>0, <2>0, <3>1, <4>1, WorkspaceWriteIsConsistent DEF seq
    <3> QED BY <3>2, <3>3
  <2>6. ASSUME NEW w \in Workspaces, RestoreStep(db, db', w, seq) PROVE Consistent(db')
    <3>1. /\ OneRow(db, w, RestoredRow(seq), db')
          /\ db.ws[w].is_deleted # Absent
          /\ RestoredRow(seq).seq = seq
          /\ RestoredRow(seq).is_deleted # Absent
      BY <2>6 DEF RestoreStep, RestoredRow, Active, Absent, Retained
    <3>2. CASE db.ws[w].deletion_model = 0
      <4>1. /\ \A c \in EvidenceCollections(db, w) : db.col[c].is_deleted # Absent
            /\ \A b \in EvidenceBookmarks(db, w) : db.bm[b].is_trashed # Absent
            /\ \A g \in EvidenceGroups(db, w) : db.grp[g].is_deleted # Absent
        BY DEF EvidenceCollections, EvidenceBookmarks, EvidenceGroups, Retained, Absent
      <4>2. MarkedChildren(db, db', EvidenceCollections(db, w), EvidenceBookmarks(db, w),
                           EvidenceGroups(db, w), Active, Null, seq)
        BY <2>6, <3>2 DEF RestoreStep
      <4>3. Active # Absent
        BY DEF Active, Absent
      <4>4. db'.seq = NextSeq(db)
        BY <2>0 DEF seq
      <4> QED BY <1>0, <2>0, <3>1, <4>1, <4>2, <4>3, <4>4, MarkedIsConsistent
    <3>3. CASE db.ws[w].deletion_model # 0
      <4>1. SameChildren(db, db')
        BY <2>6, <3>3 DEF RestoreStep
      <4> QED BY <1>0, <2>0, <3>1, <4>1, WorkspaceWriteIsConsistent DEF seq
    <3> QED BY <3>2, <3>3
  <2>7. ASSUME NEW w \in Workspaces, PurgeStep(db, db', w, seq) PROVE Consistent(db')
    BY <1>0, <2>0, <2>7, DroppedIsConsistent DEF PurgeStep, seq
  <2> QED BY <1>2, <2>1, <2>2, <2>3, <2>4, <2>5, <2>6, <2>7 DEF Transaction, LifecycleStep, seq
<1> QED BY <1>1, <1>2, StepRows

(* The tables start consistent.                                               *)
LEMMA ConsistentInit == Init => Consistent(db)
<1> SUFFICES ASSUME Init PROVE Consistent(db)
  OBVIOUS
<1> USE DEF Consistent, AbsentRows, ParentsPresent, SeqBounded, Sequenced, CollectionsOf, GroupsOf,
            EmptyDatabase, NoWorkspace, NoCollection, NoBookmark, NoGroup
<1>1. CASE db = EmptyDatabase
  BY <1>1, IdAssumption
<1>2. ASSUME NEW w \in Workspaces, NEW G \in SUBSET Groups, db = FirstPush(w, G)
      PROVE  Consistent(db)
  <2>1. AbsentRows(db)
    BY <1>2 DEF FirstPush, Active, Absent
  <2>2. ParentsPresent(db)
    BY <1>2, IdAssumption DEF FirstPush, Active, Absent
  <2>3. SeqBounded(db) /\ Sequenced(db)
    BY <1>2 DEF FirstPush
  <2> QED BY <2>1, <2>2, <2>3
<1> QED BY <1>1, <1>2 DEF Init

(* For any history of routes and legacy pushes: nothing points to a row that  *)
(* is gone, every row carries a sequence number, and none is above the        *)
(* counter that the pulls compare with (schema.pg.sql, sync_seq.go).          *)
THEOREM TablesAreConsistent == Spec => []Consistent(db)
<1> DEFINE Inv == Consistent(db)
<1>1. Init => Inv
  BY ConsistentInit
<1>2. TypeOK /\ Inv /\ [Next]_vars => Inv'
  BY ConsistentStep
<1>3. Inv <=> Consistent(db)
  OBVIOUS
<1> HIDE DEF Inv
<1> QED BY <1>1, <1>2, <1>3, TypeCorrect, PTL DEF Spec

-------------------------------------------------------------------------------
(* What is under a workspace that is not active is out of reach.              *)

SameUnder(d, e, w) ==
    /\ CollectionsOf(e, w) = CollectionsOf(d, w)
    /\ BookmarksOf(e, w) = BookmarksOf(d, w)
    /\ GroupsOf(e, w) = GroupsOf(d, w)
    /\ \A c \in CollectionsOf(d, w) : e.col[c] = d.col[c]
    /\ \A b \in BookmarksOf(d, w) : e.bm[b] = d.bm[b]
    /\ \A g \in GroupsOf(d, w) : e.grp[g] = d.grp[g]

(* Where no child changes, nothing changes under any workspace.               *)
LEMMA SameChildrenUnder ==
    ASSUME NEW d, NEW e, NEW w, SameChildren(d, e)
    PROVE  SameUnder(d, e, w)
BY DEF SameChildren, SameUnder, CollectionsOf, BookmarksOf, GroupsOf

(* The fields of the rows after a cascade.                                    *)
LEMMA MarkedFields ==
    ASSUME NEW d \in Database, NEW e, NEW C, NEW B, NEW G, NEW state, NEW at, NEW seq,
           MarkedChildren(d, e, C, B, G, state, at, seq)
    PROVE  /\ \A c \in Collections : e.col[c].workspace_id = d.col[c].workspace_id
           /\ \A c \in Collections :
                 e.col[c].is_deleted = IF c \in C THEN state ELSE d.col[c].is_deleted
           /\ \A c \in Collections : e.col[c].seq = IF c \in C THEN seq ELSE d.col[c].seq
           /\ \A b \in Bookmarks : e.bm[b].collection_id = d.bm[b].collection_id
           /\ \A b \in Bookmarks :
                 e.bm[b].is_trashed = IF b \in B THEN state ELSE d.bm[b].is_trashed
           /\ \A b \in Bookmarks : e.bm[b].seq = IF b \in B THEN seq ELSE d.bm[b].seq
           /\ \A g \in Groups : e.grp[g].workspace_id = d.grp[g].workspace_id
           /\ \A g \in Groups :
                 e.grp[g].is_deleted = IF g \in G THEN state ELSE d.grp[g].is_deleted
           /\ \A g \in Groups : e.grp[g].seq = IF g \in G THEN seq ELSE d.grp[g].seq
<1>1. \A c \in Collections : e.col[c].workspace_id = d.col[c].workspace_id
  BY DEF MarkedChildren, MarkedRow, Database, CollectionRow
<1>2. \A c \in Collections :
         e.col[c].is_deleted = IF c \in C THEN state ELSE d.col[c].is_deleted
  BY DEF MarkedChildren, MarkedRow, Database, CollectionRow
<1>3. \A c \in Collections : e.col[c].seq = IF c \in C THEN seq ELSE d.col[c].seq
  BY DEF MarkedChildren, MarkedRow, Database, CollectionRow
<1>4. \A b \in Bookmarks : e.bm[b].collection_id = d.bm[b].collection_id
  BY DEF MarkedChildren, MarkedBookmark, Database, BookmarkRow
<1>5. \A b \in Bookmarks :
         e.bm[b].is_trashed = IF b \in B THEN state ELSE d.bm[b].is_trashed
  BY DEF MarkedChildren, MarkedBookmark, Database, BookmarkRow
<1>6. \A b \in Bookmarks : e.bm[b].seq = IF b \in B THEN seq ELSE d.bm[b].seq
  BY DEF MarkedChildren, MarkedBookmark, Database, BookmarkRow
<1>7. \A g \in Groups : e.grp[g].workspace_id = d.grp[g].workspace_id
  BY DEF MarkedChildren, MarkedRow, Database, GroupRow
<1>8. \A g \in Groups :
         e.grp[g].is_deleted = IF g \in G THEN state ELSE d.grp[g].is_deleted
  BY DEF MarkedChildren, MarkedRow, Database, GroupRow
<1>9. \A g \in Groups : e.grp[g].seq = IF g \in G THEN seq ELSE d.grp[g].seq
  BY DEF MarkedChildren, MarkedRow, Database, GroupRow
<1> QED BY <1>1, <1>2, <1>3, <1>4, <1>5, <1>6, <1>7, <1>8, <1>9

(* Marking keeps the parents.                                                 *)
LEMMA MarkedUnder ==
    ASSUME NEW d \in Database, NEW e, NEW w,
           NEW C, NEW B, NEW G, NEW state, NEW at, NEW seq,
           MarkedChildren(d, e, C, B, G, state, at, seq)
    PROVE  /\ CollectionsOf(e, w) = CollectionsOf(d, w)
           /\ BookmarksOf(e, w) = BookmarksOf(d, w)
           /\ GroupsOf(e, w) = GroupsOf(d, w)
<1>1. \A c \in Collections : e.col[c].workspace_id = d.col[c].workspace_id
  BY MarkedFields
<1>2. \A b \in Bookmarks : e.bm[b].collection_id = d.bm[b].collection_id
  BY MarkedFields
<1>3. \A g \in Groups : e.grp[g].workspace_id = d.grp[g].workspace_id
  BY MarkedFields
<1>4. CollectionsOf(e, w) = CollectionsOf(d, w)
  BY <1>1 DEF CollectionsOf
<1>5. BookmarksOf(e, w) = BookmarksOf(d, w)
  BY <1>2, <1>4 DEF BookmarksOf
<1>6. GroupsOf(e, w) = GroupsOf(d, w)
  BY <1>3 DEF GroupsOf
<1> QED BY <1>4, <1>5, <1>6

(* Marking rows of one workspace leaves those of another alone.               *)
LEMMA MarkedElsewhere ==
    ASSUME NEW d \in Database, NEW e, NEW v, NEW w, v # w,
           NEW C \in SUBSET CollectionsOf(d, v), NEW B \in SUBSET BookmarksOf(d, v),
           NEW G \in SUBSET GroupsOf(d, v), NEW state, NEW at, NEW seq,
           MarkedChildren(d, e, C, B, G, state, at, seq)
    PROVE  SameUnder(d, e, w)
<1>1. /\ CollectionsOf(e, w) = CollectionsOf(d, w)
      /\ BookmarksOf(e, w) = BookmarksOf(d, w)
      /\ GroupsOf(e, w) = GroupsOf(d, w)
  BY MarkedUnder
<1>2. \A c \in CollectionsOf(d, w) : e.col[c] = d.col[c]
  BY DEF MarkedChildren, CollectionsOf
<1>3. \A b \in BookmarksOf(d, w) : e.bm[b] = d.bm[b]
  BY DEF MarkedChildren, BookmarksOf, CollectionsOf
<1>4. \A g \in GroupsOf(d, w) : e.grp[g] = d.grp[g]
  BY DEF MarkedChildren, GroupsOf
<1> QED BY <1>1, <1>2, <1>3, <1>4 DEF SameUnder

(* A purge changes nothing under another workspace.                           *)
LEMMA DroppedElsewhere ==
    ASSUME NEW d \in Database, NEW e, NEW v \in Workspaces, NEW w \in Workspaces, v # w,
           DroppedChildren(d, e, v)
    PROVE  SameUnder(d, e, w)
<1>0. NoCollection.workspace_id # w /\ NoGroup.workspace_id # w /\ NoBookmark.collection_id \notin Collections
  BY IdAssumption DEF NoCollection, NoGroup, NoBookmark
<1> HIDE DEF NoCollection, NoGroup, NoBookmark
<1>1. CollectionsOf(e, w) = CollectionsOf(d, w)
  BY <1>0 DEF DroppedChildren, CollectionsOf
<1>2. GroupsOf(e, w) = GroupsOf(d, w)
  BY <1>0 DEF DroppedChildren, GroupsOf
<1>3. \A c \in CollectionsOf(d, w) : e.col[c] = d.col[c]
  BY DEF DroppedChildren, CollectionsOf
<1>4. \A b \in BookmarksOf(d, w) : e.bm[b] = d.bm[b]
  BY DEF DroppedChildren, BookmarksOf, CollectionsOf
<1>5. \A g \in GroupsOf(d, w) : e.grp[g] = d.grp[g]
  BY DEF DroppedChildren, GroupsOf
<1>6. \A b \in Bookmarks : b \in BookmarksOf(d, v) => e.bm[b].collection_id \notin Collections
  BY <1>0 DEF DroppedChildren
<1>7. \A b \in Bookmarks : b \notin BookmarksOf(d, v) => e.bm[b] = d.bm[b]
  BY DEF DroppedChildren
<1>8. \A b \in Bookmarks : b \in BookmarksOf(d, v) => b \notin BookmarksOf(d, w)
  BY DEF BookmarksOf, CollectionsOf
<1>9. BookmarksOf(e, w) = BookmarksOf(d, w)
  BY <1>1, <1>6, <1>7, <1>8 DEF BookmarksOf, CollectionsOf
<1> QED BY <1>1, <1>2, <1>3, <1>4, <1>5, <1>9 DEF SameUnder

(* A single row written by a route of collections or bookmarks.               *)
LEMMA CollectionWriteElsewhere ==
    ASSUME NEW d \in Database, NEW e, AbsentRows(d), NEW w \in Workspaces,
           d.ws[w].is_deleted # Active,
           NEW c \in Collections, NEW row \in CollectionRow, NEW seq,
           CollectionWrite(d, e, c, row, seq)
    PROVE  SameUnder(d, e, w)
<1>1. row.workspace_id # w
  BY DEF CollectionWrite, ActiveWorkspaces
<1>2. d.col[c].workspace_id # w
  <2>1. CASE d.col[c].is_deleted = Absent
    BY <2>1, IdAssumption DEF AbsentRows, NoCollection
  <2>2. CASE CollectionListed(d, c)
    BY <2>2 DEF CollectionListed, WorkspaceActive, ActiveWorkspaces
  <2> QED BY <2>1, <2>2 DEF CollectionWrite
<1>3. /\ e.col[c] = row
      /\ \A k \in Collections : k # c => e.col[k] = d.col[k]
      /\ e.bm = d.bm /\ e.grp = d.grp
  BY DEF CollectionWrite, Database
<1>4. CollectionsOf(e, w) = CollectionsOf(d, w)
  BY <1>1, <1>2, <1>3 DEF CollectionsOf
<1>5. BookmarksOf(e, w) = BookmarksOf(d, w) /\ GroupsOf(e, w) = GroupsOf(d, w)
  BY <1>3, <1>4 DEF BookmarksOf, GroupsOf
<1>6. \A k \in CollectionsOf(d, w) : e.col[k] = d.col[k]
  BY <1>2, <1>3 DEF CollectionsOf
<1> QED BY <1>3, <1>4, <1>5, <1>6 DEF SameUnder

(* A bookmark route changes nothing under a workspace that is not active.     *)
LEMMA BookmarkWriteElsewhere ==
    ASSUME NEW d \in Database, NEW e, AbsentRows(d), NEW w \in Workspaces,
           d.ws[w].is_deleted # Active,
           NEW b \in Bookmarks, NEW row \in BookmarkRow, NEW seq,
           BookmarkWrite(d, e, b, row, seq)
    PROVE  SameUnder(d, e, w)
<1>1. row.collection_id \notin CollectionsOf(d, w)
  <2>1. CASE row.collection_id = NoId
    BY <2>1, IdAssumption DEF CollectionsOf
  <2>2. CASE CollectionUsable(d, row.collection_id)
    BY <2>2 DEF CollectionUsable, CollectionListed, WorkspaceActive, ActiveWorkspaces, CollectionsOf
  <2> QED BY <2>1, <2>2 DEF BookmarkWrite
<1>2. d.bm[b].collection_id \notin CollectionsOf(d, w)
  <2>1. CASE d.bm[b].is_trashed = Absent
    BY <2>1, IdAssumption DEF AbsentRows, NoBookmark, CollectionsOf
  <2>2. CASE BookmarkReachable(d, b)
    BY <2>2 DEF BookmarkReachable, CollectionUsable, CollectionListed, WorkspaceActive,
                ActiveWorkspaces, CollectionsOf
  <2> QED BY <2>1, <2>2 DEF BookmarkWrite
<1>3. /\ e.bm[b] = row
      /\ \A k \in Bookmarks : k # b => e.bm[k] = d.bm[k]
      /\ e.col = d.col /\ e.grp = d.grp
  BY DEF BookmarkWrite, Database
<1>4. CollectionsOf(e, w) = CollectionsOf(d, w) /\ GroupsOf(e, w) = GroupsOf(d, w)
  BY <1>3 DEF CollectionsOf, GroupsOf
<1>5. BookmarksOf(e, w) = BookmarksOf(d, w)
  BY <1>1, <1>2, <1>3, <1>4 DEF BookmarksOf
<1>6. \A k \in BookmarksOf(d, w) : e.bm[k] = d.bm[k]
  BY <1>2, <1>3 DEF BookmarksOf
<1> QED BY <1>3, <1>4, <1>5, <1>6 DEF SameUnder

(* The sets the lifecycle marks are under their workspace.                    *)
LEMMA MarkedSetsUnder ==
    ASSUME NEW d, NEW w
    PROVE  /\ LiveCollections(d, w) \in SUBSET CollectionsOf(d, w)
           /\ LiveBookmarks(d, w) \in SUBSET BookmarksOf(d, w)
           /\ LiveGroups(d, w) \in SUBSET GroupsOf(d, w)
           /\ EvidenceCollections(d, w) \in SUBSET CollectionsOf(d, w)
           /\ EvidenceBookmarks(d, w) \in SUBSET BookmarksOf(d, w)
           /\ EvidenceGroups(d, w) \in SUBSET GroupsOf(d, w)
BY DEF LiveCollections, LiveBookmarks, LiveGroups, EvidenceCollections, EvidenceBookmarks,
       EvidenceGroups, BookmarksOf

(* No step touches what is under a workspace that is not active and stays as  *)
(* it is, or is only just created; nor what the history says it showed.       *)
LEMMA FrozenStep ==
    ASSUME TypeOK, AbsentRows(db), [Next]_vars, NEW w \in Workspaces,
           db.ws[w].is_deleted # Active,
           db'.ws[w] = db.ws[w] \/ db.ws[w].is_deleted = Absent
    PROVE  SameUnder(db, db', w) /\ shown'[w] = shown[w]
<1> DEFINE seq == NextSeq(db)
<1>0. db \in Database /\ seq \in Nat /\ db.ws \in [Workspaces -> WorkspaceRow]
  BY DEF TypeOK, NextSeq, Database
<1>1. CASE db' = db /\ shown' = shown
  BY <1>1 DEF SameUnder
<1>2. CASE Numbered /\ Transaction
  <2>1. shown'[w] = shown[w]
    BY <1>2 DEF Numbered, Deleted
  <2>2. SameChildren(db, db') => SameUnder(db, db', w)
    BY SameChildrenUnder
  <2>3. ASSUME NEW v \in Workspaces, WorkspaceWrite(db, db', v, seq)
        PROVE  SameUnder(db, db', w)
    BY <2>3, SameChildrenUnder DEF WorkspaceWrite
  <2>4. ASSUME NEW c \in Collections, NEW row \in CollectionRow,
               CollectionWrite(db, db', c, row, seq)
        PROVE  SameUnder(db, db', w)
    BY <1>0, <2>4, CollectionWriteElsewhere
  <2>5. ASSUME NEW b \in Bookmarks, NEW row \in BookmarkRow, BookmarkWrite(db, db', b, row, seq)
        PROVE  SameUnder(db, db', w)
    BY <1>0, <2>5, BookmarkWriteElsewhere
  <2>6. ASSUME NEW v \in Workspaces, NEW model \in {0, 1}, DeleteStep(db, db', v, model, seq, clock)
        PROVE  SameUnder(db, db', w)
    <3>1. v # w
      BY <2>6 DEF DeleteStep
    <3>2. CASE model = 0
      BY <1>0, <2>6, <3>1, <3>2, MarkedSetsUnder, MarkedElsewhere DEF DeleteStep
    <3>3. CASE model # 0
      BY <2>6, <3>3, SameChildrenUnder DEF DeleteStep
    <3> QED BY <3>2, <3>3
  <2>7. ASSUME NEW v \in Workspaces, RestoreStep(db, db', v, seq)
        PROVE  SameUnder(db, db', w)
    <3>1. v # w
      <4>1. db.ws[v].is_deleted = Retained /\ db'.ws[v] = RestoredRow(seq)
        BY <1>0, <2>7 DEF RestoreStep, OneRow
      <4> QED BY <4>1 DEF RestoredRow, Active, Retained, Absent
    <3>2. CASE db.ws[v].deletion_model = 0
      BY <1>0, <2>7, <3>1, <3>2, MarkedSetsUnder, MarkedElsewhere DEF RestoreStep
    <3>3. CASE db.ws[v].deletion_model # 0
      BY <2>7, <3>3, SameChildrenUnder DEF RestoreStep
    <3> QED BY <3>2, <3>3
  <2>8. ASSUME NEW v \in Workspaces, PurgeStep(db, db', v, seq)
        PROVE  SameUnder(db, db', w)
    <3>1. v # w
      <4>1. db.ws[v].is_deleted = Retained /\ db'.ws[v] = PurgedRow(db.ws[v], seq)
        BY <1>0, <2>8 DEF PurgeStep, OneRow
      <4>2. db'.ws[v].is_deleted = Terminal
        BY <1>0, <4>1 DEF PurgedRow, WorkspaceRow
      <4> QED BY <4>1, <4>2 DEF Terminal, Retained, Absent
    <3> QED BY <1>0, <2>8, <3>1, DroppedElsewhere DEF PurgeStep
  <2> QED BY <1>2, <2>1, <2>2, <2>3, <2>4, <2>5, <2>6, <2>7, <2>8 DEF Transaction, LifecycleStep
<1> QED BY <1>1, <1>2, StepRows

-------------------------------------------------------------------------------
(* The step is known by the move it makes with one workspace.                 *)

(* A workspace's states before and after a lifecycle step say which it was.   *)
LEMMA LifecycleOf ==
    ASSUME NEW d \in Database, NEW e, NEW v \in Workspaces, NEW w \in Workspaces,
           NEW model \in {0, 1}, NEW seq \in Nat, NEW now \in Nat,
           LifecycleStep(d, e, v, model, seq, now), e.ws[w].is_deleted # d.ws[w].is_deleted
    PROVE  /\ v = w
           /\ d.ws[w].is_deleted = Active => DeleteStep(d, e, w, model, seq, now)
           /\ e.ws[w].is_deleted = Active => RestoreStep(d, e, w, seq)
           /\ e.ws[w].is_deleted = Terminal => PurgeStep(d, e, w, seq)
<1>0. d.ws \in [Workspaces -> WorkspaceRow]
  BY DEF Database
<1>1. CASE DeleteStep(d, e, v, model, seq, now)
  <2>1. OneRow(d, v, RetainedRow(model, seq, now), e)
    BY <1>1 DEF DeleteStep
  <2>2. v = w /\ e.ws[w].is_deleted = Retained
    BY <1>0, <2>1 DEF OneRow, RetainedRow
  <2> QED BY <1>1, <2>2 DEF Retained, Active, Terminal
<1>2. CASE RestoreStep(d, e, v, seq)
  <2>1. OneRow(d, v, RestoredRow(seq), e) /\ d.ws[v].is_deleted = Retained
    BY <1>2 DEF RestoreStep
  <2>2. v = w /\ e.ws[w].is_deleted = Active
    BY <1>0, <2>1 DEF OneRow, RestoredRow
  <2> QED BY <1>2, <2>1, <2>2 DEF Retained, Active, Terminal
<1>3. CASE PurgeStep(d, e, v, seq)
  <2>1. OneRow(d, v, PurgedRow(d.ws[v], seq), e) /\ d.ws[v].is_deleted = Retained
    BY <1>3 DEF PurgeStep
  <2>2. v = w /\ e.ws[w].is_deleted = Terminal
    BY <1>0, <2>1 DEF OneRow, PurgedRow, WorkspaceRow
  <2> QED BY <1>3, <2>1, <2>2 DEF Retained, Active, Terminal
<1> QED BY <1>1, <1>2, <1>3 DEF LifecycleStep

(* So they do for every step of the routes.                                   *)
LEMMA WhichStep ==
    ASSUME TypeOK, [Next]_vars, NEW w \in Workspaces,
           db.ws[w].is_deleted # Absent, db'.ws[w].is_deleted # db.ws[w].is_deleted
    PROVE  /\ Numbered
           /\ db.ws[w].is_deleted = Active =>
                 \E model \in {0, 1} : DeleteStep(db, db', w, model, NextSeq(db), clock)
           /\ db'.ws[w].is_deleted = Active => RestoreStep(db, db', w, NextSeq(db))
           /\ db'.ws[w].is_deleted = Terminal => PurgeStep(db, db', w, NextSeq(db))
<1>0. /\ db \in Database /\ clock \in Nat /\ NextSeq(db) \in Nat
      /\ db.ws \in [Workspaces -> WorkspaceRow]
  BY DEF TypeOK, NextSeq, Database
<1>1. Numbered /\ Transaction
  BY StepRows
<1>2. ASSUME NEW v \in Workspaces, WorkspaceWrite(db, db', v, NextSeq(db))
      PROVE  FALSE
  <2>1. CASE db.ws[v].is_deleted = Absent /\ OneRow(db, v, RestoredRow(NextSeq(db)), db')
    BY <1>0, <2>1 DEF OneRow
  <2>2. CASE db.ws[v].is_deleted = Active
             /\ OneRow(db, v, [db.ws[v] EXCEPT !.seq = NextSeq(db)], db')
    <3>1. [db.ws[v] EXCEPT !.seq = NextSeq(db)].is_deleted = db.ws[v].is_deleted
      BY <1>0 DEF WorkspaceRow
    <3> QED BY <1>0, <2>2, <3>1 DEF OneRow
  <2> QED BY <1>2, <2>1, <2>2 DEF WorkspaceWrite
<1>3. PICK v \in Workspaces, model \in {0, 1} :
         LifecycleStep(db, db', v, model, NextSeq(db), clock)
  BY <1>1, <1>2 DEF Transaction, CollectionWrite, BookmarkWrite
<1>4. /\ db.ws[w].is_deleted = Active => DeleteStep(db, db', w, model, NextSeq(db), clock)
      /\ db'.ws[w].is_deleted = Active => RestoreStep(db, db', w, NextSeq(db))
      /\ db'.ws[w].is_deleted = Terminal => PurgeStep(db, db', w, NextSeq(db))
  BY <1>0, <1>3, LifecycleOf
<1> QED BY <1>1, <1>4

-------------------------------------------------------------------------------
(* Publication.                                                               *)

(* The rows of children, marked or dropped, are published.                    *)
ChildrenPublished(d, e) ==
    /\ \A c \in Collections : e.col[c] # d.col[c] =>
          IF e.col[c].is_deleted = Absent THEN PurgedNow(d, e, d.col[c].workspace_id)
                                          ELSE e.col[c].seq = e.seq
    /\ \A b \in Bookmarks : e.bm[b] # d.bm[b] =>
          IF e.bm[b].is_trashed = Absent
          THEN \E c \in Collections : /\ c = d.bm[b].collection_id
                                      /\ PurgedNow(d, e, d.col[c].workspace_id)
          ELSE e.bm[b].seq = e.seq
    /\ \A g \in Groups : e.grp[g] # d.grp[g] =>
          IF e.grp[g].is_deleted = Absent THEN PurgedNow(d, e, d.grp[g].workspace_id)
                                          ELSE e.grp[g].seq = e.seq

(* A cascade publishes every row it marks.                                    *)
LEMMA MarkedIsPublished ==
    ASSUME NEW d \in Database, NEW e, NEW C, NEW B, NEW G, NEW state, state # Absent, NEW at,
           MarkedChildren(d, e, C, B, G, state, at, e.seq)
    PROVE  ChildrenPublished(d, e)
<1>1. \A c \in Collections :
         e.col[c] # d.col[c] => e.col[c].is_deleted # Absent /\ e.col[c].seq = e.seq
  BY DEF MarkedChildren, MarkedRow, Database, CollectionRow
<1>2. \A b \in Bookmarks :
         e.bm[b] # d.bm[b] => e.bm[b].is_trashed # Absent /\ e.bm[b].seq = e.seq
  BY DEF MarkedChildren, MarkedBookmark, Database, BookmarkRow
<1>3. \A g \in Groups :
         e.grp[g] # d.grp[g] => e.grp[g].is_deleted # Absent /\ e.grp[g].seq = e.seq
  BY DEF MarkedChildren, MarkedRow, Database, GroupRow
<1> QED BY <1>1, <1>2, <1>3 DEF ChildrenPublished

(* A purge publishes the rows it drops by the tombstone of their workspace.   *)
LEMMA DroppedIsPublished ==
    ASSUME NEW d \in Database, NEW e, NEW w \in Workspaces, PurgeStep(d, e, w, e.seq)
    PROVE  ChildrenPublished(d, e)
<1>1. PurgedNow(d, e, w)
  <2>1. d.ws[w].is_deleted = Retained /\ e.ws[w] = PurgedRow(d.ws[w], e.seq)
    BY DEF PurgeStep, OneRow, Database
  <2>2. PurgedRow(d.ws[w], e.seq).is_deleted = Terminal /\ PurgedRow(d.ws[w], e.seq).seq = e.seq
    BY DEF PurgedRow, Database, WorkspaceRow
  <2> QED BY <2>1, <2>2 DEF PurgedNow, Retained, Terminal
<1>2. DroppedChildren(d, e, w)
  BY DEF PurgeStep
<1>3. ASSUME NEW c \in Collections, e.col[c] # d.col[c]
      PROVE  e.col[c].is_deleted = Absent /\ d.col[c].workspace_id = w
  BY <1>2, <1>3 DEF DroppedChildren, CollectionsOf, NoCollection
<1>4. ASSUME NEW b \in Bookmarks, e.bm[b] # d.bm[b]
      PROVE  /\ e.bm[b].is_trashed = Absent
             /\ \E c \in Collections : c = d.bm[b].collection_id /\ d.col[c].workspace_id = w
  BY <1>2, <1>4 DEF DroppedChildren, BookmarksOf, CollectionsOf, NoBookmark
<1>5. ASSUME NEW g \in Groups, e.grp[g] # d.grp[g]
      PROVE  e.grp[g].is_deleted = Absent /\ d.grp[g].workspace_id = w
  BY <1>2, <1>5 DEF DroppedChildren, GroupsOf, NoGroup, NoCollection
<1>6. \A c \in Collections : e.col[c] # d.col[c] =>
          e.col[c].is_deleted = Absent /\ PurgedNow(d, e, d.col[c].workspace_id)
  BY <1>1, <1>3
<1>7. \A b \in Bookmarks : e.bm[b] # d.bm[b] =>
          /\ e.bm[b].is_trashed = Absent
          /\ \E c \in Collections : c = d.bm[b].collection_id /\ PurgedNow(d, e, d.col[c].workspace_id)
  BY <1>1, <1>4
<1>8. \A g \in Groups : e.grp[g] # d.grp[g] =>
          e.grp[g].is_deleted = Absent /\ PurgedNow(d, e, d.grp[g].workspace_id)
  BY <1>1, <1>5
<1> HIDE DEF PurgedNow
<1> QED BY <1>6, <1>7, <1>8 DEF ChildrenPublished

(* A route that writes one row publishes it.                                  *)
LEMMA SingleRowIsPublished ==
    ASSUME NEW d \in Database, NEW e
    PROVE  /\ SameChildren(d, e) => ChildrenPublished(d, e)
           /\ \A c \in Collections, row \in CollectionRow :
                 CollectionWrite(d, e, c, row, e.seq) => ChildrenPublished(d, e)
           /\ \A b \in Bookmarks, row \in BookmarkRow :
                 BookmarkWrite(d, e, b, row, e.seq) => ChildrenPublished(d, e)
<1>1. SameChildren(d, e) => ChildrenPublished(d, e)
  BY DEF SameChildren, ChildrenPublished
<1>2. ASSUME NEW c \in Collections, NEW row \in CollectionRow, CollectionWrite(d, e, c, row, e.seq)
      PROVE  ChildrenPublished(d, e)
  <2>1. row.is_deleted # Absent /\ row.seq = e.seq
    BY <1>2 DEF CollectionWrite, CollectionListed, Absent, Active, Retained
  <2>2. /\ \A k \in Collections : e.col[k] = d.col[k] \/ e.col[k] = row
        /\ e.bm = d.bm /\ e.grp = d.grp
    BY <1>2 DEF CollectionWrite, Database
  <2> QED BY <2>1, <2>2 DEF ChildrenPublished
<1>3. ASSUME NEW b \in Bookmarks, NEW row \in BookmarkRow, BookmarkWrite(d, e, b, row, e.seq)
      PROVE  ChildrenPublished(d, e)
  <2>1. row.is_trashed # Absent /\ row.seq = e.seq
    BY <1>3 DEF BookmarkWrite
  <2>2. /\ \A k \in Bookmarks : e.bm[k] = d.bm[k] \/ e.bm[k] = row
        /\ e.col = d.col /\ e.grp = d.grp
    BY <1>3 DEF BookmarkWrite, Database
  <2> QED BY <2>1, <2>2 DEF ChildrenPublished
<1> QED BY <1>1, <1>2, <1>3

(* One row of the workspaces at most changes, and takes the number.           *)
LEMMA WorkspaceRowsArePublished ==
    ASSUME TypeOK, [Next]_vars, Numbered
    PROVE  \A w \in Workspaces : db'.ws[w] # db.ws[w] => db'.ws[w].seq = db'.seq
<1> SUFFICES ASSUME NEW w \in Workspaces, db'.ws[w] # db.ws[w] PROVE db'.ws[w].seq = NextSeq(db)
  BY DEF Numbered
<1>1. RowStep(db.ws[w], db'.ws[w]) /\ db.ws[w] \in WorkspaceRow
  BY WorkspaceStep DEF TypeOK, Database
<1>2. [db.ws[w] EXCEPT !.seq = NextSeq(db)].seq = NextSeq(db)
  BY <1>1 DEF WorkspaceRow
<1>3. PurgedRow(db.ws[w], NextSeq(db)).seq = NextSeq(db)
  BY <1>1 DEF PurgedRow, WorkspaceRow
<1>4. /\ RestoredRow(NextSeq(db)).seq = NextSeq(db)
      /\ \A model \in {0, 1} : RetainedRow(model, NextSeq(db), clock).seq = NextSeq(db)
  BY DEF RestoredRow, RetainedRow
<1> QED BY <1>1, <1>2, <1>3, <1>4 DEF RowStep

(* A step that changes the tables publishes what it changed.                  *)
LEMMA PublishedStep ==
    ASSUME TypeOK, [Next]_vars, db' # db
    PROVE  Published(db, db')
<1>0. db \in Database /\ db.seq \in Nat /\ NextSeq(db) \in Nat
  BY DEF TypeOK, NextSeq, Database
<1>1. Numbered /\ Transaction
  BY StepRows
<1>2. db'.seq = NextSeq(db) /\ db'.seq > db.seq
  BY <1>0, <1>1 DEF Numbered, NextSeq
<1>3. ChildrenPublished(db, db')
  <2>1. ASSUME NEW w \in Workspaces, NEW model \in {0, 1},
               LifecycleStep(db, db', w, model, db'.seq, clock)
        PROVE  ChildrenPublished(db, db')
    <3>1. CASE DeleteStep(db, db', w, model, db'.seq, clock)
      <4>1. Retained # Absent
        BY DEF Retained, Absent
      <4>2. CASE model = 0
        BY <1>0, <3>1, <4>1, <4>2, MarkedIsPublished DEF DeleteStep
      <4>3. CASE model # 0
        BY <1>0, <3>1, <4>3, SingleRowIsPublished DEF DeleteStep
      <4> QED BY <4>2, <4>3
    <3>2. CASE RestoreStep(db, db', w, db'.seq)
      <4>1. Active # Absent
        BY DEF Active, Absent
      <4>2. CASE db.ws[w].deletion_model = 0
        BY <1>0, <3>2, <4>1, <4>2, MarkedIsPublished DEF RestoreStep
      <4>3. CASE db.ws[w].deletion_model # 0
        BY <1>0, <3>2, <4>3, SingleRowIsPublished DEF RestoreStep
      <4> QED BY <4>2, <4>3
    <3>3. CASE PurgeStep(db, db', w, db'.seq)
      BY <1>0, <3>3, DroppedIsPublished
    <3> QED BY <2>1, <3>1, <3>2, <3>3 DEF LifecycleStep
  <2>2. ASSUME NEW w \in Workspaces, WorkspaceWrite(db, db', w, db'.seq)
        PROVE  ChildrenPublished(db, db')
    BY <1>0, <2>2, SingleRowIsPublished DEF WorkspaceWrite
  <2> QED BY <1>0, <1>1, <1>2, <2>1, <2>2, SingleRowIsPublished DEF Transaction
<1>4. \A w \in Workspaces : db'.ws[w] # db.ws[w] => db'.ws[w].seq = db'.seq
  BY <1>1, WorkspaceRowsArePublished
<1> QED BY <1>2, <1>3, <1>4 DEF Published, ChildrenPublished

(* A pull from any earlier number finds every row that any transaction        *)
(* changed, or the tombstone of the workspace the row went with, whatever     *)
(* rows a cascade touches and in whatever order (workspace_lifecycle.go and   *)
(* the routes, which take seq from incrementSeq).                             *)
THEOREM ChangesArePublished == Spec => EveryChangeIsPublished
<1>1. TypeOK /\ [Next]_vars => [Published(db, db')]_db
  BY PublishedStep
<1> QED BY <1>1, TypeCorrect, PTL DEF Spec, EveryChangeIsPublished

-------------------------------------------------------------------------------
(* Under a retained workspace.                                                *)

(* What a legacy delete leaves, until the restore or the purge: nothing is    *)
(* active, and no bookmark in a collection that the restore would bring back. *)
CascadedUnder(d, w) ==
    /\ LiveCollections(d, w) = {}
    /\ LiveGroups(d, w) = {}
    /\ \A b \in Bookmarks :
          d.bm[b].collection_id \in EvidenceCollections(d, w) => d.bm[b].is_trashed # Active

Cascaded(d) ==
    \A w \in Workspaces :
        d.ws[w].is_deleted = Retained /\ d.ws[w].deletion_model = 0 => CascadedUnder(d, w)

(* What the restore will bring back: the rows with sequence evidence after a  *)
(* legacy delete, the active rows after a parent-only one.                    *)
Restorable(d, w) ==
    IF d.ws[w].deletion_model = 0
    THEN [col |-> EvidenceCollections(d, w), bm |-> EvidenceBookmarks(d, w),
          grp |-> EvidenceGroups(d, w)]
    ELSE [col |-> LiveCollections(d, w), bm |-> LiveBookmarks(d, w), grp |-> LiveGroups(d, w)]

Remembers(s, r) == s.col = r.col /\ s.bm = r.bm /\ s.grp = r.grp

(* It is what the history remembers of the workspace.                         *)
Remembered(d, s) ==
    \A w \in Workspaces :
        d.ws[w].is_deleted = Retained => Remembers(s[w], Restorable(d, w))

(* What the history remembers of a workspace are its live rows.               *)
LEMMA ShownIsLive ==
    ASSUME NEW d \in Database, NEW w \in Workspaces
    PROVE  /\ ShownIn(d, w).col = LiveCollections(d, w)
           /\ ShownIn(d, w).bm = LiveBookmarks(d, w)
           /\ ShownIn(d, w).grp = LiveGroups(d, w)
<1>1. ShownIn(d, w).col = LiveCollections(d, w) /\ ShownIn(d, w).grp = LiveGroups(d, w)
  BY DEF ShownIn, LiveCollections, LiveGroups
<1>2. ShownIn(d, w).bm = {b \in BookmarksOf(d, w) : /\ d.bm[b].is_trashed = Active
                                                   /\ d.col[d.bm[b].collection_id].is_deleted = Active}
  BY DEF ShownIn
<1>3. \A b \in Bookmarks : b \in ShownIn(d, w).bm <=> b \in LiveBookmarks(d, w)
  BY <1>2 DEF BookmarksOf, LiveBookmarks, LiveCollections
<1>4. ShownIn(d, w).bm \subseteq Bookmarks /\ LiveBookmarks(d, w) \subseteq Bookmarks
  BY <1>2 DEF BookmarksOf, LiveBookmarks
<1> QED BY <1>1, <1>3, <1>4

(* The sets of a workspace that nothing touches stay.                         *)
LEMMA FrozenSets ==
    ASSUME NEW d \in Database, NEW e, NEW w \in Workspaces,
           SameUnder(d, e, w), e.ws[w] = d.ws[w]
    PROVE  /\ LiveCollections(e, w) = LiveCollections(d, w)
           /\ LiveBookmarks(e, w) = LiveBookmarks(d, w)
           /\ LiveGroups(e, w) = LiveGroups(d, w)
           /\ EvidenceCollections(e, w) = EvidenceCollections(d, w)
           /\ EvidenceBookmarks(e, w) = EvidenceBookmarks(d, w)
           /\ EvidenceGroups(e, w) = EvidenceGroups(d, w)
           /\ CascadedUnder(d, w) => CascadedUnder(e, w)
<1>1. LiveCollections(e, w) = LiveCollections(d, w) /\ LiveGroups(e, w) = LiveGroups(d, w)
  BY DEF SameUnder, LiveCollections, LiveGroups
<1>2. /\ EvidenceCollections(e, w) = EvidenceCollections(d, w)
      /\ EvidenceGroups(e, w) = EvidenceGroups(d, w)
  BY DEF SameUnder, EvidenceCollections, EvidenceGroups
<1>3. \A b \in Bookmarks : e.bm[b].collection_id \in CollectionsOf(d, w)
                           \/ d.bm[b].collection_id \in CollectionsOf(d, w) => e.bm[b] = d.bm[b]
  BY DEF SameUnder, BookmarksOf
<1>4. LiveCollections(d, w) \subseteq CollectionsOf(d, w)
      /\ EvidenceCollections(d, w) \subseteq CollectionsOf(d, w)
  BY DEF LiveCollections, EvidenceCollections
<1>5. LiveBookmarks(e, w) = LiveBookmarks(d, w)
  BY <1>1, <1>3, <1>4 DEF LiveBookmarks
<1>6. EvidenceBookmarks(e, w) = EvidenceBookmarks(d, w)
  BY <1>2, <1>3, <1>4 DEF EvidenceBookmarks
<1>7. CascadedUnder(d, w) => CascadedUnder(e, w)
  BY <1>1, <1>2, <1>3, <1>4 DEF CascadedUnder
<1> QED BY <1>1, <1>2, <1>5, <1>6, <1>7

(* A legacy delete: the rows it marks carry the root's number and are the     *)
(* evidence; what was deleted before has a lower one and is none.             *)
LEMMA LegacyDeleteEvidence ==
    ASSUME NEW d \in Database, NEW e \in Database, SeqBounded(d), NEW w \in Workspaces,
           e.seq = NextSeq(d), NEW now \in Nat, DeleteStep(d, e, w, 0, e.seq, now)
    PROVE  /\ EvidenceCollections(e, w) = LiveCollections(d, w)
           /\ EvidenceBookmarks(e, w) = LiveBookmarks(d, w)
           /\ EvidenceGroups(e, w) = LiveGroups(d, w)
           /\ CascadedUnder(e, w)
<1> DEFINE C == LiveCollections(d, w)
           B == LiveBookmarks(d, w)
           G == LiveGroups(d, w)
<1>0. d.seq \in Nat /\ e.seq = d.seq + 1
  BY DEF Database, NextSeq
<1>1. MarkedChildren(d, e, C, B, G, Retained, now, e.seq)
  BY DEF DeleteStep
<1>2. e.ws[w].seq = e.seq
  BY DEF DeleteStep, OneRow, RetainedRow, Database
<1>3. CollectionsOf(e, w) = CollectionsOf(d, w) /\ GroupsOf(e, w) = GroupsOf(d, w)
  BY <1>1, MarkedUnder
<1>4. \A c \in Collections :
         e.col[c].is_deleted = IF c \in C THEN Retained ELSE d.col[c].is_deleted
  BY <1>1, MarkedFields
<1>5. \A c \in Collections : (e.col[c].seq >= e.seq) <=> c \in C
  <2>1. \A c \in Collections : e.col[c].seq = IF c \in C THEN e.seq ELSE d.col[c].seq
    BY <1>1, MarkedFields
  <2>2. \A c \in Collections : d.col[c].seq \in Nat /\ d.col[c].seq <= d.seq
    BY DEF Database, CollectionRow, SeqBounded
  <2> QED BY <1>0, <2>1, <2>2
<1>6. \A b \in Bookmarks : e.bm[b].collection_id = d.bm[b].collection_id
  BY <1>1, MarkedFields
<1>7. \A b \in Bookmarks :
         e.bm[b].is_trashed = IF b \in B THEN Retained ELSE d.bm[b].is_trashed
  BY <1>1, MarkedFields
<1>8. \A b \in Bookmarks : (e.bm[b].seq >= e.seq) <=> b \in B
  <2>1. \A b \in Bookmarks : e.bm[b].seq = IF b \in B THEN e.seq ELSE d.bm[b].seq
    BY <1>1, MarkedFields
  <2>2. \A b \in Bookmarks : d.bm[b].seq \in Nat /\ d.bm[b].seq <= d.seq
    BY DEF Database, BookmarkRow, SeqBounded
  <2> QED BY <1>0, <2>1, <2>2
<1>9. \A g \in Groups :
         e.grp[g].is_deleted = IF g \in G THEN Retained ELSE d.grp[g].is_deleted
  BY <1>1, MarkedFields
<1>10. \A g \in Groups : (e.grp[g].seq >= e.seq) <=> g \in G
  <2>1. \A g \in Groups : e.grp[g].seq = IF g \in G THEN e.seq ELSE d.grp[g].seq
    BY <1>1, MarkedFields
  <2>2. \A g \in Groups : d.grp[g].seq \in Nat /\ d.grp[g].seq <= d.seq
    BY DEF Database, GroupRow, SeqBounded
  <2> QED BY <1>0, <2>1, <2>2
<1>11. /\ C \subseteq CollectionsOf(d, w) /\ CollectionsOf(d, w) \subseteq Collections
       /\ G \subseteq GroupsOf(d, w) /\ GroupsOf(d, w) \subseteq Groups
       /\ B \subseteq Bookmarks
  BY DEF LiveCollections, CollectionsOf, LiveGroups, GroupsOf, LiveBookmarks
<1>12. \A b \in B : d.bm[b].collection_id \in C
  BY DEF LiveBookmarks
<1>13. \A c \in CollectionsOf(d, w) : d.col[c].is_deleted = Active => c \in C
  BY DEF LiveCollections
<1>14. \A g \in GroupsOf(d, w) : d.grp[g].is_deleted = Active => g \in G
  BY DEF LiveGroups
<1>15. \A b \in Bookmarks :
          d.bm[b].collection_id \in C /\ d.bm[b].is_trashed = Active => b \in B
  BY DEF LiveBookmarks
<1> HIDE DEF C, B, G
<1>16. EvidenceCollections(e, w) = C
  BY <1>2, <1>3, <1>4, <1>5, <1>11 DEF EvidenceCollections
<1>17. EvidenceGroups(e, w) = G
  BY <1>2, <1>3, <1>9, <1>10, <1>11 DEF EvidenceGroups
<1>18. EvidenceBookmarks(e, w) = B
  BY <1>2, <1>6, <1>7, <1>8, <1>11, <1>12, <1>16 DEF EvidenceBookmarks
<1>19. LiveCollections(e, w) = {}
  BY <1>3, <1>4, <1>11, <1>13 DEF LiveCollections, Retained, Active
<1>20. LiveGroups(e, w) = {}
  BY <1>3, <1>9, <1>11, <1>14 DEF LiveGroups, Retained, Active
<1>21. \A b \in Bookmarks : e.bm[b].collection_id \in C => e.bm[b].is_trashed # Active
  BY <1>6, <1>7, <1>15 DEF Retained, Active
<1>22. CascadedUnder(e, w)
  BY <1>16, <1>19, <1>20, <1>21 DEF CascadedUnder
<1> QED BY <1>16, <1>17, <1>18, <1>22 DEF C, B, G

(* A restore: what is active under the workspace afterwards is what was       *)
(* restorable.                                                                *)
LEMMA RestoreBringsBack ==
    ASSUME NEW d \in Database, NEW e \in Database, NEW w \in Workspaces, NEW seq \in Nat,
           RestoreStep(d, e, w, seq), Cascaded(d)
    PROVE  /\ LiveCollections(e, w) = Restorable(d, w).col
           /\ LiveBookmarks(e, w) = Restorable(d, w).bm
           /\ LiveGroups(e, w) = Restorable(d, w).grp
<1>1. CASE d.ws[w].deletion_model # 0
  <2>1. SameChildren(d, e)
    BY <1>1 DEF RestoreStep
  <2>2. /\ LiveCollections(e, w) = LiveCollections(d, w)
        /\ LiveBookmarks(e, w) = LiveBookmarks(d, w)
        /\ LiveGroups(e, w) = LiveGroups(d, w)
    BY <2>1 DEF SameChildren, LiveCollections, LiveBookmarks, LiveGroups, CollectionsOf, GroupsOf
  <2> QED BY <1>1, <2>2 DEF Restorable
<1>2. CASE d.ws[w].deletion_model = 0
  <2> DEFINE C == EvidenceCollections(d, w)
             B == EvidenceBookmarks(d, w)
             G == EvidenceGroups(d, w)
  <2>1. MarkedChildren(d, e, C, B, G, Active, Null, seq) /\ CascadedUnder(d, w)
    BY <1>2 DEF RestoreStep, Cascaded
  <2>2. CollectionsOf(e, w) = CollectionsOf(d, w) /\ GroupsOf(e, w) = GroupsOf(d, w)
    BY <2>1, MarkedUnder
  <2>3. \A c \in Collections :
           e.col[c].is_deleted = IF c \in C THEN Active ELSE d.col[c].is_deleted
    BY <2>1, MarkedFields
  <2>4. \A b \in Bookmarks : e.bm[b].collection_id = d.bm[b].collection_id
    BY <2>1, MarkedFields
  <2>5. \A b \in Bookmarks :
           e.bm[b].is_trashed = IF b \in B THEN Active ELSE d.bm[b].is_trashed
    BY <2>1, MarkedFields
  <2>6. \A g \in Groups :
           e.grp[g].is_deleted = IF g \in G THEN Active ELSE d.grp[g].is_deleted
    BY <2>1, MarkedFields
  <2>7. /\ C \subseteq CollectionsOf(d, w) /\ CollectionsOf(d, w) \subseteq Collections
        /\ G \subseteq GroupsOf(d, w) /\ GroupsOf(d, w) \subseteq Groups
        /\ B \subseteq Bookmarks
    BY DEF EvidenceCollections, CollectionsOf, EvidenceGroups, GroupsOf, EvidenceBookmarks
  <2>8. \A b \in B : d.bm[b].collection_id \in C
    BY DEF EvidenceBookmarks
  <2>9. \A c \in CollectionsOf(d, w) : d.col[c].is_deleted # Active
    BY <2>1 DEF CascadedUnder, LiveCollections
  <2>10. \A g \in GroupsOf(d, w) : d.grp[g].is_deleted # Active
    BY <2>1 DEF CascadedUnder, LiveGroups
  <2>11. \A b \in Bookmarks : d.bm[b].collection_id \in C => d.bm[b].is_trashed # Active
    BY <2>1 DEF CascadedUnder
  <2>12. /\ Restorable(d, w).col = C
         /\ Restorable(d, w).bm = B
         /\ Restorable(d, w).grp = G
    BY <1>2 DEF Restorable
  <2> HIDE DEF C, B, G
  <2>13. LiveCollections(e, w) = C
    BY <2>2, <2>3, <2>7, <2>9 DEF LiveCollections
  <2>14. LiveGroups(e, w) = G
    BY <2>2, <2>6, <2>7, <2>10 DEF LiveGroups
  <2>15. LiveBookmarks(e, w) = B
    BY <2>4, <2>5, <2>7, <2>8, <2>11, <2>13 DEF LiveBookmarks
  <2> QED BY <2>12, <2>13, <2>14, <2>15
<1> QED BY <1>1, <1>2

-------------------------------------------------------------------------------
(* The invariant: of a retained workspace, what the restore will bring back   *)
(* is what was active under it when it was deleted.                           *)

HistoryOK == TypeOK /\ Consistent(db) /\ Cascaded(db) /\ Remembered(db, shown)

(* No step writes the row of a workspace that it leaves retained, and only an *)
(* active workspace becomes retained.                                         *)
LEMMA RetainedKeepsItsRow ==
    ASSUME TypeOK, [Next]_vars, NEW w \in Workspaces,
           db.ws[w].is_deleted = Retained, db'.ws[w].is_deleted = Retained
    PROVE  db'.ws[w] = db.ws[w]
<1>1. RowStep(db.ws[w], db'.ws[w])
  BY WorkspaceStep
<1>2. db.ws[w] \in WorkspaceRow /\ clock \in Nat
  BY DEF TypeOK, Database
<1> QED BY <1>1, <1>2, RowStepStates DEF Absent, Active, Retained, Terminal

(* Only an active workspace becomes retained.                                 *)
LEMMA OnlyActiveIsRetained ==
    ASSUME TypeOK, [Next]_vars, NEW w \in Workspaces,
           db.ws[w].is_deleted # Retained, db'.ws[w].is_deleted = Retained
    PROVE  db.ws[w].is_deleted = Active
<1>1. RowStep(db.ws[w], db'.ws[w])
  BY WorkspaceStep
<1>2. db.ws[w] \in WorkspaceRow /\ clock \in Nat
  BY DEF TypeOK, Database
<1> QED BY <1>1, <1>2, RowStepStates DEF Absent, Active, Retained, Terminal

(* A workspace that stays retained keeps its row, and what is under it.       *)
LEMMA StaysRetained ==
    ASSUME HistoryOK, [Next]_vars, NEW w \in Workspaces,
           db.ws[w].is_deleted = Retained, db'.ws[w].is_deleted = Retained
    PROVE  /\ db'.ws[w].deletion_model = 0 => CascadedUnder(db', w)
           /\ Remembers(shown'[w], Restorable(db', w))
<1>1. db'.ws[w] = db.ws[w]
  BY RetainedKeepsItsRow DEF HistoryOK
<1>2. SameUnder(db, db', w) /\ shown'[w] = shown[w]
  BY <1>1, FrozenStep DEF HistoryOK, Consistent, Retained, Active
<1>3. /\ LiveCollections(db', w) = LiveCollections(db, w)
      /\ LiveBookmarks(db', w) = LiveBookmarks(db, w)
      /\ LiveGroups(db', w) = LiveGroups(db, w)
      /\ EvidenceCollections(db', w) = EvidenceCollections(db, w)
      /\ EvidenceBookmarks(db', w) = EvidenceBookmarks(db, w)
      /\ EvidenceGroups(db', w) = EvidenceGroups(db, w)
      /\ CascadedUnder(db, w) => CascadedUnder(db', w)
  BY <1>1, <1>2, FrozenSets DEF HistoryOK, TypeOK
<1>4. Restorable(db', w) = Restorable(db, w)
  BY <1>1, <1>3 DEF Restorable
<1> QED BY <1>1, <1>2, <1>3, <1>4 DEF HistoryOK, Cascaded, Remembered

(* A workspace that a step retains is remembered as it was, and a legacy      *)
(* deletion leaves nothing active under it.                                   *)
LEMMA BecomesRetained ==
    ASSUME HistoryOK, [Next]_vars, NEW w \in Workspaces,
           db.ws[w].is_deleted # Retained, db'.ws[w].is_deleted = Retained
    PROVE  /\ db'.ws[w].deletion_model = 0 => CascadedUnder(db', w)
           /\ Remembers(shown'[w], Restorable(db', w))
<1>0. /\ db \in Database /\ db' \in Database /\ clock \in Nat /\ NextSeq(db) \in Nat
      /\ SeqBounded(db)
  BY NextType DEF HistoryOK, TypeOK, Consistent, NextSeq, Database
<1>1. db.ws[w].is_deleted = Active /\ db'.ws[w].is_deleted # Active
  BY OnlyActiveIsRetained DEF HistoryOK, Retained, Active
<1>2. Numbered
  BY <1>1, WhichStep DEF HistoryOK, Absent, Active
<1>3. PICK model \in {0, 1} : DeleteStep(db, db', w, model, NextSeq(db), clock)
  BY <1>1, WhichStep DEF HistoryOK, Absent, Active
<1>4. shown'[w] = ShownIn(db, w)
  BY <1>1, <1>2 DEF Numbered, Deleted
<1>5. Remembers(shown'[w], [col |-> LiveCollections(db, w), bm |-> LiveBookmarks(db, w),
                            grp |-> LiveGroups(db, w)])
  BY <1>0, <1>4, ShownIsLive DEF Remembers
<1>6. db'.ws[w].deletion_model = model
  BY <1>0, <1>3 DEF DeleteStep, OneRow, RetainedRow, Database
<1>7. CASE model = 0
  <2>1. db'.seq = NextSeq(db)
    BY <1>2 DEF Numbered
  <2>2. /\ EvidenceCollections(db', w) = LiveCollections(db, w)
        /\ EvidenceBookmarks(db', w) = LiveBookmarks(db, w)
        /\ EvidenceGroups(db', w) = LiveGroups(db, w)
        /\ CascadedUnder(db', w)
    BY <1>0, <1>3, <1>7, <2>1, LegacyDeleteEvidence
  <2> QED BY <1>5, <1>6, <1>7, <2>2 DEF Restorable
<1>8. CASE model # 0
  <2>1. SameChildren(db, db')
    BY <1>3, <1>8 DEF DeleteStep
  <2>2. /\ LiveCollections(db', w) = LiveCollections(db, w)
        /\ LiveBookmarks(db', w) = LiveBookmarks(db, w)
        /\ LiveGroups(db', w) = LiveGroups(db, w)
    BY <2>1 DEF SameChildren, LiveCollections, LiveBookmarks, LiveGroups, CollectionsOf, GroupsOf
  <2> QED BY <1>5, <1>6, <1>8, <2>2 DEF Restorable
<1> QED BY <1>7, <1>8

(* Every step keeps the invariant.                                            *)
LEMMA HistoryStep == HistoryOK /\ [Next]_vars => HistoryOK'
<1> SUFFICES ASSUME HistoryOK, [Next]_vars PROVE HistoryOK'
  OBVIOUS
<1>1. TypeOK'
  BY NextType DEF HistoryOK
<1>2. Consistent(db')
  BY ConsistentStep DEF HistoryOK
<1>3. ASSUME NEW w \in Workspaces, db'.ws[w].is_deleted = Retained
      PROVE  /\ db'.ws[w].deletion_model = 0 => CascadedUnder(db', w)
             /\ Remembers(shown'[w], Restorable(db', w))
  BY <1>3, StaysRetained, BecomesRetained
<1>4. Cascaded(db') /\ Remembered(db', shown')
  BY <1>3 DEF Cascaded, Remembered
<1> QED BY <1>1, <1>2, <1>4 DEF HistoryOK

(* It holds at the start.                                                     *)
LEMMA HistoryInit == Init => HistoryOK
<1> SUFFICES ASSUME Init PROVE HistoryOK
  OBVIOUS
<1>1. TypeOK /\ Consistent(db)
  BY InitType, ConsistentInit
<1>2. \A w \in Workspaces : db.ws[w].is_deleted # Retained
  <2> USE DEF EmptyDatabase, NoWorkspace, Retained, Active, Absent
  <2>1. CASE db = EmptyDatabase
    BY <2>1
  <2>2. ASSUME NEW v \in Workspaces, NEW G \in SUBSET Groups, db = FirstPush(v, G)
        PROVE  \A w \in Workspaces : db.ws[w].is_deleted # Retained
    BY <2>2 DEF FirstPush
  <2> QED BY <2>1, <2>2 DEF Init
<1> QED BY <1>1, <1>2 DEF HistoryOK, Cascaded, Remembered

(* And so always.                                                             *)
LEMMA HistoryAlways == Spec => []HistoryOK
<1> QED BY HistoryInit, HistoryStep, PTL DEF Spec

(* What the run checks of a legacy cascade is what the invariant says of it.  *)
LEMMA CascadeIsComplete ==
    ASSUME db \in Database, Cascaded(db) PROVE LegacyCascadeIsComplete
<1> SUFFICES ASSUME NEW w \in Workspaces, db.ws[w].is_deleted = Retained,
                    db.ws[w].deletion_model = 0
             PROVE  /\ ShownIn(db, w) = Nothing
                    /\ \A b \in BookmarksOf(db, w) :
                          db.bm[b].collection_id \in EvidenceCollections(db, w) =>
                              db.bm[b].is_trashed # Active
  BY DEF LegacyCascadeIsComplete
<1>1. CascadedUnder(db, w)
  BY DEF Cascaded
<1>2. \A b \in BookmarksOf(db, w) :
         db.bm[b].collection_id \in EvidenceCollections(db, w) => db.bm[b].is_trashed # Active
  BY <1>1 DEF CascadedUnder, BookmarksOf
<1>3. \A c \in CollectionsOf(db, w) : db.col[c].is_deleted # Active
  BY <1>1 DEF CascadedUnder, LiveCollections
<1>4. \A g \in GroupsOf(db, w) : db.grp[g].is_deleted # Active
  BY <1>1 DEF CascadedUnder, LiveGroups
<1>5. {c \in CollectionsOf(db, w) : db.col[c].is_deleted = Active} = {}
  BY <1>3
<1>6. {g \in GroupsOf(db, w) : db.grp[g].is_deleted = Active} = {}
  BY <1>4
<1>7. \A b \in BookmarksOf(db, w) : db.col[db.bm[b].collection_id].is_deleted # Active
  BY <1>3 DEF BookmarksOf
<1>8. {b \in BookmarksOf(db, w) : /\ db.bm[b].is_trashed = Active
                                  /\ db.col[db.bm[b].collection_id].is_deleted = Active} = {}
  BY <1>7
<1>9. {b \in BookmarksOf(db, w) : BookmarkListed(db, b)} = {}
  BY <1>7 DEF BookmarkListed, BookmarkReachable, CollectionUsable
<1> QED BY <1>2, <1>5, <1>6, <1>8, <1>9 DEF ShownIn, Nothing

(* After a legacy delete nothing is active under the workspace, and no route  *)
(* makes anything active there until it is restored.                          *)
THEOREM LegacyCascadeComplete == Spec => []LegacyCascadeIsComplete
<1>1. HistoryOK => LegacyCascadeIsComplete
  BY CascadeIsComplete DEF HistoryOK, TypeOK
<1> QED BY <1>1, HistoryAlways, PTL

(* A restore brings back exactly what the workspace showed when it was        *)
(* deleted, whatever happened in between and under both deletion models.      *)
THEOREM RestoresAreExact == Spec => RestoreIsExact
<1>1. ASSUME HistoryOK, [Next]_vars
      PROVE  [\A w \in Workspaces : Restored(w) =>
                 LET now == ShownIn(db', w) IN
                 /\ now.col = shown[w].col
                 /\ now.bm  = shown[w].bm
                 /\ now.grp = shown[w].grp]_vars
  <2> SUFFICES ASSUME NEW w \in Workspaces, Restored(w)
               PROVE  /\ ShownIn(db', w).col = shown[w].col
                      /\ ShownIn(db', w).bm = shown[w].bm
                      /\ ShownIn(db', w).grp = shown[w].grp
    OBVIOUS
  <2>0. db \in Database /\ db' \in Database /\ NextSeq(db) \in Nat /\ Cascaded(db)
    BY <1>1, NextType DEF HistoryOK, TypeOK, NextSeq, Database
  <2>1. RestoreStep(db, db', w, NextSeq(db))
    BY <1>1, WhichStep DEF HistoryOK, Restored, Retained, Absent, Active
  <2>2. /\ LiveCollections(db', w) = Restorable(db, w).col
        /\ LiveBookmarks(db', w) = Restorable(db, w).bm
        /\ LiveGroups(db', w) = Restorable(db, w).grp
    BY <2>0, <2>1, RestoreBringsBack
  <2>3. Remembers(shown[w], Restorable(db, w))
    BY <1>1 DEF HistoryOK, Remembered, Restored
  <2> QED BY <2>0, <2>2, <2>3, ShownIsLive DEF Remembers
<1> QED BY <1>1, HistoryAlways, PTL DEF Spec, RestoreIsExact

===============================================================================
