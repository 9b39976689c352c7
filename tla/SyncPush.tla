------------------------------- MODULE SyncPush -------------------------------
(***************************************************************************)
(* POST /sync/push (SyncHandler.Push of internal/handler/sync.go) as a     *)
(* function of the database and the request, and the transitions it makes  *)
(* together with the REST lifecycle routes.                                *)
(*                                                                         *)
(* One transaction works through the request table by table.  p is what    *)
(* the handler holds at a point of the way: the database as the            *)
(* transaction sees it, the availability of parents, the quota ledgers,    *)
(* the rejections so far and the documents to send after the commit.       *)
(*                                                                         *)
(* Last writer wins by updated_at < now.  A row written by this push has   *)
(* updated_at = now; horizon is the last sequence number whose rows are    *)
(* older than now.  Tags and group tabs are left out.                      *)
(***************************************************************************)
EXTENDS SearchIndex, SyncDependencies, SequencesExt

CONSTANTS MaxWorkspaces, MaxCollections, MaxBookmarks, MaxSavedGroups,  \* the plan
          MaxEntities   \* bound: entities in one push

ASSUME PushBoundAssumption == MaxEntities \in Nat

ASSUME PlanAssumption ==
    {MaxWorkspaces, MaxCollections, MaxBookmarks, MaxSavedGroups} \subseteq Nat \cup {Unlimited}

(* A ledger counts rows of a table.                                           *)
ASSUME TableAssumption ==
    /\ IsFiniteSet(Workspaces) /\ IsFiniteSet(Collections)
    /\ IsFiniteSet(Bookmarks) /\ IsFiniteSet(Groups)

-------------------------------------------------------------------------------
(* Requests.  A version-0 workspace is metadata or, with a deleted_at, a      *)
(* delete; a version-2 one is metadata or names a lifecycle action.           *)

WorkspaceOps(version) == IF version = 0 THEN {"metadata", "delete"}
                                        ELSE {"metadata", "delete", "restore", "purge"}

WorkspaceItems(version) == [id : Workspaces, op : WorkspaceOps(version)]
CollectionItems == [id : Collections, parent : Workspaces \cup {NoId}, state : {0, 1, 2}]
BookmarkItems   == [id : Bookmarks, parent : Collections \cup {NoId}, state : {0, 1, 2}]
GroupItems      == [id : Groups, parent : Workspaces \cup {NoId}, state : {0, 1, 2}]

(* How many entities of each type a request lists.                            *)
Sizes == {n \in [ws : 0..MaxEntities, col : 0..MaxEntities,
                  bm : 0..MaxEntities, grp : 0..MaxEntities] :
             n.ws + n.col + n.bm + n.grp <= MaxEntities}

Requests ==
    UNION {[version : {v},
            ws  : TupleOf(WorkspaceItems(v), n.ws), col : TupleOf(CollectionItems, n.col),
            bm  : TupleOf(BookmarkItems, n.bm),     grp : TupleOf(GroupItems, n.grp)] :
               v \in {0, 2}, n \in Sizes}

-------------------------------------------------------------------------------
(* The snapshots at the start.                                                *)

Unavailability(state) ==
    CASE state = Retained -> "parent_deleted"
      [] state = Terminal -> "permanently_deleted"
      [] OTHER -> ""

(* A collection's own state first, then its workspace's.                      *)
CollectionUnavailability(d, c) ==
    LET w == d.col[c].workspace_id IN
    IF Unavailability(d.col[c].is_deleted) # "" THEN Unavailability(d.col[c].is_deleted)
    ELSE IF w = NoId THEN "" ELSE Unavailability(d.ws[w].is_deleted)

Start(d, horizon) ==
    LET Quota(limit, retained, Seqn(_)) ==
            NewRetainedQuota(limit, retained, {x \in retained : Seqn(x) > horizon})
        Counted(ids, State(_)) == {x \in ids : State(x) \in {Active, Retained}}
    IN
    [db |-> d,
     owned |-> ActiveWorkspaces(d),
     unavailable |-> [w \in Workspaces |-> Unavailability(d.ws[w].is_deleted)],
     ownedCol |-> {c \in Collections : /\ d.col[c].is_deleted = Active
                                       /\ CollectionUnavailability(d, c) = ""},
     unavailableCol |-> [c \in Collections |-> CollectionUnavailability(d, c)],
     wsQuota  |-> Quota(MaxWorkspaces, Counted(Workspaces, LAMBDA w : d.ws[w].is_deleted),
                        LAMBDA w : d.ws[w].seq),
     colQuota |-> Quota(MaxCollections, Counted(Collections, LAMBDA c : d.col[c].is_deleted),
                        LAMBDA c : d.col[c].seq),
     bmQuota  |-> Quota(MaxBookmarks, Counted(Bookmarks, LAMBDA b : d.bm[b].is_trashed),
                        LAMBDA b : d.bm[b].seq),
     grpQuota |-> Quota(MaxSavedGroups, Counted(Groups, LAMBDA g : d.grp[g].is_deleted),
                        LAMBDA g : d.grp[g].seq),
     legacyDeleted |-> {},
     upserts |-> <<>>,
     rejected |-> {},
     searchUpserts |-> {},
     searchDeletes |-> {}]

Reject(p, type, id, reason) ==
    [p EXCEPT !.rejected = @ \cup {[type |-> type, id |-> id, reason |-> reason]}]

(* The documents that ApplyInTx asks for.                                     *)
AddEffect(p, effect) ==
    [p EXCEPT !.searchUpserts = @ \cup effect.upserts, !.searchDeletes = @ \cup effect.deletes]

-------------------------------------------------------------------------------
(* Workspaces.                                                                *)

(* A version-0 workspace with a deleted_at.  metadata are the ids the request *)
(* also carries without one.                                                  *)
LegacyDeleteItem(p, id, metadata, seq, now) ==
    LET reason == Rejection(p.db, id, "delete", 0) IN
    IF reason # ""
    THEN [Reject(p, "workspace", id, reason) EXCEPT
            !.unavailable[id] = IF id \in metadata THEN @ ELSE "parent_rejected"]
    ELSE [AddEffect(p, Effect(p.db, id, "delete", 0)) EXCEPT
            !.db = Applied(p.db, id, "delete", 0, seq, now),
            !.owned = @ \cup {id},
            !.unavailable[id] = "parent_rejected",
            !.legacyDeleted = @ \cup {id}]

(* queueWorkspaceUpsert                                                       *)
QueueWorkspace(p, item) ==
    IF Admitted(p.wsQuota, item.id, FALSE)
    THEN [p EXCEPT !.wsQuota = Admit(@, item.id, FALSE), !.upserts = Append(@, item)]
    ELSE [Reject(p, "workspace", item.id, "quota_exceeded") EXCEPT
            !.unavailable[item.id] = "parent_rejected"]

(* Mutant of LegacyMetadataItem: only a retained root is looked for.          *)
LegacyMetadataItemOfPurged(p, item, d) ==
    IF d.ws[item.id].is_deleted # Retained /\ item.id \notin p.legacyDeleted
    THEN QueueWorkspace(p, item)
    ELSE [Reject(p, "workspace", item.id, "workspace_deleted") EXCEPT
            !.unavailable[item.id] = "parent_rejected"]

(* Version-0 metadata, against the roots as they were at the start, d, and    *)
(* those the push has deleted.                                                *)
LegacyMetadataItem(p, item, d) ==
    LET reason == IF d.ws[item.id].is_deleted = Retained \/ item.id \in p.legacyDeleted
                  THEN "workspace_deleted"
                  ELSE IF d.ws[item.id].is_deleted = Terminal
                  THEN "permanently_deleted" ELSE ""
    IN  IF reason = "" THEN QueueWorkspace(p, item)
        ELSE [Reject(p, "workspace", item.id, reason) EXCEPT
                !.unavailable[item.id] = "parent_rejected"]

(* refreshWorkspaceCollections, over the snapshot d.                          *)
RefreshCollections(p, w, reason, d) ==
    LET state(c) == d.col[c].is_deleted
        ruled(c) == IF reason = "permanently_deleted" \/ state(c) = Terminal
                    THEN "permanently_deleted"
                    ELSE IF reason = "parent_deleted" \/ state(c) = Retained
                    THEN "parent_deleted" ELSE ""
    IN  [p EXCEPT
          !.unavailableCol = [c \in Collections |-> IF c \in CollectionsOf(d, w)
                                                    THEN ruled(c) ELSE @[c]],
          !.ownedCol = (@ \ CollectionsOf(d, w))
                          \cup {c \in CollectionsOf(d, w) : ruled(c) = ""}]

(* Mutant of LifecycleApplied: the collections are not refreshed.             *)
LifecycleAppliedToRootOnly(p, id, op, d, seq, now) ==
    [p EXCEPT !.db = Applied(p.db, id, op, 1, seq, now),
              !.owned = IF op = "restore" THEN @ \cup {id} ELSE @ \ {id},
              !.unavailable[id] = CASE op = "delete" -> "parent_deleted"
                                    [] op = "purge" -> "permanently_deleted"
                                    [] OTHER -> ""]

(* An accepted lifecycle action of version 2.                                 *)
LifecycleApplied(p, id, op, d, seq, now) ==
    LET reason == CASE op = "delete" -> "parent_deleted"
                    [] op = "purge" -> "permanently_deleted"
                    [] OTHER -> ""
        Moved(effect) ==
            [AddEffect(p, effect) EXCEPT
                !.db = Applied(p.db, id, op, 1, seq, now),
                !.owned = IF reason = "" THEN @ \cup {id} ELSE @ \ {id},
                !.unavailable[id] = reason]
        Released(moved, effect) ==
            IF op = "purge"
            THEN [moved EXCEPT
                    !.wsQuota = ReleaseApplied(@, {id}),
                    !.colQuota = ReleaseApplied(@, CollectionsOf(d, id)),
                    !.bmQuota = ReleaseApplied(@, effect.deletes),
                    !.grpQuota = ReleaseApplied(@, GroupsOf(d, id))]
            ELSE moved
        After(effect) == Released(Moved(effect), effect)
    IN  RefreshCollections(After(Effect(p.db, id, op, 1)), id, reason, d)

LifecycleItem(p, id, op, d, seq, now) ==
    LET reason == Rejection(p.db, id, op, 1) IN
    IF reason = "" THEN LifecycleApplied(p, id, op, d, seq, now)
    ELSE [Reject(p, "workspace", id, reason) EXCEPT
            !.unavailable[id] = IF id \notin p.owned /\ @ = "" THEN "parent_rejected" ELSE @]

(* Version-2 metadata.                                                        *)
MetadataItem(p, item) ==
    LET reason == p.unavailable[item.id] IN
    IF reason = "" THEN QueueWorkspace(p, item)
    ELSE Reject(p, "workspace", item.id,
                IF reason = "parent_deleted" THEN "workspace_deleted" ELSE reason)

(* One row of the workspace batch: INSERT ... ON CONFLICT DO UPDATE, which    *)
(* never touches is_deleted.                                                  *)
UpsertWorkspace(p, item, horizon, seq) ==
    LET row == p.db.ws[item.id] IN
    IF row.seq <= horizon
    THEN [p EXCEPT !.db.ws[item.id] =
                       IF row.is_deleted = Absent
                       THEN [is_deleted |-> Active, deletion_model |-> 1,
                             deleted_at |-> Null, seq |-> seq]
                       ELSE [row EXCEPT !.deleted_at = Null, !.seq = seq],
                   !.owned = @ \cup {item.id}]
    ELSE [Reject(p, "workspace", item.id, "stale") EXCEPT
            !.unavailable[item.id] = IF item.id \notin p.owned /\ @ = ""
                                     THEN "parent_rejected" ELSE @]

-------------------------------------------------------------------------------
(* Collections.                                                               *)

(* The reason not to move an entity away from the workspace it is stored      *)
(* under, "" when it may go.                                                  *)
RescueRejection(p, stored, target) ==
    IF stored # NoId /\ stored # target
       /\ p.unavailable[stored] \in {"parent_deleted", "permanently_deleted"}
    THEN p.unavailable[stored] ELSE ""

SortCollection(p, item, d) ==
    LET rescue == RescueRejection(p, d.col[item.id].workspace_id, item.parent)
        parent == ParentRejection(item.parent, TRUE, p.owned, p.unavailable)
    IN  CASE rescue # "" -> Reject(p, "collection", item.id, rescue)
          [] rescue = "" /\ parent # "" ->
                [Reject(p, "collection", item.id, parent) EXCEPT
                    !.unavailableCol[item.id] = IF @ = "" THEN "parent_rejected" ELSE @]
          [] rescue = "" /\ parent = "" ->
                IF Admitted(p.colQuota, item.id, item.state = Terminal)
                THEN [p EXCEPT !.colQuota = Admit(@, item.id, item.state = Terminal),
                               !.upserts = Append(@, item)]
                ELSE [Reject(p, "collection", item.id, "quota_exceeded") EXCEPT
                        !.unavailableCol[item.id] = "parent_rejected"]

(* The client's row, whose deleted_at goes with its state.                    *)
ClientStamp(item, now) == IF item.state = Active THEN Null ELSE now

UpsertCollection(p, item, version, horizon, seq, now) ==
    LET usable == version # 2 \/ item.state = Active IN
    IF p.db.col[item.id].seq <= horizon
    THEN [p EXCEPT !.db.col[item.id] = [is_deleted |-> item.state, workspace_id |-> item.parent,
                                        deleted_at |-> ClientStamp(item, now), seq |-> seq],
                   !.ownedCol = IF usable THEN @ \cup {item.id} ELSE @ \ {item.id},
                   !.unavailableCol[item.id] = IF usable THEN "" ELSE Unavailability(item.state)]
    ELSE [Reject(p, "collection", item.id, "stale") EXCEPT
            !.unavailableCol[item.id] = IF item.id \notin p.ownedCol /\ @ = ""
                                        THEN "parent_rejected" ELSE @]

(* Mutant of CascadeTombstones: the bookmarks keep their sequence number.     *)
CascadeTombstonesSilently(p, C, d, seq, now) ==
    [p EXCEPT !.db.bm = [b \in Bookmarks |->
        IF @[b].collection_id \in C /\ @[b].is_trashed \in {Active, Retained}
        THEN [@[b] EXCEPT !.is_trashed = Terminal, !.deleted_at = now] ELSE @[b]]]

(* The collections the batch has made tombstones take their bookmarks along.  *)
CascadeTombstones(p, C, d, seq, now) ==
    LET live == {b \in Bookmarks : /\ p.db.bm[b].collection_id \in C
                                   /\ p.db.bm[b].is_trashed \in {Active, Retained}}
    IN  [p EXCEPT !.db = MarkBookmarks(@, live, Terminal, now, seq),
                  !.bmQuota = ReleaseApplied(@, {b \in Bookmarks : d.bm[b].collection_id \in C})]

-------------------------------------------------------------------------------
(* Bookmarks and groups.                                                      *)

SortBookmark(p, item) ==
    LET parent == ParentRejection(item.parent, TRUE, p.ownedCol, p.unavailableCol) IN
    CASE parent # "" -> Reject(p, "bookmark", item.id, parent)
      [] parent = "" /\ ~Admitted(p.bmQuota, item.id, item.state = Terminal) ->
            Reject(p, "bookmark", item.id, "quota_exceeded")
      [] parent = "" /\ Admitted(p.bmQuota, item.id, item.state = Terminal) ->
            [p EXCEPT !.bmQuota = Admit(@, item.id, item.state = Terminal),
                      !.upserts = Append(@, item)]

(* Mutant of UpsertBookmark: no look at RowsAffected.                         *)
UpsertBookmarkUnchecked(p, item, horizon, seq, now) ==
    IF p.db.bm[item.id].seq <= horizon
    THEN [p EXCEPT !.db.bm[item.id] = [is_trashed |-> item.state, collection_id |-> item.parent,
                                       deleted_at |-> ClientStamp(item, now), seq |-> seq]]
    ELSE p

(* Mutant of UpsertBookmark: only new bookmarks get a document.               *)
UpsertBookmarkIndexNew(p, item, horizon, seq, now) ==
    IF p.db.bm[item.id].seq <= horizon
    THEN [p EXCEPT !.db.bm[item.id] = [is_trashed |-> item.state, collection_id |-> item.parent,
                                       deleted_at |-> ClientStamp(item, now), seq |-> seq],
                   !.searchUpserts = IF item.state = Active /\ p.db.bm[item.id].is_trashed = Absent
                                     THEN @ \cup {item.id} ELSE @,
                   !.searchDeletes = IF item.state = Active THEN @ ELSE @ \cup {item.id}]
    ELSE Reject(p, "bookmark", item.id, "stale")

(* One row of the bookmark batch, and its document.                           *)
UpsertBookmark(p, item, horizon, seq, now) ==
    IF p.db.bm[item.id].seq <= horizon
    THEN [p EXCEPT !.db.bm[item.id] = [is_trashed |-> item.state, collection_id |-> item.parent,
                                       deleted_at |-> ClientStamp(item, now), seq |-> seq],
                   !.searchUpserts = IF item.state = Active THEN @ \cup {item.id} ELSE @,
                   !.searchDeletes = IF item.state = Active THEN @ ELSE @ \cup {item.id}]
    ELSE Reject(p, "bookmark", item.id, "stale")

SortGroup(p, item, d) ==
    LET rescue == RescueRejection(p, d.grp[item.id].workspace_id, item.parent)
        parent == ParentRejection(item.parent, FALSE, p.owned, p.unavailable)
    IN  CASE rescue # "" -> Reject(p, "saved_group", item.id, rescue)
          [] rescue = "" /\ parent # "" -> Reject(p, "saved_group", item.id, parent)
          [] rescue = "" /\ parent = "" ->
                IF Admitted(p.grpQuota, item.id, item.state = Terminal)
                THEN [p EXCEPT !.grpQuota = Admit(@, item.id, item.state = Terminal),
                               !.upserts = Append(@, item)]
                ELSE Reject(p, "saved_group", item.id, "quota_exceeded")

UpsertGroup(p, item, horizon, seq, now) ==
    IF p.db.grp[item.id].seq <= horizon
    THEN [p EXCEPT !.db.grp[item.id] = [is_deleted |-> item.state, workspace_id |-> item.parent,
                                        deleted_at |-> ClientStamp(item, now), seq |-> seq]]
    ELSE Reject(p, "saved_group", item.id, "stale")

-------------------------------------------------------------------------------
(* The loops.  x is what they know of the request and the transaction: the    *)
(* database before it, the ids with metadata, horizon, seq and now.           *)

(* One turn of a loop.                                                        *)
Turn(loop, p, item, x) ==
    CASE loop = "legacy deletes" ->
            IF item.op = "delete" THEN LegacyDeleteItem(p, item.id, x.metadata, x.seq, x.now) ELSE p
      [] loop = "legacy metadata" ->
            IF item.op = "delete" THEN p ELSE LegacyMetadataItem(p, item, x.before)
      [] loop = "workspaces" ->
            IF item.op = "metadata" THEN MetadataItem(p, item)
            ELSE LifecycleItem(p, item.id, item.op, x.before, x.seq, x.now)
      [] loop = "workspace upserts"  -> UpsertWorkspace(p, item, x.horizon, x.seq)
      [] loop = "collections"        -> SortCollection(p, item, x.before)
      [] loop = "collection upserts" -> UpsertCollection(p, item, x.version, x.horizon, x.seq, x.now)
      [] loop = "bookmarks"          -> SortBookmark(p, item)
      [] loop = "bookmark upserts"   -> UpsertBookmark(p, item, x.horizon, x.seq, x.now)
      [] loop = "groups"             -> SortGroup(p, item, x.before)
      [] loop = "group upserts"      -> UpsertGroup(p, item, x.horizon, x.seq, x.now)

(* for _, item := range list                                                  *)
Each(loop, p, list, x) ==
    LET after[n \in 0..Len(list)] == IF n = 0 THEN p ELSE Turn(loop, after[n - 1], list[n], x)
    IN  after[Len(list)]

(* A loop that sorts out the request's entities, and the batch of those that  *)
(* it queued.                                                                 *)
Batch(loop, p, x) == [Each(loop, p, p.upserts, x) EXCEPT !.upserts = <<>>]

PushWorkspaces(p, req, x) ==
    LET sorted == IF req.version = 0
                  THEN Each("legacy metadata", Each("legacy deletes", p, req.ws, x), req.ws, x)
                  ELSE Each("workspaces", p, req.ws, x)
        Close(stored) ==
            [stored EXCEPT
              !.unavailableCol = [c \in Collections |->
                  IF \E w \in stored.legacyDeleted : c \in CollectionsOf(stored.db, w)
                  THEN "parent_rejected" ELSE @[c]]]
    IN  Close(Batch("workspace upserts", sorted, x))

PushCollections(p, req, x) ==
    LET Buried(stored, sent) ==
            {c \in Collections : /\ \E i \in DOMAIN sent : sent[i].id = c /\ sent[i].state = Terminal
                                 /\ stored.db.col[c].is_deleted = Terminal
                                 /\ stored.db.col[c].seq = x.seq}
        Bury(stored, sent) ==
            CascadeTombstones(stored, Buried(stored, sent), x.before, x.seq, x.now)
        StoreAll(sorted) == Bury(Batch("collection upserts", sorted, x), sorted.upserts)
    IN  StoreAll(Each("collections", p, req.col, x))

PushBookmarks(p, req, x) == Batch("bookmark upserts", Each("bookmarks", p, req.bm, x), x)

PushGroups(p, req, x) == Batch("group upserts", Each("groups", p, req.grp, x), x)

(* The transaction: its database and its rejections.                          *)
Pushed(d, req, horizon, seq, now) ==
    LET x  == [before |-> d, version |-> req.version, horizon |-> horizon, seq |-> seq, now |-> now,
               metadata |-> {w \in Workspaces :
                                \E i \in DOMAIN req.ws : req.ws[i].id = w /\ req.ws[i].op = "metadata"}]
        p1 == PushWorkspaces(Start(d, horizon), req, x)
        p2 == PushCollections(p1, req, x)
        p3 == PushBookmarks(p2, req, x)
    IN  PushGroups(p3, req, x)

(* The rows of the last transaction may be of the same millisecond.           *)
Horizons(d) == {d.seq, d.seq - 1} \cap Nat

(* After the commit the upserts and the deletes go out at the same time, from *)
(* two goroutines.                                                            *)
Push(req, horizon) ==
    \E p \in {Pushed(db, req, horizon, NextSeq(db), clock)} :
        /\ Commit(p.db)
        /\ index' \in {(index \cup p.searchUpserts) \ p.searchDeletes,
                       (index \ p.searchDeletes) \cup p.searchUpserts}

-------------------------------------------------------------------------------
(* A user after some transactions: a push stored every workspace as active,   *)
(* perhaps a collection of them, a bookmark in it and a group, in any state;  *)
(* then perhaps one workspace was deleted, by either model, and purged.       *)

Stored(d, C, B, G, w) ==
    [d EXCEPT
      !.ws  = [v \in Workspaces |-> [is_deleted |-> Active, deletion_model |-> 1,
                                     deleted_at |-> Null, seq |-> 1]],
      !.col = [c \in Collections |-> IF c \in DOMAIN C
                  THEN [is_deleted |-> C[c], workspace_id |-> w,
                        deleted_at |-> IF C[c] = Active THEN Null ELSE 0, seq |-> 1]
                  ELSE NoCollection],
      !.bm  = [b \in Bookmarks |-> IF b \in DOMAIN B /\ DOMAIN C # {}
                  THEN [is_trashed |-> B[b], collection_id |-> CHOOSE c \in DOMAIN C : TRUE,
                        deleted_at |-> IF B[b] = Active THEN Null ELSE 0, seq |-> 1]
                  ELSE NoBookmark],
      !.grp = [g \in Groups |-> IF g \in G
                  THEN [is_deleted |-> Active, workspace_id |-> w,
                        deleted_at |-> Null, seq |-> 1]
                  ELSE NoGroup]]

SomeOf(S) == UNION {[T -> {Active, Retained, Terminal}] : T \in {U \in SUBSET S : Cardinality(U) <= 1}}

Moved(d) ==
    {d} \cup UNION {{Applied(d, w, "delete", model, 3, 0),
                     Applied(Applied(d, w, "delete", model, 2, 0), w, "purge", 1, 3, 0)} :
                        w \in Workspaces, model \in {0, 1}}

(* A bookmark as the routes and pushes index it: live, and not of a workspace *)
(* that was deleted with all it holds.  The legacy deletion passes over the   *)
(* bookmarks of a collection in the trash, and so do their documents.         *)
Indexed(d, b) ==
    /\ d.bm[b].is_trashed = Active
    /\ d.bm[b].deleted_at = Null
    /\ \A w \in Workspaces : b \in BookmarksOf(d, w) =>
          d.ws[w].is_deleted = Active \/ d.ws[w].deletion_model = 0

PushInit ==
    /\ \E w \in Workspaces, C \in SomeOf(Collections), B \in SomeOf(Bookmarks), G \in {{}, Groups} :
          \E d \in Moved(Stored(EmptyDatabase, C, B, G, w)) : db = [d EXCEPT !.seq = 3]
    /\ clock = 0
    /\ shown = [w \in Workspaces |-> Nothing]
    /\ index = {b \in Bookmarks : Indexed(db, b)}

PushNext ==
    \/ db.seq < MaxSeq /\ \E req \in Requests, horizon \in Horizons(db) : Push(req, horizon)
    \/ \E w \in Workspaces : RestoreWorkspace(w) /\ SendEffect(Effect(db, w, "restore", 1))

PushSpec == PushInit /\ [][PushNext]_searchVars

-------------------------------------------------------------------------------
(* Properties.                                                                *)

(* What the answer says of a request: an entity that is listed once and not   *)
(* rejected is stored as it was sent, with the push's sequence number, or its *)
(* lifecycle action holds; and when everything was rejected, nothing but the  *)
(* sequence number has changed.                                               *)
Once(list, i) == \A j \in DOMAIN list \ {i} : list[j].id # list[i].id

Taken(rejected, type, list) ==
    {list[i] : i \in {j \in DOMAIN list :
        Once(list, j) /\ \A r \in rejected : ~(r.type = type /\ r.id = list[j].id)}}

OpState(op) == CASE op = "delete" -> Retained
                 [] op = "purge" -> Terminal
                 [] OTHER -> Active

HonestAnswer(p, d, req, seq, now) ==
    LET taken(type, list) == Taken(p.rejected, type, list)
        lists == <<req.ws, req.col, req.bm, req.grp>>
        refused == /\ \A list \in {lists[k] : k \in 1..4} : \A i \in DOMAIN list : Once(list, i)
                   /\ taken("workspace", req.ws) \cup taken("collection", req.col)
                        \cup taken("bookmark", req.bm) \cup taken("saved_group", req.grp) = {}
    IN
    /\ \A i \in taken("workspace", req.ws) :
          /\ p.db.ws[i.id].is_deleted = OpState(i.op)
          /\ i.op = "metadata" => p.db.ws[i.id].seq = seq
    /\ \A i \in taken("collection", req.col) :
          p.db.col[i.id] = [is_deleted |-> i.state, workspace_id |-> i.parent,
                            deleted_at |-> ClientStamp(i, now), seq |-> seq]
    /\ \A i \in taken("bookmark", req.bm) :
          p.db.bm[i.id] = [is_trashed |-> i.state, collection_id |-> i.parent,
                           deleted_at |-> ClientStamp(i, now), seq |-> seq]
    /\ \A i \in taken("saved_group", req.grp) :
          p.db.grp[i.id] = [is_deleted |-> i.state, workspace_id |-> i.parent,
                            deleted_at |-> ClientStamp(i, now), seq |-> seq]
    /\ refused => p.db = d

Honest(d, req, horizon, now) ==
    HonestAnswer(Pushed(d, req, horizon, NextSeq(d), now), d, req, NextSeq(d), now)

(* The rejections of a push tell its client exactly what happened: nothing is *)
(* lost without a rejection (the client drops what it sent), and nothing is   *)
(* stored against one.                                                        *)
AnswersAreHonest ==
    db.seq < MaxSeq =>
        \A req \in Requests, horizon \in Horizons(db) : Honest(db, req, horizon, clock)

(* A push that moves no workspace of the legacy deletion model never takes a  *)
(* table over its limit, in whatever order the request lists creations,       *)
(* tombstones and purges (retainedQuota against the upserts that follow).     *)
Within(limit, before, after) ==
    limit = Unlimited \/ Cardinality(after) <= Max({limit, Cardinality(before)})

Counted(table, State(_)) == {x \in DOMAIN table : State(table[x]) \in {Active, Retained}}

LegacyMove == \E w \in Workspaces : db'.ws[w].deletion_model # db.ws[w].deletion_model

WithinQuotas ==
    LET state(row) == row.is_deleted IN
    /\ Within(MaxWorkspaces, Counted(db.ws, state), Counted(db'.ws, state))
    /\ Within(MaxCollections, Counted(db.col, state), Counted(db'.col, state))
    /\ Within(MaxSavedGroups, Counted(db.grp, state), Counted(db'.grp, state))
    /\ Within(MaxBookmarks, Counted(db.bm, LAMBDA row : row.is_trashed),
                            Counted(db'.bm, LAMBDA row : row.is_trashed))

PushKeepsQuota == [][LegacyMove \/ WithinQuotas]_db

(* No client writes a live row under a workspace that is retained or purged   *)
(* when the push commits, of whichever version and whatever the same push did *)
(* to the workspace (the comment above the availability snapshot).  A push    *)
(* that restores a legacy deletion and deletes the workspace again is left    *)
(* out: its restore brings rows back.                                         *)
Shut(d, w) == w \in Workspaces /\ d.ws[w].is_deleted \in {Retained, Terminal}

ShutNow(w) ==
    Shut(db', w) /\ ~(db.ws[w].deletion_model = 0 /\ db'.ws[w].deletion_model = 1)

NoLiveWriteUnderDeleted ==
    [][/\ \A c \in Collections : db'.col[c] # db.col[c] /\ db'.col[c].is_deleted = Active
             => ~ShutNow(db'.col[c].workspace_id)
       /\ \A g \in Groups : db'.grp[g] # db.grp[g] /\ db'.grp[g].is_deleted = Active
             => ~ShutNow(db'.grp[g].workspace_id)
       /\ \A b \in Bookmarks, c \in Collections :
             /\ db'.bm[b] # db.bm[b]
             /\ db'.bm[b].is_trashed = Active
             /\ db'.bm[b].collection_id = c
             => ~ShutNow(db'.col[c].workspace_id)]_db

(* Every live bookmark has its document after a push or a restore that it had *)
(* before, or should have had: whatever the push stores, moves, trashes or    *)
(* restores, in whatever order the two batches of documents arrive.  Left out *)
(* are the bookmarks of a workspace that the push shuts or purges (its        *)
(* document may be removed after the push has moved it), those that a rescue  *)
(* brings back unchanged (see NoRescue), and those of a workspace that the    *)
(* same push deletes and restores, the one after the other: their documents   *)
(* are in both batches.                                                       *)
Overtaken(b) ==
    \E w \in Workspaces :
        /\ b \in BookmarksOf(db, w)
        /\ ~Restored(w)
        /\ \/ db'.ws[w] # db.ws[w] /\ (Shut(db, w) \/ Shut(db', w))
           \/ Shut(db, w) /\ db'.bm[b] = db.bm[b]

(* The request undoes with the one action what it did with the other.         *)
Undoes(req, w) ==
    LET lists(i, op) == req.ws[i] = [id |-> w, op |-> op] IN
    \E i, j \in DOMAIN req.ws :
        /\ i < j
        /\ IF Shut(db, w) THEN lists(i, "restore") /\ lists(j, "delete")
                          ELSE lists(i, "delete") /\ lists(j, "restore")

DeletedAndRestored(b) ==
    \E req \in {r \in Requests : \E w \in Workspaces : b \in BookmarksOf(db, w) /\ Undoes(r, w)},
       horizon \in Horizons(db) : Push(req, horizon)

PushedIsIndexed ==
    [][\A b \in Bookmarks :
         /\ Indexed(db, b) => b \in index
         /\ Indexed(db', b)
         /\ ~Overtaken(b)
         => b \in index' \/ DeletedAndRestored(b)]_searchVars

(* The comment above the collection loop: a collection stored under a         *)
(* retained or purged workspace is not rescued by a push that moves it to an  *)
(* active one.                                                                *)
NoRescue ==
    [][\A c \in Collections, w \in Workspaces :
         /\ db.col[c].workspace_id = w
         /\ Shut(db, w)
         /\ Shut(db', w)
         => db'.col[c].is_deleted = Absent \/ db'.col[c].workspace_id = w]_db
===============================================================================
