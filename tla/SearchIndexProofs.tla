--------------------------- MODULE SearchIndexProofs ---------------------------
(***************************************************************************)
(* Proofs about SearchIndex: a bookmark that a search may show always has  *)
(* a document, and no document is left of a bookmark without a row.        *)
(***************************************************************************)
EXTENDS SearchIndex, RestApiProofs

-------------------------------------------------------------------------------
(* The index takes part in the steps of RestApi and adds none of its own.     *)

(* A step with its documents is a step of the tables.                         *)
LEMMA SearchStepIsStep == [SearchNext]_searchVars => [Next]_vars
<1>1. ASSUME LifecycleSearch PROVE Next
  BY <1>1 DEF LifecycleSearch, LifecycleActions, Next, WorkspaceRoutes, DeleteWorkspace,
              RestoreWorkspace, PermanentlyDeleteWorkspace
<1>2. ASSUME ParentsSearch PROVE Next
  BY <1>2 DEF ParentsSearch, Next, WorkspaceRoutes
<1>3. ASSUME NEW b \in Bookmarks, BookmarkSearch(b) PROVE Next
  <2>1. BookmarkRoutes
    BY <1>3 DEF BookmarkSearch, BookmarkRoutes
  <2> QED BY <2>1 DEF Next
<1>4. CASE Reindex \/ UNCHANGED searchVars
  BY <1>4 DEF Reindex, searchVars, vars
<1> QED BY <1>1, <1>2, <1>3, <1>4 DEF SearchNext

(* What is proved of the routes holds beside the index too.                   *)
THEOREM SearchImplementsRestApi == SearchSpec => Spec
<1>1. SearchInit => Init
  BY DEF SearchInit
<1> QED BY <1>1, SearchStepIsStep, PTL DEF SearchSpec, Spec

-------------------------------------------------------------------------------
(* Visibility, workspace by workspace.                                        *)

(* A visible bookmark is under an active workspace.                           *)
LEMMA VisibleUnderActive ==
    ASSUME NEW d, NEW b \in Bookmarks, SearchVisible(d, b)
    PROVE  \E w \in Workspaces :
              /\ d.ws[w].is_deleted = Active
              /\ b \in LiveBookmarks(d, w) /\ b \in BookmarksOf(d, w)
BY DEF SearchVisible, CollectionUsable, CollectionListed, WorkspaceActive, ActiveWorkspaces,
       LiveBookmarks, LiveCollections, CollectionsOf, BookmarksOf

(* Under a workspace that is active before and after, and where nothing       *)
(* changed, the same bookmarks are visible.                                   *)
LEMMA VisibleElsewhere ==
    ASSUME NEW d, NEW e, NEW w \in Workspaces, SameUnder(d, e, w),
           d.ws[w].is_deleted = Active,
           NEW b \in BookmarksOf(e, w), SearchVisible(e, b)
    PROVE  b \in BookmarksOf(d, w) /\ SearchVisible(d, b)
<1>1. b \in BookmarksOf(d, w) /\ e.bm[b] = d.bm[b]
  BY DEF SameUnder
<1>2. e.bm[b].collection_id \in CollectionsOf(d, w)
  BY <1>1 DEF BookmarksOf
<1>3. e.col[e.bm[b].collection_id] = d.col[d.bm[b].collection_id]
  BY <1>1, <1>2 DEF SameUnder
<1>4. d.col[d.bm[b].collection_id].workspace_id = w
  BY <1>1, <1>2 DEF CollectionsOf
<1> QED BY <1>1, <1>3, <1>4 DEF SearchVisible, CollectionUsable, CollectionListed,
                                WorkspaceActive, ActiveWorkspaces

(* A lifecycle step leaves what is under the other workspaces, and their      *)
(* rows, alone.                                                               *)
LEMMA LifecycleElsewhere ==
    ASSUME NEW d \in Database, NEW e, NEW v \in Workspaces, NEW w \in Workspaces, v # w,
           NEW model \in {0, 1}, NEW seq \in Nat, NEW now \in Nat,
           LifecycleStep(d, e, v, model, seq, now)
    PROVE  SameUnder(d, e, w) /\ e.ws[w] = d.ws[w]
<1>1. e.ws[w] = d.ws[w]
  BY DEF LifecycleStep, DeleteStep, RestoreStep, PurgeStep, OneRow, Database
<1>2. CASE SameChildren(d, e)
  BY <1>1, <1>2, SameChildrenUnder
<1>3. CASE DeleteStep(d, e, v, model, seq, now)
  BY <1>1, <1>2, <1>3, MarkedSetsUnder, MarkedElsewhere DEF DeleteStep
<1>4. CASE RestoreStep(d, e, v, seq)
  BY <1>1, <1>2, <1>4, MarkedSetsUnder, MarkedElsewhere DEF RestoreStep
<1>5. CASE PurgeStep(d, e, v, seq)
  BY <1>1, <1>5, DroppedElsewhere DEF PurgeStep
<1> QED BY <1>3, <1>4, <1>5 DEF LifecycleStep

(* The documents each accepted action removes and sends.                      *)
LEMMA EffectOfAction ==
    ASSUME NEW d, NEW w, NEW action \in LifecycleActions, NEW model \in {0, 1},
           d.ws[w].deletion_model \in {0, 1}
    PROVE  LET effect == Effect(d, w, action, model) IN
           /\ ~Accepted(d, w, action, model) => effect.deletes = {} /\ effect.upserts = {}
           /\ Accepted(d, w, action, model) /\ action # "restore" =>
                 effect.deletes \subseteq BookmarksOf(d, w) /\ effect.upserts = {}
           /\ Accepted(d, w, action, model) /\ action = "purge" =>
                 effect.deletes = BookmarksOf(d, w)
           /\ Accepted(d, w, action, model) /\ action = "restore" =>
                 /\ effect.deletes = {}
                 /\ effect.upserts = IF d.ws[w].deletion_model = 0
                                     THEN EvidenceBookmarks(d, w)
                                     ELSE WorkspaceDocuments(d, w)
<1> DEFINE effect == Effect(d, w, action, model)
<1>1. LiveBookmarks(d, w) \subseteq BookmarksOf(d, w)
  BY MarkedSetsUnder
<1>2. ASSUME ~Accepted(d, w, action, model) PROVE effect.deletes = {} /\ effect.upserts = {}
  BY <1>2 DEF Accepted, Effect, NoEffect
<1>3. ASSUME Accepted(d, w, action, model), action # "restore"
      PROVE  /\ effect.deletes = IF action = "delete" /\ model = 0
                                 THEN LiveBookmarks(d, w)
                                 ELSE BookmarksOf(d, w)
             /\ effect.upserts = {}
  BY <1>3 DEF Accepted, Effect, NoEffect
<1>4. ASSUME Accepted(d, w, action, model), action = "restore"
      PROVE  /\ effect.deletes = {}
             /\ effect.upserts = IF d.ws[w].deletion_model = 0
                                 THEN EvidenceBookmarks(d, w)
                                 ELSE WorkspaceDocuments(d, w)
  BY <1>4 DEF Accepted, Effect, NoEffect
<1> HIDE DEF effect
<1>5. ASSUME Accepted(d, w, action, model), action = "purge"
      PROVE  effect.deletes = BookmarksOf(d, w)
  BY <1>3, <1>5
<1>6. ASSUME Accepted(d, w, action, model), action # "restore"
      PROVE  effect.deletes \subseteq BookmarksOf(d, w) /\ effect.upserts = {}
  BY <1>1, <1>3, <1>6
<1> QED BY <1>2, <1>4, <1>5, <1>6 DEF effect

-------------------------------------------------------------------------------
(* Completeness.                                                              *)

(* What AppliedRows says of an action, for tables e.                          *)
ActionStep(d, e, w, action, model, seq, now) ==
    /\ ~Accepted(d, w, action, model) => e = d
    /\ Accepted(d, w, action, model) =>
          \/ action = "delete"  /\ DeleteStep(d, e, w, model, seq, now)
          \/ action = "restore" /\ RestoreStep(d, e, w, seq)
          \/ action = "purge"   /\ PurgeStep(d, e, w, seq)

Complete(d, I) == \A b \in Bookmarks : SearchVisible(d, b) => b \in I

(* A lifecycle action of either deletion model: what becomes visible is sent, *)
(* and what is removed is not visible.                                        *)
LEMMA LifecycleIsComplete ==
    ASSUME NEW d \in Database, Cascaded(d), NEW I, Complete(d, I),
           NEW w \in Workspaces, NEW action \in LifecycleActions, NEW model \in {0, 1},
           NEW seq \in Nat, NEW now \in Nat,
           NEW e \in Database, ActionStep(d, e, w, action, model, seq, now)
    PROVE  Complete(e, (I \ Effect(d, w, action, model).deletes)
                          \cup Effect(d, w, action, model).upserts)
<1> DEFINE effect == Effect(d, w, action, model)
<1> SUFFICES ASSUME NEW b \in Bookmarks, SearchVisible(e, b)
             PROVE  b \in (I \ effect.deletes) \cup effect.upserts
  BY DEF Complete
<1>0. d.ws[w].deletion_model \in {0, 1} /\ d.ws \in [Workspaces -> WorkspaceRow]
  BY DEF Database, WorkspaceRow
<1>1. CASE ~Accepted(d, w, action, model)
  <2>1. e = d
    BY <1>1 DEF ActionStep
  <2>2. effect.deletes = {} /\ effect.upserts = {}
    BY <1>0, <1>1, EffectOfAction
  <2> HIDE DEF effect
  <2> QED BY <2>1, <2>2 DEF Complete
<1>2. CASE Accepted(d, w, action, model)
  <2> HIDE DEF effect
  <2>1. PICK v \in Workspaces : /\ e.ws[v].is_deleted = Active
                                /\ b \in LiveBookmarks(e, v) /\ b \in BookmarksOf(e, v)
    BY VisibleUnderActive
  <2>2. \/ action = "delete"  /\ DeleteStep(d, e, w, model, seq, now)
        \/ action = "restore" /\ RestoreStep(d, e, w, seq)
        \/ action = "purge"   /\ PurgeStep(d, e, w, seq)
    BY <1>2 DEF ActionStep
  <2>3. LifecycleStep(d, e, w, model, seq, now)
    BY <2>2 DEF LifecycleStep
  <2>4. CASE v # w
    <3>1. SameUnder(d, e, v) /\ e.ws[v] = d.ws[v]
      <4> HIDE DEF Complete
      <4>1. w # v
        BY <2>4
      <4> QED BY <2>3, <4>1, LifecycleElsewhere
    <3>2. b \in BookmarksOf(d, v) /\ SearchVisible(d, b)
      BY <2>1, <3>1, VisibleElsewhere
    <3>3. b \notin BookmarksOf(d, w)
      BY <2>4, <3>2 DEF BookmarksOf, CollectionsOf
    <3>4. effect.deletes \subseteq BookmarksOf(d, w)
      BY <1>0, <1>2, EffectOfAction DEF effect
    <3> QED BY <3>2, <3>3, <3>4 DEF Complete
  <2>5. CASE v = w
    <3>1. action = "restore" /\ RestoreStep(d, e, w, seq)
      <4>1. ~DeleteStep(d, e, w, model, seq, now)
        BY <1>0, <2>1, <2>5 DEF DeleteStep, OneRow, RetainedRow, Retained, Active
      <4>2. ~PurgeStep(d, e, w, seq)
        <5>1. PurgedRow(d.ws[w], seq).is_deleted = Terminal
          BY <1>0 DEF PurgedRow, WorkspaceRow
        <5> QED BY <1>0, <2>1, <2>5, <5>1 DEF PurgeStep, OneRow, Terminal, Active
      <4> QED BY <2>2, <4>1, <4>2
    <3>2. b \in Restorable(d, w).bm
      BY <2>1, <2>5, <3>1, RestoreBringsBack
    <3>3. LiveBookmarks(d, w) \subseteq WorkspaceDocuments(d, w)
      BY MarkedSetsUnder DEF LiveBookmarks, WorkspaceDocuments
    <3>4. Restorable(d, w).bm \subseteq effect.upserts
      <4>1. effect.upserts = IF d.ws[w].deletion_model = 0
                             THEN EvidenceBookmarks(d, w) ELSE WorkspaceDocuments(d, w)
        BY <1>0, <1>2, <3>1, EffectOfAction DEF effect
      <4> QED BY <3>3, <4>1 DEF Restorable
    <3> QED BY <3>2, <3>4
  <2> QED BY <2>4, <2>5
<1> QED BY <1>1, <1>2

(* Visibility reads three tables.                                             *)
LEMMA SameTablesVisible ==
    ASSUME NEW d, NEW e, d.ws = e.ws, d.col = e.col, d.bm = e.bm
    PROVE  \A b \in Bookmarks : SearchVisible(d, b) <=> SearchVisible(e, b)
BY DEF SearchVisible, CollectionUsable, CollectionListed, WorkspaceActive, ActiveWorkspaces

(* Creating a workspace, and writing a collection, make nothing visible: no   *)
(* row is under what does not exist yet, and a collection moves only from one *)
(* active workspace to another.                                               *)
LEMMA WorkspaceWriteShowsNothing ==
    ASSUME NEW d \in Database, NEW e, ParentsPresent(d), NEW w \in Workspaces, NEW seq,
           WorkspaceWrite(d, e, w, seq), NEW b \in Bookmarks, SearchVisible(e, b)
    PROVE  SearchVisible(d, b)
<1> DEFINE c == e.bm[b].collection_id
           v == e.col[c].workspace_id
<1>1. e.bm = d.bm /\ e.col = d.col
  BY DEF WorkspaceWrite, SameChildren
<1>2. c \in CollectionsOf(d, v) /\ v \in Workspaces /\ e.ws[v].is_deleted = Active
  BY <1>1 DEF SearchVisible, CollectionUsable, CollectionListed, WorkspaceActive, ActiveWorkspaces,
              CollectionsOf
<1>3. d.ws[v].is_deleted = Active
  <2>1. d.ws[v].is_deleted # Absent
    BY <1>2 DEF ParentsPresent
  <2>2. CASE v = w
    BY <2>1, <2>2 DEF WorkspaceWrite
  <2>3. CASE v # w
    BY <1>2, <2>3 DEF WorkspaceWrite, OneRow, Database
  <2> QED BY <2>2, <2>3
<1> QED BY <1>1, <1>2, <1>3 DEF SearchVisible, CollectionUsable, CollectionListed, WorkspaceActive,
                                ActiveWorkspaces

(* A collection route makes no bookmark visible that was not.                 *)
LEMMA CollectionWriteShowsNothing ==
    ASSUME NEW d \in Database, NEW e, ParentsPresent(d),
           NEW c \in Collections, NEW row, NEW seq,
           CollectionWrite(d, e, c, row, seq), NEW b \in Bookmarks, SearchVisible(e, b)
    PROVE  SearchVisible(d, b)
<1>1. e.bm = d.bm /\ e.ws = d.ws
  BY DEF CollectionWrite
<1>2. e.col[c] = row /\ \A k \in Collections : k # c => e.col[k] = d.col[k]
  BY DEF CollectionWrite, Database
<1>3. CASE e.bm[b].collection_id # c
  BY <1>1, <1>2, <1>3 DEF SearchVisible, CollectionUsable, CollectionListed, WorkspaceActive,
                          ActiveWorkspaces
<1>4. CASE e.bm[b].collection_id = c
  <2>1. row.is_deleted = Active
    BY <1>2, <1>4 DEF SearchVisible, CollectionUsable
  <2>2. d.col[c].is_deleted # Absent
    BY <1>1, <1>4 DEF ParentsPresent
  <2>3. CollectionListed(d, c) /\ d.col[c].is_deleted = Active
    BY <2>1, <2>2 DEF CollectionWrite, Active, Retained
  <2> QED BY <1>1, <1>4, <2>3 DEF SearchVisible, CollectionUsable
<1> QED BY <1>3, <1>4

-------------------------------------------------------------------------------
(* No leftovers.                                                              *)

Backed(d, I) == \A b \in I : b \in Bookmarks /\ d.bm[b].is_trashed # Absent

(* A purge removes the documents of every row it drops; a deletion or a       *)
(* restore drops none.                                                        *)
LEMMA LifecycleIsBacked ==
    ASSUME NEW d \in Database, NEW I, Backed(d, I),
           NEW w \in Workspaces, NEW action \in LifecycleActions, NEW model \in {0, 1},
           NEW seq \in Nat, NEW now \in Nat,
           NEW e \in Database, ActionStep(d, e, w, action, model, seq, now)
    PROVE  Backed(e, (I \ Effect(d, w, action, model).deletes)
                        \cup Effect(d, w, action, model).upserts)
<1> DEFINE effect == Effect(d, w, action, model)
<1>0. d.ws[w].deletion_model \in {0, 1}
  BY DEF Database, WorkspaceRow
<1>1. /\ ~Accepted(d, w, action, model) => effect.deletes = {} /\ effect.upserts = {}
      /\ Accepted(d, w, action, model) /\ action # "restore" => effect.upserts = {}
      /\ Accepted(d, w, action, model) /\ action = "purge" => effect.deletes = BookmarksOf(d, w)
      /\ Accepted(d, w, action, model) /\ action = "restore" =>
            effect.upserts = IF d.ws[w].deletion_model = 0
                             THEN EvidenceBookmarks(d, w) ELSE WorkspaceDocuments(d, w)
  BY <1>0, EffectOfAction
<1> HIDE DEF effect
<1> SUFFICES Backed(e, (I \ effect.deletes) \cup effect.upserts)
  BY DEF effect
<1>2. Backed(d, effect.upserts)
  <2>1. Backed(d, EvidenceBookmarks(d, w))
    BY DEF Backed, EvidenceBookmarks, Retained, Absent
  <2>2. Backed(d, WorkspaceDocuments(d, w))
    BY DEF Backed, WorkspaceDocuments, BookmarksOf, Active, Absent
  <2>3. Backed(d, {})
    BY DEF Backed
  <2> QED BY <1>1, <2>1, <2>2, <2>3
<1>3. CASE ~Accepted(d, w, action, model)
  BY <1>1, <1>3 DEF ActionStep, Backed
<1>4. CASE Accepted(d, w, action, model) /\ action = "purge"
  <2>1. DroppedChildren(d, e, w)
    BY <1>4 DEF ActionStep, PurgeStep
  <2>2. effect.deletes = BookmarksOf(d, w) /\ effect.upserts = {}
    BY <1>1, <1>4
  <2> QED BY <2>1, <2>2 DEF DroppedChildren, Backed
<1>5. CASE Accepted(d, w, action, model) /\ action # "purge"
  <2>1. \A b \in Bookmarks : d.bm[b].is_trashed # Absent => e.bm[b].is_trashed # Absent
    <3>1. CASE SameChildren(d, e)
      BY <3>1 DEF SameChildren
    <3>2. ASSUME NEW C, NEW B, NEW G, NEW state, state # Absent, NEW at,
                 MarkedChildren(d, e, C, B, G, state, at, seq)
          PROVE  \A b \in Bookmarks : d.bm[b].is_trashed # Absent => e.bm[b].is_trashed # Absent
      <4>1. \A b \in Bookmarks :
               e.bm[b].is_trashed = IF b \in B THEN state ELSE d.bm[b].is_trashed
        BY <3>2, MarkedFields
      <4> QED BY <3>2, <4>1
    <3>3. Retained # Absent /\ Active # Absent
      BY DEF Retained, Active, Absent
    <3>4. DeleteStep(d, e, w, model, seq, now) \/ RestoreStep(d, e, w, seq)
      BY <1>5 DEF ActionStep
    <3> QED BY <3>1, <3>2, <3>3, <3>4 DEF DeleteStep, RestoreStep
  <2> QED BY <1>2, <2>1 DEF Backed
<1> QED BY <1>3, <1>4, <1>5

-------------------------------------------------------------------------------
(* The invariant.  The index relies on what the tables and their history      *)
(* guarantee: without foreign keys a new workspace could show old bookmarks,  *)
(* and the legacy restore sends only the bookmarks with sequence evidence,    *)
(* which are all of them because the cascade left none active.                *)

SearchOK == HistoryOK /\ Complete(db, index) /\ Backed(db, index)

(* A lifecycle action, and a legacy push, with its documents.                 *)
LEMMA LifecycleSearchStep ==
    ASSUME SearchOK, LifecycleSearch
    PROVE  Complete(db', index') /\ Backed(db', index')
<1>0. db \in Database /\ clock \in Nat /\ NextSeq(db) \in Nat /\ Cascaded(db)
  BY DEF SearchOK, HistoryOK, TypeOK, NextSeq, Database
<1>1. PICK w \in Workspaces, action \in LifecycleActions, model \in {0, 1} :
         /\ Store(Applied(db, w, action, model, NextSeq(db), clock))
         /\ SendEffect(Effect(db, w, action, model))
  BY DEF LifecycleSearch, Apply, PushLegacyDelete, Commit, LifecycleActions
<1> DEFINE e == Applied(db, w, action, model, NextSeq(db), clock)
           effect == Effect(db, w, action, model)
<1>2. e \in Database
  BY ApplyType DEF SearchOK, HistoryOK
<1>3. ActionStep(db, e, w, action, model, NextSeq(db), clock)
  BY <1>0, AppliedRows DEF ActionStep
<1>4. db'.ws = e.ws /\ db'.col = e.col /\ db'.bm = e.bm
  BY <1>1, <1>2, StoreTables
<1>5. index' = (index \ effect.deletes) \cup effect.upserts
  BY <1>1 DEF SendEffect
<1> HIDE DEF e
<1>6. Complete(e, index')
  BY <1>0, <1>2, <1>3, <1>5, LifecycleIsComplete DEF SearchOK
<1>7. Backed(e, index')
  BY <1>0, <1>2, <1>3, <1>5, LifecycleIsBacked DEF SearchOK
<1>8. \A b \in Bookmarks : SearchVisible(db', b) <=> SearchVisible(e, b)
  BY <1>4, SameTablesVisible
<1>9. Complete(db', index')
  BY <1>6, <1>8 DEF Complete
<1>10. Backed(db', index')
  BY <1>4, <1>7 DEF Backed
<1> QED BY <1>9, <1>10

(* A route that sends nothing shows nothing new, and drops no bookmark.       *)
LEMMA ParentsSearchStep ==
    ASSUME SearchOK, ParentsSearch
    PROVE  Complete(db', index') /\ Backed(db', index')
<1>0. /\ TypeOK /\ db \in Database /\ clock \in Nat /\ NextSeq(db) \in Nat
      /\ ParentsPresent(db) /\ index' = index
  BY DEF SearchOK, HistoryOK, TypeOK, Consistent, NextSeq, Database, ParentsSearch
<1> SUFFICES ASSUME TRUE
             PROVE  /\ \A b \in Bookmarks : SearchVisible(db', b) => SearchVisible(db, b)
                    /\ db'.bm = db.bm
  BY <1>0 DEF SearchOK, Complete, Backed
<1>1. CASE Tick
  BY <1>1 DEF Tick
<1>2. CASE CollectionRoutes
  <2>1. PICK c \in Collections, row \in CollectionRow :
           CollectionWrite(db, db', c, row, NextSeq(db))
    BY <1>0, <1>2, CollectionRouteWrites
  <2>2. db'.bm = db.bm
    BY <2>1 DEF CollectionWrite
  <2> QED BY <1>0, <2>1, <2>2, CollectionWriteShowsNothing
<1>3. ASSUME NEW w \in Workspaces, CreateWorkspace(w) \/ UpdateWorkspace(w)
      PROVE  /\ \A b \in Bookmarks : SearchVisible(db', b) => SearchVisible(db, b)
             /\ db'.bm = db.bm
  <2>1. PICK v \in Workspaces : WorkspaceWrite(db, db', v, NextSeq(db))
    BY <1>0, <1>3, WorkspaceRowWrites
  <2>2. db'.bm = db.bm
    BY <2>1 DEF WorkspaceWrite, SameChildren
  <2> QED BY <1>0, <2>1, <2>2, WorkspaceWriteShowsNothing
<1> QED BY <1>1, <1>2, <1>3 DEF ParentsSearch

(* A route of one bookmark writes its row and sends or removes its document.  *)
LEMMA BookmarkDocument ==
    ASSUME TypeOK, NEW b \in Bookmarks, BookmarkSearch(b)
    PROVE  /\ db'.ws = db.ws /\ db'.col = db.col
           /\ \A k \in Bookmarks : k # b => db'.bm[k] = db.bm[k]
           /\ db'.bm[b].is_trashed # Absent
           /\ index' \in {index, index \cup {b}, index \ {b}}
           /\ db'.bm[b].is_trashed = Active /\ db'.bm[b].deleted_at = Null => b \in index'
<1>0. /\ db \in Database /\ clock \in Nat /\ NextSeq(db) \in Nat
      /\ db.bm \in [Bookmarks -> BookmarkRow]
  BY DEF TypeOK, NextSeq, Database
<1>1. ASSUME NEW parent \in Collections \cup {NoId}, NEW trashed \in {Active, Retained},
             \/ CreateBookmark(b, parent, trashed)
             \/ parent \in Collections /\ UpdateBookmark(b, parent, trashed),
             index' \in {index, index \cup {b}, index \ {b}},
             trashed = Active => b \in index'
      PROVE  /\ db'.ws = db.ws /\ db'.col = db.col
             /\ \A k \in Bookmarks : k # b => db'.bm[k] = db.bm[k]
             /\ db'.bm[b].is_trashed # Absent
             /\ db'.bm[b].is_trashed = Active => b \in index'
  <2> DEFINE row == [is_trashed |-> trashed, collection_id |-> parent,
                     deleted_at |-> Null, seq |-> NextSeq(db)]
             e == [db EXCEPT !.bm[b] = row]
  <2>1. e \in Database /\ Store(e)
    BY <1>0, <1>1, RouteType DEF CreateBookmark, UpdateBookmark, Commit
  <2>2. e.ws = db.ws /\ e.col = db.col /\ e.bm = [db.bm EXCEPT ![b] = row]
    BY <1>0 DEF Database
  <2>3. row.is_trashed = trashed
    OBVIOUS
  <2> HIDE DEF e, row
  <2>4. db'.ws = e.ws /\ db'.col = e.col /\ db'.bm = e.bm
    BY <2>1, StoreTables
  <2> QED BY <1>0, <1>1, <2>2, <2>3, <2>4 DEF Active, Retained, Absent
<1>2. ASSUME DeleteBookmark(b), RemoveDocument(b)
      PROVE  /\ db'.ws = db.ws /\ db'.col = db.col
             /\ \A k \in Bookmarks : k # b => db'.bm[k] = db.bm[k]
             /\ db'.bm[b].is_trashed # Absent
             /\ db'.bm[b].deleted_at # Null
  <2> DEFINE row == [db.bm[b] EXCEPT !.deleted_at = clock, !.seq = NextSeq(db)]
             e == [db EXCEPT !.bm[b].deleted_at = clock, !.bm[b].seq = NextSeq(db)]
  <2>1. row.is_trashed = db.bm[b].is_trashed /\ row.deleted_at = clock
    BY <1>0 DEF BookmarkRow
  <2>2. e \in Database /\ Store(e)
    BY <1>0, <1>2, RouteType DEF DeleteBookmark, Commit
  <2>3. e.ws = db.ws /\ e.col = db.col /\ e.bm = [db.bm EXCEPT ![b] = row]
    BY <1>0 DEF Database
  <2> HIDE DEF e, row
  <2>4. db'.ws = e.ws /\ db'.col = e.col /\ db'.bm = e.bm
    BY <2>2, StoreTables
  <2>5. db.bm[b].is_trashed # Absent
    BY <1>2 DEF DeleteBookmark, BookmarkReachable
  <2> QED BY <1>0, <2>1, <2>3, <2>4, <2>5 DEF Null
<1>3. CASE DeleteBookmark(b) /\ RemoveDocument(b)
  BY <1>2, <1>3 DEF RemoveDocument
<1>4. CASE \E parent \in Collections \cup {NoId} :
              \/ CreateBookmark(b, parent, Active) /\ SendDocument(b)
              \/ CreateBookmark(b, parent, Retained) /\ UNCHANGED index
  BY <1>1, <1>4 DEF SendDocument, Active, Retained
<1>5. CASE \E c \in Collections :
              \/ UpdateBookmark(b, c, Active) /\ SendDocument(b)
              \/ UpdateBookmark(b, c, Retained) /\ RemoveDocument(b)
  BY <1>1, <1>5 DEF SendDocument, RemoveDocument, Active, Retained
<1> QED BY <1>3, <1>4, <1>5 DEF BookmarkSearch

(* A bookmark route with its document keeps the index complete and backed.    *)
LEMMA BookmarkSearchStep ==
    ASSUME SearchOK, NEW b \in Bookmarks, BookmarkSearch(b)
    PROVE  Complete(db', index') /\ Backed(db', index')
<1>1. /\ db'.ws = db.ws /\ db'.col = db.col
      /\ \A k \in Bookmarks : k # b => db'.bm[k] = db.bm[k]
      /\ db'.bm[b].is_trashed # Absent
      /\ index' \in {index, index \cup {b}, index \ {b}}
      /\ db'.bm[b].is_trashed = Active /\ db'.bm[b].deleted_at = Null => b \in index'
  BY BookmarkDocument DEF SearchOK, HistoryOK
<1>2. ASSUME NEW k \in Bookmarks, SearchVisible(db', k) PROVE k \in index'
  <2>1. CASE k = b
    BY <1>1, <1>2, <2>1 DEF SearchVisible
  <2>2. CASE k # b
    <3>1. SearchVisible(db, k)
      BY <1>1, <1>2, <2>2 DEF SearchVisible, CollectionUsable, CollectionListed, WorkspaceActive,
                              ActiveWorkspaces
    <3> QED BY <1>1, <2>2, <3>1 DEF SearchOK, Complete
  <2> QED BY <2>1, <2>2
<1>3. Backed(db', index')
  BY <1>1 DEF SearchOK, Backed
<1> QED BY <1>2, <1>3 DEF Complete

(* Every step keeps the invariant.                                            *)
LEMMA SearchStep == SearchOK /\ [SearchNext]_searchVars => SearchOK'
<1> SUFFICES ASSUME SearchOK, [SearchNext]_searchVars PROVE SearchOK'
  OBVIOUS
<1>1. HistoryOK'
  BY SearchStepIsStep, HistoryStep DEF SearchOK
<1>2. Complete(db', index') /\ Backed(db', index')
  <2>1. CASE Reindex
    <3>1. db' = db
      BY <2>1 DEF Reindex, vars
    <3> QED BY <2>1, <3>1 DEF Reindex, Complete, Backed, SearchVisible, Active, Absent
  <2>2. CASE UNCHANGED searchVars
    BY <2>2 DEF searchVars, SearchOK
  <2> QED BY <2>1, <2>2, LifecycleSearchStep, ParentsSearchStep, BookmarkSearchStep DEF SearchNext
<1> QED BY <1>1, <1>2 DEF SearchOK

(* It holds at the start.                                                     *)
LEMMA SearchInitOK == SearchInit => SearchOK
<1> SUFFICES ASSUME SearchInit PROVE SearchOK
  OBVIOUS
<1>1. \A b \in Bookmarks : db.bm[b].is_trashed = Absent
  <2> USE DEF EmptyDatabase, NoBookmark
  <2>1. CASE db = EmptyDatabase
    BY <2>1
  <2>2. ASSUME NEW v \in Workspaces, NEW G \in SUBSET Groups, db = FirstPush(v, G)
        PROVE  \A b \in Bookmarks : db.bm[b].is_trashed = Absent
    BY <2>2 DEF FirstPush
  <2> QED BY <2>1, <2>2 DEF SearchInit, Init
<1> QED BY <1>1, HistoryInit DEF SearchInit, SearchOK, Complete, Backed, SearchVisible, Active, Absent

(* And so always.                                                             *)
LEMMA SearchAlways == SearchSpec => []SearchOK
<1> QED BY SearchInitOK, SearchStep, PTL DEF SearchSpec

(* Every bookmark a search may show has a document, whatever sequence of      *)
(* deletions, moves and restores of either deletion model came before.        *)
THEOREM IndexComplete == SearchSpec => []IndexIsComplete
<1>1. SearchOK => IndexIsComplete
  BY DEF SearchOK, Complete, IndexIsComplete
<1> QED BY <1>1, SearchAlways, PTL

(* The purge removes every document of the rows it drops, so none outlives    *)
(* its row.                                                                   *)
THEOREM DocumentsHaveRows == SearchSpec => []NoDocumentOutlivesItsRow
<1>1. SearchOK => NoDocumentOutlivesItsRow
  BY DEF SearchOK, Backed, NoDocumentOutlivesItsRow
<1> QED BY <1>1, SearchAlways, PTL
===============================================================================
