------------------------------ MODULE SearchIndex ------------------------------
(***************************************************************************)
(* The MeiliSearch index beside the tables: which bookmarks have a         *)
(* document (internal/search/client.go), and what the REST routes and the  *)
(* workspace lifecycle send it after their commit.                         *)
(*                                                                         *)
(* Assumption: documents arrive at once and in the order of the commits.   *)
(* The client sends each batch from a goroutine of its own and only logs   *)
(* failures, so the index may lag or drift; what is modelled is what the   *)
(* handlers ask for.  A search shows the documents that                    *)
(* visibleBookmarkIDs (internal/handler/search.go) finds in the tables.    *)
(***************************************************************************)
EXTENDS RestApi

VARIABLE index   \* the bookmarks that have a document

searchVars == <<db, clock, shown, index>>

-------------------------------------------------------------------------------
(* Documents.                                                                 *)

SendDocument(b)   == index' = index \cup {b}
RemoveDocument(b) == index' = index \ {b}

(* Apply hands over the deletions first.                                      *)
SendEffect(effect) == index' = (index \ effect.deletes) \cup effect.upserts

(* The candidates a search keeps.                                             *)
SearchVisible(d, b) ==
    /\ d.bm[b].is_trashed = Active
    /\ d.bm[b].deleted_at = Null
    /\ CollectionUsable(d, d.bm[b].collection_id)

SearchInit == Init /\ index = {}

(* cmd/reindex, run while no request is under way: the index is dropped and   *)
(* built again from the table.                                                *)
Reindex ==
    /\ index' = {b \in Bookmarks : db.bm[b].is_trashed = Active /\ db.bm[b].deleted_at = Null}
    /\ UNCHANGED vars

-------------------------------------------------------------------------------
(* The routes, with the documents they send.                                  *)

LifecycleSearch ==
    \E w \in Workspaces :
        \/ \E action \in LifecycleActions :
              Apply(w, action, 1) /\ SendEffect(Effect(db, w, action, 1))
        \/ PushLegacyDelete(w) /\ SendEffect(Effect(db, w, "delete", 0))

(* Neither a workspace's own row nor a collection is in the index, and        *)
(* deleting or moving a collection sends nothing for its bookmarks.           *)
ParentsSearch ==
    /\ \/ \E w \in Workspaces : CreateWorkspace(w) \/ UpdateWorkspace(w)
       \/ CollectionRoutes
       \/ Tick
    /\ UNCHANGED index

BookmarkSearch(b) ==
    \/ \E parent \in Collections \cup {NoId} :
          \/ CreateBookmark(b, parent, Active) /\ SendDocument(b)
          \/ CreateBookmark(b, parent, Retained) /\ UNCHANGED index
    \/ \E c \in Collections :
          \/ UpdateBookmark(b, c, Active) /\ SendDocument(b)
          \/ UpdateBookmark(b, c, Retained) /\ RemoveDocument(b)
    \/ DeleteBookmark(b) /\ RemoveDocument(b)

SearchNext ==
    \/ LifecycleSearch
    \/ ParentsSearch
    \/ \E b \in Bookmarks : BookmarkSearch(b)
    \/ Reindex

SearchSpec == SearchInit /\ [][SearchNext]_searchVars

-------------------------------------------------------------------------------
(* Properties.                                                                *)

(* Every bookmark a search may show has a document: no sequence of deletions, *)
(* moves and restores, of either deletion model, brings a bookmark back       *)
(* without one.                                                               *)
IndexIsComplete == \A b \in Bookmarks : SearchVisible(db, b) => b \in index

(* The index keeps no document of a bookmark without a row: a document that   *)
(* nothing removes any more would take a place among the twenty hits of every *)
(* search it matches.                                                         *)
NoDocumentOutlivesItsRow == \A b \in index : db.bm[b].is_trashed # Absent
===============================================================================
