---------------------------- MODULE SyncPullProofs ----------------------------
(***************************************************************************)
(* Proofs about SyncPull: a device that pulls while nothing commits has    *)
(* what the server has, and no interleaving of pulls and transactions      *)
(* takes a device back.                                                    *)
(***************************************************************************)
EXTENDS SyncPull, RestApiProofs

-------------------------------------------------------------------------------
(* The pull reads the tables and writes none of them.                         *)

(* Every step of a device beside the routes is a step of the routes or leaves *)
(* the tables alone.                                                          *)
LEMMA PullStepIsStep == [PullNext]_pullVars => [Next]_vars
<1>1. CASE Writers
  BY <1>1 DEF Writers
<1>2. CASE \E n \in {0, copy.seq} : StartPull(n)
  BY <1>2 DEF StartPull, vars
<1>3. CASE PullWorkspaces \/ PullCollections \/ PullBookmarks \/ PullGroups
  BY <1>3 DEF PullWorkspaces, PullCollections, PullBookmarks, PullGroups, Query, vars
<1>4. CASE FinishPull \/ LosePull \/ UNCHANGED pullVars
  BY <1>4 DEF FinishPull, LosePull, pullVars, vars
<1> QED BY <1>1, <1>2, <1>3, <1>4 DEF PullNext

(* What is proved of the routes holds beside the pulls too.                   *)
THEOREM PullImplementsRestApi == PullSpec => Spec
<1>1. PullInit => Init
  BY DEF PullInit
<1> QED BY <1>1, PullStepIsStep, PTL DEF PullSpec, Spec

-------------------------------------------------------------------------------
(* The invariant.                                                             *)

(* Every row of d is in e as it is in d, table by table.                      *)
HasWorkspaces(e, d)  == \A w \in Workspaces  : d.ws[w].is_deleted  # Absent => e.ws[w]  = d.ws[w]
HasCollections(e, d) == \A c \in Collections : d.col[c].is_deleted # Absent => e.col[c] = d.col[c]
HasBookmarks(e, d)   == \A b \in Bookmarks   : d.bm[b].is_trashed  # Absent => e.bm[b]  = d.bm[b]
HasGroups(e, d)      == \A g \in Groups      : d.grp[g].is_deleted # Absent => e.grp[g] = d.grp[g]

(* The rows of d with a sequence number up to n are all in e.                 *)
IncludesUpTo(e, d, n) ==
    /\ \A w \in Workspaces  : d.ws[w].is_deleted  # Absent /\ d.ws[w].seq  <= n => e.ws[w]  = d.ws[w]
    /\ \A c \in Collections : d.col[c].is_deleted # Absent /\ d.col[c].seq <= n => e.col[c] = d.col[c]
    /\ \A b \in Bookmarks   : d.bm[b].is_trashed  # Absent /\ d.bm[b].seq  <= n => e.bm[b]  = d.bm[b]
    /\ \A g \in Groups      : d.grp[g].is_deleted # Absent /\ d.grp[g].seq <= n => e.grp[g] = d.grp[g]

(* A device that stored quiet pulls only has what the server has up to its    *)
(* place: what it lacks was written later.                                    *)
UpToDate == clean => IncludesUpTo(copy, db, copy.seq)

(* A pull runs from the device's place or from 0.                             *)
Started == at # "idle" => after \in {0, copy.seq}

(* The tables that are not queried yet are the device's.                      *)
Pending ==
    /\ at = "workspaces" => got.ws = copy.ws
    /\ at \in {"workspaces", "collections"} => got.col = copy.col
    /\ at \in {"workspaces", "collections", "bookmarks"} => got.bm = copy.bm
    /\ at \in {"workspaces", "collections", "bookmarks", "groups"} => got.grp = copy.grp

(* Those that are, and that nothing changed since, are the server's.          *)
Fetched ==
    /\ at \in {"collections", "bookmarks", "groups", "server_seq"} => HasWorkspaces(got, db)
    /\ at \in {"bookmarks", "groups", "server_seq"} => HasCollections(got, db)
    /\ at \in {"groups", "server_seq"} => HasBookmarks(got, db)
    /\ at = "server_seq" => HasGroups(got, db)

(* The tombstones of the device are the server's, and a pull takes them over. *)
Buried ==
    /\ \A w \in Workspaces : copy.ws[w].is_deleted = Terminal => db.ws[w].is_deleted = Terminal
    /\ \A w \in Workspaces : got.ws[w].is_deleted = Terminal => db.ws[w].is_deleted = Terminal
    /\ at # "idle" => \A w \in Workspaces : copy.ws[w].is_deleted = Terminal =>
                                            got.ws[w].is_deleted = Terminal

PullOK ==
    /\ TypeOK
    /\ Consistent(db)
    /\ PullTypeOK
    /\ UpToDate
    /\ Started
    /\ Pending
    /\ (quiet /\ (after = 0 \/ clean)) => Fetched
    /\ Buried

-------------------------------------------------------------------------------
(* The transactions between the queries.                                      *)

(* A row that a transaction changed is gone or carries a later number, and a  *)
(* tombstone stays.                                                           *)
LEMMA LaterRows ==
    ASSUME TypeOK, [Next]_vars
    PROVE  /\ db'.seq >= db.seq
           /\ \A w \in Workspaces : db'.ws[w] = db.ws[w] \/ db'.ws[w].seq > db.seq
           /\ \A c \in Collections : \/ db'.col[c] = db.col[c]
                                     \/ db'.col[c].is_deleted = Absent
                                     \/ db'.col[c].seq > db.seq
           /\ \A b \in Bookmarks : \/ db'.bm[b] = db.bm[b]
                                   \/ db'.bm[b].is_trashed = Absent
                                   \/ db'.bm[b].seq > db.seq
           /\ \A g \in Groups : \/ db'.grp[g] = db.grp[g]
                                \/ db'.grp[g].is_deleted = Absent
                                \/ db'.grp[g].seq > db.seq
<1>0. db.seq \in Nat
  BY DEF TypeOK, Database
<1>1. CASE db' = db
  BY <1>0, <1>1
<1>2. CASE db' # db
  <2>1. Published(db, db')
    BY <1>2, PublishedStep
  <2>2. db'.seq > db.seq /\ db'.seq \in Nat
    BY <1>0, <2>1, NextType DEF Published, TypeOK, Database
  <2>3. \A w \in Workspaces : db'.ws[w] # db.ws[w] => db'.ws[w].seq = db'.seq
    BY <2>1 DEF Published
  <2>4. \A c \in Collections : db'.col[c] # db.col[c] /\ db'.col[c].is_deleted # Absent =>
                                 db'.col[c].seq = db'.seq
    BY <2>1 DEF Published
  <2>5. \A b \in Bookmarks : db'.bm[b] # db.bm[b] /\ db'.bm[b].is_trashed # Absent =>
                               db'.bm[b].seq = db'.seq
    BY <2>1 DEF Published
  <2>6. \A g \in Groups : db'.grp[g] # db.grp[g] /\ db'.grp[g].is_deleted # Absent =>
                            db'.grp[g].seq = db'.seq
    BY <2>1 DEF Published
  <2> QED BY <1>0, <2>2, <2>3, <2>4, <2>5, <2>6
<1> QED BY <1>1, <1>2

(* A purged workspace stays one.                                              *)
LEMMA TombstonesStay ==
    ASSUME TypeOK, [Next]_vars, NEW w \in Workspaces, db.ws[w].is_deleted = Terminal
    PROVE  db'.ws[w].is_deleted = Terminal
<1>1. RowStep(db.ws[w], db'.ws[w]) /\ db.ws[w] \in WorkspaceRow
  BY WorkspaceStep DEF TypeOK, Database
<1> QED BY <1>1, RowStepStates DEF Absent, Active, Retained, Terminal

(* So a place in the sequence stays a place: what a device has up to there it *)
(* still has.                                                                 *)
LEMMA PlaceIsKept ==
    ASSUME TypeOK, [Next]_vars, NEW e, NEW n \in Nat, n <= db.seq, IncludesUpTo(e, db, n)
    PROVE  IncludesUpTo(e, db', n)
<1>0. db.seq \in Nat /\ db' \in Database
  BY NextType DEF TypeOK, Database
<1>1. /\ \A w \in Workspaces : db'.ws[w].seq \in Nat
      /\ \A c \in Collections : db'.col[c].seq \in Nat
      /\ \A b \in Bookmarks : db'.bm[b].seq \in Nat
      /\ \A g \in Groups : db'.grp[g].seq \in Nat
  BY <1>0 DEF Database, WorkspaceRow, CollectionRow, BookmarkRow, GroupRow
<1>2. ASSUME NEW w \in Workspaces, db'.ws[w].is_deleted # Absent, db'.ws[w].seq <= n
      PROVE  e.ws[w] = db'.ws[w]
  <2>1. db'.ws[w] = db.ws[w]
    BY <1>0, <1>1, <1>2, LaterRows
  <2> QED BY <1>2, <2>1 DEF IncludesUpTo
<1>3. ASSUME NEW c \in Collections, db'.col[c].is_deleted # Absent, db'.col[c].seq <= n
      PROVE  e.col[c] = db'.col[c]
  <2>1. db'.col[c] = db.col[c]
    BY <1>0, <1>1, <1>3, LaterRows
  <2> QED BY <1>3, <2>1 DEF IncludesUpTo
<1>4. ASSUME NEW b \in Bookmarks, db'.bm[b].is_trashed # Absent, db'.bm[b].seq <= n
      PROVE  e.bm[b] = db'.bm[b]
  <2>1. db'.bm[b] = db.bm[b]
    BY <1>0, <1>1, <1>4, LaterRows
  <2> QED BY <1>4, <2>1 DEF IncludesUpTo
<1>5. ASSUME NEW g \in Groups, db'.grp[g].is_deleted # Absent, db'.grp[g].seq <= n
      PROVE  e.grp[g] = db'.grp[g]
  <2>1. db'.grp[g] = db.grp[g]
    BY <1>0, <1>1, <1>5, LaterRows
  <2> QED BY <1>5, <2>1 DEF IncludesUpTo
<1> QED BY <1>2, <1>3, <1>4, <1>5 DEF IncludesUpTo

(* A transaction in the middle of a pull: the pull is no longer quiet.        *)
LEMMA WritersStep == PullOK /\ Writers => PullOK'
<1> SUFFICES ASSUME PullOK, Writers PROVE PullOK'
  OBVIOUS
<1>1. /\ TypeOK /\ Consistent(db) /\ [Next]_vars
      /\ UNCHANGED <<copy, at, after, got, clean>>
      /\ quiet' = (quiet /\ db' = db)
  BY DEF PullOK, Writers
<1>2. TypeOK'
  BY <1>1, NextType
<1>3. Consistent(db)'
  BY <1>1, ConsistentStep
<1>4. PullTypeOK'
  <2>1. db'.seq \in Nat /\ db'.seq >= db.seq /\ db.seq \in Nat /\ copy.seq \in Nat
    BY <1>1, <1>2, LaterRows DEF TypeOK, Database, PullOK, PullTypeOK
  <2>2. after' \in 0..db'.seq /\ copy'.seq <= db'.seq
    BY <1>1, <2>1 DEF PullOK, PullTypeOK
  <2> QED BY <1>1, <2>2 DEF PullOK, PullTypeOK
<1>5. UpToDate'
  <2>1. copy.seq \in Nat /\ copy.seq <= db.seq
    BY DEF PullOK, PullTypeOK, Database
  <2> QED BY <1>1, <2>1, PlaceIsKept DEF PullOK, UpToDate
<1>6. Started' /\ Pending'
  BY <1>1 DEF PullOK, Started, Pending
<1>7. ((quiet /\ (after = 0 \/ clean)) => Fetched)'
  <2> SUFFICES ASSUME db' = db, quiet, after = 0 \/ clean PROVE Fetched'
    BY <1>1
  <2>1. Fetched
    BY DEF PullOK
  <2> QED BY <1>1, <2>1 DEF Fetched, HasWorkspaces, HasCollections, HasBookmarks, HasGroups
<1>8. Buried'
  <2>1. \A w \in Workspaces :
           db.ws[w].is_deleted = Terminal => db'.ws[w].is_deleted = Terminal
    BY <1>1, TombstonesStay
  <2> QED BY <1>1, <2>1 DEF PullOK, Buried
<1> QED BY <1>2, <1>3, <1>4, <1>5, <1>6, <1>7, <1>8 DEF PullOK

-------------------------------------------------------------------------------
(* The steps of a pull.                                                       *)

(* A pull begins.                                                             *)
LEMMA StartStep == PullOK /\ (\E n \in {0, copy.seq} : StartPull(n)) => PullOK'
<1> SUFFICES ASSUME PullOK, NEW n \in {0, copy.seq}, StartPull(n) PROVE PullOK'
  OBVIOUS
<1>1. /\ at' = "workspaces" /\ after' = n /\ got' = copy /\ quiet' = TRUE
      /\ UNCHANGED <<db, clock, shown, copy, clean>>
  BY DEF StartPull
<1>2. TypeOK' /\ Consistent(db')
  BY <1>1 DEF PullOK, TypeOK
<1>3. PullTypeOK'
  <2>1. n \in 0..db.seq
    BY DEF PullOK, PullTypeOK, TypeOK, Database
  <2> QED BY <1>1, <2>1 DEF PullOK, PullTypeOK, Tables
<1>4. UpToDate' /\ Started' /\ Pending' /\ Fetched'
  BY <1>1 DEF PullOK, UpToDate, Started, Pending, Fetched
<1>5. Buried'
  BY <1>1 DEF PullOK, Buried
<1> QED BY <1>2, <1>3, <1>4, <1>5 DEF PullOK

(* What a query leaves alone.                                                 *)
LEMMA QueryKeeps ==
    ASSUME PullOK, NEW table \in Tables, NEW next \in Tables, NEW rows \in Database,
           Query(table, next, rows)
    PROVE  /\ TypeOK' /\ Consistent(db') /\ PullTypeOK' /\ UpToDate' /\ Started'
           /\ at = table /\ at' = next /\ got' = rows
           /\ UNCHANGED <<db, clock, shown, copy, after, quiet, clean>>
           /\ after \in {0, copy.seq}
<1>1. /\ at = table /\ at' = next /\ got' = rows
      /\ UNCHANGED <<db, clock, shown, copy, after, quiet, clean>>
  BY DEF Query
<1>2. TypeOK' /\ Consistent(db')
  BY <1>1 DEF PullOK, TypeOK
<1>3. PullTypeOK'
  BY <1>1 DEF PullOK, PullTypeOK
<1>4. after \in {0, copy.seq}
  BY <1>1 DEF PullOK, Started, Tables
<1>5. UpToDate' /\ Started'
  BY <1>1, <1>4 DEF PullOK, UpToDate, Started
<1> QED BY <1>1, <1>2, <1>3, <1>4, <1>5

(* An incremental query fetches the rows above the device's place, and the    *)
(* device has the others.                                                     *)
LEMMA AboveOrBelow ==
    ASSUME PullOK, after \in {0, copy.seq}, after = 0 \/ clean
    PROVE  /\ \A c \in Collections : db.col[c].is_deleted # Absent =>
                  db.col[c].seq > after \/ copy.col[c] = db.col[c]
           /\ \A b \in Bookmarks : db.bm[b].is_trashed # Absent =>
                  db.bm[b].seq > after \/ copy.bm[b] = db.bm[b]
           /\ \A g \in Groups : db.grp[g].is_deleted # Absent =>
                  db.grp[g].seq > after \/ copy.grp[g] = db.grp[g]
<1>1. CASE after = 0
  BY <1>1 DEF PullOK, Consistent, Sequenced
<1>2. CASE after # 0
  <2>1. IncludesUpTo(copy, db, after)
    BY <1>2 DEF PullOK, UpToDate
  <2>2. /\ after \in Nat
        /\ \A c \in Collections : db.col[c].seq \in Nat
        /\ \A b \in Bookmarks : db.bm[b].seq \in Nat
        /\ \A g \in Groups : db.grp[g].seq \in Nat
    BY DEF PullOK, PullTypeOK, TypeOK, Database, CollectionRow, BookmarkRow, GroupRow
  <2> QED BY <2>1, <2>2 DEF IncludesUpTo
<1> QED BY <1>1, <1>2

(* The query of the workspaces, which returns them all.                       *)
LEMMA WorkspacesStep == PullOK /\ PullWorkspaces => PullOK'
<1> SUFFICES ASSUME PullOK, PullWorkspaces PROVE PullOK'
  OBVIOUS
<1> DEFINE ws   == [w \in Workspaces |-> IF db.ws[w].is_deleted # Absent
                                         THEN db.ws[w] ELSE got.ws[w]]
           rows == [got EXCEPT !.ws = ws]
<1>0. db \in Database /\ got \in Database
  BY DEF PullOK, PullTypeOK, TypeOK
<1>1. ws \in [Workspaces -> WorkspaceRow]
  BY <1>0 DEF Database
<1>2. /\ rows \in Database
      /\ rows.ws = ws /\ rows.col = got.col /\ rows.bm = got.bm /\ rows.grp = got.grp
  <2> HIDE DEF ws
  <2> QED BY <1>0, <1>1 DEF Database
<1>3. Query("workspaces", "collections", rows)
  BY DEF PullWorkspaces
<1>4. \A w \in Workspaces :
         ws[w] = IF db.ws[w].is_deleted # Absent THEN db.ws[w] ELSE got.ws[w]
  OBVIOUS
<1> HIDE DEF ws, rows
<1>5. /\ TypeOK' /\ Consistent(db') /\ PullTypeOK' /\ UpToDate' /\ Started'
      /\ at = "workspaces" /\ at' = "collections" /\ got' = rows
      /\ UNCHANGED <<db, clock, shown, copy, after, quiet, clean>>
  BY <1>2, <1>3, QueryKeeps DEF Tables
<1>6. Pending'
  BY <1>2, <1>5 DEF PullOK, Pending
<1>7. Fetched'
  <2>1. HasWorkspaces(rows, db)
    BY <1>2, <1>4 DEF HasWorkspaces
  <2> QED BY <1>5, <2>1 DEF Fetched
<1>8. Buried'
  <2>1. \A w \in Workspaces : rows.ws[w] = db.ws[w] \/ rows.ws[w] = got.ws[w]
    BY <1>2, <1>4
  <2>2. \A w \in Workspaces : db.ws[w].is_deleted = Terminal => rows.ws[w] = db.ws[w]
    BY <1>2, <1>4 DEF Terminal, Absent
  <2> QED BY <1>5, <2>1, <2>2 DEF PullOK, Buried
<1> QED BY <1>5, <1>6, <1>7, <1>8 DEF PullOK

(* The query of the collections.                                              *)
LEMMA CollectionsStep == PullOK /\ PullCollections => PullOK'
<1> SUFFICES ASSUME PullOK, PullCollections PROVE PullOK'
  OBVIOUS
<1> DEFINE col  == [c \in Collections |-> IF db.col[c].seq > after
                                          THEN db.col[c] ELSE got.col[c]]
           rows == [got EXCEPT !.col = col]
<1>0. db \in Database /\ got \in Database
  BY DEF PullOK, PullTypeOK, TypeOK
<1>1. col \in [Collections -> CollectionRow]
  BY <1>0 DEF Database
<1>2. /\ rows \in Database
      /\ rows.ws = got.ws /\ rows.col = col /\ rows.bm = got.bm /\ rows.grp = got.grp
  <2> HIDE DEF col
  <2> QED BY <1>0, <1>1 DEF Database
<1>3. Query("collections", "bookmarks", rows)
  BY DEF PullCollections
<1>4. \A c \in Collections : col[c] = IF db.col[c].seq > after THEN db.col[c] ELSE got.col[c]
  OBVIOUS
<1> HIDE DEF col, rows
<1>5. /\ TypeOK' /\ Consistent(db') /\ PullTypeOK' /\ UpToDate' /\ Started'
      /\ at = "collections" /\ at' = "bookmarks" /\ got' = rows
      /\ UNCHANGED <<db, clock, shown, copy, after, quiet, clean>>
      /\ after \in {0, copy.seq}
  BY <1>2, <1>3, QueryKeeps DEF Tables
<1>6. Pending'
  BY <1>2, <1>5 DEF PullOK, Pending
<1>7. ASSUME quiet, after = 0 \/ clean PROVE Fetched'
  <2>1. HasWorkspaces(got, db)
    BY <1>5, <1>7 DEF PullOK, Fetched
  <2>2. got.col = copy.col
    BY <1>5 DEF PullOK, Pending
  <2>3. HasCollections(rows, db)
    BY <1>2, <1>4, <1>5, <1>7, <2>2, AboveOrBelow DEF HasCollections
  <2>4. HasWorkspaces(rows, db)
    BY <1>2, <2>1 DEF HasWorkspaces
  <2> QED BY <1>5, <2>3, <2>4 DEF Fetched
<1>8. Buried'
  BY <1>2, <1>5 DEF PullOK, Buried
<1> QED BY <1>5, <1>6, <1>7, <1>8 DEF PullOK

(* The query of the bookmarks.                                                *)
LEMMA BookmarksStep == PullOK /\ PullBookmarks => PullOK'
<1> SUFFICES ASSUME PullOK, PullBookmarks PROVE PullOK'
  OBVIOUS
<1> DEFINE bm   == [b \in Bookmarks |-> IF db.bm[b].seq > after THEN db.bm[b] ELSE got.bm[b]]
           rows == [got EXCEPT !.bm = bm]
<1>0. db \in Database /\ got \in Database
  BY DEF PullOK, PullTypeOK, TypeOK
<1>1. bm \in [Bookmarks -> BookmarkRow]
  BY <1>0 DEF Database
<1>2. /\ rows \in Database
      /\ rows.ws = got.ws /\ rows.col = got.col /\ rows.bm = bm /\ rows.grp = got.grp
  <2> HIDE DEF bm
  <2> QED BY <1>0, <1>1 DEF Database
<1>3. Query("bookmarks", "groups", rows)
  BY DEF PullBookmarks
<1>4. \A b \in Bookmarks : bm[b] = IF db.bm[b].seq > after THEN db.bm[b] ELSE got.bm[b]
  OBVIOUS
<1> HIDE DEF bm, rows
<1>5. /\ TypeOK' /\ Consistent(db') /\ PullTypeOK' /\ UpToDate' /\ Started'
      /\ at = "bookmarks" /\ at' = "groups" /\ got' = rows
      /\ UNCHANGED <<db, clock, shown, copy, after, quiet, clean>>
      /\ after \in {0, copy.seq}
  BY <1>2, <1>3, QueryKeeps DEF Tables
<1>6. Pending'
  BY <1>2, <1>5 DEF PullOK, Pending
<1>7. ASSUME quiet, after = 0 \/ clean PROVE Fetched'
  <2>1. HasWorkspaces(got, db) /\ HasCollections(got, db)
    BY <1>5, <1>7 DEF PullOK, Fetched
  <2>2. got.bm = copy.bm
    BY <1>5 DEF PullOK, Pending
  <2>3. HasBookmarks(rows, db)
    BY <1>2, <1>4, <1>5, <1>7, <2>2, AboveOrBelow DEF HasBookmarks
  <2>4. HasWorkspaces(rows, db) /\ HasCollections(rows, db)
    BY <1>2, <2>1 DEF HasWorkspaces, HasCollections
  <2> QED BY <1>5, <2>3, <2>4 DEF Fetched
<1>8. Buried'
  BY <1>2, <1>5 DEF PullOK, Buried
<1> QED BY <1>5, <1>6, <1>7, <1>8 DEF PullOK

(* The query of the groups.                                                   *)
LEMMA GroupsStep == PullOK /\ PullGroups => PullOK'
<1> SUFFICES ASSUME PullOK, PullGroups PROVE PullOK'
  OBVIOUS
<1> DEFINE grp  == [g \in Groups |-> IF db.grp[g].seq > after THEN db.grp[g] ELSE got.grp[g]]
           rows == [got EXCEPT !.grp = grp]
<1>0. db \in Database /\ got \in Database
  BY DEF PullOK, PullTypeOK, TypeOK
<1>1. grp \in [Groups -> GroupRow]
  BY <1>0 DEF Database
<1>2. /\ rows \in Database
      /\ rows.ws = got.ws /\ rows.col = got.col /\ rows.bm = got.bm /\ rows.grp = grp
  <2> HIDE DEF grp
  <2> QED BY <1>0, <1>1 DEF Database
<1>3. Query("groups", "server_seq", rows)
  BY DEF PullGroups
<1>4. \A g \in Groups : grp[g] = IF db.grp[g].seq > after THEN db.grp[g] ELSE got.grp[g]
  OBVIOUS
<1> HIDE DEF grp, rows
<1>5. /\ TypeOK' /\ Consistent(db') /\ PullTypeOK' /\ UpToDate' /\ Started'
      /\ at = "groups" /\ at' = "server_seq" /\ got' = rows
      /\ UNCHANGED <<db, clock, shown, copy, after, quiet, clean>>
      /\ after \in {0, copy.seq}
  BY <1>2, <1>3, QueryKeeps DEF Tables
<1>6. Pending'
  BY <1>5 DEF Pending
<1>7. ASSUME quiet, after = 0 \/ clean PROVE Fetched'
  <2>1. HasWorkspaces(got, db) /\ HasCollections(got, db) /\ HasBookmarks(got, db)
    BY <1>5, <1>7 DEF PullOK, Fetched
  <2>2. got.grp = copy.grp
    BY <1>5 DEF PullOK, Pending
  <2>3. HasGroups(rows, db)
    BY <1>2, <1>4, <1>5, <1>7, <2>2, AboveOrBelow DEF HasGroups
  <2>4. HasWorkspaces(rows, db) /\ HasCollections(rows, db) /\ HasBookmarks(rows, db)
    BY <1>2, <2>1 DEF HasWorkspaces, HasCollections, HasBookmarks
  <2> QED BY <1>5, <2>3, <2>4 DEF Fetched
<1>8. Buried'
  BY <1>2, <1>5 DEF PullOK, Buried
<1> QED BY <1>5, <1>6, <1>7, <1>8 DEF PullOK

(* The answer with the counter's value: the device has every row, if nothing  *)
(* committed since the pull began.                                            *)
LEMMA FinishStep == PullOK /\ FinishPull => PullOK'
<1> SUFFICES ASSUME PullOK, FinishPull PROVE PullOK'
  OBVIOUS
<1>0. got \in Database /\ db.seq \in Nat
  BY DEF PullOK, PullTypeOK, TypeOK, Database
<1>1. /\ at = "server_seq" /\ at' = "idle" /\ after' = 0 /\ got' = EmptyDatabase
      /\ copy' = [got EXCEPT !.seq = db.seq]
      /\ clean' = (quiet /\ (after = 0 \/ clean))
      /\ UNCHANGED <<db, clock, shown, quiet>>
  BY DEF FinishPull, EndPull
<1>2. /\ copy' \in Database /\ copy'.seq = db.seq
      /\ copy'.ws = got.ws /\ copy'.col = got.col /\ copy'.bm = got.bm /\ copy'.grp = got.grp
  BY <1>0, <1>1 DEF Database
<1>3. TypeOK' /\ Consistent(db')
  BY <1>1 DEF PullOK, TypeOK
<1>4. PullTypeOK'
  BY <1>0, <1>1, <1>2, EmptyType DEF PullOK, PullTypeOK
<1>5. UpToDate'
  <2> SUFFICES ASSUME quiet, after = 0 \/ clean PROVE IncludesUpTo(copy', db, db.seq)
    BY <1>1, <1>2 DEF UpToDate
  <2>1. /\ HasWorkspaces(got, db) /\ HasCollections(got, db)
        /\ HasBookmarks(got, db) /\ HasGroups(got, db)
    BY <1>1 DEF PullOK, Fetched
  <2> QED BY <1>2, <2>1
          DEF IncludesUpTo, HasWorkspaces, HasCollections, HasBookmarks, HasGroups
<1>6. Started' /\ Pending' /\ Fetched'
  BY <1>1 DEF Started, Pending, Fetched
<1>7. Buried'
  <2>1. \A w \in Workspaces : EmptyDatabase.ws[w].is_deleted # Terminal
    BY DEF EmptyDatabase, NoWorkspace, Terminal, Absent
  <2> QED BY <1>1, <1>2, <2>1 DEF PullOK, Buried
<1> QED BY <1>3, <1>4, <1>5, <1>6, <1>7 DEF PullOK

(* A failed or lost pull leaves the device as it was.                         *)
LEMMA LoseStep == PullOK /\ LosePull => PullOK'
<1> SUFFICES ASSUME PullOK, LosePull PROVE PullOK'
  OBVIOUS
<1>1. /\ at' = "idle" /\ after' = 0 /\ got' = EmptyDatabase
      /\ UNCHANGED <<db, clock, shown, copy, quiet, clean>>
  BY DEF LosePull, EndPull
<1>2. TypeOK' /\ Consistent(db')
  BY <1>1 DEF PullOK, TypeOK
<1>3. PullTypeOK'
  BY <1>1, EmptyType DEF PullOK, PullTypeOK, TypeOK, Database
<1>4. UpToDate' /\ Started' /\ Pending' /\ Fetched'
  BY <1>1 DEF PullOK, UpToDate, Started, Pending, Fetched
<1>5. Buried'
  <2>1. \A w \in Workspaces : EmptyDatabase.ws[w].is_deleted # Terminal
    BY DEF EmptyDatabase, NoWorkspace, Terminal, Absent
  <2> QED BY <1>1, <2>1 DEF PullOK, Buried
<1> QED BY <1>2, <1>3, <1>4, <1>5 DEF PullOK

(* Every step, and the steps of neither.                                      *)
LEMMA PullStep == PullOK /\ [PullNext]_pullVars => PullOK'
<1> SUFFICES ASSUME PullOK, [PullNext]_pullVars PROVE PullOK'
  OBVIOUS
<1>1. CASE UNCHANGED pullVars
  BY <1>1 DEF pullVars, PullOK, TypeOK, PullTypeOK, UpToDate, Started, Pending, Fetched, Buried
<1> QED BY <1>1, StartStep, WorkspacesStep, CollectionsStep, BookmarksStep, GroupsStep,
           FinishStep, LoseStep, WritersStep DEF PullNext

(* The invariant holds at the start.                                          *)
LEMMA PullInitOK == PullInit => PullOK
<1> SUFFICES ASSUME PullInit PROVE PullOK
  OBVIOUS
<1>1. /\ Init /\ copy = EmptyDatabase /\ at = "idle" /\ after = 0
      /\ got = EmptyDatabase /\ quiet = TRUE /\ clean = TRUE
  BY DEF PullInit
<1>2. TypeOK /\ Consistent(db)
  BY <1>1, InitType, ConsistentInit
<1>3. copy.seq = 0 /\ db.seq \in Nat
  BY <1>1, <1>2 DEF EmptyDatabase, TypeOK, Database
<1>4. PullTypeOK
  BY <1>1, <1>3, EmptyType DEF PullTypeOK
<1>5. UpToDate
  <2>1. /\ \A w \in Workspaces : db.ws[w].seq \in Nat
        /\ \A c \in Collections : db.col[c].seq \in Nat
        /\ \A b \in Bookmarks : db.bm[b].seq \in Nat
        /\ \A g \in Groups : db.grp[g].seq \in Nat
    BY <1>2 DEF TypeOK, Database, WorkspaceRow, CollectionRow, BookmarkRow, GroupRow
  <2>2. Sequenced(db)
    BY <1>2 DEF Consistent
  <2> QED BY <1>3, <2>1, <2>2 DEF UpToDate, IncludesUpTo, Sequenced
<1>6. Started /\ Pending /\ Fetched
  BY <1>1 DEF Started, Pending, Fetched
<1>7. Buried
  <2>1. \A w \in Workspaces : EmptyDatabase.ws[w].is_deleted # Terminal
    BY DEF EmptyDatabase, NoWorkspace, Terminal, Absent
  <2> QED BY <1>1, <2>1 DEF Buried
<1> QED BY <1>2, <1>4, <1>5, <1>6, <1>7 DEF PullOK

(* And so always.                                                             *)
LEMMA PullAlways == PullSpec => []PullOK
<1> QED BY PullInitOK, PullStep, PTL DEF PullSpec

-------------------------------------------------------------------------------
(* The theorems.                                                              *)

(* The device and its pull keep their types, and a pull never starts from a   *)
(* sequence number that the server has not reached (currentSeq is read from   *)
(* the counter that incrementSeq only raises).                                *)
THEOREM PullTypeCorrect == PullSpec => []PullTypeOK
<1> QED BY PullAlways, PTL DEF PullOK

(* Pulls that nothing commits into converge: a device at the server's         *)
(* sequence number that stored only such pulls has every row the server has,  *)
(* as it is now, whatever was incremental, repeated or lost (the six queries  *)
(* of SyncHandler.Pull and the server_seq it reads last).                     *)
THEOREM PullsConverge == PullSpec => []QuietPullsConverge
<1>1. PullOK => QuietPullsConverge
  <2> SUFFICES ASSUME PullOK, at = "idle", clean, copy.seq = db.seq
               PROVE  Includes(copy, db, 0)
    BY DEF QuietPullsConverge
  <2>1. IncludesUpTo(copy, db, db.seq)
    BY DEF PullOK, UpToDate
  <2>2. SeqBounded(db)
    BY DEF PullOK, Consistent
  <2> QED BY <2>1, <2>2 DEF IncludesUpTo, Includes, SeqBounded
<1> QED BY <1>1, PullAlways, PTL

(* A device never goes back: whatever commits between the queries, the number *)
(* it pulls from does not fall and a tombstone it has stays one.              *)
THEOREM DevicesNeverGoBack == PullSpec => DeviceNeverGoesBack
<1>1. ASSUME PullOK, [PullNext]_pullVars
      PROVE  [/\ copy'.seq >= copy.seq
              /\ \A w \in Workspaces :
                   copy.ws[w].is_deleted = Terminal => copy'.ws[w].is_deleted = Terminal]_copy
  <2>1. CASE FinishPull
    <3>1. at = "server_seq" /\ copy' = [got EXCEPT !.seq = db.seq]
      BY <2>1 DEF FinishPull
    <3>2. copy'.seq = db.seq /\ copy'.ws = got.ws
      BY <1>1, <3>1 DEF PullOK, PullTypeOK, Database
    <3>3. db.seq \in Nat /\ copy.seq \in Nat /\ copy.seq <= db.seq
      BY <1>1 DEF PullOK, PullTypeOK, TypeOK, Database
    <3>4. \A w \in Workspaces :
             copy.ws[w].is_deleted = Terminal => got.ws[w].is_deleted = Terminal
      BY <1>1, <3>1 DEF PullOK, Buried
    <3> QED BY <3>2, <3>3, <3>4
  <2>2. CASE ~FinishPull
    <3>1. copy' = copy
      BY <1>1, <2>2 DEF PullNext, StartPull, PullWorkspaces, PullCollections, PullBookmarks,
                        PullGroups, Query, LosePull, Writers, pullVars
    <3> QED BY <3>1
  <2> QED BY <2>1, <2>2
<1> QED BY <1>1, PullAlways, PTL DEF PullSpec, DeviceNeverGoesBack
===============================================================================
