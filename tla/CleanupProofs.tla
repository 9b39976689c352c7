----------------------------- MODULE CleanupProofs -----------------------------
(***************************************************************************)
(* Proofs about Cleanup, for any interleaving of rounds, clients, failed   *)
(* statements and restarts: the worker spares what is active, publishes    *)
(* every tombstone, keeps it for the window less what it was late, and     *)
(* strands no bookmark that is due itself; nobody brings a tombstone back. *)
(***************************************************************************)
EXTENDS Cleanup, RestApiProofs

-------------------------------------------------------------------------------
(* The tables the worker's own steps leave.                                   *)

(* Phase 1 touches the rows of a retained state past the limit only.          *)
LEMMA PromotedRows ==
    ASSUME NEW d \in Database, NEW limit \in Int, NEW seq \in Nat
    PROVE  LET e == Promoted(d, limit, seq) IN
           /\ e \in Database
           /\ e.ws = d.ws
           /\ \A b \in Bookmarks :
                 e.bm[b] = IF d.bm[b].is_trashed = Retained /\ Expired(d.bm[b].deleted_at, limit)
                           THEN [d.bm[b] EXCEPT !.is_trashed = Terminal, !.seq = seq]
                           ELSE d.bm[b]
           /\ \A c \in Collections :
                 e.col[c] = IF d.col[c].is_deleted = Retained /\ Expired(d.col[c].deleted_at, limit)
                            THEN [d.col[c] EXCEPT !.is_deleted = Terminal, !.seq = seq]
                            ELSE d.col[c]
           /\ \A g \in Groups :
                 e.grp[g] = IF d.grp[g].is_deleted = Retained /\ Expired(d.grp[g].deleted_at, limit)
                            THEN [d.grp[g] EXCEPT !.is_deleted = Terminal, !.seq = seq]
                            ELSE d.grp[g]
<1> DEFINE bm == [b \in Bookmarks |->
                    IF d.bm[b].is_trashed = Retained /\ Expired(d.bm[b].deleted_at, limit)
                    THEN [d.bm[b] EXCEPT !.is_trashed = Terminal, !.seq = seq] ELSE d.bm[b]]
           col == [c \in Collections |->
                    IF d.col[c].is_deleted = Retained /\ Expired(d.col[c].deleted_at, limit)
                    THEN [d.col[c] EXCEPT !.is_deleted = Terminal, !.seq = seq] ELSE d.col[c]]
           grp == [g \in Groups |->
                    IF d.grp[g].is_deleted = Retained /\ Expired(d.grp[g].deleted_at, limit)
                    THEN [d.grp[g] EXCEPT !.is_deleted = Terminal, !.seq = seq] ELSE d.grp[g]]
<1>1. bm \in [Bookmarks -> BookmarkRow]
  BY DEF Database, BookmarkRow, States
<1>2. col \in [Collections -> CollectionRow]
  BY DEF Database, CollectionRow, States
<1>3. grp \in [Groups -> GroupRow]
  BY DEF Database, GroupRow, States
<1>4. Promoted(d, limit, seq) = [d EXCEPT !.bm = bm, !.col = col, !.grp = grp]
  BY DEF Promoted
<1>5. /\ \A b \in Bookmarks :
            bm[b] = IF d.bm[b].is_trashed = Retained /\ Expired(d.bm[b].deleted_at, limit)
                    THEN [d.bm[b] EXCEPT !.is_trashed = Terminal, !.seq = seq] ELSE d.bm[b]
      /\ \A c \in Collections :
            col[c] = IF d.col[c].is_deleted = Retained /\ Expired(d.col[c].deleted_at, limit)
                     THEN [d.col[c] EXCEPT !.is_deleted = Terminal, !.seq = seq] ELSE d.col[c]
      /\ \A g \in Groups :
            grp[g] = IF d.grp[g].is_deleted = Retained /\ Expired(d.grp[g].deleted_at, limit)
                     THEN [d.grp[g] EXCEPT !.is_deleted = Terminal, !.seq = seq] ELSE d.grp[g]
  OBVIOUS
<1> HIDE DEF bm, col, grp
<1>6. /\ Promoted(d, limit, seq) \in Database
      /\ Promoted(d, limit, seq).ws = d.ws
      /\ Promoted(d, limit, seq).bm = bm /\ Promoted(d, limit, seq).col = col
      /\ Promoted(d, limit, seq).grp = grp
  BY <1>1, <1>2, <1>3, <1>4 DEF Database
<1> QED BY <1>5, <1>6

(* The backfill of the schema file trashes active collections only.           *)
LEMMA BackfilledRows ==
    ASSUME NEW d \in Database
    PROVE  LET e == Backfilled(d) IN
           /\ e \in Database
           /\ e.ws = d.ws /\ e.bm = d.bm /\ e.grp = d.grp
           /\ \A c \in Collections :
                 /\ e.col[c].deleted_at = d.col[c].deleted_at
                 /\ (e.col[c].is_deleted = Terminal) <=> (d.col[c].is_deleted = Terminal)
                 /\ (e.col[c].is_deleted = Absent) <=> (d.col[c].is_deleted = Absent)
<1> DEFINE col == [c \in Collections |->
                     IF d.col[c].is_deleted = Active /\ d.col[c].deleted_at # Null
                     THEN [d.col[c] EXCEPT !.is_deleted = Retained] ELSE d.col[c]]
<1>1. col \in [Collections -> CollectionRow]
  BY DEF Database, CollectionRow, States
<1>2. \A c \in Collections :
         /\ col[c].deleted_at = d.col[c].deleted_at
         /\ (col[c].is_deleted = Terminal) <=> (d.col[c].is_deleted = Terminal)
         /\ (col[c].is_deleted = Absent) <=> (d.col[c].is_deleted = Absent)
  BY DEF Database, CollectionRow, Active, Retained, Terminal, Absent
<1>3. Backfilled(d) = [d EXCEPT !.col = col]
  BY DEF Backfilled
<1> HIDE DEF col
<1> QED BY <1>1, <1>2, <1>3 DEF Database

(* A hard delete removes rows and cuts the bookmarks of removed collections   *)
(* loose; it changes no other field.                                          *)
LEMMA ErasedRows ==
    ASSUME NEW d \in Database, NEW S
    PROVE  /\ LET e == DropBookmarks(d, S) IN
              /\ e.ws = d.ws /\ e.col = d.col /\ e.grp = d.grp
              /\ \A b \in Bookmarks : e.bm[b] = IF b \in S THEN NoBookmark ELSE d.bm[b]
           /\ LET e == DropCollections(d, S) IN
              /\ e.ws = d.ws /\ e.grp = d.grp
              /\ \A c \in Collections : e.col[c] = IF c \in S THEN NoCollection ELSE d.col[c]
              /\ \A b \in Bookmarks : /\ e.bm[b].is_trashed = d.bm[b].is_trashed
                                      /\ e.bm[b].deleted_at = d.bm[b].deleted_at
           /\ LET e == DropGroups(d, S) IN
              /\ e.ws = d.ws /\ e.col = d.col /\ e.bm = d.bm
              /\ \A g \in Groups : e.grp[g] = IF g \in S THEN NoGroup ELSE d.grp[g]
<1>1. LET e == DropBookmarks(d, S) IN
      /\ e.ws = d.ws /\ e.col = d.col /\ e.grp = d.grp
      /\ \A b \in Bookmarks : e.bm[b] = IF b \in S THEN NoBookmark ELSE d.bm[b]
  BY DEF DropBookmarks, Database
<1>2. LET e == DropCollections(d, S) IN
      /\ e.ws = d.ws /\ e.grp = d.grp
      /\ \A c \in Collections : e.col[c] = IF c \in S THEN NoCollection ELSE d.col[c]
  BY DEF DropCollections, Database
<1>3. \A b \in Bookmarks : /\ DropCollections(d, S).bm[b].is_trashed = d.bm[b].is_trashed
                           /\ DropCollections(d, S).bm[b].deleted_at = d.bm[b].deleted_at
  BY DEF DropCollections, Database, BookmarkRow
<1>4. LET e == DropGroups(d, S) IN
      /\ e.ws = d.ws /\ e.col = d.col /\ e.bm = d.bm
      /\ \A g \in Groups : e.grp[g] = IF g \in S THEN NoGroup ELSE d.grp[g]
  BY DEF DropGroups, Database
<1> QED BY <1>1, <1>2, <1>3, <1>4

-------------------------------------------------------------------------------
(* Type correctness.                                                          *)

WorkerOK ==
    /\ pc \in Phases
    /\ now \in Nat
    /\ scanned \in [Workspaces -> Timestamp]
    /\ born \in [bm  : [Bookmarks -> Timestamp],
                 col : [Collections -> Timestamp],
                 grp : [Groups -> Timestamp]]

(* The worker starts well typed.                                              *)
LEMMA CleanupInitType == CleanupInit => CleanupTypeOK /\ now <= clock
<1> SUFFICES ASSUME CleanupInit PROVE CleanupTypeOK /\ now <= clock
  OBVIOUS
<1>1. \A w \in Workspaces, stamp \in {Null, 0} : Populated(w, stamp) \in Database
  BY DEF Populated, Database, NoBookmark, WorkspaceRow, CollectionRow, BookmarkRow, GroupRow,
         States, Timestamp, Active, Absent, Null
<1>2. db \in Database
  BY <1>1 DEF CleanupInit
<1>3. shown \in [Workspaces -> ShownRecord]
  BY DEF CleanupInit, Nothing, ShownRecord
<1>4. WorkerOK /\ now <= clock /\ clock \in Nat
  BY DEF CleanupInit, WorkerOK, Phases, NothingScanned, Timestamp
<1> QED BY <1>2, <1>3, <1>4 DEF CleanupTypeOK, TypeOK, WorkerOK

(* A step of the round or a restart keeps the type of the tables.             *)
LEMMA RoundTables ==
    ASSUME CleanupTypeOK, Round \/ Restart
    PROVE  TypeOK'
<1>0. db \in Database /\ clock \in Nat /\ now \in Nat /\ NextSeq(db) \in Nat /\ TypeOK
      /\ now - TrashGrace \in Int
  BY GraceAssumption DEF CleanupTypeOK, TypeOK, NextSeq, Database
<1>1. CASE UNCHANGED <<db, clock, shown>>
  BY <1>0, <1>1 DEF TypeOK
<1>2. ASSUME NEW e \in Database, db' = e, UNCHANGED <<clock, shown>> PROVE TypeOK'
  BY <1>0, <1>2 DEF TypeOK
<1>3. CASE Promote
  <2>1. Promoted(db, now - TrashGrace, NextSeq(db)) \in Database
    BY <1>0, PromotedRows
  <2> QED BY <1>0, <1>3, <2>1, StoreType DEF Promote
<1>4. ASSUME NEW w \in Workspaces, ExpireWorkspace(w) PROVE TypeOK'
  <2>1. Applied(db, w, "purge", 1, NextSeq(db), clock) \in Database
    BY <1>0, ApplyType DEF LifecycleActions
  <2> QED BY <1>0, <1>4, <2>1, StoreType DEF ExpireWorkspace
<1>5. CASE EraseBookmarks \/ EraseCollections \/ EraseGroups
  BY <1>0, <1>2, <1>5, DropType DEF EraseBookmarks, EraseCollections, EraseGroups, Erase
<1>6. CASE Restart
  BY <1>0, <1>2, <1>6, BackfilledRows DEF Restart
<1> QED BY <1>1, <1>3, <1>4, <1>5, <1>6 DEF Round, StartRound, FindDue, ScanWorkspaces,
           SkipWorkspace, FinishExpiry, StepFails, Keep

(* No client turns the clock back.                                            *)
LEMMA ClockAdvances ==
    ASSUME TypeOK, [Next]_vars
    PROVE  clock <= clock'
<1>1. CASE Tick \/ UNCHANGED vars
  BY <1>1 DEF Tick, vars, TypeOK
<1>2. ASSUME WorkspaceRoutes \/ CollectionRoutes \/ BookmarkRoutes PROVE clock' = clock
  BY <1>2, WorkspaceRouteWrites, CollectionRouteWrites, BookmarkRouteWrites DEF Numbered
<1> QED BY <1>1, <1>2 DEF Next, TypeOK

(* The worker's own variables.                                                *)
LEMMA WorkerType ==
    ASSUME CleanupTypeOK, now <= clock, [CleanupNext]_cleanupVars
    PROVE  WorkerOK' /\ now' <= clock'
<1>0. /\ WorkerOK /\ now <= clock /\ clock \in Nat
      /\ db.ws \in [Workspaces -> WorkspaceRow]
  BY DEF CleanupTypeOK, TypeOK, WorkerOK, Database
<1> USE DEF WorkerOK, Phases
<1>1. ASSUME NEW phase \in Phases, Goto(phase), clock' = clock PROVE WorkerOK' /\ now' <= clock'
  BY <1>0, <1>1 DEF Goto
<1>2. CASE UNCHANGED cleanupVars
  BY <1>0, <1>2 DEF cleanupVars
<1>3. CASE Clients
  <2>1. clock' \in Nat /\ clock <= clock'
    BY <1>0, <1>3, NextType, ClockAdvances DEF Clients, CleanupTypeOK, TypeOK
  <2> QED BY <1>0, <1>3, <2>1 DEF Clients, worker
<1>4. CASE StartRound
  BY <1>0, <1>4 DEF StartRound, Keep
<1>5. CASE FindDue \/ FinishExpiry \/ StepFails
  BY <1>1, <1>5 DEF FindDue, FinishExpiry, StepFails, Keep
<1>6. CASE EraseBookmarks \/ EraseCollections \/ EraseGroups
  BY <1>1, <1>6 DEF EraseBookmarks, EraseCollections, EraseGroups, Erase
<1>7. CASE Promote
  <2> DEFINE bm  == [b \in Bookmarks |-> IF Buried(db.bm[b].is_trashed, db'.bm[b].is_trashed)
                                         THEN clock ELSE born.bm[b]]
             col == [c \in Collections |-> IF Buried(db.col[c].is_deleted, db'.col[c].is_deleted)
                                           THEN clock ELSE born.col[c]]
             grp == [g \in Groups |-> IF Buried(db.grp[g].is_deleted, db'.grp[g].is_deleted)
                                      THEN clock ELSE born.grp[g]]
  <2>1. clock \in Timestamp
    BY <1>0 DEF Timestamp
  <2>2. bm \in [Bookmarks -> Timestamp]
    BY <1>0, <2>1
  <2>3. col \in [Collections -> Timestamp]
    BY <1>0, <2>1
  <2>4. grp \in [Groups -> Timestamp]
    BY <1>0, <2>1
  <2>5. born' = [bm |-> bm, col |-> col, grp |-> grp]
    BY <1>7 DEF Promote
  <2> HIDE DEF bm, col, grp
  <2> QED BY <1>0, <1>7, <2>2, <2>3, <2>4, <2>5 DEF Promote, Store
<1>8. CASE ScanWorkspaces
  <2>1. scanned' \in [Workspaces -> Timestamp]
    BY <1>0, <1>8 DEF ScanWorkspaces, WorkspaceRow, Timestamp
  <2> QED BY <1>0, <1>8, <2>1 DEF ScanWorkspaces, Keep
<1>9. ASSUME NEW w \in Workspaces, ExpireWorkspace(w) \/ SkipWorkspace(w)
      PROVE  WorkerOK' /\ now' <= clock'
  <2>1. scanned' \in [Workspaces -> Timestamp]
    BY <1>0, <1>9 DEF ExpireWorkspace, SkipWorkspace, Handled, Timestamp
  <2> QED BY <1>0, <1>9, <2>1 DEF ExpireWorkspace, SkipWorkspace, Handled, Keep, Store
<1>10. CASE Restart
  BY <1>0, <1>10 DEF Restart, NothingScanned, Timestamp
<1> QED BY <1>2, <1>3, <1>4, <1>5, <1>6, <1>7, <1>8, <1>9, <1>10 DEF CleanupNext, Round

(* Every step of the worker and of the clients keeps the types.               *)
LEMMA CleanupStepType ==
    CleanupTypeOK /\ now <= clock /\ [CleanupNext]_cleanupVars => (CleanupTypeOK /\ now <= clock)'
<1> SUFFICES ASSUME CleanupTypeOK, now <= clock, [CleanupNext]_cleanupVars
             PROVE  TypeOK' /\ WorkerOK' /\ now' <= clock'
  BY DEF CleanupTypeOK, WorkerOK
<1>1. TypeOK'
  <2>1. CASE Clients \/ UNCHANGED cleanupVars
    BY <2>1, NextType DEF Clients, CleanupTypeOK, cleanupVars, vars
  <2> QED BY <2>1, RoundTables DEF CleanupNext
<1> QED BY <1>1, WorkerType

-------------------------------------------------------------------------------
(* Who makes tombstones.                                                      *)

(* Every tombstone of a bookmark or collection has the deletion time phase 1  *)
(* chose it by, so no route reaches it; no route writes groups.               *)
Stamped(d) ==
    /\ \A b \in Bookmarks : d.bm[b].is_trashed = Terminal => d.bm[b].deleted_at # Null
    /\ \A c \in Collections : d.col[c].is_deleted = Terminal => d.col[c].deleted_at # Null

(* No row becomes a tombstone between d and e, and tombstones keep their      *)
(* deletion time.                                                             *)
NoNewTombstone(d, e) ==
    /\ \A b \in Bookmarks : e.bm[b].is_trashed = Terminal =>
          d.bm[b].is_trashed = Terminal /\ e.bm[b].deleted_at = d.bm[b].deleted_at
    /\ \A c \in Collections : e.col[c].is_deleted = Terminal =>
          d.col[c].is_deleted = Terminal /\ e.col[c].deleted_at = d.col[c].deleted_at
    /\ \A g \in Groups : e.grp[g].is_deleted = Terminal => d.grp[g].is_deleted = Terminal

(* Nor does a tombstone become anything but a tombstone or no row.            *)
NoneBroughtBack(d, e) ==
    /\ \A b \in Bookmarks : Final(d.bm[b].is_trashed, e.bm[b].is_trashed)
    /\ \A c \in Collections : Final(d.col[c].is_deleted, e.col[c].is_deleted)
    /\ \A g \in Groups : Final(d.grp[g].is_deleted, e.grp[g].is_deleted)

(* A cascade that marks rows other than tombstones as active or retained      *)
(* makes no tombstone and brings none back.                                   *)
LEMMA MarkedMakeNoTombstone ==
    ASSUME NEW d \in Database, NEW e, NEW C, NEW B, NEW G, NEW state, state # Terminal,
           NEW at, NEW seq, MarkedChildren(d, e, C, B, G, state, at, seq),
           \A c \in C : d.col[c].is_deleted # Terminal,
           \A b \in B : d.bm[b].is_trashed # Terminal,
           \A g \in G : d.grp[g].is_deleted # Terminal
    PROVE  NoNewTombstone(d, e) /\ NoneBroughtBack(d, e)
<1>1. \A b \in Bookmarks : e.bm[b].is_trashed = IF b \in B THEN state ELSE d.bm[b].is_trashed
  BY MarkedFields
<1>2. \A b \in Bookmarks : b \notin B => e.bm[b] = d.bm[b]
  BY DEF MarkedChildren
<1>3. \A c \in Collections : e.col[c].is_deleted = IF c \in C THEN state ELSE d.col[c].is_deleted
  BY MarkedFields
<1>4. \A c \in Collections : c \notin C => e.col[c] = d.col[c]
  BY DEF MarkedChildren
<1>5. \A g \in Groups : e.grp[g].is_deleted = IF g \in G THEN state ELSE d.grp[g].is_deleted
  BY MarkedFields
<1>6. \A b \in Bookmarks :
         /\ e.bm[b].is_trashed = Terminal =>
               d.bm[b].is_trashed = Terminal /\ e.bm[b].deleted_at = d.bm[b].deleted_at
         /\ Final(d.bm[b].is_trashed, e.bm[b].is_trashed)
  BY <1>1, <1>2 DEF Final
<1>7. \A c \in Collections :
         /\ e.col[c].is_deleted = Terminal =>
               d.col[c].is_deleted = Terminal /\ e.col[c].deleted_at = d.col[c].deleted_at
         /\ Final(d.col[c].is_deleted, e.col[c].is_deleted)
  BY <1>3, <1>4 DEF Final
<1>8. \A g \in Groups :
         /\ e.grp[g].is_deleted = Terminal => d.grp[g].is_deleted = Terminal
         /\ Final(d.grp[g].is_deleted, e.grp[g].is_deleted)
  BY <1>5 DEF Final
<1> QED BY <1>6, <1>7, <1>8 DEF NoNewTombstone, NoneBroughtBack

(* What stays as it is makes no tombstone and brings none back.               *)
LEMMA SameMakesNoTombstone ==
    ASSUME NEW d, NEW e, SameChildren(d, e)
    PROVE  NoNewTombstone(d, e) /\ NoneBroughtBack(d, e)
BY DEF SameChildren, NoNewTombstone, NoneBroughtBack, Final

(* A lifecycle step makes no tombstone among the children and brings none     *)
(* back: the statements of a delete take active rows, those of a restore      *)
(* retained ones.                                                             *)
LEMMA LifecycleMakesNoTombstone ==
    ASSUME NEW d \in Database, NEW e, NEW w \in Workspaces, NEW model \in {0, 1},
           NEW seq \in Nat, NEW at \in Nat, LifecycleStep(d, e, w, model, seq, at)
    PROVE  NoNewTombstone(d, e) /\ NoneBroughtBack(d, e)
<1>1. CASE SameChildren(d, e)
  BY <1>1, SameMakesNoTombstone
<1>2. CASE DroppedChildren(d, e, w)
  <2>1. NoNewTombstone(d, e)
    BY <1>2 DEF DroppedChildren, NoNewTombstone, NoBookmark, NoCollection, NoGroup, Absent, Terminal
  <2>2. NoneBroughtBack(d, e)
    BY <1>2 DEF DroppedChildren, NoneBroughtBack, Final, NoBookmark, NoCollection, NoGroup, Absent
  <2> QED BY <2>1, <2>2
<1>3. CASE DeleteStep(d, e, w, model, seq, at)
  <2>1. /\ \A c \in LiveCollections(d, w) : d.col[c].is_deleted # Terminal
        /\ \A b \in LiveBookmarks(d, w) : d.bm[b].is_trashed # Terminal
        /\ \A g \in LiveGroups(d, w) : d.grp[g].is_deleted # Terminal
    BY DEF LiveCollections, LiveBookmarks, LiveGroups, Active, Terminal
  <2> QED BY <1>1, <1>3, <2>1, MarkedMakeNoTombstone DEF DeleteStep, Retained, Terminal
<1>4. CASE RestoreStep(d, e, w, seq)
  <2>1. /\ \A c \in EvidenceCollections(d, w) : d.col[c].is_deleted # Terminal
        /\ \A b \in EvidenceBookmarks(d, w) : d.bm[b].is_trashed # Terminal
        /\ \A g \in EvidenceGroups(d, w) : d.grp[g].is_deleted # Terminal
    BY DEF EvidenceCollections, EvidenceBookmarks, EvidenceGroups, Retained, Terminal
  <2> QED BY <1>1, <1>4, <2>1, MarkedMakeNoTombstone DEF RestoreStep, Active, Terminal
<1> QED BY <1>2, <1>3, <1>4 DEF LifecycleStep, PurgeStep

(* Clients trash, restore and drop rows, but never make a tombstone of one,   *)
(* nor bring one back.                                                        *)
LEMMA ClientsMakeNoTombstone ==
    ASSUME TypeOK, Stamped(db), [Next]_vars
    PROVE  NoNewTombstone(db, db') /\ NoneBroughtBack(db, db')
<1>0. db \in Database /\ clock \in Nat /\ NextSeq(db) \in Nat
  BY DEF TypeOK, NextSeq, Database
<1>1. CASE SameChildren(db, db')
  BY <1>1, SameMakesNoTombstone
<1>2. ASSUME NEW w \in Workspaces, WorkspaceWrite(db, db', w, NextSeq(db))
      PROVE  NoNewTombstone(db, db') /\ NoneBroughtBack(db, db')
  BY <1>1, <1>2 DEF WorkspaceWrite
<1>3. ASSUME NEW c \in Collections, NEW row, CollectionWrite(db, db', c, row, NextSeq(db))
      PROVE  NoNewTombstone(db, db') /\ NoneBroughtBack(db, db')
  <2>1. db.col[c].is_deleted # Terminal
    BY <1>3 DEF CollectionWrite, CollectionListed, Stamped, Absent, Terminal
  <2>2. row.is_deleted # Terminal
    BY <1>3, <2>1 DEF CollectionWrite, Active, Retained, Terminal
  <2>3. /\ db'.bm = db.bm /\ db'.grp = db.grp
        /\ \A k \in Collections : db'.col[k] = IF k = c THEN row ELSE db.col[k]
    BY <1>0, <1>3 DEF CollectionWrite, Database
  <2>4. NoNewTombstone(db, db')
    BY <2>2, <2>3 DEF NoNewTombstone
  <2>5. NoneBroughtBack(db, db')
    BY <2>1, <2>3 DEF NoneBroughtBack, Final
  <2> QED BY <2>4, <2>5
<1>4. ASSUME NEW b \in Bookmarks, NEW row, BookmarkWrite(db, db', b, row, NextSeq(db))
      PROVE  NoNewTombstone(db, db') /\ NoneBroughtBack(db, db')
  <2>1. db.bm[b].is_trashed # Terminal
    BY <1>4 DEF BookmarkWrite, BookmarkReachable, Stamped, Absent, Terminal
  <2>2. row.is_trashed # Terminal
    BY <1>4, <2>1 DEF BookmarkWrite, Active, Retained, Terminal
  <2>3. /\ db'.col = db.col /\ db'.grp = db.grp
        /\ \A k \in Bookmarks : db'.bm[k] = IF k = b THEN row ELSE db.bm[k]
    BY <1>0, <1>4 DEF BookmarkWrite, Database
  <2>4. NoNewTombstone(db, db')
    BY <2>2, <2>3 DEF NoNewTombstone
  <2>5. NoneBroughtBack(db, db')
    BY <2>1, <2>3 DEF NoneBroughtBack, Final
  <2> QED BY <2>4, <2>5
<1>5. ASSUME NEW w \in Workspaces, NEW model \in {0, 1},
             LifecycleStep(db, db', w, model, NextSeq(db), clock)
      PROVE  NoNewTombstone(db, db') /\ NoneBroughtBack(db, db')
  BY <1>0, <1>5, LifecycleMakesNoTombstone
<1>6. CASE db' = db
  BY <1>1, <1>6 DEF SameChildren
<1> QED BY <1>1, <1>2, <1>3, <1>4, <1>5, <1>6, StepRows DEF Transaction

(* An expired workspace goes as a purge goes: rows are dropped, not marked.   *)
LEMMA ExpiryRows ==
    ASSUME TypeOK, NEW w \in Workspaces, ExpireWorkspace(w)
    PROVE  /\ NoNewTombstone(db, db') /\ NoneBroughtBack(db, db')
           /\ \A v \in Workspaces : RowStep(db.ws[v], db'.ws[v])
           /\ HasActive(db) => HasActive(db')
<1>0. db \in Database /\ clock \in Nat /\ NextSeq(db) \in Nat /\ "purge" \in LifecycleActions
  BY DEF TypeOK, NextSeq, Database, LifecycleActions
<1> DEFINE e == Applied(db, w, "purge", 1, NextSeq(db), clock)
<1>1. e \in Database /\ Store(e)
  BY <1>0, ApplyType DEF ExpireWorkspace
<1>2. PurgeStep(db, e, w, NextSeq(db))
  <2>1. Accepted(db, w, "purge", 1)
    BY DEF ExpireWorkspace, Accepted
  <2> QED BY <1>0, <2>1, AppliedRows
<1> HIDE DEF e
<1>3. LifecycleStep(db, e, w, 1, NextSeq(db), clock)
  BY <1>2 DEF LifecycleStep
<1>4. NoNewTombstone(db, e) /\ NoneBroughtBack(db, e)
  BY <1>0, <1>1, <1>3, LifecycleMakesNoTombstone
<1>5. NoNewTombstone(db, db') /\ NoneBroughtBack(db, db')
  BY <1>1, <1>4, StoreTables DEF NoNewTombstone, NoneBroughtBack
<1>6. /\ \A v \in Workspaces : RowStep(db.ws[v], db'.ws[v])
      /\ HasActive(db) => HasActive(db')
  BY <1>0, <1>1, ApplyStep DEF e
<1> QED BY <1>5, <1>6

(* Only phase 1 makes tombstones: every other step of the worker makes none,  *)
(* and brings none back.                                                      *)
LEMMA OnlyPromoteBuries ==
    ASSUME TypeOK, Round \/ Restart, ~Promote
    PROVE  NoNewTombstone(db, db') /\ NoneBroughtBack(db, db')
<1>0. db \in Database
  BY DEF TypeOK
<1>1. CASE db' = db
  BY <1>1, SameMakesNoTombstone DEF SameChildren
<1>2. CASE \E w \in Workspaces : ExpireWorkspace(w)
  BY <1>2, ExpiryRows
<1>3. CASE EraseBookmarks
  <2>1. /\ db'.col = db.col /\ db'.grp = db.grp
        /\ \A b \in Bookmarks : db'.bm[b] = db.bm[b] \/ db'.bm[b] = NoBookmark
    BY <1>0, <1>3, ErasedRows DEF EraseBookmarks, Erase
  <2> QED BY <2>1 DEF NoNewTombstone, NoneBroughtBack, Final, NoBookmark, Absent, Terminal
<1>4. CASE EraseCollections
  <2>1. /\ db'.grp = db.grp
        /\ \A c \in Collections : db'.col[c] = db.col[c] \/ db'.col[c] = NoCollection
    BY <1>0, <1>4, ErasedRows DEF EraseCollections, Erase
  <2>2. \A b \in Bookmarks : /\ db'.bm[b].is_trashed = db.bm[b].is_trashed
                             /\ db'.bm[b].deleted_at = db.bm[b].deleted_at
    BY <1>0, <1>4, ErasedRows DEF EraseCollections, Erase
  <2> QED BY <2>1, <2>2 DEF NoNewTombstone, NoneBroughtBack, Final, NoCollection, Absent, Terminal
<1>5. CASE EraseGroups
  <2>1. /\ db'.bm = db.bm /\ db'.col = db.col
        /\ \A g \in Groups : db'.grp[g] = db.grp[g] \/ db'.grp[g] = NoGroup
    BY <1>0, <1>5, ErasedRows DEF EraseGroups, Erase
  <2> QED BY <2>1 DEF NoNewTombstone, NoneBroughtBack, Final, NoGroup, NoCollection, Absent, Terminal
<1>6. CASE Restart
  <2>1. /\ db'.bm = db.bm /\ db'.grp = db.grp
        /\ \A c \in Collections :
              /\ db'.col[c].deleted_at = db.col[c].deleted_at
              /\ (db'.col[c].is_deleted = Terminal) <=> (db.col[c].is_deleted = Terminal)
    BY <1>0, <1>6, BackfilledRows DEF Restart
  <2> QED BY <2>1 DEF NoNewTombstone, NoneBroughtBack, Final
<1> QED BY <1>1, <1>2, <1>3, <1>4, <1>5, <1>6 DEF Round, StartRound, FindDue, ScanWorkspaces,
           SkipWorkspace, FinishExpiry, StepFails, Keep

(* What phase 1 writes: rows in state 1, which get the number of its          *)
(* transaction and keep their deletion time.                                  *)
LEMMA PromoteRows ==
    ASSUME CleanupTypeOK, Promote
    PROVE  /\ db'.seq = db.seq + 1 /\ db.seq \in Nat
           /\ db'.ws = db.ws
           /\ \A b \in Bookmarks : db'.bm[b] # db.bm[b] =>
                 /\ db.bm[b].is_trashed = Retained
                 /\ db'.bm[b].seq = db'.seq /\ db'.bm[b].deleted_at # Null
           /\ \A c \in Collections : db'.col[c] # db.col[c] =>
                 /\ db.col[c].is_deleted = Retained
                 /\ db'.col[c].seq = db'.seq /\ db'.col[c].deleted_at # Null
           /\ \A g \in Groups : db'.grp[g] # db.grp[g] =>
                 db.grp[g].is_deleted = Retained /\ db'.grp[g].seq = db'.seq
<1>0. /\ db \in Database /\ NextSeq(db) \in Nat /\ now - TrashGrace \in Int
      /\ db.seq \in Nat /\ NextSeq(db) = db.seq + 1
  BY GraceAssumption DEF CleanupTypeOK, TypeOK, NextSeq, Database
<1> DEFINE e == Promoted(db, now - TrashGrace, NextSeq(db))
<1>1. e \in Database /\ Store(e) /\ e.ws = db.ws
  BY <1>0, PromotedRows DEF Promote
<1>2. \A b \in Bookmarks : e.bm[b] # db.bm[b] =>
         /\ db.bm[b].is_trashed = Retained
         /\ e.bm[b].seq = NextSeq(db) /\ e.bm[b].deleted_at # Null
  <2>1. \A b \in Bookmarks :
           e.bm[b] = IF db.bm[b].is_trashed = Retained
                        /\ Expired(db.bm[b].deleted_at, now - TrashGrace)
                     THEN [db.bm[b] EXCEPT !.is_trashed = Terminal, !.seq = NextSeq(db)]
                     ELSE db.bm[b]
    BY <1>0, PromotedRows
  <2> HIDE DEF e
  <2> QED BY <1>0, <2>1 DEF Database, BookmarkRow, Expired
<1>3. \A c \in Collections : e.col[c] # db.col[c] =>
         /\ db.col[c].is_deleted = Retained
         /\ e.col[c].seq = NextSeq(db) /\ e.col[c].deleted_at # Null
  <2>1. \A c \in Collections :
           e.col[c] = IF db.col[c].is_deleted = Retained
                         /\ Expired(db.col[c].deleted_at, now - TrashGrace)
                      THEN [db.col[c] EXCEPT !.is_deleted = Terminal, !.seq = NextSeq(db)]
                      ELSE db.col[c]
    BY <1>0, PromotedRows
  <2> HIDE DEF e
  <2> QED BY <1>0, <2>1 DEF Database, CollectionRow, Expired
<1>5. \A g \in Groups : e.grp[g] # db.grp[g] =>
         db.grp[g].is_deleted = Retained /\ e.grp[g].seq = NextSeq(db)
  <2>1. \A g \in Groups :
           e.grp[g] = IF db.grp[g].is_deleted = Retained
                         /\ Expired(db.grp[g].deleted_at, now - TrashGrace)
                      THEN [db.grp[g] EXCEPT !.is_deleted = Terminal, !.seq = NextSeq(db)]
                      ELSE db.grp[g]
    BY <1>0, PromotedRows
  <2> HIDE DEF e
  <2> QED BY <1>0, <2>1 DEF Database, GroupRow
<1> HIDE DEF e
<1>4. /\ db'.bm = e.bm /\ db'.col = e.col /\ db'.grp = e.grp
      /\ db'.ws = e.ws /\ db'.seq = NextSeq(db)
  BY <1>0, <1>1, StoreTables, StoreNumbers DEF Numbered
<1> QED BY <1>0, <1>1, <1>2, <1>3, <1>4, <1>5

-------------------------------------------------------------------------------
(* The invariant of the round: between the two statements that delete         *)
(* bookmarks and collections no bookmark is due, although clients have been   *)
(* at work since.  They can trash a bookmark then, but only phase 1 makes it  *)
(* a tombstone, and the round is past it.                                     *)

RoundOK ==
    /\ CleanupTypeOK
    /\ now <= clock
    /\ Stamped(db)
    /\ pc = "collections" => DueBookmarks(db, Cutoff) = {}

(* Without a new tombstone the stamps stay, and no other bookmark is due.     *)
LEMMA NoNewTombstoneKeeps ==
    ASSUME NEW d, NEW e, NoNewTombstone(d, e)
    PROVE  /\ Stamped(d) => Stamped(e)
           /\ \A cutoff : DueBookmarks(e, cutoff) \subseteq DueBookmarks(d, cutoff)
BY DEF NoNewTombstone, Stamped, DueBookmarks

(* The invariant holds at the start.                                          *)
LEMMA RoundInit == CleanupInit => RoundOK
<1> SUFFICES ASSUME CleanupInit PROVE Stamped(db) /\ pc # "collections"
  BY CleanupInitType DEF RoundOK
<1> QED BY DEF CleanupInit, Populated, Stamped, NoBookmark, Absent, Active, Terminal

(* Every step keeps it.                                                       *)
LEMMA RoundStep == RoundOK /\ [CleanupNext]_cleanupVars => RoundOK'
<1> SUFFICES ASSUME RoundOK, [CleanupNext]_cleanupVars
             PROVE  Stamped(db') /\ (pc' = "collections" => DueBookmarks(db', Cutoff') = {})
  BY CleanupStepType DEF RoundOK
<1>0. TypeOK /\ CleanupTypeOK /\ Stamped(db) /\ db \in Database
  BY DEF RoundOK, CleanupTypeOK, TypeOK
<1>1. ASSUME NoNewTombstone(db, db'),
             pc' = "collections" => pc = "collections" /\ now' = now
      PROVE  Stamped(db') /\ (pc' = "collections" => DueBookmarks(db', Cutoff') = {})
  <2>1. Stamped(db') /\ DueBookmarks(db', Cutoff) \subseteq DueBookmarks(db, Cutoff)
    BY <1>0, <1>1, NoNewTombstoneKeeps
  <2>2. pc' = "collections" => Cutoff' = Cutoff
    BY <1>1 DEF Cutoff
  <2> QED BY <1>1, <2>1, <2>2 DEF RoundOK
<1>2. CASE UNCHANGED cleanupVars
  BY <1>1, <1>2, SameMakesNoTombstone DEF cleanupVars, SameChildren
<1>3. CASE Clients
  BY <1>0, <1>1, <1>3, ClientsMakeNoTombstone DEF Clients, worker
<1>4. CASE Promote
  <2>1. /\ \A b \in Bookmarks : db'.bm[b] = db.bm[b] \/ db'.bm[b].deleted_at # Null
        /\ \A c \in Collections : db'.col[c] = db.col[c] \/ db'.col[c].deleted_at # Null
    BY <1>0, <1>4, PromoteRows
  <2>2. Stamped(db')
    BY <1>0, <2>1 DEF Stamped
  <2> QED BY <1>4, <2>2 DEF Promote
<1>5. CASE EraseBookmarks
  <2>1. now' = now /\ db' = DropBookmarks(db, DueBookmarks(db, Cutoff))
    BY <1>5 DEF EraseBookmarks, Erase, Goto
  <2>2. \A b \in Bookmarks :
           db'.bm[b] = IF b \in DueBookmarks(db, Cutoff) THEN NoBookmark ELSE db.bm[b]
    BY <1>0, <2>1, ErasedRows
  <2>3. \A b \in Bookmarks : db'.bm[b].is_trashed = Terminal =>
           /\ b \notin DueBookmarks(db, Cutoff)
           /\ db'.bm[b] = db.bm[b]
    BY <2>2 DEF NoBookmark, Absent, Terminal
  <2>4. Stamped(db')
    <3>1. db'.col = db.col
      BY <1>0, <2>1, ErasedRows
    <3> QED BY <1>0, <2>3, <3>1 DEF Stamped
  <2>5. DueBookmarks(db', Cutoff) = {}
    BY <2>3 DEF DueBookmarks
  <2>6. Cutoff' = Cutoff
    BY <2>1 DEF Cutoff
  <2> QED BY <2>4, <2>5, <2>6
<1>6. CASE (Round /\ ~Promote /\ ~EraseBookmarks) \/ Restart
  <2>1. ~Promote
    BY <1>6 DEF Restart, Promote
  <2>2. NoNewTombstone(db, db')
    BY <1>0, <1>6, <2>1, OnlyPromoteBuries
  <2>3. pc' = "collections" => pc = "collections" /\ now' = now
    BY <1>6 DEF Round, StartRound, FindDue, ScanWorkspaces, ExpireWorkspace, SkipWorkspace, Handled,
                FinishExpiry, EraseCollections, EraseGroups, Erase, StepFails, Goto, Restart
  <2> QED BY <1>1, <2>2, <2>3
<1> QED BY <1>2, <1>3, <1>4, <1>5, <1>6 DEF CleanupNext

(* And so always.                                                             *)
LEMMA RoundAlways == CleanupSpec => []RoundOK
<1> QED BY RoundInit, RoundStep, PTL DEF CleanupSpec

-------------------------------------------------------------------------------
(* Theorems.                                                                  *)

(* The rows, the worker's position, times and candidates keep their type.     *)
THEOREM CleanupTypeCorrect == CleanupSpec => []CleanupTypeOK
<1>1. RoundOK => CleanupTypeOK
  BY DEF RoundOK
<1> QED BY <1>1, RoundAlways, PTL

(* Phase 2 strands no bookmark that it should have deleted itself, though it  *)
(* takes two statements between which clients write.                          *)
THEOREM DueBookmarksAreNotStranded == CleanupSpec => NoDueBookmarkIsStranded
<1>1. RoundOK => [\A b \in Bookmarks :
                    /\ pc = "collections"
                    /\ b \in DueBookmarks(db, Cutoff)
                    /\ db.bm[b].collection_id # NoId
                    /\ db'.bm[b].is_trashed # Absent
                    => db'.bm[b].collection_id # NoId]_cleanupVars
  BY DEF RoundOK
<1> QED BY <1>1, RoundAlways, PTL DEF NoDueBookmarkIsStranded

(* A bookmark, collection or group becomes a tombstone in phase 1 only, under *)
(* the number of its transaction.                                             *)
THEOREM TombstonesPublished == CleanupSpec => TombstonesArePublished
<1> DEFINE PublishedNow ==
             /\ \A b \in Bookmarks :
                  Buried(db.bm[b].is_trashed, db'.bm[b].is_trashed) => UnderNewSeq(db'.bm[b].seq)
             /\ \A c \in Collections :
                  Buried(db.col[c].is_deleted, db'.col[c].is_deleted) => UnderNewSeq(db'.col[c].seq)
             /\ \A g \in Groups :
                  Buried(db.grp[g].is_deleted, db'.grp[g].is_deleted) => UnderNewSeq(db'.grp[g].seq)
<1>1. ASSUME RoundOK, [CleanupNext]_cleanupVars PROVE PublishedNow
  <2>0. TypeOK /\ CleanupTypeOK /\ Stamped(db)
    BY <1>1 DEF RoundOK, CleanupTypeOK
  <2>1. CASE Promote
    <3>1. db'.seq > db.seq
      BY <2>0, <2>1, PromoteRows
    <3> QED BY <2>0, <2>1, <3>1, PromoteRows DEF Buried, UnderNewSeq
  <2>2. CASE NoNewTombstone(db, db')
    BY <2>2 DEF NoNewTombstone, Buried
  <2>3. CASE Clients \/ UNCHANGED cleanupVars
    BY <2>0, <2>2, <2>3, ClientsMakeNoTombstone DEF Clients, cleanupVars, vars
  <2> HIDE DEF PublishedNow
  <2> QED BY <1>1, <2>0, <2>1, <2>2, <2>3, OnlyPromoteBuries DEF CleanupNext
<1>2. RoundOK /\ [CleanupNext]_cleanupVars => [PublishedNow]_cleanupVars
  BY <1>1
<1> QED BY <1>2, RoundAlways, PTL DEF CleanupSpec, TombstonesArePublished

(* No REST route, legacy delete or restore, phase or restart brings a         *)
(* tombstone back: routes do not reach it, and the cascades ask for its       *)
(* state.                                                                     *)
THEOREM NoTombstoneReturns == CleanupSpec => TombstonesAreFinal
<1>1. ASSUME RoundOK, [CleanupNext]_cleanupVars PROVE NoneBroughtBack(db, db')
  <2>0. TypeOK /\ CleanupTypeOK /\ Stamped(db)
    BY <1>1 DEF RoundOK, CleanupTypeOK
  <2>1. CASE Promote
    BY <2>0, <2>1, PromoteRows DEF NoneBroughtBack, Final, Retained, Terminal
  <2>2. CASE Clients \/ UNCHANGED cleanupVars
    BY <2>0, <2>2, ClientsMakeNoTombstone DEF Clients, cleanupVars, vars
  <2> QED BY <1>1, <2>0, <2>1, <2>2, OnlyPromoteBuries DEF CleanupNext
<1>2. RoundOK /\ [CleanupNext]_cleanupVars =>
        [/\ \A b \in Bookmarks : Final(db.bm[b].is_trashed, db'.bm[b].is_trashed)
         /\ \A c \in Collections : Final(db.col[c].is_deleted, db'.col[c].is_deleted)
         /\ \A g \in Groups : Final(db.grp[g].is_deleted, db'.grp[g].is_deleted)]_cleanupVars
  BY <1>1 DEF NoneBroughtBack
<1> QED BY <1>2, RoundAlways, PTL DEF CleanupSpec, TombstonesAreFinal

(* The worker's and the clients' steps on the rows of workspaces.             *)
LEMMA CleanupWorkspaceStep ==
    ASSUME CleanupTypeOK, [CleanupNext]_cleanupVars
    PROVE  /\ \A w \in Workspaces : RowStep(db.ws[w], db'.ws[w])
           /\ HasActive(db) => HasActive(db')
<1>0. TypeOK /\ db \in Database
  BY DEF CleanupTypeOK, TypeOK
<1>1. CASE db'.ws = db.ws
  BY <1>1 DEF RowStep, HasActive, ActiveWorkspaces
<1>2. CASE Clients \/ UNCHANGED cleanupVars
  BY <1>0, <1>2, WorkspaceStep DEF Clients, cleanupVars, vars
<1>3. CASE \E w \in Workspaces : ExpireWorkspace(w)
  BY <1>0, <1>3, ExpiryRows
<1>4. CASE Promote
  BY <1>1, <1>4, PromoteRows
<1>5. CASE EraseBookmarks \/ EraseCollections \/ EraseGroups
  BY <1>0, <1>1, <1>5, ErasedRows DEF EraseBookmarks, EraseCollections, EraseGroups, Erase
<1>6. CASE Restart
  BY <1>0, <1>1, <1>6, BackfilledRows DEF Restart
<1> QED BY <1>1, <1>2, <1>3, <1>4, <1>5, <1>6 DEF CleanupNext, Round, StartRound, FindDue,
           ScanWorkspaces, SkipWorkspace, FinishExpiry, StepFails, Keep

(* No step takes a workspace from active straight to purged, so a candidate   *)
(* restored since the scan is spared.                                         *)
THEOREM ActiveIsSpared == CleanupSpec => WorkerSparesActive
<1>1. RoundOK /\ [CleanupNext]_cleanupVars =>
        [\A w \in Workspaces :
           pc = "expire" /\ db.ws[w].is_deleted = Active => db'.ws[w].is_deleted # Terminal]_cleanupVars
  <2> SUFFICES ASSUME RoundOK, [CleanupNext]_cleanupVars, NEW w \in Workspaces,
                      db.ws[w].is_deleted = Active
               PROVE  db'.ws[w].is_deleted # Terminal
    OBVIOUS
  <2>1. RowStep(db.ws[w], db'.ws[w])
    BY CleanupWorkspaceStep DEF RoundOK
  <2>2. db.ws[w] \in WorkspaceRow
    BY DEF RoundOK, CleanupTypeOK, TypeOK, Database
  <2> QED BY <2>1, <2>2, RowStepStates DEF Absent, Active, Retained, Terminal
<1> QED BY <1>1, RoundAlways, PTL DEF CleanupSpec, WorkerSparesActive

(* The worker beside the clients still implements the workspace contract: it  *)
(* moves workspaces along the lifecycle and never leaves a user without one.  *)
THEOREM CleanupImplementsContract == CleanupSpec => ImplementsContract
<1> DEFINE abstract == [w \in Workspaces |-> db.ws[w].is_deleted]
<1>1. CleanupInit => Contract!Init
  BY DEF CleanupInit, Populated, Contract!Init, Contract!Absent, Contract!Active, Active
<1>2. CleanupTypeOK /\ CleanupTypeOK' /\ [CleanupNext]_cleanupVars => [Contract!Next]_abstract
  BY CleanupWorkspaceStep, ContractStep DEF CleanupTypeOK
<1> QED BY <1>1, <1>2, CleanupTypeCorrect, PTL
        DEF CleanupSpec, ImplementsContract, Contract!Spec

(* What phase 2 hard-deletes is past its cutoff, which is both periods before *)
(* the clock at the latest: phase 1 took its time out of the window.          *)
LEMMA DueIsKept ==
    ASSUME now \in Nat, clock \in Nat, now <= clock,
           NEW deletedAt \in Timestamp, Expired(deletedAt, Cutoff), NEW bornAt \in Timestamp
    PROVE  Kept(bornAt, deletedAt)
BY GraceAssumption DEF Kept, Expired, Cutoff, Timestamp, Null

(* A statement of phase 2 removes the rows of its own table that are due, and *)
(* nothing else removes a tombstone while the round is there and moves on.    *)
LEMMA OnlyErased ==
    ASSUME TypeOK, [CleanupNext]_cleanupVars, pc' # pc, pc \in {"bookmarks", "collections", "groups"}
    PROVE  \/ /\ \A b \in Bookmarks : ~Removed(db.bm[b].is_trashed, db'.bm[b].is_trashed)
              /\ \A c \in Collections : ~Removed(db.col[c].is_deleted, db'.col[c].is_deleted)
              /\ \A g \in Groups : ~Removed(db.grp[g].is_deleted, db'.grp[g].is_deleted)
           \/ pc = "bookmarks" /\ EraseBookmarks
           \/ pc = "collections" /\ EraseCollections
           \/ pc = "groups" /\ EraseGroups
<1>0. db \in Database
  BY DEF TypeOK
<1>1. CASE db' = db
  BY <1>1 DEF Removed, Absent, Terminal
<1>2. CASE Restart
  <2>1. /\ db'.bm = db.bm /\ db'.grp = db.grp
        /\ \A c \in Collections : (db'.col[c].is_deleted = Absent) <=> (db.col[c].is_deleted = Absent)
    BY <1>0, <1>2, BackfilledRows DEF Restart
  <2> QED BY <2>1 DEF Removed, Absent, Terminal
<1>3. CASE EraseBookmarks \/ EraseCollections \/ EraseGroups
  BY <1>3 DEF EraseBookmarks, EraseCollections, EraseGroups
<1> QED BY <1>1, <1>2, <1>3 DEF CleanupNext, Clients, worker, Round, StartRound, FindDue, Promote,
           ScanWorkspaces, ExpireWorkspace, SkipWorkspace, PastGrace, FinishExpiry, StepFails, Keep,
           cleanupVars

(* A tombstone that phase 1 made within one period of its row's expiry can be *)
(* pulled for all of the window but that period, whatever rounds failed, were *)
(* cut short or came early.                                                   *)
THEOREM TombstonesLoseAtMostARound == CleanupSpec => TombstoneLosesAtMostARound
<1>1. ASSUME RoundOK, [CleanupNext]_cleanupVars, pc' # pc
      PROVE  /\ pc = "bookmarks" => \A b \in Bookmarks :
                  Removed(db.bm[b].is_trashed, db'.bm[b].is_trashed)
                     => Kept(born.bm[b], db.bm[b].deleted_at)
             /\ pc = "collections" => \A c \in Collections :
                  Removed(db.col[c].is_deleted, db'.col[c].is_deleted)
                     => Kept(born.col[c], db.col[c].deleted_at)
             /\ pc = "groups" => \A g \in Groups :
                  Removed(db.grp[g].is_deleted, db'.grp[g].is_deleted)
                     => Kept(born.grp[g], db.grp[g].deleted_at)
  <2>0. /\ TypeOK /\ db \in Database /\ now \in Nat /\ clock \in Nat /\ now <= clock
        /\ \A b \in Bookmarks : db.bm[b].deleted_at \in Timestamp /\ born.bm[b] \in Timestamp
        /\ \A c \in Collections : db.col[c].deleted_at \in Timestamp /\ born.col[c] \in Timestamp
        /\ \A g \in Groups : db.grp[g].deleted_at \in Timestamp /\ born.grp[g] \in Timestamp
    BY <1>1 DEF RoundOK, CleanupTypeOK, TypeOK, Database, BookmarkRow, CollectionRow, GroupRow
  <2>1. ASSUME NEW b \in Bookmarks, pc = "bookmarks",
               Removed(db.bm[b].is_trashed, db'.bm[b].is_trashed)
        PROVE  Kept(born.bm[b], db.bm[b].deleted_at)
    <3>1. EraseBookmarks
      BY <1>1, <2>0, <2>1, OnlyErased
    <3>2. b \in DueBookmarks(db, Cutoff)
      BY <2>0, <2>1, <3>1, ErasedRows DEF EraseBookmarks, Erase, Removed, Absent, Terminal
    <3> QED BY <2>0, <3>2, DueIsKept DEF DueBookmarks
  <2>2. ASSUME NEW c \in Collections, pc = "collections",
               Removed(db.col[c].is_deleted, db'.col[c].is_deleted)
        PROVE  Kept(born.col[c], db.col[c].deleted_at)
    <3>1. EraseCollections
      BY <1>1, <2>0, <2>2, OnlyErased
    <3>2. c \in DueCollections(db, Cutoff)
      BY <2>0, <2>2, <3>1, ErasedRows DEF EraseCollections, Erase, Removed, Absent, Terminal
    <3> QED BY <2>0, <3>2, DueIsKept DEF DueCollections
  <2>3. ASSUME NEW g \in Groups, pc = "groups",
               Removed(db.grp[g].is_deleted, db'.grp[g].is_deleted)
        PROVE  Kept(born.grp[g], db.grp[g].deleted_at)
    <3>1. EraseGroups
      BY <1>1, <2>0, <2>3, OnlyErased
    <3>2. g \in DueGroups(db, Cutoff)
      BY <2>0, <2>3, <3>1, ErasedRows DEF EraseGroups, Erase, Removed, Absent, Terminal
    <3> QED BY <2>0, <3>2, DueIsKept DEF DueGroups
  <2> QED BY <2>1, <2>2, <2>3
<1>2. RoundOK /\ [CleanupNext]_cleanupVars =>
        [/\ pc = "bookmarks" /\ pc' # pc =>
              \A b \in Bookmarks :
                 Removed(db.bm[b].is_trashed, db'.bm[b].is_trashed)
                    => Kept(born.bm[b], db.bm[b].deleted_at)
         /\ pc = "collections" /\ pc' # pc =>
              \A c \in Collections :
                 Removed(db.col[c].is_deleted, db'.col[c].is_deleted)
                    => Kept(born.col[c], db.col[c].deleted_at)
         /\ pc = "groups" /\ pc' # pc =>
              \A g \in Groups :
                 Removed(db.grp[g].is_deleted, db'.grp[g].is_deleted)
                    => Kept(born.grp[g], db.grp[g].deleted_at)]_cleanupVars
  BY <1>1
<1> QED BY <1>2, RoundAlways, PTL DEF CleanupSpec, TombstoneLosesAtMostARound
===============================================================================
