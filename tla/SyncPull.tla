------------------------------- MODULE SyncPull -------------------------------
(***************************************************************************)
(* GET /sync/pull (SyncHandler.Pull of internal/handler/sync.go) beside    *)
(* the transactions of RestApi.  Pull runs one query per table, each on a  *)
(* snapshot of its own, and reads server_seq last; transactions commit     *)
(* between the queries, any query may fail and the answer may be lost.     *)
(*                                                                         *)
(* The client is external: one device that stores the rows it receives,    *)
(* remembers the server_seq of the last answer, and pulls from there or,   *)
(* after an upgrade, from 0.  Tags and the tabs of groups are left out.    *)
(***************************************************************************)
EXTENDS RestApi

VARIABLES copy,   \* the device: the rows it has, and the server_seq it pulls from
          at,     \* where the pull is
          after,  \* its after_seq
          got,    \* the device's copy with the rows queried so far
          quiet,  \* history: no transaction has committed since the pull began
          clean   \* history: the copy comes from quiet pulls only

pull     == <<at, after, got>>
pullVars == <<db, clock, shown, copy, at, after, got, quiet, clean>>

Tables == {"workspaces", "collections", "bookmarks", "groups", "server_seq"}

PullInit ==
    /\ Init
    /\ copy = EmptyDatabase
    /\ at = "idle"
    /\ after = 0
    /\ got = EmptyDatabase
    /\ quiet = TRUE
    /\ clean = TRUE

-------------------------------------------------------------------------------
StartPull(n) ==
    /\ at = "idle"
    /\ at' = "workspaces"
    /\ after' = n
    /\ got' = copy
    /\ quiet' = TRUE
    /\ UNCHANGED <<db, clock, shown, copy, clean>>

Query(table, next, rows) ==
    /\ at = table
    /\ at' = next
    /\ got' = rows
    /\ UNCHANGED <<db, clock, shown, copy, after, quiet, clean>>

(* All workspaces, whatever their seq.                                        *)
PullWorkspaces ==
    Query("workspaces", "collections",
          [got EXCEPT !.ws = [w \in Workspaces |-> IF db.ws[w].is_deleted # Absent
                                                   THEN db.ws[w] ELSE got.ws[w]]])

(* WHERE user_id = $1 AND seq > $2; there is no row with seq 0.               *)
PullCollections ==
    Query("collections", "bookmarks",
          [got EXCEPT !.col = [c \in Collections |-> IF db.col[c].seq > after
                                                     THEN db.col[c] ELSE got.col[c]]])

(* Mutant of PullBookmarks: deleted bookmarks are filtered out.               *)
PullLiveBookmarks ==
    Query("bookmarks", "groups",
          [got EXCEPT !.bm = [b \in Bookmarks |->
              IF db.bm[b].seq > after /\ db.bm[b].deleted_at = Null
              THEN db.bm[b] ELSE got.bm[b]]])

PullBookmarks ==
    Query("bookmarks", "groups",
          [got EXCEPT !.bm = [b \in Bookmarks |-> IF db.bm[b].seq > after
                                                  THEN db.bm[b] ELSE got.bm[b]]])

PullGroups ==
    Query("groups", "server_seq",
          [got EXCEPT !.grp = [g \in Groups |-> IF db.grp[g].seq > after
                                                THEN db.grp[g] ELSE got.grp[g]]])

EndPull == at' = "idle" /\ after' = 0 /\ got' = EmptyDatabase

(* Mutant of FinishPull: server_seq is the number the next transaction gets.  *)
FinishPullAtNextSeq ==
    /\ at = "server_seq"
    /\ copy' = [got EXCEPT !.seq = NextSeq(db)]
    /\ clean' = (quiet /\ (after = 0 \/ clean))
    /\ EndPull
    /\ UNCHANGED <<db, clock, shown, quiet>>

(* Mutant of FinishPull: server_seq is that of the last bookmark in the       *)
(* answer, 0 when there is none.                                              *)
FinishPullAtLastBookmark ==
    /\ at = "server_seq"
    /\ \E n \in {0} \cup {got.bm[b].seq : b \in Bookmarks} :
          /\ \A b \in Bookmarks : got.bm[b].seq > after => got.bm[b].seq <= n
          /\ n = 0 \/ n > after
          /\ copy' = [got EXCEPT !.seq = n]
    /\ clean' = (quiet /\ (after = 0 \/ clean))
    /\ EndPull
    /\ UNCHANGED <<db, clock, shown, quiet>>

(* currentSeq, and the answer reaches the device.                             *)
FinishPull ==
    /\ at = "server_seq"
    /\ copy' = [got EXCEPT !.seq = db.seq]
    /\ clean' = (quiet /\ (after = 0 \/ clean))
    /\ EndPull
    /\ UNCHANGED <<db, clock, shown, quiet>>

(* A query fails, or the answer is lost.                                      *)
LosePull ==
    /\ at # "idle"
    /\ EndPull
    /\ UNCHANGED <<db, clock, shown, copy, quiet, clean>>

Writers ==
    /\ Next
    /\ quiet' = (quiet /\ db' = db)
    /\ UNCHANGED <<copy, at, after, got, clean>>

PullNext ==
    \/ \E n \in {0, copy.seq} : StartPull(n)
    \/ PullWorkspaces
    \/ PullCollections
    \/ PullBookmarks
    \/ PullGroups
    \/ FinishPull
    \/ LosePull
    \/ Writers

PullSpec == PullInit /\ [][PullNext]_pullVars

-------------------------------------------------------------------------------
(* Properties.                                                                *)

(* The device holds rows of the tables' types, and a pull starts from a       *)
(* sequence number the server has reached.                                    *)
PullTypeOK ==
    /\ copy \in Database
    /\ got \in Database
    /\ at \in Tables \cup {"idle"}
    /\ after \in 0..db.seq
    /\ copy.seq <= db.seq
    /\ quiet \in BOOLEAN
    /\ clean \in BOOLEAN

(* The rows of d with a sequence number above n are all in e.                 *)
Includes(e, d, n) ==
    /\ \A w \in Workspaces  : d.ws[w].is_deleted  # Absent /\ d.ws[w].seq  > n => e.ws[w]  = d.ws[w]
    /\ \A c \in Collections : d.col[c].is_deleted # Absent /\ d.col[c].seq > n => e.col[c] = d.col[c]
    /\ \A b \in Bookmarks   : d.bm[b].is_trashed  # Absent /\ d.bm[b].seq  > n => e.bm[b]  = d.bm[b]
    /\ \A g \in Groups      : d.grp[g].is_deleted # Absent /\ d.grp[g].seq > n => e.grp[g] = d.grp[g]

(* A device that is at the server's sequence number has every row the server  *)
(* has, as it is now, over any number of incremental, repeated and lost pulls *)
(* between any transactions, as long as no transaction committed in the       *)
(* middle of a pull it stored; and a quiet full pull repairs an earlier       *)
(* mishap.                                                                    *)
QuietPullsConverge ==
    at = "idle" /\ clean /\ copy.seq = db.seq => Includes(copy, db, 0)

(* A device never sees a purged workspace come back, and never loses its      *)
(* place: however its pulls interleave with transactions, tombstones stay and *)
(* the number it pulls from does not go back.                                 *)
DeviceNeverGoesBack ==
    [][/\ copy'.seq >= copy.seq
       /\ \A w \in Workspaces :
            copy.ws[w].is_deleted = Terminal => copy'.ws[w].is_deleted = Terminal]_copy

(* sync.go says of Pull: "Returns all entities (including soft-deleted) with  *)
(* seq > N for the caller."  After an answer with server_seq S, the device    *)
(* has every row with a seq above N up to S.                                  *)
PullIsComplete ==
    [][copy' # copy => Includes(copy', db, after)]_pullVars
===============================================================================
