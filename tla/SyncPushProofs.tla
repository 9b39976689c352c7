---------------------------- MODULE SyncPushProofs ----------------------------
(***************************************************************************)
(* Proofs about SyncPush, for requests of any length over any sets of ids: *)
(* the tables keep their types, a tombstone stays as it is, every change   *)
(* carries the push's sequence number, no live row is written under a      *)
(* workspace that is retained or purged at the commit, and no table goes   *)
(* over the limit of its plan.                                             *)
(*                                                                         *)
(* A loop of the handler is a function of its turns.  EachKeeps is its     *)
(* induction, over a set of states: what one turn keeps, the loop keeps.   *)
(* So the proofs go turn by turn.                                          *)
(*                                                                         *)
(*  1. Each turn refuses an entity, queues it, or writes one of few shapes *)
(*     of rows (Refuses, Queues, StoresWorkspace, MovedBy, ...).           *)
(*  2. Trail: from the tables before the push to those at any point of it, *)
(*     a row that differs carries the number or went with a workspace that *)
(*     was purged on the way, and no tombstone differs.                    *)
(*  3. Available: a workspace that is not closed to its children is not    *)
(*     shut in the tables, nor is that of an open collection (those under  *)
(*     a version-0 delete close once the workspaces are done).  A queued   *)
(*     child was open when it was sorted out, and the batches that follow  *)
(*     shut no workspace (Openings): what they write is live only where it *)
(*     may be (LiveWrites).                                                *)
(*  4. Sorting, Collecting, Marking and Grouping are the sets of states    *)
(*     between the loops; PushedTrail puts them together.                  *)
(*  5. What a turn does to the ledgers, the rejections and the documents,  *)
(*     too (TurnedAway, Waits, WritesCollection, ...).                     *)
(*  6. Quotas.  The ids a ledger counts are within the limit, or no more   *)
(*     than they were (Fits); the rows that count are among them, or wait  *)
(*     for a row that goes (Awaits, Counts).  While the workspaces are     *)
(*     done the ledgers of the other tables keep up with the purges        *)
(*     (Balanced, Settled); the batches then fit (TableFits).              *)
(***************************************************************************)
EXTENDS SyncPush, RestApiProofs, WellFoundedInduction, FiniteSetTheorems

-------------------------------------------------------------------------------
(* Loops.                                                                     *)

(* A set of numbers that is not empty has a least one.                        *)
LEMMA LeastNumber ==
    ASSUME NEW T \in SUBSET Nat, T # {}
    PROVE  \E m \in T : \A n \in T : m <= n
<1> DEFINE R == OpToRel(<, Nat)
<1>1. IsWellFoundedOn(R, Nat)
  BY NatLessThanWellFounded
<1>2. \E m \in T : \A n \in T : ~(<<n, m>> \in R)
  <2> HIDE DEF R
  <2> QED BY <1>1, WFMin
<1>3. \A m \in Nat, n \in Nat : n < m => <<n, m>> \in R
  BY DEF OpToRel
<1> HIDE DEF R
<1>4. \A m \in T, n \in T : n < m => <<n, m>> \in R
  BY <1>3
<1>5. \A m \in T, n \in T : ~(n < m) => m <= n
  OBVIOUS
<1> QED BY <1>2, <1>4, <1>5

(* Induction, with a set for the property: the provers take no operator for a *)
(* parameter of a theorem.                                                    *)
LEMMA Induction ==
    ASSUME NEW T, 0 \in T, \A n \in Nat : n \in T => n + 1 \in T
    PROVE  Nat \subseteq T
<1> SUFFICES ASSUME Nat \ T # {} PROVE FALSE
  OBVIOUS
<1>1. PICK m \in Nat \ T : \A n \in Nat \ T : m <= n
  <2>1. Nat \ T \in SUBSET Nat
    OBVIOUS
  <2> QED BY <2>1, LeastNumber
<1>2. m # 0
  BY <1>1
<1>3. m - 1 \in Nat /\ m - 1 \notin Nat \ T
  BY <1>1, <1>2
<1>4. m - 1 + 1 = m
  BY <1>1
<1> QED BY <1>1, <1>3, <1>4

(* The states a loop goes through: the function in Each is what its           *)
(* definition says.                                                           *)
LEMMA EachRun ==
    ASSUME NEW loop, NEW p, NEW list, Len(list) \in Nat, NEW x
    PROVE  \E h : /\ h[0] = p
                  /\ \A n \in 1..Len(list) : h[n] = Turn(loop, h[n - 1], list[n], x)
                  /\ Each(loop, p, list, x) = h[Len(list)]
<1> DEFINE W(q, n) == Turn(loop, q, list[n], x)
           Runs(f, m) == f = [n \in 0..m |-> IF n = 0 THEN p ELSE W(f[n - 1], n)]
           T == {m \in Nat : \E f : Runs(f, m)}
<1> HIDE DEF W
<1>1. 0 \in T
  <2>1. Runs([n \in 0..0 |-> p], 0)
    OBVIOUS
  <2> QED BY <2>1
<1>2. ASSUME NEW m \in Nat, m \in T PROVE m + 1 \in T
  <2>1. PICK f : Runs(f, m)
    BY <1>2
  <2> DEFINE g == [n \in 0..(m + 1) |-> IF n = m + 1 THEN W(f[m], m + 1) ELSE f[n]]
  <2>2. \A n \in 0..(m + 1) : g[n] = IF n = 0 THEN p ELSE W(g[n - 1], n)
    <3>1. g[0] = p
      BY <2>1
    <3>2. ASSUME NEW n \in 1..m PROVE g[n] = W(g[n - 1], n)
      BY <2>1
    <3>3. g[m + 1] = W(g[m], m + 1)
      OBVIOUS
    <3> QED BY <3>1, <3>2, <3>3
  <2>3. Runs(g, m + 1)
    <3>1. g = [n \in 0..(m + 1) |-> g[n]]
      OBVIOUS
    <3> HIDE DEF g
    <3> QED BY <2>2, <3>1
  <2> HIDE DEF g, Runs
  <2>4. \E h : Runs(h, m + 1)
    BY <2>3
  <2> QED BY <2>4
<1>3. Len(list) \in T
  <2> HIDE DEF T
  <2> QED BY <1>1, <1>2, Induction
<1> DEFINE after == CHOOSE f : Runs(f, Len(list))
<1>4. Runs(after, Len(list))
  BY <1>3
<1>5. Each(loop, p, list, x) = after[Len(list)]
  BY DEF Each, W
<1> HIDE DEF after
<1>6. /\ after[0] = p
      /\ \A n \in 1..Len(list) : after[n] = W(after[n - 1], n)
  BY <1>4
<1> QED BY <1>5, <1>6 DEF W

(* What every turn keeps, the loop keeps.                                     *)
LEMMA EachKeeps ==
    ASSUME NEW loop, NEW I, NEW list \in Seq(I), NEW x, NEW S, NEW p \in S,
           \A q \in S, item \in I : Turn(loop, q, item, x) \in S
    PROVE  Each(loop, p, list, x) \in S
<1>1. Len(list) \in Nat /\ \A n \in 1..Len(list) : list[n] \in I
  OBVIOUS
<1>2. PICK h : /\ h[0] = p
               /\ \A n \in 1..Len(list) : h[n] = Turn(loop, h[n - 1], list[n], x)
               /\ Each(loop, p, list, x) = h[Len(list)]
  BY <1>1, EachRun
<1> DEFINE T == {n \in Nat : n <= Len(list) => h[n] \in S}
<1>3. 0 \in T
  BY <1>2
<1>4. ASSUME NEW n \in Nat, n \in T PROVE n + 1 \in T
  <2> SUFFICES ASSUME n + 1 <= Len(list) PROVE h[n + 1] \in S
    OBVIOUS
  <2>1. n + 1 \in 1..Len(list) /\ (n + 1) - 1 = n /\ h[n] \in S
    BY <1>1, <1>4
  <2>2. h[n + 1] = Turn(loop, h[n], list[n + 1], x)
    BY <1>2, <2>1
  <2> QED BY <1>1, <2>1, <2>2
<1>5. Len(list) \in T
  <2> HIDE DEF T
  <2> QED BY <1>1, <1>3, <1>4, Induction
<1> QED BY <1>1, <1>2, <1>5

-------------------------------------------------------------------------------
(* Types.                                                                     *)

Ledger(Ids) == [limit : Nat \cup {Unlimited}, retained : SUBSET Ids,
                young : SUBSET Ids, seen : SUBSET Ids]

(* What the handler answers for a rejected entity, and how it classifies one  *)
(* that is unavailable as a parent.                                           *)
Reasons == {"", "stale", "last_active_workspace", "workspace_deleted", "parent_deleted",
            "permanently_deleted", "parent_rejected", "invalid_parent", "quota_exceeded"}

Types == {"workspace", "collection", "bookmark", "saved_group"}

Rejections == [type : Types, id : Workspaces \cup Collections \cup Bookmarks \cup Groups,
               reason : Reasons]

(* What the handler holds; I are the entities of the table it works on.       *)
Held(I) == [db : Database,
            owned : SUBSET Workspaces, unavailable : [Workspaces -> Reasons],
            ownedCol : SUBSET Collections, unavailableCol : [Collections -> Reasons],
            wsQuota : Ledger(Workspaces), colQuota : Ledger(Collections),
            bmQuota : Ledger(Bookmarks), grpQuota : Ledger(Groups),
            legacyDeleted : SUBSET Workspaces,
            upserts : Seq(I),
            rejected : SUBSET Rejections,
            searchUpserts : SUBSET Bookmarks, searchDeletes : SUBSET Bookmarks]

WorkspaceItem == [id : Workspaces, op : {"metadata", "delete", "restore", "purge"}]

(* What the loops know of the request and the transaction.                    *)
Known == [before : Database, version : {0, 2}, horizon : Nat, seq : Nat, now : Nat,
          metadata : SUBSET Workspaces]

(* Nothing but the rejections differs.                                        *)
OnlyRejects(p, q) ==
    /\ q.db = p.db
    /\ q.owned = p.owned /\ q.unavailable = p.unavailable
    /\ q.ownedCol = p.ownedCol /\ q.unavailableCol = p.unavailableCol
    /\ q.wsQuota = p.wsQuota /\ q.colQuota = p.colQuota
    /\ q.bmQuota = p.bmQuota /\ q.grpQuota = p.grpQuota
    /\ q.legacyDeleted = p.legacyDeleted
    /\ q.upserts = p.upserts
    /\ q.searchUpserts = p.searchUpserts /\ q.searchDeletes = p.searchDeletes

(* A rejection adds to the rejections and to nothing else.                    *)
LEMMA RejectHeld ==
    ASSUME NEW I, NEW p \in Held(I), NEW type \in Types, NEW reason \in Reasons,
           NEW id \in Workspaces \cup Collections \cup Bookmarks \cup Groups
    PROVE  /\ Reject(p, type, id, reason) \in Held(I)
           /\ OnlyRejects(p, Reject(p, type, id, reason))
<1> DEFINE R == p.rejected \cup {[type |-> type, id |-> id, reason |-> reason]}
<1>1. [type |-> type, id |-> id, reason |-> reason] \in Rejections
  BY DEF Rejections
<1>2. R \in SUBSET Rejections
  BY <1>1 DEF Held
<1>3. Reject(p, type, id, reason) = [p EXCEPT !.rejected = R]
  BY DEF Reject
<1> HIDE DEF R
<1>4. [p EXCEPT !.rejected = R] \in Held(I)
  BY <1>2 DEF Held
<1>5. OnlyRejects(p, [p EXCEPT !.rejected = R])
  BY DEF Held, OnlyRejects
<1> QED BY <1>3, <1>4, <1>5

(* What the handler holds, field by field.                                    *)
LEMMA HeldFields ==
    ASSUME NEW I, NEW p \in Held(I)
    PROVE  /\ p.db \in Database
           /\ p.owned \in SUBSET Workspaces
           /\ p.unavailable \in [Workspaces -> Reasons]
           /\ p.ownedCol \in SUBSET Collections
           /\ p.unavailableCol \in [Collections -> Reasons]
           /\ p.wsQuota \in Ledger(Workspaces)
           /\ p.colQuota \in Ledger(Collections)
           /\ p.bmQuota \in Ledger(Bookmarks)
           /\ p.grpQuota \in Ledger(Groups)
           /\ p.legacyDeleted \in SUBSET Workspaces
           /\ p.upserts \in Seq(I)
           /\ p.rejected \in SUBSET Rejections
           /\ p.searchUpserts \in SUBSET Bookmarks
           /\ p.searchDeletes \in SUBSET Bookmarks
BY DEF Held

(* Each field can be set on its own.                                          *)
LEMMA HeldSet ==
    ASSUME NEW I, NEW p \in Held(I)
    PROVE  /\ \A e \in Database : [p EXCEPT !.db = e] \in Held(I)
           /\ \A U \in SUBSET Workspaces : [p EXCEPT !.owned = U] \in Held(I)
           /\ \A f \in [Workspaces -> Reasons] : [p EXCEPT !.unavailable = f] \in Held(I)
           /\ \A U \in SUBSET Collections : [p EXCEPT !.ownedCol = U] \in Held(I)
           /\ \A f \in [Collections -> Reasons] : [p EXCEPT !.unavailableCol = f] \in Held(I)
           /\ \A q \in Ledger(Workspaces) : [p EXCEPT !.wsQuota = q] \in Held(I)
           /\ \A q \in Ledger(Collections) : [p EXCEPT !.colQuota = q] \in Held(I)
           /\ \A q \in Ledger(Bookmarks) : [p EXCEPT !.bmQuota = q] \in Held(I)
           /\ \A q \in Ledger(Groups) : [p EXCEPT !.grpQuota = q] \in Held(I)
           /\ \A U \in SUBSET Workspaces : [p EXCEPT !.legacyDeleted = U] \in Held(I)
           /\ \A s \in Seq(I) : [p EXCEPT !.upserts = s] \in Held(I)
           /\ \A U \in SUBSET Bookmarks : [p EXCEPT !.searchUpserts = U] \in Held(I)
           /\ \A U \in SUBSET Bookmarks : [p EXCEPT !.searchDeletes = U] \in Held(I)
BY DEF Held

-------------------------------------------------------------------------------
(* What a turn does: it refuses an entity, queues it, or writes.              *)

(* An entity is refused: at most it becomes unavailable as a parent.          *)
Refused(p, q) ==
    /\ q.db = p.db /\ q.upserts = p.upserts /\ q.legacyDeleted = p.legacyDeleted
    /\ \A w \in Workspaces : q.unavailable[w] = p.unavailable[w] \/ q.unavailable[w] # ""
    /\ \A c \in Collections :
          q.unavailableCol[c] = p.unavailableCol[c] \/ q.unavailableCol[c] # ""

Refuses(I, p, q) == q \in Held(I) /\ Refused(p, q)

(* An entity waits for its batch.                                             *)
Queued(p, q, item) ==
    /\ q.db = p.db /\ q.legacyDeleted = p.legacyDeleted
    /\ q.unavailable = p.unavailable /\ q.unavailableCol = p.unavailableCol
    /\ q.upserts = Append(p.upserts, item)

Queues(I, p, q, item) == (item \in I => q \in Held(I)) /\ Queued(p, q, item)

(* A rejection refuses, and so it does when it closes the entity to others.   *)
LEMMA RejectRefuses ==
    ASSUME NEW I, NEW p \in Held(I), NEW type \in Types, NEW reason \in Reasons,
           NEW id \in Workspaces \cup Collections \cup Bookmarks \cup Groups
    PROVE  Refuses(I, p, Reject(p, type, id, reason))
<1> DEFINE q == Reject(p, type, id, reason)
<1>1. q \in Held(I) /\ OnlyRejects(p, q)
  BY RejectHeld
<1> HIDE DEF q
<1>2. Refused(p, q)
  BY <1>1 DEF Refused, OnlyRejects
<1> QED BY <1>1, <1>2 DEF Refuses, q

ClosedWorkspace(p, type, id, reason, z) ==
    [Reject(p, type, id, reason) EXCEPT !.unavailable[id] = z]
ClosedCollection(p, type, id, reason, z) ==
    [Reject(p, type, id, reason) EXCEPT !.unavailableCol[id] = z]

(* A workspace that is refused may be closed to its children; it is never     *)
(* opened.                                                                    *)
LEMMA RejectClosesWorkspace ==
    ASSUME NEW I, NEW p \in Held(I), NEW type \in Types, NEW reason \in Reasons,
           NEW id \in Workspaces, NEW z \in Reasons, z = p.unavailable[id] \/ z # ""
    PROVE  Refuses(I, p, ClosedWorkspace(p, type, id, reason, z))
<1> DEFINE q == Reject(p, type, id, reason)
           f == [q.unavailable EXCEPT ![id] = z]
<1>1. q \in Held(I) /\ OnlyRejects(p, q)
  BY RejectHeld
<1>2. ClosedWorkspace(p, type, id, reason, z) = [q EXCEPT !.unavailable = f]
  BY DEF ClosedWorkspace
<1> HIDE DEF q
<1>3. q.unavailable \in [Workspaces -> Reasons]
  BY <1>1, HeldFields
<1>4. f \in [Workspaces -> Reasons] /\ \A w \in Workspaces : f[w] = q.unavailable[w] \/ f[w] # ""
  BY <1>1, <1>3 DEF OnlyRejects
<1> HIDE DEF f
<1>5. [q EXCEPT !.unavailable = f] \in Held(I)
  BY <1>1, <1>4, HeldSet
<1>6. Refused(p, [q EXCEPT !.unavailable = f])
  BY <1>1, <1>4 DEF Refused, OnlyRejects, Held
<1> QED BY <1>2, <1>5, <1>6 DEF Refuses, q

(* The same for a collection.                                                 *)
LEMMA RejectClosesCollection ==
    ASSUME NEW I, NEW p \in Held(I), NEW type \in Types, NEW reason \in Reasons,
           NEW id \in Collections, NEW z \in Reasons, z = p.unavailableCol[id] \/ z # ""
    PROVE  Refuses(I, p, ClosedCollection(p, type, id, reason, z))
<1> DEFINE q == Reject(p, type, id, reason)
           f == [q.unavailableCol EXCEPT ![id] = z]
<1>1. q \in Held(I) /\ OnlyRejects(p, q)
  BY RejectHeld
<1>2. ClosedCollection(p, type, id, reason, z) = [q EXCEPT !.unavailableCol = f]
  BY DEF ClosedCollection
<1> HIDE DEF q
<1>3. q.unavailableCol \in [Collections -> Reasons]
  BY <1>1, HeldFields
<1>4. f \in [Collections -> Reasons]
      /\ \A c \in Collections : f[c] = q.unavailableCol[c] \/ f[c] # ""
  BY <1>1, <1>3 DEF OnlyRejects
<1> HIDE DEF f
<1>5. [q EXCEPT !.unavailableCol = f] \in Held(I)
  BY <1>1, <1>4, HeldSet
<1>6. Refused(p, [q EXCEPT !.unavailableCol = f])
  BY <1>1, <1>4 DEF Refused, OnlyRejects, Held
<1> QED BY <1>2, <1>5, <1>6 DEF Refuses, q

(* The ledgers keep their type.                                               *)
LEMMA LedgerType ==
    ASSUME NEW Ids, NEW quota \in Ledger(Ids)
    PROVE  /\ \A id \in Ids, terminal \in BOOLEAN : Admit(quota, id, terminal) \in Ledger(Ids)
           /\ \A S : ReleaseApplied(quota, S) \in Ledger(Ids)
<1>1. ASSUME NEW id \in Ids, NEW terminal \in BOOLEAN PROVE Admit(quota, id, terminal) \in Ledger(Ids)
  BY DEF Admit, Ledger
<1>2. ASSUME NEW S PROVE ReleaseApplied(quota, S) \in Ledger(Ids)
  BY DEF ReleaseApplied, Ledger
<1> QED BY <1>1, <1>2

(* To queue an entity, with the ledger of its table.                          *)
QueuedWorkspace(p, quota, item) ==
    [p EXCEPT !.wsQuota = quota, !.upserts = Append(@, item)]
QueuedCollection(p, quota, item) ==
    [p EXCEPT !.colQuota = quota, !.upserts = Append(@, item)]
QueuedBookmark(p, quota, item) ==
    [p EXCEPT !.bmQuota = quota, !.upserts = Append(@, item)]
QueuedGroup(p, quota, item) ==
    [p EXCEPT !.grpQuota = quota, !.upserts = Append(@, item)]

(* Whatever the new state of its ledger, an entity that is admitted is queued. *)
LEMMA AppendQueues ==
    ASSUME NEW I, NEW p \in Held(I), NEW item
    PROVE  /\ \A quota \in Ledger(Workspaces) : Queues(I, p, QueuedWorkspace(p, quota, item), item)
           /\ \A quota \in Ledger(Collections) : Queues(I, p, QueuedCollection(p, quota, item), item)
           /\ \A quota \in Ledger(Bookmarks) : Queues(I, p, QueuedBookmark(p, quota, item), item)
           /\ \A quota \in Ledger(Groups) : Queues(I, p, QueuedGroup(p, quota, item), item)
<1> DEFINE list == Append(p.upserts, item)
<1>1. item \in I => list \in Seq(I)
  BY HeldFields
<1> HIDE DEF list
<1>2. ASSUME NEW quota \in Ledger(Workspaces)
      PROVE  Queues(I, p, QueuedWorkspace(p, quota, item), item)
  BY <1>1 DEF Held, Queues, Queued, list, QueuedWorkspace
<1>3. ASSUME NEW quota \in Ledger(Collections)
      PROVE  Queues(I, p, QueuedCollection(p, quota, item), item)
  BY <1>1 DEF Held, Queues, Queued, list, QueuedCollection
<1>4. ASSUME NEW quota \in Ledger(Bookmarks)
      PROVE  Queues(I, p, QueuedBookmark(p, quota, item), item)
  BY <1>1 DEF Held, Queues, Queued, list, QueuedBookmark
<1>5. ASSUME NEW quota \in Ledger(Groups)
      PROVE  Queues(I, p, QueuedGroup(p, quota, item), item)
  BY <1>1 DEF Held, Queues, Queued, list, QueuedGroup
<1> QED BY <1>2, <1>3, <1>4, <1>5

-------------------------------------------------------------------------------
(* The turns of the workspace loops.                                          *)

(* A version-0 delete: ApplyInTx, and the root is closed to children.         *)
LegacyDeleted(p, q, id, seq, now) ==
    /\ q.db = Applied(p.db, id, "delete", 0, seq, now)
    /\ q.unavailable[id] # "" /\ \A w \in Workspaces \ {id} : q.unavailable[w] = p.unavailable[w]
    /\ q.unavailableCol = p.unavailableCol
    /\ q.legacyDeleted = p.legacyDeleted \cup {id}
    /\ q.upserts = p.upserts

(* One version-0 workspace with a deleted_at: it is refused, or it is deleted *)
(* and closed to the children of the same push.                               *)
LEMMA LegacyDeleteTurn ==
    ASSUME NEW I, NEW p \in Held(I), NEW id \in Workspaces, NEW metadata,
           NEW seq \in Nat, NEW now \in Nat
    PROVE  LET q == LegacyDeleteItem(p, id, metadata, seq, now) IN
           Refuses(I, p, q) \/ (q \in Held(I) /\ LegacyDeleted(p, q, id, seq, now))
<1> DEFINE reason == Rejection(p.db, id, "delete", 0)
           e == Applied(p.db, id, "delete", 0, seq, now)
           effect == Effect(p.db, id, "delete", 0)
           r == AddEffect(p, effect)
<1>0. /\ p.db \in Database /\ p.owned \in SUBSET Workspaces
      /\ p.unavailable \in [Workspaces -> Reasons]
      /\ p.legacyDeleted \in SUBSET Workspaces
  BY HeldFields
<1>1. CASE reason # ""
  <2>1. reason \in Reasons /\ "workspace" \in Types /\ "parent_rejected" \in Reasons
    BY DEF Rejection, Reasons, Types
  <2> DEFINE z == IF id \in metadata THEN p.unavailable[id] ELSE "parent_rejected"
             k == Reject(p, "workspace", id, reason)
  <2>2. z \in Reasons /\ (z = p.unavailable[id] \/ z # "")
    BY <1>0, <2>1
  <2>3. Refuses(I, p, ClosedWorkspace(p, "workspace", id, reason, z))
    <3>1. id \in Workspaces \cup Collections \cup Bookmarks \cup Groups
      OBVIOUS
    <3> HIDE DEF z, reason
    <3> QED BY <2>1, <2>2, RejectClosesWorkspace
  <2>4. k.unavailable = p.unavailable
    <3>1. id \in Workspaces \cup Collections \cup Bookmarks \cup Groups
      OBVIOUS
    <3> HIDE DEF reason
    <3> QED BY <2>1, <3>1, RejectHeld DEF OnlyRejects
  <2>5. LegacyDeleteItem(p, id, metadata, seq, now)
          = [k EXCEPT !.unavailable[id] = IF id \in metadata THEN k.unavailable[id] ELSE "parent_rejected"]
    BY <1>1 DEF LegacyDeleteItem
  <2> HIDE DEF k
  <2>6. LegacyDeleteItem(p, id, metadata, seq, now) = [k EXCEPT !.unavailable[id] = z]
    BY <2>4, <2>5
  <2> HIDE DEF z
  <2> QED BY <2>3, <2>6 DEF k, ClosedWorkspace
<1>2. CASE reason = ""
  <2>1. e \in Database
    BY <1>0, AppliedType DEF LifecycleActions
  <2>2. effect.upserts \in SUBSET Bookmarks /\ effect.deletes \in SUBSET Bookmarks
    BY DEF Effect, NoEffect, LiveBookmarks, EvidenceBookmarks, WorkspaceDocuments, BookmarksOf
  <2>3. r \in Held(I) /\ r.unavailable = p.unavailable /\ r.owned = p.owned
        /\ r.legacyDeleted = p.legacyDeleted /\ r.upserts = p.upserts
        /\ r.unavailableCol = p.unavailableCol
    <3> HIDE DEF effect
    <3> QED BY <2>2 DEF AddEffect, Held
  <2>4. LegacyDeleteItem(p, id, metadata, seq, now)
          = [r EXCEPT !.db = e, !.owned = r.owned \cup {id},
                      !.unavailable = [r.unavailable EXCEPT ![id] = "parent_rejected"],
                      !.legacyDeleted = r.legacyDeleted \cup {id}]
    BY <1>2 DEF LegacyDeleteItem
  <2> HIDE DEF e, r
  <2> DEFINE U == r.owned \cup {id}
             D == r.legacyDeleted \cup {id}
             f == [r.unavailable EXCEPT ![id] = "parent_rejected"]
  <2>5. /\ U \in SUBSET Workspaces /\ D \in SUBSET Workspaces
        /\ f \in [Workspaces -> Reasons] /\ f[id] # ""
        /\ \A w \in Workspaces \ {id} : f[w] = p.unavailable[w]
    BY <1>0, <2>3 DEF Reasons
  <2>6. D = p.legacyDeleted \cup {id}
    BY <2>3
  <2> DEFINE q == [r EXCEPT !.db = e, !.owned = U, !.unavailable = f, !.legacyDeleted = D]
  <2>7. LegacyDeleteItem(p, id, metadata, seq, now) = q
    BY <2>4
  <2> HIDE DEF U, D, f
  <2>8. q \in Held(I) /\ q.db = e /\ q.unavailable = f /\ q.legacyDeleted = D
        /\ q.upserts = r.upserts /\ q.unavailableCol = r.unavailableCol
    BY <2>1, <2>3, <2>5 DEF Held
  <2> HIDE DEF q
  <2> QED BY <2>3, <2>5, <2>6, <2>7, <2>8 DEF LegacyDeleted, e
<1> QED BY <1>1, <1>2

(* Metadata is queued when the ledger has room.                               *)
LEMMA QueueWorkspaceTurn ==
    ASSUME NEW I, NEW p \in Held(I), NEW item \in WorkspaceItem
    PROVE  LET q == QueueWorkspace(p, item) IN Refuses(I, p, q) \/ Queues(I, p, q, item)
<1>0. item.id \in Workspaces /\ p.wsQuota \in Ledger(Workspaces)
  BY HeldFields DEF WorkspaceItem
<1>1. CASE Admitted(p.wsQuota, item.id, FALSE)
  <2>1. Admit(p.wsQuota, item.id, FALSE) \in Ledger(Workspaces)
    BY <1>0, LedgerType
  <2>2. QueueWorkspace(p, item)
          = QueuedWorkspace(p, Admit(p.wsQuota, item.id, FALSE), item)
    BY <1>1 DEF QueueWorkspace, QueuedWorkspace
  <2> QED BY <2>1, <2>2, AppendQueues
<1>2. CASE ~Admitted(p.wsQuota, item.id, FALSE)
  <2>1. QueueWorkspace(p, item)
          = ClosedWorkspace(p, "workspace", item.id, "quota_exceeded", "parent_rejected")
    BY <1>2 DEF QueueWorkspace, ClosedWorkspace
  <2>2. "workspace" \in Types /\ "quota_exceeded" \in Reasons /\ "parent_rejected" \in Reasons
        /\ "parent_rejected" # ""
    BY DEF Types, Reasons
  <2> QED BY <1>0, <2>1, <2>2, RejectClosesWorkspace
<1> QED BY <1>1, <1>2

(* The refusal that leaves the workspaces of the snapshot open.               *)
StaleWorkspace(p, id, reason) ==
    [Reject(p, "workspace", id, reason) EXCEPT
        !.unavailable[id] = IF id \notin p.owned /\ @ = "" THEN "parent_rejected" ELSE @]

(* A workspace refused as stale, or for a lifecycle action it does not allow, *)
(* is closed only when it was neither owned nor closed before.                *)
LEMMA StaleWorkspaceRefuses ==
    ASSUME NEW I, NEW p \in Held(I), NEW id \in Workspaces, NEW reason \in Reasons
    PROVE  Refuses(I, p, StaleWorkspace(p, id, reason))
<1> DEFINE k == Reject(p, "workspace", id, reason)
           z == IF id \notin p.owned /\ p.unavailable[id] = "" THEN "parent_rejected"
                                                             ELSE p.unavailable[id]
<1>1. "workspace" \in Types /\ id \in Workspaces \cup Collections \cup Bookmarks \cup Groups
  BY DEF Types
<1>2. k.unavailable = p.unavailable
  BY <1>1, RejectHeld DEF OnlyRejects
<1>3. z \in Reasons /\ (z = p.unavailable[id] \/ z # "")
  BY HeldFields DEF Reasons
<1>4. StaleWorkspace(p, id, reason)
        = [k EXCEPT !.unavailable[id] = IF id \notin p.owned /\ k.unavailable[id] = ""
                                        THEN "parent_rejected" ELSE k.unavailable[id]]
  BY DEF StaleWorkspace
<1> HIDE DEF k
<1>5. StaleWorkspace(p, id, reason) = [k EXCEPT !.unavailable[id] = z]
  BY <1>2, <1>4
<1> HIDE DEF z
<1>6. StaleWorkspace(p, id, reason) = ClosedWorkspace(p, "workspace", id, reason, z)
  BY <1>5 DEF ClosedWorkspace, k
<1> QED BY <1>1, <1>3, <1>6, RejectClosesWorkspace

(* Version-0 metadata is queued only for a workspace that was not deleted.    *)
LEMMA LegacyMetadataTurn ==
    ASSUME NEW I, NEW p \in Held(I), NEW item \in WorkspaceItem, NEW d
    PROVE  LET q == LegacyMetadataItem(p, item, d) IN
           Refuses(I, p, q) \/ (~Shut(d, item.id) /\ Queues(I, p, q, item))
<1> DEFINE reason == IF d.ws[item.id].is_deleted = Retained \/ item.id \in p.legacyDeleted
                     THEN "workspace_deleted"
                     ELSE IF d.ws[item.id].is_deleted = Terminal
                     THEN "permanently_deleted" ELSE ""
<1>0. item.id \in Workspaces
  BY DEF WorkspaceItem
<1>1. CASE reason = ""
  <2>1. ~Shut(d, item.id)
    BY <1>1 DEF Shut
  <2>2. LegacyMetadataItem(p, item, d) = QueueWorkspace(p, item)
    BY <1>1 DEF LegacyMetadataItem
  <2> HIDE DEF reason
  <2> QED BY <2>1, <2>2, QueueWorkspaceTurn
<1>2. CASE reason # ""
  <2>1. LegacyMetadataItem(p, item, d)
          = ClosedWorkspace(p, "workspace", item.id, reason, "parent_rejected")
    BY <1>2 DEF LegacyMetadataItem, ClosedWorkspace
  <2>2. "workspace" \in Types /\ reason \in Reasons /\ "parent_rejected" \in Reasons
        /\ "parent_rejected" # ""
    BY DEF Types, Reasons
  <2> HIDE DEF reason
  <2> QED BY <1>0, <2>1, <2>2, RejectClosesWorkspace
<1> QED BY <1>1, <1>2

(* Version-2 metadata is queued only for a workspace that is available.       *)
LEMMA MetadataTurn ==
    ASSUME NEW I, NEW p \in Held(I), NEW item \in WorkspaceItem
    PROVE  LET q == MetadataItem(p, item) IN
           \/ Refuses(I, p, q)
           \/ p.unavailable[item.id] = "" /\ Queues(I, p, q, item)
<1> DEFINE reason == p.unavailable[item.id]
           said == IF reason = "parent_deleted" THEN "workspace_deleted" ELSE reason
<1>0. item.id \in Workspaces /\ p.unavailable \in [Workspaces -> Reasons]
  BY HeldFields DEF WorkspaceItem
<1>1. CASE reason = ""
  <2>1. MetadataItem(p, item) = QueueWorkspace(p, item)
    BY <1>1 DEF MetadataItem
  <2> QED BY <1>1, <2>1, QueueWorkspaceTurn
<1>2. CASE reason # ""
  <2>1. MetadataItem(p, item) = Reject(p, "workspace", item.id, said)
    BY <1>2 DEF MetadataItem
  <2>2. "workspace" \in Types /\ said \in Reasons
    BY <1>0 DEF Types, Reasons
  <2>3. item.id \in Workspaces \cup Collections \cup Bookmarks \cup Groups
    BY <1>0
  <2> HIDE DEF said
  <2> QED BY <2>1, <2>2, <2>3, RejectRefuses
<1> QED BY <1>1, <1>2

(* A version-2 lifecycle action: ApplyInTx, and the workspace and its         *)
(* collections are closed or opened to children.                              *)
ReasonOf(op) == CASE op = "delete" -> "parent_deleted"
                  [] op = "purge" -> "permanently_deleted"
                  [] OTHER -> ""

MovedBy(p, q, id, op, d, seq, now) ==
    /\ Rejection(p.db, id, op, 1) = ""
    /\ q.db = Applied(p.db, id, op, 1, seq, now)
    /\ q.unavailable[id] = ReasonOf(op)
    /\ \A w \in Workspaces \ {id} : q.unavailable[w] = p.unavailable[w]
    /\ \A c \in CollectionsOf(d, id) : q.unavailableCol[c] = "" => ReasonOf(op) = ""
    /\ \A c \in Collections \ CollectionsOf(d, id) : q.unavailableCol[c] = p.unavailableCol[c]
    /\ q.legacyDeleted = p.legacyDeleted
    /\ q.upserts = p.upserts

(* refreshWorkspaceCollections closes the collections of a workspace that is  *)
(* no longer active, and changes nothing else.                                *)
Refreshed(p, q, w, reason, d) ==
    /\ q.db = p.db /\ q.unavailable = p.unavailable
    /\ q.legacyDeleted = p.legacyDeleted /\ q.upserts = p.upserts
    /\ \A c \in CollectionsOf(d, w) :
          q.unavailableCol[c] = "" => reason \notin {"permanently_deleted", "parent_deleted"}
    /\ \A c \in Collections \ CollectionsOf(d, w) : q.unavailableCol[c] = p.unavailableCol[c]

(* After a lifecycle action no collection of the workspace is open that the   *)
(* action or an earlier deletion closes, and no other collection changes.     *)
LEMMA RefreshHeld ==
    ASSUME NEW I, NEW p \in Held(I), NEW w \in Workspaces, NEW reason \in Reasons, NEW d \in Database
    PROVE  LET q == RefreshCollections(p, w, reason, d) IN
           q \in Held(I) /\ Refreshed(p, q, w, reason, d)
<1> DEFINE state(c) == d.col[c].is_deleted
           ruled(c) == IF reason = "permanently_deleted" \/ state(c) = Terminal
                       THEN "permanently_deleted"
                       ELSE IF reason = "parent_deleted" \/ state(c) = Retained
                       THEN "parent_deleted" ELSE ""
           f == [c \in Collections |-> IF c \in CollectionsOf(d, w) THEN ruled(c) ELSE p.unavailableCol[c]]
           O == (p.ownedCol \ CollectionsOf(d, w)) \cup {c \in CollectionsOf(d, w) : ruled(c) = ""}
<1>1. \A c : ruled(c) \in Reasons
  BY DEF Reasons
<1>2. RefreshCollections(p, w, reason, d) = [p EXCEPT !.unavailableCol = f, !.ownedCol = O]
  BY DEF RefreshCollections
<1>3. \A c : ruled(c) = "" => reason \notin {"permanently_deleted", "parent_deleted"}
  OBVIOUS
<1> HIDE DEF ruled
<1>4. f \in [Collections -> Reasons] /\ O \in SUBSET Collections
  BY <1>1, HeldFields DEF CollectionsOf
<1>5. /\ \A c \in CollectionsOf(d, w) :
             f[c] = "" => reason \notin {"permanently_deleted", "parent_deleted"}
      /\ \A c \in Collections \ CollectionsOf(d, w) : f[c] = p.unavailableCol[c]
  BY <1>3 DEF CollectionsOf
<1> HIDE DEF f, O
<1>6. /\ [p EXCEPT !.unavailableCol = f, !.ownedCol = O] \in Held(I)
      /\ [p EXCEPT !.unavailableCol = f, !.ownedCol = O].unavailableCol = f
      /\ LET q == [p EXCEPT !.unavailableCol = f, !.ownedCol = O] IN
         /\ q.db = p.db /\ q.unavailable = p.unavailable
         /\ q.legacyDeleted = p.legacyDeleted /\ q.upserts = p.upserts
  BY <1>4 DEF Held
<1> QED BY <1>2, <1>5, <1>6 DEF Refreshed

(* One lifecycle action of version 2: it is refused, or the tables, the       *)
(* availability of the workspace and that of its collections follow it.       *)
LEMMA LifecycleTurn ==
    ASSUME NEW I, NEW p \in Held(I), NEW id \in Workspaces, NEW op \in LifecycleActions,
           NEW d \in Database, NEW seq \in Nat, NEW now \in Nat
    PROVE  LET q == LifecycleItem(p, id, op, d, seq, now) IN
           Refuses(I, p, q) \/ (q \in Held(I) /\ MovedBy(p, q, id, op, d, seq, now))
<1> DEFINE refusal == Rejection(p.db, id, op, 1)
           reason == ReasonOf(op)
           e == Applied(p.db, id, op, 1, seq, now)
           effect == Effect(p.db, id, op, 1)
           r == AddEffect(p, effect)
           U == IF reason = "" THEN r.owned \cup {id} ELSE r.owned \ {id}
           f == [r.unavailable EXCEPT ![id] = reason]
           moved == [r EXCEPT !.db = e, !.owned = U, !.unavailable = f]
           released == [moved EXCEPT
                          !.wsQuota = ReleaseApplied(@, {id}),
                          !.colQuota = ReleaseApplied(@, CollectionsOf(d, id)),
                          !.bmQuota = ReleaseApplied(@, effect.deletes),
                          !.grpQuota = ReleaseApplied(@, GroupsOf(d, id))]
           k == IF op = "purge" THEN released ELSE moved
<1>0. /\ p.db \in Database /\ p.owned \in SUBSET Workspaces
      /\ p.unavailable \in [Workspaces -> Reasons]
  BY HeldFields
<1>1. CASE refusal # ""
  <2>1. refusal \in Reasons
    BY DEF Rejection, Reasons
  <2>2. LifecycleItem(p, id, op, d, seq, now) = StaleWorkspace(p, id, refusal)
    BY <1>1 DEF LifecycleItem, StaleWorkspace
  <2> HIDE DEF refusal
  <2> QED BY <2>1, <2>2, StaleWorkspaceRefuses
<1>2. CASE refusal = ""
  <2>1. LifecycleItem(p, id, op, d, seq, now) = RefreshCollections(k, id, reason, d)
    BY <1>2 DEF LifecycleItem, LifecycleApplied, ReasonOf
  <2>2. e \in Database
    BY <1>0, AppliedType
  <2>3. effect.upserts \in SUBSET Bookmarks /\ effect.deletes \in SUBSET Bookmarks
    BY DEF Effect, NoEffect, LiveBookmarks, EvidenceBookmarks, WorkspaceDocuments, BookmarksOf
  <2>4. r \in Held(I) /\ r.unavailable = p.unavailable /\ r.owned = p.owned
        /\ r.legacyDeleted = p.legacyDeleted /\ r.upserts = p.upserts
        /\ r.unavailableCol = p.unavailableCol
    <3> HIDE DEF effect
    <3> QED BY <2>3 DEF AddEffect, Held
  <2>5. reason \in Reasons
    BY DEF ReasonOf, Reasons
  <2> HIDE DEF e, r, reason
  <2>6. U \in SUBSET Workspaces /\ f \in [Workspaces -> Reasons] /\ f[id] = reason
        /\ \A w \in Workspaces \ {id} : f[w] = p.unavailable[w]
    BY <1>0, <2>4, <2>5
  <2> HIDE DEF U, f
  <2>7. moved \in Held(I) /\ moved.db = e /\ moved.unavailable = f
        /\ moved.legacyDeleted = r.legacyDeleted /\ moved.upserts = r.upserts
        /\ moved.unavailableCol = r.unavailableCol
    BY <2>2, <2>4, <2>6 DEF Held
  <2> HIDE DEF moved
  <2>8. released \in Held(I) /\ released.db = moved.db /\ released.unavailable = moved.unavailable
        /\ released.legacyDeleted = moved.legacyDeleted /\ released.upserts = moved.upserts
        /\ released.unavailableCol = moved.unavailableCol
    <3> DEFINE q1 == ReleaseApplied(moved.wsQuota, {id})
               q2 == ReleaseApplied(moved.colQuota, CollectionsOf(d, id))
               q3 == ReleaseApplied(moved.bmQuota, effect.deletes)
               q4 == ReleaseApplied(moved.grpQuota, GroupsOf(d, id))
    <3>1. q1 \in Ledger(Workspaces)
      BY <2>7, HeldFields, LedgerType
    <3>2. q2 \in Ledger(Collections)
      BY <2>7, HeldFields, LedgerType
    <3>3. q3 \in Ledger(Bookmarks)
      BY <2>7, HeldFields, LedgerType
    <3>4. q4 \in Ledger(Groups)
      BY <2>7, HeldFields, LedgerType
    <3>5. released = [moved EXCEPT !.wsQuota = q1, !.colQuota = q2, !.bmQuota = q3, !.grpQuota = q4]
      OBVIOUS
    <3> HIDE DEF q1, q2, q3, q4, released
    <3> QED BY <2>7, <3>1, <3>2, <3>3, <3>4, <3>5 DEF Held
  <2> HIDE DEF released
  <2>9. k \in Held(I) /\ k.db = e /\ k.unavailable = f /\ k.legacyDeleted = p.legacyDeleted
        /\ k.upserts = p.upserts /\ k.unavailableCol = p.unavailableCol
    BY <2>4, <2>7, <2>8
  <2> HIDE DEF k
  <2> DEFINE q == RefreshCollections(k, id, reason, d)
  <2>10. q \in Held(I) /\ Refreshed(k, q, id, reason, d)
    BY <2>5, <2>9, RefreshHeld
  <2>11. reason \notin {"permanently_deleted", "parent_deleted"} => reason = ""
    BY DEF reason, ReasonOf
  <2> HIDE DEF q
  <2>12. MovedBy(p, q, id, op, d, seq, now)
    BY <1>2, <2>6, <2>9, <2>10, <2>11 DEF MovedBy, Refreshed, e, reason
  <2> QED BY <2>1, <2>10, <2>12 DEF q
<1> QED BY <1>1, <1>2

(* One row of the workspace batch.                                            *)
StoredWorkspace(row, seq) ==
    IF row.is_deleted = Absent
    THEN [is_deleted |-> Active, deletion_model |-> 1, deleted_at |-> Null, seq |-> seq]
    ELSE [row EXCEPT !.deleted_at = Null, !.seq = seq]

StoresWorkspace(p, q, id, horizon, seq) ==
    /\ p.db.ws[id].seq <= horizon
    /\ OneRow(p.db, id, StoredWorkspace(p.db.ws[id], seq), q.db)
    /\ SameChildren(p.db, q.db)
    /\ q.unavailable = p.unavailable /\ q.unavailableCol = p.unavailableCol
    /\ q.legacyDeleted = p.legacyDeleted

(* One row of the workspace batch: it is stale, or it is written without      *)
(* touching the state of a row that is there.                                 *)
LEMMA UpsertWorkspaceTurn ==
    ASSUME NEW I, NEW p \in Held(I), NEW item \in WorkspaceItem, NEW horizon \in Nat, NEW seq \in Nat
    PROVE  LET q == UpsertWorkspace(p, item, horizon, seq) IN
           Refuses(I, p, q) \/ (q \in Held(I) /\ StoresWorkspace(p, q, item.id, horizon, seq))
<1> DEFINE row == p.db.ws[item.id]
           new == StoredWorkspace(row, seq)
           e == [p.db EXCEPT !.ws[item.id] = new]
           U == p.owned \cup {item.id}
<1>0. /\ p.db \in Database /\ p.owned \in SUBSET Workspaces
      /\ item.id \in Workspaces
  BY HeldFields DEF WorkspaceItem
<1>1. new \in WorkspaceRow
  <2>1. row \in WorkspaceRow
    BY <1>0 DEF Database
  <2> HIDE DEF row
  <2> QED BY <2>1 DEF StoredWorkspace, WorkspaceRow, States, Timestamp, Active, Null
<1>2. e \in Database
  <2> HIDE DEF new
  <2> QED BY <1>0, <1>1, WorkspaceType
<1>3. CASE row.seq <= horizon
  <2>1. UpsertWorkspace(p, item, horizon, seq) = [p EXCEPT !.db = e, !.owned = U]
    BY <1>3 DEF UpsertWorkspace, StoredWorkspace
  <2>2. U \in SUBSET Workspaces
    BY <1>0
  <2>3. OneRow(p.db, item.id, new, e) /\ SameChildren(p.db, e)
    <3> HIDE DEF new
    <3> QED BY <1>0 DEF OneRow, SameChildren, Database
  <2> HIDE DEF e, U
  <2> DEFINE q == [p EXCEPT !.db = e, !.owned = U]
  <2>4. q \in Held(I) /\ q.db = e /\ q.unavailable = p.unavailable
        /\ q.unavailableCol = p.unavailableCol /\ q.legacyDeleted = p.legacyDeleted
    BY <1>2, <2>2 DEF Held
  <2> HIDE DEF q
  <2>5. StoresWorkspace(p, q, item.id, horizon, seq)
    BY <1>3, <2>3, <2>4 DEF StoresWorkspace
  <2> QED BY <2>1, <2>4, <2>5 DEF q
<1>4. CASE ~(row.seq <= horizon)
  <2>1. UpsertWorkspace(p, item, horizon, seq) = StaleWorkspace(p, item.id, "stale")
    BY <1>4 DEF UpsertWorkspace, StaleWorkspace
  <2>2. "stale" \in Reasons
    BY DEF Reasons
  <2> QED BY <1>0, <2>1, <2>2, StaleWorkspaceRefuses
<1> QED BY <1>3, <1>4

-------------------------------------------------------------------------------
(* The turns of the loops over collections, bookmarks and groups.             *)

(* A parent that is accepted is none, or one that is available.               *)
Accepting(parent, unavailable, ids) ==
    parent \in ids \cup {NoId} /\ (parent = NoId \/ unavailable[parent] = "")

(* Only a parent that is none, or open, is not rejected.                      *)
LEMMA ParentRejectionType ==
    ASSUME NEW ids, NEW parent \in ids \cup {NoId}, NEW nil \in BOOLEAN, NEW owned,
           NEW unavailable \in [ids -> Reasons]
    PROVE  /\ ParentRejection(parent, nil, owned, unavailable) \in Reasons
           /\ ParentRejection(parent, nil, owned, unavailable) = "" =>
                 Accepting(parent, unavailable, ids)
BY DEF ParentRejection, Reasons, Accepting

(* A rescue is refused with the reason the stored parent is unavailable for.  *)
LEMMA RescueType ==
    ASSUME NEW I, NEW p \in Held(I), NEW stored \in Workspaces \cup {NoId}, NEW target
    PROVE  RescueRejection(p, stored, target) \in Reasons
<1>1. p.unavailable \in [Workspaces -> Reasons]
  BY HeldFields
<1> QED BY <1>1 DEF RescueRejection, Reasons

(* One collection of the request: it is refused, or queued under a workspace  *)
(* that is open at that moment, or under none.                                *)
LEMMA SortCollectionTurn ==
    ASSUME NEW I, NEW p \in Held(I), NEW item \in CollectionItems, NEW d \in Database
    PROVE  LET q == SortCollection(p, item, d) IN
           \/ Refuses(I, p, q)
           \/ Accepting(item.parent, p.unavailable, Workspaces) /\ Queues(I, p, q, item)
<1> DEFINE rescue == RescueRejection(p, d.col[item.id].workspace_id, item.parent)
           parent == ParentRejection(item.parent, TRUE, p.owned, p.unavailable)
           terminal == item.state = Terminal
<1>0. /\ item.id \in Collections /\ item.parent \in Workspaces \cup {NoId}
      /\ item.id \in Workspaces \cup Collections \cup Bookmarks \cup Groups
      /\ p.unavailable \in [Workspaces -> Reasons]
      /\ p.unavailableCol \in [Collections -> Reasons]
      /\ p.colQuota \in Ledger(Collections)
  BY HeldFields DEF CollectionItems
<1>1. rescue \in Reasons
  <2>1. d.col[item.id].workspace_id \in Workspaces \cup {NoId}
    BY <1>0 DEF Database, CollectionRow
  <2> QED BY <2>1, RescueType
<1>2. parent \in Reasons /\ (parent = "" => Accepting(item.parent, p.unavailable, Workspaces))
  BY <1>0, ParentRejectionType
<1>3. "collection" \in Types /\ "quota_exceeded" \in Reasons /\ "parent_rejected" \in Reasons
      /\ "parent_rejected" # ""
  BY DEF Types, Reasons
<1>4. CASE rescue # ""
  <2>1. SortCollection(p, item, d) = Reject(p, "collection", item.id, rescue)
    BY <1>4 DEF SortCollection
  <2> HIDE DEF rescue
  <2> QED BY <1>0, <1>1, <1>3, <2>1, RejectRefuses
<1>5. CASE rescue = "" /\ parent # ""
  <2> DEFINE k == Reject(p, "collection", item.id, parent)
             z == IF p.unavailableCol[item.id] = "" THEN "parent_rejected"
                                                    ELSE p.unavailableCol[item.id]
  <2>1. SortCollection(p, item, d)
          = [k EXCEPT !.unavailableCol[item.id] = IF k.unavailableCol[item.id] = "" THEN "parent_rejected"
                                                     ELSE k.unavailableCol[item.id]]
    BY <1>5 DEF SortCollection
  <2> HIDE DEF parent
  <2>2. k.unavailableCol = p.unavailableCol
    <3>1. OnlyRejects(p, k)
      BY <1>0, <1>2, <1>3, RejectHeld
    <3> HIDE DEF k
    <3> QED BY <3>1 DEF OnlyRejects
  <2>3. z \in Reasons /\ (z = p.unavailableCol[item.id] \/ z # "")
    BY <1>0, <1>3
  <2> HIDE DEF k
  <2>4. SortCollection(p, item, d) = [k EXCEPT !.unavailableCol[item.id] = z]
    BY <2>1, <2>2
  <2> HIDE DEF z
  <2>5. SortCollection(p, item, d) = ClosedCollection(p, "collection", item.id, parent, z)
    BY <2>4 DEF ClosedCollection, k
  <2> QED BY <1>0, <1>2, <1>3, <2>3, <2>5, RejectClosesCollection
<1>6. CASE rescue = "" /\ parent = ""
  <2>1. CASE Admitted(p.colQuota, item.id, terminal)
    <3>1. SortCollection(p, item, d) = QueuedCollection(p, Admit(p.colQuota, item.id, terminal), item)
      BY <1>6, <2>1 DEF SortCollection, QueuedCollection
    <3>2. terminal \in BOOLEAN
      OBVIOUS
    <3> HIDE DEF terminal
    <3>3. Admit(p.colQuota, item.id, terminal) \in Ledger(Collections)
      BY <1>0, <3>2, LedgerType
    <3> HIDE DEF parent
    <3> QED BY <1>2, <1>6, <3>1, <3>3, AppendQueues
  <2>2. CASE ~Admitted(p.colQuota, item.id, terminal)
    <3>1. SortCollection(p, item, d)
            = ClosedCollection(p, "collection", item.id, "quota_exceeded", "parent_rejected")
      BY <1>6, <2>2 DEF SortCollection, ClosedCollection
    <3> QED BY <1>0, <1>3, <3>1, RejectClosesCollection
  <2> QED BY <2>1, <2>2
<1> QED BY <1>4, <1>5, <1>6

(* The same for a saved group.                                                *)
LEMMA SortGroupTurn ==
    ASSUME NEW I, NEW p \in Held(I), NEW item \in GroupItems, NEW d \in Database
    PROVE  LET q == SortGroup(p, item, d) IN
           \/ Refuses(I, p, q)
           \/ Accepting(item.parent, p.unavailable, Workspaces) /\ Queues(I, p, q, item)
<1> DEFINE rescue == RescueRejection(p, d.grp[item.id].workspace_id, item.parent)
           parent == ParentRejection(item.parent, FALSE, p.owned, p.unavailable)
           terminal == item.state = Terminal
<1>0. /\ item.id \in Groups /\ item.parent \in Workspaces \cup {NoId}
      /\ item.id \in Workspaces \cup Collections \cup Bookmarks \cup Groups
      /\ p.unavailable \in [Workspaces -> Reasons]
      /\ p.grpQuota \in Ledger(Groups)
  BY HeldFields DEF GroupItems
<1>1. rescue \in Reasons
  <2>1. d.grp[item.id].workspace_id \in Workspaces \cup {NoId}
    BY <1>0 DEF Database, GroupRow
  <2> QED BY <2>1, RescueType
<1>2. parent \in Reasons /\ (parent = "" => Accepting(item.parent, p.unavailable, Workspaces))
  BY <1>0, ParentRejectionType
<1>3. "saved_group" \in Types /\ "quota_exceeded" \in Reasons
  BY DEF Types, Reasons
<1>4. CASE rescue # ""
  <2>1. SortGroup(p, item, d) = Reject(p, "saved_group", item.id, rescue)
    BY <1>4 DEF SortGroup
  <2> HIDE DEF rescue
  <2> QED BY <1>0, <1>1, <1>3, <2>1, RejectRefuses
<1>5. CASE rescue = "" /\ parent # ""
  <2>1. SortGroup(p, item, d) = Reject(p, "saved_group", item.id, parent)
    BY <1>5 DEF SortGroup
  <2> HIDE DEF parent
  <2> QED BY <1>0, <1>2, <1>3, <2>1, RejectRefuses
<1>6. CASE rescue = "" /\ parent = ""
  <2>1. CASE Admitted(p.grpQuota, item.id, terminal)
    <3>1. SortGroup(p, item, d) = QueuedGroup(p, Admit(p.grpQuota, item.id, terminal), item)
      BY <1>6, <2>1 DEF SortGroup, QueuedGroup
    <3>2. terminal \in BOOLEAN
      OBVIOUS
    <3> HIDE DEF terminal
    <3>3. Admit(p.grpQuota, item.id, terminal) \in Ledger(Groups)
      BY <1>0, <3>2, LedgerType
    <3> HIDE DEF parent
    <3> QED BY <1>2, <1>6, <3>1, <3>3, AppendQueues
  <2>2. CASE ~Admitted(p.grpQuota, item.id, terminal)
    <3>1. SortGroup(p, item, d) = Reject(p, "saved_group", item.id, "quota_exceeded")
      BY <1>6, <2>2 DEF SortGroup
    <3> QED BY <1>0, <1>3, <3>1, RejectRefuses
  <2> QED BY <2>1, <2>2
<1> QED BY <1>4, <1>5, <1>6

(* The same for a bookmark and its collection.                                *)
LEMMA SortBookmarkTurn ==
    ASSUME NEW I, NEW p \in Held(I), NEW item \in BookmarkItems
    PROVE  LET q == SortBookmark(p, item) IN
           \/ Refuses(I, p, q)
           \/ Accepting(item.parent, p.unavailableCol, Collections) /\ Queues(I, p, q, item)
<1> DEFINE parent == ParentRejection(item.parent, TRUE, p.ownedCol, p.unavailableCol)
           terminal == item.state = Terminal
<1>0. /\ item.id \in Bookmarks /\ item.parent \in Collections \cup {NoId}
      /\ item.id \in Workspaces \cup Collections \cup Bookmarks \cup Groups
      /\ p.unavailableCol \in [Collections -> Reasons]
      /\ p.bmQuota \in Ledger(Bookmarks)
  BY HeldFields DEF BookmarkItems
<1>2. parent \in Reasons /\ (parent = "" => Accepting(item.parent, p.unavailableCol, Collections))
  BY <1>0, ParentRejectionType
<1>3. "bookmark" \in Types /\ "quota_exceeded" \in Reasons
  BY DEF Types, Reasons
<1>4. CASE parent # ""
  <2>1. SortBookmark(p, item) = Reject(p, "bookmark", item.id, parent)
    BY <1>4 DEF SortBookmark
  <2> HIDE DEF parent
  <2> QED BY <1>0, <1>2, <1>3, <2>1, RejectRefuses
<1>5. CASE parent = "" /\ Admitted(p.bmQuota, item.id, terminal)
  <2>1. SortBookmark(p, item) = QueuedBookmark(p, Admit(p.bmQuota, item.id, terminal), item)
    BY <1>5 DEF SortBookmark, QueuedBookmark
  <2>2. terminal \in BOOLEAN
    OBVIOUS
  <2> HIDE DEF terminal
  <2>3. Admit(p.bmQuota, item.id, terminal) \in Ledger(Bookmarks)
    BY <1>0, <2>2, LedgerType
  <2> HIDE DEF parent
  <2> QED BY <1>2, <1>5, <2>1, <2>3, AppendQueues
<1>6. CASE parent = "" /\ ~Admitted(p.bmQuota, item.id, terminal)
  <2>1. SortBookmark(p, item) = Reject(p, "bookmark", item.id, "quota_exceeded")
    BY <1>6 DEF SortBookmark
  <2> QED BY <1>0, <1>3, <2>1, RejectRefuses
<1> QED BY <1>4, <1>5, <1>6

(* One row of the collection batch; only a live one, or one of a version-0    *)
(* push, is open to bookmarks.                                                *)
StoredChild(item, now, seq) ==
    [is_deleted |-> item.state, workspace_id |-> item.parent,
     deleted_at |-> ClientStamp(item, now), seq |-> seq]

StoresCollection(p, q, item, horizon, seq, now) ==
    /\ p.db.col[item.id].seq <= horizon
    /\ q.db = [p.db EXCEPT !.col[item.id] = StoredChild(item, now, seq)]
    /\ q.unavailable = p.unavailable
    /\ \A c \in Collections \ {item.id} : q.unavailableCol[c] = p.unavailableCol[c]
    /\ q.legacyDeleted = p.legacyDeleted

(* One row of the collection batch: it is stale, or stored as it was sent,    *)
(* and open to bookmarks only as far as its own state allows.                 *)
LEMMA UpsertCollectionTurn ==
    ASSUME NEW I, NEW p \in Held(I), NEW item \in CollectionItems, NEW version,
           NEW horizon \in Nat, NEW seq \in Nat, NEW now \in Nat
    PROVE  LET q == UpsertCollection(p, item, version, horizon, seq, now) IN
           \/ Refuses(I, p, q)
           \/ q \in Held(I) /\ StoresCollection(p, q, item, horizon, seq, now)
<1> DEFINE usable == version # 2 \/ item.state = Active
           new == StoredChild(item, now, seq)
           e == [p.db EXCEPT !.col[item.id] = new]
           O == IF usable THEN p.ownedCol \cup {item.id} ELSE p.ownedCol \ {item.id}
           f == [p.unavailableCol EXCEPT ![item.id] = IF usable THEN "" ELSE Unavailability(item.state)]
<1>0. /\ p.db \in Database /\ p.ownedCol \in SUBSET Collections
      /\ p.unavailableCol \in [Collections -> Reasons]
      /\ item.id \in Collections /\ item.parent \in Workspaces \cup {NoId} /\ item.state \in {0, 1, 2}
  BY HeldFields DEF CollectionItems
<1>1. new \in CollectionRow
  BY <1>0 DEF StoredChild, ClientStamp, CollectionRow, States, Timestamp, Active, Null,
              Absent, Retained, Terminal
<1>2. e \in Database
  <2> HIDE DEF new
  <2> QED BY <1>0, <1>1 DEF Database
<1>3. CASE p.db.col[item.id].seq <= horizon
  <2>1. UpsertCollection(p, item, version, horizon, seq, now)
          = [p EXCEPT !.db = e, !.ownedCol = O, !.unavailableCol = f]
    BY <1>3 DEF UpsertCollection, StoredChild
  <2>2. O \in SUBSET Collections /\ f \in [Collections -> Reasons]
        /\ \A c \in Collections \ {item.id} : f[c] = p.unavailableCol[c]
    BY <1>0 DEF Unavailability, Reasons
  <2> HIDE DEF e, O, f, new
  <2> DEFINE q == [p EXCEPT !.db = e, !.ownedCol = O, !.unavailableCol = f]
  <2>3. q \in Held(I) /\ q.db = e /\ q.unavailable = p.unavailable
        /\ q.unavailableCol = f /\ q.legacyDeleted = p.legacyDeleted
    BY <1>2, <2>2 DEF Held
  <2> HIDE DEF q
  <2>4. StoresCollection(p, q, item, horizon, seq, now)
    BY <1>3, <2>2, <2>3 DEF StoresCollection, e, new
  <2> QED BY <2>1, <2>3, <2>4 DEF q
<1>4. CASE ~(p.db.col[item.id].seq <= horizon)
  <2> DEFINE k == Reject(p, "collection", item.id, "stale")
             z == IF item.id \notin p.ownedCol /\ p.unavailableCol[item.id] = ""
                  THEN "parent_rejected" ELSE p.unavailableCol[item.id]
  <2>1. UpsertCollection(p, item, version, horizon, seq, now)
          = [k EXCEPT !.unavailableCol[item.id] =
                IF item.id \notin p.ownedCol /\ k.unavailableCol[item.id] = ""
                THEN "parent_rejected" ELSE k.unavailableCol[item.id]]
    BY <1>4 DEF UpsertCollection
  <2>2. "collection" \in Types /\ "stale" \in Reasons /\ "parent_rejected" \in Reasons
        /\ "parent_rejected" # ""
        /\ item.id \in Workspaces \cup Collections \cup Bookmarks \cup Groups
    BY <1>0 DEF Types, Reasons
  <2>3. OnlyRejects(p, k)
    BY <2>2, RejectHeld
  <2>4. z \in Reasons /\ (z = p.unavailableCol[item.id] \/ z # "")
    BY <1>0, <2>2
  <2> HIDE DEF k
  <2>5. UpsertCollection(p, item, version, horizon, seq, now) = [k EXCEPT !.unavailableCol[item.id] = z]
    BY <2>1, <2>3 DEF OnlyRejects
  <2> HIDE DEF z
  <2>6. UpsertCollection(p, item, version, horizon, seq, now)
          = ClosedCollection(p, "collection", item.id, "stale", z)
    BY <2>5 DEF ClosedCollection, k
  <2> QED BY <1>0, <2>2, <2>4, <2>6, RejectClosesCollection
<1> QED BY <1>3, <1>4

(* One row of the group batch.                                                *)
StoresGroup(p, q, item, horizon, seq, now) ==
    /\ p.db.grp[item.id].seq <= horizon
    /\ q.db = [p.db EXCEPT !.grp[item.id] = StoredChild(item, now, seq)]
    /\ q.unavailable = p.unavailable /\ q.unavailableCol = p.unavailableCol
    /\ q.legacyDeleted = p.legacyDeleted

(* One row of the group batch: it is stale, or stored as it was sent.         *)
LEMMA UpsertGroupTurn ==
    ASSUME NEW I, NEW p \in Held(I), NEW item \in GroupItems,
           NEW horizon \in Nat, NEW seq \in Nat, NEW now \in Nat
    PROVE  LET q == UpsertGroup(p, item, horizon, seq, now) IN
           Refuses(I, p, q) \/ (q \in Held(I) /\ StoresGroup(p, q, item, horizon, seq, now))
<1> DEFINE new == StoredChild(item, now, seq)
           e == [p.db EXCEPT !.grp[item.id] = new]
<1>0. /\ p.db \in Database
      /\ item.id \in Groups /\ item.parent \in Workspaces \cup {NoId} /\ item.state \in {0, 1, 2}
  BY HeldFields DEF GroupItems
<1>1. new \in GroupRow
  BY <1>0 DEF StoredChild, ClientStamp, GroupRow, States, Timestamp, Active, Null,
              Absent, Retained, Terminal
<1>2. e \in Database
  <2> HIDE DEF new
  <2> QED BY <1>0, <1>1 DEF Database
<1>3. CASE p.db.grp[item.id].seq <= horizon
  <2>1. UpsertGroup(p, item, horizon, seq, now) = [p EXCEPT !.db = e]
    BY <1>3 DEF UpsertGroup, StoredChild
  <2> HIDE DEF e
  <2> DEFINE q == [p EXCEPT !.db = e]
  <2>3. q \in Held(I) /\ q.db = e /\ q.unavailable = p.unavailable
        /\ q.unavailableCol = p.unavailableCol /\ q.legacyDeleted = p.legacyDeleted
    BY <1>2 DEF Held
  <2> HIDE DEF q
  <2>4. StoresGroup(p, q, item, horizon, seq, now)
    BY <1>3, <2>3 DEF StoresGroup, e
  <2> QED BY <2>1, <2>3, <2>4 DEF q
<1>4. CASE ~(p.db.grp[item.id].seq <= horizon)
  <2>1. UpsertGroup(p, item, horizon, seq, now) = Reject(p, "saved_group", item.id, "stale")
    BY <1>4 DEF UpsertGroup
  <2>2. "saved_group" \in Types /\ "stale" \in Reasons
        /\ item.id \in Workspaces \cup Collections \cup Bookmarks \cup Groups
    BY <1>0 DEF Types, Reasons
  <2> QED BY <2>1, <2>2, RejectRefuses
<1> QED BY <1>3, <1>4

(* One row of the bookmark batch.                                             *)
StoredMark(item, now, seq) ==
    [is_trashed |-> item.state, collection_id |-> item.parent,
     deleted_at |-> ClientStamp(item, now), seq |-> seq]

StoresBookmark(p, q, item, horizon, seq, now) ==
    /\ p.db.bm[item.id].seq <= horizon
    /\ q.db = [p.db EXCEPT !.bm[item.id] = StoredMark(item, now, seq)]
    /\ q.unavailable = p.unavailable /\ q.unavailableCol = p.unavailableCol
    /\ q.legacyDeleted = p.legacyDeleted

(* One row of the bookmark batch: it is stale, or stored as it was sent,      *)
(* and its document goes with its state.                                      *)
LEMMA UpsertBookmarkTurn ==
    ASSUME NEW I, NEW p \in Held(I), NEW item \in BookmarkItems,
           NEW horizon \in Nat, NEW seq \in Nat, NEW now \in Nat
    PROVE  LET q == UpsertBookmark(p, item, horizon, seq, now) IN
           Refuses(I, p, q) \/ (q \in Held(I) /\ StoresBookmark(p, q, item, horizon, seq, now))
<1> DEFINE new == StoredMark(item, now, seq)
           e == [p.db EXCEPT !.bm[item.id] = new]
           A == IF item.state = Active THEN p.searchUpserts \cup {item.id} ELSE p.searchUpserts
           D == IF item.state = Active THEN p.searchDeletes ELSE p.searchDeletes \cup {item.id}
<1>0. /\ p.db \in Database
      /\ p.searchUpserts \in SUBSET Bookmarks /\ p.searchDeletes \in SUBSET Bookmarks
      /\ item.id \in Bookmarks /\ item.parent \in Collections \cup {NoId} /\ item.state \in {0, 1, 2}
  BY HeldFields DEF BookmarkItems
<1>1. new \in BookmarkRow
  BY <1>0 DEF StoredMark, ClientStamp, BookmarkRow, States, Timestamp, Active, Null,
              Absent, Retained, Terminal
<1>2. e \in Database
  <2> HIDE DEF new
  <2> QED BY <1>0, <1>1 DEF Database
<1>3. CASE p.db.bm[item.id].seq <= horizon
  <2>1. UpsertBookmark(p, item, horizon, seq, now)
          = [p EXCEPT !.db = e, !.searchUpserts = A, !.searchDeletes = D]
    BY <1>3 DEF UpsertBookmark, StoredMark
  <2>2. A \in SUBSET Bookmarks /\ D \in SUBSET Bookmarks
    BY <1>0
  <2> HIDE DEF e, A, D
  <2> DEFINE q == [p EXCEPT !.db = e, !.searchUpserts = A, !.searchDeletes = D]
  <2>3. q \in Held(I) /\ q.db = e /\ q.unavailable = p.unavailable
        /\ q.unavailableCol = p.unavailableCol /\ q.legacyDeleted = p.legacyDeleted
    BY <1>2, <2>2 DEF Held
  <2> HIDE DEF q
  <2>4. StoresBookmark(p, q, item, horizon, seq, now)
    BY <1>3, <2>3 DEF StoresBookmark, e
  <2> QED BY <2>1, <2>3, <2>4 DEF q
<1>4. CASE ~(p.db.bm[item.id].seq <= horizon)
  <2>1. UpsertBookmark(p, item, horizon, seq, now) = Reject(p, "bookmark", item.id, "stale")
    BY <1>4 DEF UpsertBookmark
  <2>2. "bookmark" \in Types /\ "stale" \in Reasons
        /\ item.id \in Workspaces \cup Collections \cup Bookmarks \cup Groups
    BY <1>0 DEF Types, Reasons
  <2> QED BY <2>1, <2>2, RejectRefuses
<1> QED BY <1>3, <1>4

(* The cascade of the collections that became tombstones marks bookmarks and  *)
(* nothing else.                                                              *)
Buries(p, q, seq) ==
    /\ q.db.ws = p.db.ws /\ q.db.col = p.db.col /\ q.db.grp = p.db.grp
    /\ \A b \in Bookmarks :
          \/ q.db.bm[b] = p.db.bm[b]
          \/ q.db.bm[b].is_trashed = Terminal /\ q.db.bm[b].seq = seq
    /\ q.unavailable = p.unavailable /\ q.unavailableCol = p.unavailableCol

(* CascadeTombstones, whatever collections it is given.                       *)
LEMMA CascadeTurn ==
    ASSUME NEW I, NEW p \in Held(I), NEW C, NEW d, NEW seq \in Nat, NEW now \in Nat
    PROVE  /\ CascadeTombstones(p, C, d, seq, now) \in Held(I)
           /\ Buries(p, CascadeTombstones(p, C, d, seq, now), seq)
<1> DEFINE live == {b \in Bookmarks : /\ p.db.bm[b].collection_id \in C
                                      /\ p.db.bm[b].is_trashed \in {Active, Retained}}
           e == MarkBookmarks(p.db, live, Terminal, now, seq)
           quota == ReleaseApplied(p.bmQuota, {b \in Bookmarks : d.bm[b].collection_id \in C})
           q == [p EXCEPT !.db = e, !.bmQuota = quota]
<1>0. p.db \in Database
  BY HeldFields
<1>1. e \in Database
  <2>1. Terminal \in States /\ now \in Timestamp
    BY DEF States, Timestamp
  <2> HIDE DEF live
  <2> QED BY <1>0, <2>1, MarkType
<1>2. quota \in Ledger(Bookmarks)
  BY HeldFields, LedgerType
<1>3. CascadeTombstones(p, C, d, seq, now) = q
  BY DEF CascadeTombstones
<1> HIDE DEF live
<1>4. e.ws = p.db.ws /\ e.col = p.db.col /\ e.grp = p.db.grp
  BY <1>0 DEF MarkBookmarks, Database
<1>5. ASSUME NEW b \in Bookmarks
      PROVE  e.bm[b] = p.db.bm[b] \/ (e.bm[b].is_trashed = Terminal /\ e.bm[b].seq = seq)
  BY <1>0 DEF MarkBookmarks, Database, BookmarkRow
<1> HIDE DEF e, quota
<1>6. /\ q \in Held(I) /\ q.db = e
      /\ q.unavailable = p.unavailable /\ q.unavailableCol = p.unavailableCol
  BY <1>1, <1>2 DEF Held
<1> HIDE DEF q
<1>7. Buries(p, q, seq)
  BY <1>4, <1>5, <1>6 DEF Buries
<1> QED BY <1>3, <1>6, <1>7

-------------------------------------------------------------------------------
(* The trail of a push, from the tables d before it to the tables e within    *)
(* it: what changed carries the number of the transaction, or went with a     *)
(* workspace that does, and no purged root changed.                           *)

Gone(d, e, w, seq) ==
    /\ w \in Workspaces
    /\ d.ws[w].is_deleted # Terminal
    /\ e.ws[w].is_deleted = Terminal
    /\ e.ws[w].seq = seq

WorkspaceTrail(d, e, seq) ==
    \A w \in Workspaces : e.ws[w] = d.ws[w] \/ (d.ws[w].is_deleted # Terminal /\ e.ws[w].seq = seq)

CollectionTrail(d, e, seq) ==
    \A c \in Collections :
        \/ e.col[c] = d.col[c]
        \/ e.col[c].is_deleted = Absent /\ Gone(d, e, d.col[c].workspace_id, seq)
        \/ e.col[c].is_deleted # Absent /\ e.col[c].seq = seq

BookmarkTrail(d, e, seq) ==
    \A b \in Bookmarks :
        \/ e.bm[b] = d.bm[b]
        \/ /\ e.bm[b].is_trashed = Absent
           /\ \E c \in Collections : c = d.bm[b].collection_id /\ Gone(d, e, d.col[c].workspace_id, seq)
        \/ e.bm[b].is_trashed # Absent /\ e.bm[b].seq = seq

GroupTrail(d, e, seq) ==
    \A g \in Groups :
        \/ e.grp[g] = d.grp[g]
        \/ e.grp[g].is_deleted = Absent /\ Gone(d, e, d.grp[g].workspace_id, seq)
        \/ e.grp[g].is_deleted # Absent /\ e.grp[g].seq = seq

Trail(d, e, seq) ==
    WorkspaceTrail(d, e, seq) /\ CollectionTrail(d, e, seq)
        /\ BookmarkTrail(d, e, seq) /\ GroupTrail(d, e, seq)

(* The workspace loops move nothing: a row keeps its parent, or has lost it   *)
(* with its row.                                                              *)
Descends(d, e) ==
    /\ \A c \in Collections : e.col[c].workspace_id \in {d.col[c].workspace_id, NoId}
    /\ \A b \in Bookmarks : e.bm[b].collection_id \in {d.bm[b].collection_id, NoId}
    /\ \A g \in Groups : e.grp[g].workspace_id \in {d.grp[g].workspace_id, NoId}

(* One row of the workspaces changes, and is not a tombstone before.          *)
LEMMA RowTrail ==
    ASSUME NEW d \in Database, NEW e \in Database, NEW f, NEW w \in Workspaces, NEW row, NEW seq,
           WorkspaceTrail(d, e, seq), e.ws[w].is_deleted # Terminal,
           OneRow(e, w, row, f), row.seq = seq
    PROVE  /\ WorkspaceTrail(d, f, seq)
           /\ d.ws[w].is_deleted # Terminal
           /\ \A v : Gone(d, e, v, seq) => Gone(d, f, v, seq)
<1>1. d.ws[w].is_deleted # Terminal
  BY DEF WorkspaceTrail
<1>2. \A v \in Workspaces : f.ws[v] = IF v = w THEN row ELSE e.ws[v]
  BY DEF OneRow, Database
<1>3. WorkspaceTrail(d, f, seq)
  BY <1>1, <1>2 DEF WorkspaceTrail
<1>4. \A v : Gone(d, e, v, seq) => Gone(d, f, v, seq)
  BY <1>2 DEF Gone
<1> QED BY <1>1, <1>3, <1>4

(* Children that stay as they are or are marked keep the trail.               *)
LEMMA ChildTrail ==
    ASSUME NEW d \in Database, NEW e \in Database, NEW f, NEW seq,
           Trail(d, e, seq), Descends(d, e), WorkspaceTrail(d, f, seq),
           \A v : Gone(d, e, v, seq) => Gone(d, f, v, seq)
    PROVE  /\ SameChildren(e, f) => Trail(d, f, seq) /\ Descends(d, f)
           /\ \A C, B, G, state, at :
                 state # Absent /\ MarkedChildren(e, f, C, B, G, state, at, seq)
                    => Trail(d, f, seq) /\ Descends(d, f)
<1>1. ASSUME SameChildren(e, f) PROVE Trail(d, f, seq) /\ Descends(d, f)
  <2>1. CollectionTrail(d, f, seq)
    BY <1>1 DEF SameChildren, Trail, CollectionTrail
  <2>2. BookmarkTrail(d, f, seq)
    BY <1>1 DEF SameChildren, Trail, BookmarkTrail
  <2>3. GroupTrail(d, f, seq)
    BY <1>1 DEF SameChildren, Trail, GroupTrail
  <2>4. Descends(d, f)
    BY <1>1 DEF SameChildren, Descends
  <2> QED BY <2>1, <2>2, <2>3, <2>4 DEF Trail
<1>2. ASSUME NEW C, NEW B, NEW G, NEW state, NEW at, state # Absent,
             MarkedChildren(e, f, C, B, G, state, at, seq)
      PROVE  Trail(d, f, seq) /\ Descends(d, f)
  <2>1. CollectionTrail(d, f, seq)
    <3>1. \A c \in Collections :
             \/ f.col[c] = e.col[c]
             \/ f.col[c].is_deleted # Absent /\ f.col[c].seq = seq
      BY <1>2 DEF MarkedChildren, MarkedRow, Database, CollectionRow
    <3> QED BY <3>1 DEF Trail, CollectionTrail
  <2>2. BookmarkTrail(d, f, seq)
    <3>1. \A b \in Bookmarks :
             \/ f.bm[b] = e.bm[b]
             \/ f.bm[b].is_trashed # Absent /\ f.bm[b].seq = seq
      BY <1>2 DEF MarkedChildren, MarkedBookmark, Database, BookmarkRow
    <3> QED BY <3>1 DEF Trail, BookmarkTrail
  <2>3. GroupTrail(d, f, seq)
    <3>1. \A g \in Groups :
             \/ f.grp[g] = e.grp[g]
             \/ f.grp[g].is_deleted # Absent /\ f.grp[g].seq = seq
      BY <1>2 DEF MarkedChildren, MarkedRow, Database, GroupRow
    <3> QED BY <3>1 DEF Trail, GroupTrail
  <2>4. Descends(d, f)
    BY <1>2, MarkedFields DEF Descends
  <2> QED BY <2>1, <2>2, <2>3, <2>4 DEF Trail
<1> QED BY <1>1, <1>2

(* What a purge drops went with a workspace that was the parent before.       *)
LEMMA PurgeTrail ==
    ASSUME NEW d \in Database, NEW e \in Database, NEW f, NEW w \in Workspaces, NEW seq,
           Trail(d, e, seq), Descends(d, e), PurgeStep(e, f, w, seq)
    PROVE  Trail(d, f, seq) /\ Descends(d, f)
<1> DEFINE row == PurgedRow(e.ws[w], seq)
<1>1. row.seq = seq /\ row.is_deleted = Terminal /\ e.ws[w].is_deleted # Terminal
  BY DEF PurgeStep, PurgedRow, Database, WorkspaceRow, Retained, Terminal
<1>2. OneRow(e, w, row, f) /\ DroppedChildren(e, f, w)
  BY DEF PurgeStep
<1> HIDE DEF row
<1>3. /\ WorkspaceTrail(d, f, seq)
      /\ d.ws[w].is_deleted # Terminal
      /\ \A v : Gone(d, e, v, seq) => Gone(d, f, v, seq)
  BY <1>1, <1>2, RowTrail DEF Trail
<1>4. Gone(d, f, w, seq)
  BY <1>1, <1>2, <1>3 DEF Gone, OneRow, Database
<1>5. w # NoId /\ NoId \notin Collections
  BY IdAssumption
<1>6. \A c \in CollectionsOf(e, w) : d.col[c].workspace_id = w
  BY <1>5 DEF CollectionsOf, Descends
<1>7. CollectionTrail(d, f, seq)
  <2>1. \A c \in Collections :
           \/ f.col[c] = e.col[c]
           \/ f.col[c].is_deleted = Absent /\ Gone(d, f, d.col[c].workspace_id, seq)
    BY <1>2, <1>4, <1>6 DEF DroppedChildren, NoCollection
  <2> QED BY <1>3, <2>1 DEF Trail, CollectionTrail
<1>8. BookmarkTrail(d, f, seq)
  <2>1. \A b \in BookmarksOf(e, w) : \E c \in Collections :
           c = d.bm[b].collection_id /\ Gone(d, f, d.col[c].workspace_id, seq)
    BY <1>4, <1>5, <1>6 DEF BookmarksOf, CollectionsOf, Descends
  <2>2. \A b \in Bookmarks :
           \/ f.bm[b] = e.bm[b]
           \/ b \in BookmarksOf(e, w) /\ f.bm[b].is_trashed = Absent
    BY <1>2 DEF DroppedChildren, NoBookmark
  <2> QED BY <1>3, <2>1, <2>2 DEF Trail, BookmarkTrail
<1>9. GroupTrail(d, f, seq)
  <2>1. \A g \in GroupsOf(e, w) : d.grp[g].workspace_id = w
    BY <1>5 DEF GroupsOf, Descends
  <2>2. \A g \in Groups :
           \/ f.grp[g] = e.grp[g]
           \/ f.grp[g].is_deleted = Absent /\ Gone(d, f, d.grp[g].workspace_id, seq)
    BY <1>2, <1>4, <2>1 DEF DroppedChildren, NoGroup, NoCollection
  <2> QED BY <1>3, <2>2 DEF Trail, GroupTrail
<1>10. Descends(d, f)
  BY <1>2 DEF DroppedChildren, Descends, NoCollection, NoBookmark, NoGroup
<1> QED BY <1>3, <1>7, <1>8, <1>9, <1>10 DEF Trail

(* A lifecycle step within the push keeps the trail.                          *)
LEMMA LifecycleTrail ==
    ASSUME NEW d \in Database, NEW e \in Database, NEW f, NEW w \in Workspaces, NEW model \in {0, 1},
           NEW seq \in Nat, NEW now \in Nat,
           Trail(d, e, seq), Descends(d, e), LifecycleStep(e, f, w, model, seq, now)
    PROVE  Trail(d, f, seq) /\ Descends(d, f)
<1>0. Retained # Absent /\ Active # Absent /\ Active # Terminal /\ Retained # Terminal
  BY DEF Absent, Active, Retained, Terminal
<1>1. CASE DeleteStep(e, f, w, model, seq, now)
  <2>1. RetainedRow(model, seq, now).seq = seq
    BY DEF RetainedRow
  <2>2. WorkspaceTrail(d, f, seq) /\ \A v : Gone(d, e, v, seq) => Gone(d, f, v, seq)
    BY <1>0, <1>1, <2>1, RowTrail DEF DeleteStep, Trail
  <2>3. CASE model = 0
    BY <1>0, <1>1, <2>2, <2>3, ChildTrail DEF DeleteStep
  <2>4. CASE model # 0
    BY <1>1, <2>2, <2>4, ChildTrail DEF DeleteStep
  <2> QED BY <2>3, <2>4
<1>2. CASE RestoreStep(e, f, w, seq)
  <2>1. RestoredRow(seq).seq = seq
    BY DEF RestoredRow
  <2>2. WorkspaceTrail(d, f, seq) /\ \A v : Gone(d, e, v, seq) => Gone(d, f, v, seq)
    BY <1>0, <1>2, <2>1, RowTrail DEF RestoreStep, Trail
  <2>3. CASE e.ws[w].deletion_model = 0
    BY <1>0, <1>2, <2>2, <2>3, ChildTrail DEF RestoreStep
  <2>4. CASE e.ws[w].deletion_model # 0
    BY <1>2, <2>2, <2>4, ChildTrail DEF RestoreStep
  <2> QED BY <2>3, <2>4
<1>3. CASE PurgeStep(e, f, w, seq)
  BY <1>3, PurgeTrail
<1> QED BY <1>1, <1>2, <1>3 DEF LifecycleStep

-------------------------------------------------------------------------------
(* The rows a push makes active.                                              *)

(* A workspace of the legacy deletion model that the push has restored.       *)
Rescued(d, e, w) ==
    /\ w \in Workspaces
    /\ d.ws[w].deletion_model = 0
    /\ e.ws[w].deletion_model = 1

(* The workspace loops make no row active but by restoring such a workspace.  *)
Brought(d, e) ==
    /\ \A c \in Collections :
          e.col[c] # d.col[c] /\ e.col[c].is_deleted = Active => Rescued(d, e, e.col[c].workspace_id)
    /\ \A g \in Groups :
          e.grp[g] # d.grp[g] /\ e.grp[g].is_deleted = Active => Rescued(d, e, e.grp[g].workspace_id)
    /\ \A b \in Bookmarks, c \in Collections :
          e.bm[b] # d.bm[b] /\ e.bm[b].is_trashed = Active /\ e.bm[b].collection_id = c
             => Rescued(d, e, e.col[c].workspace_id)

(* A push knows one deletion model, by its version.                           *)
Models(d, e, model) ==
    \A w \in Workspaces : e.ws[w].deletion_model \in {d.ws[w].deletion_model, model}

(* A legacy delete in a version-0 push makes nothing active.                  *)
LEMMA LegacyDeleteBrings ==
    ASSUME NEW d \in Database, NEW e \in Database, NEW f, NEW w \in Workspaces,
           NEW seq \in Nat, NEW now \in Nat,
           Brought(d, e), Models(d, e, 0), DeleteStep(e, f, w, 0, seq, now)
    PROVE  Brought(d, f) /\ Models(d, f, 0)
<1>1. OneRow(e, w, RetainedRow(0, seq, now), f)
      /\ MarkedChildren(e, f, LiveCollections(e, w), LiveBookmarks(e, w), LiveGroups(e, w),
                        Retained, now, seq)
  BY DEF DeleteStep
<1>2. Models(d, f, 0)
  <2>1. \A v \in Workspaces : f.ws[v] = IF v = w THEN RetainedRow(0, seq, now) ELSE e.ws[v]
    BY <1>1 DEF OneRow, Database
  <2>2. RetainedRow(0, seq, now).deletion_model = 0
    BY DEF RetainedRow
  <2> QED BY <2>1, <2>2 DEF Models
<1>3. \A v : ~Rescued(d, e, v)
  BY DEF Models, Rescued
<1>4. Active # Retained
  BY DEF Active, Retained
<1>5. ASSUME NEW c \in Collections, f.col[c].is_deleted = Active PROVE f.col[c] = d.col[c]
  <2>1. f.col[c] = e.col[c]
    BY <1>1, <1>4, <1>5 DEF MarkedChildren, MarkedRow, Database, CollectionRow
  <2> QED BY <1>3, <1>5, <2>1 DEF Brought
<1>6. ASSUME NEW g \in Groups, f.grp[g].is_deleted = Active PROVE f.grp[g] = d.grp[g]
  <2>1. f.grp[g] = e.grp[g]
    BY <1>1, <1>4, <1>6 DEF MarkedChildren, MarkedRow, Database, GroupRow
  <2> QED BY <1>3, <1>6, <2>1 DEF Brought
<1>7. ASSUME NEW b \in Bookmarks, NEW c \in Collections,
             f.bm[b].is_trashed = Active, f.bm[b].collection_id = c
      PROVE  f.bm[b] = d.bm[b]
  <2>1. f.bm[b] = e.bm[b]
    BY <1>1, <1>4, <1>7 DEF MarkedChildren, MarkedBookmark, Database, BookmarkRow
  <2> QED BY <1>3, <1>7, <2>1 DEF Brought
<1> QED BY <1>2, <1>5, <1>6, <1>7 DEF Brought

(* A parent-only delete, a restore and a purge in a version-2 push.           *)
LEMMA LifecycleBrings ==
    ASSUME NEW d \in Database, NEW e \in Database, NEW f, NEW w \in Workspaces,
           NEW seq \in Nat, NEW now \in Nat,
           Brought(d, e), Models(d, e, 1), LifecycleStep(e, f, w, 1, seq, now)
    PROVE  Brought(d, f) /\ Models(d, f, 1)
<1>1. \E row : /\ OneRow(e, w, row, f)
               /\ row.deletion_model \in {e.ws[w].deletion_model, 1}
  <2>1. RetainedRow(1, seq, now).deletion_model = 1 /\ RestoredRow(seq).deletion_model = 1
    BY DEF RetainedRow, RestoredRow
  <2>2. PurgedRow(e.ws[w], seq).deletion_model = e.ws[w].deletion_model
    BY DEF PurgedRow, Database, WorkspaceRow
  <2> QED BY <2>1, <2>2 DEF LifecycleStep, DeleteStep, RestoreStep, PurgeStep
<1>2. \A v \in Workspaces : f.ws[v].deletion_model \in {e.ws[v].deletion_model, 1}
  BY <1>1 DEF OneRow, Database
<1>3. Models(d, f, 1) /\ \A v : Rescued(d, e, v) => Rescued(d, f, v)
  BY <1>2 DEF Models, Rescued
<1>4. CASE SameChildren(e, f)
  BY <1>3, <1>4 DEF SameChildren, Brought
<1>5. CASE RestoreStep(e, f, w, seq) /\ e.ws[w].deletion_model = 0
  <2>1. OneRow(e, w, RestoredRow(seq), f)
        /\ MarkedChildren(e, f, EvidenceCollections(e, w), EvidenceBookmarks(e, w),
                          EvidenceGroups(e, w), Active, Null, seq)
    BY <1>5 DEF RestoreStep
  <2>2. Rescued(d, f, w)
    <3>1. f.ws[w].deletion_model = 1
      BY <2>1 DEF OneRow, RestoredRow, Database
    <3>2. d.ws[w].deletion_model = 0
      BY <1>5 DEF Models
    <3> QED BY <3>1, <3>2 DEF Rescued
  <2>3. \A c \in Collections : f.col[c].workspace_id = e.col[c].workspace_id
    BY <2>1, MarkedFields
  <2>4. \A c \in Collections : f.col[c] # e.col[c] => f.col[c].workspace_id = w
    BY <2>1, <2>3 DEF MarkedChildren, EvidenceCollections, CollectionsOf
  <2>5. \A g \in Groups : f.grp[g] # e.grp[g] => f.grp[g].workspace_id = w
    <3>1. \A g \in Groups : f.grp[g].workspace_id = e.grp[g].workspace_id
      BY <2>1, MarkedFields
    <3> QED BY <2>1, <3>1 DEF MarkedChildren, EvidenceGroups, GroupsOf
  <2>6. \A b \in Bookmarks, c \in Collections :
           f.bm[b] # e.bm[b] /\ f.bm[b].collection_id = c => f.col[c].workspace_id = w
    <3>1. \A b \in Bookmarks : f.bm[b].collection_id = e.bm[b].collection_id
      BY <2>1, MarkedFields
    <3> QED BY <2>1, <2>3, <3>1 DEF MarkedChildren, EvidenceBookmarks, EvidenceCollections, CollectionsOf
  <2>7. \A b \in Bookmarks, c \in Collections :
           /\ f.bm[b] # d.bm[b] /\ f.bm[b].is_trashed = Active /\ f.bm[b].collection_id = c
           => Rescued(d, f, f.col[c].workspace_id)
    BY <1>3, <2>2, <2>3, <2>6 DEF Brought
  <2>8. \A c \in Collections :
           f.col[c] # d.col[c] /\ f.col[c].is_deleted = Active => Rescued(d, f, f.col[c].workspace_id)
    BY <1>3, <2>2, <2>4 DEF Brought
  <2>9. \A g \in Groups :
           f.grp[g] # d.grp[g] /\ f.grp[g].is_deleted = Active => Rescued(d, f, f.grp[g].workspace_id)
    BY <1>3, <2>2, <2>5 DEF Brought
  <2> QED BY <1>3, <2>7, <2>8, <2>9 DEF Brought
<1>6. CASE PurgeStep(e, f, w, seq)
  <2>1. DroppedChildren(e, f, w)
    BY <1>6 DEF PurgeStep
  <2>2. Active # Absent
    BY DEF Active, Absent
  <2>3. \A c \in Collections : f.col[c] = e.col[c] \/ f.col[c].is_deleted = Absent
    BY <2>1 DEF DroppedChildren, NoCollection
  <2>4. \A g \in Groups : f.grp[g] = e.grp[g] \/ f.grp[g].is_deleted = Absent
    BY <2>1 DEF DroppedChildren, NoCollection, NoGroup
  <2>5. \A b \in Bookmarks, c \in Collections :
           f.bm[b].is_trashed = Active /\ f.bm[b].collection_id = c
             => f.bm[b] = e.bm[b] /\ f.col[c] = e.col[c]
    BY <2>1, <2>2 DEF DroppedChildren, NoBookmark, BookmarksOf, CollectionsOf
  <2>6. \A b \in Bookmarks, c \in Collections :
           /\ f.bm[b] # d.bm[b] /\ f.bm[b].is_trashed = Active /\ f.bm[b].collection_id = c
           => Rescued(d, f, f.col[c].workspace_id)
    BY <1>3, <2>5 DEF Brought
  <2>7. \A c \in Collections :
           f.col[c] # d.col[c] /\ f.col[c].is_deleted = Active => Rescued(d, f, f.col[c].workspace_id)
    BY <1>3, <2>2, <2>3 DEF Brought
  <2>8. \A g \in Groups :
           f.grp[g] # d.grp[g] /\ f.grp[g].is_deleted = Active => Rescued(d, f, f.grp[g].workspace_id)
    BY <1>3, <2>2, <2>4 DEF Brought
  <2> QED BY <1>3, <2>6, <2>7, <2>8 DEF Brought
<1> QED BY <1>4, <1>5, <1>6 DEF LifecycleStep, DeleteStep, RestoreStep

-------------------------------------------------------------------------------
(* The workspace loops.                                                       *)

Context == {x \in Known : x.horizon < x.seq}

ModelOf(x) == IF x.version = 0 THEN 0 ELSE 1

(* A workspace, or the workspace a collection was stored under, is only open  *)
(* to children while it is not shut.                                          *)
Available(q) == \A w \in Workspaces : q.unavailable[w] = "" => ~Shut(q.db, w)

AvailableUnder(d, q) ==
    \A c \in Collections :
        q.unavailableCol[c] = "" =>
            \/ ~Shut(q.db, d.col[c].workspace_id)
            \/ d.col[c].workspace_id \in q.legacyDeleted

(* Metadata that waits for the batch is of no root that was purged before.    *)
LiveItem(x) == {i \in WorkspaceItem : x.before.ws[i.id].is_deleted # Terminal}

WorkspacesInv(x, q) ==
    /\ Trail(x.before, q.db, x.seq)
    /\ Descends(x.before, q.db)
    /\ Brought(x.before, q.db)
    /\ Available(q)
    /\ AvailableUnder(x.before, q)

(* The states of the loops that sort out the workspaces, and of the batch.    *)
Sorting(x) == {q \in Held(LiveItem(x)) : WorkspacesInv(x, q) /\ Models(x.before, q.db, ModelOf(x))}
Storing(x) == {q \in Held(LiveItem(x)) : WorkspacesInv(x, q)}

(* To refuse leaves the tables, and opens nothing.                            *)
LEMMA RefusedInv ==
    ASSUME NEW x, NEW p, NEW q, Refused(p, q), WorkspacesInv(x, p)
    PROVE  WorkspacesInv(x, q)
<1>1. Available(q)
  BY DEF Refused, WorkspacesInv, Available
<1>2. AvailableUnder(x.before, q)
  BY DEF Refused, WorkspacesInv, AvailableUnder
<1> QED BY <1>1, <1>2 DEF Refused, WorkspacesInv

(* To queue changes no availability either.                                   *)
LEMMA QueuedInv ==
    ASSUME NEW x, NEW p, NEW q, NEW item, Queued(p, q, item), WorkspacesInv(x, p)
    PROVE  WorkspacesInv(x, q)
BY DEF Queued, WorkspacesInv, Available, AvailableUnder

(* What ApplyInTx does to the trail of a push of either version.              *)
LEMMA AppliedTrail ==
    ASSUME NEW d \in Database, NEW e \in Database, NEW w \in Workspaces, NEW op \in LifecycleActions,
           NEW model \in {0, 1}, model = 0 => op = "delete", NEW seq \in Nat, NEW now \in Nat,
           Trail(d, e, seq), Descends(d, e), Brought(d, e), Models(d, e, model)
    PROVE  LET f == Applied(e, w, op, model, seq, now) IN
           /\ Trail(d, f, seq) /\ Descends(d, f) /\ Brought(d, f) /\ Models(d, f, model)
           /\ \A v \in Workspaces \ {w} : Shut(f, v) => Shut(e, v)
<1> DEFINE f == Applied(e, w, op, model, seq, now)
<1>1. CASE ~Accepted(e, w, op, model)
  <2>1. f = e
    BY <1>1, AppliedRows
  <2> QED BY <2>1
<1>2. CASE Accepted(e, w, op, model)
  <2>1. \/ op = "delete"  /\ DeleteStep(e, f, w, model, seq, now)
        \/ op = "restore" /\ RestoreStep(e, f, w, seq)
        \/ op = "purge"   /\ PurgeStep(e, f, w, seq)
    BY <1>2, AppliedRows
  <2> HIDE DEF f
  <2>2. LifecycleStep(e, f, w, model, seq, now)
    BY <2>1 DEF LifecycleStep
  <2>3. Trail(d, f, seq) /\ Descends(d, f)
    BY <2>2, LifecycleTrail
  <2>4. Brought(d, f) /\ Models(d, f, model)
    <3>1. CASE model = 0
      <4>1. DeleteStep(e, f, w, 0, seq, now)
        BY <2>1, <3>1
      <4> QED BY <3>1, <4>1, LegacyDeleteBrings
    <3>2. CASE model = 1
      BY <2>2, <3>2, LifecycleBrings
    <3> QED BY <3>1, <3>2
  <2>5. \A v \in Workspaces \ {w} : f.ws[v] = e.ws[v]
    <3>1. \E row : OneRow(e, w, row, f)
      BY <2>2 DEF LifecycleStep, DeleteStep, RestoreStep, PurgeStep
    <3> QED BY <3>1 DEF OneRow, Database
  <2>6. \A v \in Workspaces \ {w} : Shut(f, v) => Shut(e, v)
    BY <2>5 DEF Shut
  <2> QED BY <2>3, <2>4, <2>6 DEF f
<1> QED BY <1>1, <1>2

(* A restore that is not refused leaves the workspace active.                 *)
LEMMA RestoreOpens ==
    ASSUME NEW e \in Database, NEW w \in Workspaces, NEW seq \in Nat, NEW now \in Nat
    PROVE  Rejection(e, w, "restore", 1) = "" => ~Shut(Applied(e, w, "restore", 1, seq, now), w)
<1> DEFINE f == Applied(e, w, "restore", 1, seq, now)
           state == e.ws[w].is_deleted
<1>0. state \in States
  BY DEF Database, WorkspaceRow
<1>1. Rejection(e, w, "restore", 1) = "" => state = Active \/ state = Retained
  BY <1>0 DEF Rejection, States, Absent, Active, Retained, Terminal
<1>2. state = Active => f = e
  BY DEF Applied, Idempotent
<1>3. state = Retained /\ Rejection(e, w, "restore", 1) = "" => RestoreStep(e, f, w, seq)
  <2>1. state = Retained => ~Idempotent(e, w, "restore")
    BY DEF Idempotent, Active, Retained
  <2>2. "restore" \in LifecycleActions /\ "restore" # "delete" /\ "restore" # "purge"
    BY DEF LifecycleActions
  <2> QED BY <2>1, <2>2, AppliedRows DEF Accepted
<1> HIDE DEF f
<1>4. RestoreStep(e, f, w, seq) => f.ws[w].is_deleted = Active
  BY DEF RestoreStep, OneRow, Database, RestoredRow
<1>5. Rejection(e, w, "restore", 1) = "" => f.ws[w].is_deleted = Active
  BY <1>1, <1>2, <1>3, <1>4
<1>6. f.ws[w].is_deleted = Active => ~Shut(f, w)
  BY DEF Shut, Active, Retained, Terminal
<1> QED BY <1>5, <1>6 DEF f

(* A version-0 delete keeps the invariant.                                    *)
LEMMA LegacyDeletedInv ==
    ASSUME NEW x \in Context, x.version = 0, NEW I, NEW p \in Held(I), NEW q \in Held(I),
           NEW id \in Workspaces, LegacyDeleted(p, q, id, x.seq, x.now),
           WorkspacesInv(x, p), Models(x.before, p.db, 0)
    PROVE  WorkspacesInv(x, q) /\ Models(x.before, q.db, 0)
<1>0. /\ x.before \in Database /\ x.seq \in Nat /\ x.now \in Nat
      /\ p.db \in Database /\ "delete" \in LifecycleActions /\ 0 \in {0, 1}
  BY HeldFields DEF Context, Known, LifecycleActions
<1>1. /\ Trail(x.before, q.db, x.seq) /\ Descends(x.before, q.db)
      /\ Brought(x.before, q.db) /\ Models(x.before, q.db, 0)
      /\ \A v \in Workspaces \ {id} : Shut(q.db, v) => Shut(p.db, v)
  <2>1. q.db = Applied(p.db, id, "delete", 0, x.seq, x.now)
    BY DEF LegacyDeleted
  <2> QED BY <1>0, <2>1, AppliedTrail DEF WorkspacesInv
<1>2. Available(q)
  BY <1>1 DEF WorkspacesInv, Available, LegacyDeleted
<1>3. AvailableUnder(x.before, q)
  <2>1. \A v : Shut(q.db, v) => v = id \/ Shut(p.db, v)
    BY <1>1 DEF Shut
  <2> QED BY <2>1 DEF WorkspacesInv, AvailableUnder, LegacyDeleted
<1> QED BY <1>1, <1>2, <1>3 DEF WorkspacesInv

(* And so does a lifecycle action of version 2.                               *)
LEMMA MovedInv ==
    ASSUME NEW x \in Context, x.version = 2, NEW I, NEW p \in Held(I), NEW q \in Held(I),
           NEW id \in Workspaces, NEW op \in LifecycleActions,
           MovedBy(p, q, id, op, x.before, x.seq, x.now),
           WorkspacesInv(x, p), Models(x.before, p.db, 1)
    PROVE  WorkspacesInv(x, q) /\ Models(x.before, q.db, 1)
<1>0. /\ x.before \in Database /\ x.seq \in Nat /\ x.now \in Nat
      /\ p.db \in Database /\ 1 \in {0, 1}
  BY HeldFields DEF Context, Known
<1>1. /\ Trail(x.before, q.db, x.seq) /\ Descends(x.before, q.db)
      /\ Brought(x.before, q.db) /\ Models(x.before, q.db, 1)
      /\ \A v \in Workspaces \ {id} : Shut(q.db, v) => Shut(p.db, v)
  <2>1. q.db = Applied(p.db, id, op, 1, x.seq, x.now)
    BY DEF MovedBy
  <2> QED BY <1>0, <2>1, AppliedTrail DEF WorkspacesInv
<1>2. ReasonOf(op) = "" => ~Shut(q.db, id)
  <2>1. ReasonOf(op) = "" => op = "restore"
    BY DEF ReasonOf, LifecycleActions
  <2> SUFFICES ASSUME op = "restore" PROVE ~Shut(q.db, id)
    BY <2>1
  <2>2. /\ Rejection(p.db, id, "restore", 1) = ""
        /\ q.db = Applied(p.db, id, "restore", 1, x.seq, x.now)
    BY DEF MovedBy
  <2>3. ~Shut(Applied(p.db, id, "restore", 1, x.seq, x.now), id)
    BY <1>0, <2>2, RestoreOpens
  <2> QED BY <2>2, <2>3
<1>3. Available(q)
  BY <1>1, <1>2 DEF WorkspacesInv, Available, MovedBy
<1>4. AvailableUnder(x.before, q)
  <2> SUFFICES ASSUME NEW c \in Collections, q.unavailableCol[c] = "",
                      Shut(q.db, x.before.col[c].workspace_id)
               PROVE  x.before.col[c].workspace_id \in q.legacyDeleted
    BY DEF AvailableUnder
  <2>1. CASE c \in CollectionsOf(x.before, id)
    BY <1>2, <2>1 DEF MovedBy, CollectionsOf
  <2>2. CASE c \notin CollectionsOf(x.before, id)
    <3>1. x.before.col[c].workspace_id # id /\ p.unavailableCol[c] = ""
      BY <2>2 DEF MovedBy, CollectionsOf
    <3>2. Shut(p.db, x.before.col[c].workspace_id)
      BY <1>1, <3>1 DEF Shut
    <3> QED BY <3>1, <3>2 DEF WorkspacesInv, AvailableUnder, MovedBy
  <2> QED BY <2>1, <2>2
<1> QED BY <1>1, <1>3, <1>4 DEF WorkspacesInv

(* A row of the batch: metadata neither shuts nor opens a workspace, but for  *)
(* one that is new.                                                           *)
LEMMA StoredWorkspaceInv ==
    ASSUME NEW x \in Context, NEW I, NEW p \in Held(I), NEW q \in Held(I),
           NEW id \in Workspaces, x.before.ws[id].is_deleted # Terminal,
           StoresWorkspace(p, q, id, x.horizon, x.seq), WorkspacesInv(x, p)
    PROVE  WorkspacesInv(x, q)
<1> DEFINE row == StoredWorkspace(p.db.ws[id], x.seq)
<1>0. /\ x.before \in Database /\ x.seq \in Nat /\ x.horizon \in Nat /\ x.horizon < x.seq
      /\ p.db \in Database /\ p.db.ws[id] \in WorkspaceRow
  BY HeldFields DEF Context, Known, Database
<1>1. /\ row.seq = x.seq
      /\ row.deletion_model \in {p.db.ws[id].deletion_model, 1}
      /\ row.is_deleted = p.db.ws[id].is_deleted \/ row.is_deleted = Active
  BY <1>0 DEF StoredWorkspace, WorkspaceRow
<1> HIDE DEF row
<1>2. OneRow(p.db, id, row, q.db) /\ SameChildren(p.db, q.db) /\ p.db.ws[id].seq <= x.horizon
  BY DEF StoresWorkspace, row
<1>3. p.db.ws[id].is_deleted # Terminal
  <2>1. p.db.ws[id].seq # x.seq
    BY <1>0, <1>2 DEF WorkspaceRow
  <2> QED BY <2>1 DEF WorkspacesInv, Trail, WorkspaceTrail
<1>4. WorkspaceTrail(x.before, q.db, x.seq)
      /\ \A v : Gone(x.before, p.db, v, x.seq) => Gone(x.before, q.db, v, x.seq)
  BY <1>0, <1>1, <1>2, <1>3, RowTrail DEF WorkspacesInv, Trail
<1>5. Trail(x.before, q.db, x.seq) /\ Descends(x.before, q.db)
  BY <1>0, <1>2, <1>4, ChildTrail DEF WorkspacesInv
<1>6. \A v \in Workspaces : q.db.ws[v] = IF v = id THEN row ELSE p.db.ws[v]
  BY <1>0, <1>2 DEF OneRow, Database
<1>7. \A v : Rescued(x.before, p.db, v) => Rescued(x.before, q.db, v)
  BY <1>1, <1>6 DEF Rescued
<1>8. Brought(x.before, q.db)
  BY <1>2, <1>7 DEF WorkspacesInv, Brought, SameChildren
<1>9. \A v : Shut(q.db, v) => Shut(p.db, v)
  <2>1. Active # Retained /\ Active # Terminal
    BY DEF Active, Retained, Terminal
  <2> QED BY <1>1, <1>6, <2>1 DEF Shut
<1>10. Available(q)
  BY <1>9 DEF WorkspacesInv, Available, StoresWorkspace
<1>11. AvailableUnder(x.before, q)
  BY <1>9 DEF WorkspacesInv, AvailableUnder, StoresWorkspace
<1> QED BY <1>5, <1>8, <1>10, <1>11 DEF WorkspacesInv

(* The snapshots at the start.                                                *)
LEMMA StartHeld ==
    ASSUME NEW I, NEW d \in Database, NEW horizon \in Nat
    PROVE  LET p == Start(d, horizon) IN
           /\ p \in Held(I)
           /\ p.db = d
           /\ \A w \in Workspaces : p.unavailable[w] = Unavailability(d.ws[w].is_deleted)
           /\ \A c \in Collections : p.unavailableCol[c] = CollectionUnavailability(d, c)
<1> DEFINE W == {w \in Workspaces : d.ws[w].is_deleted \in {Active, Retained}}
           C == {c \in Collections : d.col[c].is_deleted \in {Active, Retained}}
           B == {b \in Bookmarks : d.bm[b].is_trashed \in {Active, Retained}}
           G == {g \in Groups : d.grp[g].is_deleted \in {Active, Retained}}
           q1 == NewRetainedQuota(MaxWorkspaces, W, {x \in W : d.ws[x].seq > horizon})
           q2 == NewRetainedQuota(MaxCollections, C, {x \in C : d.col[x].seq > horizon})
           q3 == NewRetainedQuota(MaxBookmarks, B, {x \in B : d.bm[x].seq > horizon})
           q4 == NewRetainedQuota(MaxSavedGroups, G, {x \in G : d.grp[x].seq > horizon})
           O == ActiveWorkspaces(d)
           f == [w \in Workspaces |-> Unavailability(d.ws[w].is_deleted)]
           P == {c \in Collections : d.col[c].is_deleted = Active /\ CollectionUnavailability(d, c) = ""}
           g == [c \in Collections |-> CollectionUnavailability(d, c)]
<1>1. {MaxWorkspaces, MaxCollections, MaxBookmarks, MaxSavedGroups} \subseteq Nat \cup {Unlimited}
  BY PlanAssumption
<1>2. q1 \in Ledger(Workspaces)
  BY <1>1 DEF NewRetainedQuota, Ledger
<1>3. q2 \in Ledger(Collections)
  BY <1>1 DEF NewRetainedQuota, Ledger
<1>4. q3 \in Ledger(Bookmarks)
  BY <1>1 DEF NewRetainedQuota, Ledger
<1>5. q4 \in Ledger(Groups)
  BY <1>1 DEF NewRetainedQuota, Ledger
<1>6. \A state : Unavailability(state) \in Reasons
  BY DEF Unavailability, Reasons
<1>7. "" \in Reasons
  BY DEF Reasons
<1>8. f \in [Workspaces -> Reasons]
  BY <1>6
<1>9. \A c : CollectionUnavailability(d, c) \in Reasons
  BY <1>6, <1>7 DEF CollectionUnavailability
<1>10. g \in [Collections -> Reasons]
  BY <1>9
<1>11. Start(d, horizon) = [db |-> d, owned |-> O, unavailable |-> f, ownedCol |-> P,
                            unavailableCol |-> g,
                            wsQuota |-> q1, colQuota |-> q2, bmQuota |-> q3, grpQuota |-> q4,
                            legacyDeleted |-> {}, upserts |-> <<>>, rejected |-> {},
                            searchUpserts |-> {}, searchDeletes |-> {}]
  BY DEF Start
<1>12. /\ O \in SUBSET Workspaces /\ P \in SUBSET Collections /\ <<>> \in Seq(I)
       /\ {} \in SUBSET Workspaces /\ {} \in SUBSET Rejections /\ {} \in SUBSET Bookmarks
  <2>1. O \in SUBSET Workspaces
    BY DEF ActiveWorkspaces
  <2>2. P \in SUBSET Collections
    OBVIOUS
  <2>3. <<>> \in Seq(I)
    OBVIOUS
  <2> QED BY <2>1, <2>2, <2>3
<1>13. /\ \A w \in Workspaces : f[w] = Unavailability(d.ws[w].is_deleted)
       /\ \A c \in Collections : g[c] = CollectionUnavailability(d, c)
  OBVIOUS
<1> HIDE DEF q1, q2, q3, q4, O, f, P, g
<1> QED BY <1>2, <1>3, <1>4, <1>5, <1>8, <1>10, <1>11, <1>12, <1>13 DEF Held

(* The invariant holds at the start, where the snapshot is that of the tables. *)
LEMMA StartSorting ==
    ASSUME NEW x \in Context PROVE Start(x.before, x.horizon) \in Sorting(x)
<1> DEFINE d == x.before
           p == Start(d, x.horizon)
<1>0. d \in Database /\ x.horizon \in Nat
  BY DEF Context, Known
<1>1. /\ p \in Held(LiveItem(x)) /\ p.db = d
      /\ \A w \in Workspaces : p.unavailable[w] = Unavailability(d.ws[w].is_deleted)
      /\ \A c \in Collections : p.unavailableCol[c] = CollectionUnavailability(d, c)
  BY <1>0, StartHeld
<1> HIDE DEF p, d
<1>2. Trail(d, d, x.seq)
  BY DEF Trail, WorkspaceTrail, CollectionTrail, BookmarkTrail, GroupTrail
<1>3. Descends(d, d) /\ Brought(d, d) /\ Models(d, d, ModelOf(x))
  BY DEF Descends, Brought, Models
<1>4. \A w \in Workspaces : Unavailability(d.ws[w].is_deleted) = "" => ~Shut(d, w)
  BY DEF Unavailability, Shut
<1>5. Available(p)
  BY <1>1, <1>4 DEF Available
<1>6. \A c \in Collections :
         CollectionUnavailability(d, c) = "" => ~Shut(d, d.col[c].workspace_id)
  <2>1. ~Shut(d, NoId)
    BY IdAssumption DEF Shut
  <2>2. \A c \in Collections : d.col[c].workspace_id \in Workspaces \cup {NoId}
    BY <1>0 DEF Database, CollectionRow
  <2> QED BY <1>4, <2>1, <2>2 DEF CollectionUnavailability
<1>7. AvailableUnder(d, p)
  BY <1>1, <1>6 DEF AvailableUnder
<1>8. WorkspacesInv(x, p)
  BY <1>1, <1>2, <1>3, <1>5, <1>7 DEF WorkspacesInv, d
<1> QED BY <1>1, <1>3, <1>8 DEF Sorting, p, d

(* Each of the loops that sort out the workspaces keeps the invariant.        *)
LEMMA SortingTurns ==
    ASSUME NEW x \in Context, NEW p \in Sorting(x), NEW item \in WorkspaceItem
    PROVE  /\ x.version = 0 => Turn("legacy deletes", p, item, x) \in Sorting(x)
           /\ Turn("legacy metadata", p, item, x) \in Sorting(x)
           /\ x.version = 2 => Turn("workspaces", p, item, x) \in Sorting(x)
<1> DEFINE I == LiveItem(x)
<1>0. /\ p \in Held(I) /\ WorkspacesInv(x, p) /\ Models(x.before, p.db, ModelOf(x))
      /\ x.before \in Database /\ x.seq \in Nat /\ x.now \in Nat
      /\ item.id \in Workspaces
  BY DEF Sorting, Context, Known, WorkspaceItem
<1>1. ASSUME NEW q, Refuses(I, p, q) PROVE q \in Sorting(x)
  <2>1. q \in Held(I) /\ Refused(p, q) /\ q.db = p.db
    BY <1>1 DEF Refuses, Refused
  <2>2. WorkspacesInv(x, q)
    BY <1>0, <2>1, RefusedInv
  <2> QED BY <1>0, <2>1, <2>2 DEF Sorting
<1>2. ASSUME NEW q, Queues(I, p, q, item), x.before.ws[item.id].is_deleted # Terminal
      PROVE  q \in Sorting(x)
  <2>1. q \in Held(I) /\ Queued(p, q, item) /\ q.db = p.db
    BY <1>2 DEF Queues, Queued, LiveItem
  <2>2. WorkspacesInv(x, q)
    BY <1>0, <2>1, QueuedInv
  <2> QED BY <1>0, <2>1, <2>2 DEF Sorting
<1>3. ASSUME x.version = 0 PROVE Turn("legacy deletes", p, item, x) \in Sorting(x)
  <2>1. CASE item.op = "delete"
    <3> DEFINE q == LegacyDeleteItem(p, item.id, x.metadata, x.seq, x.now)
    <3>1. Turn("legacy deletes", p, item, x) = q
      BY <2>1 DEF Turn
    <3>2. Refuses(I, p, q) \/ (q \in Held(I) /\ LegacyDeleted(p, q, item.id, x.seq, x.now))
      BY <1>0, LegacyDeleteTurn
    <3> HIDE DEF q
    <3>3. ASSUME q \in Held(I), LegacyDeleted(p, q, item.id, x.seq, x.now) PROVE q \in Sorting(x)
      <4>1. ModelOf(x) = 0
        BY <1>3 DEF ModelOf
      <4>2. WorkspacesInv(x, q) /\ Models(x.before, q.db, 0)
        BY <1>0, <1>3, <3>3, <4>1, LegacyDeletedInv
      <4> QED BY <3>3, <4>1, <4>2 DEF Sorting
    <3> QED BY <1>1, <3>1, <3>2, <3>3
  <2>2. CASE item.op # "delete"
    BY <2>2 DEF Turn
  <2> QED BY <2>1, <2>2
<1>4. Turn("legacy metadata", p, item, x) \in Sorting(x)
  <2>1. CASE item.op # "delete"
    <3> DEFINE q == LegacyMetadataItem(p, item, x.before)
    <3>1. Turn("legacy metadata", p, item, x) = q
      BY <2>1 DEF Turn
    <3>2. Refuses(I, p, q) \/ (~Shut(x.before, item.id) /\ Queues(I, p, q, item))
      BY <1>0, LegacyMetadataTurn
    <3> HIDE DEF q
    <3>3. ~Shut(x.before, item.id) => x.before.ws[item.id].is_deleted # Terminal
      BY <1>0 DEF Shut
    <3> QED BY <1>1, <1>2, <3>1, <3>2, <3>3
  <2>2. CASE item.op = "delete"
    BY <2>2 DEF Turn
  <2> QED BY <2>1, <2>2
<1>5. ASSUME x.version = 2 PROVE Turn("workspaces", p, item, x) \in Sorting(x)
  <2>1. CASE item.op = "metadata"
    <3> DEFINE q == MetadataItem(p, item)
    <3>1. Turn("workspaces", p, item, x) = q
      BY <2>1 DEF Turn
    <3>2. Refuses(I, p, q) \/ (p.unavailable[item.id] = "" /\ Queues(I, p, q, item))
      BY <1>0, MetadataTurn
    <3> HIDE DEF q
    <3>3. p.unavailable[item.id] = "" => x.before.ws[item.id].is_deleted # Terminal
      <4>1. p.unavailable[item.id] = "" => p.db.ws[item.id].is_deleted # Terminal
        BY <1>0 DEF WorkspacesInv, Available, Shut
      <4> QED BY <1>0, <4>1 DEF WorkspacesInv, Trail, WorkspaceTrail
    <3> QED BY <1>1, <1>2, <3>1, <3>2, <3>3
  <2>2. CASE item.op # "metadata"
    <3> DEFINE q == LifecycleItem(p, item.id, item.op, x.before, x.seq, x.now)
    <3>0. item.op \in LifecycleActions
      BY <2>2 DEF WorkspaceItem, LifecycleActions
    <3>1. Turn("workspaces", p, item, x) = q
      BY <2>2 DEF Turn
    <3>2. Refuses(I, p, q)
          \/ (q \in Held(I) /\ MovedBy(p, q, item.id, item.op, x.before, x.seq, x.now))
      BY <1>0, <3>0, LifecycleTurn
    <3> HIDE DEF q
    <3>3. ASSUME q \in Held(I), MovedBy(p, q, item.id, item.op, x.before, x.seq, x.now)
          PROVE  q \in Sorting(x)
      <4>1. ModelOf(x) = 1
        BY <1>5 DEF ModelOf
      <4>2. WorkspacesInv(x, q) /\ Models(x.before, q.db, 1)
        BY <1>0, <1>5, <3>0, <3>3, <4>1, MovedInv
      <4> QED BY <3>3, <4>1, <4>2 DEF Sorting
    <3> QED BY <1>1, <3>1, <3>2, <3>3
  <2> QED BY <2>1, <2>2
<1> QED BY <1>3, <1>4, <1>5

(* And so does the batch.                                                     *)
LEMMA StoringTurn ==
    ASSUME NEW x \in Context, NEW p \in Storing(x), NEW item \in LiveItem(x)
    PROVE  Turn("workspace upserts", p, item, x) \in Storing(x)
<1> DEFINE I == LiveItem(x)
           q == UpsertWorkspace(p, item, x.horizon, x.seq)
<1>0. /\ p \in Held(I) /\ WorkspacesInv(x, p)
      /\ x.horizon \in Nat /\ x.seq \in Nat
      /\ item \in WorkspaceItem /\ item.id \in Workspaces
      /\ x.before.ws[item.id].is_deleted # Terminal
  BY DEF Storing, Context, Known, WorkspaceItem, LiveItem
<1>1. Turn("workspace upserts", p, item, x) = q
  BY DEF Turn
<1>2. Refuses(I, p, q) \/ (q \in Held(I) /\ StoresWorkspace(p, q, item.id, x.horizon, x.seq))
  BY <1>0, UpsertWorkspaceTurn
<1> HIDE DEF q
<1>3. CASE Refuses(I, p, q)
  BY <1>0, <1>1, <1>3, RefusedInv DEF Refuses, Storing
<1>4. CASE q \in Held(I) /\ StoresWorkspace(p, q, item.id, x.horizon, x.seq)
  <2>1. WorkspacesInv(x, q)
    BY <1>0, <1>4, StoredWorkspaceInv
  <2> QED BY <1>1, <1>4, <2>1 DEF Storing
<1> QED BY <1>2, <1>3, <1>4

-------------------------------------------------------------------------------
(* The loops over the children, once the workspaces are settled.              *)

(* The workspaces that NoLiveWriteUnderDeleted is about.                      *)
Shutting(d, e, w) == Shut(e, w) /\ ~(d.ws[w].deletion_model = 0 /\ e.ws[w].deletion_model = 1)

LiveWrites(d, e) ==
    /\ \A c \in Collections :
          e.col[c] # d.col[c] /\ e.col[c].is_deleted = Active => ~Shutting(d, e, e.col[c].workspace_id)
    /\ \A g \in Groups :
          e.grp[g] # d.grp[g] /\ e.grp[g].is_deleted = Active => ~Shutting(d, e, e.grp[g].workspace_id)
    /\ \A b \in Bookmarks, c \in Collections :
          e.bm[b] # d.bm[b] /\ e.bm[b].is_trashed = Active /\ e.bm[b].collection_id = c
             => ~Shutting(d, e, e.col[c].workspace_id)

(* Neither a workspace nor a collection under one is open while it is shut.   *)
Openings(q) ==
    /\ Available(q)
    /\ \A c \in Collections :
          q.unavailableCol[c] = "" => ~Shut(q.db, q.db.col[c].workspace_id)

(* z are the tables at the start of the loop: it leaves the workspaces.       *)
ChildrenInv(x, z, q) ==
    /\ q.db.ws = z.ws
    /\ Trail(x.before, q.db, x.seq)
    /\ LiveWrites(x.before, q.db)
    /\ Openings(q)

(* What waits for a batch has no parent, or one that is open.                 *)
OpenCollection(z) == {i \in CollectionItems : ~Shut(z, i.parent)}
OpenBookmark(z)   == {i \in BookmarkItems : i.parent \in Collections => ~Shut(z, z.col[i.parent].workspace_id)}
OpenGroup(z)      == {i \in GroupItems : ~Shut(z, i.parent)}

Collecting(x, z) == {q \in Held(OpenCollection(z)) : ChildrenInv(x, z, q)}
Marking(x, z)    == {q \in Held(OpenBookmark(z)) : ChildrenInv(x, z, q) /\ q.db.col = z.col}
Grouping(x, z)   == {q \in Held(OpenGroup(z)) : ChildrenInv(x, z, q)}

(* To refuse or to queue keeps the invariant of the children, too.            *)
LEMMA RefusedChild ==
    ASSUME NEW x, NEW z, NEW p, NEW q, Refused(p, q), ChildrenInv(x, z, p)
    PROVE  ChildrenInv(x, z, q)
<1>1. Openings(q)
  BY DEF Refused, ChildrenInv, Openings, Available
<1> QED BY <1>1 DEF Refused, ChildrenInv

(* Nothing is opened by an entity that waits.                                 *)
LEMMA QueuedChild ==
    ASSUME NEW x, NEW z, NEW p, NEW q, NEW item, Queued(p, q, item), ChildrenInv(x, z, p)
    PROVE  ChildrenInv(x, z, q)
<1>1. Openings(q)
  BY DEF Queued, ChildrenInv, Openings, Available
<1> QED BY <1>1 DEF Queued, ChildrenInv

(* A child is stored under the parent it was sent with, with the push's number, *)
(* and is there.                                                              *)
LEMMA StoredType ==
    ASSUME NEW item, item.state \in {0, 1, 2}, NEW now, NEW seq
    PROVE  /\ StoredChild(item, now, seq).is_deleted # Absent
           /\ StoredMark(item, now, seq).is_trashed # Absent
           /\ StoredChild(item, now, seq).seq = seq /\ StoredMark(item, now, seq).seq = seq
           /\ StoredChild(item, now, seq).workspace_id = item.parent
           /\ StoredMark(item, now, seq).collection_id = item.parent
BY DEF StoredChild, StoredMark, Absent

(* A row of the collection batch.                                             *)
LEMMA StoredCollectionInv ==
    ASSUME NEW x \in Context, NEW z, NEW I, NEW p \in Held(I), NEW q \in Held(I),
           NEW item \in OpenCollection(z),
           StoresCollection(p, q, item, x.horizon, x.seq, x.now), ChildrenInv(x, z, p)
    PROVE  ChildrenInv(x, z, q)
<1> DEFINE row == StoredChild(item, x.now, x.seq)
           d == x.before
           e == p.db
           f == q.db
<1>0. /\ d \in Database /\ e \in Database
      /\ item.id \in Collections /\ ~Shut(z, item.parent)
  BY HeldFields DEF Context, Known, OpenCollection, CollectionItems
<1>1. row.is_deleted # Absent /\ row.seq = x.seq /\ row.workspace_id = item.parent
  BY StoredType DEF OpenCollection, CollectionItems
<1> HIDE DEF row, d, e, f
<1>2. /\ f.ws = e.ws /\ f.bm = e.bm /\ f.grp = e.grp
      /\ \A c \in Collections : f.col[c] = IF c = item.id THEN row ELSE e.col[c]
  <2>1. f = [e EXCEPT !.col[item.id] = row]
    BY DEF StoresCollection, row, e, f
  <2> QED BY <1>0, <2>1 DEF Database
<1>3. /\ e.ws = z.ws /\ Trail(d, e, x.seq) /\ LiveWrites(d, e) /\ Openings(p)
  BY DEF ChildrenInv, d, e
<1>4. \A w : Gone(d, e, w, x.seq) => Gone(d, f, w, x.seq)
  BY <1>2 DEF Gone
<1>5. Trail(d, f, x.seq)
  <2>1. WorkspaceTrail(d, f, x.seq)
    BY <1>2, <1>3 DEF Trail, WorkspaceTrail
  <2>2. CollectionTrail(d, f, x.seq)
    BY <1>1, <1>2, <1>3, <1>4 DEF Trail, CollectionTrail
  <2>3. BookmarkTrail(d, f, x.seq)
    BY <1>2, <1>3, <1>4 DEF Trail, BookmarkTrail
  <2>4. GroupTrail(d, f, x.seq)
    BY <1>2, <1>3, <1>4 DEF Trail, GroupTrail
  <2> QED BY <2>1, <2>2, <2>3, <2>4 DEF Trail
<1>6. \A w : Shut(f, w) <=> Shut(e, w)
  BY <1>2 DEF Shut
<1>7. \A w : Shut(e, w) <=> Shut(z, w)
  BY <1>3 DEF Shut
<1>8. \A w : Shutting(d, f, w) <=> Shutting(d, e, w)
  BY <1>2 DEF Shutting, Shut
<1>9. ~Shut(f, item.parent) /\ ~Shutting(d, f, item.parent)
  BY <1>0, <1>6, <1>7 DEF Shutting
<1>10. LiveWrites(d, f)
  <2>1. \A c \in Collections :
          f.col[c] # d.col[c] /\ f.col[c].is_deleted = Active => ~Shutting(d, f, f.col[c].workspace_id)
    BY <1>1, <1>2, <1>3, <1>8, <1>9 DEF LiveWrites
  <2>2. \A g \in Groups :
          f.grp[g] # d.grp[g] /\ f.grp[g].is_deleted = Active => ~Shutting(d, f, f.grp[g].workspace_id)
    BY <1>2, <1>3, <1>8 DEF LiveWrites
  <2>3. \A b \in Bookmarks, c \in Collections :
          f.bm[b] # d.bm[b] /\ f.bm[b].is_trashed = Active /\ f.bm[b].collection_id = c
             => ~Shutting(d, f, f.col[c].workspace_id)
    BY <1>1, <1>2, <1>3, <1>8, <1>9 DEF LiveWrites
  <2> QED BY <2>1, <2>2, <2>3 DEF LiveWrites
<1>11. Openings(q)
  <2>1. /\ q.unavailable = p.unavailable
        /\ \A c \in Collections \ {item.id} : q.unavailableCol[c] = p.unavailableCol[c]
    BY DEF StoresCollection
  <2>2. Available(q)
    BY <1>3, <1>6, <2>1 DEF Openings, Available, e, f
  <2>3. \A c \in Collections : q.unavailableCol[c] = "" => ~Shut(f, f.col[c].workspace_id)
    BY <1>1, <1>2, <1>3, <1>6, <1>9, <2>1 DEF Openings, e
  <2> QED BY <2>2, <2>3 DEF Openings, f
<1> QED BY <1>2, <1>3, <1>5, <1>10, <1>11 DEF ChildrenInv, d, e, f

(* A change to the bookmarks alone, of which those that become active have an *)
(* open collection.                                                           *)
LEMMA BookmarksInv ==
    ASSUME NEW x \in Context, NEW z, NEW I, NEW J, NEW p \in Held(I), NEW q \in Held(J),
           q.db.ws = p.db.ws, q.db.col = p.db.col, q.db.grp = p.db.grp,
           \A b \in Bookmarks :
              \/ q.db.bm[b] = p.db.bm[b]
              \/ /\ q.db.bm[b].is_trashed # Absent /\ q.db.bm[b].seq = x.seq
                 /\ \A c \in Collections :
                       q.db.bm[b].is_trashed = Active /\ q.db.bm[b].collection_id = c
                          => ~Shut(z, p.db.col[c].workspace_id),
           q.unavailable = p.unavailable, q.unavailableCol = p.unavailableCol,
           ChildrenInv(x, z, p)
    PROVE  ChildrenInv(x, z, q)
<1> DEFINE d == x.before
           e == p.db
           f == q.db
<1>0. /\ f.ws = e.ws /\ f.col = e.col /\ f.grp = e.grp
      /\ e.ws = z.ws /\ Trail(d, e, x.seq) /\ LiveWrites(d, e) /\ Openings(p)
  BY DEF ChildrenInv
<1>1. \A b \in Bookmarks :
         f.bm[b] = e.bm[b] \/ (f.bm[b].is_trashed # Absent /\ f.bm[b].seq = x.seq)
  OBVIOUS
<1>2. \A b \in Bookmarks, c \in Collections :
         f.bm[b] # e.bm[b] /\ f.bm[b].is_trashed = Active /\ f.bm[b].collection_id = c
            => ~Shut(z, e.col[c].workspace_id)
  OBVIOUS
<1> HIDE DEF d, e, f
<1>3. \A w : Gone(d, e, w, x.seq) <=> Gone(d, f, w, x.seq)
  BY <1>0 DEF Gone
<1>4. Trail(d, f, x.seq)
  <2>1. WorkspaceTrail(d, f, x.seq)
    BY <1>0 DEF Trail, WorkspaceTrail
  <2>2. CollectionTrail(d, f, x.seq)
    BY <1>0, <1>3 DEF Trail, CollectionTrail
  <2>3. BookmarkTrail(d, f, x.seq)
    BY <1>0, <1>1, <1>3 DEF Trail, BookmarkTrail
  <2>4. GroupTrail(d, f, x.seq)
    BY <1>0, <1>3 DEF Trail, GroupTrail
  <2> QED BY <2>1, <2>2, <2>3, <2>4 DEF Trail
<1>5. \A w : (Shut(f, w) <=> Shut(e, w)) /\ (Shut(e, w) <=> Shut(z, w))
  BY <1>0 DEF Shut
<1>6. \A w : Shutting(d, f, w) <=> Shutting(d, e, w)
  BY <1>0, <1>5 DEF Shutting
<1>7. LiveWrites(d, f)
  <2>1. \A c \in Collections :
          f.col[c] # d.col[c] /\ f.col[c].is_deleted = Active => ~Shutting(d, f, f.col[c].workspace_id)
    BY <1>0, <1>6 DEF LiveWrites
  <2>2. \A g \in Groups :
          f.grp[g] # d.grp[g] /\ f.grp[g].is_deleted = Active => ~Shutting(d, f, f.grp[g].workspace_id)
    BY <1>0, <1>6 DEF LiveWrites
  <2>3. \A w : ~Shut(z, w) => ~Shutting(d, f, w)
    BY <1>5 DEF Shutting
  <2>4. \A b \in Bookmarks, c \in Collections :
          f.bm[b] # d.bm[b] /\ f.bm[b].is_trashed = Active /\ f.bm[b].collection_id = c
             => ~Shutting(d, f, f.col[c].workspace_id)
    BY <1>0, <1>2, <1>6, <2>3 DEF LiveWrites
  <2> QED BY <2>1, <2>2, <2>4 DEF LiveWrites
<1>8. Openings(q)
  BY <1>0, <1>5 DEF Openings, Available, e, f
<1> QED BY <1>0, <1>4, <1>7, <1>8 DEF ChildrenInv, d, e, f

(* A row of the group batch.                                                  *)
LEMMA StoredGroupInv ==
    ASSUME NEW x \in Context, NEW z, NEW I, NEW p \in Held(I), NEW q \in Held(I),
           NEW item \in OpenGroup(z),
           StoresGroup(p, q, item, x.horizon, x.seq, x.now), ChildrenInv(x, z, p)
    PROVE  ChildrenInv(x, z, q)
<1> DEFINE row == StoredChild(item, x.now, x.seq)
           d == x.before
           e == p.db
           f == q.db
<1>0. /\ d \in Database /\ e \in Database
      /\ item.id \in Groups /\ ~Shut(z, item.parent)
  BY HeldFields DEF Context, Known, OpenGroup, GroupItems
<1>1. row.is_deleted # Absent /\ row.seq = x.seq /\ row.workspace_id = item.parent
  BY StoredType DEF OpenGroup, GroupItems
<1> HIDE DEF row, d, e, f
<1>2. /\ f.ws = e.ws /\ f.bm = e.bm /\ f.col = e.col
      /\ \A g \in Groups : f.grp[g] = IF g = item.id THEN row ELSE e.grp[g]
  <2>1. f = [e EXCEPT !.grp[item.id] = row]
    BY DEF StoresGroup, row, e, f
  <2> QED BY <1>0, <2>1 DEF Database
<1>3. /\ e.ws = z.ws /\ Trail(d, e, x.seq) /\ LiveWrites(d, e) /\ Openings(p)
  BY DEF ChildrenInv, d, e
<1>4. \A w : Gone(d, e, w, x.seq) => Gone(d, f, w, x.seq)
  BY <1>2 DEF Gone
<1>5. Trail(d, f, x.seq)
  <2>1. WorkspaceTrail(d, f, x.seq)
    BY <1>2, <1>3 DEF Trail, WorkspaceTrail
  <2>2. CollectionTrail(d, f, x.seq)
    BY <1>2, <1>3, <1>4 DEF Trail, CollectionTrail
  <2>3. BookmarkTrail(d, f, x.seq)
    BY <1>2, <1>3, <1>4 DEF Trail, BookmarkTrail
  <2>4. GroupTrail(d, f, x.seq)
    BY <1>1, <1>2, <1>3, <1>4 DEF Trail, GroupTrail
  <2> QED BY <2>1, <2>2, <2>3, <2>4 DEF Trail
<1>6. \A w : (Shut(f, w) <=> Shut(e, w)) /\ (Shut(e, w) <=> Shut(z, w))
  BY <1>2, <1>3 DEF Shut
<1>7. \A w : Shutting(d, f, w) <=> Shutting(d, e, w)
  BY <1>2, <1>6 DEF Shutting
<1>8. ~Shutting(d, f, item.parent)
  BY <1>0, <1>6 DEF Shutting
<1>9. LiveWrites(d, f)
  <2>1. \A c \in Collections :
          f.col[c] # d.col[c] /\ f.col[c].is_deleted = Active => ~Shutting(d, f, f.col[c].workspace_id)
    BY <1>2, <1>3, <1>7 DEF LiveWrites
  <2>2. \A g \in Groups :
          f.grp[g] # d.grp[g] /\ f.grp[g].is_deleted = Active => ~Shutting(d, f, f.grp[g].workspace_id)
    BY <1>1, <1>2, <1>3, <1>7, <1>8 DEF LiveWrites
  <2>3. \A b \in Bookmarks, c \in Collections :
          f.bm[b] # d.bm[b] /\ f.bm[b].is_trashed = Active /\ f.bm[b].collection_id = c
             => ~Shutting(d, f, f.col[c].workspace_id)
    BY <1>2, <1>3, <1>7 DEF LiveWrites
  <2> QED BY <2>1, <2>2, <2>3 DEF LiveWrites
<1>10. Openings(q)
  <2>1. q.unavailable = p.unavailable /\ q.unavailableCol = p.unavailableCol
    BY DEF StoresGroup
  <2> QED BY <1>2, <1>3, <1>6, <2>1 DEF Openings, Available, e, f
<1> QED BY <1>2, <1>3, <1>5, <1>9, <1>10 DEF ChildrenInv, d, e, f

(* Each loop over the children keeps its states: the one that sorts out the   *)
(* entities, and the batch.                                                   *)
LEMMA CollectingTurns ==
    ASSUME NEW x \in Context, NEW z, NEW p \in Collecting(x, z)
    PROVE  /\ \A item \in CollectionItems : Turn("collections", p, item, x) \in Collecting(x, z)
           /\ \A item \in OpenCollection(z) : Turn("collection upserts", p, item, x) \in Collecting(x, z)
<1> DEFINE I == OpenCollection(z)
<1>0. /\ p \in Held(I) /\ ChildrenInv(x, z, p)
      /\ x.before \in Database /\ x.horizon \in Nat /\ x.seq \in Nat /\ x.now \in Nat
  BY DEF Collecting, Context, Known
<1>1. ASSUME NEW q, Refuses(I, p, q) PROVE q \in Collecting(x, z)
  BY <1>0, <1>1, RefusedChild DEF Refuses, Collecting
<1>2. ASSUME NEW item \in CollectionItems PROVE Turn("collections", p, item, x) \in Collecting(x, z)
  <2> DEFINE q == SortCollection(p, item, x.before)
  <2>1. Turn("collections", p, item, x) = q
    BY DEF Turn
  <2>2. \/ Refuses(I, p, q)
        \/ Accepting(item.parent, p.unavailable, Workspaces) /\ Queues(I, p, q, item)
    BY <1>0, SortCollectionTurn
  <2> HIDE DEF q
  <2>3. ASSUME Accepting(item.parent, p.unavailable, Workspaces), Queues(I, p, q, item)
        PROVE  q \in Collecting(x, z)
    <3>1. ~Shut(p.db, item.parent)
      BY <1>0, <2>3, IdAssumption DEF ChildrenInv, Openings, Available, Accepting, Shut
    <3>2. item \in I
      BY <1>0, <3>1 DEF OpenCollection, ChildrenInv, Shut
    <3>3. q \in Held(I) /\ Queued(p, q, item)
      BY <2>3, <3>2 DEF Queues
    <3> QED BY <1>0, <3>3, QueuedChild DEF Collecting
  <2> QED BY <1>1, <2>1, <2>2, <2>3
<1>3. ASSUME NEW item \in I PROVE Turn("collection upserts", p, item, x) \in Collecting(x, z)
  <2> DEFINE q == UpsertCollection(p, item, x.version, x.horizon, x.seq, x.now)
  <2>1. Turn("collection upserts", p, item, x) = q
    BY DEF Turn
  <2>2. item \in CollectionItems
    BY DEF OpenCollection
  <2>3. \/ Refuses(I, p, q)
        \/ q \in Held(I) /\ StoresCollection(p, q, item, x.horizon, x.seq, x.now)
    BY <1>0, <2>2, UpsertCollectionTurn
  <2> HIDE DEF q
  <2>4. ASSUME q \in Held(I), StoresCollection(p, q, item, x.horizon, x.seq, x.now)
        PROVE  q \in Collecting(x, z)
    BY <1>0, <2>4, StoredCollectionInv DEF Collecting
  <2> QED BY <1>1, <2>1, <2>3, <2>4
<1> QED BY <1>2, <1>3

(* The loops over the bookmarks.                                              *)
LEMMA MarkingTurns ==
    ASSUME NEW x \in Context, NEW z, NEW p \in Marking(x, z)
    PROVE  /\ \A item \in BookmarkItems : Turn("bookmarks", p, item, x) \in Marking(x, z)
           /\ \A item \in OpenBookmark(z) : Turn("bookmark upserts", p, item, x) \in Marking(x, z)
<1> DEFINE I == OpenBookmark(z)
<1>0. /\ p \in Held(I) /\ ChildrenInv(x, z, p) /\ p.db.col = z.col
      /\ x.before \in Database /\ x.horizon \in Nat /\ x.seq \in Nat /\ x.now \in Nat
  BY DEF Marking, Context, Known
<1>1. ASSUME NEW q, Refuses(I, p, q) PROVE q \in Marking(x, z)
  <2>1. q \in Held(I) /\ q.db = p.db /\ Refused(p, q)
    BY <1>1 DEF Refuses, Refused
  <2> QED BY <1>0, <2>1, RefusedChild DEF Marking
<1>2. ASSUME NEW item \in BookmarkItems PROVE Turn("bookmarks", p, item, x) \in Marking(x, z)
  <2> DEFINE q == SortBookmark(p, item)
  <2>1. Turn("bookmarks", p, item, x) = q
    BY DEF Turn
  <2>2. \/ Refuses(I, p, q)
        \/ Accepting(item.parent, p.unavailableCol, Collections) /\ Queues(I, p, q, item)
    BY <1>0, SortBookmarkTurn
  <2> HIDE DEF q
  <2>3. ASSUME Accepting(item.parent, p.unavailableCol, Collections), Queues(I, p, q, item)
        PROVE  q \in Marking(x, z)
    <3>1. item.parent \in Collections => ~Shut(p.db, p.db.col[item.parent].workspace_id)
      BY <1>0, <2>3, IdAssumption DEF ChildrenInv, Openings, Accepting
    <3>2. item \in I
      BY <1>0, <3>1 DEF OpenBookmark, ChildrenInv, Shut
    <3>3. q \in Held(I) /\ Queued(p, q, item) /\ q.db = p.db
      BY <2>3, <3>2 DEF Queues, Queued
    <3> QED BY <1>0, <3>3, QueuedChild DEF Marking
  <2> QED BY <1>1, <2>1, <2>2, <2>3
<1>3. ASSUME NEW item \in I PROVE Turn("bookmark upserts", p, item, x) \in Marking(x, z)
  <2> DEFINE q == UpsertBookmark(p, item, x.horizon, x.seq, x.now)
  <2>1. Turn("bookmark upserts", p, item, x) = q
    BY DEF Turn
  <2>2. /\ item \in BookmarkItems /\ item.id \in Bookmarks /\ item.state \in {0, 1, 2}
        /\ item.parent \in Collections => ~Shut(z, z.col[item.parent].workspace_id)
    BY DEF OpenBookmark, BookmarkItems
  <2>3. \/ Refuses(I, p, q)
        \/ q \in Held(I) /\ StoresBookmark(p, q, item, x.horizon, x.seq, x.now)
    BY <1>0, <2>2, UpsertBookmarkTurn
  <2> HIDE DEF q
  <2>4. ASSUME q \in Held(I), StoresBookmark(p, q, item, x.horizon, x.seq, x.now)
        PROVE  q \in Marking(x, z)
    <3> DEFINE row == StoredMark(item, x.now, x.seq)
    <3>1. row.is_trashed # Absent /\ row.seq = x.seq /\ row.collection_id = item.parent
      BY <2>2, StoredType
    <3> HIDE DEF row
    <3>2. /\ q.db.ws = p.db.ws /\ q.db.col = p.db.col /\ q.db.grp = p.db.grp
          /\ \A b \in Bookmarks : q.db.bm[b] = IF b = item.id THEN row ELSE p.db.bm[b]
      <4>1. q.db = [p.db EXCEPT !.bm[item.id] = row] /\ p.db \in Database
        BY <1>0, <2>4, HeldFields DEF StoresBookmark, row
      <4> QED BY <2>2, <4>1 DEF Database
    <3>3. \A b \in Bookmarks :
             \/ q.db.bm[b] = p.db.bm[b]
             \/ /\ q.db.bm[b].is_trashed # Absent /\ q.db.bm[b].seq = x.seq
                /\ \A c \in Collections :
                      q.db.bm[b].is_trashed = Active /\ q.db.bm[b].collection_id = c
                         => ~Shut(z, p.db.col[c].workspace_id)
      BY <1>0, <2>2, <3>1, <3>2
    <3>4. q.unavailable = p.unavailable /\ q.unavailableCol = p.unavailableCol
      BY <2>4 DEF StoresBookmark
    <3>5. ChildrenInv(x, z, q)
      BY <1>0, <2>4, <3>2, <3>3, <3>4, BookmarksInv
    <3> QED BY <1>0, <2>4, <3>2, <3>5 DEF Marking
  <2> QED BY <1>1, <2>1, <2>3, <2>4
<1> QED BY <1>2, <1>3

(* The loops over the groups.                                                 *)
LEMMA GroupingTurns ==
    ASSUME NEW x \in Context, NEW z, NEW p \in Grouping(x, z)
    PROVE  /\ \A item \in GroupItems : Turn("groups", p, item, x) \in Grouping(x, z)
           /\ \A item \in OpenGroup(z) : Turn("group upserts", p, item, x) \in Grouping(x, z)
<1> DEFINE I == OpenGroup(z)
<1>0. /\ p \in Held(I) /\ ChildrenInv(x, z, p)
      /\ x.before \in Database /\ x.horizon \in Nat /\ x.seq \in Nat /\ x.now \in Nat
  BY DEF Grouping, Context, Known
<1>1. ASSUME NEW q, Refuses(I, p, q) PROVE q \in Grouping(x, z)
  BY <1>0, <1>1, RefusedChild DEF Refuses, Grouping
<1>2. ASSUME NEW item \in GroupItems PROVE Turn("groups", p, item, x) \in Grouping(x, z)
  <2> DEFINE q == SortGroup(p, item, x.before)
  <2>1. Turn("groups", p, item, x) = q
    BY DEF Turn
  <2>2. \/ Refuses(I, p, q)
        \/ Accepting(item.parent, p.unavailable, Workspaces) /\ Queues(I, p, q, item)
    BY <1>0, SortGroupTurn
  <2> HIDE DEF q
  <2>3. ASSUME Accepting(item.parent, p.unavailable, Workspaces), Queues(I, p, q, item)
        PROVE  q \in Grouping(x, z)
    <3>1. ~Shut(p.db, item.parent)
      BY <1>0, <2>3, IdAssumption DEF ChildrenInv, Openings, Available, Accepting, Shut
    <3>2. item \in I
      BY <1>0, <3>1 DEF OpenGroup, ChildrenInv, Shut
    <3>3. q \in Held(I) /\ Queued(p, q, item)
      BY <2>3, <3>2 DEF Queues
    <3> QED BY <1>0, <3>3, QueuedChild DEF Grouping
  <2> QED BY <1>1, <2>1, <2>2, <2>3
<1>3. ASSUME NEW item \in I PROVE Turn("group upserts", p, item, x) \in Grouping(x, z)
  <2> DEFINE q == UpsertGroup(p, item, x.horizon, x.seq, x.now)
  <2>1. Turn("group upserts", p, item, x) = q
    BY DEF Turn
  <2>2. item \in GroupItems
    BY DEF OpenGroup
  <2>3. \/ Refuses(I, p, q)
        \/ q \in Held(I) /\ StoresGroup(p, q, item, x.horizon, x.seq, x.now)
    BY <1>0, <2>2, UpsertGroupTurn
  <2> HIDE DEF q
  <2>4. ASSUME q \in Held(I), StoresGroup(p, q, item, x.horizon, x.seq, x.now)
        PROVE  q \in Grouping(x, z)
    BY <1>0, <2>4, StoredGroupInv DEF Grouping
  <2> QED BY <1>1, <2>1, <2>3, <2>4
<1> QED BY <1>2, <1>3

(* A batch leaves nothing to wait, whatever the next loop works on.           *)
Leaves(S, q) ==
    /\ \A J : q \in Held(J)
    /\ \E r \in S : /\ q.db = r.db /\ q.legacyDeleted = r.legacyDeleted
                    /\ q.unavailable = r.unavailable /\ q.unavailableCol = r.unavailableCol

(* What every turn of a batch keeps, the batch keeps.                         *)
LEMMA BatchKeeps ==
    ASSUME NEW loop, NEW I, NEW S \in SUBSET Held(I), NEW p \in S, NEW x,
           \A q \in S, item \in I : Turn(loop, q, item, x) \in S
    PROVE  Leaves(S, Batch(loop, p, x))
<1> DEFINE r == Each(loop, p, p.upserts, x)
           q == [r EXCEPT !.upserts = <<>>]
<1>1. p.upserts \in Seq(I)
  BY HeldFields
<1>2. r \in S
  BY <1>1, EachKeeps
<1>3. Batch(loop, p, x) = q
  BY DEF Batch
<1>4. r \in Held(I)
  BY <1>2
<1> HIDE DEF r
<1>5. \A J : q \in Held(J)
  <2>1. \A J : <<>> \in Seq(J)
    OBVIOUS
  <2> QED BY <1>4, <2>1 DEF Held
<1>6. /\ q.db = r.db /\ q.legacyDeleted = r.legacyDeleted
      /\ q.unavailable = r.unavailable /\ q.unavailableCol = r.unavailableCol
  BY <1>4 DEF Held
<1> HIDE DEF q
<1> QED BY <1>2, <1>3, <1>5, <1>6 DEF Leaves

-------------------------------------------------------------------------------
(* The parts of a push, one after another.                                    *)

(* A request as the handler reads it.                                         *)
Request(version) == [version : {version}, ws : Seq(WorkspaceItems(version)),
                     col : Seq(CollectionItems), bm : Seq(BookmarkItems), grp : Seq(GroupItems)]

(* The workspaces.  What was stored under a workspace that stays shut is      *)
(* closed to bookmarks, under a legacy-deleted one too.                       *)
LEMMA PushWorkspacesKeeps ==
    ASSUME NEW x \in Context, NEW req \in Request(x.version)
    PROVE  LET q == PushWorkspaces(Start(x.before, x.horizon), req, x) IN
           (\A J : q \in Held(J)) /\ ChildrenInv(x, q.db, q)
<1> DEFINE d == x.before
           p == Start(d, x.horizon)
           sorted == IF req.version = 0
                     THEN Each("legacy metadata", Each("legacy deletes", p, req.ws, x), req.ws, x)
                     ELSE Each("workspaces", p, req.ws, x)
           stored == Batch("workspace upserts", sorted, x)
           f == [c \in Collections |->
                   IF \E w \in stored.legacyDeleted : c \in CollectionsOf(stored.db, w)
                   THEN "parent_rejected" ELSE stored.unavailableCol[c]]
           q == [stored EXCEPT !.unavailableCol = f]
<1>0. /\ x.version \in {0, 2} /\ req.version = x.version
      /\ req.ws \in Seq(WorkspaceItems(x.version))
      /\ d \in Database
  BY DEF Context, Known, Request
<1>1. WorkspaceItems(x.version) \subseteq WorkspaceItem
  BY <1>0 DEF WorkspaceItems, WorkspaceOps, WorkspaceItem
<1>2. req.ws \in Seq(WorkspaceItem)
  BY <1>0, <1>1
<1>3. p \in Sorting(x)
  BY StartSorting
<1> HIDE DEF p
<1>4. sorted \in Sorting(x)
  <2>1. CASE x.version = 0
    <3> DEFINE r == Each("legacy deletes", p, req.ws, x)
    <3>1. r \in Sorting(x)
      <4>1. \A s \in Sorting(x), item \in WorkspaceItem : Turn("legacy deletes", s, item, x) \in Sorting(x)
        BY <2>1, SortingTurns
      <4> QED BY <1>2, <1>3, <4>1, EachKeeps
    <3> HIDE DEF r
    <3>2. Each("legacy metadata", r, req.ws, x) \in Sorting(x)
      <4>1. \A s \in Sorting(x), item \in WorkspaceItem : Turn("legacy metadata", s, item, x) \in Sorting(x)
        BY SortingTurns
      <4> QED BY <1>2, <3>1, <4>1, EachKeeps
    <3> QED BY <1>0, <2>1, <3>2 DEF r
  <2>2. CASE x.version = 2
    <3>1. Each("workspaces", p, req.ws, x) \in Sorting(x)
      <4>1. \A s \in Sorting(x), item \in WorkspaceItem : Turn("workspaces", s, item, x) \in Sorting(x)
        BY <2>2, SortingTurns
      <4> QED BY <1>2, <1>3, <4>1, EachKeeps
    <3> QED BY <1>0, <2>2, <3>1
  <2> QED BY <1>0, <2>1, <2>2
<1>5. PushWorkspaces(p, req, x) = q
  BY DEF PushWorkspaces
<1> HIDE DEF sorted
<1>6. Leaves(Storing(x), stored)
  <2>1. sorted \in Storing(x) /\ Storing(x) \in SUBSET Held(LiveItem(x))
    BY <1>4 DEF Sorting, Storing
  <2>2. \A s \in Storing(x), item \in LiveItem(x) :
           Turn("workspace upserts", s, item, x) \in Storing(x)
    BY StoringTurn
  <2> QED BY <2>1, <2>2, BatchKeeps
<1> HIDE DEF stored
<1>7. /\ Trail(d, stored.db, x.seq) /\ Descends(d, stored.db) /\ Brought(d, stored.db)
      /\ Available(stored) /\ AvailableUnder(d, stored)
  BY <1>6 DEF Leaves, Storing, WorkspacesInv, Available, AvailableUnder
<1>8. f \in [Collections -> Reasons]
  <2>1. stored.unavailableCol \in [Collections -> Reasons]
    BY <1>6, HeldFields DEF Leaves
  <2> QED BY <2>1 DEF Reasons
<1>9. \A c \in Collections : f[c] = "" => ~Shut(stored.db, stored.db.col[c].workspace_id)
  <2> SUFFICES ASSUME NEW c \in Collections, f[c] = ""
               PROVE  ~Shut(stored.db, stored.db.col[c].workspace_id)
    OBVIOUS
  <2>1. /\ stored.unavailableCol[c] = ""
        /\ \A w \in stored.legacyDeleted : stored.db.col[c].workspace_id # w
    BY DEF CollectionsOf
  <2>2. stored.db.col[c].workspace_id \in {d.col[c].workspace_id, NoId}
    BY <1>7 DEF Descends
  <2>3. ~Shut(stored.db, NoId)
    BY IdAssumption DEF Shut
  <2> QED BY <1>7, <2>1, <2>2, <2>3 DEF AvailableUnder
<1> HIDE DEF f
<1>10. /\ \A J : q \in Held(J)
       /\ q.db = stored.db /\ q.unavailable = stored.unavailable /\ q.unavailableCol = f
  BY <1>6, <1>8 DEF Leaves, Held
<1> HIDE DEF q
<1>11. Openings(q)
  BY <1>7, <1>9, <1>10 DEF Openings, Available
<1>12. LiveWrites(d, stored.db)
  <2>1. \A w : Rescued(d, stored.db, w) => ~Shutting(d, stored.db, w)
    BY DEF Rescued, Shutting
  <2> QED BY <1>7, <2>1 DEF Brought, LiveWrites
<1>13. ChildrenInv(x, q.db, q)
  BY <1>7, <1>10, <1>11, <1>12 DEF ChildrenInv
<1> QED BY <1>5, <1>10, <1>13 DEF p

(* The collections, with the cascade of those that became tombstones.         *)
LEMMA PushCollectionsKeeps ==
    ASSUME NEW x \in Context, NEW req \in Request(x.version), NEW z,
           NEW p, \A J : p \in Held(J), ChildrenInv(x, z, p)
    PROVE  LET q == PushCollections(p, req, x) IN
           (\A J : q \in Held(J)) /\ ChildrenInv(x, z, q)
<1> DEFINE sorted == Each("collections", p, req.col, x)
           stored == Batch("collection upserts", sorted, x)
           buried == {c \in Collections :
                        /\ \E i \in DOMAIN sorted.upserts : /\ sorted.upserts[i].id = c
                                                           /\ sorted.upserts[i].state = Terminal
                        /\ stored.db.col[c].is_deleted = Terminal
                        /\ stored.db.col[c].seq = x.seq}
           q == CascadeTombstones(stored, buried, x.before, x.seq, x.now)
<1>0. req.col \in Seq(CollectionItems) /\ x.seq \in Nat /\ x.now \in Nat
  BY DEF Context, Known, Request
<1>1. p \in Collecting(x, z)
  BY DEF Collecting
<1>2. sorted \in Collecting(x, z)
  <2>1. \A s \in Collecting(x, z), item \in CollectionItems :
           Turn("collections", s, item, x) \in Collecting(x, z)
    BY CollectingTurns
  <2> QED BY <1>0, <1>1, <2>1, EachKeeps
<1>3. PushCollections(p, req, x) = q
  BY DEF PushCollections
<1> HIDE DEF sorted
<1>4. Leaves(Collecting(x, z), stored)
  <2>1. Collecting(x, z) \in SUBSET Held(OpenCollection(z))
    BY DEF Collecting
  <2>2. \A s \in Collecting(x, z), item \in OpenCollection(z) :
           Turn("collection upserts", s, item, x) \in Collecting(x, z)
    BY CollectingTurns
  <2> QED BY <1>2, <2>1, <2>2, BatchKeeps
<1> HIDE DEF stored
<1>5. ChildrenInv(x, z, stored)
  BY <1>4 DEF Leaves, Collecting, ChildrenInv, Openings, Available
<1> HIDE DEF buried
<1>6. (\A J : q \in Held(J)) /\ Buries(stored, q, x.seq)
  <2>1. \A J : stored \in Held(J)
    BY <1>4 DEF Leaves
  <2>2. ASSUME NEW J PROVE q \in Held(J) /\ Buries(stored, q, x.seq)
    BY <1>0, <2>1, CascadeTurn
  <2> HIDE DEF q
  <2> QED BY <2>2
<1> HIDE DEF q
<1>7. stored.db \in Database /\ \A J : stored \in Held(J)
  BY <1>4, HeldFields DEF Leaves
<1>8. /\ q.db.ws = stored.db.ws /\ q.db.col = stored.db.col /\ q.db.grp = stored.db.grp
      /\ \A b \in Bookmarks :
            \/ q.db.bm[b] = stored.db.bm[b]
            \/ q.db.bm[b].is_trashed = Terminal /\ q.db.bm[b].seq = x.seq
      /\ q.unavailable = stored.unavailable /\ q.unavailableCol = stored.unavailableCol
  BY <1>6 DEF Buries
<1>9. Terminal # Absent /\ Terminal # Active
  BY DEF Terminal, Absent, Active
<1>10. ChildrenInv(x, z, q)
  BY <1>5, <1>6, <1>7, <1>8, <1>9, BookmarksInv
<1> QED BY <1>3, <1>6, <1>10

(* The bookmarks.                                                             *)
LEMMA PushBookmarksKeeps ==
    ASSUME NEW x \in Context, NEW req \in Request(x.version),
           NEW p, \A J : p \in Held(J), ChildrenInv(x, p.db, p)
    PROVE  LET q == PushBookmarks(p, req, x) IN
           (\A J : q \in Held(J)) /\ ChildrenInv(x, p.db, q)
<1> DEFINE z == p.db
           sorted == Each("bookmarks", p, req.bm, x)
           q == Batch("bookmark upserts", sorted, x)
<1>0. req.bm \in Seq(BookmarkItems)
  BY DEF Request
<1>1. p \in Marking(x, z)
  BY DEF Marking
<1> HIDE DEF z
<1>2. sorted \in Marking(x, z)
  <2>1. \A s \in Marking(x, z), item \in BookmarkItems : Turn("bookmarks", s, item, x) \in Marking(x, z)
    BY MarkingTurns
  <2> QED BY <1>0, <1>1, <2>1, EachKeeps
<1>3. PushBookmarks(p, req, x) = q
  BY DEF PushBookmarks
<1> HIDE DEF sorted
<1>4. Leaves(Marking(x, z), q)
  <2>1. Marking(x, z) \in SUBSET Held(OpenBookmark(z))
    BY DEF Marking
  <2>2. \A s \in Marking(x, z), item \in OpenBookmark(z) :
           Turn("bookmark upserts", s, item, x) \in Marking(x, z)
    BY MarkingTurns
  <2> QED BY <1>2, <2>1, <2>2, BatchKeeps
<1> HIDE DEF q
<1>5. ChildrenInv(x, z, q)
  BY <1>4 DEF Leaves, Marking, ChildrenInv, Openings, Available
<1> QED BY <1>3, <1>4, <1>5 DEF z, Leaves

(* The groups.                                                                *)
LEMMA PushGroupsKeeps ==
    ASSUME NEW x \in Context, NEW req \in Request(x.version), NEW z,
           NEW p, \A J : p \in Held(J), ChildrenInv(x, z, p)
    PROVE  LET q == PushGroups(p, req, x) IN
           (\A J : q \in Held(J)) /\ ChildrenInv(x, z, q)
<1> DEFINE sorted == Each("groups", p, req.grp, x)
           q == Batch("group upserts", sorted, x)
<1>0. req.grp \in Seq(GroupItems)
  BY DEF Request
<1>1. p \in Grouping(x, z)
  BY DEF Grouping
<1>2. sorted \in Grouping(x, z)
  <2>1. \A s \in Grouping(x, z), item \in GroupItems : Turn("groups", s, item, x) \in Grouping(x, z)
    BY GroupingTurns
  <2> QED BY <1>0, <1>1, <2>1, EachKeeps
<1>3. PushGroups(p, req, x) = q
  BY DEF PushGroups
<1> HIDE DEF sorted
<1>4. Leaves(Grouping(x, z), q)
  <2>1. Grouping(x, z) \in SUBSET Held(OpenGroup(z))
    BY DEF Grouping
  <2>2. \A s \in Grouping(x, z), item \in OpenGroup(z) :
           Turn("group upserts", s, item, x) \in Grouping(x, z)
    BY GroupingTurns
  <2> QED BY <1>2, <2>1, <2>2, BatchKeeps
<1> HIDE DEF q
<1>5. ChildrenInv(x, z, q)
  BY <1>4 DEF Leaves, Grouping, ChildrenInv, Openings, Available
<1> QED BY <1>3, <1>4, <1>5 DEF Leaves

(* The whole push: what it changed carries its number, and what it made       *)
(* active has no parent that is shut.                                         *)
LEMMA PushedTrail ==
    ASSUME NEW d \in Database, NEW horizon \in Nat, NEW seq \in Nat, horizon < seq, NEW now \in Nat,
           NEW version \in {0, 2}, NEW req \in Request(version)
    PROVE  LET e == Pushed(d, req, horizon, seq, now).db IN
           e \in Database /\ Trail(d, e, seq) /\ LiveWrites(d, e)
<1> DEFINE x == [before |-> d, version |-> req.version, horizon |-> horizon, seq |-> seq, now |-> now,
                 metadata |-> {w \in Workspaces : \E i \in DOMAIN req.ws :
                                  req.ws[i].id = w /\ req.ws[i].op = "metadata"}]
           p1 == PushWorkspaces(Start(d, horizon), req, x)
           p2 == PushCollections(p1, req, x)
           p3 == PushBookmarks(p2, req, x)
           p4 == PushGroups(p3, req, x)
<1>1. req.version = version
  BY DEF Request
<1>2. x \in Context /\ x.before = d /\ x.version = version /\ x.horizon = horizon /\ x.seq = seq
  BY <1>1 DEF Context, Known
<1>3. Pushed(d, req, horizon, seq, now) = p4
  BY DEF Pushed
<1> HIDE DEF x
<1>4. (\A J : p1 \in Held(J)) /\ ChildrenInv(x, p1.db, p1)
  BY <1>2, PushWorkspacesKeeps
<1> HIDE DEF p1
<1>5. (\A J : p2 \in Held(J)) /\ ChildrenInv(x, p1.db, p2)
  BY <1>2, <1>4, PushCollectionsKeeps
<1> HIDE DEF p2
<1>6. ChildrenInv(x, p2.db, p2)
  BY <1>5 DEF ChildrenInv
<1>7. (\A J : p3 \in Held(J)) /\ ChildrenInv(x, p2.db, p3)
  BY <1>2, <1>5, <1>6, PushBookmarksKeeps
<1> HIDE DEF p3
<1>8. (\A J : p4 \in Held(J)) /\ ChildrenInv(x, p2.db, p4)
  BY <1>2, <1>7, PushGroupsKeeps
<1> HIDE DEF p4
<1>9. p4.db \in Database
  BY <1>8, HeldFields
<1> QED BY <1>2, <1>3, <1>8, <1>9 DEF ChildrenInv

-------------------------------------------------------------------------------
(* The transitions.                                                           *)

(* The requests of the model are requests as the handler reads them.          *)
LEMMA RequestType ==
    ASSUME NEW req \in Requests PROVE \E version \in {0, 2} : req \in Request(version)
<1> DEFINE Sized(v, n) == [version : {v},
                 ws  : TupleOf(WorkspaceItems(v), n.ws), col : TupleOf(CollectionItems, n.col),
                 bm  : TupleOf(BookmarkItems, n.bm),     grp : TupleOf(GroupItems, n.grp)]
<1>0. Requests = UNION {Sized(v, n) : v \in {0, 2}, n \in Sizes}
  BY DEF Requests
<1>1. PICK v \in {0, 2}, n \in Sizes : req \in Sized(v, n)
  <2> HIDE DEF Sized
  <2> QED BY <1>0
<1>2. n.ws \in Nat /\ n.col \in Nat /\ n.bm \in Nat /\ n.grp \in Nat
  BY PushBoundAssumption DEF Sizes
<1>3. \A S, k : k \in Nat => TupleOf(S, k) \subseteq Seq(S)
  BY DEF TupleOf
<1>4. /\ req.version = v
      /\ req.ws \in Seq(WorkspaceItems(v)) /\ req.col \in Seq(CollectionItems)
      /\ req.bm \in Seq(BookmarkItems) /\ req.grp \in Seq(GroupItems)
  BY <1>1, <1>2, <1>3
<1>5. req = [version |-> req.version, ws |-> req.ws, col |-> req.col, bm |-> req.bm, grp |-> req.grp]
  BY <1>1
<1>6. req \in Request(v)
  BY <1>4, <1>5 DEF Request
<1> QED BY <1>6

(* The tables a user may have when the pushes begin.                          *)
LEMMA StoredInit ==
    ASSUME NEW C \in SomeOf(Collections), NEW B \in SomeOf(Bookmarks), NEW G \in {{}, Groups},
           NEW w \in Workspaces
    PROVE  Stored(EmptyDatabase, C, B, G, w) \in Database
<1> DEFINE ws  == [v \in Workspaces |-> [is_deleted |-> Active, deletion_model |-> 1,
                                         deleted_at |-> Null, seq |-> 1]]
           col == [c \in Collections |-> IF c \in DOMAIN C
                      THEN [is_deleted |-> C[c], workspace_id |-> w,
                            deleted_at |-> IF C[c] = Active THEN Null ELSE 0, seq |-> 1]
                      ELSE NoCollection]
           bm  == [b \in Bookmarks |-> IF b \in DOMAIN B /\ DOMAIN C # {}
                      THEN [is_trashed |-> B[b], collection_id |-> CHOOSE c \in DOMAIN C : TRUE,
                            deleted_at |-> IF B[b] = Active THEN Null ELSE 0, seq |-> 1]
                      ELSE NoBookmark]
           grp == [g \in Groups |-> IF g \in G
                      THEN [is_deleted |-> Active, workspace_id |-> w,
                            deleted_at |-> Null, seq |-> 1]
                      ELSE NoGroup]
<1>1. /\ DOMAIN C \subseteq Collections /\ \A c \in DOMAIN C : C[c] \in States
      /\ \A b \in DOMAIN B : B[b] \in States
  BY DEF SomeOf, States
<1>2. Null \in Timestamp /\ 0 \in Timestamp /\ Active \in States /\ Absent \in States
  BY DEF Timestamp, States
<1>3. ws \in [Workspaces -> WorkspaceRow]
  BY <1>2 DEF WorkspaceRow
<1>4. col \in [Collections -> CollectionRow]
  <2>1. NoCollection \in CollectionRow
    BY <1>2 DEF NoCollection, CollectionRow
  <2>2. \A c \in DOMAIN C : [is_deleted |-> C[c], workspace_id |-> w,
                             deleted_at |-> IF C[c] = Active THEN Null ELSE 0, seq |-> 1]
                            \in CollectionRow
    BY <1>1, <1>2 DEF CollectionRow
  <2> QED BY <2>1, <2>2
<1>5. bm \in [Bookmarks -> BookmarkRow]
  <2>1. NoBookmark \in BookmarkRow
    BY <1>2 DEF NoBookmark, BookmarkRow
  <2> DEFINE first == CHOOSE c \in DOMAIN C : TRUE
  <2>2. DOMAIN C # {} => first \in Collections
    BY <1>1
  <2> HIDE DEF first
  <2>3. DOMAIN C # {} =>
           \A b \in DOMAIN B : [is_trashed |-> B[b], collection_id |-> first,
                                deleted_at |-> IF B[b] = Active THEN Null ELSE 0, seq |-> 1]
                               \in BookmarkRow
    BY <1>1, <1>2, <2>2 DEF BookmarkRow
  <2> QED BY <2>1, <2>3 DEF first
<1>6. grp \in [Groups -> GroupRow]
  BY <1>2 DEF GroupRow, NoGroup, NoCollection
<1>7. Stored(EmptyDatabase, C, B, G, w)
        = [EmptyDatabase EXCEPT !.ws = ws, !.col = col, !.bm = bm, !.grp = grp]
  BY DEF Stored
<1> HIDE DEF ws, col, bm, grp
<1> QED BY <1>3, <1>4, <1>5, <1>6, <1>7, EmptyType DEF Database

(* The deletion and the purge that may follow keep the types.                 *)
LEMMA MovedType ==
    ASSUME NEW d \in Database PROVE Moved(d) \subseteq Database
<1>1. "delete" \in LifecycleActions /\ "purge" \in LifecycleActions
  BY DEF LifecycleActions
<1>2. \A w \in Workspaces, model \in {0, 1} :
         /\ Applied(d, w, "delete", model, 3, 0) \in Database
         /\ Applied(d, w, "delete", model, 2, 0) \in Database
  BY <1>1, AppliedType
<1>3. \A w \in Workspaces, model \in {0, 1} :
         Applied(Applied(d, w, "delete", model, 2, 0), w, "purge", 1, 3, 0) \in Database
  BY <1>1, <1>2, AppliedType
<1> QED BY <1>2, <1>3 DEF Moved

(* The pushes begin well typed.                                               *)
LEMMA PushInitType == PushInit => TypeOK
<1> SUFFICES ASSUME PushInit PROVE TypeOK
  OBVIOUS
<1>1. PICK d \in Database : db = [d EXCEPT !.seq = 3]
  BY StoredInit, MovedType DEF PushInit
<1>2. db \in Database
  BY <1>1 DEF Database
<1>3. shown \in [Workspaces -> ShownRecord]
  BY DEF PushInit, Nothing, ShownRecord
<1> QED BY <1>2, <1>3 DEF PushInit, TypeOK

(* A push stores tables that its trail leads to, and so does a restore.       *)
LEMMA PushStep ==
    ASSUME TypeOK, PushNext
    PROVE  \E e \in Database : Store(e) /\ Trail(db, e, NextSeq(db)) /\ LiveWrites(db, e)
<1>0. /\ db \in Database /\ clock \in Nat /\ db.seq \in Nat /\ NextSeq(db) \in Nat
      /\ NextSeq(db) = db.seq + 1
  BY DEF TypeOK, NextSeq, Database
<1>1. ASSUME NEW req \in Requests, NEW horizon \in Horizons(db), Push(req, horizon)
      PROVE  \E e \in Database : Store(e) /\ Trail(db, e, NextSeq(db)) /\ LiveWrites(db, e)
  <2> DEFINE e == Pushed(db, req, horizon, NextSeq(db), clock).db
  <2>1. horizon \in Nat /\ horizon < NextSeq(db)
    BY <1>0 DEF Horizons
  <2>2. PICK version \in {0, 2} : req \in Request(version)
    BY RequestType
  <2>3. e \in Database /\ Trail(db, e, NextSeq(db)) /\ LiveWrites(db, e)
    BY <1>0, <2>1, <2>2, PushedTrail
  <2>4. Store(e)
    BY <1>1 DEF Push, Commit
  <2> HIDE DEF e
  <2> QED BY <2>3, <2>4
<1>2. ASSUME NEW w \in Workspaces, RestoreWorkspace(w)
      PROVE  \E e \in Database : Store(e) /\ Trail(db, e, NextSeq(db)) /\ LiveWrites(db, e)
  <2> DEFINE e == Applied(db, w, "restore", 1, NextSeq(db), clock)
  <2>1. Accepted(db, w, "restore", 1) /\ Store(e)
    BY <1>2 DEF RestoreWorkspace, Apply, Accepted, Commit
  <2>2. e \in Database /\ RestoreStep(db, e, w, NextSeq(db))
    <3>1. "restore" \in LifecycleActions /\ "restore" # "delete" /\ "restore" # "purge"
      BY DEF LifecycleActions
    <3> QED BY <1>0, <2>1, <3>1, AppliedType, AppliedRows
  <2> HIDE DEF e
  <2>3. LifecycleStep(db, e, w, 1, NextSeq(db), clock)
    BY <2>2 DEF LifecycleStep
  <2>4. Trail(db, db, NextSeq(db)) /\ Descends(db, db) /\ Brought(db, db) /\ Models(db, db, 1)
    BY DEF Trail, WorkspaceTrail, CollectionTrail, BookmarkTrail, GroupTrail,
           Descends, Brought, Models
  <2>5. Trail(db, e, NextSeq(db))
    BY <1>0, <2>2, <2>3, <2>4, LifecycleTrail
  <2>6. Brought(db, e)
    BY <1>0, <2>2, <2>3, <2>4, LifecycleBrings
  <2>7. LiveWrites(db, e)
    <3>1. \A v : Rescued(db, e, v) => ~Shutting(db, e, v)
      BY DEF Rescued, Shutting
    <3> QED BY <2>6, <3>1 DEF Brought, LiveWrites
  <2> QED BY <2>1, <2>2, <2>5, <2>7
<1> QED BY <1>1, <1>2 DEF PushNext

(* What the trail says once the tables are stored.                            *)
LEMMA TrailStored ==
    ASSUME TypeOK, NEW e \in Database, Store(e), Trail(db, e, NextSeq(db)), LiveWrites(db, e)
    PROVE  /\ Published(db, db')
           /\ LiveWrites(db, db')
           /\ \A w \in Workspaces : db.ws[w].is_deleted = Terminal => db'.ws[w] = db.ws[w]
<1>1. db'.ws = e.ws /\ db'.col = e.col /\ db'.bm = e.bm /\ db'.grp = e.grp
  BY StoreTables
<1>2. db'.seq = NextSeq(db) /\ db'.seq > db.seq
  BY DEF Store, TypeOK, Database, NextSeq
<1>3. Trail(db, db', db'.seq)
  BY <1>1, <1>2 DEF Trail, WorkspaceTrail, CollectionTrail, BookmarkTrail, GroupTrail, Gone
<1>4. LiveWrites(db, db')
  BY <1>1 DEF LiveWrites, Shutting, Shut
<1>5. Published(db, db')
  <2>1. \A w : Gone(db, db', w, db'.seq) => PurgedNow(db, db', w)
    BY DEF Gone, PurgedNow
  <2>2. \A w \in Workspaces : db'.ws[w] # db.ws[w] => db'.ws[w].seq = db'.seq
    BY <1>3 DEF Trail, WorkspaceTrail
  <2>3. ChildrenPublished(db, db')
    BY <1>3, <2>1 DEF Trail, CollectionTrail, BookmarkTrail, GroupTrail, ChildrenPublished
  <2> QED BY <1>2, <2>2, <2>3 DEF Published, ChildrenPublished
<1>6. \A w \in Workspaces : db.ws[w].is_deleted = Terminal => db'.ws[w] = db.ws[w]
  BY <1>3 DEF Trail, WorkspaceTrail
<1> QED BY <1>4, <1>5, <1>6

(* Whatever a push lists and in whatever order, the tables keep their types.  *)
THEOREM PushTypeCorrect == PushSpec => []TypeOK
<1>1. TypeOK /\ [PushNext]_searchVars => TypeOK'
  <2>1. CASE PushNext
    BY <2>1, PushStep, StoreType
  <2>2. CASE UNCHANGED searchVars
    BY <2>2 DEF searchVars, TypeOK
  <2> QED BY <2>1, <2>2
<1> QED BY <1>1, PushInitType, PTL DEF PushSpec

(* What every step of the pushes does to the tables.                          *)
LEMMA PushChanges ==
    TypeOK /\ [PushNext]_searchVars =>
        \/ db' = db
        \/ /\ Published(db, db')
           /\ LiveWrites(db, db')
           /\ \A w \in Workspaces : db.ws[w].is_deleted = Terminal => db'.ws[w] = db.ws[w]
<1>1. CASE PushNext
  BY <1>1, PushStep, TrailStored
<1>2. CASE UNCHANGED searchVars
  BY <1>2 DEF searchVars
<1> QED BY <1>1, <1>2

(* A push of either version never changes the row of a root that was purged,  *)
(* by metadata, a legacy delete or a lifecycle action, or by a restore after  *)
(* it (the refusals of the workspace loop and the batch of sync.go).          *)
THEOREM PushesKeepTombstones == PushSpec => TombstoneIsFrozen
<1>1. TypeOK /\ [PushNext]_searchVars =>
        [\A w \in Workspaces : db.ws[w].is_deleted = Terminal => db'.ws[w] = db.ws[w]]_db
  BY PushChanges
<1> QED BY <1>1, PushTypeCorrect, PTL DEF PushSpec, TombstoneIsFrozen

(* A push of any number of entities publishes every row it changed under its  *)
(* one sequence number, the rows of its cascades included, and what it purged *)
(* by the tombstone of the workspace (sync.go, which takes seq once).         *)
THEOREM PushesPublish == PushSpec => EveryChangeIsPublished
<1>1. TypeOK /\ [PushNext]_searchVars => [Published(db, db')]_db
  BY PushChanges
<1> QED BY <1>1, PushTypeCorrect, PTL DEF PushSpec, EveryChangeIsPublished

(* Whatever a push does to the workspaces it lists, before or after, it makes *)
(* no collection, group or bookmark active under one that is retained or      *)
(* purged when it commits: the availability the loops keep up to date is      *)
(* right at each of their turns.                                              *)
THEOREM PushesWriteNothingUnderDeleted == PushSpec => NoLiveWriteUnderDeleted
<1>1. TypeOK /\ [PushNext]_searchVars =>
        [/\ \A c \in Collections : db'.col[c] # db.col[c] /\ db'.col[c].is_deleted = Active
              => ~ShutNow(db'.col[c].workspace_id)
         /\ \A g \in Groups : db'.grp[g] # db.grp[g] /\ db'.grp[g].is_deleted = Active
              => ~ShutNow(db'.grp[g].workspace_id)
         /\ \A b \in Bookmarks, c \in Collections :
              /\ db'.bm[b] # db.bm[b]
              /\ db'.bm[b].is_trashed = Active
              /\ db'.bm[b].collection_id = c
              => ~ShutNow(db'.col[c].workspace_id)]_db
  <2>1. \A w : Shutting(db, db', w) <=> ShutNow(w)
    BY DEF Shutting, ShutNow
  <2>2. LiveWrites(db, db') =>
          /\ \A c \in Collections : db'.col[c] # db.col[c] /\ db'.col[c].is_deleted = Active
                => ~ShutNow(db'.col[c].workspace_id)
          /\ \A g \in Groups : db'.grp[g] # db.grp[g] /\ db'.grp[g].is_deleted = Active
                => ~ShutNow(db'.grp[g].workspace_id)
          /\ \A b \in Bookmarks, c \in Collections :
                /\ db'.bm[b] # db.bm[b]
                /\ db'.bm[b].is_trashed = Active
                /\ db'.bm[b].collection_id = c
                => ~ShutNow(db'.col[c].workspace_id)
    BY <2>1 DEF LiveWrites
  <2> QED BY <2>2, PushChanges
<1> QED BY <1>1, PushTypeCorrect, PTL DEF PushSpec, NoLiveWriteUnderDeleted

-------------------------------------------------------------------------------
(* The whole of what a turn does, ledgers, rejections and documents included. *)

SameLedgers(p, q) ==
    /\ q.wsQuota = p.wsQuota /\ q.colQuota = p.colQuota
    /\ q.bmQuota = p.bmQuota /\ q.grpQuota = p.grpQuota

SameDocuments(p, q) == q.searchUpserts = p.searchUpserts /\ q.searchDeletes = p.searchDeletes

(* An entity is turned away: one rejection more.                              *)
TurnedAway(p, q, type, id) ==
    /\ q.db = p.db /\ q.upserts = p.upserts
    /\ SameLedgers(p, q) /\ SameDocuments(p, q)
    /\ \E reason : q.rejected = p.rejected \cup {[type |-> type, id |-> id, reason |-> reason]}

(* An entity waits.                                                           *)
Waits(p, q, item) ==
    /\ q.db = p.db /\ q.upserts = Append(p.upserts, item)
    /\ q.rejected = p.rejected /\ SameDocuments(p, q)

(* An entity is dealt with.                                                   *)
Answered(p, q) == q.upserts = p.upserts /\ q.rejected = p.rejected

(* A rejection, with whatever becomes unavailable.                            *)
LEMMA RejectTurnsAway ==
    ASSUME NEW I, NEW p \in Held(I), NEW type, NEW id, NEW reason
    PROVE  /\ TurnedAway(p, Reject(p, type, id, reason), type, id)
           /\ \A f : TurnedAway(p, [Reject(p, type, id, reason) EXCEPT !.unavailable = f], type, id)
           /\ \A f : TurnedAway(p, [Reject(p, type, id, reason) EXCEPT !.unavailableCol = f], type, id)
<1> DEFINE R == p.rejected \cup {[type |-> type, id |-> id, reason |-> reason]}
           q == [p EXCEPT !.rejected = R]
<1>1. Reject(p, type, id, reason) = q
  BY DEF Reject
<1>2. \E z : R = p.rejected \cup {[type |-> type, id |-> id, reason |-> z]}
  OBVIOUS
<1> HIDE DEF R
<1>3. TurnedAway(p, q, type, id)
  BY <1>2 DEF Held, TurnedAway, SameLedgers, SameDocuments
<1>4. ASSUME NEW f PROVE TurnedAway(p, [q EXCEPT !.unavailable = f], type, id)
  BY <1>2 DEF Held, TurnedAway, SameLedgers, SameDocuments
<1>5. ASSUME NEW f PROVE TurnedAway(p, [q EXCEPT !.unavailableCol = f], type, id)
  BY <1>2 DEF Held, TurnedAway, SameLedgers, SameDocuments
<1> HIDE DEF q
<1> QED BY <1>1, <1>3, <1>4, <1>5

(* A version-0 delete.                                                        *)
DeletesLegacy(p, q, id, seq, now) ==
    /\ Rejection(p.db, id, "delete", 0) = ""
    /\ q.db = Applied(p.db, id, "delete", 0, seq, now)
    /\ Answered(p, q) /\ SameLedgers(p, q)
    /\ q.searchUpserts = p.searchUpserts \cup Effect(p.db, id, "delete", 0).upserts
    /\ q.searchDeletes = p.searchDeletes \cup Effect(p.db, id, "delete", 0).deletes

(* A version-0 delete is turned away or applied.                              *)
LEMMA LegacyDeleteAnswers ==
    ASSUME NEW I, NEW p \in Held(I), NEW id, NEW metadata, NEW seq, NEW now
    PROVE  LET q == LegacyDeleteItem(p, id, metadata, seq, now) IN
           TurnedAway(p, q, "workspace", id) \/ DeletesLegacy(p, q, id, seq, now)
<1> DEFINE reason == Rejection(p.db, id, "delete", 0)
           e == Applied(p.db, id, "delete", 0, seq, now)
           effect == Effect(p.db, id, "delete", 0)
           k == Reject(p, "workspace", id, reason)
           r == AddEffect(p, effect)
<1>1. CASE reason # ""
  <2>1. \E f : LegacyDeleteItem(p, id, metadata, seq, now) = [k EXCEPT !.unavailable = f]
    BY <1>1 DEF LegacyDeleteItem
  <2> HIDE DEF reason
  <2> QED BY <2>1, RejectTurnsAway
<1>2. CASE reason = ""
  <2>1. \E U, f, D : LegacyDeleteItem(p, id, metadata, seq, now)
          = [r EXCEPT !.db = e, !.owned = U, !.unavailable = f, !.legacyDeleted = D]
    BY <1>2 DEF LegacyDeleteItem
  <2>2. PICK U, f, D : LegacyDeleteItem(p, id, metadata, seq, now)
          = [r EXCEPT !.db = e, !.owned = U, !.unavailable = f, !.legacyDeleted = D]
    BY <2>1
  <2> HIDE DEF e, effect
  <2> DEFINE q == [r EXCEPT !.db = e, !.owned = U, !.unavailable = f, !.legacyDeleted = D]
  <2>3. q.db = e /\ Answered(p, q) /\ SameLedgers(p, q)
        /\ q.searchUpserts = p.searchUpserts \cup effect.upserts
        /\ q.searchDeletes = p.searchDeletes \cup effect.deletes
    BY DEF AddEffect, Held, Answered, SameLedgers
  <2> HIDE DEF q, r
  <2> QED BY <1>2, <2>2, <2>3 DEF DeletesLegacy, q, e, effect
<1> QED BY <1>1, <1>2

(* Metadata.                                                                  *)
QueuesWorkspace(p, q, item) ==
    /\ Waits(p, q, item)
    /\ Admitted(p.wsQuota, item.id, FALSE)
    /\ q.wsQuota = Admit(p.wsQuota, item.id, FALSE)
    /\ q.colQuota = p.colQuota /\ q.bmQuota = p.bmQuota /\ q.grpQuota = p.grpQuota

(* Metadata waits for the batch, or goes over the quota.                      *)
LEMMA QueueWorkspaceAnswers ==
    ASSUME NEW I, NEW p \in Held(I), NEW item
    PROVE  LET q == QueueWorkspace(p, item) IN
           TurnedAway(p, q, "workspace", item.id) \/ QueuesWorkspace(p, q, item)
<1>1. CASE Admitted(p.wsQuota, item.id, FALSE)
  <2> DEFINE quota == Admit(p.wsQuota, item.id, FALSE)
             list == Append(p.upserts, item)
             q == [p EXCEPT !.wsQuota = quota, !.upserts = list]
  <2>1. QueueWorkspace(p, item) = q
    BY <1>1 DEF QueueWorkspace
  <2> HIDE DEF quota, list
  <2>2. /\ q.db = p.db /\ q.upserts = list /\ q.rejected = p.rejected /\ SameDocuments(p, q)
        /\ q.wsQuota = quota
        /\ q.colQuota = p.colQuota /\ q.bmQuota = p.bmQuota /\ q.grpQuota = p.grpQuota
    BY DEF Held, SameDocuments
  <2> HIDE DEF q
  <2> QED BY <1>1, <2>1, <2>2 DEF QueuesWorkspace, Waits, quota, list
<1>2. CASE ~Admitted(p.wsQuota, item.id, FALSE)
  <2>1. \E f : QueueWorkspace(p, item)
                 = [Reject(p, "workspace", item.id, "quota_exceeded") EXCEPT !.unavailable = f]
    BY <1>2 DEF QueueWorkspace
  <2> QED BY <2>1, RejectTurnsAway
<1> QED BY <1>1, <1>2

(* Version-0 metadata waits only for a root that was neither deleted nor      *)
(* purged when the push began.                                                *)
LEMMA LegacyMetadataAnswers ==
    ASSUME NEW I, NEW p \in Held(I), NEW item, NEW d
    PROVE  LET q == LegacyMetadataItem(p, item, d) IN
           \/ TurnedAway(p, q, "workspace", item.id)
           \/ ~Shut(d, item.id) /\ QueuesWorkspace(p, q, item)
<1> DEFINE reason == IF d.ws[item.id].is_deleted = Retained \/ item.id \in p.legacyDeleted
                     THEN "workspace_deleted"
                     ELSE IF d.ws[item.id].is_deleted = Terminal
                     THEN "permanently_deleted" ELSE ""
<1>1. CASE reason = ""
  <2>1. ~Shut(d, item.id)
    BY <1>1 DEF Shut
  <2>2. LegacyMetadataItem(p, item, d) = QueueWorkspace(p, item)
    BY <1>1 DEF LegacyMetadataItem
  <2> HIDE DEF reason
  <2> QED BY <2>1, <2>2, QueueWorkspaceAnswers
<1>2. CASE reason # ""
  <2>1. \E f : LegacyMetadataItem(p, item, d)
                 = [Reject(p, "workspace", item.id, reason) EXCEPT !.unavailable = f]
    BY <1>2 DEF LegacyMetadataItem
  <2> HIDE DEF reason
  <2> QED BY <2>1, RejectTurnsAway
<1> QED BY <1>1, <1>2

(* Version-2 metadata waits only for a root that is available.                *)
LEMMA MetadataAnswers ==
    ASSUME NEW I, NEW p \in Held(I), NEW item
    PROVE  LET q == MetadataItem(p, item) IN
           \/ TurnedAway(p, q, "workspace", item.id)
           \/ p.unavailable[item.id] = "" /\ QueuesWorkspace(p, q, item)
<1> DEFINE reason == p.unavailable[item.id]
           said == IF reason = "parent_deleted" THEN "workspace_deleted" ELSE reason
<1>1. CASE reason = ""
  <2>1. MetadataItem(p, item) = QueueWorkspace(p, item)
    BY <1>1 DEF MetadataItem
  <2> QED BY <1>1, <2>1, QueueWorkspaceAnswers
<1>2. CASE reason # ""
  <2>1. MetadataItem(p, item) = Reject(p, "workspace", item.id, said)
    BY <1>2 DEF MetadataItem
  <2>2. TurnedAway(p, Reject(p, "workspace", item.id, said), "workspace", item.id)
    <3> HIDE DEF said
    <3> QED BY RejectTurnsAway
  <2> QED BY <2>1, <2>2
<1> QED BY <1>1, <1>2

(* A lifecycle action of version 2; a purge gives the places of its rows back. *)
Moves(p, q, id, op, d, seq, now) ==
    /\ Rejection(p.db, id, op, 1) = ""
    /\ q.db = Applied(p.db, id, op, 1, seq, now)
    /\ Answered(p, q)
    /\ q.searchUpserts = p.searchUpserts \cup Effect(p.db, id, op, 1).upserts
    /\ q.searchDeletes = p.searchDeletes \cup Effect(p.db, id, op, 1).deletes
    /\ op # "purge" => SameLedgers(p, q)
    /\ op = "purge" =>
          /\ q.wsQuota = ReleaseApplied(p.wsQuota, {id})
          /\ q.colQuota = ReleaseApplied(p.colQuota, CollectionsOf(d, id))
          /\ q.bmQuota = ReleaseApplied(p.bmQuota, Effect(p.db, id, op, 1).deletes)
          /\ q.grpQuota = ReleaseApplied(p.grpQuota, GroupsOf(d, id))

(* A lifecycle action is turned away or applied, and a purge gives its places *)
(* in the ledgers back.                                                       *)
LEMMA LifecycleAnswers ==
    ASSUME NEW I, NEW p \in Held(I), NEW id, NEW op, NEW d, NEW seq, NEW now
    PROVE  LET q == LifecycleItem(p, id, op, d, seq, now) IN
           TurnedAway(p, q, "workspace", id) \/ Moves(p, q, id, op, d, seq, now)
<1> DEFINE refusal == Rejection(p.db, id, op, 1)
           e == Applied(p.db, id, op, 1, seq, now)
           effect == Effect(p.db, id, op, 1)
           r == AddEffect(p, effect)
<1>1. CASE refusal # ""
  <2>1. \E f : LifecycleItem(p, id, op, d, seq, now)
                 = [Reject(p, "workspace", id, refusal) EXCEPT !.unavailable = f]
    BY <1>1 DEF LifecycleItem
  <2> HIDE DEF refusal
  <2> QED BY <2>1, RejectTurnsAway
<1>2. CASE refusal = ""
  <2> DEFINE reason == ReasonOf(op)
             U == IF reason = "" THEN r.owned \cup {id} ELSE r.owned \ {id}
             f == [r.unavailable EXCEPT ![id] = reason]
             moved == [r EXCEPT !.db = e, !.owned = U, !.unavailable = f]
             released == [moved EXCEPT
                            !.wsQuota = ReleaseApplied(@, {id}),
                            !.colQuota = ReleaseApplied(@, CollectionsOf(d, id)),
                            !.bmQuota = ReleaseApplied(@, effect.deletes),
                            !.grpQuota = ReleaseApplied(@, GroupsOf(d, id))]
             k == IF op = "purge" THEN released ELSE moved
  <2>1. LifecycleItem(p, id, op, d, seq, now) = RefreshCollections(k, id, reason, d)
    BY <1>2 DEF LifecycleItem, LifecycleApplied, ReasonOf
  <2>2. \E g, O : RefreshCollections(k, id, reason, d) = [k EXCEPT !.unavailableCol = g, !.ownedCol = O]
    <3> HIDE DEF k
    <3> QED BY DEF RefreshCollections
  <2>3. PICK g, O : RefreshCollections(k, id, reason, d) = [k EXCEPT !.unavailableCol = g, !.ownedCol = O]
    BY <2>2
  <2> HIDE DEF e, effect, reason, U, f
  <2> DEFINE q == [k EXCEPT !.unavailableCol = g, !.ownedCol = O]
  <2>4. CASE op = "purge"
    <3> DEFINE q1 == ReleaseApplied(p.wsQuota, {id})
               q2 == ReleaseApplied(p.colQuota, CollectionsOf(d, id))
               q3 == ReleaseApplied(p.bmQuota, effect.deletes)
               q4 == ReleaseApplied(p.grpQuota, GroupsOf(d, id))
    <3>1. /\ moved.db = e /\ moved.upserts = p.upserts /\ moved.rejected = p.rejected
          /\ SameLedgers(p, moved)
          /\ moved.searchUpserts = p.searchUpserts \cup effect.upserts
          /\ moved.searchDeletes = p.searchDeletes \cup effect.deletes
          /\ moved = [moved EXCEPT !.db = moved.db]
          /\ DOMAIN moved = DOMAIN p
      BY DEF AddEffect, Held, SameLedgers
    <3>2. k = [moved EXCEPT !.wsQuota = q1, !.colQuota = q2, !.bmQuota = q3, !.grpQuota = q4]
      <4>1. k = [moved EXCEPT !.wsQuota = ReleaseApplied(moved.wsQuota, {id}),
                              !.colQuota = ReleaseApplied(moved.colQuota, CollectionsOf(d, id)),
                              !.bmQuota = ReleaseApplied(moved.bmQuota, effect.deletes),
                              !.grpQuota = ReleaseApplied(moved.grpQuota, GroupsOf(d, id))]
        BY <2>4
      <4> HIDE DEF moved, k
      <4> QED BY <3>1, <4>1 DEF SameLedgers
    <3> HIDE DEF q1, q2, q3, q4, moved, k
    <3>3. /\ q.db = e /\ Answered(p, q)
          /\ q.searchUpserts = p.searchUpserts \cup effect.upserts
          /\ q.searchDeletes = p.searchDeletes \cup effect.deletes
          /\ q.wsQuota = q1 /\ q.colQuota = q2 /\ q.bmQuota = q3 /\ q.grpQuota = q4
      BY <3>1, <3>2 DEF Held, Answered
    <3> HIDE DEF q
    <3> QED BY <1>2, <2>1, <2>3, <2>4, <3>3 DEF Moves, e, effect, q, q1, q2, q3, q4
  <2>5. CASE op # "purge"
    <3>1. k = moved
      BY <2>5
    <3>2. /\ q.db = e /\ Answered(p, q) /\ SameLedgers(p, q)
          /\ q.searchUpserts = p.searchUpserts \cup effect.upserts
          /\ q.searchDeletes = p.searchDeletes \cup effect.deletes
      <4> HIDE DEF k
      <4> QED BY <3>1 DEF AddEffect, Held, SameLedgers, Answered
    <3> HIDE DEF q, k
    <3> QED BY <1>2, <2>1, <2>3, <2>5, <3>2 DEF Moves, e, effect, q
  <2> QED BY <2>4, <2>5
<1> QED BY <1>1, <1>2

(* One row of the workspace batch.                                            *)
LEMMA UpsertWorkspaceAnswers ==
    ASSUME NEW I, NEW p \in Held(I), NEW item, NEW horizon, NEW seq
    PROVE  LET q == UpsertWorkspace(p, item, horizon, seq) IN
           \/ TurnedAway(p, q, "workspace", item.id)
           \/ Answered(p, q) /\ SameLedgers(p, q) /\ SameDocuments(p, q)
<1>1. CASE p.db.ws[item.id].seq <= horizon
  <2>1. \E e, U : UpsertWorkspace(p, item, horizon, seq) = [p EXCEPT !.db = e, !.owned = U]
    <3>1. \E row : UpsertWorkspace(p, item, horizon, seq)
                     = [p EXCEPT !.db.ws[item.id] = row, !.owned = @ \cup {item.id}]
      BY <1>1 DEF UpsertWorkspace
    <3> QED BY <3>1 DEF Held
  <2>2. PICK e, U : UpsertWorkspace(p, item, horizon, seq) = [p EXCEPT !.db = e, !.owned = U]
    BY <2>1
  <2> DEFINE q == [p EXCEPT !.db = e, !.owned = U]
  <2>3. Answered(p, q) /\ SameLedgers(p, q) /\ SameDocuments(p, q)
    BY DEF Held, Answered, SameLedgers, SameDocuments
  <2> HIDE DEF q
  <2> QED BY <2>2, <2>3 DEF q
<1>2. CASE ~(p.db.ws[item.id].seq <= horizon)
  <2>1. \E f : UpsertWorkspace(p, item, horizon, seq)
                 = [Reject(p, "workspace", item.id, "stale") EXCEPT !.unavailable = f]
    BY <1>2 DEF UpsertWorkspace
  <2> QED BY <2>1, RejectTurnsAway
<1> QED BY <1>1, <1>2

(* The children.                                                              *)
QueuesCollection(p, q, item) ==
    /\ Waits(p, q, item)
    /\ Admitted(p.colQuota, item.id, item.state = Terminal)
    /\ q.colQuota = Admit(p.colQuota, item.id, item.state = Terminal)
    /\ q.wsQuota = p.wsQuota /\ q.bmQuota = p.bmQuota /\ q.grpQuota = p.grpQuota

QueuesBookmark(p, q, item) ==
    /\ Waits(p, q, item)
    /\ Admitted(p.bmQuota, item.id, item.state = Terminal)
    /\ q.bmQuota = Admit(p.bmQuota, item.id, item.state = Terminal)
    /\ q.wsQuota = p.wsQuota /\ q.colQuota = p.colQuota /\ q.grpQuota = p.grpQuota

QueuesGroup(p, q, item) ==
    /\ Waits(p, q, item)
    /\ Admitted(p.grpQuota, item.id, item.state = Terminal)
    /\ q.grpQuota = Admit(p.grpQuota, item.id, item.state = Terminal)
    /\ q.wsQuota = p.wsQuota /\ q.colQuota = p.colQuota /\ q.bmQuota = p.bmQuota

(* An entity that a ledger admits waits, whichever ledger it is.              *)
LEMMA AppendWaits ==
    ASSUME NEW I, NEW p \in Held(I), NEW item
    PROVE  /\ \A z : LET q == QueuedCollection(p, z, item) IN
              /\ Waits(p, q, item) /\ q.colQuota = z
              /\ q.wsQuota = p.wsQuota /\ q.bmQuota = p.bmQuota /\ q.grpQuota = p.grpQuota
           /\ \A z : LET q == QueuedBookmark(p, z, item) IN
              /\ Waits(p, q, item) /\ q.bmQuota = z
              /\ q.wsQuota = p.wsQuota /\ q.colQuota = p.colQuota /\ q.grpQuota = p.grpQuota
           /\ \A z : LET q == QueuedGroup(p, z, item) IN
              /\ Waits(p, q, item) /\ q.grpQuota = z
              /\ q.wsQuota = p.wsQuota /\ q.colQuota = p.colQuota /\ q.bmQuota = p.bmQuota
<1> DEFINE list == Append(p.upserts, item)
<1> HIDE DEF list
<1>1. ASSUME NEW z PROVE
         LET q == QueuedCollection(p, z, item) IN
         /\ Waits(p, q, item) /\ q.colQuota = z
         /\ q.wsQuota = p.wsQuota /\ q.bmQuota = p.bmQuota /\ q.grpQuota = p.grpQuota
  BY DEF Held, Waits, SameDocuments, QueuedCollection, list
<1>2. ASSUME NEW z PROVE
         LET q == QueuedBookmark(p, z, item) IN
         /\ Waits(p, q, item) /\ q.bmQuota = z
         /\ q.wsQuota = p.wsQuota /\ q.colQuota = p.colQuota /\ q.grpQuota = p.grpQuota
  BY DEF Held, Waits, SameDocuments, QueuedBookmark, list
<1>3. ASSUME NEW z PROVE
         LET q == QueuedGroup(p, z, item) IN
         /\ Waits(p, q, item) /\ q.grpQuota = z
         /\ q.wsQuota = p.wsQuota /\ q.colQuota = p.colQuota /\ q.bmQuota = p.bmQuota
  BY DEF Held, Waits, SameDocuments, QueuedGroup, list
<1> QED BY <1>1, <1>2, <1>3

(* A collection is turned away or waits.                                      *)
LEMMA SortCollectionAnswers ==
    ASSUME NEW I, NEW p \in Held(I), NEW item, NEW d
    PROVE  LET q == SortCollection(p, item, d) IN
           TurnedAway(p, q, "collection", item.id) \/ QueuesCollection(p, q, item)
<1> DEFINE rescue == RescueRejection(p, d.col[item.id].workspace_id, item.parent)
           parent == ParentRejection(item.parent, TRUE, p.owned, p.unavailable)
           terminal == item.state = Terminal
           quota == Admit(p.colQuota, item.id, terminal)
<1>1. CASE rescue # ""
  <2>1. SortCollection(p, item, d) = Reject(p, "collection", item.id, rescue)
    BY <1>1 DEF SortCollection
  <2> HIDE DEF rescue
  <2>2. TurnedAway(p, Reject(p, "collection", item.id, rescue), "collection", item.id)
    BY RejectTurnsAway
  <2> QED BY <2>1, <2>2
<1>2. CASE rescue = "" /\ parent # ""
  <2>1. \E f : SortCollection(p, item, d)
                 = [Reject(p, "collection", item.id, parent) EXCEPT !.unavailableCol = f]
    BY <1>2 DEF SortCollection
  <2>2. \A f : TurnedAway(p, [Reject(p, "collection", item.id, parent) EXCEPT !.unavailableCol = f],
                          "collection", item.id)
    <3> HIDE DEF parent
    <3> QED BY RejectTurnsAway
  <2> QED BY <2>1, <2>2
<1>3. CASE rescue = "" /\ parent = ""
  <2>1. CASE Admitted(p.colQuota, item.id, terminal)
    <3>1. SortCollection(p, item, d) = QueuedCollection(p, quota, item)
      BY <1>3, <2>1 DEF SortCollection, QueuedCollection
    <3>2. LET q == QueuedCollection(p, quota, item) IN
          /\ Waits(p, q, item) /\ q.colQuota = quota
          /\ q.wsQuota = p.wsQuota /\ q.bmQuota = p.bmQuota /\ q.grpQuota = p.grpQuota
      <4> HIDE DEF quota
      <4> QED BY AppendWaits
    <3> HIDE DEF rescue, parent
    <3> QED BY <2>1, <3>1, <3>2 DEF QueuesCollection
  <2>2. CASE ~Admitted(p.colQuota, item.id, terminal)
    <3>1. \E f : SortCollection(p, item, d)
                   = [Reject(p, "collection", item.id, "quota_exceeded") EXCEPT !.unavailableCol = f]
      BY <1>3, <2>2 DEF SortCollection
    <3> QED BY <3>1, RejectTurnsAway
  <2> QED BY <2>1, <2>2
<1> QED BY <1>1, <1>2, <1>3

(* A group is turned away or waits.                                           *)
LEMMA SortGroupAnswers ==
    ASSUME NEW I, NEW p \in Held(I), NEW item, NEW d
    PROVE  LET q == SortGroup(p, item, d) IN
           TurnedAway(p, q, "saved_group", item.id) \/ QueuesGroup(p, q, item)
<1> DEFINE rescue == RescueRejection(p, d.grp[item.id].workspace_id, item.parent)
           parent == ParentRejection(item.parent, FALSE, p.owned, p.unavailable)
           terminal == item.state = Terminal
           quota == Admit(p.grpQuota, item.id, terminal)
<1>0. \A reason : TurnedAway(p, Reject(p, "saved_group", item.id, reason), "saved_group", item.id)
  BY RejectTurnsAway
<1>1. CASE rescue # ""
  <2>1. SortGroup(p, item, d) = Reject(p, "saved_group", item.id, rescue)
    BY <1>1 DEF SortGroup
  <2> QED BY <1>0, <2>1
<1>2. CASE rescue = "" /\ parent # ""
  <2>1. SortGroup(p, item, d) = Reject(p, "saved_group", item.id, parent)
    BY <1>2 DEF SortGroup
  <2> QED BY <1>0, <2>1
<1>3. CASE rescue = "" /\ parent = ""
  <2>1. CASE Admitted(p.grpQuota, item.id, terminal)
    <3>1. SortGroup(p, item, d) = QueuedGroup(p, quota, item)
      BY <1>3, <2>1 DEF SortGroup, QueuedGroup
    <3>2. LET q == QueuedGroup(p, quota, item) IN
          /\ Waits(p, q, item) /\ q.grpQuota = quota
          /\ q.wsQuota = p.wsQuota /\ q.colQuota = p.colQuota /\ q.bmQuota = p.bmQuota
      <4> HIDE DEF quota
      <4> QED BY AppendWaits
    <3> HIDE DEF rescue, parent
    <3> QED BY <2>1, <3>1, <3>2 DEF QueuesGroup
  <2>2. CASE ~Admitted(p.grpQuota, item.id, terminal)
    <3>1. SortGroup(p, item, d) = Reject(p, "saved_group", item.id, "quota_exceeded")
      BY <1>3, <2>2 DEF SortGroup
    <3> QED BY <1>0, <3>1
  <2> QED BY <2>1, <2>2
<1> QED BY <1>1, <1>2, <1>3

(* A bookmark is turned away or waits.                                        *)
LEMMA SortBookmarkAnswers ==
    ASSUME NEW I, NEW p \in Held(I), NEW item
    PROVE  LET q == SortBookmark(p, item) IN
           TurnedAway(p, q, "bookmark", item.id) \/ QueuesBookmark(p, q, item)
<1> DEFINE parent == ParentRejection(item.parent, TRUE, p.ownedCol, p.unavailableCol)
           terminal == item.state = Terminal
           quota == Admit(p.bmQuota, item.id, terminal)
<1>0. \A reason : TurnedAway(p, Reject(p, "bookmark", item.id, reason), "bookmark", item.id)
  BY RejectTurnsAway
<1>1. CASE parent # ""
  <2>1. SortBookmark(p, item) = Reject(p, "bookmark", item.id, parent)
    BY <1>1 DEF SortBookmark
  <2> QED BY <1>0, <2>1
<1>2. CASE parent = "" /\ Admitted(p.bmQuota, item.id, terminal)
  <2>1. SortBookmark(p, item) = QueuedBookmark(p, quota, item)
    BY <1>2 DEF SortBookmark, QueuedBookmark
  <2>2. LET q == QueuedBookmark(p, quota, item) IN
        /\ Waits(p, q, item) /\ q.bmQuota = quota
        /\ q.wsQuota = p.wsQuota /\ q.colQuota = p.colQuota /\ q.grpQuota = p.grpQuota
    <3> HIDE DEF quota
    <3> QED BY AppendWaits
  <2> HIDE DEF parent
  <2> QED BY <1>2, <2>1, <2>2 DEF QueuesBookmark
<1>3. CASE parent = "" /\ ~Admitted(p.bmQuota, item.id, terminal)
  <2>1. SortBookmark(p, item) = Reject(p, "bookmark", item.id, "quota_exceeded")
    BY <1>3 DEF SortBookmark
  <2> QED BY <1>0, <2>1
<1> QED BY <1>1, <1>2, <1>3

WritesCollection(p, q, item, horizon, seq, now) ==
    /\ Answered(p, q) /\ SameLedgers(p, q) /\ SameDocuments(p, q)
    /\ p.db.col[item.id].seq <= horizon
    /\ q.db = [p.db EXCEPT !.col[item.id] = StoredChild(item, now, seq)]

(* A collection of the batch is stored as it was sent, or is stale.           *)
LEMMA UpsertCollectionAnswers ==
    ASSUME NEW I, NEW p \in Held(I), NEW item, NEW version, NEW horizon, NEW seq, NEW now
    PROVE  LET q == UpsertCollection(p, item, version, horizon, seq, now) IN
           /\ \/ TurnedAway(p, q, "collection", item.id)
              \/ WritesCollection(p, q, item, horizon, seq, now)
           /\ p.db.col[item.id].seq <= horizon => WritesCollection(p, q, item, horizon, seq, now)
<1>1. CASE p.db.col[item.id].seq <= horizon
  <2> DEFINE e == [p.db EXCEPT !.col[item.id] = StoredChild(item, now, seq)]
  <2>1. \E U, f : UpsertCollection(p, item, version, horizon, seq, now)
                    = [p EXCEPT !.db = e, !.ownedCol = U, !.unavailableCol = f]
    <3>1. \E U, f : UpsertCollection(p, item, version, horizon, seq, now)
                      = [p EXCEPT !.db.col[item.id] = StoredChild(item, now, seq),
                                  !.ownedCol = U, !.unavailableCol[item.id] = f]
      BY <1>1 DEF UpsertCollection, StoredChild
    <3> QED BY <3>1 DEF Held
  <2> HIDE DEF e
  <2>2. PICK U, f : UpsertCollection(p, item, version, horizon, seq, now)
                    = [p EXCEPT !.db = e, !.ownedCol = U, !.unavailableCol = f]
    BY <2>1
  <2> DEFINE q == [p EXCEPT !.db = e, !.ownedCol = U, !.unavailableCol = f]
  <2>3. q.db = e /\ Answered(p, q) /\ SameLedgers(p, q) /\ SameDocuments(p, q)
    BY DEF Held, Answered, SameLedgers, SameDocuments
  <2> HIDE DEF q
  <2>4. UpsertCollection(p, item, version, horizon, seq, now) = q
    BY <2>2 DEF q
  <2> QED BY <1>1, <2>3, <2>4 DEF e, WritesCollection
<1>2. CASE ~(p.db.col[item.id].seq <= horizon)
  <2>1. \E f : UpsertCollection(p, item, version, horizon, seq, now)
                 = [Reject(p, "collection", item.id, "stale") EXCEPT !.unavailableCol = f]
    BY <1>2 DEF UpsertCollection
  <2> QED BY <1>2, <2>1, RejectTurnsAway
<1> QED BY <1>1, <1>2

WritesGroup(p, q, item, horizon, seq, now) ==
    /\ Answered(p, q) /\ SameLedgers(p, q) /\ SameDocuments(p, q)
    /\ p.db.grp[item.id].seq <= horizon
    /\ q.db = [p.db EXCEPT !.grp[item.id] = StoredChild(item, now, seq)]

(* A group of the batch is stored as it was sent, or is stale.                *)
LEMMA UpsertGroupAnswers ==
    ASSUME NEW I, NEW p \in Held(I), NEW item, NEW horizon, NEW seq, NEW now
    PROVE  LET q == UpsertGroup(p, item, horizon, seq, now) IN
           /\ \/ TurnedAway(p, q, "saved_group", item.id)
              \/ WritesGroup(p, q, item, horizon, seq, now)
           /\ p.db.grp[item.id].seq <= horizon => WritesGroup(p, q, item, horizon, seq, now)
<1>1. CASE p.db.grp[item.id].seq <= horizon
  <2> DEFINE e == [p.db EXCEPT !.grp[item.id] = StoredChild(item, now, seq)]
             q == [p EXCEPT !.db = e]
  <2>1. UpsertGroup(p, item, horizon, seq, now) = q
    <3>1. UpsertGroup(p, item, horizon, seq, now)
            = [p EXCEPT !.db.grp[item.id] = StoredChild(item, now, seq)]
      BY <1>1 DEF UpsertGroup, StoredChild
    <3> QED BY <3>1 DEF Held
  <2> HIDE DEF e
  <2>2. q.db = e /\ Answered(p, q) /\ SameLedgers(p, q) /\ SameDocuments(p, q)
    BY DEF Held, Answered, SameLedgers, SameDocuments
  <2> QED BY <1>1, <2>1, <2>2 DEF e, WritesGroup
<1>2. CASE ~(p.db.grp[item.id].seq <= horizon)
  <2>1. UpsertGroup(p, item, horizon, seq, now) = Reject(p, "saved_group", item.id, "stale")
    BY <1>2 DEF UpsertGroup
  <2> QED BY <1>2, <2>1, RejectTurnsAway
<1> QED BY <1>1, <1>2

WritesBookmark(p, q, item, horizon, seq, now) ==
    /\ Answered(p, q) /\ SameLedgers(p, q)
    /\ p.db.bm[item.id].seq <= horizon
    /\ q.db = [p.db EXCEPT !.bm[item.id] = StoredMark(item, now, seq)]
    /\ q.searchUpserts = p.searchUpserts \cup (IF item.state = Active THEN {item.id} ELSE {})
    /\ q.searchDeletes = p.searchDeletes \cup (IF item.state = Active THEN {} ELSE {item.id})

(* A bookmark of the batch is stored as it was sent, or is stale.             *)
LEMMA UpsertBookmarkAnswers ==
    ASSUME NEW I, NEW p \in Held(I), NEW item, NEW horizon, NEW seq, NEW now
    PROVE  LET q == UpsertBookmark(p, item, horizon, seq, now) IN
           /\ \/ TurnedAway(p, q, "bookmark", item.id)
              \/ WritesBookmark(p, q, item, horizon, seq, now)
           /\ p.db.bm[item.id].seq <= horizon => WritesBookmark(p, q, item, horizon, seq, now)
<1>1. CASE p.db.bm[item.id].seq <= horizon
  <2> DEFINE e == [p.db EXCEPT !.bm[item.id] = StoredMark(item, now, seq)]
             U == p.searchUpserts \cup (IF item.state = Active THEN {item.id} ELSE {})
             D == p.searchDeletes \cup (IF item.state = Active THEN {} ELSE {item.id})
             q == [p EXCEPT !.db = e, !.searchUpserts = U, !.searchDeletes = D]
  <2>1. UpsertBookmark(p, item, horizon, seq, now) = q
    <3>1. UpsertBookmark(p, item, horizon, seq, now)
            = [p EXCEPT !.db.bm[item.id] = StoredMark(item, now, seq),
                   !.searchUpserts = IF item.state = Active THEN @ \cup {item.id} ELSE @,
                   !.searchDeletes = IF item.state = Active THEN @ ELSE @ \cup {item.id}]
      BY <1>1 DEF UpsertBookmark, StoredMark
    <3>2. /\ U = IF item.state = Active THEN p.searchUpserts \cup {item.id} ELSE p.searchUpserts
          /\ D = IF item.state = Active THEN p.searchDeletes ELSE p.searchDeletes \cup {item.id}
      OBVIOUS
    <3> HIDE DEF U, D
    <3> QED BY <3>1, <3>2 DEF Held
  <2> HIDE DEF e, U, D
  <2>2. /\ q.db = e /\ Answered(p, q) /\ SameLedgers(p, q)
        /\ q.searchUpserts = U /\ q.searchDeletes = D
    BY DEF Held, Answered, SameLedgers
  <2> HIDE DEF q
  <2> QED BY <1>1, <2>1, <2>2 DEF e, U, D, WritesBookmark
<1>2. CASE ~(p.db.bm[item.id].seq <= horizon)
  <2>1. UpsertBookmark(p, item, horizon, seq, now) = Reject(p, "bookmark", item.id, "stale")
    BY <1>2 DEF UpsertBookmark
  <2> QED BY <1>2, <2>1, RejectTurnsAway
<1> QED BY <1>1, <1>2

(* The cascade: the bookmarks of the collections leave the ledger, too.       *)
TakesAlong(p, q, C, d, seq, now) ==
    LET live == {b \in Bookmarks : /\ p.db.bm[b].collection_id \in C
                                   /\ p.db.bm[b].is_trashed \in {Active, Retained}} IN
    /\ q.db = MarkBookmarks(p.db, live, Terminal, now, seq)
    /\ q.rejected = p.rejected /\ SameDocuments(p, q)
    /\ q.wsQuota = p.wsQuota /\ q.colQuota = p.colQuota /\ q.grpQuota = p.grpQuota
    /\ q.bmQuota = ReleaseApplied(p.bmQuota, {b \in Bookmarks : d.bm[b].collection_id \in C})

(* The cascade of the tombstones answers nothing: it marks bookmarks and      *)
(* gives their places back.                                                   *)
LEMMA CascadeAnswers ==
    ASSUME NEW I, NEW p \in Held(I), NEW C, NEW d, NEW seq, NEW now
    PROVE  TakesAlong(p, CascadeTombstones(p, C, d, seq, now), C, d, seq, now)
<1> DEFINE live == {b \in Bookmarks : /\ p.db.bm[b].collection_id \in C
                                      /\ p.db.bm[b].is_trashed \in {Active, Retained}}
           e == MarkBookmarks(p.db, live, Terminal, now, seq)
           z == ReleaseApplied(p.bmQuota, {b \in Bookmarks : d.bm[b].collection_id \in C})
           q == [p EXCEPT !.db = e, !.bmQuota = z]
<1>1. CascadeTombstones(p, C, d, seq, now) = q
  BY DEF CascadeTombstones
<1> HIDE DEF e, z
<1>2. /\ q.db = e /\ q.bmQuota = z
      /\ q.rejected = p.rejected /\ SameDocuments(p, q)
      /\ q.wsQuota = p.wsQuota /\ q.colQuota = p.colQuota /\ q.grpQuota = p.grpQuota
  BY DEF Held, SameDocuments
<1> HIDE DEF q
<1> QED BY <1>1, <1>2 DEF TakesAlong, e, z

-------------------------------------------------------------------------------
(* Lists.                                                                     *)

(* The ids in a list, an item whose id is there once, and a list of such.     *)
Ids(list) == {list[i].id : i \in DOMAIN list}
Lone(list, item) == \E i \in DOMAIN list : list[i] = item /\ Once(list, i)
Single(list) == \A i \in DOMAIN list : Once(list, i)

(* An item joins a list.                                                      *)
LEMMA AppendIds ==
    ASSUME NEW I, NEW list \in Seq(I), NEW item
    PROVE  LET more == Append(list, item) IN
           /\ Ids(more) = Ids(list) \cup {item.id}
           /\ item.id \notin Ids(list) => Lone(more, item)
           /\ \A o : Lone(list, o) /\ o.id # item.id => Lone(more, o)
           /\ Single(list) /\ item.id \notin Ids(list) => Single(more)
<1> DEFINE more == Append(list, item)
           n == Len(list)
<1>1. /\ n \in Nat /\ DOMAIN list = 1..n /\ DOMAIN more = 1..(n + 1)
      /\ more[n + 1] = item /\ \A i \in 1..n : more[i] = list[i]
  OBVIOUS
<1> HIDE DEF more, n
<1>2. DOMAIN more = DOMAIN list \cup {n + 1} /\ n + 1 \notin DOMAIN list
  BY <1>1
<1>3. Ids(more) = Ids(list) \cup {item.id}
  BY <1>1, <1>2 DEF Ids
<1>4. item.id \notin Ids(list) => Once(more, n + 1)
  BY <1>1, <1>2 DEF Ids, Once
<1>5. \A i \in DOMAIN list : Once(list, i) /\ list[i].id # item.id => Once(more, i)
  BY <1>1, <1>2 DEF Once
<1>6. \A i \in DOMAIN list : list[i].id \in Ids(list)
  BY DEF Ids
<1>7. item.id \notin Ids(list) => Lone(more, item)
  BY <1>1, <1>2, <1>4 DEF Lone
<1>8. \A o : Lone(list, o) /\ o.id # item.id => Lone(more, o)
  BY <1>1, <1>2, <1>5 DEF Lone
<1>9. Single(list) /\ item.id \notin Ids(list) => Single(more)
  BY <1>2, <1>4, <1>5, <1>6 DEF Single
<1> QED BY <1>3, <1>7, <1>8, <1>9 DEF more

(* Induction over the turns of a loop: S[n] are the states after n of them.   *)
LEMMA EachSteps ==
    ASSUME NEW loop, NEW I, NEW list \in Seq(I), NEW x, NEW S, NEW p \in S[0],
           \A n \in 1..Len(list) : \A q \in S[n - 1] : Turn(loop, q, list[n], x) \in S[n]
    PROVE  Each(loop, p, list, x) \in S[Len(list)]
<1>0. Len(list) \in Nat
  OBVIOUS
<1>1. PICK h : /\ h[0] = p
               /\ \A n \in 1..Len(list) : h[n] = Turn(loop, h[n - 1], list[n], x)
               /\ Each(loop, p, list, x) = h[Len(list)]
  BY <1>0, EachRun
<1> DEFINE T == {n \in Nat : n <= Len(list) => h[n] \in S[n]}
<1>2. 0 \in T
  BY <1>1
<1>3. ASSUME NEW n \in Nat, n \in T PROVE n + 1 \in T
  <2> SUFFICES ASSUME n + 1 <= Len(list) PROVE h[n + 1] \in S[n + 1]
    OBVIOUS
  <2>1. n + 1 \in 1..Len(list) /\ (n + 1) - 1 = n /\ h[n] \in S[n]
    BY <1>3
  <2>2. h[n + 1] = Turn(loop, h[n], list[n + 1], x)
    BY <1>1, <2>1
  <2> QED BY <2>1, <2>2
<1>4. Len(list) \in T
  <2> HIDE DEF T
  <2> QED BY <1>2, <1>3, Induction
<1> QED BY <1>1, <1>4

-------------------------------------------------------------------------------
(* Quotas.  A ledger and its table: what Admit bounds, and what it counts.    *)

(* The larger of a limit and of a number is a number.                         *)
LEMMA WithinMeans ==
    ASSUME NEW limit \in Nat \cup {Unlimited}, NEW before, IsFiniteSet(before)
    PROVE  \E K \in Nat :
               /\ limit # Unlimited => limit <= K /\ Cardinality(before) <= K
               /\ \A S : Within(limit, before, S) <=> (limit # Unlimited => Cardinality(S) <= K)
<1> DEFINE n == Cardinality(before)
           K == Max({limit, n})
<1>1. n \in Nat
  BY FS_CardinalityType
<1> HIDE DEF n
<1>2. CASE limit = Unlimited
  BY <1>2 DEF Within
<1>3. CASE limit # Unlimited
  <2>1. limit \in Nat
    BY <1>3
  <2>2. \E k \in {limit, n} : \A y \in {limit, n} : k >= y
    BY <1>1, <2>1
  <2>3. K \in {limit, n} /\ \A y \in {limit, n} : K >= y
    BY <2>2 DEF Max
  <2> HIDE DEF K
  <2>4. K \in Nat /\ limit <= K /\ n <= K
    BY <1>1, <2>1, <2>3
  <2>5. \A S : Within(limit, before, S) <=> (limit # Unlimited => Cardinality(S) <= K)
    BY <1>3 DEF Within, K, n
  <2> QED BY <2>4, <2>5 DEF n
<1> QED BY <1>2, <1>3

(* The ids that a ledger counts are within its limit, or were already more    *)
(* when the push began.                                                       *)
Fits(quota, limit, before) == quota.limit = limit /\ Within(limit, before, quota.retained)

(* Fewer ids are within the limit, too.                                       *)
LEMMA FewerFit ==
    ASSUME NEW limit \in Nat \cup {Unlimited}, NEW before, IsFiniteSet(before),
           NEW R, IsFiniteSet(R), Within(limit, before, R), NEW T \in SUBSET R
    PROVE  Within(limit, before, T)
<1>1. PICK K \in Nat : \A S : Within(limit, before, S) <=> (limit # Unlimited => Cardinality(S) <= K)
  BY WithinMeans
<1>2. IsFiniteSet(T) /\ Cardinality(T) <= Cardinality(R)
  BY FS_Subset
<1>3. Cardinality(T) \in Nat /\ Cardinality(R) \in Nat
  BY <1>2, FS_CardinalityType
<1> QED BY <1>1, <1>2, <1>3

(* What is admitted fits, and to release makes room.                          *)
LEMMA LedgerFits ==
    ASSUME NEW S, IsFiniteSet(S), NEW quota \in Ledger(S), NEW limit, NEW before \in SUBSET S,
           Fits(quota, limit, before)
    PROVE  /\ \A id \in S, terminal \in BOOLEAN :
                 Admitted(quota, id, terminal) => Fits(Admit(quota, id, terminal), limit, before)
           /\ \A T : Fits(ReleaseApplied(quota, T), limit, before)
<1> DEFINE R == quota.retained
<1>0. /\ R \in SUBSET S /\ limit \in Nat \cup {Unlimited} /\ quota.limit = limit
      /\ IsFiniteSet(R) /\ IsFiniteSet(before) /\ Within(limit, before, R)
  <2>1. R \in SUBSET S /\ limit \in Nat \cup {Unlimited}
    BY DEF Ledger, Fits
  <2> QED BY <2>1, FS_Subset DEF Fits
<1>1. ASSUME NEW T, NEW other, other.limit = quota.limit, other.retained = R \ T
      PROVE  Fits(other, limit, before)
  <2>1. R \ T \in SUBSET R
    OBVIOUS
  <2>2. Within(limit, before, R \ T)
    <3> HIDE DEF R
    <3> QED BY <1>0, <2>1, FewerFit
  <2> QED BY <1>0, <1>1, <2>2 DEF Fits
<1>2. ASSUME NEW id \in S, NEW terminal \in BOOLEAN, Admitted(quota, id, terminal)
      PROVE  Fits(Admit(quota, id, terminal), limit, before)
  <2> DEFINE other == Admit(quota, id, terminal)
  <2>1. CASE id \in quota.seen
    <3>1. other = quota
      BY <1>2, <2>1 DEF Admit
    <3> QED BY <3>1
  <2>2. CASE id \notin quota.seen /\ terminal
    <3>1. other.limit = quota.limit /\ other.retained = R \ ({id} \ quota.young)
      BY <1>2, <2>2 DEF Admit, Ledger
    <3> HIDE DEF other, R
    <3> QED BY <1>1, <3>1 DEF other
  <2>3. CASE id \notin quota.seen /\ ~terminal
    <3>1. other.limit = limit /\ other.retained = R \cup {id}
      BY <1>0, <1>2, <2>3 DEF Admit, Ledger
    <3>2. Cardinality(R \cup {id}) = IF id \in R THEN Cardinality(R) ELSE Cardinality(R) + 1
      BY <1>0, FS_AddElement
    <3>3. limit = Unlimited \/ id \in R \/ Cardinality(R) < limit
      BY <1>0, <1>2, <2>3 DEF Admitted
    <3>4. Cardinality(R) \in Nat
      BY <1>0, FS_CardinalityType
    <3>5. PICK K \in Nat :
             /\ limit # Unlimited => limit <= K
             /\ \A U : Within(limit, before, U) <=> (limit # Unlimited => Cardinality(U) <= K)
      <4> HIDE DEF R
      <4> QED BY <1>0, WithinMeans
    <3> HIDE DEF R, other
    <3>6. limit # Unlimited => Cardinality(R) <= K
      BY <1>0, <3>5
    <3>7. limit # Unlimited => Cardinality(R \cup {id}) <= K
      <4> SUFFICES ASSUME limit # Unlimited PROVE Cardinality(R \cup {id}) <= K
        OBVIOUS
      <4>1. limit \in Nat /\ limit <= K
        BY <1>0, <3>5
      <4>2. CASE id \in R
        BY <3>2, <3>6, <4>2
      <4>3. CASE id \notin R
        <5>1. Cardinality(R) < limit
          BY <3>3, <4>3
        <5>2. Cardinality(R) + 1 <= K
          BY <3>4, <4>1, <5>1
        <5> QED BY <3>2, <4>3, <5>2
      <4> QED BY <4>2, <4>3
    <3>8. Within(limit, before, R \cup {id})
      BY <3>5, <3>7
    <3> QED BY <3>1, <3>8 DEF Fits, other
  <2> QED BY <2>1, <2>2, <2>3
<1>3. ASSUME NEW T PROVE Fits(ReleaseApplied(quota, T), limit, before)
  <2>1. ReleaseApplied(quota, T).limit = quota.limit /\ ReleaseApplied(quota, T).retained = R \ T
    BY DEF ReleaseApplied, Ledger
  <2> HIDE DEF R
  <2> QED BY <1>1, <2>1
<1> QED BY <1>2, <1>3

(* The first item of a list that has this id is a tombstone.                  *)
Ends(list, id) ==
    \E i \in DOMAIN list : /\ list[i].id = id /\ list[i].state = Terminal
                           /\ \A j \in DOMAIN list : j < i => list[j].id # id

(* An item joins a list: what ended an id still does.                         *)
LEMMA AppendEnds ==
    ASSUME NEW I, NEW list \in Seq(I), NEW item
    PROVE  LET more == Append(list, item) IN
           /\ \A id : Ends(list, id) => Ends(more, id)
           /\ item.id \notin Ids(list) /\ item.state = Terminal => Ends(more, item.id)
<1> DEFINE more == Append(list, item)
           k == Len(list) + 1
<1>1. /\ Len(list) \in Nat /\ DOMAIN list = 1..Len(list) /\ DOMAIN more = 1..k
      /\ more[k] = item /\ \A i \in 1..Len(list) : more[i] = list[i]
  OBVIOUS
<1> HIDE DEF more
<1>2. ASSUME NEW id, Ends(list, id) PROVE Ends(more, id)
  <2>1. PICK i \in 1..Len(list) : /\ list[i].id = id /\ list[i].state = Terminal
                                  /\ \A j \in 1..Len(list) : j < i => list[j].id # id
    BY <1>1, <1>2 DEF Ends
  <2>2. i \in 1..k /\ more[i] = list[i]
    BY <1>1
  <2>3. \A j \in 1..k : j < i => more[j].id # id
    BY <1>1, <2>1
  <2> QED BY <1>1, <2>1, <2>2, <2>3 DEF Ends
<1>3. ASSUME item.id \notin Ids(list), item.state = Terminal PROVE Ends(more, item.id)
  <2>1. \A j \in 1..k : j < k => more[j].id # item.id
    BY <1>1, <1>3 DEF Ids
  <2>2. k \in 1..k /\ more[k].id = item.id /\ more[k].state = Terminal
    BY <1>1, <1>3
  <2> QED BY <1>1, <2>1, <2>2 DEF Ends
<1> QED BY <1>2, <1>3 DEF more

(* What a ledger knows while a list waits: live are the rows that count,      *)
(* fresh those with a number after the horizon, which a batch leaves alone.   *)
(* A row that counts is among the retained, or the batch will end it.         *)
Awaits(quota, list, live, fresh) ==
    /\ quota.seen = Ids(list)
    /\ \A id \in Ids(list) : id \in quota.retained \/ Ends(list, id)
    /\ \A id \in live : id \in quota.retained \/ (Ends(list, id) /\ id \notin fresh)
    /\ live \cap fresh \subseteq quota.young

(* To admit an item and to queue it go together.                              *)
LEMMA AdmitAwaits ==
    ASSUME NEW S, NEW quota \in Ledger(S), NEW I, NEW list \in Seq(I), NEW item, NEW live, NEW fresh,
           Awaits(quota, list, live, fresh), Admitted(quota, item.id, item.state = Terminal)
    PROVE  Awaits(Admit(quota, item.id, item.state = Terminal), Append(list, item), live, fresh)
<1> DEFINE id == item.id
           more == Append(list, item)
           other == Admit(quota, id, item.state = Terminal)
<1>1. Ids(more) = Ids(list) \cup {id}
  BY AppendIds
<1>2. \A k : Ends(list, k) => Ends(more, k)
  BY AppendEnds
<1>3. id \notin Ids(list) /\ item.state = Terminal => Ends(more, id)
  BY AppendEnds
<1>4. \A k : Ends(list, k) => k \in Ids(list)
  BY DEF Ends, Ids
<1>5. /\ quota.seen = Ids(list)
      /\ \A k \in Ids(list) : k \in quota.retained \/ Ends(list, k)
      /\ \A k \in live : k \in quota.retained \/ (Ends(list, k) /\ k \notin fresh)
      /\ live \cap fresh \subseteq quota.young
  BY DEF Awaits
<1> HIDE DEF more
<1>6. CASE id \in quota.seen
  <2>1. other = quota
    BY <1>6 DEF Admit
  <2>2. Ids(more) = Ids(list)
    BY <1>1, <1>5, <1>6
  <2> QED BY <1>2, <1>5, <2>1, <2>2 DEF Awaits, more
<1>7. CASE id \notin quota.seen /\ item.state = Terminal
  <2>1. /\ other.seen = quota.seen \cup {id} /\ other.young = quota.young
        /\ other.retained = quota.retained \ ({id} \ quota.young)
    BY <1>7 DEF Admit, Ledger
  <2>2. Ends(more, id) /\ ~Ends(list, id)
    BY <1>3, <1>4, <1>5, <1>7
  <2> HIDE DEF other
  <2>3. \A k \in Ids(more) : k \in other.retained \/ Ends(more, k)
    BY <1>1, <1>2, <1>5, <2>1, <2>2
  <2>4. \A k \in live : k \in other.retained \/ (Ends(more, k) /\ k \notin fresh)
    BY <1>2, <1>5, <2>1, <2>2
  <2> QED BY <1>1, <1>5, <2>1, <2>3, <2>4 DEF Awaits, more, other
<1>8. CASE id \notin quota.seen /\ item.state # Terminal
  <2>1. /\ other.seen = quota.seen \cup {id} /\ other.young = quota.young
        /\ other.retained = quota.retained \cup {id}
    BY <1>8 DEF Admit, Ledger
  <2> HIDE DEF other
  <2>3. \A k \in Ids(more) : k \in other.retained \/ Ends(more, k)
    BY <1>1, <1>2, <1>5, <2>1
  <2>4. \A k \in live : k \in other.retained \/ (Ends(more, k) /\ k \notin fresh)
    BY <1>2, <1>5, <2>1
  <2> QED BY <1>1, <1>5, <2>1, <2>3, <2>4 DEF Awaits, more, other
<1> QED BY <1>6, <1>7, <1>8

(* What the ledger knows after n rows of the batch.                           *)
Counts(quota, list, n, live, fresh) ==
    /\ \A id \in Ids(list) : id \in quota.retained \/ Ends(list, id)
    /\ \A i \in DOMAIN list : i <= n => list[i].id \in fresh
    /\ \A id \in live : id \in quota.retained \/ (Ends(list, id) /\ id \notin fresh)

(* The next row: it is stale, or stored with the state it was sent with.      *)
LEMMA RowCounts ==
    ASSUME NEW I, NEW list \in Seq(I), NEW n \in DOMAIN list, NEW quota, NEW live, NEW fresh,
           NEW more, NEW later, Counts(quota, list, n - 1, live, fresh),
           LET id == list[n].id IN
           \/ id \in fresh /\ more = live /\ later = fresh
           \/ /\ id \notin fresh
              /\ \A k : k \in later <=> k \in fresh \/ k = id
              /\ \A k : k \in more <=> IF k = id THEN list[n].state # Terminal ELSE k \in live
    PROVE  Counts(quota, list, n, more, later)
<1> DEFINE id == list[n].id
<1>0. DOMAIN list \subseteq Nat /\ n \in Nat /\ id \in Ids(list)
  BY DEF Ids
<1>1. /\ \A k \in Ids(list) : k \in quota.retained \/ Ends(list, k)
      /\ \A i \in DOMAIN list : i <= n - 1 => list[i].id \in fresh
      /\ \A k \in live : k \in quota.retained \/ (Ends(list, k) /\ k \notin fresh)
  BY DEF Counts
<1>2. CASE id \in fresh /\ more = live /\ later = fresh
  <2>1. \A i \in DOMAIN list : i <= n => i <= n - 1 \/ i = n
    BY <1>0
  <2>2. \A i \in DOMAIN list : i <= n => list[i].id \in fresh
    BY <1>1, <1>2, <2>1
  <2> QED BY <1>1, <1>2, <2>2 DEF Counts
<1>3. CASE /\ id \notin fresh
           /\ \A k : k \in later <=> k \in fresh \/ k = id
           /\ \A k : k \in more <=> IF k = id THEN list[n].state # Terminal ELSE k \in live
  <2>1. \A i \in DOMAIN list : i <= n => i <= n - 1 \/ i = n
    BY <1>0
  <2>2. \A i \in DOMAIN list : i <= n => list[i].id \in later
    BY <1>1, <1>3, <2>1
  <2>3. ASSUME list[n].state # Terminal PROVE id \in quota.retained
    <3> SUFFICES ASSUME Ends(list, id) PROVE FALSE
      BY <1>0, <1>1
    <3>1. PICK i \in DOMAIN list : /\ list[i].id = id /\ list[i].state = Terminal
                                   /\ \A j \in DOMAIN list : j < i => list[j].id # id
      BY DEF Ends
    <3>2. i # n /\ ~(n < i)
      BY <2>3, <3>1
    <3>3. i <= n - 1
      BY <1>0, <3>2
    <3> QED BY <1>1, <1>3, <3>1, <3>3
  <2>4. ASSUME NEW k \in more PROVE k \in quota.retained \/ (Ends(list, k) /\ k \notin later)
    <3>1. CASE k = id
      BY <1>3, <2>3, <2>4, <3>1
    <3>2. CASE k # id
      BY <1>1, <1>3, <2>4, <3>2
    <3> QED BY <3>1, <3>2
  <2> QED BY <1>1, <2>2, <2>4 DEF Counts
<1> QED BY <1>2, <1>3

(* At the end of the batch every row that counts is retained.                 *)
LEMMA BatchCounts ==
    ASSUME NEW I, NEW list \in Seq(I), NEW quota, NEW live, NEW fresh,
           Counts(quota, list, Len(list), live, fresh)
    PROVE  live \subseteq quota.retained
<1> SUFFICES ASSUME NEW id \in live, Ends(list, id), id \notin fresh PROVE FALSE
  BY DEF Counts
<1>1. PICK i \in DOMAIN list : list[i].id = id
  BY DEF Ends
<1>2. i <= Len(list)
  OBVIOUS
<1> QED BY <1>1, <1>2 DEF Counts

-------------------------------------------------------------------------------
(* The rows that count, and those with a number after the horizon.            *)

CountedWorkspaces(e)  == {w \in Workspaces : e.ws[w].is_deleted \in {Active, Retained}}
CountedCollections(e) == {c \in Collections : e.col[c].is_deleted \in {Active, Retained}}
CountedBookmarks(e)   == {b \in Bookmarks : e.bm[b].is_trashed \in {Active, Retained}}
CountedGroups(e)      == {g \in Groups : e.grp[g].is_deleted \in {Active, Retained}}

FreshCollections(e, horizon) == {c \in Collections : e.col[c].seq > horizon}
FreshBookmarks(e, horizon)   == {b \in Bookmarks : e.bm[b].seq > horizon}
FreshGroups(e, horizon)      == {g \in Groups : e.grp[g].seq > horizon}

(* The ledger of a table whose entities are yet to come.                      *)
Ready(quota, limit, before, live, fresh) ==
    /\ Fits(quota, limit, before)
    /\ quota.seen = {}
    /\ live \subseteq quota.retained
    /\ live \cap fresh \subseteq quota.young

(* Rows may go before, and a purge gives the places of such rows back.        *)
LEMMA ReadyShrinks ==
    ASSUME NEW S, IsFiniteSet(S), NEW quota \in Ledger(S), NEW limit, NEW before \in SUBSET S,
           NEW live, NEW fresh, Ready(quota, limit, before, live, fresh),
           NEW left, left \subseteq live, NEW later, left \cap later \subseteq fresh
    PROVE  /\ Ready(quota, limit, before, left, later)
           /\ \A T : left \cap T = {} => Ready(ReleaseApplied(quota, T), limit, before, left, later)
<1>1. Ready(quota, limit, before, left, later)
  BY DEF Ready
<1>2. ASSUME NEW T, left \cap T = {} PROVE Ready(ReleaseApplied(quota, T), limit, before, left, later)
  <2> DEFINE other == ReleaseApplied(quota, T)
  <2>1. other.retained = quota.retained \ T /\ other.seen = quota.seen /\ other.young = quota.young
    BY DEF ReleaseApplied, Ledger
  <2>2. Fits(other, limit, before)
    BY LedgerFits DEF Ready
  <2> HIDE DEF other
  <2> QED BY <1>2, <2>1, <2>2 DEF Ready, other
<1> QED BY <1>1, <1>2

(* Such a ledger awaits a list that is empty.                                 *)
LEMMA ReadyAwaits ==
    ASSUME NEW quota, NEW limit, NEW before, NEW live, NEW fresh,
           Ready(quota, limit, before, live, fresh), NEW list, Ids(list) = {}
    PROVE  Awaits(quota, list, live, fresh)
BY DEF Ready, Awaits

-------------------------------------------------------------------------------
(* Workspaces and quotas.                                                     *)

(* The push has made no move of the legacy deletion model.                    *)
Kept(d, e) == \A w \in Workspaces : e.ws[w].deletion_model = d.ws[w].deletion_model

(* A workspace that is not in the trash is of deletion model 1.               *)
Plain(e) == \A w \in Workspaces : e.ws[w].is_deleted \in {Active, Absent} => e.ws[w].deletion_model = 1

(* What the tables are between two transactions, and between two turns.       *)
Sound(e) == Plain(e) /\ PurgedEmpty(e)

(* A child is as it was, or went with its workspace.                          *)
Remains(d, e) ==
    /\ \A c \in Collections : e.col[c] \in {d.col[c], NoCollection}
    /\ \A b \in Bookmarks : e.bm[b] \in {d.bm[b], NoBookmark}
    /\ \A g \in Groups : e.grp[g] \in {d.grp[g], NoGroup}

(* A lifecycle action leaves sound tables.                                    *)
LEMMA AppliedSound ==
    ASSUME NEW e \in Database, Sound(e), NEW w \in Workspaces, NEW op \in LifecycleActions,
           NEW model \in {0, 1}, NEW seq \in Nat, NEW now \in Nat
    PROVE  Sound(Applied(e, w, op, model, seq, now))
<1> DEFINE f == Applied(e, w, op, model, seq, now)
<1>1. PurgedEmpty(f)
  BY AppliedLeavesNothing DEF Sound
<1>2. \/ f = e
      \/ OneRow(e, w, RetainedRow(model, seq, now), f)
      \/ OneRow(e, w, RestoredRow(seq), f)
      \/ OneRow(e, w, PurgedRow(e.ws[w], seq), f)
  BY AppliedWorkspaces, PurgeKeeps
<1>3. e.ws \in [Workspaces -> WorkspaceRow]
  BY DEF Database
<1>4. /\ RetainedRow(model, seq, now).is_deleted = Retained
      /\ RestoredRow(seq).deletion_model = 1
      /\ PurgedRow(e.ws[w], seq).is_deleted = Terminal
  BY <1>3 DEF RetainedRow, RestoredRow, PurgedRow, WorkspaceRow
<1>5. Retained \notin {Active, Absent} /\ Terminal \notin {Active, Absent}
  BY DEF Retained, Terminal, Active, Absent
<1> HIDE DEF f
<1>6. ASSUME NEW row, row.is_deleted \in {Active, Absent} => row.deletion_model = 1, OneRow(e, w, row, f)
      PROVE  Plain(f)
  <2>1. \A v \in Workspaces : f.ws[v] = IF v = w THEN row ELSE e.ws[v]
    BY <1>3, <1>6 DEF OneRow
  <2> QED BY <1>6, <2>1 DEF Sound, Plain
<1>7. Plain(f)
  BY <1>2, <1>4, <1>5, <1>6 DEF Sound
<1> QED BY <1>1, <1>7 DEF Sound, f

(* The rows after a lifecycle action that is not refused, one by one.         *)
RootStep(e, f, w, op, model, seq, now) ==
    \/ f = e /\ (op = "purge" => e.ws[w].is_deleted = Terminal)
    \/ op = "delete"  /\ DeleteStep(e, f, w, model, seq, now)
    \/ op = "restore" /\ RestoreStep(e, f, w, seq)
    \/ op = "purge"   /\ PurgeStep(e, f, w, seq)

(* It is idempotent, or the step of its kind.                                 *)
LEMMA AppliedRoot ==
    ASSUME NEW e \in Database, NEW w \in Workspaces, NEW op \in LifecycleActions,
           NEW model \in {0, 1}, NEW seq \in Nat, NEW now \in Nat, Rejection(e, w, op, model) = ""
    PROVE  RootStep(e, Applied(e, w, op, model, seq, now), w, op, model, seq, now)
<1> DEFINE f == Applied(e, w, op, model, seq, now)
<1>1. /\ ~Accepted(e, w, op, model) => f = e
      /\ Accepted(e, w, op, model) =>
            \/ op = "delete"  /\ DeleteStep(e, f, w, model, seq, now)
            \/ op = "restore" /\ RestoreStep(e, f, w, seq)
            \/ op = "purge"   /\ PurgeStep(e, f, w, seq)
  BY AppliedRows
<1>2. ~Accepted(e, w, op, model) /\ op = "purge" => e.ws[w].is_deleted = Terminal
  BY DEF Accepted, Idempotent
<1> HIDE DEF f
<1> QED BY <1>1, <1>2 DEF RootStep, f

(* A move of the legacy model is not taken back by the push: each version     *)
(* knows one model.                                                           *)
LEMMA KeptBack ==
    ASSUME NEW d \in Database, NEW e \in Database, NEW f, NEW w \in Workspaces, NEW op,
           NEW model \in {0, 1}, model = 0 => op = "delete", NEW seq, NEW now,
           Models(d, e, model), RootStep(e, f, w, op, model, seq, now), Kept(d, f)
    PROVE  Kept(d, e)
<1>0. e.ws \in [Workspaces -> WorkspaceRow]
  BY DEF Database
<1>1. CASE f = e
  BY <1>1
<1>2. ASSUME NEW row, OneRow(e, w, row, f), row.deletion_model \in {model, e.ws[w].deletion_model}
      PROVE  Kept(d, e)
  <2>1. \A v \in Workspaces : f.ws[v] = IF v = w THEN row ELSE e.ws[v]
    BY <1>0, <1>2 DEF OneRow
  <2>2. row.deletion_model = d.ws[w].deletion_model
    BY <2>1 DEF Kept
  <2>3. e.ws[w].deletion_model \in {d.ws[w].deletion_model, model}
    BY DEF Models
  <2>4. e.ws[w].deletion_model = d.ws[w].deletion_model
    BY <1>2, <2>2, <2>3
  <2> QED BY <2>1, <2>4 DEF Kept
<1>3. CASE DeleteStep(e, f, w, model, seq, now)
  BY <1>2, <1>3 DEF DeleteStep, RetainedRow
<1>4. CASE op = "restore" /\ RestoreStep(e, f, w, seq)
  <2>1. model = 1
    BY <1>4
  <2> QED BY <1>2, <1>4, <2>1 DEF RestoreStep, RestoredRow
<1>5. CASE PurgeStep(e, f, w, seq)
  <2>1. OneRow(e, w, PurgedRow(e.ws[w], seq), f)
    BY <1>5 DEF PurgeStep
  <2>2. PurgedRow(e.ws[w], seq).deletion_model = e.ws[w].deletion_model
    BY <1>0 DEF PurgedRow, WorkspaceRow
  <2> QED BY <1>2, <2>1, <2>2
<1> QED BY <1>1, <1>3, <1>4, <1>5 DEF RootStep

(* Without a move of the legacy model a lifecycle action touches no child,    *)
(* but for the purge; roots that count go on to do so, but for the purged.    *)
LEMMA KeptStep ==
    ASSUME NEW d \in Database, NEW e \in Database, NEW f, NEW w \in Workspaces, NEW op,
           NEW model \in {0, 1}, NEW seq, NEW now,
           RootStep(e, f, w, op, model, seq, now), Kept(d, e), Kept(d, f), Plain(e)
    PROVE  /\ SameChildren(e, f) \/ (op = "purge" /\ DroppedChildren(e, f, w))
           /\ CountedWorkspaces(f) \subseteq CountedWorkspaces(e)
           /\ \A v \in Workspaces : e.ws[v].is_deleted = Terminal => f.ws[v].is_deleted = Terminal
           /\ op = "purge" => f.ws[w].is_deleted = Terminal
<1>0. e.ws \in [Workspaces -> WorkspaceRow] /\ f.ws[w].deletion_model = e.ws[w].deletion_model
  BY DEF Database, Kept
<1>s. Active # Terminal /\ Retained # Terminal /\ Terminal \notin {Active, Retained}
  BY DEF Active, Retained, Terminal
<1>1. ASSUME NEW row, OneRow(e, w, row, f), e.ws[w].is_deleted \in {Active, Retained}
      PROVE  /\ CountedWorkspaces(f) \subseteq CountedWorkspaces(e)
             /\ \A v \in Workspaces : e.ws[v].is_deleted = Terminal => f.ws[v].is_deleted = Terminal
             /\ f.ws[w] = row
  <2>1. \A v \in Workspaces : f.ws[v] = IF v = w THEN row ELSE e.ws[v]
    BY <1>0, <1>1 DEF OneRow
  <2> QED BY <1>1, <1>s, <2>1 DEF CountedWorkspaces
<1>2. CASE f = e /\ (op = "purge" => e.ws[w].is_deleted = Terminal)
  BY <1>2 DEF SameChildren
<1>3. CASE op = "delete" /\ DeleteStep(e, f, w, model, seq, now)
  <2>1. e.ws[w].is_deleted = Active /\ OneRow(e, w, RetainedRow(model, seq, now), f)
    BY <1>3 DEF DeleteStep
  <2>2. f.ws[w].deletion_model = model
    BY <1>1, <2>1 DEF RetainedRow
  <2>3. e.ws[w].deletion_model = 1
    BY <2>1 DEF Plain
  <2>4. model = 1
    BY <1>0, <2>2, <2>3
  <2>5. SameChildren(e, f)
    BY <1>3, <2>4 DEF DeleteStep
  <2> QED BY <1>1, <1>3, <2>1, <2>5
<1>4. CASE op = "restore" /\ RestoreStep(e, f, w, seq)
  <2>1. e.ws[w].is_deleted = Retained /\ OneRow(e, w, RestoredRow(seq), f)
    BY <1>4 DEF RestoreStep
  <2>2. f.ws[w].deletion_model = 1
    BY <1>1, <2>1 DEF RestoredRow
  <2>3. SameChildren(e, f)
    BY <1>0, <1>4, <2>2 DEF RestoreStep
  <2> QED BY <1>1, <1>4, <2>1, <2>3
<1>5. CASE op = "purge" /\ PurgeStep(e, f, w, seq)
  <2>1. /\ e.ws[w].is_deleted = Retained /\ OneRow(e, w, PurgedRow(e.ws[w], seq), f)
        /\ DroppedChildren(e, f, w)
    BY <1>5 DEF PurgeStep
  <2>2. PurgedRow(e.ws[w], seq).is_deleted = Terminal
    BY <1>0 DEF PurgedRow, WorkspaceRow
  <2> QED BY <1>1, <1>5, <2>1, <2>2
<1> QED BY <1>2, <1>3, <1>4, <1>5 DEF RootStep

(* A step that leaves each child as it was, or drops it with its workspace.   *)
LEMMA LeftCounts ==
    ASSUME NEW e \in Database, NEW f \in Database, Remains(e, f), NEW h \in Nat
    PROVE  /\ CountedCollections(f) \subseteq CountedCollections(e)
           /\ CountedCollections(f) \cap FreshCollections(f, h) \subseteq FreshCollections(e, h)
           /\ CountedBookmarks(f) \subseteq CountedBookmarks(e)
           /\ CountedBookmarks(f) \cap FreshBookmarks(f, h) \subseteq FreshBookmarks(e, h)
           /\ CountedGroups(f) \subseteq CountedGroups(e)
           /\ CountedGroups(f) \cap FreshGroups(f, h) \subseteq FreshGroups(e, h)
<1>1. /\ NoCollection.is_deleted \notin {Active, Retained}
      /\ NoBookmark.is_trashed \notin {Active, Retained}
      /\ NoGroup.is_deleted \notin {Active, Retained}
  BY DEF NoCollection, NoBookmark, NoGroup, Absent, Active, Retained
<1>2. \A c \in CountedCollections(f) : f.col[c] = e.col[c]
  BY <1>1 DEF Remains, CountedCollections
<1>3. \A b \in CountedBookmarks(f) : f.bm[b] = e.bm[b]
  BY <1>1 DEF Remains, CountedBookmarks
<1>4. \A g \in CountedGroups(f) : f.grp[g] = e.grp[g]
  BY <1>1 DEF Remains, CountedGroups
<1>5. /\ CountedCollections(f) \subseteq CountedCollections(e)
      /\ CountedCollections(f) \cap FreshCollections(f, h) \subseteq FreshCollections(e, h)
  BY <1>2 DEF CountedCollections, FreshCollections
<1>6. /\ CountedBookmarks(f) \subseteq CountedBookmarks(e)
      /\ CountedBookmarks(f) \cap FreshBookmarks(f, h) \subseteq FreshBookmarks(e, h)
  BY <1>3 DEF CountedBookmarks, FreshBookmarks
<1>7. /\ CountedGroups(f) \subseteq CountedGroups(e)
      /\ CountedGroups(f) \cap FreshGroups(f, h) \subseteq FreshGroups(e, h)
  BY <1>4 DEF CountedGroups, FreshGroups
<1> QED BY <1>5, <1>6, <1>7

(* What remained still does, or went.                                         *)
LEMMA RemainsStep ==
    ASSUME NEW d, NEW e, NEW f, NEW w, Remains(d, e),
           SameChildren(e, f) \/ DroppedChildren(e, f, w)
    PROVE  Remains(d, f) /\ Remains(e, f)
<1>1. CASE SameChildren(e, f)
  BY <1>1 DEF SameChildren, Remains
<1>2. CASE DroppedChildren(e, f, w)
  BY <1>2 DEF DroppedChildren, Remains
<1> QED BY <1>1, <1>2

(* Nothing counts any more of what a purge gives back in the ledgers.         *)
LEMMA PurgeReleases ==
    ASSUME NEW d \in Database, NEW e \in Database, NEW f \in Database, NEW w \in Workspaces,
           Remains(d, f), PurgedEmpty(f), f.ws[w].is_deleted = Terminal,
           SameChildren(e, f) \/ DroppedChildren(e, f, w)
    PROVE  /\ CountedCollections(f) \cap CollectionsOf(d, w) = {}
           /\ CountedGroups(f) \cap GroupsOf(d, w) = {}
           /\ CountedBookmarks(f) \cap BookmarksOf(e, w) = {}
<1>1. /\ NoCollection.is_deleted \notin {Active, Retained}
      /\ NoBookmark.is_trashed \notin {Active, Retained}
      /\ NoGroup.is_deleted \notin {Active, Retained}
  BY DEF NoCollection, NoBookmark, NoGroup, Absent, Active, Retained
<1>2. CollectionsOf(f, w) = {} /\ GroupsOf(f, w) = {}
  BY DEF PurgedEmpty, NothingUnder
<1>3. ASSUME NEW c \in CountedCollections(f), c \in CollectionsOf(d, w) PROVE FALSE
  <2>1. f.col[c] = d.col[c]
    BY <1>1 DEF Remains, CountedCollections
  <2> QED BY <1>2, <1>3, <2>1 DEF CollectionsOf
<1>4. ASSUME NEW g \in CountedGroups(f), g \in GroupsOf(d, w) PROVE FALSE
  <2>1. f.grp[g] = d.grp[g]
    BY <1>1 DEF Remains, CountedGroups
  <2> QED BY <1>2, <1>4, <2>1 DEF GroupsOf
<1>5. ASSUME NEW b \in CountedBookmarks(f), b \in BookmarksOf(e, w) PROVE FALSE
  <2>1. CASE SameChildren(e, f)
    <3>1. CollectionsOf(e, w) = {}
      BY <1>2, <2>1 DEF SameChildren, CollectionsOf
    <3> QED BY <1>5, <3>1 DEF BookmarksOf
  <2>2. CASE DroppedChildren(e, f, w)
    <3>1. f.bm[b] = NoBookmark
      BY <1>5, <2>2 DEF DroppedChildren, CountedBookmarks
    <3> QED BY <1>1, <1>5, <3>1 DEF CountedBookmarks
  <2> QED BY <2>1, <2>2
<1> QED BY <1>3, <1>4, <1>5

(* The ledger of the workspaces: those that count are among the retained, and *)
(* so are those that wait or were decided on, unless they were purged since.  *)
Housed(d, p) ==
    /\ Fits(p.wsQuota, MaxWorkspaces, CountedWorkspaces(d))
    /\ \A w \in Workspaces :
          w \in CountedWorkspaces(p.db) \cup p.wsQuota.seen \cup Ids(p.upserts) =>
              w \in p.wsQuota.retained \/ p.db.ws[w].is_deleted = Terminal

(* The ledgers of the children, whose turn is yet to come.                    *)
CollectionsReady(x, p) ==
    Ready(p.colQuota, MaxCollections, CountedCollections(x.before),
          CountedCollections(p.db), FreshCollections(p.db, x.horizon))
BookmarksReady(x, p) ==
    Ready(p.bmQuota, MaxBookmarks, CountedBookmarks(x.before),
          CountedBookmarks(p.db), FreshBookmarks(p.db, x.horizon))
GroupsReady(x, p) ==
    Ready(p.grpQuota, MaxSavedGroups, CountedGroups(x.before),
          CountedGroups(p.db), FreshGroups(p.db, x.horizon))

Stocked(x, p) == CollectionsReady(x, p) /\ BookmarksReady(x, p) /\ GroupsReady(x, p)

Balanced(x, p) ==
    /\ Sound(p.db)
    /\ Kept(x.before, p.db) => Remains(x.before, p.db) /\ Housed(x.before, p) /\ Stocked(x, p)

(* A lifecycle action of either version, with what it gives back.             *)
Applies(p, q, id, op, model, d, seq, now) ==
    /\ Rejection(p.db, id, op, model) = ""
    /\ q.db = Applied(p.db, id, op, model, seq, now)
    /\ q.upserts = p.upserts
    /\ op # "purge" => SameLedgers(p, q)
    /\ op = "purge" =>
          /\ q.wsQuota = ReleaseApplied(p.wsQuota, {id})
          /\ q.colQuota = ReleaseApplied(p.colQuota, CollectionsOf(d, id))
          /\ q.bmQuota = ReleaseApplied(p.bmQuota, Effect(p.db, id, op, model).deletes)
          /\ q.grpQuota = ReleaseApplied(p.grpQuota, GroupsOf(d, id))

(* A purge removes documents of the workspace alone.                          *)
LEMMA PurgeDeletes ==
    ASSUME NEW e, NEW w, NEW model
    PROVE  Effect(e, w, "purge", model).deletes \subseteq BookmarksOf(e, w)
<1>1. Effect(e, w, "purge", model) \in {NoEffect, [NoEffect EXCEPT !.deletes = BookmarksOf(e, w)]}
  BY DEF Effect
<1>2. /\ NoEffect.deletes = {}
      /\ [NoEffect EXCEPT !.deletes = BookmarksOf(e, w)].deletes = BookmarksOf(e, w)
  BY DEF NoEffect
<1> QED BY <1>1, <1>2

(* The children's ledgers after it.                                           *)
LEMMA AppliesStocked ==
    ASSUME NEW x \in Context, NEW I, NEW p \in Held(I), NEW q \in Held(I), NEW id \in Workspaces,
           NEW op, NEW model, NEW seq, NEW now, Applies(p, q, id, op, model, x.before, seq, now),
           SameChildren(p.db, q.db) \/ (op = "purge" /\ DroppedChildren(p.db, q.db, id)),
           op = "purge" => q.db.ws[id].is_deleted = Terminal,
           Remains(x.before, p.db), PurgedEmpty(q.db), Stocked(x, p)
    PROVE  Remains(x.before, q.db) /\ Stocked(x, q)
<1> DEFINE d == x.before
           e == p.db
           f == q.db
           h == x.horizon
<1>0. /\ d \in Database /\ h \in Nat /\ e \in Database /\ f \in Database
      /\ p.colQuota \in Ledger(Collections) /\ p.bmQuota \in Ledger(Bookmarks)
      /\ p.grpQuota \in Ledger(Groups)
  BY HeldFields DEF Context, Known
<1>1. /\ IsFiniteSet(Collections) /\ IsFiniteSet(Bookmarks) /\ IsFiniteSet(Groups)
      /\ CountedCollections(d) \in SUBSET Collections
      /\ CountedBookmarks(d) \in SUBSET Bookmarks
      /\ CountedGroups(d) \in SUBSET Groups
  BY TableAssumption DEF CountedCollections, CountedBookmarks, CountedGroups
<1>2. Remains(d, f) /\ Remains(e, f)
  BY RemainsStep
<1>3. /\ CountedCollections(f) \subseteq CountedCollections(e)
      /\ CountedCollections(f) \cap FreshCollections(f, h) \subseteq FreshCollections(e, h)
      /\ CountedBookmarks(f) \subseteq CountedBookmarks(e)
      /\ CountedBookmarks(f) \cap FreshBookmarks(f, h) \subseteq FreshBookmarks(e, h)
      /\ CountedGroups(f) \subseteq CountedGroups(e)
      /\ CountedGroups(f) \cap FreshGroups(f, h) \subseteq FreshGroups(e, h)
  BY <1>0, <1>2, LeftCounts
<1>4. ASSUME op = "purge"
      PROVE  /\ CountedCollections(f) \cap CollectionsOf(d, id) = {}
             /\ CountedGroups(f) \cap GroupsOf(d, id) = {}
             /\ CountedBookmarks(f) \cap Effect(e, id, op, model).deletes = {}
  <2>1. /\ CountedCollections(f) \cap CollectionsOf(d, id) = {}
        /\ CountedGroups(f) \cap GroupsOf(d, id) = {}
        /\ CountedBookmarks(f) \cap BookmarksOf(e, id) = {}
    BY <1>0, <1>2, <1>4, PurgeReleases
  <2>2. Effect(e, id, op, model).deletes \subseteq BookmarksOf(e, id)
    BY <1>4, PurgeDeletes
  <2> QED BY <2>1, <2>2
<1> HIDE DEF d, e, f, h
<1>5. CollectionsReady(x, q)
  <2> DEFINE quota == p.colQuota
             live == CountedCollections(e)
             fresh == FreshCollections(e, h)
             left == CountedCollections(f)
             later == FreshCollections(f, h)
             before == CountedCollections(d)
             T == CollectionsOf(d, id)
  <2>1. quota \in Ledger(Collections) /\ Ready(quota, MaxCollections, before, live, fresh)
    BY <1>0 DEF Stocked, CollectionsReady, d, e, h
  <2>2. q.colQuota = quota \/ (left \cap T = {} /\ q.colQuota = ReleaseApplied(quota, T))
    BY <1>4 DEF Applies, SameLedgers, d
  <2>3. before \in SUBSET Collections /\ left \subseteq live /\ left \cap later \subseteq fresh
    BY <1>1, <1>3
  <2> HIDE DEF quota, live, fresh, left, later, before, T
  <2>4. /\ Ready(quota, MaxCollections, before, left, later)
        /\ left \cap T = {} => Ready(ReleaseApplied(quota, T), MaxCollections, before, left, later)
    BY <1>1, <2>1, <2>3, ReadyShrinks
  <2>5. Ready(q.colQuota, MaxCollections, before, left, later)
    BY <2>2, <2>4
  <2> QED BY <2>5 DEF CollectionsReady, before, left, later, d, f, h
<1>6. BookmarksReady(x, q)
  <2> DEFINE quota == p.bmQuota
             live == CountedBookmarks(e)
             fresh == FreshBookmarks(e, h)
             left == CountedBookmarks(f)
             later == FreshBookmarks(f, h)
             before == CountedBookmarks(d)
             T == Effect(e, id, op, model).deletes
  <2>1. quota \in Ledger(Bookmarks) /\ Ready(quota, MaxBookmarks, before, live, fresh)
    BY <1>0 DEF Stocked, BookmarksReady, d, e, h
  <2>2. q.bmQuota = quota \/ (left \cap T = {} /\ q.bmQuota = ReleaseApplied(quota, T))
    BY <1>4 DEF Applies, SameLedgers, e
  <2>3. before \in SUBSET Bookmarks /\ left \subseteq live /\ left \cap later \subseteq fresh
    BY <1>1, <1>3
  <2> HIDE DEF quota, live, fresh, left, later, before, T
  <2>4. /\ Ready(quota, MaxBookmarks, before, left, later)
        /\ left \cap T = {} => Ready(ReleaseApplied(quota, T), MaxBookmarks, before, left, later)
    BY <1>1, <2>1, <2>3, ReadyShrinks
  <2>5. Ready(q.bmQuota, MaxBookmarks, before, left, later)
    BY <2>2, <2>4
  <2> QED BY <2>5 DEF BookmarksReady, before, left, later, d, f, h
<1>7. GroupsReady(x, q)
  <2> DEFINE quota == p.grpQuota
             live == CountedGroups(e)
             fresh == FreshGroups(e, h)
             left == CountedGroups(f)
             later == FreshGroups(f, h)
             before == CountedGroups(d)
             T == GroupsOf(d, id)
  <2>1. quota \in Ledger(Groups) /\ Ready(quota, MaxSavedGroups, before, live, fresh)
    BY <1>0 DEF Stocked, GroupsReady, d, e, h
  <2>2. q.grpQuota = quota \/ (left \cap T = {} /\ q.grpQuota = ReleaseApplied(quota, T))
    BY <1>4 DEF Applies, SameLedgers, d
  <2>3. before \in SUBSET Groups /\ left \subseteq live /\ left \cap later \subseteq fresh
    BY <1>1, <1>3
  <2> HIDE DEF quota, live, fresh, left, later, before, T
  <2>4. /\ Ready(quota, MaxSavedGroups, before, left, later)
        /\ left \cap T = {} => Ready(ReleaseApplied(quota, T), MaxSavedGroups, before, left, later)
    BY <1>1, <2>1, <2>3, ReadyShrinks
  <2>5. Ready(q.grpQuota, MaxSavedGroups, before, left, later)
    BY <2>2, <2>4
  <2> QED BY <2>5 DEF GroupsReady, before, left, later, d, f, h
<1> QED BY <1>2, <1>5, <1>6, <1>7 DEF Stocked, d, f

(* Ledgers and children that are left as they are stay balanced.              *)
LEMMA StockedStays ==
    ASSUME NEW x, NEW p, NEW q, SameChildren(p.db, q.db), SameLedgers(p, q), Stocked(x, p)
    PROVE  Stocked(x, q)
<1>1. /\ CountedCollections(q.db) = CountedCollections(p.db)
      /\ FreshCollections(q.db, x.horizon) = FreshCollections(p.db, x.horizon)
  BY DEF SameChildren, CountedCollections, FreshCollections
<1>2. /\ CountedBookmarks(q.db) = CountedBookmarks(p.db)
      /\ FreshBookmarks(q.db, x.horizon) = FreshBookmarks(p.db, x.horizon)
  BY DEF SameChildren, CountedBookmarks, FreshBookmarks
<1>3. /\ CountedGroups(q.db) = CountedGroups(p.db)
      /\ FreshGroups(q.db, x.horizon) = FreshGroups(p.db, x.horizon)
  BY DEF SameChildren, CountedGroups, FreshGroups
<1>4. q.colQuota = p.colQuota /\ q.bmQuota = p.bmQuota /\ q.grpQuota = p.grpQuota
  BY DEF SameLedgers
<1> QED BY <1>1, <1>2, <1>3, <1>4 DEF Stocked, CollectionsReady, BookmarksReady, GroupsReady

(* To turn an entity away changes no ledger.                                  *)
LEMMA AwayBalanced ==
    ASSUME NEW x, NEW p, NEW q, q.db = p.db, q.upserts = p.upserts, SameLedgers(p, q), Balanced(x, p)
    PROVE  Balanced(x, q)
<1>1. Stocked(x, p) => Stocked(x, q)
  BY StockedStays DEF SameChildren
<1>2. Housed(x.before, p) => Housed(x.before, q)
  BY DEF Housed, SameLedgers
<1> QED BY <1>1, <1>2 DEF Balanced

(* A lifecycle action keeps the balance: what a purge gives back has gone.    *)
LEMMA AppliesBalanced ==
    ASSUME NEW x \in Context, NEW I, NEW p \in Held(I), NEW q \in Held(I), NEW id \in Workspaces,
           NEW op \in LifecycleActions, NEW model \in {0, 1}, model = 0 => op = "delete",
           Models(x.before, p.db, model), Applies(p, q, id, op, model, x.before, x.seq, x.now),
           Balanced(x, p)
    PROVE  Balanced(x, q)
<1> DEFINE d == x.before
           e == p.db
           f == q.db
<1>0. /\ d \in Database /\ e \in Database /\ f \in Database /\ x.seq \in Nat /\ x.now \in Nat
      /\ p.wsQuota \in Ledger(Workspaces)
      /\ f = Applied(e, id, op, model, x.seq, x.now) /\ Rejection(e, id, op, model) = ""
  BY HeldFields DEF Context, Known, Applies
<1>1. Sound(e) /\ Sound(f)
  BY <1>0, AppliedSound DEF Balanced
<1>2. RootStep(e, f, id, op, model, x.seq, x.now)
  BY <1>0, AppliedRoot
<1> SUFFICES ASSUME Kept(d, f) PROVE Remains(d, f) /\ Housed(d, q) /\ Stocked(x, q)
  BY <1>1 DEF Balanced
<1>3. Kept(d, e)
  BY <1>0, <1>2, KeptBack
<1>4. Remains(d, e) /\ Housed(d, p) /\ Stocked(x, p)
  BY <1>3 DEF Balanced
<1>5. /\ SameChildren(e, f) \/ (op = "purge" /\ DroppedChildren(e, f, id))
      /\ CountedWorkspaces(f) \subseteq CountedWorkspaces(e)
      /\ \A v \in Workspaces : e.ws[v].is_deleted = Terminal => f.ws[v].is_deleted = Terminal
      /\ op = "purge" => f.ws[id].is_deleted = Terminal
  <2>1. Plain(e)
    BY <1>1 DEF Sound
  <2>2. Kept(d, f)
    OBVIOUS
  <2> DEFINE seq == x.seq
             now == x.now
  <2>3. RootStep(e, f, id, op, model, seq, now)
    BY <1>2
  <2>4. d \in Database /\ e \in Database
    BY <1>0
  <2> HIDE DEF d, e, f, seq, now
  <2> QED BY <1>3, <2>1, <2>2, <2>3, <2>4, KeptStep
<1>6. Remains(d, f) /\ Stocked(x, q)
  <2>1. PurgedEmpty(f)
    BY <1>1 DEF Sound
  <2> QED BY <1>4, <1>5, <2>1, AppliesStocked
<1>7. Housed(d, q)
  <2> DEFINE quota == p.wsQuota
             other == q.wsQuota
             before == CountedWorkspaces(d)
  <2>1. other = quota \/ (op = "purge" /\ other = ReleaseApplied(quota, {id}))
    BY DEF Applies, SameLedgers
  <2>2. Fits(quota, MaxWorkspaces, before)
    BY <1>4 DEF Housed
  <2>3. before \in SUBSET Workspaces
    BY DEF CountedWorkspaces
  <2>4. q.upserts = p.upserts
    BY DEF Applies
  <2>5. \A w \in Workspaces :
           w \in CountedWorkspaces(e) \cup quota.seen \cup Ids(p.upserts) =>
               w \in quota.retained \/ e.ws[w].is_deleted = Terminal
    BY <1>4 DEF Housed
  <2>6. /\ ReleaseApplied(quota, {id}).retained = quota.retained \ {id}
        /\ ReleaseApplied(quota, {id}).seen = quota.seen
    BY <1>0 DEF ReleaseApplied, Ledger
  <2>7. other.seen = quota.seen
    BY <2>1, <2>6
  <2>8. \A w \in Workspaces :
           w \in quota.retained => w \in other.retained \/ f.ws[w].is_deleted = Terminal
    BY <1>5, <2>1, <2>6
  <2> HIDE DEF quota, other, before, d, e, f
  <2>9. Fits(other, MaxWorkspaces, before)
    <3>1. Fits(ReleaseApplied(quota, {id}), MaxWorkspaces, before)
      BY <1>0, <2>2, <2>3, TableAssumption, LedgerFits DEF quota
    <3> QED BY <2>1, <2>2, <3>1
  <2>10. \A w \in Workspaces :
           w \in CountedWorkspaces(f) \cup other.seen \cup Ids(q.upserts) =>
               w \in other.retained \/ f.ws[w].is_deleted = Terminal
    BY <1>5, <2>4, <2>5, <2>7, <2>8
  <2> QED BY <2>9, <2>10 DEF Housed, other, before, f
<1> QED BY <1>6, <1>7

(* Metadata that the ledger admits.                                           *)
LEMMA QueuesBalanced ==
    ASSUME NEW x \in Context, NEW I, NEW p \in Held(I), NEW q, NEW item, item.id \in Workspaces,
           QueuesWorkspace(p, q, item), Balanced(x, p)
    PROVE  Balanced(x, q)
<1> DEFINE d == x.before
           id == item.id
           quota == p.wsQuota
           other == q.wsQuota
           before == CountedWorkspaces(d)
<1>0. /\ quota \in Ledger(Workspaces) /\ p.upserts \in Seq(I) /\ q.db = p.db
      /\ Admitted(quota, id, FALSE) /\ other = Admit(quota, id, FALSE)
      /\ q.upserts = Append(p.upserts, item)
      /\ q.colQuota = p.colQuota /\ q.bmQuota = p.bmQuota /\ q.grpQuota = p.grpQuota
  BY HeldFields DEF QueuesWorkspace, Waits
<1>1. Stocked(x, p) => Stocked(x, q)
  BY <1>0 DEF Stocked, CollectionsReady, BookmarksReady, GroupsReady
<1>2. ASSUME Housed(d, p) PROVE Housed(d, q)
  <2>1. Fits(quota, MaxWorkspaces, before)
    BY <1>2 DEF Housed
  <2>2. before \in SUBSET Workspaces
    BY DEF CountedWorkspaces
  <2>3. Ids(q.upserts) = Ids(p.upserts) \cup {id}
    BY <1>0, AppendIds
  <2>4. \A w \in Workspaces :
           w \in CountedWorkspaces(p.db) \cup quota.seen \cup Ids(p.upserts) =>
               w \in quota.retained \/ p.db.ws[w].is_deleted = Terminal
    BY <1>2 DEF Housed
  <2>5. \/ id \in quota.seen /\ other = quota
        \/ other.seen = quota.seen \cup {id} /\ other.retained = quota.retained \cup {id}
    BY <1>0 DEF Admit, Ledger
  <2> HIDE DEF quota, other, before
  <2>6. Fits(other, MaxWorkspaces, before)
    BY <1>0, <2>1, <2>2, TableAssumption, LedgerFits
  <2>7. \A w \in Workspaces :
           w \in CountedWorkspaces(q.db) \cup other.seen \cup Ids(q.upserts) =>
               w \in other.retained \/ q.db.ws[w].is_deleted = Terminal
    BY <1>0, <2>3, <2>4, <2>5
  <2> QED BY <2>6, <2>7 DEF Housed, other, before
<1> QED BY <1>0, <1>1, <1>2 DEF Balanced

(* A turn of each loop that sorts the workspaces out.                         *)
LEMMA SortingBalanced ==
    ASSUME NEW x \in Context, NEW p \in Sorting(x), Balanced(x, p), NEW item \in WorkspaceItem
    PROVE  /\ x.version = 0 => Balanced(x, Turn("legacy deletes", p, item, x))
           /\ Balanced(x, Turn("legacy metadata", p, item, x))
           /\ x.version = 2 => Balanced(x, Turn("workspaces", p, item, x))
<1> DEFINE I == LiveItem(x)
<1>0. /\ p \in Held(I) /\ Models(x.before, p.db, ModelOf(x)) /\ item.id \in Workspaces
      /\ item.op \in {"metadata", "delete", "restore", "purge"}
  BY DEF Sorting, WorkspaceItem
<1>1. ASSUME NEW q, TurnedAway(p, q, "workspace", item.id) PROVE Balanced(x, q)
  BY <1>1, AwayBalanced DEF TurnedAway
<1>2. ASSUME NEW q, QueuesWorkspace(p, q, item) PROVE Balanced(x, q)
  BY <1>0, <1>2, QueuesBalanced
<1>3. ASSUME x.version = 0 PROVE Balanced(x, Turn("legacy deletes", p, item, x))
  <2>1. CASE item.op = "delete"
    <3> DEFINE q == LegacyDeleteItem(p, item.id, x.metadata, x.seq, x.now)
    <3>1. Turn("legacy deletes", p, item, x) = q
      BY <2>1 DEF Turn
    <3>2. TurnedAway(p, q, "workspace", item.id) \/ DeletesLegacy(p, q, item.id, x.seq, x.now)
      BY <1>0, LegacyDeleteAnswers
    <3>3. q \in Held(I)
      <4>1. Turn("legacy deletes", p, item, x) \in Sorting(x)
        BY <1>3, SortingTurns
      <4> QED BY <3>1, <4>1 DEF Sorting
    <3> HIDE DEF q
    <3>4. ASSUME DeletesLegacy(p, q, item.id, x.seq, x.now) PROVE Balanced(x, q)
      <4>1. Applies(p, q, item.id, "delete", 0, x.before, x.seq, x.now)
        BY <3>4 DEF DeletesLegacy, Applies, Answered
      <4>2. Models(x.before, p.db, 0)
        BY <1>0, <1>3 DEF ModelOf
      <4>3. "delete" \in LifecycleActions
        BY DEF LifecycleActions
      <4> QED BY <1>0, <3>3, <4>1, <4>2, <4>3, AppliesBalanced
    <3> QED BY <1>1, <3>1, <3>2, <3>4
  <2>2. CASE item.op # "delete"
    BY <2>2 DEF Turn
  <2> QED BY <2>1, <2>2
<1>4. Balanced(x, Turn("legacy metadata", p, item, x))
  <2>1. CASE item.op # "delete"
    <3> DEFINE q == LegacyMetadataItem(p, item, x.before)
    <3>1. Turn("legacy metadata", p, item, x) = q
      BY <2>1 DEF Turn
    <3>2. TurnedAway(p, q, "workspace", item.id) \/ QueuesWorkspace(p, q, item)
      BY <1>0, LegacyMetadataAnswers
    <3> HIDE DEF q
    <3> QED BY <1>1, <1>2, <3>1, <3>2
  <2>2. CASE item.op = "delete"
    BY <2>2 DEF Turn
  <2> QED BY <2>1, <2>2
<1>5. ASSUME x.version = 2 PROVE Balanced(x, Turn("workspaces", p, item, x))
  <2>1. CASE item.op = "metadata"
    <3> DEFINE q == MetadataItem(p, item)
    <3>1. Turn("workspaces", p, item, x) = q
      BY <2>1 DEF Turn
    <3>2. TurnedAway(p, q, "workspace", item.id) \/ QueuesWorkspace(p, q, item)
      BY <1>0, MetadataAnswers
    <3> HIDE DEF q
    <3> QED BY <1>1, <1>2, <3>1, <3>2
  <2>2. CASE item.op # "metadata"
    <3> DEFINE q == LifecycleItem(p, item.id, item.op, x.before, x.seq, x.now)
    <3>1. Turn("workspaces", p, item, x) = q
      BY <2>2 DEF Turn
    <3>2. TurnedAway(p, q, "workspace", item.id)
          \/ Moves(p, q, item.id, item.op, x.before, x.seq, x.now)
      BY <1>0, LifecycleAnswers
    <3>3. q \in Held(I)
      <4>1. Turn("workspaces", p, item, x) \in Sorting(x)
        BY <1>5, SortingTurns
      <4> QED BY <3>1, <4>1 DEF Sorting
    <3> HIDE DEF q
    <3>4. ASSUME Moves(p, q, item.id, item.op, x.before, x.seq, x.now) PROVE Balanced(x, q)
      <4>1. Applies(p, q, item.id, item.op, 1, x.before, x.seq, x.now)
        BY <3>4 DEF Moves, Applies, Answered
      <4>2. Models(x.before, p.db, 1)
        BY <1>0, <1>5 DEF ModelOf
      <4>3. item.op \in LifecycleActions
        BY <1>0, <2>2 DEF LifecycleActions
      <4> QED BY <1>0, <3>3, <4>1, <4>2, <4>3, AppliesBalanced
    <3> QED BY <1>1, <3>1, <3>2, <3>4
  <2> QED BY <2>1, <2>2
<1> QED BY <1>3, <1>4, <1>5

(* A row of the workspace batch: a new workspace has its place already.       *)
LEMMA StoringBalanced ==
    ASSUME NEW x \in Context, NEW p \in Storing(x), Balanced(x, p), NEW item \in LiveItem(x),
           item.id \in Ids(p.upserts)
    PROVE  LET q == Turn("workspace upserts", p, item, x) IN
           q \in Storing(x) /\ Balanced(x, q) /\ q.upserts = p.upserts
<1> DEFINE I == LiveItem(x)
           d == x.before
           id == item.id
           q == UpsertWorkspace(p, item, x.horizon, x.seq)
<1>0. /\ p \in Held(I) /\ p.db \in Database /\ x.horizon \in Nat /\ x.seq \in Nat
      /\ item \in WorkspaceItem /\ id \in Workspaces
  BY HeldFields DEF Storing, Context, Known, LiveItem, WorkspaceItem
<1>1. Turn("workspace upserts", p, item, x) = q
  BY DEF Turn
<1>2. q \in Storing(x)
  BY <1>1, StoringTurn
<1>3. Refuses(I, p, q) \/ StoresWorkspace(p, q, id, x.horizon, x.seq)
  BY <1>0, UpsertWorkspaceTurn
<1>4. q.upserts = p.upserts /\ SameLedgers(p, q)
  BY <1>0, UpsertWorkspaceAnswers DEF TurnedAway, Answered
<1> HIDE DEF q
<1>5. CASE Refuses(I, p, q)
  <2>1. q.db = p.db
    BY <1>5 DEF Refuses, Refused
  <2>2. Balanced(x, q)
    BY <1>4, <2>1, AwayBalanced
  <2> QED BY <1>1, <1>2, <1>4, <2>2
<1>6. CASE StoresWorkspace(p, q, id, x.horizon, x.seq)
  <2> DEFINE row == p.db.ws[id]
             new == StoredWorkspace(row, x.seq)
  <2>1. row \in WorkspaceRow /\ p.db.ws \in [Workspaces -> WorkspaceRow]
    BY <1>0 DEF Database
  <2>2. OneRow(p.db, id, new, q.db) /\ SameChildren(p.db, q.db)
    BY <1>6 DEF StoresWorkspace
  <2>3. \/ row.is_deleted = Absent /\ new.is_deleted = Active /\ new.deletion_model = 1
        \/ new.is_deleted = row.is_deleted /\ new.deletion_model = row.deletion_model
    <3> HIDE DEF row
    <3> QED BY <2>1 DEF StoredWorkspace, WorkspaceRow
  <2>4. \A w \in Workspaces : q.db.ws[w] = IF w = id THEN new ELSE p.db.ws[w]
    BY <2>1, <2>2 DEF OneRow
  <2>5. Plain(p.db) /\ PurgedEmpty(p.db)
    BY DEF Balanced, Sound
  <2>6. row.is_deleted = Absent => row.deletion_model = 1
    BY <1>0, <2>5 DEF Plain
  <2>7. Terminal # Active /\ Terminal # Absent
    BY DEF Terminal, Active, Absent
  <2>8. \A w \in Workspaces : q.db.ws[w].deletion_model = p.db.ws[w].deletion_model
    BY <2>3, <2>4, <2>6
  <2>9. \A w \in Workspaces : q.db.ws[w].is_deleted = p.db.ws[w].is_deleted
                              \/ (w = id /\ p.db.ws[w].is_deleted = Absent /\ q.db.ws[w].is_deleted = Active)
    BY <2>3, <2>4
  <2> HIDE DEF row, new
  <2>10. Plain(q.db)
    BY <2>5, <2>8, <2>9 DEF Plain
  <2>11. PurgedEmpty(q.db)
    BY <2>2, <2>5, <2>7, <2>9 DEF PurgedEmpty, NothingUnder, CollectionsOf, GroupsOf, SameChildren
  <2>12. Kept(d, q.db) => Kept(d, p.db)
    BY <2>8 DEF Kept
  <2>13. Remains(d, p.db) => Remains(d, q.db)
    BY <2>2 DEF Remains, SameChildren
  <2>14. Stocked(x, p) => Stocked(x, q)
    BY <1>4, <2>2, StockedStays
  <2>15. Housed(d, p) => Housed(d, q)
    <3>1. CountedWorkspaces(q.db) \subseteq CountedWorkspaces(p.db) \cup {id}
      BY <2>9 DEF CountedWorkspaces
    <3>2. \A w \in Workspaces : p.db.ws[w].is_deleted = Terminal => q.db.ws[w].is_deleted = Terminal
      BY <2>7, <2>9
    <3> QED BY <1>4, <3>1, <3>2 DEF Housed, SameLedgers
  <2>16. Balanced(x, q)
    BY <2>10, <2>11, <2>12, <2>13, <2>14, <2>15 DEF Balanced, Sound
  <2> QED BY <1>1, <1>2, <1>4, <2>16
<1> QED BY <1>3, <1>5, <1>6

(* A new ledger counts the rows of its table, and nothing has been decided.   *)
LEMMA NewLedger ==
    ASSUME NEW limit \in Nat \cup {Unlimited}, NEW live, IsFiniteSet(live),
           NEW fresh, NEW young, young = live \cap fresh
    PROVE  Ready(NewRetainedQuota(limit, live, young), limit, live, live, fresh)
<1> DEFINE quota == NewRetainedQuota(limit, live, young)
<1>1. /\ quota.limit = limit /\ quota.retained = live
      /\ quota.young = young /\ quota.seen = {}
  BY DEF NewRetainedQuota
<1>2. Within(limit, live, live)
  <2>1. PICK K \in Nat :
           /\ limit # Unlimited => limit <= K /\ Cardinality(live) <= K
           /\ \A S : Within(limit, live, S) <=> (limit # Unlimited => Cardinality(S) <= K)
    BY WithinMeans
  <2> QED BY <2>1
<1> HIDE DEF quota
<1> QED BY <1>1, <1>2 DEF Ready, Fits, quota

(* The ledgers are in balance when the push begins.                           *)
LEMMA StartBalanced ==
    ASSUME NEW x \in Context, Sound(x.before)
    PROVE  Balanced(x, Start(x.before, x.horizon))
<1> DEFINE d == x.before
           h == x.horizon
           p == Start(d, h)
           W == CountedWorkspaces(d)
           C == CountedCollections(d)
           B == CountedBookmarks(d)
           G == CountedGroups(d)
           q1 == NewRetainedQuota(MaxWorkspaces, W, {y \in W : d.ws[y].seq > h})
           q2 == NewRetainedQuota(MaxCollections, C, {y \in C : d.col[y].seq > h})
           q3 == NewRetainedQuota(MaxBookmarks, B, {y \in B : d.bm[y].seq > h})
           q4 == NewRetainedQuota(MaxSavedGroups, G, {y \in G : d.grp[y].seq > h})
<1>1. /\ p.db = d /\ p.upserts = <<>>
      /\ p.wsQuota = q1 /\ p.colQuota = q2 /\ p.bmQuota = q3 /\ p.grpQuota = q4
  BY DEF Start, CountedWorkspaces, CountedCollections, CountedBookmarks, CountedGroups
<1>2. /\ W \in SUBSET Workspaces /\ C \in SUBSET Collections
      /\ B \in SUBSET Bookmarks /\ G \in SUBSET Groups
  BY DEF CountedWorkspaces, CountedCollections, CountedBookmarks, CountedGroups
<1>3. IsFiniteSet(W) /\ IsFiniteSet(C) /\ IsFiniteSet(B) /\ IsFiniteSet(G)
  <2> HIDE DEF W, C, B, G
  <2> QED BY <1>2, TableAssumption, FS_Subset
<1>4. /\ MaxWorkspaces \in Nat \cup {Unlimited} /\ MaxCollections \in Nat \cup {Unlimited}
      /\ MaxBookmarks \in Nat \cup {Unlimited} /\ MaxSavedGroups \in Nat \cup {Unlimited}
  BY PlanAssumption
<1>5. /\ {y \in W : d.ws[y].seq > h} = W \cap {y \in Workspaces : d.ws[y].seq > h}
      /\ {y \in C : d.col[y].seq > h} = C \cap FreshCollections(d, h)
      /\ {y \in B : d.bm[y].seq > h} = B \cap FreshBookmarks(d, h)
      /\ {y \in G : d.grp[y].seq > h} = G \cap FreshGroups(d, h)
  BY <1>2 DEF FreshCollections, FreshBookmarks, FreshGroups
<1> HIDE DEF p, W, C, B, G
<1>6. /\ Ready(q1, MaxWorkspaces, W, W, {y \in Workspaces : d.ws[y].seq > h})
      /\ q1.retained = W /\ q1.seen = {}
  <2> DEFINE F == {y \in Workspaces : d.ws[y].seq > h}
             Y == {y \in W : d.ws[y].seq > h}
  <2>1. Y = W \cap F
    BY <1>5
  <2>2. q1 = NewRetainedQuota(MaxWorkspaces, W, Y)
    OBVIOUS
  <2> HIDE DEF F, Y, q1
  <2>3. Ready(q1, MaxWorkspaces, W, W, F) /\ q1.retained = W /\ q1.seen = {}
    <3>1. IsFiniteSet(W) /\ MaxWorkspaces \in Nat \cup {Unlimited}
      BY <1>3, <1>4
    <3>2. Ready(NewRetainedQuota(MaxWorkspaces, W, Y), MaxWorkspaces, W, W, F)
      BY <2>1, <3>1, NewLedger
    <3>3. /\ NewRetainedQuota(MaxWorkspaces, W, Y).retained = W
          /\ NewRetainedQuota(MaxWorkspaces, W, Y).seen = {}
      BY DEF NewRetainedQuota
    <3> QED BY <2>2, <3>2, <3>3
  <2> QED BY <2>3 DEF F
<1>7. Ready(q2, MaxCollections, C, C, FreshCollections(d, h))
  BY <1>3, <1>4, <1>5, NewLedger
<1>8. Ready(q3, MaxBookmarks, B, B, FreshBookmarks(d, h))
  BY <1>3, <1>4, <1>5, NewLedger
<1>9. Ready(q4, MaxSavedGroups, G, G, FreshGroups(d, h))
  BY <1>3, <1>4, <1>5, NewLedger
<1> HIDE DEF q1, q2, q3, q4
<1>10. Stocked(x, p)
  BY <1>1, <1>7, <1>8, <1>9
  DEF Stocked, CollectionsReady, BookmarksReady, GroupsReady, C, B, G
<1>11. Housed(d, p)
  <2>1. Ids(p.upserts) = {}
    BY <1>1 DEF Ids
  <2>2. Fits(q1, MaxWorkspaces, W)
    BY <1>6 DEF Ready
  <2> QED BY <1>1, <1>6, <2>1, <2>2 DEF Housed, W
<1>12. Remains(d, p.db)
  BY <1>1 DEF Remains
<1> QED BY <1>1, <1>10, <1>11, <1>12 DEF Balanced, p

(* What holds once the workspaces are done.                                   *)
Settled(x, q) ==
    /\ Sound(q.db)
    /\ Kept(x.before, q.db) =>
          /\ Within(MaxWorkspaces, CountedWorkspaces(x.before), CountedWorkspaces(q.db))
          /\ Remains(x.before, q.db)
          /\ Stocked(x, q)

(* The batch of the workspaces: what counts at its end is retained.           *)
LEMMA BatchSettles ==
    ASSUME NEW x \in Context, NEW p \in Storing(x), Balanced(x, p)
    PROVE  LET q == Batch("workspace upserts", p, x) IN
           Settled(x, q)
<1> DEFINE I == LiveItem(x)
           list == p.upserts
           T == {q \in Storing(x) : Balanced(x, q) /\ q.upserts = list}
           S == [n \in 0..Len(list) |-> T]
           r == Each("workspace upserts", p, list, x)
           q == [r EXCEPT !.upserts = <<>>]
           d == x.before
<1>0. p \in Held(I) /\ list \in Seq(I)
  BY HeldFields DEF Storing
<1>1. /\ Len(list) \in Nat /\ DOMAIN list = 1..Len(list)
      /\ \A n \in 1..Len(list) : list[n] \in I
  BY <1>0
<1>2. \A n \in 1..Len(list) : list[n].id \in Ids(list)
  BY <1>1 DEF Ids
<1> HIDE DEF list
<1>3. p \in S[0]
  BY <1>1 DEF list
<1>4. ASSUME NEW n \in 1..Len(list), NEW k \in S[n - 1]
      PROVE  Turn("workspace upserts", k, list[n], x) \in S[n]
  <2>1. n - 1 \in 0..Len(list) /\ n \in 0..Len(list)
    BY <1>1
  <2>2. k \in Storing(x) /\ Balanced(x, k) /\ k.upserts = list
    BY <1>4, <2>1
  <2>3. list[n] \in I /\ list[n].id \in Ids(k.upserts)
    BY <1>1, <1>2, <2>2
  <2>4. LET m == Turn("workspace upserts", k, list[n], x) IN
        m \in Storing(x) /\ Balanced(x, m) /\ m.upserts = k.upserts
    BY <2>2, <2>3, StoringBalanced
  <2> QED BY <2>1, <2>2, <2>4
<1>5. r \in T
  <2> HIDE DEF S, T, r
  <2>1. r \in S[Len(list)]
    <3> HIDE DEF I
    <3> QED BY <1>0, <1>3, <1>4, EachSteps DEF r
  <2>2. Len(list) \in 0..Len(list)
    BY <1>1
  <2> QED BY <2>1, <2>2 DEF S
<1>6. Batch("workspace upserts", p, x) = q
  BY DEF Batch, list
<1>7. r \in Held(I) /\ Balanced(x, r)
  BY <1>5 DEF Storing
<1> HIDE DEF r, T, S
<1>8. q.db = r.db /\ SameLedgers(r, q)
  BY <1>7 DEF Held, SameLedgers
<1> HIDE DEF q
<1>9. Sound(q.db)
  BY <1>7, <1>8 DEF Balanced
<1>10. ASSUME Kept(d, q.db)
       PROVE  /\ Within(MaxWorkspaces, CountedWorkspaces(d), CountedWorkspaces(q.db))
              /\ Remains(d, q.db) /\ Stocked(x, q)
  <2>1. Remains(d, r.db) /\ Housed(d, r) /\ Stocked(x, r)
    BY <1>7, <1>8, <1>10 DEF Balanced
  <2>2. Stocked(x, q)
    BY <1>8, <2>1, StockedStays DEF SameChildren
  <2> DEFINE before == CountedWorkspaces(d)
             after == CountedWorkspaces(q.db)
             R == r.wsQuota.retained
  <2>3. /\ IsFiniteSet(before) /\ IsFiniteSet(R)
        /\ MaxWorkspaces \in Nat \cup {Unlimited} /\ Within(MaxWorkspaces, before, R)
    <3>1. before \in SUBSET Workspaces
      BY DEF CountedWorkspaces
    <3>2. R \in SUBSET Workspaces
      BY <1>7, HeldFields DEF Ledger
    <3>3. Within(MaxWorkspaces, before, R)
      BY <2>1 DEF Housed, Fits
    <3>4. MaxWorkspaces \in Nat \cup {Unlimited}
      BY PlanAssumption
    <3> HIDE DEF before, R
    <3> QED BY <3>1, <3>2, <3>3, <3>4, TableAssumption, FS_Subset
  <2>4. after \in SUBSET R
    <3>1. Terminal \notin {Active, Retained}
      BY DEF Terminal, Active, Retained
    <3> QED BY <1>8, <2>1, <3>1 DEF Housed, CountedWorkspaces
  <2> HIDE DEF before, after, R
  <2>5. Within(MaxWorkspaces, before, after)
    BY <2>3, <2>4, FewerFit
  <2> QED BY <1>8, <2>1, <2>2, <2>5 DEF before, after
<1> QED BY <1>6, <1>9, <1>10 DEF Settled

(* The workspaces of a push.                                                  *)
LEMMA WorkspacesSettle ==
    ASSUME NEW x \in Context, Sound(x.before), NEW req \in Request(x.version)
    PROVE  Settled(x, PushWorkspaces(Start(x.before, x.horizon), req, x))
<1> DEFINE d == x.before
           list == req.ws
           p == Start(d, x.horizon)
           S == {s \in Sorting(x) : Balanced(x, s)}
           sorted == IF req.version = 0
                     THEN Each("legacy metadata", Each("legacy deletes", p, list, x), list, x)
                     ELSE Each("workspaces", p, list, x)
           stored == Batch("workspace upserts", sorted, x)
           f == [c \in Collections |->
                   IF \E w \in stored.legacyDeleted : c \in CollectionsOf(stored.db, w)
                   THEN "parent_rejected" ELSE stored.unavailableCol[c]]
           q == [stored EXCEPT !.unavailableCol = f]
<1>0. /\ x.version \in {0, 2} /\ req.version = x.version
      /\ list \in Seq(WorkspaceItems(x.version))
  BY DEF Context, Known, Request
<1>1. WorkspaceItems(x.version) \subseteq WorkspaceItem
  BY <1>0 DEF WorkspaceItems, WorkspaceOps, WorkspaceItem
<1>2. list \in Seq(WorkspaceItem)
  BY <1>0, <1>1
<1>3. p \in S
  BY StartSorting, StartBalanced
<1>4. \A s \in S, item \in WorkspaceItem :
         /\ x.version = 0 => Turn("legacy deletes", s, item, x) \in S
         /\ Turn("legacy metadata", s, item, x) \in S
         /\ x.version = 2 => Turn("workspaces", s, item, x) \in S
  BY SortingTurns, SortingBalanced
<1> HIDE DEF p, S
<1>5. sorted \in S
  <2>1. CASE x.version = 0
    <3> DEFINE r == Each("legacy deletes", p, list, x)
    <3>1. r \in S
      BY <1>2, <1>3, <1>4, <2>1, EachKeeps
    <3> HIDE DEF r
    <3>2. Each("legacy metadata", r, list, x) \in S
      BY <1>2, <1>4, <3>1, EachKeeps
    <3> QED BY <1>0, <2>1, <3>2 DEF r
  <2>2. CASE x.version = 2
    <3>1. Each("workspaces", p, list, x) \in S
      BY <1>2, <1>3, <1>4, <2>2, EachKeeps
    <3> QED BY <1>0, <2>2, <3>1
  <2> QED BY <1>0, <2>1, <2>2
<1>6. PushWorkspaces(p, req, x) = q
  BY DEF PushWorkspaces
<1> HIDE DEF sorted
<1>7. sorted \in Storing(x) /\ Balanced(x, sorted)
  BY <1>5 DEF S, Sorting, Storing
<1>8. Settled(x, stored)
  BY <1>7, BatchSettles
<1> HIDE DEF stored, f
<1>9. q.db = stored.db /\ SameLedgers(stored, q)
  BY DEF SameLedgers
<1> HIDE DEF q
<1>10. Stocked(x, stored) => Stocked(x, q)
  BY <1>9, StockedStays DEF SameChildren
<1> QED BY <1>6, <1>8, <1>9, <1>10 DEF Settled, p

(* Nothing waits between two loops.                                           *)
LEMMA NothingWaits ==
    ASSUME NEW p, \A J : p \in Held(J)
    PROVE  Ids(p.upserts) = {}
<1>1. p.upserts \in Seq({})
  BY HeldFields
<1> HIDE DEF Ids
<1>2. DOMAIN p.upserts = {}
  <2> SUFFICES ASSUME NEW i \in DOMAIN p.upserts PROVE FALSE
    OBVIOUS
  <2>1. p.upserts[i] \in {}
    BY <1>1
  <2> QED BY <2>1
<1> QED BY <1>2 DEF Ids

-------------------------------------------------------------------------------
(* The loops over a table of children, with its ledger Q, the rows L that     *)
(* count and the rows F with a number after the horizon, as functions of what *)
(* the handler holds.                                                         *)

SortsCounted(sorts, J, x, H, Q, L, F) ==
    \A q \in H, o \in J :
        LET r == Turn(sorts, q, o, x) IN
        /\ r \in H /\ L[r] = L[q] /\ F[r] = F[q]
        /\ \/ Q[r] = Q[q] /\ r.upserts = q.upserts
           \/ /\ Admitted(Q[q], o.id, o.state = Terminal)
              /\ Q[r] = Admit(Q[q], o.id, o.state = Terminal)
              /\ r.upserts = Append(q.upserts, o)

(* A row of the batch is stale, or it is stored.                              *)
RowStored(id, state, live, fresh, more, later) ==
    \/ id \in fresh /\ more = live /\ later = fresh
    \/ /\ id \notin fresh
       /\ \A k : k \in later <=> k \in fresh \/ k = id
       /\ \A k : k \in more <=> IF k = id THEN state # Terminal ELSE k \in live

StoresCounted(stores, I, x, H, Q, L, F) ==
    \A q \in H, o \in I :
        LET r == Turn(stores, q, o, x) IN
        /\ r \in H /\ r.upserts = q.upserts /\ Q[r] = Q[q]
        /\ RowStored(o.id, o.state, L[q], F[q], L[r], F[r])

(* What H says of the ledger and of the list.                                 *)
Keeps(H, I, S, Q) == \A q \in H : q.upserts \in Seq(I) /\ Q[q] \in Ledger(S)

(* The loop that sorts the entities out: the ledger knows what waits.         *)
LEMMA ChildrenAwait ==
    ASSUME NEW sorts, NEW J, NEW list \in Seq(J), NEW I, NEW x, NEW H, NEW S, IsFiniteSet(S),
           NEW Q, NEW L, NEW F, NEW limit, NEW before \in SUBSET S,
           Keeps(H, I, S, Q), SortsCounted(sorts, J, x, H, Q, L, F), \A o \in J : o.id \in S,
           NEW p \in H, Ids(p.upserts) = {}, Ready(Q[p], limit, before, L[p], F[p])
    PROVE  LET r == Each(sorts, p, list, x) IN
           /\ r \in H /\ L[r] = L[p] /\ F[r] = F[p]
           /\ Fits(Q[r], limit, before)
           /\ Awaits(Q[r], r.upserts, L[r], F[r])
<1> DEFINE T == {q \in H : /\ L[q] = L[p] /\ F[q] = F[p]
                           /\ Fits(Q[q], limit, before)
                           /\ Awaits(Q[q], q.upserts, L[q], F[q])}
<1>1. p \in T
  <2>1. Awaits(Q[p], p.upserts, L[p], F[p])
    BY ReadyAwaits
  <2>2. Fits(Q[p], limit, before)
    BY DEF Ready
  <2> QED BY <2>1, <2>2
<1>2. ASSUME NEW q \in T, NEW o \in J PROVE Turn(sorts, q, o, x) \in T
  <2> DEFINE r == Turn(sorts, q, o, x)
             terminal == o.state = Terminal
             new == Admit(Q[q], o.id, terminal)
             more == Append(q.upserts, o)
  <2>1. /\ r \in H /\ L[r] = L[q] /\ F[r] = F[q]
        /\ \/ Q[r] = Q[q] /\ r.upserts = q.upserts
           \/ Admitted(Q[q], o.id, terminal) /\ Q[r] = new /\ r.upserts = more
    BY DEF SortsCounted
  <2>2. /\ L[q] = L[p] /\ F[q] = F[p] /\ Fits(Q[q], limit, before)
        /\ Awaits(Q[q], q.upserts, L[q], F[q])
    OBVIOUS
  <2>3. q.upserts \in Seq(I) /\ Q[q] \in Ledger(S) /\ o.id \in S /\ terminal \in BOOLEAN
    BY DEF Keeps
  <2> HIDE DEF r
  <2>4. CASE Q[r] = Q[q] /\ r.upserts = q.upserts
    BY <2>1, <2>2, <2>4 DEF r
  <2>5. CASE Admitted(Q[q], o.id, terminal) /\ Q[r] = new /\ r.upserts = more
    <3>1. Fits(new, limit, before)
      BY <2>2, <2>3, <2>5, LedgerFits
    <3>2. Awaits(new, more, L[q], F[q])
      BY <2>2, <2>3, <2>5, AdmitAwaits
    <3> HIDE DEF new, more
    <3> QED BY <2>1, <2>2, <2>5, <3>1, <3>2 DEF r
  <2> QED BY <2>1, <2>4, <2>5
<1>3. Each(sorts, p, list, x) \in T
  <2> HIDE DEF T
  <2> QED BY <1>1, <1>2, EachKeeps
<1> QED BY <1>3

(* The batch: what counts at its end fits.                                    *)
LEMMA ChildrenFit ==
    ASSUME NEW stores, NEW I, NEW x, NEW H, NEW S, IsFiniteSet(S),
           NEW Q, NEW L, NEW F, NEW limit, NEW before \in SUBSET S,
           Keeps(H, I, S, Q), StoresCounted(stores, I, x, H, Q, L, F),
           NEW p \in H, Fits(Q[p], limit, before), Awaits(Q[p], p.upserts, L[p], F[p])
    PROVE  LET r == Each(stores, p, p.upserts, x) IN
           r \in H /\ Within(limit, before, L[r])
<1> DEFINE list == p.upserts
           quota == Q[p]
           T == [n \in 0..Len(list) |->
                   {q \in H : /\ q.upserts = list /\ Q[q] = quota
                              /\ Counts(quota, list, n, L[q], F[q])}]
           r == Each(stores, p, list, x)
<1>0. /\ list \in Seq(I) /\ quota \in Ledger(S)
      /\ Len(list) \in Nat /\ DOMAIN list = 1..Len(list)
      /\ \A n \in 1..Len(list) : list[n] \in I
  BY DEF Keeps
<1> HIDE DEF list, quota
<1>1. /\ \A n \in 1..Len(list) : n - 1 \in 0..Len(list) /\ n \in 0..Len(list)
      /\ 0 \in 0..Len(list) /\ Len(list) \in 0..Len(list)
  BY <1>0
<1>2. Counts(quota, list, 0, L[p], F[p])
  <2>1. \A i \in DOMAIN list : ~(i <= 0)
    BY <1>0
  <2> QED BY <2>1 DEF Awaits, Counts, list, quota
<1>3. p \in T[0]
  BY <1>1, <1>2 DEF list, quota
<1>4. ASSUME NEW n \in 1..Len(list), NEW q \in T[n - 1]
      PROVE  Turn(stores, q, list[n], x) \in T[n]
  <2> DEFINE o == list[n]
             k == Turn(stores, q, o, x)
  <2>1. q \in H /\ q.upserts = list /\ Q[q] = quota /\ Counts(quota, list, n - 1, L[q], F[q])
    BY <1>1, <1>4
  <2>2. o \in I /\ n \in DOMAIN list
    BY <1>0
  <2>3. /\ k \in H /\ k.upserts = list /\ Q[k] = quota
        /\ RowStored(o.id, o.state, L[q], F[q], L[k], F[k])
    BY <2>1, <2>2 DEF StoresCounted
  <2> HIDE DEF k
  <2>4. Counts(quota, list, n, L[k], F[k])
    <3> DEFINE live == L[q]
               fresh == F[q]
               more == L[k]
               later == F[k]
    <3>1. Counts(quota, list, n - 1, live, fresh)
      BY <2>1
    <3>2. RowStored(list[n].id, list[n].state, live, fresh, more, later)
      BY <2>3
    <3> HIDE DEF live, fresh, more, later
    <3>3. Counts(quota, list, n, more, later)
      BY <1>0, <2>2, <3>1, <3>2, RowCounts DEF RowStored
    <3> QED BY <3>3 DEF more, later
  <2> QED BY <1>1, <2>3, <2>4 DEF k
<1>5. r \in T[Len(list)]
  <2> HIDE DEF T, r
  <2> QED BY <1>0, <1>3, <1>4, EachSteps DEF r
<1>6. r \in H /\ Counts(quota, list, Len(list), L[r], F[r])
  BY <1>1, <1>5
<1> HIDE DEF T, r
<1>7. L[r] \subseteq quota.retained
  BY <1>0, <1>6, BatchCounts
<1>8. Within(limit, before, L[r])
  <2> DEFINE R == quota.retained
  <2>1. R \in SUBSET S /\ quota.limit \in Nat \cup {Unlimited}
    BY <1>0 DEF Ledger
  <2>2. Within(limit, before, R) /\ quota.limit = limit
    BY DEF Fits, quota
  <2>3. L[r] \in SUBSET R
    BY <1>7
  <2> HIDE DEF R
  <2>4. IsFiniteSet(R) /\ IsFiniteSet(before)
    BY <2>1, FS_Subset
  <2>5. limit \in Nat \cup {Unlimited}
    BY <2>1, <2>2
  <2> QED BY <2>2, <2>3, <2>4, <2>5, FewerFit
<1> QED BY <1>6, <1>8 DEF r, list

(* A child under an open parent leaves a tombstone empty.                     *)
LEMMA StoredLeavesNothing ==
    ASSUME NEW z, NEW e, NEW f, PurgedEmpty(e), e.ws = z.ws, f.ws = z.ws, NEW parent, ~Shut(z, parent),
           \A k \in Collections : f.col[k] = e.col[k] \/ f.col[k].workspace_id = parent,
           \A k \in Groups : f.grp[k] = e.grp[k] \/ f.grp[k].workspace_id = parent
    PROVE  PurgedEmpty(f)
<1> SUFFICES ASSUME NEW w \in Workspaces, f.ws[w].is_deleted = Terminal
             PROVE  NothingUnder(f, w)
  BY DEF PurgedEmpty
<1>1. e.ws[w].is_deleted = Terminal /\ w # parent
  BY DEF Shut
<1>2. CollectionsOf(e, w) = {} /\ GroupsOf(e, w) = {}
  BY <1>1 DEF PurgedEmpty, NothingUnder
<1>3. CollectionsOf(f, w) = {}
  BY <1>1, <1>2 DEF CollectionsOf
<1>4. GroupsOf(f, w) = {}
  BY <1>1, <1>2 DEF GroupsOf
<1> QED BY <1>3, <1>4 DEF NothingUnder

(* What the loops over the collections keep beside Collecting.                *)
CollectingOn(x, p) ==
    {q \in Collecting(x, p.db) :
        /\ PurgedEmpty(q.db)
        /\ q.db.bm = p.db.bm /\ q.db.grp = p.db.grp
        /\ q.bmQuota = p.bmQuota /\ q.grpQuota = p.grpQuota}

(* A collection that is sorted out.                                           *)
LEMMA SortCollectionCounts ==
    ASSUME NEW x \in Context, NEW p, NEW q \in CollectingOn(x, p), NEW item \in CollectionItems
    PROVE  LET r == Turn("collections", q, item, x) IN
           /\ r \in CollectingOn(x, p) /\ r.db = q.db
           /\ \/ r.colQuota = q.colQuota /\ r.upserts = q.upserts
              \/ /\ Admitted(q.colQuota, item.id, item.state = Terminal)
                 /\ r.colQuota = Admit(q.colQuota, item.id, item.state = Terminal)
                 /\ r.upserts = Append(q.upserts, item)
<1> DEFINE r == SortCollection(q, item, x.before)
<1>1. Turn("collections", q, item, x) = r
  BY DEF Turn
<1>2. q \in Collecting(x, p.db) /\ q \in Held(OpenCollection(p.db))
  BY DEF CollectingOn, Collecting
<1>3. r \in Collecting(x, p.db)
  BY <1>1, <1>2, CollectingTurns
<1>4. TurnedAway(q, r, "collection", item.id) \/ QueuesCollection(q, r, item)
  BY <1>2, SortCollectionAnswers
<1> HIDE DEF r
<1>5. CASE TurnedAway(q, r, "collection", item.id)
  BY <1>1, <1>3, <1>5 DEF TurnedAway, SameLedgers, CollectingOn
<1>6. CASE QueuesCollection(q, r, item)
  BY <1>1, <1>3, <1>6 DEF QueuesCollection, Waits, CollectingOn
<1> QED BY <1>4, <1>5, <1>6

(* A collection of the batch.                                                 *)
LEMMA StoreCollectionCounts ==
    ASSUME NEW x \in Context, NEW p, NEW q \in CollectingOn(x, p), NEW item \in OpenCollection(p.db)
    PROVE  LET r == Turn("collection upserts", q, item, x) IN
           /\ r \in CollectingOn(x, p) /\ r.upserts = q.upserts /\ r.colQuota = q.colQuota
           /\ RowStored(item.id, item.state,
                        CountedCollections(q.db), FreshCollections(q.db, x.horizon),
                        CountedCollections(r.db), FreshCollections(r.db, x.horizon))
<1> DEFINE r == UpsertCollection(q, item, x.version, x.horizon, x.seq, x.now)
           id == item.id
           h == x.horizon
           row == StoredChild(item, x.now, x.seq)
<1>0. /\ q \in Collecting(x, p.db) /\ q \in Held(OpenCollection(p.db))
      /\ q.db \in Database /\ q.db.ws = p.db.ws /\ PurgedEmpty(q.db)
      /\ h \in Nat /\ x.seq \in Nat /\ h < x.seq
      /\ id \in Collections /\ item.state \in {0, 1, 2} /\ ~Shut(p.db, item.parent)
  BY HeldFields DEF CollectingOn, Collecting, ChildrenInv, Context, Known, OpenCollection, CollectionItems
<1>1. Turn("collection upserts", q, item, x) = r
  BY DEF Turn
<1>2. r \in Collecting(x, p.db)
  BY <1>0, <1>1, CollectingTurns
<1>3. /\ \/ TurnedAway(q, r, "collection", id)
         \/ WritesCollection(q, r, item, h, x.seq, x.now)
      /\ q.db.col[id].seq <= h => WritesCollection(q, r, item, h, x.seq, x.now)
  BY <1>0, UpsertCollectionAnswers
<1>4. /\ r.upserts = q.upserts /\ SameLedgers(q, r)
  BY <1>3 DEF TurnedAway, WritesCollection, Answered
<1>5. q.db.col[id].seq \in Nat
  BY <1>0 DEF Database, CollectionRow
<1> HIDE DEF r
<1>6. CASE TurnedAway(q, r, "collection", id) /\ ~(q.db.col[id].seq <= h)
  <2>1. r.db = q.db
    BY <1>6 DEF TurnedAway
  <2>2. id \in FreshCollections(q.db, h)
    BY <1>0, <1>5, <1>6 DEF FreshCollections
  <2>3. r \in CollectingOn(x, p)
    BY <1>2, <1>4, <2>1 DEF CollectingOn, SameLedgers
  <2> QED BY <1>1, <1>4, <2>1, <2>2, <2>3 DEF RowStored, SameLedgers
<1>7. CASE WritesCollection(q, r, item, h, x.seq, x.now)
  <2>1. q.db.col[id].seq <= h /\ r.db = [q.db EXCEPT !.col[id] = row]
    BY <1>7 DEF WritesCollection
  <2>2. row.is_deleted = item.state /\ row.workspace_id = item.parent /\ row.seq = x.seq
    BY DEF StoredChild
  <2> HIDE DEF row
  <2>3. /\ r.db.ws = q.db.ws /\ r.db.bm = q.db.bm /\ r.db.grp = q.db.grp
        /\ \A c \in Collections : r.db.col[c] = IF c = id THEN row ELSE q.db.col[c]
    BY <1>0, <2>1 DEF Database
  <2>4. PurgedEmpty(r.db)
    BY <1>0, <2>2, <2>3, StoredLeavesNothing
  <2>5. r \in CollectingOn(x, p)
    BY <1>2, <1>4, <2>3, <2>4 DEF CollectingOn, SameLedgers
  <2>6. id \notin FreshCollections(q.db, h)
    BY <1>0, <1>5, <2>1 DEF FreshCollections
  <2>7. row.seq > h
    BY <1>0, <2>2
  <2>8. \A k : k \in FreshCollections(r.db, h) <=> k \in FreshCollections(q.db, h) \/ k = id
    BY <1>0, <2>3, <2>7 DEF FreshCollections
  <2>9. item.state \in {Active, Retained} <=> item.state # Terminal
    BY <1>0 DEF Active, Retained, Terminal
  <2>10. \A k : k \in CountedCollections(r.db)
                  <=> IF k = id THEN item.state # Terminal ELSE k \in CountedCollections(q.db)
    BY <1>0, <2>2, <2>3, <2>9 DEF CountedCollections
  <2> QED BY <1>1, <1>4, <2>5, <2>6, <2>8, <2>10 DEF RowStored, SameLedgers
<1> QED BY <1>3, <1>6, <1>7

(* The bookmarks' ledger after the cascade: what it gives back no longer      *)
(* counts.                                                                    *)
LEMMA CascadeReady ==
    ASSUME NEW x \in Context, NEW I, NEW p \in Held(I), NEW q, NEW C, NEW seq, NEW now,
           TakesAlong(p, q, C, x.before, seq, now),
           \A b \in Bookmarks : p.db.bm[b] \in {x.before.bm[b], NoBookmark}, BookmarksReady(x, p)
    PROVE  BookmarksReady(x, q)
<1> DEFINE d == x.before
           h == x.horizon
           live == CountedBookmarks(p.db)
           fresh == FreshBookmarks(p.db, h)
           left == CountedBookmarks(q.db)
           later == FreshBookmarks(q.db, h)
           before == CountedBookmarks(d)
           T == {b \in Bookmarks : d.bm[b].collection_id \in C}
           M == {b \in Bookmarks : /\ p.db.bm[b].collection_id \in C
                                   /\ p.db.bm[b].is_trashed \in {Active, Retained}}
           quota == p.bmQuota
<1>0. /\ p.db \in Database /\ quota \in Ledger(Bookmarks) /\ before \in SUBSET Bookmarks
  BY HeldFields DEF CountedBookmarks
<1>1. q.db = MarkBookmarks(p.db, M, Terminal, now, seq) /\ q.bmQuota = ReleaseApplied(quota, T)
  BY DEF TakesAlong
<1>2. \A b \in Bookmarks :
         IF b \in M THEN q.db.bm[b].is_trashed = Terminal ELSE q.db.bm[b] = p.db.bm[b]
  <2>1. \A b \in Bookmarks :
           q.db.bm[b] = IF b \in M
                        THEN [p.db.bm[b] EXCEPT !.is_trashed = Terminal, !.deleted_at = now, !.seq = seq]
                        ELSE p.db.bm[b]
    <3> HIDE DEF M
    <3> QED BY <1>0, <1>1 DEF MarkBookmarks, Database
  <2>2. \A b \in Bookmarks : p.db.bm[b] \in BookmarkRow
    BY <1>0 DEF Database
  <2> HIDE DEF M
  <2> QED BY <2>1, <2>2 DEF BookmarkRow
<1>3. Terminal \notin {Active, Retained} /\ NoBookmark.is_trashed \notin {Active, Retained}
  BY DEF Terminal, Active, Retained, NoBookmark, Absent
<1>4. \A b \in left : q.db.bm[b] = p.db.bm[b] /\ b \notin M /\ b \in live
  BY <1>2, <1>3 DEF CountedBookmarks
<1>5. left \subseteq live /\ left \cap later \subseteq fresh
  BY <1>4 DEF FreshBookmarks
<1>6. left \cap T = {}
  BY <1>3, <1>4 DEF CountedBookmarks
<1>7. Ready(quota, MaxBookmarks, before, live, fresh)
  BY DEF BookmarksReady
<1> HIDE DEF live, fresh, left, later, before, T, M, quota
<1>8. Ready(ReleaseApplied(quota, T), MaxBookmarks, before, left, later)
  BY <1>0, <1>5, <1>6, <1>7, TableAssumption, ReadyShrinks
<1> QED BY <1>1, <1>8 DEF BookmarksReady, before, left, later

(* The loop that sorts a table's entities out, and its batch.                 *)
LEMMA TableFits ==
    ASSUME NEW sorts, NEW stores, NEW J, NEW list \in Seq(J), NEW I, NEW x, NEW H, NEW S, IsFiniteSet(S),
           NEW Q, NEW L, NEW F, NEW limit, NEW before \in SUBSET S,
           Keeps(H, I, S, Q), \A o \in J : o.id \in S,
           SortsCounted(sorts, J, x, H, Q, L, F), StoresCounted(stores, I, x, H, Q, L, F),
           NEW p \in H, Ids(p.upserts) = {}
    PROVE  LET sorted == Each(sorts, p, list, x)
               stored == Each(stores, sorted, sorted.upserts, x) IN
           /\ sorted \in H /\ stored \in H
           /\ Ready(Q[p], limit, before, L[p], F[p]) => Within(limit, before, L[stored])
<1> DEFINE sorted == Each(sorts, p, list, x)
           stored == Each(stores, sorted, sorted.upserts, x)
<1>1. sorted \in H
  <2>1. \A q \in H, o \in J : Turn(sorts, q, o, x) \in H
    BY DEF SortsCounted
  <2> QED BY <2>1, EachKeeps
<1>2. Ready(Q[p], limit, before, L[p], F[p]) =>
         Fits(Q[sorted], limit, before) /\ Awaits(Q[sorted], sorted.upserts, L[sorted], F[sorted])
  <2> SUFFICES ASSUME Ready(Q[p], limit, before, L[p], F[p])
               PROVE  Fits(Q[sorted], limit, before) /\ Awaits(Q[sorted], sorted.upserts, L[sorted], F[sorted])
    OBVIOUS
  <2>1. LET r == Each(sorts, p, list, x) IN
        /\ r \in H /\ L[r] = L[p] /\ F[r] = F[p]
        /\ Fits(Q[r], limit, before)
        /\ Awaits(Q[r], r.upserts, L[r], F[r])
    BY ChildrenAwait, ZenonT(120)
  <2> QED BY <2>1
<1> HIDE DEF sorted
<1>3. stored \in H
  <2>1. \A q \in H, o \in I : Turn(stores, q, o, x) \in H
    BY DEF StoresCounted
  <2>2. sorted.upserts \in Seq(I)
    BY <1>1 DEF Keeps
  <2> QED BY <1>1, <2>1, <2>2, EachKeeps
<1>4. Ready(Q[p], limit, before, L[p], F[p]) => Within(limit, before, L[stored])
  <2> SUFFICES ASSUME Ready(Q[p], limit, before, L[p], F[p])
               PROVE  Within(limit, before, L[stored])
    OBVIOUS
  <2>1. LET r == Each(stores, sorted, sorted.upserts, x) IN
        r \in H /\ Within(limit, before, L[r])
    BY <1>1, <1>2, ChildrenFit
  <2> QED BY <2>1
<1> QED BY <1>1, <1>3, <1>4 DEF sorted

(* The collections of a push.                                                 *)
LEMMA CollectionsSettle ==
    ASSUME NEW x \in Context, NEW req \in Request(x.version),
           NEW p, \A J : p \in Held(J), ChildrenInv(x, p.db, p), PurgedEmpty(p.db)
    PROVE  LET q == PushCollections(p, req, x) IN
           /\ PurgedEmpty(q.db) /\ q.db.ws = p.db.ws
           /\ CollectionsReady(x, p) =>
                 Within(MaxCollections, CountedCollections(x.before), CountedCollections(q.db))
           /\ (\A b \in Bookmarks : p.db.bm[b] \in {x.before.bm[b], NoBookmark}) /\ BookmarksReady(x, p)
                 => BookmarksReady(x, q)
           /\ GroupsReady(x, p) => GroupsReady(x, q)
<1> DEFINE d == x.before
           h == x.horizon
           H == CollectingOn(x, p)
           I == OpenCollection(p.db)
           Q == [s \in H |-> s.colQuota]
           L == [s \in H |-> CountedCollections(s.db)]
           F == [s \in H |-> FreshCollections(s.db, h)]
           before == CountedCollections(d)
           list == req.col
           sorted == Each("collections", p, list, x)
           last == Each("collection upserts", sorted, sorted.upserts, x)
           stored == [last EXCEPT !.upserts = <<>>]
           buried == {c \in Collections :
                        /\ \E i \in DOMAIN sorted.upserts : /\ sorted.upserts[i].id = c
                                                           /\ sorted.upserts[i].state = Terminal
                        /\ stored.db.col[c].is_deleted = Terminal
                        /\ stored.db.col[c].seq = x.seq}
           q == CascadeTombstones(stored, buried, d, x.seq, x.now)
<1>0. PushCollections(p, req, x) = q
  BY DEF PushCollections, Batch
<1>1. list \in Seq(CollectionItems) /\ before \in SUBSET Collections
  BY DEF Request, CountedCollections
<1>2. p \in H /\ Ids(p.upserts) = {}
  BY NothingWaits DEF CollectingOn, Collecting
<1>3. Keeps(H, I, Collections, Q)
  <2> SUFFICES ASSUME NEW s \in H PROVE s.upserts \in Seq(I) /\ s.colQuota \in Ledger(Collections)
    BY DEF Keeps
  <2>1. s \in Held(I)
    BY DEF CollectingOn, Collecting
  <2> QED BY <2>1, HeldFields
<1>4. SortsCounted("collections", CollectionItems, x, H, Q, L, F)
  <2> SUFFICES ASSUME NEW s \in H, NEW o \in CollectionItems
               PROVE  LET r == Turn("collections", s, o, x) IN
                      /\ r \in H /\ L[r] = L[s] /\ F[r] = F[s]
                      /\ \/ Q[r] = Q[s] /\ r.upserts = s.upserts
                         \/ /\ Admitted(Q[s], o.id, o.state = Terminal)
                            /\ Q[r] = Admit(Q[s], o.id, o.state = Terminal)
                            /\ r.upserts = Append(s.upserts, o)
    BY DEF SortsCounted
  <2> DEFINE r == Turn("collections", s, o, x)
  <2>1. /\ r \in H /\ r.db = s.db
        /\ \/ r.colQuota = s.colQuota /\ r.upserts = s.upserts
           \/ /\ Admitted(s.colQuota, o.id, o.state = Terminal)
              /\ r.colQuota = Admit(s.colQuota, o.id, o.state = Terminal)
              /\ r.upserts = Append(s.upserts, o)
    BY SortCollectionCounts
  <2> HIDE DEF r, H
  <2> QED BY <2>1 DEF r
<1>5. StoresCounted("collection upserts", I, x, H, Q, L, F)
  <2> SUFFICES ASSUME NEW s \in H, NEW o \in I
               PROVE  LET r == Turn("collection upserts", s, o, x) IN
                      /\ r \in H /\ r.upserts = s.upserts /\ Q[r] = Q[s]
                      /\ RowStored(o.id, o.state, L[s], F[s], L[r], F[r])
    BY DEF StoresCounted
  <2> DEFINE r == Turn("collection upserts", s, o, x)
  <2>1. /\ r \in H /\ r.upserts = s.upserts /\ r.colQuota = s.colQuota
        /\ RowStored(o.id, o.state, CountedCollections(s.db), FreshCollections(s.db, h),
                     CountedCollections(r.db), FreshCollections(r.db, h))
    BY StoreCollectionCounts
  <2> HIDE DEF r, H
  <2> QED BY <2>1 DEF r
<1>6. /\ Q[p] = p.colQuota /\ L[p] = CountedCollections(p.db) /\ F[p] = FreshCollections(p.db, h)
      /\ \A s \in H : L[s] = CountedCollections(s.db)
  BY <1>2
<1>7. \A o \in CollectionItems : o.id \in Collections
  BY DEF CollectionItems
<1> HIDE DEF Q, L, F, H, I, before, list
<1>8. /\ sorted \in H /\ last \in H
      /\ Ready(Q[p], MaxCollections, before, L[p], F[p]) => Within(MaxCollections, before, L[last])
  BY <1>1, <1>2, <1>3, <1>4, <1>5, <1>7, TableAssumption, TableFits
<1> HIDE DEF last, sorted
<1>9. /\ last \in Held(I) /\ last.db.ws = p.db.ws /\ PurgedEmpty(last.db)
      /\ last.db.bm = p.db.bm /\ last.db.grp = p.db.grp
      /\ last.bmQuota = p.bmQuota /\ last.grpQuota = p.grpQuota
  BY <1>8 DEF H, I, CollectingOn, Collecting, ChildrenInv
<1>10. /\ stored.db = last.db /\ stored.bmQuota = last.bmQuota /\ stored.grpQuota = last.grpQuota
       /\ stored \in Held(I)
  <2>1. <<>> \in Seq(I)
    OBVIOUS
  <2> QED BY <1>9, <2>1 DEF Held
<1> HIDE DEF stored, buried
<1>11. TakesAlong(stored, q, buried, d, x.seq, x.now)
  BY <1>10, CascadeAnswers
<1> HIDE DEF q
<1>12. /\ q.db.ws = last.db.ws /\ q.db.col = last.db.col /\ q.db.grp = last.db.grp
       /\ q.grpQuota = p.grpQuota
  <2>1. stored.db \in Database
    BY <1>10, HeldFields
  <2>2. /\ q.db.ws = stored.db.ws /\ q.db.col = stored.db.col /\ q.db.grp = stored.db.grp
    BY <1>11, <2>1 DEF TakesAlong, MarkBookmarks, Database
  <2>3. q.grpQuota = stored.grpQuota
    BY <1>11 DEF TakesAlong
  <2> QED BY <1>9, <1>10, <2>2, <2>3
<1>13. PurgedEmpty(q.db)
  BY <1>9, <1>12 DEF PurgedEmpty, NothingUnder, CollectionsOf, GroupsOf
<1>14. CollectionsReady(x, p) => Within(MaxCollections, before, CountedCollections(q.db))
  <2>1. CountedCollections(q.db) = L[last]
    BY <1>6, <1>8, <1>12 DEF CountedCollections
  <2> QED BY <1>6, <1>8, <2>1 DEF CollectionsReady, before
<1>15. (\A b \in Bookmarks : p.db.bm[b] \in {d.bm[b], NoBookmark}) /\ BookmarksReady(x, p)
          => BookmarksReady(x, q)
  <2> SUFFICES ASSUME \A b \in Bookmarks : p.db.bm[b] \in {d.bm[b], NoBookmark}, BookmarksReady(x, p)
               PROVE  BookmarksReady(x, q)
    OBVIOUS
  <2>1. stored.db.bm = p.db.bm /\ stored.bmQuota = p.bmQuota
    BY <1>9, <1>10
  <2>2. BookmarksReady(x, stored)
    BY <2>1 DEF BookmarksReady, CountedBookmarks, FreshBookmarks
  <2> QED BY <1>10, <1>11, <2>1, <2>2, CascadeReady
<1>16. GroupsReady(x, p) => GroupsReady(x, q)
  BY <1>9, <1>12 DEF GroupsReady, CountedGroups, FreshGroups
<1> QED BY <1>0, <1>9, <1>12, <1>13, <1>14, <1>15, <1>16 DEF before

(* What the loops over the bookmarks keep beside Marking.                     *)
MarkingOn(x, p) == {q \in Marking(x, p.db) : q.db.grp = p.db.grp /\ q.grpQuota = p.grpQuota}

(* A bookmark that is sorted out.                                             *)
LEMMA SortBookmarkCounts ==
    ASSUME NEW x \in Context, NEW p, NEW q \in MarkingOn(x, p), NEW item \in BookmarkItems
    PROVE  LET r == Turn("bookmarks", q, item, x) IN
           /\ r \in MarkingOn(x, p) /\ r.db = q.db
           /\ \/ r.bmQuota = q.bmQuota /\ r.upserts = q.upserts
              \/ /\ Admitted(q.bmQuota, item.id, item.state = Terminal)
                 /\ r.bmQuota = Admit(q.bmQuota, item.id, item.state = Terminal)
                 /\ r.upserts = Append(q.upserts, item)
<1> DEFINE r == SortBookmark(q, item)
<1>1. Turn("bookmarks", q, item, x) = r
  BY DEF Turn
<1>2. q \in Marking(x, p.db) /\ q \in Held(OpenBookmark(p.db))
  BY DEF MarkingOn, Marking
<1>3. r \in Marking(x, p.db)
  BY <1>1, <1>2, MarkingTurns
<1>4. TurnedAway(q, r, "bookmark", item.id) \/ QueuesBookmark(q, r, item)
  BY <1>2, SortBookmarkAnswers
<1> HIDE DEF r
<1>5. CASE TurnedAway(q, r, "bookmark", item.id)
  BY <1>1, <1>3, <1>5 DEF TurnedAway, SameLedgers, MarkingOn
<1>6. CASE QueuesBookmark(q, r, item)
  BY <1>1, <1>3, <1>6 DEF QueuesBookmark, Waits, MarkingOn
<1> QED BY <1>4, <1>5, <1>6

(* A bookmark of the batch.                                                   *)
LEMMA StoreBookmarkCounts ==
    ASSUME NEW x \in Context, NEW p, NEW q \in MarkingOn(x, p), NEW item \in OpenBookmark(p.db)
    PROVE  LET r == Turn("bookmark upserts", q, item, x) IN
           /\ r \in MarkingOn(x, p) /\ r.upserts = q.upserts /\ r.bmQuota = q.bmQuota
           /\ RowStored(item.id, item.state,
                        CountedBookmarks(q.db), FreshBookmarks(q.db, x.horizon),
                        CountedBookmarks(r.db), FreshBookmarks(r.db, x.horizon))
<1> DEFINE r == UpsertBookmark(q, item, x.horizon, x.seq, x.now)
           id == item.id
           h == x.horizon
           row == StoredMark(item, x.now, x.seq)
<1>0. /\ q \in Marking(x, p.db) /\ q \in Held(OpenBookmark(p.db))
      /\ q.db \in Database
      /\ h \in Nat /\ x.seq \in Nat /\ h < x.seq
      /\ id \in Bookmarks /\ item.state \in {0, 1, 2}
  BY HeldFields DEF MarkingOn, Marking, Context, Known, OpenBookmark, BookmarkItems
<1>1. Turn("bookmark upserts", q, item, x) = r
  BY DEF Turn
<1>2. r \in Marking(x, p.db)
  BY <1>0, <1>1, MarkingTurns
<1>3. /\ \/ TurnedAway(q, r, "bookmark", id)
         \/ WritesBookmark(q, r, item, h, x.seq, x.now)
      /\ q.db.bm[id].seq <= h => WritesBookmark(q, r, item, h, x.seq, x.now)
  BY <1>0, UpsertBookmarkAnswers
<1>4. /\ r.upserts = q.upserts /\ SameLedgers(q, r)
  BY <1>3 DEF TurnedAway, WritesBookmark, Answered
<1>5. q.db.bm[id].seq \in Nat
  BY <1>0 DEF Database, BookmarkRow
<1> HIDE DEF r
<1>6. CASE TurnedAway(q, r, "bookmark", id) /\ ~(q.db.bm[id].seq <= h)
  <2>1. r.db = q.db
    BY <1>6 DEF TurnedAway
  <2>2. id \in FreshBookmarks(q.db, h)
    BY <1>0, <1>5, <1>6 DEF FreshBookmarks
  <2>3. r \in MarkingOn(x, p)
    BY <1>2, <1>4, <2>1 DEF MarkingOn, SameLedgers
  <2> QED BY <1>1, <1>4, <2>1, <2>2, <2>3 DEF RowStored, SameLedgers
<1>7. CASE WritesBookmark(q, r, item, h, x.seq, x.now)
  <2>1. q.db.bm[id].seq <= h /\ r.db = [q.db EXCEPT !.bm[id] = row]
    BY <1>7 DEF WritesBookmark
  <2>2. row.is_trashed = item.state /\ row.seq = x.seq
    BY DEF StoredMark
  <2> HIDE DEF row
  <2>3. /\ r.db.grp = q.db.grp
        /\ \A b \in Bookmarks : r.db.bm[b] = IF b = id THEN row ELSE q.db.bm[b]
    BY <1>0, <2>1 DEF Database
  <2>4. r \in MarkingOn(x, p)
    BY <1>2, <1>4, <2>3 DEF MarkingOn, SameLedgers
  <2>5. id \notin FreshBookmarks(q.db, h)
    BY <1>0, <1>5, <2>1 DEF FreshBookmarks
  <2>6. row.seq > h
    BY <1>0, <2>2
  <2>7. \A k : k \in FreshBookmarks(r.db, h) <=> k \in FreshBookmarks(q.db, h) \/ k = id
    BY <1>0, <2>3, <2>6 DEF FreshBookmarks
  <2>8. item.state \in {Active, Retained} <=> item.state # Terminal
    BY <1>0 DEF Active, Retained, Terminal
  <2>9. \A k : k \in CountedBookmarks(r.db)
                  <=> IF k = id THEN item.state # Terminal ELSE k \in CountedBookmarks(q.db)
    BY <1>0, <2>2, <2>3, <2>8 DEF CountedBookmarks
  <2> QED BY <1>1, <1>4, <2>4, <2>5, <2>7, <2>9 DEF RowStored, SameLedgers
<1> QED BY <1>3, <1>6, <1>7

(* The bookmarks of a push.                                                   *)
LEMMA BookmarksSettle ==
    ASSUME NEW x \in Context, NEW req \in Request(x.version),
           NEW p, \A J : p \in Held(J), ChildrenInv(x, p.db, p)
    PROVE  LET q == PushBookmarks(p, req, x) IN
           /\ q.db.ws = p.db.ws /\ q.db.col = p.db.col /\ q.db.grp = p.db.grp
           /\ q.grpQuota = p.grpQuota
           /\ BookmarksReady(x, p) =>
                 Within(MaxBookmarks, CountedBookmarks(x.before), CountedBookmarks(q.db))
<1> DEFINE h == x.horizon
           H == MarkingOn(x, p)
           I == OpenBookmark(p.db)
           Q == [s \in H |-> s.bmQuota]
           L == [s \in H |-> CountedBookmarks(s.db)]
           F == [s \in H |-> FreshBookmarks(s.db, h)]
           before == CountedBookmarks(x.before)
           list == req.bm
           sorted == Each("bookmarks", p, list, x)
           last == Each("bookmark upserts", sorted, sorted.upserts, x)
           q == [last EXCEPT !.upserts = <<>>]
<1>0. PushBookmarks(p, req, x) = q
  BY DEF PushBookmarks, Batch
<1>1. list \in Seq(BookmarkItems) /\ before \in SUBSET Bookmarks
  BY DEF Request, CountedBookmarks
<1>2. p \in H /\ Ids(p.upserts) = {}
  BY NothingWaits DEF MarkingOn, Marking
<1>3. Keeps(H, I, Bookmarks, Q)
  <2> SUFFICES ASSUME NEW s \in H PROVE s.upserts \in Seq(I) /\ s.bmQuota \in Ledger(Bookmarks)
    BY DEF Keeps
  <2>1. s \in Held(I)
    BY DEF MarkingOn, Marking
  <2> QED BY <2>1, HeldFields
<1>4. SortsCounted("bookmarks", BookmarkItems, x, H, Q, L, F)
  <2> SUFFICES ASSUME NEW s \in H, NEW o \in BookmarkItems
               PROVE  LET r == Turn("bookmarks", s, o, x) IN
                      /\ r \in H /\ L[r] = L[s] /\ F[r] = F[s]
                      /\ \/ Q[r] = Q[s] /\ r.upserts = s.upserts
                         \/ /\ Admitted(Q[s], o.id, o.state = Terminal)
                            /\ Q[r] = Admit(Q[s], o.id, o.state = Terminal)
                            /\ r.upserts = Append(s.upserts, o)
    BY DEF SortsCounted
  <2> DEFINE r == Turn("bookmarks", s, o, x)
  <2>1. /\ r \in H /\ r.db = s.db
        /\ \/ r.bmQuota = s.bmQuota /\ r.upserts = s.upserts
           \/ /\ Admitted(s.bmQuota, o.id, o.state = Terminal)
              /\ r.bmQuota = Admit(s.bmQuota, o.id, o.state = Terminal)
              /\ r.upserts = Append(s.upserts, o)
    BY SortBookmarkCounts
  <2> HIDE DEF r, H
  <2> QED BY <2>1 DEF r
<1>5. StoresCounted("bookmark upserts", I, x, H, Q, L, F)
  <2> SUFFICES ASSUME NEW s \in H, NEW o \in I
               PROVE  LET r == Turn("bookmark upserts", s, o, x) IN
                      /\ r \in H /\ r.upserts = s.upserts /\ Q[r] = Q[s]
                      /\ RowStored(o.id, o.state, L[s], F[s], L[r], F[r])
    BY DEF StoresCounted
  <2> DEFINE r == Turn("bookmark upserts", s, o, x)
  <2>1. /\ r \in H /\ r.upserts = s.upserts /\ r.bmQuota = s.bmQuota
        /\ RowStored(o.id, o.state, CountedBookmarks(s.db), FreshBookmarks(s.db, h),
                     CountedBookmarks(r.db), FreshBookmarks(r.db, h))
    BY StoreBookmarkCounts
  <2> HIDE DEF r, H
  <2> QED BY <2>1 DEF r
<1>6. /\ Q[p] = p.bmQuota /\ L[p] = CountedBookmarks(p.db) /\ F[p] = FreshBookmarks(p.db, h)
      /\ \A s \in H : L[s] = CountedBookmarks(s.db)
  BY <1>2
<1>7. \A o \in BookmarkItems : o.id \in Bookmarks
  BY DEF BookmarkItems
<1> HIDE DEF Q, L, F, H, I, before, list
<1>8. /\ sorted \in H /\ last \in H
      /\ Ready(Q[p], MaxBookmarks, before, L[p], F[p]) => Within(MaxBookmarks, before, L[last])
  BY <1>1, <1>2, <1>3, <1>4, <1>5, <1>7, TableAssumption, TableFits
<1> HIDE DEF last, sorted
<1>9. /\ last \in Held(I) /\ last.db.ws = p.db.ws
      /\ last.db.col = p.db.col /\ last.db.grp = p.db.grp /\ last.grpQuota = p.grpQuota
  BY <1>8 DEF H, I, MarkingOn, Marking, ChildrenInv
<1>10. q.db = last.db /\ q.grpQuota = last.grpQuota
  OBVIOUS
<1> HIDE DEF q
<1>11. BookmarksReady(x, p) => Within(MaxBookmarks, before, CountedBookmarks(q.db))
  BY <1>6, <1>8, <1>10 DEF BookmarksReady, before
<1> QED BY <1>0, <1>9, <1>10, <1>11 DEF before

(* What the loops over the groups keep beside Grouping.                       *)
GroupingOn(x, p) ==
    {q \in Grouping(x, p.db) : PurgedEmpty(q.db) /\ q.db.col = p.db.col /\ q.db.bm = p.db.bm}

(* A group that is sorted out.                                                *)
LEMMA SortGroupCounts ==
    ASSUME NEW x \in Context, NEW p, NEW q \in GroupingOn(x, p), NEW item \in GroupItems
    PROVE  LET r == Turn("groups", q, item, x) IN
           /\ r \in GroupingOn(x, p) /\ r.db = q.db
           /\ \/ r.grpQuota = q.grpQuota /\ r.upserts = q.upserts
              \/ /\ Admitted(q.grpQuota, item.id, item.state = Terminal)
                 /\ r.grpQuota = Admit(q.grpQuota, item.id, item.state = Terminal)
                 /\ r.upserts = Append(q.upserts, item)
<1> DEFINE r == SortGroup(q, item, x.before)
<1>1. Turn("groups", q, item, x) = r
  BY DEF Turn
<1>2. q \in Grouping(x, p.db) /\ q \in Held(OpenGroup(p.db))
  BY DEF GroupingOn, Grouping
<1>3. r \in Grouping(x, p.db)
  BY <1>1, <1>2, GroupingTurns
<1>4. TurnedAway(q, r, "saved_group", item.id) \/ QueuesGroup(q, r, item)
  BY <1>2, SortGroupAnswers
<1> HIDE DEF r
<1>5. CASE TurnedAway(q, r, "saved_group", item.id)
  BY <1>1, <1>3, <1>5 DEF TurnedAway, SameLedgers, GroupingOn
<1>6. CASE QueuesGroup(q, r, item)
  BY <1>1, <1>3, <1>6 DEF QueuesGroup, Waits, GroupingOn
<1> QED BY <1>4, <1>5, <1>6

(* A group of the batch.                                                      *)
LEMMA StoreGroupCounts ==
    ASSUME NEW x \in Context, NEW p, NEW q \in GroupingOn(x, p), NEW item \in OpenGroup(p.db)
    PROVE  LET r == Turn("group upserts", q, item, x) IN
           /\ r \in GroupingOn(x, p) /\ r.upserts = q.upserts /\ r.grpQuota = q.grpQuota
           /\ RowStored(item.id, item.state,
                        CountedGroups(q.db), FreshGroups(q.db, x.horizon),
                        CountedGroups(r.db), FreshGroups(r.db, x.horizon))
<1> DEFINE r == UpsertGroup(q, item, x.horizon, x.seq, x.now)
           id == item.id
           h == x.horizon
           row == StoredChild(item, x.now, x.seq)
<1>0. /\ q \in Grouping(x, p.db) /\ q \in Held(OpenGroup(p.db))
      /\ q.db \in Database /\ q.db.ws = p.db.ws /\ PurgedEmpty(q.db)
      /\ h \in Nat /\ x.seq \in Nat /\ h < x.seq
      /\ id \in Groups /\ item.state \in {0, 1, 2} /\ ~Shut(p.db, item.parent)
  BY HeldFields DEF GroupingOn, Grouping, ChildrenInv, Context, Known, OpenGroup, GroupItems
<1>1. Turn("group upserts", q, item, x) = r
  BY DEF Turn
<1>2. r \in Grouping(x, p.db)
  BY <1>0, <1>1, GroupingTurns
<1>3. /\ \/ TurnedAway(q, r, "saved_group", id)
         \/ WritesGroup(q, r, item, h, x.seq, x.now)
      /\ q.db.grp[id].seq <= h => WritesGroup(q, r, item, h, x.seq, x.now)
  BY <1>0, UpsertGroupAnswers
<1>4. /\ r.upserts = q.upserts /\ SameLedgers(q, r)
  BY <1>3 DEF TurnedAway, WritesGroup, Answered
<1>5. q.db.grp[id].seq \in Nat
  BY <1>0 DEF Database, GroupRow
<1> HIDE DEF r
<1>6. CASE TurnedAway(q, r, "saved_group", id) /\ ~(q.db.grp[id].seq <= h)
  <2>1. r.db = q.db
    BY <1>6 DEF TurnedAway
  <2>2. id \in FreshGroups(q.db, h)
    BY <1>0, <1>5, <1>6 DEF FreshGroups
  <2>3. r \in GroupingOn(x, p)
    BY <1>2, <2>1 DEF GroupingOn
  <2> QED BY <1>1, <1>4, <2>1, <2>2, <2>3 DEF RowStored, SameLedgers
<1>7. CASE WritesGroup(q, r, item, h, x.seq, x.now)
  <2>1. q.db.grp[id].seq <= h /\ r.db = [q.db EXCEPT !.grp[id] = row]
    BY <1>7 DEF WritesGroup
  <2>2. row.is_deleted = item.state /\ row.workspace_id = item.parent /\ row.seq = x.seq
    BY DEF StoredChild
  <2> HIDE DEF row
  <2>3. /\ r.db.ws = q.db.ws /\ r.db.col = q.db.col /\ r.db.bm = q.db.bm
        /\ \A g \in Groups : r.db.grp[g] = IF g = id THEN row ELSE q.db.grp[g]
    BY <1>0, <2>1 DEF Database
  <2>4. PurgedEmpty(r.db)
    BY <1>0, <2>2, <2>3, StoredLeavesNothing
  <2>5. r \in GroupingOn(x, p)
    BY <1>2, <2>3, <2>4 DEF GroupingOn
  <2>6. id \notin FreshGroups(q.db, h)
    BY <1>0, <1>5, <2>1 DEF FreshGroups
  <2>7. row.seq > h
    BY <1>0, <2>2
  <2>8. \A k : k \in FreshGroups(r.db, h) <=> k \in FreshGroups(q.db, h) \/ k = id
    BY <1>0, <2>3, <2>7 DEF FreshGroups
  <2>9. item.state \in {Active, Retained} <=> item.state # Terminal
    BY <1>0 DEF Active, Retained, Terminal
  <2>10. \A k : k \in CountedGroups(r.db)
                  <=> IF k = id THEN item.state # Terminal ELSE k \in CountedGroups(q.db)
    BY <1>0, <2>2, <2>3, <2>9 DEF CountedGroups
  <2> QED BY <1>1, <1>4, <2>5, <2>6, <2>8, <2>10 DEF RowStored, SameLedgers
<1> QED BY <1>3, <1>6, <1>7

(* The groups of a push.                                                      *)
LEMMA GroupsSettle ==
    ASSUME NEW x \in Context, NEW req \in Request(x.version),
           NEW p, \A J : p \in Held(J), ChildrenInv(x, p.db, p), PurgedEmpty(p.db)
    PROVE  LET q == PushGroups(p, req, x) IN
           /\ q.db.ws = p.db.ws /\ q.db.col = p.db.col /\ q.db.bm = p.db.bm
           /\ PurgedEmpty(q.db)
           /\ GroupsReady(x, p) =>
                 Within(MaxSavedGroups, CountedGroups(x.before), CountedGroups(q.db))
<1> DEFINE h == x.horizon
           H == GroupingOn(x, p)
           I == OpenGroup(p.db)
           Q == [s \in H |-> s.grpQuota]
           L == [s \in H |-> CountedGroups(s.db)]
           F == [s \in H |-> FreshGroups(s.db, h)]
           before == CountedGroups(x.before)
           list == req.grp
           sorted == Each("groups", p, list, x)
           last == Each("group upserts", sorted, sorted.upserts, x)
           q == [last EXCEPT !.upserts = <<>>]
<1>0. PushGroups(p, req, x) = q
  BY DEF PushGroups, Batch
<1>1. list \in Seq(GroupItems) /\ before \in SUBSET Groups
  BY DEF Request, CountedGroups
<1>2. p \in H /\ Ids(p.upserts) = {}
  BY NothingWaits DEF GroupingOn, Grouping
<1>3. Keeps(H, I, Groups, Q)
  <2> SUFFICES ASSUME NEW s \in H PROVE s.upserts \in Seq(I) /\ s.grpQuota \in Ledger(Groups)
    BY DEF Keeps
  <2>1. s \in Held(I)
    BY DEF GroupingOn, Grouping
  <2> QED BY <2>1, HeldFields
<1>4. SortsCounted("groups", GroupItems, x, H, Q, L, F)
  <2> SUFFICES ASSUME NEW s \in H, NEW o \in GroupItems
               PROVE  LET r == Turn("groups", s, o, x) IN
                      /\ r \in H /\ L[r] = L[s] /\ F[r] = F[s]
                      /\ \/ Q[r] = Q[s] /\ r.upserts = s.upserts
                         \/ /\ Admitted(Q[s], o.id, o.state = Terminal)
                            /\ Q[r] = Admit(Q[s], o.id, o.state = Terminal)
                            /\ r.upserts = Append(s.upserts, o)
    BY DEF SortsCounted
  <2> DEFINE r == Turn("groups", s, o, x)
  <2>1. /\ r \in H /\ r.db = s.db
        /\ \/ r.grpQuota = s.grpQuota /\ r.upserts = s.upserts
           \/ /\ Admitted(s.grpQuota, o.id, o.state = Terminal)
              /\ r.grpQuota = Admit(s.grpQuota, o.id, o.state = Terminal)
              /\ r.upserts = Append(s.upserts, o)
    BY SortGroupCounts
  <2> HIDE DEF r, H
  <2> QED BY <2>1 DEF r
<1>5. StoresCounted("group upserts", I, x, H, Q, L, F)
  <2> SUFFICES ASSUME NEW s \in H, NEW o \in I
               PROVE  LET r == Turn("group upserts", s, o, x) IN
                      /\ r \in H /\ r.upserts = s.upserts /\ Q[r] = Q[s]
                      /\ RowStored(o.id, o.state, L[s], F[s], L[r], F[r])
    BY DEF StoresCounted
  <2> DEFINE r == Turn("group upserts", s, o, x)
  <2>1. /\ r \in H /\ r.upserts = s.upserts /\ r.grpQuota = s.grpQuota
        /\ RowStored(o.id, o.state, CountedGroups(s.db), FreshGroups(s.db, h),
                     CountedGroups(r.db), FreshGroups(r.db, h))
    BY StoreGroupCounts
  <2> HIDE DEF r, H
  <2> QED BY <2>1 DEF r
<1>6. /\ Q[p] = p.grpQuota /\ L[p] = CountedGroups(p.db) /\ F[p] = FreshGroups(p.db, h)
      /\ \A s \in H : L[s] = CountedGroups(s.db)
  BY <1>2
<1>7. \A o \in GroupItems : o.id \in Groups
  BY DEF GroupItems
<1> HIDE DEF Q, L, F, H, I, before, list
<1>8. /\ sorted \in H /\ last \in H
      /\ Ready(Q[p], MaxSavedGroups, before, L[p], F[p]) => Within(MaxSavedGroups, before, L[last])
  BY <1>1, <1>2, <1>3, <1>4, <1>5, <1>7, TableAssumption, TableFits
<1> HIDE DEF last, sorted
<1>9. /\ last \in Held(I) /\ last.db.ws = p.db.ws
      /\ last.db.col = p.db.col /\ last.db.bm = p.db.bm /\ PurgedEmpty(last.db)
  BY <1>8 DEF H, I, GroupingOn, Grouping, ChildrenInv
<1>10. q.db = last.db
  OBVIOUS
<1> HIDE DEF q
<1>11. GroupsReady(x, p) => Within(MaxSavedGroups, before, CountedGroups(q.db))
  BY <1>6, <1>8, <1>10 DEF GroupsReady, before
<1> QED BY <1>0, <1>9, <1>10, <1>11 DEF before

(* No table has gone over its limit.                                          *)
Limited(d, e) ==
    /\ Within(MaxWorkspaces, CountedWorkspaces(d), CountedWorkspaces(e))
    /\ Within(MaxCollections, CountedCollections(d), CountedCollections(e))
    /\ Within(MaxSavedGroups, CountedGroups(d), CountedGroups(e))
    /\ Within(MaxBookmarks, CountedBookmarks(d), CountedBookmarks(e))

(* The whole push: each table in its turn, by the ledger the ones before it   *)
(* have left.                                                                 *)
LEMMA PushedQuotas ==
    ASSUME NEW d \in Database, Sound(d), NEW horizon \in Nat, NEW seq \in Nat, horizon < seq,
           NEW now \in Nat, NEW version \in {0, 2}, NEW req \in Request(version)
    PROVE  LET e == Pushed(d, req, horizon, seq, now).db IN
           Sound(e) /\ (Kept(d, e) => Limited(d, e))
<1> DEFINE x == [before |-> d, version |-> req.version, horizon |-> horizon, seq |-> seq, now |-> now,
                 metadata |-> {w \in Workspaces : \E i \in DOMAIN req.ws :
                                  req.ws[i].id = w /\ req.ws[i].op = "metadata"}]
           p1 == PushWorkspaces(Start(d, horizon), req, x)
           p2 == PushCollections(p1, req, x)
           p3 == PushBookmarks(p2, req, x)
           p4 == PushGroups(p3, req, x)
<1>1. req.version = version
  BY DEF Request
<1>2. x \in Context /\ x.before = d /\ x.version = version /\ x.horizon = horizon /\ x.seq = seq
  BY <1>1 DEF Context, Known
<1>3. Pushed(d, req, horizon, seq, now) = p4
  BY DEF Pushed
<1> HIDE DEF x
<1>4. (\A J : p1 \in Held(J)) /\ ChildrenInv(x, p1.db, p1)
  BY <1>2, PushWorkspacesKeeps
<1>5. Settled(x, p1)
  BY <1>2, WorkspacesSettle
<1>6. PurgedEmpty(p1.db)
  BY <1>5 DEF Settled, Sound
<1> HIDE DEF p1
<1>7. (\A J : p2 \in Held(J)) /\ ChildrenInv(x, p1.db, p2)
  BY <1>2, <1>4, PushCollectionsKeeps
<1>8. /\ PurgedEmpty(p2.db) /\ p2.db.ws = p1.db.ws
      /\ CollectionsReady(x, p1) =>
            Within(MaxCollections, CountedCollections(x.before), CountedCollections(p2.db))
      /\ (\A b \in Bookmarks : p1.db.bm[b] \in {x.before.bm[b], NoBookmark}) /\ BookmarksReady(x, p1)
            => BookmarksReady(x, p2)
      /\ GroupsReady(x, p1) => GroupsReady(x, p2)
  BY <1>2, <1>4, <1>6, CollectionsSettle
<1> HIDE DEF p2
<1>9. ChildrenInv(x, p2.db, p2)
  BY <1>7 DEF ChildrenInv
<1>10. (\A J : p3 \in Held(J)) /\ ChildrenInv(x, p2.db, p3)
  BY <1>2, <1>7, <1>9, PushBookmarksKeeps
<1>11. /\ p3.db.ws = p2.db.ws /\ p3.db.col = p2.db.col /\ p3.db.grp = p2.db.grp
       /\ p3.grpQuota = p2.grpQuota
       /\ BookmarksReady(x, p2) =>
             Within(MaxBookmarks, CountedBookmarks(x.before), CountedBookmarks(p3.db))
  BY <1>2, <1>7, <1>9, BookmarksSettle
<1> HIDE DEF p3
<1>12. ChildrenInv(x, p3.db, p3)
  BY <1>10 DEF ChildrenInv
<1>13. PurgedEmpty(p3.db)
  BY <1>8, <1>11 DEF PurgedEmpty, NothingUnder, CollectionsOf, GroupsOf
<1>14. /\ p4.db.ws = p3.db.ws /\ p4.db.col = p3.db.col /\ p4.db.bm = p3.db.bm
       /\ PurgedEmpty(p4.db)
       /\ GroupsReady(x, p3) =>
             Within(MaxSavedGroups, CountedGroups(x.before), CountedGroups(p4.db))
  BY <1>2, <1>10, <1>12, <1>13, GroupsSettle
<1> HIDE DEF p4
<1>15. p4.db.ws = p1.db.ws
  BY <1>8, <1>11, <1>14
<1>16. Sound(p4.db)
  BY <1>5, <1>14, <1>15 DEF Settled, Sound, Plain
<1>17. ASSUME Kept(d, p4.db) PROVE Limited(d, p4.db)
  <2>1. Kept(x.before, p1.db)
    BY <1>2, <1>15, <1>17 DEF Kept
  <2>2. /\ Within(MaxWorkspaces, CountedWorkspaces(d), CountedWorkspaces(p1.db))
        /\ \A b \in Bookmarks : p1.db.bm[b] \in {x.before.bm[b], NoBookmark}
        /\ CollectionsReady(x, p1) /\ BookmarksReady(x, p1) /\ GroupsReady(x, p1)
    BY <1>2, <1>5, <2>1 DEF Settled, Stocked, Remains
  <2>3. Within(MaxCollections, CountedCollections(d), CountedCollections(p2.db))
    BY <1>2, <1>8, <2>2
  <2>4. Within(MaxBookmarks, CountedBookmarks(d), CountedBookmarks(p3.db))
    BY <1>2, <1>8, <1>11, <2>2
  <2>5. GroupsReady(x, p3)
    BY <1>8, <1>11, <2>2 DEF GroupsReady, CountedGroups, FreshGroups
  <2>6. Within(MaxSavedGroups, CountedGroups(d), CountedGroups(p4.db))
    BY <1>2, <1>14, <2>5
  <2>7. /\ CountedWorkspaces(p4.db) = CountedWorkspaces(p1.db)
        /\ CountedCollections(p4.db) = CountedCollections(p2.db)
        /\ CountedBookmarks(p4.db) = CountedBookmarks(p3.db)
    BY <1>11, <1>14, <1>15 DEF CountedWorkspaces, CountedCollections, CountedBookmarks
  <2> QED BY <2>2, <2>3, <2>4, <2>6, <2>7 DEF Limited
<1> QED BY <1>3, <1>16, <1>17

-------------------------------------------------------------------------------
(* The transitions.                                                           *)

(* The tables before the first push are sound.                                *)
LEMMA PushInitSound == PushInit => Sound(db)
<1> SUFFICES ASSUME PushInit PROVE Sound(db)
  OBVIOUS
<1>1. PICK w \in Workspaces, C \in SomeOf(Collections), B \in SomeOf(Bookmarks), G \in {{}, Groups} :
         \E d \in Moved(Stored(EmptyDatabase, C, B, G, w)) : db = [d EXCEPT !.seq = 3]
  BY DEF PushInit
<1> DEFINE s == Stored(EmptyDatabase, C, B, G, w)
<1>2. PICK d \in Moved(s) : db = [d EXCEPT !.seq = 3]
  BY <1>1
<1>3. s \in Database
  BY StoredInit
<1>4. s.ws = [v \in Workspaces |-> [is_deleted |-> Active, deletion_model |-> 1,
                                    deleted_at |-> Null, seq |-> 1]]
  BY DEF Stored, EmptyDatabase
<1> HIDE DEF s
<1>5. Sound(s)
  <2>1. Active # Terminal
    BY DEF Active, Terminal
  <2> QED BY <1>4, <2>1 DEF Sound, Plain, PurgedEmpty
<1>6. "delete" \in LifecycleActions /\ "purge" \in LifecycleActions
  BY DEF LifecycleActions
<1>7. \A v \in Workspaces, model \in {0, 1} :
         /\ Applied(s, v, "delete", model, 3, 0) \in Database /\ Sound(Applied(s, v, "delete", model, 3, 0))
         /\ Applied(s, v, "delete", model, 2, 0) \in Database /\ Sound(Applied(s, v, "delete", model, 2, 0))
  BY <1>3, <1>5, <1>6, AppliedType, AppliedSound
<1>8. \A v \in Workspaces, model \in {0, 1} :
         LET e == Applied(Applied(s, v, "delete", model, 2, 0), v, "purge", 1, 3, 0) IN
         e \in Database /\ Sound(e)
  BY <1>6, <1>7, AppliedType, AppliedSound
<1>9. d \in Database /\ Sound(d)
  BY <1>2, <1>3, <1>5, <1>7, <1>8 DEF Moved
<1>10. db.ws = d.ws /\ db.col = d.col /\ db.grp = d.grp
  BY <1>2, <1>9 DEF Database
<1> QED BY <1>9, <1>10 DEF Sound, Plain, PurgedEmpty, NothingUnder, CollectionsOf, GroupsOf

(* A push or a restore moves a legacy deletion, or no table goes over its     *)
(* limit.                                                                     *)
LEMMA PushStepQuotas ==
    ASSUME TypeOK, Sound(db), PushNext
    PROVE  \E e \in Database : Store(e) /\ Sound(e) /\ (Kept(db, e) => Limited(db, e))
<1>0. /\ db \in Database /\ clock \in Nat /\ db.seq \in Nat /\ NextSeq(db) \in Nat
      /\ NextSeq(db) = db.seq + 1
  BY DEF TypeOK, NextSeq, Database
<1>1. ASSUME NEW req \in Requests, NEW horizon \in Horizons(db), Push(req, horizon)
      PROVE  \E e \in Database : Store(e) /\ Sound(e) /\ (Kept(db, e) => Limited(db, e))
  <2> DEFINE e == Pushed(db, req, horizon, NextSeq(db), clock).db
  <2>1. horizon \in Nat /\ horizon < NextSeq(db)
    BY <1>0 DEF Horizons
  <2>2. PICK version \in {0, 2} : req \in Request(version)
    BY RequestType
  <2>3. e \in Database
    BY <1>0, <2>1, <2>2, PushedTrail
  <2>4. Sound(e) /\ (Kept(db, e) => Limited(db, e))
    BY <1>0, <2>1, <2>2, PushedQuotas
  <2>5. Store(e)
    BY <1>1 DEF Push, Commit
  <2> HIDE DEF e
  <2> QED BY <2>3, <2>4, <2>5
<1>2. ASSUME NEW w \in Workspaces, RestoreWorkspace(w)
      PROVE  \E e \in Database : Store(e) /\ Sound(e) /\ (Kept(db, e) => Limited(db, e))
  <2> DEFINE e == Applied(db, w, "restore", 1, NextSeq(db), clock)
  <2>1. Accepted(db, w, "restore", 1) /\ Store(e)
    BY <1>2 DEF RestoreWorkspace, Apply, Accepted, Commit
  <2>2. e \in Database /\ Sound(e) /\ RestoreStep(db, e, w, NextSeq(db))
    <3>1. "restore" \in LifecycleActions /\ "restore" # "delete" /\ "restore" # "purge"
      BY DEF LifecycleActions
    <3> QED BY <1>0, <2>1, <3>1, AppliedType, AppliedSound, AppliedRows
  <2> HIDE DEF e
  <2>3. ASSUME Kept(db, e) PROVE Limited(db, e)
    <3>1. \A v \in Workspaces : e.ws[v] = IF v = w THEN RestoredRow(NextSeq(db)) ELSE db.ws[v]
      BY <1>0, <2>2 DEF RestoreStep, OneRow, Database
    <3>2. RestoredRow(NextSeq(db)).is_deleted = Active /\ RestoredRow(NextSeq(db)).deletion_model = 1
      BY DEF RestoredRow
    <3>3. db.ws[w].deletion_model = 1
      BY <2>3, <3>1, <3>2 DEF Kept
    <3>4. SameChildren(db, e) /\ db.ws[w].is_deleted = Retained
      BY <2>2, <3>3 DEF RestoreStep
    <3>5. /\ CountedWorkspaces(e) = CountedWorkspaces(db)
          /\ CountedCollections(e) = CountedCollections(db)
          /\ CountedGroups(e) = CountedGroups(db)
          /\ CountedBookmarks(e) = CountedBookmarks(db)
      BY <3>1, <3>2, <3>4
         DEF SameChildren, CountedWorkspaces, CountedCollections, CountedGroups, CountedBookmarks
    <3>6. /\ IsFiniteSet(CountedWorkspaces(db)) /\ IsFiniteSet(CountedCollections(db))
          /\ IsFiniteSet(CountedGroups(db)) /\ IsFiniteSet(CountedBookmarks(db))
      BY TableAssumption, FS_Subset
         DEF CountedWorkspaces, CountedCollections, CountedGroups, CountedBookmarks
    <3>7. ASSUME NEW limit \in Nat \cup {Unlimited}, NEW S, IsFiniteSet(S) PROVE Within(limit, S, S)
      <4>1. Ready(NewRetainedQuota(limit, S, S \cap S), limit, S, S, S)
        BY <3>7, NewLedger
      <4> QED BY <4>1 DEF Ready, Fits, NewRetainedQuota
    <3> QED BY <3>5, <3>6, <3>7, PlanAssumption DEF Limited
  <2> QED BY <2>1, <2>2, <2>3
<1> QED BY <1>1, <1>2 DEF PushNext

(* The same of the stored tables, with the words of the property.             *)
LEMMA PushKeepsLimits ==
    TypeOK /\ Sound(db) /\ [PushNext]_searchVars =>
        Sound(db)' /\ (db' = db \/ LegacyMove \/ WithinQuotas)
<1> SUFFICES ASSUME TypeOK, Sound(db), [PushNext]_searchVars
             PROVE  Sound(db') /\ (db' = db \/ LegacyMove \/ WithinQuotas)
  OBVIOUS
<1>1. CASE PushNext
  <2>1. PICK e \in Database : Store(e) /\ Sound(e) /\ (Kept(db, e) => Limited(db, e))
    BY <1>1, PushStepQuotas
  <2>2. db'.ws = e.ws /\ db'.col = e.col /\ db'.bm = e.bm /\ db'.grp = e.grp
    BY <2>1, StoreTables
  <2>3. Sound(db')
    BY <2>1, <2>2 DEF Sound, Plain, PurgedEmpty, NothingUnder, CollectionsOf, GroupsOf
  <2>4. ASSUME ~LegacyMove PROVE WithinQuotas
    <3>1. Kept(db, e)
      BY <2>2, <2>4 DEF LegacyMove, Kept
    <3>2. Limited(db, e)
      BY <2>1, <3>1
    <3>3. /\ DOMAIN db.ws = Workspaces /\ DOMAIN db.col = Collections
          /\ DOMAIN db.bm = Bookmarks /\ DOMAIN db.grp = Groups
          /\ DOMAIN e.ws = Workspaces /\ DOMAIN e.col = Collections
          /\ DOMAIN e.bm = Bookmarks /\ DOMAIN e.grp = Groups
      BY DEF TypeOK, Database
    <3> QED BY <2>2, <3>2, <3>3
         DEF Limited, WithinQuotas, Counted,
             CountedWorkspaces, CountedCollections, CountedGroups, CountedBookmarks
  <2> QED BY <2>3, <2>4
<1>2. CASE UNCHANGED searchVars
  BY <1>2 DEF searchVars
<1> QED BY <1>1, <1>2

(* No push takes a table over the limit of its plan, whatever it lists and in *)
(* whatever order: what a purge or a tombstone gives back is given back once, *)
(* what comes after it is counted, and a table that was over its limit does   *)
(* not grow (the quota ledgers of sync.go).  Left out are the pushes that     *)
(* move a workspace into the legacy deletion model or out of it.              *)
THEOREM PushesKeepQuota == PushSpec => PushKeepsQuota
<1>1. TypeOK /\ Sound(db) /\ [PushNext]_searchVars => Sound(db)'
  BY PushKeepsLimits
<1>2. TypeOK /\ Sound(db) /\ [PushNext]_searchVars => [LegacyMove \/ WithinQuotas]_db
  BY PushKeepsLimits
<1> QED BY <1>1, <1>2, PushInitSound, PushTypeCorrect, PTL DEF PushSpec, PushKeepsQuota
===============================================================================
