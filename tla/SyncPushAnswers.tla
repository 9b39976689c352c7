---------------------------- MODULE SyncPushAnswers ----------------------------
(***************************************************************************)
(* Proofs about what a push answers and what it sends to the search index, *)
(* for requests of any length over any sets of ids: an entity listed once  *)
(* is rejected or stored as it was sent, a push that is refused whole      *)
(* changes nothing, and a live bookmark keeps or gets its document.        *)
(*                                                                         *)
(*  1. By its turn, as SyncPushProofs has it, an entity is turned away,    *)
(*     waits for the batch or is stored: the rejections and the queue.     *)
(*  2. What a loop makes of its list, and a batch of what waits: the       *)
(*     entity that is listed once is placed by its own turn, and no other  *)
(*     turn moves it.                                                      *)
(*  3. The four tables, and the push as their sequence: the first theorem. *)
(*  4. Documents.  What has become of a bookmark of a workspace after n    *)
(*     entries of the list (its Fate, and its Verdict over the             *)
(*     workspaces), and how the loops and the batch carry the verdict on.  *)
(*  5. What the collections, the bookmarks and the groups add to it; the   *)
(*     push and the restore as transitions: the second theorem.            *)
(***************************************************************************)
EXTENDS SyncPushProofs

-------------------------------------------------------------------------------
(* What a loop does with the entities of its list.                            *)

(* The ids of one type that are rejected.                                     *)
RejectedIds(p, type) == {r.id : r \in {s \in p.rejected : s.type = type}}

(* One turn of a loop that sorts out entities of a type: the entity is turned *)
(* away, waits or is dealt with.                                              *)
Sorts(p, q, type, item) == TurnedAway(p, q, type, item.id) \/ Waits(p, q, item) \/ Answered(p, q)

(* One turn of a batch.                                                       *)
Stores(p, q, type, item) == TurnedAway(p, q, type, item.id) \/ Answered(p, q)

(* What the turns of a loop over items of I do, in the states H.              *)
SortsAll(loop, I, x, type, H) ==
    \A q \in H, o \in I : Turn(loop, q, o, x) \in H /\ Sorts(q, Turn(loop, q, o, x), type, o)

StoresAll(loop, I, x, type, H) ==
    \A q \in H, o \in I : Turn(loop, q, o, x) \in H /\ Stores(q, Turn(loop, q, o, x), type, o)

(* It passes over the items that are not in M.                                *)
PassesOver(loop, I, x, H, M) == \A q \in H, o \in I : o \notin M => Turn(loop, q, o, x) = q

(* The turns on other ids keep the tables in E.                               *)
Spares(loop, I, x, H, id, E) ==
    \A q \in H, o \in I : o.id # id /\ q.db \in E => Turn(loop, q, o, x).db \in E

(* The turn on the item places it.                                            *)
Sends(loop, x, type, H, item, B, D, E) ==
    \A q \in H : q.db \in B =>
        LET r == Turn(loop, q, item, x) IN
        \/ TurnedAway(q, r, type, item.id)
        \/ Waits(q, r, item) /\ r.db \in E
        \/ Answered(q, r) /\ r.db \in D

Settles(loop, x, type, H, item, D, E) ==
    \A q \in H : q.db \in E =>
        LET r == Turn(loop, q, item, x) IN TurnedAway(q, r, type, item.id) \/ r.db \in D

(* A rejection is of one id of one type.                                      *)
LEMMA TurnedAwayIds ==
    ASSUME NEW p, NEW q, NEW type, NEW id, TurnedAway(p, q, type, id)
    PROVE  /\ RejectedIds(q, type) = RejectedIds(p, type) \cup {id}
           /\ \A t : t # type => RejectedIds(q, t) = RejectedIds(p, t)
<1>1. PICK reason : q.rejected = p.rejected \cup {[type |-> type, id |-> id, reason |-> reason]}
  BY DEF TurnedAway
<1> DEFINE r == [type |-> type, id |-> id, reason |-> reason]
<1>2. r.type = type /\ r.id = id
  OBVIOUS
<1>3. q.rejected = p.rejected \cup {r}
  BY <1>1
<1> HIDE DEF r
<1> QED BY <1>2, <1>3 DEF RejectedIds

(* What waits, or is dealt with, is not rejected.                             *)
LEMMA SortedIds ==
    ASSUME NEW p, NEW q, NEW type, NEW item, Sorts(p, q, type, item)
    PROVE  /\ RejectedIds(p, type) \subseteq RejectedIds(q, type)
           /\ RejectedIds(q, type) \subseteq RejectedIds(p, type) \cup {item.id}
           /\ \A t : t # type => RejectedIds(q, t) = RejectedIds(p, t)
           /\ Waits(p, q, item) \/ Answered(p, q) => RejectedIds(q, type) = RejectedIds(p, type)
           /\ q.upserts \in {p.upserts, Append(p.upserts, item)}
<1>1. CASE TurnedAway(p, q, type, item.id)
  BY <1>1, TurnedAwayIds DEF TurnedAway, Waits, Answered, RejectedIds
<1>2. CASE Waits(p, q, item)
  BY <1>2 DEF Waits, RejectedIds
<1>3. CASE Answered(p, q)
  BY <1>3 DEF Answered, RejectedIds
<1> QED BY <1>1, <1>2, <1>3 DEF Sorts

(* A loop reaches, at the turn of an item that its list names once, the       *)
(* states that this turn leads to and the others keep.                        *)
LEMMA EachReaches ==
    ASSUME NEW loop, NEW I, NEW list \in Seq(I), NEW item, Lone(list, item), NEW x, NEW S, NEW T,
           NEW p \in S,
           \A q \in S, o \in I : o.id # item.id => Turn(loop, q, o, x) \in S,
           \A q \in S : Turn(loop, q, item, x) \in T,
           \A q \in T, o \in I : o.id # item.id => Turn(loop, q, o, x) \in T
    PROVE  Each(loop, p, list, x) \in T
<1>1. PICK i \in DOMAIN list : list[i] = item /\ Once(list, i)
  BY DEF Lone
<1>2. Len(list) \in Nat /\ i \in 1..Len(list)
      /\ \A n \in 1..Len(list) : list[n] \in I /\ (n # i => list[n].id # item.id)
  BY <1>1 DEF Once
<1> DEFINE R == [n \in Nat |-> IF n < i THEN S ELSE T]
<1>3. p \in R[0]
  BY <1>2
<1>4. ASSUME NEW n \in 1..Len(list), NEW q \in R[n - 1]
      PROVE  Turn(loop, q, list[n], x) \in R[n]
  <2>1. CASE n < i
    BY <1>2, <2>1
  <2>2. CASE n = i
    BY <1>1, <1>2, <2>2
  <2>3. CASE n > i
    BY <1>2, <2>3
  <2> QED BY <1>2, <2>1, <2>2, <2>3
<1>5. Each(loop, p, list, x) \in R[Len(list)]
  <2> HIDE DEF R
  <2> QED BY <1>2, <1>3, <1>4, EachSteps
<1> QED BY <1>2, <1>5

(* To sort out the list of a request rejects ids of its type alone.           *)
LEMMA EachRejects ==
    ASSUME NEW loop, NEW I, NEW list \in Seq(I), NEW x, NEW type, NEW H, NEW p \in H,
           SortsAll(loop, I, x, type, H)
    PROVE  LET q == Each(loop, p, list, x) IN
           q \in H /\ \A t : t # type => RejectedIds(q, t) = RejectedIds(p, t)
<1>0. \A q \in H, o \in I : Turn(loop, q, o, x) \in H /\ Sorts(q, Turn(loop, q, o, x), type, o)
  BY DEF SortsAll
<1>1. Each(loop, p, list, x) \in H
  BY <1>0, EachKeeps
<1>2. ASSUME NEW t, t # type
      PROVE  RejectedIds(Each(loop, p, list, x), t) = RejectedIds(p, t)
  <2> DEFINE S == {q \in H : RejectedIds(q, t) = RejectedIds(p, t)}
  <2>1. ASSUME NEW q \in S, NEW o \in I PROVE Turn(loop, q, o, x) \in S
    BY <1>0, <1>2, SortedIds
  <2>2. p \in S
    OBVIOUS
  <2>3. Each(loop, p, list, x) \in S
    <3> HIDE DEF S
    <3> QED BY <2>1, <2>2, EachKeeps
  <2> QED BY <2>3
<1> QED BY <1>1, <1>2

-------------------------------------------------------------------------------
(* An item that its list names once.                                          *)

(* Where it is when the list is sorted out: rejected, dealt with (the tables  *)
(* are in D), or alone in the queue (they are in E).                          *)
Placed(q, type, item, D, E) ==
    \/ item.id \in RejectedIds(q, type)
    \/ item.id \notin Ids(q.upserts) /\ q.db \in D
    \/ Lone(q.upserts, item) /\ q.db \in E

(* A turn on another id leaves it there, when it leaves the tables in D and E. *)
LEMMA OtherStaysPlaced ==
    ASSUME NEW I, NEW q \in Held(I), NEW r, NEW type, NEW item, NEW o, NEW D, NEW E,
           o.id # item.id, Sorts(q, r, type, o),
           q.db \in D => r.db \in D, q.db \in E => r.db \in E
    PROVE  /\ item.id \notin Ids(q.upserts) => item.id \notin Ids(r.upserts)
           /\ Placed(q, type, item, D, E) => Placed(r, type, item, D, E)
<1>1. q.upserts \in Seq(I)
  BY HeldFields
<1>2. /\ RejectedIds(q, type) \subseteq RejectedIds(r, type)
      /\ r.upserts = q.upserts \/ r.upserts = Append(q.upserts, o)
  BY SortedIds
<1>3. /\ Ids(Append(q.upserts, o)) = Ids(q.upserts) \cup {o.id}
      /\ Lone(q.upserts, item) => Lone(Append(q.upserts, o), item)
  BY <1>1, AppendIds
<1> QED BY <1>2, <1>3 DEF Placed

(* Such an item is placed by the loop that sorts out the list.                *)
LEMMA SortPlaces ==
    ASSUME NEW loop, NEW I, NEW list \in Seq(I), NEW item, Lone(list, item), NEW x, NEW type,
           NEW J, NEW H \in SUBSET Held(J), NEW p \in H, NEW B, NEW D, NEW E,
           item.id \notin Ids(p.upserts), p.db \in B,
           SortsAll(loop, I, x, type, H),
           Spares(loop, I, x, H, item.id, B),
           Spares(loop, I, x, H, item.id, D),
           Spares(loop, I, x, H, item.id, E),
           Sends(loop, x, type, H, item, B, D, E)
    PROVE  LET q == Each(loop, p, list, x) IN q \in H /\ Placed(q, type, item, D, E)
<1> DEFINE S == {q \in H : item.id \notin Ids(q.upserts) /\ q.db \in B}
           T == {q \in H : Placed(q, type, item, D, E)}
<1>0. item \in I
  BY DEF Lone
<1>1. ASSUME NEW q \in S, NEW o \in I, o.id # item.id PROVE Turn(loop, q, o, x) \in S
  <2> DEFINE r == Turn(loop, q, o, x)
  <2>1. r \in H /\ Sorts(q, r, type, o) /\ r.db \in B
        /\ (q.db \in D => r.db \in D) /\ (q.db \in E => r.db \in E)
    BY <1>1 DEF SortsAll, Spares
  <2> HIDE DEF r
  <2>2. q \in Held(J)
    OBVIOUS
  <2>3. item.id \notin Ids(r.upserts)
    BY <1>1, <2>1, <2>2, OtherStaysPlaced
  <2> QED BY <2>1, <2>3 DEF r
<1>2. ASSUME NEW q \in S PROVE Turn(loop, q, item, x) \in T
  <2> DEFINE r == Turn(loop, q, item, x)
  <2>1. /\ r \in H
        /\ \/ TurnedAway(q, r, type, item.id)
           \/ Waits(q, r, item) /\ r.db \in E
           \/ Answered(q, r) /\ r.db \in D
    BY <1>0 DEF SortsAll, Sends
  <2>2. q.upserts \in Seq(J)
    BY HeldFields
  <2> HIDE DEF r
  <2>3. CASE TurnedAway(q, r, type, item.id)
    BY <2>1, <2>3, TurnedAwayIds DEF Placed, r
  <2>4. CASE Waits(q, r, item) /\ r.db \in E
    <3>1. r.upserts = Append(q.upserts, item)
      BY <2>4 DEF Waits
    <3>2. Lone(r.upserts, item)
      BY <2>2, <3>1, AppendIds
    <3> QED BY <2>1, <2>4, <3>2 DEF Placed, r
  <2>5. CASE Answered(q, r) /\ r.db \in D
    BY <2>1, <2>5 DEF Answered, Placed, r
  <2> QED BY <2>1, <2>3, <2>4, <2>5 DEF r
<1>3. ASSUME NEW q \in T, NEW o \in I, o.id # item.id PROVE Turn(loop, q, o, x) \in T
  <2> DEFINE r == Turn(loop, q, o, x)
  <2>1. r \in H /\ Sorts(q, r, type, o)
        /\ (q.db \in D => r.db \in D) /\ (q.db \in E => r.db \in E)
    BY <1>3 DEF SortsAll, Spares
  <2> HIDE DEF r
  <2>2. q \in Held(J)
    OBVIOUS
  <2>3. Placed(r, type, item, D, E)
    BY <1>3, <2>1, <2>2, OtherStaysPlaced
  <2> QED BY <2>1, <2>3 DEF r
<1>4. p \in S
  OBVIOUS
<1>5. Each(loop, p, list, x) \in T
  <2> HIDE DEF S, T
  <2> QED BY <1>1, <1>2, <1>3, <1>4, EachReaches
<1> QED BY <1>5

(* The batch: the item is rejected, or dealt with.                            *)
LEMMA BatchPlaces ==
    ASSUME NEW loop, NEW I, NEW H \in SUBSET Held(I), NEW p \in H, NEW x, NEW type,
           NEW item, NEW D, NEW E, Placed(p, type, item, D, E),
           StoresAll(loop, I, x, type, H),
           Spares(loop, I, x, H, item.id, D),
           Spares(loop, I, x, H, item.id, E),
           Settles(loop, x, type, H, item, D, E)
    PROVE  LET q == Batch(loop, p, x) IN item.id \in RejectedIds(q, type) \/ q.db \in D
<1> DEFINE list == p.upserts
           k == Each(loop, p, list, x)
           T == {q \in H : item.id \in RejectedIds(q, type) \/ q.db \in D}
           Others == {o \in I : o.id # item.id}
<1>0. list \in Seq(I)
  BY HeldFields
<1>1. ASSUME NEW q \in H, NEW o \in I
      PROVE  LET r == Turn(loop, q, o, x) IN
             /\ r \in H /\ Sorts(q, r, type, o)
             /\ RejectedIds(q, type) \subseteq RejectedIds(r, type)
  BY SortedIds DEF Sorts, Stores, StoresAll
<1>2. ASSUME item.id \in RejectedIds(p, type) PROVE k \in T
  <2> DEFINE S == {q \in H : item.id \in RejectedIds(q, type)}
  <2>1. ASSUME NEW q \in S, NEW o \in I PROVE Turn(loop, q, o, x) \in S
    BY <1>1
  <2>2. p \in S
    BY <1>2
  <2>3. k \in S
    <3> HIDE DEF S
    <3> QED BY <1>0, <2>1, <2>2, EachKeeps
  <2> QED BY <2>3
<1>3. ASSUME item.id \notin Ids(list) /\ p.db \in D PROVE k \in T
  <2>1. list \in Seq(Others)
    <3>1. Len(list) \in Nat /\ DOMAIN list = 1..Len(list)
          /\ \A i \in DOMAIN list : list[i] \in I /\ list[i].id # item.id
      BY <1>0, <1>3 DEF Ids
    <3>2. list = [i \in 1..Len(list) |-> list[i]]
      BY <1>0
    <3>3. \A i \in 1..Len(list) : list[i] \in Others
      BY <3>1
    <3> HIDE DEF Others, list
    <3> QED BY <3>1, <3>2, <3>3
  <2> DEFINE S == {q \in H : q.db \in D}
  <2>2. ASSUME NEW q \in S, NEW o \in Others PROVE Turn(loop, q, o, x) \in S
    BY <1>1 DEF Spares
  <2>3. p \in S
    BY <1>3
  <2>4. k \in S
    <3> HIDE DEF S, Others
    <3> QED BY <2>1, <2>2, <2>3, EachKeeps
  <2> QED BY <2>4
<1>4. ASSUME Lone(list, item) /\ p.db \in E PROVE k \in T
  <2> DEFINE S == {q \in H : q.db \in E}
  <2>0. item \in I
    BY <1>0, <1>4 DEF Lone
  <2>1. ASSUME NEW q \in S, NEW o \in I, o.id # item.id PROVE Turn(loop, q, o, x) \in S
    BY <1>1, <2>1 DEF Spares
  <2>2. ASSUME NEW q \in S PROVE Turn(loop, q, item, x) \in T
    BY <1>1, <2>0, TurnedAwayIds DEF Settles
  <2>3. ASSUME NEW q \in T, NEW o \in I, o.id # item.id PROVE Turn(loop, q, o, x) \in T
    BY <1>1, <2>3 DEF Spares
  <2>4. p \in S
    BY <1>4
  <2>5. k \in T
    <3> HIDE DEF S, T
    <3> QED BY <1>0, <1>4, <2>1, <2>2, <2>3, <2>4, EachReaches
  <2> QED BY <2>5
<1>5. k \in T
  BY <1>2, <1>3, <1>4 DEF Placed
<1>6. Batch(loop, p, x) = [k EXCEPT !.upserts = <<>>]
  BY DEF Batch
<1>7. k \in H
  BY <1>5
<1> HIDE DEF k
<1>8. LET q == [k EXCEPT !.upserts = <<>>] IN q.db = k.db /\ q.rejected = k.rejected
  BY <1>7 DEF Held
<1> HIDE DEF T
<1>9. LET q == [k EXCEPT !.upserts = <<>>] IN RejectedIds(q, type) = RejectedIds(k, type)
  BY <1>8 DEF RejectedIds
<1> QED BY <1>5, <1>6, <1>8, <1>9 DEF T

-------------------------------------------------------------------------------
(* A list without two entities of one id.                                     *)

(* A are the ids that were sorted out, from the tables d: what is rejected or *)
(* waits is among them, and if the tables differ, so is one that does neither. *)
SortedOut(q, d, type, A) ==
    /\ RejectedIds(q, type) \subseteq A
    /\ Ids(q.upserts) \subseteq A \ RejectedIds(q, type)
    /\ Single(q.upserts)
    /\ q.db = d \/ \E a \in A : a \notin RejectedIds(q, type) /\ a \notin Ids(q.upserts)

(* The next entity is not among them, and then it is.                         *)
LEMMA SortedOutTurn ==
    ASSUME NEW I, NEW q \in Held(I), NEW r, NEW d, NEW type, NEW A, NEW item, item.id \notin A,
           SortedOut(q, d, type, A), Sorts(q, r, type, item)
    PROVE  SortedOut(r, d, type, A \cup {item.id})
<1>0. q.upserts \in Seq(I)
  BY HeldFields
<1>1. CASE TurnedAway(q, r, type, item.id)
  <2>1. RejectedIds(r, type) = RejectedIds(q, type) \cup {item.id}
    BY <1>1, TurnedAwayIds
  <2>2. r.db = q.db /\ r.upserts = q.upserts
    BY <1>1 DEF TurnedAway
  <2> QED BY <2>1, <2>2 DEF SortedOut
<1>2. CASE Waits(q, r, item)
  <2>1. r.db = q.db /\ r.upserts = Append(q.upserts, item) /\ r.rejected = q.rejected
    BY <1>2 DEF Waits
  <2>2. RejectedIds(r, type) = RejectedIds(q, type)
    BY <2>1 DEF RejectedIds
  <2>3. item.id \notin Ids(q.upserts)
    BY DEF SortedOut
  <2>4. Ids(r.upserts) = Ids(q.upserts) \cup {item.id} /\ Single(r.upserts)
    BY <1>0, <2>1, <2>3, AppendIds DEF SortedOut
  <2> QED BY <2>1, <2>2, <2>4 DEF SortedOut
<1>3. CASE Answered(q, r)
  <2>1. r.upserts = q.upserts /\ r.rejected = q.rejected
    BY <1>3 DEF Answered
  <2>2. RejectedIds(r, type) = RejectedIds(q, type)
    BY <2>1 DEF RejectedIds
  <2>3. item.id \notin RejectedIds(r, type) /\ item.id \notin Ids(r.upserts)
    BY <2>1, <2>2 DEF SortedOut
  <2> QED BY <2>1, <2>2, <2>3 DEF SortedOut
<1> QED BY <1>1, <1>2, <1>3 DEF Sorts

(* The ids of the items of M.                                                 *)
IdsIn(list, M) == {list[i].id : i \in {j \in DOMAIN list : list[j] \in M}}

(* No item of M has an id of A.                                               *)
Fresh(list, M, A) == \A i \in DOMAIN list : list[i] \in M => list[i].id \notin A

(* A loop sorts out the entities it is for, M; it passes over the others.     *)
LEMMA SortsOut ==
    ASSUME NEW loop, NEW I, NEW list \in Seq(I), Single(list), NEW x, NEW type,
           NEW J, NEW H \in SUBSET Held(J), NEW p \in H, NEW d, NEW A, NEW M,
           SortedOut(p, d, type, A), Fresh(list, M, A),
           SortsAll(loop, I, x, type, H), PassesOver(loop, I, x, H, M)
    PROVE  LET q == Each(loop, p, list, x) IN
           q \in H /\ SortedOut(q, d, type, A \cup IdsIn(list, M))
<1> DEFINE Met(n) == {list[i].id : i \in {j \in 1..n : list[j] \in M}}
           S == [n \in Nat |-> {q \in H : SortedOut(q, d, type, A \cup Met(n))}]
<1>1. Len(list) \in Nat /\ DOMAIN list = 1..Len(list) /\ \A n \in 1..Len(list) : list[n] \in I
  OBVIOUS
<1>2. p \in S[0]
  <2>1. A \cup Met(0) = A
    OBVIOUS
  <2> HIDE DEF Met
  <2> QED BY <2>1
<1>3. ASSUME NEW n \in 1..Len(list), NEW q \in S[n - 1]
      PROVE  Turn(loop, q, list[n], x) \in S[n]
  <2> DEFINE r == Turn(loop, q, list[n], x)
  <2>1. /\ n \in Nat /\ n - 1 \in Nat /\ n \in DOMAIN list /\ list[n] \in I
        /\ q \in H /\ r \in H
        /\ SortedOut(q, d, type, A \cup Met(n - 1))
    <3>1. n \in Nat /\ n - 1 \in Nat /\ n \in DOMAIN list /\ list[n] \in I
      BY <1>1
    <3> HIDE DEF Met
    <3> QED BY <3>1 DEF SortsAll
  <2>2. CASE list[n] \in M
    <3>1. Met(n) = Met(n - 1) \cup {list[n].id}
      <4>1. {j \in 1..n : list[j] \in M} = {j \in 1..(n - 1) : list[j] \in M} \cup {n}
        BY <2>1, <2>2
      <4> QED BY <4>1
    <3>2. list[n].id \notin Met(n - 1)
      <4>1. \A j \in 1..(n - 1) : list[j].id # list[n].id
        BY <1>1, <2>1 DEF Single, Once
      <4> QED BY <4>1
    <3>3. list[n].id \notin A /\ Sorts(q, r, type, list[n])
      BY <2>1, <2>2 DEF SortsAll, Fresh
    <3>4. (A \cup Met(n - 1)) \cup {list[n].id} = A \cup Met(n)
      BY <3>1
    <3> HIDE DEF Met, r
    <3>5. SortedOut(r, d, type, (A \cup Met(n - 1)) \cup {list[n].id})
      BY <2>1, <3>2, <3>3, SortedOutTurn
    <3> QED BY <2>1, <3>4, <3>5 DEF r
  <2>3. CASE list[n] \notin M
    <3>1. {j \in 1..n : list[j] \in M} = {j \in 1..(n - 1) : list[j] \in M}
      BY <2>1, <2>3
    <3>2. Met(n) = Met(n - 1)
      BY <3>1
    <3>3. r = q
      BY <2>1, <2>3 DEF PassesOver
    <3> HIDE DEF Met
    <3> QED BY <2>1, <3>2, <3>3
  <2> QED BY <2>2, <2>3
<1>4. Each(loop, p, list, x) \in S[Len(list)]
  <2> HIDE DEF S
  <2> QED BY <1>2, <1>3, EachSteps
<1>5. Met(Len(list)) = IdsIn(list, M)
  BY <1>1 DEF IdsIn
<1> HIDE DEF Met
<1>6. LET q == Each(loop, p, list, x) IN q \in H /\ SortedOut(q, d, type, A \cup Met(Len(list)))
  BY <1>1, <1>4
<1> QED BY <1>5, <1>6

(* What is left to a batch, B, is not rejected.                               *)
LeftOut(q, d, type, A, B) ==
    /\ RejectedIds(q, type) \subseteq A
    /\ B \subseteq A \ RejectedIds(q, type)
    /\ q.db = d \/ \E a \in A : a \notin RejectedIds(q, type) /\ a \notin B

(* A batch stores what it does not reject.                                    *)
LEMMA BatchSortsOut ==
    ASSUME NEW loop, NEW I, NEW H \in SUBSET Held(I), NEW p \in H, NEW x, NEW type, NEW d, NEW A,
           SortedOut(p, d, type, A),
           StoresAll(loop, I, x, type, H)
    PROVE  LET q == Batch(loop, p, x) IN
           /\ RejectedIds(q, type) \subseteq A
           /\ A \subseteq RejectedIds(q, type) => q.db = d
<1> DEFINE list == p.upserts
           k == Each(loop, p, list, x)
           Left(n) == {list[i].id : i \in (n + 1)..Len(list)}
           S == [n \in Nat |-> {q \in H : LeftOut(q, d, type, A, Left(n))}]
<1>0. list \in Seq(I)
  BY HeldFields
<1>1. Len(list) \in Nat /\ DOMAIN list = 1..Len(list) /\ \A n \in 1..Len(list) : list[n] \in I
  BY <1>0
<1>2. p \in S[0]
  <2>1. Left(0) = Ids(list)
    BY <1>1 DEF Ids
  <2> HIDE DEF Left
  <2> QED BY <2>1 DEF LeftOut, SortedOut
<1>3. ASSUME NEW n \in 1..Len(list), NEW q \in S[n - 1]
      PROVE  Turn(loop, q, list[n], x) \in S[n]
  <2> DEFINE r == Turn(loop, q, list[n], x)
  <2>1. n \in Nat /\ n - 1 \in Nat /\ n \in DOMAIN list /\ list[n] \in I
    BY <1>1
  <2>2. q \in H /\ r \in H /\ Stores(q, r, type, list[n]) /\ LeftOut(q, d, type, A, Left(n - 1))
    <3> HIDE DEF Left, list
    <3> QED BY <2>1 DEF StoresAll
  <2>3. Left(n - 1) = Left(n) \cup {list[n].id}
    <3>1. ((n - 1) + 1)..Len(list) = ((n + 1)..Len(list)) \cup {n}
      BY <1>1, <2>1
    <3> HIDE DEF list
    <3> QED BY <3>1
  <2>4. list[n].id \notin Left(n)
    <3>1. \A j \in (n + 1)..Len(list) : j \in DOMAIN list \ {n}
      BY <1>1, <2>1
    <3>2. \A j \in (n + 1)..Len(list) : list[j].id # list[n].id
      BY <2>1, <3>1 DEF SortedOut, Single, Once
    <3> HIDE DEF list
    <3> QED BY <3>2
  <2> HIDE DEF Left, r
  <2>5. CASE TurnedAway(q, r, type, list[n].id)
    <3>1. RejectedIds(r, type) = RejectedIds(q, type) \cup {list[n].id}
      BY <2>5, TurnedAwayIds
    <3>2. r.db = q.db
      BY <2>5 DEF TurnedAway
    <3>3. LeftOut(r, d, type, A, Left(n))
      BY <2>2, <2>3, <2>4, <3>1, <3>2 DEF LeftOut
    <3> QED BY <2>1, <2>2, <3>3 DEF r
  <2>6. CASE Answered(q, r)
    <3>1. RejectedIds(r, type) = RejectedIds(q, type)
      BY <2>6 DEF Answered, RejectedIds
    <3>2. LeftOut(r, d, type, A, Left(n))
      BY <2>2, <2>3, <2>4, <3>1 DEF LeftOut
    <3> QED BY <2>1, <2>2, <3>2 DEF r
  <2> QED BY <2>2, <2>5, <2>6 DEF Stores
<1>4. k \in S[Len(list)]
  <2> HIDE DEF S, list
  <2> QED BY <1>0, <1>2, <1>3, EachSteps
<1>5. k \in H /\ LeftOut(k, d, type, A, Left(Len(list)))
  <2> HIDE DEF Left, list, k
  <2> QED BY <1>1, <1>4
<1>6. Left(Len(list)) = {}
  <2>1. (Len(list) + 1)..Len(list) = {}
    BY <1>1
  <2> HIDE DEF list
  <2> QED BY <2>1
<1>7. Batch(loop, p, x) = [k EXCEPT !.upserts = <<>>]
  BY DEF Batch
<1> HIDE DEF k, Left
<1>8. LET q == [k EXCEPT !.upserts = <<>>] IN q.db = k.db /\ q.rejected = k.rejected
  BY <1>5 DEF Held
<1>9. LET q == [k EXCEPT !.upserts = <<>>] IN RejectedIds(q, type) = RejectedIds(k, type)
  BY <1>8 DEF RejectedIds
<1> QED BY <1>5, <1>6, <1>7, <1>8, <1>9 DEF LeftOut

-------------------------------------------------------------------------------
(* The collections, the bookmarks and the groups go the same way: a loop that *)
(* sorts them out, and the batch.                                             *)
SortsChildren(sorts, type, I, x) ==
    \A q \in Held(I), o \in I :
        LET r == Turn(sorts, q, o, x) IN
        r \in Held(I) /\ (TurnedAway(q, r, type, o.id) \/ Waits(q, r, o))

(* D[o] are the tables that hold o as it was sent.                            *)
StoresChildren(stores, type, I, x, D) ==
    \A q \in Held(I), o \in I :
        LET r == Turn(stores, q, o, x) IN
        /\ r \in Held(I)
        /\ TurnedAway(q, r, type, o.id) \/ (Answered(q, r) /\ r.db \in D[o])
        /\ \A i \in I : i.id # o.id /\ q.db \in D[i] => r.db \in D[i]

(* A loop that sorts out children changes no table, and rejects or keeps      *)
(* waiting every entity it meets.                                             *)
LEMMA ChildrenSorted ==
    ASSUME NEW sorts, NEW type, NEW I, NEW list \in Seq(I), NEW x,
           NEW p \in Held(I), Ids(p.upserts) = {}, RejectedIds(p, type) = {},
           SortsChildren(sorts, type, I, x)
    PROVE  LET q == Each(sorts, p, list, x) IN
           /\ q \in Held(I)
           /\ \A t : t # type => RejectedIds(q, t) = RejectedIds(p, t)
           /\ \A item \in I : Lone(list, item) => Placed(q, type, item, {}, Database)
           /\ Single(list) => SortedOut(q, p.db, type, Ids(list))
<1> DEFINE H == Held(I)
           q == Each(sorts, p, list, x)
<1>1. SortsAll(sorts, I, x, type, H)
  BY DEF SortsChildren, Sorts, SortsAll
<1>2. q \in H /\ \A t : t # type => RejectedIds(q, t) = RejectedIds(p, t)
  <2>1. p \in H
    OBVIOUS
  <2> HIDE DEF H
  <2> QED BY <1>1, <2>1, EachRejects
<1>3. ASSUME NEW item \in I, Lone(list, item) PROVE Placed(q, type, item, {}, Database)
  <2>1. H \in SUBSET Held(I) /\ p \in H /\ item.id \notin Ids(p.upserts)
    OBVIOUS
  <2>2. \A k \in H : k.db \in Database
    BY HeldFields
  <2> HIDE DEF H
  <2>3. Spares(sorts, I, x, H, item.id, Database) /\ Spares(sorts, I, x, H, item.id, {})
    BY <1>1, <2>2 DEF Spares, SortsAll
  <2>4. Sends(sorts, x, type, H, item, Database, {}, Database)
    <3>1. \A k \in H : LET r == Turn(sorts, k, item, x) IN
             r \in H /\ (TurnedAway(k, r, type, item.id) \/ Waits(k, r, item))
      BY DEF SortsChildren, H
    <3> QED BY <2>2, <3>1 DEF Sends
  <2>6. p.db \in Database
    BY <2>1, <2>2
  <2> QED BY <1>1, <1>3, <2>1, <2>3, <2>4, <2>6, SortPlaces
<1>4. ASSUME Single(list) PROVE SortedOut(q, p.db, type, Ids(list))
  <2>1. SortedOut(p, p.db, type, {})
    BY DEF SortedOut, Single, Ids
  <2>2. Fresh(list, I, {})
    BY DEF Fresh
  <2>3. H \in SUBSET Held(I) /\ p \in H
    OBVIOUS
  <2>4. {} \cup IdsIn(list, I) = Ids(list)
    BY DEF Ids, IdsIn
  <2> HIDE DEF H, q
  <2>5. SortedOut(q, p.db, type, {} \cup IdsIn(list, I))
    <3>1. PassesOver(sorts, I, x, H, I)
      BY DEF PassesOver
    <3> QED BY <1>1, <1>4, <2>1, <2>2, <2>3, <3>1, SortsOut DEF q
  <2> QED BY <2>4, <2>5
<1> QED BY <1>2, <1>3, <1>4

(* What they leave: the other types' rejections, an item that is listed once  *)
(* rejected or stored, and all as it was when every item was rejected.        *)
ChildrenAnswer(p, q, type, I, list, D) ==
    /\ \A t : t # type => RejectedIds(q, t) = RejectedIds(p, t)
    /\ \A item \in I : Lone(list, item) => item.id \in RejectedIds(q, type) \/ q.db \in D[item]
    /\ Single(list) /\ Ids(list) \subseteq RejectedIds(q, type) => q.db = p.db

(* The batch after such a loop: what was listed once is rejected or stored,   *)
(* and a list that is rejected whole leaves the tables alone.                 *)
LEMMA ChildrenAnswered ==
    ASSUME NEW sorts, NEW stores, NEW type, NEW I, NEW list \in Seq(I), NEW x, NEW D,
           NEW p \in Held(I), Ids(p.upserts) = {}, RejectedIds(p, type) = {},
           SortsChildren(sorts, type, I, x), StoresChildren(stores, type, I, x, D)
    PROVE  ChildrenAnswer(p, Batch(stores, Each(sorts, p, list, x), x), type, I, list, D)
<1> DEFINE H == Held(I)
           k == Each(sorts, p, list, x)
           q == Batch(stores, k, x)
<1>1. /\ k \in H
      /\ \A t : t # type => RejectedIds(k, t) = RejectedIds(p, t)
      /\ \A item \in I : Lone(list, item) => Placed(k, type, item, {}, Database)
      /\ Single(list) => SortedOut(k, p.db, type, Ids(list))
  BY ChildrenSorted
<1>2. H \in SUBSET Held(I) /\ \A r \in H : r.db \in Database
  BY HeldFields
<1>3. StoresAll(stores, I, x, type, H) /\ SortsAll(stores, I, x, type, H)
  BY DEF StoresChildren, Stores, Sorts, StoresAll, SortsAll
<1>4. \A r \in H, o \in I :
        LET s == Turn(stores, r, o, x) IN
        /\ TurnedAway(r, s, type, o.id) \/ s.db \in D[o]
        /\ \A i \in I : i.id # o.id /\ r.db \in D[i] => s.db \in D[i]
  BY DEF StoresChildren
<1> HIDE DEF H, k
<1>5. ASSUME NEW t, t # type PROVE RejectedIds(q, t) = RejectedIds(p, t)
  <2> DEFINE e == Each(stores, k, k.upserts, x)
  <2>1. k.upserts \in Seq(I)
    BY <1>1, <1>2, HeldFields
  <2>2. e \in H /\ RejectedIds(e, t) = RejectedIds(k, t)
    <3>1. SortsAll(stores, I, x, type, H) /\ k \in H
      BY <1>1, <1>3
    <3>2. LET r == Each(stores, k, k.upserts, x) IN
          r \in H /\ \A u : u # type => RejectedIds(r, u) = RejectedIds(k, u)
      BY <2>1, <3>1, EachRejects
    <3> QED BY <1>5, <3>2
  <2>3. q = [e EXCEPT !.upserts = <<>>]
    BY DEF Batch
  <2> HIDE DEF e
  <2>4. [e EXCEPT !.upserts = <<>>].rejected = e.rejected
    BY <1>2, <2>2 DEF Held
  <2>5. RejectedIds(q, t) = RejectedIds(e, t)
    BY <2>3, <2>4 DEF RejectedIds
  <2> QED BY <1>1, <1>5, <2>2, <2>5
<1>6. ASSUME NEW item \in I, Lone(list, item) PROVE item.id \in RejectedIds(q, type) \/ q.db \in D[item]
  <2>1. Placed(k, type, item, D[item], Database)
    BY <1>1, <1>6 DEF Placed
  <2>2. Spares(stores, I, x, H, item.id, D[item]) /\ Spares(stores, I, x, H, item.id, Database)
    BY <1>2, <1>3, <1>4 DEF Spares, StoresAll
  <2>3. Settles(stores, x, type, H, item, D[item], Database)
    BY <1>4 DEF Settles
  <2> QED BY <1>1, <1>2, <1>3, <2>1, <2>2, <2>3, BatchPlaces
<1>7. ASSUME Single(list) /\ Ids(list) \subseteq RejectedIds(q, type) PROVE q.db = p.db
  <2>2. SortedOut(k, p.db, type, Ids(list))
    BY <1>1, <1>7
  <2>3. LET r == Batch(stores, k, x) IN
        /\ RejectedIds(r, type) \subseteq Ids(list)
        /\ Ids(list) \subseteq RejectedIds(r, type) => r.db = p.db
    <3>1. k \in H /\ H \in SUBSET Held(I) /\ StoresAll(stores, I, x, type, H)
      BY <1>1, <1>2, <1>3
    <3> QED BY <2>2, <3>1, BatchSortsOut
  <2> HIDE DEF q
  <2> QED BY <1>7, <2>3 DEF q
<1> HIDE DEF q
<1>8. ChildrenAnswer(p, q, type, I, list, D)
  BY <1>5, <1>6, <1>7 DEF ChildrenAnswer
<1> QED BY <1>8 DEF k, q

(* The tables that hold a collection, a bookmark or a group as it was sent,   *)
(* and what the loops over them do.                                           *)

SentCollection(x) ==
    [o \in CollectionItems |-> {e \in Database : e.col[o.id] = StoredChild(o, x.now, x.seq)}]

(* The turns over collections are of that kind.                               *)
LEMMA CollectionAnswers ==
    ASSUME NEW x \in Context
    PROVE  /\ SortsChildren("collections", "collection", CollectionItems, x)
           /\ StoresChildren("collection upserts", "collection", CollectionItems, x, SentCollection(x))
           /\ \A q \in Held(CollectionItems), o \in CollectionItems :
                 LET e == Turn("collection upserts", q, o, x).db IN
                 \/ e = q.db
                 \/ e = [q.db EXCEPT !.col[o.id] = StoredChild(o, x.now, x.seq)]
<1> DEFINE I == CollectionItems
           D == SentCollection(x)
<1>0. x.before \in Database /\ x.horizon \in Nat /\ x.seq \in Nat /\ x.now \in Nat
  BY DEF Context, Known
<1>i. \A e \in Database, i \in I : e \in D[i] <=> e.col[i.id] = StoredChild(i, x.now, x.seq)
  BY DEF SentCollection
<1>1. ASSUME NEW q \in Held(I), NEW o \in I
      PROVE  LET r == Turn("collections", q, o, x) IN
             r \in Held(I) /\ (TurnedAway(q, r, "collection", o.id) \/ Waits(q, r, o))
  <2> DEFINE r == SortCollection(q, o, x.before)
  <2>1. Turn("collections", q, o, x) = r
    BY DEF Turn
  <2>2. Refuses(I, q, r) \/ Queues(I, q, r, o)
    BY <1>0, SortCollectionTurn
  <2>3. TurnedAway(q, r, "collection", o.id) \/ QueuesCollection(q, r, o)
    BY SortCollectionAnswers
  <2> HIDE DEF r
  <2> QED BY <2>1, <2>2, <2>3 DEF Refuses, Queues, QueuesCollection
<1>2. ASSUME NEW q \in Held(I), NEW o \in I
      PROVE  LET r == Turn("collection upserts", q, o, x) IN
             /\ r \in Held(I)
             /\ \/ TurnedAway(q, r, "collection", o.id)
                \/ /\ Answered(q, r)
                   /\ r.db = [q.db EXCEPT !.col[o.id] = StoredChild(o, x.now, x.seq)]
  <2> DEFINE r == UpsertCollection(q, o, x.version, x.horizon, x.seq, x.now)
  <2>1. Turn("collection upserts", q, o, x) = r
    BY DEF Turn
  <2>2. Refuses(I, q, r) \/ (r \in Held(I) /\ StoresCollection(q, r, o, x.horizon, x.seq, x.now))
    BY <1>0, UpsertCollectionTurn
  <2>3. \/ TurnedAway(q, r, "collection", o.id)
        \/ /\ Answered(q, r)
           /\ r.db = [q.db EXCEPT !.col[o.id] = StoredChild(o, x.now, x.seq)]
    <3>1. TurnedAway(q, r, "collection", o.id) \/ WritesCollection(q, r, o, x.horizon, x.seq, x.now)
      BY UpsertCollectionAnswers
    <3> QED BY <3>1 DEF WritesCollection
  <2> HIDE DEF r
  <2> QED BY <2>1, <2>2, <2>3 DEF Refuses
<1>3. ASSUME NEW q \in Held(I), NEW o \in I
      PROVE  LET r == Turn("collection upserts", q, o, x) IN
             /\ r \in Held(I)
             /\ TurnedAway(q, r, "collection", o.id) \/ (Answered(q, r) /\ r.db \in D[o])
             /\ \A i \in I : i.id # o.id /\ q.db \in D[i] => r.db \in D[i]
  <2> DEFINE r == Turn("collection upserts", q, o, x)
  <2>1. /\ r \in Held(I)
        /\ \/ TurnedAway(q, r, "collection", o.id)
           \/ /\ Answered(q, r)
              /\ r.db = [q.db EXCEPT !.col[o.id] = StoredChild(o, x.now, x.seq)]
    BY <1>2
  <2> HIDE DEF r
  <2>2. q.db \in Database /\ r.db \in Database
    BY <2>1, HeldFields
  <2>4. CASE TurnedAway(q, r, "collection", o.id)
    <3>1. r.db = q.db
      BY <2>4 DEF TurnedAway
    <3> QED BY <2>1, <2>4, <3>1 DEF r
  <2>5. CASE /\ Answered(q, r)
             /\ r.db = [q.db EXCEPT !.col[o.id] = StoredChild(o, x.now, x.seq)]
    <3>1. o.id \in DOMAIN q.db.col
      BY <2>2 DEF Database, CollectionItems
    <3>2. r.db.col[o.id] = StoredChild(o, x.now, x.seq)
          /\ \A i : i # o.id => r.db.col[i] = q.db.col[i]
      BY <2>2, <2>5, <3>1 DEF Database
    <3>3. r.db \in D[o]
      BY <1>i, <2>2, <3>2
    <3>4. ASSUME NEW i \in I, i.id # o.id, q.db \in D[i] PROVE r.db \in D[i]
      BY <1>i, <2>2, <3>2, <3>4
    <3> QED BY <2>1, <2>5, <3>3, <3>4 DEF r
  <2> QED BY <2>1, <2>4, <2>5
<1>4. SortsChildren("collections", "collection", I, x)
  <2> HIDE DEF I
  <2> QED BY <1>1 DEF SortsChildren
<1>5. StoresChildren("collection upserts", "collection", I, x, D)
  <2> HIDE DEF I, D
  <2> QED BY <1>3 DEF StoresChildren
<1>6. ASSUME NEW q \in Held(I), NEW o \in I
      PROVE  LET e == Turn("collection upserts", q, o, x).db IN
             \/ e = q.db
             \/ e = [q.db EXCEPT !.col[o.id] = StoredChild(o, x.now, x.seq)]
  <2> DEFINE r == Turn("collection upserts", q, o, x)
  <2>1. \/ TurnedAway(q, r, "collection", o.id)
        \/ r.db = [q.db EXCEPT !.col[o.id] = StoredChild(o, x.now, x.seq)]
    BY <1>2
  <2> HIDE DEF r
  <2>2. r.db = q.db \/ r.db = [q.db EXCEPT !.col[o.id] = StoredChild(o, x.now, x.seq)]
    BY <2>1 DEF TurnedAway
  <2> QED BY <2>2 DEF r
<1> QED BY <1>4, <1>5, <1>6

SentBookmark(x) ==
    [o \in BookmarkItems |-> {e \in Database : e.bm[o.id] = StoredMark(o, x.now, x.seq)}]

(* The turns over bookmarks are of that kind.                                 *)
LEMMA BookmarkAnswers ==
    ASSUME NEW x \in Context
    PROVE  /\ SortsChildren("bookmarks", "bookmark", BookmarkItems, x)
           /\ StoresChildren("bookmark upserts", "bookmark", BookmarkItems, x, SentBookmark(x))
           /\ \A q \in Held(BookmarkItems), o \in BookmarkItems :
                 LET e == Turn("bookmark upserts", q, o, x).db IN
                 \/ e = q.db
                 \/ e = [q.db EXCEPT !.bm[o.id] = StoredMark(o, x.now, x.seq)]
<1> DEFINE I == BookmarkItems
           D == SentBookmark(x)
<1>0. x.before \in Database /\ x.horizon \in Nat /\ x.seq \in Nat /\ x.now \in Nat
  BY DEF Context, Known
<1>i. \A e \in Database, i \in I : e \in D[i] <=> e.bm[i.id] = StoredMark(i, x.now, x.seq)
  BY DEF SentBookmark
<1>1. ASSUME NEW q \in Held(I), NEW o \in I
      PROVE  LET r == Turn("bookmarks", q, o, x) IN
             r \in Held(I) /\ (TurnedAway(q, r, "bookmark", o.id) \/ Waits(q, r, o))
  <2> DEFINE r == SortBookmark(q, o)
  <2>1. Turn("bookmarks", q, o, x) = r
    BY DEF Turn
  <2>2. Refuses(I, q, r) \/ Queues(I, q, r, o)
    BY <1>0, SortBookmarkTurn
  <2>3. TurnedAway(q, r, "bookmark", o.id) \/ QueuesBookmark(q, r, o)
    BY SortBookmarkAnswers
  <2> HIDE DEF r
  <2> QED BY <2>1, <2>2, <2>3 DEF Refuses, Queues, QueuesBookmark
<1>2. ASSUME NEW q \in Held(I), NEW o \in I
      PROVE  LET r == Turn("bookmark upserts", q, o, x) IN
             /\ r \in Held(I)
             /\ \/ TurnedAway(q, r, "bookmark", o.id)
                \/ /\ Answered(q, r)
                   /\ r.db = [q.db EXCEPT !.bm[o.id] = StoredMark(o, x.now, x.seq)]
  <2> DEFINE r == UpsertBookmark(q, o, x.horizon, x.seq, x.now)
  <2>1. Turn("bookmark upserts", q, o, x) = r
    BY DEF Turn
  <2>2. Refuses(I, q, r) \/ (r \in Held(I) /\ StoresBookmark(q, r, o, x.horizon, x.seq, x.now))
    BY <1>0, UpsertBookmarkTurn
  <2>3. \/ TurnedAway(q, r, "bookmark", o.id)
        \/ /\ Answered(q, r)
           /\ r.db = [q.db EXCEPT !.bm[o.id] = StoredMark(o, x.now, x.seq)]
    <3>1. TurnedAway(q, r, "bookmark", o.id) \/ WritesBookmark(q, r, o, x.horizon, x.seq, x.now)
      BY UpsertBookmarkAnswers
    <3> QED BY <3>1 DEF WritesBookmark
  <2> HIDE DEF r
  <2> QED BY <2>1, <2>2, <2>3 DEF Refuses
<1>3. ASSUME NEW q \in Held(I), NEW o \in I
      PROVE  LET r == Turn("bookmark upserts", q, o, x) IN
             /\ r \in Held(I)
             /\ TurnedAway(q, r, "bookmark", o.id) \/ (Answered(q, r) /\ r.db \in D[o])
             /\ \A i \in I : i.id # o.id /\ q.db \in D[i] => r.db \in D[i]
  <2> DEFINE r == Turn("bookmark upserts", q, o, x)
  <2>1. /\ r \in Held(I)
        /\ \/ TurnedAway(q, r, "bookmark", o.id)
           \/ /\ Answered(q, r)
              /\ r.db = [q.db EXCEPT !.bm[o.id] = StoredMark(o, x.now, x.seq)]
    BY <1>2
  <2> HIDE DEF r
  <2>2. q.db \in Database /\ r.db \in Database
    BY <2>1, HeldFields
  <2>4. CASE TurnedAway(q, r, "bookmark", o.id)
    <3>1. r.db = q.db
      BY <2>4 DEF TurnedAway
    <3> QED BY <2>1, <2>4, <3>1 DEF r
  <2>5. CASE /\ Answered(q, r)
             /\ r.db = [q.db EXCEPT !.bm[o.id] = StoredMark(o, x.now, x.seq)]
    <3>1. o.id \in DOMAIN q.db.bm
      BY <2>2 DEF Database, BookmarkItems
    <3>2. r.db.bm[o.id] = StoredMark(o, x.now, x.seq)
          /\ \A i : i # o.id => r.db.bm[i] = q.db.bm[i]
      BY <2>2, <2>5, <3>1 DEF Database
    <3>3. r.db \in D[o]
      BY <1>i, <2>2, <3>2
    <3>4. ASSUME NEW i \in I, i.id # o.id, q.db \in D[i] PROVE r.db \in D[i]
      BY <1>i, <2>2, <3>2, <3>4
    <3> QED BY <2>1, <2>5, <3>3, <3>4 DEF r
  <2> QED BY <2>1, <2>4, <2>5
<1>4. SortsChildren("bookmarks", "bookmark", I, x)
  <2> HIDE DEF I
  <2> QED BY <1>1 DEF SortsChildren
<1>5. StoresChildren("bookmark upserts", "bookmark", I, x, D)
  <2> HIDE DEF I, D
  <2> QED BY <1>3 DEF StoresChildren
<1>6. ASSUME NEW q \in Held(I), NEW o \in I
      PROVE  LET e == Turn("bookmark upserts", q, o, x).db IN
             \/ e = q.db
             \/ e = [q.db EXCEPT !.bm[o.id] = StoredMark(o, x.now, x.seq)]
  <2> DEFINE r == Turn("bookmark upserts", q, o, x)
  <2>1. \/ TurnedAway(q, r, "bookmark", o.id)
        \/ r.db = [q.db EXCEPT !.bm[o.id] = StoredMark(o, x.now, x.seq)]
    BY <1>2
  <2> HIDE DEF r
  <2>2. r.db = q.db \/ r.db = [q.db EXCEPT !.bm[o.id] = StoredMark(o, x.now, x.seq)]
    BY <2>1 DEF TurnedAway
  <2> QED BY <2>2 DEF r
<1> QED BY <1>4, <1>5, <1>6

SentGroup(x) ==
    [o \in GroupItems |-> {e \in Database : e.grp[o.id] = StoredChild(o, x.now, x.seq)}]

(* The turns over groups are of that kind.                                    *)
LEMMA GroupAnswers ==
    ASSUME NEW x \in Context
    PROVE  /\ SortsChildren("groups", "saved_group", GroupItems, x)
           /\ StoresChildren("group upserts", "saved_group", GroupItems, x, SentGroup(x))
           /\ \A q \in Held(GroupItems), o \in GroupItems :
                 LET e == Turn("group upserts", q, o, x).db IN
                 \/ e = q.db
                 \/ e = [q.db EXCEPT !.grp[o.id] = StoredChild(o, x.now, x.seq)]
<1> DEFINE I == GroupItems
           D == SentGroup(x)
<1>0. x.before \in Database /\ x.horizon \in Nat /\ x.seq \in Nat /\ x.now \in Nat
  BY DEF Context, Known
<1>i. \A e \in Database, i \in I : e \in D[i] <=> e.grp[i.id] = StoredChild(i, x.now, x.seq)
  BY DEF SentGroup
<1>1. ASSUME NEW q \in Held(I), NEW o \in I
      PROVE  LET r == Turn("groups", q, o, x) IN
             r \in Held(I) /\ (TurnedAway(q, r, "saved_group", o.id) \/ Waits(q, r, o))
  <2> DEFINE r == SortGroup(q, o, x.before)
  <2>1. Turn("groups", q, o, x) = r
    BY DEF Turn
  <2>2. Refuses(I, q, r) \/ Queues(I, q, r, o)
    BY <1>0, SortGroupTurn
  <2>3. TurnedAway(q, r, "saved_group", o.id) \/ QueuesGroup(q, r, o)
    BY SortGroupAnswers
  <2> HIDE DEF r
  <2> QED BY <2>1, <2>2, <2>3 DEF Refuses, Queues, QueuesGroup
<1>2. ASSUME NEW q \in Held(I), NEW o \in I
      PROVE  LET r == Turn("group upserts", q, o, x) IN
             /\ r \in Held(I)
             /\ \/ TurnedAway(q, r, "saved_group", o.id)
                \/ /\ Answered(q, r)
                   /\ r.db = [q.db EXCEPT !.grp[o.id] = StoredChild(o, x.now, x.seq)]
  <2> DEFINE r == UpsertGroup(q, o, x.horizon, x.seq, x.now)
  <2>1. Turn("group upserts", q, o, x) = r
    BY DEF Turn
  <2>2. Refuses(I, q, r) \/ (r \in Held(I) /\ StoresGroup(q, r, o, x.horizon, x.seq, x.now))
    BY <1>0, UpsertGroupTurn
  <2>3. \/ TurnedAway(q, r, "saved_group", o.id)
        \/ /\ Answered(q, r)
           /\ r.db = [q.db EXCEPT !.grp[o.id] = StoredChild(o, x.now, x.seq)]
    <3>1. TurnedAway(q, r, "saved_group", o.id) \/ WritesGroup(q, r, o, x.horizon, x.seq, x.now)
      BY UpsertGroupAnswers
    <3> QED BY <3>1 DEF WritesGroup
  <2> HIDE DEF r
  <2> QED BY <2>1, <2>2, <2>3 DEF Refuses
<1>3. ASSUME NEW q \in Held(I), NEW o \in I
      PROVE  LET r == Turn("group upserts", q, o, x) IN
             /\ r \in Held(I)
             /\ TurnedAway(q, r, "saved_group", o.id) \/ (Answered(q, r) /\ r.db \in D[o])
             /\ \A i \in I : i.id # o.id /\ q.db \in D[i] => r.db \in D[i]
  <2> DEFINE r == Turn("group upserts", q, o, x)
  <2>1. /\ r \in Held(I)
        /\ \/ TurnedAway(q, r, "saved_group", o.id)
           \/ /\ Answered(q, r)
              /\ r.db = [q.db EXCEPT !.grp[o.id] = StoredChild(o, x.now, x.seq)]
    BY <1>2
  <2> HIDE DEF r
  <2>2. q.db \in Database /\ r.db \in Database
    BY <2>1, HeldFields
  <2>4. CASE TurnedAway(q, r, "saved_group", o.id)
    <3>1. r.db = q.db
      BY <2>4 DEF TurnedAway
    <3> QED BY <2>1, <2>4, <3>1 DEF r
  <2>5. CASE /\ Answered(q, r)
             /\ r.db = [q.db EXCEPT !.grp[o.id] = StoredChild(o, x.now, x.seq)]
    <3>1. o.id \in DOMAIN q.db.grp
      BY <2>2 DEF Database, GroupItems
    <3>2. r.db.grp[o.id] = StoredChild(o, x.now, x.seq)
          /\ \A i : i # o.id => r.db.grp[i] = q.db.grp[i]
      BY <2>2, <2>5, <3>1 DEF Database
    <3>3. r.db \in D[o]
      BY <1>i, <2>2, <3>2
    <3>4. ASSUME NEW i \in I, i.id # o.id, q.db \in D[i] PROVE r.db \in D[i]
      BY <1>i, <2>2, <3>2, <3>4
    <3> QED BY <2>1, <2>5, <3>3, <3>4 DEF r
  <2> QED BY <2>1, <2>4, <2>5
<1>4. SortsChildren("groups", "saved_group", I, x)
  <2> HIDE DEF I
  <2> QED BY <1>1 DEF SortsChildren
<1>5. StoresChildren("group upserts", "saved_group", I, x, D)
  <2> HIDE DEF I, D
  <2> QED BY <1>3 DEF StoresChildren
<1>6. ASSUME NEW q \in Held(I), NEW o \in I
      PROVE  LET e == Turn("group upserts", q, o, x).db IN
             \/ e = q.db
             \/ e = [q.db EXCEPT !.grp[o.id] = StoredChild(o, x.now, x.seq)]
  <2> DEFINE r == Turn("group upserts", q, o, x)
  <2>1. \/ TurnedAway(q, r, "saved_group", o.id)
        \/ r.db = [q.db EXCEPT !.grp[o.id] = StoredChild(o, x.now, x.seq)]
    BY <1>2
  <2> HIDE DEF r
  <2>2. r.db = q.db \/ r.db = [q.db EXCEPT !.grp[o.id] = StoredChild(o, x.now, x.seq)]
    BY <2>1 DEF TurnedAway
  <2> QED BY <2>2 DEF r
<1> QED BY <1>4, <1>5, <1>6

StaysIn(stores, I, x, F) ==
    \A q \in Held(I), o \in I : q.db \in F => Turn(stores, q, o, x).db \in F

(* A batch of children leaves the tables that its turns leave.                *)
LEMMA ChildrenLeave ==
    ASSUME NEW sorts, NEW stores, NEW type, NEW I, NEW list \in Seq(I), NEW x, NEW D,
           NEW p \in Held(I), Ids(p.upserts) = {}, RejectedIds(p, type) = {},
           SortsChildren(sorts, type, I, x), StoresChildren(stores, type, I, x, D),
           NEW F, p.db \in F, StaysIn(stores, I, x, F)
    PROVE  Batch(stores, Each(sorts, p, list, x), x).db \in F
<1> DEFINE k == Each(sorts, p, list, x)
           S == {q \in Held(I) : q.db \in F}
<1>1. k \in S
  <2>1. ASSUME NEW q \in S, NEW o \in I PROVE Turn(sorts, q, o, x) \in S
    BY DEF SortsChildren, TurnedAway, Waits
  <2>2. p \in S
    OBVIOUS
  <2> HIDE DEF S
  <2> QED BY <2>1, <2>2, EachKeeps
<1> HIDE DEF k
<1>2. Each(stores, k, k.upserts, x) \in S
  <2>1. ASSUME NEW q \in S, NEW o \in I PROVE Turn(stores, q, o, x) \in S
    BY DEF StoresChildren, StaysIn
  <2>2. k.upserts \in Seq(I)
    BY <1>1, HeldFields
  <2> HIDE DEF S
  <2> QED BY <1>1, <2>1, <2>2, EachKeeps
<1> DEFINE e == Each(stores, k, k.upserts, x)
<1>3. e \in Held(I) /\ e.db \in F /\ Batch(stores, k, x) = [e EXCEPT !.upserts = <<>>]
  BY <1>2 DEF Batch
<1> HIDE DEF e
<1>4. [e EXCEPT !.upserts = <<>>].db = e.db
  BY <1>3 DEF Held
<1> QED BY <1>3, <1>4 DEF k

(* The answer as to the bookmarks.                                            *)
LEMMA PushBookmarksAnswers ==
    ASSUME NEW x \in Context, NEW req \in Request(x.version),
           NEW p, \A J : p \in Held(J), RejectedIds(p, "bookmark") = {}
    PROVE  LET q == PushBookmarks(p, req, x) IN
           /\ \A t : t # "bookmark" => RejectedIds(q, t) = RejectedIds(p, t)
           /\ \A item \in BookmarkItems : Lone(req.bm, item) =>
                 \/ item.id \in RejectedIds(q, "bookmark")
                 \/ q.db.bm[item.id] = StoredMark(item, x.now, x.seq)
           /\ Single(req.bm) /\ Ids(req.bm) \subseteq RejectedIds(q, "bookmark") => q.db = p.db
           /\ q.db.ws = p.db.ws /\ q.db.col = p.db.col
<1> DEFINE q == Batch("bookmark upserts", Each("bookmarks", p, req.bm, x), x)
           D == SentBookmark(x)
           F == {e \in Database : e.ws = p.db.ws /\ e.col = p.db.col}
<1>1. /\ req.bm \in Seq(BookmarkItems) /\ p \in Held(BookmarkItems) /\ Ids(p.upserts) = {}
      /\ p.db \in Database
  BY NothingWaits, HeldFields DEF Request
<1>2. /\ SortsChildren("bookmarks", "bookmark", BookmarkItems, x)
      /\ StoresChildren("bookmark upserts", "bookmark", BookmarkItems, x, D)
      /\ \A k \in Held(BookmarkItems), o \in BookmarkItems :
            LET e == Turn("bookmark upserts", k, o, x).db IN
            \/ e = k.db
            \/ e = [k.db EXCEPT !.bm[o.id] = StoredMark(o, x.now, x.seq)]
  BY BookmarkAnswers
<1>3. \A e \in Database, i \in BookmarkItems : e \in D[i] => e.bm[i.id] = StoredMark(i, x.now, x.seq)
  BY DEF SentBookmark
<1>d. \A i \in BookmarkItems : \A e : e \in D[i] => e \in Database
  BY DEF SentBookmark
<1> HIDE DEF D
<1>4. /\ \A t : t # "bookmark" => RejectedIds(q, t) = RejectedIds(p, t)
      /\ \A item \in BookmarkItems :
            Lone(req.bm, item) => item.id \in RejectedIds(q, "bookmark") \/ q.db \in D[item]
      /\ Single(req.bm) /\ Ids(req.bm) \subseteq RejectedIds(q, "bookmark") => q.db = p.db
  <2>1. ChildrenAnswer(p, q, "bookmark", BookmarkItems, req.bm, D)
    BY <1>1, <1>2, ChildrenAnswered
  <2> HIDE DEF q
  <2> QED BY <2>1 DEF ChildrenAnswer
<1>5. q.db \in F
  <2>1. p.db \in F
    BY <1>1
  <2>2. ASSUME NEW k \in Held(BookmarkItems), NEW o \in BookmarkItems, k.db \in F
        PROVE  Turn("bookmark upserts", k, o, x).db \in F
    <3> DEFINE r == Turn("bookmark upserts", k, o, x)
    <3>1. r \in Held(BookmarkItems)
      BY <1>2 DEF StoresChildren
    <3>2. r.db \in Database /\ k.db \in Database
      BY <3>1, HeldFields
    <3>3. r.db = k.db \/ r.db = [k.db EXCEPT !.bm[o.id] = StoredMark(o, x.now, x.seq)]
      BY <1>2
    <3> HIDE DEF r
    <3>4. CASE r.db = k.db
      BY <2>2, <3>4 DEF r
    <3>5. CASE r.db = [k.db EXCEPT !.bm[o.id] = StoredMark(o, x.now, x.seq)]
      <4>1. r.db.ws = k.db.ws /\ r.db.col = k.db.col
        BY <3>2, <3>5 DEF Database
      <4> QED BY <2>2, <3>2, <4>1 DEF r
    <3> QED BY <3>3, <3>4, <3>5
  <2> HIDE DEF F
  <2>3. StaysIn("bookmark upserts", BookmarkItems, x, F)
    BY <2>2 DEF StaysIn
  <2> QED BY <1>1, <1>2, <2>1, <2>3, ChildrenLeave
<1>6. PushBookmarks(p, req, x) = q
  BY DEF PushBookmarks
<1>7. q.db \in Database
  BY <1>5
<1> HIDE DEF q
<1>8. \A item \in BookmarkItems : Lone(req.bm, item) =>
         item.id \in RejectedIds(q, "bookmark") \/ q.db.bm[item.id] = StoredMark(item, x.now, x.seq)
  BY <1>3, <1>4, <1>7
<1> QED BY <1>4, <1>5, <1>6, <1>8

(* The answer as to the groups.                                               *)
LEMMA PushGroupsAnswers ==
    ASSUME NEW x \in Context, NEW req \in Request(x.version),
           NEW p, \A J : p \in Held(J), RejectedIds(p, "saved_group") = {}
    PROVE  LET q == PushGroups(p, req, x) IN
           /\ \A t : t # "saved_group" => RejectedIds(q, t) = RejectedIds(p, t)
           /\ \A item \in GroupItems : Lone(req.grp, item) =>
                 \/ item.id \in RejectedIds(q, "saved_group")
                 \/ q.db.grp[item.id] = StoredChild(item, x.now, x.seq)
           /\ Single(req.grp) /\ Ids(req.grp) \subseteq RejectedIds(q, "saved_group") => q.db = p.db
           /\ q.db.ws = p.db.ws /\ q.db.col = p.db.col /\ q.db.bm = p.db.bm
<1> DEFINE q == Batch("group upserts", Each("groups", p, req.grp, x), x)
           D == SentGroup(x)
           F == {e \in Database : e.ws = p.db.ws /\ e.col = p.db.col /\ e.bm = p.db.bm}
<1>1. /\ req.grp \in Seq(GroupItems) /\ p \in Held(GroupItems) /\ Ids(p.upserts) = {}
      /\ p.db \in Database
  BY NothingWaits, HeldFields DEF Request
<1>2. /\ SortsChildren("groups", "saved_group", GroupItems, x)
      /\ StoresChildren("group upserts", "saved_group", GroupItems, x, D)
      /\ \A k \in Held(GroupItems), o \in GroupItems :
            LET e == Turn("group upserts", k, o, x).db IN
            \/ e = k.db
            \/ e = [k.db EXCEPT !.grp[o.id] = StoredChild(o, x.now, x.seq)]
  BY GroupAnswers
<1>3. \A e \in Database, i \in GroupItems : e \in D[i] => e.grp[i.id] = StoredChild(i, x.now, x.seq)
  BY DEF SentGroup
<1>d. \A i \in GroupItems : \A e : e \in D[i] => e \in Database
  BY DEF SentGroup
<1> HIDE DEF D
<1>4. /\ \A t : t # "saved_group" => RejectedIds(q, t) = RejectedIds(p, t)
      /\ \A item \in GroupItems :
            Lone(req.grp, item) => item.id \in RejectedIds(q, "saved_group") \/ q.db \in D[item]
      /\ Single(req.grp) /\ Ids(req.grp) \subseteq RejectedIds(q, "saved_group") => q.db = p.db
  <2>1. ChildrenAnswer(p, q, "saved_group", GroupItems, req.grp, D)
    BY <1>1, <1>2, ChildrenAnswered
  <2> HIDE DEF q
  <2> QED BY <2>1 DEF ChildrenAnswer
<1>5. q.db \in F
  <2>1. p.db \in F
    BY <1>1
  <2>2. ASSUME NEW k \in Held(GroupItems), NEW o \in GroupItems, k.db \in F
        PROVE  Turn("group upserts", k, o, x).db \in F
    <3> DEFINE r == Turn("group upserts", k, o, x)
    <3>1. r \in Held(GroupItems)
      BY <1>2 DEF StoresChildren
    <3>2. r.db \in Database /\ k.db \in Database
      BY <3>1, HeldFields
    <3>3. r.db = k.db \/ r.db = [k.db EXCEPT !.grp[o.id] = StoredChild(o, x.now, x.seq)]
      BY <1>2
    <3> HIDE DEF r
    <3>4. CASE r.db = k.db
      BY <2>2, <3>4 DEF r
    <3>5. CASE r.db = [k.db EXCEPT !.grp[o.id] = StoredChild(o, x.now, x.seq)]
      <4>1. r.db.ws = k.db.ws /\ r.db.col = k.db.col /\ r.db.bm = k.db.bm
        BY <3>2, <3>5 DEF Database
      <4> QED BY <2>2, <3>2, <4>1 DEF r
    <3> QED BY <3>3, <3>4, <3>5
  <2> HIDE DEF F
  <2>3. StaysIn("group upserts", GroupItems, x, F)
    BY <2>2 DEF StaysIn
  <2> QED BY <1>1, <1>2, <2>1, <2>3, ChildrenLeave
<1>6. PushGroups(p, req, x) = q
  BY DEF PushGroups
<1>7. q.db \in Database
  BY <1>5
<1> HIDE DEF q
<1>8. \A item \in GroupItems : Lone(req.grp, item) =>
         item.id \in RejectedIds(q, "saved_group") \/ q.db.grp[item.id] = StoredChild(item, x.now, x.seq)
  BY <1>3, <1>4, <1>7
<1> QED BY <1>4, <1>5, <1>6, <1>8

(* The answer as to the collections.  The cascade takes nothing along when    *)
(* the push has stored none.                                                  *)
LEMMA PushCollectionsAnswers ==
    ASSUME NEW x \in Context, NEW req \in Request(x.version),
           NEW p, \A J : p \in Held(J), RejectedIds(p, "collection") = {}
    PROVE  LET q == PushCollections(p, req, x) IN
           /\ \A t : t # "collection" => RejectedIds(q, t) = RejectedIds(p, t)
           /\ \A item \in CollectionItems : Lone(req.col, item) =>
                 \/ item.id \in RejectedIds(q, "collection")
                 \/ q.db.col[item.id] = StoredChild(item, x.now, x.seq)
           /\ /\ Single(req.col) /\ Ids(req.col) \subseteq RejectedIds(q, "collection")
              /\ \A c \in Collections : p.db.col[c].is_deleted = Terminal => p.db.col[c].seq # x.seq
              => q.db = p.db
           /\ q.db.ws = p.db.ws
<1> DEFINE sorted == Each("collections", p, req.col, x)
           q == Batch("collection upserts", Each("collections", p, req.col, x), x)
           D == SentCollection(x)
           F == {e \in Database : e.ws = p.db.ws}
<1>1. /\ req.col \in Seq(CollectionItems) /\ p \in Held(CollectionItems) /\ Ids(p.upserts) = {}
      /\ p.db \in Database
  BY NothingWaits, HeldFields DEF Request
<1>2. /\ SortsChildren("collections", "collection", CollectionItems, x)
      /\ StoresChildren("collection upserts", "collection", CollectionItems, x, D)
      /\ \A k \in Held(CollectionItems), o \in CollectionItems :
            LET e == Turn("collection upserts", k, o, x).db IN
            \/ e = k.db
            \/ e = [k.db EXCEPT !.col[o.id] = StoredChild(o, x.now, x.seq)]
  BY CollectionAnswers
<1>3. \A e \in Database, i \in CollectionItems : e \in D[i] => e.col[i.id] = StoredChild(i, x.now, x.seq)
  BY DEF SentCollection
<1>d. \A i \in CollectionItems : \A e : e \in D[i] => e \in Database
  BY DEF SentCollection
<1> HIDE DEF D
<1>4. /\ \A t : t # "collection" => RejectedIds(q, t) = RejectedIds(p, t)
      /\ \A item \in CollectionItems :
            Lone(req.col, item) => item.id \in RejectedIds(q, "collection") \/ q.db \in D[item]
      /\ Single(req.col) /\ Ids(req.col) \subseteq RejectedIds(q, "collection") => q.db = p.db
  <2>1. ChildrenAnswer(p, q, "collection", CollectionItems, req.col, D)
    BY <1>1, <1>2, ChildrenAnswered
  <2> HIDE DEF q
  <2> QED BY <2>1 DEF ChildrenAnswer
<1>5. q.db \in F
  <2>1. p.db \in F
    BY <1>1
  <2>2. ASSUME NEW k \in Held(CollectionItems), NEW o \in CollectionItems, k.db \in F
        PROVE  Turn("collection upserts", k, o, x).db \in F
    <3> DEFINE r == Turn("collection upserts", k, o, x)
    <3>1. r \in Held(CollectionItems)
      BY <1>2 DEF StoresChildren
    <3>2. r.db \in Database /\ k.db \in Database
      BY <3>1, HeldFields
    <3>3. r.db = k.db \/ r.db = [k.db EXCEPT !.col[o.id] = StoredChild(o, x.now, x.seq)]
      BY <1>2
    <3> HIDE DEF r
    <3>4. CASE r.db = k.db
      BY <2>2, <3>4 DEF r
    <3>5. CASE r.db = [k.db EXCEPT !.col[o.id] = StoredChild(o, x.now, x.seq)]
      <4>1. r.db.ws = k.db.ws
        BY <3>2, <3>5 DEF Database
      <4> QED BY <2>2, <3>2, <4>1 DEF r
    <3> QED BY <3>3, <3>4, <3>5
  <2> HIDE DEF F
  <2>3. StaysIn("collection upserts", CollectionItems, x, F)
    BY <2>2 DEF StaysIn
  <2> QED BY <1>1, <1>2, <2>1, <2>3, ChildrenLeave
<1> DEFINE buried == {c \in Collections :
                        /\ \E i \in DOMAIN sorted.upserts : /\ sorted.upserts[i].id = c
                                                           /\ sorted.upserts[i].state = Terminal
                        /\ q.db.col[c].is_deleted = Terminal
                        /\ q.db.col[c].seq = x.seq}
           k == CascadeTombstones(q, buried, x.before, x.seq, x.now)
           live == {b \in Bookmarks : /\ q.db.bm[b].collection_id \in buried
                                      /\ q.db.bm[b].is_trashed \in {Active, Retained}}
<1>6. PushCollections(p, req, x) = k
  BY DEF PushCollections
<1>7. q.db \in Database
  BY <1>5
<1>8. q \in Held(CollectionItems)
  <2>1. q = Batch("collection upserts", sorted, x)
    OBVIOUS
  <2>2. sorted \in Held(CollectionItems)
    BY <1>1, <1>2, ChildrenSorted
  <2> HIDE DEF sorted
  <2>3. Held(CollectionItems) \in SUBSET Held(CollectionItems)
    OBVIOUS
  <2>4. \A s \in Held(CollectionItems), item \in CollectionItems :
           Turn("collection upserts", s, item, x) \in Held(CollectionItems)
    BY <1>2 DEF StoresChildren
  <2>5. Leaves(Held(CollectionItems), Batch("collection upserts", sorted, x))
    BY <2>2, <2>3, <2>4, BatchKeeps
  <2> QED BY <2>1, <2>5 DEF Leaves
<1> HIDE DEF q, buried
<1>9. /\ k.db = MarkBookmarks(q.db, live, Terminal, x.now, x.seq)
      /\ k.rejected = q.rejected
  <2>1. TakesAlong(q, k, buried, x.before, x.seq, x.now)
    BY <1>8, CascadeAnswers
  <2> HIDE DEF k
  <2> QED BY <2>1 DEF TakesAlong
<1> HIDE DEF k
<1>10. \A t : RejectedIds(k, t) = RejectedIds(q, t)
  BY <1>9 DEF RejectedIds
<1>11. k.db.ws = q.db.ws /\ k.db.col = q.db.col
  BY <1>7, <1>9 DEF MarkBookmarks, Database
<1>12. \A item \in CollectionItems : Lone(req.col, item) =>
         item.id \in RejectedIds(k, "collection") \/ k.db.col[item.id] = StoredChild(item, x.now, x.seq)
  BY <1>3, <1>4, <1>7, <1>10, <1>11
<1>13. ASSUME Single(req.col), Ids(req.col) \subseteq RejectedIds(k, "collection"),
              \A c \in Collections : p.db.col[c].is_deleted = Terminal => p.db.col[c].seq # x.seq
       PROVE  k.db = p.db
  <2>1. q.db = p.db
    BY <1>4, <1>10, <1>13
  <2>2. buried = {}
    BY <1>13, <2>1 DEF buried
  <2>3. live = {}
    BY <2>2
  <2> HIDE DEF live
  <2>4. MarkBookmarks(q.db, {}, Terminal, x.now, x.seq) = q.db
    BY <1>7 DEF MarkBookmarks, Database
  <2> QED BY <1>9, <2>1, <2>3, <2>4
<1> QED BY <1>4, <1>5, <1>6, <1>10, <1>11, <1>12, <1>13

-------------------------------------------------------------------------------
(* The answer as to the workspaces.                                           *)

(* ApplyInTx touches no other root.                                           *)
LEMMA AppliedOthers ==
    ASSUME NEW e \in Database, NEW w \in Workspaces, NEW op \in LifecycleActions,
           NEW model \in {0, 1}, NEW seq \in Nat, NEW now \in Nat, NEW v \in Workspaces, v # w
    PROVE  Applied(e, w, op, model, seq, now).ws[v] = e.ws[v]
<1> DEFINE f == Applied(e, w, op, model, seq, now)
<1>1. f = e \/ \E row : OneRow(e, w, row, f)
  <2>1. f = e \/ LifecycleStep(e, f, w, model, seq, now)
    <3>1. /\ ~Accepted(e, w, op, model) => f = e
          /\ Accepted(e, w, op, model) =>
               \/ op = "delete"  /\ DeleteStep(e, f, w, model, seq, now)
               \/ op = "restore" /\ RestoreStep(e, f, w, seq)
               \/ op = "purge"   /\ PurgeStep(e, f, w, seq)
      BY AppliedRows
    <3> HIDE DEF f
    <3> QED BY <3>1 DEF LifecycleStep
  <2> HIDE DEF f
  <2> QED BY <2>1 DEF LifecycleStep, DeleteStep, RestoreStep, PurgeStep
<1> HIDE DEF f
<1> QED BY <1>1 DEF OneRow, Database, f

Granted(e, w, op, model) == Rejection(e, w, op, model) = ""

(* What ApplyInTx does not reject, it carries out, or finds carried out.      *)
LEMMA AppliedState ==
    ASSUME NEW e \in Database, NEW w \in Workspaces, NEW op \in LifecycleActions,
           NEW model \in {0, 1}, NEW seq \in Nat, NEW now \in Nat,
           Granted(e, w, op, model)
    PROVE  Applied(e, w, op, model, seq, now).ws[w].is_deleted = OpState(op)
<1> DEFINE f == Applied(e, w, op, model, seq, now)
<1> SUFFICES f.ws[w].is_deleted = OpState(op)
  OBVIOUS
<1>0. e.ws[w] \in WorkspaceRow
  BY DEF Database
<1>1. CASE Idempotent(e, w, op)
  <2>1. f = e
    <3>1. ~Accepted(e, w, op, model)
      BY <1>1 DEF Accepted
    <3> QED BY <3>1, AppliedRows
  <2>2. e.ws[w].is_deleted = OpState(op)
    BY <1>1 DEF Idempotent, OpState
  <2> QED BY <2>1, <2>2
<1>2. CASE ~Idempotent(e, w, op)
  <2>0. OpState("delete") = Retained /\ OpState("purge") = Terminal /\ OpState("restore") = Active
    BY DEF OpState
  <2>g. Accepted(e, w, op, model)
    BY <1>2 DEF Accepted, Granted
  <2>1. \/ op = "delete"  /\ DeleteStep(e, f, w, model, seq, now)
        \/ op = "restore" /\ RestoreStep(e, f, w, seq)
        \/ op = "purge"   /\ PurgeStep(e, f, w, seq)
    BY <2>g, AppliedRows
  <2> HIDE DEF f
  <2>2. \A row : OneRow(e, w, row, f) => f.ws[w] = row
    BY DEF OneRow, Database
  <2>3. CASE op = "delete"
    BY <2>0, <2>1, <2>2, <2>3 DEF DeleteStep, RetainedRow
  <2>4. CASE op = "restore"
    BY <2>0, <2>1, <2>2, <2>4 DEF RestoreStep, RestoredRow
  <2>5. CASE op = "purge"
    <3>1. f.ws[w] = PurgedRow(e.ws[w], seq)
      BY <2>1, <2>2, <2>5 DEF PurgeStep
    <3>2. PurgedRow(e.ws[w], seq).is_deleted = Terminal
      BY <1>0 DEF PurgedRow, WorkspaceRow
    <3> QED BY <2>0, <2>5, <3>1, <3>2
  <2> QED BY <2>3, <2>4, <2>5 DEF LifecycleActions
<1> QED BY <1>1, <1>2

(* Tables with a workspace as an item asks for, as metadata may wait for the  *)
(* batch, and with its row as it was.                                         *)
SentWorkspace(item, x) ==
    {e \in Database : /\ e.ws[item.id].is_deleted = OpState(item.op)
                      /\ item.op = "metadata" => e.ws[item.id].seq = x.seq}

Pending(item) == {e \in Database : item.op = "metadata" /\ ~Shut(e, item.id)}

SameRow(d, id) == {e \in Database : e.ws[id] = d.ws[id]}

(* Sets of tables that are about one root.                                    *)
AboutRoot(F, id) ==
    F \subseteq Database /\ \A e \in F, f \in Database : f.ws[id] = e.ws[id] => f \in F

(* The sets of tables the workspace loops are followed in are about one root. *)
LEMMA RootSets ==
    ASSUME NEW item \in WorkspaceItem, NEW x, NEW d
    PROVE  /\ AboutRoot(SentWorkspace(item, x), item.id)
           /\ AboutRoot(Pending(item), item.id)
           /\ AboutRoot(SameRow(d, item.id), item.id)
           /\ AboutRoot(Database, item.id)
<1>1. AboutRoot(SentWorkspace(item, x), item.id)
  BY DEF AboutRoot, SentWorkspace
<1>2. AboutRoot(Pending(item), item.id)
  BY DEF AboutRoot, Pending, Shut
<1>3. AboutRoot(SameRow(d, item.id), item.id)
  BY DEF AboutRoot, SameRow
<1>4. AboutRoot(Database, item.id)
  BY DEF AboutRoot
<1> QED BY <1>1, <1>2, <1>3, <1>4

(* A turn touches no other root.                                              *)
TouchesOne(q, r, id) == \A v \in Workspaces : v # id => r.db.ws[v] = q.db.ws[v]

(* The turns of the workspace loops.                                          *)
LEMMA LegacyDeleteAnswered ==
    ASSUME NEW x \in Context, x.version = 0, NEW p \in Sorting(x), NEW item \in WorkspaceItem,
           item.op = "delete"
    PROVE  LET r == Turn("legacy deletes", p, item, x) IN
           /\ TouchesOne(p, r, item.id)
           /\ \/ TurnedAway(p, r, "workspace", item.id)
              \/ Answered(p, r) /\ r.db \in SentWorkspace(item, x)
<1> DEFINE r == LegacyDeleteItem(p, item.id, x.metadata, x.seq, x.now)
<1>0. /\ p \in Held(LiveItem(x)) /\ p.db \in Database
      /\ x.seq \in Nat /\ x.now \in Nat /\ item.id \in Workspaces
      /\ "delete" \in LifecycleActions /\ 0 \in {0, 1}
  <2>1. p \in Held(LiveItem(x))
    BY DEF Sorting
  <2> QED BY <2>1, HeldFields DEF Context, Known, WorkspaceItem, LifecycleActions
<1>1. Turn("legacy deletes", p, item, x) = r
  BY DEF Turn
<1>2. TurnedAway(p, r, "workspace", item.id) \/ DeletesLegacy(p, r, item.id, x.seq, x.now)
  BY <1>0, LegacyDeleteAnswers
<1>3. r.db \in Database
  <2>1. Turn("legacy deletes", p, item, x) \in Sorting(x)
    BY SortingTurns
  <2> HIDE DEF r
  <2>2. r \in Held(LiveItem(x))
    BY <1>1, <2>1 DEF Sorting
  <2> QED BY <2>2, HeldFields
<1> HIDE DEF r
<1>4. CASE TurnedAway(p, r, "workspace", item.id)
  BY <1>1, <1>4 DEF TurnedAway, TouchesOne
<1>5. CASE DeletesLegacy(p, r, item.id, x.seq, x.now)
  <2>1. /\ r.db = Applied(p.db, item.id, "delete", 0, x.seq, x.now)
        /\ Granted(p.db, item.id, "delete", 0) /\ Answered(p, r)
    BY <1>5 DEF DeletesLegacy, Granted
  <2>2. TouchesOne(p, r, item.id)
    <3>1. \A v \in Workspaces : v # item.id => r.db.ws[v] = p.db.ws[v]
      BY <1>0, <2>1, AppliedOthers
    <3> QED BY <3>1 DEF TouchesOne
  <2>3. r.db.ws[item.id].is_deleted = OpState("delete")
    BY <1>0, <2>1, AppliedState
  <2>4. r.db \in SentWorkspace(item, x)
    BY <1>3, <2>3 DEF SentWorkspace
  <2> QED BY <1>1, <2>1, <2>2, <2>4
<1> QED BY <1>2, <1>4, <1>5

(* A version-2 lifecycle action is turned away, or holds after its turn.      *)
LEMMA LifecycleAnswered ==
    ASSUME NEW x \in Context, x.version = 2, NEW p \in Sorting(x), NEW item \in WorkspaceItem,
           item.op # "metadata"
    PROVE  LET r == Turn("workspaces", p, item, x) IN
           /\ TouchesOne(p, r, item.id)
           /\ \/ TurnedAway(p, r, "workspace", item.id)
              \/ Answered(p, r) /\ r.db \in SentWorkspace(item, x)
<1> DEFINE r == LifecycleItem(p, item.id, item.op, x.before, x.seq, x.now)
<1>0. /\ p \in Held(LiveItem(x)) /\ p.db \in Database
      /\ x.seq \in Nat /\ x.now \in Nat /\ item.id \in Workspaces
      /\ item.op \in LifecycleActions /\ 1 \in {0, 1}
  <2>1. p \in Held(LiveItem(x))
    BY DEF Sorting
  <2> QED BY <2>1, HeldFields DEF Context, Known, WorkspaceItem, LifecycleActions
<1>1. Turn("workspaces", p, item, x) = r
  BY DEF Turn
<1>2. TurnedAway(p, r, "workspace", item.id)
      \/ Moves(p, r, item.id, item.op, x.before, x.seq, x.now)
  BY <1>0, LifecycleAnswers
<1>3. r.db \in Database
  <2>1. Turn("workspaces", p, item, x) \in Sorting(x)
    BY SortingTurns
  <2> HIDE DEF r
  <2>2. r \in Held(LiveItem(x))
    BY <1>1, <2>1 DEF Sorting
  <2> QED BY <2>2, HeldFields
<1> HIDE DEF r
<1>4. CASE TurnedAway(p, r, "workspace", item.id)
  BY <1>1, <1>4 DEF TurnedAway, TouchesOne
<1>5. CASE Moves(p, r, item.id, item.op, x.before, x.seq, x.now)
  <2>1. /\ r.db = Applied(p.db, item.id, item.op, 1, x.seq, x.now)
        /\ Granted(p.db, item.id, item.op, 1) /\ Answered(p, r)
    BY <1>5 DEF Moves, Granted
  <2>2. TouchesOne(p, r, item.id)
    <3>1. \A v \in Workspaces : v # item.id => r.db.ws[v] = p.db.ws[v]
      BY <1>0, <2>1, AppliedOthers
    <3> QED BY <3>1 DEF TouchesOne
  <2>3. r.db.ws[item.id].is_deleted = OpState(item.op)
    BY <1>0, <2>1, AppliedState
  <2>4. r.db \in SentWorkspace(item, x)
    BY <1>3, <2>3 DEF SentWorkspace
  <2> QED BY <1>1, <2>1, <2>2, <2>4
<1> QED BY <1>2, <1>4, <1>5

(* Metadata waits while its workspace is open.                                *)
LEMMA MetadataAnswered ==
    ASSUME NEW x \in Context, NEW p \in Sorting(x), NEW item \in WorkspaceItem,
           item.op = "metadata"
    PROVE  /\ LET r == Turn("workspaces", p, item, x) IN
              \/ TurnedAway(p, r, "workspace", item.id)
              \/ Waits(p, r, item) /\ r.db \in Pending(item)
           /\ p.db \in SameRow(x.before, item.id) =>
              LET r == Turn("legacy metadata", p, item, x) IN
              \/ TurnedAway(p, r, "workspace", item.id)
              \/ Waits(p, r, item) /\ r.db \in Pending(item)
<1>0. p \in Held(LiveItem(x)) /\ p.db \in Database /\ item.id \in Workspaces /\ Available(p)
  <2>1. p \in Held(LiveItem(x))
    BY DEF Sorting
  <2> QED BY <2>1, HeldFields DEF WorkspaceItem, Sorting, WorkspacesInv
<1>1. Turn("workspaces", p, item, x) = MetadataItem(p, item)
  BY DEF Turn
<1>2. Turn("legacy metadata", p, item, x) = LegacyMetadataItem(p, item, x.before)
  BY DEF Turn
<1>3. LET r == MetadataItem(p, item) IN
      \/ TurnedAway(p, r, "workspace", item.id)
      \/ Waits(p, r, item) /\ r.db \in Pending(item)
  <2> DEFINE r == MetadataItem(p, item)
  <2>1. \/ TurnedAway(p, r, "workspace", item.id)
        \/ p.unavailable[item.id] = "" /\ QueuesWorkspace(p, r, item)
    BY <1>0, MetadataAnswers
  <2> HIDE DEF r
  <2>2. QueuesWorkspace(p, r, item) => Waits(p, r, item) /\ r.db = p.db
    BY DEF QueuesWorkspace, Waits
  <2>3. p.unavailable[item.id] = "" => p.db \in Pending(item)
    BY <1>0 DEF Available, Pending
  <2> QED BY <2>1, <2>2, <2>3 DEF r
<1>4. ASSUME p.db \in SameRow(x.before, item.id)
      PROVE  LET r == LegacyMetadataItem(p, item, x.before) IN
             \/ TurnedAway(p, r, "workspace", item.id)
             \/ Waits(p, r, item) /\ r.db \in Pending(item)
  <2> DEFINE r == LegacyMetadataItem(p, item, x.before)
  <2>1. \/ TurnedAway(p, r, "workspace", item.id)
        \/ ~Shut(x.before, item.id) /\ QueuesWorkspace(p, r, item)
    BY <1>0, LegacyMetadataAnswers
  <2> HIDE DEF r
  <2>2. QueuesWorkspace(p, r, item) => Waits(p, r, item) /\ r.db = p.db
    BY DEF QueuesWorkspace, Waits
  <2>3. ~Shut(x.before, item.id) => p.db \in Pending(item)
    BY <1>0, <1>4 DEF SameRow, Shut, Pending
  <2> QED BY <2>1, <2>2, <2>3 DEF r
<1> QED BY <1>1, <1>2, <1>3, <1>4

(* Whatever its turn on an item, a loop over the workspaces sorts it out.     *)
LEMMA WorkspacesSort ==
    ASSUME NEW x \in Context, NEW p \in Sorting(x), NEW item \in WorkspaceItem
    PROVE  /\ x.version = 0 =>
                LET r == Turn("legacy deletes", p, item, x) IN
                r \in Sorting(x) /\ Sorts(p, r, "workspace", item) /\ TouchesOne(p, r, item.id)
           /\ LET r == Turn("legacy metadata", p, item, x) IN
              r \in Sorting(x) /\ Sorts(p, r, "workspace", item) /\ TouchesOne(p, r, item.id)
           /\ x.version = 2 =>
                LET r == Turn("workspaces", p, item, x) IN
                r \in Sorting(x) /\ Sorts(p, r, "workspace", item) /\ TouchesOne(p, r, item.id)
<1>0. p \in Held(LiveItem(x))
  BY DEF Sorting
<1>1. \A r : r = p => Sorts(p, r, "workspace", item) /\ TouchesOne(p, r, item.id)
  BY DEF Sorts, Answered, TouchesOne
<1>2. \A r : TurnedAway(p, r, "workspace", item.id) \/ Waits(p, r, item) =>
               Sorts(p, r, "workspace", item) /\ TouchesOne(p, r, item.id)
  BY DEF Sorts, TurnedAway, Waits, TouchesOne
<1>3. ASSUME x.version = 0
      PROVE  LET r == Turn("legacy deletes", p, item, x) IN
             r \in Sorting(x) /\ Sorts(p, r, "workspace", item) /\ TouchesOne(p, r, item.id)
  <2> DEFINE r == Turn("legacy deletes", p, item, x)
  <2>1. r \in Sorting(x)
    BY <1>3, SortingTurns
  <2>2. CASE item.op = "delete"
    <3>1. TouchesOne(p, r, item.id) /\ (TurnedAway(p, r, "workspace", item.id) \/ Answered(p, r))
      BY <1>3, <2>2, LegacyDeleteAnswered
    <3> HIDE DEF r
    <3> QED BY <2>1, <3>1 DEF Sorts, r
  <2>3. CASE item.op # "delete"
    <3>1. r = p
      BY <2>3 DEF Turn
    <3> QED BY <1>1, <2>1, <3>1
  <2> QED BY <2>2, <2>3
<1>4. LET r == Turn("legacy metadata", p, item, x) IN
      r \in Sorting(x) /\ Sorts(p, r, "workspace", item) /\ TouchesOne(p, r, item.id)
  <2> DEFINE r == Turn("legacy metadata", p, item, x)
  <2>1. r \in Sorting(x)
    BY SortingTurns
  <2>2. CASE item.op # "delete"
    <3>1. r = LegacyMetadataItem(p, item, x.before)
      BY <2>2 DEF Turn
    <3> HIDE DEF r
    <3>2. TurnedAway(p, r, "workspace", item.id) \/ QueuesWorkspace(p, r, item)
      BY <1>0, <3>1, LegacyMetadataAnswers
    <3>3. TurnedAway(p, r, "workspace", item.id) \/ Waits(p, r, item)
      BY <3>2 DEF QueuesWorkspace
    <3> QED BY <1>2, <2>1, <3>3 DEF r
  <2>3. CASE item.op = "delete"
    <3>1. r = p
      BY <2>3 DEF Turn
    <3> QED BY <1>1, <2>1, <3>1
  <2> QED BY <2>2, <2>3
<1>5. ASSUME x.version = 2
      PROVE  LET r == Turn("workspaces", p, item, x) IN
             r \in Sorting(x) /\ Sorts(p, r, "workspace", item) /\ TouchesOne(p, r, item.id)
  <2> DEFINE r == Turn("workspaces", p, item, x)
  <2>1. r \in Sorting(x)
    BY <1>5, SortingTurns
  <2>2. CASE item.op = "metadata"
    <3>1. TurnedAway(p, r, "workspace", item.id) \/ Waits(p, r, item)
      BY <2>2, MetadataAnswered
    <3> HIDE DEF r
    <3> QED BY <1>2, <2>1, <3>1 DEF r
  <2>3. CASE item.op # "metadata"
    <3>1. TouchesOne(p, r, item.id) /\ (TurnedAway(p, r, "workspace", item.id) \/ Answered(p, r))
      BY <1>5, <2>3, LifecycleAnswered
    <3> HIDE DEF r
    <3> QED BY <2>1, <3>1 DEF Sorts, r
  <2> QED BY <2>2, <2>3
<1> QED BY <1>3, <1>4, <1>5

(* A row of the batch is stored where the metadata waited.                    *)
LEMMA WorkspacesStore ==
    ASSUME NEW x \in Context, NEW p \in Storing(x), NEW item \in LiveItem(x)
    PROVE  LET r == Turn("workspace upserts", p, item, x) IN
           /\ r \in Storing(x) /\ Stores(p, r, "workspace", item) /\ TouchesOne(p, r, item.id)
           /\ p.db \in Pending(item) =>
                TurnedAway(p, r, "workspace", item.id) \/ r.db \in SentWorkspace(item, x)
<1> DEFINE r == UpsertWorkspace(p, item, x.horizon, x.seq)
<1>0. /\ p \in Held(LiveItem(x)) /\ p.db \in Database
      /\ x.horizon \in Nat /\ x.seq \in Nat
      /\ item \in WorkspaceItem /\ item.id \in Workspaces
  <2>1. p \in Held(LiveItem(x))
    BY DEF Storing
  <2> QED BY <2>1, HeldFields DEF Context, Known, WorkspaceItem, LiveItem
<1>1. Turn("workspace upserts", p, item, x) = r
  BY DEF Turn
<1>2. Turn("workspace upserts", p, item, x) \in Storing(x)
  BY StoringTurn
<1>3. TurnedAway(p, r, "workspace", item.id) \/ Answered(p, r)
  BY <1>0, UpsertWorkspaceAnswers
<1>4. Refuses(LiveItem(x), p, r) \/ StoresWorkspace(p, r, item.id, x.horizon, x.seq)
  BY <1>0, UpsertWorkspaceTurn
<1> HIDE DEF r
<1>5. r.db \in Database
  <2>1. r \in Held(LiveItem(x))
    BY <1>1, <1>2 DEF Storing
  <2> QED BY <2>1, HeldFields
<1>6. r.db = p.db \/ OneRow(p.db, item.id, StoredWorkspace(p.db.ws[item.id], x.seq), r.db)
  BY <1>4 DEF Refuses, Refused, StoresWorkspace
<1>7. TouchesOne(p, r, item.id)
  BY <1>0, <1>6 DEF TouchesOne, OneRow, Database
<1>8. ASSUME p.db \in Pending(item)
      PROVE  TurnedAway(p, r, "workspace", item.id) \/ r.db \in SentWorkspace(item, x)
  <2> DEFINE row == p.db.ws[item.id]
  <2>1. item.op = "metadata" /\ row \in WorkspaceRow /\ (row.is_deleted = Absent \/ row.is_deleted = Active)
    BY <1>0, <1>8 DEF Pending, Shut, Database, WorkspaceRow, States
  <2> HIDE DEF row
  <2>2. OpState(item.op) = Active
    BY <2>1 DEF OpState
  <2>3. StoredWorkspace(row, x.seq).is_deleted = Active /\ StoredWorkspace(row, x.seq).seq = x.seq
    BY <2>1 DEF StoredWorkspace, WorkspaceRow
  <2>4. CASE row.seq <= x.horizon
    <3>1. \E U : r = [p EXCEPT !.db.ws[item.id] = StoredWorkspace(row, x.seq), !.owned = U]
      BY <2>4 DEF UpsertWorkspace, StoredWorkspace, r, row
    <3>2. r.db.ws[item.id] = StoredWorkspace(row, x.seq)
      BY <1>0, <3>1 DEF Held, Database
    <3>3. r.db.ws[item.id].is_deleted = OpState(item.op) /\ r.db.ws[item.id].seq = x.seq
      BY <2>2, <2>3, <3>2
    <3> QED BY <1>5, <3>3 DEF SentWorkspace
  <2>5. CASE ~(row.seq <= x.horizon)
    <3>1. \E f : r = [Reject(p, "workspace", item.id, "stale") EXCEPT !.unavailable = f]
      BY <2>5 DEF UpsertWorkspace, r, row
    <3> QED BY <1>0, <3>1, RejectTurnsAway
  <2> QED BY <2>4, <2>5
<1> QED BY <1>1, <1>2, <1>3, <1>7, <1>8 DEF Stores

-------------------------------------------------------------------------------
(* The loops over the workspaces.                                             *)

SparesRoots(loop, I, x, H) ==
    \A id \in Workspaces : \A F : AboutRoot(F, id) => Spares(loop, I, x, H, id, F)

(* A workspace loop whose turns touch one root each spares every other.       *)
LEMMA RootLoop ==
    ASSUME NEW loop, NEW I \in SUBSET WorkspaceItem, NEW x, NEW J, NEW H \in SUBSET Held(J),
           \A p \in H, item \in I : LET r == Turn(loop, p, item, x) IN
               r \in H /\ TouchesOne(p, r, item.id)
    PROVE  SparesRoots(loop, I, x, H)
<1> SUFFICES ASSUME NEW id \in Workspaces, NEW F, AboutRoot(F, id),
                    NEW p \in H, NEW o \in I, o.id # id, p.db \in F
             PROVE  Turn(loop, p, o, x).db \in F
  BY DEF SparesRoots, Spares
<1> DEFINE r == Turn(loop, p, o, x)
<1>1. r \in H /\ TouchesOne(p, r, o.id)
  OBVIOUS
<1> HIDE DEF r
<1>2. r.db.ws[id] = p.db.ws[id]
  BY <1>1 DEF TouchesOne
<1>3. r \in Held(J)
  BY <1>1
<1>4. r.db \in Database
  BY <1>3, HeldFields
<1> QED BY <1>2, <1>4 DEF AboutRoot, r

(* So the workspace loops and their batch spare the roots they do not list.   *)
LEMMA WorkspaceLoops ==
    ASSUME NEW x \in Context
    PROVE  /\ x.version = 0 =>
                /\ SortsAll("legacy deletes", WorkspaceItem, x, "workspace", Sorting(x))
                /\ SparesRoots("legacy deletes", WorkspaceItem, x, Sorting(x))
           /\ SortsAll("legacy metadata", WorkspaceItem, x, "workspace", Sorting(x))
           /\ SparesRoots("legacy metadata", WorkspaceItem, x, Sorting(x))
           /\ x.version = 2 =>
                /\ SortsAll("workspaces", WorkspaceItem, x, "workspace", Sorting(x))
                /\ SparesRoots("workspaces", WorkspaceItem, x, Sorting(x))
           /\ StoresAll("workspace upserts", LiveItem(x), x, "workspace", Storing(x))
           /\ SparesRoots("workspace upserts", LiveItem(x), x, Storing(x))
<1>0. /\ Sorting(x) \in SUBSET Held(LiveItem(x)) /\ Storing(x) \in SUBSET Held(LiveItem(x))
      /\ LiveItem(x) \in SUBSET WorkspaceItem
  BY DEF Sorting, Storing, LiveItem
<1>1. ASSUME x.version = 0
      PROVE  /\ SortsAll("legacy deletes", WorkspaceItem, x, "workspace", Sorting(x))
             /\ SparesRoots("legacy deletes", WorkspaceItem, x, Sorting(x))
  <2>1. \A p \in Sorting(x), item \in WorkspaceItem : LET r == Turn("legacy deletes", p, item, x) IN
           r \in Sorting(x) /\ Sorts(p, r, "workspace", item) /\ TouchesOne(p, r, item.id)
    BY <1>1, WorkspacesSort
  <2> QED BY <1>0, <2>1, RootLoop DEF SortsAll
<1>2. /\ SortsAll("legacy metadata", WorkspaceItem, x, "workspace", Sorting(x))
      /\ SparesRoots("legacy metadata", WorkspaceItem, x, Sorting(x))
  <2>1. \A p \in Sorting(x), item \in WorkspaceItem : LET r == Turn("legacy metadata", p, item, x) IN
           r \in Sorting(x) /\ Sorts(p, r, "workspace", item) /\ TouchesOne(p, r, item.id)
    BY WorkspacesSort
  <2> QED BY <1>0, <2>1, RootLoop DEF SortsAll
<1>3. ASSUME x.version = 2
      PROVE  /\ SortsAll("workspaces", WorkspaceItem, x, "workspace", Sorting(x))
             /\ SparesRoots("workspaces", WorkspaceItem, x, Sorting(x))
  <2>1. \A p \in Sorting(x), item \in WorkspaceItem : LET r == Turn("workspaces", p, item, x) IN
           r \in Sorting(x) /\ Sorts(p, r, "workspace", item) /\ TouchesOne(p, r, item.id)
    BY <1>3, WorkspacesSort
  <2> QED BY <1>0, <2>1, RootLoop DEF SortsAll
<1>4. /\ StoresAll("workspace upserts", LiveItem(x), x, "workspace", Storing(x))
      /\ SparesRoots("workspace upserts", LiveItem(x), x, Storing(x))
  <2>1. \A p \in Storing(x), item \in LiveItem(x) : LET r == Turn("workspace upserts", p, item, x) IN
           r \in Storing(x) /\ Stores(p, r, "workspace", item) /\ TouchesOne(p, r, item.id)
    BY WorkspacesStore
  <2> QED BY <1>0, <2>1, RootLoop DEF StoresAll
<1> QED BY <1>1, <1>2, <1>3, <1>4

(* A loop that is not for an item leaves it where it is.                      *)
LEMMA PassedOver ==
    ASSUME NEW loop, NEW I, NEW list \in Seq(I), NEW item, Lone(list, item), NEW x, NEW type,
           NEW J, NEW H \in SUBSET Held(J), NEW p \in H, NEW B, NEW D, NEW E,
           SortsAll(loop, I, x, type, H),
           \A q \in H : Turn(loop, q, item, x) = q,
           Spares(loop, I, x, H, item.id, B),
           Spares(loop, I, x, H, item.id, D), Spares(loop, I, x, H, item.id, E)
    PROVE  LET q == Each(loop, p, list, x) IN
           /\ item.id \notin Ids(p.upserts) /\ p.db \in B =>
                 item.id \notin Ids(q.upserts) /\ q.db \in B
           /\ Placed(p, type, item, D, E) => Placed(q, type, item, D, E)
<1>1. ASSUME NEW q \in H, NEW o \in I, o.id # item.id
      PROVE  LET r == Turn(loop, q, o, x) IN
             /\ r \in H
             /\ item.id \notin Ids(q.upserts) => item.id \notin Ids(r.upserts)
             /\ q.db \in B => r.db \in B
             /\ Placed(q, type, item, D, E) => Placed(r, type, item, D, E)
  <2> DEFINE r == Turn(loop, q, o, x)
  <2>1. /\ r \in H /\ Sorts(q, r, type, o) /\ (q.db \in B => r.db \in B)
        /\ (q.db \in D => r.db \in D) /\ (q.db \in E => r.db \in E)
    BY <1>1 DEF SortsAll, Spares
  <2> HIDE DEF r
  <2>2. q \in Held(J)
    OBVIOUS
  <2>3. /\ item.id \notin Ids(q.upserts) => item.id \notin Ids(r.upserts)
        /\ Placed(q, type, item, D, E) => Placed(r, type, item, D, E)
    BY <1>1, <2>1, <2>2, OtherStaysPlaced
  <2> QED BY <2>1, <2>3 DEF r
<1>2. ASSUME item.id \notin Ids(p.upserts), p.db \in B
      PROVE  LET q == Each(loop, p, list, x) IN item.id \notin Ids(q.upserts) /\ q.db \in B
  <2> DEFINE S == {q \in H : item.id \notin Ids(q.upserts) /\ q.db \in B}
  <2>1. p \in S
    BY <1>2
  <2>2. \A q \in S, o \in I : o.id # item.id => Turn(loop, q, o, x) \in S
    BY <1>1
  <2>3. \A q \in S : Turn(loop, q, item, x) \in S
    OBVIOUS
  <2>4. Each(loop, p, list, x) \in S
    <3> HIDE DEF S
    <3> QED BY <2>1, <2>2, <2>3, EachReaches
  <2> QED BY <2>4
<1>3. ASSUME Placed(p, type, item, D, E)
      PROVE  Placed(Each(loop, p, list, x), type, item, D, E)
  <2> DEFINE S == {q \in H : Placed(q, type, item, D, E)}
  <2>1. p \in S
    BY <1>3
  <2>2. \A q \in S, o \in I : o.id # item.id => Turn(loop, q, o, x) \in S
    BY <1>1
  <2>3. \A q \in S : Turn(loop, q, item, x) \in S
    OBVIOUS
  <2>4. Each(loop, p, list, x) \in S
    <3> HIDE DEF S
    <3> QED BY <2>1, <2>2, <2>3, EachReaches
  <2> QED BY <2>4
<1> QED BY <1>2, <1>3

(* Nothing is rejected and nothing waits at the start.                        *)
LEMMA StartAnswers ==
    ASSUME NEW x \in Context
    PROVE  LET p == Start(x.before, x.horizon) IN
           /\ p \in Sorting(x) /\ p.db = x.before
           /\ Ids(p.upserts) = {} /\ Single(p.upserts)
           /\ \A t : RejectedIds(p, t) = {}
<1> DEFINE p == Start(x.before, x.horizon)
<1>1. p.upserts = <<>> /\ p.rejected = {} /\ p.db = x.before
  BY DEF Start
<1>2. p \in Sorting(x)
  BY StartSorting
<1> HIDE DEF p
<1>3. Ids(p.upserts) = {} /\ Single(p.upserts)
  BY <1>1 DEF Ids, Single
<1>4. \A t : RejectedIds(p, t) = {}
  BY <1>1 DEF RejectedIds
<1> QED BY <1>1, <1>2, <1>3, <1>4 DEF p

(* What the loops of the workspaces leave.                                    *)
RootsSorted(x, list, q) ==
    /\ q \in Sorting(x)
    /\ \A t : t # "workspace" => RejectedIds(q, t) = {}
    /\ \A item \in WorkspaceItem : Lone(list, item) =>
          Placed(q, "workspace", item, SentWorkspace(item, x), Pending(item))
    /\ Single(list) => SortedOut(q, x.before, "workspace", Ids(list))

(* Version 2: one loop.                                                       *)
LEMMA WorkspacesSorted ==
    ASSUME NEW x \in Context, x.version = 2, NEW list \in Seq(WorkspaceItem)
    PROVE  RootsSorted(x, list, Each("workspaces", Start(x.before, x.horizon), list, x))
<1> DEFINE p == Start(x.before, x.horizon)
           H == Sorting(x)
           q == Each("workspaces", p, list, x)
<1>1. /\ p \in H /\ p.db = x.before /\ Ids(p.upserts) = {} /\ Single(p.upserts)
      /\ \A t : RejectedIds(p, t) = {}
  BY StartAnswers
<1> HIDE DEF p
<1>2. /\ SortsAll("workspaces", WorkspaceItem, x, "workspace", H)
      /\ SparesRoots("workspaces", WorkspaceItem, x, H)
      /\ H \in SUBSET Held(LiveItem(x)) /\ x.before \in Database
  BY WorkspaceLoops DEF Sorting, Context, Known
<1>3. q \in H /\ \A t : t # "workspace" => RejectedIds(q, t) = {}
  <2> HIDE DEF H
  <2> QED BY <1>1, <1>2, EachRejects
<1>4. ASSUME NEW item \in WorkspaceItem, Lone(list, item)
      PROVE  Placed(q, "workspace", item, SentWorkspace(item, x), Pending(item))
  <2> DEFINE D == SentWorkspace(item, x)
             E == Pending(item)
  <2>1. item.id \in Workspaces
    BY DEF WorkspaceItem
  <2>2. /\ Spares("workspaces", WorkspaceItem, x, H, item.id, Database)
        /\ Spares("workspaces", WorkspaceItem, x, H, item.id, D)
        /\ Spares("workspaces", WorkspaceItem, x, H, item.id, E)
    BY <1>2, <2>1, RootSets DEF SparesRoots
  <2>3. Sends("workspaces", x, "workspace", H, item, Database, D, E)
    <3> SUFFICES ASSUME NEW k \in H
                 PROVE  LET r == Turn("workspaces", k, item, x) IN
                        \/ TurnedAway(k, r, "workspace", item.id)
                        \/ Waits(k, r, item) /\ r.db \in E
                        \/ Answered(k, r) /\ r.db \in D
      BY DEF Sends
    <3>1. CASE item.op = "metadata"
      BY <3>1, MetadataAnswered
    <3>2. CASE item.op # "metadata"
      BY <3>2, LifecycleAnswered
    <3> QED BY <3>1, <3>2
  <2>4. item.id \notin Ids(p.upserts) /\ p.db \in Database
    BY <1>1, <1>2
  <2> HIDE DEF D, E, H, q
  <2>5. Placed(Each("workspaces", p, list, x), "workspace", item, D, E)
    BY <1>1, <1>2, <1>4, <2>2, <2>3, <2>4, SortPlaces
  <2> QED BY <2>5 DEF D, E, q
<1>5. ASSUME Single(list) PROVE SortedOut(q, x.before, "workspace", Ids(list))
  <2> DEFINE A == {} \cup IdsIn(list, WorkspaceItem)
  <2>1. SortedOut(p, x.before, "workspace", {})
    BY <1>1 DEF SortedOut
  <2>2. PassesOver("workspaces", WorkspaceItem, x, H, WorkspaceItem)
    BY DEF PassesOver
  <2>3. SortedOut(q, x.before, "workspace", A)
    <3> HIDE DEF H
    <3>1. Fresh(list, WorkspaceItem, {})
      BY DEF Fresh
    <3> QED BY <1>1, <1>2, <1>5, <2>1, <2>2, <3>1, SortsOut
  <2>4. A = Ids(list)
    <3>1. \A j \in DOMAIN list : list[j] \in WorkspaceItem
      OBVIOUS
    <3> QED BY <3>1 DEF Ids, IdsIn
  <2> HIDE DEF A, q
  <2> QED BY <2>3, <2>4
<1> HIDE DEF q
<1> QED BY <1>3, <1>4, <1>5 DEF RootsSorted, p, q

(* Version 0: the deletes come first.                                         *)
LegacyOps(list) == \A i \in DOMAIN list : list[i].op \in {"metadata", "delete"}

(* The two loops of version 0 sort out the workspaces: the deletes, then the  *)
(* metadata.                                                                  *)
LEMMA LegacySorted ==
    ASSUME NEW x \in Context, x.version = 0, NEW list \in Seq(WorkspaceItem), LegacyOps(list)
    PROVE  RootsSorted(x, list, Each("legacy metadata",
               Each("legacy deletes", Start(x.before, x.horizon), list, x), list, x))
<1> DEFINE p == Start(x.before, x.horizon)
           H == Sorting(x)
           k == Each("legacy deletes", p, list, x)
           q == Each("legacy metadata", k, list, x)
           M == {o \in WorkspaceItem : o.op = "delete"}
           N == {o \in WorkspaceItem : o.op # "delete"}
<1>1. /\ p \in H /\ p.db = x.before /\ Ids(p.upserts) = {} /\ Single(p.upserts)
      /\ \A t : RejectedIds(p, t) = {}
  BY StartAnswers
<1> HIDE DEF p
<1>2. /\ SortsAll("legacy deletes", WorkspaceItem, x, "workspace", H)
      /\ SparesRoots("legacy deletes", WorkspaceItem, x, H)
      /\ SortsAll("legacy metadata", WorkspaceItem, x, "workspace", H)
      /\ SparesRoots("legacy metadata", WorkspaceItem, x, H)
      /\ H \in SUBSET Held(LiveItem(x)) /\ x.before \in Database
  BY WorkspaceLoops DEF Sorting, Context, Known
<1>3. \A s \in H, o \in WorkspaceItem :
         /\ o \notin M => Turn("legacy deletes", s, o, x) = s
         /\ o \notin N => Turn("legacy metadata", s, o, x) = s
  BY DEF Turn
<1>4. k \in H /\ \A t : t # "workspace" => RejectedIds(k, t) = {}
  <2> HIDE DEF H
  <2> QED BY <1>1, <1>2, EachRejects
<1>5. q \in H /\ \A t : t # "workspace" => RejectedIds(q, t) = {}
  <2> DEFINE loop == "legacy metadata"
             type == "workspace"
  <2>1. SortsAll(loop, WorkspaceItem, x, type, H) /\ k \in H /\ \A t : t # type => RejectedIds(k, t) = {}
    BY <1>2, <1>4
  <2>2. q = Each(loop, k, list, x)
    OBVIOUS
  <2> HIDE DEF H, k, q, loop, type
  <2> DEFINE e == Each(loop, k, list, x)
  <2>3. e \in H /\ \A t : t # type => RejectedIds(e, t) = RejectedIds(k, t)
    BY <2>1, EachRejects
  <2> HIDE DEF e
  <2>4. \A t : t # type => RejectedIds(e, t) = {}
    BY <2>1, <2>3
  <2> QED BY <2>2, <2>3, <2>4 DEF e, type
<1>6. ASSUME NEW item \in WorkspaceItem, Lone(list, item)
      PROVE  Placed(q, "workspace", item, SentWorkspace(item, x), Pending(item))
  <2> DEFINE B == SameRow(x.before, item.id)
             D == SentWorkspace(item, x)
             E == Pending(item)
  <2>0. item.id \in Workspaces /\ item.id \notin Ids(p.upserts) /\ p.db \in Database /\ p.db \in B
    BY <1>1, <1>2 DEF WorkspaceItem, SameRow
  <2>1. AboutRoot(Database, item.id) /\ AboutRoot(B, item.id)
        /\ AboutRoot(D, item.id) /\ AboutRoot(E, item.id)
    BY RootSets
  <2> HIDE DEF B, D, E, H
  <2>2. /\ Spares("legacy deletes", WorkspaceItem, x, H, item.id, Database)
        /\ Spares("legacy deletes", WorkspaceItem, x, H, item.id, B)
        /\ Spares("legacy deletes", WorkspaceItem, x, H, item.id, D)
        /\ Spares("legacy deletes", WorkspaceItem, x, H, item.id, E)
    BY <1>2, <2>0, <2>1 DEF SparesRoots
  <2>3. /\ Spares("legacy metadata", WorkspaceItem, x, H, item.id, B)
        /\ Spares("legacy metadata", WorkspaceItem, x, H, item.id, D)
        /\ Spares("legacy metadata", WorkspaceItem, x, H, item.id, E)
    BY <1>2, <2>0, <2>1 DEF SparesRoots
  <2>4. CASE item.op = "delete"
    <3>1. Sends("legacy deletes", x, "workspace", H, item, Database, D, E)
      BY <2>4, LegacyDeleteAnswered DEF Sends, H, D
    <3>2. Placed(k, "workspace", item, D, E)
      <4>1. Placed(Each("legacy deletes", p, list, x), "workspace", item, D, E)
        BY <1>1, <1>2, <1>6, <2>0, <2>2, <3>1, SortPlaces
      <4> QED BY <4>1
    <3>3. \A s \in H : Turn("legacy metadata", s, item, x) = s
      BY <1>3, <2>4
    <3> HIDE DEF k, q
    <3>4. Placed(Each("legacy metadata", k, list, x), "workspace", item, D, E)
      BY <1>2, <1>4, <1>6, <2>3, <3>2, <3>3, PassedOver
    <3> QED BY <3>4 DEF D, E, q
  <2>5. CASE item.op # "delete"
    <3>1. \A s \in H : Turn("legacy deletes", s, item, x) = s
      BY <1>3, <2>5
    <3>2. item.id \notin Ids(k.upserts) /\ k.db \in B
      <4> HIDE DEF k, q, M, N
      <4>0. /\ SortsAll("legacy deletes", WorkspaceItem, x, "workspace", H)
            /\ H \in SUBSET Held(LiveItem(x)) /\ p \in H
        BY <1>1, <1>2
      <4>1. LET e == Each("legacy deletes", p, list, x) IN item.id \notin Ids(e.upserts) /\ e.db \in B
        BY <1>6, <2>0, <2>2, <3>1, <4>0, PassedOver
      <4> QED BY <4>1 DEF k
    <3>3. item.op = "metadata"
      BY <1>6, <2>5 DEF Lone, LegacyOps
    <3>4. Sends("legacy metadata", x, "workspace", H, item, B, D, E)
      BY <3>3, MetadataAnswered DEF Sends, H, B, E
    <3> HIDE DEF k, q
    <3>5. Placed(Each("legacy metadata", k, list, x), "workspace", item, D, E)
      BY <1>2, <1>4, <1>6, <2>3, <3>2, <3>4, SortPlaces
    <3> QED BY <3>5 DEF D, E, q
  <2> QED BY <2>4, <2>5
<1>7. ASSUME Single(list) PROVE SortedOut(q, x.before, "workspace", Ids(list))
  <2> DEFINE A1 == {} \cup IdsIn(list, M)
             A2 == IdsIn(list, N)
  <2>1. SortedOut(p, x.before, "workspace", {})
    BY <1>1 DEF SortedOut
  <2>2. /\ PassesOver("legacy deletes", WorkspaceItem, x, H, M)
        /\ PassesOver("legacy metadata", WorkspaceItem, x, H, N)
    BY <1>3 DEF PassesOver
  <2>3. Fresh(list, M, {}) /\ Fresh(list, N, A1)
    <3>1. \A i, j \in DOMAIN list : list[i] \in N /\ list[j] \in M => list[i].id # list[j].id
      <4>1. \A i, j \in DOMAIN list : i # j => list[i].id # list[j].id
        BY <1>7 DEF Single, Once
      <4> QED BY <4>1
    <3> HIDE DEF M, N
    <3> QED BY <3>1 DEF Fresh, IdsIn
  <2>4. A1 \cup A2 = Ids(list)
    <3>1. \A j \in DOMAIN list : list[j] \in M \/ list[j] \in N
      OBVIOUS
    <3> HIDE DEF M, N
    <3> QED BY <3>1 DEF Ids, IdsIn
  <2> HIDE DEF H, M, N
  <2>5. SortedOut(k, x.before, "workspace", A1)
    BY <1>1, <1>2, <1>7, <2>1, <2>2, <2>3, SortsOut
  <2> HIDE DEF A1, k
  <2>6. SortedOut(q, x.before, "workspace", A1 \cup A2)
    BY <1>2, <1>4, <1>7, <2>2, <2>3, <2>5, SortsOut
  <2> HIDE DEF A2, q
  <2> QED BY <2>4, <2>6
<1> HIDE DEF q, k
<1> QED BY <1>5, <1>6, <1>7 DEF RootsSorted, p, q, k

(* The answer as to the workspaces.                                           *)
LEMMA PushWorkspacesAnswers ==
    ASSUME NEW x \in Context, NEW req \in Request(x.version)
    PROVE  LET q == PushWorkspaces(Start(x.before, x.horizon), req, x) IN
           /\ \A t : t # "workspace" => RejectedIds(q, t) = {}
           /\ \A item \in WorkspaceItem : Lone(req.ws, item) =>
                 item.id \in RejectedIds(q, "workspace") \/ q.db \in SentWorkspace(item, x)
           /\ Single(req.ws) /\ Ids(req.ws) \subseteq RejectedIds(q, "workspace") => q.db = x.before
<1> DEFINE p == Start(x.before, x.horizon)
           sorted == IF req.version = 0
                     THEN Each("legacy metadata", Each("legacy deletes", p, req.ws, x), req.ws, x)
                     ELSE Each("workspaces", p, req.ws, x)
           stored == Batch("workspace upserts", sorted, x)
           f == [c \in Collections |->
                   IF \E w \in stored.legacyDeleted : c \in CollectionsOf(stored.db, w)
                   THEN "parent_rejected" ELSE stored.unavailableCol[c]]
           q == [stored EXCEPT !.unavailableCol = f]
<1>0. /\ x.version \in {0, 2} /\ req.version = x.version
      /\ req.ws \in Seq(WorkspaceItems(x.version))
  BY DEF Context, Known, Request
<1>1. WorkspaceItems(x.version) \subseteq WorkspaceItem
  BY <1>0 DEF WorkspaceItems, WorkspaceOps, WorkspaceItem
<1>2. req.ws \in Seq(WorkspaceItem)
  BY <1>0, <1>1
<1>3. RootsSorted(x, req.ws, sorted)
  <2>1. CASE x.version = 0
    <3>1. LegacyOps(req.ws)
      <4>1. \A i \in DOMAIN req.ws : req.ws[i] \in WorkspaceItems(0)
        BY <1>0, <2>1
      <4> QED BY <4>1 DEF LegacyOps, WorkspaceItems, WorkspaceOps
    <3>2. sorted = Each("legacy metadata", Each("legacy deletes", p, req.ws, x), req.ws, x)
      BY <1>0, <2>1
    <3> HIDE DEF sorted
    <3> QED BY <1>2, <2>1, <3>1, <3>2, LegacySorted
  <2>2. CASE x.version = 2
    <3>2. sorted = Each("workspaces", p, req.ws, x)
      BY <1>0, <2>2
    <3> HIDE DEF sorted
    <3> QED BY <1>2, <2>2, <3>2, WorkspacesSorted
  <2> QED BY <1>0, <2>1, <2>2
<1>4. PushWorkspaces(p, req, x) = q
  BY DEF PushWorkspaces
<1> DEFINE I == LiveItem(x)
           H == Storing(x)
<1> HIDE DEF sorted, p
<1>5. /\ H \in SUBSET Held(I) /\ sorted \in H /\ sorted \in Held(I)
      /\ StoresAll("workspace upserts", I, x, "workspace", H)
      /\ SparesRoots("workspace upserts", I, x, H)
  BY <1>3, WorkspaceLoops DEF RootsSorted, Sorting, Storing
<1>6. \A item \in WorkspaceItem : Lone(req.ws, item) =>
         item.id \in RejectedIds(stored, "workspace") \/ stored.db \in SentWorkspace(item, x)
  <2> SUFFICES ASSUME NEW item \in WorkspaceItem, Lone(req.ws, item)
               PROVE  item.id \in RejectedIds(stored, "workspace") \/ stored.db \in SentWorkspace(item, x)
    OBVIOUS
  <2> DEFINE D == SentWorkspace(item, x)
             E == Pending(item)
  <2>1. Placed(sorted, "workspace", item, D, E)
    BY <1>3 DEF RootsSorted
  <2>2. /\ Spares("workspace upserts", I, x, H, item.id, D)
        /\ Spares("workspace upserts", I, x, H, item.id, E)
    BY <1>5, RootSets DEF SparesRoots, WorkspaceItem
  <2>3. CASE item \in I
    <3>1. Settles("workspace upserts", x, "workspace", H, item, D, E)
      BY <2>3, WorkspacesStore DEF Settles
    <3> HIDE DEF H, I, D, E
    <3>2. LET r == Batch("workspace upserts", sorted, x) IN
          item.id \in RejectedIds(r, "workspace") \/ r.db \in D
      BY <1>5, <2>1, <2>2, <3>1, BatchPlaces
    <3> QED BY <3>2 DEF D
  <2>4. CASE item \notin I
    <3>1. ~Lone(sorted.upserts, item)
      <4>1. sorted.upserts \in Seq(I)
        BY <1>5, HeldFields
      <4> QED BY <2>4, <4>1 DEF Lone
    <3>2. Placed(sorted, "workspace", item, D, {})
      BY <2>1, <3>1 DEF Placed
    <3>3. /\ Settles("workspace upserts", x, "workspace", H, item, D, {})
          /\ Spares("workspace upserts", I, x, H, item.id, {})
      BY DEF Settles, Spares
    <3> HIDE DEF H, I, D, E
    <3>4. LET r == Batch("workspace upserts", sorted, x) IN
          item.id \in RejectedIds(r, "workspace") \/ r.db \in D
      BY <1>5, <2>2, <3>2, <3>3, BatchPlaces
    <3> QED BY <3>4 DEF D
  <2> QED BY <2>3, <2>4
<1>7. Single(req.ws) /\ Ids(req.ws) \subseteq RejectedIds(stored, "workspace") => stored.db = x.before
  <2> SUFFICES ASSUME Single(req.ws), Ids(req.ws) \subseteq RejectedIds(stored, "workspace")
               PROVE  stored.db = x.before
    OBVIOUS
  <2> DEFINE A == Ids(req.ws)
             type == "workspace"
             loop == "workspace upserts"
             d == x.before
  <2>1. SortedOut(sorted, d, type, A)
    BY <1>3 DEF RootsSorted
  <2>2. H \in SUBSET Held(I) /\ sorted \in H /\ StoresAll(loop, I, x, type, H)
    BY <1>5
  <2> HIDE DEF H, I, A, type, loop, d
  <2> DEFINE r == Batch(loop, sorted, x)
  <2>3. RejectedIds(r, type) \subseteq A /\ (A \subseteq RejectedIds(r, type) => r.db = d)
    BY <2>1, <2>2, BatchSortsOut
  <2> QED BY <2>3 DEF A, type, loop, d
<1>8. stored \in Held({}) /\ \A t : t # "workspace" => RejectedIds(stored, t) = {}
  <2> DEFINE type == "workspace"
             loop == "workspace upserts"
             e == Each(loop, sorted, sorted.upserts, x)
  <2>1. sorted.upserts \in Seq(I)
    BY <1>5, HeldFields
  <2>2. SortsAll(loop, I, x, type, H)
    BY <1>5 DEF StoresAll, SortsAll, Stores, Sorts
  <2>3. (\A t : t # type => RejectedIds(sorted, t) = {}) /\ sorted \in H
    BY <1>3, <1>5 DEF RootsSorted
  <2>4. stored = [e EXCEPT !.upserts = <<>>]
    BY DEF Batch
  <2> HIDE DEF H, I, type, loop, stored
  <2>5. e \in H /\ \A t : t # type => RejectedIds(e, t) = RejectedIds(sorted, t)
    BY <2>1, <2>2, <2>3, EachRejects
  <2>6. e \in Held(I)
    BY <1>5, <2>5
  <2> HIDE DEF e
  <2>7. stored.rejected = e.rejected /\ stored \in Held({})
    <3>1. <<>> \in Seq({})
      OBVIOUS
    <3> QED BY <2>4, <2>6, <3>1 DEF Held
  <2>8. \A t : RejectedIds(stored, t) = RejectedIds(e, t)
    BY <2>7 DEF RejectedIds
  <2> QED BY <2>3, <2>5, <2>7, <2>8 DEF type
<1> HIDE DEF stored
<1>9. q.db = stored.db /\ q.rejected = stored.rejected
  <2> HIDE DEF f
  <2> QED BY <1>8 DEF Held
<1> HIDE DEF q
<1>10. \A t : RejectedIds(q, t) = RejectedIds(stored, t)
  BY <1>9 DEF RejectedIds
<1> QED BY <1>4, <1>6, <1>7, <1>8, <1>9, <1>10 DEF p

(* Every entity that is listed once is among the rejected, or the tables have *)
(* it as it was sent; and when all are rejected, the tables are those before  *)
(* the push.                                                                  *)
Answers(q, d, req, seq, now) ==
    /\ \A item \in WorkspaceItem : Lone(req.ws, item) =>
          \/ item.id \in RejectedIds(q, "workspace")
          \/ /\ q.db.ws[item.id].is_deleted = OpState(item.op)
             /\ item.op = "metadata" => q.db.ws[item.id].seq = seq
    /\ \A item \in CollectionItems : Lone(req.col, item) =>
          \/ item.id \in RejectedIds(q, "collection")
          \/ q.db.col[item.id] = StoredChild(item, now, seq)
    /\ \A item \in BookmarkItems : Lone(req.bm, item) =>
          \/ item.id \in RejectedIds(q, "bookmark")
          \/ q.db.bm[item.id] = StoredMark(item, now, seq)
    /\ \A item \in GroupItems : Lone(req.grp, item) =>
          \/ item.id \in RejectedIds(q, "saved_group")
          \/ q.db.grp[item.id] = StoredChild(item, now, seq)
    /\ /\ Single(req.ws) /\ Ids(req.ws) \subseteq RejectedIds(q, "workspace")
       /\ Single(req.col) /\ Ids(req.col) \subseteq RejectedIds(q, "collection")
       /\ Single(req.bm) /\ Ids(req.bm) \subseteq RejectedIds(q, "bookmark")
       /\ Single(req.grp) /\ Ids(req.grp) \subseteq RejectedIds(q, "saved_group")
       => q.db = d

(* The answer of a whole push: an entity listed once is rejected or stored as *)
(* it was sent, and nothing is stored of a request that is refused whole.     *)
LEMMA PushAnswers ==
    ASSUME NEW d \in Database, NEW horizon \in Nat, NEW seq \in Nat, horizon < seq, NEW now \in Nat,
           NEW version \in {0, 2}, NEW req \in Request(version),
           \A c \in Collections : d.col[c].is_deleted = Terminal => d.col[c].seq # seq
    PROVE  LET q == Pushed(d, req, horizon, seq, now) IN
           Answers(q, d, req, seq, now)
<1> DEFINE x == [before |-> d, version |-> req.version, horizon |-> horizon, seq |-> seq, now |-> now,
                 metadata |-> {w \in Workspaces : \E i \in DOMAIN req.ws :
                                  req.ws[i].id = w /\ req.ws[i].op = "metadata"}]
           p1 == PushWorkspaces(Start(d, horizon), req, x)
           p2 == PushCollections(p1, req, x)
           p3 == PushBookmarks(p2, req, x)
           p4 == PushGroups(p3, req, x)
           W == "workspace"
           C == "collection"
           B == "bookmark"
           G == "saved_group"
<1>0. W # C /\ W # B /\ W # G /\ C # B /\ C # G /\ B # G
  OBVIOUS
<1>1. req.version = version
  BY DEF Request
<1>2. /\ x \in Context /\ x.before = d /\ x.version = version /\ x.horizon = horizon
      /\ x.seq = seq /\ x.now = now
  BY <1>1 DEF Context, Known
<1>3. Pushed(d, req, horizon, seq, now) = p4
  BY DEF Pushed
<1> HIDE DEF x
<1>4. (\A J : p1 \in Held(J)) /\ ChildrenInv(x, p1.db, p1)
  BY <1>2, PushWorkspacesKeeps
<1>a. /\ \A t : t # W => RejectedIds(p1, t) = {}
      /\ \A item \in WorkspaceItem : Lone(req.ws, item) =>
            item.id \in RejectedIds(p1, W) \/ p1.db \in SentWorkspace(item, x)
      /\ Single(req.ws) /\ Ids(req.ws) \subseteq RejectedIds(p1, W) => p1.db = d
  BY <1>2, PushWorkspacesAnswers
<1> HIDE DEF p1, W, C, B, G
<1>5. (\A J : p2 \in Held(J)) /\ ChildrenInv(x, p1.db, p2)
  BY <1>2, <1>4, PushCollectionsKeeps
<1>b. /\ \A t : t # C => RejectedIds(p2, t) = RejectedIds(p1, t)
      /\ \A item \in CollectionItems : Lone(req.col, item) =>
            item.id \in RejectedIds(p2, C) \/ p2.db.col[item.id] = StoredChild(item, now, seq)
      /\ /\ Single(req.col) /\ Ids(req.col) \subseteq RejectedIds(p2, C)
         /\ \A c \in Collections : p1.db.col[c].is_deleted = Terminal => p1.db.col[c].seq # seq
         => p2.db = p1.db
      /\ p2.db.ws = p1.db.ws
  <2>1. RejectedIds(p1, C) = {}
    BY <1>0, <1>a
  <2> QED BY <1>2, <1>4, <2>1, PushCollectionsAnswers DEF C
<1> HIDE DEF p2
<1>6. ChildrenInv(x, p2.db, p2)
  BY <1>5 DEF ChildrenInv
<1>7. (\A J : p3 \in Held(J)) /\ ChildrenInv(x, p2.db, p3)
  BY <1>2, <1>5, <1>6, PushBookmarksKeeps
<1>c. /\ \A t : t # B => RejectedIds(p3, t) = RejectedIds(p2, t)
      /\ \A item \in BookmarkItems : Lone(req.bm, item) =>
            item.id \in RejectedIds(p3, B) \/ p3.db.bm[item.id] = StoredMark(item, now, seq)
      /\ Single(req.bm) /\ Ids(req.bm) \subseteq RejectedIds(p3, B) => p3.db = p2.db
      /\ p3.db.ws = p2.db.ws /\ p3.db.col = p2.db.col
  <2>1. RejectedIds(p2, B) = {}
    BY <1>0, <1>a, <1>b
  <2> QED BY <1>2, <1>5, <2>1, PushBookmarksAnswers DEF B
<1> HIDE DEF p3
<1>d. /\ \A t : t # G => RejectedIds(p4, t) = RejectedIds(p3, t)
      /\ \A item \in GroupItems : Lone(req.grp, item) =>
            item.id \in RejectedIds(p4, G) \/ p4.db.grp[item.id] = StoredChild(item, now, seq)
      /\ Single(req.grp) /\ Ids(req.grp) \subseteq RejectedIds(p4, G) => p4.db = p3.db
      /\ p4.db.ws = p3.db.ws /\ p4.db.col = p3.db.col /\ p4.db.bm = p3.db.bm
  <2>1. RejectedIds(p3, G) = {}
    BY <1>0, <1>a, <1>b, <1>c
  <2> QED BY <1>2, <1>7, <2>1, PushGroupsAnswers DEF G
<1> HIDE DEF p4
<1>8. /\ RejectedIds(p4, W) = RejectedIds(p1, W) /\ RejectedIds(p4, C) = RejectedIds(p2, C)
      /\ RejectedIds(p4, B) = RejectedIds(p3, B)
  BY <1>0, <1>b, <1>c, <1>d
<1>9. \A item \in WorkspaceItem : Lone(req.ws, item) =>
         \/ item.id \in RejectedIds(p4, W)
         \/ /\ p4.db.ws[item.id].is_deleted = OpState(item.op)
            /\ item.op = "metadata" => p4.db.ws[item.id].seq = seq
  <2>1. p4.db.ws = p1.db.ws
    BY <1>b, <1>c, <1>d
  <2> QED BY <1>2, <1>8, <1>a, <2>1 DEF SentWorkspace
<1>10. \A item \in CollectionItems : Lone(req.col, item) =>
         item.id \in RejectedIds(p4, C) \/ p4.db.col[item.id] = StoredChild(item, now, seq)
  BY <1>8, <1>b, <1>c, <1>d
<1>11. \A item \in BookmarkItems : Lone(req.bm, item) =>
         item.id \in RejectedIds(p4, B) \/ p4.db.bm[item.id] = StoredMark(item, now, seq)
  BY <1>8, <1>c, <1>d
<1>12. \A item \in GroupItems : Lone(req.grp, item) =>
         item.id \in RejectedIds(p4, G) \/ p4.db.grp[item.id] = StoredChild(item, now, seq)
  BY <1>d
<1>13. /\ Single(req.ws) /\ Ids(req.ws) \subseteq RejectedIds(p4, W)
       /\ Single(req.col) /\ Ids(req.col) \subseteq RejectedIds(p4, C)
       /\ Single(req.bm) /\ Ids(req.bm) \subseteq RejectedIds(p4, B)
       /\ Single(req.grp) /\ Ids(req.grp) \subseteq RejectedIds(p4, G)
       => p4.db = d
  BY <1>8, <1>a, <1>b, <1>c, <1>d
<1> QED BY <1>3, <1>9, <1>10, <1>11, <1>12, <1>13 DEF Answers, W, C, B, G

-------------------------------------------------------------------------------
(* The transitions.                                                           *)

(* No collection carries a sequence number that is still to come: what a push *)
(* buries is what it has stored itself.                                       *)
CollectionsNumbered(d) ==
    \A c \in Collections : d.col[c].is_deleted # Absent => d.col[c].seq <= d.seq

(* An entity that the answer does not reject is listed once and not among the *)
(* rejected ids.                                                              *)
LEMMA TakenItems ==
    ASSUME NEW p, NEW type, NEW list, NEW item \in Taken(p.rejected, type, list)
    PROVE  Lone(list, item) /\ item.id \notin RejectedIds(p, type)
<1>1. PICK i \in DOMAIN list :
         /\ item = list[i] /\ Once(list, i)
         /\ \A r \in p.rejected : ~(r.type = type /\ r.id = list[i].id)
  BY DEF Taken
<1>2. Lone(list, item)
  BY <1>1 DEF Lone
<1>3. item.id \notin RejectedIds(p, type)
  BY <1>1 DEF RejectedIds
<1> QED BY <1>2, <1>3

(* When the answer takes nothing of a list of different entities, it rejects  *)
(* them all.                                                                  *)
LEMMA NothingTaken ==
    ASSUME NEW p, NEW type, NEW list, Single(list), Taken(p.rejected, type, list) = {}
    PROVE  Ids(list) \subseteq RejectedIds(p, type)
<1> SUFFICES ASSUME NEW i \in DOMAIN list PROVE list[i].id \in RejectedIds(p, type)
  BY DEF Ids
<1>1. Once(list, i)
  BY DEF Single
<1>2. \E r \in p.rejected : r.type = type /\ r.id = list[i].id
  BY <1>1 DEF Taken
<1> QED BY <1>2 DEF RejectedIds

(* The answer of a push, of any size and in any order, is honest.             *)
LEMMA PushIsHonest ==
    ASSUME NEW d \in Database, CollectionsNumbered(d), NEW now \in Nat,
           NEW req \in Requests, NEW horizon \in Horizons(d)
    PROVE  Honest(d, req, horizon, now)
<1> DEFINE seq == NextSeq(d)
           q == Pushed(d, req, horizon, seq, now)
<1>1. d.seq \in Nat /\ seq \in Nat /\ seq = d.seq + 1 /\ horizon \in Nat /\ horizon < seq
  BY DEF Database, NextSeq, Horizons
<1>2. PICK version \in {0, 2} : req \in Request(version)
  BY RequestType
<1>3. \A c \in Collections : d.col[c].is_deleted = Terminal => d.col[c].seq # seq
  <2>1. \A c \in Collections : d.col[c].seq \in Nat
    BY DEF Database, CollectionRow
  <2> QED BY <1>1, <2>1 DEF CollectionsNumbered, Absent, Terminal
<1> HIDE DEF seq
<1>4. Answers(q, d, req, seq, now)
  BY <1>1, <1>2, <1>3, PushAnswers
<1> HIDE DEF q
<1>5. /\ \A i \in DOMAIN req.ws : req.ws[i] \in WorkspaceItem
      /\ \A i \in DOMAIN req.col : req.col[i] \in CollectionItems
      /\ \A i \in DOMAIN req.bm : req.bm[i] \in BookmarkItems
      /\ \A i \in DOMAIN req.grp : req.grp[i] \in GroupItems
  <2>1. WorkspaceItems(version) \subseteq WorkspaceItem
    BY DEF WorkspaceItems, WorkspaceOps, WorkspaceItem
  <2> QED BY <1>2, <2>1 DEF Request
<1>6. \A item \in Taken(q.rejected, "workspace", req.ws) :
         /\ q.db.ws[item.id].is_deleted = OpState(item.op)
         /\ item.op = "metadata" => q.db.ws[item.id].seq = seq
  <2> SUFFICES ASSUME NEW item \in Taken(q.rejected, "workspace", req.ws)
               PROVE  /\ q.db.ws[item.id].is_deleted = OpState(item.op)
                      /\ item.op = "metadata" => q.db.ws[item.id].seq = seq
    OBVIOUS
  <2>1. Lone(req.ws, item) /\ item.id \notin RejectedIds(q, "workspace")
    BY TakenItems
  <2>2. item \in WorkspaceItem
    BY <1>5, <2>1 DEF Lone
  <2> QED BY <1>4, <2>1, <2>2 DEF Answers
<1>7. \A item \in Taken(q.rejected, "collection", req.col) :
         q.db.col[item.id] = [is_deleted |-> item.state, workspace_id |-> item.parent,
                              deleted_at |-> ClientStamp(item, now), seq |-> seq]
  <2> SUFFICES ASSUME NEW item \in Taken(q.rejected, "collection", req.col)
               PROVE  q.db.col[item.id] = StoredChild(item, now, seq)
    BY DEF StoredChild
  <2>1. Lone(req.col, item) /\ item.id \notin RejectedIds(q, "collection")
    BY TakenItems
  <2>2. item \in CollectionItems
    BY <1>5, <2>1 DEF Lone
  <2> QED BY <1>4, <2>1, <2>2 DEF Answers
<1>8. \A item \in Taken(q.rejected, "bookmark", req.bm) :
         q.db.bm[item.id] = [is_trashed |-> item.state, collection_id |-> item.parent,
                             deleted_at |-> ClientStamp(item, now), seq |-> seq]
  <2> SUFFICES ASSUME NEW item \in Taken(q.rejected, "bookmark", req.bm)
               PROVE  q.db.bm[item.id] = StoredMark(item, now, seq)
    BY DEF StoredMark
  <2>1. Lone(req.bm, item) /\ item.id \notin RejectedIds(q, "bookmark")
    BY TakenItems
  <2>2. item \in BookmarkItems
    BY <1>5, <2>1 DEF Lone
  <2> QED BY <1>4, <2>1, <2>2 DEF Answers
<1>9. \A item \in Taken(q.rejected, "saved_group", req.grp) :
         q.db.grp[item.id] = [is_deleted |-> item.state, workspace_id |-> item.parent,
                              deleted_at |-> ClientStamp(item, now), seq |-> seq]
  <2> SUFFICES ASSUME NEW item \in Taken(q.rejected, "saved_group", req.grp)
               PROVE  q.db.grp[item.id] = StoredChild(item, now, seq)
    BY DEF StoredChild
  <2>1. Lone(req.grp, item) /\ item.id \notin RejectedIds(q, "saved_group")
    BY TakenItems
  <2>2. item \in GroupItems
    BY <1>5, <2>1 DEF Lone
  <2> QED BY <1>4, <2>1, <2>2 DEF Answers
<1>10. ASSUME Single(req.ws), Single(req.col), Single(req.bm), Single(req.grp),
              Taken(q.rejected, "workspace", req.ws) = {},
              Taken(q.rejected, "collection", req.col) = {},
              Taken(q.rejected, "bookmark", req.bm) = {},
              Taken(q.rejected, "saved_group", req.grp) = {}
       PROVE  q.db = d
  <2>1. /\ Ids(req.ws) \subseteq RejectedIds(q, "workspace")
        /\ Ids(req.col) \subseteq RejectedIds(q, "collection")
        /\ Ids(req.bm) \subseteq RejectedIds(q, "bookmark")
        /\ Ids(req.grp) \subseteq RejectedIds(q, "saved_group")
    BY <1>10, NothingTaken
  <2> QED BY <1>4, <1>10, <2>1 DEF Answers
<1> DEFINE lists == <<req.ws, req.col, req.bm, req.grp>>
<1>11. (\A list \in {lists[k] : k \in 1..4} : \A i \in DOMAIN list : Once(list, i))
       => Single(req.ws) /\ Single(req.col) /\ Single(req.bm) /\ Single(req.grp)
  <2>1. /\ req.ws = lists[1] /\ req.col = lists[2] /\ req.bm = lists[3] /\ req.grp = lists[4]
        /\ 1 \in 1..4 /\ 2 \in 1..4 /\ 3 \in 1..4 /\ 4 \in 1..4
    OBVIOUS
  <2> HIDE DEF lists
  <2>2. \A k \in 1..4 : lists[k] \in {lists[j] : j \in 1..4}
    OBVIOUS
  <2> QED BY <2>1, <2>2 DEF Single
<1>12. HonestAnswer(q, d, req, seq, now)
  BY <1>6, <1>7, <1>8, <1>9, <1>10, <1>11 DEF HonestAnswer
<1> QED BY <1>12 DEF Honest, q, seq

(* What a lifecycle step on the tables of the start leaves numbered.          *)
LEMMA AppliedNumbered ==
    ASSUME NEW d \in Database, NEW w \in Workspaces, NEW op \in {"delete", "purge"},
           NEW model \in {0, 1}, model = 0 => op = "delete", NEW seq \in Nat, NEW n \in Nat, seq <= n,
           \A c \in Collections : d.col[c].is_deleted # Absent => d.col[c].seq <= n
    PROVE  LET e == Applied(d, w, op, model, seq, 0) IN
           /\ e \in Database
           /\ \A c \in Collections : e.col[c].is_deleted # Absent => e.col[c].seq <= n
<1> DEFINE e == Applied(d, w, op, model, seq, 0)
<1>1. op \in LifecycleActions /\ 0 \in Nat
  BY DEF LifecycleActions
<1>2. Trail(d, d, seq) /\ Descends(d, d) /\ Brought(d, d) /\ Models(d, d, model)
  BY DEF Trail, WorkspaceTrail, CollectionTrail, BookmarkTrail, GroupTrail,
         Descends, Brought, Models
<1>3. e \in Database
  BY <1>1, AppliedType
<1>4. Trail(d, e, seq)
  BY <1>1, <1>2, AppliedTrail
<1> HIDE DEF e
<1>5. \A c \in Collections : e.col[c].is_deleted # Absent => e.col[c].seq <= n
  BY <1>4 DEF Trail, CollectionTrail
<1> QED BY <1>3, <1>5 DEF e

(* The pushes begin with no number to come.                                   *)
LEMMA PushInitNumbered == PushInit => CollectionsNumbered(db)
<1> SUFFICES ASSUME PushInit PROVE CollectionsNumbered(db)
  OBVIOUS
<1>1. PICK w \in Workspaces, C \in SomeOf(Collections), B \in SomeOf(Bookmarks), G \in {{}, Groups} :
         \E d \in Moved(Stored(EmptyDatabase, C, B, G, w)) : db = [d EXCEPT !.seq = 3]
  BY DEF PushInit
<1> DEFINE s == Stored(EmptyDatabase, C, B, G, w)
           Low(d) ==
             d \in Database /\ \A c \in Collections : d.col[c].is_deleted # Absent => d.col[c].seq <= 3
<1>2. Low(s)
  <2>1. s \in Database
    BY StoredInit
  <2>2. \A c \in Collections : s.col[c] = NoCollection \/ s.col[c].seq = 1
    BY DEF Stored, EmptyDatabase
  <2> QED BY <2>1, <2>2 DEF NoCollection
<1> HIDE DEF s
<1>3. \A v \in Workspaces, model \in {0, 1} :
         /\ Low(Applied(s, v, "delete", model, 3, 0))
         /\ Low(Applied(s, v, "delete", model, 2, 0))
  BY <1>2, AppliedNumbered
<1>4. \A v \in Workspaces, model \in {0, 1} :
         Low(Applied(Applied(s, v, "delete", model, 2, 0), v, "purge", 1, 3, 0))
  BY <1>3, AppliedNumbered
<1> HIDE DEF Low
<1>5. \A d \in Moved(s) : Low(d)
  BY <1>2, <1>3, <1>4 DEF Moved
<1>6. PICK d \in Moved(s) : db = [d EXCEPT !.seq = 3]
  BY <1>1 DEF s
<1>7. Low(d)
  BY <1>5, <1>6
<1>8. db.col = d.col /\ db.seq = 3
  BY <1>6, <1>7 DEF Low, Database
<1> QED BY <1>7, <1>8 DEF Low, CollectionsNumbered

(* A push, or a restore, numbers what it stores with the number it takes.     *)
LEMMA PushStaysNumbered ==
    TypeOK /\ CollectionsNumbered(db) /\ [PushNext]_searchVars => CollectionsNumbered(db)'
<1> SUFFICES ASSUME TypeOK, CollectionsNumbered(db), [PushNext]_searchVars
             PROVE  CollectionsNumbered(db')
  OBVIOUS
<1>1. CASE PushNext
  <2>1. PICK e \in Database : Store(e) /\ Trail(db, e, NextSeq(db)) /\ LiveWrites(db, e)
    BY <1>1, PushStep
  <2>2. db'.col = e.col /\ db'.seq = NextSeq(db) /\ NextSeq(db) = db.seq + 1 /\ db.seq \in Nat
    BY <2>1, StoreTables DEF Store, TypeOK, Database, NextSeq
  <2>3. \A c \in Collections : db.col[c].seq \in Nat
    BY DEF TypeOK, Database, CollectionRow
  <2> QED BY <2>1, <2>2, <2>3 DEF Trail, CollectionTrail, CollectionsNumbered
<1>2. CASE UNCHANGED searchVars
  BY <1>2 DEF searchVars
<1> QED BY <1>1, <1>2

(* The rejections of a push tell its client exactly what happened, whatever   *)
(* the tables it meets, the entities it lists and their number: an entity     *)
(* listed once is rejected or stored as it was sent, and a push that is       *)
(* refused whole has changed nothing (the rejected list of sync.go).          *)
THEOREM PushAnswersAreHonest == PushSpec => []AnswersAreHonest
<1>1. TypeOK /\ CollectionsNumbered(db) => AnswersAreHonest
  BY PushIsHonest DEF TypeOK, AnswersAreHonest
<1>2. PushInit => CollectionsNumbered(db)
  BY PushInitNumbered
<1>3. TypeOK /\ CollectionsNumbered(db) /\ [PushNext]_searchVars => CollectionsNumbered(db)'
  BY PushStaysNumbered
<1> QED BY <1>1, <1>2, <1>3, PushTypeCorrect, PTL DEF PushSpec

-------------------------------------------------------------------------------
(* Documents.  What the workspace loops ask for one bookmark.                 *)

(* What is not under w is left alone, and no workspace is lost.               *)
KeepsAside(e, f, w) ==
    /\ \A v \in Workspaces \ {w} : f.ws[v] = e.ws[v]
    /\ \A b \in Bookmarks \ BookmarksOf(e, w) : f.bm[b] = e.bm[b]
    /\ \A c \in Collections \ CollectionsOf(e, w) : f.col[c] = e.col[c]
    /\ \A v \in Workspaces : e.ws[v].is_deleted # Absent => f.ws[v].is_deleted # Absent

(* A lifecycle action leaves alone what is not under its root.                *)
LEMMA AppliedAside ==
    ASSUME NEW e \in Database, NEW w \in Workspaces, NEW op \in LifecycleActions,
           NEW model \in {0, 1}, NEW seq \in Nat, NEW now \in Nat
    PROVE  LET f == Applied(e, w, op, model, seq, now) IN f \in Database /\ KeepsAside(e, f, w)
<1> DEFINE f == Applied(e, w, op, model, seq, now)
<1>d. f \in Database
  BY AppliedType
<1>o. \A v \in Workspaces \ {w} : f.ws[v] = e.ws[v]
  BY AppliedOthers
<1>1. f = e \/ LifecycleStep(e, f, w, model, seq, now)
  <2>1. /\ ~Accepted(e, w, op, model) => f = e
        /\ Accepted(e, w, op, model) =>
             \/ op = "delete"  /\ DeleteStep(e, f, w, model, seq, now)
             \/ op = "restore" /\ RestoreStep(e, f, w, seq)
             \/ op = "purge"   /\ PurgeStep(e, f, w, seq)
    BY AppliedRows
  <2> QED BY <2>1 DEF LifecycleStep
<1> HIDE DEF f
<1>2. ASSUME LifecycleStep(e, f, w, model, seq, now)
      PROVE  /\ \A b \in Bookmarks \ BookmarksOf(e, w) : f.bm[b] = e.bm[b]
             /\ \A c \in Collections \ CollectionsOf(e, w) : f.col[c] = e.col[c]
             /\ f.ws[w].is_deleted # Absent
  <2>1. CASE DeleteStep(e, f, w, model, seq, now)
    <3>1. f.ws[w].is_deleted = Retained
      BY <2>1 DEF DeleteStep, OneRow, RetainedRow, Database
    <3>2. /\ LiveBookmarks(e, w) \subseteq BookmarksOf(e, w)
          /\ LiveCollections(e, w) \subseteq CollectionsOf(e, w)
      BY DEF LiveBookmarks, LiveCollections, BookmarksOf
    <3>3. CASE model = 0
      BY <2>1, <3>1, <3>2, <3>3 DEF DeleteStep, MarkedChildren, Retained, Absent
    <3>4. CASE model # 0
      BY <2>1, <3>1, <3>4 DEF DeleteStep, SameChildren, Retained, Absent
    <3> QED BY <3>3, <3>4
  <2>2. CASE RestoreStep(e, f, w, seq)
    <3>1. f.ws[w].is_deleted = Active
      BY <2>2 DEF RestoreStep, OneRow, RestoredRow, Database
    <3>2. /\ EvidenceBookmarks(e, w) \subseteq BookmarksOf(e, w)
          /\ EvidenceCollections(e, w) \subseteq CollectionsOf(e, w)
      BY DEF EvidenceBookmarks, EvidenceCollections, BookmarksOf
    <3>3. CASE e.ws[w].deletion_model = 0
      BY <2>2, <3>1, <3>2, <3>3 DEF RestoreStep, MarkedChildren, Active, Absent
    <3>4. CASE e.ws[w].deletion_model # 0
      BY <2>2, <3>1, <3>4 DEF RestoreStep, SameChildren, Active, Absent
    <3> QED BY <3>3, <3>4
  <2>3. CASE PurgeStep(e, f, w, seq)
    <3>1. f.ws[w].is_deleted = Terminal
      BY <2>3 DEF PurgeStep, OneRow, PurgedRow, Database
    <3> QED BY <2>3, <3>1 DEF PurgeStep, DroppedChildren, Terminal, Absent
  <2> QED BY <1>2, <2>1, <2>2, <2>3 DEF LifecycleStep
<1> QED BY <1>d, <1>o, <1>1, <1>2 DEF f, KeepsAside

(* The documents a lifecycle action asks for: none when it changes nothing;   *)
(* only a delete and a purge remove some, of bookmarks under the root; and a  *)
(* restore asks for what it brings back.                                      *)
LEMMA EffectDocuments ==
    ASSUME NEW e \in Database, NEW w \in Workspaces, NEW op \in LifecycleActions,
           NEW model \in {0, 1}
    PROVE  LET effect == Effect(e, w, op, model) IN
           /\ ~Accepted(e, w, op, model) => effect = NoEffect
           /\ effect.deletes \subseteq BookmarksOf(e, w)
           /\ op = "restore" => effect.deletes = {}
           /\ op = "restore" /\ Accepted(e, w, op, model) =>
                 effect.upserts = IF e.ws[w].deletion_model = 0 THEN EvidenceBookmarks(e, w)
                                                                ELSE WorkspaceDocuments(e, w)
<1> DEFINE effect == Effect(e, w, op, model)
<1>0. e.ws[w].deletion_model \in {0, 1} /\ LiveBookmarks(e, w) \subseteq BookmarksOf(e, w)
  BY DEF Database, WorkspaceRow, LiveBookmarks, LiveCollections, BookmarksOf
<1>1. ~Accepted(e, w, op, model) => effect = NoEffect
  BY DEF Accepted, Effect
<1>2. ASSUME Accepted(e, w, op, model)
      PROVE  /\ effect.deletes \subseteq BookmarksOf(e, w)
             /\ op = "restore" =>
                  /\ effect.deletes = {}
                  /\ effect.upserts = IF e.ws[w].deletion_model = 0 THEN EvidenceBookmarks(e, w)
                                                                    ELSE WorkspaceDocuments(e, w)
  <2>0. ~(Rejection(e, w, op, model) # "" \/ Idempotent(e, w, op))
    BY <1>2 DEF Accepted
  <2>1. CASE op = "restore"
    <3>1. CASE e.ws[w].deletion_model = 0
      BY <2>0, <2>1, <3>1 DEF Effect, NoEffect
    <3>2. CASE e.ws[w].deletion_model # 0
      BY <2>0, <2>1, <3>2 DEF Effect, NoEffect
    <3> QED BY <2>1, <3>1, <3>2
  <2>2. CASE op # "restore" /\ ~(op = "delete" /\ model = 0)
    BY <2>0, <2>2 DEF Effect, NoEffect
  <2>3. CASE op = "delete" /\ model = 0
    BY <1>0, <2>0, <2>3 DEF Effect, NoEffect
  <2> QED BY <2>1, <2>2, <2>3
<1>3. ~Accepted(e, w, op, model) => effect.deletes = {}
  BY <1>1 DEF NoEffect
<1> QED BY <1>1, <1>2, <1>3

(* What a list of workspaces says of one of them: the action that would take  *)
(* its rows away or bring them back is in the list, or it is undone there.    *)
Begun(d, list, n, w) ==
    \E i \in 1..n : list[i] = [id |-> w, op |-> IF Shut(d, w) THEN "restore" ELSE "delete"]

Undone(d, list, n, w) ==
    LET lists(i, op) == list[i] = [id |-> w, op |-> op] IN
    \E i, j \in 1..n :
        /\ i < j
        /\ IF Shut(d, w) THEN lists(i, "restore") /\ lists(j, "delete")
                         ELSE lists(i, "delete") /\ lists(j, "restore")

(* One more entry of the list.                                               *)
LEMMA ListedOn ==
    ASSUME NEW d, NEW list, NEW n \in Nat, n > 0, NEW w
    PROVE  /\ Begun(d, list, n - 1, w) => Begun(d, list, n, w)
           /\ Undone(d, list, n - 1, w) => Undone(d, list, n, w)
           /\ \A op : /\ list[n] = [id |-> w, op |-> op]
                      /\ op = IF Shut(d, w) THEN "restore" ELSE "delete"
                      => Begun(d, list, n, w)
           /\ \A op : /\ Begun(d, list, n - 1, w)
                      /\ list[n] = [id |-> w, op |-> op]
                      /\ op = IF Shut(d, w) THEN "delete" ELSE "restore"
                      => Undone(d, list, n, w)
<1>1. \A i \in 1..(n - 1) : i \in 1..n /\ i < n
  OBVIOUS
<1>2. n \in 1..n
  OBVIOUS
<1>3. Begun(d, list, n - 1, w) => Begun(d, list, n, w)
  BY <1>1 DEF Begun
<1>4. Undone(d, list, n - 1, w) => Undone(d, list, n, w)
  BY <1>1 DEF Undone
<1>5. ASSUME NEW op, list[n] = [id |-> w, op |-> op],
             op = IF Shut(d, w) THEN "restore" ELSE "delete"
      PROVE  Begun(d, list, n, w)
  BY <1>2, <1>5 DEF Begun
<1>6. ASSUME NEW op, Begun(d, list, n - 1, w), list[n] = [id |-> w, op |-> op],
             op = IF Shut(d, w) THEN "delete" ELSE "restore"
      PROVE  Undone(d, list, n, w)
  <2>1. PICK i \in 1..(n - 1) :
           list[i] = [id |-> w, op |-> IF Shut(d, w) THEN "restore" ELSE "delete"]
    BY <1>6 DEF Begun
  <2>2. CASE Shut(d, w)
    BY <1>1, <1>2, <1>6, <2>1, <2>2 DEF Undone
  <2>3. CASE ~Shut(d, w)
    BY <1>1, <1>2, <1>6, <2>1, <2>3 DEF Undone
  <2> QED BY <2>2, <2>3
<1> QED BY <1>3, <1>4, <1>5, <1>6

(* A bookmark that is live again has its document asked for, or had it.       *)
Documented(d, p, b) ==
    p.db.bm[b].is_trashed = Active /\ p.db.bm[b].deleted_at = Null =>
        b \in p.searchUpserts \/ Indexed(d, b)

(* The fate of a bookmark under w after n entries of the list, from the       *)
(* tables d: its workspace was not touched, deleted, restored or purged, or   *)
(* one after the other.                                                       *)
SameState(d, e, w) ==
    e.ws[w].is_deleted = d.ws[w].is_deleted /\ e.ws[w].deletion_model = d.ws[w].deletion_model

Untouched(d, p, b, w) ==
    LET c == d.bm[b].collection_id IN
    /\ SameState(d, p.db, w) /\ p.db.bm[b] = d.bm[b] /\ p.db.col[c] = d.col[c]
    /\ b \notin p.searchDeletes

TakenAway(d, p, w) == d.ws[w].is_deleted = Active /\ p.db.ws[w].is_deleted = Retained

BroughtBack(d, p, b, w) ==
    /\ d.ws[w].is_deleted = Retained /\ p.db.ws[w].is_deleted = Active
    /\ b \notin p.searchDeletes /\ Documented(d, p, b)

PurgedOff(d, p, w) == d.ws[w].is_deleted # Terminal /\ p.db.ws[w].is_deleted = Terminal

Fate(d, p, b, w, list, n) ==
    \/ Undone(d, list, n, w)
    \/ Untouched(d, p, b, w)
    \/ Begun(d, list, n, w) /\ TakenAway(d, p, w)
    \/ Begun(d, list, n, w) /\ BroughtBack(d, p, b, w)
    \/ PurgedOff(d, p, w)

(* A bookmark under no workspace is out of reach of the lifecycle.            *)
Aside(d, p, b) == p.db.bm[b] = d.bm[b] /\ b \notin p.searchDeletes

(* An action of the list, with the documents it asks for.                     *)
Asks(p, q, id, op, model, seq, now) ==
    /\ q.db = Applied(p.db, id, op, model, seq, now)
    /\ q.searchUpserts = p.searchUpserts \cup Effect(p.db, id, op, model).upserts
    /\ q.searchDeletes = p.searchDeletes \cup Effect(p.db, id, op, model).deletes

(* Nothing of the bookmark is touched, except that its document may be asked  *)
(* for.                                                                       *)
OutOfReach(p, q, b) ==
    /\ q.db.bm[b] = p.db.bm[b]
    /\ b \in q.searchDeletes => b \in p.searchDeletes
    /\ b \in p.searchUpserts => b \in q.searchUpserts

(* An action on another workspace.                                            *)
LEMMA FateElsewhere ==
    ASSUME NEW d \in Database, NEW p, p.db \in Database, Descends(d, p.db), NEW q,
           NEW id \in Workspaces, NEW op \in LifecycleActions, NEW model \in {0, 1},
           NEW seq \in Nat, NEW now \in Nat, Asks(p, q, id, op, model, seq, now),
           NEW b \in Bookmarks, b \notin BookmarksOf(d, id)
    PROVE  OutOfReach(p, q, b)
<1> DEFINE e == p.db
           f == Applied(e, id, op, model, seq, now)
<1>1. BookmarksOf(e, id) \subseteq BookmarksOf(d, id)
  BY IdAssumption DEF Descends, BookmarksOf, CollectionsOf
<1>2. f.bm[b] = e.bm[b]
  <2>1. b \in Bookmarks \ BookmarksOf(e, id)
    BY <1>1
  <2>2. KeepsAside(e, f, id)
    BY AppliedAside
  <2> HIDE DEF f, e
  <2> QED BY <2>1, <2>2 DEF KeepsAside
<1>3. Effect(e, id, op, model).deletes \subseteq BookmarksOf(e, id)
  BY EffectDocuments
<1> HIDE DEF f
<1> QED BY <1>1, <1>2, <1>3 DEF Asks, f, OutOfReach

(* An action on the workspace itself.                                         *)
LEMMA FateHere ==
    ASSUME NEW d \in Database, NEW p, p.db \in Database, NEW q,
           NEW w \in Workspaces, NEW op \in LifecycleActions, NEW model \in {0, 1},
           NEW seq \in Nat, NEW now \in Nat, Asks(p, q, w, op, model, seq, now),
           NEW list, NEW n \in Nat, n > 0, list[n] = [id |-> w, op |-> op],
           NEW b \in BookmarksOf(d, w), Fate(d, p, b, w, list, n - 1)
    PROVE  Fate(d, q, b, w, list, n)
<1> DEFINE e == p.db
           f == Applied(e, w, op, model, seq, now)
           effect == Effect(e, w, op, model)
<1>0. /\ f \in Database /\ b \in Bookmarks /\ d.bm[b].collection_id \in CollectionsOf(d, w)
      /\ q.db = f
      /\ q.searchUpserts = p.searchUpserts \cup effect.upserts
      /\ q.searchDeletes = p.searchDeletes \cup effect.deletes
      /\ e.ws[w].is_deleted \in States
  BY AppliedAside DEF BookmarksOf, Asks, Database, WorkspaceRow
<1>1. /\ Begun(d, list, n - 1, w) => Begun(d, list, n, w)
      /\ Undone(d, list, n - 1, w) => Undone(d, list, n, w)
      /\ op = (IF Shut(d, w) THEN "restore" ELSE "delete") => Begun(d, list, n, w)
      /\ Begun(d, list, n - 1, w) /\ op = (IF Shut(d, w) THEN "delete" ELSE "restore")
           => Undone(d, list, n, w)
  BY ListedOn
<1>2. CASE ~Accepted(e, w, op, model)
  <2>1. f = e /\ effect.upserts = {} /\ effect.deletes = {}
    BY <1>2, AppliedRows, EffectDocuments DEF NoEffect
  <2> HIDE DEF f, effect
  <2>2. q.db = p.db /\ q.searchUpserts = p.searchUpserts /\ q.searchDeletes = p.searchDeletes
    BY <1>0, <2>1
  <2> QED BY <1>1, <2>2 DEF Fate, Untouched, SameState, TakenAway, BroughtBack, PurgedOff, Documented
<1>3. CASE Accepted(e, w, op, model)
  <2>1. \/ op = "delete"  /\ DeleteStep(e, f, w, model, seq, now)
        \/ op = "restore" /\ RestoreStep(e, f, w, seq)
        \/ op = "purge"   /\ PurgeStep(e, f, w, seq)
    BY <1>3, AppliedRows
  <2>e. op = "restore" =>
          /\ effect.deletes = {}
          /\ effect.upserts = IF e.ws[w].deletion_model = 0 THEN EvidenceBookmarks(e, w)
                                                            ELSE WorkspaceDocuments(e, w)
    BY <1>3, EffectDocuments
  <2>0. Active # Retained /\ Active # Terminal /\ Retained # Terminal
    BY DEF Active, Retained, Terminal
  <2> HIDE DEF f, effect
  <2>2. CASE op = "delete" /\ DeleteStep(e, f, w, model, seq, now)
    <3>1. e.ws[w].is_deleted = Active /\ q.db.ws[w].is_deleted = Retained
      BY <1>0, <2>2 DEF DeleteStep, OneRow, RetainedRow, Database
    <3>2. CASE Undone(d, list, n - 1, w)
      BY <1>1, <3>2 DEF Fate
    <3>3. CASE Untouched(d, p, b, w)
      <4>1. d.ws[w].is_deleted = Active /\ ~Shut(d, w)
        BY <2>0, <3>1, <3>3 DEF Untouched, SameState, Shut
      <4> QED BY <1>1, <2>2, <3>1, <4>1 DEF Fate, TakenAway
    <3>4. CASE Begun(d, list, n - 1, w) /\ BroughtBack(d, p, b, w)
      <4>1. Shut(d, w)
        BY <3>4 DEF BroughtBack, Shut
      <4> QED BY <1>1, <2>2, <3>4, <4>1 DEF Fate
    <3>5. ~TakenAway(d, p, w) /\ ~PurgedOff(d, p, w)
      BY <2>0, <3>1 DEF TakenAway, PurgedOff
    <3> QED BY <3>2, <3>3, <3>4, <3>5 DEF Fate
  <2>3. CASE op = "restore" /\ RestoreStep(e, f, w, seq)
    <3>1. e.ws[w].is_deleted = Retained /\ q.db.ws[w].is_deleted = Active
      BY <1>0, <2>3 DEF RestoreStep, OneRow, RestoredRow, Database
    <3>2. CASE Undone(d, list, n - 1, w)
      BY <1>1, <3>2 DEF Fate
    <3>3. CASE Untouched(d, p, b, w)
      <4>1. d.ws[w].is_deleted = Retained /\ Shut(d, w) /\ b \notin q.searchDeletes
        BY <1>0, <2>3, <2>e, <3>1, <3>3 DEF Untouched, SameState, Shut
      <4>2. /\ e.ws[w].deletion_model = d.ws[w].deletion_model /\ e.bm[b] = d.bm[b]
            /\ b \in BookmarksOf(e, w)
        BY <1>0, <3>3 DEF Untouched, SameState, BookmarksOf, CollectionsOf
      <4>3. Documented(d, q, b)
        <5> SUFFICES ASSUME q.db.bm[b].is_trashed = Active, q.db.bm[b].deleted_at = Null,
                            b \notin q.searchUpserts
                     PROVE  Indexed(d, b)
          BY DEF Documented
        <5>1. b \notin effect.upserts
          BY <1>0
        <5>2. q.db.bm[b] = e.bm[b]
          <6>1. CASE e.ws[w].deletion_model = 0
            BY <1>0, <2>3, <2>e, <5>1, <6>1 DEF RestoreStep, MarkedChildren
          <6>2. CASE e.ws[w].deletion_model # 0
            BY <1>0, <2>3, <6>2 DEF RestoreStep, SameChildren
          <6> QED BY <6>1, <6>2
        <5>3. d.ws[w].deletion_model = 0
          BY <2>3, <2>e, <4>2, <5>1, <5>2 DEF WorkspaceDocuments
        <5>4. \A v \in Workspaces : b \in BookmarksOf(d, v) => v = w
          BY <1>0 DEF BookmarksOf, CollectionsOf
        <5> QED BY <4>2, <5>2, <5>3, <5>4 DEF Indexed
      <4> QED BY <1>1, <2>3, <3>1, <4>1, <4>3 DEF Fate, BroughtBack
    <3>4. CASE Begun(d, list, n - 1, w) /\ TakenAway(d, p, w)
      <4>1. ~Shut(d, w)
        BY <2>0, <3>4 DEF TakenAway, Shut
      <4> QED BY <1>1, <2>3, <3>4, <4>1 DEF Fate
    <3>5. ~BroughtBack(d, p, b, w) /\ ~PurgedOff(d, p, w)
      BY <2>0, <3>1 DEF BroughtBack, PurgedOff
    <3> QED BY <3>2, <3>3, <3>4, <3>5 DEF Fate
  <2>4. CASE op = "purge" /\ PurgeStep(e, f, w, seq)
    <3>1. e.ws[w].is_deleted = Retained /\ q.db.ws[w].is_deleted = Terminal
      BY <1>0, <2>4 DEF PurgeStep, OneRow, PurgedRow, Database
    <3>2. CASE Undone(d, list, n - 1, w)
      BY <1>1, <3>2 DEF Fate
    <3>3. CASE d.ws[w].is_deleted # Terminal
      BY <3>1, <3>3 DEF Fate, PurgedOff
    <3>4. CASE d.ws[w].is_deleted = Terminal
      BY <2>0, <3>1, <3>2, <3>4 DEF Fate, Untouched, SameState, TakenAway, BroughtBack, PurgedOff
    <3> QED BY <3>3, <3>4
  <2> QED BY <2>1, <2>2, <2>3, <2>4
<1> QED BY <1>2, <1>3

(* Every workspace has a row.                                                 *)
Present(e) == \A w \in Workspaces : e.ws[w].is_deleted # Absent

(* What the list has decided for a bookmark.                                  *)
Verdict(d, p, b, list, n) ==
    /\ \A w \in Workspaces : b \in BookmarksOf(d, w) => Fate(d, p, b, w, list, n)
    /\ (\A w \in Workspaces : b \notin BookmarksOf(d, w)) => Aside(d, p, b)

(* Nothing that a verdict looks at is different.                              *)
Alike(p, q) ==
    /\ \A w \in Workspaces : SameState(p.db, q.db, w)
    /\ q.db.col = p.db.col /\ q.db.bm = p.db.bm
    /\ SameDocuments(p, q)

(* A verdict stands while nothing changes and the list goes on.               *)
LEMMA VerdictStands ==
    ASSUME NEW d, NEW p, NEW q, Alike(p, q), NEW b, NEW list, NEW n, Verdict(d, p, b, list, n)
    PROVE  Verdict(d, q, b, list, n)
<1>1. ASSUME NEW w \in Workspaces, Fate(d, p, b, w, list, n) PROVE Fate(d, q, b, w, list, n)
  <2>1. /\ Untouched(d, p, b, w) => Untouched(d, q, b, w)
        /\ TakenAway(d, p, w) => TakenAway(d, q, w)
        /\ BroughtBack(d, p, b, w) => BroughtBack(d, q, b, w)
        /\ PurgedOff(d, p, w) => PurgedOff(d, q, w)
    BY DEF Alike, SameState, SameDocuments, Untouched, TakenAway, BroughtBack, PurgedOff, Documented
  <2> QED BY <1>1, <2>1 DEF Fate
<1>2. Aside(d, p, b) => Aside(d, q, b)
  BY DEF Alike, SameDocuments, Aside
<1> QED BY <1>1, <1>2 DEF Verdict

(* And so it does while nothing happens.                                     *)
LEMMA VerdictLater ==
    ASSUME NEW d, NEW p, NEW b, NEW list, NEW n \in Nat, n > 0, Verdict(d, p, b, list, n - 1)
    PROVE  Verdict(d, p, b, list, n)
<1>1. ASSUME NEW w \in Workspaces, Fate(d, p, b, w, list, n - 1) PROVE Fate(d, p, b, w, list, n)
  <2>1. /\ Begun(d, list, n - 1, w) => Begun(d, list, n, w)
        /\ Undone(d, list, n - 1, w) => Undone(d, list, n, w)
    BY ListedOn
  <2> QED BY <1>1, <2>1 DEF Fate
<1> QED BY <1>1 DEF Verdict

(* A lifecycle action of the list.                                            *)
LEMMA VerdictAsked ==
    ASSUME NEW d \in Database, NEW p, p.db \in Database, Descends(d, p.db), NEW q,
           NEW id \in Workspaces, NEW op \in LifecycleActions, NEW model \in {0, 1},
           NEW seq \in Nat, NEW now \in Nat, Asks(p, q, id, op, model, seq, now),
           NEW list, NEW n \in Nat, n > 0, list[n] = [id |-> id, op |-> op],
           NEW b \in Bookmarks, Verdict(d, p, b, list, n - 1)
    PROVE  Verdict(d, q, b, list, n)
<1>1. ASSUME b \notin BookmarksOf(d, id)
      PROVE  OutOfReach(p, q, b)
  BY <1>1, FateElsewhere
<1>2. ASSUME NEW w \in Workspaces, b \in BookmarksOf(d, w) PROVE Fate(d, q, b, w, list, n)
  <2>0. Fate(d, p, b, w, list, n - 1)
    BY <1>2 DEF Verdict
  <2>1. CASE w = id
    BY <1>2, <2>0, <2>1, FateHere
  <2>2. CASE w # id
    <3> DEFINE c == d.bm[b].collection_id
    <3>1. c \in CollectionsOf(d, w) /\ b \notin BookmarksOf(d, id)
      BY <1>2, <2>2 DEF BookmarksOf, CollectionsOf
    <3>2. c \in Collections \ CollectionsOf(p.db, id)
      BY <2>2, <3>1, IdAssumption DEF Descends, CollectionsOf
    <3>3. KeepsAside(p.db, q.db, id)
      <4>1. q.db = Applied(p.db, id, op, model, seq, now)
        BY DEF Asks
      <4> QED BY <4>1, AppliedAside
    <3>4. q.db.ws[w] = p.db.ws[w] /\ q.db.col[c] = p.db.col[c]
      BY <2>2, <3>2, <3>3 DEF KeepsAside
    <3>5. /\ Begun(d, list, n - 1, w) => Begun(d, list, n, w)
          /\ Undone(d, list, n - 1, w) => Undone(d, list, n, w)
      BY ListedOn
    <3>6. /\ Untouched(d, p, b, w) => Untouched(d, q, b, w)
          /\ TakenAway(d, p, w) => TakenAway(d, q, w)
          /\ BroughtBack(d, p, b, w) => BroughtBack(d, q, b, w)
          /\ PurgedOff(d, p, w) => PurgedOff(d, q, w)
      BY <1>1, <3>1, <3>4 DEF OutOfReach, SameState, Untouched, TakenAway, BroughtBack, PurgedOff, Documented
    <3> QED BY <2>0, <3>5, <3>6 DEF Fate
  <2> QED BY <2>1, <2>2
<1>3. ASSUME \A w \in Workspaces : b \notin BookmarksOf(d, w) PROVE Aside(d, q, b)
  BY <1>1, <1>3 DEF Verdict, Aside, OutOfReach
<1> QED BY <1>2, <1>3 DEF Verdict

-------------------------------------------------------------------------------
(* The workspace loops.                                                       *)

(* The states after n entries.                                                *)
Followed(x, b, list, n) ==
    {p \in Storing(x) : Present(p.db) /\ Verdict(x.before, p, b, list, n)}

(* One turn changes no table and no document, or is an action.                *)
Follows(p, q, item, model, x) ==
    \/ q.db = p.db /\ SameDocuments(p, q)
    \/ item.op \in LifecycleActions /\ Asks(p, q, item.id, item.op, model, x.seq, x.now)

(* The turn of the next entry.                                                *)
LEMMA FollowedTurn ==
    ASSUME NEW x \in Context, NEW list \in Seq(WorkspaceItem), NEW n \in 1..Len(list),
           NEW b \in Bookmarks, NEW p \in Followed(x, b, list, n - 1), NEW q \in Storing(x),
           NEW model \in {0, 1}, Follows(p, q, list[n], model, x)
    PROVE  q \in Followed(x, b, list, n)
<1> DEFINE d == x.before
           item == list[n]
<1>i. item \in WorkspaceItem /\ n \in Nat /\ n > 0 /\ list[n] = item
  OBVIOUS
<1> HIDE DEF item
<1>0. /\ d \in Database /\ x.seq \in Nat /\ x.now \in Nat
      /\ n \in Nat /\ n > 0 /\ item.id \in Workspaces
      /\ list[n] = [id |-> item.id, op |-> item.op]
  BY <1>i DEF Context, Known, WorkspaceItem
<1>1. /\ p \in Storing(x) /\ Present(p.db) /\ Verdict(d, p, b, list, n - 1)
      /\ p.db \in Database /\ Descends(d, p.db)
  BY HeldFields DEF Followed, Storing, WorkspacesInv
<1> HIDE DEF d
<1>2. CASE q.db = p.db /\ SameDocuments(p, q)
  <2>1. Verdict(d, q, b, list, n - 1)
    BY <1>1, <1>2, VerdictStands DEF Alike, SameState
  <2>2. Verdict(d, q, b, list, n)
    BY <1>0, <2>1, VerdictLater
  <2> QED BY <1>1, <1>2, <2>2 DEF Followed, d
<1>3. CASE item.op \in LifecycleActions /\ Asks(p, q, item.id, item.op, model, x.seq, x.now)
  <2>1. Verdict(d, q, b, list, n)
    <3> DEFINE id == item.id
               op == item.op
               e == p.db
    <3>1. /\ id \in Workspaces /\ op \in LifecycleActions /\ list[n] = [id |-> id, op |-> op]
          /\ Asks(p, q, id, op, model, x.seq, x.now)
      BY <1>0, <1>3
    <3> HIDE DEF id, op
    <3> QED BY <1>0, <1>1, <3>1, VerdictAsked
  <2>2. KeepsAside(p.db, q.db, item.id)
    <3>1. q.db = Applied(p.db, item.id, item.op, model, x.seq, x.now)
      BY <1>3 DEF Asks
    <3> QED BY <1>0, <1>1, <1>3, <3>1, AppliedAside
  <2>3. Present(q.db)
    BY <1>1, <2>2 DEF Present, KeepsAside
  <2> QED BY <2>1, <2>3 DEF Followed, d
<1> QED BY <1>2, <1>3 DEF Follows, item

Quiet(p, q) == q.db = p.db /\ SameDocuments(p, q)

(* A turn of each of the workspace loops.                                     *)
LEMMA LoopFollows ==
    ASSUME NEW x \in Context, NEW p \in Storing(x), NEW item \in WorkspaceItem
    PROVE  /\ Follows(p, Turn("legacy deletes", p, item, x), item, 0, x)
           /\ Quiet(p, Turn("legacy metadata", p, item, x))
           /\ Follows(p, Turn("workspaces", p, item, x), item, 1, x)
<1>0. p \in Held(LiveItem(x)) /\ item.op \in {"metadata", "delete", "restore", "purge"}
  BY DEF Storing, WorkspaceItem
<1>1. ASSUME NEW q, TurnedAway(p, q, "workspace", item.id) \/ Waits(p, q, item), NEW model
      PROVE  Follows(p, q, item, model, x)
  BY <1>1 DEF TurnedAway, Waits, Follows
<1>2. Follows(p, Turn("legacy deletes", p, item, x), item, 0, x)
  <2>1. CASE item.op = "delete"
    <3> DEFINE q == LegacyDeleteItem(p, item.id, x.metadata, x.seq, x.now)
    <3>1. Turn("legacy deletes", p, item, x) = q
      BY <2>1 DEF Turn
    <3>2. TurnedAway(p, q, "workspace", item.id) \/ DeletesLegacy(p, q, item.id, x.seq, x.now)
      BY <1>0, LegacyDeleteAnswers
    <3> HIDE DEF q
    <3>3. DeletesLegacy(p, q, item.id, x.seq, x.now) => Asks(p, q, item.id, item.op, 0, x.seq, x.now)
      BY <2>1 DEF DeletesLegacy, Asks
    <3>4. item.op \in LifecycleActions
      BY <2>1 DEF LifecycleActions
    <3> QED BY <1>1, <3>1, <3>2, <3>3, <3>4 DEF Follows
  <2>2. CASE item.op # "delete"
    <3>1. Turn("legacy deletes", p, item, x) = p
      BY <2>2 DEF Turn
    <3> QED BY <3>1 DEF Follows, SameDocuments
  <2> QED BY <2>1, <2>2
<1>3. Quiet(p, Turn("legacy metadata", p, item, x))
  <2>1. CASE item.op # "delete"
    <3> DEFINE q == LegacyMetadataItem(p, item, x.before)
    <3>1. Turn("legacy metadata", p, item, x) = q
      BY <2>1 DEF Turn
    <3>2. TurnedAway(p, q, "workspace", item.id) \/ QueuesWorkspace(p, q, item)
      BY <1>0, LegacyMetadataAnswers
    <3> HIDE DEF q
    <3> QED BY <3>1, <3>2 DEF QueuesWorkspace, TurnedAway, Waits, Quiet
  <2>2. CASE item.op = "delete"
    <3>1. Turn("legacy metadata", p, item, x) = p
      BY <2>2 DEF Turn
    <3> QED BY <3>1 DEF Quiet, SameDocuments
  <2> QED BY <2>1, <2>2
<1>4. Follows(p, Turn("workspaces", p, item, x), item, 1, x)
  <2>1. CASE item.op = "metadata"
    <3> DEFINE q == MetadataItem(p, item)
    <3>1. Turn("workspaces", p, item, x) = q
      BY <2>1 DEF Turn
    <3>2. TurnedAway(p, q, "workspace", item.id) \/ QueuesWorkspace(p, q, item)
      BY <1>0, MetadataAnswers
    <3> HIDE DEF q
    <3> QED BY <1>1, <3>1, <3>2 DEF QueuesWorkspace
  <2>2. CASE item.op # "metadata"
    <3> DEFINE q == LifecycleItem(p, item.id, item.op, x.before, x.seq, x.now)
    <3>1. Turn("workspaces", p, item, x) = q
      BY <2>2 DEF Turn
    <3>2. TurnedAway(p, q, "workspace", item.id)
          \/ Moves(p, q, item.id, item.op, x.before, x.seq, x.now)
      BY <1>0, LifecycleAnswers
    <3> HIDE DEF q
    <3>3. Moves(p, q, item.id, item.op, x.before, x.seq, x.now)
            => Asks(p, q, item.id, item.op, 1, x.seq, x.now)
      BY DEF Moves, Asks
    <3>4. item.op \in LifecycleActions
      BY <1>0, <2>2 DEF LifecycleActions
    <3> QED BY <1>1, <3>1, <3>2, <3>3, <3>4 DEF Follows
  <2> QED BY <2>1, <2>2
<1> QED BY <1>2, <1>3, <1>4

(* The loops of either version.                                               *)
LEMMA LoopsFollowed ==
    ASSUME NEW x \in Context, NEW list \in Seq(WorkspaceItem), NEW b \in Bookmarks,
           NEW p \in Sorting(x), p \in Followed(x, b, list, 0)
    PROVE  LET r == Each("legacy deletes", p, list, x) IN
           /\ x.version = 0 => Each("legacy metadata", r, list, x) \in Followed(x, b, list, Len(list))
           /\ x.version = 2 => Each("workspaces", p, list, x) \in Followed(x, b, list, Len(list))
<1> DEFINE S == [n \in 0..Len(list) |-> Sorting(x) \cap Followed(x, b, list, n)]
           r == Each("legacy deletes", p, list, x)
<1>0. /\ Len(list) \in Nat /\ \A n \in 1..Len(list) : list[n] \in WorkspaceItem
      /\ Sorting(x) \subseteq Storing(x)
      /\ \A n \in 0..Len(list) : S[n] = Sorting(x) \cap Followed(x, b, list, n)
  BY DEF Sorting, Storing
<1>1. p \in S[0]
  BY <1>0
<1>2. \A n \in 1..Len(list) : n - 1 \in 0..Len(list) /\ n \in 0..Len(list)
  BY <1>0
<1>3. Len(list) \in 0..Len(list)
  BY <1>0
<1> HIDE DEF S
<1>4. ASSUME x.version = 0 PROVE r \in S[Len(list)]
  <2>1. ASSUME NEW n \in 1..Len(list), NEW q \in S[n - 1]
        PROVE  Turn("legacy deletes", q, list[n], x) \in S[n]
    <3>1. q \in Sorting(x) /\ q \in Followed(x, b, list, n - 1) /\ q \in Storing(x)
      BY <1>0, <1>2, <2>1
    <3>2. Turn("legacy deletes", q, list[n], x) \in Sorting(x)
      BY <1>0, <1>4, <3>1, SortingTurns
    <3>3. Follows(q, Turn("legacy deletes", q, list[n], x), list[n], 0, x)
      BY <1>0, <3>1, LoopFollows
    <3>4. Turn("legacy deletes", q, list[n], x) \in Followed(x, b, list, n)
      BY <1>0, <3>1, <3>2, <3>3, FollowedTurn
    <3> QED BY <1>0, <1>2, <3>2, <3>4
  <2> QED BY <1>1, <2>1, EachSteps
<1> HIDE DEF r
<1>5. ASSUME x.version = 0 PROVE Each("legacy metadata", r, list, x) \in Followed(x, b, list, Len(list))
  <2> DEFINE T == Sorting(x) \cap Followed(x, b, list, Len(list))
  <2>1. r \in T
    BY <1>0, <1>3, <1>4, <1>5
  <2>2. ASSUME NEW q \in T, NEW item \in WorkspaceItem PROVE Turn("legacy metadata", q, item, x) \in T
    <3> DEFINE k == Turn("legacy metadata", q, item, x)
    <3>1. k \in Sorting(x) /\ k \in Storing(x)
      BY <1>0, SortingTurns
    <3>2. k.db = q.db /\ SameDocuments(q, k)
      BY <1>0, LoopFollows DEF Quiet
    <3> HIDE DEF k
    <3>3. Verdict(x.before, q, b, list, Len(list)) /\ Present(q.db)
      BY DEF Followed
    <3>4. Verdict(x.before, k, b, list, Len(list))
      BY <3>2, <3>3, VerdictStands DEF Alike, SameState
    <3>5. k \in Followed(x, b, list, Len(list))
      BY <3>1, <3>2, <3>3, <3>4 DEF Followed
    <3> QED BY <3>1, <3>5 DEF k
  <2> HIDE DEF T
  <2>3. Each("legacy metadata", r, list, x) \in T
    BY <2>1, <2>2, EachKeeps
  <2> QED BY <2>3 DEF T
<1>6. ASSUME x.version = 2 PROVE Each("workspaces", p, list, x) \in S[Len(list)]
  <2>1. ASSUME NEW n \in 1..Len(list), NEW q \in S[n - 1]
        PROVE  Turn("workspaces", q, list[n], x) \in S[n]
    <3>1. q \in Sorting(x) /\ q \in Followed(x, b, list, n - 1) /\ q \in Storing(x)
      BY <1>0, <1>2, <2>1
    <3>2. Turn("workspaces", q, list[n], x) \in Sorting(x)
      BY <1>0, <1>6, <3>1, SortingTurns
    <3>3. Follows(q, Turn("workspaces", q, list[n], x), list[n], 1, x)
      BY <1>0, <3>1, LoopFollows
    <3>4. Turn("workspaces", q, list[n], x) \in Followed(x, b, list, n)
      BY <1>0, <3>1, <3>2, <3>3, FollowedTurn
    <3> QED BY <1>0, <1>2, <3>2, <3>4
  <2> QED BY <1>1, <2>1, EachSteps
<1>7. ASSUME x.version = 2 PROVE Each("workspaces", p, list, x) \in Followed(x, b, list, Len(list))
  BY <1>0, <1>3, <1>6, <1>7
<1> QED BY <1>5, <1>7 DEF r

-------------------------------------------------------------------------------
(* The batches, with their documents.                                         *)

(* What every turn of a batch keeps, tables and documents of the batch have.  *)
LEMMA BatchDocuments ==
    ASSUME NEW loop, NEW I, NEW S \in SUBSET Held(I), NEW p \in S, NEW x,
           \A q \in S, item \in I : Turn(loop, q, item, x) \in S
    PROVE  \E r \in S : Quiet(r, Batch(loop, p, x))
<1> DEFINE r == Each(loop, p, p.upserts, x)
           q == [r EXCEPT !.upserts = <<>>]
<1>1. p.upserts \in Seq(I)
  BY HeldFields
<1>2. r \in S
  BY <1>1, EachKeeps
<1>3. Batch(loop, p, x) = q
  BY DEF Batch
<1>4. r \in Held(I)
  BY <1>2
<1> HIDE DEF r
<1>5. Quiet(r, q)
  BY <1>4 DEF Held, Quiet, SameDocuments
<1> HIDE DEF q
<1> QED BY <1>2, <1>3, <1>5

(* The batch of the workspaces leaves a verdict as it is: it opens no root    *)
(* that is there, and shuts none.                                             *)
LEMMA BatchFollows ==
    ASSUME NEW x \in Context, NEW b \in Bookmarks, NEW list, NEW n,
           NEW p \in Followed(x, b, list, n), NEW item \in LiveItem(x)
    PROVE  Turn("workspace upserts", p, item, x) \in Followed(x, b, list, n)
<1> DEFINE I == LiveItem(x)
           q == UpsertWorkspace(p, item, x.horizon, x.seq)
<1>0. /\ p \in Held(I) /\ p \in Storing(x) /\ p.db \in Database /\ Present(p.db)
      /\ Verdict(x.before, p, b, list, n)
      /\ x.horizon \in Nat /\ x.seq \in Nat /\ item \in WorkspaceItem /\ item.id \in Workspaces
  BY HeldFields DEF Followed, Storing, Context, Known, LiveItem, WorkspaceItem
<1>1. Turn("workspace upserts", p, item, x) = q
  BY DEF Turn
<1>2. q \in Storing(x)
  BY <1>0, <1>1, StoringTurn
<1>3. Refuses(I, p, q) \/ (q \in Held(I) /\ StoresWorkspace(p, q, item.id, x.horizon, x.seq))
  BY <1>0, UpsertWorkspaceTurn
<1>4. SameDocuments(p, q)
  BY <1>0, UpsertWorkspaceAnswers DEF TurnedAway
<1> HIDE DEF q
<1>5. Alike(p, q) /\ Present(q.db)
  <2>1. CASE Refuses(I, p, q)
    BY <1>0, <1>4, <2>1 DEF Refuses, Refused, Alike, SameState
  <2>2. CASE StoresWorkspace(p, q, item.id, x.horizon, x.seq)
    <3> DEFINE row == p.db.ws[item.id]
               new == StoredWorkspace(row, x.seq)
    <3>1. row \in WorkspaceRow /\ row.is_deleted # Absent
      BY <1>0 DEF Database, Present
    <3>2. new.is_deleted = row.is_deleted /\ new.deletion_model = row.deletion_model
      <4> HIDE DEF row
      <4> QED BY <3>1 DEF StoredWorkspace, WorkspaceRow
    <3>3. /\ q.db.ws = [p.db.ws EXCEPT ![item.id] = new]
          /\ q.db.col = p.db.col /\ q.db.bm = p.db.bm
      BY <2>2 DEF StoresWorkspace, OneRow, SameChildren
    <3>4. p.db.ws \in [Workspaces -> WorkspaceRow]
      BY <1>0 DEF Database
    <3> HIDE DEF new
    <3>5. \A w \in Workspaces : SameState(p.db, q.db, w)
      BY <1>0, <3>2, <3>3, <3>4 DEF SameState
    <3> QED BY <1>0, <1>4, <3>3, <3>5 DEF Alike, Present, SameState
  <2> QED BY <1>3, <2>1, <2>2
<1>6. Verdict(x.before, q, b, list, n)
  BY <1>0, <1>5, VerdictStands
<1> QED BY <1>1, <1>2, <1>5, <1>6 DEF Followed

(* What the push has decided for a bookmark once the workspaces are done.     *)
LEMMA WorkspacesDecide ==
    ASSUME NEW x \in Context, Present(x.before), NEW req \in Request(x.version), NEW b \in Bookmarks
    PROVE  LET p == PushWorkspaces(Start(x.before, x.horizon), req, x) IN
           Verdict(x.before, p, b, req.ws, Len(req.ws)) /\ Present(p.db)
<1> DEFINE d == x.before
           list == req.ws
           p == Start(d, x.horizon)
           sorted == IF req.version = 0
                     THEN Each("legacy metadata", Each("legacy deletes", p, list, x), list, x)
                     ELSE Each("workspaces", p, list, x)
           stored == Batch("workspace upserts", sorted, x)
           f == [c \in Collections |->
                   IF \E w \in stored.legacyDeleted : c \in CollectionsOf(stored.db, w)
                   THEN "parent_rejected" ELSE stored.unavailableCol[c]]
           q == [stored EXCEPT !.unavailableCol = f]
<1>0. /\ x.version \in {0, 2} /\ req.version = x.version
      /\ list \in Seq(WorkspaceItems(x.version)) /\ d \in Database
  BY DEF Context, Known, Request
<1>1. WorkspaceItems(x.version) \subseteq WorkspaceItem
  BY <1>0 DEF WorkspaceItems, WorkspaceOps, WorkspaceItem
<1>2. list \in Seq(WorkspaceItem)
  BY <1>0, <1>1
<1>3. p \in Sorting(x) /\ p.db = d
  BY StartAnswers
<1>4. p.searchUpserts = {} /\ p.searchDeletes = {}
  BY DEF Start
<1> HIDE DEF p
<1>5. p \in Followed(x, b, list, 0)
  <2>1. p \in Storing(x) /\ Present(p.db)
    BY <1>3 DEF Sorting, Storing
  <2>2. Verdict(d, p, b, list, 0)
    BY <1>3, <1>4 DEF Verdict, Fate, Untouched, SameState, Aside
  <2> QED BY <2>1, <2>2 DEF Followed
<1>6. sorted \in Followed(x, b, list, Len(list))
  <2> DEFINE r == Each("legacy deletes", p, list, x)
  <2>1. /\ x.version = 0 => Each("legacy metadata", r, list, x) \in Followed(x, b, list, Len(list))
        /\ x.version = 2 => Each("workspaces", p, list, x) \in Followed(x, b, list, Len(list))
    BY <1>2, <1>3, <1>5, LoopsFollowed
  <2> QED BY <1>0, <2>1
<1>7. PushWorkspaces(p, req, x) = q
  BY DEF PushWorkspaces
<1> HIDE DEF sorted
<1> DEFINE S == Followed(x, b, list, Len(list))
<1>8. \E r \in S : Quiet(r, stored)
  <2>1. S \in SUBSET Held(LiveItem(x))
    BY DEF Followed, Storing
  <2>2. \A s \in S, item \in LiveItem(x) : Turn("workspace upserts", s, item, x) \in S
    BY BatchFollows
  <2> HIDE DEF S
  <2>3. sorted \in S
    BY <1>6 DEF S
  <2> QED BY <2>1, <2>2, <2>3, BatchDocuments
<1> HIDE DEF stored, f
<1>9. PICK r \in S : Quiet(r, stored)
  BY <1>8
<1>10. q.db = stored.db /\ SameDocuments(stored, q)
  BY DEF SameDocuments
<1> HIDE DEF q
<1>11. Verdict(d, r, b, list, Len(list)) /\ Alike(r, q)
  BY <1>9, <1>10 DEF Followed, Quiet, Alike, SameState, SameDocuments
<1>12. Verdict(d, q, b, list, Len(list))
  BY <1>11, VerdictStands
<1>13. Present(q.db)
  BY <1>9, <1>11 DEF Followed, Alike, SameState, Present
<1> QED BY <1>7, <1>12, <1>13 DEF p

-------------------------------------------------------------------------------
(* The children.                                                              *)

(* A step that changes no bookmark and asks for no document.                  *)
Silent(p, q) == q.db.bm = p.db.bm /\ SameDocuments(p, q)

(* What silent turns keep, a loop reaches silently.                           *)
LEMMA EachSilent ==
    ASSUME NEW loop, NEW I, NEW list \in Seq(I), NEW x, NEW H, NEW p \in H,
           \A q \in H, item \in I : Turn(loop, q, item, x) \in H /\ Silent(q, Turn(loop, q, item, x))
    PROVE  Each(loop, p, list, x) \in H /\ Silent(p, Each(loop, p, list, x))
<1> DEFINE S == {q \in H : Silent(p, q)}
<1>1. p \in S
  BY DEF Silent, SameDocuments
<1>2. \A q \in S, item \in I : Turn(loop, q, item, x) \in S
  BY DEF Silent, SameDocuments
<1>3. Each(loop, p, list, x) \in S
  <2> HIDE DEF S
  <2> QED BY <1>1, <1>2, EachKeeps
<1> QED BY <1>3

(* And so does a batch.                                                       *)
LEMMA BatchSilent ==
    ASSUME NEW loop, NEW I, NEW H \in SUBSET Held(I), NEW p \in H, NEW x,
           \A q \in H, item \in I : Turn(loop, q, item, x) \in H /\ Silent(q, Turn(loop, q, item, x))
    PROVE  Silent(p, Batch(loop, p, x))
<1> DEFINE S == {q \in H : Silent(p, q)}
<1>1. p \in S /\ S \in SUBSET Held(I)
  BY DEF Silent, SameDocuments
<1>2. \A q \in S, item \in I : Turn(loop, q, item, x) \in S
  BY DEF Silent, SameDocuments
<1>3. \E r \in S : Quiet(r, Batch(loop, p, x))
  <2> HIDE DEF S
  <2> QED BY <1>1, <1>2, BatchDocuments
<1> QED BY <1>3 DEF Silent, Quiet, SameDocuments

(* Only the batch of the bookmarks writes bookmarks and asks for documents.   *)
LEMMA TurnsSilent ==
    ASSUME NEW x \in Context, NEW I, NEW p \in Held(I), NEW item
    PROVE  \A loop \in {"collections", "collection upserts", "bookmarks", "groups", "group upserts"} :
              Silent(p, Turn(loop, p, item, x))
<1>0. p.db \in Database
  BY HeldFields
<1>1. ASSUME NEW q, NEW type, TurnedAway(p, q, type, item.id) \/ Waits(p, q, item) PROVE Silent(p, q)
  BY <1>1 DEF TurnedAway, Waits, Silent
<1>2. Silent(p, Turn("collections", p, item, x))
  <2> DEFINE q == SortCollection(p, item, x.before)
  <2>1. Turn("collections", p, item, x) = q
    BY DEF Turn
  <2>2. TurnedAway(p, q, "collection", item.id) \/ Waits(p, q, item)
    BY SortCollectionAnswers DEF QueuesCollection
  <2> HIDE DEF q
  <2> QED BY <1>1, <2>1, <2>2
<1>3. Silent(p, Turn("bookmarks", p, item, x))
  <2> DEFINE q == SortBookmark(p, item)
  <2>1. Turn("bookmarks", p, item, x) = q
    BY DEF Turn
  <2>2. TurnedAway(p, q, "bookmark", item.id) \/ Waits(p, q, item)
    BY SortBookmarkAnswers DEF QueuesBookmark
  <2> HIDE DEF q
  <2> QED BY <1>1, <2>1, <2>2
<1>4. Silent(p, Turn("groups", p, item, x))
  <2> DEFINE q == SortGroup(p, item, x.before)
  <2>1. Turn("groups", p, item, x) = q
    BY DEF Turn
  <2>2. TurnedAway(p, q, "saved_group", item.id) \/ Waits(p, q, item)
    BY SortGroupAnswers DEF QueuesGroup
  <2> HIDE DEF q
  <2> QED BY <1>1, <2>1, <2>2
<1>5. Silent(p, Turn("collection upserts", p, item, x))
  <2> DEFINE q == UpsertCollection(p, item, x.version, x.horizon, x.seq, x.now)
  <2>1. Turn("collection upserts", p, item, x) = q
    BY DEF Turn
  <2>2. \/ TurnedAway(p, q, "collection", item.id)
        \/ WritesCollection(p, q, item, x.horizon, x.seq, x.now)
    BY UpsertCollectionAnswers
  <2> HIDE DEF q
  <2>3. WritesCollection(p, q, item, x.horizon, x.seq, x.now) => Silent(p, q)
    BY <1>0 DEF WritesCollection, Silent, Database
  <2> QED BY <1>1, <2>1, <2>2, <2>3
<1>6. Silent(p, Turn("group upserts", p, item, x))
  <2> DEFINE q == UpsertGroup(p, item, x.horizon, x.seq, x.now)
  <2>1. Turn("group upserts", p, item, x) = q
    BY DEF Turn
  <2>2. \/ TurnedAway(p, q, "saved_group", item.id)
        \/ WritesGroup(p, q, item, x.horizon, x.seq, x.now)
    BY UpsertGroupAnswers
  <2> HIDE DEF q
  <2>3. WritesGroup(p, q, item, x.horizon, x.seq, x.now) => Silent(p, q)
    BY <1>0 DEF WritesGroup, Silent, Database
  <2> QED BY <1>1, <2>1, <2>2, <2>3
<1> QED BY <1>2, <1>3, <1>4, <1>5, <1>6

(* The collections bury bookmarks and ask for no document.                    *)
Buried(p, q, b) ==
    /\ SameDocuments(p, q)
    /\ q.db.bm[b] = p.db.bm[b] \/ q.db.bm[b].is_trashed = Terminal

(* The loop and the batch of the collections.                                 *)
LEMMA CollectionsBury ==
    ASSUME NEW x \in Context, NEW req \in Request(x.version), NEW z,
           NEW p, \A J : p \in Held(J), ChildrenInv(x, z, p), NEW b \in Bookmarks
    PROVE  Buried(p, PushCollections(p, req, x), b)
<1> DEFINE sorted == Each("collections", p, req.col, x)
           stored == Batch("collection upserts", sorted, x)
           buried == {c \in Collections :
                        /\ \E i \in DOMAIN sorted.upserts : /\ sorted.upserts[i].id = c
                                                           /\ sorted.upserts[i].state = Terminal
                        /\ stored.db.col[c].is_deleted = Terminal
                        /\ stored.db.col[c].seq = x.seq}
           q == CascadeTombstones(stored, buried, x.before, x.seq, x.now)
           H == Collecting(x, z)
           I == OpenCollection(z)
<1>0. req.col \in Seq(CollectionItems) /\ x.seq \in Nat /\ x.now \in Nat
      /\ H \in SUBSET Held(I) /\ p \in H
  BY DEF Context, Known, Request, Collecting
<1>1. PushCollections(p, req, x) = q
  BY DEF PushCollections
<1>2. sorted \in H /\ Silent(p, sorted)
  <2>1. ASSUME NEW s \in H, NEW item \in CollectionItems
        PROVE  Turn("collections", s, item, x) \in H /\ Silent(s, Turn("collections", s, item, x))
    <3>1. s \in Held(I)
      BY <1>0
    <3> QED BY <3>1, CollectingTurns, TurnsSilent
  <2> HIDE DEF H
  <2> QED BY <1>0, <2>1, EachSilent
<1> HIDE DEF sorted
<1>3. Silent(sorted, stored) /\ Leaves(H, stored)
  <2>1. ASSUME NEW s \in H, NEW item \in I
        PROVE  /\ Turn("collection upserts", s, item, x) \in H
               /\ Silent(s, Turn("collection upserts", s, item, x))
    <3>1. s \in Held(I)
      BY <1>0
    <3> QED BY <3>1, CollectingTurns, TurnsSilent
  <2> HIDE DEF H, I
  <2>2. Silent(sorted, stored)
    BY <1>0, <1>2, <2>1, BatchSilent
  <2>3. Leaves(H, stored)
    BY <1>0, <1>2, <2>1, BatchKeeps
  <2> QED BY <2>2, <2>3
<1> HIDE DEF stored, buried
<1>4. \A J : stored \in Held(J)
  BY <1>3 DEF Leaves
<1>5. Buries(stored, q, x.seq) /\ SameDocuments(stored, q)
  <2>1. TakesAlong(stored, q, buried, x.before, x.seq, x.now)
    BY <1>4, CascadeAnswers
  <2>2. Buries(stored, q, x.seq)
    BY <1>0, <1>4, CascadeTurn
  <2> QED BY <2>1, <2>2 DEF TakesAlong
<1> HIDE DEF q
<1> QED BY <1>1, <1>2, <1>3, <1>5 DEF Silent, SameDocuments, Buries, Buried

(* The bookmarks: what is written last decides for the document.              *)
Recorded(p, q, b, seq) ==
    \/ OutOfReach(p, q, b)
    \/ q.db.bm[b].seq = seq /\ q.db.bm[b].is_trashed # Active
    \/ /\ q.db.bm[b].seq = seq /\ b \in q.searchUpserts
       /\ b \in q.searchDeletes => b \in p.searchDeletes

(* The loop and the batch of the bookmarks: what they store they index.       *)
LEMMA BookmarksRecorded ==
    ASSUME NEW x \in Context, NEW req \in Request(x.version),
           NEW p, \A J : p \in Held(J), ChildrenInv(x, p.db, p), NEW b \in Bookmarks
    PROVE  Recorded(p, PushBookmarks(p, req, x), b, x.seq)
<1> DEFINE z == p.db
           sorted == Each("bookmarks", p, req.bm, x)
           q == Batch("bookmark upserts", sorted, x)
           H == Marking(x, z)
           I == OpenBookmark(z)
           S == {s \in H : Recorded(p, s, b, x.seq)}
<1>0. /\ req.bm \in Seq(BookmarkItems) /\ p \in H
      /\ H \in SUBSET Held(I) /\ S \in SUBSET Held(I)
      /\ x.seq \in Nat /\ x.horizon \in Nat /\ x.horizon < x.seq /\ x.now \in Nat
  BY DEF Context, Known, Request, Marking
<1>1. PushBookmarks(p, req, x) = q
  BY DEF PushBookmarks
<1>2. sorted \in H /\ Silent(p, sorted)
  <2>1. ASSUME NEW s \in H, NEW item \in BookmarkItems
        PROVE  Turn("bookmarks", s, item, x) \in H /\ Silent(s, Turn("bookmarks", s, item, x))
    <3>1. s \in Held(I)
      BY <1>0
    <3> QED BY <3>1, MarkingTurns, TurnsSilent
  <2> HIDE DEF H
  <2> QED BY <1>0, <2>1, EachSilent
<1>3. sorted \in S
  BY <1>2 DEF Silent, SameDocuments, Recorded, OutOfReach
<1> HIDE DEF sorted
<1>4. ASSUME NEW s \in S, NEW item \in I PROVE Turn("bookmark upserts", s, item, x) \in S
  <2> DEFINE k == UpsertBookmark(s, item, x.horizon, x.seq, x.now)
  <2>1. Turn("bookmark upserts", s, item, x) = k
    BY DEF Turn
  <2>2. s \in H /\ s \in Held(I) /\ Recorded(p, s, b, x.seq) /\ s.db \in Database
    BY <1>0, HeldFields
  <2>3. k \in H
    BY <2>1, <2>2, MarkingTurns
  <2>4. \/ TurnedAway(s, k, "bookmark", item.id)
        \/ WritesBookmark(s, k, item, x.horizon, x.seq, x.now)
    BY <2>2, UpsertBookmarkAnswers
  <2> HIDE DEF k
  <2>5. Recorded(p, k, b, x.seq)
    <3>1. CASE TurnedAway(s, k, "bookmark", item.id)
      BY <2>2, <3>1 DEF TurnedAway, SameDocuments, Recorded, OutOfReach
    <3>2. CASE WritesBookmark(s, k, item, x.horizon, x.seq, x.now) /\ item.id # b
      <4>1. k.db.bm[b] = s.db.bm[b]
        BY <2>2, <3>2 DEF WritesBookmark, Database
      <4> QED BY <2>2, <3>2, <4>1 DEF WritesBookmark, Recorded, OutOfReach
    <3>3. CASE WritesBookmark(s, k, item, x.horizon, x.seq, x.now) /\ item.id = b
      <4>1. k.db.bm[b] = StoredMark(item, x.now, x.seq)
        BY <2>2, <3>3 DEF WritesBookmark, Database
      <4>2. k.db.bm[b].seq = x.seq /\ k.db.bm[b].is_trashed = item.state
        BY <4>1 DEF StoredMark
      <4>3. s.db.bm[b].seq # x.seq
        <5>1. s.db.bm[b].seq <= x.horizon
          BY <3>3 DEF WritesBookmark
        <5> QED BY <1>0, <5>1
      <4>4. OutOfReach(p, s, b)
        BY <2>2, <4>3 DEF Recorded
      <4> QED BY <3>3, <4>2, <4>4 DEF WritesBookmark, Recorded, OutOfReach
    <3> QED BY <2>4, <3>1, <3>2, <3>3
  <2> QED BY <2>1, <2>3, <2>5
<1>5. \E r \in S : Quiet(r, q)
  <2> HIDE DEF S
  <2> QED BY <1>0, <1>3, <1>4, BatchDocuments
<1> HIDE DEF q
<1>6. PICK r \in S : Quiet(r, q)
  BY <1>5
<1>7. Recorded(p, r, b, x.seq)
  OBVIOUS
<1> QED BY <1>1, <1>6, <1>7 DEF Quiet, SameDocuments, Recorded, OutOfReach

(* The groups are nothing to it.                                              *)
LEMMA GroupsSilent ==
    ASSUME NEW x \in Context, NEW req \in Request(x.version), NEW z,
           NEW p, \A J : p \in Held(J), ChildrenInv(x, z, p)
    PROVE  Silent(p, PushGroups(p, req, x))
<1> DEFINE sorted == Each("groups", p, req.grp, x)
           q == Batch("group upserts", sorted, x)
           H == Grouping(x, z)
           I == OpenGroup(z)
<1>0. req.grp \in Seq(GroupItems) /\ H \in SUBSET Held(I) /\ p \in H
  BY DEF Request, Grouping
<1>1. PushGroups(p, req, x) = q
  BY DEF PushGroups
<1>2. sorted \in H /\ Silent(p, sorted)
  <2>1. ASSUME NEW s \in H, NEW item \in GroupItems
        PROVE  Turn("groups", s, item, x) \in H /\ Silent(s, Turn("groups", s, item, x))
    <3>1. s \in Held(I)
      BY <1>0
    <3> QED BY <3>1, GroupingTurns, TurnsSilent
  <2> HIDE DEF H
  <2> QED BY <1>0, <2>1, EachSilent
<1> HIDE DEF sorted
<1>3. Silent(sorted, q)
  <2>1. ASSUME NEW s \in H, NEW item \in I
        PROVE  /\ Turn("group upserts", s, item, x) \in H
               /\ Silent(s, Turn("group upserts", s, item, x))
    <3>1. s \in Held(I)
      BY <1>0
    <3> QED BY <3>1, GroupingTurns, TurnsSilent
  <2> HIDE DEF H, I
  <2> QED BY <1>0, <1>2, <2>1, BatchSilent
<1> HIDE DEF q
<1> QED BY <1>1, <1>2, <1>3 DEF Silent, SameDocuments

-------------------------------------------------------------------------------
(* The whole push.                                                            *)

(* What a bookmark and its document become after the workspaces.              *)
Later(p, q, b) ==
    \/ q.db.bm[b].is_trashed # Active
    \/ OutOfReach(p, q, b)
    \/ b \in q.searchUpserts /\ (b \in q.searchDeletes => b \in p.searchDeletes)

(* The verdict of the workspace loops, and what the children make of it.      *)
Decided(d, q, b, list) ==
    \E p : Verdict(d, p, b, list, Len(list)) /\ Later(p, q, b) /\ q.db.ws = p.db.ws

(* The push, on a bookmark and on the workspaces.                             *)
LEMMA PushDecides ==
    ASSUME NEW d \in Database, Present(d), NEW horizon \in Nat, NEW seq \in Nat, horizon < seq,
           NEW now \in Nat, NEW version \in {0, 2}, NEW req \in Request(version), NEW b \in Bookmarks
    PROVE  LET q == Pushed(d, req, horizon, seq, now) IN
           Decided(d, q, b, req.ws) /\ Present(q.db)
<1> DEFINE x == [before |-> d, version |-> req.version, horizon |-> horizon, seq |-> seq, now |-> now,
                 metadata |-> {w \in Workspaces : \E i \in DOMAIN req.ws :
                                  req.ws[i].id = w /\ req.ws[i].op = "metadata"}]
           p1 == PushWorkspaces(Start(d, horizon), req, x)
           p2 == PushCollections(p1, req, x)
           p3 == PushBookmarks(p2, req, x)
           p4 == PushGroups(p3, req, x)
<1>1. req.version = version
  BY DEF Request
<1>2. x \in Context /\ x.before = d /\ x.version = version /\ x.horizon = horizon /\ x.seq = seq
  BY <1>1 DEF Context, Known
<1>3. Pushed(d, req, horizon, seq, now) = p4
  BY DEF Pushed
<1> HIDE DEF x
<1>4. (\A J : p1 \in Held(J)) /\ ChildrenInv(x, p1.db, p1)
  BY <1>2, PushWorkspacesKeeps
<1>a. Verdict(d, p1, b, req.ws, Len(req.ws)) /\ Present(p1.db)
  <2>1. LET p == PushWorkspaces(Start(x.before, x.horizon), req, x) IN
        Verdict(x.before, p, b, req.ws, Len(req.ws)) /\ Present(p.db)
    BY <1>2, WorkspacesDecide
  <2> QED BY <1>2, <2>1
<1> HIDE DEF p1
<1>5. (\A J : p2 \in Held(J)) /\ ChildrenInv(x, p1.db, p2)
  BY <1>2, <1>4, PushCollectionsKeeps
<1>b. Buried(p1, p2, b)
  BY <1>2, <1>4, CollectionsBury
<1> HIDE DEF p2
<1>6. ChildrenInv(x, p2.db, p2)
  BY <1>5 DEF ChildrenInv
<1>7. (\A J : p3 \in Held(J)) /\ ChildrenInv(x, p2.db, p3)
  BY <1>2, <1>5, <1>6, PushBookmarksKeeps
<1>c. Recorded(p2, p3, b, seq)
  BY <1>2, <1>5, <1>6, BookmarksRecorded
<1> HIDE DEF p3
<1>8. (\A J : p4 \in Held(J)) /\ ChildrenInv(x, p2.db, p4)
  BY <1>2, <1>7, PushGroupsKeeps
<1>d. Silent(p3, p4)
  BY <1>2, <1>7, GroupsSilent
<1> HIDE DEF p4
<1>9. p4.db.ws = p1.db.ws
  BY <1>5, <1>8 DEF ChildrenInv
<1>10. Later(p1, p3, b)
  <2>1. Terminal # Active
    BY DEF Terminal, Active
  <2> QED BY <1>b, <1>c, <2>1 DEF Buried, Recorded, Later, OutOfReach, SameDocuments
<1>11. Later(p1, p4, b)
  BY <1>d, <1>10 DEF Silent, SameDocuments, Later, OutOfReach
<1>12. Decided(d, p4, b, req.ws)
  BY <1>9, <1>11, <1>a DEF Decided
<1>13. Present(p4.db)
  BY <1>9, <1>a DEF Present
<1> QED BY <1>3, <1>12, <1>13

(* What PushedIsIndexed leaves out, of the tables d before and e after.       *)
Passed(d, e, b) ==
    \E w \in Workspaces :
        /\ b \in BookmarksOf(d, w)
        /\ ~(d.ws[w].is_deleted = Retained /\ e.ws[w].is_deleted = Active)
        /\ \/ e.ws[w] # d.ws[w] /\ (Shut(d, w) \/ Shut(e, w))
           \/ Shut(d, w) /\ e.bm[b] = d.bm[b]

(* A live bookmark has its document asked for, and its removal not, whatever  *)
(* the fate of its workspace.                                                 *)
LEMMA VerdictIndexes ==
    ASSUME NEW d \in Database, Present(d), NEW b \in Bookmarks, NEW p, NEW q, NEW list, NEW n,
           Verdict(d, p, b, list, n), Later(p, q, b), q.db.ws = p.db.ws,
           Indexed(q.db, b), ~Passed(d, q.db, b),
           \A w \in Workspaces : b \in BookmarksOf(d, w) => ~Undone(d, list, n, w)
    PROVE  b \notin q.searchDeletes /\ (b \in q.searchUpserts \/ Indexed(d, b))
<1>0. /\ q.db.bm[b].is_trashed = Active /\ q.db.bm[b].deleted_at = Null
      /\ Active # Retained /\ Active # Terminal /\ Retained # Terminal
  BY DEF Indexed, Active, Retained, Terminal
<1>1. \/ OutOfReach(p, q, b)
      \/ b \in q.searchUpserts /\ (b \in q.searchDeletes => b \in p.searchDeletes)
  BY <1>0 DEF Later
<1>2. CASE \A w \in Workspaces : b \notin BookmarksOf(d, w)
  <2>1. Aside(d, p, b)
    BY <1>2 DEF Verdict
  <2>2. p.db.bm[b].is_trashed = Active /\ p.db.bm[b].deleted_at = Null => Indexed(d, b)
    BY <1>2, <2>1 DEF Aside, Indexed
  <2> QED BY <1>0, <1>1, <2>1, <2>2 DEF Aside, OutOfReach
<1>3. ASSUME NEW w \in Workspaces, b \in BookmarksOf(d, w)
      PROVE  b \notin q.searchDeletes /\ (b \in q.searchUpserts \/ Indexed(d, b))
  <2>1. Fate(d, p, b, w, list, n) /\ ~Undone(d, list, n, w)
    BY <1>3 DEF Verdict
  <2>2. \A v \in Workspaces : b \in BookmarksOf(d, v) => v = w
    BY <1>3 DEF BookmarksOf, CollectionsOf
  <2>3. d.ws[w].is_deleted \in {Active, Retained, Terminal}
    BY DEF Database, WorkspaceRow, States, Present
  <2>4. ~TakenAway(d, p, w) /\ ~PurgedOff(d, p, w)
    <3>1. TakenAway(d, p, w) => Passed(d, q.db, b)
      BY <1>0, <1>3 DEF TakenAway, Passed, Shut
    <3>2. PurgedOff(d, p, w) => Passed(d, q.db, b)
      BY <1>0, <1>3 DEF PurgedOff, Passed, Shut
    <3> QED BY <3>1, <3>2
  <2>5. CASE Untouched(d, p, b, w)
    <3>1. b \notin q.searchDeletes
      BY <1>1, <2>5 DEF Untouched, OutOfReach
    <3>2. CASE OutOfReach(p, q, b)
      <4>1. q.db.bm[b] = d.bm[b] /\ q.db.ws[w].is_deleted = d.ws[w].is_deleted
        BY <2>5, <3>2 DEF Untouched, OutOfReach, SameState
      <4>2. ~Shut(d, w)
        BY <1>0, <1>3, <4>1 DEF Passed
      <4>3. d.ws[w].is_deleted = Active
        BY <2>3, <4>2 DEF Shut
      <4>4. Indexed(d, b)
        BY <1>0, <2>2, <4>1, <4>3 DEF Indexed
      <4> QED BY <3>1, <4>4
    <3> QED BY <1>1, <3>1, <3>2
  <2>6. CASE BroughtBack(d, p, b, w)
    <3>1. b \notin q.searchDeletes
      BY <1>1, <2>6 DEF BroughtBack, OutOfReach
    <3>2. OutOfReach(p, q, b) => b \in q.searchUpserts \/ Indexed(d, b)
      BY <1>0, <2>6 DEF BroughtBack, Documented, OutOfReach
    <3> QED BY <1>1, <3>1, <3>2
  <2> QED BY <2>1, <2>4, <2>5, <2>6 DEF Fate
<1> QED BY <1>2, <1>3

-------------------------------------------------------------------------------
(* The transitions.                                                           *)

(* The tables that are stored, as the property sees them.                     *)
LEMMA StoredViews ==
    ASSUME NEW e \in Database, Store(e), NEW b
    PROVE  /\ Indexed(db', b) <=> Indexed(e, b)
           /\ Passed(db, e, b) <=> Overtaken(b)
<1>1. db'.ws = e.ws /\ db'.col = e.col /\ db'.bm = e.bm
  BY StoreTables
<1>2. \A w : BookmarksOf(db', w) = BookmarksOf(e, w)
  BY <1>1 DEF BookmarksOf, CollectionsOf
<1>3. \A w : Shut(db', w) <=> Shut(e, w)
  BY <1>1 DEF Shut
<1>4. Indexed(db', b) <=> Indexed(e, b)
  BY <1>1, <1>2 DEF Indexed
<1>5. Passed(db, e, b) <=> Overtaken(b)
  BY <1>1, <1>3 DEF Passed, Overtaken, Restored
<1> QED BY <1>4, <1>5

(* A push.                                                                    *)
LEMMA PushIndexes ==
    ASSUME TypeOK, Present(db), NEW req \in Requests, NEW horizon \in Horizons(db),
           Push(req, horizon), NEW b \in Bookmarks, Indexed(db, b) => b \in index,
           Indexed(db', b), ~Overtaken(b)
    PROVE  b \in index' \/ DeletedAndRestored(b)
<1> DEFINE seq == NextSeq(db)
           q == Pushed(db, req, horizon, seq, clock)
           list == req.ws
<1>0. /\ db \in Database /\ clock \in Nat /\ seq \in Nat /\ horizon \in Nat /\ horizon < seq
  BY DEF TypeOK, Horizons, NextSeq, Database
<1>1. PICK version \in {0, 2} : req \in Request(version)
  BY RequestType
<1>2. /\ Store(q.db)
      /\ index' \in {(index \cup q.searchUpserts) \ q.searchDeletes,
                     (index \ q.searchDeletes) \cup q.searchUpserts}
  BY DEF Push, Commit
<1>3. Decided(db, q, b, req.ws)
  <2> HIDE DEF seq
  <2> QED BY <1>0, <1>1, PushDecides
<1>4. q.db \in Database
  <2> HIDE DEF seq
  <2> QED BY <1>0, <1>1, PushedTrail
<1> HIDE DEF q
<1>a. PICK p : Verdict(db, p, b, list, Len(list)) /\ Later(p, q, b) /\ q.db.ws = p.db.ws
  BY <1>3 DEF Decided
<1>5. Indexed(q.db, b) /\ ~Passed(db, q.db, b)
  BY <1>2, <1>4, StoredViews
<1>6. CASE \A w \in Workspaces : b \in BookmarksOf(db, w) => ~Undone(db, list, Len(list), w)
  <2>1. b \notin q.searchDeletes /\ (b \in q.searchUpserts \/ Indexed(db, b))
    BY <1>0, <1>a, <1>5, <1>6, VerdictIndexes
  <2> QED BY <1>2, <2>1
<1>7. ASSUME NEW w \in Workspaces, b \in BookmarksOf(db, w), Undone(db, list, Len(list), w)
      PROVE  DeletedAndRestored(b)
  <2>1. DOMAIN list = 1..Len(list)
    BY <1>1 DEF Request
  <2>2. Undoes(req, w)
    BY <1>7, <2>1 DEF Undoes, Undone
  <2> QED BY <1>7, <2>2 DEF DeletedAndRestored
<1> QED BY <1>6, <1>7

(* A restore: a list of one entry.                                            *)
LEMMA RestoreIndexes ==
    ASSUME TypeOK, Present(db), NEW w \in Workspaces, RestoreWorkspace(w),
           SendEffect(Effect(db, w, "restore", 1)), NEW b \in Bookmarks,
           Indexed(db, b) => b \in index, Indexed(db', b), ~Overtaken(b)
    PROVE  b \in index'
<1> DEFINE seq == NextSeq(db)
           e == Applied(db, w, "restore", 1, seq, clock)
           effect == Effect(db, w, "restore", 1)
           p == [db |-> db, searchUpserts |-> {}, searchDeletes |-> {}]
           q == [db |-> e, searchUpserts |-> effect.upserts, searchDeletes |-> effect.deletes]
           list == <<[id |-> w, op |-> "restore"]>>
<1>0. /\ db \in Database /\ clock \in Nat /\ seq \in Nat
      /\ "restore" \in LifecycleActions
  BY DEF TypeOK, NextSeq, Database, LifecycleActions
<1>1. Store(e) /\ e \in Database
  BY <1>0, AppliedType DEF RestoreWorkspace, Apply, Commit
<1>2. Asks(p, q, w, "restore", 1, seq, clock) /\ p.db = db /\ q.db = e
  BY DEF Asks
<1>3. Verdict(db, p, b, list, 0)
  BY DEF Verdict, Fate, Untouched, SameState, Aside
<1>4. Verdict(db, q, b, list, 1)
  <2>1. Descends(db, db)
    BY DEF Descends
  <2>2. list[1] = [id |-> w, op |-> "restore"]
    OBVIOUS
  <2> HIDE DEF p, q, list, seq
  <2> QED BY <1>0, <1>2, <1>3, <2>1, <2>2, VerdictAsked
<1>5. q.searchUpserts = effect.upserts /\ q.searchDeletes = effect.deletes
  OBVIOUS
<1> HIDE DEF q, e, list
<1>6. Indexed(q.db, b) /\ ~Passed(db, q.db, b)
  BY <1>1, <1>2, StoredViews
<1>7. b \notin q.searchDeletes /\ (b \in q.searchUpserts \/ Indexed(db, b))
  <2>1. Later(q, q, b)
    BY DEF Later, OutOfReach
  <2>2. \A v : ~Undone(db, list, 1, v)
    BY DEF Undone
  <2> QED BY <1>0, <1>4, <1>6, <2>1, <2>2, VerdictIndexes
<1>8. index' = (index \ effect.deletes) \cup effect.upserts
  BY DEF SendEffect
<1> QED BY <1>5, <1>7, <1>8

-------------------------------------------------------------------------------
(* No workspace is ever missing: a push stores no bookmark without deciding   *)
(* the workspaces, and the actions lose none.                                 *)
AllPresent(e) == Bookmarks = {} \/ Present(e)

(* The tables a client may meet first hold every workspace.                   *)
LEMMA PushInitPresent == PushInit => AllPresent(db)
<1> SUFFICES ASSUME PushInit PROVE Present(db)
  BY DEF AllPresent
<1>1. PICK w \in Workspaces, C \in SomeOf(Collections), B \in SomeOf(Bookmarks), G \in {{}, Groups} :
         \E d \in Moved(Stored(EmptyDatabase, C, B, G, w)) : db = [d EXCEPT !.seq = 3]
  BY DEF PushInit
<1> DEFINE s == Stored(EmptyDatabase, C, B, G, w)
           Full(d) == d \in Database /\ Present(d)
<1>2. Full(s)
  <2>1. s \in Database
    BY StoredInit
  <2>2. \A v \in Workspaces : s.ws[v].is_deleted = Active
    BY DEF Stored, EmptyDatabase
  <2>3. Active # Absent
    BY DEF Active, Absent
  <2> QED BY <2>1, <2>2, <2>3 DEF Present
<1> HIDE DEF s
<1>3. ASSUME NEW d, Full(d), NEW v \in Workspaces, NEW op \in LifecycleActions, NEW model \in {0, 1},
             NEW seq \in Nat
      PROVE  Full(Applied(d, v, op, model, seq, 0))
  <2> DEFINE f == Applied(d, v, op, model, seq, 0)
  <2>1. d \in Database /\ Present(d) /\ 0 \in Nat
    BY <1>3
  <2>2. f \in Database /\ KeepsAside(d, f, v)
    BY <1>3, <2>1, AppliedAside
  <2> HIDE DEF f
  <2>3. Full(f)
    BY <2>1, <2>2 DEF KeepsAside, Present
  <2> QED BY <2>3 DEF f
<1>4. "delete" \in LifecycleActions /\ "purge" \in LifecycleActions /\ 1 \in {0, 1}
  BY DEF LifecycleActions
<1> HIDE DEF Full
<1>5. \A v \in Workspaces, model \in {0, 1} :
         /\ Full(Applied(s, v, "delete", model, 3, 0))
         /\ Full(Applied(s, v, "delete", model, 2, 0))
  BY <1>2, <1>3, <1>4
<1>6. \A v \in Workspaces, model \in {0, 1} :
         Full(Applied(Applied(s, v, "delete", model, 2, 0), v, "purge", 1, 3, 0))
  BY <1>3, <1>4, <1>5
<1>7. \A d \in Moved(s) : Full(d)
  BY <1>2, <1>5, <1>6 DEF Moved
<1>8. PICK d \in Moved(s) : db = [d EXCEPT !.seq = 3]
  BY <1>1 DEF s
<1>9. Full(d)
  BY <1>7, <1>8
<1>10. db.ws = d.ws
  BY <1>8, <1>9 DEF Full, Database
<1> QED BY <1>9, <1>10 DEF Full, Present

(* A push, or a restore, loses no workspace.                                  *)
LEMMA PushStaysPresent ==
    TypeOK /\ AllPresent(db) /\ [PushNext]_searchVars => AllPresent(db)'
<1> SUFFICES ASSUME TypeOK, Present(db), [PushNext]_searchVars, NEW b \in Bookmarks
             PROVE  Present(db')
  BY DEF AllPresent
<1>0. /\ db \in Database /\ clock \in Nat /\ NextSeq(db) \in Nat
      /\ "restore" \in LifecycleActions /\ 1 \in {0, 1}
  BY DEF TypeOK, NextSeq, Database, LifecycleActions
<1>1. ASSUME NEW req \in Requests, NEW horizon \in Horizons(db), Push(req, horizon)
      PROVE  Present(db')
  <2> DEFINE q == Pushed(db, req, horizon, NextSeq(db), clock)
  <2>1. horizon \in Nat /\ horizon < NextSeq(db)
    BY DEF TypeOK, Horizons, NextSeq, Database
  <2>2. PICK version \in {0, 2} : req \in Request(version)
    BY RequestType
  <2>3. Present(q.db)
    BY <1>0, <2>1, <2>2, PushDecides
  <2>4. q.db \in Database
    BY <1>0, <2>1, <2>2, PushedTrail
  <2>5. Store(q.db)
    BY <1>1 DEF Push, Commit
  <2> HIDE DEF q
  <2>6. db'.ws = q.db.ws
    BY <2>4, <2>5, StoreTables
  <2> QED BY <2>3, <2>6 DEF Present
<1>2. ASSUME NEW w \in Workspaces, RestoreWorkspace(w)
      PROVE  Present(db')
  <2> DEFINE e == Applied(db, w, "restore", 1, NextSeq(db), clock)
  <2>1. e \in Database /\ KeepsAside(db, e, w)
    BY <1>0, AppliedAside
  <2>2. Store(e)
    BY <1>2 DEF RestoreWorkspace, Apply, Commit
  <2> HIDE DEF e
  <2>3. db'.ws = e.ws
    BY <2>1, <2>2, StoreTables
  <2> QED BY <2>1, <2>3 DEF Present, KeepsAside
<1>3. CASE UNCHANGED searchVars
  BY <1>3 DEF searchVars, vars
<1> QED BY <1>1, <1>2, <1>3 DEF PushNext

(* What every step owes the documents.                                        *)
Documents ==
    \A b \in Bookmarks :
        /\ Indexed(db, b) => b \in index
        /\ Indexed(db', b)
        /\ ~Overtaken(b)
        => b \in index' \/ DeletedAndRestored(b)

(* A step of the specification keeps the documents of the live bookmarks.     *)
LEMMA StepIndexes == TypeOK /\ AllPresent(db) /\ [PushNext]_searchVars => [Documents]_searchVars
<1> SUFFICES ASSUME TypeOK, AllPresent(db), PushNext PROVE Documents
  OBVIOUS
<1> SUFFICES ASSUME NEW b \in Bookmarks, Indexed(db, b) => b \in index, Indexed(db', b), ~Overtaken(b)
             PROVE  b \in index' \/ DeletedAndRestored(b)
  BY DEF Documents
<1>0. Present(db)
  BY DEF AllPresent
<1>1. ASSUME NEW req \in Requests, NEW horizon \in Horizons(db), Push(req, horizon)
      PROVE  b \in index' \/ DeletedAndRestored(b)
  BY <1>0, <1>1, PushIndexes
<1>2. ASSUME NEW w \in Workspaces, RestoreWorkspace(w), SendEffect(Effect(db, w, "restore", 1))
      PROVE  b \in index'
  BY <1>0, <1>2, RestoreIndexes
<1> QED BY <1>1, <1>2 DEF PushNext

(* A live bookmark that had its document, or had none only because it was not *)
(* live, has it after a push or a restore, whatever the request: but for the  *)
(* bookmarks of a workspace the request shuts, purges or finds shut, and of   *)
(* one it both deletes and restores (the document batches of sync.go:962 are  *)
(* sent one after the other, in either order).                                *)
THEOREM PushesIndex == PushSpec => PushedIsIndexed
<1>1. PushInit => AllPresent(db)
  BY PushInitPresent
<1>2. TypeOK /\ AllPresent(db) /\ [PushNext]_searchVars => AllPresent(db)'
  BY PushStaysPresent
<1>3. TypeOK /\ AllPresent(db) /\ [PushNext]_searchVars => [Documents]_searchVars
  BY StepIndexes
<1>4. PushedIsIndexed <=> [][Documents]_searchVars
  BY PTL DEF PushedIsIndexed, Documents
<1> QED BY <1>1, <1>2, <1>3, <1>4, PushTypeCorrect, PTL DEF PushSpec
===============================================================================
