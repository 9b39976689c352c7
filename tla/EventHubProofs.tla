----------------------------- MODULE EventHubProofs -----------------------------
(***************************************************************************)
(* Theorems about EventHub, for any number of streams, handlers and        *)
(* commits, and any channel capacity of at least one.                      *)
(***************************************************************************)
EXTENDS EventHub, TLAPS

(* A handler that has committed holds a real sequence number.                 *)
Announced == \A h \in Handlers : handler[h].at \in {"committed", "sending"} => handler[h].seq >= 1

(* What the steps of the hub are, without their UNCHANGED parts.              *)
HandlerStep(h) == Accept(h) \/ CommitTx(h) \/ Snapshot(h) \/ Respond(h)
StreamStep(c)  == Connect(c) \/ Subscribe(c) \/ Deliver(c) \/ Leave(c) \/ Unsubscribe(c)

(* Every step of Next is one of these.                                        *)
LEMMA Steps ==
    ASSUME Next
    PROVE  \/ \E h \in Handlers : HandlerStep(h) \/ \E c \in Streams : Send(h, c)
           \/ \E c \in Streams : StreamStep(c)
           \/ Signal
           \/ CloseHub
BY DEF Next, Broadcasting, HandlerStep, StreamStep, EndOfChannel, Disconnect

-------------------------------------------------------------------------------
(* One send of a broadcast: the channel takes the number or drops it, within  *)
(* its capacity, and the number was announced before.                         *)
LEMMA SendType ==
    ASSUME TypeOK, Announced, NEW h \in Handlers, NEW c \in Streams, Send(h, c)
    PROVE  TypeOK' /\ Announced'
<1> DEFINE Buffer == Seq(1..MaxCommits)
<1>0. /\ handler \in [Handlers -> [at : {"idle", "accepted", "committed", "sending"},
                                   seq : 0..MaxCommits, snapshot : SUBSET Streams]]
      /\ handler[h].at = "sending"
  BY DEF TypeOK, Send
<1>1. handler[h].seq \in 1..MaxCommits
  BY <1>0, CapacityAssumption DEF Announced
<1>2. buf' \in [Streams -> Buffer] /\ \A k \in Streams : Len(buf'[k]) <= Capacity
  <2>1. CASE open[c] /\ Len(buf[c]) < Capacity
    <3>1. buf' = [buf EXCEPT ![c] = Append(buf[c], handler[h].seq)]
      BY <2>1 DEF Send
    <3>2. buf[c] \in Buffer /\ buf \in [Streams -> Buffer]
      BY DEF TypeOK
    <3>3. Append(buf[c], handler[h].seq) \in Buffer
      BY <1>1, <3>2
    <3>4. Len(Append(buf[c], handler[h].seq)) = Len(buf[c]) + 1 /\ Len(buf[c]) \in Nat
      BY <1>1, <3>2
    <3>5. Len(buf[c]) + 1 <= Capacity
      BY <2>1, <3>4, CapacityAssumption
    <3> HIDE DEF Buffer
    <3> QED BY <3>1, <3>2, <3>3, <3>4, <3>5 DEF TypeOK
  <2>2. CASE ~(open[c] /\ Len(buf[c]) < Capacity)
    <3>1. buf' = buf
      BY <2>2 DEF Send
    <3> QED BY <3>1 DEF TypeOK
  <2> QED BY <2>1, <2>2
<1>3. /\ handler' \in [Handlers -> [at : {"idle", "accepted", "committed", "sending"},
                                    seq : 0..MaxCommits, snapshot : SUBSET Streams]]
      /\ Announced'
  <2>1. CASE open[c]
    <3>1. handler' = [handler EXCEPT ![h] = [@ EXCEPT !.snapshot = handler[h].snapshot \ {c}]]
      BY <2>1 DEF Send
    <3> QED BY <1>0, <3>1 DEF Announced
  <2>2. CASE ~open[c]
    <3>1. handler' = [handler EXCEPT ![h] = Idle]
      BY <2>2 DEF Send
    <3> QED BY <1>0, <3>1, CapacityAssumption DEF Announced, Idle
  <2> QED BY <2>1, <2>2
<1>4. panics' \subseteq {"send on closed channel", "close of closed channel"}
  BY DEF Send, TypeOK
<1> QED BY <1>2, <1>3, <1>4 DEF Send, TypeOK

(* The steps of a handler around its broadcast keep the types, and a number   *)
(* it carries stays announced.                                                *)
LEMMA HandlerType ==
    ASSUME TypeOK, Announced, NEW h \in Handlers, HandlerStep(h)
    PROVE  TypeOK' /\ Announced'
<1> DEFINE Handler == [at : {"idle", "accepted", "committed", "sending"},
                       seq : 0..MaxCommits, snapshot : SUBSET Streams]
<1>0. /\ committed \in 0..MaxCommits
      /\ handler \in [Handlers -> Handler]
      /\ due \in [Streams -> 0..MaxCommits]
      /\ subs \subseteq Streams
      /\ MaxCommits \in Nat
  BY CapacityAssumption DEF TypeOK
<1>1. CASE Accept(h)
  BY <1>0, <1>1 DEF Accept, Idle, TypeOK, Announced
<1>2. CASE CommitTx(h)
  <2>1. committed + 1 \in 1..MaxCommits /\ committed' = committed + 1
    BY <1>0, <1>2 DEF CommitTx
  <2>2. due' \in [Streams -> 0..MaxCommits]
    BY <1>0, <1>2, <2>1 DEF CommitTx
  <2> DEFINE row == [at |-> "committed", seq |-> committed + 1, snapshot |-> {}]
  <2>3. handler' = [handler EXCEPT ![h] = row]
    BY <1>2 DEF CommitTx
  <2>4. row \in Handler /\ row.seq >= 1
    BY <2>1
  <2> HIDE DEF row
  <2>5. handler' \in [Handlers -> Handler] /\ Announced'
    BY <1>0, <2>3, <2>4 DEF Announced
  <2> QED BY <1>2, <2>1, <2>2, <2>5 DEF CommitTx, TypeOK
<1>3. CASE Snapshot(h)
  <2> DEFINE row == [[handler[h] EXCEPT !.at = "sending"] EXCEPT !.snapshot = subs]
  <2>1. handler' = [handler EXCEPT ![h] = row] /\ handler[h].at = "committed"
    BY <1>0, <1>3 DEF Snapshot
  <2>2. row \in Handler /\ row.seq = handler[h].seq
    BY <1>0
  <2> HIDE DEF row
  <2>3. handler' \in [Handlers -> Handler] /\ Announced'
    BY <1>0, <2>1, <2>2 DEF Announced
  <2> QED BY <1>3, <2>3 DEF Snapshot, TypeOK
<1>4. CASE Respond(h)
  <2>1. handler' = [handler EXCEPT ![h] = Idle]
    BY <1>4 DEF Respond
  <2>2. Idle \in Handler /\ Idle.at = "idle"
    BY <1>0 DEF Idle
  <2>3. handler' \in [Handlers -> Handler] /\ Announced'
    BY <1>0, <2>1, <2>2 DEF Announced
  <2> QED BY <1>4, <2>3 DEF Respond, TypeOK
<1> QED BY <1>1, <1>2, <1>3, <1>4 DEF HandlerStep

(* The steps of a stream keep the types: what it takes from its channel was   *)
(* announced.                                                                 *)
LEMMA StreamType ==
    ASSUME TypeOK, Announced, NEW c \in Streams, StreamStep(c)
    PROVE  TypeOK' /\ Announced'
<1>1. CASE Connect(c)
  BY <1>1 DEF Connect, TypeOK, Announced
<1>2. CASE Subscribe(c)
  BY <1>2 DEF Subscribe, TypeOK, Announced
<1>3. CASE Deliver(c)
  <2> DEFINE Events == 1..MaxCommits
             Buffer == Seq(Events)
  <2>0. /\ committed \in 0..MaxCommits
        /\ known \in [Streams -> 0..MaxCommits]
        /\ Capacity \in Nat
    BY CapacityAssumption DEF TypeOK
  <2>1. /\ buf \in [Streams -> Buffer] /\ \A k \in Streams : Len(buf[k]) <= Capacity
        /\ buf[c] # <<>>
    BY <1>3 DEF Deliver, TypeOK
  <2> HIDE DEF Events
  <2>2. Tail(buf[c]) \in Buffer /\ Len(Tail(buf[c])) = Len(buf[c]) - 1 /\ Len(buf[c]) \in Nat
    BY <2>1
  <2> HIDE DEF Buffer
  <2>3. Len(Tail(buf[c])) <= Capacity
    BY <2>0, <2>1, <2>2
  <2>4. buf' = [buf EXCEPT ![c] = Tail(buf[c])] /\ known' = [known EXCEPT ![c] = committed]
    BY <1>3 DEF Deliver
  <2>5. buf' \in [Streams -> Buffer] /\ \A k \in Streams : Len(buf'[k]) <= Capacity
    BY <2>1, <2>2, <2>3, <2>4
  <2>6. known' \in [Streams -> 0..MaxCommits]
    BY <2>0, <2>4
  <2> QED BY <1>3, <2>5, <2>6 DEF Deliver, Buffer, Events, TypeOK, Announced
<1>4. CASE Leave(c)
  BY <1>4 DEF Leave, TypeOK, Announced
<1>5. CASE Unsubscribe(c)
  BY <1>5 DEF Unsubscribe, CloseChannels, TypeOK, Announced
<1> QED BY <1>1, <1>2, <1>3, <1>4, <1>5 DEF StreamStep

(* Every step keeps the types and Announced together.                         *)
LEMMA HubStep ==
    ASSUME TypeOK, Announced, [Next]_vars
    PROVE  TypeOK' /\ Announced'
<1>1. CASE UNCHANGED vars
  BY <1>1 DEF vars, TypeOK, Announced
<1>2. CASE Signal
  BY <1>2 DEF Signal, TypeOK, Announced
<1>3. CASE CloseHub
  BY <1>3 DEF CloseHub, CloseChannels, TypeOK, Announced
<1> QED BY <1>1, <1>2, <1>3, Steps, SendType, HandlerType, StreamType

(* Both hold before the first stream connects.                                *)
LEMMA HubInit == Init => TypeOK /\ Announced
BY CapacityAssumption DEF Init, Idle, TypeOK, Announced

(* The hub keeps its types: in particular no channel ever holds more than its *)
(* capacity and no client hears of a number that was not committed.           *)
THEOREM HubTypeCorrect == Spec => []TypeOK
<1> DEFINE IInv == TypeOK /\ Announced
<1>1. Init => IInv
  BY HubInit
<1>2. IInv /\ [Next]_vars => IInv'
  BY HubStep
<1>3. IInv => TypeOK
  OBVIOUS
<1> QED BY <1>1, <1>2, <1>3, PTL DEF Spec

-------------------------------------------------------------------------------
(* The map.                                                                   *)

(* No step separates the map from the channels: Subscribe opens the channel   *)
(* it enters, Unsubscribe and Close close what they take out.                 *)
LEMMA MapStep ==
    ASSUME TypeOK, MapHoldsOpenChannels, [Next]_vars
    PROVE  MapHoldsOpenChannels'
<1>0. subs \subseteq Streams /\ open \in [Streams -> BOOLEAN]
  BY DEF TypeOK
<1>1. CASE UNCHANGED vars
  BY <1>1 DEF vars, MapHoldsOpenChannels
<1>2. CASE Signal
  BY <1>2 DEF Signal, MapHoldsOpenChannels
<1>3. CASE CloseHub
  BY <1>0, <1>3 DEF CloseHub, CloseChannels, MapHoldsOpenChannels
<1>4. ASSUME NEW h \in Handlers, HandlerStep(h) PROVE MapHoldsOpenChannels'
  BY <1>4 DEF HandlerStep, Accept, CommitTx, Snapshot, Respond, MapHoldsOpenChannels
<1>5. ASSUME NEW h \in Handlers, NEW c \in Streams, Send(h, c) PROVE MapHoldsOpenChannels'
  <2>1. /\ UNCHANGED <<stream, open, subs>>
        /\ panics' = panics \/ panics' = panics \cup {"send on closed channel"}
    BY <1>5 DEF Send
  <2> QED BY <2>1 DEF MapHoldsOpenChannels
<1>6. ASSUME NEW c \in Streams, StreamStep(c) PROVE MapHoldsOpenChannels'
  <2>1. CASE Connect(c) \/ Leave(c)
    <3>1. \/ stream' = [stream EXCEPT ![c] = "connected"] /\ stream[c] = "none"
          \/ stream' = [stream EXCEPT ![c] = "leaving"]
      BY <2>1 DEF Connect, Leave
    <3>2. UNCHANGED <<open, subs, panics>> /\ stream \in [Streams -> {"none", "connected",
                                                 "streaming", "leaving", "gone"}]
      BY <2>1 DEF Connect, Leave, TypeOK
    <3> QED BY <1>0, <3>1, <3>2 DEF MapHoldsOpenChannels
  <2>2. CASE Subscribe(c)
    <3>1. stream \in [Streams -> {"none", "connected", "streaming", "leaving", "gone"}]
      BY DEF TypeOK
    <3>2. /\ stream' = [stream EXCEPT ![c] = "streaming"]
          /\ open' = [open EXCEPT ![c] = TRUE]
          /\ subs' = subs \cup {c}
          /\ panics' = panics
      BY <2>2 DEF Subscribe
    <3> QED BY <1>0, <3>1, <3>2 DEF MapHoldsOpenChannels
  <2>3. CASE Deliver(c)
    BY <2>3 DEF Deliver, MapHoldsOpenChannels
  <2>4. CASE Unsubscribe(c)
    BY <1>0, <2>4 DEF Unsubscribe, CloseChannels, MapHoldsOpenChannels, TypeOK
  <2> QED BY <1>6, <2>1, <2>2, <2>3, <2>4 DEF StreamStep
<1> QED BY <1>1, <1>2, <1>3, <1>4, <1>5, <1>6, Steps

(* The map holds exactly the open channels, whatever the interleaving of      *)
(* streams, handlers and Close: so Close and Unsubscribe, which close what    *)
(* they find in the map, never close a channel twice or leave one open.       *)
THEOREM MapIsExact == Spec => []MapHoldsOpenChannels
<1> DEFINE IInv == TypeOK /\ Announced /\ MapHoldsOpenChannels
<1>1. Init => IInv
  BY HubInit DEF Init, MapHoldsOpenChannels
<1>2. IInv /\ [Next]_vars => IInv'
  BY HubStep, MapStep
<1>3. IInv => MapHoldsOpenChannels
  OBVIOUS
<1> QED BY <1>1, <1>2, <1>3, PTL DEF Spec

-------------------------------------------------------------------------------
(* The wake-ups.                                                              *)

(* A client never misses more than what was committed, and a stream that has  *)
(* not subscribed is due nothing.                                             *)
Dues ==
    \A c \in Streams : /\ due[c] <= committed
                       /\ stream[c] \in {"none", "connected"} => due[c] = 0

HubInv == TypeOK /\ Announced /\ MapHoldsOpenChannels /\ Dues /\ NoWakeupIsLost

(* What keeps a stream's wake-up: everything that carried it still does.      *)
LEMMA WakeupKept ==
    ASSUME NoWakeupIsLost, panics \subseteq panics', known' = known, due' = due,
           NEW c \in Streams, c \in subs' => c \in subs,
           OnItsWay(c) => OnItsWay(c)'
    PROVE  panics' = {} /\ c \in subs' /\ ~OnItsWay(c)' => known'[c] >= due'[c]
<1> SUFFICES ASSUME panics' = {}, c \in subs', ~OnItsWay(c)'
             PROVE  known'[c] >= due'[c]
  OBVIOUS
<1>1. panics = {} /\ c \in subs /\ ~OnItsWay(c)
  OBVIOUS
<1> QED BY <1>1 DEF NoWakeupIsLost

(* A send leaves the event in the channel, or finds a full one, or panics.    *)
LEMMA SendKeepsWakeups ==
    ASSUME TypeOK, NoWakeupIsLost, NEW h \in Handlers, NEW k \in Streams, Send(h, k)
    PROVE  NoWakeupIsLost'
<1>0. /\ UNCHANGED <<subs, known, due>>
      /\ handler[h].at = "sending"
      /\ \A g \in Handlers : handler[g] = [at |-> handler[g].at, seq |-> handler[g].seq,
                                           snapshot |-> handler[g].snapshot]
  BY DEF Send, TypeOK
<1>1. handler \in [Handlers -> [at : {"idle", "accepted", "committed", "sending"},
                               seq : 0..MaxCommits, snapshot : SUBSET Streams]]
  BY DEF TypeOK
<1>2. CASE ~open[k]
  <2>1. panics' # {}
    BY <1>2 DEF Send
  <2> QED BY <2>1 DEF NoWakeupIsLost
<1>3. CASE open[k]
  <2>1. panics' = panics
    BY <1>3 DEF Send
  <2>2. handler' = [handler EXCEPT ![h] = [@ EXCEPT !.snapshot = handler[h].snapshot \ {k}]]
    BY <1>3 DEF Send
  <2>3. /\ \A g \in Handlers : handler'[g].at = handler[g].at
        /\ \A g \in Handlers : handler[g].snapshot \ {k} \subseteq handler'[g].snapshot
    BY <1>1, <2>2
  <2>4. buf'[k] # <<>> /\ \A c \in Streams : buf[c] # <<>> => buf'[c] # <<>>
    <3>0. buf \in [Streams -> Seq(1..MaxCommits)] /\ Capacity \in Nat \ {0}
      BY CapacityAssumption DEF TypeOK
    <3>1. CASE Len(buf[k]) < Capacity
      <4>1. buf' = [buf EXCEPT ![k] = Append(buf[k], handler[h].seq)]
        BY <1>3, <3>1 DEF Send
      <4>2. Append(buf[k], handler[h].seq) # <<>>
        <5>1. buf[k] \in Seq(1..MaxCommits)
          BY <3>0
        <5>2. buf[k] \in Seq(Nat) /\ handler[h].seq \in Nat
          BY <1>1, <5>1, CapacityAssumption
        <5> DEFINE longer == Append(buf[k], handler[h].seq)
        <5>3. Len(longer) = Len(buf[k]) + 1 /\ Len(buf[k]) \in Nat
          BY <5>2
        <5>4. Len(<<>>) = 0
          OBVIOUS
        <5> HIDE DEF longer
        <5>5. longer # <<>>
          BY <5>3, <5>4
        <5> QED BY <5>5 DEF longer
      <4> QED BY <3>0, <4>1, <4>2
    <3>2. CASE ~(Len(buf[k]) < Capacity)
      <4>1. buf' = buf
        BY <1>3, <3>2 DEF Send
      <4>2. buf[k] # <<>>
        BY <3>0, <3>2
      <4> QED BY <4>1, <4>2
    <3> QED BY <3>1, <3>2
  <2>5. ASSUME NEW c \in Streams, OnItsWay(c) PROVE OnItsWay(c)'
    <3>1. CASE c = k
      BY <2>4, <3>1 DEF OnItsWay
    <3>2. CASE c # k
      BY <2>3, <2>4, <2>5, <3>2 DEF OnItsWay
    <3> QED BY <3>1, <3>2
  <2>6. ASSUME NEW c \in Streams
        PROVE  panics' = {} /\ c \in subs' /\ ~OnItsWay(c)' => known'[c] >= due'[c]
    <3>1. OnItsWay(c) => OnItsWay(c)'
      BY <2>5
    <3> QED BY <1>0, <2>1, <3>1, WakeupKept
  <2> QED BY <2>6 DEF NoWakeupIsLost
<1> QED BY <1>2, <1>3

(* A commit, the snapshot and the end of a broadcast.                         *)
LEMMA HandlerKeepsWakeups ==
    ASSUME TypeOK, NoWakeupIsLost, NEW h \in Handlers, HandlerStep(h)
    PROVE  NoWakeupIsLost'
<1>0. handler \in [Handlers -> [at : {"idle", "accepted", "committed", "sending"},
                               seq : 0..MaxCommits, snapshot : SUBSET Streams]]
  BY DEF TypeOK
<1>1. CASE CommitTx(h)
  <2>1. handler'[h].at = "committed"
    BY <1>0, <1>1 DEF CommitTx
  <2>2. \A c \in Streams : OnItsWay(c)'
    BY <2>1 DEF OnItsWay
  <2> QED BY <2>2 DEF NoWakeupIsLost
<1>2. CASE ~CommitTx(h)
  <2>0. UNCHANGED <<buf, subs, known, due, panics>>
    BY <1>2 DEF HandlerStep, Accept, Snapshot, Respond
  <2>1. \A g \in Handlers : g # h => handler'[g] = handler[g]
    BY <1>0, <1>2 DEF HandlerStep, Accept, Snapshot, Respond
  <2>2. ASSUME NEW c \in Streams, c \in subs, OnItsWay(c) PROVE OnItsWay(c)'
    <3>1. CASE Accept(h)
      <4>1. handler[h].at = "idle"
        BY <3>1 DEF Accept, Idle
      <4> QED BY <2>0, <2>1, <2>2, <4>1 DEF OnItsWay
    <3>2. CASE Snapshot(h)
      <4>1. handler'[h].at = "sending" /\ handler'[h].snapshot = subs
        BY <1>0, <3>2 DEF Snapshot
      <4> QED BY <2>2, <4>1 DEF OnItsWay
    <3>3. CASE Respond(h)
      <4>1. handler[h].at = "sending" /\ handler[h].snapshot = {}
        BY <3>3 DEF Respond
      <4> QED BY <2>0, <2>1, <2>2, <4>1 DEF OnItsWay
    <3> QED BY <1>2, <3>1, <3>2, <3>3 DEF HandlerStep
  <2>3. ASSUME NEW c \in Streams
        PROVE  panics' = {} /\ c \in subs' /\ ~OnItsWay(c)' => known'[c] >= due'[c]
    <3>1. CASE c \in subs
      <4>1. OnItsWay(c) => OnItsWay(c)'
        BY <2>2, <3>1
      <4> QED BY <2>0, <4>1, WakeupKept
    <3>2. CASE c \notin subs
      BY <2>0, <3>2
    <3> QED BY <3>1, <3>2
  <2> QED BY <2>3 DEF NoWakeupIsLost
<1> QED BY <1>1, <1>2

(* A subscriber starts with nothing due; a delivery makes the client pull.    *)
LEMMA StreamKeepsWakeups ==
    ASSUME TypeOK, Dues, NoWakeupIsLost, NEW k \in Streams, StreamStep(k)
    PROVE  NoWakeupIsLost'
<1>0. /\ known \in [Streams -> 0..MaxCommits]
      /\ due \in [Streams -> 0..MaxCommits]
      /\ committed \in 0..MaxCommits
      /\ buf \in [Streams -> Seq(1..MaxCommits)]
      /\ MaxCommits \in Nat
  BY CapacityAssumption DEF TypeOK
<1>1. panics \subseteq panics' /\ handler' = handler /\ due' = due
  BY DEF StreamStep, Connect, Subscribe, Deliver, Leave, Unsubscribe, CloseChannels
<1>2. CASE Deliver(k)
  <2>1. /\ known' = [known EXCEPT ![k] = committed]
        /\ \A c \in Streams \ {k} : buf'[c] = buf[c]
        /\ subs' = subs
    BY <1>0, <1>2 DEF Deliver
  <2>2. ASSUME NEW c \in Streams, panics' = {}, c \in subs', ~OnItsWay(c)'
        PROVE  known'[c] >= due'[c]
    <3>1. CASE c = k
      BY <1>0, <1>1, <2>1, <3>1 DEF Dues
    <3>2. CASE c # k
      <4>1. ~OnItsWay(c) /\ panics = {} /\ c \in subs
        BY <1>1, <2>1, <2>2, <3>2 DEF OnItsWay
      <4>2. known'[c] = known[c]
        BY <1>0, <2>1, <3>2
      <4> QED BY <1>1, <4>1, <4>2 DEF NoWakeupIsLost
    <3> QED BY <3>1, <3>2
  <2> QED BY <2>2 DEF NoWakeupIsLost
<1>3. CASE ~Deliver(k)
  <2>1. UNCHANGED <<buf, known>>
    BY <1>3 DEF StreamStep, Connect, Subscribe, Leave, Unsubscribe
  <2>2. subs' \subseteq subs \/ (Subscribe(k) /\ subs' = subs \cup {k})
    BY <1>3 DEF StreamStep, Connect, Subscribe, Leave, Unsubscribe
  <2>3. ASSUME NEW c \in Streams
        PROVE  panics' = {} /\ c \in subs' /\ ~OnItsWay(c)' => known'[c] >= due'[c]
    <3>1. CASE c \in subs' => c \in subs
      <4>1. OnItsWay(c) => OnItsWay(c)'
        BY <1>1, <2>1 DEF OnItsWay
      <4> QED BY <1>1, <2>1, <3>1, <4>1, WakeupKept
    <3>2. CASE ~(c \in subs' => c \in subs)
      <4>1. c = k /\ Subscribe(k)
        BY <2>2, <3>2
      <4>2. due[c] = 0
        BY <4>1 DEF Subscribe, Dues
      <4> QED BY <1>0, <1>1, <2>1, <4>2
    <3> QED BY <3>1, <3>2
  <2> QED BY <2>3 DEF NoWakeupIsLost
<1> QED BY <1>2, <1>3

(* The dues.                                                                  *)
LEMMA DuesKept ==
    ASSUME TypeOK, MapHoldsOpenChannels, Dues, Next
    PROVE  Dues'
<1>0. /\ due \in [Streams -> 0..MaxCommits]
      /\ committed \in 0..MaxCommits
      /\ stream \in [Streams -> {"none", "connected", "streaming", "leaving", "gone"}]
      /\ MaxCommits \in Nat
  BY CapacityAssumption DEF TypeOK
<1>1. ASSUME NEW h \in Handlers, CommitTx(h) PROVE Dues'
  <2>1. /\ committed' = committed + 1
        /\ due' = [c \in Streams |-> IF c \in subs THEN committed + 1 ELSE due[c]]
        /\ stream' = stream
    BY <1>1 DEF CommitTx
  <2>2. \A c \in subs : stream[c] \in {"streaming", "leaving"}
    BY DEF MapHoldsOpenChannels
  <2> QED BY <1>0, <2>1, <2>2 DEF Dues
<1>2. ASSUME NEW h \in Handlers, HandlerStep(h), ~CommitTx(h) PROVE Dues'
  BY <1>2 DEF HandlerStep, Accept, Snapshot, Respond, Dues
<1>3. ASSUME NEW h \in Handlers, NEW c \in Streams, Send(h, c) PROVE Dues'
  BY <1>3 DEF Send, Dues
<1>4. ASSUME NEW k \in Streams, StreamStep(k) PROVE Dues'
  <2>1. UNCHANGED <<committed, due>>
    BY <1>4 DEF StreamStep, Connect, Subscribe, Deliver, Leave, Unsubscribe
  <2>2. \A c \in Streams : stream'[c] \in {"none", "connected"} =>
                             stream[c] \in {"none", "connected"}
    BY <1>0, <1>4 DEF StreamStep, Connect, Subscribe, Deliver, Leave, Unsubscribe
  <2> QED BY <2>1, <2>2 DEF Dues
<1>5. CASE Signal \/ CloseHub
  BY <1>5 DEF Signal, CloseHub, Dues
<1> QED BY <1>1, <1>2, <1>3, <1>4, <1>5, Steps

(* No wake-up is lost, for any number of streams and handlers and any         *)
(* capacity of at least one: a full channel holds an event that will make the *)
(* client pull everything, the dropped one included.                          *)
THEOREM WakeupsReachTheirClient == Spec => []NoWakeupIsLost
<1>1. Init => HubInv
  <2> SUFFICES ASSUME Init PROVE MapHoldsOpenChannels /\ Dues /\ NoWakeupIsLost
    BY HubInit DEF HubInv
  <2> QED BY DEF Init, MapHoldsOpenChannels, Dues, NoWakeupIsLost
<1>2. HubInv /\ [Next]_vars => HubInv'
  <2> SUFFICES ASSUME HubInv, [Next]_vars PROVE HubInv'
    OBVIOUS
  <2>0. TypeOK /\ Announced /\ MapHoldsOpenChannels /\ Dues /\ NoWakeupIsLost
    BY DEF HubInv
  <2>1. TypeOK' /\ Announced'
    BY <2>0, HubStep
  <2>2. MapHoldsOpenChannels'
    BY <2>0, MapStep
  <2>3. CASE UNCHANGED vars
    <3>1. Dues' /\ NoWakeupIsLost'
      BY <2>0, <2>3 DEF vars, Dues, NoWakeupIsLost, OnItsWay
    <3> QED BY <2>1, <2>2, <3>1 DEF HubInv
  <2>4. CASE Next
    <3>1. Dues'
      BY <2>0, <2>4, DuesKept
    <3>2. CASE Signal
      <4>1. UNCHANGED <<handler, buf, subs, known, due, panics>>
        BY <3>2 DEF Signal
      <4> QED BY <2>0, <2>1, <2>2, <3>1, <4>1 DEF HubInv, NoWakeupIsLost, OnItsWay
    <3>3. CASE CloseHub
      <4>1. subs' = {}
        BY <3>3 DEF CloseHub
      <4> QED BY <2>1, <2>2, <3>1, <4>1 DEF HubInv, NoWakeupIsLost
    <3>4. CASE ~Signal /\ ~CloseHub
      <4>1. NoWakeupIsLost'
        BY <2>0, <2>4, <3>4, Steps, SendKeepsWakeups, HandlerKeepsWakeups, StreamKeepsWakeups
      <4> QED BY <2>1, <2>2, <3>1, <4>1 DEF HubInv
    <3> QED BY <3>2, <3>3, <3>4
  <2> QED BY <2>3, <2>4
<1>3. HubInv => NoWakeupIsLost
  BY DEF HubInv
<1> QED BY <1>1, <1>2, <1>3, PTL DEF Spec

===============================================================================
