------------------------------- MODULE EventHub -------------------------------
(***************************************************************************)
(* InMemoryHub (internal/pubsub/memory.go) between the handlers that       *)
(* broadcast a sequence number after their commit and the SSE streams of   *)
(* one user (internal/handler/sse.go), up to the shutdown of the server    *)
(* (app/server.go Run).                                                    *)
(*                                                                         *)
(* Subscribe, Unsubscribe and Close hold the mutex from start to end and   *)
(* are atomic.  Broadcast holds it only while it copies the channels: each *)
(* send is a step of its own.  A send on a closed channel, or closing one  *)
(* twice, panics.                                                          *)
(*                                                                         *)
(* The client is external: it pulls when it receives an event, and then    *)
(* knows all that was committed.                                           *)
(***************************************************************************)
EXTENDS Naturals, Sequences

CONSTANTS Streams,     \* the requests to /sync/stream, one connID each
          Handlers,    \* the handler goroutines that commit and broadcast
          Capacity,    \* of a subscriber's channel
          MaxCommits   \* bound: commits of the user

ASSUME CapacityAssumption == Capacity \in Nat \ {0} /\ MaxCommits \in Nat

VARIABLES server,     \* "running", "draining" (httpSrv.Shutdown) or "closed"
          committed,  \* the user's sequence counter
          handler,    \* each handler: where it is, the seq it broadcasts, its snapshot
          stream,     \* each stream: where it is
          open, buf,  \* each stream's channel: not closed yet, and what it holds
          subs,       \* h.subs[userID]
          known,      \* each client: the seq its last pull on an event returned
          due,        \* history: the last commit since the stream subscribed
          panics      \* the panics so far

vars == <<server, committed, handler, stream, open, buf, subs, known, due, panics>>

Idle == [at |-> "idle", seq |-> 0, snapshot |-> {}]

Init ==
    /\ server = "running"
    /\ committed = 0
    /\ handler = [h \in Handlers |-> Idle]
    /\ stream = [c \in Streams |-> "none"]
    /\ open = [c \in Streams |-> FALSE]
    /\ buf = [c \in Streams |-> <<>>]
    /\ subs = {}
    /\ known = [c \in Streams |-> 0]
    /\ due = [c \in Streams |-> 0]
    /\ panics = {}

-------------------------------------------------------------------------------
(* A handler.                                                                 *)

(* A request is accepted; it may then run past the signal and past Close.     *)
Accept(h) ==
    /\ server = "running"
    /\ handler[h] = Idle
    /\ committed < MaxCommits
    /\ handler' = [handler EXCEPT ![h].at = "accepted"]
    /\ UNCHANGED <<server, committed, stream, open, buf, subs, known, due, panics>>

(* Mutant of CommitTx: the handler broadcasts the number after its own.       *)
CommitTxAnnouncingNext(h) ==
    /\ handler[h].at = "accepted"
    /\ committed < MaxCommits
    /\ committed' = committed + 1
    /\ handler' = [handler EXCEPT ![h] = [at |-> "committed", seq |-> committed + 2,
                                          snapshot |-> {}]]
    /\ due' = [c \in Streams |-> IF c \in subs THEN committed + 1 ELSE due[c]]
    /\ UNCHANGED <<server, stream, open, buf, subs, known, panics>>

(* The request commits a transaction of the user.                             *)
CommitTx(h) ==
    /\ handler[h].at = "accepted"
    /\ committed < MaxCommits
    /\ committed' = committed + 1
    /\ handler' = [handler EXCEPT ![h] = [at |-> "committed", seq |-> committed + 1,
                                          snapshot |-> {}]]
    /\ due' = [c \in Streams |-> IF c \in subs THEN committed + 1 ELSE due[c]]
    /\ UNCHANGED <<server, stream, open, buf, subs, known, panics>>

(* Broadcast, under the read lock.                                            *)
Snapshot(h) ==
    /\ handler[h].at = "committed"
    /\ handler' = [handler EXCEPT ![h].at = "sending", ![h].snapshot = subs]
    /\ UNCHANGED <<server, committed, stream, open, buf, subs, known, due, panics>>

(* Mutant of Send: the channel has no buffer, and a stream is never waiting   *)
(* in its receive at the very moment of the send.                             *)
SendUnbuffered(h, c) ==
    /\ handler[h].at = "sending"
    /\ c \in handler[h].snapshot
    /\ handler' = [handler EXCEPT ![h].snapshot = @ \ {c}]
    /\ UNCHANGED <<server, committed, stream, open, buf, subs, known, due, panics>>

(* Broadcast, one iteration of the loop after the unlock: select with a       *)
(* default.  gin's Recovery ends the handler that panics.                     *)
Send(h, c) ==
    /\ handler[h].at = "sending"
    /\ c \in handler[h].snapshot
    /\ IF open[c]
       THEN /\ buf' = IF Len(buf[c]) < Capacity
                      THEN [buf EXCEPT ![c] = Append(@, handler[h].seq)]
                      ELSE buf
            /\ handler' = [handler EXCEPT ![h].snapshot = @ \ {c}]
            /\ UNCHANGED panics
       ELSE /\ panics' = panics \cup {"send on closed channel"}
            /\ handler' = [handler EXCEPT ![h] = Idle]
            /\ UNCHANGED buf
    /\ UNCHANGED <<server, committed, stream, open, subs, known, due>>

Respond(h) ==
    /\ handler[h].at = "sending"
    /\ handler[h].snapshot = {}
    /\ handler' = [handler EXCEPT ![h] = Idle]
    /\ UNCHANGED <<server, committed, stream, open, buf, subs, known, due, panics>>

-------------------------------------------------------------------------------
(* A stream.                                                                  *)

(* The token is consumed and the response headers are flushed.                *)
Connect(c) ==
    /\ server = "running"
    /\ stream[c] = "none"
    /\ stream' = [stream EXCEPT ![c] = "connected"]
    /\ UNCHANGED <<server, committed, handler, open, buf, subs, known, due, panics>>

(* hub.Subscribe                                                              *)
Subscribe(c) ==
    /\ stream[c] = "connected"
    /\ stream' = [stream EXCEPT ![c] = "streaming"]
    /\ open' = [open EXCEPT ![c] = TRUE]
    /\ subs' = subs \cup {c}
    /\ UNCHANGED <<server, committed, handler, buf, known, due, panics>>

(* The loop writes one event; the client pulls.                               *)
Deliver(c) ==
    /\ stream[c] = "streaming"
    /\ buf[c] # <<>>
    /\ buf' = [buf EXCEPT ![c] = Tail(@)]
    /\ known' = [known EXCEPT ![c] = committed]
    /\ UNCHANGED <<server, committed, handler, stream, open, subs, due, panics>>

(* The loop returns: the channel is closed and drained, the client went away  *)
(* or a write failed.                                                         *)
Leave(c) ==
    /\ stream[c] = "streaming"
    /\ stream' = [stream EXCEPT ![c] = "leaving"]
    /\ UNCHANGED <<server, committed, handler, open, buf, subs, known, due, panics>>

EndOfChannel(c) == ~open[c] /\ buf[c] = <<>> /\ Leave(c)
Disconnect(c)   == Leave(c)

(* Closing the channels of a set of streams.                                  *)
CloseChannels(C) ==
    /\ open' = [c \in Streams |-> open[c] /\ c \notin C]
    /\ panics' = IF \E c \in C : ~open[c]
                 THEN panics \cup {"close of closed channel"} ELSE panics

(* The deferred hub.Unsubscribe.                                              *)
Unsubscribe(c) ==
    /\ stream[c] = "leaving"
    /\ stream' = [stream EXCEPT ![c] = "gone"]
    /\ CloseChannels(subs \cap {c})
    /\ subs' = subs \ {c}
    /\ UNCHANGED <<server, committed, handler, buf, known, due>>

-------------------------------------------------------------------------------
(* Shutdown.                                                                  *)

Signal ==
    /\ server = "running"
    /\ server' = "draining"
    /\ UNCHANGED <<committed, handler, stream, open, buf, subs, known, due, panics>>

(* Mutant of CloseHub: the map is not replaced.                               *)
CloseHubKeepingMap ==
    /\ server = "draining"
    /\ server' = "closed"
    /\ CloseChannels(subs)
    /\ UNCHANGED <<committed, handler, stream, buf, subs, known, due>>

(* httpSrv.Shutdown returns, because every request is done or because its     *)
(* ten seconds are over, and infraCleanup closes the hub.                     *)
CloseHub ==
    /\ server = "draining"
    /\ server' = "closed"
    /\ CloseChannels(subs)
    /\ subs' = {}
    /\ UNCHANGED <<committed, handler, stream, buf, known, due>>

Broadcasting(h) == Snapshot(h) \/ Respond(h) \/ \E c \in Streams : Send(h, c)

Next ==
    \/ \E h \in Handlers : Accept(h) \/ CommitTx(h) \/ Broadcasting(h)
    \/ \E c \in Streams :
          \/ Connect(c)
          \/ Subscribe(c)
          \/ Deliver(c)
          \/ EndOfChannel(c)
          \/ Disconnect(c)
          \/ Unsubscribe(c)
    \/ Signal
    \/ CloseHub

Spec == Init /\ [][Next]_vars

(* Goroutines run as long as the process does: a broadcast goes on, and a     *)
(* stream's loop reads what is in its channel.  The process ends soon after   *)
(* CloseHub (main returns); no property asks for a step after that.           *)
Fairness ==
    /\ \A h \in Handlers : WF_vars(Broadcasting(h))
    /\ \A c \in Streams : WF_vars(Deliver(c))

LiveSpec == Spec /\ Fairness

-------------------------------------------------------------------------------
(* Properties.                                                                *)

(* Types; a channel never holds more than its capacity.                       *)
TypeOK ==
    /\ server \in {"running", "draining", "closed"}
    /\ committed \in 0..MaxCommits
    /\ handler \in [Handlers -> [at : {"idle", "accepted", "committed", "sending"},
                                 seq : 0..MaxCommits, snapshot : SUBSET Streams]]
    /\ stream \in [Streams -> {"none", "connected", "streaming", "leaving", "gone"}]
    /\ open \in [Streams -> BOOLEAN]
    /\ buf \in [Streams -> Seq(1..MaxCommits)]
    /\ \A c \in Streams : Len(buf[c]) <= Capacity
    /\ subs \subseteq Streams
    /\ known \in [Streams -> 0..MaxCommits]
    /\ due \in [Streams -> 0..MaxCommits]
    /\ panics \subseteq {"send on closed channel", "close of closed channel"}

(* The map holds the channels that are open, no more and no fewer: Close and  *)
(* the deferred Unsubscribe of a stream never close one twice, and a stream   *)
(* that is gone leaves no channel behind.                                     *)
MapHoldsOpenChannels ==
    /\ subs = {c \in Streams : open[c]}
    /\ "close of closed channel" \notin panics
    /\ \A c \in subs : stream[c] \in {"streaming", "leaving"}

(* No wake-up is lost, although a full channel drops events and broadcasts    *)
(* overtake each other: when nothing is on its way to a subscribed stream,    *)
(* its client has pulled every commit since it subscribed (as long as no      *)
(* broadcast has panicked).                                                   *)
OnItsWay(c) ==
    \/ buf[c] # <<>>
    \/ \E h \in Handlers : \/ handler[h].at = "committed"
                           \/ handler[h].at = "sending" /\ c \in handler[h].snapshot

NoWakeupIsLost ==
    \A c \in Streams :
        panics = {} /\ c \in subs /\ ~OnItsWay(c) => known[c] >= due[c]

(* A stream that stays subscribed brings its client up to date.               *)
StreamCatchesUp ==
    \A c \in Streams :
        (c \in subs /\ known[c] < due[c])
            ~> (c \notin subs \/ known[c] >= due[c] \/ stream[c] # "streaming" \/ panics # {})

(* hub.go: "Implementations must be safe for concurrent use."  No broadcast   *)
(* sends on a channel that Unsubscribe or Close closed meanwhile.             *)
BroadcastIsSafe == "send on closed channel" \notin panics
===============================================================================
