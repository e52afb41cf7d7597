---------------------------- MODULE EventStream ----------------------------
(***************************************************************************)
(* WebSocket notifications: the broadcast channel RpcEngine sends events   *)
(* to, and one stream_events task per client that passes them on           *)
(* (crates/raria-core/src/rpc.rs).  An event is identified with its number *)
(* in the order of sending.  The channel (tokio::sync::broadcast) keeps    *)
(* the last Capacity events for all receivers, and a receiver whose next   *)
(* event is no longer there is told that it lagged.                        *)
(***************************************************************************)
EXTENDS Naturals, Sequences

CONSTANTS
  Clients,  \* WebSocket clients
  Capacity, \* events the channel keeps, 256 in the code
  Unseen    \* of a client that has not seen its handshake answered

ASSUME CapacityAssumption == Capacity \in Nat \ {0}

ASSUME UnseenAssumption == Unseen \notin Nat

VARIABLES
  sent,    \* how many events were sent
  closed,  \* the engine, and with it the channel's sender, is gone
  stream,  \* where each client's task is
  next,    \* number of the event its receiver reads next
  first,   \* ... and of the one it was subscribed with
  hello,   \* how many events were sent when the client saw the 101, or Unseen
  taken,   \* the event being written to the client's socket, or 0
  got      \* what was written to the client's socket

channelVars == <<sent, closed>>
streamVars == <<stream, next, first, hello, taken, got>>
vars == <<channelVars, streamVars>>

\* "handshake": subscribed, the 101 not sent yet; "upgraded": it is sent, and
\* stream_events has not run yet; "waiting": in rx.recv(); "writing": in
\* socket.send().
StreamState == {"none", "handshake", "upgraded", "waiting", "writing", "ended"}

Open == {"upgraded", "waiting", "writing"}

-----------------------------------------------------------------------------
(* The channel *)

\* emit_event.
Publish ==
  /\ ~closed
  /\ sent' = sent + 1
  /\ UNCHANGED <<closed, streamVars>>

\* The last owner of the engine is gone.
DropEngine ==
  /\ ~closed
  /\ closed' = TRUE
  /\ UNCHANGED <<sent, streamVars>>

\* What recv() finds for a receiver at event n.
Empty(n) == n > sent
Lagged(n) == n + Capacity <= sent

-----------------------------------------------------------------------------
(* A client's task *)

\* Mutant: the receiver starts with the last event sent.
handle_websocket_early(c) ==
  /\ ~closed
  /\ stream[c] = "none"
  /\ stream' = [stream EXCEPT ![c] = "handshake"]
  /\ next' = [next EXCEPT ![c] = sent]
  /\ first' = [first EXCEPT ![c] = sent]
  /\ UNCHANGED <<channelVars, hello, taken, got>>

\* handle_websocket: the receiver is made under the engine's lock, before the
\* handshake is answered.
handle_websocket(c) ==
  /\ ~closed
  /\ stream[c] = "none"
  /\ stream' = [stream EXCEPT ![c] = "handshake"]
  /\ next' = [next EXCEPT ![c] = sent + 1]
  /\ first' = [first EXCEPT ![c] = sent + 1]
  /\ UNCHANGED <<channelVars, hello, taken, got>>

\* The 101 is sent.  The task of stream_events runs some time after.
on_upgrade(c) ==
  /\ stream[c] = "handshake"
  /\ stream' = [stream EXCEPT ![c] = "upgraded"]
  /\ UNCHANGED <<channelVars, next, first, hello, taken, got>>

\* The client sees the 101, before or after stream_events starts: hello records
\* when, and no step depends on it.
SeeHandshake(c) ==
  /\ stream[c] \in Open
  /\ hello[c] = Unseen
  /\ hello' = [hello EXCEPT ![c] = sent]
  /\ UNCHANGED <<channelVars, stream, next, first, taken, got>>

\* Mutant: the receiver is made by stream_events.
stream_events_subscribes(c) ==
  /\ stream[c] = "upgraded"
  /\ stream' = [stream EXCEPT ![c] = "waiting"]
  /\ next' = [next EXCEPT ![c] = sent + 1]
  /\ first' = [first EXCEPT ![c] = sent + 1]
  /\ UNCHANGED <<channelVars, hello, taken, got>>

\* stream_events starts, with the receiver handle_websocket made.
stream_events(c) ==
  /\ stream[c] = "upgraded"
  /\ stream' = [stream EXCEPT ![c] = "waiting"]
  /\ UNCHANGED <<channelVars, next, first, hello, taken, got>>

recv(c) ==
  /\ stream[c] = "waiting"
  /\ ~Empty(next[c])
  /\ ~Lagged(next[c])
  /\ stream' = [stream EXCEPT ![c] = "writing"]
  /\ taken' = [taken EXCEPT ![c] = next[c]]
  /\ next' = [next EXCEPT ![c] = @ + 1]
  /\ UNCHANGED <<channelVars, first, hello, got>>

\* Mutants: only Closed, or only Lagged, ends the loop; a receiver that lagged
\* goes on with the oldest event left.
recv_err_closed_only(c) ==
  /\ stream[c] = "waiting"
  /\ Empty(next[c]) /\ closed
  /\ stream' = [stream EXCEPT ![c] = "ended"]
  /\ UNCHANGED <<channelVars, next, first, hello, taken, got>>

recv_err_lagged_only(c) ==
  /\ stream[c] = "waiting"
  /\ Lagged(next[c])
  /\ stream' = [stream EXCEPT ![c] = "ended"]
  /\ UNCHANGED <<channelVars, next, first, hello, taken, got>>

recv_err_continues(c) ==
  /\ stream[c] = "waiting"
  /\ \/ /\ Lagged(next[c])
        /\ next' = [next EXCEPT ![c] = sent - Capacity + 1]
        /\ UNCHANGED stream
     \/ /\ Empty(next[c])
        /\ closed
        /\ stream' = [stream EXCEPT ![c] = "ended"]
        /\ UNCHANGED next
  /\ UNCHANGED <<channelVars, first, hello, taken, got>>

\* `while let Ok(event)`: RecvError::Lagged ends the loop as Closed does, and
\* the socket is dropped.
recv_err(c) ==
  /\ stream[c] = "waiting"
  /\ Lagged(next[c]) \/ (Empty(next[c]) /\ closed)
  /\ stream' = [stream EXCEPT ![c] = "ended"]
  /\ UNCHANGED <<channelVars, next, first, hello, taken, got>>

send(c) ==
  /\ stream[c] = "writing"
  /\ stream' = [stream EXCEPT ![c] = "waiting"]
  /\ got' = [got EXCEPT ![c] = Append(@, taken[c])]
  /\ taken' = [taken EXCEPT ![c] = 0]
  /\ UNCHANGED <<channelVars, next, first, hello>>

\* The client is gone.  It shows when an event is written, and not before: the
\* task never reads from the socket.
send_err(c) ==
  /\ stream[c] = "writing"
  /\ stream' = [stream EXCEPT ![c] = "ended"]
  /\ taken' = [taken EXCEPT ![c] = 0]
  /\ UNCHANGED <<channelVars, next, first, hello, got>>

\* The connection broke before the task had its socket; the receiver is dropped.
upgrade_err(c) ==
  /\ stream[c] \in {"handshake", "upgraded"}
  /\ stream' = [stream EXCEPT ![c] = "ended"]
  /\ UNCHANGED <<channelVars, next, first, hello, taken, got>>

-----------------------------------------------------------------------------

Init ==
  /\ sent = 0
  /\ closed = FALSE
  /\ stream = [c \in Clients |-> "none"]
  /\ next = [c \in Clients |-> 1]
  /\ first = [c \in Clients |-> 1]
  /\ hello = [c \in Clients |-> Unseen]
  /\ taken = [c \in Clients |-> 0]
  /\ got = [c \in Clients |-> <<>>]

StreamStep(c) ==
  \/ handle_websocket(c) \/ on_upgrade(c) \/ SeeHandshake(c)
  \/ stream_events(c) \/ upgrade_err(c)
  \/ recv(c) \/ recv_err(c) \/ send(c) \/ send_err(c)

Next == Publish \/ DropEngine \/ \E c \in Clients : StreamStep(c)

\* The runtime runs the tasks, and a client takes what is written to it or its
\* connection breaks.  Nobody has to connect, to look at the 101 or to send an
\* event.
Fairness ==
  \A c \in Clients :
    /\ WF_vars(on_upgrade(c) \/ stream_events(c) \/ upgrade_err(c))
    /\ WF_vars(recv(c) \/ recv_err(c))
    /\ WF_vars(send(c) \/ send_err(c))

Spec == Init /\ [][Next]_vars /\ Fairness

-----------------------------------------------------------------------------
(* Properties *)

TypeOK ==
  /\ sent \in Nat
  /\ closed \in BOOLEAN
  /\ stream \in [Clients -> StreamState]
  /\ next \in [Clients -> Nat \ {0}]
  /\ first \in [Clients -> Nat \ {0}]
  /\ hello \in [Clients -> Nat \cup {Unseen}]
  /\ taken \in [Clients -> Nat]
  /\ got \in [Clients -> Seq(Nat)]

\* A client misses nothing that was sent after it saw the 101, even before
\* stream_events has run: as long as its stream has not ended, each of these
\* events is still to be read, is being written or was written (handle_websocket
\* makes the receiver before it answers; stream_events).
NothingMissedAfterHandshake ==
  \A c \in Clients :
    hello[c] # Unseen /\ stream[c] # "ended" =>
      \A n \in (hello[c] + 1)..sent :
        \/ next[c] <= n
        \/ taken[c] = n
        \/ \E i \in DOMAIN got[c] : got[c][i] = n

\* The abstract feed of a client opens with its subscription; an event being
\* written is not delivered yet.
FeedState ==
  [c \in Clients |-> CASE stream[c] = "none" -> "none"
                       [] stream[c] = "ended" -> "ended"
                       [] OTHER -> "open"]

Since == [c \in Clients |-> first[c] - 1]

Feed == INSTANCE NotificationFeed WITH feed <- FeedState, since <- Since

\* A slow client's socket is closed rather than skipped ahead: the stream is an
\* unbroken run of the events sent (recv, stream_events).
FeedContract == Feed!FeedSpec

\* A stream that is open either hands every event on or ends: no event stays
\* with the server for ever.
Delivered(n) ==
  \A c \in Clients :
    stream[c] \notin {"none", "ended"} /\ first[c] <= n /\ n <= sent
      ~> stream[c] = "ended" \/ \E i \in DOMAIN got[c] : got[c][i] = n

\* Once the engine is gone every stream comes to its end.
StreamsEnd ==
  \A c \in Clients : closed /\ stream[c] # "none" ~> stream[c] = "ended"
=============================================================================
