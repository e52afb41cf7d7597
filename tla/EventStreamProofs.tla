------------------------- MODULE EventStreamProofs -------------------------
(***************************************************************************)
(* Proofs about EventStream: what a receiver reads next is one more than   *)
(* what its client was sent or is being sent, and so EventStream           *)
(* implements NotificationFeed, however many events the channel keeps.     *)
(***************************************************************************)
EXTENDS EventStream, SequenceTheorems, TLAPS

\* Where the receiver of an open stream stands, and what it has read.
Position(c) ==
  /\ stream[c] = "none" => got[c] = <<>>
  /\ stream[c] \in {"handshake", "upgraded"} => got[c] = <<>> /\ next[c] = first[c]
  /\ stream[c] = "waiting" => next[c] = first[c] + Len(got[c])
  /\ stream[c] = "writing" => /\ taken[c] = first[c] + Len(got[c])
                              /\ next[c] = taken[c] + 1
  /\ stream[c] # "none" => first[c] <= sent + 1 /\ next[c] <= sent + 1

\* What was written to the socket is the run that begins with the subscription.
Unbroken(c) == \A i \in 1..Len(got[c]) : got[c][i] = first[c] + i - 1

\* The client was subscribed before it saw the 101.
Subscribed(c) ==
  /\ stream[c] \in {"none", "handshake"} => hello[c] = Unseen
  /\ hello[c] # Unseen => first[c] <= hello[c] + 1

StreamInv == TypeOK /\ \A c \in Clients : Position(c) /\ Unbroken(c) /\ Subscribed(c)

-----------------------------------------------------------------------------
(* The invariant *)

LEMMA InitInv == Init => StreamInv
<1> SUFFICES ASSUME Init  PROVE StreamInv
  OBVIOUS
<1>1. TypeOK
  <2>1. <<>> \in Seq(Nat)
    OBVIOUS
  <2>2. got \in [Clients -> Seq(Nat)]
    BY <2>1 DEF Init
  <2>3. closed \in BOOLEAN
    BY DEF Init
  <2>4. sent \in Nat /\ stream \in [Clients -> StreamState]
    BY DEF Init, StreamState
  <2>5. /\ next \in [Clients -> Nat \ {0}] /\ first \in [Clients -> Nat \ {0}]
        /\ hello \in [Clients -> Nat \cup {Unseen}] /\ taken \in [Clients -> Nat]
    BY DEF Init
  <2>6. QED BY <2>2, <2>3, <2>4, <2>5 DEF TypeOK
<1>2. ASSUME NEW c \in Clients  PROVE Position(c) /\ Unbroken(c) /\ Subscribed(c)
  BY DEF Init, Position, Unbroken, Subscribed
<1>3. QED BY <1>1, <1>2 DEF StreamInv

\* The next event at the end of an unbroken run.
LEMMA OneMore ==
  ASSUME NEW q \in Seq(Nat), NEW f \in Nat, NEW x \in Nat, x = f + Len(q),
         \A i \in 1..Len(q) : q[i] = f + i - 1
  PROVE  /\ Len(Append(q, x)) = Len(q) + 1
         /\ \A i \in 1..Len(Append(q, x)) : Append(q, x)[i] = f + i - 1
<1> DEFINE r == Append(q, x)
<1>1. /\ Len(r) = Len(q) + 1 /\ r[Len(q) + 1] = x
      /\ \A i \in 1..Len(q) : r[i] = q[i]
  BY AppendProperties
<1>2. Len(q) \in Nat
  OBVIOUS
<1> HIDE DEF r
<1>3. ASSUME NEW i \in 1..Len(r)  PROVE r[i] = f + i - 1
  <2>1. CASE i \in 1..Len(q)
    BY <1>1, <2>1
  <2>2. CASE i = Len(q) + 1
    BY <1>1, <1>2, <2>2
  <2>3. QED BY <1>1, <1>2, <2>1, <2>2
<1>4. QED BY <1>1, <1>3 DEF r

LEMMA TypeStep == TypeOK /\ [Next]_vars => TypeOK'
<1> SUFFICES ASSUME TypeOK, [Next]_vars  PROVE TypeOK'
  OBVIOUS
<1> USE DEF TypeOK, StreamState, Open
<1>1. CASE Publish
  BY <1>1 DEF Publish, streamVars
<1>2. CASE DropEngine
  BY <1>2 DEF DropEngine, streamVars
<1>3. ASSUME NEW c \in Clients, StreamStep(c)  PROVE TypeOK'
  <2>1. CASE handle_websocket(c)
    BY <2>1 DEF handle_websocket, channelVars
  <2>2. CASE on_upgrade(c) \/ SeeHandshake(c) \/ stream_events(c) \/ upgrade_err(c)
    BY <2>2 DEF on_upgrade, SeeHandshake, stream_events, upgrade_err, channelVars
  <2>3. CASE recv(c)
    BY <2>3 DEF recv, channelVars
  <2>4. CASE recv_err(c)
    BY <2>4 DEF recv_err, channelVars
  <2>5. CASE send(c)
    <3>1. Append(got[c], taken[c]) \in Seq(Nat)
      BY AppendProperties
    <3>2. QED BY <2>5, <3>1 DEF send, channelVars
  <2>6. CASE send_err(c)
    <3>1. taken' \in [Clients -> Nat] /\ stream' \in [Clients -> StreamState]
      BY <2>6 DEF send_err
    <3>2. QED BY <2>6, <3>1 DEF send_err, channelVars
  <2>7. QED BY <1>3, <2>1, <2>2, <2>3, <2>4, <2>5, <2>6 DEF StreamStep
<1>4. CASE UNCHANGED vars
  BY <1>4 DEF vars, channelVars, streamVars
<1>5. QED BY <1>1, <1>2, <1>3, <1>4 DEF Next

\* A step of one client's task, whatever the others do.
LEMMA OwnStep ==
  ASSUME StreamInv, NEW c \in Clients, StreamStep(c)
  PROVE  Position(c)' /\ Unbroken(c)' /\ Subscribed(c)'
<1> USE DEF StreamInv, TypeOK, channelVars
<1>0. /\ got[c] \in Seq(Nat) /\ Len(got[c]) \in Nat /\ first[c] \in Nat /\ sent \in Nat
      /\ hello[c] \in Nat \cup {Unseen} /\ Unseen \notin Nat
  BY UnseenAssumption
<1>1. CASE handle_websocket(c)
  BY <1>0, <1>1 DEF handle_websocket, Position, Unbroken, Subscribed
<1>2. CASE on_upgrade(c) \/ stream_events(c)
  BY <1>0, <1>2 DEF on_upgrade, stream_events, Position, Unbroken, Subscribed
<1>3. CASE SeeHandshake(c)
  BY <1>0, <1>3 DEF SeeHandshake, Open, Position, Unbroken, Subscribed
<1>4. CASE recv(c)
  BY <1>0, <1>4 DEF recv, Empty, Position, Unbroken, Subscribed
<1>5. CASE recv_err(c) \/ send_err(c) \/ upgrade_err(c)
  BY <1>0, <1>5 DEF recv_err, send_err, upgrade_err, Position, Unbroken, Subscribed
<1>6. CASE send(c)
  <2>1. /\ got'[c] = Append(got[c], taken[c])
        /\ stream[c] = "writing" /\ stream'[c] = "waiting"
        /\ next' = next /\ first' = first /\ hello' = hello /\ sent' = sent
    BY <1>6 DEF send
  <2>2. /\ Len(got'[c]) = Len(got[c]) + 1
        /\ \A i \in 1..Len(got'[c]) : got'[c][i] = first[c] + i - 1
    <3>1. taken[c] \in Nat /\ taken[c] = first[c] + Len(got[c])
      BY <2>1 DEF Position
    <3>2. \A i \in 1..Len(got[c]) : got[c][i] = first[c] + i - 1
      BY DEF Unbroken
    <3> HIDE DEF StreamInv, TypeOK
    <3>3. QED BY <1>0, <2>1, <3>1, <3>2, OneMore
  <2>3. Position(c)'
    BY <1>0, <2>1, <2>2 DEF Position
  <2>4. Unbroken(c)' /\ Subscribed(c)'
    BY <2>1, <2>2 DEF Unbroken, Subscribed
  <2>5. QED BY <2>3, <2>4
<1>7. QED BY <1>1, <1>2, <1>3, <1>4, <1>5, <1>6 DEF StreamStep

\* The others' steps leave what concerns a client alone.
LEMMA OthersStep ==
  ASSUME NEW c \in Clients, NEW d \in Clients, d # c, TypeOK, StreamStep(d)
  PROVE  /\ sent' = sent /\ stream'[c] = stream[c] /\ next'[c] = next[c]
         /\ first'[c] = first[c] /\ hello'[c] = hello[c] /\ taken'[c] = taken[c]
         /\ got'[c] = got[c]
BY DEF TypeOK, StreamStep, handle_websocket, on_upgrade, SeeHandshake, stream_events,
       upgrade_err, recv, recv_err, send, send_err, channelVars

LEMMA StepInv == StreamInv /\ [Next]_vars => StreamInv'
<1> SUFFICES ASSUME StreamInv, [Next]_vars  PROVE StreamInv'
  OBVIOUS
<1>1. TypeOK'
  BY TypeStep DEF StreamInv
<1>2. ASSUME NEW c \in Clients  PROVE Position(c)' /\ Unbroken(c)' /\ Subscribed(c)'
  <2>0. Position(c) /\ Unbroken(c) /\ Subscribed(c) /\ TypeOK
    BY DEF StreamInv
  <2>1. CASE Publish
    BY <2>0, <2>1 DEF Publish, streamVars, Position, Unbroken, Subscribed, TypeOK
  <2>2. CASE DropEngine \/ UNCHANGED vars
    BY <2>0, <2>2 DEF DropEngine, vars, channelVars, streamVars, Position, Unbroken, Subscribed
  <2>3. ASSUME NEW d \in Clients, StreamStep(d)  PROVE Position(c)' /\ Unbroken(c)' /\ Subscribed(c)'
    <3>1. CASE d = c
      BY <2>3, <3>1, OwnStep
    <3>2. CASE d # c
      BY <2>0, <2>3, <3>2, OthersStep DEF Position, Unbroken, Subscribed
    <3>3. QED BY <3>1, <3>2
  <2>4. QED BY <2>1, <2>2, <2>3 DEF Next
<1>3. QED BY <1>1, <1>2 DEF StreamInv

THEOREM StreamInvariant == Spec => []StreamInv
BY InitInv, StepInv, PTL DEF Spec

-----------------------------------------------------------------------------
(* The theorems *)

\* Type correctness, for any number of clients and any capacity.
THEOREM TypeCorrect == Spec => []TypeOK
<1>1. StreamInv => TypeOK
  BY DEF StreamInv
<1>2. QED BY <1>1, StreamInvariant, PTL

\* Nothing sent after a client saw the 101 is lost while its stream is open,
\* for any number of clients and events and whenever stream_events gets to run.
THEOREM NothingEverMissed == Spec => []NothingMissedAfterHandshake
<1>1. StreamInv => NothingMissedAfterHandshake
  <2> SUFFICES ASSUME StreamInv, NEW c \in Clients, hello[c] # Unseen, stream[c] # "ended",
                      NEW n \in (hello[c] + 1)..sent
               PROVE  \/ next[c] <= n
                      \/ taken[c] = n
                      \/ \E i \in DOMAIN got[c] : got[c][i] = n
    BY DEF NothingMissedAfterHandshake
  <2>1. /\ hello[c] \in Nat /\ first[c] \in Nat /\ next[c] \in Nat /\ sent \in Nat
        /\ n \in Nat /\ hello[c] + 1 <= n /\ Len(got[c]) \in Nat
        /\ DOMAIN got[c] = 1..Len(got[c])
    BY DEF StreamInv, TypeOK
  <2>2. /\ stream[c] \in Open
        /\ first[c] <= n
        /\ \A i \in 1..Len(got[c]) : got[c][i] = first[c] + i - 1
    BY <2>1 DEF StreamInv, TypeOK, StreamState, Open, Subscribed, Unbroken
  <2>3. CASE stream[c] = "upgraded"
    <3>1. next[c] = first[c]
      BY <2>3 DEF StreamInv, Position
    <3>2. QED BY <2>2, <3>1
  <2>4. CASE n < first[c] + Len(got[c])
    <3>1. n - first[c] + 1 \in 1..Len(got[c])
      BY <2>1, <2>2, <2>4
    <3>2. got[c][n - first[c] + 1] = first[c] + (n - first[c] + 1) - 1
      BY <2>2, <3>1
    <3>3. first[c] + (n - first[c] + 1) - 1 = n
      BY <2>1
    <3>4. QED BY <2>1, <3>1, <3>2, <3>3
  <2>5. CASE ~(n < first[c] + Len(got[c])) /\ stream[c] \in {"waiting", "writing"}
    <3>1. Position(c)
      BY DEF StreamInv
    <3>2. next[c] = first[c] + Len(got[c]) \/ (taken[c] = first[c] + Len(got[c]) /\ next[c] = taken[c] + 1)
      BY <2>5, <3>1 DEF Position
    <3>3. CASE next[c] = first[c] + Len(got[c])
      BY <2>1, <2>2, <2>5, <3>3
    <3>4. CASE taken[c] = first[c] + Len(got[c]) /\ next[c] = taken[c] + 1
      <4>1. first[c] + Len(got[c]) = n \/ first[c] + Len(got[c]) + 1 <= n
        BY <2>1, <2>5
      <4>2. QED BY <3>4, <4>1
    <3>5. QED BY <3>2, <3>3, <3>4
  <2>6. QED BY <2>2, <2>3, <2>4, <2>5 DEF Open
<1>2. QED BY <1>1, StreamInvariant, PTL

LEMMA ImplementsFeedStep == StreamInv /\ [Next]_vars => [Feed!FeedNext]_(Feed!feedVars)
<1> SUFFICES ASSUME StreamInv, [Next]_vars  PROVE [Feed!FeedNext]_(Feed!feedVars)
  OBVIOUS
<1>0. TypeOK
  BY DEF StreamInv
<1>1. CASE Publish
  BY <1>1 DEF Publish, streamVars, FeedState, Since, Feed!FeedNext, Feed!Notify
<1>2. CASE DropEngine \/ UNCHANGED vars
  BY <1>2 DEF DropEngine, vars, channelVars, streamVars, FeedState, Since, Feed!feedVars
<1>3. ASSUME NEW c \in Clients, StreamStep(c)  PROVE [Feed!FeedNext]_(Feed!feedVars)
  <2> USE <1>0 DEF TypeOK, channelVars
  <2>1. CASE handle_websocket(c)
    <3>1. FeedState[c] = "none" /\ FeedState' = [FeedState EXCEPT ![c] = "open"]
      BY <2>1 DEF handle_websocket, FeedState
    <3>2. Since' = [Since EXCEPT ![c] = sent]
      <4>1. first' = [first EXCEPT ![c] = sent + 1] /\ sent + 1 - 1 = sent
        BY <2>1 DEF handle_websocket
      <4>2. \A d \in Clients : first'[d] - 1 = IF d = c THEN sent ELSE first[d] - 1
        BY <4>1
      <4>3. QED BY <4>2 DEF Since
    <3>3. UNCHANGED <<sent, got>>
      BY <2>1 DEF handle_websocket
    <3>4. QED BY <3>1, <3>2, <3>3 DEF Feed!FeedNext, Feed!Open
  <2>2. CASE on_upgrade(c) \/ SeeHandshake(c) \/ stream_events(c)
    BY <2>2 DEF on_upgrade, SeeHandshake, stream_events, FeedState, Since, Feed!feedVars
  <2>3. CASE recv(c)
    BY <2>3 DEF recv, FeedState, Since, Feed!feedVars
  <2>4. CASE recv_err(c) \/ send_err(c) \/ upgrade_err(c)
    <3>1. FeedState[c] = "open" /\ FeedState' = [FeedState EXCEPT ![c] = "ended"]
      BY <2>4 DEF recv_err, send_err, upgrade_err, FeedState
    <3>2. Since' = Since /\ UNCHANGED <<sent, got>>
      BY <2>4 DEF recv_err, send_err, upgrade_err, Since
    <3>3. QED BY <3>1, <3>2 DEF Feed!FeedNext, Feed!End
  <2>5. CASE send(c)
    <3>1. FeedState[c] = "open" /\ FeedState' = FeedState
      BY <2>5 DEF send, FeedState
    <3>2. Since' = Since /\ sent' = sent
      BY <2>5 DEF send, Since
    <3>3. /\ taken[c] = Since[c] + Len(got[c]) + 1
          /\ Since[c] + Len(got[c]) < sent
      <4>1. /\ stream[c] = "writing" /\ Position(c) /\ Since[c] = first[c] - 1
            /\ Len(got[c]) \in Nat /\ first[c] \in Nat /\ sent \in Nat /\ taken[c] \in Nat
        BY <2>5 DEF send, Since, StreamInv
      <4>2. QED BY <4>1 DEF Position
    <3>4. got' = [got EXCEPT ![c] = Append(@, Since[c] + Len(@) + 1)]
      BY <2>5, <3>3 DEF send
    <3>5. QED BY <3>1, <3>2, <3>3, <3>4 DEF Feed!FeedNext, Feed!Deliver
  <2>6. QED BY <1>3, <2>1, <2>2, <2>3, <2>4, <2>5 DEF StreamStep
<1>4. QED BY <1>1, <1>2, <1>3 DEF Next

\* Every client's stream is a feed of NotificationFeed: however slow clients are
\* and however little the channel keeps, nothing is skipped or repeated.
THEOREM StreamsAreFeeds == Spec => FeedContract
<1>1. Init => Feed!FeedInit
  BY DEF Init, FeedState, Since, Feed!FeedInit
<1>2. QED BY <1>1, StreamInvariant, ImplementsFeedStep, PTL DEF Spec, FeedContract, Feed!FeedSpec
=============================================================================
