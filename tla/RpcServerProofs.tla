-------------------------- MODULE RpcServerProofs --------------------------
(***************************************************************************)
(* Proofs about RpcServer: the queue of the Mutex is consistent with what  *)
(* everyone is doing, and so the server implements EngineSpec, in which    *)
(* nothing ever overlaps.                                                  *)
(***************************************************************************)
EXTENDS RpcServer, DownloadEngineProofs

Elems(q) == {q[i] : i \in DOMAIN q}
Distinct(q) == \A i, j \in DOMAIN q : q[i] = q[j] => i = j

Remove(q, k) == SubSeq(q, 1, k - 1) \o SubSeq(q, k + 1, Len(q))

ServerInv ==
  /\ link \in [Clients -> Link]
  /\ request \in [Clients -> Calls \cup {NoCall}]
  /\ queue \in Seq(Owners)
  /\ EngineHeldByOne

-----------------------------------------------------------------------------
(* Queues without repetitions *)

LEMMA AppendDistinct ==
  ASSUME NEW S, NEW q \in Seq(S), Distinct(q), NEW x \in S, x \notin Elems(q)
  PROVE  /\ Append(q, x) \in Seq(S)
         /\ Distinct(Append(q, x))
         /\ Elems(Append(q, x)) = Elems(q) \cup {x}
         /\ Append(q, x) # <<>>
         /\ q # <<>> => Head(Append(q, x)) = Head(q)
<1> DEFINE r == Append(q, x)
<1>1. /\ r \in Seq(S) /\ Len(r) = Len(q) + 1 /\ r[Len(q) + 1] = x
      /\ \A i \in 1..Len(q) : r[i] = q[i]
      /\ r # <<>> /\ Len(q) \in Nat
      /\ DOMAIN q = 1..Len(q) /\ DOMAIN r = 1..(Len(q) + 1)
  BY AppendProperties
<1> HIDE DEF r
<1>2. Distinct(r)
  <2> SUFFICES ASSUME NEW i \in DOMAIN r, NEW j \in DOMAIN r, r[i] = r[j]  PROVE i = j
    BY DEF Distinct
  <2>1. \A k \in DOMAIN r : k = Len(q) + 1 \/ (k \in DOMAIN q /\ r[k] # x)
    BY <1>1 DEF Elems
  <2>2. QED BY <1>1, <2>1 DEF Distinct
<1>3. Elems(r) = Elems(q) \cup {x}
  BY <1>1 DEF Elems
<1>4. q # <<>> => Head(r) = Head(q)
  <2>1. q # <<>> => 1 \in DOMAIN q
    BY <1>1
  <2>2. QED BY <1>1, <2>1
<1>5. QED BY <1>1, <1>2, <1>3, <1>4 DEF r

LEMMA TailDistinct ==
  ASSUME NEW S, NEW q \in Seq(S), Distinct(q), q # <<>>
  PROVE  /\ Tail(q) \in Seq(S)
         /\ Distinct(Tail(q))
         /\ Elems(Tail(q)) = Elems(q) \ {Head(q)}
<1> DEFINE r == Tail(q)
<1>1. /\ r \in Seq(S) /\ Len(r) = Len(q) - 1 /\ \A i \in 1..Len(r) : r[i] = q[i + 1]
      /\ Len(q) \in Nat /\ Len(q) >= 1
      /\ DOMAIN q = 1..Len(q) /\ DOMAIN r = 1..Len(r) /\ Head(q) = q[1]
  BY HeadTailProperties
<1> HIDE DEF r
<1>2. Distinct(r)
  <2> SUFFICES ASSUME NEW i \in DOMAIN r, NEW j \in DOMAIN r, r[i] = r[j]  PROVE i = j
    BY DEF Distinct
  <2>1. i + 1 \in DOMAIN q /\ j + 1 \in DOMAIN q /\ q[i + 1] = q[j + 1]
    BY <1>1
  <2>2. i + 1 = j + 1
    BY <2>1 DEF Distinct
  <2>3. QED BY <1>1, <2>2
<1>3. Elems(r) \subseteq Elems(q) \ {Head(q)}
  <2> SUFFICES ASSUME NEW i \in DOMAIN r  PROVE r[i] \in Elems(q) /\ r[i] # Head(q)
    BY DEF Elems
  <2>1. i + 1 \in DOMAIN q /\ r[i] = q[i + 1] /\ 1 \in DOMAIN q /\ i + 1 # 1
    BY <1>1
  <2>2. QED BY <1>1, <2>1 DEF Elems, Distinct
<1>4. Elems(q) \ {Head(q)} \subseteq Elems(r)
  <2> SUFFICES ASSUME NEW i \in DOMAIN q, q[i] # Head(q)  PROVE q[i] \in Elems(r)
    BY DEF Elems
  <2>1. i - 1 \in DOMAIN r /\ r[i - 1] = q[i]
    BY <1>1
  <2>2. QED BY <2>1 DEF Elems
<1>5. QED BY <1>1, <1>2, <1>3, <1>4 DEF r

LEMMA RemoveDistinct ==
  ASSUME NEW S, NEW q \in Seq(S), Distinct(q), NEW k \in DOMAIN q
  PROVE  /\ Remove(q, k) \in Seq(S)
         /\ Distinct(Remove(q, k))
         /\ Elems(Remove(q, k)) = Elems(q) \ {q[k]}
         /\ Head(q) # q[k] => Remove(q, k) # <<>> /\ Head(Remove(q, k)) = Head(q)
<1>1. /\ Len(q) \in Nat /\ DOMAIN q = 1..Len(q) /\ k \in 1..Len(q)
      /\ \A i \in 1..Len(q) : q[i] \in S
  OBVIOUS
<1> DEFINE a == SubSeq(q, 1, k - 1)
           b == SubSeq(q, k + 1, Len(q))
           r == Remove(q, k)
<1>2. a \in Seq(S) /\ Len(a) = k - 1 /\ \A i \in 1..(k - 1) : a[i] = q[i]
  BY <1>1, SubSeqProperties
<1>3. /\ b \in Seq(S) /\ Len(b) = Len(q) - k
      /\ \A i \in 1..(Len(q) - k) : b[i] = q[k + i]
  <2>1. b \in Seq(S) /\ Len(b) = Len(q) - k
    BY <1>1, SubSeqProperties
  <2>2. ASSUME NEW i \in 1..(Len(q) - k)  PROVE b[i] = q[k + i]
    <3>1. b[i] = q[(k + 1) + i - 1]
      BY <1>1, SubSeqProperties
    <3>2. QED BY <1>1, <3>1
  <2>3. QED BY <2>1, <2>2
<1> HIDE DEF a, b, r
<1>4. /\ r \in Seq(S) /\ Len(r) = Len(q) - 1 /\ DOMAIN r = 1..(Len(q) - 1)
      /\ \A i \in 1..(Len(q) - 1) : r[i] = IF i < k THEN q[i] ELSE q[i + 1]
  <2>1. r = a \o b
    BY DEF a, b, r, Remove
  <2>2. /\ r \in Seq(S) /\ Len(r) = Len(a) + Len(b)
        /\ \A i \in 1..(Len(a) + Len(b)) :
             r[i] = IF i <= Len(a) THEN a[i] ELSE b[i - Len(a)]
    BY <1>2, <1>3, <2>1, ConcatProperties
  <2>3. Len(a) + Len(b) = Len(q) - 1
    BY <1>1, <1>2, <1>3
  <2>4. ASSUME NEW i \in 1..(Len(q) - 1)
        PROVE  r[i] = IF i < k THEN q[i] ELSE q[i + 1]
    <3>1. CASE i < k
      BY <1>1, <1>2, <2>2, <2>3, <3>1
    <3>2. CASE ~ (i < k)
      <4>1. r[i] = b[i - (k - 1)] /\ i - (k - 1) \in 1..(Len(q) - k)
        BY <1>1, <1>2, <2>2, <2>3, <3>2
      <4>2. b[i - (k - 1)] = q[k + (i - (k - 1))] /\ k + (i - (k - 1)) = i + 1
        BY <1>1, <1>3, <4>1
      <4>3. QED BY <3>2, <4>1, <4>2
    <3>3. QED BY <3>1, <3>2
  <2>5. QED BY <2>2, <2>3, <2>4
<1>5. Distinct(r)
  <2> SUFFICES ASSUME NEW i \in DOMAIN r, NEW j \in DOMAIN r, r[i] = r[j]  PROVE i = j
    BY DEF Distinct
  <2>1. \A m \in DOMAIN r : (IF m < k THEN m ELSE m + 1) \in DOMAIN q
    BY <1>1, <1>4
  <2>2. (IF i < k THEN i ELSE i + 1) = (IF j < k THEN j ELSE j + 1)
    BY <1>1, <1>4, <2>1 DEF Distinct
  <2>3. QED BY <1>1, <1>4, <2>2
<1>6. Elems(r) \subseteq Elems(q) \ {q[k]}
  <2> SUFFICES ASSUME NEW i \in DOMAIN r  PROVE r[i] \in Elems(q) /\ r[i] # q[k]
    BY DEF Elems
  <2>1. \E m \in DOMAIN q : m # k /\ r[i] = q[m]
    <3>1. CASE i < k
      BY <1>1, <1>4, <3>1
    <3>2. CASE ~ (i < k)
      <4>1. i + 1 \in DOMAIN q /\ i + 1 # k /\ r[i] = q[i + 1]
        BY <1>1, <1>4, <3>2
      <4>2. QED BY <4>1
    <3>3. QED BY <3>1, <3>2
  <2>2. QED BY <1>1, <2>1 DEF Elems, Distinct
<1>7. Elems(q) \ {q[k]} \subseteq Elems(r)
  <2> SUFFICES ASSUME NEW m \in DOMAIN q, m # k  PROVE q[m] \in Elems(r)
    BY DEF Elems
  <2>1. \E i \in DOMAIN r : r[i] = q[m]
    <3>1. CASE m < k
      BY <1>1, <1>4, <3>1
    <3>2. CASE m > k
      <4>1. m - 1 \in DOMAIN r /\ r[m - 1] = q[m]
        BY <1>1, <1>4, <3>2
      <4>2. QED BY <4>1
    <3>3. QED BY <1>1, <3>1, <3>2
  <2>2. QED BY <2>1 DEF Elems
<1>8. ASSUME Head(q) # q[k]  PROVE r # <<>> /\ Head(r) = Head(q)
  <2>1. Head(q) = q[1] /\ k > 1
    BY <1>1, <1>8
  <2>2. 1 \in DOMAIN r /\ r[1] = q[1]
    BY <1>1, <1>4, <2>1
  <2>3. QED BY <1>4, <2>1, <2>2
<1>9. QED BY <1>4, <1>5, <1>6, <1>7, <1>8 DEF r

-----------------------------------------------------------------------------
(* Steps of the queue *)

LEMMA QueueFacts ==
  ServerInv => /\ queue \in Seq(Owners) /\ Distinct(queue) /\ Queued = Elems(queue)
               /\ \A x : Holds(x) => x \in Queued
<1> SUFFICES ASSUME ServerInv
             PROVE  /\ queue \in Seq(Owners) /\ Distinct(queue) /\ Queued = Elems(queue)
                    /\ \A x : Holds(x) => x \in Queued
  OBVIOUS
<1>1. queue \in Seq(Owners)
  BY DEF ServerInv
<1>2. queue # <<>> => 1 \in DOMAIN queue /\ Head(queue) = queue[1]
  BY <1>1
<1>3. QED BY <1>1, <1>2 DEF ServerInv, EngineHeldByOne, Distinct, Queued, Elems, Holds

LEMMA LockStep ==
  ASSUME ServerInv, NEW x \in Owners, x \notin Queued, lock(x)
  PROVE  /\ queue' \in Seq(Owners) /\ Distinct(queue')
         /\ Queued' = Queued \cup {x}
         /\ \A y : Holds(y) => Holds(y)'
<1>1. /\ queue' \in Seq(Owners) /\ Distinct(queue')
      /\ Elems(queue') = Elems(queue) \cup {x}
      /\ queue' # <<>> /\ (queue # <<>> => Head(queue') = Head(queue))
  BY QueueFacts, AppendDistinct DEF lock
<1>2. QED BY <1>1, QueueFacts DEF Holds, Queued, Elems

LEMMA UnlockStep ==
  ASSUME ServerInv, NEW x, Holds(x), unlock
  PROVE  /\ queue' \in Seq(Owners) /\ Distinct(queue')
         /\ Queued' = Queued \ {x}
<1>1. /\ queue' \in Seq(Owners) /\ Distinct(queue')
      /\ Elems(queue') = Elems(queue) \ {Head(queue)}
  BY QueueFacts, TailDistinct DEF unlock, Holds
<1>2. QED BY <1>1, QueueFacts DEF Holds, Queued, Elems

LEMMA CancelStep ==
  ASSUME ServerInv, NEW x, cancel_lock(x)
  PROVE  /\ queue' \in Seq(Owners) /\ Distinct(queue')
         /\ Queued' = Queued \ {x}
         /\ \A y : y # x /\ Holds(y) => Holds(y)'
<1>1. CASE x \in Queued
  <2>1. PICK k \in DOMAIN queue : queue[k] = x /\ queue' = Remove(queue, k)
    BY <1>1 DEF cancel_lock, Without, Remove
  <2>2. /\ queue' \in Seq(Owners) /\ Distinct(queue')
        /\ Elems(queue') = Elems(queue) \ {x}
        /\ Head(queue) # x => queue' # <<>> /\ Head(queue') = Head(queue)
    BY <2>1, QueueFacts, RemoveDistinct
  <2>3. QED BY <2>2, QueueFacts DEF Holds, Queued, Elems
<1>2. CASE x \notin Queued
  BY <1>2, QueueFacts DEF cancel_lock, Holds, Queued
<1>3. QED BY <1>1, <1>2

\* What is left to show when only the queue and who waits have changed.
LEMMA HeldByOneFromQueue ==
  ASSUME queue' \in Seq(Owners), Distinct(queue'),
         link' \in [Clients -> Link], request' \in [Clients -> Calls \cup {NoCall}],
         (stage # 0 <=> worker = "running")',
         (stage # 0 => Holds(Worker))',
         (batch # <<>> => \E c \in Clients : Holds(c) /\ request[c].method = "multicall")',
         \A c \in Clients : request'[c] # NoCall <=> c \in Queued',
         \A c \in Clients : link'[c] = "handling" <=> c \in Queued',
         (worker \in {"locking", "running"} <=> Worker \in Queued)'
  PROVE  ServerInv'
BY DEF ServerInv, EngineHeldByOne, Distinct

-----------------------------------------------------------------------------
(* The invariant *)

LEMMA ServerInitInv == ServerInit => ServerInv
<1> SUFFICES ASSUME ServerInit  PROVE ServerInv
  OBVIOUS
<1>1. queue = <<>> /\ Queued = {} /\ queue \in Seq(Owners)
  BY DEF ServerInit, Queued
<1>2. QED BY <1>1 DEF ServerInit, EngineInit, RpcInit, ServerInv, EngineHeldByOne, Queued,
                       Link

\* A holder is the only one, and nothing is under way that is not its own.
LEMMA HolderAlone ==
  ASSUME ServerInv
  PROVE  /\ \A c \in Clients : Holds(c) => stage = 0 /\ worker # "running" /\ ~Holds(Worker)
         /\ Holds(Worker) => batch = <<>>
         /\ \A c \in Clients : c # Worker
         /\ \A c \in Clients : request[c] # NoCall => request[c] \in Calls
BY ServerAssumption DEF ServerInv, EngineHeldByOne, Holds

\* A handler's step: the client keeps the engine, or is answered and lets go.
LEMMA AnswerStep ==
  ASSUME ServerInv, NEW c \in Clients, Holds(c), Answer(c), UNCHANGED <<passVars, worker>>,
         batch' # <<>> => request[c].method = "multicall"
  PROVE  ServerInv'
<1>1. /\ stage' = 0 /\ worker' # "running" /\ c # Worker
      /\ worker' = worker /\ stage = 0
  BY HolderAlone DEF passVars
<1>2. CASE batch' = <<>>
  <2>1. /\ queue' \in Seq(Owners) /\ Distinct(queue') /\ Queued' = Queued \ {c}
        /\ request' = [request EXCEPT ![c] = NoCall]
        /\ link' = [link EXCEPT ![c] = "reading"]
    BY <1>2, UnlockStep DEF Answer, Answered
  <2>2. QED BY <1>1, <1>2, <2>1, HeldByOneFromQueue DEF ServerInv, EngineHeldByOne, Link
<1>3. CASE batch' # <<>>
  <2>1. UNCHANGED <<queue, link, request>> /\ Queued' = Queued /\ Holds(c)'
    BY <1>3 DEF Answer, clientVars, Queued, Holds
  <2>2. QED BY <1>1, <1>3, <2>1, QueueFacts, HeldByOneFromQueue DEF ServerInv, EngineHeldByOne
<1>4. QED BY <1>2, <1>3

LEMMA HandlerSteps ==
  ASSUME ServerInv, NEW c \in Clients, Handle(c) \/ HandleBatch(c)
  PROVE  ServerInv'
<1>1. CASE Handle(c)
  <2>1. batch' # <<>> => request[c].method = "multicall"
    BY <1>1 DEF Handle, call, rpcVars
  <2>2. QED BY <1>1, <2>1, AnswerStep DEF Handle
<1>2. CASE HandleBatch(c)
  <2>1. batch # <<>>
    BY <1>2 DEF HandleBatch, multicall
  <2>2. request[c].method = "multicall"
    BY <1>2, <2>1 DEF HandleBatch, ServerInv, EngineHeldByOne, Holds
  <2>3. QED BY <1>2, <2>2, AnswerStep DEF HandleBatch
<1>3. QED BY <1>1, <1>2

LEMMA ClientSteps ==
  ASSUME ServerInv, NEW c \in Clients,
         (\E m \in Calls : Request(c, m)) \/ Disconnect(c)
  PROVE  ServerInv'
<1>0. c # Worker
  BY HolderAlone
<1>1. ASSUME NEW m \in Calls, Request(c, m)  PROVE ServerInv'
  <2>1. c \in Owners /\ c \notin Queued /\ m # NoCall
    BY <1>1, ServerAssumption DEF Request, ServerInv, EngineHeldByOne, Owners
  <2>2. /\ queue' \in Seq(Owners) /\ Distinct(queue') /\ Queued' = Queued \cup {c}
        /\ \A y : Holds(y) => Holds(y)'
    BY <1>1, <2>1, LockStep DEF Request
  <2>3. /\ UNCHANGED <<stage, batch, worker>> /\ request' = [request EXCEPT ![c] = m]
        /\ link' = [link EXCEPT ![c] = "handling"]
    BY <1>1 DEF Request, engineVars, passVars, rpcVars
  <2>4. link' \in [Clients -> Link] /\ request' \in [Clients -> Calls \cup {NoCall}]
    BY <2>3 DEF ServerInv, Link
  <2>5. (batch # <<>> => \E d \in Clients : Holds(d) /\ request[d].method = "multicall")'
    <3> SUFFICES ASSUME batch # <<>>
                 PROVE  (\E d \in Clients : Holds(d) /\ request[d].method = "multicall")'
      BY <2>3
    <3>1. PICK d \in Clients : Holds(d) /\ request[d].method = "multicall"
      BY DEF ServerInv, EngineHeldByOne
    <3>2. d # c
      BY <2>1, <3>1, QueueFacts
    <3>3. request'[d] = request[d] /\ Holds(d)'
      BY <2>2, <2>3, <3>1, <3>2 DEF ServerInv
    <3>4. QED BY <3>1, <3>3
  <2>6. \A d \in Clients : /\ request'[d] # NoCall <=> d \in Queued'
                           /\ (link'[d] = "handling") <=> d \in Queued'
    BY <2>1, <2>2, <2>3 DEF ServerInv, EngineHeldByOne
  <2>7. (stage # 0 <=> worker = "running")' /\ (stage # 0 => Holds(Worker))'
        /\ (worker \in {"locking", "running"} <=> Worker \in Queued)'
    BY <1>0, <2>2, <2>3 DEF ServerInv, EngineHeldByOne
  <2>8. QED BY <2>2, <2>4, <2>5, <2>6, <2>7, HeldByOneFromQueue
<1>2. CASE Disconnect(c)
  <2>1. /\ queue' \in Seq(Owners) /\ Distinct(queue') /\ Queued' = Queued \ {c}
        /\ \A y : y # c /\ Holds(y) => Holds(y)'
    BY <1>2, CancelStep DEF Disconnect
  <2>2. /\ UNCHANGED <<stage, batch, worker>> /\ request' = [request EXCEPT ![c] = NoCall]
        /\ link' = [link EXCEPT ![c] = "idle"]
    BY <1>2 DEF Disconnect, engineVars, passVars, rpcVars
  <2>3. link' \in [Clients -> Link] /\ request' \in [Clients -> Calls \cup {NoCall}]
    BY <2>2 DEF ServerInv, Link
  <2>4. (batch # <<>> => \E d \in Clients : Holds(d) /\ request[d].method = "multicall")'
    <3> SUFFICES ASSUME batch # <<>>
                 PROVE  (\E d \in Clients : Holds(d) /\ request[d].method = "multicall")'
      BY <2>2
    <3>1. PICK d \in Clients : Holds(d) /\ request[d].method = "multicall"
      BY DEF ServerInv, EngineHeldByOne
    <3>2. d # c
      BY <1>2, <3>1 DEF Disconnect
    <3>3. request'[d] = request[d] /\ Holds(d)'
      BY <2>1, <2>2, <3>1, <3>2 DEF ServerInv
    <3>4. QED BY <3>1, <3>3
  <2>5. \A d \in Clients : /\ request'[d] # NoCall <=> d \in Queued'
                           /\ (link'[d] = "handling") <=> d \in Queued'
    BY <2>1, <2>2 DEF ServerInv, EngineHeldByOne
  <2>6. (stage # 0 <=> worker = "running")' /\ (stage # 0 => Holds(Worker))'
        /\ (worker \in {"locking", "running"} <=> Worker \in Queued)'
    BY <1>0, <2>1, <2>2 DEF ServerInv, EngineHeldByOne
  <2>7. QED BY <2>1, <2>3, <2>4, <2>5, <2>6, HeldByOneFromQueue
<1>3. QED BY <1>1, <1>2

\* A request begins to come in, or an answer is read: nobody asks for the engine.
LEMMA LinkSteps ==
  ASSUME ServerInv, NEW c \in Clients, Send(c) \/ Read(c)
  PROVE  ServerInv'
<1>1. UNCHANGED <<queue, request, stage, batch, worker>>
  BY DEF Send, Read, engineVars, passVars, rpcVars
<1>2. /\ link' \in [Clients -> Link]
      /\ \A d \in Clients : link'[d] = "handling" <=> link[d] = "handling"
  BY DEF Send, Read, ServerInv, Link
<1>3. Queued' = Queued /\ \A y : Holds(y)' = Holds(y)
  BY <1>1 DEF Queued, Holds
<1>4. QED BY <1>1, <1>2, <1>3, QueueFacts, HeldByOneFromQueue DEF ServerInv, EngineHeldByOne

\* The worker's steps leave the clients where they are.
LEMMA WorkerTakesLock ==
  ASSUME ServerInv, WorkerLock  PROVE ServerInv'
<1>1. Worker \in Owners /\ Worker \notin Queued
  BY DEF WorkerLock, ServerInv, EngineHeldByOne, Owners
<1>2. /\ queue' \in Seq(Owners) /\ Distinct(queue') /\ Queued' = Queued \cup {Worker}
      /\ \A y : Holds(y) => Holds(y)'
  BY <1>1, LockStep DEF WorkerLock
<1>3. UNCHANGED <<stage, batch, link, request>> /\ worker = "asleep" /\ worker' = "locking"
  BY DEF WorkerLock, clientVars, engineVars, passVars, rpcVars
<1>4. \A c \in Clients : c # Worker
  BY HolderAlone
<1>5. QED BY <1>2, <1>3, <1>4, HeldByOneFromQueue DEF ServerInv, EngineHeldByOne

LEMMA WorkerRuns ==
  ASSUME ServerInv, WorkerBegin \/ WorkerStep \/ Stall  PROVE ServerInv'
<1>1. /\ UNCHANGED <<queue, link, request>> /\ Queued' = Queued
      /\ (Holds(Worker))' = Holds(Worker)
  BY DEF WorkerBegin, WorkerStep, Stall, clientVars, Queued, Holds
<1>2. Holds(Worker)
  BY DEF WorkerBegin, WorkerStep, Stall, ServerInv, EngineHeldByOne
<1>3. batch = <<>>
  BY <1>2, HolderAlone
<1>4. /\ batch' = batch /\ stage' # 0 /\ worker' = "running"
      /\ worker \in {"locking", "running"}
  <2>1. CASE WorkerBegin
    BY <2>1 DEF WorkerBegin, BeginPass, rpcVars
  <2>2. CASE WorkerStep
    <3>1. stage # 0 /\ worker = "running" /\ worker' = worker
      BY <2>2 DEF WorkerStep, ServerInv, EngineHeldByOne
    <3>2. CASE NextStage
      BY <3>1, <3>2 DEF NextStage, LastStage, rpcVars
    <3>3. CASE Finish \/ Mismatch
      BY <3>1, <3>3 DEF Finish, Mismatch, complete_task, fail_task
    <3>4. QED BY <2>2, <3>1, <3>2, <3>3 DEF WorkerStep
  <2>3. CASE Stall
    BY <2>3 DEF Stall, ServerInv, EngineHeldByOne, engineVars, passVars, rpcVars
  <2>4. QED BY <2>1, <2>2, <2>3
<1>5. QED BY <1>1, <1>2, <1>3, <1>4, QueueFacts, HeldByOneFromQueue
          DEF ServerInv, EngineHeldByOne

LEMMA WorkerStops ==
  ASSUME ServerInv, WorkerEnd \/ WorkerFail  PROVE ServerInv'
<1>1. Holds(Worker) /\ batch = <<>>
  BY HolderAlone DEF WorkerEnd, WorkerFail, ServerInv, EngineHeldByOne
<1>2. /\ unlock /\ UNCHANGED <<link, request, batch>> /\ stage' = 0
      /\ worker' \in {"asleep", "failed"}
  BY DEF WorkerEnd, WorkerFail, EndPass, AbortPass, clientVars, rpcVars
<1>3. /\ queue' \in Seq(Owners) /\ Distinct(queue') /\ Queued' = Queued \ {Worker}
  BY <1>1, <1>2, UnlockStep
<1>4. \A c \in Clients : c # Worker
  BY HolderAlone
<1>5. QED BY <1>1, <1>2, <1>3, <1>4, HeldByOneFromQueue DEF ServerInv, EngineHeldByOne

LEMMA WorkerCancelled ==
  ASSUME ServerInv, Cancel  PROVE ServerInv'
<1>1. /\ queue' \in Seq(Owners) /\ Distinct(queue') /\ Queued' = Queued \ {Worker}
      /\ \A y : y # Worker /\ Holds(y) => Holds(y)'
  BY CancelStep DEF Cancel
<1>2. UNCHANGED <<link, request, batch>> /\ stage' = 0 /\ worker' = "cancelled"
  BY DEF Cancel, AbortPass, ServerInv, EngineHeldByOne, clientVars, engineVars, passVars,
         rpcVars
<1>3. \A c \in Clients : c # Worker
  BY HolderAlone
<1>4. QED BY <1>1, <1>2, <1>3, HeldByOneFromQueue DEF ServerInv, EngineHeldByOne

LEMMA QueueUntouched ==
  ASSUME ServerInv, UNCHANGED <<queue, link, request, stage, batch, worker>>
  PROVE  ServerInv'
<1>1. Queued' = Queued /\ \A y : Holds(y)' = Holds(y)
  BY DEF Queued, Holds
<1>2. QED BY <1>1, QueueFacts, HeldByOneFromQueue DEF ServerInv, EngineHeldByOne

LEMMA ServerStepInv == ServerInv /\ [ServerNext]_serverVars => ServerInv'
<1> SUFFICES ASSUME ServerInv, [ServerNext]_serverVars  PROVE ServerInv'
  OBVIOUS
<1>1. CASE \E c \in Clients : (\E m \in Calls : Request(c, m)) \/ Disconnect(c)
  BY <1>1, ClientSteps
<1>2. CASE \E c \in Clients : Handle(c) \/ HandleBatch(c)
  BY <1>2, HandlerSteps
<1>3. CASE \/ \E c \in Clients : Send(c) \/ Read(c)
           \/ WorkerLock \/ WorkerBegin \/ WorkerStep \/ Stall
  BY <1>3, LinkSteps, WorkerTakesLock, WorkerRuns
<1>4. CASE WorkerEnd \/ WorkerFail \/ Cancel
  BY <1>4, WorkerStops, WorkerCancelled
<1>5. CASE Shutdown \/ Drained \/ CtrlC \/ UNCHANGED serverVars
  BY <1>5, QueueUntouched
     DEF Shutdown, Drained, CtrlC, serverVars, clientVars, engineVars, passVars, rpcVars
<1>6. QED BY <1>1, <1>2, <1>3, <1>4, <1>5 DEF ServerNext, ServerStep

THEOREM ServerInvariant == ServerSpec => []ServerInv
BY ServerInitInv, ServerStepInv, PTL DEF ServerSpec

\* Whoever is in the middle of something holds the engine, and the queue of the
\* Mutex lists exactly those that want it, through every disconnect, error and
\* cancellation.
THEOREM EngineAlwaysHeldByOne == ServerSpec => []EngineHeldByOne
<1>1. ServerInv => EngineHeldByOne
  BY DEF ServerInv
<1>2. QED BY <1>1, ServerInvariant, PTL

-----------------------------------------------------------------------------
(* The refinement *)

\* A step of the server is a step of the engine alone, which needs no Mutex
\* because nothing ever overlaps there, or leaves the engine untouched.
LEMMA ServerImplementsStep == ServerInv /\ [ServerNext]_serverVars => [EngineNext]_engineVars
<1> SUFFICES ASSUME ServerInv, [ServerNext]_serverVars  PROVE [EngineNext]_engineVars
  OBVIOUS
<1>1. ASSUME NEW c \in Clients, Handle(c)  PROVE EngineNext
  <2>1. stage = 0 /\ request[c] \in Calls
    <3>1. request[c] # NoCall
      BY <1>1, QueueFacts DEF Handle, ServerInv, EngineHeldByOne
    <3>2. QED BY <1>1, <3>1, HolderAlone DEF Handle
  <2>2. EngineCall(request[c])
    BY <1>1, <2>1 DEF Handle, EngineCall, Call
  <2>3. QED BY <2>1, <2>2 DEF EngineNext
<1>2. ASSUME NEW c \in Clients, HandleBatch(c)  PROVE EngineNext
  BY <1>2, HolderAlone DEF HandleBatch, EngineNext, EngineStep
<1>3. CASE WorkerBegin
  BY <1>3, HolderAlone DEF WorkerBegin, EngineNext, EngineStep
<1>4. CASE WorkerStep \/ WorkerEnd \/ WorkerFail
  BY <1>4 DEF WorkerStep, WorkerEnd, WorkerFail, EngineNext, EngineStep
<1>5. CASE Cancel
  BY <1>5 DEF Cancel, EngineNext, EngineStep
<1>6. CASE \/ \E c \in Clients : (\E m \in Calls : Request(c, m)) \/ Disconnect(c)
           \/ \E c \in Clients : Send(c) \/ Read(c)
           \/ WorkerLock \/ Stall \/ Shutdown \/ Drained \/ CtrlC
  BY <1>6 DEF Request, Disconnect, Send, Read, WorkerLock, Stall, Shutdown, Drained, CtrlC
<1>7. CASE UNCHANGED serverVars
  BY <1>7 DEF serverVars
<1>8. QED BY <1>1, <1>2, <1>3, <1>4, <1>5, <1>6, <1>7 DEF ServerNext, ServerStep

\* The server, with its handlers and its worker side by side, implements the
\* engine in which calls and download passes take turns.
THEOREM ServerImplementsEngine == ServerSpec => EngineSpec
<1>1. ServerInit => EngineInit
  BY DEF ServerInit
<1>2. QED BY <1>1, ServerInvariant, ServerImplementsStep, PTL DEF ServerSpec, EngineSpec

-----------------------------------------------------------------------------
(* What the server inherits from the engine *)

ControlType ==
  /\ worker \in {"asleep", "locking", "running"} \cup Ended
  /\ stalled \in BOOLEAN
  /\ aborting \in BOOLEAN
  /\ phase \in {"serving", "draining", "down", "exited"}

LEMMA ControlTypeStep == ControlType /\ [ServerNext]_serverVars => ControlType'
<1> SUFFICES ASSUME ControlType, [ServerNext]_serverVars  PROVE ControlType'
  OBVIOUS
<1> USE DEF ControlType, Ended
<1>1. CASE \E c \in Clients : (\E m \in Calls : Request(c, m)) \/ Disconnect(c)
  BY <1>1 DEF Request, Disconnect, controlVars
<1>2. CASE \E c \in Clients : Send(c) \/ Read(c)
  BY <1>2 DEF Send, Read, controlVars
<1>3. CASE \E c \in Clients : Handle(c) \/ HandleBatch(c)
  BY <1>3 DEF Handle, HandleBatch, controlVars
<1>4. CASE WorkerLock \/ WorkerBegin \/ WorkerStep \/ WorkerEnd \/ WorkerFail
  BY <1>4 DEF WorkerLock, WorkerBegin, WorkerStep, WorkerEnd, WorkerFail, controlVars
<1>5. CASE Stall \/ Shutdown \/ Drained \/ Cancel \/ CtrlC \/ UNCHANGED serverVars
  BY <1>5 DEF Stall, Shutdown, Drained, Cancel, CtrlC, serverVars
<1>6. QED BY <1>1, <1>2, <1>3, <1>4, <1>5 DEF ServerNext, ServerStep

THEOREM ServerTypeCorrect == ServerSpec => []ServerTypeOK
<1>1. ServerInit => ControlType
  BY DEF ServerInit, ControlType
<1>2. ServerSpec => []ControlType
  BY <1>1, ControlTypeStep, PTL DEF ServerSpec
<1>3. ServerInv /\ ControlType /\ EngineTypeOK => ServerTypeOK
  BY DEF ServerInv, ControlType, ServerTypeOK
<1>4. QED BY <1>2, <1>3, ServerInvariant, ServerImplementsEngine, EngineTypeCorrect, PTL

\* With any number of clients beside the worker, no snapshot is ever stale, a pass
\* leaves nothing runnable behind, and notifications are in order and complete.
THEOREM ServerKeepsEngineProperties ==
  ServerSpec => []( /\ SnapshotExact /\ NothingRunnableLeft
                    /\ AnnouncedOnce /\ OutcomeAnnounced )
BY ServerImplementsEngine, SnapshotAlwaysExact, PassIsComplete,
   EngineKeepsRpcProperties, PTL
=============================================================================
