----------------------------- MODULE RpcServer -----------------------------
(***************************************************************************)
(* The RPC server: the HTTP handlers and the background worker that share  *)
(* one RpcEngine behind a tokio Mutex, and the shutdown of both (struct    *)
(* RpcServer, crates/raria-core/src/runtime.rs; handle_jsonrpc in rpc.rs;  *)
(* the RPC mode of crates/raria-cli/src/main.rs).                          *)
(*                                                                         *)
(* The Mutex hands the engine over in the order in which it was asked for: *)
(* `queue` is its holder followed by those that wait.  The engine's own    *)
(* actions are taken from RpcEngine and DownloadEngine without the guards  *)
(* that keep calls and passes apart there: here the Mutex has to.          *)
(***************************************************************************)
EXTENDS DownloadEngine

CONSTANTS
  Clients,  \* connections, each with at most one request on its way
  Worker,   \* the background worker, as an owner of the engine
  NoCall    \* not a call

ASSUME ServerAssumption == Worker \notin Clients /\ NoCall \notin Calls

VARIABLES
  link,      \* what each client's connection is busy with
  request,   \* the call its handler is to make
  queue,     \* the engine's holder and, behind it, those waiting for it
  worker,    \* "asleep", "locking", "running", "failed" or "cancelled"
  stalled,   \* the running transfer will never end
  aborting,  \* shutdown has asked for the worker's cancellation
  phase      \* "serving", "draining", "down" or "exited"

serverVars == <<engineVars, link, request, queue, worker, stalled, aborting, phase>>
controlVars == <<stalled, aborting, phase>>
clientVars == <<link, request>>

\* "sending": a part of the client's request has arrived; "reading": not all of
\* the answer has been taken.
Link == {"idle", "sending", "handling", "reading"}

Running == phase # "exited"
Ended == {"failed", "cancelled"}

Holds(x) == queue # <<>> /\ Head(queue) = x
Queued == {queue[i] : i \in DOMAIN queue}

\* The queue without its i-th entry.
Without(i) == SubSeq(queue, 1, i - 1) \o SubSeq(queue, i + 1, Len(queue))

-----------------------------------------------------------------------------
(* Acquiring and releasing the engine *)

lock(x) == queue' = Append(queue, x)

unlock == queue' = Tail(queue)

\* Dropping the future of lock(), or the guard it returned.
cancel_lock(x) ==
  IF x \in Queued
    THEN \E i \in DOMAIN queue : queue[i] = x /\ queue' = Without(i)
    ELSE UNCHANGED queue

-----------------------------------------------------------------------------
(* Handlers *)

\* A request begins to come in.
Send(c) ==
  /\ phase = "serving"
  /\ link[c] = "idle"
  /\ link' = [link EXCEPT ![c] = "sending"]
  /\ UNCHANGED <<engineVars, request, queue, worker, controlVars>>

\* The whole request is there, and its handler asks for the engine.
Request(c, m) ==
  /\ Running
  /\ link[c] = "sending"
  /\ link' = [link EXCEPT ![c] = "handling"]
  /\ request' = [request EXCEPT ![c] = m]
  /\ lock(c)
  /\ UNCHANGED <<engineVars, worker, controlVars>>

\* The client has the whole answer.
Read(c) ==
  /\ Running
  /\ link[c] = "reading"
  /\ link' = [link EXCEPT ![c] = "idle"]
  /\ UNCHANGED <<engineVars, request, queue, worker, controlVars>>

\* A client that goes away before its call begins takes its request along: its
\* handler is dropped while it waits for the lock.
Disconnect(c) ==
  /\ Running
  /\ link[c] # "idle"
  /\ Holds(c) => batch = <<>>
  /\ link' = [link EXCEPT ![c] = "idle"]
  /\ request' = [request EXCEPT ![c] = NoCall]
  /\ cancel_lock(c)
  /\ UNCHANGED <<engineVars, worker, controlVars>>

Answered(c) ==
  /\ request' = [request EXCEPT ![c] = NoCall]
  /\ link' = [link EXCEPT ![c] = "reading"]

\* The engine is free again once a multicall has no calls left.
Answer(c) ==
  IF batch' = <<>> THEN unlock /\ Answered(c)
                   ELSE UNCHANGED <<queue, clientVars>>

\* Mutant: a handler does not wait for the engine.
Handle_unlocked(c) ==
  /\ Running
  /\ request[c] # NoCall
  /\ batch = <<>>
  /\ call(request[c])
  /\ Answered(c)
  /\ cancel_lock(c)
  /\ UNCHANGED <<passVars, worker, controlVars>>

\* handle_jsonrpc: one call, or the first step of a multicall, whose later
\* steps follow without another await.
Handle(c) ==
  /\ Running
  /\ Holds(c)
  /\ batch = <<>>
  /\ call(request[c])
  /\ Answer(c)
  /\ UNCHANGED <<passVars, worker, controlVars>>

HandleBatch(c) ==
  /\ Running
  /\ Holds(c)
  /\ multicall
  /\ Answer(c)
  /\ UNCHANGED <<passVars, worker, controlVars>>

-----------------------------------------------------------------------------
(* The worker *)

\* Mutant: try_lock; the worker does not wait in line.
WorkerLock_tries ==
  /\ Running
  /\ ~aborting
  /\ worker = "asleep"
  /\ queue = <<>>
  /\ worker' = "locking"
  /\ lock(Worker)
  /\ UNCHANGED <<engineVars, clientVars, controlVars>>

\* The 100 ms sleep is over.  A worker that is to be cancelled is not woken.
WorkerLock ==
  /\ Running
  /\ ~aborting
  /\ worker = "asleep"
  /\ worker' = "locking"
  /\ lock(Worker)
  /\ UNCHANGED <<engineVars, clientVars, controlVars>>

WorkerBegin ==
  /\ Running
  /\ worker = "locking"
  /\ Holds(Worker)
  /\ BeginPass
  /\ worker' = "running"
  /\ UNCHANGED <<clientVars, queue, controlVars>>

\* The pass itself, all of it under the lock.
WorkerStep ==
  /\ Running
  /\ worker = "running"
  /\ ~stalled
  /\ Finish \/ Mismatch \/ NextStage
  /\ UNCHANGED <<clientVars, queue, worker, controlVars>>

\* Mutant: the guard lives for the whole loop, the sleep included.
WorkerEnd_keeps_lock ==
  /\ Running
  /\ worker = "running"
  /\ EndPass
  /\ worker' = "locking"
  /\ UNCHANGED <<clientVars, queue, controlVars>>

WorkerEnd ==
  /\ Running
  /\ worker = "running"
  /\ EndPass
  /\ worker' = "asleep"
  /\ unlock
  /\ UNCHANGED <<clientVars, controlVars>>

\* Mutant: an error does not reach the loop, but the pass stays where it was.
WorkerFail_keeps_pass ==
  /\ Running
  /\ worker = "running"
  /\ ~stalled
  /\ todo # {}
  /\ worker' = "failed"
  /\ unlock
  /\ UNCHANGED <<engineVars, clientVars, controlVars>>

\* `?` in the loop: the first error ends the worker for good.  So does a panic.
WorkerFail ==
  /\ Running
  /\ worker = "running"
  /\ ~stalled
  /\ AbortPass
  /\ worker' = "failed"
  /\ unlock
  /\ UNCHANGED <<clientVars, controlVars>>

\* A server that sends nothing more, a torrent without peers: no transfer has
\* a timeout.
Stall ==
  /\ Running
  /\ worker = "running"
  /\ todo # {}
  /\ stalled' = TRUE
  /\ UNCHANGED <<engineVars, clientVars, queue, worker, aborting, phase>>

-----------------------------------------------------------------------------
(* Shutdown *)

\* The listener closes and no connection may begin another request.
Shutdown ==
  /\ phase = "serving"
  /\ phase' = "draining"
  /\ UNCHANGED <<engineVars, clientVars, queue, worker, stalled, aborting>>

\* Mutant: the worker is left alone.
Drained_no_abort ==
  /\ phase = "draining"
  /\ \A c \in Clients : link[c] = "idle"
  /\ phase' = "down"
  /\ UNCHANGED <<engineVars, clientVars, queue, worker, stalled, aborting>>

\* The HTTP server has ended, after the last request and answer: shutdown asks for
\* the worker's cancellation, does not wait for it, and returns.
Drained ==
  /\ phase = "draining"
  /\ \A c \in Clients : link[c] = "idle"
  /\ phase' = "down"
  /\ aborting' = TRUE
  /\ UNCHANGED <<engineVars, clientVars, queue, worker, stalled>>

\* The runtime drops the worker where it awaits something: the sleep, the lock
\* or, inside a pass, a transfer.
Cancel ==
  /\ Running
  /\ aborting
  /\ worker \notin Ended
  /\ IF worker = "running" THEN AbortPass ELSE UNCHANGED engineVars
  /\ worker' = "cancelled"
  /\ cancel_lock(Worker)
  /\ stalled' = FALSE
  /\ UNCHANGED <<clientVars, aborting, phase>>

\* Ctrl-C in the RPC mode of the binary: main returns without shutdown, and the
\* process ends with whatever was running.
CtrlC ==
  /\ phase = "serving"
  /\ phase' = "exited"
  /\ UNCHANGED <<engineVars, clientVars, queue, worker, stalled, aborting>>

-----------------------------------------------------------------------------

ServerInit ==
  /\ EngineInit
  /\ link = [c \in Clients |-> "idle"]
  /\ request = [c \in Clients |-> NoCall]
  /\ queue = <<>>
  /\ worker = "asleep"
  /\ stalled = FALSE
  /\ aborting = FALSE
  /\ phase = "serving"

ServerStep ==
  \/ \E c \in Clients : Send(c) \/ Read(c) \/ Disconnect(c) \/ Handle(c) \/ HandleBatch(c)
  \/ WorkerLock \/ WorkerBegin \/ WorkerStep \/ WorkerEnd \/ WorkerFail \/ Stall
  \/ Shutdown \/ Drained \/ Cancel \/ CtrlC

ServerNext == (\E c \in Clients, m \in Calls : Request(c, m)) \/ ServerStep

\* The runtime schedules every ready task, so handlers and worker go on, and a
\* transfer that does not stall ends in one of its ways.  Nobody has to send a
\* request or the rest of one, to take an answer, to go away, or to stop the
\* server; nothing has to go wrong.
Fairness ==
  /\ \A c \in Clients : WF_serverVars(Handle(c) \/ HandleBatch(c))
  /\ WF_serverVars(WorkerLock \/ WorkerBegin \/ WorkerStep \/ WorkerEnd)
  /\ WF_serverVars(Drained)
  /\ WF_serverVars(Cancel)

ServerSpec == ServerInit /\ [][ServerNext]_serverVars /\ Fairness

-----------------------------------------------------------------------------
(* Properties *)

Owners == Clients \cup {Worker}

ServerTypeOK ==
  /\ EngineTypeOK
  /\ link \in [Clients -> Link]
  /\ request \in [Clients -> Calls \cup {NoCall}]
  /\ queue \in Seq(Owners)
  /\ worker \in {"asleep", "locking", "running"} \cup Ended
  /\ stalled \in BOOLEAN
  /\ aborting \in BOOLEAN
  /\ phase \in {"serving", "draining", "down", "exited"}

\* Whoever is in the middle of something holds the engine: a pass under way has
\* the worker at the head of the queue, a multicall under way the client that
\* sent it; and the queue lists exactly those that want the engine, each once,
\* the connections whose handler has not answered among them.
\* Disconnects, errors and cancellation all have to give the engine back.
EngineHeldByOne ==
  /\ stage # 0 <=> worker = "running"
  /\ stage # 0 => Holds(Worker)
  /\ batch # <<>> => \E c \in Clients : Holds(c) /\ request[c].method = "multicall"
  /\ \A i, j \in DOMAIN queue : queue[i] = queue[j] => i = j
  /\ \A c \in Clients : request[c] # NoCall <=> c \in Queued
  /\ \A c \in Clients : link[c] = "handling" <=> c \in Queued
  /\ worker \in {"locking", "running"} <=> Worker \in Queued

\* Every request is answered, even while others keep sending requests and the
\* worker keeps passing over the table, unless a transfer is stalled for good or
\* the process ends (handle_jsonrpc waits for the lock without a limit).
RequestAnswered ==
  \A c \in Clients :
    request[c] # NoCall ~> request[c] = NoCall \/ []stalled \/ phase = "exited"

Runnable(g) ==
  /\ g \in DOMAIN tasks
  /\ tasks[g].status = "waiting"
  /\ \E s \in 1..LastStage : Serves(s, tasks[g])

\* A task some stage serves does not wait for ever, however many requests come
\* in, as long as the worker is alive and no transfer stalls.
TaskTaken(g) ==
  Runnable(g) ~> ~Runnable(g) \/ worker \in Ended \/ stalled \/ phase # "serving"

\* shutdown returns and the worker comes to rest, a stalled transfer being
\* cancelled with it.  It waits for ever in two cases only: a client stops in the
\* middle of its request or of its answer, for which there is no timeout; or a
\* client waits for the engine behind a stalled transfer (the worker is cancelled
\* after the HTTP server has drained, not before).
ShutdownCompletes ==
  phase = "draining" ~>
    \/ worker \in Ended /\ phase = "down"
    \/ \E c \in Clients : [](link[c] \in {"sending", "reading"})
    \/ [](stalled /\ \E c \in Clients : link[c] = "handling")

\* progress.md: the binary "starts a foreground RPC server when --enable-rpc is
\* set, and drives a background download loop for RPC-created tasks": while it
\* serves, a task is eventually taken up.
TaskTakenByLoop(g) ==
  Runnable(g) ~> ~Runnable(g) \/ stalled \/ phase # "serving"
=============================================================================
