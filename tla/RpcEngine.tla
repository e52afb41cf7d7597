----------------------------- MODULE RpcEngine -----------------------------
(***************************************************************************)
(* The RPC engine: the in-memory table of download tasks, the JSON-RPC     *)
(* methods that create and change tasks, and the notifications they emit   *)
(* (struct RpcEngine, crates/raria-core/src/rpc.rs).                       *)
(*                                                                         *)
(* A URI is abstracted to its kind, the only thing the engine looks at; a  *)
(* gid, the 16-digit hexadecimal form of next_gid, to the number itself    *)
(* (the zero-padded form sorts as the number does).  The text of messages, *)
(* and the task options that only the transfer reads, are left out.        *)
(***************************************************************************)
EXTENDS Naturals, Sequences

CONSTANTS
  Calls,   \* the JSON-RPC calls a client may send
  Lengths  \* the byte counts a finished download may report

VARIABLES
  next_gid,  \* the last gid allocated
  tasks,     \* the BTreeMap of tasks, keyed by gid
  log,       \* every notification emitted so far, in order
  drained,   \* how many of them drain_events has taken from the events Vec
  batch      \* calls of the running system.multicall still to be made

rpcVars == <<next_gid, tasks, log, drained, batch>>

-----------------------------------------------------------------------------
(* Data *)

\* "ed2k" stands for every scheme no downloader serves, "badMagnet" for a
\* magnet: URI without a usable btih.
UriKind == {"http", "ftp", "sftp", "magnet", "badMagnet", "ed2k"}
Magnets == {"magnet", "badMagnet"}

Status == {"waiting", "paused", "removed", "complete", "error"}

Task == [status : Status, uris : Seq(UriKind),
         bt : {"none", "magnet", "torrent"},
         completed : Nat, error_message : BOOLEAN]

Event == [method : {"Start", "Complete", "Error"}, gid : Nat]

StatusOf == [pause |-> "paused", unpause |-> "waiting", remove |-> "removed"]

\* "query" stands for the methods that only read, "invalid" for every call
\* rejected before it touches the table: unknown and ED2K methods, parameters
\* of the wrong shape, undecodable torrent or Metalink documents.
Methods == {"addUri", "addTorrent", "addMetalink", "multicall", "query", "invalid"}
             \cup DOMAIN StatusOf

ASSUME CallsAssumption ==
  \A c \in Calls :
    /\ c.method \in Methods
    /\ c.method = "addUri" => c.uris \in Seq(UriKind)
    /\ c.method = "addMetalink" => c.files \in Seq(UriKind)
    /\ c.method \in DOMAIN StatusOf => c.gid \in Nat
    /\ c.method = "multicall" => c.calls \in Seq(Calls)

ASSUME LengthsAssumption == Lengths \subseteq Nat

-----------------------------------------------------------------------------
(* Helpers *)

\* Mutants: the counter is read before it is incremented; one gid for the call.
allocate_gid_stale(i) == next_gid + i - 1
allocate_gid_once(i) == next_gid + (IF i = 0 THEN 0 ELSE 1)

\* The gid of the i-th task a call adds.
allocate_gid(i) == next_gid + i

emit_event(events) == log' = log \o events

\* The first URI whose kind is in K, as uris.iter().find(..) returns it.
FirstOf(uris, K) ==
  uris[CHOOSE i \in DOMAIN uris :
         uris[i] \in K /\ \A j \in 1..(i - 1) : uris[j] \notin K]

HasKind(uris, K) == \E i \in DOMAIN uris : uris[i] \in K

MagnetParses(uris) ==
  HasKind(uris, Magnets) => FirstOf(uris, Magnets) = "magnet"

NewTask(uris, bt) ==
  [status |-> "waiting", uris |-> uris, bt |-> bt,
   completed |-> 0, error_message |-> FALSE]

\* Insert the tasks a call adds, each under a fresh gid, and announce them.
Enqueue(new) ==
  LET gids == {allocate_gid(i) : i \in DOMAIN new}
  IN  /\ next_gid' = allocate_gid(Len(new))
      /\ tasks' = [g \in DOMAIN tasks \cup gids |->
                     IF g \in gids
                       THEN new[CHOOSE i \in DOMAIN new : allocate_gid(i) = g]
                       ELSE tasks[g]]
      /\ emit_event([i \in DOMAIN new |->
                       [method |-> "Start", gid |-> allocate_gid(i)]])

-----------------------------------------------------------------------------
(* The methods *)

add_uri(c) ==
  /\ c.method = "addUri"
  /\ Enqueue(<<NewTask(c.uris,
                       IF HasKind(c.uris, Magnets) THEN "magnet" ELSE "none")>>)
  /\ UNCHANGED drained

\* The mirrors of the second parameter are ignored: the task has no URIs.
add_torrent(c) ==
  /\ c.method = "addTorrent"
  /\ Enqueue(<<NewTask(<<>>, "torrent")>>)
  /\ UNCHANGED drained

\* One task per file, with its first resource.  A file without resources adds
\* nothing, and `files` leaves it out.  A magnet resource gets no BitTorrent
\* metadata.
add_metalink(c) ==
  /\ c.method = "addMetalink"
  /\ Enqueue([i \in DOMAIN c.files |-> NewTask(<<c.files[i]>>, "none")])
  /\ UNCHANGED drained

\* Mutant: removing a task takes it off the table.
set_status_purges(c) ==
  /\ c.method \in DOMAIN StatusOf
  /\ tasks' = IF c.method = "remove"
                THEN [g \in DOMAIN tasks \ {c.gid} |-> tasks[g]]
                ELSE [tasks EXCEPT ![c.gid].status = StatusOf[c.method]]
  /\ UNCHANGED <<next_gid, log, drained>>

\* pause, forcePause, unpause, remove and forceRemove: whatever the status
\* was, and without a notification.
set_status(c) ==
  /\ c.method \in DOMAIN StatusOf
  /\ tasks' = [tasks EXCEPT ![c.gid].status = StatusOf[c.method]]
  /\ UNCHANGED <<next_gid, log, drained>>

\* tellStatus, tellActive, getGlobalStat, listMethods, saveSession, ...
query(c) ==
  /\ c.method = "query"
  /\ UNCHANGED <<next_gid, tasks, log, drained>>

\* The call returns an error and has changed nothing.
Rejected(c) ==
  \/ c.method = "invalid"
  \/ c.method = "addUri" /\ ~MagnetParses(c.uris)
  \/ c.method \in DOMAIN StatusOf /\ c.gid \notin DOMAIN tasks

Effect(c) ==
  /\ ~Rejected(c)
  /\ \/ add_uri(c)
     \/ add_torrent(c)
     \/ add_metalink(c)
     \/ set_status(c)
     \/ query(c)

\* One call, by the holder of the engine.  A multicall only unpacks its calls
\* here; they are made one by one by multicall below.
call(c) ==
  \/ Effect(c) /\ UNCHANGED batch
  \/ Rejected(c) /\ UNCHANGED rpcVars
  \/ /\ c.method = "multicall"
     /\ batch' = c.calls
     /\ UNCHANGED <<next_gid, tasks, log, drained>>

\* The next call of a multicall.  The first error makes the whole multicall
\* return that error: the calls left are not made, those made are not undone.
multicall ==
  /\ batch # <<>>
  /\ LET c == Head(batch)
     IN  \/ Effect(c) /\ batch' = Tail(batch)
         \/ /\ Rejected(c)
            /\ batch' = <<>>
            /\ UNCHANGED <<next_gid, tasks, log, drained>>
         \/ /\ c.method = "multicall"
            /\ batch' = c.calls \o Tail(batch)
            /\ UNCHANGED <<next_gid, tasks, log, drained>>

-----------------------------------------------------------------------------
(* What the download side calls *)

\* Mutant: a task announces its first failure only.
fail_task_once(g) ==
  /\ g \in DOMAIN tasks
  /\ tasks' = [tasks EXCEPT ![g].status = "error", ![g].error_message = TRUE]
  /\ IF tasks[g].error_message
       THEN UNCHANGED log
       ELSE emit_event(<<[method |-> "Error", gid |-> g]>>)
  /\ UNCHANGED <<next_gid, drained, batch>>

complete_task(g, length) ==
  /\ g \in DOMAIN tasks
  /\ tasks' = [tasks EXCEPT ![g].status = "complete", ![g].completed = length]
  /\ emit_event(<<[method |-> "Complete", gid |-> g]>>)
  /\ UNCHANGED <<next_gid, drained, batch>>

fail_task(g) ==
  /\ g \in DOMAIN tasks
  /\ tasks' = [tasks EXCEPT ![g].status = "error", ![g].error_message = TRUE]
  /\ emit_event(<<[method |-> "Error", gid |-> g]>>)
  /\ UNCHANGED <<next_gid, drained, batch>>

drain_events ==
  /\ drained' = Len(log)
  /\ UNCHANGED <<next_gid, tasks, log, batch>>

-----------------------------------------------------------------------------
(* The engine under any client and any user of its public methods *)

RpcInit ==
  /\ next_gid = 0
  /\ tasks = [g \in {} |-> NewTask(<<>>, "none")]
  /\ log = <<>>
  /\ drained = 0
  /\ batch = <<>>

\* A multicall keeps its &mut borrow of the engine until its calls are made.
Call(c) == batch = <<>> /\ call(c)

Outcome ==
  /\ batch = <<>>
  /\ \E g \in DOMAIN tasks : (\E n \in Lengths : complete_task(g, n)) \/ fail_task(g)

RpcNext ==
  \/ \E c \in Calls : Call(c)
  \/ multicall
  \/ Outcome
  \/ batch = <<>> /\ drain_events

RpcSpec == RpcInit /\ [][RpcNext]_rpcVars

-----------------------------------------------------------------------------
(* Properties *)

\* The type invariant.  It also says that gids are handed out without a gap,
\* that no task ever leaves the table, and that every notification is about a
\* task of the table (allocate_gid, tasks.insert, emit_event).
RpcTypeOK ==
  /\ next_gid \in Nat
  /\ tasks \in [1..next_gid -> Task]
  /\ log \in Seq([method : {"Start", "Complete", "Error"}, gid : 1..next_gid])
  /\ drained \in 0..Len(log)
  /\ batch \in Seq(Calls)

\* Every task is announced by exactly one onDownloadStart, before anything else
\* is said about it, and tasks are announced in the order of their gids.  This
\* includes the tasks of a Metalink document added together, and those of a
\* multicall that failed afterwards, whose gids no client was ever told
\* (add_uri, add_torrent, add_metalink, multicall).
AnnouncedOnce ==
  /\ \A g \in 1..next_gid :
       \E i \in DOMAIN log : log[i] = [method |-> "Start", gid |-> g]
  /\ \A i \in DOMAIN log :
       log[i].method = "Start" => \A j \in 1..(i - 1) : log[j].gid < log[i].gid

\* A finished task's last notification tells how it finished, however often it
\* was unpaused and run again before (complete_task, fail_task, set_status).
OutcomeAnnounced ==
  \A g \in DOMAIN tasks :
    tasks[g].status \in {"complete", "error"} =>
      \E i \in DOMAIN log :
        /\ log[i].gid = g
        /\ log[i].method = (IF tasks[g].status = "error" THEN "Error" ELSE "Complete")
        /\ \A j \in (i + 1)..Len(log) : log[j].gid # g

\* No step drops a task, reuses its gid for another download, or retracts a
\* notification; removing a task only changes its status.
KeepsHistory ==
  /\ \A g \in DOMAIN tasks :
       /\ g \in DOMAIN tasks'
       /\ tasks'[g].uris = tasks[g].uris
       /\ tasks'[g].bt = tasks[g].bt
  /\ \A i \in DOMAIN log : i \in DOMAIN log' /\ log'[i] = log[i]

HistoryKept == [][KeepsHistory]_rpcVars

\* README.md: "WebSocket clients connect to /jsonrpc and receive aria2-shaped
\* notifications such as onDownloadStart, onDownloadPause, onDownloadStop, ...":
\* a task that is paused, or stopped by removing it, is notified.
StatusChangesAreNotified ==
  [][ \A g \in DOMAIN tasks :
        /\ tasks'[g].status # tasks[g].status
        /\ tasks'[g].status \in {"paused", "removed"}
        => \E i \in (Len(log) + 1)..Len(log') : log'[i].gid = g ]_rpcVars
=============================================================================
