--------------------------- MODULE DownloadEngine ---------------------------
(***************************************************************************)
(* The download pass: DownloadEngine::run_once over the task table of      *)
(* RpcEngine (crates/raria-core/src/http_engine.rs).  A pass works through *)
(* four stages, one per protocol; a stage takes a snapshot of the waiting  *)
(* tasks it serves, then runs them one after the other in gid order.  A    *)
(* transfer is reduced to how it ends.  The pass borrows the engine        *)
(* mutably from start to end, so no call comes in between.                 *)
(***************************************************************************)
EXTENDS RpcEngine

VARIABLES
  stage,  \* the protocol being served, 0 between passes
  todo    \* tasks of the stage's snapshot still to be run, the first included

passVars == <<stage, todo>>
engineVars == <<rpcVars, passVars>>

LastStage == 4
Scheme == <<"http", "ftp", "sftp">>

-----------------------------------------------------------------------------
(* Snapshots *)

\* Tasks stage s serves: those with a URI of its scheme (its first such URI is
\* the one fetched), or with BitTorrent metadata.
Serves(s, task) ==
  IF s = LastStage THEN task.bt # "none" ELSE HasKind(task.uris, {Scheme[s]})

\* Mutant: the status is not looked at.
Pending_any(s) == {g \in DOMAIN tasks : Serves(s, tasks[g])}

\* pending_http_tasks, pending_ftp_tasks, pending_sftp_tasks and
\* pending_bittorrent_tasks.
Pending(s) == {g \in DOMAIN tasks : tasks[g].status = "waiting" /\ Serves(s, tasks[g])}

\* The task being run: a snapshot lists the tasks in the order of their gids.
Current == CHOOSE g \in todo : \A h \in todo : g <= h

-----------------------------------------------------------------------------
(* The pass *)

BeginPass ==
  /\ stage = 0
  /\ stage' = 1
  /\ todo' = Pending(1)
  /\ UNCHANGED rpcVars

\* The transfer succeeded.
Finish ==
  /\ todo # {}
  /\ \E n \in Lengths : complete_task(Current, n)
  /\ todo' = todo \ {Current}
  /\ UNCHANGED stage

\* The bytes do not match the checksum; a torrent has none.
Mismatch ==
  /\ todo # {}
  /\ stage < LastStage
  /\ fail_task(Current)
  /\ todo' = todo \ {Current}
  /\ UNCHANGED stage

\* Mutant: after HTTP the pass goes on with BitTorrent.
NextStage_skips ==
  /\ stage \in 1..(LastStage - 1)
  /\ todo = {}
  /\ stage' = LastStage
  /\ todo' = Pending(LastStage)
  /\ UNCHANGED rpcVars

\* Mutant: one stage too many.
NextStage_past ==
  /\ stage \in 1..LastStage
  /\ todo = {}
  /\ stage' = stage + 1
  /\ todo' = IF stage < LastStage THEN Pending(stage + 1) ELSE {}
  /\ UNCHANGED rpcVars

NextStage ==
  /\ stage \in 1..(LastStage - 1)
  /\ todo = {}
  /\ stage' = stage + 1
  /\ todo' = Pending(stage + 1)
  /\ UNCHANGED rpcVars

EndPass ==
  /\ stage = LastStage
  /\ todo = {}
  /\ stage' = 0
  /\ UNCHANGED <<rpcVars, todo>>

\* Any error of a transfer (connection refused, HTTP 404, unwritable file, ...)
\* ends the whole pass, and so does dropping its future.  The task being run
\* and those after it stay "waiting".
AbortPass ==
  /\ todo # {}
  /\ stage' = 0
  /\ todo' = {}
  /\ UNCHANGED rpcVars

-----------------------------------------------------------------------------
(* The engine between clients' calls and passes *)

EngineInit == RpcInit /\ stage = 0 /\ todo = {}

\* Mutant: the engine is not borrowed for the length of a pass.
EngineCall_always(c) == Call(c) /\ UNCHANGED passVars

\* Clients' calls need the engine for themselves.
EngineCall(c) == stage = 0 /\ Call(c) /\ UNCHANGED passVars

EngineStep ==
  \/ stage = 0 /\ multicall /\ UNCHANGED passVars
  \/ batch = <<>> /\ BeginPass
  \/ Finish
  \/ Mismatch
  \/ NextStage
  \/ EndPass
  \/ AbortPass

EngineNext == (\E c \in Calls : EngineCall(c)) \/ EngineStep

EngineSpec == EngineInit /\ [][EngineNext]_engineVars

-----------------------------------------------------------------------------
(* Properties *)

EngineTypeOK == RpcTypeOK /\ stage \in 0..LastStage /\ todo \subseteq 1..next_gid

\* The snapshot a stage works from is never stale: as long as the stage runs,
\* what is left of it is exactly the waiting tasks the stage serves.  No task
\* paused or removed meanwhile is downloaded, none added meanwhile is skipped.
\* run_once never looks at a status again after the snapshot; the exclusive
\* borrow of the engine is all that makes this true.
SnapshotExact == stage # 0 => todo = Pending(stage)

\* When a pass reaches its end, no task any stage serves is left waiting,
\* though each stage looked at the table only once and earlier than that.
NothingRunnableLeft ==
  stage = LastStage /\ todo = {} => \A s \in 1..LastStage : Pending(s) = {}

\* An onDownloadComplete or onDownloadError is only ever sent for a task that
\* was waiting up to then: a task with an HTTP and a magnet URI, which two
\* stages serve, is not run twice in a pass, and one that was paused or removed
\* is not finished behind the client's back.
OutcomesFromWaiting ==
  \A i \in (Len(log) + 1)..Len(log') :
    log'[i].method # "Start" => tasks[log'[i].gid].status = "waiting"

OutcomeOnlyFromWaiting == [][OutcomesFromWaiting]_engineVars
=============================================================================
