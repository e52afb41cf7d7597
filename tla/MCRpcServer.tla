---------------------------- MODULE MCRpcServer ----------------------------
(* RpcServer with two clients that add, pause and unpause tasks, one by one *)
(* or in a multicall, and poll as often as they like.                       *)
EXTENDS RpcServer

CONSTANTS
  MaxGid,  \* bound: only "query" is sent once MaxGid tasks exist,
  MaxLog   \* bound: or once MaxLog notifications have been sent

AddUri(uris) == [method |-> "addUri", uris |-> uris]

MCCalls ==
  {AddUri(<<"http", "magnet">>), [method |-> "query"],
   [method |-> "unpause", gid |-> 1], [method |-> "pause", gid |-> 1],
   [method |-> "multicall",
    calls |-> <<[method |-> "pause", gid |-> 1], AddUri(<<"http", "magnet">>)>>]}

\* Fewer calls, for the run of the loop.
MCFewCalls ==
  {AddUri(<<"http", "magnet">>), [method |-> "query"],
   [method |-> "unpause", gid |-> 1],
   [method |-> "multicall",
    calls |-> <<[method |-> "unpause", gid |-> 1], AddUri(<<"http", "magnet">>)>>]}

Room(m) == m.method = "query" \/ (next_gid < MaxGid /\ Len(log) < MaxLog)

MCNext ==
  (\E c \in Clients, m \in Calls : Room(m) /\ Request(c, m)) \/ ServerStep

MCSpec == ServerInit /\ [][MCNext]_serverVars /\ Fairness

\* Two clients may each send one request more than the bound allows.
Gids == 1..(MaxGid + 2)

\* A task some stage serves does not wait for ever, however many requests come
\* in, as long as the worker is alive and no transfer stalls (the loop in
\* RpcServer::start).
WaitingTaskTaken == \A g \in Gids : TaskTaken(g)

\* The background loop of the server takes up every task some stage serves
\* (progress.md: "drives a background download loop for RPC-created tasks").
BackgroundLoopGoesOn == \A g \in Gids : TaskTakenByLoop(g)
=============================================================================
