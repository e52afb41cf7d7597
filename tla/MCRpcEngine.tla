---------------------------- MODULE MCRpcEngine ----------------------------
(* RpcEngine with a handful of calls: every method, every kind of rejection, *)
(* and multicalls that succeed, fail in the middle, and nest.                *)
EXTENDS RpcEngine

CONSTANTS
  MaxGid,  \* bound: no call may change anything once MaxGid tasks exist,
  MaxLog   \* bound: nor once MaxLog notifications have been sent

AddUri(uris) == [method |-> "addUri", uris |-> uris]
AddHttp == AddUri(<<"http">>)
AddBad == AddUri(<<"http", "badMagnet">>)
Invalid == [method |-> "invalid"]
Metalink == [method |-> "addMetalink", files |-> <<"ftp", "magnet">>]
Multi(calls) == [method |-> "multicall", calls |-> calls]
PauseSecond == [method |-> "pause", gid |-> 2]

MCCalls ==
  {AddHttp, AddBad, Invalid, Metalink, AddUri(<<"ed2k">>),
   AddUri(<<"magnet", "sftp">>), [method |-> "addTorrent"], [method |-> "query"],
   PauseSecond}
  \cup [method : {"unpause", "remove"}, gid : {1, 2}]
  \cup {Multi(<<AddHttp, AddBad, Metalink>>),
        Multi(<<Multi(<<Metalink>>), PauseSecond, AddHttp>>)}
  \cup {Multi(<<Metalink>>)}

Room == next_gid < MaxGid /\ Len(log) < MaxLog

MCNext ==
  \/ \E c \in Calls : Room /\ Call(c)
  \/ multicall
  \/ Len(log) < MaxLog /\ Outcome
  \/ batch = <<>> /\ drain_events

MCSpec == RpcInit /\ [][MCNext]_rpcVars
=============================================================================
