-------------------------- MODULE MCDownloadEngine --------------------------
(* DownloadEngine with tasks of every kind, one of them served by two stages *)
(* and one by none, that clients pause, unpause and remove between passes.   *)
EXTENDS DownloadEngine

CONSTANTS
  MaxGid,  \* bound: no call is made once MaxGid tasks exist,
  MaxLog   \* bound: nor once MaxLog notifications have been sent

AddUri(uris) == [method |-> "addUri", uris |-> uris]
Metalink == [method |-> "addMetalink", files |-> <<"sftp", "magnet">>]

MCCalls ==
  {AddUri(<<"magnet", "http">>), AddUri(<<"ed2k", "ftp">>), Metalink,
   [method |-> "addTorrent"], [method |-> "invalid"],
   [method |-> "multicall",
    calls |-> <<AddUri(<<"magnet", "http">>), Metalink, [method |-> "invalid"]>>]}
  \cup [method : DOMAIN StatusOf, gid : {1, 2}]

Room == next_gid < MaxGid /\ Len(log) < MaxLog

MCNext == (\E c \in Calls : Room /\ EngineCall(c)) \/ EngineStep

MCSpec == EngineInit /\ [][MCNext]_engineVars
=============================================================================
