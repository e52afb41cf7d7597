-------------------------- MODULE NotificationFeed --------------------------
(***************************************************************************)
(* What a WebSocket client may rely on: from the moment its feed opens it  *)
(* is sent every notification, each once and in order, until the feed      *)
(* ends.  A feed may end early, and then says nothing about what is left,  *)
(* but it never skips a notification and carries on.                       *)
(***************************************************************************)
EXTENDS Naturals, Sequences

CONSTANTS Clients

VARIABLES
  sent,   \* how many notifications the engine has sent
  feed,   \* "none", "open" or "ended" for each client
  since,  \* how many had been sent when the client's feed opened
  got     \* the numbers of the notifications the client received

feedVars == <<sent, feed, since, got>>

FeedInit ==
  /\ sent = 0
  /\ feed = [c \in Clients |-> "none"]
  /\ since = [c \in Clients |-> 0]
  /\ got = [c \in Clients |-> <<>>]

Notify == sent' = sent + 1 /\ UNCHANGED <<feed, since, got>>

Open(c) ==
  /\ feed[c] = "none"
  /\ feed' = [feed EXCEPT ![c] = "open"]
  /\ since' = [since EXCEPT ![c] = sent]
  /\ UNCHANGED <<sent, got>>

\* The client receives the notification that follows those it has.
Deliver(c) ==
  /\ feed[c] = "open"
  /\ since[c] + Len(got[c]) < sent
  /\ got' = [got EXCEPT ![c] = Append(@, since[c] + Len(@) + 1)]
  /\ UNCHANGED <<sent, feed, since>>

End(c) ==
  /\ feed[c] = "open"
  /\ feed' = [feed EXCEPT ![c] = "ended"]
  /\ UNCHANGED <<sent, since, got>>

FeedNext == Notify \/ \E c \in Clients : Open(c) \/ Deliver(c) \/ End(c)

FeedSpec == FeedInit /\ [][FeedNext]_feedVars
=============================================================================
