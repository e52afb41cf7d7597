--------------------------- MODULE MCEventStream ---------------------------
(* EventStream with a channel of two events, so that slow clients lag, and *)
(* more events than it keeps.                                            *)
EXTENDS EventStream

CONSTANT MaxEvents  \* bound: no event is sent after the MaxEvents-th

MCNext ==
  \/ sent < MaxEvents /\ Publish
  \/ DropEngine
  \/ \E c \in Clients : StreamStep(c)

MCSpec == Init /\ [][MCNext]_vars /\ Fairness

\* Every event, up to the bound, reaches every client subscribed before it or
\* its stream ends (stream_events).
EveryEventDelivered == \A n \in 1..MaxEvents : Delivered(n)
=============================================================================
