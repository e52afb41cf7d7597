------------------------ MODULE DownloadEngineProofs ------------------------
(***************************************************************************)
(* Proofs about the engine.                                                *)
(*                                                                         *)
(* RpcEngine: the invariant is the conjunction of its four properties;     *)
(* each of them is kept by the three ways the engine changes: adding tasks *)
(* (Enqueue), setting a status, and announcing an outcome.                 *)
(*                                                                         *)
(* DownloadEngine: what makes the snapshots exact at the end of a pass is  *)
(* that they are exact all along: the invariant says so of the stage being *)
(* run, and that nothing waits for the stages before it.                   *)
(***************************************************************************)
EXTENDS DownloadEngine, SequenceTheorems, WellFoundedInduction, TLAPS

-----------------------------------------------------------------------------
(* The task table and its notifications: the invariant *)

RpcInv == RpcTypeOK /\ AnnouncedOnce /\ OutcomeAnnounced

\* The notifications about the tasks 1..n.
EventsUpTo(n) == [method : {"Start", "Complete", "Error"}, gid : 1..n]

Starts(new) ==
  [i \in DOMAIN new |-> [method |-> "Start", gid |-> allocate_gid(i)]]

\* Tasks that wait.
Fresh(new) ==
  \A i \in DOMAIN new : new[i].status = "waiting"

-----------------------------------------------------------------------------
(* Adding tasks *)

LEMMA EnqueueType ==
  ASSUME RpcTypeOK, NEW new \in Seq(Task), Enqueue(new), UNCHANGED drained,
         batch' \in Seq(Calls)
  PROVE  /\ RpcTypeOK'
         /\ next_gid' = next_gid + Len(new)
         /\ Len(log') = Len(log) + Len(new)
         /\ \A i \in 1..Len(log) : log'[i] = log[i]
         /\ \A i \in 1..Len(new) :
              log'[Len(log) + i] = [method |-> "Start", gid |-> next_gid + i]
         /\ \A g \in 1..next_gid : tasks'[g] = tasks[g]
         /\ \A g \in (next_gid + 1)..next_gid' : \E i \in DOMAIN new : tasks'[g] = new[i]
<1> DEFINE E == EventsUpTo(next_gid')
           gids == {allocate_gid(i) : i \in DOMAIN new}
<1>1. /\ Len(new) \in Nat /\ DOMAIN new = 1..Len(new) /\ next_gid \in Nat
      /\ Len(log) \in Nat
  BY DEF RpcTypeOK
<1>2. next_gid' = next_gid + Len(new)
  BY DEF Enqueue, allocate_gid
<1>3. gids = (next_gid + 1)..(next_gid + Len(new))
  <2>1. gids \subseteq (next_gid + 1)..(next_gid + Len(new))
    BY <1>1 DEF allocate_gid
  <2>2. ASSUME NEW g \in (next_gid + 1)..(next_gid + Len(new))  PROVE g \in gids
    <3>1. g - next_gid \in DOMAIN new /\ allocate_gid(g - next_gid) = g
      BY <1>1 DEF allocate_gid
    <3>2. QED BY <3>1
  <2>3. QED BY <2>1, <2>2
<1>4. 1..next_gid' = DOMAIN tasks \cup gids /\ DOMAIN tasks = 1..next_gid
  BY <1>1, <1>2, <1>3 DEF RpcTypeOK
<1>5. ASSUME NEW g \in gids
      PROVE  LET i == CHOOSE i \in DOMAIN new : allocate_gid(i) = g
             IN  i \in DOMAIN new /\ new[i] \in Task
  <2>1. \E i \in DOMAIN new : allocate_gid(i) = g
    OBVIOUS
  <2>2. QED BY <2>1, ElementOfSeq, <1>1
<1>6. tasks' = [g \in 1..next_gid' |->
                  IF g \in gids
                    THEN new[CHOOSE i \in DOMAIN new : allocate_gid(i) = g]
                    ELSE tasks[g]]
  BY <1>4 DEF Enqueue
<1>7. tasks' \in [1..next_gid' -> Task]
  BY <1>4, <1>5, <1>6 DEF RpcTypeOK
<1>8. /\ \A g \in 1..next_gid : tasks'[g] = tasks[g]
      /\ \A g \in (next_gid + 1)..next_gid' : \E i \in DOMAIN new : tasks'[g] = new[i]
  <2>1. ASSUME NEW g \in 1..next_gid  PROVE tasks'[g] = tasks[g]
    <3> HIDE DEF gids
    <3>1. g \notin gids /\ g \in 1..next_gid'
      BY <1>1, <1>2, <1>3
    <3>2. QED BY <1>6, <3>1
  <2>2. ASSUME NEW g \in (next_gid + 1)..next_gid'
        PROVE  \E i \in DOMAIN new : tasks'[g] = new[i]
    <3>1. g \in gids /\ g \in 1..next_gid'
      BY <1>1, <1>2, <1>3
    <3>2. QED BY <1>5, <1>6, <3>1
  <2>3. QED BY <2>1, <2>2
<1>9. log \in Seq(E)
  <2>1. EventsUpTo(next_gid) \subseteq E
    BY <1>1, <1>2 DEF EventsUpTo
  <2>2. log \in Seq(EventsUpTo(next_gid))
    BY DEF RpcTypeOK, EventsUpTo
  <2>3. QED BY <2>1, <2>2, SeqMonotonic
<1>10. Starts(new) \in Seq(E) /\ Len(Starts(new)) = Len(new)
  <2>1. \A i \in 1..Len(new) : [method |-> "Start", gid |-> allocate_gid(i)] \in E
    BY <1>1, <1>2 DEF allocate_gid, EventsUpTo
  <2>2. Starts(new) = [i \in 1..Len(new) |-> [method |-> "Start", gid |-> allocate_gid(i)]]
    BY <1>1 DEF Starts
  <2>3. QED BY <1>1, <2>1, <2>2, IsASeq
<1>11. log' = log \o Starts(new)
  BY DEF Enqueue, emit_event, Starts
<1>12. /\ log' \in Seq(E)
       /\ Len(log') = Len(log) + Len(new)
       /\ \A i \in 1..(Len(log) + Len(new)) :
            log'[i] = IF i <= Len(log) THEN log[i] ELSE Starts(new)[i - Len(log)]
  <2> HIDE DEF E
  <2>1. /\ log \o Starts(new) \in Seq(E)
        /\ Len(log \o Starts(new)) = Len(log) + Len(Starts(new))
        /\ \A i \in 1..(Len(log) + Len(Starts(new))) :
             (log \o Starts(new))[i] =
               IF i <= Len(log) THEN log[i] ELSE Starts(new)[i - Len(log)]
    BY <1>9, <1>10, ConcatProperties
  <2>2. QED BY <1>10, <1>11, <2>1
<1>13. \A i \in 1..Len(log) : log'[i] = log[i]
  BY <1>1, <1>12
<1>14. \A i \in 1..Len(new) :
         log'[Len(log) + i] = [method |-> "Start", gid |-> next_gid + i]
  <2> SUFFICES ASSUME NEW i \in 1..Len(new)
               PROVE  log'[Len(log) + i] = [method |-> "Start", gid |-> next_gid + i]
    OBVIOUS
  <2>1. log'[Len(log) + i] = Starts(new)[i]
    BY <1>1, <1>12
  <2>2. QED BY <1>1, <2>1 DEF Starts, allocate_gid
<1>15. RpcTypeOK'
  BY <1>1, <1>2, <1>7, <1>12 DEF RpcTypeOK, EventsUpTo
<1>16. QED BY <1>2, <1>8, <1>12, <1>13, <1>14, <1>15

LEMMA EventTyped ==
  RpcTypeOK => \A i \in 1..Len(log) : log[i] \in EventsUpTo(next_gid)
                                      /\ log[i].gid \in 1..next_gid
<1> SUFFICES ASSUME RpcTypeOK, NEW i \in 1..Len(log)
             PROVE  log[i] \in EventsUpTo(next_gid) /\ log[i].gid \in 1..next_gid
  OBVIOUS
<1>1. log \in Seq(EventsUpTo(next_gid))
  BY DEF RpcTypeOK, EventsUpTo
<1>2. log[i] \in EventsUpTo(next_gid)
  BY <1>1, ElementOfSeq
<1>3. QED BY <1>2 DEF EventsUpTo

LEMMA EnqueueKeeps ==
  ASSUME RpcInv, NEW new \in Seq(Task),
         Fresh(new), Enqueue(new), UNCHANGED drained, batch' \in Seq(Calls)
  PROVE  RpcInv'
<1>1. /\ RpcTypeOK'
      /\ next_gid' = next_gid + Len(new)
      /\ Len(log') = Len(log) + Len(new)
      /\ \A i \in 1..Len(log) : log'[i] = log[i]
      /\ \A i \in 1..Len(new) :
           log'[Len(log) + i] = [method |-> "Start", gid |-> next_gid + i]
      /\ \A g \in 1..next_gid : tasks'[g] = tasks[g]
      /\ \A g \in (next_gid + 1)..next_gid' : \E i \in DOMAIN new : tasks'[g] = new[i]
  BY EnqueueType DEF RpcInv
<1>2. /\ next_gid \in Nat /\ Len(log) \in Nat /\ Len(new) \in Nat
      /\ DOMAIN new = 1..Len(new) /\ DOMAIN log = 1..Len(log) /\ DOMAIN log' = 1..Len(log')
      /\ DOMAIN tasks = 1..next_gid /\ DOMAIN tasks' = 1..next_gid'
  BY <1>1 DEF RpcInv, RpcTypeOK
<1>3. \A i \in 1..Len(log) : log[i].gid \in 1..next_gid
  BY EventTyped DEF RpcInv
<1>4. \A i \in DOMAIN log' : i > Len(log) =>
        /\ i - Len(log) \in 1..Len(new)
        /\ log'[i] = [method |-> "Start", gid |-> next_gid + (i - Len(log))]
  <2> SUFFICES ASSUME NEW i \in DOMAIN log', i > Len(log)
               PROVE  /\ i - Len(log) \in 1..Len(new)
                      /\ log'[i] = [method |-> "Start", gid |-> next_gid + (i - Len(log))]
    OBVIOUS
  <2>1. i - Len(log) \in 1..Len(new) /\ i = Len(log) + (i - Len(log))
    BY <1>1, <1>2
  <2>2. QED BY <1>1, <2>1
<1>5. AnnouncedOnce'
  <2>1. ASSUME NEW g \in 1..next_gid'
        PROVE  \E i \in DOMAIN log' : log'[i] = [method |-> "Start", gid |-> g]
    <3>1. CASE g \in 1..next_gid
      <4>1. PICK i \in DOMAIN log : log[i] = [method |-> "Start", gid |-> g]
        BY <3>1 DEF RpcInv, AnnouncedOnce
      <4>2. QED BY <1>1, <1>2, <4>1
    <3>2. CASE g \notin 1..next_gid
      <4>1. g - next_gid \in 1..Len(new) /\ g = next_gid + (g - next_gid)
        BY <1>1, <1>2, <3>2
      <4>2. log'[Len(log) + (g - next_gid)] = [method |-> "Start", gid |-> g]
        BY <1>1, <4>1
      <4>3. Len(log) + (g - next_gid) \in DOMAIN log'
        BY <1>1, <1>2, <4>1
      <4>4. QED BY <4>2, <4>3
    <3>3. QED BY <3>1, <3>2
  <2>2. ASSUME NEW i \in DOMAIN log', log'[i].method = "Start", NEW j \in 1..(i - 1)
        PROVE  log'[j].gid < log'[i].gid
    <3>1. CASE i \in DOMAIN log
      BY <1>1, <1>2, <2>2, <3>1 DEF RpcInv, AnnouncedOnce
    <3>2. CASE i > Len(log) /\ j \in DOMAIN log
      <4>1. log'[j].gid \in 1..next_gid
        BY <1>1, <1>2, <1>3, <3>2
      <4>2. log'[i].gid = next_gid + (i - Len(log)) /\ i - Len(log) \in 1..Len(new)
        BY <1>4, <3>2
      <4>3. QED BY <1>2, <4>1, <4>2
    <3>3. CASE i > Len(log) /\ j > Len(log)
      <4>1. /\ log'[i].gid = next_gid + (i - Len(log))
            /\ j \in DOMAIN log'
        BY <1>2, <1>4, <3>3
      <4>2. log'[j].gid = next_gid + (j - Len(log))
        BY <1>4, <3>3, <4>1
      <4>3. QED BY <1>2, <4>1, <4>2
    <3>4. QED BY <1>1, <1>2, <3>1, <3>2, <3>3
  <2>3. QED BY <2>1, <2>2 DEF AnnouncedOnce
<1>6. \A g \in DOMAIN tasks' : g \notin DOMAIN tasks => tasks'[g].status = "waiting"
  <2> SUFFICES ASSUME NEW g \in DOMAIN tasks', g \notin DOMAIN tasks
               PROVE  tasks'[g].status = "waiting"
    OBVIOUS
  <2>1. g \in (next_gid + 1)..next_gid'
    BY <1>1, <1>2
  <2>2. PICK k \in DOMAIN new : tasks'[g] = new[k]
    BY <1>1, <2>1
  <2>3. QED BY <2>2 DEF Fresh
<1>7. OutcomeAnnounced'
  <2> SUFFICES ASSUME NEW g \in DOMAIN tasks', tasks'[g].status \in {"complete", "error"}
               PROVE  \E i \in DOMAIN log' :
                        /\ log'[i].gid = g
                        /\ log'[i].method =
                             (IF tasks'[g].status = "error" THEN "Error" ELSE "Complete")
                        /\ \A j \in (i + 1)..Len(log') : log'[j].gid # g
    BY DEF OutcomeAnnounced
  <2>1. g \in DOMAIN tasks /\ tasks'[g] = tasks[g]
    BY <1>1, <1>2, <1>6
  <2>2. PICK i \in DOMAIN log :
          /\ log[i].gid = g
          /\ log[i].method = (IF tasks[g].status = "error" THEN "Error" ELSE "Complete")
          /\ \A j \in (i + 1)..Len(log) : log[j].gid # g
    BY <2>1 DEF RpcInv, OutcomeAnnounced
  <2>3. ASSUME NEW j \in (i + 1)..Len(log')  PROVE log'[j].gid # g
    <3>1. CASE j \in DOMAIN log
      BY <1>1, <1>2, <2>2, <3>1
    <3>2. CASE j > Len(log)
      <4>1. j \in DOMAIN log'
        BY <1>2, <2>2
      <4>2. log'[j].gid = next_gid + (j - Len(log))
        BY <1>4, <3>2, <4>1
      <4>3. QED BY <1>2, <2>1, <3>2, <4>2
    <3>3. QED BY <1>1, <1>2, <2>2, <3>1, <3>2
  <2>4. i \in DOMAIN log' /\ log'[i] = log[i]
    BY <1>1, <1>2
  <2>5. QED BY <2>1, <2>2, <2>3, <2>4
<1>8. QED BY <1>1, <1>5, <1>7 DEF RpcInv

-----------------------------------------------------------------------------
(* Changing one task *)

LEMMA AnnouncedUnchanged ==
  ASSUME AnnouncedOnce, UNCHANGED <<next_gid, log>>  PROVE AnnouncedOnce'
<1>1. \A g \in 1..next_gid : \E i \in DOMAIN log : log'[i] = [method |-> "Start", gid |-> g]
  BY DEF AnnouncedOnce
<1>2. \A i \in DOMAIN log :
        log[i].method = "Start" => \A j \in 1..(i - 1) : log[j].gid < log[i].gid
  BY DEF AnnouncedOnce
<1>3. QED BY <1>1, <1>2 DEF AnnouncedOnce

\* A status that announces nothing: pause, unpause and remove.
LEMMA StatusKeeps ==
  ASSUME RpcInv, NEW g \in DOMAIN tasks, NEW s \in {"waiting", "paused", "removed"},
         tasks' = [tasks EXCEPT ![g].status = s],
         UNCHANGED <<next_gid, log, drained>>, batch' \in Seq(Calls)
  PROVE  RpcInv'
<1>1. RpcTypeOK'
  BY DEF RpcInv, RpcTypeOK, Task, Status
<1>2. AnnouncedOnce'
  BY AnnouncedUnchanged DEF RpcInv
<1>3. /\ DOMAIN tasks' = DOMAIN tasks
      /\ tasks'[g].status = s
      /\ \A h \in DOMAIN tasks : h # g => tasks'[h].status = tasks[h].status
  BY DEF RpcInv, RpcTypeOK, Task
<1>4. OutcomeAnnounced'
  BY <1>3 DEF RpcInv, OutcomeAnnounced
<1>5. QED BY <1>1, <1>2, <1>4 DEF RpcInv

\* An outcome m of task g, which becomes t.
LEMMA OutcomeKeeps ==
  ASSUME RpcInv, NEW g \in DOMAIN tasks, NEW m \in {"Complete", "Error"}, NEW t \in Task,
         t.status = (IF m = "Error" THEN "error" ELSE "complete"),
         tasks' = [tasks EXCEPT ![g] = t],
         emit_event(<<[method |-> m, gid |-> g]>>),
         UNCHANGED <<next_gid, drained>>, batch' \in Seq(Calls)
  PROVE  RpcInv'
<1> DEFINE e == [method |-> m, gid |-> g]
           E == EventsUpTo(next_gid)
<1>1. /\ next_gid \in Nat /\ Len(log) \in Nat
      /\ DOMAIN tasks = 1..next_gid /\ DOMAIN log = 1..Len(log)
      /\ log \in Seq(E) /\ e \in E
  BY DEF RpcInv, RpcTypeOK, EventsUpTo
<1>2. <<e>> \in Seq(E) /\ Len(<<e>>) = 1 /\ <<e>>[1] = e
  BY <1>1
<1>3. /\ log' \in Seq(E)
      /\ Len(log') = Len(log) + 1
      /\ \A i \in 1..(Len(log) + 1) :
           log'[i] = IF i <= Len(log) THEN log[i] ELSE <<e>>[i - Len(log)]
  <2> HIDE DEF E, e
  <2>1. /\ log \o <<e>> \in Seq(E)
        /\ Len(log \o <<e>>) = Len(log) + Len(<<e>>)
        /\ \A i \in 1..(Len(log) + Len(<<e>>)) :
             (log \o <<e>>)[i] = IF i <= Len(log) THEN log[i] ELSE <<e>>[i - Len(log)]
    BY <1>1, <1>2, ConcatProperties
  <2>2. log' = log \o <<e>>
    BY DEF emit_event, e
  <2>3. QED BY <1>2, <2>1, <2>2
<1>4. /\ DOMAIN log' = 1..(Len(log) + 1)
      /\ log'[Len(log) + 1] = e
      /\ \A i \in 1..Len(log) : log'[i] = log[i]
  <2> HIDE DEF E, e
  <2>1. DOMAIN log' = 1..(Len(log) + 1)
    BY <1>3
  <2>2. log'[Len(log) + 1] = e
    BY <1>1, <1>2, <1>3
  <2>3. \A i \in 1..Len(log) : log'[i] = log[i]
    BY <1>1, <1>3
  <2>4. QED BY <2>1, <2>2, <2>3
<1>5. /\ DOMAIN tasks' = DOMAIN tasks
      /\ tasks' \in [1..next_gid -> Task]
      /\ tasks'[g] = t
      /\ \A h \in DOMAIN tasks : h # g => tasks'[h] = tasks[h]
  BY DEF RpcInv, RpcTypeOK
<1>6. RpcTypeOK'
  BY <1>1, <1>3, <1>5 DEF RpcInv, RpcTypeOK, EventsUpTo
<1>7. AnnouncedOnce'
  <2>1. ASSUME NEW h \in 1..next_gid'
        PROVE  \E i \in DOMAIN log' : log'[i] = [method |-> "Start", gid |-> h]
    <3>1. PICK i \in DOMAIN log : log[i] = [method |-> "Start", gid |-> h]
      BY DEF RpcInv, AnnouncedOnce
    <3>2. QED BY <1>1, <1>4, <3>1
  <2>2. ASSUME NEW i \in DOMAIN log', log'[i].method = "Start", NEW j \in 1..(i - 1)
        PROVE  log'[j].gid < log'[i].gid
    <3>1. i \in DOMAIN log
      BY <1>1, <1>4, <2>2
    <3>2. j \in DOMAIN log
      BY <1>1, <3>1
    <3>3. log'[i] = log[i] /\ log'[j] = log[j]
      BY <1>1, <1>4, <3>1, <3>2
    <3>4. QED BY <2>2, <3>1, <3>3 DEF RpcInv, AnnouncedOnce
  <2>3. QED BY <2>1, <2>2 DEF AnnouncedOnce
<1>8. OutcomeAnnounced'
  <2> SUFFICES ASSUME NEW h \in DOMAIN tasks', tasks'[h].status \in {"complete", "error"}
               PROVE  \E i \in DOMAIN log' :
                        /\ log'[i].gid = h
                        /\ log'[i].method =
                             (IF tasks'[h].status = "error" THEN "Error" ELSE "Complete")
                        /\ \A j \in (i + 1)..Len(log') : log'[j].gid # h
    BY DEF OutcomeAnnounced
  <2>1. CASE h = g
    <3>1. /\ Len(log) + 1 \in DOMAIN log'
          /\ log'[Len(log) + 1].gid = h
          /\ log'[Len(log) + 1].method =
               (IF tasks'[h].status = "error" THEN "Error" ELSE "Complete")
          /\ (Len(log) + 2)..Len(log') = {}
      BY <1>1, <1>3, <1>4, <1>5, <2>1
    <3>2. QED BY <1>1, <3>1
  <2>2. CASE h # g
    <3>1. tasks'[h] = tasks[h] /\ h \in DOMAIN tasks
      BY <1>5, <2>2
    <3>2. PICK i \in DOMAIN log :
            /\ log[i].gid = h
            /\ log[i].method = (IF tasks[h].status = "error" THEN "Error" ELSE "Complete")
            /\ \A j \in (i + 1)..Len(log) : log[j].gid # h
      BY <3>1 DEF RpcInv, OutcomeAnnounced
    <3>3. ASSUME NEW j \in (i + 1)..Len(log')  PROVE log'[j].gid # h
      <4>1. CASE j = Len(log) + 1
        BY <1>4, <2>2, <4>1
      <4>2. CASE j # Len(log) + 1
        <5>1. j \in (i + 1)..Len(log) /\ j \in 1..Len(log)
          BY <1>1, <1>3, <4>2
        <5>2. QED BY <1>4, <3>2, <5>1
      <4>3. QED BY <4>1, <4>2
    <3>4. i \in DOMAIN log' /\ log'[i] = log[i]
      BY <1>1, <1>4
    <3>5. QED BY <3>1, <3>2, <3>3, <3>4
  <2>3. QED BY <2>1, <2>2
<1>9. QED BY <1>6, <1>7, <1>8 DEF RpcInv

-----------------------------------------------------------------------------
(* The actions *)

LEMMA NewTaskType ==
  ASSUME NEW uris \in Seq(UriKind), NEW bt \in {"none", "magnet", "torrent"}
  PROVE  /\ NewTask(uris, bt) \in Task
         /\ NewTask(uris, bt).status = "waiting"
BY DEF NewTask, Task, Status

LEMMA OneNewTask ==
  ASSUME NEW t \in Task, t.status = "waiting"
  PROVE  <<t>> \in Seq(Task) /\ Fresh(<<t>>)
<1>1. DOMAIN <<t>> = {1} /\ <<t>>[1] = t
  OBVIOUS
<1>2. <<t>> \in Seq(Task)
  OBVIOUS
<1>3. QED BY <1>1, <1>2 DEF Fresh

\* The three things a call does: add tasks, change a status, or nothing.
LEMMA EffectCases ==
  ASSUME NEW c \in Calls, Effect(c)
  PROVE  \/ \E new \in Seq(Task) : Fresh(new) /\ Enqueue(new) /\ UNCHANGED drained
         \/ \E g \in DOMAIN tasks, s \in {"waiting", "paused", "removed"} :
              /\ tasks' = [tasks EXCEPT ![g].status = s]
              /\ UNCHANGED <<next_gid, log, drained>>
         \/ UNCHANGED <<next_gid, tasks, log, drained>>
<1>1. CASE add_uri(c)
  <2> DEFINE t == NewTask(c.uris, IF HasKind(c.uris, Magnets) THEN "magnet" ELSE "none")
  <2>1. c.uris \in Seq(UriKind)
    BY <1>1, CallsAssumption DEF add_uri
  <2>2. t \in Task /\ t.status = "waiting"
    BY <2>1, NewTaskType
  <2>3. Enqueue(<<t>>) /\ UNCHANGED drained
    BY <1>1 DEF add_uri
  <2> HIDE DEF t
  <2>4. QED BY <2>2, <2>3, OneNewTask
<1>2. CASE add_torrent(c)
  <2> DEFINE t == NewTask(<<>>, "torrent")
  <2>1. <<>> \in Seq(UriKind)
    OBVIOUS
  <2>2. t \in Task /\ t.status = "waiting"
    BY <2>1, NewTaskType
  <2>3. Enqueue(<<t>>) /\ UNCHANGED drained
    BY <1>2 DEF add_torrent
  <2> HIDE DEF t
  <2>4. QED BY <2>2, <2>3, OneNewTask
<1>3. CASE add_metalink(c)
  <2> DEFINE new == [i \in DOMAIN c.files |-> NewTask(<<c.files[i]>>, "none")]
  <2>1. c.files \in Seq(UriKind)
    BY <1>3, CallsAssumption DEF add_metalink
  <2>2. Len(c.files) \in Nat /\ DOMAIN c.files = 1..Len(c.files)
    BY <2>1
  <2>3. ASSUME NEW i \in DOMAIN c.files
        PROVE  /\ new[i] \in Task
               /\ new[i].status = "waiting"
    <3>1. <<c.files[i]>> \in Seq(UriKind)
      BY <2>1, <2>2
    <3>2. QED BY <3>1, NewTaskType
  <2>4. new \in [1..Len(c.files) -> Task]
    BY <2>2, <2>3
  <2>5. Fresh(new)
    BY <2>3 DEF Fresh
  <2>6. Enqueue(new) /\ UNCHANGED drained
    BY <1>3 DEF add_metalink
  <2> HIDE DEF new
  <2>7. new \in Seq(Task)
    BY <2>2, <2>4, SeqDef
  <2>8. QED BY <2>5, <2>6, <2>7
<1>4. CASE set_status(c)
  <2>1. c.gid \in DOMAIN tasks
    BY <1>4 DEF Effect, Rejected, set_status
  <2>2. StatusOf[c.method] \in {"waiting", "paused", "removed"}
    BY <1>4 DEF set_status, StatusOf
  <2>3. QED BY <1>4, <2>1, <2>2 DEF set_status
<1>5. CASE query(c)
  BY <1>5 DEF query
<1>6. QED BY <1>1, <1>2, <1>3, <1>4, <1>5 DEF Effect

LEMMA UnchangedKeeps ==
  ASSUME RpcInv, UNCHANGED <<next_gid, tasks, log>>, drained' \in 0..Len(log),
         batch' \in Seq(Calls)
  PROVE  RpcInv'
<1>1. RpcTypeOK'
  BY DEF RpcInv, RpcTypeOK
<1>2. AnnouncedOnce'
  BY AnnouncedUnchanged DEF RpcInv
<1>3. OutcomeAnnounced'
  BY DEF RpcInv, OutcomeAnnounced
<1>4. QED BY <1>1, <1>2, <1>3 DEF RpcInv

LEMMA EffectKeeps ==
  ASSUME RpcInv, NEW c \in Calls, Effect(c), batch' \in Seq(Calls)
  PROVE  RpcInv'
<1>1. drained \in 0..Len(log)
  BY DEF RpcInv, RpcTypeOK
<1>2. QED BY <1>1, EffectCases, EnqueueKeeps, StatusKeeps, UnchangedKeeps

LEMMA CallKeeps ==
  ASSUME RpcInv, NEW c \in Calls, call(c)
  PROVE  RpcInv'
<1>1. batch \in Seq(Calls) /\ drained \in 0..Len(log)
  BY DEF RpcInv, RpcTypeOK
<1>2. CASE Effect(c) /\ UNCHANGED batch
  BY <1>1, <1>2, EffectKeeps
<1>3. CASE Rejected(c) /\ UNCHANGED rpcVars
  BY <1>1, <1>3, UnchangedKeeps DEF rpcVars
<1>4. CASE c.method = "multicall" /\ batch' = c.calls
           /\ UNCHANGED <<next_gid, tasks, log, drained>>
  BY <1>1, <1>4, CallsAssumption, UnchangedKeeps
<1>5. QED BY <1>2, <1>3, <1>4 DEF call

LEMMA MulticallKeeps ==
  ASSUME RpcInv, multicall
  PROVE  RpcInv'
<1> DEFINE c == Head(batch)
<1>1. /\ batch \in Seq(Calls) /\ c \in Calls /\ Tail(batch) \in Seq(Calls)
      /\ drained \in 0..Len(log)
  BY HeadTailProperties DEF RpcInv, RpcTypeOK, multicall
<1> HIDE DEF c
<1>2. CASE Effect(c) /\ batch' = Tail(batch)
  BY <1>1, <1>2, EffectKeeps
<1>3. CASE Rejected(c) /\ batch' = <<>> /\ UNCHANGED <<next_gid, tasks, log, drained>>
  BY <1>1, <1>3, UnchangedKeeps, EmptySeq
<1>4. CASE c.method = "multicall" /\ batch' = c.calls \o Tail(batch)
           /\ UNCHANGED <<next_gid, tasks, log, drained>>
  <2>1. c.calls \in Seq(Calls)
    BY <1>1, <1>4, CallsAssumption
  <2>2. batch' \in Seq(Calls)
    BY <1>1, <1>4, <2>1, ConcatProperties
  <2>3. QED BY <1>1, <1>4, <2>2, UnchangedKeeps
<1>5. QED BY <1>2, <1>3, <1>4 DEF multicall, c

LEMMA CompleteKeeps ==
  ASSUME RpcInv, NEW g, NEW n \in Nat, complete_task(g, n)
  PROVE  RpcInv'
<1> DEFINE t == [tasks[g] EXCEPT !.status = "complete", !.completed = n]
<1>1. g \in DOMAIN tasks /\ tasks[g] \in Task /\ batch' \in Seq(Calls)
  BY DEF complete_task, RpcInv, RpcTypeOK
<1>2. t \in Task /\ t.status = "complete"
  BY <1>1 DEF Task, Status
<1>3. tasks' = [tasks EXCEPT ![g] = t]
  BY <1>1 DEF complete_task, RpcInv, RpcTypeOK, Task
<1>4. /\ emit_event(<<[method |-> "Complete", gid |-> g]>>)
      /\ UNCHANGED <<next_gid, drained>>
  BY DEF complete_task
<1> HIDE DEF t
<1>5. QED BY <1>1, <1>2, <1>3, <1>4, OutcomeKeeps

LEMMA FailKeeps ==
  ASSUME RpcInv, NEW g, fail_task(g)
  PROVE  RpcInv'
<1> DEFINE t == [tasks[g] EXCEPT !.status = "error", !.error_message = TRUE]
<1>1. g \in DOMAIN tasks /\ tasks[g] \in Task /\ batch' \in Seq(Calls)
  BY DEF fail_task, RpcInv, RpcTypeOK
<1>2. t \in Task /\ t.status = "error"
  BY <1>1 DEF Task, Status
<1>3. tasks' = [tasks EXCEPT ![g] = t]
  BY <1>1 DEF fail_task, RpcInv, RpcTypeOK, Task
<1>4. /\ emit_event(<<[method |-> "Error", gid |-> g]>>)
      /\ UNCHANGED <<next_gid, drained>>
  BY DEF fail_task
<1> HIDE DEF t
<1>5. QED BY <1>1, <1>2, <1>3, <1>4, OutcomeKeeps

-----------------------------------------------------------------------------
(* The theorems *)

LEMMA RpcInitInv == RpcInit => RpcInv
BY EmptySeq DEF RpcInit, RpcInv, RpcTypeOK, AnnouncedOnce, OutcomeAnnounced

LEMMA RpcStepInv == RpcInv /\ [RpcNext]_rpcVars => RpcInv'
<1> SUFFICES ASSUME RpcInv, [RpcNext]_rpcVars  PROVE RpcInv'
  OBVIOUS
<1>1. ASSUME NEW c \in Calls, Call(c)  PROVE RpcInv'
  BY <1>1, CallKeeps DEF Call
<1>2. CASE multicall
  BY <1>2, MulticallKeeps
<1>3. CASE Outcome
  BY <1>3, CompleteKeeps, FailKeeps, LengthsAssumption DEF Outcome
<1>4. CASE drain_events
  BY <1>4, UnchangedKeeps DEF drain_events, RpcInv, RpcTypeOK
<1>5. CASE UNCHANGED rpcVars
  BY <1>5, UnchangedKeeps DEF rpcVars, RpcInv, RpcTypeOK
<1>6. QED BY <1>1, <1>2, <1>3, <1>4, <1>5 DEF RpcNext

THEOREM RpcInvariant == RpcSpec => []RpcInv
BY RpcInitInv, RpcStepInv, PTL DEF RpcSpec

\* The engine's state has its type in every behaviour: among other things, the
\* table holds exactly the gids 1 to next_gid.
THEOREM RpcTypeCorrect == RpcSpec => []RpcTypeOK
<1>1. RpcInv => RpcTypeOK
  BY DEF RpcInv
<1>2. QED BY <1>1, RpcInvariant, PTL

\* Every task is announced exactly once, first and in gid order, whatever
\* becomes of the call or the multicall that added it.
THEOREM AnnouncedOnceAlways == RpcSpec => []AnnouncedOnce
<1>1. RpcInv => AnnouncedOnce
  BY DEF RpcInv
<1>2. QED BY <1>1, RpcInvariant, PTL

\* The last notification about a finished task says how it finished.
THEOREM OutcomeAlwaysAnnounced == RpcSpec => []OutcomeAnnounced
<1>1. RpcInv => OutcomeAnnounced
  BY DEF RpcInv
<1>2. QED BY <1>1, RpcInvariant, PTL

\* No step forgets a task, what it downloads, or a notification.
LEMMA AppendKeepsLog ==
  ASSUME RpcTypeOK, NEW S, NEW es \in Seq(S), log \in Seq(S), emit_event(es)
  PROVE  \A i \in DOMAIN log : i \in DOMAIN log' /\ log'[i] = log[i]
<1>1. /\ Len(log') = Len(log) + Len(es) /\ log' \in Seq(S)
      /\ \A i \in 1..(Len(log) + Len(es)) :
           log'[i] = IF i <= Len(log) THEN log[i] ELSE es[i - Len(log)]
  BY ConcatProperties DEF emit_event
<1>2. QED BY <1>1

LEMMA OutcomeKeepsHistory ==
  ASSUME RpcTypeOK, NEW g \in DOMAIN tasks, NEW m \in {"Complete", "Error"},
         emit_event(<<[method |-> m, gid |-> g]>>),
         DOMAIN tasks' = DOMAIN tasks,
         \A h \in DOMAIN tasks : /\ tasks'[h].uris = tasks[h].uris
                                 /\ tasks'[h].bt = tasks[h].bt
  PROVE  KeepsHistory
<1>1. log \in Seq(EventsUpTo(next_gid)) /\ [method |-> m, gid |-> g] \in EventsUpTo(next_gid)
  BY DEF RpcTypeOK, EventsUpTo
<1>2. <<[method |-> m, gid |-> g]>> \in Seq(EventsUpTo(next_gid))
  BY <1>1
<1>3. QED BY <1>1, <1>2, AppendKeepsLog DEF KeepsHistory

LEMMA EnqueueKeepsHistory ==
  ASSUME RpcTypeOK, NEW new \in Seq(Task), Enqueue(new), UNCHANGED drained,
         batch' \in Seq(Calls)
  PROVE  KeepsHistory
<1>1. /\ RpcTypeOK'
      /\ next_gid' = next_gid + Len(new)
      /\ Len(log') = Len(log) + Len(new)
      /\ \A i \in 1..Len(log) : log'[i] = log[i]
      /\ \A g \in 1..next_gid : tasks'[g] = tasks[g]
  BY EnqueueType
<1>2. /\ next_gid \in Nat /\ Len(log) \in Nat /\ Len(new) \in Nat
      /\ DOMAIN log = 1..Len(log) /\ DOMAIN log' = 1..Len(log')
      /\ DOMAIN tasks = 1..next_gid /\ DOMAIN tasks' = 1..next_gid'
  BY <1>1 DEF RpcTypeOK
<1>3. QED BY <1>1, <1>2 DEF KeepsHistory

LEMMA EffectKeepsHistory ==
  ASSUME RpcTypeOK, NEW c \in Calls, Effect(c), batch' \in Seq(Calls)
  PROVE  KeepsHistory
<1>1. ASSUME NEW g \in DOMAIN tasks, NEW s \in {"waiting", "paused", "removed"},
             tasks' = [tasks EXCEPT ![g].status = s], UNCHANGED log
      PROVE  KeepsHistory
  BY <1>1 DEF KeepsHistory, RpcTypeOK, Task
<1>2. UNCHANGED <<tasks, log>> => KeepsHistory
  BY DEF KeepsHistory
<1>3. QED BY <1>1, <1>2, EffectCases, EnqueueKeepsHistory

LEMMA StepKeepsHistory == RpcInv /\ [RpcNext]_rpcVars => [KeepsHistory]_rpcVars
<1> SUFFICES ASSUME RpcInv, [RpcNext]_rpcVars  PROVE KeepsHistory
  OBVIOUS
<1>0. RpcTypeOK /\ RpcTypeOK'
  BY RpcStepInv DEF RpcInv
<1>1. UNCHANGED <<tasks, log>> => KeepsHistory
  BY DEF KeepsHistory
<1>2. batch' \in Seq(Calls)
  BY <1>0 DEF RpcTypeOK
<1>3. ASSUME NEW c \in Calls, Call(c)  PROVE KeepsHistory
  BY <1>0, <1>1, <1>2, <1>3, EffectKeepsHistory DEF Call, call, rpcVars
<1>4. CASE multicall
  <2>1. Head(batch) \in Calls
    BY <1>0, <1>4, HeadTailProperties DEF RpcTypeOK, multicall
  <2>2. QED BY <1>0, <1>1, <1>2, <1>4, <2>1, EffectKeepsHistory DEF multicall
<1>5. ASSUME NEW g \in DOMAIN tasks, NEW n, complete_task(g, n)  PROVE KeepsHistory
  <2>1. /\ DOMAIN tasks' = DOMAIN tasks
        /\ \A h \in DOMAIN tasks : /\ tasks'[h].uris = tasks[h].uris
                                   /\ tasks'[h].bt = tasks[h].bt
    BY <1>0, <1>5 DEF complete_task, RpcTypeOK, Task
  <2>2. QED BY <1>0, <1>5, <2>1, OutcomeKeepsHistory DEF complete_task
<1>6. ASSUME NEW g \in DOMAIN tasks, fail_task(g)  PROVE KeepsHistory
  <2>1. /\ DOMAIN tasks' = DOMAIN tasks
        /\ \A h \in DOMAIN tasks : /\ tasks'[h].uris = tasks[h].uris
                                   /\ tasks'[h].bt = tasks[h].bt
    BY <1>0, <1>6 DEF fail_task, RpcTypeOK, Task
  <2>2. QED BY <1>0, <1>6, <2>1, OutcomeKeepsHistory DEF fail_task
<1>7. CASE drain_events
  BY <1>1, <1>7 DEF drain_events
<1>8. CASE UNCHANGED rpcVars
  BY <1>1, <1>8 DEF rpcVars
<1>9. QED BY <1>3, <1>4, <1>5, <1>6, <1>7, <1>8 DEF RpcNext, Outcome

\* Tasks and notifications are only ever added, and a gid keeps meaning the
\* same download.
THEOREM HistoryAlwaysKept == RpcSpec => HistoryKept
BY RpcInvariant, StepKeepsHistory, PTL DEF HistoryKept, RpcSpec

-----------------------------------------------------------------------------
(* A pass: the invariant *)

\* No task waits for a stage that is over.
EarlierStagesEmpty == \A s \in 1..LastStage : s < stage => Pending(s) = {}

EngineInv ==
  /\ RpcInv
  /\ stage \in 0..LastStage
  /\ stage = 0 => todo = {}
  /\ SnapshotExact
  /\ EarlierStagesEmpty

-----------------------------------------------------------------------------
(* Lemmas *)

LEMMA CurrentInTodo ==
  ASSUME EngineInv, todo # {}
  PROVE  /\ stage \in 1..LastStage
         /\ Current \in Pending(stage) /\ Current \in todo
         /\ tasks[Current].status = "waiting"
         /\ Current \in DOMAIN tasks
<1>1. stage \in 1..LastStage /\ todo = Pending(stage)
  BY DEF EngineInv, SnapshotExact, LastStage
<1>2. todo \subseteq Nat
  BY <1>1 DEF Pending, EngineInv, RpcInv, RpcTypeOK
<1>3. PICK g \in todo : \A h \in todo : ~ (<<h, g>> \in OpToRel(<, Nat))
  BY <1>2, NatLessThanWellFounded, WFMin
<1>4. ASSUME NEW h \in todo  PROVE g <= h
  <2>1. h \in Nat /\ g \in Nat
    BY <1>2
  <2>2. ~ (h < g)
    BY <1>3, <2>1, Zenon DEF OpToRel
  <2>3. QED BY <2>1, <2>2
<1>5. Current \in todo
  BY <1>4 DEF Current
<1>6. QED BY <1>1, <1>5 DEF Pending

\* A finished task leaves every snapshot it is in, and no other task does.
LEMMA PendingAfterOutcome ==
  ASSUME RpcTypeOK, NEW g \in DOMAIN tasks,
         DOMAIN tasks' = DOMAIN tasks,
         tasks'[g].status # "waiting",
         \A h \in DOMAIN tasks \ {g} : tasks'[h] = tasks[h],
         NEW s
  PROVE  Pending(s)' = Pending(s) \ {g}
BY DEF Pending, Serves, HasKind, LastStage

LEMMA OutcomeKeepsStages ==
  ASSUME EngineInv, todo # {}, RpcInv',
         DOMAIN tasks' = DOMAIN tasks,
         tasks'[Current].status # "waiting",
         \A h \in DOMAIN tasks \ {Current} : tasks'[h] = tasks[h],
         todo' = todo \ {Current}, UNCHANGED stage
  PROVE  EngineInv'
<1> DEFINE g == Current
<1>1. stage \in 1..LastStage /\ g \in DOMAIN tasks
  BY CurrentInTodo
<1> HIDE DEF g
<1>2. \A s \in 1..LastStage : Pending(s)' = Pending(s) \ {g}
  BY <1>1, PendingAfterOutcome DEF EngineInv, RpcInv, g
<1>3. SnapshotExact'
  BY <1>1, <1>2 DEF EngineInv, SnapshotExact, g
<1>4. EarlierStagesEmpty'
  BY <1>2 DEF EngineInv, EarlierStagesEmpty, LastStage
<1>5. QED BY <1>1, <1>3, <1>4 DEF EngineInv, LastStage

\* Steps that leave the engine's own state alone leave the snapshots alone.
LEMMA PendingUnchanged ==
  ASSUME UNCHANGED tasks, NEW s  PROVE Pending(s)' = Pending(s)
BY DEF Pending, Serves, HasKind

-----------------------------------------------------------------------------
(* The invariant *)

LEMMA EngineInitInv == EngineInit => EngineInv
BY RpcInitInv DEF EngineInit, EngineInv, SnapshotExact, EarlierStagesEmpty, LastStage

LEMMA EngineStepInv == EngineInv /\ [EngineNext]_engineVars => EngineInv'
<1> SUFFICES ASSUME EngineInv, [EngineNext]_engineVars  PROVE EngineInv'
  OBVIOUS
<1> USE DEF LastStage
<1>1. ASSUME stage = 0, RpcInv', UNCHANGED passVars  PROVE EngineInv'
  BY <1>1 DEF EngineInv, passVars, SnapshotExact, EarlierStagesEmpty
<1>2. ASSUME NEW c \in Calls, EngineCall(c)  PROVE EngineInv'
  BY <1>1, <1>2, CallKeeps DEF EngineCall, Call, EngineInv
<1>3. CASE stage = 0 /\ multicall /\ UNCHANGED passVars
  BY <1>1, <1>3, MulticallKeeps DEF EngineInv
<1>4. UNCHANGED rpcVars => RpcInv'
  BY UnchangedKeeps DEF rpcVars, EngineInv, RpcInv, RpcTypeOK
<1>5. CASE BeginPass
  <2>1. Pending(1)' = Pending(1)
    BY <1>5, PendingUnchanged DEF BeginPass, rpcVars
  <2>2. SnapshotExact'
    BY <1>5, <2>1 DEF BeginPass, SnapshotExact
  <2>3. EarlierStagesEmpty'
    BY <1>5 DEF BeginPass, EarlierStagesEmpty
  <2>4. QED BY <1>4, <1>5, <2>2, <2>3 DEF BeginPass, EngineInv
<1>6. CASE Finish
  <2>1. PICK n \in Lengths : complete_task(Current, n)
    BY <1>6 DEF Finish
  <2>2. RpcInv'
    BY <2>1, CompleteKeeps, LengthsAssumption DEF EngineInv
  <2>3. /\ DOMAIN tasks' = DOMAIN tasks
        /\ tasks'[Current].status # "waiting"
        /\ \A h \in DOMAIN tasks \ {Current} : tasks'[h] = tasks[h]
    <3> DEFINE g == Current
    <3>1. complete_task(g, n) /\ g \in DOMAIN tasks /\ tasks[g] \in Task
      BY <2>1 DEF complete_task, EngineInv, RpcInv, RpcTypeOK
    <3> HIDE DEF g
    <3>2. /\ DOMAIN tasks' = DOMAIN tasks
          /\ tasks'[g].status = "complete"
          /\ \A h \in DOMAIN tasks \ {g} : tasks'[h] = tasks[h]
      BY <3>1 DEF complete_task, Task
    <3>3. QED BY <3>2 DEF g
  <2>4. QED BY <1>6, <2>2, <2>3, OutcomeKeepsStages DEF Finish
<1>7. CASE Mismatch
  <2>1. fail_task(Current)
    BY <1>7 DEF Mismatch
  <2>2. RpcInv'
    BY <2>1, FailKeeps DEF EngineInv
  <2>3. /\ DOMAIN tasks' = DOMAIN tasks
        /\ tasks'[Current].status # "waiting"
        /\ \A h \in DOMAIN tasks \ {Current} : tasks'[h] = tasks[h]
    <3> DEFINE g == Current
    <3>1. fail_task(g) /\ g \in DOMAIN tasks /\ tasks[g] \in Task
      BY <2>1 DEF fail_task, EngineInv, RpcInv, RpcTypeOK
    <3> HIDE DEF g
    <3>2. /\ DOMAIN tasks' = DOMAIN tasks
          /\ tasks'[g].status = "error"
          /\ \A h \in DOMAIN tasks \ {g} : tasks'[h] = tasks[h]
      BY <3>1 DEF fail_task, Task
    <3>3. QED BY <3>2 DEF g
  <2>4. QED BY <1>7, <2>2, <2>3, OutcomeKeepsStages DEF Mismatch
<1>8. CASE NextStage
  <2>1. \A s \in 1..LastStage : Pending(s)' = Pending(s)
    BY <1>8, PendingUnchanged DEF NextStage, rpcVars
  <2>2. Pending(stage) = {} /\ stage' \in 1..LastStage
    BY <1>8 DEF NextStage, EngineInv, SnapshotExact
  <2>3. SnapshotExact'
    BY <1>8, <2>1, <2>2 DEF NextStage, SnapshotExact
  <2>4. EarlierStagesEmpty'
    <3> SUFFICES ASSUME NEW s \in 1..LastStage, s < stage'  PROVE Pending(s)' = {}
      BY DEF EarlierStagesEmpty
    <3>1. s < stage \/ s = stage
      BY <1>8 DEF NextStage
    <3>2. QED BY <2>1, <2>2, <3>1 DEF EngineInv, EarlierStagesEmpty
  <2>5. QED BY <1>4, <1>8, <2>2, <2>3, <2>4 DEF NextStage, EngineInv
<1>9. ASSUME stage' = 0, todo' = {}, UNCHANGED rpcVars  PROVE EngineInv'
  BY <1>4, <1>9 DEF EngineInv, SnapshotExact, EarlierStagesEmpty
<1>10. CASE EndPass
  BY <1>9, <1>10 DEF EndPass
<1>11. CASE AbortPass
  BY <1>9, <1>11 DEF AbortPass
<1>12. CASE UNCHANGED engineVars
  <2>1. \A s \in 1..LastStage : Pending(s)' = Pending(s)
    BY <1>12, PendingUnchanged DEF engineVars, rpcVars
  <2>2. QED BY <1>4, <1>12, <2>1
            DEF engineVars, passVars, EngineInv, SnapshotExact, EarlierStagesEmpty
<1>13. QED BY <1>2, <1>3, <1>5, <1>6, <1>7, <1>8, <1>10, <1>11, <1>12
           DEF EngineNext, EngineStep

THEOREM EngineInvariant == EngineSpec => []EngineInv
BY EngineInitInv, EngineStepInv, PTL DEF EngineSpec

-----------------------------------------------------------------------------
(* The theorems *)

LEMMA EngineInvImplies == EngineInv => EngineTypeOK /\ NothingRunnableLeft
<1> SUFFICES ASSUME EngineInv  PROVE EngineTypeOK /\ NothingRunnableLeft
  OBVIOUS
<1>1. todo \subseteq 1..next_gid
  BY DEF EngineInv, SnapshotExact, Pending, RpcInv, RpcTypeOK
<1>2. ASSUME stage = LastStage, todo = {}, NEW s \in 1..LastStage  PROVE Pending(s) = {}
  <2>1. s < stage \/ s = stage
    BY <1>2 DEF LastStage
  <2>2. QED BY <1>2, <2>1 DEF EngineInv, SnapshotExact, EarlierStagesEmpty, LastStage
<1>3. QED BY <1>1, <1>2 DEF EngineInv, EngineTypeOK, NothingRunnableLeft, RpcInv

THEOREM EngineTypeCorrect == EngineSpec => []EngineTypeOK
BY EngineInvariant, EngineInvImplies, PTL

\* What a stage still has to run is at all times exactly what waits for it.
THEOREM SnapshotAlwaysExact == EngineSpec => []SnapshotExact
<1>1. EngineInv => SnapshotExact
  BY DEF EngineInv
<1>2. QED BY <1>1, EngineInvariant, PTL

\* A pass that is not cut short leaves no runnable task waiting.
THEOREM PassIsComplete == EngineSpec => []NothingRunnableLeft
BY EngineInvariant, EngineInvImplies, PTL

\* What the engine alone guarantees holds under the download pass as well.
THEOREM EngineKeepsRpcProperties ==
  EngineSpec => [](AnnouncedOnce /\ OutcomeAnnounced)
<1>1. EngineInv => AnnouncedOnce /\ OutcomeAnnounced
  BY DEF EngineInv, RpcInv
<1>2. QED BY <1>1, EngineInvariant, PTL

-----------------------------------------------------------------------------
(* Outcomes *)

LEMMA EffectOutcomes ==
  ASSUME RpcTypeOK, NEW c \in Calls, Effect(c), batch' \in Seq(Calls)
  PROVE  OutcomesFromWaiting
<1>1. log' = log => OutcomesFromWaiting
  BY DEF RpcTypeOK, OutcomesFromWaiting
<1>2. ASSUME NEW new \in Seq(Task), Enqueue(new), UNCHANGED drained
      PROVE  OutcomesFromWaiting
  <2>1. /\ Len(log') = Len(log) + Len(new)
        /\ \A i \in 1..Len(new) :
             log'[Len(log) + i] = [method |-> "Start", gid |-> next_gid + i]
    BY <1>2, EnqueueType
  <2>2. Len(log) \in Nat /\ Len(new) \in Nat
    BY <1>2 DEF RpcTypeOK
  <2>3. ASSUME NEW i \in (Len(log) + 1)..Len(log')  PROVE log'[i].method = "Start"
    <3>1. i - Len(log) \in 1..Len(new) /\ i = Len(log) + (i - Len(log))
      BY <2>1, <2>2
    <3>2. log'[i] = [method |-> "Start", gid |-> next_gid + (i - Len(log))]
      BY <2>1, <3>1
    <3>3. QED BY <3>2
  <2>4. QED BY <2>3 DEF OutcomesFromWaiting
<1>3. QED BY <1>1, <1>2, EffectCases

LEMMA OneOutcome ==
  ASSUME EngineInv, todo # {}, NEW m, emit_event(<<[method |-> m, gid |-> Current]>>)
  PROVE  OutcomesFromWaiting
<1> DEFINE g == Current
           e == [method |-> m, gid |-> g]
<1>1. tasks[g].status = "waiting"
  BY CurrentInTodo
<1>2. Len(log) \in Nat
  BY DEF EngineInv, RpcInv, RpcTypeOK
<1> HIDE DEF g
<1>3. log' = log \o <<e>>
  BY DEF emit_event, g
<1>4. Len(log') = Len(log) + 1 /\ log'[Len(log) + 1] = e
  <2>1. e \in {e} \cup EventsUpTo(next_gid) /\ log \in Seq({e} \cup EventsUpTo(next_gid))
    <3>1. log \in Seq(EventsUpTo(next_gid))
      BY DEF EngineInv, RpcInv, RpcTypeOK, EventsUpTo
    <3> HIDE DEF e
    <3>2. QED BY <3>1, SeqMonotonic
  <2> HIDE DEF e
  <2>2. <<e>> \in Seq({e} \cup EventsUpTo(next_gid)) /\ Len(<<e>>) = 1 /\ <<e>>[1] = e
    BY <2>1
  <2>3. /\ Len(log \o <<e>>) = Len(log) + Len(<<e>>)
        /\ \A i \in 1..(Len(log) + Len(<<e>>)) :
             (log \o <<e>>)[i] = IF i <= Len(log) THEN log[i] ELSE <<e>>[i - Len(log)]
    BY <2>1, <2>2, ConcatProperties
  <2>4. QED BY <1>2, <1>3, <2>2, <2>3
<1>5. ASSUME NEW i \in (Len(log) + 1)..Len(log')  PROVE log'[i].gid = g
  <2>1. i = Len(log) + 1
    BY <1>2, <1>4
  <2>2. QED BY <1>4, <2>1
<1>6. QED BY <1>1, <1>5 DEF OutcomesFromWaiting

LEMMA StepOutcomes == EngineInv /\ [EngineNext]_engineVars => [OutcomesFromWaiting]_engineVars
<1> SUFFICES ASSUME EngineInv, [EngineNext]_engineVars  PROVE OutcomesFromWaiting
  OBVIOUS
<1>0. RpcTypeOK /\ batch' \in Seq(Calls)
  BY EngineStepInv DEF EngineInv, RpcInv, RpcTypeOK
<1>1. log' = log => OutcomesFromWaiting
  BY <1>0 DEF RpcTypeOK, OutcomesFromWaiting
<1>2. ASSUME NEW c \in Calls, EngineCall(c)  PROVE OutcomesFromWaiting
  BY <1>0, <1>1, <1>2, EffectOutcomes DEF EngineCall, Call, call, rpcVars
<1>3. CASE multicall
  <2>1. Head(batch) \in Calls
    BY <1>0, <1>3, HeadTailProperties DEF RpcTypeOK, multicall
  <2>2. QED BY <1>0, <1>1, <1>3, <2>1, EffectOutcomes DEF multicall
<1>4. CASE Finish
  BY <1>4, OneOutcome DEF Finish, complete_task
<1>5. CASE Mismatch
  BY <1>5, OneOutcome DEF Mismatch, fail_task
<1>6. CASE BeginPass \/ NextStage \/ EndPass \/ AbortPass \/ UNCHANGED engineVars
  BY <1>1, <1>6 DEF BeginPass, NextStage, EndPass, AbortPass, engineVars, rpcVars
<1>7. QED BY <1>2, <1>3, <1>4, <1>5, <1>6 DEF EngineNext, EngineStep

\* No task is finished or failed that was not waiting until then.
THEOREM OutcomeAlwaysFromWaiting == EngineSpec => OutcomeOnlyFromWaiting
BY EngineInvariant, StepOutcomes, PTL DEF OutcomeOnlyFromWaiting, EngineSpec
=============================================================================
