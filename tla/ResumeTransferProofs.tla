------------------------ MODULE ResumeTransferProofs ------------------------
(***************************************************************************)
(* Proofs about ResumeTransfer, for files of every length and any number   *)
(* of attempts, crashes and late writes.  The invariant follows an attempt *)
(* from step to step: what it resumes from is what the control file tells, *)
(* what it received continues that, and what it stored begins as the       *)
(* remote file does.                                                       *)
(***************************************************************************)
EXTENDS ResumeTransfer, SequenceTheorems, TLAPS

USE LengthAssumption, TasksAssumption, OldFilesAssumption

-----------------------------------------------------------------------------
(* Files *)

First(f, k) == [i \in 1..k |-> <<f, i>>]

LEMMA TaskFile == TransferTypeOK => task.file \in Files
BY DEF TransferTypeOK, TaskShape

\* What a range is.
LEMMA FromType ==
  ASSUME task.file \in Files, NEW k \in 0..Length
  PROVE  /\ From(k) \in Seq(Bytes)
         /\ Len(From(k)) = Length - k
BY DEF From, Bytes

\* A file in two parts.
LEMMA FirstAndFrom ==
  ASSUME task.file \in Files, NEW k \in 0..Length
  PROVE  First(task.file, k) \o From(k) = Remote
<1>1. /\ First(task.file, k) \in Seq(Bytes) /\ Len(First(task.file, k)) = k
      /\ From(k) \in Seq(Bytes) /\ Len(From(k)) = Length - k
      /\ Remote \in Seq(Bytes) /\ Len(Remote) = Length
  BY DEF First, From, Remote, Bytes
<1>2. /\ First(task.file, k) \o From(k) \in Seq(Bytes)
      /\ Len(First(task.file, k) \o From(k)) = Length
  BY <1>1
<1>3. \A i \in 1..Length : (First(task.file, k) \o From(k))[i] = Remote[i]
  BY <1>1 DEF First, From, Remote
<1> QED
  BY <1>1, <1>2, <1>3, SeqEqual

\* The remote file begins with its own bytes.
LEMMA RemoteBegins == Begins(Remote, task.file, Length)
BY DEF Begins, Remote, From

\* A byte at the end changes nothing at the front.
LEMMA AppendBegins ==
  ASSUME NEW s \in Seq(Bytes), NEW x \in Bytes, NEW f, NEW n \in Nat, Begins(s, f, n)
  PROVE  Begins(Append(s, x), f, n)
BY DEF Begins

\* Moving a byte from what is to be written to what is.
LEMMA MoveByte ==
  ASSUME NEW s \in Seq(Bytes), NEW p \in Seq(Bytes), p # <<>>
  PROVE  /\ Append(s, Head(p)) \o Tail(p) = s \o p
         /\ Head(p) \in Bytes
         /\ Tail(p) \in Seq(Bytes)
<1>1. /\ Head(p) \in Bytes /\ Tail(p) \in Seq(Bytes) /\ Len(Tail(p)) = Len(p) - 1
  OBVIOUS
<1>2. /\ Append(s, Head(p)) \o Tail(p) \in Seq(Bytes)
      /\ s \o p \in Seq(Bytes)
      /\ Len(Append(s, Head(p)) \o Tail(p)) = Len(s \o p)
  BY <1>1
<1>3. \A i \in 1..Len(s \o p) : (Append(s, Head(p)) \o Tail(p))[i] = (s \o p)[i]
  BY <1>1, <1>2
<1>4. Append(s, Head(p)) \o Tail(p) = s \o p
  BY <1>2, <1>3, SeqEqual
<1> QED
  BY <1>1, <1>4

\* Taking the first byte off one of the appends that are under way.
LEMMA TakeByte ==
  ASSUME NEW q \in Seq(Seq(Bytes)), NEW i \in 1..Len(q), q[i] # <<>>
  PROVE  LET r == [q EXCEPT ![i] = Tail(@)]
         IN  /\ r \in Seq(Seq(Bytes))
             /\ Len(r) = Len(q)
             /\ r[i] = Tail(q[i])
<1> DEFINE r == [q EXCEPT ![i] = Tail(@)]
<1>1. q[i] \in Seq(Bytes)
  OBVIOUS
<1>2. Tail(q[i]) \in Seq(Bytes)
  BY <1>1, HeadTailProperties, Zenon
<1>3. r = [q EXCEPT ![i] = Tail(q[i])]
  OBVIOUS
<1> QED
  BY <1>2, <1>3, ExceptSeq

\* One append at most: any append is the first and only one.
LEMMA OnlyOne ==
  ASSUME NEW n \in Nat, NEW i \in 1..n, n <= 1
  PROVE  i = 1 /\ n = 1
OBVIOUS

-----------------------------------------------------------------------------
(* The invariant *)

\* A task being run is waiting.
Running == phase # "idle" => status = "waiting"

\* An attempt resumes from what the control file tells, up to its removal.
Resuming == phase \in {"download", "finish", "verify", "cleanup"} => completed = control

\* The bytes received continue those the control file vouches for; from a server
\* that ignores ranges they are the whole file.
Received ==
  phase = "finish" =>
    /\ bytes \in {From(0), From(completed)}
    /\ HonoursRange => bytes = From(completed)

\* What a fresh attempt stored.
Stored == phase \in {"verify", "cleanup", "report"} /\ completed = 0 => Begins(out, task.file, Length)

\* What a checksum verified.
Verified ==
  phase \in {"cleanup", "report"} /\ verdict = "complete" /\ task.checksum = "sha-256"
    => Begins(out, task.file, Length)

\* Up to its end the first attempt finds the file as the earlier session left it.
FirstFinds ==
  attempts = 0 \/ (attempts = 1 /\ phase \in {"download", "finish"}) =>
    /\ pending = <<>>
    /\ control > 0 => out = First(origin, control)

NotYet == attempts = 0 => phase = "idle" /\ status = "waiting"

\* The append of the first attempt, as far as it is not written.
Rest == IF pending = <<>> THEN <<>> ELSE pending[1]

\* The first attempt, from storing to completion: what is in the file and what is
\* on its way make up the remote file.
FirstStores ==
  /\ attempts = 1 /\ HonoursRange /\ ~lost
  /\ phase \in {"verify", "cleanup", "report"} \/ status = "complete"
  => /\ Len(pending) <= 1
     /\ out \o Rest = Remote
     /\ completed + Len(bytes) = Length
     /\ status = "complete" => completed_length = Length

TransferInv ==
  /\ TransferTypeOK
  /\ ControlBacked
  /\ Running
  /\ Resuming
  /\ Received
  /\ Stored
  /\ Verified
  /\ CompleteHolds
  /\ FirstFinds
  /\ NotYet
  /\ FirstStores

\* Steps that touch neither the file nor what is on its way to it, and leave the
\* task as it is.
LEMMA QuietKeeps ==
  ASSUME TransferInv,
         UNCHANGED <<task, out, pending, lost, entry>>,
         \/ control_completed_length
         \/ download
         \/ checksum_error
         \/ remove_control
         \/ Abort
  PROVE  TransferInv'
<1> USE DEF entry
<1>1. CASE control_completed_length
  <2>1. TransferTypeOK' /\ ControlBacked' /\ Running' /\ Resuming' /\ CompleteHolds'
    BY <1>1 DEF TransferInv, TransferTypeOK, ControlBacked, Begins, Running, Resuming,
                CompleteHolds, control_completed_length, disk, entry
  <2>2. Received' /\ Stored' /\ Verified'
    BY <1>1 DEF Received, Stored, Verified, control_completed_length
  <2>3. FirstFinds' /\ NotYet' /\ FirstStores'
    BY <1>1 DEF TransferInv, TransferTypeOK, FirstFinds, First, NotYet, FirstStores,
                control_completed_length, disk, entry
  <2> QED
    BY <2>1, <2>2, <2>3 DEF TransferInv
<1>2. CASE download
  <2>1. PICK from \in {0, completed} : Yields(from) /\ bytes' = From(from)
    BY <1>2 DEF download
  <2>2. from \in 0..Length /\ completed \in 0..Length /\ 0 \in 0..Length
    BY <2>1 DEF TransferInv, TransferTypeOK
  <2>3. bytes' \in Seq(Bytes)
    BY <2>1, <2>2, FromType, TaskFile DEF TransferInv
  <2>4. TransferTypeOK' /\ ControlBacked' /\ Running' /\ Resuming' /\ CompleteHolds'
    BY <1>2, <2>3 DEF TransferInv, TransferTypeOK, ControlBacked, Begins, Running, Resuming,
                CompleteHolds, download, disk, entry
  <2>5. Received'
    BY <1>2, <2>1 DEF Received, Yields, HonoursRange, From, download
  <2>6. Stored' /\ Verified'
    BY <1>2 DEF Stored, Verified, download
  <2>7. FirstFinds' /\ NotYet' /\ FirstStores'
    BY <1>2 DEF TransferInv, TransferTypeOK, FirstFinds, First, NotYet, FirstStores,
                Running, download, disk, entry
  <2> QED
    BY <2>4, <2>5, <2>6, <2>7 DEF TransferInv
<1>3. CASE checksum_error
  <2>1. TransferTypeOK' /\ ControlBacked' /\ Running' /\ Resuming' /\ CompleteHolds'
    BY <1>3 DEF TransferInv, TransferTypeOK, ControlBacked, Begins, Running, Resuming,
                CompleteHolds, checksum_error, disk, entry
  <2>2. Received' /\ Stored'
    BY <1>3 DEF TransferInv, Received, Stored, Begins, checksum_error, disk
  <2>3. Verified'
    <3>1. SUFFICES ASSUME verdict' = "complete", task.checksum = "sha-256"
                   PROVE  Begins(out, task.file, Length)
      BY DEF Verified, Begins
    <3>2. out = Remote
      BY <1>3, <3>1 DEF checksum_error, Matches
    <3> QED
      BY <3>2, RemoteBegins
  <2>4. FirstFinds' /\ NotYet'
    BY <1>3 DEF TransferInv, TransferTypeOK, FirstFinds, First, NotYet, checksum_error, disk, entry
  <2>5. FirstStores'
    <3>1. Remote' = Remote /\ Rest' = Rest /\ HonoursRange' = HonoursRange
      BY <1>3 DEF Remote, From, Rest, HonoursRange, checksum_error, disk, entry
    <3> QED
      BY <1>3, <3>1 DEF TransferInv, FirstStores, checksum_error, disk, entry
  <2> QED
    BY <2>1, <2>2, <2>3, <2>4, <2>5 DEF TransferInv
<1>4. CASE remove_control
  <2>1. TransferTypeOK' /\ Running' /\ Resuming' /\ CompleteHolds'
    BY <1>4 DEF TransferInv, TransferTypeOK, Begins, Running, Resuming,
                CompleteHolds, remove_control, locals, entry
  <2>2. ControlBacked'
    BY <1>4 DEF TransferInv, TransferTypeOK, ControlBacked, Begins, remove_control
  <2>3. Received' /\ Stored' /\ Verified'
    BY <1>4 DEF TransferInv, Received, Stored, Verified, Begins, remove_control, locals
  <2>4. FirstFinds' /\ NotYet'
    BY <1>4 DEF TransferInv, TransferTypeOK, FirstFinds, First, NotYet, remove_control, locals, entry
  <2>5. FirstStores'
    <3>1. Remote' = Remote /\ Rest' = Rest /\ HonoursRange' = HonoursRange
      BY <1>4 DEF Remote, From, Rest, HonoursRange, remove_control, locals, entry
    <3> QED
      BY <1>4, <3>1 DEF TransferInv, FirstStores, remove_control, locals, entry
  <2> QED
    BY <2>1, <2>2, <2>3, <2>4, <2>5 DEF TransferInv
<1>5. CASE Abort
  <2>1. TransferTypeOK' /\ ControlBacked' /\ Running' /\ Resuming' /\ CompleteHolds'
    BY <1>5 DEF TransferInv, TransferTypeOK, ControlBacked, Begins, Running, Resuming,
                CompleteHolds, Abort, disk, locals, entry
  <2>2. Received' /\ Stored' /\ Verified'
    BY <1>5 DEF Received, Stored, Verified, Abort
  <2>3. FirstFinds' /\ NotYet' /\ FirstStores'
    BY <1>5 DEF TransferInv, TransferTypeOK, FirstFinds, First, NotYet, FirstStores,
                Running, Abort, disk, locals, entry
  <2> QED
    BY <2>1, <2>2, <2>3 DEF TransferInv
<1> QED
  BY <1>1, <1>2, <1>3, <1>4, <1>5

\* Writing the file anew, when there is nothing to resume.
LEMMA OverwriteKeeps ==
  ASSUME TransferInv, finish_task, Overwrite
  PROVE  TransferInv'
<1>1. control = 0 /\ bytes = Remote /\ status = "waiting" /\ completed = 0
  BY DEF TransferInv, Resuming, Received, Running, Remote, finish_task, Overwrite
<1>2. Remote \in Seq(Bytes) /\ Len(Remote) = Length /\ Remote = From(0)
  BY FromType, TaskFile DEF Remote, TransferInv
<1>3. CASE out' = bytes /\ phase' = "verify"
  <2>1. TransferTypeOK' /\ Running' /\ Resuming' /\ CompleteHolds'
    BY <1>1, <1>2, <1>3 DEF TransferInv, TransferTypeOK, Running, Resuming, CompleteHolds,
                            finish_task, Overwrite, locals, entry
  <2>2. ControlBacked' /\ Stored'
    BY <1>1, <1>3, RemoteBegins, <1>2 DEF ControlBacked, Begins, Stored, finish_task
  <2>3. Received' /\ Verified'
    BY <1>3 DEF Received, Verified
  <2>4. FirstFinds' /\ NotYet'
    BY <1>3 DEF TransferInv, TransferTypeOK, FirstFinds, NotYet, finish_task, entry
  <2>5. FirstStores'
    <3>1. SUFFICES ASSUME attempts = 1
                   PROVE  /\ Len(pending') <= 1
                          /\ out' \o Rest' = Remote
                          /\ completed' + Len(bytes') = Length
      BY <1>1 DEF FirstStores, Remote, From, finish_task, entry
    <3>2. pending' = <<>> /\ Rest' = <<>>
      BY <3>1 DEF TransferInv, FirstFinds, Rest, finish_task, Overwrite
    <3> QED
      BY <1>1, <1>2, <1>3, <3>2 DEF finish_task, locals
  <2> QED
    BY <2>1, <2>2, <2>3, <2>4, <2>5 DEF TransferInv
<1>4. CASE \E n \in 0..Len(bytes) : out' = SubSeq(bytes, 1, n) /\ phase' = "idle"
  <2>1. out' \in Seq(Bytes) /\ phase' = "idle"
    BY <1>1, <1>2, <1>4
  <2>2. TransferTypeOK' /\ Running' /\ Resuming' /\ CompleteHolds'
    BY <1>1, <2>1 DEF TransferInv, TransferTypeOK, Running, Resuming, CompleteHolds,
                      finish_task, Overwrite, locals, entry
  <2>3. ControlBacked'
    BY <1>1, <2>1 DEF ControlBacked, Begins, finish_task
  <2>4. Received' /\ Stored' /\ Verified'
    BY <2>1 DEF Received, Stored, Verified
  <2>5. FirstFinds' /\ NotYet' /\ FirstStores'
    BY <1>1, <2>1 DEF TransferInv, TransferTypeOK, FirstFinds, NotYet, FirstStores,
                      finish_task, entry
  <2> QED
    BY <2>2, <2>3, <2>4, <2>5 DEF TransferInv
<1> QED
  BY <1>3, <1>4 DEF Overwrite

\* Handing an append to tokio.
LEMMA AppendKeeps ==
  ASSUME TransferInv, finish_task, AppendBytes
  PROVE  TransferInv'
<1> USE DEF AppendBytes
<1>1. control = completed /\ completed > 0 /\ status = "waiting" /\ completed \in 0..Length
  BY DEF TransferInv, TransferTypeOK, Resuming, Running, finish_task
<1>2. pending' \in Seq(Seq(Bytes))
  BY DEF TransferInv, TransferTypeOK
<1>3. TransferTypeOK' /\ ControlBacked' /\ Running' /\ Resuming' /\ CompleteHolds'
  BY <1>1, <1>2 DEF TransferInv, TransferTypeOK, ControlBacked, Begins, Running, Resuming,
                    CompleteHolds, finish_task, locals, entry
<1>4. Received' /\ Stored' /\ Verified'
  BY <1>1 DEF Received, Stored, Verified, finish_task, locals
<1>5. FirstFinds' /\ NotYet'
  BY DEF TransferInv, TransferTypeOK, FirstFinds, NotYet, finish_task, entry
<1>6. FirstStores'
  <2>1. SUFFICES ASSUME attempts = 1, HonoursRange
                 PROVE  /\ Len(pending') <= 1
                        /\ out' \o Rest' = Remote
                        /\ completed' + Len(bytes') = Length
    BY <1>1 DEF FirstStores, HonoursRange, Remote, From, finish_task, locals, entry
  <2>2. pending = <<>> /\ out = First(task.file, completed) /\ bytes = From(completed)
    BY <1>1, <2>1 DEF TransferInv, FirstFinds, Received, HonoursRange, finish_task
  <2>3. pending' = <<bytes>> /\ Rest' = bytes
    BY <2>2 DEF Rest
  <2>4. Len(bytes) = Length - completed
    BY <1>1, <2>2, FromType, TaskFile DEF TransferInv
  <2>5. out' = out /\ bytes' = bytes /\ completed' = completed
    BY DEF finish_task, locals
  <2>6. First(task.file, completed) \o From(completed) = Remote
    BY <1>1, FirstAndFrom, TaskFile DEF TransferInv
  <2>7. Len(pending') = 1
    BY <2>3
  <2> QED
    BY <1>1, <2>2, <2>3, <2>4, <2>5, <2>6, <2>7
<1> QED
  BY <1>3, <1>4, <1>5, <1>6 DEF TransferInv

\* complete_task or fail_task: what was stored or verified becomes what a complete
\* task holds.
LEMMA ReportKeeps ==
  ASSUME TransferInv, Report
  PROVE  TransferInv'
<1>1. Len(bytes) \in Nat /\ completed \in Nat
  BY DEF TransferInv, TransferTypeOK
<1>2. TransferTypeOK'
  BY <1>1 DEF TransferInv, TransferTypeOK, Report, disk, locals
<1>3. ControlBacked' /\ CompleteHolds'
  BY DEF TransferInv, ControlBacked, Begins, CompleteHolds, Stored, Verified, Report, disk, locals
<1>4. Running' /\ Resuming' /\ Received' /\ Stored' /\ Verified'
  BY DEF Running, Resuming, Received, Stored, Verified, Report
<1>5. FirstFinds' /\ NotYet'
  BY DEF TransferInv, FirstFinds, First, NotYet, Report, disk
<1>6. FirstStores'
  BY <1>1 DEF TransferInv, FirstStores, HonoursRange, Rest, Remote, From, Report, disk, locals
<1> QED
  BY <1>2, <1>3, <1>4, <1>5, <1>6 DEF TransferInv

\* A late byte: it comes behind all that is vouched for.
LEMMA LandKeeps ==
  ASSUME TransferInv, Land
  PROVE  TransferInv'
<1>1. out \in Seq(Bytes) /\ pending \in Seq(Seq(Bytes))
  BY DEF TransferInv, TransferTypeOK
<1>2. PICK i \in 1..Len(pending) :
        /\ pending[i] # <<>>
        /\ out' = Append(out, Head(pending[i]))
        /\ pending' = [pending EXCEPT ![i] = Tail(@)]
  <2>1. DOMAIN pending = 1..Len(pending)
    BY <1>1
  <2> QED
    BY <2>1, Zenon DEF Land
<1>3. pending[i] \in Seq(Bytes)
  BY <1>1
<1>4. /\ Append(out, Head(pending[i])) \o Tail(pending[i]) = out \o pending[i]
      /\ Head(pending[i]) \in Bytes /\ Tail(pending[i]) \in Seq(Bytes)
  BY <1>1, <1>2, <1>3, MoveByte
<1>5. out' \in Seq(Bytes) /\ pending' \in Seq(Seq(Bytes)) /\ Len(pending') = Len(pending)
  <2>1. out' \in Seq(Bytes)
    BY <1>1, <1>2, <1>4
  <2>2. pending' \in Seq(Seq(Bytes)) /\ Len(pending') = Len(pending)
    BY <1>1, <1>2, TakeByte, Zenon
  <2> QED
    BY <2>1, <2>2
<1>6. \A f : \A n \in Nat : Begins(out, f, n) => Begins(out', f, n)
  BY <1>1, <1>2, <1>4, AppendBegins
<1>7. TransferTypeOK' /\ Running' /\ Resuming'
  BY <1>5 DEF TransferInv, TransferTypeOK, Running, Resuming, Land, locals, entry
<1>8. ControlBacked' /\ Stored' /\ Verified' /\ CompleteHolds'
  BY <1>6 DEF TransferInv, TransferTypeOK, ControlBacked, Stored, Verified, CompleteHolds,
              Land, locals, entry
<1>9. Received' /\ NotYet'
  BY DEF TransferInv, Received, HonoursRange, From, NotYet, Land, locals, entry
<1>10. FirstFinds'
  BY <1>1, <1>2 DEF TransferInv, FirstFinds, Land
<1>11. FirstStores'
  <2>1. SUFFICES ASSUME attempts = 1, HonoursRange, ~lost,
                        phase \in {"verify", "cleanup", "report"} \/ status = "complete"
                 PROVE  Len(pending') <= 1 /\ out' \o Rest' = Remote
    BY DEF TransferInv, FirstStores, HonoursRange, Remote, From, Land, locals, entry
  <2>2. Len(pending) <= 1 /\ out \o Rest = Remote
    BY <2>1 DEF TransferInv, FirstStores
  <2>3. i = 1 /\ Len(pending) = 1
    <3>1. Len(pending) \in Nat
      BY <1>1
    <3> QED
      BY <2>2, <3>1, OnlyOne, Zenon
  <2>4. pending # <<>> /\ pending' # <<>>
    <3>1. Len(<<>>) = 0 /\ 0 # 1
      OBVIOUS
    <3>2. Len(pending) = 1 /\ Len(pending') = 1
      BY <1>5, <2>3, Zenon
    <3> QED
      BY <3>1, <3>2, Zenon
  <2>5. pending'[1] = Tail(pending[1])
    BY <1>1, <1>2, <2>3, TakeByte, Zenon
  <2>6. Rest = pending[1] /\ Rest' = Tail(pending[1])
    BY <2>4, <2>5 DEF Rest
  <2>7. out' \o Rest' = Append(out, Head(pending[1])) \o Tail(pending[1])
    BY <1>2, <2>3, <2>6
  <2> QED
    BY <1>4, <1>5, <2>2, <2>3, <2>6, <2>7
<1> QED
  BY <1>7, <1>8, <1>9, <1>10, <1>11 DEF TransferInv

\* Writes that are lost, a crash, and another run of the task.
LEMMA OutsideKeeps ==
  ASSUME TransferInv, WriteLost \/ Crash \/ Again
  PROVE  TransferInv'
<1>1. CASE WriteLost
  <2>1. PICK i \in DOMAIN pending : pending[i] # <<>> /\ pending' = [pending EXCEPT ![i] = <<>>]
    BY <1>1 DEF WriteLost
  <2>2. pending' \in Seq(Seq(Bytes)) /\ pending # <<>>
    BY <2>1 DEF TransferInv, TransferTypeOK
  <2>3. TransferTypeOK' /\ ControlBacked' /\ Running' /\ Resuming' /\ CompleteHolds'
    BY <1>1, <2>2 DEF TransferInv, TransferTypeOK, ControlBacked, Begins, Running, Resuming,
                      CompleteHolds, WriteLost, locals, entry
  <2>4. Received' /\ Stored' /\ Verified'
    BY <1>1 DEF TransferInv, Received, HonoursRange, From, Stored, Verified, Begins,
                WriteLost, locals
  <2>5. FirstFinds' /\ NotYet' /\ FirstStores'
    BY <1>1, <2>2 DEF TransferInv, FirstFinds, NotYet, FirstStores, WriteLost, entry
  <2> QED
    BY <2>3, <2>4, <2>5 DEF TransferInv
<1>2. CASE Crash
  <2>1. TransferTypeOK' /\ ControlBacked' /\ CompleteHolds'
    BY <1>2 DEF TransferInv, TransferTypeOK, ControlBacked, Begins, CompleteHolds,
                Crash, locals, entry
  <2>2. Running' /\ Resuming' /\ Received' /\ Stored' /\ Verified'
    BY <1>2 DEF Running, Resuming, Received, Stored, Verified, Crash
  <2>3. FirstFinds' /\ NotYet'
    BY <1>2 DEF TransferInv, FirstFinds, First, NotYet, Crash, entry
  <2>4. FirstStores'
    <3>1. SUFFICES ASSUME attempts = 1, HonoursRange, ~lost, Settled, status = "complete"
                   PROVE  /\ out' \o Rest' = Remote /\ Len(pending') <= 1
                          /\ completed + Len(bytes) = Length
                          /\ completed_length = Length
      BY <1>2 DEF FirstStores, HonoursRange, Remote, From, Crash, locals, entry
    <3>2. /\ Len(pending) <= 1 /\ out \o Rest = Remote
          /\ completed + Len(bytes) = Length /\ completed_length = Length
      BY <3>1 DEF TransferInv, FirstStores
    <3>3. Rest = <<>> /\ Rest' = <<>>
      BY <1>2, <3>1 DEF TransferInv, TransferTypeOK, Rest, Settled, Crash
    <3> QED
      BY <1>2, <3>2, <3>3 DEF Crash
  <2> QED
    BY <2>1, <2>2, <2>3, <2>4 DEF TransferInv
<1>3. CASE Again
  <2>1. TransferTypeOK' /\ ControlBacked' /\ Running' /\ CompleteHolds'
    BY <1>3 DEF TransferInv, TransferTypeOK, ControlBacked, Begins, Running, CompleteHolds,
                Again, disk, locals
  <2>2. Resuming' /\ Received' /\ Stored' /\ Verified'
    BY <1>3 DEF Resuming, Received, Stored, Verified, Again
  <2>3. FirstFinds' /\ NotYet' /\ FirstStores'
    BY <1>3 DEF TransferInv, FirstFinds, First, NotYet, FirstStores, Again, disk
  <2> QED
    BY <2>1, <2>2, <2>3 DEF TransferInv
<1> QED
  BY <1>1, <1>2, <1>3

-----------------------------------------------------------------------------
(* Theorems *)

\* TransferInv is inductive.
THEOREM TransferInvariant == TransferSpec => []TransferInv
<1>1. TransferInit => TransferInv
  <2> SUFFICES ASSUME TransferInit PROVE TransferInv
    OBVIOUS
  <2>1. out \in Seq(Bytes) /\ control \in 0..Length
    <3>1. [i \in 1..control |-> <<origin, i>>] \in Seq(Bytes)
      BY DEF TransferInit, Bytes
    <3> QED
      BY <3>1 DEF TransferInit
  <2>2. TransferTypeOK
    <3>1. <<>> \in Seq(Seq(Bytes)) /\ <<>> \in Seq(Bytes) /\ 0 \in 0..Length
      OBVIOUS
    <3> QED
      BY <2>1, <3>1 DEF TransferInit, TransferTypeOK
  <2>3. ControlBacked
    BY <2>1 DEF TransferInit, ControlBacked, Begins
  <2>4. Running /\ Resuming /\ Received /\ Stored /\ Verified /\ CompleteHolds
    BY DEF TransferInit, Running, Resuming, Received, Stored, Verified, CompleteHolds
  <2>5. FirstFinds /\ NotYet /\ FirstStores
    BY <2>1 DEF TransferInit, FirstFinds, First, NotYet, FirstStores
  <2> QED
    BY <2>2, <2>3, <2>4, <2>5 DEF TransferInv
<1>2. TransferInv /\ [TransferNext]_vars => TransferInv'
  <2> SUFFICES ASSUME TransferInv, [TransferNext]_vars PROVE TransferInv'
    OBVIOUS
  <2>1. CASE control_completed_length \/ download \/ checksum_error \/ remove_control \/ Abort
    <3>1. CASE ~remove_control
      BY <2>1, <3>1, QuietKeeps DEF control_completed_length, download, checksum_error, Abort,
                                    disk, entry
    <3>2. CASE remove_control
      BY <3>2, QuietKeeps DEF remove_control, entry
    <3> QED
      BY <3>1, <3>2
  <2>2. CASE finish_task
    BY <2>2, OverwriteKeeps, AppendKeeps DEF finish_task
  <2>3. CASE Report
    BY <2>3, ReportKeeps
  <2>4. CASE Land
    BY <2>4, LandKeeps
  <2>5. CASE WriteLost \/ Crash \/ Again
    BY <2>5, OutsideKeeps
  <2>6. CASE UNCHANGED vars
    <3>1. Remote' = Remote /\ From(completed)' = From(completed) /\ Rest' = Rest
          /\ HonoursRange' = HonoursRange
      BY <2>6 DEF Remote, From, Rest, HonoursRange, vars, disk, locals
    <3>2. TransferTypeOK' /\ ControlBacked' /\ Running' /\ Resuming' /\ CompleteHolds'
      BY <2>6 DEF TransferInv, TransferTypeOK, ControlBacked, Begins, Running, Resuming,
                  CompleteHolds, vars, disk, locals, entry
    <3>3. Received' /\ Stored' /\ Verified'
      BY <2>6, <3>1 DEF TransferInv, Received, Remote, Stored, Verified, Begins, vars, disk, locals
    <3>4. FirstFinds' /\ NotYet' /\ FirstStores'
      BY <2>6, <3>1 DEF TransferInv, FirstFinds, First, NotYet, FirstStores, vars, disk, locals,
                        entry
    <3> QED
      BY <3>2, <3>3, <3>4 DEF TransferInv
  <2> QED
    BY <2>1, <2>2, <2>3, <2>4, <2>5, <2>6 DEF TransferNext, TransferStep, AttemptStep
<1> QED
  BY <1>1, <1>2, PTL DEF TransferSpec

\* The type invariant of a download.
THEOREM TransferTypeCorrect == TransferSpec => []TransferTypeOK
BY TransferInvariant, PTL DEF TransferInv

\* No error, crash or late write takes away what the control file vouches for.
THEOREM ControlAlwaysBacked == TransferSpec => []ControlBacked
BY TransferInvariant, PTL DEF TransferInv

\* What completes fresh, or with a verified checksum, is all there.
THEOREM CompleteAlwaysHolds == TransferSpec => []CompleteHolds
BY TransferInvariant, PTL DEF TransferInv

\* A first attempt that completes leaves the remote file exactly.
THEOREM FirstAttemptIsExact == TransferSpec => []FirstAttemptExact
<1>1. TransferInv => FirstAttemptExact
  <2> SUFFICES ASSUME TransferInv, status = "complete", attempts = 1, HonoursRange, Settled, ~lost
               PROVE  out = Remote /\ completed_length = Length
    BY DEF FirstAttemptExact
  <2>1. out \o Rest = Remote /\ completed_length = Length
    BY DEF TransferInv, FirstStores
  <2>2. Rest = <<>> /\ out \in Seq(Bytes)
    BY DEF TransferInv, TransferTypeOK, Rest, Settled
  <2> QED
    BY <2>1, <2>2
<1> QED
  BY <1>1, TransferInvariant, PTL
=============================================================================
