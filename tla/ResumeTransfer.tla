--------------------------- MODULE ResumeTransfer ---------------------------
(***************************************************************************)
(* One download, from the control file to its outcome: run_http_task,      *)
(* run_ftp_task, run_sftp_task and finish_task of                          *)
(* crates/raria-core/src/http_engine.rs.  Each step ends where the code    *)
(* awaits: there the transfer may fail, be dropped with its worker, or     *)
(* find the process gone; the same output file may be downloaded again.    *)
(* A byte is the remote file it comes from and its position there; remote  *)
(* files are alike in length and in nothing else.                          *)
(***************************************************************************)
EXTENDS Integers, Sequences

CONSTANTS
  Files,    \* remote files
  Length,   \* length of each
  Tasks,    \* downloads: records of TaskShape
  OldFiles  \* what may lie at the output path when there is no control file

Checksums == {"none", "sha-256", "other"}

\* ranges: whether the server honours a Range header (every FTP server that
\* accepts REST and every SFTP server starts where it is told to).
TaskShape ==
  [file : Files, scheme : {"http", "ftp", "sftp"}, split : BOOLEAN, checksum : Checksums,
   ranges : BOOLEAN]

Bytes == Files \X (1..Length)

ASSUME LengthAssumption == Length \in Nat \ {0}
ASSUME TasksAssumption == Tasks \subseteq TaskShape
ASSUME OldFilesAssumption == OldFiles \subseteq Seq(Bytes)

VARIABLES
  task,              \* what is downloaded
  control,           \* length the control file tells; 0: there is none, or it says 0
  origin,            \* history: the remote file an earlier session downloaded
  out,               \* output file
  pending,           \* appends handed to tokio whose bytes are not all in the file
  lost,              \* whether one of them failed or was cut off by a crash
  attempts,          \* number of attempts begun
  phase,             \* what the attempt awaits next
  completed,         \* its local variables: the length to resume from,
  bytes,             \* the bytes received,
  verdict,           \* and the outcome the checksum leads to
  status,            \* of the task in the RPC engine
  completed_length   \* of the task in the RPC engine

disk == <<control, origin, out, pending, lost>>
entry == <<status, completed_length>>
locals == <<completed, bytes, verdict>>
vars == <<task, disk, attempts, phase, locals, entry>>

-----------------------------------------------------------------------------
(* Files *)

\* Mutant: the range begins at the last byte the file already has.
From_inclusive(k) == [i \in 1..(Length - k + 1) |-> <<task.file, k + i - 1>>]
\* Mutant: the range begins one byte too late.
From_skips(k) == IF k = 0 THEN [i \in 1..Length |-> <<task.file, i>>]
                 ELSE [i \in 1..(Length - k - 1) |-> <<task.file, k + 1 + i>>]

\* The remote file after its first k bytes: what "bytes=k-", REST k and a seek
\* to k ask for.
From(k) == [i \in 1..(Length - k) |-> <<task.file, k + i>>]

Remote == From(0)

\* The sequence s begins with the first n bytes of file f.
Begins(s, f, n) == Len(s) >= n /\ \A i \in 1..n : s[i] = <<f, i>>

Settled == \A i \in DOMAIN pending : pending[i] = <<>>

-----------------------------------------------------------------------------
(* An attempt *)

control_completed_length ==
  /\ phase = "idle"
  /\ status = "waiting"
  /\ phase' = "download"
  /\ completed' = control
  /\ attempts' = attempts + 1
  /\ UNCHANGED <<task, disk, bytes, verdict, entry>>

\* What the transfer yields, from the beginning or from the length completed.
\* A split download needs a server that answers its probe with a range, and
\* yields the whole of a file that does not change (module SplitDownload); a range
\* that begins at the end of the file is an error in HTTP; the status 200 of a
\* server that ignores the range is not told from 206.
Yields(from) ==
  \/ task.scheme # "http" /\ from = completed
  \/ task.scheme = "http" /\ task.ranges /\ from = completed /\ completed < Length
  \/ task.scheme = "http" /\ ~task.ranges /\ from = 0 /\ ~(completed = 0 /\ task.split)

download ==
  /\ phase = "download"
  /\ \E from \in {0, completed} : Yields(from) /\ bytes' = From(from)
  /\ phase' = "finish"
  /\ UNCHANGED <<task, disk, attempts, completed, verdict, entry>>

\* fs::write, which fails anywhere between truncating the file and its last byte.
Overwrite ==
  /\ completed = 0
  /\ \/ out' = bytes /\ phase' = "verify"
     \/ \E n \in 0..Len(bytes) : out' = SubSeq(bytes, 1, n) /\ phase' = "idle"
  /\ UNCHANGED pending

\* write_all to a file opened for appending: it returns when tokio has the bytes,
\* and the file is dropped without a flush.
AppendBytes ==
  /\ completed > 0
  /\ pending' = Append(pending, bytes)
  /\ phase' = "verify"
  /\ UNCHANGED out

\* Mutant: the output file is always written anew.
finish_task_overwrites ==
  /\ phase = "finish"
  /\ out' = bytes
  /\ phase' = "verify"
  /\ UNCHANGED <<task, control, origin, pending, lost, attempts, locals, entry>>

finish_task ==
  /\ phase = "finish"
  /\ Overwrite \/ AppendBytes
  /\ UNCHANGED <<task, control, origin, lost, attempts, locals, entry>>

\* Mutant: only the length is compared.
Matches_length == Len(out) = Length

Matches == out = Remote

\* A checksum in a format the code does not know is a mismatch.
checksum_error ==
  /\ phase = "verify"
  /\ verdict' = IF task.checksum = "none" \/ (task.checksum = "sha-256" /\ Matches)
                THEN "complete" ELSE "error"
  /\ phase' = "cleanup"
  /\ UNCHANGED <<task, disk, attempts, completed, bytes, entry>>

\* let _ = fs::remove_file(control_path): a failure is ignored.
remove_control ==
  /\ phase = "cleanup"
  /\ control' \in {0, control}
  /\ phase' = "report"
  /\ UNCHANGED <<task, origin, out, pending, lost, attempts, locals, entry>>

\* complete_task or fail_task.
Report ==
  /\ phase = "report"
  /\ status' = verdict
  /\ completed_length' =
       IF verdict = "complete" THEN completed + Len(bytes) ELSE completed_length
  /\ phase' = "idle"
  /\ UNCHANGED <<task, disk, attempts, locals>>

\* An error, which ends the pass and leaves the task waiting, or the worker dropped.
Abort ==
  /\ phase # "idle"
  /\ phase' = "idle"
  /\ UNCHANGED <<task, disk, attempts, locals, entry>>

-----------------------------------------------------------------------------
(* Around it *)

\* tokio's blocking thread writes the next byte of an append.
Land ==
  /\ \E i \in DOMAIN pending :
       /\ pending[i] # <<>>
       /\ out' = Append(out, Head(pending[i]))
       /\ pending' = [pending EXCEPT ![i] = Tail(@)]
  /\ UNCHANGED <<task, control, origin, lost, attempts, phase, locals, entry>>

\* It fails: the error stays in the dropped file and nobody sees it.
WriteLost ==
  /\ \E i \in DOMAIN pending : pending[i] # <<>> /\ pending' = [pending EXCEPT ![i] = <<>>]
  /\ lost' = TRUE
  /\ UNCHANGED <<task, control, origin, out, attempts, phase, locals, entry>>

\* The process ends without its blocking threads.
Crash ==
  /\ phase' = "idle"
  /\ lost' = (lost \/ ~Settled)
  /\ pending' = <<>>
  /\ UNCHANGED <<task, control, origin, out, attempts, locals, entry>>

\* An ended task is unpaused, or the next one has the same output path (output_path).
Again ==
  /\ phase = "idle"
  /\ status # "waiting"
  /\ status' = "waiting"
  /\ \/ UNCHANGED <<task, completed_length>>
     \/ task' \in Tasks /\ completed_length' = 0
  /\ UNCHANGED <<disk, attempts, phase, locals>>

\* Either an earlier session left the first bytes and a control file that tells
\* how many, or there is no control file.
TransferInit ==
  /\ task \in Tasks
  /\ control \in 0..Length
  /\ origin \in Files
  /\ IF control = 0 THEN out \in OldFiles ELSE out = [i \in 1..control |-> <<origin, i>>]
  /\ pending = <<>>
  /\ lost = FALSE
  /\ attempts = 0
  /\ phase = "idle"
  /\ completed = 0
  /\ bytes = <<>>
  /\ verdict = "complete"
  /\ status = "waiting"
  /\ completed_length = 0

AttemptStep ==
  download \/ finish_task \/ checksum_error \/ remove_control \/ Report \/ Abort

TransferStep == AttemptStep \/ Land \/ WriteLost \/ Crash \/ Again

TransferNext == control_completed_length \/ TransferStep

TransferSpec == TransferInit /\ [][TransferNext]_vars

-----------------------------------------------------------------------------
(* Properties *)

\* Type invariant: the variables have values the code can give them; a length
\* to resume from is never beyond the remote file.
TransferTypeOK ==
  /\ task \in Tasks
  /\ control \in 0..Length
  /\ origin \in Files
  /\ out \in Seq(Bytes)
  /\ pending \in Seq(Seq(Bytes))
  /\ lost \in BOOLEAN
  /\ attempts \in Nat
  /\ phase \in {"idle", "download", "finish", "verify", "cleanup", "report"}
  /\ completed \in 0..Length
  /\ bytes \in Seq(Bytes)
  /\ verdict \in {"complete", "error"}
  /\ status \in {"waiting", "complete", "error"}
  /\ completed_length \in Nat

\* The bytes a control file vouches for are in the output file, through errors,
\* crashes, late writes, further attempts and downloads of other files: finish_task
\* truncates only when there is nothing to resume, and a control file that survives
\* an attempt still tells the truth.
ControlBacked == Begins(out, origin, control)

\* A complete task has all its bytes at the front of its file if it was downloaded
\* from the beginning or has a checksum finish_task verified, whatever became of
\* earlier attempts and of downloads of other files to the same output path, and
\* however late their writes arrive.
CompleteHolds ==
  status = "complete" /\ (completed = 0 \/ task.checksum = "sha-256")
    => Begins(out, task.file, Length)

\* The download goes on where it was, in the file it was in.
HonoursRange ==
  completed = 0 \/ (task.file = origin /\ (task.scheme # "http" \/ task.ranges))

\* A task that completes at its first attempt, fresh or resumed, has exactly the
\* remote file and its length, once its bytes are written, provided that the server
\* honours ranges when asked for one, the file is that of the control file, and no write
\* was lost.
FirstAttemptExact ==
  status = "complete" /\ attempts = 1 /\ HonoursRange /\ Settled /\ ~lost
    => out = Remote /\ completed_length = Length
=============================================================================
