----------------------------- MODULE ControlFile -----------------------------
(***************************************************************************)
(* One control file and those who write, read and remove it:               *)
(* write_control_file_atomic and read_control_file of                      *)
(* crates/raria-core/src/persistence.rs, and the remove_file of            *)
(* finish_task.  A write goes to a temporary file, whose name depends on   *)
(* the control file's only, and is renamed.  Names and contents are kept   *)
(* apart as a file system does: what is open stays readable and writable   *)
(* whatever its name means by then.                                        *)
(***************************************************************************)
EXTENDS Integers, Sequences

CONSTANTS
  Callers,   \* calls that may be under way at a time
  Versions,  \* contents a caller may write
  Parts,     \* number of parts a version reaches the disk in
  Inodes,    \* files the disk has room for
  NoInode,   \* what a name means that does not exist
  Nothing,   \* no version
  Garbage    \* a content that does not parse

ASSUME PartsAssumption == Parts \in [Versions -> Nat \ {0}]
ASSUME NamesAssumption ==
  NoInode \notin Inodes /\ Nothing \notin Versions /\ Garbage \notin Versions \cup {Nothing}

VARIABLES
  path,   \* the inode the control file's name means
  temp,   \* ... and that of the temporary file
  data,   \* the parts in each inode
  call,   \* what each caller is doing
  mixed   \* history: writes have overlapped, and one of them is still under way

disk == <<path, temp, data>>
controlVars == <<disk, call, mixed>>

Call == [op : {"idle", "create", "write", "read"}, version : Versions \cup {Nothing},
         inode : Inodes \cup {NoInode}, written : Nat]
Idle == [op |-> "idle", version |-> Nothing, inode |-> NoInode, written |-> 0]

IsWriting(c) == call[c].op \in {"create", "write"}
Busy == {c \in Callers : IsWriting(c)}
Free == Inodes \ ({path, temp} \cup {call[c].inode : c \in Callers})

Whole(v) == [n \in 1..Parts[v] |-> v]

\* read_control_file: what a content parses to.
Parsed(s) == IF \E v \in Versions : s = Whole(v)
             THEN CHOOSE v \in Versions : s = Whole(v) ELSE Garbage

\* Part n of version v written to s; a gap reads as zeros.
Put(s, n, v) ==
  [m \in 1..(IF n > Len(s) THEN n ELSE Len(s)) |->
     IF m = n THEN v ELSE IF m <= Len(s) THEN s[m] ELSE Nothing]

\* Nobody writes any more who was part of an overlap.
Ends(c) == call' = [call EXCEPT ![c] = Idle] /\ mixed' = (mixed /\ Busy \ {c} # {})

-----------------------------------------------------------------------------
(* write_control_file_atomic, up to each of its awaits *)

\* The name of the temporary file, the directory and the text to write.
BeginWrite(c, v) ==
  /\ call[c].op = "idle"
  /\ call' = [call EXCEPT ![c] = [Idle EXCEPT !.op = "create", !.version = v]]
  /\ mixed' = (Busy # {})
  /\ UNCHANGED disk

\* Mutant: the temporary file is opened as it is found.
CreateTemp_appends(c) ==
  /\ call[c].op = "create"
  /\ \E i \in IF temp = NoInode THEN Free ELSE {temp} :
       /\ temp' = i
       /\ data' = [data EXCEPT ![i] = IF temp = NoInode THEN <<>> ELSE @]
       /\ call' = [call EXCEPT ![c] = [@ EXCEPT !.op = "write", !.inode = i]]
  /\ UNCHANGED <<path, mixed>>

\* File::create empties a temporary file that is there already, left by a crash
\* or in use by another caller.
CreateTemp(c) ==
  /\ call[c].op = "create"
  /\ \E i \in IF temp = NoInode THEN Free ELSE {temp} :
       /\ temp' = i
       /\ data' = [data EXCEPT ![i] = <<>>]
       /\ call' = [call EXCEPT ![c] = [@ EXCEPT !.op = "write", !.inode = i]]
  /\ UNCHANGED <<path, mixed>>

\* Mutant: one part too many.
WritePart_past(c) ==
  /\ call[c].op = "write"
  /\ call[c].written <= Parts[call[c].version]
  /\ data' = [data EXCEPT ![call[c].inode] = Put(@, call[c].written + 1, call[c].version)]
  /\ call' = [call EXCEPT ![c].written = @ + 1]
  /\ UNCHANGED <<path, temp, mixed>>

\* write_all and flush.
WritePart(c) ==
  /\ call[c].op = "write"
  /\ call[c].written < Parts[call[c].version]
  /\ data' = [data EXCEPT ![call[c].inode] = Put(@, call[c].written + 1, call[c].version)]
  /\ call' = [call EXCEPT ![c].written = @ + 1]
  /\ UNCHANGED <<path, temp, mixed>>

\* Mutant: the new file gets a second name instead of another one.
Rename_links(c) ==
  /\ call[c].op = "write"
  /\ call[c].written = Parts[call[c].version]
  /\ temp # NoInode
  /\ path' = temp
  /\ Ends(c)
  /\ UNCHANGED <<temp, data>>

\* drop and rename: whatever has the temporary file's name by now.
Rename(c) ==
  /\ call[c].op = "write"
  /\ call[c].written = Parts[call[c].version]
  /\ temp # NoInode
  /\ path' = temp
  /\ temp' = NoInode
  /\ Ends(c)
  /\ UNCHANGED data

\* An error of any step, a rename that finds no file among them; the temporary
\* file stays.
WriteFails(c) == IsWriting(c) /\ Ends(c) /\ UNCHANGED disk

-----------------------------------------------------------------------------
(* The other callers, and the end of the process *)

\* read_control_file; a name that is not found is answered at once.
OpenRead(c) ==
  /\ call[c].op = "idle"
  /\ path # NoInode
  /\ call' = [call EXCEPT ![c] = [@ EXCEPT !.op = "read", !.inode = path]]
  /\ UNCHANGED <<disk, mixed>>

\* The file is read, and parsed or refused.
ReadReturns(c) ==
  /\ call[c].op = "read"
  /\ call' = [call EXCEPT ![c] = Idle]
  /\ UNCHANGED <<disk, mixed>>

\* finish_task removes the control file.
Remove == path' = NoInode /\ UNCHANGED <<temp, data, call, mixed>>

Crash == call' = [c \in Callers |-> Idle] /\ mixed' = FALSE /\ UNCHANGED disk

-----------------------------------------------------------------------------

ControlInit ==
  /\ path \in Inodes \cup {NoInode}
  /\ temp = NoInode
  /\ \E s \in {<<>>} \cup {Whole(v) : v \in Versions} :
       data = [i \in Inodes |-> IF i = path THEN s ELSE <<>>]
  /\ call = [c \in Callers |-> Idle]
  /\ mixed = FALSE

ControlStep(c) ==
  \/ \E v \in Versions : BeginWrite(c, v)
  \/ CreateTemp(c) \/ WritePart(c) \/ Rename(c) \/ WriteFails(c)
  \/ OpenRead(c) \/ ReadReturns(c)

ControlNext == (\E c \in Callers : ControlStep(c)) \/ Remove \/ Crash

ControlSpec == ControlInit /\ [][ControlNext]_controlVars

-----------------------------------------------------------------------------
(* Properties *)

\* Type invariant: no call writes more than its version.
ControlTypeOK ==
  /\ path \in Inodes \cup {NoInode}
  /\ temp \in Inodes \cup {NoInode}
  /\ data \in [Inodes -> Seq(Versions \cup {Nothing})]
  /\ call \in [Callers -> Call]
  /\ \A c \in Callers : IsWriting(c) =>
       call[c].version \in Versions /\ call[c].written <= Parts[call[c].version]
  /\ mixed \in BOOLEAN

\* The file a new write will empty is never the control file nor open to a reader,
\* not even when writes have overlapped (write_control_file_atomic, read_control_file).
TempUnseen ==
  temp # NoInode =>
    /\ temp # path
    /\ \A c \in Callers : call[c].op = "read" => call[c].inode # temp

\* The names and open files as a register.
Named(i) == IF i = NoInode THEN Nothing ELSE Parsed(data[i])
Writing == [c \in Callers |-> IF IsWriting(c) THEN call[c].version ELSE Nothing]
Told == [c \in Callers |-> IF call[c].op = "read" THEN Named(call[c].inode) ELSE Nothing]
Register == INSTANCE AtomicFile WITH
  value <- Named(path), writing <- Writing, reading <- Told

\* Whatever fails or crashes, a control file holds an old or a new version, whole,
\* a version that was reported written stays, and a reader gets what was there when
\* it opened the file, unless writes of the same file overlap; and the next write
\* after such an overlap ends what it left (write_control_file_atomic).
FileContract == Register!FileSpec
=============================================================================
