----------------------------- MODULE AtomicFile -----------------------------
(***************************************************************************)
(* What the callers of write_control_file_atomic and read_control_file may *)
(* rely on: the control file is a register.  A write takes effect at one   *)
(* moment between its call and its return, or not at all; a read returns   *)
(* what the file held when it was opened.  Writes that overlap have no     *)
(* such promise, and what they leave behind stays until the next write.    *)
(***************************************************************************)
EXTENDS Naturals

CONSTANTS
  Callers,   \* calls that may be under way at a time
  Versions,  \* contents a caller may write
  Nothing,   \* there is no file
  Garbage    \* a file nobody has written as it is

VARIABLES
  value,    \* what the control file holds
  writing,  \* the version each caller is about to make visible, or Nothing
  reading,  \* what each caller is about to be told it holds, or Nothing
  mixed     \* writes have overlapped, and one of them is still under way

fileVars == <<value, writing, reading, mixed>>

Content == Versions \cup {Nothing, Garbage}
Writers(w) == {c \in Callers : w[c] # Nothing}

FileInit ==
  /\ value \in Content
  /\ writing = [c \in Callers |-> Nothing]
  /\ reading = [c \in Callers |-> Nothing]
  /\ mixed = FALSE

BeginWrite(c, v) ==
  /\ writing[c] = Nothing
  /\ writing' = [writing EXCEPT ![c] = v]
  /\ mixed' = (Writers(writing) # {})
  /\ UNCHANGED <<value, reading>>

Replace(c) ==
  /\ writing[c] # Nothing
  /\ value' = writing[c]
  /\ writing' = [writing EXCEPT ![c] = Nothing]
  /\ UNCHANGED <<reading, mixed>>

\* The write returns an error; nothing has changed.
GiveUp(c) ==
  /\ writing' = [writing EXCEPT ![c] = Nothing]
  /\ UNCHANGED <<value, reading, mixed>>

Remove == value' = Nothing /\ UNCHANGED <<writing, reading, mixed>>

Open(c) ==
  /\ reading' = [reading EXCEPT ![c] = value]
  /\ UNCHANGED <<value, writing, mixed>>

Return(c) ==
  /\ reading' = [reading EXCEPT ![c] = Nothing]
  /\ UNCHANGED <<value, writing, mixed>>

\* The process dies, and every call with it.
Die ==
  /\ writing' = [c \in Callers |-> Nothing]
  /\ reading' = [c \in Callers |-> Nothing]
  /\ mixed' = FALSE
  /\ UNCHANGED value

\* While writes overlap anything may become of the file and of those who read it.
Mixed ==
  /\ mixed
  /\ value' \in Content
  /\ writing' \in [Callers -> Versions \cup {Nothing}]
  /\ reading' \in [Callers -> Content]
  /\ mixed' = (Writers(writing') # {})

FileNext ==
  \/ \E c \in Callers :
       \/ \E v \in Versions : BeginWrite(c, v)
       \/ ~mixed /\ (Replace(c) \/ GiveUp(c))
       \/ Open(c) \/ Return(c)
  \/ Remove \/ Die \/ Mixed

FileSpec == FileInit /\ [][FileNext]_fileVars
=============================================================================
