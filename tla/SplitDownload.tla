---------------------------- MODULE SplitDownload ----------------------------
(***************************************************************************)
(* download_split of crates/raria-core/src/http_engine.rs: one request     *)
(* tells the length of the file, then its parts are requested one by one.  *)
(* No request says which version of the file it wants, nobody looks        *)
(* whether an answer is a 206, and the file may change between two of      *)
(* them.  Bytes are the positions they have in the file, from 0 as in a    *)
(* Range header.                                                           *)
(***************************************************************************)
EXTENDS Integers, Sequences

CONSTANTS
  Lengths,  \* lengths the remote file may have
  Splits    \* values of the option split

ASSUME LengthsAssumption == Lengths \subseteq Nat
\* run_http_task splits a download for more than one part only.
ASSUME SplitsAssumption == Splits \subseteq Nat \ {0, 1}

VARIABLES
  length,    \* of the remote file, now
  changed,   \* what has happened to it since the probe
  split,     \* number of parts asked for
  total,     \* length the probe was told
  index,     \* the part requested next
  ranges,    \* every part was answered with its range of the file
  received,  \* the bytes of the parts so far
  phase      \* "probe", "parts", "done" or "failed"

splitVars == <<length, changed, split, total, index, ranges, received, phase>>

\* "kept": nothing, or it was added to at its end; "cut": it only lost bytes at
\* its end after that; "rewritten": anything else.
Changed == {"kept", "cut", "rewritten"}

Least(a, b) == IF a <= b THEN a ELSE b

\* The bytes from position a up to position b, b excluded.
Bytes(a, b) == [i \in 1..(b - a) |-> a + i - 1]

\* total_length.div_ceil(split)
chunk_size == (total + split - 1) \div split
start == index * chunk_size

\* Mutant: the end of a part is taken for inclusive.
End_inclusive ==
  IF index + 1 = split THEN length ELSE Least(Least(start + chunk_size, total) + 1, length)

\* Where the server ends a part: the last one is asked for without an end, and
\* nothing is sent beyond the end of the file.
End ==
  IF index + 1 = split THEN length ELSE Least(Least(start + chunk_size, total), length)

-----------------------------------------------------------------------------

\* Mutant: the status of the answer is not looked at.
probe_length_unchecked ==
  /\ phase = "probe"
  /\ total' = length
  /\ phase' = "parts"
  /\ UNCHANGED <<length, changed, split, index, ranges, received>>

\* "bytes=0-0" cannot be served from an empty file: error_for_status.
probe_length ==
  /\ phase = "probe"
  /\ \/ length > 0 /\ total' = length /\ phase' = "parts"
     \/ phase' = "failed" /\ UNCHANGED total
  /\ UNCHANGED <<length, changed, split, index, ranges, received>>

\* One pass through the loop: the part is answered with a 206, unless it begins
\* behind the end of the file, with a 200 and the whole file, or not at all.
download_range ==
  /\ phase = "parts"
  /\ index < split /\ start < total
  /\ \/ /\ start < length
        /\ received' = received \o Bytes(start, End)
        /\ index' = index + 1
        /\ UNCHANGED <<ranges, phase>>
     \/ /\ received' = received \o Bytes(0, length)
        /\ index' = index + 1
        /\ ranges' = FALSE
        /\ UNCHANGED phase
     \/ /\ phase' = "failed"
        /\ UNCHANGED <<received, index, ranges>>
  /\ UNCHANGED <<length, changed, split, total>>

\* Mutant: the loop ends before the last part.
Joined_early ==
  /\ phase = "parts"
  /\ index + 1 = split \/ start >= total
  /\ phase' = "done"
  /\ UNCHANGED <<length, changed, split, total, index, ranges, received>>

\* The end of the loop, or the break out of it.
Joined ==
  /\ phase = "parts"
  /\ index = split \/ start >= total
  /\ phase' = "done"
  /\ UNCHANGED <<length, changed, split, total, index, ranges, received>>

\* Somebody adds to the remote file, cuts it, or rewrites it.
Change ==
  /\ phase = "parts"
  /\ length' \in Lengths
  /\ \/ length' > length /\ changed = "kept" /\ UNCHANGED changed
     \/ length' < length /\ changed # "rewritten" /\ changed' = "cut"
     \/ changed' = "rewritten"
  /\ UNCHANGED <<split, total, index, ranges, received, phase>>

\* run_http_task with split > 1 and nothing to resume.
SplitInit ==
  /\ length \in Lengths
  /\ changed = "kept"
  /\ split \in Splits
  /\ total = 0
  /\ index = 0
  /\ ranges = TRUE
  /\ received = <<>>
  /\ phase = "probe"

SplitNext == probe_length \/ download_range \/ Joined \/ Change

SplitSpec == SplitInit /\ [][SplitNext]_splitVars

-----------------------------------------------------------------------------
(* Properties *)

\* Type invariant: parts are requested only of a file the probe found not empty.
SplitTypeOK ==
  /\ length \in Lengths
  /\ changed \in Changed
  /\ split \in Splits
  /\ total \in Nat
  /\ index \in 0..split
  /\ ranges \in BOOLEAN
  /\ received \in Seq(Nat)
  /\ phase \in {"probe", "parts", "done", "failed"}
  /\ phase \in {"parts", "done"} => total > 0

\* Parts that were answered with their ranges are joined in order, no byte twice,
\* for every length and every number of parts, those that exceed the length
\* included, and whatever happens to the file in between.  Unless the file is
\* rewritten they are the file from its first byte on, without a gap
\* (download_split).
PartsJoin ==
  phase = "done" /\ ranges =>
    /\ \A i \in 1..(Len(received) - 1) : received[i] < received[i + 1]
    /\ changed # "rewritten" => received = Bytes(0, Len(received))

\* A file that was at most added to is joined completely: at least as long as the
\* probe said, and no longer than it is by then (download_split).
NothingMissing ==
  phase = "done" /\ ranges /\ changed = "kept" =>
    total <= Len(received) /\ Len(received) <= length
=============================================================================
