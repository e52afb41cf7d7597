------------------------- MODULE SplitDownloadProofs -------------------------
(***************************************************************************)
(* Proofs about SplitDownload, for every length and every number of parts. *)
(* Parts answered with their ranges are in order, and the next one starts  *)
(* behind them.  Unless the file is rewritten they end where it starts, or *)
(* the file was cut behind them and no further part will come.             *)
(***************************************************************************)
EXTENDS SplitDownload, SequenceTheorems, TLAPS

\* Bytes that the next part must follow upon: up to its start, or up to total if
\* the parts so far cover it.
Expected == Least(start, total)

Rises(s) == \A i \in 1..(Len(s) - 1) : s[i] < s[i + 1]

Below(s, n) == \A i \in 1..Len(s) : s[i] < n

\* No byte twice so far, and none of the part that comes next.
Ordered ==
  ranges =>
    /\ \A i \in 1..(Len(received) - 1) : received[i] < received[i + 1]
    /\ phase = "parts" => index = split \/ \A i \in 1..Len(received) : received[i] < start

Joins == ranges /\ changed # "rewritten" => received = Bytes(0, Len(received))

\* While parts are requested: nothing is missing so far, or the file has been cut
\* and the next part begins behind its end; a last part that came is the last of all.
Progress ==
  phase = "parts" /\ ranges /\ changed # "rewritten" =>
    \/ index < split /\ Len(received) = Expected
    \/ index = split /\ (changed = "kept" => total <= Len(received) /\ Len(received) <= length)
    \/ changed = "cut" /\ length <= Len(received) /\ Len(received) <= start

\* A file that was at most added to is never shorter than the probe said.
Grown == phase = "parts" /\ changed = "kept" => total <= length

\* Before the probe nothing has been requested.
Untouched == phase = "probe" => index = 0 /\ received = <<>> /\ ranges

SplitInv == /\ SplitTypeOK /\ Ordered /\ Joins /\ Progress /\ Grown /\ Untouched
            /\ NothingMissing

USE LengthsAssumption, SplitsAssumption

\* The size of the parts is a natural number, whatever the probe was told.
LEMMA CeilingIsNat ==
  ASSUME NEW a \in Nat, NEW b \in Nat \ {0}
  PROVE  (a + b - 1) \div b \in Nat
<1>1. a + b - 1 \in Nat
  OBVIOUS
<1>2. \A c, d \in Nat : d > 0 => c \div d \in Nat
  OBVIOUS
<1> QED
  BY <1>1, <1>2

LEMMA ChunkIsNat ==
  ASSUME SplitTypeOK
  PROVE  chunk_size \in Nat /\ start \in Nat
<1>1. split \in Nat \ {0} /\ total \in Nat /\ index \in Nat
  BY DEF SplitTypeOK
<1>2. chunk_size \in Nat
  BY <1>1, CeilingIsNat DEF chunk_size
<1> QED
  BY <1>1, <1>2 DEF start

\* Joining bytes that follow upon one another.
LEMMA BytesJoin ==
  ASSUME NEW a \in Nat, NEW b \in Nat, a <= b
  PROVE  /\ Bytes(0, a) \o Bytes(a, b) = Bytes(0, b)
         /\ Len(Bytes(a, b)) = b - a
         /\ Bytes(a, b) \in Seq(Nat)
<1>1. /\ Bytes(a, b) \in Seq(Nat) /\ Len(Bytes(a, b)) = b - a
      /\ Bytes(0, a) \in Seq(Nat) /\ Len(Bytes(0, a)) = a
      /\ Bytes(0, b) \in Seq(Nat) /\ Len(Bytes(0, b)) = b
  BY DEF Bytes
<1>2. \A i \in 1..b : (Bytes(0, a) \o Bytes(a, b))[i] = Bytes(0, b)[i]
  BY <1>1 DEF Bytes
<1>3. /\ Bytes(0, a) \o Bytes(a, b) \in Seq(Nat)
      /\ Len(Bytes(0, a) \o Bytes(a, b)) = b
  BY <1>1
<1>4. Bytes(0, a) \o Bytes(a, b) = Bytes(0, b)
  BY <1>1, <1>2, <1>3, SeqEqual
<1> QED
  BY <1>1, <1>4

\* A run of bytes behind those so far keeps them in order.
LEMMA RunsRise ==
  ASSUME NEW s \in Seq(Nat), NEW a \in Nat, NEW b \in Nat, a <= b,
         Rises(s), Below(s, a)
  PROVE  /\ s \o Bytes(a, b) \in Seq(Nat)
         /\ Rises(s \o Bytes(a, b)) /\ Below(s \o Bytes(a, b), b)
<1> DEFINE t == Bytes(a, b)
           r == s \o t
<1>1. /\ t \in Seq(Nat) /\ Len(t) = b - a /\ Len(s) \in Nat
      /\ \A i \in 1..(b - a) : t[i] = a + i - 1
  BY DEF Bytes
<1>2. /\ r \in Seq(Nat) /\ Len(r) = Len(s) + (b - a)
      /\ \A i \in 1..Len(r) : r[i] = IF i <= Len(s) THEN s[i] ELSE t[i - Len(s)]
  <2> HIDE DEF t
  <2> QED BY <1>1, ConcatProperties
<1> HIDE DEF t, r
<1>3. ASSUME NEW i \in 1..Len(r)
      PROVE  r[i] = IF i <= Len(s) THEN s[i] ELSE a + (i - Len(s)) - 1
  <2>1. i \in Int /\ 1 <= i /\ i <= Len(s) + (b - a)
    BY <1>1, <1>2
  <2>2. CASE i <= Len(s)
    BY <1>2, <2>2
  <2>3. CASE ~(i <= Len(s))
    <3>1. i - Len(s) \in 1..(b - a)
      BY <1>1, <2>1, <2>3
    <3>2. QED BY <1>1, <1>2, <2>3, <3>1
  <2>4. QED BY <2>2, <2>3
<1>4. ASSUME NEW i \in 1..Len(r)  PROVE r[i] < b
  <2>1. i \in Int /\ 1 <= i /\ i <= Len(s) + (b - a)
    BY <1>1, <1>2
  <2>2. CASE i <= Len(s)
    <3>1. s[i] < a /\ s[i] \in Nat
      BY <1>1, <2>1, <2>2 DEF Below
    <3>2. r[i] = s[i]
      BY <1>3, <2>2
    <3>3. QED BY <3>1, <3>2
  <2>3. CASE ~(i <= Len(s))
    <3>1. r[i] = a + (i - Len(s)) - 1
      BY <1>3, <2>3
    <3>2. a + (i - Len(s)) - 1 < b
      BY <1>1, <2>1, <2>3
    <3>3. QED BY <3>1, <3>2
  <2>4. QED BY <2>2, <2>3
<1>5. ASSUME NEW i \in 1..(Len(r) - 1)  PROVE r[i] < r[i + 1]
  <2>1. /\ i \in Int /\ 1 <= i /\ i + 1 <= Len(s) + (b - a)
        /\ i \in 1..Len(r) /\ i + 1 \in 1..Len(r)
    BY <1>1, <1>2
  <2>2. CASE i + 1 <= Len(s)
    <3>1. i \in 1..(Len(s) - 1) /\ i <= Len(s)
      BY <1>1, <2>1, <2>2
    <3>2. s[i] < s[i + 1]
      BY <3>1 DEF Rises
    <3>3. r[i] = s[i] /\ r[i + 1] = s[i + 1]
      BY <1>3, <2>1, <2>2, <3>1
    <3>4. QED BY <3>2, <3>3
  <2>3. CASE i = Len(s)
    <3>1. s[i] < a
      BY <2>1, <2>3 DEF Below
    <3>2. r[i] = s[i] /\ r[i + 1] = a + (i + 1 - Len(s)) - 1
      BY <1>1, <1>3, <2>1, <2>3
    <3>3. a + (i + 1 - Len(s)) - 1 = a
      BY <1>1, <2>3
    <3>4. QED BY <3>1, <3>2, <3>3
  <2>4. CASE Len(s) < i
    <3>1. r[i] = a + (i - Len(s)) - 1 /\ r[i + 1] = a + (i + 1 - Len(s)) - 1
      BY <1>1, <1>3, <2>1, <2>4
    <3>2. a + (i - Len(s)) - 1 < a + (i + 1 - Len(s)) - 1
      BY <1>1, <2>1
    <3>3. QED BY <3>1, <3>2
  <2>5. QED BY <1>1, <2>1, <2>2, <2>3, <2>4
<1>6. QED BY <1>2, <1>4, <1>5 DEF Rises, Below, r, t

\* The start of the part after the one being requested.
LEMMA NextStart ==
  ASSUME SplitTypeOK, index' = index + 1, UNCHANGED <<total, split>>
  PROVE  chunk_size' = chunk_size /\ start' = start + chunk_size
<1>1. chunk_size' = chunk_size
  BY DEF chunk_size
<1>2. (index + 1) * chunk_size = index * chunk_size + chunk_size
  BY ChunkIsNat DEF SplitTypeOK
<1>3. QED BY <1>1, <1>2 DEF start

\* A part that is answered with its range.
LEMMA RangeKeeps ==
  ASSUME SplitInv, download_range, start < length,
         received' = received \o Bytes(start, End), index' = index + 1,
         ranges' = ranges, phase' = phase
  PROVE  SplitInv'
<1>1. /\ chunk_size \in Nat /\ start \in Nat /\ Len(received) \in Nat
      /\ total \in Nat /\ length \in Nat /\ index \in Nat /\ split \in Nat
      /\ received \in Seq(Nat) /\ index < split /\ start < total /\ phase = "parts"
      /\ length' = length /\ changed' = changed /\ split' = split /\ total' = total
  BY ChunkIsNat DEF SplitInv, SplitTypeOK, download_range
<1>2. chunk_size' = chunk_size /\ start' = start + chunk_size
  BY <1>1, NextStart DEF SplitInv
<1>3. /\ End \in Nat /\ start <= End /\ End <= length
      /\ index + 1 # split => End <= start + chunk_size
  <2>1. start <= start + chunk_size
    BY <1>1
  <2>2. CASE index + 1 = split
    BY <1>1, <2>2 DEF End
  <2>3. CASE index + 1 # split
    BY <1>1, <2>1, <2>3 DEF End, Least
  <2> QED
    BY <2>2, <2>3
<1>4. Ordered' /\ received' \in Seq(Nat)
  <2>1. received' \in Seq(Nat)
    BY <1>1, <1>3, BytesJoin, ConcatProperties
  <2>2. CASE ranges
    <3>1. Rises(received) /\ Below(received, start)
      BY <1>1, <2>2 DEF SplitInv, Ordered, Rises, Below
    <3>2. Rises(received') /\ Below(received', End)
      BY <1>1, <1>3, <3>1, RunsRise
    <3>3. index + 1 # split => Below(received', start')
      <4> SUFFICES ASSUME index + 1 # split, NEW i \in 1..Len(received')
                   PROVE  received'[i] < start'
        BY DEF Below
      <4>1. received'[i] < End /\ received'[i] \in Nat
        BY <2>1, <3>2 DEF Below
      <4>2. QED BY <1>1, <1>2, <1>3, <4>1
    <3>4. \A i \in 1..(Len(received') - 1) : received'[i] < received'[i + 1]
      BY <3>2 DEF Rises
    <3>5. index' = split' \/ \A i \in 1..Len(received') : received'[i] < start'
      <4>1. CASE index + 1 = split
        BY <1>1, <4>1
      <4>2. CASE index + 1 # split
        BY <3>3, <4>2 DEF Below
      <4>3. QED BY <4>1, <4>2
    <3>6. QED BY <2>1, <3>4, <3>5 DEF Ordered
  <2>3. QED BY <2>1, <2>2 DEF Ordered
<1>5. SplitTypeOK'
  BY <1>1, <1>4 DEF SplitInv, SplitTypeOK
<1>6. Joins' /\ Progress'
  <2> SUFFICES ASSUME ranges, changed # "rewritten"
               PROVE  Joins' /\ Progress'
    BY <1>1 DEF Joins, Progress
  <2>1. Len(received) = start
    BY <1>1 DEF SplitInv, Progress, Expected, Least
  <2>2. received' = Bytes(0, End) /\ Len(received') = End
    <3>1. received = Bytes(0, start)
      BY <2>1 DEF SplitInv, Joins
    <3>2. received' = Bytes(0, start) \o Bytes(start, End)
      BY <3>1
    <3>3. Bytes(0, start) \o Bytes(start, End) = Bytes(0, End)
      BY <1>1, <1>3, BytesJoin
    <3>4. Len(Bytes(0, End)) = End - 0
      BY <1>3, BytesJoin
    <3>5. QED BY <1>3, <3>2, <3>3, <3>4
  <2>3. Joins'
    BY <2>2 DEF Joins
  <2>4. CASE index + 1 = split
    <3>1. End = length
      BY <2>4 DEF End
    <3>2. changed = "kept" => total <= length
      BY <1>1 DEF SplitInv, Grown
    <3>3. Progress'
      BY <1>1, <2>2, <2>4, <3>1, <3>2 DEF Progress
    <3>4. QED BY <2>3, <3>3
  <2>5. CASE index + 1 # split
    <3>1. index + 1 < split
      BY <1>1, <2>5
    <3>2. End = Least(Least(start + chunk_size, total), length)
      BY <2>5 DEF End
    <3>3. CASE Least(start + chunk_size, total) <= length
      <4>1. End = Least(start + chunk_size, total)
        BY <1>1, <3>2, <3>3 DEF Least
      <4>2. Len(received') = Least(start', total') /\ index' < split'
        BY <1>1, <1>2, <2>2, <3>1, <4>1
      <4>3. QED BY <2>3, <4>2 DEF Progress, Expected
    <3>4. CASE ~(Least(start + chunk_size, total) <= length)
      <4>1. End = length /\ length < start + chunk_size /\ length < total
        BY <1>1, <3>2, <3>4 DEF Least
      <4>2. changed = "cut"
        BY <1>1, <4>1 DEF SplitInv, Grown, SplitTypeOK, Changed
      <4>3. Len(received') = length' /\ length' <= start' /\ changed' = "cut"
        BY <1>1, <1>2, <2>2, <4>1, <4>2
      <4>4. QED BY <1>1, <2>3, <4>3 DEF Progress
    <3>5. QED BY <3>3, <3>4
  <2>6. QED BY <2>4, <2>5
<1>7. Grown' /\ Untouched' /\ NothingMissing'
  BY <1>1 DEF SplitInv, Grown, Untouched, NothingMissing
<1> QED
  BY <1>4, <1>5, <1>6, <1>7 DEF SplitInv

\* A request for a part, however it is answered.
LEMMA PartKeeps ==
  ASSUME SplitInv, download_range
  PROVE  SplitInv'
<1>1. /\ length \in Nat /\ received \in Seq(Nat) /\ phase = "parts"
      /\ index \in Nat /\ split \in Nat /\ index < split
      /\ length' = length /\ changed' = changed /\ split' = split /\ total' = total
  BY DEF SplitInv, SplitTypeOK, download_range
<1>2. CASE /\ start < length /\ received' = received \o Bytes(start, End)
           /\ index' = index + 1 /\ UNCHANGED <<ranges, phase>>
  BY <1>2, RangeKeeps
<1>3. CASE /\ received' = received \o Bytes(0, length) /\ index' = index + 1
           /\ ranges' = FALSE /\ UNCHANGED phase
  <2>1. received' \in Seq(Nat)
    BY <1>1, <1>3, BytesJoin, ConcatProperties
  <2>2. SplitTypeOK'
    <3>1. index' \in 0..split'
      BY <1>1, <1>3
    <3>2. ranges' \in BOOLEAN
      BY <1>3
    <3>3. QED BY <1>1, <1>3, <2>1, <3>1, <3>2 DEF SplitInv, SplitTypeOK
  <2>3. Ordered' /\ Joins' /\ Progress' /\ Grown' /\ Untouched' /\ NothingMissing'
    BY <1>1, <1>3
       DEF SplitInv, Ordered, Joins, Progress, Grown, Untouched, NothingMissing
  <2>4. QED BY <2>2, <2>3 DEF SplitInv
<1>4. CASE phase' = "failed" /\ UNCHANGED <<received, index, ranges>>
  BY <1>1, <1>4 DEF SplitInv, SplitTypeOK, Ordered, Joins, Progress, Grown, Untouched,
                    NothingMissing
<1> QED
  BY <1>2, <1>3, <1>4 DEF download_range

\* The end of the loop: the last part has come, or the parts cover what the probe
\* said, or the file was cut.
LEMMA JoinedKeeps ==
  ASSUME SplitInv, Joined
  PROVE  SplitInv'
<1>1. start \in Nat /\ total \in Nat /\ length \in Nat /\ Len(received) \in Nat
  BY ChunkIsNat DEF SplitInv, SplitTypeOK
<1>2. SplitTypeOK' /\ Ordered' /\ Joins' /\ Progress' /\ Grown' /\ Untouched'
  BY DEF SplitInv, SplitTypeOK, Ordered, Joins, Progress, Grown, Untouched, Joined
<1>3. NothingMissing'
  <2>1. ranges /\ changed = "kept" => total <= Len(received) /\ Len(received) <= length
    BY <1>1 DEF SplitInv, SplitTypeOK, Progress, Expected, Least, Grown, Joined
  <2> QED
    BY <2>1 DEF NothingMissing, Joined
<1> QED
  BY <1>2, <1>3 DEF SplitInv

\* The file changes under the download.
LEMMA ChangeKeeps ==
  ASSUME SplitInv, Change
  PROVE  SplitInv'
<1>1. /\ start \in Nat /\ start' = start /\ total \in Nat /\ Len(received) \in Nat
      /\ length \in Nat /\ length' \in Nat /\ phase = "parts"
      /\ UNCHANGED <<split, total, index, ranges, received, phase>>
  BY ChunkIsNat DEF SplitInv, SplitTypeOK, Change, start, chunk_size
<1>2. SplitTypeOK' /\ Ordered'
  BY <1>1 DEF SplitInv, SplitTypeOK, Changed, Ordered, Change
<1>3. CASE length' > length /\ changed = "kept" /\ UNCHANGED changed
  <2>1. Joins' /\ Grown' /\ Untouched' /\ NothingMissing'
    BY <1>1, <1>3 DEF SplitInv, Joins, Grown, Untouched, NothingMissing
  <2>2. Progress'
    BY <1>1, <1>3 DEF SplitInv, Progress, Expected
  <2>3. QED BY <1>2, <2>1, <2>2 DEF SplitInv
<1>4. CASE length' < length /\ changed # "rewritten" /\ changed' = "cut"
  <2>1. Joins' /\ Grown' /\ Untouched' /\ NothingMissing'
    BY <1>1, <1>4 DEF SplitInv, Joins, Grown, Untouched, NothingMissing
  <2>2. Progress'
    BY <1>1, <1>4 DEF SplitInv, Progress, Expected
  <2>3. QED BY <1>2, <2>1, <2>2 DEF SplitInv
<1>5. CASE changed' = "rewritten"
  BY <1>1, <1>2, <1>5 DEF SplitInv, Joins, Progress, Grown, Untouched, NothingMissing
<1> QED
  BY <1>3, <1>4, <1>5 DEF Change

\* SplitInv is inductive.
THEOREM SplitInvariant == SplitSpec => []SplitInv
<1>1. SplitInit => SplitInv
  <2> SUFFICES ASSUME SplitInit PROVE SplitInv
    OBVIOUS
  <2>1. SplitTypeOK
    BY DEF SplitInit, SplitTypeOK, Changed
  <2>2. Joins
    BY DEF SplitInit, Joins, Bytes
  <2>3. Ordered
    <3>1. Len(received) = 0 /\ phase = "probe"
      BY DEF SplitInit
    <3>2. QED BY <3>1 DEF Ordered
  <2> QED
    BY <2>1, <2>2, <2>3 DEF SplitInit, SplitInv, Progress, Grown, Untouched, NothingMissing
<1>2. SplitInv /\ [SplitNext]_splitVars => SplitInv'
  <2> SUFFICES ASSUME SplitInv, [SplitNext]_splitVars PROVE SplitInv'
    OBVIOUS
  <2>1. CASE probe_length
    <3>1. /\ SplitTypeOK' /\ Joins' /\ Grown' /\ Untouched' /\ NothingMissing'
      BY <2>1 DEF SplitInv, SplitTypeOK, Joins, Grown, Untouched, NothingMissing, probe_length
    <3>2. Ordered'
      <4>1. Len(received') = 0
        BY <2>1 DEF SplitInv, Untouched, probe_length
      <4>2. QED BY <4>1 DEF Ordered
    <3>3. Progress'
      <4>1. /\ split \in Nat \ {0} /\ split' = split /\ total' \in Nat
            /\ index = 0 /\ index' = 0 /\ received' = <<>>
        BY <2>1, <3>1 DEF SplitInv, Untouched, SplitTypeOK, probe_length
      <4>2. chunk_size' \in Nat
        BY <4>1, CeilingIsNat DEF chunk_size
      <4>3. start' = 0
        <5>1. \A c \in Nat : 0 * c = 0
          OBVIOUS
        <5> QED
          BY <4>1, <4>2, <5>1 DEF start
      <4> QED
        BY <4>1, <4>3 DEF Progress, Expected, Least
    <3> QED
      BY <3>1, <3>2, <3>3 DEF SplitInv
  <2>2. CASE download_range
    BY <2>2, PartKeeps
  <2>3. CASE Joined
    BY <2>3, JoinedKeeps
  <2>4. CASE Change
    BY <2>4, ChangeKeeps
  <2>5. CASE UNCHANGED splitVars
    BY <2>5 DEF SplitInv, SplitTypeOK, Ordered, Joins, Progress, Expected, start,
                chunk_size, Grown, Untouched, NothingMissing, splitVars
  <2> QED
    BY <2>1, <2>2, <2>3, <2>4, <2>5 DEF SplitNext
<1> QED
  BY <1>1, <1>2, PTL DEF SplitSpec

\* The type invariant of a split download.
THEOREM SplitTypeCorrect == SplitSpec => []SplitTypeOK
BY SplitInvariant, PTL DEF SplitInv

\* Parts answered with their ranges join in order whatever happens to the file, and
\* without a gap unless it is rewritten, for every length and number of parts.
THEOREM PartsAlwaysJoin == SplitSpec => []PartsJoin
<1>1. SplitInv => PartsJoin
  BY DEF SplitInv, Ordered, Joins, PartsJoin
<1> QED
  BY <1>1, SplitInvariant, PTL

\* A file that was at most added to is joined completely.
THEOREM NothingIsMissing == SplitSpec => []NothingMissing
BY SplitInvariant, PTL DEF SplitInv
=============================================================================
