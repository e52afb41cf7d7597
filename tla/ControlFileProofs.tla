-------------------------- MODULE ControlFileProofs --------------------------
(***************************************************************************)
(* Proofs about ControlFile: as long as writes do not overlap there is one *)
(* writer, the temporary file is its own and holds what it has written;    *)
(* and so a rename puts a whole version in the control file's place, and   *)
(* ControlFile implements the register AtomicFile.                         *)
(***************************************************************************)
EXTENDS ControlFile, SequenceTheorems, TLAPS

\* Calls that have opened a file have one.
Opened == \A c \in Callers : call[c].op \in {"write", "read"} => call[c].inode \in Inodes

\* One writer at most.
Alone == \A c, d \in Callers : IsWriting(c) /\ IsWriting(d) => c = d

\* The temporary file is the writer's and holds the parts it has written.
Begun(c) ==
  /\ call[c].op = "create" => call[c].written = 0
  /\ call[c].op = "write" =>
       /\ temp \in Inodes /\ call[c].inode = temp
       /\ data[temp] = [n \in 1..call[c].written |-> call[c].version]

ControlInv ==
  /\ ControlTypeOK /\ TempUnseen /\ Opened
  /\ ~mixed => Alone /\ \A c \in Callers : Begun(c)

Content == Versions \cup {Nothing}

-----------------------------------------------------------------------------
(* Contents *)

\* A whole version parses to itself.
LEMMA WholeParses == ASSUME NEW v \in Versions  PROVE Parsed(Whole(v)) = v
<1>1. ASSUME NEW w \in Versions, Whole(v) = Whole(w)  PROVE w = v
  <2>1. Parts[v] \in Nat \ {0} /\ Parts[w] \in Nat \ {0}
    BY PartsAssumption
  <2>2. 1 \in 1..Parts[v] /\ 1 \in 1..Parts[w]
    BY <2>1
  <2>3. Whole(v)[1] = v /\ Whole(w)[1] = w
    BY <2>2 DEF Whole
  <2>4. QED BY <1>1, <2>3
<1>2. QED BY <1>1 DEF Parsed

\* What a content parses to is a version or garbage, never nothing.
LEMMA ParsedType == ASSUME NEW s  PROVE Parsed(s) \in Versions \cup {Garbage}
  BY DEF Parsed

LEMMA Constantly ==
  ASSUME NEW k \in Nat, NEW S, NEW v \in S
  PROVE  /\ [n \in 1..k |-> v] \in Seq(S) /\ Len([n \in 1..k |-> v]) = k
  OBVIOUS

\* Writing a part gives a content, the next part of a version more of it.
LEMMA PutType ==
  ASSUME NEW s \in Seq(Content), NEW n \in Nat \ {0}, NEW v \in Versions
  PROVE  Put(s, n, v) \in Seq(Content)
<1> DEFINE k == IF n > Len(s) THEN n ELSE Len(s)
<1>1. k \in Nat /\ Len(s) \in Nat
  BY LenProperties
<1>2. \A m \in 1..k :
        (IF m = n THEN v ELSE IF m <= Len(s) THEN s[m] ELSE Nothing) \in Content
  <2> SUFFICES ASSUME NEW m \in 1..k
               PROVE (IF m = n THEN v ELSE IF m <= Len(s) THEN s[m] ELSE Nothing) \in Content
    OBVIOUS
  <2>1. m <= Len(s) => s[m] \in Content
    BY <1>1, LenProperties
  <2>2. QED BY <2>1 DEF Content
<1>3. Put(s, n, v) = [m \in 1..k |->
        IF m = n THEN v ELSE IF m <= Len(s) THEN s[m] ELSE Nothing]
  BY DEF Put
<1> HIDE DEF k
<1>4. QED BY <1>1, <1>2, <1>3

LEMMA PutNext ==
  ASSUME NEW k \in Nat, NEW v \in Versions
  PROVE  Put([n \in 1..k |-> v], k + 1, v) = [n \in 1..(k + 1) |-> v]
<1> DEFINE s == [n \in 1..k |-> v]
<1>1. Len(s) = k
  OBVIOUS
<1>2. \A m \in 1..k : s[m] = v
  OBVIOUS
<1> HIDE DEF s
<1>3. Put(s, k + 1, v) = [m \in 1..(k + 1) |->
        IF m = k + 1 THEN v ELSE IF m <= k THEN s[m] ELSE Nothing]
  BY <1>1 DEF Put
<1>4. \A m \in 1..(k + 1) : (IF m = k + 1 THEN v ELSE IF m <= k THEN s[m] ELSE Nothing) = v
  BY <1>2
<1>5. Put(s, k + 1, v) = [n \in 1..(k + 1) |-> v]
  BY <1>3, <1>4
<1>6. QED BY <1>5 DEF s

-----------------------------------------------------------------------------
(* The invariant *)

LEMMA InitInv == ControlInit => ControlInv
<1> SUFFICES ASSUME ControlInit  PROVE ControlInv
  OBVIOUS
<1>1. \A c \in Callers : call[c] = Idle /\ ~IsWriting(c)
  BY DEF ControlInit, Idle, IsWriting
<1>2. call \in [Callers -> Call]
  <2>1. Idle \in Call
    BY DEF Idle, Call
  <2>2. QED BY <2>1 DEF ControlInit
<1>3. data \in [Inodes -> Seq(Content)]
  <2>1. PICK s \in {<<>>} \cup {Whole(v) : v \in Versions} :
          data = [i \in Inodes |-> IF i = path THEN s ELSE <<>>]
    BY DEF ControlInit
  <2>2. \A v \in Versions : Whole(v) \in Seq(Content)
    BY PartsAssumption, Constantly DEF Whole, Content
  <2>3. <<>> \in Seq(Content)
    OBVIOUS
  <2>4. s \in Seq(Content)
    BY <2>2, <2>3
  <2>5. QED BY <2>1, <2>3, <2>4
<1>4. ControlTypeOK
  BY <1>1, <1>2, <1>3 DEF ControlTypeOK, ControlInit, Content
<1>5. TempUnseen /\ Opened /\ Alone /\ \A c \in Callers : Begun(c)
  BY <1>1 DEF TempUnseen, Opened, Alone, Begun, ControlInit, Idle
<1>6. QED BY <1>4, <1>5 DEF ControlInv

LEMMA TypeStep == ControlTypeOK /\ Opened /\ [ControlNext]_controlVars => ControlTypeOK'
<1> SUFFICES ASSUME ControlTypeOK, Opened, [ControlNext]_controlVars  PROVE ControlTypeOK'
  OBVIOUS
<1> USE DEF Content
<1>0. Idle \in Call /\ ~(Idle.op \in {"create", "write"})
  BY DEF Idle, Call
<1>1. CASE Remove \/ UNCHANGED controlVars
  BY <1>1 DEF Remove, ControlTypeOK, IsWriting, controlVars, disk
<1>2. CASE Crash
  BY <1>0, <1>2 DEF Crash, ControlTypeOK, IsWriting, disk
<1>3. ASSUME NEW c \in Callers, Ends(c), path' \in {path, temp}, temp' \in {temp, NoInode},
             UNCHANGED data
      PROVE ControlTypeOK'
  BY <1>0, <1>3 DEF Ends, ControlTypeOK, IsWriting
<1>4. ASSUME NEW c \in Callers, ControlStep(c)  PROVE ControlTypeOK'
  <2>1. ASSUME NEW v \in Versions, BeginWrite(c, v)  PROVE ControlTypeOK'
    <3>1. call' \in [Callers -> Call] /\ call'[c].written = 0 /\ call'[c].version = v
      BY <1>0, <2>1 DEF BeginWrite, ControlTypeOK, Idle, Call
    <3>2. Parts[v] \in Nat
      BY PartsAssumption
    <3>3. QED BY <2>1, <3>1, <3>2 DEF BeginWrite, ControlTypeOK, IsWriting, disk
  <2>2. CASE CreateTemp(c)
    <3>1. PICK i \in IF temp = NoInode THEN Free ELSE {temp} :
            /\ temp' = i
            /\ data' = [data EXCEPT ![i] = <<>>]
            /\ call' = [call EXCEPT ![c] = [@ EXCEPT !.op = "write", !.inode = i]]
      BY <2>2 DEF CreateTemp
    <3>2. i \in Inodes
      BY <3>1 DEF Free, ControlTypeOK
    <3>3. call' \in [Callers -> Call]
      <4>1. [call[c] EXCEPT !.op = "write", !.inode = i] \in Call
        BY <3>2 DEF ControlTypeOK, Call
      <4>2. QED BY <3>1, <4>1 DEF ControlTypeOK
    <3>4. data' \in [Inodes -> Seq(Content)]
      BY <3>1, <3>2 DEF ControlTypeOK
    <3>5. \A d \in Callers : (IsWriting(d))' => IsWriting(d)
      BY <2>2, <3>1 DEF CreateTemp, IsWriting, ControlTypeOK
    <3>6. \A d \in Callers : call'[d].version = call[d].version /\ call'[d].written = call[d].written
      BY <3>1 DEF ControlTypeOK, Call
    <3>7. \A d \in Callers : (IsWriting(d))' =>
            call'[d].version \in Versions /\ call'[d].written <= Parts[call'[d].version]
      BY <3>5, <3>6 DEF ControlTypeOK
    <3>8. path' = path /\ mixed' = mixed
      BY <2>2 DEF CreateTemp
    <3>9. QED BY <3>1, <3>2, <3>3, <3>4, <3>7, <3>8 DEF ControlTypeOK
  <2>3. CASE WritePart(c)
    <3> DEFINE i == call[c].inode  v == call[c].version  k == call[c].written
    <3>1. i \in Inodes /\ v \in Versions /\ k \in Nat /\ k < Parts[v]
      BY <2>3 DEF WritePart, Opened, ControlTypeOK, Call, IsWriting
    <3>2. Put(data[i], k + 1, v) \in Seq(Content)
      <4>1. data[i] \in Seq(Content) /\ k + 1 \in Nat \ {0}
        BY <3>1 DEF ControlTypeOK
      <4>2. QED BY ONLY <3>1, <4>1, PutType
    <3>3. data' \in [Inodes -> Seq(Content)]
      <4>1. data' = [data EXCEPT ![i] = Put(@, k + 1, v)]
        BY <2>3 DEF WritePart
      <4>2. QED BY <3>1, <3>2, <4>1 DEF ControlTypeOK
    <3>4. call' \in [Callers -> Call] /\ call'[c].written = k + 1
      <4>1. call' = [call EXCEPT ![c].written = k + 1]
        BY <2>3 DEF WritePart
      <4>2. [call[c] EXCEPT !.written = k + 1] \in Call
        <5>1. call[c] \in Call /\ k + 1 \in Nat
          BY <3>1 DEF ControlTypeOK
        <5>2. QED BY <5>1 DEF Call
      <4>3. call' = [call EXCEPT ![c] = [call[c] EXCEPT !.written = k + 1]]
        BY <4>1
      <4>4. call' \in [Callers -> Call]
        BY <4>2, <4>3 DEF ControlTypeOK
      <4>5. call'[c].written = k + 1
        BY <4>3 DEF ControlTypeOK, Call
      <4>6. QED BY <4>4, <4>5
    <3>5. \A d \in Callers : call'[d].op = call[d].op /\ call'[d].version = call[d].version
                             /\ (d # c => call'[d].written = call[d].written)
      BY <2>3 DEF WritePart, ControlTypeOK, Call
    <3>6. Parts[v] \in Nat
      BY <3>1, PartsAssumption
    <3>7. \A d \in Callers : (IsWriting(d))' =>
            call'[d].version \in Versions /\ call'[d].written <= Parts[call'[d].version]
      <4>1. \A d \in Callers : (IsWriting(d))' => IsWriting(d)
        BY <3>5 DEF IsWriting
      <4>2. k + 1 <= Parts[v]
        BY <3>1, <3>6
      <4>3. QED BY <3>4, <3>5, <4>1, <4>2 DEF ControlTypeOK
    <3>8. UNCHANGED <<path, temp, mixed>>
      BY <2>3 DEF WritePart
    <3>9. QED BY <3>3, <3>4, <3>7, <3>8 DEF ControlTypeOK
  <2>4. CASE Rename(c) \/ WriteFails(c)
    BY <1>3, <2>4 DEF Rename, WriteFails, disk
  <2>5. CASE OpenRead(c) \/ ReadReturns(c)
    <3>1. PICK r \in Call : r.op \in {"idle", "read"} /\ call' = [call EXCEPT ![c] = r]
      <4>1. [call[c] EXCEPT !.op = "read", !.inode = path] \in Call
        BY DEF ControlTypeOK, Call
      <4>2. QED BY <1>0, <2>5, <4>1 DEF OpenRead, ReadReturns, Idle, Call
    <3>2. call' \in [Callers -> Call]
      BY <3>1 DEF ControlTypeOK
    <3>5. \A d \in Callers : (IsWriting(d))' => IsWriting(d) /\ call'[d] = call[d]
      BY <3>1 DEF ControlTypeOK, IsWriting
    <3>3. UNCHANGED <<path, temp, data, mixed>>
      BY <2>5 DEF OpenRead, ReadReturns, disk
    <3>4. QED BY <3>2, <3>3, <3>5 DEF ControlTypeOK
  <2>6. QED BY <1>4, <2>1, <2>2, <2>3, <2>4, <2>5 DEF ControlStep
<1>5. QED BY <1>1, <1>2, <1>4 DEF ControlNext

\* A step of a call changes no other.
LEMMA CallStep ==
  ASSUME ControlTypeOK, NEW c \in Callers, ControlStep(c)
  PROVE  \A d \in Callers \ {c} : call'[d] = call[d]
<1> USE DEF ControlTypeOK, Call
<1>1. ASSUME NEW v \in Versions, BeginWrite(c, v)
      PROVE \A d \in Callers \ {c} : call'[d] = call[d]
  BY <1>1 DEF BeginWrite, Idle
<1>2. CASE CreateTemp(c)
  BY <1>2 DEF CreateTemp
<1>3. CASE WritePart(c)
  BY <1>3 DEF WritePart
<1>4. CASE Rename(c) \/ WriteFails(c) \/ ReadReturns(c)
  BY <1>4 DEF Rename, WriteFails, ReadReturns, Ends, Idle
<1>5. CASE OpenRead(c)
  BY <1>5 DEF OpenRead
<1>6. QED BY <1>1, <1>2, <1>3, <1>4, <1>5 DEF ControlStep

LEMMA UnseenStep ==
  ControlTypeOK /\ TempUnseen /\ Opened /\ [ControlNext]_controlVars => TempUnseen' /\ Opened'
<1> SUFFICES ASSUME ControlTypeOK, TempUnseen, Opened, [ControlNext]_controlVars
             PROVE TempUnseen' /\ Opened'
  OBVIOUS
<1>1. CASE Remove \/ UNCHANGED controlVars
  BY <1>1, NamesAssumption DEF Remove, TempUnseen, Opened, controlVars, disk
<1>2. CASE Crash
  BY <1>2 DEF Crash, TempUnseen, Opened, Idle, disk
<1>3. ASSUME NEW c \in Callers, ControlStep(c)  PROVE TempUnseen' /\ Opened'
  <2>1. \A d \in Callers \ {c} : call'[d] = call[d]
    BY <1>3, CallStep
  <2>2. ASSUME temp' = temp, path' = path, call'[c].op # "read"  PROVE TempUnseen'
    BY <2>1, <2>2 DEF TempUnseen
  <2>3. ASSUME NEW v \in Versions, BeginWrite(c, v)  PROVE TempUnseen' /\ Opened'
    BY <2>1, <2>2, <2>3 DEF BeginWrite, ControlTypeOK, Idle, Opened, disk
  <2>4. CASE CreateTemp(c)
    <3>1. temp' \in Inodes
      BY <2>4 DEF CreateTemp, Free, ControlTypeOK
    <3>2. call'[c].op = "write" /\ call'[c].inode = temp'
      BY <2>4 DEF CreateTemp, ControlTypeOK, Call
    <3>3. Opened'
      BY <2>1, <3>1, <3>2 DEF Opened
    <3>4. CASE temp = NoInode
      <4>1. temp' \in Free /\ path' = path
        BY <2>4, <3>4 DEF CreateTemp
      <4>2. temp' # path /\ \A d \in Callers : call[d].inode # temp'
        BY <4>1 DEF Free
      <4>3. TempUnseen'
        BY <2>1, <3>2, <4>1, <4>2 DEF TempUnseen
      <4>4. QED BY <3>3, <4>3
    <3>5. CASE temp # NoInode
      <4>1. temp' = temp /\ path' = path
        BY <2>4, <3>5 DEF CreateTemp
      <4>2. QED BY <2>2, <3>2, <3>3, <4>1
    <3>6. QED BY <3>4, <3>5
  <2>5. CASE WritePart(c)
    <3>1. call'[c].op = "write" /\ call'[c].inode = call[c].inode /\ call[c].op = "write"
      BY <2>5 DEF WritePart, ControlTypeOK, Call
    <3>2. temp' = temp /\ path' = path
      BY <2>5 DEF WritePart
    <3>3. Opened'
      BY <2>1, <3>1 DEF Opened
    <3>4. QED BY <2>2, <3>1, <3>2, <3>3
  <2>6. CASE Rename(c) \/ WriteFails(c)
    <3>1. call'[c].op = "idle"
      BY <2>6 DEF Rename, WriteFails, Ends, Idle, ControlTypeOK
    <3>2. Opened'
      BY <2>1, <3>1 DEF Opened
    <3>3. TempUnseen'
      BY <2>2, <2>6, <3>1 DEF Rename, WriteFails, TempUnseen, disk
    <3>4. QED BY <3>2, <3>3
  <2>7. CASE OpenRead(c)
    <3>1. call'[c].inode = path /\ path \in Inodes /\ temp' = temp /\ path' = path
      BY <2>7 DEF OpenRead, ControlTypeOK, Call, disk
    <3>2. QED BY <2>1, <3>1 DEF TempUnseen, Opened
  <2>8. CASE ReadReturns(c)
    <3>1. call'[c].op = "idle" /\ temp' = temp /\ path' = path
      BY <2>8 DEF ReadReturns, Idle, ControlTypeOK, disk
    <3>2. QED BY <2>1, <3>1 DEF TempUnseen, Opened
  <2>9. QED BY <1>3, <2>3, <2>4, <2>5, <2>6, <2>7, <2>8 DEF ControlStep
<1>4. QED BY <1>1, <1>2, <1>3 DEF ControlNext

\* A call that ends leaves no writer behind, unless writes overlap.
LEMMA EndsStep ==
  ASSUME ControlTypeOK, ~mixed => Alone, NEW c \in Callers, IsWriting(c), Ends(c), ~mixed'
  PROVE  \A d \in Callers : ~IsWriting(d)'
<1>1. \A d \in Callers \ {c} : call'[d] = call[d]
  BY DEF Ends, ControlTypeOK
<1>2. ~IsWriting(c)'
  BY DEF Ends, ControlTypeOK, Idle, IsWriting
<1>3. \A d \in Callers \ {c} : ~IsWriting(d)
  <2>1. CASE mixed
    <3>1. Busy \ {c} = {}
      BY <2>1 DEF Ends
    <3>2. QED BY <3>1 DEF Busy
  <2>2. CASE ~mixed
    BY <2>2 DEF Alone
  <2>3. QED BY <2>1, <2>2
<1>4. QED BY <1>1, <1>2, <1>3 DEF IsWriting

LEMMA AloneStep ==
  ControlInv /\ [ControlNext]_controlVars => (~mixed' => Alone' /\ \A c \in Callers : Begun(c)')
<1> SUFFICES ASSUME ControlInv, [ControlNext]_controlVars, ~mixed'
             PROVE Alone' /\ \A c \in Callers : Begun(c)'
  OBVIOUS
<1>0. ControlTypeOK /\ TempUnseen /\ Opened
  BY DEF ControlInv
<1>n. ASSUME \A d \in Callers : ~IsWriting(d)'  PROVE Alone' /\ \A c \in Callers : Begun(c)'
  BY <1>n DEF Alone, Begun, IsWriting
<1>1. CASE Remove \/ UNCHANGED controlVars
  BY <1>1 DEF ControlInv, Remove, Alone, Begun, IsWriting, controlVars, disk
<1>2. CASE Crash
  BY <1>2, <1>n DEF Crash, IsWriting, Idle
<1>3. ASSUME NEW c \in Callers, ControlStep(c)  PROVE Alone' /\ \A d \in Callers : Begun(d)'
  <2>1. \A d \in Callers \ {c} : call'[d] = call[d]
    BY <1>0, <1>3, CallStep
  <2>2. ASSUME \A d \in Callers \ {c} : ~IsWriting(d), Begun(c)'
        PROVE Alone' /\ \A d \in Callers : Begun(d)'
    BY <2>1, <2>2 DEF Alone, Begun, IsWriting
  <2>3. ASSUME mixed' = mixed, IsWriting(c)
        PROVE Alone /\ Begun(c) /\ \A d \in Callers \ {c} : ~IsWriting(d)
    BY <2>3 DEF ControlInv, Alone
  <2>4. ASSUME NEW v \in Versions, BeginWrite(c, v)  PROVE Alone' /\ \A d \in Callers : Begun(d)'
    <3>1. Busy = {}
      BY <2>4 DEF BeginWrite
    <3>2. call'[c].op = "create" /\ call'[c].written = 0
      BY <1>0, <2>4 DEF BeginWrite, ControlTypeOK, Idle, Call
    <3>3. QED BY <2>2, <3>1, <3>2 DEF Busy, Begun
  <2>5. CASE CreateTemp(c)
    <3>1. Begun(c) /\ \A d \in Callers \ {c} : ~IsWriting(d)
      BY <2>3, <2>5 DEF CreateTemp, IsWriting
    <3>2. temp' \in Inodes /\ data'[temp'] = <<>>
      BY <1>0, <2>5 DEF CreateTemp, Free, ControlTypeOK
    <3>3. call'[c].op = "write" /\ call'[c].inode = temp' /\ call'[c].written = 0
      BY <1>0, <2>5, <3>1 DEF CreateTemp, ControlTypeOK, Call, Begun
    <3>4. <<>> = [n \in 1..0 |-> call'[c].version]
      OBVIOUS
    <3>5. Begun(c)'
      BY <3>2, <3>3, <3>4 DEF Begun
    <3>6. QED BY <2>2, <3>1, <3>5
  <2>6. CASE WritePart(c)
    <3> DEFINE v == call[c].version  k == call[c].written
    <3>1. Begun(c) /\ \A d \in Callers \ {c} : ~IsWriting(d)
      BY <2>3, <2>6 DEF WritePart, IsWriting
    <3>2. temp \in Inodes /\ call[c].inode = temp /\ data[temp] = [n \in 1..k |-> v]
      BY <2>6, <3>1 DEF WritePart, Begun
    <3>3. v \in Versions /\ k \in Nat
      BY <1>0, <2>6 DEF WritePart, ControlTypeOK, Call, IsWriting
    <3>4. data'[temp] = Put(data[temp], k + 1, v)
      BY <1>0, <2>6, <3>2 DEF WritePart, ControlTypeOK
    <3>5. data'[temp] = [n \in 1..(k + 1) |-> v]
      BY ONLY <3>2, <3>3, <3>4, PutNext
    <3>6. /\ call'[c].op = "write" /\ call'[c].inode = temp
          /\ call'[c].version = v /\ call'[c].written = k + 1
      BY <1>0, <2>6, <3>2 DEF WritePart, ControlTypeOK, Call
    <3>7. temp' = temp
      BY <2>6 DEF WritePart
    <3>8. Begun(c)'
      BY <3>2, <3>5, <3>6, <3>7 DEF Begun
    <3>9. QED BY <2>2, <3>1, <3>8
  <2>7. CASE Rename(c) \/ WriteFails(c)
    BY <1>0, <1>n, <2>7, EndsStep DEF Rename, WriteFails, IsWriting, ControlInv
  <2>8. CASE OpenRead(c) \/ ReadReturns(c)
    <3>1. ~IsWriting(c) /\ ~IsWriting(c)'
      <4>1. CASE OpenRead(c)
        BY <1>0, <4>1 DEF OpenRead, IsWriting, ControlTypeOK, Call
      <4>2. CASE ReadReturns(c)
        BY <1>0, <4>2 DEF ReadReturns, IsWriting, Idle, ControlTypeOK
      <4>3. QED BY <2>8, <4>1, <4>2
    <3>2. temp' = temp /\ data' = data /\ mixed' = mixed
      BY <2>8 DEF OpenRead, ReadReturns, disk
    <3>3. Alone /\ \A d \in Callers : Begun(d)
      BY <3>2 DEF ControlInv
    <3>4. QED BY <2>1, <3>1, <3>2, <3>3 DEF Alone, Begun, IsWriting
  <2>9. QED BY <1>3, <2>4, <2>5, <2>6, <2>7, <2>8 DEF ControlStep
<1>4. QED BY <1>1, <1>2, <1>3 DEF ControlNext

THEOREM ControlInvariant == ControlSpec => []ControlInv
<1>1. ControlInv /\ [ControlNext]_controlVars => ControlInv'
  BY TypeStep, UnseenStep, AloneStep DEF ControlInv
<1>2. QED BY <1>1, InitInv, PTL DEF ControlSpec

\* Parameters keep their types, and no call writes past the end of its version.
THEOREM ControlTypeCorrect == ControlSpec => []ControlTypeOK
<1>1. ControlInv => ControlTypeOK
  BY DEF ControlInv
<1>2. QED BY <1>1, ControlInvariant, PTL

\* No write ever empties the control file or what a reader has open
\* (write_control_file_atomic).
THEOREM TempNeverSeen == ControlSpec => []TempUnseen
<1>1. ControlInv => TempUnseen
  BY DEF ControlInv
<1>2. QED BY <1>1, ControlInvariant, PTL

-----------------------------------------------------------------------------
(* The register *)

LEMMA WritersAreBusy == ControlTypeOK => Register!Writers(Writing) = Busy
<1> SUFFICES ASSUME ControlTypeOK  PROVE Register!Writers(Writing) = Busy
  OBVIOUS
<1>1. \A c \in Callers : Writing[c] # Nothing <=> IsWriting(c)
  BY NamesAssumption DEF Writing, ControlTypeOK
<1>2. QED BY <1>1 DEF Register!Writers, Busy

\* While writes overlap the register allows everything the files can do.
LEMMA MixedStep ==
  ASSUME ControlTypeOK, ControlTypeOK', mixed, mixed' = (Busy' # {})
  PROVE  Register!Mixed
<1>1. Named(path)' \in Register!Content /\ \A c \in Callers : Told'[c] \in Register!Content
  BY ParsedType DEF Told, Named, Register!Content
<1>2. Told' \in [Callers -> Register!Content]
  BY <1>1 DEF Told
<1>3. Writing' \in [Callers -> Versions \cup {Nothing}]
  BY DEF Writing, ControlTypeOK
<1>4. Register!Writers(Writing)' = Busy'
  <2>1. \A c \in Callers : Writing'[c] # Nothing <=> IsWriting(c)'
    BY NamesAssumption DEF Writing, ControlTypeOK
  <2>2. QED BY <2>1 DEF Register!Writers, Busy
<1>5. QED BY <1>1, <1>2, <1>3, <1>4 DEF Register!Mixed

\* What is written to the temporary file shows nowhere.
LEMMA Unnoticed ==
  ASSUME ControlTypeOK, TempUnseen', temp' \in Inodes, NEW s, path' = path,
         data' = [data EXCEPT ![temp'] = s], NEW c \in Callers,
         \A d \in Callers \ {c} : call'[d] = call[d],
         call[c].op # "read", call'[c].op # "read"
  PROVE  Named(path)' = Named(path) /\ Told' = Told
<1>1. \A i \in Inodes : i # temp' => data'[i] = data[i]
  BY DEF ControlTypeOK
<1>2. path # NoInode => path \in Inodes /\ path # temp'
  BY NamesAssumption DEF ControlTypeOK, TempUnseen
<1>3. Named(path)' = Named(path)
  BY <1>1, <1>2 DEF Named, Parsed
<1>4. ASSUME NEW d \in Callers
      PROVE (IF call'[d].op = "read" THEN Named(call[d].inode)' ELSE Nothing) =
            (IF call[d].op = "read" THEN Named(call[d].inode) ELSE Nothing)
  <2>1. CASE d # c /\ call[d].op = "read" /\ call[d].inode # NoInode
    <3>1. call'[d] = call[d]
      BY <2>1
    <3>2. call[d].inode # temp' /\ call[d].inode \in Inodes
      BY <2>1, <3>1, NamesAssumption DEF TempUnseen, ControlTypeOK, Call
    <3>3. data'[call[d].inode] = data[call[d].inode]
      BY <1>1, <3>2
    <3>4. QED BY <3>1, <3>3 DEF Named, Parsed
  <2>2. CASE d # c /\ call[d].op = "read" /\ call[d].inode = NoInode
    BY <2>2 DEF Named
  <2>3. CASE d = c \/ call[d].op # "read"
    BY <2>3
  <2>4. QED BY <2>1, <2>2, <2>3
<1>5. QED BY <1>3, <1>4 DEF Told

\* Every step of the files is one of the register.
LEMMA RegisterStep ==
  ControlInv /\ ControlInv' /\ [ControlNext]_controlVars
    => [Register!FileNext]_(Register!fileVars)
<1> SUFFICES ASSUME ControlInv, ControlInv', [ControlNext]_controlVars
             PROVE [Register!FileNext]_(Register!fileVars)
  OBVIOUS
<1>0. ControlTypeOK /\ ControlTypeOK' /\ TempUnseen' /\ Opened
  BY DEF ControlInv
<1>1. CASE UNCHANGED controlVars
  BY <1>1 DEF controlVars, disk, Named, Parsed, Writing, Told, IsWriting, Register!fileVars
<1>2. CASE Remove
  BY <1>2 DEF Remove, Named, Parsed, Writing, Told, IsWriting, Register!FileNext, Register!Remove
<1>3. CASE Crash
  BY <1>3 DEF Crash, disk, Idle, Named, Parsed, Writing, Told, IsWriting, Register!FileNext,
    Register!Die
<1>4. ASSUME NEW c \in Callers, ControlStep(c)  PROVE [Register!FileNext]_(Register!fileVars)
  <2>1. \A d \in Callers \ {c} : call'[d] = call[d]
    BY <1>0, <1>4, CallStep
  <2>2. ASSUME data' = data, path' = path  PROVE Named(path)' = Named(path)
    BY <2>2 DEF Named, Parsed
  <2>3. ASSUME data' = data, call[c].op # "read", call'[c].op # "read"  PROVE Told' = Told
    BY <2>1, <2>3 DEF Told, Named, Parsed
  <2>4. ASSUME IsWriting(c)', call'[c].version = call[c].version, IsWriting(c)
        PROVE Writing' = Writing
    BY <2>1, <2>4 DEF Writing, IsWriting
  <2>5. ASSUME ~IsWriting(c)'  PROVE Writing' = [Writing EXCEPT ![c] = Nothing]
    BY <2>1, <2>5 DEF Writing, IsWriting
  <2>6. ASSUME NEW v \in Versions, BeginWrite(c, v)  PROVE Register!FileNext
    <3>1. call[c].op = "idle" /\ call'[c].op = "create" /\ call'[c].version = v
      BY <1>0, <2>6 DEF BeginWrite, ControlTypeOK, Idle, Call
    <3>2. Writing[c] = Nothing /\ Writing' = [Writing EXCEPT ![c] = v]
      BY <2>1, <3>1 DEF Writing, IsWriting
    <3>3. mixed' = (Register!Writers(Writing) # {})
      BY <1>0, <2>6, WritersAreBusy DEF BeginWrite
    <3>4. Named(path)' = Named(path) /\ Told' = Told
      BY <2>2, <2>3, <2>6, <3>1 DEF BeginWrite, disk
    <3>5. QED BY <3>2, <3>3, <3>4 DEF Register!FileNext, Register!BeginWrite
  <2>7. CASE CreateTemp(c) \/ WritePart(c)
    <3>1. /\ IsWriting(c) /\ IsWriting(c)' /\ call'[c].version = call[c].version
          /\ call[c].op # "read" /\ call'[c].op # "read" /\ mixed' = mixed /\ path' = path
      <4>1. CASE CreateTemp(c)
        BY <1>0, <4>1 DEF CreateTemp, IsWriting, ControlTypeOK, Call
      <4>2. CASE WritePart(c)
        BY <1>0, <4>2 DEF WritePart, IsWriting, ControlTypeOK, Call
      <4>3. QED BY <2>7, <4>1, <4>2
    <3>2. Writing' = Writing
      BY <2>4, <3>1
    <3>3. CASE mixed
      <4>1. mixed' = (Busy' # {})
        BY <3>1, <3>3 DEF Busy
      <4>2. QED BY <1>0, <3>3, <4>1, MixedStep DEF Register!FileNext
    <3>4. CASE ~mixed
      <4>1. temp' \in Inodes /\ \E s : data' = [data EXCEPT ![temp'] = s]
        <5>1. CASE CreateTemp(c)
          BY <1>0, <5>1 DEF CreateTemp, Free, ControlTypeOK
        <5>2. CASE WritePart(c)
          <6>1. temp \in Inodes /\ call[c].inode = temp
            BY <3>4, <5>2 DEF WritePart, ControlInv, Begun
          <6>2. QED BY <5>2, <6>1 DEF WritePart
        <5>3. QED BY <2>7, <5>1, <5>2
      <4>2. PICK s : data' = [data EXCEPT ![temp'] = s]
        BY <4>1
      <4>3. Named(path)' = Named(path) /\ Told' = Told
        BY <1>0, <2>1, <3>1, <4>1, <4>2, Unnoticed
      <4>4. QED BY <3>1, <3>2, <4>3 DEF Register!fileVars
    <3>5. QED BY <3>3, <3>4
  <2>8. CASE Rename(c) \/ WriteFails(c)
    <3>1. /\ IsWriting(c) /\ ~IsWriting(c)' /\ call[c].op # "read" /\ call'[c].op # "read"
          /\ data' = data /\ mixed' = (mixed /\ Busy \ {c} # {})
      BY <1>0, <2>8 DEF Rename, WriteFails, Ends, IsWriting, Idle, ControlTypeOK, disk
    <3>2. Writing' = [Writing EXCEPT ![c] = Nothing] /\ Told' = Told
      BY <2>3, <2>5, <3>1
    <3>3. CASE mixed
      <4>1. Busy' = Busy \ {c}
        BY <2>1, <3>1 DEF Busy, IsWriting
      <4>2. QED BY <1>0, <3>1, <3>3, <4>1, MixedStep DEF Register!FileNext
    <3>4. CASE ~mixed /\ WriteFails(c)
      <4>1. mixed' = mixed
        BY <1>0, <3>1, <3>4, Zenon DEF ControlTypeOK
      <4>2. Named(path)' = Named(path)
        BY <2>2, <3>4 DEF WriteFails, disk
      <4>3. Register!GiveUp(c)
        BY <3>2, <4>1, <4>2 DEF Register!GiveUp
      <4>4. QED BY <3>4, <4>3 DEF Register!FileNext
    <3>5. CASE ~mixed /\ Rename(c)
      <4> DEFINE v == call[c].version
      <4>1. v \in Versions /\ call[c].op = "write" /\ call[c].written = Parts[v] /\ path' = temp
        BY <1>0, <3>1, <3>5 DEF Rename, ControlTypeOK
      <4>2. temp \in Inodes /\ data[temp] = Whole(v)
        BY <3>5, <4>1 DEF ControlInv, Begun, Whole
      <4>3. Named(path)' = v
        <5>1. Named(path)' = Parsed(data[temp])
          BY <3>1, <4>1, <4>2, NamesAssumption DEF Named, Parsed
        <5>2. QED BY <4>1, <4>2, <5>1, WholeParses
      <4>4. Writing[c] = v /\ v # Nothing
        BY <3>1, <4>1, NamesAssumption DEF Writing
      <4>5. mixed' = mixed
        BY <1>0, <3>1, <3>5, Zenon DEF ControlTypeOK
      <4>6. Register!Replace(c)
        BY <3>2, <4>3, <4>4, <4>5 DEF Register!Replace
      <4>7. QED BY <3>5, <4>6 DEF Register!FileNext
    <3>6. QED BY <2>8, <3>3, <3>4, <3>5
  <2>9. CASE OpenRead(c) \/ ReadReturns(c)
    <3>1. ~IsWriting(c) /\ ~IsWriting(c)' /\ data' = data /\ path' = path /\ mixed' = mixed
      <4>1. CASE OpenRead(c)
        BY <1>0, <4>1 DEF OpenRead, IsWriting, ControlTypeOK, Call, disk
      <4>2. CASE ReadReturns(c)
        BY <1>0, <4>2 DEF ReadReturns, IsWriting, Idle, ControlTypeOK, disk
      <4>3. QED BY <2>9, <4>1, <4>2
    <3>2. Writing' = Writing
      BY <2>1, <3>1 DEF Writing, IsWriting
    <3>3. CASE OpenRead(c)
      <4>1. call'[c].op = "read" /\ call'[c].inode = path
        BY <1>0, <3>3 DEF OpenRead, ControlTypeOK, Call
      <4>2. Told' = [Told EXCEPT ![c] = Named(path)]
        <5>1. ASSUME NEW i  PROVE Named(i)' = Named(i)
          BY <3>1 DEF Named, Parsed
        <5>2. \A d \in Callers \ {c} : Told'[d] = Told[d]
          BY <2>1, <5>1 DEF Told
        <5>3. Told'[c] = Named(path)
          BY <4>1, <3>1 DEF Told, Named, Parsed
        <5>4. QED BY <5>2, <5>3 DEF Told
      <4>3. QED BY <2>2, <3>1, <3>2, <4>2 DEF Register!FileNext, Register!Open
    <3>4. CASE ReadReturns(c)
      <4>1. call'[c].op = "idle"
        BY <1>0, <3>4 DEF ReadReturns, ControlTypeOK, Idle
      <4>2. Told' = [Told EXCEPT ![c] = Nothing]
        BY <2>1, <3>1, <4>1 DEF Told, Named, Parsed
      <4>3. QED BY <2>2, <3>1, <3>2, <4>2 DEF Register!FileNext, Register!Return
    <3>5. QED BY <2>9, <3>3, <3>4
  <2>10. QED BY <1>4, <2>6, <2>7, <2>8, <2>9 DEF ControlStep
<1>5. QED BY <1>1, <1>2, <1>3, <1>4 DEF ControlNext

\* For any number of callers and versions of any length, a control file is the
\* register AtomicFile, through every error and every crash.
THEOREM ControlFileIsARegister == ControlSpec => FileContract
<1>1. ControlInit => Register!FileInit
  <2> SUFFICES ASSUME ControlInit  PROVE Register!FileInit
    OBVIOUS
  <2>1. \A c \in Callers : ~IsWriting(c) /\ call[c].op # "read"
    BY DEF ControlInit, Idle, IsWriting
  <2>2. Named(path) \in Register!Content
    BY ParsedType DEF Named, Register!Content
  <2>3. QED BY <2>1, <2>2 DEF ControlInit, Writing, Told, Register!FileInit
<1>2. QED BY <1>1, ControlInvariant, RegisterStep, PTL DEF ControlSpec, FileContract,
       Register!FileSpec
=============================================================================
