---------------------------- MODULE UploadProofs ----------------------------
(***************************************************************************)
(* Proofs about the two files a client uploads.                            *)
(*                                                                         *)
(* Metalink: between two events of a file without oddities the parser's    *)
(* file is what the document has said of it, the text that was just read   *)
(* included, and a text is awaited for the open element only until it      *)
(* comes.                                                                  *)
(*                                                                         *)
(* Torrent: from the key of the info dictionary on, the search for its end *)
(* only ever stands where a value of the dictionary starts or a list or    *)
(* dictionary in it ends, and its depth is the depth of that place.        *)
(***************************************************************************)
EXTENDS Metalink, Torrent, SequenceTheorems, WellFoundedInduction, TLAPS

-----------------------------------------------------------------------------
(* Metalink: the invariant *)

\* The parser is in a file when the document is.
SameFile ==
  /\ current_file = None <=> inside = "document"
  /\ said = None <=> inside = "document"

\* The parser awaits the text of the open element, as long as there was none.
Awaits ==
  /\ leaf = None => text = None /\ current_text = None
  /\ text \in Texts => current_text = None
  /\ Reading /\ inside # "document" /\ text = None => current_text = leaf
  /\ Reading /\ inside = "file" /\ leaf = "size" => text \notin Words

\* What it has read so far is what the document has said so far.
AsSaid ==
  Reading /\ inside # "document" /\ odd \cup Oddity = {} => current_file = Says

MetalinkInv == MetalinkTypeOK /\ SameFile /\ Awaits /\ AsSaid /\ ReadAsWritten

Oddities == {"foreign", "split"}
Told == [file : File, odd : SUBSET Oddities]

-----------------------------------------------------------------------------
(* What a text adds to a file *)

LEMMA NewFileType == ASSUME NEW n \in Names  PROVE NewFile(n) \in File
  BY DEF NewFile, File

LEMMA TakeType ==
  ASSUME NEW m \in File, NEW target \in Target, NEW t \in Texts, target = "size" => t \in Numbers
  PROVE  Take(m, target, t) \in File
<1>1. CASE target = "size"
  BY <1>1 DEF Take, File
<1>2. CASE target = "sha-256"
  BY <1>2 DEF Take, File
<1>3. CASE target = "url"
  <2>1. Append(m.resources, t) \in Seq(Texts)
    BY DEF File
  <2>2. QED BY <1>3, <2>1 DEF Take, File
<1>4. CASE target = "md5"
  BY <1>4 DEF Take
<1>5. QED BY <1>1, <1>2, <1>3, <1>4 DEF Target

\* What the document says of a file is a file, if the parser has not refused it.
LEMMA SaysType ==
  ASSUME MetalinkInv, Reading  PROVE Says \in File \cup {None}
<1>1. CASE inside = "file" /\ text \in Numbers \cup Words
  <2>1. text \in Texts /\ leaf \in Target /\ said \in File
    BY <1>1, TextsAssumption DEF MetalinkInv, MetalinkTypeOK, SameFile, Awaits, Texts
  <2>2. leaf = "size" => text \in Numbers
    BY <1>1 DEF MetalinkInv, Awaits
  <2>3. Take(said, leaf, text) \in File
    BY <2>1, <2>2, TakeType
  <2>4. QED BY <1>1, <2>3 DEF Says
<1>2. CASE ~(inside = "file" /\ text \in Numbers \cup Words)
  BY <1>2 DEF Says, MetalinkInv, MetalinkTypeOK
<1>3. QED BY <1>1, <1>2

-----------------------------------------------------------------------------
(* Metalink: the invariant is kept *)

LEMMA InitInv == MetalinkInit => MetalinkInv
<1> SUFFICES ASSUME MetalinkInit  PROVE MetalinkInv
  OBVIOUS
<1>1. MetalinkTypeOK
  BY DEF MetalinkInit, MetalinkTypeOK
<1>2. SameFile /\ Awaits /\ AsSaid
  BY TextsAssumption DEF MetalinkInit, SameFile, Awaits, AsSaid
<1>3. ReadAsWritten
  BY DEF MetalinkInit, ReadAsWritten
<1>4. QED BY <1>1, <1>2, <1>3 DEF MetalinkInv

\* Nothing happens to a document that was refused, or read to its end.
LEMMA DoneStep ==
  ASSUME MetalinkInv, ~Reading', UNCHANGED <<current_file, files, inside, leaf, said, odd, told>>,
         outcome' \in {"parsed", "refused"}, current_text' \in {None, current_text},
         text' \in Texts \cup {Split, None}, leaf = None => text' = None,
         text' \in Texts => current_text' = None
  PROVE  MetalinkInv'
<1>1. MetalinkTypeOK'
  BY DEF MetalinkInv, MetalinkTypeOK
<1>2. SameFile' /\ Awaits' /\ AsSaid' /\ ReadAsWritten'
  BY DEF MetalinkInv, SameFile, Awaits, AsSaid, ReadAsWritten
<1>3. QED BY <1>1, <1>2 DEF MetalinkInv

LEMMA StartFileStep ==
  ASSUME MetalinkInv, NEW n \in Names, StartFile(n)  PROVE MetalinkInv'
<1>1. NewFile(n) \in File /\ NewFile(n) # None
  BY NewFileType, TextsAssumption
<1>2. leaf = None /\ text = None /\ current_text = None
  BY DEF StartFile, MetalinkInv, Awaits
<1>3. MetalinkTypeOK'
  BY <1>1 DEF StartFile, MetalinkInv, MetalinkTypeOK
<1>4. SameFile' /\ Awaits'
  BY <1>1, <1>2, TextsAssumption DEF StartFile, SameFile, Awaits, Target, Texts
<1>5. AsSaid'
  BY <1>2, TextsAssumption DEF StartFile, AsSaid, Says, Texts
<1>6. ReadAsWritten'
  BY DEF StartFile, MetalinkInv, ReadAsWritten
<1>7. QED BY <1>3, <1>4, <1>5, <1>6 DEF MetalinkInv

LEMMA StartTextStep ==
  ASSUME MetalinkInv, NEW target \in Target, StartText(target)  PROVE MetalinkInv'
<1>0. None \notin Texts /\ None # Split
  BY TextsAssumption
<1>1. leaf = None /\ text = None /\ current_text = None
  BY DEF StartText, MetalinkInv, Awaits
<1>2. MetalinkTypeOK'
  BY DEF StartText, MetalinkInv, MetalinkTypeOK
<1>3. SameFile'
  BY DEF StartText, MetalinkInv, SameFile
<1>4. Awaits'
  BY <1>0, <1>1, TextsAssumption DEF StartText, MetalinkInv, SameFile, Awaits, Reading, Texts
<1>5. AsSaid'
  <2>1. text' = text /\ inside' = inside /\ said' = said /\ odd' = odd /\ current_file' = current_file
        /\ outcome' = outcome
    BY <1>1 DEF StartText
  <2>2. Says' = Says /\ Oddity' = Oddity
    BY <1>0, <1>1, <2>1 DEF Says, Oddity, Texts
  <2>3. QED BY <2>1, <2>2 DEF MetalinkInv, AsSaid, Reading
<1>6. ReadAsWritten'
  BY DEF StartText, MetalinkInv, ReadAsWritten
<1>7. QED BY <1>2, <1>3, <1>4, <1>5, <1>6 DEF MetalinkInv

\* A foreign element begins or ends.
LEMMA ForeignStep ==
  ASSUME MetalinkInv, StartForeign \/ EndForeign  PROVE MetalinkInv'
<1>0. None \notin Texts /\ None # Split /\ None \notin Target
  BY TextsAssumption
<1>1. leaf = None /\ text = None /\ inside # "document" /\ inside' \in {"file", "foreign"}
  BY DEF StartForeign, EndForeign, MetalinkInv, Awaits
<1>2. UNCHANGED <<parserVars, leaf, text, said, odd, told>>
  BY DEF StartForeign, EndForeign
<1>3. MetalinkTypeOK'
  BY <1>1, <1>2 DEF MetalinkInv, MetalinkTypeOK, parserVars
<1>4. SameFile' /\ Awaits'
  BY <1>0, <1>1, <1>2 DEF MetalinkInv, SameFile, Awaits, parserVars, Reading, Target
<1>5. AsSaid'
  BY <1>0, <1>1, <1>2 DEF MetalinkInv, AsSaid, Says, Oddity, parserVars, Reading, Texts
<1>6. ReadAsWritten'
  BY <1>2 DEF MetalinkInv, ReadAsWritten, parserVars
<1>7. QED BY <1>3, <1>4, <1>5, <1>6 DEF MetalinkInv

LEMMA CDataStep == ASSUME MetalinkInv, CData  PROVE MetalinkInv'
<1>0. None \notin Texts /\ Split \notin Texts /\ None # Split
  BY TextsAssumption
<1>1. MetalinkTypeOK'
  BY DEF CData, parserVars, MetalinkInv, MetalinkTypeOK
<1>2. SameFile' /\ Awaits'
  BY <1>0 DEF CData, parserVars, MetalinkInv, SameFile, Awaits, Reading, Texts
<1>3. AsSaid'
  <2>1. CASE inside = "document"
    BY <2>1 DEF CData, AsSaid
  <2>2. CASE inside # "document"
    <3>1. Oddity' # {}
      BY <1>0, <2>2 DEF CData, Oddity, MetalinkInv, MetalinkTypeOK, Texts
    <3>2. QED BY <3>1 DEF AsSaid
  <2>3. QED BY <2>1, <2>2
<1>4. ReadAsWritten'
  BY DEF CData, parserVars, MetalinkInv, ReadAsWritten
<1>5. QED BY <1>1, <1>2, <1>3, <1>4 DEF MetalinkInv

\* A text, of the open element or of none.
LEMMA TextStep == ASSUME MetalinkInv, NEW t \in Texts, Text(t)  PROVE MetalinkInv'
<1>0. /\ None \notin Texts /\ Split \notin Texts /\ None # Split /\ None \notin Target
      /\ Blank \notin Numbers \cup Words /\ Numbers \cap Words = {}
  BY TextsAssumption
<1>1. /\ current_text' = None /\ UNCHANGED <<files, inside, leaf, said, odd, told>>
      /\ text' = IF leaf = None THEN None ELSE IF text = None THEN t ELSE Split
      /\ Reading
  BY DEF Text
<1>2. CASE current_text # None /\ t # Blank /\ current_file # None /\ current_text = "size"
           /\ t \notin Numbers
  <2>1. outcome' = "refused" /\ current_file' = current_file
    BY <1>2 DEF Text
  <2>2. QED BY <1>1, <2>1, DoneStep DEF Reading
<1>3. CASE current_text # None /\ t # Blank /\ current_file # None
           /\ (current_text = "size" => t \in Numbers)
  <2>1. outcome' = outcome /\ current_file' = Take(current_file, current_text, t)
    BY <1>3 DEF Text
  <2>2. leaf \in Target /\ inside # "document" /\ text \notin Texts /\ current_text \in Target
    BY <1>3 DEF MetalinkInv, MetalinkTypeOK, SameFile, Awaits
  <2>3. current_file' \in File /\ current_file' # None
    <3>1. current_file \in File
      BY <1>3 DEF MetalinkInv, MetalinkTypeOK
    <3>2. Take(current_file, current_text, t) \in File
      BY <1>3, <2>2, <3>1, TakeType
    <3>3. QED BY <2>1, <3>2, TextsAssumption
  <2>4. MetalinkTypeOK'
    BY <1>1, <2>1, <2>3 DEF MetalinkInv, MetalinkTypeOK
  <2>5. SameFile'
    BY <1>1, <2>2, <2>3 DEF MetalinkInv, SameFile
  <2>6. current_text = leaf \/ text = Split
    BY <1>1, <2>2 DEF MetalinkInv, MetalinkTypeOK, Awaits
  <2>7. Awaits'
    BY <1>0, <1>1, <1>3, <2>1, <2>2, <2>6 DEF Awaits, Texts, Reading
  <2>8. AsSaid'
    <3>1. CASE text = None
      <4>1. text' = t /\ t \in Numbers \cup Words /\ current_text = leaf
        BY <1>0, <1>1, <1>3, <2>2, <2>6, <3>1 DEF Texts
      <4>2. CASE inside = "file" /\ odd = {}
        <5>1. Says = said /\ Oddity = {}
          BY <1>0, <3>1, <4>2 DEF Says, Oddity, Texts
        <5>2. current_file = said
          BY <1>1, <4>2, <5>1 DEF MetalinkInv, AsSaid
        <5>3. Says' = Take(said, leaf, t)
          BY <1>1, <4>1, <4>2 DEF Says
        <5>4. QED BY <2>1, <4>1, <5>2, <5>3 DEF AsSaid
      <4>3. CASE inside # "file"
        <5>1. Oddity' = {"foreign"}
          BY <1>0, <1>1, <1>3, <2>2, <4>1, <4>3 DEF Oddity, MetalinkInv, MetalinkTypeOK
        <5>2. QED BY <5>1 DEF AsSaid
      <4>4. CASE odd # {}
        BY <1>1, <4>4 DEF AsSaid
      <4>5. QED BY <4>2, <4>3, <4>4
    <3>2. CASE text = Split
      <4>1. Oddity' # {}
        BY <1>0, <1>1, <2>2, <3>2 DEF Oddity, MetalinkInv, MetalinkTypeOK, Texts
      <4>2. QED BY <4>1 DEF AsSaid
    <3>3. QED BY <2>2, <3>1, <3>2 DEF MetalinkInv, MetalinkTypeOK
  <2>9. ReadAsWritten'
    BY <1>1 DEF MetalinkInv, ReadAsWritten
  <2>10. QED BY <2>4, <2>5, <2>7, <2>8, <2>9 DEF MetalinkInv
<1>4. CASE current_text = None \/ t = Blank \/ current_file = None
  <2>1. outcome' = outcome /\ current_file' = current_file
    BY <1>4 DEF Text
  <2>2. MetalinkTypeOK'
    BY <1>1, <2>1 DEF MetalinkInv, MetalinkTypeOK
  <2>3. SameFile'
    BY <1>1, <2>1 DEF MetalinkInv, SameFile
  <2>4. Awaits'
    BY <1>0, <1>1, <1>4, <2>1 DEF MetalinkInv, SameFile, Awaits, Texts, Reading
  <2>5. AsSaid'
    <3>1. CASE inside = "document"
      BY <1>1, <3>1 DEF AsSaid
    <3>2. CASE inside # "document" /\ leaf = None
      <4>1. text' = text
        BY <1>1, <3>2 DEF MetalinkInv, Awaits
      <4>2. QED BY <1>1, <2>1, <4>1 DEF MetalinkInv, AsSaid, Says, Oddity, Reading
    <3>3. CASE inside # "document" /\ leaf # None /\ text = None
      <4>1. t = Blank /\ text' = Blank
        BY <1>1, <1>4, <3>3 DEF MetalinkInv, SameFile, Awaits
      <4>2. Says' = said /\ Says = said /\ Oddity = {} /\ odd' = odd
        BY <1>0, <1>1, <3>3, <4>1 DEF Says, Oddity, Texts
      <4>3. QED BY <1>1, <2>1, <3>3, <4>2 DEF MetalinkInv, AsSaid
    <3>4. CASE inside # "document" /\ leaf # None /\ text # None
      <4>1. text' = Split /\ inside' = inside
        BY <1>1, <3>4
      <4>2. Oddity' # {}
        BY <1>0, <3>4, <4>1 DEF Oddity, MetalinkInv, MetalinkTypeOK, Texts
      <4>3. QED BY <4>2 DEF AsSaid
    <3>5. QED BY <3>1, <3>2, <3>3, <3>4
  <2>6. ReadAsWritten'
    BY <1>1 DEF MetalinkInv, ReadAsWritten
  <2>7. QED BY <2>2, <2>3, <2>4, <2>5, <2>6 DEF MetalinkInv
<1>5. QED BY <1>2, <1>3, <1>4

\* The open element ends.
LEMMA EndTextStep == ASSUME MetalinkInv, EndText  PROVE MetalinkInv'
<1>0. None \notin Texts /\ None # Split
  BY TextsAssumption
<1>1. /\ Reading /\ current_text' = None /\ leaf' = None /\ text' = None
      /\ said' = Says /\ odd' = odd \cup Oddity
      /\ UNCHANGED <<current_file, files, outcome, inside, told>>
  BY DEF EndText
<1>2. said' \in File \cup {None}
  BY <1>1, SaysType
<1>3. odd' \in SUBSET Oddities
  BY <1>1 DEF Oddity, Oddities, MetalinkInv, MetalinkTypeOK
<1>4. MetalinkTypeOK'
  BY <1>1, <1>2, <1>3 DEF Oddities, MetalinkInv, MetalinkTypeOK
<1>5. SameFile'
  <2>1. CASE inside = "file" /\ text \in Numbers \cup Words
    <3>1. text \in Texts /\ leaf \in Target /\ said \in File
      BY <1>0, <2>1 DEF MetalinkInv, MetalinkTypeOK, SameFile, Awaits, Texts
    <3>2. leaf = "size" => text \in Numbers
      BY <1>1, <2>1 DEF MetalinkInv, Awaits
    <3>3. Says \in File
      BY <2>1, <3>1, <3>2, TakeType DEF Says
    <3>4. QED BY <1>1, <2>1, <3>3, TextsAssumption DEF MetalinkInv, SameFile
  <2>2. CASE ~(inside = "file" /\ text \in Numbers \cup Words)
    BY <1>1, <2>2 DEF Says, MetalinkInv, SameFile
  <2>3. QED BY <2>1, <2>2
<1>6. Awaits'
  BY <1>0, <1>1 DEF Awaits, Texts, Target
<1>7. AsSaid'
  <2>1. Says' = said' /\ Oddity' = {}
    BY <1>0, <1>1 DEF Says, Oddity, Texts
  <2>2. QED BY <1>1, <2>1 DEF MetalinkInv, AsSaid, Reading
<1>8. ReadAsWritten'
  BY <1>1 DEF MetalinkInv, ReadAsWritten
<1>9. QED BY <1>4, <1>5, <1>6, <1>7, <1>8 DEF MetalinkInv

\* A file ends.
LEMMA EndFileStep == ASSUME MetalinkInv, EndFile  PROVE MetalinkInv'
<1>0. None \notin Texts /\ None # Split
  BY TextsAssumption
<1>1. current_file \in File /\ said \in File /\ text = None
  BY DEF EndFile, MetalinkInv, MetalinkTypeOK, SameFile, Awaits
<1>2. files' = Append(files, current_file) /\ told' = Append(told, [file |-> said, odd |-> odd])
  BY <1>1, TextsAssumption DEF EndFile
<1>3. [file |-> said, odd |-> odd] \in Told
  BY <1>1 DEF Told, Oddities, MetalinkInv, MetalinkTypeOK
<1>4. files \in Seq(File) /\ told \in Seq(Told)
  BY DEF MetalinkInv, MetalinkTypeOK, Told, Oddities
<1>5. files' \in Seq(File) /\ told' \in Seq(Told)
  BY <1>1, <1>2, <1>3, <1>4
<1>6. MetalinkTypeOK'
  BY <1>1, <1>5 DEF EndFile, MetalinkInv, MetalinkTypeOK, Told, Oddities
<1>7. SameFile' /\ Awaits' /\ AsSaid'
  BY <1>0, <1>1 DEF EndFile, MetalinkInv, SameFile, Awaits, AsSaid, Texts
<1>8. odd = {} => current_file = said
  BY <1>0, <1>1 DEF EndFile, MetalinkInv, AsSaid, Says, Oddity, Texts
<1>9. ReadAsWritten'
  <2>1. Len(files) = Len(told) /\ \A k \in DOMAIN told : told[k].odd = {} => files[k] = told[k].file
    BY DEF MetalinkInv, ReadAsWritten
  <2>2. Len(files') = Len(told')
    BY <1>2, <1>4, <2>1
  <2>3. ASSUME NEW k \in DOMAIN told', told'[k].odd = {}  PROVE files'[k] = told'[k].file
    <3>1. CASE k = Len(told) + 1
      BY <1>1, <1>2, <1>4, <1>8, <2>1, <2>3, <3>1
    <3>2. CASE k # Len(told) + 1
      BY <1>1, <1>2, <1>3, <1>4, <2>1, <2>3, <3>2
    <3>3. QED BY <3>1, <3>2
  <2>4. QED BY <2>2, <2>3 DEF ReadAsWritten
<1>10. QED BY <1>6, <1>7, <1>9 DEF MetalinkInv

LEMMA NextInv == MetalinkInv /\ [MetalinkNext]_metalinkVars => MetalinkInv'
<1> SUFFICES ASSUME MetalinkInv, [MetalinkNext]_metalinkVars  PROVE MetalinkInv'
  OBVIOUS
<1>1. CASE UNCHANGED metalinkVars
  BY <1>1 DEF metalinkVars, parserVars, documentVars, MetalinkInv, MetalinkTypeOK, SameFile,
    Awaits, AsSaid, Says, Oddity, Reading, ReadAsWritten
<1>2. CASE StartNameless \/ BadXml \/ Eof
  <2>1. /\ UNCHANGED <<current_file, current_text, files, inside, leaf, text, said, odd, told>>
        /\ outcome' \in {"parsed", "refused"}
    BY <1>2 DEF StartNameless, BadXml, Eof, Refuse, documentVars
  <2>2. text \in Texts \cup {Split, None} /\ (leaf = None => text = None)
        /\ (text \in Texts => current_text = None)
    BY DEF MetalinkInv, MetalinkTypeOK, Awaits
  <2>3. QED BY <2>1, <2>2, DoneStep DEF Reading
<1>3. QED BY <1>1, <1>2, StartFileStep, StartTextStep, ForeignStep, CDataStep, TextStep,
        EndTextStep, EndFileStep DEF MetalinkNext

LEMMA MetalinkInvariant == MetalinkSpec => []MetalinkInv
  BY InitInv, NextInv, PTL DEF MetalinkSpec

-----------------------------------------------------------------------------

\* The type invariant, for documents with any names and texts and any number of files.
THEOREM MetalinkTypeCorrect == MetalinkSpec => []MetalinkTypeOK
<1>1. MetalinkInv => MetalinkTypeOK
  BY DEF MetalinkInv
<1>2. QED BY <1>1, MetalinkInvariant, PTL

\* Every file of any document comes out of parse_metalink_bytes as the document has it,
\* but for a foreign element with a hash or URL, or a divided text, in that very file.
THEOREM FilesAreReadAsWritten == MetalinkSpec => []ReadAsWritten
<1>1. MetalinkInv => ReadAsWritten
  BY DEF MetalinkInv
<1>2. QED BY <1>1, MetalinkInvariant, PTL

-----------------------------------------------------------------------------
(* Torrents: the invariant *)

\* What has arrived is the beginning of a well-formed file.
Arrived ==
  /\ torrent \in Torrents /\ bytes \in Seq(Symbols)
  /\ Len(bytes) <= Len(torrent.bytes) /\ \A n \in 1..Len(bytes) : bytes[n] = torrent.bytes[n]

\* The search stands behind the key that was found.
BehindKey ==
  /\ key_start \in 0..Len(bytes) /\ offset \in Nat /\ depth \in Nat
  /\ raw_info \in (0..Len(bytes)) \X (0..Len(bytes))
  /\ stage = "find" => key_start = 0 /\ depth = 0
  /\ stage \in {"scan", "slice"} => offset > key_start
  /\ stage = "slice" => offset > key_start + 1

\* If that is the key of the info dictionary, the search is at the beginning of its value
\* or has come to a place in a list or dictionary in it, as deep as the code believes.
InInfo ==
  key_start = torrent.key =>
    /\ stage = "scan" =>
         \/ offset = torrent.key + 1 /\ depth = 0
         \/ \E p \in DOMAIN torrent.tree :
              depth = torrent.tree[p].depth + 1 /\ GoesOn(torrent, p, offset)
    /\ stage = "slice" => offset = torrent.last + 1 /\ torrent.last <= Len(bytes)

\* The files that are selected are those of the option.
Selected ==
  /\ option \in Selections \cup {<<>>}
  /\ selected_files = UNION {FileRange(option[n]) : n \in DOMAIN option}

\* librqbit is told these, or all.
HandedOn ==
  /\ only_files \subseteq 0..MaxUsize
  /\ stage = "downloading" =>
       /\ only_files = IF option # <<>> THEN {FileId(file) : file \in selected_files}
                       ELSE 0..(FileCount - 1)
       /\ \A id \in only_files : id < FileCount

TorrentInv ==
  /\ stage \in {"find", "scan", "slice", "decode", "add", "waiting", "downloading"} \cup Errors
  /\ Arrived /\ BehindKey /\ InInfo /\ Selected /\ HandedOn /\ InfoHashOfInfo

-----------------------------------------------------------------------------
(* Well-formed files *)

LEMMA MinExists ==
  ASSUME NEW S \in SUBSET Nat, S # {}
  PROVE  Min(S) \in S /\ \A n \in S : Min(S) <= n
<1>1. PICK m \in S : \A n \in S : ~ (<<n, m>> \in OpToRel(<, Nat))
  BY NatLessThanWellFounded, WFMin
<1>2. ASSUME NEW n \in S  PROVE m <= n
  <2>1. m \in Nat /\ n \in Nat
    OBVIOUS
  <2>2. ~ (n < m)
    BY <1>1, <2>1, Zenon DEF OpToRel
  <2>3. QED BY <2>1, <2>2
<1>3. QED BY <1>2 DEF Min

\* Where a value, or the e of what it is in, starts is in the info dictionary.
LEMMA GoesOnInside ==
  ASSUME NEW t, WellFormed(t), NEW p \in DOMAIN t.tree, NEW q \in Nat, GoesOn(t, p, q)
  PROVE  q <= t.last /\ p \in Nat /\ t.last \in Nat /\ t.last <= Len(t.bytes) /\ Len(t.bytes) \in Nat
<1>1. t.last \in Nat /\ t.key \in Nat /\ t.bytes \in Seq(Symbols) /\ t.last <= Len(t.bytes)
  BY DEF WellFormed
<1>2. \A n \in DOMAIN t.tree :
        n \in (t.key + 1)..t.last /\ t.tree[n].next \in (n + 1)..(t.last + 1)
  BY DEF WellFormed
<1>3. CASE q \in DOMAIN t.tree
  BY <1>1, <1>2, <1>3
<1>4. CASE t.tree[p].next = q + 1
  BY <1>1, <1>2, <1>4
<1>5. QED BY <1>1, <1>2, <1>3, <1>4 DEF GoesOn

\* The root of the tree is the dictionary.
LEMMA Root ==
  ASSUME NEW t, WellFormed(t)
  PROVE  /\ t.key \in Nat /\ t.key > 0 /\ t.last \in Nat /\ t.key + 1 \in DOMAIN t.tree
         /\ t.tree[t.key + 1].next = t.last + 1 /\ t.tree[t.key + 1].depth = 0
         /\ t.tree[t.key + 1].inside = 0
         /\ t.bytes[t.key + 1] = "d" /\ t.key + 1 <= t.last /\ GoesOn(t, t.key + 1, t.key + 2)
<1>1. /\ t.key \in Nat /\ t.key > 0 /\ t.last \in Nat /\ t.key + 1 \in DOMAIN t.tree
      /\ t.tree[t.key + 1] = [next |-> t.last + 1, inside |-> 0, depth |-> 0]
      /\ t.bytes[t.key + 1] = "d" /\ t.key + 1 <= t.last
  BY DEF WellFormed
<1>2. IsValue(t, t.key + 1)
  BY <1>1 DEF WellFormed
<1>3. GoesOn(t, t.key + 1, t.key + 1 + 1)
  BY <1>1, <1>2, SizeAssumption DEF IsValue
<1>4. t.key + 1 + 1 = t.key + 2
  BY <1>1
<1>5. QED BY <1>1, <1>3, <1>4

\* What comes after a value that is in another one.
LEMMA AfterValue ==
  ASSUME NEW t, WellFormed(t), NEW p \in DOMAIN t.tree, p # t.key + 1
  PROVE  /\ t.tree[p].inside \in DOMAIN t.tree
         /\ t.tree[p].depth = t.tree[t.tree[p].inside].depth + 1
         /\ GoesOn(t, t.tree[p].inside, t.tree[p].next)
  BY DEF WellFormed

LEMMA NodeType ==
  ASSUME NEW t, WellFormed(t), NEW p \in DOMAIN t.tree
  PROVE  /\ p \in Nat /\ p > t.key /\ p <= t.last
         /\ t.tree[p].next \in Nat /\ t.tree[p].next > p /\ t.tree[p].depth \in Nat
         /\ IsValue(t, p)
<1>1. t.last \in Nat /\ t.key \in Nat
  BY DEF WellFormed
<1>2. p \in (t.key + 1)..t.last /\ t.tree[p] \in [next : (p + 1)..(t.last + 1), inside : Nat, depth : Nat]
  BY DEF WellFormed
<1>3. IsValue(t, p)
  BY DEF WellFormed
<1>4. QED BY <1>1, <1>2, <1>3

\* An integer ends with the first e behind its i, if this has arrived.
LEMMA IntegerEnds ==
  ASSUME Arrived, WellFormed(torrent), NEW p \in DOMAIN torrent.tree, torrent.bytes[p] = "i",
         Places("e", p) # {}
  PROVE  Min(Places("e", p)) + 1 = torrent.tree[p].next
<1> DEFINE next == torrent.tree[p].next
<1>1. p \in Nat /\ p > 0 /\ next \in Nat /\ next > p /\ IsValue(torrent, p)
  BY NodeType, Root
<1>2. torrent.bytes[next - 1] = "e" /\ \A n \in p..(next - 2) : torrent.bytes[n] # "e"
  BY <1>1, SizeAssumption DEF IsValue
<1>3. next - 1 >= p /\ next - 1 \in Nat
  <2>1. torrent.bytes[p] # "e" /\ next \in Nat /\ p \in Nat /\ next > p
    BY <1>1
  <2>2. QED BY <2>1
<1>4. Places("e", p) \in SUBSET Nat
  BY <1>1 DEF Places
<1> DEFINE m == Min(Places("e", p))
<1>5. m \in Places("e", p) /\ \A n \in Places("e", p) : m <= n
  BY <1>4, MinExists
<1> HIDE DEF m, next
<1>6. m \in p..Len(bytes) /\ torrent.bytes[m] = "e" /\ Len(bytes) \in Nat
  <2>1. m \in p..Len(bytes) /\ bytes[m] = "e" /\ Len(bytes) \in Nat
    BY <1>5 DEF Places, Arrived
  <2>2. m \in 1..Len(bytes)
    BY <1>1, <2>1
  <2>3. QED BY <2>1, <2>2 DEF Arrived
<1>7. m >= next - 1
  <2>1. m \notin p..(next - 2)
    BY <1>2, <1>6
  <2>2. QED BY <1>1, <1>3, <1>6, <2>1
<1>8. m <= next - 1
  <2>1. SUFFICES ASSUME m > next - 1  PROVE FALSE
    BY <1>3, <1>6
  <2>2. next - 1 \in p..Len(bytes)
    BY <1>1, <1>3, <1>6, <2>1
  <2>3. bytes[next - 1] = "e"
    BY <1>1, <1>2, <2>2, NodeType DEF Arrived
  <2>4. next - 1 \in Places("e", p)
    BY <2>2, <2>3 DEF Places
  <2>5. QED BY <1>3, <1>5, <1>6, <2>1, <2>4
<1>9. m + 1 = next
  <2>1. m \in Int /\ next \in Int
    BY <1>1, <1>6
  <2>2. QED BY <1>7, <1>8, <2>1
<1>10. QED BY <1>9 DEF m, next

-----------------------------------------------------------------------------
(* The search *)

\* A place in the info dictionary where the search may be.
At(d, o) ==
  \/ o = torrent.key + 1 /\ d = 0
  \/ \E p \in DOMAIN torrent.tree :
       d = torrent.tree[p].depth + 1 /\ GoesOn(torrent, p, o)

LEMMA AtInside ==
  ASSUME Arrived, WellFormed(torrent), NEW d \in Nat, NEW o \in Nat, At(d, o)
  PROVE  o <= torrent.last /\ o > 0
<1>1. CASE o = torrent.key + 1
  BY <1>1, Root
<1>2. ASSUME NEW p \in DOMAIN torrent.tree, GoesOn(torrent, p, o)  PROVE o <= torrent.last /\ o > 0
  <2>1. o <= torrent.last
    BY <1>2, GoesOnInside
  <2>2. o # 0
    <3>1. SUFFICES ASSUME o = 0  PROVE FALSE
      OBVIOUS
    <3>2. o \notin DOMAIN torrent.tree
      BY <3>1, NodeType, Root
    <3>3. torrent.tree[p].next > 1
      BY NodeType, Root
    <3>4. QED BY <1>2, <3>1, <3>2, <3>3 DEF GoesOn
  <2>3. QED BY <2>1, <2>2
<1>3. QED BY <1>1, <1>2 DEF At

\* What the search may find there, if it has arrived.
LEMMA AtCases ==
  ASSUME Arrived, WellFormed(torrent), NEW d \in Nat, NEW o \in Nat, At(d, o)
  PROVE  \/ /\ o \in DOMAIN torrent.tree /\ d = torrent.tree[o].depth
            /\ torrent.bytes[o] \in {"d", "l"} /\ At(d + 1, o + 1)
         \/ /\ o \in DOMAIN torrent.tree /\ d > 0 /\ torrent.bytes[o] \in {"i", "INFO"} \cup Headers
            /\ torrent.tree[o].next <= torrent.last /\ At(d, torrent.tree[o].next)
         \/ /\ torrent.bytes[o] = "e" /\ d > 0
            /\ \/ d = 1 /\ o = torrent.last
               \/ d > 1 /\ At(d - 1, o + 1)
<1>1. CASE o = torrent.key + 1 /\ d = 0
  <2>1. /\ o \in DOMAIN torrent.tree /\ d = torrent.tree[o].depth /\ torrent.bytes[o] = "d"
        /\ GoesOn(torrent, o, torrent.key + 2) /\ o + 1 = torrent.key + 2
    BY <1>1, Root
  <2>2. d + 1 = torrent.tree[o].depth + 1 /\ GoesOn(torrent, o, o + 1)
    BY <2>1
  <2>3. At(d + 1, o + 1)
    BY <2>1, <2>2 DEF At
  <2>4. QED BY <2>1, <2>3
<1>2. ASSUME NEW p \in DOMAIN torrent.tree, d = torrent.tree[p].depth + 1,
             o \in DOMAIN torrent.tree, torrent.tree[o].inside = p
      PROVE  \/ /\ d = torrent.tree[o].depth /\ torrent.bytes[o] \in {"d", "l"} /\ At(d + 1, o + 1)
             \/ /\ d > 0 /\ torrent.bytes[o] \in {"i", "INFO"} \cup Headers
                /\ torrent.tree[o].next <= torrent.last /\ At(d, torrent.tree[o].next)
  <2>1. o # torrent.key + 1
    <3>1. p # 0
      BY NodeType, Root
    <3>2. QED BY <1>2, <3>1, Root
  <2>2. d = torrent.tree[o].depth /\ GoesOn(torrent, p, torrent.tree[o].next)
    BY <1>2, <2>1, AfterValue
  <2>3. At(d, torrent.tree[o].next) /\ torrent.tree[o].next <= torrent.last /\ d > 0
    <3>1. torrent.tree[o].next \in Nat /\ torrent.tree[p].depth \in Nat
      BY <1>2, NodeType
    <3>2. torrent.tree[o].next <= torrent.last
      BY <2>2, <3>1, GoesOnInside
    <3>3. QED BY <1>2, <2>2, <3>1, <3>2 DEF At
  <2>4. IsValue(torrent, o)
    BY <1>2, NodeType
  <2>5. CASE torrent.bytes[o] \in {"d", "l"}
    <3>1. GoesOn(torrent, o, o + 1)
      BY <2>4, <2>5, SizeAssumption DEF IsValue
    <3>2. At(d + 1, o + 1)
      BY <1>2, <2>2, <3>1 DEF At
    <3>3. QED BY <2>2, <2>5, <3>2
  <2>6. CASE torrent.bytes[o] \notin {"d", "l"}
    <3>1. torrent.bytes[o] \in {"i", "INFO"} \cup Headers
      BY <2>4, <2>6 DEF IsValue
    <3>2. QED BY <2>3, <3>1
  <2>7. QED BY <2>5, <2>6
<1>3. ASSUME NEW p \in DOMAIN torrent.tree, d = torrent.tree[p].depth + 1,
             torrent.bytes[o] = "e", torrent.tree[p].next = o + 1
      PROVE  d > 0 /\ ((d = 1 /\ o = torrent.last) \/ (d > 1 /\ At(d - 1, o + 1)))
  <2>1. torrent.tree[p].depth \in Nat
    BY NodeType
  <2>2. CASE p = torrent.key + 1
    <3>1. torrent.tree[p].depth = 0 /\ torrent.tree[p].next = torrent.last + 1 /\ torrent.last \in Nat
      BY <2>2, Root
    <3>2. d = 1 /\ d > 0
      BY <1>3, <3>1
    <3>3. o + 1 = torrent.last + 1
      BY <1>3, <3>1
    <3>4. o = torrent.last
      BY <3>1, <3>3
    <3>5. QED BY <3>2, <3>4
  <2>3. CASE p # torrent.key + 1
    <3> DEFINE a == torrent.tree[p].inside
    <3>1. a \in DOMAIN torrent.tree /\ torrent.tree[p].depth = torrent.tree[a].depth + 1
          /\ GoesOn(torrent, a, torrent.tree[p].next)
      BY <2>3, AfterValue
    <3>2. torrent.tree[a].depth \in Nat
      BY <3>1, NodeType
    <3> HIDE DEF a
    <3>3. d - 1 = torrent.tree[a].depth + 1 /\ d > 1
      BY <1>3, <3>1, <3>2
    <3>4. At(d - 1, o + 1)
      BY <1>3, <3>1, <3>3 DEF At
    <3>5. QED BY <3>3, <3>4
  <2>4. QED BY <2>2, <2>3
<1>4. QED BY <1>1, <1>2, <1>3 DEF At, GoesOn

LEMMA InInfoAt ==
  InInfo <=> (key_start = torrent.key =>
                /\ stage = "scan" => At(depth, offset)
                /\ stage = "slice" => offset = torrent.last + 1 /\ torrent.last <= Len(bytes))
  BY DEF InInfo, At

\* A step of the search in the info dictionary leads to a place in it, or behind it.
LEMMA ScanInside ==
  ASSUME TorrentInv, Scan, key_start = torrent.key
  PROVE  InInfo'
<1>1. WellFormed(torrent) /\ Arrived
  BY TorrentsAssumption DEF TorrentInv, Arrived
<1>2. /\ stage = "scan" /\ UNCHANGED <<torrent, bytes, key_start>>
      /\ offset \in Nat /\ depth \in Nat /\ Len(bytes) \in Nat
  BY DEF Scan, upload, TorrentInv, BehindKey, Arrived
<1>3. At(depth, offset)
  BY <1>2, InInfoAt DEF TorrentInv
<1>4. offset <= torrent.last /\ offset > 0
  BY <1>1, <1>2, <1>3, AtInside
<1>5. offset <= Len(bytes) /\ Tag = torrent.bytes[offset]
  <2>1. offset <= Len(bytes)
    <3>1. SUFFICES ASSUME ~ (offset <= Len(bytes))  PROVE FALSE
      OBVIOUS
    <3>2. Tag = "end of bytes"
      BY <3>1 DEF Tag
    <3>3. Tag \in {"d", "l", "e", "i", "INFO"} \cup Headers
      BY DEF Scan
    <3>4. QED BY <3>2, <3>3, SizeAssumption
  <2>2. QED BY <1>1, <1>2, <1>4, <2>1 DEF Tag, Arrived
<1>6. ASSUME stage' = "scan", At(depth', offset')  PROVE InInfo'
  <2>1. (At(depth, offset))'
    BY <1>2, <1>6 DEF At
  <2>2. QED BY <1>6, <2>1 DEF InInfo, At
<1>7. CASE Tag \in {"d", "l"}
  <2>1. offset' = offset + 1 /\ depth' = depth + 1 /\ stage' = "scan"
    BY <1>2, <1>7, SizeAssumption DEF Scan
  <2>2. At(depth + 1, offset + 1)
    BY <1>1, <1>2, <1>3, <1>5, <1>7, AtCases, SizeAssumption
  <2>3. QED BY <1>6, <2>1, <2>2
<1>8. CASE Tag = "e"
  <2>1. /\ depth > 0
        /\ \/ depth = 1 /\ offset = torrent.last
           \/ depth > 1 /\ At(depth - 1, offset + 1)
    <3>1. torrent.bytes[offset] \notin {"d", "l", "i", "INFO"} \cup Headers
      BY <1>5, <1>8, SizeAssumption
    <3>2. QED BY <1>1, <1>2, <1>3, <3>1, AtCases
  <2>2. EndsBefore(offset + 1, depth - 1)
    BY <1>8, SizeAssumption DEF Scan, AfterEnd
  <2>3. CASE depth = 1
    <3>1. offset' = torrent.last + 1 /\ stage' = "slice"
      BY <2>1, <2>2, <2>3 DEF EndsBefore
    <3>2. offset = torrent.last
      BY <2>1, <2>3
    <3>3. QED BY <1>2, <1>5, <3>1, <3>2 DEF InInfo
  <2>4. CASE depth > 1
    <3>1. offset' = offset + 1 /\ depth' = depth - 1 /\ stage' = "scan"
      BY <1>2, <2>2, <2>4 DEF EndsBefore
    <3>2. QED BY <1>6, <2>1, <2>4, <3>1
  <2>5. QED BY <1>2, <2>1, <2>3, <2>4
<1>9. CASE Tag \in {"i", "INFO"} \cup Headers
  <2>1. /\ offset \in DOMAIN torrent.tree /\ depth > 0
        /\ At(depth, torrent.tree[offset].next)
    BY <1>1, <1>2, <1>3, <1>5, <1>9, AtCases, SizeAssumption
  <2>2. IsValue(torrent, offset)
    BY <1>1, <2>1, NodeType
  <2>3. EndsBefore(torrent.tree[offset].next, depth)
    <3>1. CASE Tag = "i"
      <4>1. Places("e", offset) # {} /\ EndsBefore(Min(Places("e", offset)) + 1, depth)
        BY <3>1, SizeAssumption DEF Scan
      <4>2. Min(Places("e", offset)) + 1 = torrent.tree[offset].next
        BY <1>1, <1>5, <2>1, <3>1, <4>1, IntegerEnds
      <4>3. QED BY <4>1, <4>2
    <3>2. CASE Tag = "INFO"
      <4>1. EndsBefore(offset + 1, depth)
        BY <3>2, SizeAssumption DEF Scan
      <4>2. torrent.tree[offset].next = offset + 1
        BY <1>5, <2>2, <3>2, SizeAssumption DEF IsValue
      <4>3. QED BY <4>1, <4>2
    <3>3. CASE Tag \in Headers
      <4>1. EndsBefore(offset + 1 + Size[Tag], depth)
        BY <3>3, SizeAssumption DEF Scan
      <4>2. torrent.tree[offset].next = offset + 1 + Size[Tag]
        BY <1>5, <2>2, <3>3, SizeAssumption DEF IsValue
      <4>3. QED BY <4>1, <4>2
    <3>4. QED BY <1>9, <3>1, <3>2, <3>3
  <2>4. offset' = torrent.tree[offset].next /\ depth' = depth /\ stage' = "scan"
    BY <1>2, <2>1, <2>3 DEF EndsBefore
  <2>5. QED BY <1>6, <2>1, <2>4
<1>10. QED BY <1>7, <1>8, <1>9 DEF Scan

\* Where the search in the info dictionary fails, not all of it has arrived.
LEMMA FailsOutside ==
  ASSUME TorrentInv, ScanFails, key_start = torrent.key
  PROVE  Len(bytes) < torrent.last
<1>1. WellFormed(torrent) /\ Arrived
  BY TorrentsAssumption DEF TorrentInv, Arrived
<1>2. stage = "scan" /\ offset \in Nat /\ depth \in Nat /\ Len(bytes) \in Nat
  <2>1. stage = "scan"
    BY DEF ScanFails
  <2>2. offset \in Nat /\ depth \in Nat
    BY DEF TorrentInv, BehindKey
  <2>3. QED BY <1>1, <2>1, <2>2 DEF Arrived
<1>3. At(depth, offset)
  BY <1>2, InInfoAt DEF TorrentInv
<1>4. offset <= torrent.last /\ offset > 0 /\ torrent.last \in Nat
  BY <1>1, <1>2, <1>3, AtInside, Root
<1>5. CASE offset > Len(bytes)
  BY <1>2, <1>4, <1>5
<1>6. CASE offset <= Len(bytes)
  <2>1. Tag = torrent.bytes[offset]
    BY <1>1, <1>2, <1>4, <1>6 DEF Tag, Arrived
  <2>2. Tag \in {"d", "l", "e", "i", "INFO"} \cup Headers /\ (Tag = "e" => depth > 0)
    BY <1>1, <1>2, <1>3, <2>1, AtCases, SizeAssumption
  <2>3. CASE Tag = "i" /\ Places("e", offset) = {}
    <3>1. offset \in DOMAIN torrent.tree /\ torrent.tree[offset].next <= torrent.last
      BY <1>1, <1>2, <1>3, <2>1, <2>3, AtCases, SizeAssumption
    <3> DEFINE e == torrent.tree[offset].next - 1
    <3>2. torrent.bytes[e] = "e"
      <4>1. IsValue(torrent, offset)
        BY <1>1, <3>1, NodeType
      <4>2. QED BY <2>1, <2>3, <4>1, SizeAssumption DEF IsValue
    <3>3. e \in Nat /\ e >= offset /\ e < torrent.last
      BY <1>1, <1>2, <1>4, <3>1, NodeType
    <3> HIDE DEF e
    <3>4. ~ (e <= Len(bytes))
      <4>1. SUFFICES ASSUME e <= Len(bytes)  PROVE FALSE
        OBVIOUS
      <4>2. e \in 1..Len(bytes)
        BY <1>2, <1>4, <3>3, <4>1
      <4>3. bytes[e] = "e"
        BY <1>1, <3>2, <4>2 DEF Arrived
      <4>4. e \in Places("e", offset)
        BY <1>2, <3>3, <4>1, <4>3 DEF Places
      <4>5. QED BY <2>3, <4>4
    <3>5. QED BY <1>2, <1>4, <3>3, <3>4
  <2>4. CASE Tag \in Headers /\ offset = Len(bytes)
    <3>1. offset \in DOMAIN torrent.tree /\ torrent.tree[offset].next <= torrent.last
      BY <1>1, <1>2, <1>3, <2>1, <2>4, AtCases, SizeAssumption
    <3>2. torrent.tree[offset].next > offset /\ torrent.tree[offset].next \in Nat
      BY <1>1, <3>1, NodeType
    <3>3. QED BY <1>2, <1>4, <2>4, <3>1, <3>2
  <2>5. \/ Tag = "i" /\ Places("e", offset) = {}
        \/ Tag \in Headers /\ offset = Len(bytes)
    <3>1. \/ Tag \notin {"d", "l", "e", "i", "INFO"} \cup Headers
          \/ Tag = "e" /\ depth = 0
          \/ Tag = "i" /\ Places("e", offset) = {}
          \/ Tag \in Headers /\ offset = Len(bytes)
      BY DEF ScanFails
    <3>2. ~ (Tag = "e" /\ depth = 0)
      BY <1>2, <2>2
    <3>3. QED BY <2>2, <3>1, <3>2
  <2>6. QED BY <2>3, <2>4, <2>5
<1>7. QED BY <1>2, <1>5, <1>6
\* Each step of the search leads on.
LEMMA ScanOn ==
  ASSUME TorrentInv, Scan
  PROVE  BehindKey'
<1>1. /\ stage = "scan" /\ UNCHANGED <<torrent, bytes, key_start, raw_info>>
      /\ key_start \in 0..Len(bytes) /\ offset \in Nat /\ depth \in Nat /\ Len(bytes) \in Nat
      /\ raw_info \in (0..Len(bytes)) \X (0..Len(bytes)) /\ offset > key_start
  <2>1. stage = "scan" /\ UNCHANGED <<torrent, bytes, key_start, raw_info>>
    BY DEF Scan, upload
  <2>2. BehindKey /\ Arrived
    BY DEF TorrentInv
  <2>3. QED BY <2>1, <2>2 DEF BehindKey, Arrived
<1>2. /\ offset' \in Nat /\ offset' > offset /\ depth' \in Nat /\ stage' \in {"scan", "slice"}
  <2>1. CASE Tag \in {"d", "l"} /\ offset' = offset + 1 /\ depth' = depth + 1 /\ UNCHANGED stage
    BY <1>1, <2>1
  <2>2. CASE Tag = "e" /\ depth > 0 /\ EndsBefore(AfterEnd, depth - 1)
    BY <1>1, <2>2 DEF EndsBefore, AfterEnd
  <2>3. CASE Tag = "i" /\ Places("e", offset) # {} /\ EndsBefore(Min(Places("e", offset)) + 1, depth)
    <3>1. Places("e", offset) \in SUBSET Nat
      BY <1>1 DEF Places
    <3>2. Min(Places("e", offset)) \in Places("e", offset)
      BY <2>3, <3>1, MinExists
    <3>3. Min(Places("e", offset)) \in Nat /\ Min(Places("e", offset)) >= offset
      BY <1>1, <3>2 DEF Places
    <3>4. QED BY <1>1, <2>3, <3>3 DEF EndsBefore
  <2>4. CASE Tag \in Headers /\ EndsBefore(offset + 1 + Size[Tag], depth)
    <3>1. Size[Tag] \in Nat
      BY <2>4, SizeAssumption
    <3>2. QED BY <1>1, <2>4, <3>1 DEF EndsBefore
  <2>5. CASE Tag = "INFO" /\ EndsBefore(offset + 1, depth)
    BY <1>1, <2>5 DEF EndsBefore
  <2>6. QED BY <2>1, <2>2, <2>3, <2>4, <2>5 DEF Scan
<1>3. offset' > key_start /\ offset' > key_start + 1
  BY <1>1, <1>2
<1>4. QED BY <1>1, <1>2, <1>3 DEF BehindKey

-----------------------------------------------------------------------------
(* The choice of files *)

LEMMA OptionType ==
  ASSUME Selected  PROVE option \in Seq((0..MaxUsize) \X (0..MaxUsize)) /\ MaxUsize \in Nat
<1>1. CASE option \in Selections
  BY <1>1, SizeAssumption
<1>2. CASE option = <<>>
  <2>1. <<>> \in Seq((0..MaxUsize) \X (0..MaxUsize))
    OBVIOUS
  <2>2. MaxUsize \in Nat
    BY SizeAssumption
  <2>3. QED BY <1>2, <2>1, <2>2
<1>3. QED BY <1>1, <1>2 DEF Selected

LEMMA SelectedType ==
  ASSUME Selected  PROVE selected_files \subseteq 0..MaxUsize /\ MaxUsize \in Nat
<1>1. option \in Seq((0..MaxUsize) \X (0..MaxUsize)) /\ MaxUsize \in Nat
  BY OptionType
<1>2. ASSUME NEW n \in DOMAIN option  PROVE FileRange(option[n]) \subseteq 0..MaxUsize
  <2>1. option[n][1] \in 0..MaxUsize /\ option[n][2] \in 0..MaxUsize
    BY <1>1
  <2>2. QED BY <1>1, <2>1 DEF FileRange
<1>3. QED BY <1>1, <1>2 DEF Selected

LEMMA FileCountType ==
  ASSUME Arrived  PROVE FileCount \in 0..MaxUsize /\ MaxUsize \in Nat \ {0}
<1>1. torrent.count \in 0..MaxUsize
  BY TorrentsAssumption DEF Arrived, WellFormed
<1>2. MaxUsize \in Nat \ {0}
  BY SizeAssumption
<1>3. 1 \in 0..MaxUsize
  BY <1>2
<1>4. QED BY <1>1, <1>2, <1>3 DEF FileCount

LEMMA FileIdType ==
  ASSUME NEW file \in 0..MaxUsize  PROVE FileId(file) \in 0..MaxUsize
<1>1. MaxUsize \in Nat
  BY SizeAssumption
<1>2. QED BY <1>1 DEF FileId

\* Nothing but the upload, the search or the choice changes.
LEMMA SameSearch ==
  ASSUME TorrentInv, UNCHANGED <<upload, search>>, stage' \notin {"find", "scan", "slice"}
  PROVE  Arrived' /\ BehindKey' /\ InInfo'
<1>1. Arrived' /\ BehindKey'
  BY DEF TorrentInv, upload, search, Arrived, BehindKey
<1>2. InInfo'
  BY DEF InInfo
<1>3. QED BY <1>1, <1>2

LEMMA SameChoice ==
  ASSUME TorrentInv, UNCHANGED choice, stage' # "downloading"
  PROVE  Selected' /\ HandedOn'
  BY DEF TorrentInv, choice, Selected, HandedOn, FileRange

\* The search is not over.
LEMMA NotFound ==
  ASSUME stage' \in {"find", "scan", "slice"}  PROVE InfoHashOfInfo'
  BY DEF InfoHashOfInfo, Found

-----------------------------------------------------------------------------
(* Torrents: the invariant is kept *)

LEMMA TorrentInitInv == TorrentInit => TorrentInv
<1> SUFFICES ASSUME TorrentInit  PROVE TorrentInv
  OBVIOUS
<1>1. Arrived
  <2>1. torrent \in Torrents /\ torrent.bytes \in Seq(Symbols)
    BY TorrentsAssumption DEF TorrentInit, WellFormed
  <2>2. PICK n \in 0..Len(torrent.bytes) : bytes = SubSeq(torrent.bytes, 1, n)
    BY DEF TorrentInit
  <2>3. bytes \in Seq(Symbols) /\ Len(bytes) = n /\ \A i \in 1..n : bytes[i] = torrent.bytes[i]
    BY <2>1, <2>2
  <2>4. QED BY <2>1, <2>3 DEF Arrived
<1>2. BehindKey
  <2>1. Len(bytes) \in Nat
    BY <1>1 DEF Arrived
  <2>2. QED BY <2>1 DEF TorrentInit, BehindKey
<1>3. InInfo
  BY DEF TorrentInit, InInfo
<1>4. Selected
  BY DEF TorrentInit, Selected
<1>5. HandedOn
  BY SizeAssumption DEF TorrentInit, HandedOn
<1>6. InfoHashOfInfo
  BY DEF TorrentInit, InfoHashOfInfo, Found
<1>7. QED BY <1>1, <1>2, <1>3, <1>4, <1>5, <1>6 DEF TorrentInit, TorrentInv

LEMMA TorrentStepInv ==
  ASSUME TorrentInv, [TorrentNext]_torrentVars  PROVE TorrentInv'
<1> DEFINE Stages == {"find", "scan", "slice", "decode", "add", "waiting", "downloading"} \cup Errors
<1>1. Arrived /\ BehindKey /\ InInfo /\ Selected /\ HandedOn /\ InfoHashOfInfo /\ stage \in Stages
  BY DEF TorrentInv
<1>2. Len(bytes) \in Nat /\ WellFormed(torrent)
  BY <1>1, TorrentsAssumption DEF Arrived
<1>3. ASSUME UNCHANGED upload, UNCHANGED choice, BehindKey', InInfo', InfoHashOfInfo',
             stage' \in Stages \ {"downloading"}
      PROVE  TorrentInv'
  <2>1. Arrived'
    BY <1>1, <1>3 DEF Arrived, upload
  <2>2. QED BY <1>3, <2>1, SameChoice DEF TorrentInv
<1>4. CASE FindInfo
  <2>1. stage = "find" /\ UNCHANGED <<upload, choice, depth, raw_info>> /\ depth = 0 /\ key_start = 0
    BY <1>1, <1>4 DEF FindInfo, BehindKey
  <2>2. torrent.key \in Nat /\ torrent.key > 0
    BY <1>2, Root
  <2>3. CASE Places("INFO", 1) = {}
    <3>1. stage' = "no info" /\ UNCHANGED <<upload, search>>
      BY <1>4, <2>3 DEF FindInfo, search
    <3>2. InfoHashOfInfo'
      <4>1. key_start' = 0 /\ torrent' = torrent
        BY <2>1, <3>1 DEF search, upload
      <4>2. 0 # torrent.key
        BY <2>2
      <4>3. key_start' # torrent'.key
        BY <4>1, <4>2
      <4>4. QED BY <4>3 DEF InfoHashOfInfo
    <3>3. BehindKey' /\ InInfo'
      BY <3>1, SameSearch
    <3>4. QED BY <1>3, <2>1, <3>1, <3>2, <3>3 DEF Errors
  <2>4. CASE Places("INFO", 1) # {}
    <3>1. key_start' = Min(Places("INFO", 1)) /\ offset' = key_start' + 1 /\ stage' = "scan"
      BY <1>4, <2>4 DEF FindInfo
    <3>2. Places("INFO", 1) \in SUBSET Nat
      BY <1>2 DEF Places
    <3>3. Min(Places("INFO", 1)) \in Places("INFO", 1)
      BY <2>4, <3>2, MinExists
    <3>4. key_start' \in 1..Len(bytes)
      BY <1>2, <3>1, <3>3 DEF Places
    <3>5. BehindKey'
      BY <1>1, <1>2, <2>1, <3>1, <3>4 DEF BehindKey, upload
    <3>6. InInfo'
      BY <2>1, <3>1 DEF InInfo, upload
    <3>7. QED BY <1>3, <2>1, <3>1, <3>5, <3>6, NotFound
  <2>5. QED BY <2>3, <2>4
<1>5. CASE Scan
  <2>1. /\ UNCHANGED <<upload, key_start, raw_info, choice>> /\ stage = "scan"
        /\ stage' \in {"scan", "slice"}
    <3>1. /\ UNCHANGED <<upload, key_start, raw_info, choice>> /\ stage = "scan"
          /\ UNCHANGED stage \/ \E o, d : EndsBefore(o, d)
      BY <1>5 DEF Scan
    <3>2. QED BY <3>1 DEF EndsBefore
  <2>2. BehindKey'
    BY <1>5, ScanOn
  <2>3. InInfo'
    <3>1. CASE key_start = torrent.key
      BY <1>5, <3>1, ScanInside
    <3>2. CASE key_start # torrent.key
      BY <2>1, <3>2 DEF InInfo, upload
    <3>3. QED BY <3>1, <3>2
  <2>4. QED BY <1>3, <2>1, <2>2, <2>3, NotFound
<1>6. CASE ScanFails
  <2>1. stage' = "bad info" /\ UNCHANGED <<upload, search, choice>>
    BY <1>6 DEF ScanFails
  <2>2. InfoHashOfInfo'
    <3>1. CASE key_start = torrent.key
      <4>1. Len(bytes) < torrent.last
        BY <1>6, <3>1, FailsOutside
      <4>2. QED BY <2>1, <4>1 DEF InfoHashOfInfo, Found, upload
    <3>2. CASE key_start # torrent.key
      BY <2>1, <3>2 DEF InfoHashOfInfo, upload, search
    <3>3. QED BY <3>1, <3>2
  <2>3. QED BY <1>3, <2>1, <2>2, SameSearch DEF Errors
<1>7. CASE Slice
  <2>1. stage = "slice" /\ UNCHANGED <<upload, key_start, offset, depth, choice>>
    BY <1>7 DEF Slice
  <2>2. CASE offset - 1 > Len(bytes)
    <3>1. stage' = "panic" /\ UNCHANGED <<upload, search, choice>>
      BY <1>7, <2>1, <2>2 DEF Slice, search
    <3>2. key_start # torrent.key
      <4>1. SUFFICES ASSUME key_start = torrent.key  PROVE FALSE
        OBVIOUS
      <4>2. offset = torrent.last + 1 /\ torrent.last <= Len(bytes) /\ torrent.last \in Nat
        BY <1>1, <1>2, <2>1, <4>1, Root DEF InInfo
      <4>3. QED BY <1>2, <2>2, <4>2
    <3>3. InfoHashOfInfo'
      BY <3>1, <3>2 DEF InfoHashOfInfo, upload, search
    <3>4. QED BY <1>3, <3>1, <3>3, SameSearch DEF Errors
  <2>3. CASE ~ (offset - 1 > Len(bytes))
    <3>1. stage' = "decode" /\ raw_info' = <<key_start + 1, offset - 1>>
      BY <1>7, <2>3 DEF Slice
    <3>2. key_start \in 0..Len(bytes) /\ offset \in Nat /\ offset > key_start + 1
      BY <1>1, <2>1 DEF BehindKey
    <3>3. key_start + 1 \in 0..Len(bytes) /\ offset - 1 \in 0..Len(bytes)
      BY <1>2, <2>3, <3>2
    <3>4. BehindKey'
      BY <1>1, <2>1, <3>1, <3>3 DEF BehindKey, upload
    <3>5. InInfo'
      BY <3>1 DEF InInfo
    <3>6. InfoHashOfInfo'
      <4>1. SUFFICES ASSUME key_start = torrent.key
                     PROVE  raw_info' = <<torrent.key + 1, torrent.last>>
        BY <2>1, <3>1 DEF InfoHashOfInfo, upload
      <4>2. offset = torrent.last + 1 /\ torrent.last \in Nat
        BY <1>1, <1>2, <2>1, <4>1, Root DEF InInfo
      <4>3. QED BY <3>1, <4>1, <4>2
    <3>7. QED BY <1>3, <2>1, <3>1, <3>4, <3>5, <3>6
  <2>4. QED BY <2>2, <2>3
<1>8. ASSUME stage \in Found, stage' \in Found, UNCHANGED <<upload, search>>
      PROVE  Arrived' /\ BehindKey' /\ InInfo' /\ InfoHashOfInfo'
  <2>1. stage' \notin {"find", "scan", "slice", "panic", "bad info"}
    BY <1>8 DEF Found
  <2>2. InfoHashOfInfo'
    BY <1>1, <1>8, <2>1 DEF InfoHashOfInfo, upload, search
  <2>3. QED BY <1>8, <2>1, <2>2, SameSearch
<1>9. CASE Decode \/ AddWhole \/ AddRefused
  <2>1. /\ stage \in Found /\ stage' \in {"add", "waiting", "not decoded", "bad option"}
        /\ UNCHANGED <<upload, search, choice>>
    BY <1>9 DEF Decode, AddWhole, AddRefused, Found
  <2>2. stage' \in Found
    BY <2>1 DEF Found
  <2>3. stage' \in Stages \ {"downloading"}
    BY <2>1 DEF Errors
  <2>4. QED BY <1>3, <1>8, <2>1, <2>2, <2>3
<1>10. ASSUME NEW s \in Selections, AddTorrent(s)  PROVE TorrentInv'
  <2>1. /\ stage = "add" /\ stage' = "waiting" /\ UNCHANGED <<upload, search, only_files>>
        /\ option' = s /\ selected_files' = UNION {FileRange(s[n]) : n \in DOMAIN s}
    BY <1>10 DEF AddTorrent
  <2>2. Arrived' /\ BehindKey' /\ InInfo' /\ InfoHashOfInfo'
    BY <1>8, <2>1 DEF Found
  <2>3. Selected'
    BY <2>1 DEF Selected, FileRange
  <2>4. HandedOn'
    BY <1>1, <2>1 DEF HandedOn
  <2>5. QED BY <2>1, <2>2, <2>3, <2>4 DEF TorrentInv
<1>11. CASE Run
  <2>1. /\ stage = "waiting" /\ UNCHANGED <<upload, search, selected_files, option>>
        /\ only_files' = IF option # <<>> THEN {FileId(file) : file \in selected_files}
                         ELSE 0..(FileCount - 1)
        /\ stage' = IF \A id \in only_files' : id < FileCount THEN "downloading" ELSE "not run"
    BY <1>11 DEF Run
  <2>2. Arrived' /\ BehindKey' /\ InInfo' /\ InfoHashOfInfo'
    BY <1>8, <2>1 DEF Found
  <2>3. Selected'
    BY <1>1, <2>1 DEF Selected, FileRange
  <2>4. only_files' \subseteq 0..MaxUsize
    <3>1. CASE option # <<>>
      BY <1>1, <2>1, <3>1, SelectedType, FileIdType
    <3>2. CASE option = <<>>
      <4>1. FileCount \in 0..MaxUsize /\ MaxUsize \in Nat
        BY <1>1, FileCountType
      <4>2. only_files' = 0..(FileCount - 1)
        BY <2>1, <3>2
      <4>3. QED BY <4>1, <4>2
    <3>3. QED BY <3>1, <3>2
  <2>5. HandedOn'
    <3>1. FileCount' = FileCount
      BY <2>1 DEF FileCount, upload
    <3>2. \A file : FileId(file)' = FileId(file)
      OBVIOUS
    <3>3. stage' = "downloading" => \A id \in only_files' : id < FileCount
      BY <2>1
    <3>4. QED BY <2>1, <2>4, <3>1, <3>3 DEF HandedOn
  <2>6. stage' \in Stages
    BY <2>1 DEF Errors
  <2>7. QED BY <2>2, <2>3, <2>5, <2>6 DEF TorrentInv
<1>12. CASE RunPanics
  <2>1. stage' = "panic" /\ UNCHANGED <<upload, search, choice>> /\ 0 \in selected_files
    BY <1>12 DEF RunPanics
  <2>2. InfoHashOfInfo'
    BY <2>1 DEF InfoHashOfInfo, Found, choice
  <2>3. QED BY <1>3, <2>1, <2>2, SameSearch DEF Errors
<1>13. CASE UNCHANGED torrentVars
  <2>1. UNCHANGED <<torrent, bytes, key_start, offset, depth, raw_info, stage>>
        /\ UNCHANGED <<selected_files, option, only_files>>
    BY <1>13 DEF torrentVars, upload, search, choice
  <2>2. Arrived' /\ BehindKey' /\ InInfo'
    BY <1>1, <2>1 DEF Arrived, BehindKey, InInfo, GoesOn
  <2>3. Selected' /\ HandedOn'
    BY <1>1, <2>1 DEF Selected, HandedOn, FileRange, FileCount
  <2>4. InfoHashOfInfo'
    BY <1>1, <2>1 DEF InfoHashOfInfo
  <2>5. QED BY <1>1, <2>1, <2>2, <2>3, <2>4 DEF TorrentInv
<1>14. QED
  BY <1>4, <1>5, <1>6, <1>7, <1>9, <1>10, <1>11, <1>12, <1>13 DEF TorrentNext

\* The invariant holds in every state of every upload.
THEOREM TorrentInvariant == TorrentSpec => []TorrentInv
<1>1. TorrentInv /\ [TorrentNext]_torrentVars => TorrentInv'
  BY TorrentStepInv
<1>2. QED BY TorrentInitInv, <1>1, PTL DEF TorrentSpec

\* Every place that is looked at is one of the upload or behind it, and librqbit is handed
\* numbers of the machine (raw_info_dict, run_bittorrent_task).
THEOREM TorrentTypeCorrect == TorrentSpec => []TorrentTypeOK
<1>1. TorrentInv => TorrentTypeOK
  <2> SUFFICES ASSUME TorrentInv  PROVE TorrentTypeOK
    OBVIOUS
  <2>1. selected_files \subseteq Nat
    BY SelectedType DEF TorrentInv
  <2>2. QED BY <2>1 DEF TorrentInv, TorrentTypeOK, Arrived, BehindKey, Selected, HandedOn
<1>2. QED BY TorrentInvariant, <1>1, PTL

\* What is hashed is the info dictionary to the byte, and a torrent that was cut off is
\* refused, unless a string before its key spells 4:info (raw_info_dict, bencode_value_end).
THEOREM InfoHashIsOfInfo == TorrentSpec => []InfoHashOfInfo
<1>1. TorrentInv => InfoHashOfInfo
  BY DEF TorrentInv
<1>2. QED BY TorrentInvariant, <1>1, PTL

\* The files shown as selected are those that are downloaded, and those of the option
\* (files_value, run_bittorrent_task).
THEOREM DownloadsWhatIsShown == TorrentSpec => []DownloadsWhatItShows
<1>1. TorrentInv => DownloadsWhatItShows
  <2> SUFFICES ASSUME TorrentInv, stage = "downloading"
               PROVE  /\ {id + 1 : id \in only_files} = Shown
                      /\ option # <<>> => \A n \in 0..MaxUsize :
                           n \in Shown <=>
                             \E k \in DOMAIN option : option[k][1] <= n /\ n <= option[k][2]
    BY DEF DownloadsWhatItShows
  <2>1. FileCount \in 0..MaxUsize /\ MaxUsize \in Nat \ {0}
    BY FileCountType DEF TorrentInv
  <2>2. selected_files \subseteq 0..MaxUsize /\ Selected
    BY SelectedType DEF TorrentInv
  <2>3. /\ only_files = IF option # <<>> THEN {FileId(file) : file \in selected_files}
                        ELSE 0..(FileCount - 1)
        /\ \A id \in only_files : id < FileCount
    BY DEF TorrentInv, HandedOn
  <2> HIDE DEF FileCount
  <2>4. CASE option = <<>>
    <3>1. only_files = 0..(FileCount - 1) /\ Shown = 1..FileCount
      BY <2>3, <2>4 DEF Shown
    <3>2. ASSUME NEW n \in 1..FileCount  PROVE n \in {id + 1 : id \in only_files}
      <4>1. n - 1 \in only_files /\ n = n - 1 + 1
        BY <2>1, <3>1
      <4>2. QED BY <4>1
    <3>3. {id + 1 : id \in only_files} \subseteq 1..FileCount
      BY <2>1, <3>1
    <3>4. QED BY <2>4, <3>1, <3>2, <3>3
  <2>5. CASE option # <<>>
    <3>1. \A file \in selected_files : FileId(file) < FileCount
      BY <2>3, <2>5
    <3>2. \A file \in selected_files : file \in 1..FileCount /\ FileId(file) = file - 1
      BY <2>1, <2>2, <3>1 DEF FileId
    <3>3. Shown = selected_files
      BY <2>5, <3>2 DEF Shown
    <3>4. {id + 1 : id \in only_files} = selected_files
      <4>1. only_files = {file - 1 : file \in selected_files}
        BY <2>3, <2>5, <3>2
      <4>2. \A file \in selected_files : file - 1 + 1 = file
        BY <3>2, <2>1
      <4>3. QED BY <4>1, <4>2
    <3>5. ASSUME NEW n \in 0..MaxUsize
          PROVE  n \in selected_files <=> \E k \in DOMAIN option : option[k][1] <= n /\ n <= option[k][2]
      <4>1. option \in Seq((0..MaxUsize) \X (0..MaxUsize))
        BY <2>2, OptionType
      <4>2. \A k \in DOMAIN option : option[k][1] \in Nat /\ option[k][2] \in Nat
        BY <2>1, <4>1
      <4>3. \A k \in DOMAIN option : n \in FileRange(option[k]) <=> option[k][1] <= n /\ n <= option[k][2]
        BY <2>1, <4>2 DEF FileRange
      <4>4. n \in selected_files <=> \E k \in DOMAIN option : n \in FileRange(option[k])
        BY <2>2 DEF Selected
      <4>5. QED BY <4>3, <4>4
    <3>6. QED BY <3>3, <3>4, <3>5
  <2>6. QED BY <2>4, <2>5
<1>2. QED BY TorrentInvariant, <1>1, PTL
=============================================================================
