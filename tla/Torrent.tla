------------------------------- MODULE Torrent -------------------------------
(***************************************************************************)
(* An uploaded torrent: parse_torrent_bytes of                             *)
(* crates/raria-core/src/bittorrent.rs, which looks for the raw info       *)
(* dictionary (raw_info_dict, bencode_value_end) before bendy decodes the  *)
(* whole, and the choice of its files by select-file, as add_torrent reads *)
(* it, as getFiles shows it and as run_bittorrent_task hands it on.        *)
(*                                                                         *)
(* Bytes are symbols: "d", "l", "i" and "e" as in bencode, INFO for the    *)
(* string 4:info, a member of Headers for the length and colon of another  *)
(* string, whose content is as many symbols of any kind.                   *)
(***************************************************************************)
EXTENDS Integers, Sequences, FiniteSetsExt

CONSTANTS
  Torrents,    \* well-formed files: bytes, the place of the info key (key) and of the
               \* end of its value (last), the tree of the values in it, the fields
               \* info has and its number of files
  Symbols,     \* what bytes are made of
  Headers,     \* lengths of strings as they are written
  Size,        \* the number each of them stands for
  Selections,  \* values of select-file: sequences of ranges
  MaxUsize

ASSUME SizeAssumption ==
  /\ Size \in [Headers -> Nat] /\ Headers \cap {"d", "l", "i", "e", "INFO", "end of bytes"} = {}
  /\ MaxUsize \in Nat \ {0} /\ Selections \subseteq Seq((0..MaxUsize) \X (0..MaxUsize))

\* In the list or dictionary that starts at p there is at q another value, or its e.
GoesOn(t, p, q) ==
  \/ q \in DOMAIN t.tree /\ t.tree[q].inside = p
  \/ t.bytes[q] = "e" /\ t.tree[p].next = q + 1

\* The value that starts at p is one of bencode, where what is in a list or dictionary is a
\* row of values, and it ends before p's next.
IsValue(t, p) ==
  LET symbol == t.bytes[p]
      next == t.tree[p].next
  IN  \/ symbol \in {"d", "l"} /\ GoesOn(t, p, p + 1)
      \/ symbol = "i" /\ t.bytes[next - 1] = "e" /\ \A n \in p..(next - 2) : t.bytes[n] # "e"
      \/ symbol \in Headers /\ next = p + 1 + Size[symbol]
      \/ symbol = "INFO" /\ next = p + 1

\* The tree has for each place where a value starts what comes next, the list or
\* dictionary the value is in and how deep that is.
WellFormed(t) ==
  /\ t.bytes \in Seq(Symbols) /\ t.last \in 1..Len(t.bytes)
  /\ t.key \in 1..(t.last - 1) /\ t.bytes[t.key] = "INFO" /\ t.bytes[t.key + 1] = "d"
  /\ t.key + 1 \in DOMAIN t.tree
  /\ t.tree[t.key + 1] = [next |-> t.last + 1, inside |-> 0, depth |-> 0]
  /\ \A p \in DOMAIN t.tree :
       /\ p \in (t.key + 1)..t.last
       /\ t.tree[p] \in [next : (p + 1)..(t.last + 1), inside : Nat, depth : Nat]
       /\ IsValue(t, p)
       /\ p # t.key + 1 =>
            LET around == t.tree[p].inside
            IN  /\ around \in DOMAIN t.tree /\ t.tree[p].depth = t.tree[around].depth + 1
                /\ GoesOn(t, around, t.tree[p].next)
  /\ t.count \in 0..MaxUsize

ASSUME TorrentsAssumption == \A t \in Torrents : WellFormed(t)

VARIABLES
  torrent, bytes,       \* a file and what of it has arrived
  key_start, offset,    \* as in the code, counted from 1; 0 before they are known
  depth,                \* calls of bencode_value_end that are in a list or dictionary
  raw_info,             \* the first and last byte of the value found
  selected_files,       \* as in the code; {} also stands for None
  option,               \* the value of select-file, <<>> if there is none
  only_files,           \* what librqbit is told
  stage                 \* what is done next, or how it ended

upload == <<torrent, bytes>>
search == <<key_start, offset, depth, raw_info>>
choice == <<selected_files, option, only_files>>
torrentVars == <<upload, search, choice, stage>>

Errors == {"no info", "bad info", "panic", "not decoded", "bad option", "not run"}
Found == {"decode", "add", "waiting", "downloading", "not decoded", "bad option", "not run"}

Whole == bytes = torrent.bytes
Tag == IF offset <= Len(bytes) THEN bytes[offset] ELSE "end of bytes"
Places(symbol, from) == {n \in from..Len(bytes) : bytes[n] = symbol}

-----------------------------------------------------------------------------
(* raw_info_dict *)

\* The first 4:info, whatever it is in.
FindInfo ==
  /\ stage = "find"
  /\ IF Places("INFO", 1) = {}
     THEN stage' = "no info" /\ UNCHANGED <<key_start, offset>>
     ELSE /\ key_start' = Min(Places("INFO", 1))
          /\ offset' = key_start' + 1
          /\ stage' = "scan"
  /\ UNCHANGED <<upload, depth, raw_info, choice>>

\* A value ends before o, the outermost one if there is no other around it.
EndsBefore(o, d) ==
  /\ offset' = o
  /\ depth' = d
  /\ stage' = IF d = 0 THEN "slice" ELSE "scan"

\* Mutant: the e of a list or dictionary is left to what comes after it.
AfterEnd_inside == offset

\* Where a list or dictionary ends whose e is at offset.
AfterEnd == offset + 1

\* bencode_value_end, up to its next call or return.
Scan ==
  /\ stage = "scan"
  /\ \/ Tag \in {"d", "l"} /\ offset' = offset + 1 /\ depth' = depth + 1 /\ UNCHANGED stage
     \/ Tag = "e" /\ depth > 0 /\ EndsBefore(AfterEnd, depth - 1)
     \/ Tag = "i" /\ Places("e", offset) # {} /\ EndsBefore(Min(Places("e", offset)) + 1, depth)
     \/ Tag \in Headers /\ EndsBefore(offset + 1 + Size[Tag], depth)
     \/ Tag = "INFO" /\ EndsBefore(offset + 1, depth)
  /\ UNCHANGED <<upload, key_start, raw_info, choice>>

\* No value starts here, or one does not end; in the middle of a length the colon or
\* a digit may be missing as well.
ScanFails ==
  /\ stage = "scan"
  /\ \/ Tag \notin {"d", "l", "e", "i", "INFO"} \cup Headers
     \/ Tag = "e" /\ depth = 0
     \/ Tag = "i" /\ Places("e", offset) = {}
     \/ Tag \in Headers /\ offset = Len(bytes) /\ ~Whole
  /\ stage' = "bad info"
  /\ UNCHANGED <<upload, search, choice>>

\* &bytes[start..end]
Slice ==
  /\ stage = "slice"
  /\ IF offset - 1 > Len(bytes)
     THEN stage' = "panic" /\ UNCHANGED raw_info
     ELSE stage' = "decode" /\ raw_info' = <<key_start + 1, offset - 1>>
  /\ UNCHANGED <<upload, key_start, offset, depth, choice>>

-----------------------------------------------------------------------------
(* from_bencode, add_torrent *)

\* bendy takes a whole file only, decode_bencode_object one with these fields.
Decode ==
  /\ stage = "decode"
  /\ stage' = IF Whole /\ {"name", "piece length"} \subseteq torrent.fields
              THEN "add" ELSE "not decoded"
  /\ UNCHANGED <<upload, search, choice>>

\* TorrentMeta.files: the file itself if there is no list.
FileCount == IF "files" \in torrent.fields THEN torrent.count ELSE 1

\* Mutant: the end of a range is not part of it.
FileRange_open(range) == range[1]..(range[2] - 1)

FileRange(range) == range[1]..range[2]

\* selected_files, and a task with what it returns.
AddTorrent(s) ==
  /\ stage = "add"
  /\ stage' = "waiting"
  /\ option' = s
  /\ selected_files' = UNION {FileRange(s[n]) : n \in DOMAIN s}
  /\ UNCHANGED <<upload, search, only_files>>

AddWhole ==
  /\ stage = "add"
  /\ stage' = "waiting"
  /\ UNCHANGED <<upload, search, choice>>

\* A part that is no number.
AddRefused ==
  /\ stage = "add"
  /\ stage' = "bad option"
  /\ UNCHANGED <<upload, search, choice>>

\* files_value: the indices getFiles shows as selected.
Shown == {n \in 1..FileCount : option # <<>> => n \in selected_files}

-----------------------------------------------------------------------------
(* run_bittorrent_task *)

\* Mutant: librqbit counts as the option does.
FileId_same(file) == file

\* Mutant: a signed number.
FileId_signed(file) == file - 1

FileId(file) == IF file = 0 THEN MaxUsize ELSE file - 1

\* librqbit takes a file it has, from 0, and all files if it is told none.
Run ==
  /\ stage = "waiting"
  /\ only_files' = IF option # <<>> THEN {FileId(file) : file \in selected_files}
                   ELSE 0..(FileCount - 1)
  /\ stage' = IF \A id \in only_files' : id < FileCount THEN "downloading" ELSE "not run"
  /\ UNCHANGED <<upload, search, selected_files, option>>

\* file - 1 in a build that checks it.
RunPanics ==
  /\ stage = "waiting" /\ 0 \in selected_files
  /\ stage' = "panic"
  /\ UNCHANGED <<upload, search, choice>>

-----------------------------------------------------------------------------

\* The upload may have been cut off.
TorrentInit ==
  /\ torrent \in Torrents
  /\ \E n \in 0..Len(torrent.bytes) : bytes = SubSeq(torrent.bytes, 1, n)
  /\ key_start = 0 /\ offset = 0 /\ depth = 0 /\ raw_info = <<0, 0>>
  /\ selected_files = {} /\ option = <<>> /\ only_files = {}
  /\ stage = "find"

TorrentNext ==
  \/ FindInfo \/ Scan \/ ScanFails \/ Slice \/ Decode
  \/ \E s \in Selections : AddTorrent(s)
  \/ AddWhole \/ AddRefused \/ Run \/ RunPanics

TorrentSpec == TorrentInit /\ [][TorrentNext]_torrentVars

-----------------------------------------------------------------------------
(* Properties *)

\* Type invariant; librqbit is handed numbers of the machine.
TorrentTypeOK ==
  /\ Len(bytes) <= Len(torrent.bytes)
  /\ key_start \in 0..Len(bytes)
  /\ offset \in Nat /\ depth \in Nat
  /\ raw_info \in (0..Len(bytes)) \X (0..Len(bytes))
  /\ selected_files \subseteq Nat /\ option \in Selections \cup {<<>>}
  /\ only_files \subseteq 0..MaxUsize
  /\ stage \in {"find", "scan", "slice", "decode", "add", "waiting", "downloading"} \cup Errors

\* The bytes that are hashed are those of the value of the top-level info key, every
\* byte of it and no other, and a file that was cut off is refused, never sliced past
\* its end, as long as no string before that key spells 4:info (raw_info_dict,
\* bencode_value_end).
InfoHashOfInfo ==
  key_start = torrent.key =>
    /\ stage \in Found => raw_info = <<torrent.key + 1, torrent.last>>
    /\ stage = "panic" => 0 \in selected_files
    /\ stage = "bad info" => Len(bytes) < torrent.last

\* The files a client is shown as selected are those that are downloaded, and they
\* are those the option names, or the task is not run (files_value,
\* run_bittorrent_task).
DownloadsWhatItShows ==
  stage = "downloading" =>
    /\ {id + 1 : id \in only_files} = Shown
    /\ option # <<>> => \A n \in 0..MaxUsize :
         n \in Shown <=> \E k \in DOMAIN option : option[k][1] <= n /\ n <= option[k][2]
=============================================================================
