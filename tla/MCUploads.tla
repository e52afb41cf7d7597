----------------------------- MODULE MCUploads -----------------------------
(* The two files a client can upload, one per behaviour: a Metalink document  *)
(* or a torrent.  The documents have at most MaxFiles files which say at most *)
(* MaxFacts things; nothing more is opened in a file after something the      *)
(* parser does not reckon with, and a document ends, or is refused, before    *)
(* its last file is closed.  The torrents are all those whose info            *)
(* dictionary, and what stands before and after it, has a few short entries.  *)
EXTENDS Metalink, Torrent, SequencesExt

CONSTANTS MaxFiles, MaxFacts, f, g

VARIABLE kind  \* what is uploaded

MCSymmetry == Permutations({f, g})

Facts(m) ==
  IF m = None THEN 0
  ELSE (IF m.size = None THEN 0 ELSE 1) + (IF m.checksum = None THEN 0 ELSE 1) + Len(m.resources)
AllFacts(ms, last) == FoldLeft(LAMBDA n, m : n + Facts(m), Facts(last), ms)

MCHeaders == {"s0", "s1", "s2"}
MCSymbols == MCHeaders \cup {"d", "l", "i", "e", "INFO", "x"}
MCSize == [h \in MCHeaders |-> CASE h = "s0" -> 0 [] h = "s1" -> 1 [] OTHER -> 2]

Atoms == {<<"i", "x", "e">>, <<"s0">>, <<"s1", "e">>, <<"s2", "INFO", "i">>, <<"INFO">>}
Lists == {<<"l">> \o v \o w \o <<"e">> : v \in Atoms \cup {<<>>}, w \in Atoms \cup {<<"d", "e">>}}
Key == <<"s1", "x">>
Infos == {<<"d", "e">>} \cup {<<"d">> \o Key \o v \o <<"e">> : v \in Atoms \cup Lists}
Before == {<<>>} \cup {Key \o v : v \in Atoms \cup {<<"l", "s1", "i", "e">>}}
After == {<<>>, Key \o <<"INFO">>, Key \o <<"d">> \o <<"INFO", "s0", "e">>}

\* The values of bs from the one that starts at p, in a list or dictionary at q.
RECURSIVE Value(_, _, _, _), Values(_, _, _, _)
Value(bs, p, q, d) ==
  LET inner == IF bs[p] \in {"d", "l"} THEN Values(bs, p + 1, p, d + 1) ELSE <<>>
      end == CASE bs[p] = "i" -> Min({n \in p..Len(bs) : bs[n] = "e"})
               [] bs[p] \in MCHeaders -> p + MCSize[bs[p]]
               [] bs[p] = "INFO" -> p
               [] OTHER -> Max({p + 1} \cup {inner[n].next : n \in DOMAIN inner})
  IN  (p :> [next |-> end + 1, inside |-> q, depth |-> d]) @@ inner
Values(bs, p, q, d) ==
  IF bs[p] = "e" THEN <<>>
  ELSE LET v == Value(bs, p, q, d) IN v @@ Values(bs, v[p].next, q, d)

TorrentOf(b, v, a, fs, n) ==
  LET bs == <<"d">> \o b \o <<"INFO">> \o v \o a \o <<"e">>
      key == Len(b) + 2
  IN  [bytes |-> bs, key |-> key, last |-> key + Len(v), tree |-> Value(bs, key + 1, 0, 0),
       fields |-> fs, count |-> n]
Needed == {"name", "piece length"}
MCTorrents ==
  {TorrentOf(b, v, a, Needed, 0) : b \in Before, v \in Infos, a \in After} \cup
  {TorrentOf(<<>>, <<"d", "e">>, <<>>, fs, n) :
     fs \in {{"name"}, Needed, Needed \cup {"length"}, Needed \cup {"files"}}, n \in 0..3}

Ranges == {<<m, n>> : m, n \in 0..3}
MCSelections == {<<r>> : r \in Ranges} \cup {<<r, <<3, 3>>>> : r \in Ranges}

MCMetalinkNext ==
  /\ kind = "metalink" /\ MetalinkNext
  /\ Len(told') <= MaxFiles
  /\ ~Reading' => Len(told) < MaxFiles
  /\ odd # {} /\ leaf = None => leaf' = None
  /\ AllFacts(files', current_file') <= MaxFacts
  /\ AllFacts([n \in DOMAIN told' |-> told'[n].file], said') <= MaxFacts
  /\ UNCHANGED <<torrentVars, kind>>
MCTorrentNext == kind = "torrent" /\ TorrentNext /\ UNCHANGED <<metalinkVars, kind>>

UploadInit ==
  /\ kind \in {"metalink", "torrent"}
  /\ MetalinkInit /\ TorrentInit
  /\ kind = "metalink" =>
       torrent = TorrentOf(<<>>, <<"d", "e">>, <<>>, Needed, 0) /\ bytes = <<>>
UploadNext == MCMetalinkNext \/ MCTorrentNext
UploadSpec == UploadInit /\ [][UploadNext]_<<metalinkVars, torrentVars, kind>>
=============================================================================
