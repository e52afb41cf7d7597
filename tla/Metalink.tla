------------------------------ MODULE Metalink ------------------------------
(***************************************************************************)
(* parse_metalink_bytes of crates/raria-core/src/metalink.rs: the events   *)
(* of an XML reader drive a parser that remembers the file it is in        *)
(* (current_file) and what the next text is for (current_text).  Beside it *)
(* runs the document itself: which elements are open and what, read as a   *)
(* tree, it says of each file.  Elements the parser has no case for and    *)
(* that only group others (files, resources, verification) do not show.    *)
(* Foreign ones do: pieces, license and publisher also hold hash or url    *)
(* elements, which are not about the file as a whole.                      *)
(***************************************************************************)
EXTENDS Naturals, Sequences

CONSTANTS
  Names,    \* names of files
  Numbers,  \* texts that parse as a u64
  Words,    \* texts that do not
  None

Blank == "blank"  \* a text that is nothing but escaped white space
Split == "split"  \* one a comment divides, or that comes as CDATA
Texts == Numbers \cup Words \cup {Blank}

\* TextTarget; a hash without a type counts as "sha-256".
Target == {"size", "sha-256", "md5", "url"}

File == [name : Names, size : Numbers \cup {None}, checksum : Texts \cup {None},
         resources : Seq(Texts)]

ASSUME TextsAssumption ==
  /\ Numbers \cap Words = {} /\ Blank \notin Numbers \cup Words
  /\ Split \notin Texts /\ None \notin Texts \cup {Split} \cup Target \cup File

VARIABLES
  current_file, current_text, files,  \* as in the code
  outcome,  \* "reading", "parsed" or "refused"
  inside,   \* the innermost of the document, a file and a foreign element in a file
  leaf,     \* the size, hash or url element that is open, or None
  text,     \* the text of it so far, or None
  said,     \* what the document says of the file that is open
  odd,      \* what the parser does not reckon with in it
  told      \* said and odd of each file that was closed

parserVars == <<current_file, current_text, files, outcome>>
documentVars == <<inside, leaf, text, said, odd, told>>
metalinkVars == <<parserVars, documentVars>>

NewFile(n) == [name |-> n, size |-> None, checksum |-> None, resources |-> <<>>]

\* File f after text t for a target.
Take(f, target, t) ==
  CASE target = "size" -> [f EXCEPT !.size = t]
    [] target = "sha-256" -> [f EXCEPT !.checksum = t]
    [] target = "url" -> [f EXCEPT !.resources = Append(@, t)]
    [] OTHER -> f

Reading == outcome = "reading"
Refuse == outcome' = "refused" /\ UNCHANGED <<current_file, current_text, files>>

-----------------------------------------------------------------------------
(* Event::Start *)

StartFile(n) ==
  /\ Reading /\ inside = "document" /\ leaf = None
  /\ current_file' = NewFile(n)
  /\ inside' = "file" /\ said' = NewFile(n) /\ odd' = {}
  /\ UNCHANGED <<current_text, files, outcome, leaf, text, told>>

\* A file element without a name.
StartNameless ==
  /\ Reading /\ inside = "document" /\ leaf = None
  /\ Refuse /\ UNCHANGED documentVars

\* Mutant: whether a file is open is not asked.
StartText_anywhere(target) ==
  /\ Reading /\ leaf = None
  /\ current_text' = target
  /\ leaf' = target /\ text' = None
  /\ UNCHANGED <<current_file, files, outcome, inside, said, odd, told>>

\* size, hash or url, which outside a file are ignored.
StartText(target) ==
  /\ Reading /\ leaf = None
  /\ current_text' = IF current_file = None THEN current_text ELSE target
  /\ leaf' = target /\ text' = None
  /\ UNCHANGED <<current_file, files, outcome, inside, said, odd, told>>

StartForeign ==
  /\ Reading /\ inside = "file" /\ leaf = None
  /\ inside' = "foreign"
  /\ UNCHANGED <<parserVars, leaf, text, said, odd, told>>

-----------------------------------------------------------------------------
(* Event::Text, of the open leaf or of an element that is nothing to the parser *)

Text(t) ==
  /\ Reading
  /\ current_text' = None
  /\ IF current_text = None \/ t = Blank \/ current_file = None
     THEN UNCHANGED <<current_file, outcome>>
     ELSE IF current_text = "size" /\ t \notin Numbers
     THEN outcome' = "refused" /\ UNCHANGED current_file
     ELSE current_file' = Take(current_file, current_text, t) /\ UNCHANGED outcome
  /\ text' = IF leaf = None THEN None ELSE IF text = None THEN t ELSE Split
  /\ UNCHANGED <<files, inside, leaf, said, odd, told>>

\* Event::CData is not looked at.
CData ==
  /\ Reading /\ leaf # None
  /\ text' = Split
  /\ UNCHANGED <<parserVars, inside, leaf, said, odd, told>>

-----------------------------------------------------------------------------
(* Event::End, Event::Eof *)

\* What the closing leaf says of the open file, if it is about it at all.
Says ==
  IF inside = "file" /\ text \in Numbers \cup Words THEN Take(said, leaf, text) ELSE said
Oddity ==
  IF inside = "file" /\ text = Split THEN {"split"}
  ELSE IF inside = "foreign" /\ text \notin {None, Blank} THEN {"foreign"} ELSE {}

\* Mutant: what the text was for is only forgotten when there was one.
EndText_keeps ==
  /\ Reading /\ leaf # None
  /\ leaf' = None /\ text' = None
  /\ said' = Says /\ odd' = odd \cup Oddity
  /\ UNCHANGED <<parserVars, inside, told>>

EndText ==
  /\ Reading /\ leaf # None
  /\ current_text' = None
  /\ leaf' = None /\ text' = None
  /\ said' = Says /\ odd' = odd \cup Oddity
  /\ UNCHANGED <<current_file, files, outcome, inside, told>>

EndForeign ==
  /\ Reading /\ inside = "foreign" /\ leaf = None
  /\ inside' = "file"
  /\ UNCHANGED <<parserVars, leaf, text, said, odd, told>>

EndFile ==
  /\ Reading /\ inside = "file" /\ leaf = None
  /\ files' = IF current_file = None THEN files ELSE Append(files, current_file)
  /\ current_file' = None
  /\ current_text' = None
  /\ inside' = "document"
  /\ told' = Append(told, [file |-> said, odd |-> odd])
  /\ said' = None /\ odd' = {}
  /\ UNCHANGED <<outcome, leaf, text>>

\* The document ends, or is cut off; a reader may refuse the latter.
Eof ==
  /\ Reading
  /\ \/ outcome' = "parsed"
     \/ (inside # "document" \/ leaf # None) /\ outcome' = "refused"
  /\ UNCHANGED <<current_file, current_text, files, documentVars>>

\* XML the reader refuses, or an attribute or text that cannot be unescaped.
BadXml == Reading /\ Refuse /\ UNCHANGED documentVars

-----------------------------------------------------------------------------

MetalinkInit ==
  /\ current_file = None /\ current_text = None /\ files = <<>> /\ outcome = "reading"
  /\ inside = "document" /\ leaf = None /\ text = None
  /\ said = None /\ odd = {} /\ told = <<>>

MetalinkNext ==
  \/ \E n \in Names : StartFile(n)
  \/ \E target \in Target : StartText(target)
  \/ \E t \in Texts : Text(t)
  \/ StartNameless \/ StartForeign \/ CData
  \/ EndText \/ EndForeign \/ EndFile \/ Eof \/ BadXml

MetalinkSpec == MetalinkInit /\ [][MetalinkNext]_metalinkVars

-----------------------------------------------------------------------------
(* Properties *)

\* Type invariant; a text is awaited only inside a file.
MetalinkTypeOK ==
  /\ current_file \in File \cup {None}
  /\ current_text \in Target \cup {None}
  /\ current_text # None => current_file # None
  /\ files \in Seq(File)
  /\ outcome \in {"reading", "parsed", "refused"}
  /\ inside \in {"document", "file", "foreign"}
  /\ leaf \in Target \cup {None}
  /\ text \in Texts \cup {Split, None}
  /\ said \in File \cup {None}
  /\ odd \in SUBSET {"foreign", "split"}
  /\ told \in Seq([file : File, odd : SUBSET {"foreign", "split"}])

\* Every file of the document comes out, once, in its order and with its own name,
\* size, checksum and URLs, none of them another file's or element's, however its
\* elements are grouped and whatever other text there is: unless a foreign element in
\* it has a hash or a URL or a text is divided (parse_metalink_bytes).
ReadAsWritten ==
  /\ Len(files) = Len(told)
  /\ \A k \in DOMAIN told : told[k].odd = {} => files[k] = told[k].file

\* The checksum a file's download is verified against is one its own hash elements
\* state, whole as they state it; not so in the code, where that of a piece will do.
ChecksumIsTheFiles ==
  \A k \in DOMAIN told : "split" \notin told[k].odd => files[k].checksum = told[k].file.checksum
=============================================================================
