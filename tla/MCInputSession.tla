--------------------------- MODULE MCInputSession ---------------------------
(* Input files of at most two lines, and two of four that hold two tasks, by  *)
(* way of which options stand with the wrong task, with none and twice; URIs  *)
(* of a command line of every kind; at most MaxTasks tasks, so that a session *)
(* can be read, added to and saved again.                                     *)
EXTENDS InputSession

CONSTANT MaxTasks

Split(v) == OptionLine(<<"split", v>>)
MCLines == {UriLine("u"), Split("1"), Split("x"), OptionLine(<<"select-file", "1">>),
            Indented, Blank}
MCInputFiles ==
  UNION {[1..n -> MCLines] : n \in 0..2} \cup
  {<<UriLine("u"), Split("1"), Blank, UriLine("v")>>,
   <<UriLine("u"), UriLine("v"), Split("x"), Split("1")>>,
   <<UriLine("u"), OptionLine(<<"select-file", "x">>)>>}

\* "padded" has white space at an end, "lines" a line break, "option" is one.
MCArguments == {<<>>, <<"v">>, <<"bad magnet">>, <<"magnet", "bad magnet">>, <<"u", "padded">>,
                <<"lines">>, <<"option">>}
MCUris == {"u", "v", "magnet", "bad magnet", "cut", "padded", "lines", "option"}
MCReadsAs == [u \in MCUris |->
  CASE u = "padded" -> <<UriLine("u")>>
    [] u = "lines" -> <<UriLine("u"), Blank, UriLine("v")>>
    [] u = "option" -> <<Split("1")>>
    [] OTHER -> <<UriLine(u)>>]

MCNext == SessionNext /\ Len(tasks') <= MaxTasks
MCSpec == SessionInit /\ [][MCNext]_sessionVars
=============================================================================
