---------------------------- MODULE InputSession ----------------------------
(***************************************************************************)
(* The foreground command: main of crates/raria-cli/src/main.rs without    *)
(* --enable-rpc, with parse_input_file_text and save_session_text of       *)
(* crates/raria-core/src/cli.rs.  It reads the tasks of an input file,     *)
(* adds those of the command line, saves them all as a session, hands them *)
(* to the engine and runs one pass.  The session may be the input file of  *)
(* the next command, and the process may die anywhere.                     *)
(*                                                                         *)
(* A text is a sequence of lines, told apart by what the parser sees in    *)
(* them; what a URI of the command line reads as once it is a line of the  *)
(* session (nothing but white space, an option, several lines) is given.   *)
(***************************************************************************)
EXTENDS Naturals, Sequences, SequencesExt

CONSTANTS
  Uris, Keys, Values,  \* what lines are made of
  InputFiles,  \* texts of input files
  Arguments,   \* URIs of a command line
  ReadsAs,     \* the lines a URI becomes
  Magnets, BadMagnets,  \* URIs that are magnet links, and those that do not parse
  Numbers,     \* option values that parse as a number
  ShortUri, ShortValue,  \* what is left of a line that is cut
  None

UriLine(u) == <<"uri", u>>
OptionLine(o) == <<"option", o[1], o[2]>>
Blank == <<"blank">>
Indented == <<"indented">>  \* an option without an =

Options == Keys \X Values
Lines == {UriLine(u) : u \in Uris} \cup {OptionLine(o) : o \in Options} \cup {Blank, Indented}

ASSUME TextsAssumption ==
  /\ InputFiles \subseteq Seq(Lines) /\ Arguments \subseteq Seq(Uris)
  /\ ReadsAs \in [Uris -> Seq(Lines)]
  /\ \A u, v \in Uris : ReadsAs[u] = <<UriLine(v)>> => ReadsAs[v] = <<UriLine(v)>>
  /\ BadMagnets \subseteq Magnets /\ Magnets \subseteq Uris
  /\ ShortUri \in Uris /\ ShortValue \in Values
  /\ Numbers \subseteq Values

ASSUME NoneAssumption == None \notin Values

VARIABLES
  phase,    \* what main does next, or "off"
  command,  \* its command line, or None
  tasks,    \* input_tasks
  engine,   \* the tasks the RPC engine has
  stored,   \* the session file, or None
  saved,    \* history: the tasks it was last to hold
  whole     \* history: whether all of it was written

sessionVars == <<phase, command, tasks, engine, stored, saved, whole>>

Commands == [from : {"nothing", "file", "session"}, save : BOOLEAN,
             uris : Arguments, split : Numbers \cup {None}]

-----------------------------------------------------------------------------
(* cli.rs *)

NoTask == [uris |-> <<>>, options |-> <<>>]  \* current is None

\* Mutant: the task is added and not taken.
Flush_keeps(p) ==
  IF p.current.uris = <<>> THEN p ELSE [p EXCEPT !.tasks = Append(@, p.current)]

\* flush_task
Flush(p) ==
  IF p.current.uris = <<>> THEN p
  ELSE [p EXCEPT !.tasks = Append(@, p.current), !.current = NoTask]

ParseLine(p, line) ==
  CASE line[1] = "blank" -> Flush(p)
    [] line[1] = "option" /\ p.current # NoTask ->
         [p EXCEPT !.current.options = Append(@, <<line[2], line[3]>>)]
    [] line[1] = "uri" -> [p EXCEPT !.current.uris = Append(@, line[2])]
    [] OTHER -> [p EXCEPT !.ok = FALSE]

\* The parser when it has read a text; an error is one wherever it is.
Parser(text) ==
  LET after[n \in 0..Len(text)] ==
        IF n = 0 THEN [ok |-> TRUE, tasks |-> <<>>, current |-> NoTask]
        ELSE ParseLine(after[n - 1], text[n])
  IN  after[Len(text)]

\* parse_input_file_text
ParseInput(text) == Flush(Parser(text))

TaskLines(t) ==
  FlattenSeq([n \in DOMAIN t.uris |-> ReadsAs[t.uris[n]]])
    \o [n \in DOMAIN t.options |-> OptionLine(t.options[n])]

\* Mutant: no empty line between tasks.
SessionText_joined(ts) == FlattenSeq([n \in DOMAIN ts |-> TaskLines(ts[n])])

\* save_session_text
SessionText(ts) ==
  FlattenSeq([n \in DOMAIN ts |-> (IF n > 1 THEN <<Blank>> ELSE <<>>) \o TaskLines(ts[n])])

\* What a reader makes of a line that was only begun.
Cuts(line) ==
  CASE line[1] = "uri" -> {UriLine(ShortUri)}
    [] line[1] = "option" -> {Blank, Indented, OptionLine(<<line[2], ShortValue>>)}
    [] line[1] = "indented" -> {Blank, Indented}
    [] OTHER -> {}

-----------------------------------------------------------------------------
(* main *)

Exit == phase' = "off" /\ command' = None /\ tasks' = <<>> /\ engine' = <<>>

Start(c) ==
  /\ phase = "off"
  /\ command' = c
  /\ phase' = "load"
  /\ UNCHANGED <<tasks, engine, stored, saved, whole>>

\* Mutant: a task of no URIs.
OwnTask_always == <<[NoTask EXCEPT !.uris = command.uris]>>

\* The task of the command line.
OwnTask == IF command.uris = <<>> THEN <<>> ELSE <<[NoTask EXCEPT !.uris = command.uris]>>

\* read_to_string and parse_input_file_text of a text.
Load(text) ==
  LET p == ParseInput(text)
  IN  /\ phase = "load"
      /\ text \in CASE command.from = "file" -> InputFiles
                    [] command.from = "session" -> {stored}
                    [] OTHER -> {<<>>}
      /\ IF text = None \/ ~p.ok THEN Exit
         ELSE /\ tasks' = p.tasks \o OwnTask
              /\ phase' = IF command.save THEN "open" ELSE "add"
              /\ UNCHANGED <<command, engine>>
      /\ UNCHANGED <<stored, saved, whole>>

\* fs::write empties the file, which may be the one the tasks were read from.
OpenSession ==
  /\ phase = "open"
  /\ stored' = <<>> /\ saved' = tasks /\ whole' = FALSE
  /\ phase' = "write"
  /\ UNCHANGED <<command, tasks, engine>>

WriteLine ==
  /\ phase = "write" /\ stored # SessionText(tasks)
  /\ stored' = Append(stored, SessionText(tasks)[Len(stored) + 1])
  /\ UNCHANGED <<phase, command, tasks, engine, saved, whole>>

SessionSaved ==
  /\ phase = "write" /\ stored = SessionText(tasks)
  /\ whole' = TRUE
  /\ phase' = "add"
  /\ UNCHANGED <<command, tasks, engine, stored, saved>>

\* An error, or the end of the process, in the middle of a line.
SaveFails ==
  /\ phase = "write" /\ stored # SessionText(tasks)
  /\ \E line \in Cuts(SessionText(tasks)[Len(stored) + 1]) : stored' = Append(stored, line)
  /\ Exit
  /\ UNCHANGED <<saved, whole>>

\* The value of an option, the last one that is given.
Chosen(options, key) ==
  LET own == {n \in DOMAIN options : options[n][1] = key}
  IN  IF own = {} THEN None ELSE options[Max(own)][2]

\* Mutant: the command line's split goes last.
GivenOptions_last(t) ==
  t.options \o IF command.split = None THEN <<>> ELSE << <<"split", command.split>> >>

\* The options of an addUri, in the order in which they are collected.
GivenOptions(t) ==
  (IF command.split = None THEN <<>> ELSE << <<"split", command.split>> >>) \o t.options

\* The first magnet link of a task is the one that is parsed.
ParsesMagnet(t) ==
  LET magnets == SelectSeq(t.uris, LAMBDA u : u \in Magnets)
  IN  magnets = <<>> \/ Head(magnets) \notin BadMagnets

\* The next task: addUri, which refuses what it cannot parse, though not a split.
AddUri ==
  /\ phase = "add" /\ Len(engine) < Len(tasks)
  /\ LET t == tasks[Len(engine) + 1]
         select == Chosen(GivenOptions(t), "select-file")
         split == Chosen(GivenOptions(t), "split")
     IN  IF select \notin Numbers \cup {None} \/ ~ParsesMagnet(t)
         THEN Exit
         ELSE /\ engine' = Append(engine, [uris |-> t.uris, select |-> select,
                                           split |-> IF split \in Numbers THEN split ELSE None])
              /\ UNCHANGED <<phase, command, tasks>>
  /\ UNCHANGED <<stored, saved, whole>>

\* run_once, unless there is nothing to run.
RunOnce ==
  /\ phase = "add" /\ Len(engine) = Len(tasks) /\ tasks # <<>>
  /\ phase' = "run"
  /\ UNCHANGED <<command, tasks, engine, stored, saved, whole>>

\* The end of main, or of the process.
Stop == phase # "off" /\ Exit /\ UNCHANGED <<stored, saved, whole>>

-----------------------------------------------------------------------------

SessionInit ==
  /\ phase = "off" /\ command = None
  /\ tasks = <<>> /\ engine = <<>>
  /\ stored = None /\ saved = <<>> /\ whole = FALSE

SessionNext ==
  \/ \E c \in Commands : Start(c)
  \/ \E text \in InputFiles \cup {<<>>, stored} : Load(text)
  \/ OpenSession \/ WriteLine \/ SessionSaved \/ SaveFails
  \/ AddUri \/ RunOnce \/ Stop

SessionSpec == SessionInit /\ [][SessionNext]_sessionVars

-----------------------------------------------------------------------------
(* Properties *)

\* Type invariant; the engine has no more tasks than were read, and none before they
\* all are.
SessionTypeOK ==
  /\ phase \in {"off", "load", "open", "write", "add", "run"}
  /\ command \in Commands \cup {None}
  /\ \A t \in {tasks[n] : n \in DOMAIN tasks} : t.uris # <<>>
  /\ Len(engine) <= Len(tasks)
  /\ engine # <<>> => phase \in {"add", "run"}
  /\ whole \in BOOLEAN

\* Tasks of which every URI is one line, and these tasks with what is read of it: the
\* URI without the white space at its end.
OneLine(ts) == \A n \in DOMAIN ts : \A k \in DOMAIN ts[n].uris :
                 \E v \in Uris : ReadsAs[ts[n].uris[k]] = <<UriLine(v)>>
AsRead(ts) ==
  [n \in DOMAIN ts |->
     [uris |-> [k \in DOMAIN ts[n].uris |-> ReadsAs[ts[n].uris[k]][1][2]],
      options |-> ts[n].options]]

\* A session that was written to its end reads as the tasks that were saved, none divided,
\* joined or lost, each with its own options in their order and its URIs but for white
\* space at their ends; and no download starts before it is written: a later command can
\* go on from any end of this one.  Of tasks with a URI that is no line, or several, when
\* it is written nothing is said (save_session_text, parse_input_file_text).
SavedReadsBack ==
  /\ whole /\ OneLine(saved) =>
       /\ ParseInput(stored).ok
       /\ ParseInput(stored).tasks = AsRead(saved)
  /\ phase = "run" /\ command.save => whole /\ saved = tasks

\* Of a session of such tasks that was cut off, all tasks but the last are read as from
\* the whole one, unless it ends in half an option, which makes it unreadable
\* (save_session_text).
CutReadsAsFront ==
  stored # None /\ OneLine(saved) =>
    LET p == ParseInput(stored)
        n == Len(p.tasks)
    IN  /\ n <= Len(saved)
        /\ SubSeq(p.tasks, 1, n - 1) = SubSeq(AsRead(saved), 1, n - 1)
        /\ p.ok \/ Last(stored) = Indented

\* A pass starts with all tasks of the file and the command line in their order, each
\* with its URIs and its own split, or that of the command line if it has none; one
\* task that is refused keeps the others from running, too (main).
AllOrNothing ==
  phase = "run" =>
    /\ Len(engine) = Len(tasks)
    /\ \A n \in DOMAIN tasks :
         LET own == Chosen(tasks[n].options, "split")
             split == IF own = None THEN command.split ELSE own
         IN  /\ engine[n].uris = tasks[n].uris
             /\ engine[n].split \in {split, None}
             /\ split \in Numbers => engine[n].split = split
=============================================================================
