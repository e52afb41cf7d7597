------------------------- MODULE InputSessionProofs -------------------------
(***************************************************************************)
(* Proofs about InputSession.  What a text reads as, and what a session is *)
(* made of, are recursive functions, so that most of the argument is       *)
(* induction on the length of a text: over a set of natural numbers, which *)
(* needs no operator as a parameter.                                       *)
(***************************************************************************)
EXTENDS InputSession, SequenceTheorems, WellFoundedInduction, TLAPS

Tasks == [uris : Seq(Uris), options : Seq(Options)]
Parsers == [ok : BOOLEAN, tasks : Seq(Tasks), current : Tasks]

-----------------------------------------------------------------------------
(* Induction and recursion *)

\* A set with 0 and the successor of each of its members has every natural number.
LEMMA SetInduction ==
  ASSUME NEW T, 0 \in T, \A n \in Nat : n \in T => n + 1 \in T
  PROVE  \A n \in Nat : n \in T
<1> DEFINE Outside == {n \in Nat : n \notin T}
<1> SUFFICES ASSUME Outside # {}  PROVE FALSE
  OBVIOUS
<1>1. PICK x \in Outside : \A y \in Outside : ~ (<<y, x>> \in OpToRel(<, Nat))
  <2> HIDE DEF Outside
  <2>1. Outside \subseteq Nat
    BY DEF Outside
  <2>2. QED BY ONLY Outside # {}, <2>1, NatLessThanWellFounded, WFMin
<1>2. x - 1 \in Nat /\ x - 1 < x /\ x - 1 + 1 = x
  OBVIOUS
<1>3. x - 1 \notin Outside
  <2> HIDE DEF Outside
  <2>1. x \in Nat
    BY DEF Outside
  <2>2. QED BY <1>1, <1>2, <2>1, Zenon DEF OpToRel
<1>4. x - 1 \in T
  BY <1>2, <1>3
<1>5. x \in T
  BY <1>2, <1>4
<1>6. QED BY <1>5

\* A function on 0..m may be given by its first value and what leads from each to the next.
Iterates(f, m, S, base, step) ==
  /\ f \in [0..m -> S] /\ f[0] = base
  /\ \A n \in 1..m : f[n] = step[<<n, f[n - 1]>>]

LEMMA RecursionExists ==
  ASSUME NEW m \in Nat, NEW S, NEW base \in S, NEW step \in [(1..m) \X S -> S]
  PROVE  \E f : Iterates(f, m, S, base, step)
<1> USE DEF Iterates
<1> DEFINE Upto(k) == \E f : Iterates(f, k, S, base, step)
           T == {k \in Nat : k <= m => Upto(k)}
<1>1. 0 \in T
  <2> DEFINE f == [n \in 0..0 |-> base]
  <2>1. f \in [0..0 -> S] /\ f[0] = base /\ 1..0 = {}
    OBVIOUS
  <2> HIDE DEF f
  <2>2. Iterates(f, 0, S, base, step)
    BY <2>1
  <2> HIDE DEF Iterates
  <2>3. QED BY <2>2
<1>2. ASSUME NEW k \in Nat, k \in T, k + 1 <= m  PROVE Upto(k + 1)
  <2>1. PICK f : Iterates(f, k, S, base, step)
    <3> HIDE DEF Iterates
    <3>1. QED BY <1>2
  <2> DEFINE next == step[<<k + 1, f[k]>>]
             g == [n \in 0..(k + 1) |-> IF n = k + 1 THEN next ELSE f[n]]
  <2>2. next \in S
    <3>1. f[k] \in S /\ k + 1 \in 1..m
      BY <1>2, <2>1
    <3>2. <<k + 1, f[k]>> \in (1..m) \X S
      BY <3>1
    <3>3. QED BY <3>2
  <2> HIDE DEF next
  <2>3. g \in [0..(k + 1) -> S]
    BY <2>1, <2>2
  <2>4. g[0] = base
    BY <2>1
  <2>5. ASSUME NEW n \in 1..(k + 1)  PROVE g[n] = step[<<n, g[n - 1]>>]
    <3>1. CASE n = k + 1
      <4>1. g[n] = next /\ n - 1 = k /\ k \in 0..(k + 1) /\ k # k + 1
        BY <3>1
      <4>2. g[k] = f[k]
        BY <4>1
      <4>3. g[n - 1] = f[k]
        BY <4>1, <4>2
      <4> HIDE DEF g
      <4>4. QED BY <3>1, <4>1, <4>3 DEF next
    <3>2. CASE n \in 1..k
      BY <2>1, <3>2
    <3>3. QED BY <3>1, <3>2
  <2> HIDE DEF g
  <2>6. Iterates(g, k + 1, S, base, step)
    BY <2>3, <2>4, <2>5
  <2> HIDE DEF Iterates
  <2>7. QED BY <2>6
<1> HIDE DEF Iterates
<1>3. \A k \in Nat : k \in T => k + 1 \in T
  BY <1>2
<1>4. \A k \in Nat : k \in T
  <2> HIDE DEF T
  <2>1. QED BY <1>1, <1>3, SetInduction
<1>5. m \in T
  <2> HIDE DEF T
  <2>1. QED BY <1>4
<1>6. QED BY <1>5

-----------------------------------------------------------------------------
(* Texts and what they read as *)

LEMMA FlushType == ASSUME NEW p \in Parsers  PROVE Flush(p) \in Parsers
<1>1. CASE p.current.uris = <<>>
  BY <1>1 DEF Flush
<1>2. CASE p.current.uris # <<>>
  <2>1. p.tasks \in Seq(Tasks) /\ p.current \in Tasks /\ p.ok \in BOOLEAN
    BY DEF Parsers
  <2>2. Append(p.tasks, p.current) \in Seq(Tasks) /\ NoTask \in Tasks
    BY <2>1 DEF NoTask, Tasks
  <2>3. Flush(p) = [ok |-> p.ok, tasks |-> Append(p.tasks, p.current), current |-> NoTask]
    BY <1>2 DEF Flush, Parsers
  <2>4. QED BY <2>1, <2>2, <2>3 DEF Parsers
<1>3. QED BY <1>1, <1>2

\* What a line is.
LEMMA LineCases ==
  ASSUME NEW line \in Lines
  PROVE  \/ \E u \in Uris : line = UriLine(u) /\ line[1] = "uri" /\ line[2] = u
         \/ \E o \in Options : /\ line = OptionLine(o) /\ line[1] = "option"
                              /\ <<line[2], line[3]>> = o
         \/ line = Blank /\ line[1] = "blank"
         \/ line = Indented /\ line[1] = "indented"
  BY DEF Lines, UriLine, OptionLine, Options, Blank, Indented

WithUri(p, u) ==
  [ok |-> p.ok, tasks |-> p.tasks,
   current |-> [uris |-> Append(p.current.uris, u), options |-> p.current.options]]
WithOption(p, o) ==
  [ok |-> p.ok, tasks |-> p.tasks,
   current |-> [uris |-> p.current.uris, options |-> Append(p.current.options, o)]]

LEMMA ParseUri ==
  ASSUME NEW p \in Parsers, NEW u \in Uris
  PROVE  ParseLine(p, UriLine(u)) = WithUri(p, u)
<1>1. UriLine(u)[1] = "uri" /\ UriLine(u)[2] = u
  BY DEF UriLine
<1>2. ParseLine(p, UriLine(u)) = [p EXCEPT !.current.uris = Append(@, u)]
  BY <1>1 DEF ParseLine
<1>3. QED BY <1>2 DEF WithUri, Parsers, Tasks

LEMMA ParseOption ==
  ASSUME NEW p \in Parsers, NEW o \in Options
  PROVE  ParseLine(p, OptionLine(o)) =
           IF p.current # NoTask THEN WithOption(p, o) ELSE [p EXCEPT !.ok = FALSE]
<1>1. OptionLine(o)[1] = "option" /\ <<OptionLine(o)[2], OptionLine(o)[3]>> = o
  BY DEF OptionLine, Options
<1>2. CASE p.current # NoTask
  <2>1. ParseLine(p, OptionLine(o)) = [p EXCEPT !.current.options = Append(@, o)]
    BY <1>1, <1>2 DEF ParseLine
  <2>2. QED BY <1>2, <2>1 DEF WithOption, Parsers, Tasks
<1>3. CASE p.current = NoTask
  BY <1>1, <1>3 DEF ParseLine
<1>4. QED BY <1>2, <1>3

LEMMA ParseOther ==
  ASSUME NEW p
  PROVE  ParseLine(p, Blank) = Flush(p) /\ ParseLine(p, Indented) = [p EXCEPT !.ok = FALSE]
  BY DEF ParseLine, Blank, Indented

LEMMA WithUriType == ASSUME NEW p \in Parsers, NEW u \in Uris  PROVE WithUri(p, u) \in Parsers
<1>1. [uris |-> Append(p.current.uris, u), options |-> p.current.options] \in Tasks
  BY DEF Parsers, Tasks
<1>2. QED BY <1>1 DEF WithUri, Parsers

LEMMA WithOptionType ==
  ASSUME NEW p \in Parsers, NEW o \in Options  PROVE WithOption(p, o) \in Parsers
<1>1. [uris |-> p.current.uris, options |-> Append(p.current.options, o)] \in Tasks
  BY DEF Parsers, Tasks
<1>2. QED BY <1>1 DEF WithOption, Parsers

LEMMA NotOkType == ASSUME NEW p \in Parsers  PROVE [p EXCEPT !.ok = FALSE] \in Parsers
  BY DEF Parsers

LEMMA ParseLineType ==
  ASSUME NEW p \in Parsers, NEW line \in Lines  PROVE ParseLine(p, line) \in Parsers
<1>1. ASSUME NEW u \in Uris, line = UriLine(u)  PROVE ParseLine(p, line) \in Parsers
  <2>1. ParseLine(p, line) = WithUri(p, u)
    BY <1>1, ParseUri
  <2>2. QED BY <2>1, WithUriType
<1>2. ASSUME NEW o \in Options, line = OptionLine(o)  PROVE ParseLine(p, line) \in Parsers
  <2>1. ParseLine(p, line) \in {WithOption(p, o), [p EXCEPT !.ok = FALSE]}
    BY <1>2, ParseOption
  <2>2. QED BY <2>1, WithOptionType, NotOkType
<1>3. CASE line \in {Blank, Indented}
  BY <1>3, ParseOther, FlushType, NotOkType
<1>4. QED BY <1>1, <1>2, <1>3, LineCases

Begin == [ok |-> TRUE, tasks |-> <<>>, current |-> NoTask]

LEMMA BeginType == Begin \in Parsers
  BY DEF Begin, NoTask, Parsers, Tasks

\* The parser's states while it reads a text.
IsRun(f, text) ==
  /\ f \in [0..Len(text) -> Parsers]
  /\ f[0] = Begin
  /\ \A n \in 1..Len(text) : f[n] = ParseLine(f[n - 1], text[n])

LEMMA ParserRun ==
  ASSUME NEW text \in Seq(Lines)
  PROVE  \E f : IsRun(f, text) /\ Parser(text) = f[Len(text)]
<1> DEFINE m == Len(text)
           step == [x \in (1..m) \X Parsers |-> ParseLine(x[2], text[x[1]])]
           after == CHOOSE f : f = [n \in 0..m |-> IF n = 0 THEN Begin
                                                   ELSE ParseLine(f[n - 1], text[n])]
<1>1. m \in Nat
  OBVIOUS
<1>2. step \in [(1..m) \X Parsers -> Parsers]
  <2>1. ASSUME NEW x \in (1..m) \X Parsers  PROVE ParseLine(x[2], text[x[1]]) \in Parsers
    <3>1. x[2] \in Parsers /\ text[x[1]] \in Lines
      OBVIOUS
    <3>2. QED BY <3>1, ParseLineType
  <2>2. QED BY <2>1
<1>3. PICK f : Iterates(f, m, Parsers, Begin, step)
  <2> HIDE DEF step, m
  <2>1. QED BY <1>1, <1>2, BeginType, RecursionExists
<1> USE DEF Iterates
<1>4. ASSUME NEW n \in 1..m  PROVE f[n] = ParseLine(f[n - 1], text[n])
  <2>1. f[n - 1] \in Parsers
    BY <1>1, <1>3
  <2>2. QED BY <1>3, <2>1
<1>5. IsRun(f, text)
  BY <1>3, <1>4 DEF IsRun
<1>6. f = [n \in 0..m |-> IF n = 0 THEN Begin ELSE ParseLine(f[n - 1], text[n])]
  BY <1>1, <1>3, <1>4
<1>7. after = [n \in 0..m |-> IF n = 0 THEN Begin ELSE ParseLine(after[n - 1], text[n])]
  <2> HIDE DEF m
  <2>1. QED BY <1>6
<1>8. Parser(text) = after[m]
  BY DEF Parser, Begin
<1>9. after = f
  <2> DEFINE T == {n \in Nat : n <= m => after[n] = f[n]}
  <2> HIDE DEF after
  <2>1. 0 \in T
    BY <1>1, <1>3, <1>7
  <2>2. ASSUME NEW n \in Nat, n \in T, n + 1 <= m  PROVE after[n + 1] = f[n + 1]
    <3>1. after[n + 1] = ParseLine(after[n + 1 - 1], text[n + 1])
      BY <1>1, <1>7, <2>2
    <3>2. f[n + 1] = ParseLine(f[n + 1 - 1], text[n + 1])
      BY <1>1, <1>4, <2>2
    <3>3. after[n] = f[n] /\ n + 1 - 1 = n
      BY <1>1, <2>2
    <3>4. QED BY <3>1, <3>2, <3>3
  <2>3. \A n \in Nat : n \in T => n + 1 \in T
    BY <2>2
  <2>4. \A n \in Nat : n \in T
    <3> HIDE DEF T
    <3>1. QED BY <2>1, <2>3, SetInduction
  <2>5. \A n \in 0..m : after[n] = f[n]
    BY <1>1, <2>4
  <2>6. QED BY <1>3, <1>7, <2>5
<1>10. QED BY <1>5, <1>8, <1>9

\* Two texts that begin with the same lines read the same so far.
LEMMA RunsAgree ==
  ASSUME NEW s \in Seq(Lines), NEW t \in Seq(Lines), Len(s) <= Len(t),
         \A i \in 1..Len(s) : s[i] = t[i],
         NEW f, NEW g, IsRun(f, s), IsRun(g, t)
  PROVE  \A n \in 0..Len(s) : f[n] = g[n]
<1> DEFINE T == {n \in Nat : n <= Len(s) => f[n] = g[n]}
<1>1. 0 \in T
  BY DEF IsRun
<1>2. ASSUME NEW n \in Nat, n \in T, n + 1 <= Len(s)  PROVE f[n + 1] = g[n + 1]
  <2>1. n + 1 \in 1..Len(s) /\ n + 1 \in 1..Len(t) /\ n + 1 - 1 = n
    BY <1>2
  <2>2. f[n + 1] = ParseLine(f[n], s[n + 1]) /\ g[n + 1] = ParseLine(g[n], t[n + 1])
    BY <2>1 DEF IsRun
  <2>3. f[n] = g[n] /\ s[n + 1] = t[n + 1]
    BY <1>2, <2>1
  <2>4. QED BY <2>2, <2>3
<1>3. \A n \in Nat : n \in T => n + 1 \in T
  BY <1>2
<1>4. \A n \in Nat : n \in T
  <2> HIDE DEF T
  <2>1. QED BY <1>1, <1>3, SetInduction
<1>5. QED BY <1>4

LEMMA ParserType == ASSUME NEW text \in Seq(Lines)  PROVE Parser(text) \in Parsers
<1>1. PICK f : IsRun(f, text) /\ Parser(text) = f[Len(text)]
  BY ParserRun
<1>2. QED BY <1>1 DEF IsRun

LEMMA ParserEmpty == Parser(<<>>) = Begin
<1>1. <<>> \in Seq(Lines) /\ Len(<<>>) = 0
  OBVIOUS
<1>2. PICK f : IsRun(f, <<>>) /\ Parser(<<>>) = f[Len(<<>>)]
  BY <1>1, ParserRun
<1>3. QED BY <1>1, <1>2 DEF IsRun

LEMMA ParserAppend ==
  ASSUME NEW text \in Seq(Lines), NEW line \in Lines
  PROVE  Parser(Append(text, line)) = ParseLine(Parser(text), line)
<1> DEFINE longer == Append(text, line)
<1>1. longer \in Seq(Lines) /\ Len(longer) = Len(text) + 1 /\ longer[Len(text) + 1] = line
      /\ \A i \in 1..Len(text) : text[i] = longer[i]
  OBVIOUS
<1>2. Len(text) \in Nat /\ Len(text) <= Len(longer)
  BY <1>1
<1> HIDE DEF longer
<1>3. PICK f : IsRun(f, text) /\ Parser(text) = f[Len(text)]
  BY ParserRun
<1>4. PICK g : IsRun(g, longer) /\ Parser(longer) = g[Len(longer)]
  BY <1>1, ParserRun
<1>5. f[Len(text)] = g[Len(text)]
  <2>1. \A n \in 0..Len(text) : f[n] = g[n]
    BY <1>1, <1>2, <1>3, <1>4, RunsAgree
  <2>2. QED BY <1>2, <2>1
<1>6. g[Len(text) + 1] = ParseLine(g[Len(text) + 1 - 1], longer[Len(text) + 1])
  BY <1>1, <1>2, <1>4 DEF IsRun
<1>7. Parser(longer) = ParseLine(Parser(text), line)
  BY <1>1, <1>2, <1>3, <1>4, <1>5, <1>6
<1>8. QED BY <1>7 DEF longer

\* A parser that has read on has the tasks it had, and an error stays.
After(p, q) ==
  /\ q.ok => p.ok
  /\ Len(p.tasks) <= Len(q.tasks)
  /\ \A i \in 1..Len(p.tasks) : q.tasks[i] = p.tasks[i]

LEMMA FlushOn == ASSUME NEW p \in Parsers  PROVE After(p, Flush(p))
  BY DEF After, Flush, Parsers

LEMMA ParseLineOn ==
  ASSUME NEW p \in Parsers, NEW line \in Lines  PROVE After(p, ParseLine(p, line))
<1>1. \A q : q.tasks = p.tasks /\ (q.ok => p.ok) => After(p, q)
  BY DEF After, Parsers
<1>2. ASSUME NEW u \in Uris, line = UriLine(u)  PROVE After(p, ParseLine(p, line))
  BY <1>1, <1>2, ParseUri DEF WithUri
<1>3. ASSUME NEW o \in Options, line = OptionLine(o)  PROVE After(p, ParseLine(p, line))
  <2>1. CASE p.current # NoTask
    BY <1>1, <1>3, <2>1, ParseOption DEF WithOption
  <2>2. CASE p.current = NoTask
    <3>1. ParseLine(p, line) = [p EXCEPT !.ok = FALSE]
      BY <1>3, <2>2, ParseOption
    <3>2. QED BY <1>1, <3>1 DEF Parsers
  <2>3. QED BY <2>1, <2>2
<1>4. CASE line = Blank
  BY <1>4, ParseOther, FlushOn
<1>5. CASE line = Indented
  BY <1>1, <1>5, ParseOther DEF Parsers
<1>6. QED BY <1>2, <1>3, <1>4, <1>5, LineCases

LEMMA AfterTransitive ==
  ASSUME NEW p \in Parsers, NEW q \in Parsers, NEW r \in Parsers, After(p, q), After(q, r)
  PROVE  After(p, r)
<1>1. /\ Len(p.tasks) \in Nat /\ Len(q.tasks) \in Nat /\ Len(r.tasks) \in Nat
  BY DEF Parsers
<1>2. QED BY <1>1 DEF After

\* What the first lines of a text read as is the beginning of what it reads as.
LEMMA ParserOn ==
  ASSUME NEW text \in Seq(Lines), NEW k \in 0..Len(text)
  PROVE  After(Parser(SubSeq(text, 1, k)), Parser(text))
<1> DEFINE front == SubSeq(text, 1, k)
<1>1. /\ front \in Seq(Lines) /\ Len(front) = k /\ Len(text) \in Nat
      /\ \A i \in 1..Len(front) : front[i] = text[i]
  OBVIOUS
<1> HIDE DEF front
<1>2. PICK f : IsRun(f, front) /\ Parser(front) = f[Len(front)]
  BY <1>1, ParserRun
<1>3. PICK g : IsRun(g, text) /\ Parser(text) = g[Len(text)]
  BY ParserRun
<1>4. Parser(front) = g[k]
  <2>1. \A n \in 0..Len(front) : f[n] = g[n]
    BY <1>1, <1>2, <1>3, RunsAgree
  <2>2. QED BY <1>1, <1>2, <2>1
<1>5. \A n \in 0..Len(text) : g[n] \in Parsers
  BY <1>3 DEF IsRun
<1> DEFINE T == {n \in Nat : k + n <= Len(text) => After(g[k], g[k + n])}
<1>6. 0 \in T
  <2>1. k + 0 = k /\ g[k] \in Parsers
    BY <1>1, <1>5
  <2>2. After(g[k], g[k])
    BY <2>1 DEF After, Parsers
  <2>3. QED BY <2>1, <2>2
<1>7. ASSUME NEW n \in Nat, n \in T, k + (n + 1) <= Len(text)  PROVE After(g[k], g[k + (n + 1)])
  <2>1. /\ k + (n + 1) \in 1..Len(text) /\ k + (n + 1) - 1 = k + n
        /\ k \in 0..Len(text) /\ k + n \in 0..Len(text)
    BY <1>1, <1>7
  <2>2. g[k + (n + 1)] = ParseLine(g[k + n], text[k + (n + 1)])
    BY <1>3, <2>1 DEF IsRun
  <2>3. After(g[k + n], g[k + (n + 1)])
    BY <1>5, <2>1, <2>2, ParseLineOn
  <2>4. After(g[k], g[k + n])
    BY <1>7, <2>1
  <2>5. g[k] \in Parsers /\ g[k + n] \in Parsers /\ g[k + (n + 1)] \in Parsers
    BY <1>5, <2>1
  <2>6. QED BY <2>3, <2>4, <2>5, AfterTransitive
<1>8. \A n \in Nat : n \in T => n + 1 \in T
  BY <1>7
<1>9. \A n \in Nat : n \in T
  <2> HIDE DEF T
  <2>1. QED BY <1>6, <1>8, SetInduction
<1>10. After(g[k], g[Len(text)])
  <2>1. Len(text) - k \in Nat /\ k + (Len(text) - k) = Len(text)
    BY <1>1
  <2>2. Len(text) - k \in T
    <3> HIDE DEF T
    <3>1. QED BY <1>9, <2>1
  <2>3. QED BY <2>1, <2>2
<1>11. After(Parser(front), Parser(text))
  BY <1>3, <1>4, <1>10
<1>12. QED BY <1>11 DEF front

-----------------------------------------------------------------------------
(* Texts put together *)

LEMMA FlattenProperties ==
  ASSUME NEW S, NEW ss \in Seq(Seq(S))
  PROVE  \E h : /\ h \in [0..Len(ss) -> Seq(S)] /\ h[0] = <<>>
                /\ \A n \in 1..Len(ss) : h[n] = h[n - 1] \o ss[n]
                /\ FlattenSeq(ss) = h[Len(ss)]
<1> DEFINE m == Len(ss)
           step == [x \in (1..m) \X Seq(S) |-> x[2] \o ss[x[1]]]
           flatten == CHOOSE f : f = [i \in 1..m |-> IF i = 1 THEN ss[i] ELSE f[i - 1] \o ss[i]]
<1>1. m \in Nat /\ <<>> \in Seq(S)
  OBVIOUS
<1>2. step \in [(1..m) \X Seq(S) -> Seq(S)]
  <2>1. ASSUME NEW x \in (1..m) \X Seq(S)  PROVE x[2] \o ss[x[1]] \in Seq(S)
    <3>1. x[2] \in Seq(S) /\ ss[x[1]] \in Seq(S)
      OBVIOUS
    <3>2. QED BY <3>1
  <2>2. QED BY <2>1
<1>3. \A n \in 1..m, s \in Seq(S) : step[<<n, s>>] = s \o ss[n]
  OBVIOUS
<1> HIDE DEF step, m
<1>4. PICK h : Iterates(h, m, Seq(S), <<>>, step)
  BY <1>1, <1>2, RecursionExists
<1>5. ASSUME NEW n \in 1..m  PROVE h[n - 1] \in Seq(S) /\ h[n] = h[n - 1] \o ss[n]
  <2>1. h[n - 1] \in Seq(S)
    BY <1>1, <1>4 DEF Iterates
  <2>2. QED BY <1>3, <1>4, <2>1 DEF Iterates
<1> DEFINE g == [i \in 1..m |-> h[i]]
<1>6. g = [i \in 1..m |-> IF i = 1 THEN ss[i] ELSE g[i - 1] \o ss[i]]
  <2>1. ASSUME NEW i \in 1..m  PROVE h[i] = IF i = 1 THEN ss[i] ELSE g[i - 1] \o ss[i]
    <3>1. CASE i = 1
      <4>1. h[0] = <<>> /\ ss[i] \in Seq(S)
        BY <1>4 DEF Iterates, m
      <4>2. <<>> \o ss[i] = ss[i]
        BY <4>1
      <4> DEFINE k == i - 1
      <4>3. k = 0
        BY <3>1
      <4>4. h[i] = h[k] \o ss[i]
        BY <1>5, Zenon
      <4> HIDE DEF k
      <4>5. h[i] = ss[i]
        BY <4>1, <4>2, <4>3, <4>4, Zenon
      <4>6. QED BY <3>1, <4>5, Zenon
    <3>2. CASE i # 1
      <4>1. i - 1 \in 1..m
        BY <1>1, <3>2
      <4>2. g[i - 1] = h[i - 1]
        BY <4>1
      <4> HIDE DEF g
      <4>3. h[i] = h[i - 1] \o ss[i]
        BY <1>5
      <4>4. QED BY <3>2, <4>2, <4>3
    <3>3. QED BY <3>1, <3>2
  <2>2. QED BY <2>1
<1>7. flatten = [i \in 1..m |-> IF i = 1 THEN ss[i] ELSE flatten[i - 1] \o ss[i]]
  <2> HIDE DEF g
  <2>1. QED BY <1>6
<1> HIDE DEF flatten
<1>8. \A i \in 1..m : flatten[i] = IF i = 1 THEN ss[i] ELSE flatten[i - 1] \o ss[i]
  BY <1>7
<1>9. \A i \in 1..m : g[i] = h[i] /\ g[i] = IF i = 1 THEN ss[i] ELSE g[i - 1] \o ss[i]
  <2>1. \A i \in 1..m : g[i] = h[i]
    OBVIOUS
  <2> HIDE DEF g
  <2>2. QED BY <1>6, <2>1
<1> HIDE DEF g
<1>10. ASSUME m # 0  PROVE flatten[m] = h[m]
  <2> DEFINE T == {n \in Nat : n + 1 <= m => flatten[n + 1] = h[n + 1]}
  <2>1. 0 \in T
    <3>1. 1 \in 1..m
      BY <1>1, <1>10
    <3>2. flatten[1] = ss[1] /\ h[1] = ss[1]
      BY <1>8, <1>9, <3>1
    <3>3. QED BY <3>2
  <2>2. ASSUME NEW n \in Nat, n \in T, n + 1 + 1 <= m  PROVE flatten[n + 1 + 1] = h[n + 1 + 1]
    <3>1. n + 1 + 1 \in 1..m /\ n + 1 + 1 # 1 /\ n + 1 + 1 - 1 = n + 1
      BY <1>1, <2>2
    <3>2. flatten[n + 1] = h[n + 1]
      BY <1>1, <2>2
    <3> DEFINE i == n + 1 + 1
               k == i - 1
    <3>3. i \in 1..m /\ i # 1 /\ k = n + 1
      BY <3>1
    <3> HIDE DEF i
    <3>4. flatten[i] = flatten[k] \o ss[i] /\ h[i] = h[k] \o ss[i]
      BY <1>5, <1>8, <3>3
    <3> HIDE DEF k
    <3>5. flatten[k] = h[k]
      BY <3>2, <3>3
    <3>6. flatten[i] = h[i]
      BY <3>4, <3>5, Zenon
    <3>7. QED BY <3>6 DEF i
  <2>3. \A n \in Nat : n \in T => n + 1 \in T
    BY <2>2
  <2>4. \A n \in Nat : n \in T
    <3> HIDE DEF T
    <3>1. QED BY <2>1, <2>3, SetInduction
  <2>5. m - 1 \in Nat /\ m - 1 + 1 = m
    BY <1>1, <1>10
  <2>6. m - 1 \in T
    <3> HIDE DEF T
    <3>1. QED BY <2>4, <2>5
  <2>7. QED BY <2>5, <2>6
<1>11. FlattenSeq(ss) = h[m]
  <2>1. CASE m = 0
    <3>1. ss = <<>> /\ FlattenSeq(ss) = ss /\ h[0] = <<>>
      BY <1>4, <2>1 DEF FlattenSeq, Iterates, m
    <3>2. QED BY <2>1, <3>1
  <2>2. CASE m # 0
    <3>1. FlattenSeq(ss) = flatten[m]
      BY <2>2 DEF FlattenSeq, flatten, m
    <3>2. QED BY <1>10, <2>2, <3>1
  <2>3. QED BY <2>1, <2>2
<1>12. QED BY <1>4, <1>5, <1>11 DEF Iterates, m

LEMMA FlattenEmpty == FlattenSeq(<<>>) = <<>>
  BY DEF FlattenSeq

LEMMA FlattenType ==
  ASSUME NEW S, NEW ss \in Seq(Seq(S))  PROVE FlattenSeq(ss) \in Seq(S)
<1>1. PICK h : h \in [0..Len(ss) -> Seq(S)] /\ FlattenSeq(ss) = h[Len(ss)]
  BY FlattenProperties
<1>2. Len(ss) \in 0..Len(ss)
  OBVIOUS
<1>3. QED BY <1>1, <1>2

LEMMA FlattenAppend ==
  ASSUME NEW S, NEW ss \in Seq(Seq(S)), NEW s \in Seq(S)
  PROVE  FlattenSeq(Append(ss, s)) = FlattenSeq(ss) \o s
<1> DEFINE longer == Append(ss, s)
           m == Len(ss)
<1>1. /\ longer \in Seq(Seq(S)) /\ Len(longer) = m + 1 /\ longer[m + 1] = s
      /\ m \in Nat /\ \A i \in 1..m : longer[i] = ss[i]
  OBVIOUS
<1> HIDE DEF longer
<1>2. PICK h : /\ h \in [0..Len(ss) -> Seq(S)] /\ h[0] = <<>>
               /\ \A n \in 1..Len(ss) : h[n] = h[n - 1] \o ss[n]
               /\ FlattenSeq(ss) = h[Len(ss)]
  BY FlattenProperties
<1>3. PICK g : /\ g \in [0..Len(longer) -> Seq(S)] /\ g[0] = <<>>
               /\ \A n \in 1..Len(longer) : g[n] = g[n - 1] \o longer[n]
               /\ FlattenSeq(longer) = g[Len(longer)]
  BY <1>1, FlattenProperties
<1> HIDE DEF m
<1> DEFINE T == {n \in Nat : n <= m => g[n] = h[n]}
<1>4. 0 \in T
  BY <1>2, <1>3
<1>5. ASSUME NEW n \in Nat, n \in T, n + 1 <= m  PROVE g[n + 1] = h[n + 1]
  <2> DEFINE i == n + 1
             k == i - 1
  <2>1. i \in 1..m /\ i \in 1..Len(longer) /\ k = n
    BY <1>1, <1>5
  <2> HIDE DEF i
  <2>2. h[i] = h[k] \o ss[i] /\ g[i] = g[k] \o longer[i]
    BY <1>2, <1>3, <2>1 DEF m
  <2>3. g[n] = h[n] /\ longer[i] = ss[i]
    BY <1>1, <1>5, <2>1 DEF i
  <2> HIDE DEF k
  <2>4. g[i] = h[i]
    BY <2>1, <2>2, <2>3, Zenon
  <2>5. QED BY <2>4 DEF i
<1>6. \A n \in Nat : n \in T => n + 1 \in T
  BY <1>5
<1>7. m \in T
  <2> HIDE DEF T
  <2>1. QED BY <1>1, <1>4, <1>6, SetInduction
<1>8. g[m] = h[m]
  BY <1>1, <1>7
<1> DEFINE i == m + 1
           k == i - 1
<1>9. i \in 1..Len(longer) /\ k = m /\ i = Len(longer) /\ longer[i] = s
  BY <1>1
<1> HIDE DEF i
<1>10. g[i] = g[k] \o longer[i]
  BY <1>3, <1>9
<1> HIDE DEF k
<1>11. FlattenSeq(longer) = FlattenSeq(ss) \o s
  BY <1>2, <1>3, <1>8, <1>9, <1>10, Zenon DEF m
<1>12. QED BY <1>11 DEF longer

\* The lines of a task's URIs and of its options.
UriText(us) == FlattenSeq([n \in DOMAIN us |-> ReadsAs[us[n]]])
OptionText(os) == [n \in DOMAIN os |-> OptionLine(os[n])]

LEMMA UriTextEmpty == UriText(<<>>) = <<>>
<1>1. [n \in DOMAIN <<>> |-> ReadsAs[<<>>[n]]] = <<>>
  OBVIOUS
<1>2. QED BY <1>1, FlattenEmpty DEF UriText

LEMMA UriTextAppend ==
  ASSUME NEW us \in Seq(Uris), NEW u \in Uris
  PROVE  /\ UriText(us) \in Seq(Lines)
         /\ UriText(Append(us, u)) = UriText(us) \o ReadsAs[u]
<1> DEFINE ss == [n \in DOMAIN us |-> ReadsAs[us[n]]]
           longer == [n \in DOMAIN Append(us, u) |-> ReadsAs[Append(us, u)[n]]]
<1>1. ss \in Seq(Seq(Lines)) /\ ReadsAs[u] \in Seq(Lines) /\ Len(ss) = Len(us)
  <2>1. \A x \in Uris : ReadsAs[x] \in Seq(Lines)
    BY TextsAssumption
  <2>2. ss \in [1..Len(us) -> Seq(Lines)] /\ Len(us) \in Nat
    BY <2>1
  <2>3. QED BY <2>1, <2>2
<1>2. longer = Append(ss, ReadsAs[u])
  <2>1. longer \in Seq(Seq(Lines)) /\ Len(longer) = Len(us) + 1
    BY TextsAssumption
  <2>2. Append(ss, ReadsAs[u]) \in Seq(Seq(Lines)) /\ Len(Append(ss, ReadsAs[u])) = Len(us) + 1
    BY <1>1
  <2>3. ASSUME NEW i \in 1..(Len(us) + 1)  PROVE longer[i] = Append(ss, ReadsAs[u])[i]
    BY <1>1
  <2> HIDE DEF longer, ss
  <2>4. QED BY <2>1, <2>2, <2>3, SeqEqual
<1>3. FlattenSeq(ss) \in Seq(Lines) /\ FlattenSeq(Append(ss, ReadsAs[u])) = FlattenSeq(ss) \o ReadsAs[u]
  <2> HIDE DEF ss
  <2>1. QED BY <1>1, FlattenType, FlattenAppend
<1>4. UriText(us) = FlattenSeq(ss) /\ UriText(Append(us, u)) = FlattenSeq(longer)
  BY DEF UriText
<1> HIDE DEF ss, longer
<1>5. QED BY <1>2, <1>3, <1>4

LEMMA OptionTextEmpty == OptionText(<<>>) = <<>>
  BY DEF OptionText

LEMMA OptionTextAppend ==
  ASSUME NEW os \in Seq(Options), NEW o \in Options
  PROVE  /\ OptionText(os) \in Seq(Lines)
         /\ OptionText(Append(os, o)) = Append(OptionText(os), OptionLine(o))
<1>1. \A x \in Options : OptionLine(x) \in Lines
  BY DEF Lines
<1> HIDE DEF OptionLine
<1>2. OptionText(os) \in Seq(Lines) /\ Len(OptionText(os)) = Len(os)
  BY <1>1 DEF OptionText
<1>3. Append(os, o) \in Seq(Options) /\ Len(Append(os, o)) = Len(os) + 1
  OBVIOUS
<1>4. OptionText(Append(os, o)) \in Seq(Lines) /\ Len(OptionText(Append(os, o))) = Len(os) + 1
  BY <1>1, <1>3 DEF OptionText
<1>5. ASSUME NEW i \in 1..(Len(os) + 1)
      PROVE  OptionText(Append(os, o))[i] = Append(OptionText(os), OptionLine(o))[i]
  BY <1>2, <1>3 DEF OptionText
<1>6. QED BY <1>1, <1>2, <1>4, <1>5, SeqEqual

\* The lines of any URIs and of any options.
LEMMA TextTypes ==
  ASSUME NEW us \in Seq(Uris), NEW os \in Seq(Options)
  PROVE  UriText(us) \in Seq(Lines) /\ OptionText(os) \in Seq(Lines)
<1>1. UriText(us) \in Seq(Lines)
  BY UriTextAppend, TextsAssumption
<1>2. \A o \in Options : OptionLine(o) \in Lines
  BY DEF Lines
<1>3. OptionText(os) \in Seq(Lines)
  BY <1>2 DEF OptionText
<1>4. QED BY <1>1, <1>3

-----------------------------------------------------------------------------
(* What is written reads back *)

LEMMA ConcatAppend ==
  ASSUME NEW S, NEW s \in Seq(S), NEW t \in Seq(S), NEW x \in S
  PROVE  s \o Append(t, x) = Append(s \o t, x) /\ s \o <<x>> = Append(s, x)
         /\ s \o t \in Seq(S) /\ s \o <<>> = s
<1>1. /\ s \o Append(t, x) \in Seq(S) /\ Append(s \o t, x) \in Seq(S)
      /\ Len(s \o Append(t, x)) = Len(s) + Len(t) + 1 /\ Len(Append(s \o t, x)) = Len(s) + Len(t) + 1
  OBVIOUS
<1>2. ASSUME NEW i \in 1..(Len(s) + Len(t) + 1)
      PROVE  (s \o Append(t, x))[i] = Append(s \o t, x)[i]
  OBVIOUS
<1>3. s \o Append(t, x) = Append(s \o t, x)
  BY <1>1, <1>2, SeqEqual
<1>4. s \o <<x>> = Append(s, x)
  BY AppendIsConcat
<1>5. s \o t \in Seq(S) /\ s \o <<>> = s
  BY ConcatEmptySeq
<1>6. QED BY <1>3, <1>4, <1>5

\* A parser that has read URIs, or options, of a task.
WithUris(p, us) ==
  [ok |-> p.ok, tasks |-> p.tasks,
   current |-> [uris |-> p.current.uris \o us, options |-> p.current.options]]
WithOptions(p, os) ==
  [ok |-> p.ok, tasks |-> p.tasks,
   current |-> [uris |-> p.current.uris, options |-> p.current.options \o os]]

PlainUris(us) == \A n \in DOMAIN us : ReadsAs[us[n]] = <<UriLine(us[n])>>

LEMMA WithUrisType ==
  ASSUME NEW p \in Parsers, NEW us \in Seq(Uris)  PROVE WithUris(p, us) \in Parsers
<1>1. [uris |-> p.current.uris \o us, options |-> p.current.options] \in Tasks
  BY DEF Parsers, Tasks
<1>2. QED BY <1>1 DEF WithUris, Parsers

LEMMA WithOptionsType ==
  ASSUME NEW p \in Parsers, NEW os \in Seq(Options)  PROVE WithOptions(p, os) \in Parsers
<1>1. [uris |-> p.current.uris, options |-> p.current.options \o os] \in Tasks
  BY DEF Parsers, Tasks
<1>2. QED BY <1>1 DEF WithOptions, Parsers

LEMMA ReadUris ==
  ASSUME NEW text \in Seq(Lines)
  PROVE  \A us \in Seq(Uris) :
           PlainUris(us) => Parser(text \o UriText(us)) = WithUris(Parser(text), us)
<1> DEFINE T == {n \in Nat : \A us \in Seq(Uris) : Len(us) = n /\ PlainUris(us) =>
                   Parser(text \o UriText(us)) = WithUris(Parser(text), us)}
<1>1. Parser(text) \in Parsers
  BY ParserType
<1>2. 0 \in T
  <2>1. ASSUME NEW us \in Seq(Uris), Len(us) = 0
        PROVE  Parser(text \o UriText(us)) = WithUris(Parser(text), us)
    <3>1. us = <<>>
      BY <2>1
    <3>2. UriText(us) = <<>> /\ text \o <<>> = text
      BY <3>1, UriTextEmpty, ConcatEmptySeq
    <3>3. WithUris(Parser(text), <<>>) = Parser(text)
      BY <1>1 DEF WithUris, Parsers, Tasks
    <3>4. QED BY <3>1, <3>2, <3>3
  <2>2. QED BY <2>1
<1>3. ASSUME NEW n \in Nat, n \in T  PROVE n + 1 \in T
  <2>1. ASSUME NEW vs \in Seq(Uris), Len(vs) = n + 1, PlainUris(vs)
        PROVE  Parser(text \o UriText(vs)) = WithUris(Parser(text), vs)
    <3>1. PICK us \in Seq(Uris), u \in Uris : vs = Append(us, u)
      <4>1. vs # <<>>
        BY <2>1
      <4>2. QED BY <4>1, SequenceEmptyOrAppend
    <3>2. Len(us) = n /\ PlainUris(us) /\ ReadsAs[u] = <<UriLine(u)>>
      <4>1. Len(us) = n /\ Len(us) \in Nat
        BY <2>1, <3>1
      <4>2. ReadsAs[u] = <<UriLine(u)>>
        <5>1. n + 1 \in DOMAIN vs /\ vs[n + 1] = u
          BY <2>1, <3>1, <4>1
        <5>2. QED BY <2>1, <5>1 DEF PlainUris
      <4>3. ASSUME NEW i \in DOMAIN us  PROVE ReadsAs[us[i]] = <<UriLine(us[i])>>
        <5>1. i \in DOMAIN vs /\ vs[i] = us[i]
          BY <3>1
        <5>2. QED BY <2>1, <5>1 DEF PlainUris
      <4>4. QED BY <4>1, <4>2, <4>3 DEF PlainUris
    <3>3. UriText(us) \in Seq(Lines) /\ UriText(vs) = UriText(us) \o <<UriLine(u)>>
      BY <3>1, <3>2, UriTextAppend
    <3>4. UriLine(u) \in Lines
      BY DEF Lines
    <3>5. text \o UriText(vs) = Append(text \o UriText(us), UriLine(u)) /\ text \o UriText(us) \in Seq(Lines)
      BY <3>3, <3>4, ConcatAppend
    <3>6. Parser(text \o UriText(us)) = WithUris(Parser(text), us)
      BY <1>3, <3>2
    <3>7. Parser(text \o UriText(vs)) = WithUri(WithUris(Parser(text), us), u)
      BY <1>1, <3>4, <3>5, <3>6, ParserAppend, ParseUri, WithUrisType
    <3>8. WithUri(WithUris(Parser(text), us), u) = WithUris(Parser(text), vs)
      <4> DEFINE read == Parser(text).current.uris
      <4>1. read \in Seq(Uris)
        BY <1>1 DEF Parsers, Tasks
      <4> HIDE DEF read
      <4>2. read \o Append(us, u) = Append(read \o us, u)
        BY <4>1, ConcatAppend
      <4>3. QED BY <3>1, <4>2 DEF WithUri, WithUris, read
    <3>9. QED BY <3>7, <3>8
  <2>2. QED BY <2>1
<1>4. \A n \in Nat : n \in T
  <2> HIDE DEF T
  <2>1. QED BY <1>2, <1>3, SetInduction
<1>5. ASSUME NEW us \in Seq(Uris), PlainUris(us)
      PROVE  Parser(text \o UriText(us)) = WithUris(Parser(text), us)
  <2>1. Len(us) \in T
    <3> HIDE DEF T
    <3>1. QED BY <1>4
  <2>2. QED BY <1>5, <2>1
<1>6. QED BY <1>5

LEMMA ReadOptions ==
  ASSUME NEW text \in Seq(Lines), Parser(text).current.uris # <<>>
  PROVE  \A os \in Seq(Options) :
           Parser(text \o OptionText(os)) = WithOptions(Parser(text), os)
<1> DEFINE T == {n \in Nat : \A os \in Seq(Options) : Len(os) = n =>
                   Parser(text \o OptionText(os)) = WithOptions(Parser(text), os)}
<1>1. Parser(text) \in Parsers
  BY ParserType
<1>2. 0 \in T
  <2>1. ASSUME NEW os \in Seq(Options), Len(os) = 0
        PROVE  Parser(text \o OptionText(os)) = WithOptions(Parser(text), os)
    <3>1. os = <<>>
      BY <2>1
    <3>2. OptionText(os) = <<>> /\ text \o <<>> = text
      BY <3>1, OptionTextEmpty, ConcatEmptySeq
    <3>3. WithOptions(Parser(text), <<>>) = Parser(text)
      BY <1>1 DEF WithOptions, Parsers, Tasks
    <3>4. QED BY <3>1, <3>2, <3>3
  <2>2. QED BY <2>1
<1>3. ASSUME NEW n \in Nat, n \in T  PROVE n + 1 \in T
  <2>1. ASSUME NEW ps \in Seq(Options), Len(ps) = n + 1
        PROVE  Parser(text \o OptionText(ps)) = WithOptions(Parser(text), ps)
    <3>1. PICK os \in Seq(Options), o \in Options : ps = Append(os, o)
      <4>1. ps # <<>>
        BY <2>1
      <4>2. QED BY <4>1, SequenceEmptyOrAppend
    <3>2. Len(os) = n
      <4>1. Len(os) \in Nat
        OBVIOUS
      <4>2. QED BY <2>1, <3>1, <4>1
    <3>3. OptionText(os) \in Seq(Lines) /\ OptionText(ps) = Append(OptionText(os), OptionLine(o))
      BY <3>1, OptionTextAppend
    <3>4. OptionLine(o) \in Lines
      BY DEF Lines
    <3>5. /\ text \o OptionText(ps) = Append(text \o OptionText(os), OptionLine(o))
          /\ text \o OptionText(os) \in Seq(Lines)
      BY <3>3, <3>4, ConcatAppend
    <3>6. Parser(text \o OptionText(os)) = WithOptions(Parser(text), os)
      BY <1>3, <3>2
    <3>7. WithOptions(Parser(text), os).current # NoTask
      <4>1. WithOptions(Parser(text), os).current.uris # <<>>
        BY DEF WithOptions
      <4>2. NoTask.uris = <<>>
        BY DEF NoTask
      <4>3. QED BY <4>1, <4>2
    <3>8. Parser(text \o OptionText(ps)) = WithOption(WithOptions(Parser(text), os), o)
      <4>1. Parser(text \o OptionText(ps)) = ParseLine(WithOptions(Parser(text), os), OptionLine(o))
        BY <3>4, <3>5, <3>6, ParserAppend
      <4>2. WithOptions(Parser(text), os) \in Parsers
        BY <1>1, WithOptionsType
      <4>3. QED BY <3>7, <4>1, <4>2, ParseOption
    <3>9. WithOption(WithOptions(Parser(text), os), o) = WithOptions(Parser(text), ps)
      <4> DEFINE read == Parser(text).current.options
      <4>1. read \in Seq(Options)
        BY <1>1 DEF Parsers, Tasks
      <4> HIDE DEF read
      <4>2. read \o Append(os, o) = Append(read \o os, o)
        BY <4>1, ConcatAppend
      <4>3. QED BY <3>1, <4>2 DEF WithOption, WithOptions, read
    <3>10. QED BY <3>8, <3>9
  <2>2. QED BY <2>1
<1>4. \A n \in Nat : n \in T
  <2> HIDE DEF T
  <2>1. QED BY <1>2, <1>3, SetInduction
<1>5. ASSUME NEW os \in Seq(Options)
      PROVE  Parser(text \o OptionText(os)) = WithOptions(Parser(text), os)
  <2>1. Len(os) \in T
    <3> HIDE DEF T
    <3>1. QED BY <1>4
  <2>2. QED BY <2>1
<1>6. QED BY <1>5

\* The lines of one task, where no other is begun.
LEMMA ReadTask ==
  ASSUME NEW text \in Seq(Lines), NEW t \in Tasks, t.uris # <<>>, PlainUris(t.uris),
         Parser(text).current = NoTask
  PROVE  /\ TaskLines(t) \in Seq(Lines)
         /\ Parser(text \o TaskLines(t)) =
              [ok |-> Parser(text).ok, tasks |-> Parser(text).tasks, current |-> t]
<1>1. t.uris \in Seq(Uris) /\ t.options \in Seq(Options) /\ t = [uris |-> t.uris, options |-> t.options]
  BY DEF Tasks
<1>2. UriText(t.uris) \in Seq(Lines) /\ OptionText(t.options) \in Seq(Lines)
  BY <1>1, TextTypes
<1>3. TaskLines(t) = UriText(t.uris) \o OptionText(t.options)
  BY DEF TaskLines, UriText, OptionText
<1> DEFINE longer == text \o UriText(t.uris)
<1>4. longer \in Seq(Lines) /\ text \o TaskLines(t) = longer \o OptionText(t.options)
      /\ TaskLines(t) \in Seq(Lines)
  <2> HIDE DEF UriText, OptionText
  <2>1. QED BY <1>2, <1>3, ConcatAssociative, ConcatProperties
<1>5. Parser(text) \in Parsers
  BY ParserType
<1>6. Parser(longer) = WithUris(Parser(text), t.uris)
  BY <1>1, ReadUris
<1>7. WithUris(Parser(text), t.uris) =
        [ok |-> Parser(text).ok, tasks |-> Parser(text).tasks, current |-> [uris |-> t.uris, options |-> <<>>]]
  BY <1>1, ConcatEmptySeq DEF WithUris, NoTask
<1>8. Parser(longer).current.uris # <<>>
  BY <1>6, <1>7
<1> HIDE DEF longer
<1>9. Parser(text \o TaskLines(t)) = WithOptions(Parser(longer), t.options)
  BY <1>1, <1>4, <1>8, ReadOptions
<1>10. WithOptions(Parser(longer), t.options) =
        [ok |-> Parser(text).ok, tasks |-> Parser(text).tasks, current |-> t]
  BY <1>1, <1>6, <1>7, ConcatEmptySeq DEF WithOptions
<1>11. QED BY <1>4, <1>9, <1>10

\* Tasks that can be in a session, and come back from it.
Kept(t) == t.uris # <<>> /\ PlainUris(t.uris)

TaskText(t, first) == (IF first THEN <<>> ELSE <<Blank>>) \o TaskLines(t)

LEMMA TaskTextType ==
  ASSUME NEW t \in Tasks, NEW first
  PROVE  TaskLines(t) \in Seq(Lines) /\ TaskText(t, first) \in Seq(Lines)
         /\ TaskText(t, TRUE) = TaskLines(t) /\ TaskText(t, FALSE) = <<Blank>> \o TaskLines(t)
<1>1. t.uris \in Seq(Uris) /\ t.options \in Seq(Options)
  BY DEF Tasks
<1>2. UriText(t.uris) \in Seq(Lines) /\ OptionText(t.options) \in Seq(Lines)
  BY <1>1, TextTypes
<1>3. TaskLines(t) = UriText(t.uris) \o OptionText(t.options)
  BY DEF TaskLines, UriText, OptionText
<1>4. TaskLines(t) \in Seq(Lines)
  BY <1>2, <1>3, ConcatProperties
<1>5. <<Blank>> \in Seq(Lines)
  BY DEF Lines
<1>6. TaskText(t, TRUE) = TaskLines(t)
  BY <1>4, ConcatEmptySeq DEF TaskText
<1>7. TaskText(t, FALSE) = <<Blank>> \o TaskLines(t) /\ TaskText(t, FALSE) \in Seq(Lines)
  BY <1>4, <1>5, ConcatProperties DEF TaskText
<1>8. TaskText(t, first) \in {TaskText(t, TRUE), TaskText(t, FALSE)}
  BY DEF TaskText
<1>9. QED BY <1>4, <1>6, <1>7, <1>8

LEMMA SessionTextAppend ==
  ASSUME NEW ts \in Seq(Tasks), NEW t \in Tasks
  PROVE  /\ SessionText(ts) \in Seq(Lines)
         /\ SessionText(Append(ts, t)) = SessionText(ts) \o TaskText(t, ts = <<>>)
<1> DEFINE ss == [n \in DOMAIN ts |-> TaskText(ts[n], ~ (n > 1))]
           longer == [n \in DOMAIN Append(ts, t) |-> TaskText(Append(ts, t)[n], ~ (n > 1))]
           last == TaskText(t, ts = <<>>)
<1>1. last \in Seq(Lines)
  BY TaskTextType
<1>2. \A n \in DOMAIN ts : TaskText(ts[n], ~ (n > 1)) \in Seq(Lines)
  <2>1. \A n \in DOMAIN ts : ts[n] \in Tasks
    OBVIOUS
  <2>2. QED BY <2>1, TaskTextType
<1>3. ss \in Seq(Seq(Lines)) /\ Len(ss) = Len(ts)
  <2>1. ss \in [1..Len(ts) -> Seq(Lines)] /\ Len(ts) \in Nat
    BY <1>2
  <2>2. QED BY <2>1
<1>4. longer = Append(ss, last)
  <2>1. Len(Append(ts, t)) = Len(ts) + 1 /\ DOMAIN Append(ts, t) = 1..(Len(ts) + 1) /\ Len(ts) \in Nat
    OBVIOUS
  <2>2. Append(ss, last) \in Seq(Seq(Lines)) /\ Len(Append(ss, last)) = Len(ts) + 1
    <3> HIDE DEF ss, last
    <3>1. QED BY <1>1, <1>3
  <2>3. ASSUME NEW i \in 1..(Len(ts) + 1)  PROVE TaskText(Append(ts, t)[i], ~ (i > 1)) = Append(ss, last)[i]
    <3>1. CASE i = Len(ts) + 1
      <4>1. Append(ts, t)[i] = t /\ (i > 1 <=> ts # <<>>)
        BY <2>1, <3>1
      <4>2. Append(ss, last)[i] = last
        <5> HIDE DEF ss, last
        <5>1. QED BY <1>1, <1>3, <3>1
      <4>3. QED BY <4>1, <4>2
    <3>2. CASE i \in 1..Len(ts)
      <4>1. Append(ts, t)[i] = ts[i] /\ ss[i] = TaskText(ts[i], ~ (i > 1))
        BY <3>2
      <4>2. Append(ss, last)[i] = ss[i]
        <5> HIDE DEF ss, last
        <5>1. QED BY <1>1, <1>3, <3>2
      <4>3. QED BY <4>1, <4>2
    <3>3. QED BY <2>1, <3>1, <3>2
  <2>4. Append(ss, last) = [i \in 1..(Len(ts) + 1) |-> Append(ss, last)[i]]
    <3> DEFINE d == Append(ss, last)
    <3>1. d \in Seq(Seq(Lines)) /\ Len(d) = Len(ts) + 1
      BY <2>2
    <3> HIDE DEF d
    <3>2. d = [i \in 1..(Len(ts) + 1) |-> d[i]]
      BY <3>1
    <3>3. QED BY <3>2 DEF d
  <2>5. longer = [i \in 1..(Len(ts) + 1) |-> TaskText(Append(ts, t)[i], ~ (i > 1))]
    BY <2>1
  <2> HIDE DEF ss, last, longer
  <2>6. QED BY <2>3, <2>4, <2>5
<1>5. SessionText(ts) = FlattenSeq(ss) /\ SessionText(Append(ts, t)) = FlattenSeq(longer)
  <2>1. \A n, x : TaskText(x, ~ (n > 1)) = (IF n > 1 THEN <<Blank>> ELSE <<>>) \o TaskLines(x)
    BY DEF TaskText
  <2> HIDE DEF TaskText
  <2>2. QED BY <2>1 DEF SessionText
<1>6. FlattenSeq(ss) \in Seq(Lines) /\ FlattenSeq(Append(ss, last)) = FlattenSeq(ss) \o last
  <2> HIDE DEF ss, last
  <2>1. QED BY <1>1, <1>3, FlattenType, FlattenAppend
<1> HIDE DEF ss, longer
<1>7. QED BY <1>4, <1>5, <1>6

LEMMA FlushTask ==
  ASSUME NEW ts, NEW t, t.uris # <<>>
  PROVE  Flush([ok |-> TRUE, tasks |-> ts, current |-> t]) =
           [ok |-> TRUE, tasks |-> Append(ts, t), current |-> NoTask]
  BY DEF Flush

\* A session but for its last task is read, and its last task is not done with.
LEMMA ReadSession ==
  \A ts \in Seq(Tasks), t \in Tasks :
    Kept(t) /\ (\A n \in DOMAIN ts : Kept(ts[n])) =>
      Parser(SessionText(Append(ts, t))) = [ok |-> TRUE, tasks |-> ts, current |-> t]
<1> DEFINE Reads(ts, t) ==
             Kept(t) /\ (\A n \in DOMAIN ts : Kept(ts[n])) =>
               Parser(SessionText(Append(ts, t))) = [ok |-> TRUE, tasks |-> ts, current |-> t]
           T == {n \in Nat : \A ts \in Seq(Tasks), t \in Tasks : Len(ts) = n => Reads(ts, t)}
<1>1. ASSUME NEW ts \in Seq(Tasks), NEW t \in Tasks, ts = <<>>, Kept(t)
      PROVE  Parser(SessionText(Append(ts, t))) = [ok |-> TRUE, tasks |-> ts, current |-> t]
  <2>1. SessionText(ts) = <<>>
    BY <1>1, FlattenEmpty DEF SessionText
  <2>2. SessionText(Append(ts, t)) = <<>> \o TaskLines(t)
    BY <1>1, <2>1, SessionTextAppend, TaskTextType
  <2>3. <<>> \in Seq(Lines) /\ Parser(<<>>) = Begin
    BY ParserEmpty
  <2>4. Parser(<<>>).ok = TRUE /\ Parser(<<>>).tasks = <<>> /\ Parser(<<>>).current = NoTask
    BY <2>3 DEF Begin
  <2>5. Parser(<<>> \o TaskLines(t)) =
          [ok |-> Parser(<<>>).ok, tasks |-> Parser(<<>>).tasks, current |-> t]
    BY <1>1, <2>3, <2>4, ReadTask DEF Kept
  <2>6. QED BY <1>1, <2>2, <2>4, <2>5
<1>2. 0 \in T
  <2>1. ASSUME NEW ts \in Seq(Tasks), NEW t \in Tasks, Len(ts) = 0  PROVE Reads(ts, t)
    <3>1. ts = <<>>
      BY <2>1
    <3>2. QED BY <1>1, <3>1
  <2> HIDE DEF Reads
  <2>2. QED BY <2>1
<1>3. ASSUME NEW n \in Nat, n \in T  PROVE n + 1 \in T
  <2>1. ASSUME NEW ts \in Seq(Tasks), NEW t \in Tasks, Len(ts) = n + 1,
               Kept(t), \A i \in DOMAIN ts : Kept(ts[i])
        PROVE  Parser(SessionText(Append(ts, t))) = [ok |-> TRUE, tasks |-> ts, current |-> t]
    <3>1. PICK rs \in Seq(Tasks), r \in Tasks : ts = Append(rs, r)
      <4>1. ts # <<>>
        BY <2>1
      <4>2. QED BY <4>1, SequenceEmptyOrAppend
    <3>2. Len(rs) = n /\ Kept(r) /\ \A i \in DOMAIN rs : Kept(rs[i])
      <4>1. Len(rs) = n
        <5>1. Len(rs) \in Nat /\ Len(ts) = Len(rs) + 1
          BY <3>1
        <5>2. QED BY <2>1, <5>1
      <4>2. n + 1 \in DOMAIN ts /\ ts[n + 1] = r
        BY <3>1, <4>1
      <4>3. \A i \in DOMAIN rs : i \in DOMAIN ts /\ ts[i] = rs[i]
        BY <3>1
      <4>4. QED BY <2>1, <4>1, <4>2, <4>3
    <3>3. Parser(SessionText(ts)) = [ok |-> TRUE, tasks |-> rs, current |-> r]
      <4>1. Reads(rs, r)
        <5> HIDE DEF Reads
        <5>1. QED BY <1>3, <3>2
      <4>2. QED BY <3>1, <3>2, <4>1
    <3> DEFINE text == SessionText(ts) \o <<Blank>>
    <3>4. SessionText(ts) \in Seq(Lines) /\ TaskLines(t) \in Seq(Lines) /\ Blank \in Lines
      BY SessionTextAppend, TaskTextType DEF Lines
    <3>5. text = Append(SessionText(ts), Blank) /\ text \in Seq(Lines) /\ <<Blank>> \in Seq(Lines)
      BY <3>4, ConcatAppend
    <3>6. Parser(text) = Flush(Parser(SessionText(ts)))
      <4>1. Parser(text) = ParseLine(Parser(SessionText(ts)), Blank)
        BY <3>4, <3>5, ParserAppend
      <4>2. QED BY <4>1, ParseOther
    <3>7. Flush(Parser(SessionText(ts))) = [ok |-> TRUE, tasks |-> ts, current |-> NoTask]
      <4>1. r.uris # <<>>
        BY <3>2 DEF Kept
      <4>2. QED BY <3>1, <3>3, <4>1, FlushTask
    <3>8. SessionText(Append(ts, t)) = text \o TaskLines(t)
      <4>1. ts # <<>>
        BY <2>1
      <4>2. SessionText(Append(ts, t)) = SessionText(ts) \o (<<Blank>> \o TaskLines(t))
        BY <4>1, SessionTextAppend, TaskTextType
      <4>3. QED BY <3>4, <3>5, <4>2, ConcatAssociative
    <3> HIDE DEF text
    <3>9. Parser(text).ok = TRUE /\ Parser(text).tasks = ts /\ Parser(text).current = NoTask
      BY <3>6, <3>7
    <3>10. Parser(text \o TaskLines(t)) =
             [ok |-> Parser(text).ok, tasks |-> Parser(text).tasks, current |-> t]
      BY <2>1, <3>5, <3>9, ReadTask DEF Kept
    <3>11. QED BY <3>8, <3>9, <3>10
  <2>2. \A ts \in Seq(Tasks), t \in Tasks : Len(ts) = n + 1 => Reads(ts, t)
    BY <2>1
  <2> HIDE DEF Reads
  <2>3. QED BY <2>2
<1>4. \A n \in Nat : n \in T
  <2> HIDE DEF T
  <2>1. QED BY <1>2, <1>3, SetInduction
<1>5. ASSUME NEW ts \in Seq(Tasks), NEW t \in Tasks  PROVE Reads(ts, t)
  <2>1. Len(ts) \in T
    <3> HIDE DEF T
    <3>1. QED BY <1>4
  <2> HIDE DEF Reads
  <2>2. QED BY <2>1
<1>6. QED BY <1>5

\* A session whose URIs can be read back reads as the tasks it was made of.
LEMMA SessionReads ==
  ASSUME NEW ts \in Seq(Tasks), \A n \in DOMAIN ts : Kept(ts[n])
  PROVE  /\ ParseInput(SessionText(ts)) = [ok |-> TRUE, tasks |-> ts, current |-> NoTask]
         /\ Parser(SessionText(ts)).ok
         /\ ts # <<>> => /\ Len(Parser(SessionText(ts)).tasks) = Len(ts) - 1
                         /\ \A i \in 1..(Len(ts) - 1) : Parser(SessionText(ts)).tasks[i] = ts[i]
         /\ ts = <<>> => SessionText(ts) = <<>>
<1>1. CASE ts = <<>>
  <2>1. SessionText(ts) = <<>>
    BY <1>1, FlattenEmpty DEF SessionText
  <2>2. Parser(SessionText(ts)) = Begin
    BY <2>1, ParserEmpty
  <2>3. Flush(Begin) = Begin
    BY DEF Flush, Begin, NoTask
  <2>4. ParseInput(SessionText(ts)) = Begin
    BY <2>2, <2>3 DEF ParseInput
  <2>5. QED BY <1>1, <2>1, <2>2, <2>4 DEF Begin
<1>2. CASE ts # <<>>
  <2>1. PICK front \in Seq(Tasks), t \in Tasks : ts = Append(front, t)
    BY <1>2, SequenceEmptyOrAppend
  <2>2. Len(front) \in Nat /\ Len(ts) = Len(front) + 1 /\ ts[Len(front) + 1] = t
        /\ \A n \in DOMAIN front : n \in DOMAIN ts /\ ts[n] = front[n]
    BY <2>1
  <2>3. Kept(t) /\ \A n \in DOMAIN front : Kept(front[n])
    <3>1. Len(front) + 1 \in DOMAIN ts
      BY <2>2
    <3>2. QED BY <2>2, <3>1
  <2>4. Parser(SessionText(ts)) = [ok |-> TRUE, tasks |-> front, current |-> t]
    BY <2>1, <2>3, ReadSession
  <2>5. ParseInput(SessionText(ts)) = [ok |-> TRUE, tasks |-> ts, current |-> NoTask]
    BY <2>1, <2>3, <2>4, FlushTask DEF ParseInput, Kept
  <2>6. Parser(SessionText(ts)).ok /\ Parser(SessionText(ts)).tasks = front
    BY <2>4
  <2>7. Len(front) = Len(ts) - 1
    BY <2>2
  <2>8. \A i \in 1..(Len(ts) - 1) : Parser(SessionText(ts)).tasks[i] = ts[i]
    BY <2>2, <2>6, <2>7
  <2>9. QED BY <1>2, <2>5, <2>6, <2>7, <2>8
<1>3. QED BY <1>1, <1>2

-----------------------------------------------------------------------------
(* What a session that was cut off reads as *)

\* q has the tasks of p and at most one more.
OneMore(p, q) ==
  /\ Len(q.tasks) \in {Len(p.tasks), Len(p.tasks) + 1}
  /\ \A i \in 1..Len(p.tasks) : q.tasks[i] = p.tasks[i]

LEMMA FlushOneMore ==
  ASSUME NEW p \in Parsers, NEW q \in Parsers, q.tasks = p.tasks
  PROVE  OneMore(p, Flush(q)) /\ Flush(q).ok = q.ok
<1>1. q.tasks \in Seq(Tasks) /\ q.current \in Tasks
  BY DEF Parsers
<1>2. Flush(q).tasks \in {q.tasks, Append(q.tasks, q.current)} /\ Flush(q).ok = q.ok
  BY DEF Flush, Parsers
<1>3. Len(Append(q.tasks, q.current)) = Len(q.tasks) + 1
      /\ \A i \in 1..Len(q.tasks) : Append(q.tasks, q.current)[i] = q.tasks[i]
  BY <1>1
<1>4. QED BY <1>2, <1>3 DEF OneMore

LEMMA FlushTwice == ASSUME NEW p \in Parsers  PROVE Flush(Flush(p)) = Flush(p)
<1>1. CASE p.current.uris = <<>>
  BY <1>1 DEF Flush
<1>2. CASE p.current.uris # <<>>
  <2>1. Flush(p) = [ok |-> p.ok, tasks |-> Append(p.tasks, p.current), current |-> NoTask]
    BY <1>2 DEF Flush, Parsers
  <2>2. Flush(p).current.uris = <<>>
    BY <2>1 DEF NoTask
  <2>3. QED BY <2>2 DEF Flush
<1>3. QED BY <1>1, <1>2

LEMMA CutsType ==
  ASSUME NEW line \in Lines, NEW cut \in Cuts(line)
  PROVE  \/ cut = UriLine(ShortUri) \/ cut = Blank \/ cut = Indented
         \/ \E o \in Options, v \in Values :
              line = OptionLine(o) /\ <<o[1], v>> \in Options /\ cut = OptionLine(<<o[1], v>>)
<1>1. ASSUME NEW u \in Uris, line[1] = "uri"  PROVE cut = UriLine(ShortUri)
  BY <1>1 DEF Cuts
<1>2. ASSUME NEW o \in Options, line = OptionLine(o), line[1] = "option", <<line[2], line[3]>> = o
      PROVE  \/ cut = Blank \/ cut = Indented
             \/ \E v \in Values : <<o[1], v>> \in Options /\ cut = OptionLine(<<o[1], v>>)
  <2>1. cut \in {Blank, Indented, OptionLine(<<line[2], ShortValue>>)}
    BY <1>2 DEF Cuts
  <2>2. o[1] = line[2]
    BY <1>2
  <2>3. <<o[1], ShortValue>> \in Options /\ ShortValue \in Values
    BY TextsAssumption DEF Options
  <2>4. cut = OptionLine(<<line[2], ShortValue>>) => cut = OptionLine(<<o[1], ShortValue>>)
    BY <2>2
  <2> HIDE DEF OptionLine, Blank, Indented
  <2>5. QED BY <2>1, <2>3, <2>4
<1>3. ASSUME line[1] = "blank"  PROVE FALSE
  BY <1>3 DEF Cuts
<1>4. ASSUME line[1] = "indented"  PROVE cut = Blank \/ cut = Indented
  BY <1>4 DEF Cuts
<1>5. QED BY <1>1, <1>2, <1>3, <1>4, LineCases

LEMMA CutLine ==
  ASSUME NEW line \in Lines, NEW cut \in Cuts(line)  PROVE cut \in Lines
<1>1. /\ \A u \in Uris : UriLine(u) \in Lines
      /\ \A o \in Options : OptionLine(o) \in Lines
      /\ Blank \in Lines /\ Indented \in Lines
  <2> HIDE DEF UriLine, OptionLine, Blank, Indented
  <2>1. QED BY DEF Lines
<1>2. ShortUri \in Uris
  BY TextsAssumption
<1>3. ASSUME NEW o \in Options, NEW v \in Values,
             <<o[1], v>> \in Options, cut = OptionLine(<<o[1], v>>)
      PROVE  cut \in Lines
  BY <1>1, <1>3
<1>4. \/ cut = UriLine(ShortUri) \/ cut = Blank \/ cut = Indented
      \/ \E o \in Options, v \in Values :
           line = OptionLine(o) /\ <<o[1], v>> \in Options /\ cut = OptionLine(<<o[1], v>>)
  BY CutsType
<1>5. QED BY <1>1, <1>2, <1>3, <1>4, Zenon

\* What was begun of a line adds one task at most, and what is read stays readable unless it
\* is half an option.
LEMMA CutReads ==
  ASSUME NEW text \in Seq(Lines), NEW line \in Lines, NEW cut \in Cuts(line),
         Parser(Append(text, line)).ok
  PROVE  /\ OneMore(Parser(text), ParseInput(Append(text, cut)))
         /\ ParseInput(Append(text, cut)).ok \/ cut = Indented
<1> DEFINE p == Parser(text)
           q == ParseLine(p, cut)
<1>1. p \in Parsers /\ cut \in Lines
  BY CutLine, ParserType
<1>2. ParseInput(Append(text, cut)) = Flush(q) /\ q \in Parsers
  BY <1>1, ParserAppend, ParseLineType DEF ParseInput
<1>3. p.ok
  <2>1. Parser(Append(text, line)) = ParseLine(p, line)
    BY ParserAppend
  <2>2. After(p, ParseLine(p, line))
    BY <1>1, ParseLineOn
  <2>3. QED BY <2>1, <2>2 DEF After
<1>4. CASE cut = UriLine(ShortUri)
  <2>1. q = WithUri(p, ShortUri)
    BY <1>1, <1>4, ParseUri, TextsAssumption
  <2>2. q.ok = p.ok /\ q.tasks = p.tasks
    BY <2>1 DEF WithUri
  <2> HIDE DEF p, q
  <2>3. QED BY <1>1, <1>2, <1>3, <2>2, FlushOneMore DEF p
<1>5. CASE cut = Blank
  <2>1. Flush(q) = Flush(p)
    BY <1>1, <1>5, ParseOther, FlushTwice
  <2> HIDE DEF p, q
  <2>2. QED BY <1>1, <1>2, <1>3, <2>1, FlushOneMore DEF p
<1>6. CASE cut = Indented
  <2>1. q = [p EXCEPT !.ok = FALSE]
    BY <1>6, ParseOther
  <2>2. q.tasks = p.tasks
    BY <1>1, <2>1 DEF Parsers
  <2> HIDE DEF p, q
  <2>3. QED BY <1>1, <1>2, <1>6, <2>2, FlushOneMore DEF p
<1>7. ASSUME NEW o \in Options, NEW v \in Values, line = OptionLine(o),
             <<o[1], v>> \in Options, cut = OptionLine(<<o[1], v>>)
      PROVE  OneMore(p, Flush(q)) /\ Flush(q).ok
  <2>1. p.current # NoTask
    <3>1. SUFFICES ASSUME p.current = NoTask  PROVE FALSE
      OBVIOUS
    <3>2. Parser(Append(text, line)) = [p EXCEPT !.ok = FALSE]
      BY <1>1, <1>7, <3>1, ParserAppend, ParseOption
    <3>3. [p EXCEPT !.ok = FALSE].ok = FALSE
      BY <1>1 DEF Parsers
    <3>4. QED BY <3>2, <3>3
  <2>2. q = WithOption(p, <<o[1], v>>)
    BY <1>1, <1>7, <2>1, ParseOption
  <2>3. q.ok = p.ok /\ q.tasks = p.tasks
    BY <2>2 DEF WithOption
  <2> HIDE DEF p, q
  <2>4. QED BY <1>1, <1>2, <1>3, <2>3, FlushOneMore
<1> HIDE DEF q
<1>8. QED BY <1>2, <1>4, <1>5, <1>6, <1>7, CutsType

\* The first lines of a session, or these and what was begun of the next one.
Prefix(text, ts) ==
  \E k \in 0..Len(SessionText(ts)) : text = SubSeq(SessionText(ts), 1, k)
Cut(text, ts) ==
  \E k \in 0..(Len(SessionText(ts)) - 1) :
    \E line \in Cuts(SessionText(ts)[k + 1]) : text = Append(SubSeq(SessionText(ts), 1, k), line)

LEMMA SessionTextType ==
  ASSUME NEW ts \in Seq(Tasks)  PROVE SessionText(ts) \in Seq(Lines)
<1>1. PICK t : t \in Tasks
  BY BeginType DEF Begin, Parsers
<1>2. QED BY <1>1, SessionTextAppend

LEMMA OneMoreFront ==
  ASSUME NEW ts \in Seq(Tasks), ts # <<>>, NEW p \in Parsers, NEW q \in Parsers, NEW r \in Parsers,
         Len(r.tasks) = Len(ts) - 1, \A i \in 1..(Len(ts) - 1) : r.tasks[i] = ts[i],
         After(p, r), OneMore(p, q)
  PROVE  /\ Len(q.tasks) <= Len(ts)
         /\ SubSeq(q.tasks, 1, Len(q.tasks) - 1) = SubSeq(ts, 1, Len(q.tasks) - 1)
<1>1. p.tasks \in Seq(Tasks) /\ q.tasks \in Seq(Tasks) /\ r.tasks \in Seq(Tasks)
  BY DEF Parsers
<1>2. /\ Len(p.tasks) \in Nat /\ Len(q.tasks) \in Nat /\ Len(ts) \in Nat
      /\ Len(p.tasks) <= Len(ts) - 1 /\ Len(q.tasks) <= Len(p.tasks) + 1
  BY <1>1 DEF After, OneMore
<1>3. ASSUME NEW i \in 1..(Len(q.tasks) - 1)  PROVE q.tasks[i] = ts[i]
  <2>1. i \in 1..Len(p.tasks) /\ i \in 1..(Len(ts) - 1)
    BY <1>2
  <2>2. QED BY <2>1 DEF After, OneMore
<1>4. /\ SubSeq(q.tasks, 1, Len(q.tasks) - 1) = [i \in 1..(Len(q.tasks) - 1) |-> q.tasks[i]]
      /\ SubSeq(ts, 1, Len(q.tasks) - 1) = [i \in 1..(Len(q.tasks) - 1) |-> ts[i]]
  <2> DEFINE n == Len(q.tasks) - 1
  <2>1. n \in Int
    BY <1>2
  <2> HIDE DEF n
  <2>2. \A s : SubSeq(s, 1, n) = [i \in 1..n |-> s[i]]
    BY <2>1
  <2>3. QED BY <2>2 DEF n
<1>5. QED BY <1>2, <1>3, <1>4

\* A session of which the end is missing reads as its first tasks, the last of which may
\* be cut off, too.
LEMMA CutFront ==
  ASSUME NEW ts \in Seq(Tasks), \A n \in DOMAIN ts : Kept(ts[n]),
         NEW text, Prefix(text, ts) \/ Cut(text, ts)
  PROVE  LET p == ParseInput(text)
             n == Len(p.tasks)
         IN  /\ n <= Len(ts)
             /\ SubSeq(p.tasks, 1, n - 1) = SubSeq(ts, 1, n - 1)
             /\ p.ok \/ Last(text) = Indented
<1> DEFINE full == SessionText(ts)
           p == ParseInput(text)
<1>1. full \in Seq(Lines) /\ Len(full) \in Nat
  BY SessionTextType
<1>2. /\ Parser(full).ok /\ Parser(full) \in Parsers
      /\ ts # <<>> => /\ Len(Parser(full).tasks) = Len(ts) - 1
                      /\ \A i \in 1..(Len(ts) - 1) : Parser(full).tasks[i] = ts[i]
      /\ ts = <<>> => full = <<>>
  BY <1>1, SessionReads, ParserType
<1>3. ASSUME NEW k \in 0..Len(full), NEW q \in Parsers, OneMore(Parser(SubSeq(full, 1, k)), q), ts # <<>>
      PROVE  /\ Len(q.tasks) <= Len(ts)
             /\ SubSeq(q.tasks, 1, Len(q.tasks) - 1) = SubSeq(ts, 1, Len(q.tasks) - 1)
  <2> DEFINE before == SubSeq(full, 1, k)
  <2>1. before \in Seq(Lines)
    <3> HIDE DEF full
    <3>1. QED BY <1>1
  <2>2. Parser(before) \in Parsers
    BY <2>1, ParserType
  <2> HIDE DEF full
  <2>3. After(Parser(before), Parser(full))
    BY <1>1, ParserOn
  <2> HIDE DEF before
  <2>4. QED BY <1>2, <1>3, <2>2, <2>3, OneMoreFront DEF before
<1>4. ASSUME NEW k \in 0..Len(full), text = SubSeq(full, 1, k)
      PROVE  p \in Parsers /\ OneMore(Parser(SubSeq(full, 1, k)), p) /\ p.ok
  <2> HIDE DEF full
  <2>1. text \in Seq(Lines)
    BY <1>1, <1>4
  <2>2. Parser(text) \in Parsers
    BY <2>1, ParserType
  <2>3. OneMore(Parser(text), p) /\ p.ok = Parser(text).ok /\ p \in Parsers
    BY <2>2, FlushOneMore, FlushType DEF ParseInput
  <2>4. After(Parser(text), Parser(full))
    BY <1>1, <1>4, ParserOn
  <2>5. Parser(text).ok
    BY <1>2, <2>4 DEF After
  <2>6. QED BY <1>4, <2>3, <2>5
<1>5. ASSUME NEW k \in 0..(Len(full) - 1), NEW cut \in Cuts(full[k + 1]),
             text = Append(SubSeq(full, 1, k), cut)
      PROVE  /\ k \in 0..Len(full) /\ p \in Parsers /\ OneMore(Parser(SubSeq(full, 1, k)), p)
             /\ p.ok \/ Last(text) = Indented
  <2> DEFINE before == SubSeq(full, 1, k)
             line == full[k + 1]
  <2> HIDE DEF full
  <2>1. /\ before \in Seq(Lines) /\ line \in Lines /\ Len(before) = k
        /\ k \in 0..Len(full) /\ k + 1 \in 0..Len(full)
    BY <1>1, <1>5
  <2>2. SubSeq(full, 1, k + 1) = Append(before, line)
    BY <1>1, <1>5, <2>1
  <2>3. Parser(Append(before, line)).ok
    <3>1. After(Parser(SubSeq(full, 1, k + 1)), Parser(full))
      BY <1>1, <2>1, ParserOn
    <3>2. Parser(SubSeq(full, 1, k + 1)).ok
      BY <1>2, <3>1 DEF After
    <3>3. QED BY <2>2, <3>2
  <2>4. cut \in Lines
    BY <1>5, <2>1, CutLine
  <2>5. Last(Append(before, cut)) = cut /\ Append(before, cut) \in Seq(Lines)
    <3> HIDE DEF before
    <3>1. QED BY <2>1, <2>4 DEF Last
  <2>6. Parser(text) \in Parsers
    BY <1>5, <2>5, ParserType
  <2>7. p \in Parsers
    BY <2>6, FlushType DEF ParseInput
  <2>8. OneMore(Parser(before), p) /\ (p.ok \/ cut = Indented)
    <3> HIDE DEF before, line
    <3>1. cut \in Cuts(line)
      BY <1>5 DEF line
    <3>2. QED BY <1>5, <2>1, <2>3, <3>1, CutReads DEF before
  <2>9. QED BY <1>5, <2>1, <2>5, <2>7, <2>8
<1>6. CASE ts = <<>>
  <2>1. full = <<>> /\ Len(full) = 0
    BY <1>2, <1>6
  <2>2. text = <<>>
    <3>1. ~ Cut(text, ts)
      BY <2>1 DEF Cut
    <3>2. PICK k \in 0..Len(full) : text = SubSeq(full, 1, k)
      BY <3>1 DEF Prefix
    <3>3. k = 0
      BY <2>1, <3>2
    <3>4. QED BY <2>1, <3>2, <3>3
  <2>3. p = [ok |-> TRUE, tasks |-> ts, current |-> NoTask]
    BY <1>6, <2>1, <2>2, SessionReads
  <2>4. p.tasks = ts /\ p.ok /\ Len(ts) \in Nat
    BY <2>3
  <2>5. QED BY <2>4
<1>7. CASE ts # <<>>
  <2>1. CASE Prefix(text, ts)
    <3>1. PICK k \in 0..Len(full) : text = SubSeq(full, 1, k)
      BY <2>1 DEF Prefix
    <3>2. p \in Parsers /\ OneMore(Parser(SubSeq(full, 1, k)), p) /\ p.ok
      BY <1>4, <3>1
    <3> HIDE DEF p, full
    <3>3. Len(p.tasks) <= Len(ts) /\ SubSeq(p.tasks, 1, Len(p.tasks) - 1) = SubSeq(ts, 1, Len(p.tasks) - 1)
      BY <1>3, <1>7, <3>1, <3>2
    <3>4. QED BY <3>2, <3>3 DEF p
  <2>2. CASE Cut(text, ts)
    <3>0. PICK k \in 0..(Len(full) - 1) :
            \E cut \in Cuts(full[k + 1]) : text = Append(SubSeq(full, 1, k), cut)
      BY <2>2 DEF Cut
    <3>1. PICK cut \in Cuts(full[k + 1]) : text = Append(SubSeq(full, 1, k), cut)
      BY <3>0
    <3>2. /\ k \in 0..Len(full) /\ p \in Parsers /\ OneMore(Parser(SubSeq(full, 1, k)), p)
          /\ p.ok \/ Last(text) = Indented
      BY <1>5, <3>1
    <3> HIDE DEF p, full
    <3>3. Len(p.tasks) <= Len(ts) /\ SubSeq(p.tasks, 1, Len(p.tasks) - 1) = SubSeq(ts, 1, Len(p.tasks) - 1)
      BY <1>3, <1>7, <3>2
    <3>4. QED BY <3>2, <3>3 DEF p
  <2>3. QED BY <2>1, <2>2
<1>8. QED BY <1>6, <1>7

-----------------------------------------------------------------------------
(* What is read are tasks that have URIs *)

Real(ts) == \A n \in DOMAIN ts : ts[n].uris # <<>>

LEMMA FlushReal ==
  ASSUME NEW p \in Parsers, Real(p.tasks)  PROVE Real(Flush(p).tasks)
<1>1. p.tasks \in Seq(Tasks) /\ p.current \in Tasks
  BY DEF Parsers
<1>2. CASE p.current.uris = <<>>
  BY <1>2 DEF Flush
<1>3. CASE p.current.uris # <<>>
  <2>1. Flush(p).tasks = Append(p.tasks, p.current)
    BY <1>3 DEF Flush, Parsers
  <2>2. Real(Append(p.tasks, p.current))
    BY <1>1, <1>3 DEF Real
  <2>3. QED BY <2>1, <2>2
<1>4. QED BY <1>2, <1>3

LEMMA ParseLineReal ==
  ASSUME NEW p \in Parsers, NEW line \in Lines, Real(p.tasks)
  PROVE  Real(ParseLine(p, line).tasks)
<1>1. ASSUME NEW u \in Uris, line = UriLine(u)  PROVE ParseLine(p, line).tasks = p.tasks
  BY <1>1, ParseUri DEF WithUri
<1>2. ASSUME NEW o \in Options, line = OptionLine(o)  PROVE ParseLine(p, line).tasks = p.tasks
  <2>1. CASE p.current # NoTask
    BY <1>2, <2>1, ParseOption DEF WithOption
  <2>2. CASE p.current = NoTask
    <3>1. ParseLine(p, line) = [p EXCEPT !.ok = FALSE]
      BY <1>2, <2>2, ParseOption
    <3>2. QED BY <3>1 DEF Parsers
  <2>3. QED BY <2>1, <2>2
<1>3. CASE line = Blank
  BY <1>3, ParseOther, FlushReal
<1>4. CASE line = Indented
  BY <1>4, ParseOther DEF Parsers
<1>5. QED BY <1>1, <1>2, <1>3, <1>4, LineCases

LEMMA ParsedReal ==
  ASSUME NEW text \in Seq(Lines)
  PROVE  ParseInput(text) \in Parsers /\ Real(ParseInput(text).tasks)
<1>1. PICK f : IsRun(f, text) /\ Parser(text) = f[Len(text)]
  BY ParserRun
<1> DEFINE T == {n \in Nat : n <= Len(text) => Real(f[n].tasks)}
<1>2. 0 \in T
  BY <1>1 DEF IsRun, Begin, Real
<1>3. ASSUME NEW n \in Nat, n \in T, n + 1 <= Len(text)  PROVE Real(f[n + 1].tasks)
  <2>1. n + 1 \in 1..Len(text) /\ n + 1 - 1 = n /\ n \in 0..Len(text)
    BY <1>3
  <2>2. f[n + 1] = ParseLine(f[n], text[n + 1]) /\ f[n] \in Parsers /\ text[n + 1] \in Lines
    BY <1>1, <2>1 DEF IsRun
  <2>3. Real(f[n].tasks)
    BY <1>3, <2>1
  <2>4. QED BY <2>2, <2>3, ParseLineReal
<1>4. \A n \in Nat : n \in T => n + 1 \in T
  BY <1>3
<1>5. Len(text) \in T
  <2>1. Len(text) \in Nat
    OBVIOUS
  <2> HIDE DEF T
  <2>2. QED BY <1>2, <1>4, <2>1, SetInduction
<1>6. Real(Parser(text).tasks)
  BY <1>1, <1>5
<1>7. QED BY <1>6, ParserType, FlushType, FlushReal DEF ParseInput

-----------------------------------------------------------------------------
(* The option that is chosen *)

LEMMA MaxExists ==
  \A m \in Nat : \A S \in SUBSET (1..m) :
    S # {} => Max(S) \in S /\ \A y \in S : Max(S) >= y
<1> DEFINE Has(S) == \E x \in S : \A y \in S : x >= y
           T == {m \in Nat : \A S \in SUBSET (1..m) : S # {} => Has(S)}
<1>1. 0 \in T
  <2>1. ASSUME NEW S \in SUBSET (1..0)  PROVE S = {}
    OBVIOUS
  <2> HIDE DEF Has
  <2>2. QED BY <2>1
<1>2. ASSUME NEW m \in Nat, m \in T, NEW S \in SUBSET (1..(m + 1)), S # {}  PROVE Has(S)
  <2>1. CASE m + 1 \in S
    <3>1. \A y \in S : m + 1 >= y
      OBVIOUS
    <3>2. QED BY <2>1, <3>1
  <2>2. CASE m + 1 \notin S
    <3>1. S \in SUBSET (1..m)
      BY <2>2
    <3> HIDE DEF Has
    <3>2. QED BY <1>2, <3>1
  <2>3. QED BY <2>1, <2>2
<1>3. \A m \in Nat : m \in T => m + 1 \in T
  <2> HIDE DEF Has
  <2>1. QED BY <1>2
<1>4. \A m \in Nat : m \in T
  <2> HIDE DEF T
  <2>1. QED BY <1>1, <1>3, SetInduction
<1>5. ASSUME NEW m \in Nat, NEW S \in SUBSET (1..m), S # {}
      PROVE  Max(S) \in S /\ \A y \in S : Max(S) >= y
  <2>1. Has(S)
    <3> HIDE DEF Has
    <3>1. QED BY <1>4, <1>5
  <2>2. QED BY <2>1 DEF Max
<1>6. QED BY <1>5

Own(options, key) == {n \in DOMAIN options : options[n][1] = key}

LEMMA ChosenType ==
  ASSUME NEW K, NEW options \in Seq(K \X Values), NEW key
  PROVE  /\ Own(options, key) = {} => Chosen(options, key) = None
         /\ Own(options, key) # {} =>
              /\ Max(Own(options, key)) \in Own(options, key)
              /\ \A n \in Own(options, key) : Max(Own(options, key)) >= n
              /\ Chosen(options, key) = options[Max(Own(options, key))][2]
              /\ Chosen(options, key) \in Values
         /\ Chosen(options, key) \in Values \cup {None}
<1> DEFINE own == Own(options, key)
<1>1. own \in SUBSET (1..Len(options)) /\ Len(options) \in Nat
  BY DEF Own
<1>2. Chosen(options, key) = IF own = {} THEN None ELSE options[Max(own)][2]
  BY DEF Chosen, Own
<1>3. own # {} => Max(own) \in own /\ \A n \in own : Max(own) >= n
  <2> HIDE DEF own
  <2>1. QED BY <1>1, MaxExists
<1>4. own # {} => options[Max(own)][2] \in Values
  <2> HIDE DEF own
  <2>1. \A n \in 1..Len(options) : options[n][2] \in Values
    OBVIOUS
  <2>2. QED BY <1>1, <1>3, <2>1
<1> HIDE DEF own
<1>5. QED BY <1>2, <1>3, <1>4 DEF own

\* A value that is given first is chosen if no other is.
LEMMA ChosenBehind ==
  ASSUME NEW options \in Seq(Options), NEW key, NEW v \in Values
  PROVE  LET given == << <<key, v>> >> \o options
         IN  /\ given \in Seq((Keys \cup {key}) \X Values)
             /\ Chosen(given, key) = IF Chosen(options, key) = None THEN v ELSE Chosen(options, key)
<1> DEFINE given == << <<key, v>> >> \o options
           K == Keys \cup {key}
           own == Own(options, key)
<1>1. options \in Seq(K \X Values)
  <2>1. Options \subseteq K \X Values
    BY DEF Options
  <2>2. QED BY <2>1
<1>2. given \in Seq(K \X Values) /\ Len(given) = Len(options) + 1 /\ Len(options) \in Nat
      /\ given[1] = <<key, v>> /\ \A n \in 1..Len(options) : given[n + 1] = options[n]
  <2>1. << <<key, v>> >> \in Seq(K \X Values)
    OBVIOUS
  <2> HIDE DEF K
  <2>2. QED BY <1>1, <2>1
<1> HIDE DEF given, K
<1>3. Own(given, key) = {1} \cup {n + 1 : n \in own}
  <2>1. DOMAIN given = 1..(Len(options) + 1) /\ DOMAIN options = 1..Len(options)
    BY <1>2
  <2>2. ASSUME NEW i \in Own(given, key)  PROVE i = 1 \/ (i - 1 \in own /\ i - 1 + 1 = i)
    <3>1. i \in 1..(Len(options) + 1) /\ given[i][1] = key
      BY <2>1 DEF Own
    <3>2. CASE i # 1
      <4>1. i - 1 \in 1..Len(options) /\ i - 1 + 1 = i
        BY <1>2, <3>1, <3>2
      <4>2. given[i] = options[i - 1]
        BY <1>2, <4>1
      <4>3. QED BY <2>1, <3>1, <4>1, <4>2 DEF Own
    <3>3. QED BY <3>2
  <2>3. ASSUME NEW n \in own  PROVE n + 1 \in Own(given, key)
    <3>1. n \in 1..Len(options) /\ options[n][1] = key
      BY <2>1 DEF Own
    <3>2. given[n + 1] = options[n] /\ n + 1 \in 1..(Len(options) + 1)
      BY <1>2, <3>1
    <3>3. QED BY <2>1, <3>1, <3>2 DEF Own
  <2>4. 1 \in Own(given, key)
    BY <1>2, <2>1 DEF Own
  <2> HIDE DEF own
  <2>5. QED BY <2>2, <2>3, <2>4
<1>4. Own(given, key) # {} /\ Chosen(given, key) = given[Max(Own(given, key))][2]
      /\ Max(Own(given, key)) \in Own(given, key)
      /\ \A n \in Own(given, key) : Max(Own(given, key)) >= n
  <2>1. 1 \in Own(given, key)
    BY <1>3
  <2>2. QED BY <1>2, <2>1, ChosenType
<1>5. CASE own = {}
  <2>1. Max(Own(given, key)) = 1
    BY <1>3, <1>4, <1>5
  <2>2. Chosen(given, key) = v
    BY <1>2, <1>4, <2>1
  <2>3. Chosen(options, key) = None
    BY <1>1, <1>5, ChosenType
  <2>4. QED BY <1>2, <2>2, <2>3 DEF given, K
<1>6. CASE own # {}
  <2>1. Max(own) \in own /\ (\A n \in own : Max(own) >= n)
        /\ Chosen(options, key) = options[Max(own)][2] /\ Chosen(options, key) \in Values
    BY <1>1, <1>6, ChosenType
  <2>2. own \subseteq 1..Len(options)
    BY DEF Own
  <2>3. Max(Own(given, key)) = Max(own) + 1
    <3> DEFINE a == Max(Own(given, key))
               b == Max(own)
    <3>1. a \in Own(given, key) /\ (\A n \in Own(given, key) : a >= n)
          /\ b \in own /\ (\A n \in own : b >= n)
      BY <1>4, <2>1
    <3> HIDE DEF a, b, own
    <3>2. a \in Int /\ b \in Nat /\ \A n \in own : n \in Nat
      BY <1>2, <1>3, <2>2, <3>1
    <3>3. a >= b + 1 /\ a <= b + 1
      <4>1. b + 1 \in Own(given, key)
        BY <1>3, <3>1
      <4>2. a >= b + 1
        BY <3>1, <4>1
      <4>3. a = 1 \/ \E n \in own : a = n + 1
        BY <1>3, <3>1
      <4>4. QED BY <3>1, <3>2, <4>2, <4>3
    <3>4. a = b + 1
      BY <3>2, <3>3
    <3>5. QED BY <3>4 DEF a, b
  <2>4. given[Max(own) + 1] = options[Max(own)]
    BY <1>2, <2>1, <2>2
  <2>5. Chosen(given, key) = Chosen(options, key)
    BY <1>4, <2>1, <2>3, <2>4
  <2>6. Chosen(options, key) # None
    BY <2>1, NoneAssumption
  <2>7. QED BY <1>2, <2>5, <2>6 DEF given, K
<1>7. QED BY <1>5, <1>6

-----------------------------------------------------------------------------
(* The invariant *)

\* What is read and written are texts, and every task of them has URIs.
SessionTypes ==
  /\ phase \in {"off", "load", "open", "write", "add", "run"}
  /\ command \in Commands \cup {None} /\ (phase # "off" => command \in Commands)
  /\ tasks \in Seq(Tasks) /\ Real(tasks)
  /\ saved \in Seq(Tasks) /\ Real(saved)
  /\ stored = None \/ stored \in Seq(Lines)
  /\ whole \in BOOLEAN

\* The file holds a session as far as it was written; a command that was to save one and
\* has come past it has written all of it.
SessionStored ==
  /\ stored = None \/ Prefix(stored, saved) \/ Cut(stored, saved)
  /\ whole => stored = SessionText(saved)
  /\ phase = "write" => saved = tasks /\ ~whole /\ Prefix(stored, saved)
  /\ phase \in {"add", "run"} /\ command.save => whole /\ saved = tasks

\* What a task is to the engine.
Engines == [uris : Seq(Uris), select : Values \cup {None}, split : Numbers \cup {None}]
Handed(e, t) ==
  LET own == Chosen(t.options, "split")
      split == IF own = None THEN command.split ELSE own
  IN  /\ e.uris = t.uris
      /\ e.split \in {split, None}
      /\ split \in Numbers => e.split = split

\* The engine has the first of the tasks, in a pass all of them.
SessionHanded ==
  /\ engine \in Seq(Engines) /\ Len(engine) <= Len(tasks)
  /\ engine # <<>> => phase \in {"add", "run"}
  /\ phase = "run" => Len(engine) = Len(tasks)
  /\ \A n \in DOMAIN engine : Handed(engine[n], tasks[n])

SessionInv == SessionTypes /\ SessionStored /\ SessionHanded

LEMMA OwnTaskType ==
  ASSUME command \in Commands  PROVE OwnTask \in Seq(Tasks) /\ Real(OwnTask)
<1>1. command.uris \in Seq(Uris)
  BY TextsAssumption DEF Commands
<1> DEFINE own == [NoTask EXCEPT !.uris = command.uris]
<1>2. own = [uris |-> command.uris, options |-> <<>>]
  BY DEF NoTask
<1>3. OwnTask = IF command.uris = <<>> THEN <<>> ELSE <<own>>
  BY DEF OwnTask
<1> HIDE DEF own
<1>4. own \in Tasks /\ own.uris = command.uris
  BY <1>1, <1>2 DEF Tasks
<1>5. QED BY <1>3, <1>4 DEF Real

\* How a session that is written grows.
LEMMA PrefixGrows ==
  ASSUME NEW ts \in Seq(Tasks), NEW text, Prefix(text, ts)
  PROVE  /\ text \in Seq(Lines)
         /\ text # SessionText(ts) =>
              LET line == SessionText(ts)[Len(text) + 1]
              IN  /\ line \in Lines
                  /\ Append(text, line) \in Seq(Lines) /\ Prefix(Append(text, line), ts)
                  /\ \A cut \in Cuts(line) :
                       Append(text, cut) \in Seq(Lines) /\ Cut(Append(text, cut), ts)
<1> DEFINE full == SessionText(ts)
           line == full[Len(text) + 1]
<1>1. full \in Seq(Lines) /\ Len(full) \in Nat
  BY SessionTextType
<1>2. PICK k \in 0..Len(full) : text = SubSeq(full, 1, k)
  BY DEF Prefix
<1> HIDE DEF full
<1>3. text \in Seq(Lines) /\ Len(text) = k
  BY <1>1, <1>2
<1>4. ASSUME text # full
      PROVE  k \in 0..(Len(full) - 1) /\ k + 1 \in 0..Len(full) /\ full[k + 1] \in Lines
  <2>1. k # Len(full)
    BY <1>1, <1>2, <1>4
  <2>2. QED BY <1>1, <2>1
<1>5. ASSUME text # full
      PROVE  Append(text, full[k + 1]) \in Seq(Lines) /\ Prefix(Append(text, full[k + 1]), ts)
  <2>1. Append(text, full[k + 1]) = SubSeq(full, 1, k + 1)
    BY <1>1, <1>2, <1>4, <1>5
  <2>2. QED BY <1>3, <1>4, <1>5, <2>1 DEF Prefix, full
<1>6. ASSUME text # full, NEW cut \in Cuts(full[k + 1])
      PROVE  Append(text, cut) \in Seq(Lines) /\ Cut(Append(text, cut), ts)
  <2>1. cut \in Lines
    BY <1>4, <1>6, CutLine
  <2>2. QED BY <1>2, <1>3, <1>4, <1>6, <2>1 DEF Cut, full
<1>7. QED BY <1>3, <1>4, <1>5, <1>6 DEF full

LEMMA InitInv == SessionInit => SessionInv
<1> SUFFICES ASSUME SessionInit  PROVE SessionInv
  OBVIOUS
<1>1. SessionTypes
  <2>1. <<>> \in Seq(Tasks) /\ Real(<<>>)
    BY DEF Real
  <2>2. QED BY <2>1 DEF SessionInit, SessionTypes
<1>2. SessionStored
  BY DEF SessionInit, SessionStored
<1>3. SessionHanded
  BY DEF SessionInit, SessionHanded
<1>4. QED BY <1>1, <1>2, <1>3 DEF SessionInv

\* What a step that reads a text, and goes on, has read.
LEMMA LoadReads ==
  ASSUME SessionTypes, phase = "load", NEW text,
         text \in CASE command.from = "file" -> InputFiles
                    [] command.from = "session" -> {stored}
                    [] OTHER -> {<<>>},
         text # None
  PROVE  /\ ParseInput(text).tasks \o OwnTask \in Seq(Tasks)
         /\ Real(ParseInput(text).tasks \o OwnTask)
<1>1. command \in Commands
  BY DEF SessionTypes
<1>2. text \in Seq(Lines)
  <2>1. CASE command.from = "file"
    BY <2>1, TextsAssumption
  <2>2. CASE command.from = "session"
    BY <2>2 DEF SessionTypes
  <2>3. CASE command.from # "file" /\ command.from # "session"
    <3>1. text \in {<<>>}
      BY <2>3
    <3>2. QED BY <3>1
  <2>4. QED BY <2>1, <2>2, <2>3
<1>3. ParseInput(text) \in Parsers /\ Real(ParseInput(text).tasks)
  BY <1>2, ParsedReal
<1> DEFINE read == ParseInput(text).tasks
<1>4. read \in Seq(Tasks) /\ Real(read)
  BY <1>3 DEF Parsers
<1>5. OwnTask \in Seq(Tasks) /\ Real(OwnTask)
  BY <1>1, OwnTaskType
<1> HIDE DEF read
<1>6. read \o OwnTask \in Seq(Tasks)
  BY <1>4, <1>5
<1>7. Real(read \o OwnTask)
  <2>1. SUFFICES ASSUME NEW n \in 1..(Len(read) + Len(OwnTask))  PROVE (read \o OwnTask)[n].uris # <<>>
    BY <1>4, <1>5 DEF Real
  <2>2. CASE n <= Len(read)
    BY <1>4, <1>5, <2>2 DEF Real
  <2>3. CASE n > Len(read)
    <3>1. n - Len(read) \in DOMAIN OwnTask /\ (read \o OwnTask)[n] = OwnTask[n - Len(read)]
      BY <1>4, <1>5, <2>3
    <3>2. QED BY <1>5, <3>1 DEF Real
  <2>4. QED BY <1>4, <2>2, <2>3
<1>8. QED BY <1>6, <1>7 DEF read

LEMMA LoadCases ==
  ASSUME SessionTypes, NEW text, Load(text)
  PROVE  /\ phase = "load" /\ UNCHANGED <<stored, saved, whole>>
         /\ \/ Exit
            \/ /\ tasks' \in Seq(Tasks) /\ Real(tasks') /\ UNCHANGED <<command, engine>>
               /\ phase' = IF command.save THEN "open" ELSE "add"
<1>1. phase = "load" /\ UNCHANGED <<stored, saved, whole>>
  BY DEF Load
<1>2. CASE text = None \/ ~ ParseInput(text).ok
  BY <1>1, <1>2 DEF Load
<1>3. CASE text # None /\ ParseInput(text).ok
  <2>1. /\ tasks' = ParseInput(text).tasks \o OwnTask /\ UNCHANGED <<command, engine>>
        /\ phase' = IF command.save THEN "open" ELSE "add"
    BY <1>3 DEF Load
  <2>2. text \in CASE command.from = "file" -> InputFiles
                   [] command.from = "session" -> {stored}
                   [] OTHER -> {<<>>}
    BY DEF Load
  <2>3. tasks' \in Seq(Tasks) /\ Real(tasks')
    BY <1>1, <1>3, <2>1, <2>2, LoadReads
  <2>4. QED BY <1>1, <2>1, <2>3
<1>4. QED BY <1>2, <1>3

LEMMA ExitTypes ==
  ASSUME SessionTypes, Exit, UNCHANGED <<saved, whole>>, stored' = None \/ stored' \in Seq(Lines)
  PROVE  SessionTypes'
<1>1. <<>> \in Seq(Tasks) /\ Real(<<>>)
  BY DEF Real
<1>2. QED BY <1>1 DEF Exit, SessionTypes, Real

LEMMA ExitHanded == ASSUME Exit  PROVE SessionHanded'
  BY DEF Exit, SessionHanded

\* The next task, when the engine takes it.
LEMMA AddUriHands ==
  ASSUME SessionInv, AddUri
  PROVE  /\ UNCHANGED <<stored, saved, whole>>
         /\ \/ Exit
            \/ UNCHANGED <<phase, command, tasks>> /\ SessionHanded'
<1> DEFINE t == tasks[Len(engine) + 1]
           given == GivenOptions(t)
           select == Chosen(given, "select-file")
           split == Chosen(given, "split")
           e == [uris |-> t.uris, select |-> select,
                 split |-> IF split \in Numbers THEN split ELSE None]
<1>1. UNCHANGED <<stored, saved, whole>> /\ phase = "add" /\ Len(engine) < Len(tasks)
  BY DEF AddUri
<1>2. ASSUME ~ Exit  PROVE UNCHANGED <<phase, command, tasks>> /\ engine' = Append(engine, e)
  BY <1>2, Zenon DEF AddUri
<1>3. /\ command \in Commands /\ tasks \in Seq(Tasks) /\ engine \in Seq(Engines)
      /\ \A n \in DOMAIN engine : Handed(engine[n], tasks[n])
  BY <1>1 DEF SessionInv, SessionTypes, SessionHanded
<1>4. t \in Tasks /\ t.uris \in Seq(Uris) /\ t.options \in Seq(Options)
  <2>1. Len(engine) + 1 \in 1..Len(tasks)
    BY <1>1, <1>3
  <2>2. t \in Tasks
    BY <1>3, <2>1
  <2> HIDE DEF t
  <2>3. QED BY <2>2 DEF Tasks
<1>5. command.split \in Numbers \cup {None} /\ Numbers \subseteq Values
  BY <1>3, TextsAssumption DEF Commands
<1> HIDE DEF t
<1>6. /\ given \in Seq((Keys \cup {"split"}) \X Values)
      /\ split = IF Chosen(t.options, "split") = None THEN command.split
                 ELSE Chosen(t.options, "split")
  <2>1. CASE command.split = None
    <3>1. given = <<>> \o t.options
      BY <2>1 DEF GivenOptions
    <3>2. given = t.options
      BY <1>4, <3>1, ConcatEmptySeq
    <3>3. t.options \in Seq((Keys \cup {"split"}) \X Values)
      <4>1. Options \subseteq (Keys \cup {"split"}) \X Values
        BY DEF Options
      <4>2. QED BY <1>4, <4>1
    <3> HIDE DEF given
    <3>4. QED BY <2>1, <3>2, <3>3
  <2>2. CASE command.split # None
    <3>1. given = << <<"split", command.split>> >> \o t.options
      BY <2>2 DEF GivenOptions
    <3>2. command.split \in Values
      BY <1>5, <2>2
    <3> HIDE DEF given
    <3>3. QED BY <1>4, <3>1, <3>2, ChosenBehind
  <2>3. QED BY <2>1, <2>2
<1>7. select \in Values \cup {None}
  <2> HIDE DEF given
  <2>1. QED BY <1>6, ChosenType
<1> HIDE DEF given
<1>8. e \in Engines /\ Handed(e, t)
  <2> HIDE DEF select, split
  <2>1. e \in Engines
    BY <1>4, <1>7 DEF Engines
  <2>2. e.uris = t.uris /\ e.split \in {split, None} /\ (split \in Numbers => e.split = split)
    OBVIOUS
  <2> HIDE DEF e
  <2>3. QED BY <1>6, <2>1, <2>2 DEF Handed
<1> HIDE DEF e
<1>9. ASSUME UNCHANGED <<phase, command, tasks>>, engine' = Append(engine, e)
      PROVE  SessionHanded'
  <2>1. engine' \in Seq(Engines) /\ Len(engine') = Len(engine) + 1 /\ Len(engine') <= Len(tasks')
    BY <1>1, <1>3, <1>8, <1>9
  <2>2. ASSUME NEW n \in DOMAIN engine'  PROVE Handed(engine'[n], tasks[n])
    <3>1. CASE n = Len(engine) + 1
      BY <1>3, <1>8, <1>9, <3>1 DEF t
    <3>2. CASE n \in DOMAIN engine
      BY <1>3, <1>9, <3>2
    <3>3. QED BY <1>3, <2>1, <3>1, <3>2
  <2>3. (\A n \in DOMAIN engine : Handed(engine[n], tasks[n]))'
    BY <1>9, <2>2 DEF Handed
  <2>4. QED BY <1>1, <1>9, <2>1, <2>3 DEF SessionHanded
<1>10. QED BY <1>1, <1>2, <1>9

LEMMA StepInv ==
  ASSUME SessionInv, [SessionNext]_sessionVars  PROVE SessionInv'
<1>1. SessionTypes /\ SessionStored /\ SessionHanded
  BY DEF SessionInv
<1>2. ASSUME Exit, UNCHANGED <<stored, saved, whole>>  PROVE SessionInv'
  <2>1. SessionTypes'
    BY <1>1, <1>2, ExitTypes DEF SessionTypes
  <2>2. SessionStored'
    BY <1>1, <1>2 DEF SessionStored, Exit
  <2>3. SessionHanded'
    BY <1>2, ExitHanded
  <2>4. QED BY <2>1, <2>2, <2>3 DEF SessionInv
<1>3. ASSUME NEW c \in Commands, Start(c)  PROVE SessionInv'
  <2>1. SessionTypes'
    BY <1>1, <1>3 DEF Start, SessionTypes
  <2>2. SessionStored'
    BY <1>1, <1>3 DEF Start, SessionStored
  <2>3. SessionHanded'
    <3>1. engine = <<>>
      BY <1>1, <1>3 DEF Start, SessionHanded
    <3>2. QED BY <1>1, <1>3, <3>1 DEF Start, SessionHanded
  <2>4. QED BY <2>1, <2>2, <2>3 DEF SessionInv
<1>4. ASSUME NEW text, Load(text)  PROVE SessionInv'
  <2>1. CASE Exit
    BY <1>1, <1>2, <1>4, <2>1, LoadCases
  <2>2. CASE ~ Exit
    <3>1. /\ phase = "load" /\ UNCHANGED <<stored, saved, whole, command, engine>>
          /\ tasks' \in Seq(Tasks) /\ Real(tasks')
          /\ phase' = IF command.save THEN "open" ELSE "add"
      BY <1>1, <1>4, <2>2, LoadCases
    <3>2. SessionTypes'
      BY <1>1, <3>1 DEF SessionTypes
    <3>3. SessionStored'
      BY <1>1, <3>1 DEF SessionStored
    <3>4. SessionHanded'
      <4>1. engine = <<>>
        BY <1>1, <3>1 DEF SessionHanded
      <4>2. Len(tasks') \in Nat /\ Len(engine') = 0 /\ DOMAIN engine' = {}
        BY <3>1, <4>1
      <4>3. engine' \in Seq(Engines) /\ engine' = <<>> /\ phase' # "run"
        BY <3>1, <4>1
      <4>4. QED BY <4>2, <4>3 DEF SessionHanded
    <3>5. QED BY <3>2, <3>3, <3>4 DEF SessionInv
  <2>3. QED BY <2>1, <2>2
<1>5. CASE OpenSession
  <2>1. SessionTypes'
    <3>1. <<>> \in Seq(Lines)
      OBVIOUS
    <3>2. QED BY <1>1, <1>5, <3>1 DEF OpenSession, SessionTypes
  <2>2. Prefix(<<>>, tasks)
    <3>1. SessionText(tasks) \in Seq(Lines)
      BY <1>1, SessionTextType DEF SessionTypes
    <3>2. 0 \in 0..Len(SessionText(tasks)) /\ SubSeq(SessionText(tasks), 1, 0) = <<>>
      BY <3>1
    <3>3. QED BY <3>2 DEF Prefix
  <2>3. SessionStored'
    BY <1>5, <2>2 DEF OpenSession, SessionStored
  <2>4. SessionHanded'
    <3>1. engine = <<>>
      BY <1>1, <1>5 DEF OpenSession, SessionHanded
    <3>2. QED BY <1>1, <1>5, <3>1 DEF OpenSession, SessionHanded
  <2>5. QED BY <2>1, <2>3, <2>4 DEF SessionInv
<1>6. CASE WriteLine \/ SaveFails
  <2> DEFINE line == SessionText(tasks)[Len(stored) + 1]
  <2>0. phase = "write" /\ stored # SessionText(tasks)
    BY <1>6 DEF WriteLine, SaveFails
  <2>1. /\ saved = tasks /\ ~ whole /\ tasks \in Seq(Tasks) /\ Prefix(stored, tasks)
        /\ engine = <<>>
    BY <1>1, <2>0 DEF SessionStored, SessionTypes, SessionHanded
  <2>2. /\ Append(stored, line) \in Seq(Lines) /\ Prefix(Append(stored, line), tasks)
        /\ \A cut \in Cuts(line) :
             Append(stored, cut) \in Seq(Lines) /\ Cut(Append(stored, cut), tasks)
    BY <2>0, <2>1, PrefixGrows
  <2> HIDE DEF line
  <2>3. CASE WriteLine
    <3>1. /\ stored' = Append(stored, line)
          /\ UNCHANGED <<phase, command, tasks, engine, saved, whole>>
      BY <2>3 DEF WriteLine, line
    <3>2. SessionTypes'
      BY <1>1, <2>2, <3>1 DEF SessionTypes
    <3>3. SessionStored'
      <4>1. Prefix(stored', tasks')
        BY <2>2, <3>1
      <4>2. QED BY <2>0, <2>1, <3>1, <4>1 DEF SessionStored
    <3>4. SessionHanded'
      BY <1>1, <2>1, <3>1 DEF SessionHanded
    <3>5. QED BY <3>2, <3>3, <3>4 DEF SessionInv
  <2>4. CASE SaveFails
    <3>1. PICK cut \in Cuts(line) : stored' = Append(stored, cut)
      BY <2>4 DEF SaveFails, line
    <3>2. Exit /\ UNCHANGED <<saved, whole>>
      BY <2>4 DEF SaveFails
    <3>3. SessionTypes'
      BY <1>1, <2>2, <3>1, <3>2, ExitTypes
    <3>4. SessionStored'
      <4>1. Cut(stored', saved') /\ ~ whole' /\ phase' = "off"
        BY <2>1, <2>2, <3>1, <3>2 DEF Exit
      <4>2. QED BY <4>1 DEF SessionStored
    <3>5. SessionHanded'
      BY <3>2, ExitHanded
    <3>6. QED BY <3>3, <3>4, <3>5 DEF SessionInv
  <2>5. QED BY <1>6, <2>3, <2>4
<1>7. CASE SessionSaved
  <2>1. /\ phase = "write" /\ stored = SessionText(tasks) /\ phase' = "add" /\ whole' = TRUE
        /\ UNCHANGED <<command, tasks, engine, stored, saved>> /\ saved = tasks
        /\ Prefix(stored, saved) /\ engine = <<>>
    BY <1>1, <1>7 DEF SessionSaved, SessionStored, SessionHanded
  <2>2. SessionTypes'
    BY <1>1, <2>1 DEF SessionTypes
  <2>3. SessionStored'
    BY <2>1 DEF SessionStored
  <2>4. SessionHanded'
    BY <1>1, <2>1 DEF SessionHanded
  <2>5. QED BY <2>2, <2>3, <2>4 DEF SessionInv
<1>8. CASE AddUri
  <2>1. CASE Exit
    BY <1>2, <1>8, <2>1, AddUriHands
  <2>2. CASE ~ Exit
    <3>1. UNCHANGED <<phase, command, tasks, stored, saved, whole>> /\ SessionHanded'
      BY <1>8, <2>2, AddUriHands
    <3>2. SessionTypes' /\ SessionStored'
      BY <1>1, <3>1 DEF SessionTypes, SessionStored
    <3>3. QED BY <3>1, <3>2 DEF SessionInv
  <2>3. QED BY <2>1, <2>2
<1>9. CASE RunOnce
  <2>1. SessionTypes'
    BY <1>1, <1>9 DEF RunOnce, SessionTypes
  <2>2. SessionStored'
    BY <1>1, <1>9 DEF RunOnce, SessionStored
  <2>3. SessionHanded'
    BY <1>1, <1>9 DEF RunOnce, SessionHanded, Handed
  <2>4. QED BY <2>1, <2>2, <2>3 DEF SessionInv
<1>10. CASE Stop
  BY <1>2, <1>10 DEF Stop
<1>11. CASE UNCHANGED sessionVars
  BY <1>1, <1>11 DEF sessionVars, SessionInv, SessionTypes, SessionStored, SessionHanded, Handed
<1>12. QED BY <1>3, <1>4, <1>5, <1>6, <1>7, <1>8, <1>9, <1>10, <1>11 DEF SessionNext

\* The invariant holds in every state of every behaviour of the command.
THEOREM SessionInvariant == SessionSpec => []SessionInv
<1>1. SessionInv /\ [SessionNext]_sessionVars => SessionInv'
  BY StepInv
<1>2. QED BY InitInv, <1>1, PTL DEF SessionSpec

-----------------------------------------------------------------------------
(* The properties *)

\* Every state has its type, no task is without a URI, and the engine has no more tasks
\* than were read (main, flush_task).
THEOREM SessionTypesHold == SessionSpec => []SessionTypeOK
<1>1. SessionInv => SessionTypeOK
  <2> SUFFICES ASSUME SessionInv  PROVE SessionTypeOK
    OBVIOUS
  <2>1. SessionTypes /\ SessionHanded
    BY DEF SessionInv
  <2>2. \A t \in {tasks[n] : n \in DOMAIN tasks} : t.uris # <<>>
    BY <2>1 DEF SessionTypes, Real
  <2>3. QED BY <2>1, <2>2 DEF SessionTypeOK, SessionTypes, SessionHanded
<1>2. QED BY SessionInvariant, <1>1, PTL

\* Tasks of URIs that are a line each come back as what is read of them, which is written
\* as they are.
LEMMA TaskAsRead ==
  ASSUME NEW t \in Tasks, t.uris # <<>>,
         \A k \in DOMAIN t.uris : \E v \in Uris : ReadsAs[t.uris[k]] = <<UriLine(v)>>
  PROVE  LET r == [uris |-> [k \in DOMAIN t.uris |-> ReadsAs[t.uris[k]][1][2]],
                   options |-> t.options]
         IN  r \in Tasks /\ Kept(r) /\ TaskLines(r) = TaskLines(t)
<1> DEFINE us == [k \in DOMAIN t.uris |-> ReadsAs[t.uris[k]][1][2]]
           r == [uris |-> us, options |-> t.options]
<1>1. t.uris \in Seq(Uris) /\ t.options \in Seq(Options) /\ DOMAIN t.uris = 1..Len(t.uris)
      /\ Len(t.uris) \in Nat /\ Len(t.uris) # 0
  BY DEF Tasks
<1>2. ASSUME NEW k \in DOMAIN t.uris
      PROVE  us[k] \in Uris /\ ReadsAs[us[k]] = <<UriLine(us[k])>> /\ ReadsAs[us[k]] = ReadsAs[t.uris[k]]
  <2>1. PICK v \in Uris : ReadsAs[t.uris[k]] = <<UriLine(v)>>
    OBVIOUS
  <2>2. us[k] = v
    <3>1. PICK line : line = UriLine(v)
      OBVIOUS
    <3>2. line[2] = v
      BY <3>1 DEF UriLine
    <3>3. PICK text : text = ReadsAs[t.uris[k]]
      OBVIOUS
    <3>4. text[1] = line
      BY <2>1, <3>1, <3>3
    <3>5. us[k] = text[1][2]
      BY <3>3
    <3>6. QED BY <3>2, <3>4, <3>5
  <2>3. t.uris[k] \in Uris
    BY <1>1
  <2>4. QED BY <2>1, <2>2, <2>3, TextsAssumption
<1>3. us \in Seq(Uris) /\ Len(us) = Len(t.uris) /\ DOMAIN us = DOMAIN t.uris
  <2>1. us \in [1..Len(t.uris) -> Uris]
    BY <1>1, <1>2
  <2>2. QED BY <1>1, <2>1
<1>4. us # <<>>
  BY <1>1, <1>3
<1>5. PlainUris(us)
  BY <1>2, <1>3 DEF PlainUris
<1>6. TaskLines(r) = TaskLines(t)
  <2>1. [n \in DOMAIN us |-> ReadsAs[us[n]]] = [n \in DOMAIN t.uris |-> ReadsAs[t.uris[n]]]
    BY <1>2, <1>3
  <2>2. r.uris = us /\ r.options = t.options
    OBVIOUS
  <2> HIDE DEF us, r
  <2>3. QED BY <2>1, <2>2, Zenon DEF TaskLines
<1>7. r \in Tasks
  BY <1>1, <1>3 DEF Tasks
<1>8. Kept(r)
  BY <1>4, <1>5 DEF Kept
<1>9. QED BY <1>6, <1>7, <1>8

LEMMA AsReadKept ==
  ASSUME NEW ts \in Seq(Tasks), Real(ts), OneLine(ts)
  PROVE  /\ AsRead(ts) \in Seq(Tasks) /\ Len(AsRead(ts)) = Len(ts)
         /\ \A n \in DOMAIN AsRead(ts) : Kept(AsRead(ts)[n])
         /\ SessionText(AsRead(ts)) = SessionText(ts)
<1> DEFINE rs == AsRead(ts)
<1>1. DOMAIN ts = 1..Len(ts) /\ Len(ts) \in Nat /\ DOMAIN rs = DOMAIN ts
  BY DEF AsRead
<1>2. ASSUME NEW n \in DOMAIN ts
      PROVE  rs[n] \in Tasks /\ Kept(rs[n]) /\ TaskLines(rs[n]) = TaskLines(ts[n])
  <2>1. /\ ts[n] \in Tasks /\ ts[n].uris # <<>>
        /\ \A k \in DOMAIN ts[n].uris : \E v \in Uris : ReadsAs[ts[n].uris[k]] = <<UriLine(v)>>
    BY DEF Real, OneLine
  <2>2. rs[n] = [uris |-> [k \in DOMAIN ts[n].uris |-> ReadsAs[ts[n].uris[k]][1][2]],
                 options |-> ts[n].options]
    BY DEF AsRead
  <2> HIDE DEF rs
  <2>3. QED BY <2>1, <2>2, TaskAsRead
<1>3. rs \in Seq(Tasks) /\ Len(rs) = Len(ts)
  <2>1. rs \in [1..Len(ts) -> Tasks]
    BY <1>1, <1>2 DEF AsRead
  <2> HIDE DEF rs
  <2>2. QED BY <1>1, <2>1
<1>4. SessionText(rs) = SessionText(ts)
  <2>1. [n \in DOMAIN rs |-> (IF n > 1 THEN <<Blank>> ELSE <<>>) \o TaskLines(rs[n])]
        = [n \in DOMAIN ts |-> (IF n > 1 THEN <<Blank>> ELSE <<>>) \o TaskLines(ts[n])]
    <3> HIDE DEF rs, Blank, TaskLines
    <3>1. QED BY <1>1, <1>2
  <2> HIDE DEF rs
  <2>2. QED BY <2>1, Zenon DEF SessionText
<1>5. QED BY <1>1, <1>2, <1>3, <1>4

\* A session written to its end, of tasks whose URIs are a line each, reads as the tasks
\* that were saved, and no pass of a command that saves starts before it is written
\* (save_session_text, main).
THEOREM SessionReadsBack == SessionSpec => []SavedReadsBack
<1>1. SessionInv => SavedReadsBack
  <2> SUFFICES ASSUME SessionInv  PROVE SavedReadsBack
    OBVIOUS
  <2>1. SessionTypes /\ SessionStored
    BY DEF SessionInv
  <2>2. ASSUME whole, OneLine(saved)
        PROVE  ParseInput(stored).ok /\ ParseInput(stored).tasks = AsRead(saved)
    <3>1. /\ AsRead(saved) \in Seq(Tasks) /\ stored = SessionText(AsRead(saved))
          /\ \A n \in DOMAIN AsRead(saved) : Kept(AsRead(saved)[n])
      BY <2>1, <2>2, AsReadKept DEF SessionTypes, SessionStored
    <3>2. ParseInput(stored) = [ok |-> TRUE, tasks |-> AsRead(saved), current |-> NoTask]
      BY <3>1, SessionReads
    <3>3. QED BY <3>2
  <2>3. phase = "run" /\ command.save => whole /\ saved = tasks
    BY <2>1 DEF SessionStored
  <2>4. QED BY <2>2, <2>3 DEF SavedReadsBack
<1>2. QED BY SessionInvariant, <1>1, PTL

\* Of a session of such tasks that was cut off anywhere all tasks but the last are read as
\* from the whole one, unless it ends in half an option (save_session_text,
\* parse_input_file_text).
THEOREM CutSessionReads == SessionSpec => []CutReadsAsFront
<1>1. SessionInv => CutReadsAsFront
  <2> SUFFICES ASSUME SessionInv, stored # None, OneLine(saved)
               PROVE  LET p == ParseInput(stored)
                          n == Len(p.tasks)
                      IN  /\ n <= Len(saved)
                          /\ SubSeq(p.tasks, 1, n - 1) = SubSeq(AsRead(saved), 1, n - 1)
                          /\ p.ok \/ Last(stored) = Indented
    BY DEF CutReadsAsFront
  <2>1. saved \in Seq(Tasks) /\ Real(saved) /\ (Prefix(stored, saved) \/ Cut(stored, saved))
    BY DEF SessionInv, SessionTypes, SessionStored
  <2>2. /\ AsRead(saved) \in Seq(Tasks) /\ Len(AsRead(saved)) = Len(saved)
        /\ \A n \in DOMAIN AsRead(saved) : Kept(AsRead(saved)[n])
        /\ SessionText(AsRead(saved)) = SessionText(saved)
    BY <2>1, AsReadKept
  <2>3. Prefix(stored, AsRead(saved)) \/ Cut(stored, AsRead(saved))
    BY <2>1, <2>2 DEF Prefix, Cut
  <2>4. QED BY <2>2, <2>3, CutFront
<1>2. QED BY SessionInvariant, <1>1, PTL

\* A pass starts with all tasks in their order, each with its URIs and the split that is
\* its own or the command line's (main).
THEOREM PassHasAllTasks == SessionSpec => []AllOrNothing
<1>1. SessionInv => AllOrNothing
  <2> SUFFICES ASSUME SessionInv, phase = "run"
               PROVE  Len(engine) = Len(tasks) /\ \A n \in DOMAIN tasks : Handed(engine[n], tasks[n])
    BY DEF AllOrNothing, Handed
  <2>1. /\ engine \in Seq(Engines) /\ tasks \in Seq(Tasks) /\ Len(engine) = Len(tasks)
        /\ \A n \in DOMAIN engine : Handed(engine[n], tasks[n])
    BY DEF SessionInv, SessionTypes, SessionHanded
  <2>2. DOMAIN engine = DOMAIN tasks
    BY <2>1
  <2>3. QED BY <2>1, <2>2
<1>2. QED BY SessionInvariant, <1>1, PTL

=============================================================================
