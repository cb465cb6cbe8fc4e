------------------------------ MODULE MCParser ------------------------------
(***************************************************************************)
(* Grammars and texts for TLC.  Every case is a small grammar that makes   *)
(* one of the parser's hard situations happen, over all texts up to a      *)
(* length; Compositions is every form of rule around every inner rule.     *)
(***************************************************************************)
EXTENDS ParserRef

a == 97
b == 98
sp == 32
slash == 47

T(ch) == TokenOf(<<ch>>)
Rule(op, kids) == [NoRule EXCEPT !.op = op, !.kids = kids]
Id(n) == [NoRule EXCEPT !.op = "Identifier", !.n = n]
Spaces(args) == [NoRule EXCEPT !.op = "whitespace", !.args = args]
Number(size, type) == [NoRule EXCEPT !.op = "number", !.args = <<NumberOf(size), NumberOf(type)>>]
Script(n) == [NoRule EXCEPT !.op = "script", !.n = n]
Times(args, kids) == [NoRule EXCEPT !.op = "Times", !.args = args, !.kids = kids]
AnyByte == [NoRule EXCEPT !.op = "Range", !.args = <<TokenOf(<<0>>), TokenOf(<<255>>)>>]
CharOf(op, set, flags) == [NoRule EXCEPT !.op = op, !.txt = set, !.n = flags]
Blanks == CharOf("CharsOf", <<sp>>, 0)
Or(x, y) == Rule("Or", <<x, y>>)
Group(x, y) == Rule("Sequence", <<x, y>>)
Opt(x) == Rule("Optional", <<x>>)
Many(x) == Rule("Repeat", <<x>>)
Tag(x) == Rule("Tag", <<x>>)

Grammar(prods) ==
  [prods |-> prods, start |-> 1, commands |-> <<>>, scripts |-> <<>>, other |-> <<>>]
Scripted(prods, scripts) == [Grammar(prods) EXCEPT !.scripts = scripts]
Over(g, chars, n) ==
  [grammar |-> g, inputs |-> BoundedSeq(chars, n), options |-> [lb : BOOLEAN, lf : BOOLEAN]]
Effect1(j, rule) == [js |-> j, rule |-> rule, sdx |-> -1, swap |-> FALSE]

\* The whitespace rule and the content share a production, the comment.
Comments ==
  [Grammar(<< <<Or(Group(Id(3), T(b)), Group(Group(Id(2), Id(3)), T(b)))>>,
              <<T(a)>>, <<TokenOf(<<slash, slash>>)>>, <<Many(Or(Blanks, Id(3)))>> >>)
     EXCEPT !.commands = <<Spaces(<<>>), Spaces(<<Id(4)>>)>>]

\* Names: no whitespace within, the usual one behind; a sole command; a
\* command that reaches the sequence through the alternatives.
Names ==
  [Grammar(<< <<Many(Id(2))>>,
              <<Tag(Rule("Sequence", <<T(a), Spaces(<<>>), Many(Or(T(a), T(b))), Spaces(<<Id(3)>>)>>))>>,
              <<Blanks>> >>)
     EXCEPT !.commands = <<Spaces(<<Id(3)>>)>>]
SoleCommands ==
  Grammar(<< <<Or(Group(Group(Id(2), T(a)), T(b)), Group(Group(Id(3), T(a)), T(b)))>>,
             <<Spaces(<<>>)>>, <<Or(Spaces(<<>>), T(b))>> >>)

\* Rounds that consume nothing, and counted ones.
EmptyRounds ==
  Grammar(<< <<Many(Opt(T(a))), Times(<<NumberOf(1), NumberOf(3)>>, <<Opt(T(b))>>),
               Times(<<NumberOf(2)>>, <<T(a)>>)>> >>)
Lengths(type) ==
  [Grammar(<< <<Many(Tag(Times(<<Number(1, type)>>, <<AnyByte>>))), Many(AnyByte)>> >>)
     EXCEPT !.commands = <<Spaces(<<>>)>>]
Words2 == Grammar(<< <<Or(Group(Number(2, 0), Number(1, 1)), Number(2, 1))>> >>)

\* Lookahead and negated sets, right recursion.
Lookahead ==
  Grammar(<< <<Many(Group(Rule("Not", <<T(b)>>), CharOf("CharOf", <<sp>>, 2))),
               CharOf("CharsOf", <<a>>, 2)>> >>)
Nested == Grammar(<< <<Or(Tag(Group(T(a), Id(1))), T(b))>> >>)

\* tests/parser-state-memo-test.abnf: a production that fails is applied
\* again, and its :script() rules, found through links and through the
\* parameter of a command, must run again.
StateMemo ==
  Scripted(<< <<Or(Group(Id(2), T(a)), Group(Id(2), Script(3)))>>,
              <<Group(Id(3), Id(4))>>, <<T(a), Script(1)>>,
              <<Spaces(<<Id(5)>>), T(b)>>, <<Script(2)>> >>,
           <<[j \in 0 .. 8 |-> Effect1(j + 3, NoRule)],
             [j \in 0 .. 8 |-> Effect1(j + 1, NoRule)],
             [j \in 0 .. 8 |-> Effect1(j, IF j = 8 THEN NoRule ELSE TokenOf(<<1>>))]>>)

\* languages/java-interpreter.abnf: a :script() replaces the text and starts
\* over, with entries of the old text in every memo.
NewText ==
  [Scripted(<< <<Or(Group(Id(2), T(b)), Group(Script(1), Group(Id(2), T(a))))>>, <<T(a)>> >>,
            <<[j \in 0 .. 1 |-> [js |-> 1, rule |-> NoRule, sdx |-> 0, swap |-> TRUE]]>>)
     EXCEPT !.other = <<a, a>>]

\* A guard that looks ahead and hands back a rule, and a production nobody defined.
Guards ==
  Scripted(<< <<Many(Or(Group(Script(1), T(a)), T(b))), Opt(Group(T(a), Id(-1)))>> >>,
           <<[j \in 0 .. 1 |-> [js |-> 1 - j, rule |-> IF j = 0 THEN T(b) ELSE Rule("Sequence", <<>>),
                                sdx |-> -1, swap |-> FALSE]]>>)

\* Whitespace that counts itself, and where every other blank is content, in
\* front of a production that is applied again.
CountedSpaces ==
  [Scripted(<< <<Or(Group(Id(2), T(b)), Group(Id(2), Or(T(sp), T(a))))>>, <<T(a)>>, <<Script(1)>> >>,
            <<[j \in 0 .. 8 |-> Effect1(IF j < 8 THEN j + 1 ELSE 7,
                                       IF j % 2 = 0 THEN Opt(T(sp)) ELSE NoRule)]>>)
     EXCEPT !.commands = <<Spaces(<<Id(3)>>)>>]

Inner == <<T(a), Id(3), Opt(T(a)), Many(T(b)), Group(T(a), T(b)), Spaces(<<>>), Or(Spaces(<<>>), T(b))>>
Forms(x) ==
  <<Group(x, T(b)), Or(x, T(b)), Many(x), Opt(x), Tag(x), Rule("Not", <<x>>),
    Times(<<NumberOf(1), NumberOf(2)>>, <<x>>), Rule("Repeat", <<x, T(b)>>)>>
Composition(i, j) ==
  Grammar(<< <<Or(Group(Id(2), T(b)), Group(Id(2), Id(3)))>>, <<Forms(Inner[i])[j]>>, <<T(a)>> >>)

Situations ==
  {Over(Names, {a, b, sp}, 3), Over(SoleCommands, {a, b, sp}, 3), Over(EmptyRounds, {a, b, sp}, 3),
    Over(Lookahead, {a, b, sp}, 3), Over(Nested, {a, b, sp}, 3), Over(StateMemo, {a, b, sp}, 3),
    Over(NewText, {a, b, sp}, 3), Over(Guards, {a, b, sp}, 3), Over(CountedSpaces, {a, b, sp}, 3),
    Over(Comments, {a, b, sp, slash}, 3),
    Over(Lengths(0), {0, 1, 2}, 3), Over(Words2, {0, 1, 2}, 3), Over(Lengths(2), {2, 255}, 3),
    Over(Lengths(3), {43, 45, 49}, 3)}
Compositions ==
  {Over(Composition(i, j), {a, b, sp}, 2) : i \in DOMAIN Inner, j \in 1 .. 8}

\* Left recursion: direct, through another production, behind an optional
\* part, in two alternatives, and without an end (tests/infinite-loop.abnf).
Direct == Grammar(<< <<Id(2), Opt(T(sp))>>, <<Or(Group(Id(2), T(b)), T(a))>> >>)
Indirect ==
  Grammar(<< <<Or(Group(Id(2), T(sp)), Id(3))>>,
             <<Or(Group(Id(3), T(sp)), T(a))>>, <<Or(Group(Id(2), T(b)), T(a))>> >>)
Hidden == Grammar(<< <<Or(Group(Group(Opt(T(a)), Id(1)), T(b)), T(a))>> >>)
Twice == Grammar(<< <<Or(Group(Id(1), T(b)), Or(Group(Id(1), T(sp)), T(a)))>> >>)
Endless == Grammar(<< <<Id(1), T(a)>> >>)
\* Two productions that begin with each other, so that what is found of one
\* depends on which of them was tried first.
Crossed ==
  Grammar(<< <<Or(Group(Id(2), T(sp)), Id(3))>>, <<Or(Group(Id(3), T(b)), T(a))>>,
             <<Or(Group(Id(2), T(a)), T(b))>> >>)
BlankRecursive ==
  [Grammar(<< <<Many(Group(Id(3), T(b)))>>, <<Or(Group(Id(2), T(sp)), T(sp))>>, <<T(a)>> >>)
     EXCEPT !.commands = <<Spaces(<<Id(2)>>)>>]
LeftRecursive ==
  {Over(g, {a, b, sp}, 3) : g \in {Direct, Indirect, Hidden, Twice, Endless, Crossed, BlankRecursive}}

MCCases == Situations \cup Compositions \cup LeftRecursive
=============================================================================
