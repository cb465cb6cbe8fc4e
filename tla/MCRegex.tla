------------------------------ MODULE MCRegex ------------------------------
(***************************************************************************)
(* The calls of the runs: every small tree over a few characters, written  *)
(* out as a pattern, and a list of patterns for what the trees leave out.  *)
(***************************************************************************)
EXTENDS RegexProps

-----------------------------------------------------------------------------
(* Trees.                                                                  *)

Lit(c) == Class({Code(c)})
Cat(items) == [Node("cat") EXCEPT !.items = items]
Alt(items) == [Node("alt") EXCEPT !.items = items]
Star(x, greedy) == Rep(x, 0, -1, greedy)
G(x) == Group(0, x)
Free(x) == Group(-1, x)

\* The groups that capture, numbered in the order in which they open.
RECURSIVE Numbered(_, _), NumberedAll(_, _)
NumberedAll(items, n) ==
  IF items = <<>> THEN <<<<>>, n>>
  ELSE LET one == Numbered(Head(items), n)
           more == NumberedAll(Tail(items), one[2])
       IN  <<<<one[1]>> \o more[1], more[2]>>
Numbered(node, n) ==
  LET captures == node.t = "group" /\ node.gidx >= 0
      r == NumberedAll(node.items, IF captures THEN n + 1 ELSE n)
  IN  <<[node EXCEPT !.items = r[1], !.gidx = IF captures THEN n + 1 ELSE @], r[2]>>

RECURSIVE Show(_)
Joined(items, sep) ==
  FoldLeft(LAMBDA s, k : s \o (IF k > 1 THEN sep ELSE "") \o Show(items[k]), "", [k \in DOMAIN items |-> k])
Quant(node) ==
  (CASE node.min = 0 /\ node.max = -1 -> "*"
     [] node.min = 1 /\ node.max = -1 -> "+"
     [] node.min = 0 /\ node.max = 1 -> "?"
     [] node.max = -1 -> "{" \o ToString(node.min) \o ",}"
     [] OTHER -> "{" \o ToString(node.min) \o "," \o ToString(node.max) \o "}")
  \o (IF node.greedy THEN "" ELSE "?")
AssertText == [BOL |-> "^", EOL |-> "$", WordB |-> "\\b", NWordB |-> "\\B", BOS |-> "\\A", EOS |-> "\\z", EOSNL |-> "\\Z"]
Show(node) ==
  CASE node.t = "cls" ->
         IF node.set = {10} /\ node.neg THEN "."
         ELSE IF node.neg THEN "[^b]"
         ELSE IF node.set = {97} THEN "a" ELSE IF node.set = {98} THEN "b" ELSE "[ab]"
    [] node.t = "assert" -> AssertText[node.holds]
    [] node.t = "cat" -> Joined(node.items, "")
    [] node.t = "alt" -> Joined(node.items, "|")
    [] node.t = "group" -> (IF node.gidx < 0 THEN "(?:" ELSE "(") \o Joined(node.items, "") \o ")"
    [] node.t = "look" -> (IF node.neg THEN "(?!" ELSE "(?=") \o Joined(node.items, "") \o ")"
    [] node.t = "bref" -> "\\" \o ToString(node.gidx)
    [] node.t = "rep" -> Show(node.items[1]) \o Quant(node)

A == Lit("a")
B == Lit("b")
AB == Class({97, 98})
Seq2(x, y) == Cat(<<x, y>>)
Or(x, y) == Alt(<<Cat(<<x>>), Cat(<<y>>)>>)

\* A quantified group around every small tree, alone, followed, or in another one.
Atoms == {A, B, AB}
Reps(x) == {Star(x, TRUE), Star(x, FALSE), Rep(x, 1, -1, TRUE), Rep(x, 0, 1, TRUE), Rep(x, 1, 2, FALSE)}
Flat == UNION {{Seq2(x, y), Or(x, y)} : x \in {A, B, Star(A, TRUE), Rep(A, 0, 1, FALSE)}, y \in {A, B, Star(B, FALSE)}}
        \cup {Alt(<<Cat(<<>>), Cat(<<A>>)>>), Alt(<<Cat(<<A>>), Seq2(A, B), Cat(<<B>>)>>)}
        \cup {Cat(<<x>>) : x \in Atoms \cup UNION {Reps(a) : a \in {A, AB}}}
Groups == {G(x) : x \in Flat}
Nested == {G(Seq2(Rep(G(Or(A, B)), 0, 1, TRUE), x)) : x \in {G(Cat(<<A>>)), Star(B, TRUE), Star(G(Cat(<<>>)), TRUE)}}
          \cup {G(Or(G(Cat(<<A>>)), B)), G(Or(A, G(Cat(<<Rep(A, 0, 1, TRUE)>>))))}
Trees ==
  UNION {{Cat(<<r>>) : r \in Reps(g)} \cup {Seq2(Star(g, TRUE), A), Seq2(Rep(g, 0, 1, FALSE), B)} : g \in Groups \cup Nested}

\* A few to look at in every use.
Plain ==
  {Star(A, TRUE), Rep(A, 1, -1, TRUE), Star(AB, FALSE), Look(FALSE, Cat(<<B>>)), Look(TRUE, Cat(<<A>>)),
   G(Or(A, B)), G(Seq2(Star(A, TRUE), Rep(B, 0, 1, TRUE))), Holds("WordB"), Star(G(Or(A, Look(FALSE, Cat(<<B>>)))), TRUE)}

\* A lookahead that captures, in an attempt that goes on, fails behind it, tries again or
\* repeats; and one that must not be there, but is.
Looks == {Look(FALSE, Cat(<<G(Cat(<<A>>))>>)), Look(FALSE, Or(G(Cat(<<A>>)), G(Cat(<<B>>)))), Look(FALSE, Seq2(G(Star(A, TRUE)), B)),
          Look(TRUE, Cat(<<G(Cat(<<A>>))>>)), Look(TRUE, Cat(<<Look(TRUE, Cat(<<G(Cat(<<B>>))>>))>>))}
Looking ==
  UNION {{Seq2(x, AB), Or(Seq2(x, B), A), Alt(<<Seq2(x, B), Seq2(AB, G(Cat(<<B>>)))>>), Cat(<<Rep(x, 0, 1, TRUE), B>>),
          Cat(<<Star(Free(Or(Seq2(x, AB), B)), TRUE), B>>), Cat(<<Star(G(Seq2(x, AB)), FALSE), Holds("EOS")>>)} : x \in Looks}

Codes1(text) == [i \in DOMAIN Chars(text) |-> Code(Chars(text)[i])]
InBrackets == <<<<"char", Code("<")>>, <<"group", 0>>, <<"char", Code(">")>>>>
Bracketed(lang) == CASE lang = "rb" -> "<\\0>" [] lang = "py" -> "<\\g<0>>" [] lang = "kt" -> "<$0>" [] lang = "js" -> "<$&>" [] lang = "c" -> ""

\* A program with one regular expression; without a limit and from the start.
Call(lang, pattern, fl, text, methods, tree) ==
  [lang |-> lang, pattern |-> pattern, flags |-> fl, text |-> Codes1(text), methods |-> methods,
   from |-> 0, limit |-> IF lang = "js" THEN -1 ELSE 0, repl |-> Bracketed(lang), says |-> InBrackets, means |-> tree,
   use |-> "", template |-> <<>>]
Written(lang, tree, fl, text, methods) == LET n == Numbered(tree, 0)[1] IN Call(lang, Show(n), fl, text, methods, n)

Texts == {"", "a", "ba", "aab", "abab"}
\* Sets of programs that make the same regular expression.
FromTrees ==
  {{Written(u[1], t, {}, x, <<u[2]>>) : x \in {"aab", "ba", "abba"}}
     : t \in Trees, u \in {<<"rb", "scan">>, <<"js", "matchAll">>, <<"py", "fullmatch">>}}
FromLooks ==
  {{Written(u[1], t, {}, x, <<u[2]>>) : x \in {"a", "ab", "ba", "aab", "abb", "abab"}}
     : t \in Looking, u \in {<<"rb", "scan">>, <<"js", "exec">>, <<"py", "fullmatch">>, <<"kt", "replace">>}}

-----------------------------------------------------------------------------
(* Every method, its positions and its limits.                             *)

At1(calls, froms) == {[c EXCEPT !.from = p] : c \in calls, p \in froms}
UpToLimit(calls, limits) == {[c EXCEPT !.limit = n] : c \in calls, n \in limits}
MethodsOn(lang, t, x) ==
  LET calls(fl, ms) == {Written(lang, t, fl, x, <<m>>) : m \in ms} IN
  CASE lang = "rb" -> calls({}, {"scan", "sub", "gsub", "split"}) \cup At1(calls({}, {"match"}), {0, 1, 3})
    [] lang = "py" -> calls({}, {"findall"}) \cup At1(calls({}, {"match", "fullmatch"}), {0, 1, 3})
                      \cup UpToLimit(calls({}, {"sub", "split"}), {0, 1, 2})
    [] lang = "kt" -> calls({}, {"matchEntire", "findAll", "replace", "replaceFirst", "replaceFn"})
                      \cup At1(calls({}, {"find", "next"}), {0, 1, 3}) \cup UpToLimit(calls({}, {"split"}), 0 .. 3)
    [] lang = "c" -> UpToLimit(calls({}, {"search"}), {0, 3, 4})
    [] lang = "js" ->
         UpToLimit(calls({}, {"split"}), {-1, 0, 1, 3})
         \cup At1({Written(lang, t, fl, x, ms) : fl \in {{}, {"g"}, {"y"}, {"g", "y"}},
                     ms \in {<<"exec", "exec", "exec">>, <<"test", "match", "test">>, <<"match", "exec", "search", "exec">>}}, {0, 2, 5})
         \cup {Written(lang, t, fl, x, <<"exec", m, "exec">>)
                 : fl \in {{"g"}, {"y"}}, m \in {"matchAll", "replace", "replaceAll", "replaceFn", "split"}}
Plainly ==
  {UNION {MethodsOn(lang, Cat(<<t>>), x) : x \in Texts} : t \in Plain, lang \in {"rb", "py", "kt", "js", "c"}}

\* <<language, template, what it says>>
Templates == {
  <<"rb", "\\1", <<<<"group", 1>>>>>>, <<"rb", "\\k<n>", <<<<"group", 1>>>>>>, <<"rb", "\\k<m>\\1", <<<<"group", 1>>>>>>,
  <<"js", "$1", <<<<"group", 1>>>>>>, <<"js", "$<n>$$", <<<<"group", 1>>, <<"char", 36>>>>>>,
  <<"js", "\\1$0$", <<<<"char", 92>>, <<"char", 49>>, <<"char", 36>>, <<"char", 48>>, <<"char", 36>>>>>>,
  <<"py", "\\g<1>\\1", <<<<"group", 1>>, <<"group", 1>>>>>>, <<"py", "\\g<n>\\\\", <<<<"group", 1>>, <<"char", 92>>>>>>,
  <<"kt", "${n}$1${1}", <<<<"group", 1>>, <<"group", 1>>, <<"group", 1>>>>>>,
  <<"kt", "\\$1\\\\", <<<<"char", 36>>, <<"char", 49>>, <<"char", 92>>>>>>}
Replacing(lang) ==
  CASE lang = "rb" -> {"sub", "gsub"} [] lang = "js" -> {"replace", "replaceAll"} [] lang = "py" -> {"sub"} [] lang = "kt" -> {"replace", "replaceFirst"}

-----------------------------------------------------------------------------
(* What has another way to be written than Show's.                         *)

L(cs) == Cat([i \in DOMAIN Chars(cs) |-> Lit(Chars(cs)[i])])
G1(x) == Group(1, x)
S(set) == Cat(<<Class(set)>>)
Not(set) == Cat(<<[Class(set) EXCEPT !.neg = TRUE]>>)
Twice(x) == Seq2(G1(x), Bref(1))

\* <<pattern, flags, text, tree>>
Others == {
  <<"(a|b)\\1", {}, "abb", Twice(Or(A, B))>>,
  <<"(a|b)\\1", {"i"}, "aBb", Twice(Or(A, B))>>,
  <<"(?<n>a|b)\\k<n>", {}, "abb", Twice(Or(A, B))>>,
  <<"(?'n'a|b)\\k<n>", {}, "abb", Twice(Or(A, B))>>,
  <<"(a)?b\\1", {}, "ba", Cat(<<Rep(G1(Cat(<<A>>)), 0, 1, TRUE), B, Bref(1)>>)>>,
  <<"(a)|b\\1", {}, "ba", Alt(<<Cat(<<G1(Cat(<<A>>))>>), Seq2(B, Bref(1))>>)>>,
  <<"a #c\n b", {"x"}, "bab", L("ab")>>, <<"a #c", {"x"}, "a", L("a")>>, <<"( a )  *", {"x"}, "aa", Cat(<<Star(G1(L("a")), TRUE)>>)>>,
  <<"\\Qa.\\E+", {"q"}, "a..", Seq2(A, Rep(Lit("."), 1, -1, TRUE))>>, <<"\\Q(", {"q"}, "(", L("(")>>,
  <<"\\141", {"o"}, "ba", L("a")>>, <<"\\9", {"o"}, "9", L("9")>>, <<"()\\1", {"o"}, "a", Twice(Cat(<<>>))>>,
  <<"a\\x62\\u0063", {}, "abc", L("abc")>>, <<"[\\x61-c]", {}, "c", S(97 .. 99)>>,
  <<"[[:alpha:]]", {"p"}, "1a", S(Upper \cup Lower)>>, <<"[^[:digit:]b]", {"e"}, "1ba", Not(Digits \cup {98})>>,
  <<"[]a]", {}, "b]", S({93, 97})>>, <<"[^]a]", {}, "a]b", Not({93, 97})>>, <<"[a-]", {}, "b-", S({97, 45})>>,
  <<"[\\d-a]", {}, "-", S(Digits \cup {45, 97})>>, <<"[\\b]", {}, "b", S({8})>>,
  <<"\\D\\w\\S", {}, "1a_b", Cat(<<Class(Codes \ Digits), Class(Word), Class(Codes \ Space)>>)>>,
  <<"[A-B]", {"i"}, "cb", S({65, 66})>>, <<"[^a]", {"i"}, "Ab", Not({97})>>, <<"A", {"i"}, "ba", L("A")>>,
  <<"^b$", {"m"}, "a\nb\n", Cat(<<Holds("BOL"), B, Holds("EOL")>>)>>, <<"^b$", {}, "a\nb", Cat(<<Holds("BOL"), B, Holds("EOL")>>)>>,
  <<".b", {"s"}, "\nb", Cat(<<Dot(TRUE), B>>)>>, <<".b", {}, "\nbb", Cat(<<Dot(FALSE), B>>)>>,
  <<"\\Ab\\Z", {}, "b\n", Cat(<<Holds("BOS"), B, Holds("EOSNL")>>)>>, <<"b\\z", {}, "b\n", Cat(<<B, Holds("EOS")>>)>>,
  <<"\\Bb", {}, "b ab", Cat(<<Holds("NWordB"), B>>)>>,
  <<"a{2}", {}, "aaa", Cat(<<Rep(A, 2, 2, TRUE)>>)>>, <<"a{1,}?", {}, "aaa", Cat(<<Rep(A, 1, -1, FALSE)>>)>>,
  <<"a{,2}", {}, "a{,2}", L("a{,2}")>>, <<"a{0}b", {}, "ab", Seq2(Rep(A, 0, 0, TRUE), B)>>, <<"a*+b", {}, "aab", Seq2(Star(A, TRUE), B)>>,
  <<"(?#)a", {}, "ba", Seq2(Node("empty"), A)>>, <<"(?:a|ab)b", {}, "abb", Seq2(Group(-1, Alt(<<L("a"), L("ab")>>)), B)>>,
  <<"(a|ab)b", {"e"}, "abb", Seq2(G1(Alt(<<L("a"), L("ab")>>)), B)>>, <<"a)", {"e"}, "a)", L("a)")>>, <<"()", {"e"}, "a", Cat(<<G1(Cat(<<>>))>>)>>,
  <<"a{b", {"e"}, "a{b", L("a{b")>>, <<"\\d+", {"e"}, "1d", Cat(<<Rep(Lit("d"), 1, -1, TRUE)>>)>>, <<"[\\d]", {"e"}, "1\\", S({92, 100})>>}

NoPattern == {
  <<"(", {}>>, <<"a)", {}>>, <<"a**", {}>>, <<"*a", {}>>, <<"[b-a]", {}>>, <<"[", {}>>, <<"[]", {}>>, <<"\\1", {}>>, <<"(a)\\2", {}>>,
  <<"\\", {}>>, <<"a{2,1}", {}>>, <<"a{2}{3}", {}>>, <<"(?<=a)b", {}>>, <<"(?<n", {}>>, <<"\\k<n>", {}>>, <<"(?", {}>>, <<"(?#", {}>>,
  <<"[[:a:]]", {"p"}>>, <<"[[:digit:]]", {}>>, <<"[a-[:digit:]]", {"p"}>>, <<"a|", {"e"}>>, <<"", {"e"}>>, <<"a{1}{2}", {"e"}>>,
  <<"{1}", {"e"}>>, <<"a\\", {"e"}>>, <<"\\x", {}>>, <<"a+?+", {"e"}>>, <<"a #)\n(", {"x"}>>}

\* What only one language writes this way.
Dialects == {
  <<"py", "(?P<n>a|b)(?P=n)", {}, "abb", Twice(Or(A, B))>>, <<"py", "[(?P<]\\(?P<?", {}, "<P<", Seq2(S({40, 63, 80, 60}), Cat(<<Rep(Lit("("), 0, 1, TRUE), Lit("P"), Rep(Lit("<"), 0, 1, TRUE)>>))>>,
  <<"py", "(?P<n", {}, "a", Wrong>>, <<"py", "(?P=n", {}, "a", Wrong>>, <<"py", "a #c", {"x"}, "a", L("a")>>,
  <<"kt", "a.", {"LITERAL"}, "aba.", L("a.")>>, <<"kt", "\\E.", {"LITERAL"}, "a\\E.", L("\\E.")>>, <<"kt", "A", {"i"}, "ba", L("A")>>,
  <<"js", "\\1", {}, "1", S({1})>>, <<"js", "A", {"i", "u"}, "ba", L("A")>>, <<"c", "a)", {"e"}, "a)", L("a)")>>}
FirstMethod(lang) == CASE lang = "py" -> "search" [] lang = "kt" -> "find" [] lang = "js" -> "exec" [] lang = "c" -> "search" [] lang = "rb" -> "match"

ByHand ==
  {Call("rb", o[1], o[2], o[3], <<"match">>, o[4]) : o \in Others}
  \cup {Call("rb", n[1], n[2], "a", <<"match">>, Wrong) : n \in NoPattern}
  \cup {Call(d[1], d[2], d[3], d[4], <<FirstMethod(d[1])>>, d[5]) : d \in Dialects}
  \cup UNION {{[Call(r[1], "(?<n>a)?b", {}, "bab", <<m>>, Seq2(Rep(G1(L("a")), 0, 1, TRUE), B)) EXCEPT !.repl = r[2], !.says = r[3]]
                : m \in Replacing(r[1])} : r \in Templates}
  \cup {Call("rb", "(a|a)*b", {}, "aaaaaaaaa", <<m>>, Seq2(Star(G1(Or(A, A)), TRUE), B)) : m \in {"match", "gsub"}}

\* With what the regular expression is compiled to.
Made(calls) ==
  LET one == CHOOSE c \in calls : TRUE
  IN  {c @@ [re |-> made] : c \in calls, made \in {NewRegex(one.lang, one.pattern, one.flags)}}
MCRegexCalls == UNION {Made(calls) : calls \in FromTrees \cup FromLooks \cup Plainly \cup {{c} : c \in ByHand}}
MCLookingCalls == UNION {Made(calls) : calls \in FromLooks}
MCExhausting == {"(a|a)*b"}
=============================================================================
