---------------------------- MODULE RegexMethods ----------------------------
(***************************************************************************)
(* The methods through which the languages use the shared engine: Ruby's   *)
(* (abnf/jsrtregex.go), JavaScript's (jsrtregexjs.go), Python's            *)
(* (jsrtregexpy.go), Kotlin's (jsrtregexkt.go) and the C floor's           *)
(* (jsrtregexptr.go).                                                      *)
(*                                                                         *)
(* A behaviour is a program that makes one regular expression and calls    *)
(* its methods on one text, one after the other: a record                  *)
(*   [lang, pattern, flags, text, methods, from, limit, repl]              *)
(* (from: the position given, or lastIndex as the program has set it) with *)
(* the fields re, use and template for the engine.  Results keep the       *)
(* positions of groups; how a language wraps them in objects is left out,  *)
(* as is what a callback does besides its answer.                          *)
(***************************************************************************)
EXTENDS Regex

VARIABLES
  todo,       \* the methods still to be called, the running one first
  lastIndex,  \* of a JavaScript RegExp
  hits,       \* matches the running sub or split has used
  results     \* of the methods called

methodVars == <<engineVars, todo, lastIndex, hits, results>>
program == <<todo, lastIndex, hits, results>>

-----------------------------------------------------------------------------
(* Patterns.                                                               *)

JsNeutral(fl) == {"o", "j"} \cup (fl \cap {"i", "s", "m"})
PyReFlagStr(fl) == fl \cap {"i", "s", "m", "x"}
KtRxFlags(fl) == {"q"} \cup (fl \cap {"i", "s", "m", "x"})
NeutralFlags(lang, fl) ==
  CASE lang = "js" -> JsNeutral(fl) [] lang = "py" -> PyReFlagStr(fl) [] lang = "kt" -> KtRxFlags(fl) [] OTHER -> fl

HasAt(s, i, w) == i + Len(w) - 1 <= Len(s) /\ SubSeq(s, i, i + Len(w) - 1) = Chars(w)
\* The first of these characters from i on, or the end.
Until(s, i, c) == LET ends == {j \in i .. Len(s) : s[j] = c} IN IF ends = {} THEN Len(s) + 1 ELSE Min(ends)

\* pyRePat: (?P<n> and (?P=n) outside of classes and escapes; None if one has no end.
RECURSIVE PyPattern(_, _, _)
PyPattern(s, i, inClass) ==
  LET gives(w, next, cls) ==
        LET rest == PyPattern(s, next, cls) IN IF rest = <<None>> THEN rest ELSE w \o rest
      opens == ~inClass /\ HasAt(s, i, "(?P<")
      refers == ~inClass /\ HasAt(s, i, "(?P=")
      end == Until(s, i + 4, IF opens THEN ">" ELSE ")")
      name == SubSeq(s, i + 4, end - 1)
  IN  CASE i > Len(s) -> <<>>
        [] i <= Len(s) /\ s[i] = "\\" -> gives(SubSeq(s, i, Min({i + 1, Len(s)})), i + 2, inClass)
        [] (opens \/ refers) /\ end > Len(s) -> <<None>>
        [] opens /\ end <= Len(s) -> gives(<<"(", "?", "<">> \o name \o <<">">>, end + 1, FALSE)
        [] refers /\ end <= Len(s) -> gives(<<"\\", "k", "<">> \o name \o <<">">>, end + 1, FALSE)
        [] OTHER -> gives(<<s[i]>>, i + 1, IF inClass THEN s[i] # "]" ELSE s[i] = "[")

\* ktRxQuote: an \E closes the quoted region and opens it again.
RECURSIVE Requoted(_, _)
Requoted(s, i) ==
  IF i > Len(s) THEN <<>>
  ELSE IF HasAt(s, i, "\\E") THEN Chars("\\E\\\\E\\Q") \o Requoted(s, i + 2)
  ELSE <<s[i]>> \o Requoted(s, i + 1)
Quote(s) == Chars("\\Q") \o Requoted(s, 1) \o Chars("\\E")

Joins(s) == FoldLeft(LAMBDA a, b : a \o b, "", s)
NewRegex(lang, pattern, fl) ==
  LET s == Chars(pattern)
      py == PyPattern(s, 1, FALSE)
  IN  IF lang = "py" /\ py = <<None>> THEN [ok |-> FALSE]
      ELSE Compile(CASE lang = "py" -> Joins(py)
                     [] lang = "kt" /\ "LITERAL" \in fl -> Joins(Quote(s))
                     [] OTHER -> pattern, NeutralFlags(lang, fl))

-----------------------------------------------------------------------------
(* Templates of replacements: each language's into expand's.               *)

Ref(name) == <<"\\", "k", "<">> \o name \o <<">">>

RECURSIVE JsTemplate(_, _), PyTemplate(_, _), KtTemplate(_, _)
JsTemplate(s, i) ==
  LET d == At(s, i + 1)
      end == Until(s, i + 2, ">")
  IN  IF i > Len(s) THEN <<>>
      ELSE IF s[i] = "\\" THEN <<"\\", "\\">> \o JsTemplate(s, i + 1)
      ELSE IF s[i] # "$" \/ d = None THEN <<s[i]>> \o JsTemplate(s, i + 1)
      ELSE IF d = "$" THEN <<"$">> \o JsTemplate(s, i + 2)
      ELSE IF d = "&" THEN <<"\\", "0">> \o JsTemplate(s, i + 2)
      ELSE IF IsDigit(d) /\ d # "0" THEN <<"\\", d>> \o JsTemplate(s, i + 2)
      ELSE IF d = "<" THEN Ref(SubSeq(s, i + 2, end - 1)) \o JsTemplate(s, end + 1)
      ELSE <<"$">> \o JsTemplate(s, i + 1)

PyTemplate(s, i) ==
  LET end == Until(s, i + 3, ">")
      name == SubSeq(s, i + 3, end - 1)
  IN  IF i > Len(s) THEN <<>>
      ELSE IF HasAt(s, i, "\\g<")
           THEN (IF name # <<>> /\ \A k \in DOMAIN name : IsDigit(name[k]) THEN <<"\\">> \o name ELSE Ref(name))
                \o PyTemplate(s, end + 1)
      ELSE IF s[i] = "\\" THEN SubSeq(s, i, Min({i + 1, Len(s)})) \o PyTemplate(s, i + 2)
      ELSE <<s[i]>> \o PyTemplate(s, i + 1)

KtTemplate(s, i) ==
  LET d == At(s, i + 1)
      end == Until(s, i + 2, "}")
      name == SubSeq(s, i + 2, end - 1)
  IN  IF i > Len(s) THEN <<>>
      ELSE IF s[i] = "\\"
           THEN (IF d \in {None, "\\"} THEN <<"\\", "\\">> ELSE <<d>>) \o KtTemplate(s, i + 2)
      ELSE IF s[i] = "$" /\ IsDigit(d) THEN <<"\\", d>> \o KtTemplate(s, i + 2)
      ELSE IF s[i] = "$" /\ d = "{"
           THEN (IF IsDigit(At(name, 1)) THEN <<"\\", name[1]>> ELSE Ref(name)) \o KtTemplate(s, end + 1)
      ELSE <<s[i]>> \o KtTemplate(s, i + 1)

Template(lang, repl) ==
  LET s == Chars(repl) IN
  CASE lang = "js" -> JsTemplate(s, 1) [] lang = "py" -> PyTemplate(s, 1) [] lang = "kt" -> KtTemplate(s, 1)
    [] OTHER -> s

-----------------------------------------------------------------------------
(* Which loop a method runs.                                               *)

Global == "g" \in call.flags
Sticky == "y" \in call.flags

\* rxRegexMethod.
RubyLoop(m) == IF m \in {"match", "match?", "=~", "index"} THEN "search" ELSE m

\* rxPyReMethod.
PythonLoop(m) ==
  CASE m = "match" -> "at" [] m = "fullmatch" -> "whole" [] m = "search" -> "search"
    [] m \in {"findall", "finditer"} -> "py.findall" [] m \in {"sub", "subn"} -> "py.sub" [] m = "split" -> "py.split"

\* ktRxMethod.
KotlinLoop(m) ==
  CASE m \in {"matches", "matchEntire"} -> "whole" [] m \in {"contains", "containsMatchIn", "find"} -> "search"
    [] m = "findAll" -> "kt.findAll" [] m = "next" -> "kt.next"
    [] m \in {"replace", "replaceFirst"} -> "kt.replace" [] m = "replaceFn" -> "kt.replaceFn" [] m = "split" -> "kt.split"

\* jsxMethod, jsxTest, jsxExec.
Execs(m) == m = "exec" \/ (m = "test" /\ (Global \/ Sticky)) \/ (m = "match" /\ ~Global)
JavaScriptLoop(m) ==
  CASE Execs(m) -> IF Sticky THEN "at" ELSE "search"
    [] m = "search" \/ (m = "test" /\ ~Execs(m)) -> "search"
    [] m = "matchAll" \/ (m = "match" /\ Global) -> "js.matchAll"
    [] m = "replace" -> IF Global THEN "gsub" ELSE "sub"
    [] m = "replaceAll" -> "gsub" [] m = "replaceFn" -> "js.replaceFn" [] m = "split" -> "js.split"

Loop(m) ==
  CASE call.lang = "rb" -> RubyLoop(m) [] call.lang = "py" -> PythonLoop(m) [] call.lang = "kt" -> KotlinLoop(m)
    [] call.lang = "js" -> JavaScriptLoop(m) [] call.lang = "c" -> "c.search"

\* Where it begins to search.
From(m) ==
  CASE call.lang = "js" -> IF Execs(m) /\ (Global \/ Sticky) THEN lastIndex ELSE 0
    [] call.lang \in {"py", "kt"} /\ m \in {"search", "match", "fullmatch", "find", "next"} -> call.from
    [] call.lang = "rb" /\ m = "match" -> call.from
    [] OTHER -> 0

\* A limit that ends the method at once, with no search.
NoSearch(use) ==
  \/ use = "kt.split" /\ call.limit = 1
  \/ use = "js.split" /\ call.limit = 0 /\ Text # <<>>

Calling ==
  LET m == Head(todo)
      use == Loop(m)
  IN
  /\ phase = "ready" /\ todo # <<>>
  /\ call' = [call EXCEPT !.use = use, !.template = Template(call.lang, call.repl)]
  /\ last' = 0 /\ out' = <<>> /\ hits' = 0
  /\ IF re.ok /\ From(m) <= Len(Text) /\ ~NoSearch(use) THEN Attempts(From(m))
     ELSE phase' = (IF re.ok THEN "exhausted" ELSE "error") /\ UNCHANGED <<machine, at>>
  /\ UNCHANGED <<re, todo, lastIndex, results>>

-----------------------------------------------------------------------------
(* The loops: what each does with a match.                                 *)

Matched(use) == phase = "found" /\ call.use = use /\ UNCHANGED <<todo, lastIndex, results>>
Hit(use) == Matched(use) /\ UNCHANGED hits
Counted(use) == Matched(use) /\ hits' = hits + 1
IsLimit(n) == call.limit > 0 /\ n >= call.limit
\* A group that has taken no part shows as an empty one.
GroupTexts == [g \in 1 .. re.ngroups |-> TextOf(g)]
\* What a callback of the program answers: the match in parentheses.
Callback == <<Code("(")>> \o TextOf(0) \o <<Code(")")>>

JsMatchAll == Hit("js.matchAll") /\ Collects
PyFindAll == Hit("py.findall") /\ Collects
KtFindAll == Hit("kt.findAll") /\ Collects
\* find(), and next() on each MatchResult.
KtNext == Hit("kt.next") /\ Collects

JsReplaceFn == Hit("js.replaceFn") /\ ReplacesBy(Callback, ~Global)
KtReplaceFn == Hit("kt.replaceFn") /\ ReplacesBy(Callback, FALSE)
PySub == Counted("py.sub") /\ ReplacesBy(Expand(call.template, 1), IsLimit(hits + 1))
KtReplace == Hit("kt.replace") /\ ReplacesBy(Expand(call.template, 1), Head(todo) = "replaceFirst")

Rest(parts, from) == Append(parts, Piece(from, Len(Text)))
PySplit ==
  LET parts == Append(out, Piece(last, Begin)) \o GroupTexts IN
  /\ Counted("py.split")
  /\ IF End = Begin /\ Begin >= Len(Text) THEN Done(Rest(out, last))
     ELSE IF IsLimit(hits + 1) THEN Done(Rest(parts, End))
     ELSE Continues(After, End, parts)

\* An empty match cuts behind the next character.
KtSplit ==
  LET cut == IF End = Begin THEN Begin + 1 ELSE Begin
      to == IF End = Begin THEN Begin + 1 ELSE End
      parts == Append(out, Piece(last, cut))
  IN
  /\ Hit("kt.split")
  /\ IF End = Begin /\ Begin >= Len(Text) THEN Done(Rest(out, last))
     ELSE IF IsLimit(Len(parts) + 1) THEN Done(Rest(parts, to))
     ELSE Continues(to, to, parts)

\* The code searches from each position and drops a match that begins later; this is
\* the next one.
JsSplit ==
  LET parts == Append(out, Piece(last, Begin)) \o GroupTexts IN
  /\ Hit("js.split")
  /\ IF Text = <<>> THEN Done(<<>>)
     ELSE IF Begin >= Len(Text) THEN Done(Rest(out, last))
     ELSE IF End = last THEN Continues(Begin + 1, last, out)
     ELSE IF call.limit >= 0 /\ Len(parts) >= call.limit THEN Done(SubSeq(parts, 1, call.limit))
     ELSE IF End >= Len(Text) THEN Done(Rest(parts, End))
     ELSE Continues(End, End, parts)

\* rt_regex_search: the number of pairs, and as many of the slots as there is room for.
CSearch ==
  LET slots == 2 * Min({re.ngroups + 1, call.limit \div 2}) IN
  /\ Hit("c.search")
  /\ Done(<<re.ngroups + 1, [i \in 1 .. call.limit |-> IF i <= slots THEN caps[i - 1] ELSE -1]>>)

\* No match is left.
NoMore ==
  /\ phase = "exhausted" /\ UNCHANGED program
  /\ Done(CASE call.use \in {"gsub", "sub", "py.sub", "kt.replace", "kt.replaceFn", "js.replaceFn"} -> out \o Piece(last, Len(Text))
            [] call.use \in {"split", "py.split", "kt.split"} \/ (call.use = "js.split" /\ ~NoSearch(call.use)) -> Rest(out, last)
            [] call.use = "c.search" -> <<0, [i \in 1 .. call.limit |-> -1]>>
            [] OTHER -> out)

\* Mutant: exec leaves lastIndex alone when it finds nothing.
StaysOnFailure(m) ==
  IF Execs(m) /\ (Global \/ Sticky) THEN IF out = <<>> THEN lastIndex ELSE out[1][0][2]
  ELSE lastIndex

\* What a method leaves in lastIndex.
NextIndex(m) ==
  IF Execs(m) /\ (Global \/ Sticky) THEN IF out = <<>> THEN 0 ELSE out[1][0][2]
  ELSE IF call.use = "js.matchAll" \/ (m \in {"replace", "replaceAll", "replaceFn"} /\ Global) THEN 0
  ELSE lastIndex

Answered ==
  /\ phase = "done" /\ phase' = "ready"
  /\ todo' = Tail(todo) /\ results' = Append(results, out)
  /\ lastIndex' = IF call.lang = "js" THEN NextIndex(Head(todo)) ELSE lastIndex
  /\ UNCHANGED <<call, re, machine, at, last, out, hits>>

RegexInit ==
  /\ EngineInit
  /\ todo = call.methods /\ lastIndex = call.from /\ hits = 0 /\ results = <<>>

RegexNext ==
  \/ EngineNext /\ UNCHANGED program
  \/ Calling \/ JsMatchAll \/ PyFindAll \/ KtFindAll \/ KtNext
  \/ JsReplaceFn \/ KtReplaceFn \/ PySub \/ KtReplace \/ PySplit \/ KtSplit \/ JsSplit \/ CSearch
  \/ NoMore \/ Answered

RegexSpec == RegexInit /\ [][RegexNext]_methodVars
=============================================================================
