------------------------------ MODULE WalkProps ------------------------------
(***************************************************************************)
(* What a parse hands to the compiler's walk (abnf/parser.go:              *)
(* mergeTerminals), and what the scripts of the walk find of it.           *)
(***************************************************************************)
EXTENDS Walk

CONSTANTS Asgs        \* what the parser has found, before its tokens are merged
VARIABLES raw         \* the productions of the parse

-----------------------------------------------------------------------------
(* mergeTerminals.                                                         *)

Token(s) == [op |-> "token", text |-> s, kids |-> <<>>, codes |-> <<>>, uid |-> 0]

\* Mutant: a run's first token is all that stays of it.
FirstOfRun(a, b) == Token(a.text)

OneToken(a, b) == Token(a.text \o b.text)

RECURSIVE MergeTerminals(_)
MergeTerminals(rules) ==
  IF rules = <<>> THEN <<>>
  ELSE LET done == MergeTerminals(Front(rules))
           last == rules[Len(rules)]
       IN  IF last.op # "token" THEN Append(done, [last EXCEPT !.kids = MergeTerminals(last.kids)])
           ELSE IF done # <<>> /\ done[Len(done)].op = "token"
           THEN Append(Front(done), OneToken(done[Len(done)], last))
           ELSE Append(done, Token(last.text))

-----------------------------------------------------------------------------
(* What a parse hands over is walked.                                      *)

vars == <<raw, walkVars>>
Init == raw \in Asgs /\ Begins(MergeTerminals(raw))
Next == WalkNext /\ UNCHANGED raw
Spec == Init /\ [][Next]_vars

-----------------------------------------------------------------------------
(* What the walk has to do.                                                *)

\* The texts and objects in a value, in order, whatever arrays they are in.
RECURSIVE Leaves(_)
Leaves(v) ==
  CASE v.kind # "array" -> v.of
    [] v.of = <<>> -> <<>>
    [] OTHER -> Leaves(Array(Front(v.of))) \o Leaves(v.of[Len(v.of)])

LeavesAt(m, k) == IF k \in DOMAIN m THEN Leaves(m[k]) ELSE <<>>

\* What one call holds of a key, and what the innermost ones hold together.
Holds(c, k) ==
  CASE calls[c].call = "rules" -> LeavesAt(calls[c].acc, k)
    [] calls[c].call = "script" -> LeavesAt(maps[calls[c].level], k)
    [] OTHER -> <<>>
Below(n, k) ==
  LET upTo[c \in 0 .. n] == IF c = 0 THEN <<>> ELSE upTo[c - 1] \o Holds(c, k)
  IN  upTo[n]

LengthsBelow(n) == [k \in UpKeys |-> Len(Below(n, k))]
MarksOf(c) ==
  CASE calls[c].call = "tag" -> <<LengthsBelow(c - 1)>>
    [] calls[c].call = "script" -> IF calls[c].waits THEN <<LengthsBelow(c - 1), LengthsBelow(c)>> ELSE <<LengthsBelow(c - 1)>>
    [] OTHER -> <<>>
Marks ==
  LET upTo[c \in 0 .. Len(calls)] == IF c = 0 THEN <<>> ELSE upTo[c - 1] \o MarksOf(c)
  IN  upTo[Len(calls)]

RECURSIVE TextOf(_)
TextOf(rules) ==
  IF rules = <<>> THEN <<>>
  ELSE TextOf(Front(rules)) \o rules[Len(rules)].text \o TextOf(rules[Len(rules)].kids)

RECURSIVE TextsIn(_)
TextsIn(rules) ==
  UNION {TextsIn(rules[n].kids) \cup (IF rules[n].op = "token" THEN {rules[n].text} ELSE {}) : n \in DOMAIN rules}

\* The lists that the maps of the innermost calls hold together, and the marks of those that run.
Bar == INSTANCE Upstream WITH
  Keys <- UpKeys, lists <- [k \in UpKeys |-> Below(Len(calls), k) \o (IF ret = Pending THEN <<>> ELSE LeavesAt(ret, k))],
  marks <- Marks, Items <- Vals, Texts <- UNION {TextsIn(list) : list \in Parsed \cup {MergeTerminals(a) : a \in Asgs}}

RECURSIVE Tags(_)
Tags(rules) ==
  IF rules = <<>> THEN <<>>
  ELSE LET last == rules[Len(rules)]
       IN  Tags(Front(rules)) \o (IF last.op = "tag" THEN <<[codes |-> last.codes, text |-> TextOf(last.kids), in |-> Tags(last.kids)]>>
                                  ELSE IF last.op = "token" THEN <<>> ELSE Tags(last.kids))

RECURSIVE Neighbours(_)
Neighbours(rules) ==
  \E n \in DOMAIN rules :
    Neighbours(rules[n].kids) \/ (n > 1 /\ rules[n].op = "token" /\ rules[n - 1].op = "token")

\* Merging the tokens leaves every tag where it was and the text below it the same.
MergedIsTheSame == Tags(asg) = Tags(raw) /\ TextOf(asg) = TextOf(raw) /\ ~Neighbours(asg)

\* Every script finds under each key what the rules below it and their scripts have left
\* there, in the order of the text, whatever the number of siblings at each level is; what it
\* leaves goes to the next script above, once; a nested compile takes and leaves nothing.
\* And the text in the graph is that of the parse.
ImplementsUpstream == Bar!Spec /\ []MergedIsTheSame
=============================================================================
