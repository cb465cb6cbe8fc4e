------------------------------- MODULE Parser -------------------------------
(***************************************************************************)
(* The a-grammar parser (abnf/parser.go): a backtracking, top-down match   *)
(* of a rule tree against the target text, with its three memos: the       *)
(* whitespace memo, the block list (-lb) and the found list (-lf).         *)
(*                                                                         *)
(* apply() is recursive; stack holds one frame per running application,    *)
(* with its locals, and answer the result the innermost one returned.  A   *)
(* character is a number and a byte wide (UTF-8 decoding is left out); a   *)
(* :script() is what it does: it reads and writes the script's own state   *)
(* js, may move Sdx, may replace the text and may hand back a rule.        *)
(***************************************************************************)
EXTENDS Integers, Sequences, SequencesExt

CONSTANTS Cases,      \* [grammar, inputs, options], an a-grammar, the texts to
                      \* parse and the values of the flags [lb, lf], -lb and -lf; a
                      \* grammar is [prods, start, commands, scripts, other (the
                      \* text a script sets)]
          MaxDepth,   \* applications that fit on Go's stack
          LinkDepth   \* the longest chain of links between two rules of a case

ASSUME BoundsAssumption == MaxDepth \in Nat \ {0} /\ LinkDepth \in Nat

\* Texts are sequences of characters.
ASSUME TextsAssumption ==
  \A c \in Cases : c.grammar.other \in Seq(Nat) /\ \A t \in c.inputs : t \in Seq(Nat)

VARIABLES gram, opts, \* the a-grammar, and the flags
          given,      \* the text it was given
          pureCache,  \* its productions that reach no :script()
          Src, Sdx,   \* the text, and how much of it is behind the position
          stack, answer, out,
          blockList,  \* the keys of the running applications (-lb)
          foundList,  \* key -> [prods, sdx], the successful ones (-lf)
          wsCache,    \* <<whitespace rule, start>> -> end of the skip
          js,         \* the state the :script() rules keep
          result,     \* what the start rule answered
          stat

input == <<gram, opts, given, pureCache>>
text == <<Src, Sdx>>
control == <<stack, answer, out>>
lists == <<blockList, foundList>>
vars == <<input, text, control, lists, wsCache, js, result, stat>>

-----------------------------------------------------------------------------
(* Rules.  A Command carries its name as its operator.                     *)

NoRule == [op |-> "nil", kids |-> <<>>, args |-> <<>>, txt |-> <<>>, n |-> 0]
TokenOf(txt) == [NoRule EXCEPT !.op = "Token", !.txt = txt]
NumberOf(n) == [NoRule EXCEPT !.op = "Number", !.n = n]
SeqWrapper(kids) == [NoRule EXCEPT !.op = "Sequence", !.kids = kids]

IsCommand(r) == r.op \in {"whitespace", "number", "script"}
IsTerminal(r) == r.op \in {"Token", "CharOf", "CharsOf", "Range"}
Resolved(r) == r.n \in DOMAIN gram.prods

\* A list of rules as one: the body of a Repeat or Times; and the body of an
\* Identifier, Optional or Tag, where a sole Command keeps its sequence.
OneRule(kids) == IF Len(kids) = 1 THEN kids[1] ELSE SeqWrapper(kids)
AsSequence(kids) ==
  IF Len(kids) = 1 /\ ~IsCommand(kids[1]) THEN kids[1] ELSE SeqWrapper(kids)

\* hasScript follows children, parameters and the links of Identifiers.
Links(prods, r) ==
  ToSet(r.kids) \cup ToSet(r.args) \cup
  (IF r.op = "Identifier" /\ r.n \in DOMAIN prods THEN ToSet(prods[r.n]) ELSE {})
Reachable(prods, rule) ==
  LET within[k \in 0 .. LinkDepth] ==
        IF k = 0 THEN {rule}
        ELSE LET nearer == within[k - 1] IN nearer \cup UNION {Links(prods, r) : r \in nearer}
  IN  within[LinkDepth]

Harmless(prods, r) == r.op # "script" /\ (r.op = "Identifier" => r.n \in DOMAIN prods)

Pure(prods, rule) == \A r \in Reachable(prods, rule) : Harmless(prods, r)

\* The answer for a production depends on the a-grammar only.
PureProductions ==
  {n \in DOMAIN gram.prods : Pure(gram.prods, [NoRule EXCEPT !.op = "Identifier", !.n = n])}
PureSpaces(ws) == Pure(gram.prods, ws)

-----------------------------------------------------------------------------
(* Applications.                                                           *)

Live == stat \in {"parsing", "trailing"}
Top == stack[Len(stack)]
Below == SubSeq(stack, 1, Len(stack) - 1)
With(f) == [stack EXCEPT ![Len(stack)] = f]

\* The innermost application is in this phase, and no answer is pending.
At(phase) ==
  Live /\ answer = "none" /\ Len(stack) \in 1 .. MaxDepth /\ Top.phase = phase
\* It has called apply() in this phase, and the call has answered.
Back(phase) == Live /\ answer # "none" /\ stack # <<>> /\ Top.phase = phase

Frame(rule, ws, skip, sdx) ==
  [rule |-> rule, ws |-> ws, skip |-> skip, was |-> sdx, phase |-> "enter",
   i |-> 1, at |-> sdx, prods |-> <<>>, counts |-> rule.args]

\* The frame on top calls apply(rule, ws, skip) and becomes f meanwhile.
Call(f, rule, ws, skip, sdx) ==
  /\ stack' = Append(With(f), Frame(rule, ws, skip, sdx))
  /\ UNCHANGED <<answer, out>>

Continue(f) == stack' = With(f) /\ answer' = "none" /\ out' = <<>>
Pop(ans, prods) == stack' = Below /\ answer' = ans /\ out' = prods

\* getRulePosId: Cantor's pairing function.
RulePosId(r, pos) == ((pos + r.n) * (pos + r.n + 1)) \div 2 + r.n

\* Mutant: the key of the lists before the whitespace context was part of it.
KeyWithoutContext(f) == [id |-> RulePosId(f.rule, f.was), ws |-> NoRule, skipping |-> FALSE]
Key(f) == [id |-> RulePosId(f.rule, f.was), ws |-> f.ws, skipping |-> f.skip]
Listed(f) == f.rule.op = "Identifier" /\ (opts.lb \/ opts.lf) /\ f.rule.n \in pureCache

Put(fn, k, v) == [x \in DOMAIN fn \cup {k} |-> IF x = k THEN v ELSE fn[x]]

\* ruleExit, on a match and on a failure.
Unblock(f) == blockList' = IF Listed(f) THEN blockList \ {Key(f)} ELSE blockList

Match(prods, sdx) ==
  /\ Pop("match", prods) /\ Sdx' = sdx
  /\ Unblock(Top)
  /\ foundList' = IF Listed(Top) /\ opts.lf
                  THEN Put(foundList, Key(Top), [prods |-> prods, sdx |-> sdx])
                  ELSE foundList

\* Mutant: a failing rule leaves the position where it got to.
FailInPlace == Pop("fail", <<>>) /\ Unblock(Top) /\ UNCHANGED <<Sdx, foundList>>

\* Mutant: one of the failing exits forgets ruleExit.
FailStaysBlocked == Pop("fail", <<>>) /\ Sdx' = Top.was /\ UNCHANGED lists

Fail ==
  /\ Pop("fail", <<>>) /\ Sdx' = Top.was
  /\ Unblock(Top) /\ UNCHANGED foundList

\* A panic ends the parse with an error.
Panic == stat' = "error" /\ UNCHANGED <<text, control, lists>>

Reused == Listed(Top) /\ opts.lf /\ Key(Top) \in DOMAIN foundList
Blocked == Listed(Top) /\ opts.lb /\ ~Reused /\ Key(Top) \in blockList

BlockedExit == Pop("fail", <<>>) /\ UNCHANGED blockList
Block == blockList' = IF Listed(Top) /\ opts.lb THEN blockList \cup {Key(Top)} ELSE blockList

\* Mutant: the terminals of a whitespace rule skip whitespace themselves.
SkipsAlways(f) == IsTerminal(f.rule) /\ f.ws # NoRule
SkipsFirst(f) == IsTerminal(f.rule) /\ ~f.skip /\ f.ws # NoRule

\* ruleEnter and the start of apply().
Enter ==
  /\ At("enter") /\ ~Reused /\ ~Blocked
  /\ Block
  /\ Continue([Top EXCEPT !.phase =
       CASE SkipsFirst(Top) -> "spaces"
         [] Top.rule.op = "Times" -> "params"
         [] OTHER -> "body"])
  /\ UNCHANGED <<input, text, foundList, wsCache, js, result, stat>>

\* The result is there already, in the found list; the position moves behind it.
EnterFound ==
  /\ At("enter") /\ Reused
  /\ Pop("match", foundList[Key(Top)].prods)
  /\ Sdx' = foundList[Key(Top)].sdx
  /\ UNCHANGED <<input, Src, lists, wsCache, js, result, stat>>

\* The rule is its own parent at this position.
EnterBlocked ==
  /\ At("enter") /\ Blocked
  /\ BlockedExit
  /\ UNCHANGED <<input, text, foundList, wsCache, js, result, stat>>

\* Go's stack has a limit; reaching it is fatal.
Overflow ==
  /\ Live /\ Len(stack) > MaxDepth
  /\ stat' = "overflow"
  /\ UNCHANGED <<input, text, control, lists, wsCache, js, result>>

-----------------------------------------------------------------------------
(* Whitespace and terminals.                                               *)

Memo == <<Top.ws, Sdx>>

\* skipSpaces: from the memo, or by applying the whitespace rule for real.
SkipKnown ==
  /\ At("spaces") /\ PureSpaces(Top.ws) /\ Memo \in DOMAIN wsCache
  /\ Sdx' = wsCache[Memo]
  /\ Continue([Top EXCEPT !.phase = "body"])
  /\ UNCHANGED <<input, Src, lists, wsCache, js, result, stat>>

SkipSpaces ==
  /\ At("spaces") /\ ~(PureSpaces(Top.ws) /\ Memo \in DOMAIN wsCache)
  /\ Call([Top EXCEPT !.phase = "skipping", !.at = Sdx], Top.ws, Top.ws, TRUE, Sdx)
  /\ UNCHANGED <<input, text, lists, wsCache, js, result, stat>>

\* Mutant: the end of the skip is kept for all the positions skipped over.
MemoizeRun(ws, start) ==
  wsCache' = IF PureSpaces(ws)
             THEN [x \in DOMAIN wsCache \cup {<<ws, k>> : k \in start .. Sdx} |->
                     IF x[1] = ws /\ x[2] \in start .. Sdx THEN Sdx ELSE wsCache[x]]
             ELSE wsCache

\* The probe's answer does not matter, only where it ended.
Memoize(ws, start) ==
  wsCache' = IF PureSpaces(ws) THEN Put(wsCache, <<ws, start>>, Sdx) ELSE wsCache

SkipDone ==
  /\ Back("skipping")
  /\ Memoize(Top.ws, Top.at)
  /\ Continue([Top EXCEPT !.phase = "body"])
  /\ UNCHANGED <<input, text, lists, js, result, stat>>

Ahead(k) == SubSeq(Src, Sdx + 1, Sdx + k)
InSet(r, ch) ==
  CASE r.op = "Range" -> r.args[1].txt[1] <= ch /\ ch <= r.args[2].txt[1]
    [] OTHER -> (ch \in ToSet(r.txt)) # (r.n \div 2 % 2 = 1)  \* CharTypeNegated

\* How many characters the terminal takes here, -1 when it does not match.
Width(r) ==
  CASE r.op = "Token" ->
         IF Sdx + Len(r.txt) <= Len(Src) /\ Ahead(Len(r.txt)) = r.txt THEN Len(r.txt) ELSE -1
    [] r.op = "CharsOf" ->
         LET run == {k \in 0 .. Len(Src) - Sdx : \A j \in 1 .. k : InSet(r, Src[Sdx + j])}
         IN  IF run \subseteq {0} THEN -1 ELSE CHOOSE k \in run : \A j \in run : j <= k
    [] OTHER -> IF Sdx < Len(Src) /\ InSet(r, Src[Sdx + 1]) THEN 1 ELSE -1

MatchTerminal ==
  /\ At("body") /\ IsTerminal(Top.rule)
  /\ LET w == Width(Top.rule) IN
       IF w < 0 THEN Fail
       ELSE Match(IF Top.skip THEN <<>> ELSE <<TokenOf(Ahead(w))>>, Sdx + w)
  /\ UNCHANGED <<input, Src, wsCache, js, result, stat>>

-----------------------------------------------------------------------------
(* The rules that apply others.                                            *)

\* The clone of a Times, in which :number() is replaced by what it reads.
Counts(f) == f.counts
From(f) == Counts(f)[1].n
To(f) == IF Len(Counts(f)) > 1 THEN Counts(f)[2].n ELSE From(f)
\* The rounds there can be: first those it has to match, then up to To.
AtLeast0(n) == IF n > 0 THEN n ELSE 0
Wanted(f) == AtLeast0(From(f)) + AtLeast0(To(f) - From(f))

HasKid(f) ==
  CASE f.rule.op \in {"Sequence", "Or"} -> f.i <= Len(f.rule.kids)
    [] f.rule.op = "Times" -> f.i <= Wanted(f)
    [] f.rule.op = "Identifier" -> Resolved(f.rule)
    [] OTHER -> f.rule.op \in {"Not", "Repeat", "Optional", "Tag"}

Kid(f) ==
  CASE f.rule.op \in {"Sequence", "Or", "Not"} -> f.rule.kids[f.i]
    [] f.rule.op \in {"Repeat", "Times"} -> OneRule(f.rule.kids)
    [] f.rule.op \in {"Optional", "Tag"} -> AsSequence(f.rule.kids)
    [] f.rule.op = "Identifier" -> AsSequence(gram.prods[f.rule.n])

Descend ==
  /\ At("body") /\ HasKid(Top)
  /\ Call([Top EXCEPT !.phase = "kid", !.at = Sdx], Kid(Top), Top.ws, Top.skip, Sdx)
  /\ UNCHANGED <<input, text, lists, wsCache, js, result, stat>>

Unknown ==
  /\ At("body") /\ Top.rule.op = "Identifier" /\ ~Resolved(Top.rule)
  /\ Panic
  /\ UNCHANGED <<input, wsCache, js, result>>

\* All the children of a sequence matched, all the counted ones, or none of
\* the alternatives did.
KidsDone ==
  /\ At("body") /\ Top.rule.op \in {"Sequence", "Or", "Times"} /\ ~HasKid(Top)
  /\ IF Top.rule.op = "Or" THEN Fail ELSE Match(Top.prods, Sdx)
  /\ UNCHANGED <<input, Src, wsCache, js, result, stat>>

\* The whitespace of the rest of a sequence, after a child with this answer.
SpacesAfter(ws, prods) ==
  LET commands == SelectSeq(prods, IsCommand) IN
  IF commands = <<>> THEN ws
  ELSE IF Last(commands).args = <<>> THEN NoRule ELSE Last(commands).args[1]
IsProduct(r) == ~IsCommand(r)

NextKid(prods) ==
  Continue([Top EXCEPT !.phase = "body", !.i = @ + 1, !.prods = @ \o prods])

SequenceTakes ==
  /\ Back("kid") /\ Top.rule.op = "Sequence"
  /\ IF answer = "fail" THEN Fail
     ELSE /\ Continue([Top EXCEPT !.phase = "body", !.i = @ + 1,
                                  !.ws = SpacesAfter(@, out),
                                  !.prods = @ \o SelectSeq(out, IsProduct)])
          /\ UNCHANGED <<Sdx, lists>>
  /\ UNCHANGED <<input, Src, wsCache, js, result, stat>>

OrTakes ==
  /\ Back("kid") /\ Top.rule.op = "Or"
  /\ IF answer = "match" THEN Match(out, Sdx)
     ELSE NextKid(<<>>) /\ UNCHANGED <<Sdx, lists>>
  /\ UNCHANGED <<input, Src, wsCache, js, result, stat>>

\* The lookahead consumes nothing.
NotTakes ==
  /\ Back("kid") /\ Top.rule.op = "Not"
  /\ IF answer = "match" THEN Fail ELSE Match(<<>>, Top.was)
  /\ UNCHANGED <<input, Src, wsCache, js, result, stat>>

\* Mutant: nothing stops a repetition that consumes nothing.
NoEmptyRound == FALSE
EmptyRound == Sdx = Top.at

RepeatTakes ==
  /\ Back("kid") /\ Top.rule.op = "Repeat"
  /\ IF answer = "match" /\ ~EmptyRound
     THEN /\ Continue([Top EXCEPT !.phase = "body", !.prods = @ \o out])
          /\ UNCHANGED <<Sdx, lists>>
     ELSE Match(Top.prods \o out, Sdx)
  /\ UNCHANGED <<input, Src, wsCache, js, result, stat>>

\* Resolving the counts of a Times: only a number or :number() can be one.
CountKnown ==
  /\ At("params")
  /\ IF Top.i > Len(Counts(Top)) THEN Continue([Top EXCEPT !.phase = "body", !.i = 1])
     ELSE Counts(Top)[Top.i].op = "Number" /\ Continue([Top EXCEPT !.i = @ + 1])
  /\ UNCHANGED <<input, text, lists, wsCache, js, result, stat>>

CountRead ==
  /\ At("params") /\ Top.i <= Len(Counts(Top)) /\ Counts(Top)[Top.i].op # "Number"
  /\ IF Counts(Top)[Top.i].op = "number"
     THEN /\ Call([Top EXCEPT !.phase = "count", !.at = Sdx], Counts(Top)[Top.i], Top.ws, Top.skip, Sdx)
          /\ UNCHANGED <<text, lists, stat>>
     ELSE Panic
  /\ UNCHANGED <<input, wsCache, js, result>>

CountTaken ==
  /\ Back("count")
  /\ IF answer = "match"
     THEN /\ Continue([Top EXCEPT !.phase = "params", !.i = @ + 1, !.counts[Top.i] = out[1]])
          /\ UNCHANGED <<text, lists, stat>>
     ELSE Panic
  /\ UNCHANGED <<input, wsCache, js, result>>

TimesTakes ==
  /\ Back("kid") /\ Top.rule.op = "Times"
  /\ \/ /\ answer = "fail" /\ Top.i <= From(Top) /\ Fail
     \/ /\ answer = "match" /\ (Top.i <= From(Top) \/ ~EmptyRound)
        /\ NextKid(out) /\ UNCHANGED <<Sdx, lists>>
     \/ /\ Top.i > From(Top) /\ (answer = "match" => EmptyRound)
        /\ Match(Top.prods \o out, Sdx)
  /\ UNCHANGED <<input, Src, wsCache, js, result, stat>>

\* An Optional matches either way; an Identifier and a :script() pass the
\* answer on; a Tag is what groups the ASG.
WrapperTakes ==
  /\ Back("kid") /\ Top.rule.op \in {"Optional", "Identifier", "script", "Tag"}
  /\ CASE answer = "fail" /\ Top.rule.op # "Optional" -> Fail
       [] Top.rule.op = "Tag" -> Match(<<[Top.rule EXCEPT !.kids = out]>>, Sdx)
       [] OTHER -> Match(out, Sdx)
  /\ UNCHANGED <<input, Src, wsCache, js, result, stat>>

-----------------------------------------------------------------------------
(* The inline commands.                                                    *)

\* The sequence it stands in takes it from the answer (SpacesAfter).
WhitespaceCommand ==
  /\ At("body") /\ Top.rule.op = "whitespace"
  /\ Match(<<Top.rule>>, Sdx)
  /\ UNCHANGED <<input, Src, wsCache, js, result, stat>>

\* A number in the text, by its encoding; <<>> when the bytes are no number.
LittleEndian(bs) == FoldRight(LAMBDA b, acc : acc * 256 + b, bs, 0)
BigEndian(bs) == FoldLeft(LAMBDA acc, b : acc * 256 + b, 0, bs)
Nibbles(bs) == FlattenSeq([k \in DOMAIN bs |-> <<bs[k] \div 16, bs[k] % 16>>])
Decimal(ds, sign) ==
  IF ds # <<>> /\ ToSet(ds) \subseteq 0 .. 9
  THEN <<sign * FoldLeft(LAMBDA acc, k : acc * 10 + k, 0, ds)>> ELSE <<>>
BCD(bs) ==
  LET ns == Nibbles(bs) IN Decimal(IF Last(ns) = 15 THEN Front(ns) ELSE ns, 1)
ASCII(bs) ==
  LET ds == [k \in DOMAIN bs |-> bs[k] - 48] IN
  IF bs[1] \in {43, 45} THEN Decimal(Tail(ds), 44 - bs[1]) ELSE Decimal(ds, 1)
NumberValue(type, bs) ==
  CASE type \in {0, 1} /\ Len(bs) > 8 -> <<>>
    [] type = 0 /\ Len(bs) <= 8 -> <<LittleEndian(bs)>>
    [] type = 1 /\ Len(bs) <= 8 -> <<BigEndian(bs)>>
    [] type = 2 -> BCD(bs)
    [] type = 3 -> ASCII(bs)
    [] OTHER -> <<>>

Arg(r, k, default) == IF k \in DOMAIN r.args THEN r.args[k].n ELSE default

NumberCommand ==
  /\ At("body") /\ Top.rule.op = "number"
  /\ LET size == Arg(Top.rule, 1, 0)
         value == NumberValue(Arg(Top.rule, 2, 0), Ahead(size))
     IN  CASE Sdx + size > Len(Src) -> Fail /\ UNCHANGED <<Src, stat>>
           [] Sdx + size <= Len(Src) /\ (size <= 0 \/ value = <<>>) -> Panic
           [] OTHER -> Match(<<NumberOf(value[1])>>, Sdx + size) /\ UNCHANGED <<Src, stat>>
  /\ UNCHANGED <<input, wsCache, js, result>>

\* setSrc: every memo that is keyed by a position goes with the old text.
\* Mutant: all but the whitespace memo.
SetSrcKeepsSpaces == Src' = gram.other /\ foundList' = <<>> /\ blockList' = {} /\ UNCHANGED wsCache
SetSrc == Src' = gram.other /\ wsCache' = <<>> /\ foundList' = <<>> /\ blockList' = {}

\* HandleScriptRule.
Effect == gram.scripts[Top.rule.n][js]

ScriptCommand ==
  /\ At("body") /\ Top.rule.op = "script"
  /\ js' = Effect.js
  /\ Sdx' = IF Effect.sdx = -1 THEN Sdx ELSE Effect.sdx
  /\ IF Effect.swap THEN SetSrc ELSE UNCHANGED <<Src, wsCache, lists>>
  /\ IF Effect.rule # NoRule
     THEN Call([Top EXCEPT !.phase = "kid", !.at = Sdx'], Effect.rule, Top.ws, Top.skip, Sdx')
     ELSE Pop("match", <<>>)
  /\ UNCHANGED <<input, result, stat>>

-----------------------------------------------------------------------------
(* ParseWithAgrammar.                                                      *)

\* The line commands: the last :whitespace() is the one the parse starts with.
DefaultSpaces == [NoRule EXCEPT !.op = "CharsOf", !.txt = <<9, 10, 13, 32>>]
InitialSpaces == SpacesAfter(DefaultSpaces, gram.commands)

Init ==
  /\ \E c \in Cases : gram = c.grammar /\ given \in c.inputs /\ opts \in c.options
  /\ pureCache = PureProductions
  /\ Src = given /\ Sdx = 0
  /\ stack = <<Frame(SeqWrapper(gram.prods[gram.start]), InitialSpaces, FALSE, 0)>>
  /\ answer = "none" /\ out = <<>>
  /\ blockList = {} /\ foundList = <<>> /\ wsCache = <<>>
  /\ js = 0 /\ result = [ok |-> FALSE, prods |-> <<>>] /\ stat = "parsing"

\* The start rule has answered: the whitespace behind it is skipped.
StartDone ==
  /\ stat = "parsing" /\ stack = <<>>
  /\ result' = [ok |-> answer = "match", prods |-> out]
  /\ stat' = "trailing"
  /\ IF InitialSpaces = NoRule THEN UNCHANGED <<stack, answer>>
     ELSE stack' = <<Frame(InitialSpaces, InitialSpaces, TRUE, Sdx)>> /\ answer' = "none"
  /\ out' = <<>>
  /\ UNCHANGED <<input, text, lists, wsCache, js>>

\* What counts is that nothing is left of the text.
Verdict ==
  /\ stat = "trailing" /\ stack = <<>>
  /\ stat' = IF Sdx < Len(Src) THEN "rejected" ELSE "accepted"
  /\ UNCHANGED <<input, text, control, lists, wsCache, js, result>>

Next ==
  \/ Enter \/ EnterFound \/ EnterBlocked \/ Overflow
  \/ SkipKnown \/ SkipSpaces \/ SkipDone \/ MatchTerminal
  \/ Descend \/ Unknown \/ KidsDone
  \/ SequenceTakes \/ OrTakes \/ NotTakes \/ RepeatTakes \/ TimesTakes \/ WrapperTakes
  \/ CountKnown \/ CountRead \/ CountTaken
  \/ WhitespaceCommand \/ NumberCommand \/ ScriptCommand
  \/ StartDone \/ Verdict

Spec == Init /\ [][Next]_vars

\* The parse runs on a goroutine of its own and waits for nothing.
FairSpec == Spec /\ WF_vars(Next)
=============================================================================
