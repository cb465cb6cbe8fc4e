----------------------------- MODULE RegexProps -----------------------------
(***************************************************************************)
(* What a pattern means, and what the engine must therefore answer.        *)
(*                                                                         *)
(* A call of this module's constant Calls carries in `means' the tree its  *)
(* pattern was written from (MCRegex), or the node Wrong for a pattern     *)
(* that is no regular expression.  Outcomes says which ways a tree has to  *)
(* match, the preferred one first: neither the parser nor the emitted      *)
(* program nor the registers take part in it.                              *)
(***************************************************************************)
EXTENDS RegexMethods

CONSTANT Exhausting   \* patterns with more ways to try than the StepLimit allows

Wrong == Node("wrong")

-----------------------------------------------------------------------------
(* The meaning of a tree.                                                  *)

At0(p, gs) == [p |-> p, caps |-> gs]
ThenAll(outcomes, F(_)) == FlattenSeq([k \in DOMAIN outcomes |-> F(outcomes[k])])
Only(b, o) == IF b THEN <<o>> ELSE <<>>
NewIteration(body, o) ==
  IF ~re.jsrep THEN o
  ELSE [o EXCEPT !.caps = [g \in DOMAIN @ |-> IF g \in GroupsOf(body) THEN <<-1, -1>> ELSE @[g]]]

RECURSIVE Outcomes(_, _), InTurn(_, _), Times(_, _, _), UpTo(_, _, _, _), Endlessly(_, _, _)
InTurn(items, o) ==
  IF items = <<>> THEN <<o>> ELSE ThenAll(Outcomes(Head(items), o), LAMBDA x : InTurn(Tail(items), x))
Prefer(greedy, more, o) == IF greedy THEN Append(more, o) ELSE <<o>> \o more
Times(body, n, o) ==
  IF n = 0 THEN <<o>>
  ELSE ThenAll(Outcomes(body, NewIteration(body, o)), LAMBDA x : Times(body, n - 1, x))
UpTo(body, n, greedy, o) ==
  IF n = 0 THEN <<o>>
  ELSE Prefer(greedy, ThenAll(Outcomes(body, NewIteration(body, o)), LAMBDA x : UpTo(body, n - 1, greedy, x)), o)
\* An empty iteration is the last one; where captures are cleared it is none.
Endlessly(body, greedy, o) ==
  LET Next1(x) == IF x.p # o.p THEN Endlessly(body, greedy, x) ELSE Only(~re.jsrep, x)
  IN  Prefer(greedy, ThenAll(Outcomes(body, NewIteration(body, o)), Next1), o)

Outcomes(node, o) ==
  LET p == o.p
      body == node.items[1]
      end(c) == p + c[2] - c[1]
      span == IF node.gidx \in DOMAIN o.caps THEN o.caps[node.gidx] ELSE <<-1, -1>>
  IN
  CASE node.t = "cls" ->
         Only(p < Len(Text) /\ ClassHits(node, Text[p + 1], re.icase), [o EXCEPT !.p = @ + 1])
    [] node.t = "assert" -> Only(AssertOK(node.holds, Text, p, re.multi), o)
    [] node.t = "cat" -> InTurn(node.items, o)
    [] node.t = "alt" -> FlattenSeq([k \in DOMAIN node.items |-> Outcomes(node.items[k], o)])
    [] node.t = "group" ->
         ThenAll(Outcomes(body, o),
           LAMBDA x : <<IF node.gidx < 0 THEN x ELSE [x EXCEPT !.caps[node.gidx] = <<p, x.p>>]>>)
    [] node.t = "look" ->
         LET inside == Outcomes(body, o)
         IN  IF node.neg THEN Only(inside = <<>>, o) ELSE Only(inside # <<>>, [o EXCEPT !.caps = Head(inside).caps])
    [] node.t = "bref" ->
         IF span = <<-1, -1>> THEN <<o>>
         ELSE Only(Repeats(Text, span[1], span[2], p, re.icase), [o EXCEPT !.p = @ + span[2] - span[1]])
    [] node.t = "rep" ->
         ThenAll(Times(body, node.min, o),
           LAMBDA x : IF node.max < 0 THEN Endlessly(body, node.greedy, x)
                      ELSE UpTo(body, node.max - node.min, node.greedy, x))
    [] OTHER -> <<o>>

\* For each position the matches that begin there, the preferred one first, with the
\* whole as group 0.
Nothing == [g \in 0 .. re.ngroups |-> <<-1, -1>>]
MatchesAt(p) ==
  LET found == Outcomes(call.means, At0(p, Nothing))
  IN  [k \in DOMAIN found |-> [found[k].caps EXCEPT ![0] = <<p, found[k].p>>]]
Ways == [p \in 0 .. Len(Text) |-> MatchesAt(p)]

\* The groups inside the lookaheads of a tree, and what a group has to match anywhere in the text.
RECURSIVE Nodes(_, _)
Nodes(t, node) == (IF node.t = t THEN {node} ELSE {}) \cup UNION {Nodes(t, node.items[k]) : k \in DOMAIN node.items}
Lookaheads(node) == Nodes("look", node)
LookedAt(node) == UNION {GroupsOf(n) : n \in Lookaheads(node)}
Stretches(g) ==
  UNION {{<<p, o.p>> : o \in UNION {ToSet(Outcomes(node, At0(p, Nothing))) : node \in {n \in Nodes("group", call.means) : n.gidx = g}}}
         : p \in 0 .. Len(Text)}

\* One match after the other, from p on.
RECURSIVE Matches(_, _)
Matches(ways, p) ==
  IF p > Len(Text) THEN <<>>
  ELSE IF ways[p] = <<>> THEN Matches(ways, p + 1)
  ELSE <<Head(ways[p])>> \o LET m == Head(ways[p])[0] IN Matches(ways, IF m[2] = m[1] THEN m[2] + 1 ELSE m[2])

-----------------------------------------------------------------------------
(* What the methods must therefore answer.                                 *)

FirstFew(ms, n) == SubSeq(ms, 1, Min({n, Len(ms)}))
FirstOnly(ms) == FirstFew(ms, 1)
Limited(ms) == IF call.limit > 0 THEN FirstFew(ms, call.limit) ELSE ms
Of(span) == IF span[1] < 0 THEN <<>> ELSE Piece(span[1], span[2])
AtTheEnd(m) == m[0] = <<Len(Text), Len(Text)>>
Inside(ms) == SelectSeq(ms, LAMBDA m : ~AtTheEnd(m))
Whole(ms) == SelectSeq(ms, LAMBDA m : m[0][2] = Len(Text))

\* The text cut at some matches, with what they say in their place.
Parts(ms, By(_)) ==
  LET n == Len(ms)
      ends == [k \in 0 .. n |-> IF k = 0 THEN 0 ELSE ms[k][0][2]]
  IN  FlattenSeq([k \in 1 .. n |-> <<Piece(ends[k - 1], ms[k][0][1])>> \o By(ms[k])]) \o <<Piece(ends[n], Len(Text))>>
With(ms, By(_)) == FlattenSeq(Parts(ms, LAMBDA m : <<By(m)>>))
Shown(m) == [g \in 1 .. re.ngroups |-> Of(m[g])]

\* What a template says: `says' lists its characters and groups.
Said(m) ==
  FlattenSeq([k \in DOMAIN call.says |-> IF call.says[k][1] = "group" THEN Of(m[call.says[k][2]]) ELSE <<call.says[k][2]>>])
CalledBack(m) == <<Code("(")>> \o Of(m[0]) \o <<Code(")")>>

\* ECMAScript's split: the next match that does not end where the last one did, and none
\* at the end of the text.
RECURSIVE JsParts(_, _)
JsParts(ways, p) ==
  LET seps == {q \in p .. Len(Text) - 1 : ways[q] # <<>> /\ Head(ways[q])[0][2] # p}
      m == Head(ways[Min(seps)])
  IN  IF seps = {} THEN <<Piece(p, Len(Text))>>
      ELSE <<Piece(p, Min(seps))>> \o Shown(m) \o JsParts(ways, m[0][2])

\* lastIndex before the running method, by the answers so far: the end of what exec has
\* found, the start of the text when it has found nothing or another method has run over it.
RECURSIVE IndexAfter(_)
IndexAfter(k) ==
  LET m == call.methods[k]
      iterates == Global \/ Sticky
  IN  IF k = 0 THEN call.from
      ELSE IF m = "exec" \/ m = "test" \/ (m = "match" /\ ~Global)
           THEN IF ~iterates THEN IndexAfter(k - 1) ELSE IF results[k] = <<>> THEN 0 ELSE results[k][1][0][2]
      ELSE IF m = "matchAll" \/ (m \notin {"split", "search"} /\ Global) THEN 0
      ELSE IndexAfter(k - 1)

\* The position a method has been given, and the matches it may use: those at the position,
\* those of the whole text from there, or all one after the other.
StartOf(m) ==
  CASE call.lang = "js" -> IF (m \in {"exec", "test"} \/ (m = "match" /\ ~Global)) /\ (Global \/ Sticky)
                           THEN IndexAfter(Len(results)) ELSE 0
    [] m \in {"match", "fullmatch", "find", "next"} -> call.from
    [] OTHER -> 0
Usable(m, ways) ==
  LET p == StartOf(m)
      anchored == (call.lang = "py" /\ m \in {"match", "fullmatch"}) \/ m = "matchEntire"
                  \/ (call.lang = "js" /\ Sticky /\ (m \in {"exec", "test"} \/ (m = "match" /\ ~Global)))
  IN  IF p > Len(Text) THEN <<>>
      ELSE IF ~anchored THEN Matches(ways, p)
      ELSE IF m \in {"fullmatch", "matchEntire"} THEN Whole(ways[p]) ELSE ways[p]

\* A split of Ruby or Kotlin loses of the text exactly the matches that are not empty, and
\* has no more parts than it should.
Cuts(ms, limit) ==
  LET used == IF limit > 0 THEN FirstFew(Inside(ms), limit - 1) ELSE Inside(ms)
  IN  /\ Len(out) = Len(used) + 1
      /\ FlattenSeq(out) = With(SelectSeq(used, LAMBDA m : m[0][2] > m[0][1]), LAMBDA m : <<>>)

JsSplits(ways) ==
  LET parts == IF Text = <<>> /\ ways[0] # <<>> THEN <<>> ELSE JsParts(ways, 0)
  IN  out = IF call.limit >= 0 /\ Text # <<>> THEN FirstFew(parts, call.limit) ELSE parts

\* As many slots as the caller has room for, and no stale one.
Slots(ms) ==
  LET pairs == IF ms = <<>> THEN 0 ELSE re.ngroups + 1
  IN  /\ out[1] = pairs /\ DOMAIN out[2] = 1 .. call.limit
      /\ \A i \in 1 .. call.limit \div 2 :
           <<out[2][2 * i - 1], out[2][2 * i]>> = IF i <= pairs THEN ms[1][i - 1] ELSE <<-1, -1>>

\* The same matches, whatever the groups inside lookaheads are.
Seen(m) == [g \in DOMAIN m |-> IF g \in LookedAt(call.means) THEN <<-1, -1>> ELSE m[g]]
Same(found, ms) == [k \in DOMAIN found |-> Seen(found[k])] = [k \in DOMAIN ms |-> Seen(ms[k])]

Answers(m, ways, ms) ==
  LET all == (call.lang = "js" /\ Global) \/ m \in {"replaceAll", "gsub"} \/ (call.lang = "kt" /\ m # "replaceFirst") IN
  CASE call.lang = "c" -> Slots(ms)
    [] call.lang = "js" /\ m = "split" -> JsSplits(ways)
    [] call.lang = "py" /\ m = "split" -> out = Parts(Limited(Inside(ms)), Shown)
    [] call.lang \in {"kt", "rb"} /\ m = "split" -> Cuts(ms, IF call.lang = "kt" THEN call.limit ELSE 0)
    [] call.lang = "py" /\ m = "sub" -> out = With(Limited(ms), Said)
    [] m \in {"sub", "gsub", "replace", "replaceAll", "replaceFirst"} /\ call.lang # "py" ->
         out = With(IF all THEN ms ELSE FirstOnly(ms), Said)
    [] m = "replaceFn" -> out = With(IF all THEN ms ELSE FirstOnly(ms), CalledBack)
    [] m \in {"scan", "findall", "findAll", "matchAll", "next"} \/ (call.lang = "js" /\ m = "match" /\ Global) -> Same(out, ms)
    [] m \in {"exec", "test", "find", "fullmatch", "matchEntire"} \/ (m = "search" /\ call.lang # "c")
       \/ (m = "match" /\ ~(call.lang = "js" /\ Global)) -> Same(out, FirstOnly(ms))

-----------------------------------------------------------------------------
(* The properties.                                                         *)

\* The registers hold positions of the text, those of an ended group in order, and an
\* attempt that nothing came of has undone every write but those of lookaheads, which are
\* no frames any more when what follows them fails: every frame of run is popped and every
\* other capture is as it was (run, attempt).
RegistersAreInOrder ==
  /\ phase \in {"ready", "run", "return", "found", "failed", "exhausted", "done", "error"}
  /\ re.ok => /\ pc \in DOMAIN re.prog /\ sp \in 0 .. Len(Text) /\ at \in 0 .. Len(Text)
              /\ \A i \in DOMAIN caps : caps[i] \in -1 .. Len(Text)
              /\ ret \in -1 .. Len(Text) /\ steps \in 0 .. StepLimit
  /\ lastIndex \in Nat /\ hits \in 0 .. Len(Text) + 1 /\ Len(results) + Len(todo) = Len(call.methods)
  /\ phase = "found" =>
       /\ caps[0] = at /\ ret = caps[1]
       /\ \A g \in 0 .. re.ngroups : caps[2 * g] >= 0 => caps[2 * g] <= caps[2 * g + 1]
  /\ phase = "failed" =>
       /\ frames = <<>>
       /\ \A g \in 0 .. re.ngroups : g \in LookedAt(call.means) \/ Spans[g] = <<-1, -1>>
       /\ Lookaheads(call.means) = {} => \A i \in DOMAIN marks : marks[i] = -1

\* A group inside a lookahead has its preferred value, or one that it has been given in a
\* lookahead which the match has come back from.
GroupsAreTheirs ==
  phase = "found" /\ LookedAt(call.means) # {} =>
    \A m \in {Head(MatchesAt(at))} : \A g \in LookedAt(call.means) : Spans[g] = m[g] \/ Spans[g] \in Stretches(g)

\* The parser, the emitted program and the machine together find, of all the ways the
\* written pattern has to match, the leftmost and there the preferred one, with its
\* groups, but for those inside lookaheads; what a method of any of the languages collects, replaces, splits off or copies
\* to its caller are exactly the matches one after the other, up to its limit, with
\* nothing lost of the text between them, and a JavaScript RegExp goes on where the calls
\* before have left it; a pattern that is none is refused, and the step limit strikes only
\* where the ways to try really are too many.
Collecting == phase = "run" /\ steps = 0 /\ call.use \in {"scan", "py.findall", "kt.findAll", "js.matchAll"}
MatchesAreTheFirst ==
  /\ phase = "error" => call.means = Wrong \/ (over /\ call.pattern \in Exhausting)
  /\ call.means = Wrong => phase \in {"ready", "error"}
  /\ phase = "done" => call.pattern \notin Exhausting
  /\ phase = "done" \/ Collecting =>
       \A ways \in {Ways} : \A ms \in {Usable(Head(todo), ways)} :
         IF Collecting THEN Same(out, FirstFew(ms, Len(out))) ELSE Answers(Head(todo), ways, ms)

\* The registers are in order all the way, and at the end the matches are the meant ones.
RegexesMatch == RegistersAreInOrder /\ GroupsAreTheirs /\ MatchesAreTheFirst

\* The comment at run says that it recurses where it has to be able to undo a write, at a LOOK
\* as well.  A match has then nothing that an abandoned attempt has written.
WritesAreUndone == phase = "found" => \A m \in {Head(MatchesAt(at))} : Spans = [m EXCEPT ![0] = Spans[0]]
=============================================================================
