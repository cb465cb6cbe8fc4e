------------------------------ MODULE ParserRef ------------------------------
(***************************************************************************)
(* What a grammar means: the match of a rule as one recursive definition,  *)
(* without memos, and what the parser must have in common with it.         *)
(*                                                                         *)
(* A state is [pos, src, js].  An answer is [ok, st, prods]: a rule that   *)
(* fails gives the position back, but not what its :script() rules did.    *)
(***************************************************************************)
EXTENDS ParserProps

Answer(ok, st, prods) == [ok |-> ok, st |-> st, prods |-> prods]
No(st, from) == Answer(FALSE, [st EXCEPT !.pos = from.pos], <<>>)

\* The longest match of a terminal: the words it stands for.
Words(r) == IF r.op = "Token" THEN {r.txt} ELSE {<<ch>> : ch \in {x \in 0 .. 255 : InSet(r, x)}}

RECURSIVE Denote(_, _, _, _, _), DenoteSeq(_, _, _, _, _), DenoteBody(_, _, _, _, _),
          DenoteFirst(_, _, _, _, _),
          DenoteMany(_, _, _, _, _, _), DenoteCounts(_, _, _, _, _)

\* Before a terminal the whitespace is skipped, unless this is the whitespace.
Skipped(ws, skip, st, up) ==
  IF skip \/ ws = NoRule THEN st ELSE Denote(ws, ws, TRUE, st, up).st

\* up: the productions being matched, by their key, when -lb stops them.
Denote(r, ws, skip, st, up) ==
  CASE IsTerminal(r) ->
         LET from == Skipped(ws, skip, st, up)
             rest == SubSeq(from.src, from.pos + 1, Len(from.src))
             ends == IF r.op = "CharsOf"
                     THEN {k \in 1 .. Len(rest) : \A j \in 1 .. k : <<rest[j]>> \in Words(r)}
                     ELSE {Len(w) : w \in {w \in Words(r) : IsPrefix(w, rest)}}
             end == CHOOSE k \in ends : \A j \in ends : j <= k
         IN  IF ends = {} THEN No(from, st)
             ELSE Answer(TRUE, [from EXCEPT !.pos = @ + end],
                         IF skip THEN <<>> ELSE <<TokenOf(SubSeq(rest, 1, end))>>)
    [] r.op = "Sequence" -> DenoteSeq(r.kids, ws, skip, st, up)
    [] r.op = "Or" -> DenoteFirst(r.kids, ws, skip, st, up)
    [] r.op = "Not" ->
         LET probe == Denote(r.kids[1], ws, skip, st, up)
         IN  Answer(~probe.ok, [probe.st EXCEPT !.pos = st.pos], <<>>)
    [] r.op = "Repeat" -> DenoteMany(OneRule(r.kids), 0, -1, <<ws, skip>>, st, up)
    [] r.op = "Times" ->
         LET cs == DenoteCounts(r.args, ws, skip, st, up)
             times == DenoteMany(OneRule(r.kids), cs.prods[1].n, cs.prods[Len(cs.prods)].n,
                                 <<ws, skip>>, cs.st, up)
         IN  IF times.ok THEN times ELSE No(times.st, st)
    [] r.op = "Optional" ->
         LET a == DenoteBody(r.kids, ws, skip, st, up) IN [a EXCEPT !.ok = TRUE]
    [] r.op = "Tag" ->
         LET a == DenoteBody(r.kids, ws, skip, st, up)
         IN  IF a.ok THEN [a EXCEPT !.prods = <<[r EXCEPT !.kids = a.prods]>>] ELSE a
    [] r.op = "Identifier" ->
         LET key == <<r.n, st.pos, ws, skip>> IN
         IF opts.lb /\ key \in up THEN No(st, st)
         ELSE DenoteBody(gram.prods[r.n], ws, skip, st,
                     IF r.n \in pureCache THEN up \cup {key} ELSE up)
    [] r.op = "whitespace" -> Answer(TRUE, st, <<r>>)
    [] r.op = "number" ->
         LET size == r.args[1].n
             bs == SubSeq(st.src, st.pos + 1, st.pos + size)
         IN  IF st.pos + size > Len(st.src) THEN No(st, st)
             ELSE Answer(TRUE, [st EXCEPT !.pos = @ + size],
                         <<NumberOf(NumberValue(Arg(r, 2, 0), bs)[1])>>)
    [] r.op = "script" ->
         LET e == gram.scripts[r.n][st.js]
             after == [pos |-> IF e.sdx = -1 THEN st.pos ELSE e.sdx,
                       src |-> IF e.swap THEN gram.other ELSE st.src, js |-> e.js]
             a == Denote(e.rule, ws, skip, after, up)
         IN  IF e.rule = NoRule THEN Answer(TRUE, after, <<>>)
             ELSE IF a.ok THEN a ELSE No(a.st, st)

\* One after the other; a :whitespace() holds for the rest of the sequence.
DenoteSeq(kids, ws, skip, st, up) ==
  IF kids = <<>> THEN Answer(TRUE, st, <<>>)
  ELSE LET first == Denote(Head(kids), ws, skip, st, up)
           rest == DenoteSeq(Tail(kids), SpacesAfter(ws, first.prods), skip, first.st, up)
       IN  IF first.ok /\ rest.ok
           THEN Answer(TRUE, rest.st, SelectSeq(first.prods, IsProduct) \o rest.prods)
           ELSE No(IF first.ok THEN rest.st ELSE first.st, st)

\* What an Optional, a Tag or a production consists of: a :whitespace() that
\* stands alone in it holds for nothing.
DenoteBody(kids, ws, skip, st, up) ==
  IF Len(kids) = 1 /\ kids[1].op \notin {"whitespace", "number", "script"}
  THEN Denote(kids[1], ws, skip, st, up) ELSE DenoteSeq(kids, ws, skip, st, up)

DenoteFirst(kids, ws, skip, st, up) ==
  IF kids = <<>> THEN No(st, st)
  ELSE LET a == Denote(Head(kids), ws, skip, st, up) IN
       IF a.ok THEN a ELSE DenoteFirst(Tail(kids), ws, skip, a.st, up)

\* At least `least' times, at most `most' (-1: any number), the optional ones
\* as long as they consume something.
DenoteMany(r, least, most, context, st, up) ==
  IF least <= 0 /\ most # -1 /\ most <= 0 THEN Answer(TRUE, st, <<>>)
  ELSE LET one == Denote(r, context[1], context[2], st, up)
           more == DenoteMany(r, least - 1, IF most = -1 THEN -1 ELSE most - 1,
                              context, one.st, up)
       IN  IF ~one.ok \/ (least <= 0 /\ one.st.pos = st.pos)
           THEN Answer(one.ok \/ least <= 0, one.st, one.prods)
           ELSE [more EXCEPT !.prods = one.prods \o @]

DenoteCounts(args, ws, skip, st, up) ==
  IF args = <<>> THEN Answer(TRUE, st, <<>>)
  ELSE LET one == IF Head(args).op = "Number" THEN Answer(TRUE, st, <<Head(args)>>)
                  ELSE Denote(Head(args), ws, skip, st, up)
           rest == DenoteCounts(Tail(args), ws, skip, one.st, up)
       IN  Answer(TRUE, rest.st, one.prods \o rest.prods)

\* A whole parse.
Meaning(src) ==
  LET start == Denote(SeqWrapper(gram.prods[gram.start]), InitialSpaces, FALSE,
                      [pos |-> 0, src |-> src, js |-> 0], {})
      end == IF InitialSpaces = NoRule THEN start.st
             ELSE Denote(InitialSpaces, InitialSpaces, TRUE, start.st, {}).st
  IN  [ok |-> start.ok, prods |-> start.prods,
       accepted |-> end.pos >= Len(end.src), js |-> end.js]

-----------------------------------------------------------------------------
(* Whose answer it is.  The found list is meant to keep what applying a    *)
(* production gives, whatever runs around it.  Two things make an answer   *)
(* depend on its surroundings: a production inside that -lb refused on     *)
(* account of one outside, and a :script() of the whitespace rule.         *)

VARIABLES
  borrowed,    \* how deep on the stack the applications are whose answer is such
  lent,        \* the keys of the found list that keep such an answer
  misled       \* one of them has been used

history == <<borrowed, lent, misled>>

\* The applications between a refused one and the one it is refused for.
WithinBlocker ==
  {k \in DOMAIN stack : \E b \in 1 .. k - 1 : Entered(b) /\ Key(stack[b]) = Key(Top)}

Borrows ==
  IF At("enter") /\ Blocked THEN WithinBlocker
  ELSE IF At("enter") /\ Reused /\ Key(Top) \in lent THEN DOMAIN stack
  ELSE IF At("body") /\ Top.rule.op = "script" THEN {k \in DOMAIN stack : Listed(stack[k])}
  ELSE {}

\* Entries whose key the step has written.
Stored == {k \in DOMAIN foundList' : k \notin DOMAIN foundList \/ foundList'[k] # foundList[k]}
          \cup (IF answer' = "match" /\ Len(stack') < Len(stack) /\ Listed(Top) /\ ~Reused
                THEN {Key(Top)} \cap DOMAIN foundList' ELSE {})

Remember ==
  /\ borrowed' = (borrowed \cup Borrows) \cap DOMAIN stack'
  /\ lent' = IF Src' # Src THEN {}
             ELSE IF Len(stack) \in borrowed THEN lent \cup Stored ELSE lent \ Stored
  /\ misled' = (misled \/ (At("enter") /\ Reused /\ Key(Top) \in lent))

HistInit == Init /\ borrowed = {} /\ lent = {} /\ misled = FALSE
HistNext == Next /\ Remember
HistSpec == HistInit /\ [][HistNext]_<<vars, history>> /\ WF_<<vars, history>>(HistNext)

-----------------------------------------------------------------------------
(* The parser and the meaning.                                             *)

\* A parse ends with what the grammar means: the same productions, the same
\* verdict, and every :script() has run exactly as often (apply, ruleEnter,
\* ruleExit, skipSpaces).  -lb only refuses a production below itself in one
\* place, and -lf changes nothing, as long as no answer is used again that was
\* found within such a refusal or while the whitespace ran a :script().
MeansTheGrammar ==
  stat \in {"accepted", "rejected"} /\ ~misled =>
    LET m == Meaning(given) IN
    /\ result = [ok |-> m.ok, prods |-> m.prods]
    /\ (stat = "accepted") = m.accepted
    /\ js = m.js

SkipIsRight(k, end, st) == Denote(k[1], k[1], TRUE, [st EXCEPT !.pos = k[2]], {}).st.pos = end
FoundIsRight(k, found, st) ==
  \A n \in DOMAIN gram.prods, pos \in 0 .. Len(st.src) :
    LET r == [NoRule EXCEPT !.op = "Identifier", !.n = n]
        a == Denote(r, k.ws, k.skipping, [st EXCEPT !.pos = pos], {})
    IN  k.id = RulePosId(r, pos) => a.ok /\ found = [prods |-> a.prods, sdx |-> a.st.pos]

Fresh(memo, memo2) == IF Src' = Src THEN DOMAIN memo2 \ DOMAIN memo ELSE DOMAIN memo2
Now == [pos |-> 0, src |-> Src', js |-> js']

FreshEntriesAreRight ==
  /\ Len(stack) \notin borrowed =>
       \A k \in Fresh(wsCache, wsCache') : SkipIsRight(k, wsCache'[k], Now)
  /\ \A k \in Fresh(foundList, foundList') \ lent' : FoundIsRight(k, foundList'[k], Now)

\* What a memo keeps is what applying the rule again would answer, in the text
\* as it now is, unless its answer depends on what ran around it: an entry that
\* is made is right, and replacing the text leaves none that is stale
\* (skipSpaces, ruleExit, setSrc).
MemosAreSound == [][FreshEntriesAreRight]_vars

\* What isPure promises of every entry of the found list: "applying rule can be
\* reduced to a pure function of (rule, position, whitespace rule, skipping)".
FoundListIsPure ==
  [][\A k \in Fresh(foundList, foundList') : FoundIsRight(k, foundList'[k], Now)]_vars
=============================================================================
