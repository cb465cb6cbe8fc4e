---------------------------- MODULE RegexSyntax ----------------------------
(***************************************************************************)
(* The pattern parser of the shared regular-expression engine              *)
(* (abnf/jsrtregex.go) with the scans that run before it.                  *)
(*                                                                         *)
(* A character of a pattern is a string of length 1, None behind its end;  *)
(* a character class is a set of character codes below 128, negated or     *)
(* not.  A parse is a record: i is the next character, `node' what has     *)
(* been read; nothing that happens after the first error (`ok' FALSE)      *)
(* shows in the result, which is that error.  The texts of the errors are  *)
(* left out.                                                               *)
(***************************************************************************)
EXTENDS Integers, SequencesExt, TLC

None == ""
Chars(s) == [i \in 1 .. Len(s) |-> SubSeq(s, i, i)]

\* From 32 on; a tab stands for the grave accent, which no string can hold here.
Printable == Chars(" !\"#$%&'()*+,-./0123456789:;<=>?@ABCDEFGHIJKLMNOPQRSTUVWXYZ[\\]^_\tabcdefghijklmnopqrstuvwxyz{|}~")
Codes == 0 .. 127
Code(c) ==
  CASE c = "\t" -> 9 [] c = "\n" -> 10 [] c = "\f" -> 12 [] c = "\r" -> 13
    [] OTHER -> 31 + SelectInSeq(Printable, LAMBDA x : x = c)

Digits == 48 .. 57
Upper == 65 .. 90
Lower == 97 .. 122
Word == Digits \cup Upper \cup Lower \cup {95}
Space == {9, 10, 11, 12, 13, 32}
HexDigits == Digits \cup (65 .. 70) \cup (97 .. 102)

IsDigit(c) == c # None /\ Code(c) \in Digits
HexVal(c) == LET v == Code(c) IN IF v \in Digits THEN v - 48 ELSE (v % 32) + 9

\* What \d and the like stand for, and the escapes of one character.
Shorthand ==
  [d |-> Digits, D |-> Codes \ Digits, w |-> Word, W |-> Codes \ Word,
   s |-> Space, S |-> Codes \ Space, h |-> HexDigits, H |-> Codes \ HexDigits]
Control == [n |-> 10, t |-> 9, r |-> 13, f |-> 12, v |-> 11, a |-> 7, e |-> 27] @@ ("0" :> 0)

Posix ==
  [alpha |-> Upper \cup Lower, digit |-> Digits, alnum |-> Digits \cup Upper \cup Lower,
   upper |-> Upper, lower |-> Lower, space |-> (9 .. 13) \cup {32}, blank |-> {9, 32},
   punct |-> (33 .. 47) \cup (58 .. 64) \cup (91 .. 96) \cup (123 .. 126),
   print |-> 32 .. 126, graph |-> 33 .. 126, cntrl |-> (0 .. 31) \cup {127},
   xdigit |-> HexDigits, word |-> Word, ascii |-> Codes]

-----------------------------------------------------------------------------
(* Nodes.                                                                  *)

Node(t) == [t |-> t, items |-> <<>>, neg |-> FALSE, set |-> {}, min |-> 0, max |-> 0,
            greedy |-> TRUE, gidx |-> -1, name |-> <<>>, holds |-> ""]
Class(set) == [Node("cls") EXCEPT !.set = set]
Dot(dotall) == [Class(IF dotall THEN {} ELSE {10}) EXCEPT !.neg = TRUE]
Holds(kind) == [Node("assert") EXCEPT !.holds = kind]
Bref(g) == [Node("bref") EXCEPT !.gidx = g]
Group(g, body) == [Node("group") EXCEPT !.gidx = g, !.items = <<body>>]
Look(neg, body) == [Node("look") EXCEPT !.neg = neg, !.items = <<body>>]
Rep(body, min, max, greedy) == [Node("rep") EXCEPT !.items = <<body>>, !.min = min, !.max = max, !.greedy = greedy]

\* The assertions that are written with a backslash.
Asserts == [b |-> "WordB", B |-> "NWordB", A |-> "BOS", z |-> "EOS", Z |-> "EOSNL"]

-----------------------------------------------------------------------------
(* Before the parse.                                                       *)

At(p, i) == IF i <= Len(p) THEN p[i] ELSE None
Meta == ToSet(Chars("\\^$.|?*+()[]{}-#/ \t\n\r\f"))

RECURSIVE Quoted(_, _), Unquoted(_, _), Scan(_, _, _)

\* rxExpandQuotes: what stands between \Q and \E is escaped.
Unquoted(p, i) ==
  IF i > Len(p) THEN <<>>
  ELSE IF p[i] # "\\" \/ i = Len(p) THEN <<p[i]>> \o Unquoted(p, i + 1)
  ELSE IF p[i + 1] # "Q" THEN <<p[i], p[i + 1]>> \o Unquoted(p, i + 2)
  ELSE Quoted(p, i + 2)
Quoted(p, i) ==
  IF i > Len(p) THEN <<>>
  ELSE IF p[i] = "\\" /\ At(p, i + 1) = "E" THEN Unquoted(p, i + 2)
  ELSE (IF p[i] \in Meta THEN <<"\\", p[i]>> ELSE <<p[i]>>) \o Quoted(p, i + 1)
ExpandQuotes(p) == Unquoted(p, 1)

\* rxCountGroups: how many groups capture.
Captures(p, i) ==
  IF At(p, i + 1) # "?" THEN TRUE
  ELSE At(p, i + 2) = "'" \/ (At(p, i + 2) = "<" /\ At(p, i + 3) \notin {"=", "!"})
Scan(p, i, inCls) ==
  IF i > Len(p) THEN 0
  ELSE LET c == p[i] IN
    IF c = "\\" THEN Scan(p, i + 2, inCls)
    ELSE IF inCls THEN Scan(p, i + 1, c # "]")
    ELSE IF c = "[" THEN Scan(p, i + 1, TRUE)
    ELSE IF c # "(" THEN Scan(p, i + 1, FALSE)
    ELSE (IF Captures(p, i) THEN 1 ELSE 0) + Scan(p, IF At(p, i + 1) = "?" THEN i + 2 ELSE i + 1, FALSE)
CountGroups(p) == Scan(p, 1, FALSE)

-----------------------------------------------------------------------------
(* The parser.                                                             *)

\* fl are the letters of the flags.
Start(p, fl) ==
  [p |-> p, i |-> 1, ok |-> TRUE, ngroups |-> 0, names |-> <<>>, depth |-> 0,
   ext |-> "x" \in fl, dotall |-> {"s", "e"} \cap fl # {}, octal |-> "o" \in fl, ere |-> "e" \in fl,
   posix |-> {"p", "e"} \cap fl # {}, ntotal |-> IF "e" \in fl THEN 0 ELSE CountGroups(p),
   node |-> Node("empty")]

Cur(st) == At(st.p, st.i)
Ahead(st, k) == At(st.p, st.i + k)
Move(st, k) == [st EXCEPT !.i = @ + k]
Fail(st) == [st EXCEPT !.ok = FALSE]
Gives(st, node) == [st EXCEPT !.node = node]
FirstFrom(st, i, Test(_)) ==
  LET found == {j \in i .. Len(st.p) : Test(j)}
  IN  IF found = {} THEN 0 ELSE CHOOSE j \in found : \A k \in found : j <= k

\* skipX: white space and comments under the flag x.
RECURSIVE SkipX(_)
SkipX(st) ==
  IF ~st.ext THEN st
  ELSE IF Cur(st) # None /\ Code(Cur(st)) \in Space THEN SkipX(Move(st, 1))
  ELSE IF Cur(st) = "#" THEN
    LET nl == FirstFrom(st, st.i, LAMBDA j : st.p[j] = "\n")
    IN  IF nl = 0 THEN [st EXCEPT !.i = Len(st.p) + 1] ELSE SkipX([st EXCEPT !.i = nl])
  ELSE st

\* The number that at most n of the digits in a base make, from the next on.
RECURSIVE Number(_, _, _, _)
Number(st, n, base, v) ==
  LET c == Cur(st) IN
  IF n > 0 /\ c # None /\ Code(c) \in HexDigits /\ HexVal(c) < base
  THEN Number(Move(st, 1), n - 1, base, v * base + HexVal(c))
  ELSE Gives(st, v)

\* esc: the escape behind a backslash is a class or a reference to a group.
EscNumber(st, n, base, must) ==
  LET r == Number(st, n, base, 0) IN IF must /\ r.i = st.i THEN Fail(st) ELSE Gives(r, Class({r.node}))
Esc(st, inClass) ==
  LET c == Cur(st)
      r == Move(st, 1)
  IN  IF c = None THEN Fail(st)
      ELSE IF c \in DOMAIN Shorthand THEN Gives(r, [Class(Shorthand[c]) EXCEPT !.gidx = 0])
      ELSE IF c \in DOMAIN Control THEN Gives(r, Class({Control[c]}))
      ELSE IF c = "b" /\ inClass THEN Gives(r, Class({8}))
      ELSE IF c = "x" THEN EscNumber(r, 2, 16, TRUE)
      ELSE IF c = "u" THEN EscNumber(r, 4, 16, TRUE)
      ELSE IF inClass \/ ~IsDigit(c) THEN Gives(r, Class({Code(c)}))
      ELSE IF HexVal(c) <= st.ntotal THEN Gives(r, Bref(HexVal(c)))
      ELSE IF ~st.octal THEN Fail(st)
      ELSE IF HexVal(c) > 7 THEN Gives(r, Class({Code(c)}))
      ELSE EscNumber(st, IF HexVal(c) <= 3 THEN 3 ELSE 2, 8, FALSE)

\* A character of a class, or a shorthand (gidx 0).
ClassChar(st) ==
  IF Cur(st) = "\\" /\ ~st.ere THEN Esc(Move(st, 1), TRUE) ELSE Gives(Move(st, 1), Class({Code(Cur(st))}))
IsSet(node) == node.gidx = 0
The(set) == CHOOSE x \in set : TRUE
HasRange(st) == Cur(st) = "-" /\ Ahead(st, 1) \notin {None, "]"}

PosixName(st, end) ==
  {n \in DOMAIN Posix : Chars(n) = SubSeq(st.p, st.i + 2, end - 1)}

\* parseClass, behind [ and ^.
RECURSIVE ParseClass(_, _, _)
ParseClass(st, node, first) ==
  LET More(r, set) == ParseClass(r, [node EXCEPT !.set = @ \cup set], FALSE)
  IN
  IF ~st.ok \/ Cur(st) = None THEN Fail(st)
  ELSE IF Cur(st) = "]" /\ ~first THEN Gives(Move(st, 1), node)
  ELSE IF Cur(st) = "[" /\ Ahead(st, 1) = ":" THEN
    LET end == FirstFrom(st, st.i + 2, LAMBDA j : st.p[j] = ":" /\ At(st.p, j + 1) = "]")
        r == [st EXCEPT !.i = end + 2]
    IN  IF ~st.posix \/ end = 0 THEN Fail(st)
        ELSE IF PosixName(st, end) = {} \/ HasRange(r) THEN Fail(st)
        ELSE More(r, Posix[The(PosixName(st, end))])
  ELSE
    LET lo == ClassChar(st)
        hi == ClassChar(Move(lo, 1))
    IN  IF ~lo.ok THEN lo
        ELSE IF IsSet(lo.node) \/ ~HasRange(lo) THEN More(lo, lo.node.set)
        ELSE IF st.posix /\ Ahead(lo, 1) = "[" /\ Ahead(lo, 2) = ":" THEN Fail(st)
        ELSE IF ~hi.ok THEN hi
        ELSE IF IsSet(hi.node) THEN More(hi, lo.node.set \cup {45} \cup hi.node.set)
        ELSE IF The(hi.node.set) < The(lo.node.set) THEN Fail(st)
        ELSE More(hi, The(lo.node.set) .. The(hi.node.set))

\* readGroupName: up to the closer.
GroupName(st, closer) ==
  LET end == FirstFrom(st, st.i, LAMBDA j : st.p[j] = closer)
  IN  IF end = 0 THEN Fail(st) ELSE [st EXCEPT !.i = end + 1, !.node = SubSeq(st.p, st.i, end - 1)]

\* expect: the ) of a group; what it closes becomes the node.
Close(st, node) ==
  LET r == SkipX(st) IN IF ~r.ok \/ Cur(r) # ")" THEN Fail(r) ELSE Gives(Move(r, 1), node)

\* parseBound: {n}, {n,} or {n,m} as <<n, m>>, m = -1 without a limit; <<>> otherwise.
Bound(st) ==
  LET min == Number(Move(st, 1), 9, 10, 0)
      max == Number(Move(min, 1), 9, 10, 0)
      comma == Cur(min) = ","
      last == IF comma THEN max ELSE min
      limit == IF ~comma THEN min.node ELSE IF max.i = min.i + 1 THEN -1 ELSE max.node
  IN  IF min.i = st.i + 1 \/ Cur(last) # "}" THEN Gives(st, <<>>) ELSE Gives(Move(last, 1), <<min.node, limit>>)

Quantifier(st) ==
  CASE Cur(st) = "*" -> Gives(Move(st, 1), <<0, -1>>)
    [] Cur(st) = "+" -> Gives(Move(st, 1), <<1, -1>>)
    [] Cur(st) = "?" -> Gives(Move(st, 1), <<0, 1>>)
    [] Cur(st) = "{" -> Bound(st)
    [] OTHER -> Gives(st, <<>>)

RECURSIVE ParseAlt(_), ParseCat(_, _), Branches(_, _)

\* Mutant: a group takes its number after its body.
Late(r, st, names) ==
  LET g == r.ngroups
  IN  Close([r EXCEPT !.depth = st.depth, !.names = @ \o [k \in DOMAIN names |-> <<names[k], g>>]], Group(g, r.node))

\* A group that captures takes its number before its body r is read.
Captured(r, st, names) == Close([r EXCEPT !.depth = st.depth], Group(st.ngroups + 1, r.node))
Capturing(st, names) ==
  LET g == st.ngroups + 1
      inner == [st EXCEPT !.ngroups = g, !.names = @ \o [k \in DOMAIN names |-> <<names[k], g>>], !.depth = @ + 1]
  IN  Captured(ParseAlt(inner), st, names)

Apart(body, k) == Close(body, IF k = ":" THEN Group(-1, body.node) ELSE Look(k = "!", body.node))

\* parseGroup, behind (.
ParseGroup(st) ==
  LET k == Ahead(st, 1)
      plain == Cur(st) # "?" \/ st.ere
      name == GroupName(Move(st, 2), IF k = "<" THEN ">" ELSE "'")
      comment == FirstFrom(st, st.i + 1, LAMBDA j : st.p[j] = ")")
  IN
  IF ~plain /\ k \in {":", "=", "!"} THEN Apart(ParseAlt(Move(st, 2)), k)
  ELSE IF ~plain /\ k = "#" THEN IF comment = 0 THEN Fail(st) ELSE Gives([st EXCEPT !.i = comment + 1], Node("empty"))
  ELSE IF ~plain /\ (k \notin {"<", "'"} \/ (k = "<" /\ Ahead(st, 2) \in {"=", "!"}) \/ ~name.ok) THEN Fail(st)
  ELSE Capturing(IF plain THEN st ELSE name, IF plain THEN <<>> ELSE <<name.node>>)

\* A backslash outside a class.
ParseEscape(st) ==
  LET nxt == Ahead(st, 1)
      name == GroupName(Move(st, 3), ">")
  IN  IF st.ere THEN IF nxt = None THEN Fail(st) ELSE Gives(Move(st, 2), Class({Code(nxt)}))
      ELSE IF nxt = "k" /\ Ahead(st, 2) = "<" THEN Gives(name, [Node("bref") EXCEPT !.name = name.node])
      ELSE IF nxt \in DOMAIN Asserts THEN Gives(Move(st, 2), Holds(Asserts[nxt]))
      ELSE LET r == Esc(Move(st, 1), FALSE)
           IN  IF r.ok /\ r.node.t = "cls" THEN Gives(r, Class(r.node.set)) ELSE r

Closes(st) == Cur(st) = ")" /\ (~st.ere \/ st.depth > 0)

ParseAtom(st) ==
  LET c == Cur(st) IN
  CASE c = "(" -> ParseGroup(Move(st, 1))
    [] c = "[" -> LET neg == Ahead(st, 1) = "^"
                  IN  ParseClass(Move(st, IF neg THEN 2 ELSE 1), [Class({}) EXCEPT !.neg = neg], TRUE)
    [] c = "." -> Gives(Move(st, 1), Dot(st.dotall))
    [] c = "^" -> Gives(Move(st, 1), Holds("BOL"))
    [] c = "$" -> Gives(Move(st, 1), Holds("EOL"))
    [] c = "\\" -> ParseEscape(st)
    [] c = "|" \/ Closes(st) -> Gives(st, Node("empty"))
    [] c \in {"*", "+", "?"} \/ (c = "{" /\ st.ere /\ IsDigit(Ahead(st, 1))) -> Fail(st)
    [] OTHER -> Gives(Move(st, 1), Class({Code(c)}))

\* parsePiece: an atom with at most one quantifier.
Bounds(st) == Cur(st) = "{" /\ st.ere /\ IsDigit(Ahead(st, 1))
Repeated(atom, q, lazy, rest) ==
  IF q[2] \in 0 .. q[1] - 1 \/ Quantifier(rest).node # <<>> \/ Bounds(rest) THEN Fail(rest)
  ELSE Gives(rest, Rep(atom.node, q[1], q[2], ~lazy))
Quantified(atom, q) ==
  IF ~atom.ok THEN atom
  ELSE IF q.node = <<>> THEN IF Bounds(atom) THEN Fail(atom) ELSE atom
  ELSE Repeated(atom, q.node, Cur(q) = "?" /\ ~q.ere, SkipX(IF Cur(q) \in {"?", "+"} /\ ~q.ere THEN Move(q, 1) ELSE q))
Pieced(atom) == Quantified(atom, Quantifier(atom))
ParsePiece(st) == Pieced(SkipX(ParseAtom(st)))

WithPiece(piece, items) == ParseCat(piece, Append(items, piece.node))
Continued(s, items) ==
  IF ~s.ok \/ Cur(s) \in {None, "|"} \/ Closes(s) THEN Gives(s, [Node("cat") EXCEPT !.items = items])
  ELSE WithPiece(ParsePiece(s), items)
ParseCat(st, items) == Continued(SkipX(st), items)

Branch(r, items) ==
  IF r.ok /\ Cur(r) = "|" THEN Branches(Move(r, 1), Append(items, r.node))
  ELSE Gives(r, [Node("alt") EXCEPT !.items = Append(items, r.node)])
Branches(st, items) == Branch(ParseCat(st, <<>>), items)

\* parseAlt: no branch of an ERE is empty, other than a whole group.
Alternatives(r) ==
  LET all == r.node.items
  IN  IF ~r.ok THEN r
      ELSE IF r.ere /\ \E b \in ToSet(all) : b.items = <<>> /\ (Len(all) > 1 \/ r.depth = 0) THEN Fail(r)
      ELSE IF Len(all) = 1 THEN Gives(r, all[1]) ELSE r
ParseAlt(st) == Alternatives(Branches(st, <<>>))

\* The references by name get the number of the first group of that name.
RECURSIVE Resolved(_, _)
GroupNamed(names, n) == SelectInSeq(names, LAMBDA x : x[1] = n)
Resolved(node, names) ==
  [node EXCEPT !.items = [k \in DOMAIN @ |-> Resolved(@[k], names)],
               !.gidx = IF node.t = "bref" /\ @ = -1 /\ GroupNamed(names, node.name) > 0
                        THEN names[GroupNamed(names, node.name)][2] ELSE @]
RECURSIVE Unresolved(_)
Unresolved(node) ==
  (node.t = "bref" /\ node.gidx = -1) \/ \E k \in DOMAIN node.items : Unresolved(node.items[k])

\* rxCompile, up to the tree.
Checked(r, tree) == IF ~r.ok \/ r.i <= Len(r.p) \/ Unresolved(tree) THEN Fail(r) ELSE Gives(r, tree)
Named(r) == Checked(r, Resolved(r.node, r.names))
Parse(pattern, fl) == Named(ParseAlt(Start(IF "q" \in fl THEN ExpandQuotes(Chars(pattern)) ELSE Chars(pattern), fl)))
=============================================================================
