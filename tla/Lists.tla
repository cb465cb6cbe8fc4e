-------------------------------- MODULE Lists --------------------------------
(***************************************************************************)
(* What the runtime keeps the lists and dictionaries of all its languages  *)
(* in: a jsArray is the header of a Go slice, so it may have cells behind  *)
(* its end, and a method that walks it while a block runs has a header of  *)
(* its own on the same cells; a dictionary is two such arrays side by side *)
(* with an index of the keys (jsrt.go).                                    *)
(*                                                                         *)
(* A value is a tuple: of a number, or of -1000 and the values of a row.   *)
(* A method of a language is an operator that answers an Outcome.          *)
(***************************************************************************)
EXTENDS Integers, SequencesExt

-----------------------------------------------------------------------------
(* Values.                                                                 *)

N(n) == <<n>>
Nil == <<-100>>      \* nil, null, None
False == <<-101>>
True == <<-102>>
Flo == <<-103>>      \* 1.0
Undef == <<-104>>
Blank == <<-105>>    \* a cell of a Go slice that nothing was ever written to
Truth(b) == IF b THEN True ELSE False

Row(s) == <<-1000>> \o s
IsRow(v) == v[1] = -1000
CellsOf(v) == Tail(v)

IsNum(v) == v[1] >= -99 \/ v = Flo
Num(v) == IF v = Flo THEN 1 ELSE v[1]
IsNull(v) == v \in {Nil, Undef}

\* ===: rows are objects, and two of them are two.
strictEq(a, b) == a = b /\ ~IsRow(a)

-----------------------------------------------------------------------------
(* Lists: the cells of the slice, how many of them are elements, and which *)
(* array of cells it is.                                                   *)

List(s) == [c |-> s, n |-> Len(s), b |-> 0]
Els(l) == SubSeq(l.c, 1, l.n)
Fresh(l, s) == [c |-> s, n |-> Len(s), b |-> l.b + 1]
Trimmed(l, n) == [l EXCEPT !.n = n]

\* append: in the cells behind the end where they are enough, else in a new array.
Appended(l, s) ==
  LET need == l.n + Len(s)
      cap == IF 2 * Len(l.c) > need THEN 2 * Len(l.c) ELSE need
  IN  IF need <= Len(l.c)
      THEN [l EXCEPT !.n = need, !.c = [i \in DOMAIN @ |-> IF i > l.n /\ i <= need THEN s[i - l.n] ELSE @[i]]]
      ELSE [Fresh(l, Els(l) \o s \o [i \in 1 .. cap - need |-> Blank]) EXCEPT !.n = need]

\* Mutant: one element too far.
CutOutNext(l, i) ==
  [l EXCEPT !.n = @ - 1, !.c = [j \in DOMAIN @ |-> IF j > i + 1 /\ j < l.n THEN @[j + 1] ELSE @[j]]]
\* append(a[:i], a[i+1:]...), i from 0: the elements behind move down in their cells.
CutOut(l, i) ==
  [l EXCEPT !.n = @ - 1, !.c = [j \in DOMAIN @ |-> IF j > i /\ j < l.n THEN @[j + 1] ELSE @[j]]]

Stored(l, i, v) == [l EXCEPT !.c[i + 1] = v]

-----------------------------------------------------------------------------
(* Blocks.  A block answers by its name; at its call number `at' it first  *)
(* changes the list it is called from, by a method of the same language.   *)

NoBlock == [f |-> "none", at |-> 0, m |-> "", args |-> <<>>]
Given(blk) == blk.f # "none"

Key(v) == IF ~IsRow(v) THEN v[1] ELSE IF Len(v) > 1 /\ ~IsRow(v[2]) THEN v[2][1] ELSE 0
SaysOfKey(f, v, k) ==
  CASE f = "is2" -> Truth(k = 2)
    [] f = "not2" -> Truth(k # 2)
    [] f = "self" -> v
    [] f = "half" -> N(k \div 2)
    [] f = "back" -> N(-k)
    [] f = "nil" -> Nil
    [] f = "pair" -> Row(<<N(k), N(7)>>)
Says(f, v) == SaysOfKey(f, v, Key(v))
\* A block of two values, as a fold and a comparator have.
SaysOfTwo(f, x, y) ==
  CASE f = "fold" -> N((10 * Key(x) + Key(y)) % 997)
    [] f = "less" -> N(Num(x) - Num(y))
    [] f = "more" -> N(Num(y) - Num(x))

\* What a loop with a header of its own sees of list l in its rounds through the places of
\* `order', when call number `at' of the block has left the list as l2: a cell is the one
\* the array has by then.
\* (Mutant CellNow: the header of the list itself.)
CellNow(l, l2, i) == IF i <= l2.n THEN l2.c[i] ELSE Blank
Cell(l, l2, i) == IF l2.b = l.b THEN l2.c[i] ELSE l.c[i]
SeenBy(l, l2, at, order) ==
  [j \in DOMAIN order |-> IF at # 0 /\ j > at THEN Cell(l, l2, order[j]) ELSE l.c[order[j]]]
Up(l) == [i \in 1 .. l.n |-> i]
Down(l) == [i \in 1 .. l.n |-> l.n + 1 - i]

\* for _, e := range t.elems, in any order: the calls go on until Stop holds of an answer.
\* A walk is what the block has seen and said, and the list it has left as l.
FirstOf(places, none) == IF places = {} THEN none ELSE Min(places)
EndingAt(k, w, stopped) == [w EXCEPT !.seen = SubSeq(@, 1, k), !.said = SubSeq(@, 1, k), !.stopped = stopped]
UpToFirst(w, ends) == EndingAt(FirstOf(ends, Len(w.seen)), w, ends # {})
AllSaid(blk, seen) == [seen |-> seen, said |-> [i \in DOMAIN seen |-> Says(blk.f, seen[i])], stopped |-> FALSE]
Left(w, l, l2, at) == [l |-> IF at \in DOMAIN w.seen THEN l2 ELSE l] @@ w
Stopped(w, Stop(_)) == UpToFirst(w, {i \in DOMAIN w.said : Stop(w.said[i])})
WalkedIn(order, l, l2, blk, Stop(_)) ==
  Left(Stopped(AllSaid(blk, SeenBy(l, l2, blk.at, order)), Stop), l, l2, blk.at)
Walked(l, l2, blk, Stop(_)) == WalkedIn(Up(l), l, l2, blk, Stop)
Never(v) == FALSE

\* The elements of a walk whose answers are Hit.
Taken(w, Hit(_)) ==
  LET hits == SelectSeq([i \in DOMAIN w.seen |-> i], LAMBDA i : Hit(w.said[i]))
  IN  [j \in DOMAIN hits |-> w.seen[hits[j]]]

\* Elements gathered under the keys of their block's answers, in the order of the first of
\* each: a row of key and members for each key.
Bucketed(keys, els, SameKey(_, _)) ==
  LET firsts == SelectSeq([i \in DOMAIN keys |-> i], LAMBDA i : \A j \in 1 .. i - 1 : ~SameKey(keys[j], keys[i]))
      members(i) == SelectSeq([j \in DOMAIN keys |-> j], LAMBDA j : SameKey(keys[i], keys[j]))
  IN  [g \in DOMAIN firsts |->
         <<keys[firsts[g]]>> \o [k \in DOMAIN members(firsts[g]) |-> els[members(firsts[g])[k]]]]
FirstsOf(s, Same(_, _)) == LET groups == Bucketed(s, s, Same) IN [g \in DOMAIN groups |-> groups[g][2]]

-----------------------------------------------------------------------------
(* Outcomes: the list as the call leaves it, the answer, what the block    *)
(* has seen, and whether the call ended as it should.                      *)

One(v) == [k |-> "one", v |-> <<v>>]
Many(s) == [k |-> "many", v |-> s]        \* a list of its own
Me == [k |-> "me", v |-> <<>>]            \* the receiver
Hash(rows) == [k |-> "hash", v |-> rows]  \* a dictionary of its own, as rows of key and value
Enum(op, s) == [k |-> "enum", v |-> s, op |-> op, pos |-> 0]

Answer(l, a) == [l |-> l, a |-> a, seen |-> <<>>, bad |-> "no"]
AfterWalk(w, a) == [l |-> w.l, a |-> a, seen |-> w.seen, bad |-> "no"]
OfDict(d, a) == [d |-> d, a |-> a, seen |-> <<>>, bad |-> "no"]
Bad(l, why) == [l |-> l, a |-> One(Undef), seen |-> <<>>, bad |-> why]

Reversed(s) == Reverse(s)
Numbers(n) == [i \in 1 .. n |-> N(i - 1)]

\* A merge sort that takes the left one of two equal elements first: the places of the
\* elements in order, by what cmp says of the elements at two places.
\* (Mutant MergeLater: the right one.)
RECURSIVE MergeSort(_, _), Merge(_, _, _), MergeLater(_, _, _)
MergeLater(x, y, cmp) ==
  IF x = <<>> THEN y ELSE IF y = <<>> THEN x
  ELSE IF cmp[x[1], y[1]] < 0 THEN <<x[1]>> \o MergeLater(Tail(x), y, cmp) ELSE <<y[1]>> \o MergeLater(x, Tail(y), cmp)
Merge(x, y, cmp) ==
  IF x = <<>> THEN y ELSE IF y = <<>> THEN x
  ELSE IF cmp[x[1], y[1]] <= 0 THEN <<x[1]>> \o Merge(Tail(x), y, cmp) ELSE <<y[1]>> \o Merge(x, Tail(y), cmp)
MergeSort(places, cmp) ==
  IF Len(places) < 2 THEN places
  ELSE LET mid == Len(places) \div 2
       IN  Merge(MergeSort(SubSeq(places, 1, mid), cmp), MergeSort(SubSeq(places, mid + 1, Len(places)), cmp), cmp)
InOrder(s, Cmp(_, _)) ==
  LET places == MergeSort([i \in DOMAIN s |-> i], [i, j \in DOMAIN s |-> Cmp(s[i], s[j])])
  IN  [i \in DOMAIN s |-> s[places[i]]]

-----------------------------------------------------------------------------
(* Dictionaries: keys and values side by side in the order of insertion,   *)
(* and the index of the keys a Go map can hold.  What changes the keys     *)
(* drops the index or keeps it in step; a lookup builds it where there is  *)
(* none for as many keys, and believes a hit only after a look.            *)

NoIndex == [on |-> FALSE, len |-> 0, all |-> TRUE, at |-> <<>>]
\* What a missing key is answered with is `other': nothing of its own, a value, or, for
\* True, what a block answers that puts it under the key.
Dict(keys, vals) == [keys |-> List(keys), vals |-> List(vals), idx |-> NoIndex, other |-> Undef]
NoDict == Dict(<<>>, <<>>)
OfRows(rows) == Dict([i \in DOMAIN rows |-> rows[i][1]], [i \in DOMAIN rows |-> rows[i][2]])
Rows(d) == [i \in 1 .. d.keys.n |-> <<d.keys.c[i], d.vals.c[i]>>]
dropIdx(d) == [d EXCEPT !.idx = NoIndex]

dictKeyable(v) == v # Flo /\ ~IsRow(v)
dictScan(s, k, Same(_, _)) == LET hits == {i \in DOMAIN s : Same(s[i], k)} IN IF hits = {} THEN -1 ELSE Min(hits) - 1
reindex(d) ==
  LET s == Els(d.keys)
      known == {i \in DOMAIN s : dictKeyable(s[i])}
  IN  [d EXCEPT !.idx = [on |-> TRUE, len |-> Len(s), all |-> known = DOMAIN s,
                         at |-> [v \in {s[i] : i \in known} |-> Min({i \in known : s[i] = v}) - 1]]]

\* Where key k is, from 0, or -1; and the dictionary with the index the lookup has left.
Indexed(d) == IF d.idx.on /\ d.idx.len = d.keys.n THEN d ELSE reindex(d)
PlaceOf(d, k) == IF k \in DOMAIN d.idx.at THEN d.idx.at[k] ELSE -1
IsThere(d, k) == PlaceOf(d, k) >= 0 => PlaceOf(d, k) < d.keys.n /\ d.keys.c[PlaceOf(d, k) + 1] = k
InIndex(d, k) == [at |-> PlaceOf(d, k), d |-> d]
dictSeek(d, k, Same(_, _)) ==
  CASE k \in DOMAIN d.idx.at -> IF IsThere(d, k) THEN InIndex(d, k) ELSE InIndex(reindex(d), k)
    [] k \notin DOMAIN d.idx.at /\ d.idx.all -> [at |-> -1, d |-> d]
    [] OTHER -> [at |-> dictScan(Els(d.keys), k, Same), d |-> d]
dictFind(d, k, Same(_, _)) ==
  IF dictKeyable(k) THEN dictSeek(Indexed(d), k, Same) ELSE [at |-> dictScan(Els(d.keys), k, Same), d |-> d]

\* A new entry without, and with, the index kept in step.
plainAppend(d, k, v) == [d EXCEPT !.keys = Appended(@, <<k>>), !.vals = Appended(@, <<v>>)]
\* (Mutant dictAppendAll: the index takes a key that it cannot hold for one that it holds.)
dictAppendAll(d, k, v) ==
  [plainAppend(d, k, v) EXCEPT !.idx = IF @.on THEN [@ EXCEPT !.len = d.keys.n + 1, !.at = (k :> d.keys.n) @@ @] ELSE @]
dictAppend(d, k, v) ==
  LET n == d.keys.n
      noted(idx) == [idx EXCEPT !.len = n + 1, !.all = @ /\ dictKeyable(k),
                                !.at = IF dictKeyable(k) /\ k \notin DOMAIN @ THEN @ @@ (k :> n) ELSE @]
  IN  [plainAppend(d, k, v) EXCEPT !.idx = IF @.on THEN noted(@) ELSE @]
dictStore(d, i, v) == [d EXCEPT !.vals = Stored(@, i, v)]
dictCut(d, i) == dropIdx([d EXCEPT !.keys = CutOut(@, i), !.vals = CutOut(@, i)])

\* for i := range keys.elems, with keys.elems[i] and vals.elems[i] read in every round from
\* what d2 the block has made of the dictionary: behind its end, that is a panic.
PairRange(d, d2, blk) ==
  LET k == d.keys.n
      now(i) == IF blk.at # 0 /\ i > blk.at THEN d2 ELSE d
      bad == {i \in 1 .. k : i > now(i).keys.n}
      upTo == IF bad = {} THEN k ELSE Min(bad) - 1
      seen == [i \in 1 .. upTo |-> Row(<<now(i).keys.c[i], now(i).vals.c[i]>>)]
  IN  [seen |-> seen, said |-> [i \in 1 .. upTo |-> Says(blk.f, seen[i])], bad |-> IF bad = {} THEN "no" ELSE "panic",
       d |-> IF blk.at \in 1 .. k THEN d2 ELSE d]
=============================================================================
