------------------------------ MODULE JsLibrary ------------------------------
(***************************************************************************)
(* JavaScript's arrays (jsvArrayMethod, jsrtjsprint.go) and the few array  *)
(* methods every language has that has none of its own (builtinMethod,     *)
(* jsrt.go).  Their loops count, and read the array as it is by then.      *)
(***************************************************************************)
EXTENDS Lists

truthy(v) == v \notin {False, Nil, Undef, N(0)}

\* An index from the front, or from the end where it is negative, within the list.
jsvRelIndex(i, n) == IF i < 0 THEN Max({n + i, 0}) ELSE Min({i, n})
Given1(p, i) == i \in DOMAIN p /\ ~IsNull(p[i])
sliceRange(n, p) ==
  <<IF Given1(p, 1) THEN jsvRelIndex(Num(p[1]), n) ELSE 0, IF Given1(p, 2) THEN jsvRelIndex(Num(p[2]), n) ELSE n>>
Part(s, begin, end) == SubSeq(s, begin + 1, end)
RowsApart(p) == FlattenSeq([i \in DOMAIN p |-> IF IsRow(p[i]) THEN CellsOf(p[i]) ELSE <<p[i]>>])

Swapped(l) == [l EXCEPT !.c = [i \in DOMAIN @ |-> IF i <= l.n THEN @[l.n + 1 - i] ELSE @[i]]]
Overwritten(l, s) == [l EXCEPT !.c = [i \in DOMAIN @ |-> IF i <= Len(s) THEN s[i] ELSE @[i]]]

\* Array.prototype.sort without a comparator: by what the elements are written as.
Digits(n) == IF n < 0 THEN <<45>> \o <<48 - n>> ELSE IF n < 10 THEN <<48 + n>> ELSE <<48 + (n \div 10), 48 + (n % 10)>>
Written(v) == IF v = Nil THEN <<110>> ELSE IF v = True THEN <<116>> ELSE IF v = False THEN <<102>> ELSE Digits(Num(v))
TextCmp(a, b) ==
  LET ds == {i \in DOMAIN a \cap DOMAIN b : a[i] # b[i]}
  IN  IF ds = {} THEN Len(a) - Len(b) ELSE a[Min(ds)] - b[Min(ds)]
jsvSort(s, blk) ==
  LET vals == SelectSeq(s, LAMBDA v : v # Undef)
      Cmp(a, b) == IF Given(blk) THEN SaysOfTwo(blk.f, a, b)[1] ELSE TextCmp(Written(a), Written(b))
  IN  InOrder(vals, Cmp) \o [i \in 1 .. Len(s) - Len(vals) |-> Undef]

-----------------------------------------------------------------------------
(* Without a block.                                                        *)

jsvEnds(l, m, p) ==
  LET s == Els(l) IN
  CASE m = "push" -> LET k == Appended(l, p) IN Answer(k, One(N(k.n)))
    [] m = "pop" -> IF l.n = 0 THEN Answer(l, One(Undef)) ELSE Answer(Trimmed(l, l.n - 1), One(s[l.n]))
    [] m = "shift" -> IF l.n = 0 THEN Answer(l, One(Undef)) ELSE Answer(Fresh(l, Tail(s)), One(s[1]))
    [] m = "unshift" -> Answer(Fresh(l, p \o s), One(N(l.n + Len(p))))
    [] m = "reverse" -> Answer(Swapped(l), Me)
    [] m = "slice" -> LET r == sliceRange(l.n, p) IN Answer(l, Many(Part(s, r[1], r[2])))
    [] m = "splice" ->
         LET start == IF p = <<>> THEN l.n ELSE jsvRelIndex(Num(p[1]), l.n)
             asked == Max({IF Len(p) > 1 THEN Num(p[2]) ELSE l.n - start, 0})
             del == Min({asked, l.n - start})
         IN  Answer(Fresh(l, Part(s, 0, start) \o SubSeq(p, 3, Len(p)) \o Part(s, start + del, l.n)),
                    Many(Part(s, start, start + del)))
jsvJoins(l, m, p) ==
  CASE m = "concat" -> Answer(l, Many(Els(l) \o RowsApart(p)))
    [] m = "join" -> Answer(l, Many([i \in 1 .. l.n |-> IF IsNull(l.c[i]) THEN Blank ELSE l.c[i]]))
jsvFill(l, p) ==
  LET begin == IF Given1(p, 2) THEN jsvRelIndex(Num(p[2]), l.n) ELSE 0
      end == IF Given1(p, 3) THEN jsvRelIndex(Num(p[3]), l.n) ELSE l.n
  IN  Answer(Overwritten(l, [i \in 1 .. l.n |-> IF i > begin /\ i <= end THEN p[1] ELSE l.c[i]]), Me)
jsvFlat(l, p) ==
  Answer(l, Many(IF p # <<>> /\ ~IsNull(p[1]) /\ Num(p[1]) < 1 THEN Els(l) ELSE RowsApart(Els(l))))

jsvAsks(l, m, p) ==
  LET s == Els(l)
      from == IF Len(p) > 1 THEN jsvRelIndex(Num(p[2]), l.n) ELSE 0
      hits == {i \in 1 .. l.n : strictEq(s[i], p[1])}
      hitsFrom == {i \in hits : i > from}
      i == IF p = <<>> THEN 0 ELSE IF Num(p[1]) < 0 THEN Num(p[1]) + l.n ELSE Num(p[1])
  IN  Answer(l,
  CASE m = "at" -> One(IF i \in 0 .. l.n - 1 THEN s[i + 1] ELSE Undef)
    [] m = "indexOf" -> One(N(IF hitsFrom = {} THEN -1 ELSE Min(hitsFrom) - 1))
    [] m = "lastIndexOf" -> One(N(IF hits = {} THEN -1 ELSE Max(hits) - 1))
    [] m = "includes" -> One(Truth(hits # {})))

builtinMethod(l, m, p) ==
  IF m = "indexOf" THEN jsvAsks(l, m, <<p[1]>>) ELSE IF m = "join" THEN jsvJoins(l, m, p) ELSE jsvEnds(l, m, p)

-----------------------------------------------------------------------------
(* Walks.                                                                  *)

jsvAfter(l, blk) ==
  IF blk.at = 0 THEN l ELSE jsvEnds(l, blk.m, blk.args).l

\* The calls go through the places of `order'.  A place behind the end of the array as it
\* is by then ends the loop that looks (checked), and is a panic in one that does not; a
\* call's element may be read again after it (again), from what the call has left.
Before(l, l2, at, j) == IF at # 0 /\ j > at THEN l2 ELSE l
After(l, l2, at, j) == IF at # 0 /\ j >= at THEN l2 ELSE l
Again(l, i) == IF i <= l.n THEN l.c[i] ELSE Blank
\* The walk w, which went up to place upTo of the order, with what it could look at.
Looked(w, l, l2, at, order, upTo, checked) ==
  [seen |-> w.seen, said |-> w.said, stopped |-> w.stopped, l |-> IF at \in DOMAIN w.seen THEN l2 ELSE l,
   again |-> [j \in DOMAIN w.seen |-> Again(After(l, l2, at, j), order[j])],
   bad |-> IF ~w.stopped /\ upTo < Len(order) /\ ~checked THEN "panic" ELSE "no"]
CountedTo(l, l2, blk, order, upTo, checked, Stop(_)) ==
  Looked(Stopped(AllSaid(blk, [j \in 1 .. upTo |-> Before(l, l2, blk.at, j).c[order[j]]]), Stop), l, l2, blk.at, order, upTo, checked)
Counted(l, l2, blk, order, checked, Stop(_)) ==
  CountedTo(l, l2, blk, order, FirstOf({j \in DOMAIN order : order[j] > Before(l, l2, blk.at, j).n}, Len(order) + 1) - 1, checked, Stop)

Walk1(w, a) == [l |-> w.l, a |-> a, seen |-> w.seen, bad |-> w.bad]
\* The element read again: behind the end, a panic.
Walk2(w, v, a) == IF v = Blank THEN [Walk1(w, One(Undef)) EXCEPT !.bad = "panic"] ELSE Walk1(w, a)
No(v) == ~truthy(v)

jsvWalks(l, l2, m, blk) ==
  LET w == Counted(l, l2, blk, Up(l), TRUE, Never)
      first == Counted(l, l2, blk, Up(l), TRUE, truthy)
      while == Counted(l, l2, blk, Up(l), TRUE, No)
      last == Counted(l, l2, blk, Down(l), FALSE, truthy)
      kept == Taken([w EXCEPT !.seen = w.again], truthy)
      found(f) == Last(f.again)
  IN
  CASE m = "forEach" -> Walk1(w, One(Undef))
    [] m = "map" -> Walk1(w, Many(w.said))
    [] m = "filter" -> Walk2(w, IF Blank \in {kept[h] : h \in DOMAIN kept} THEN Blank ELSE Nil, Many(kept))
    [] m = "some" -> Walk1(first, One(Truth(first.stopped)))
    [] m = "every" -> Walk1(while, One(Truth(~while.stopped)))
    [] m = "find" -> IF first.stopped THEN Walk2(first, found(first), One(found(first))) ELSE Walk1(first, One(Undef))
    [] m = "findIndex" -> Walk1(first, One(N(IF first.stopped THEN Len(first.seen) - 1 ELSE -1)))
    [] m = "findLast" -> IF last.stopped THEN Walk2(last, found(last), One(found(last))) ELSE Walk1(last, One(Undef))
    [] m = "findLastIndex" -> Walk1(last, One(N(IF last.stopped THEN l.n - Len(last.seen) ELSE -1)))

jsvFlatMap(l, l2, blk) == LET w == Counted(l, l2, blk, Up(l), TRUE, Never) IN Walk1(w, Many(RowsApart(w.said)))

jsvReduce(l, l2, m, p, blk) ==
  LET order == IF m = "reduce" THEN Up(l) ELSE Down(l)
      from == IF p = <<>> THEN Tail(order) ELSE order
      w == Counted(l, l2, blk, from, FALSE, Never)
      acc == IF p = <<>> THEN l.c[order[1]] ELSE p[1]
  IN  IF p = <<>> /\ l.n = 0 THEN Bad(l, "raise")
      ELSE Walk1(w, One(FoldLeft(LAMBDA x, v : SaysOfTwo("fold", x, v), acc, w.seen)))

\* l2 is what a block's change would leave of the list.
jsvArrayCall(l, l2, m, p, blk) ==
  CASE m \in {"push", "pop", "shift", "unshift", "reverse", "slice", "splice"} -> jsvEnds(l, m, p)
    [] m \in {"concat", "join"} -> jsvJoins(l, m, p)
    [] m = "fill" -> jsvFill(l, p)
    [] m = "flat" -> jsvFlat(l, p)
    [] m = "sort" -> Answer(Overwritten(l, jsvSort(Els(l), blk)), Me)
    [] m \in {"at", "indexOf", "lastIndexOf", "includes"} -> jsvAsks(l, m, p)
    [] m \in {"reduce", "reduceRight"} -> jsvReduce(l, l2, m, p, blk)
    [] m = "flatMap" -> jsvFlatMap(l, l2, blk)
    [] OTHER -> jsvWalks(l, l2, m, blk)
jsvArrayMethod(l, m, p, blk) == jsvArrayCall(l, jsvAfter(l, blk), m, p, blk)
=============================================================================
