----------------------------- MODULE RubyLibrary -----------------------------
(***************************************************************************)
(* Ruby's Array and Enumerator (rubyArrayMethod, rubyEnumMethod, jsrt.go): *)
(* one operator for each family of methods, which answers the Outcome of   *)
(* calling m with arguments p and block blk on list l.                     *)
(***************************************************************************)
EXTENDS Lists

rubyTruthy(v) == v \notin {Nil, False, Undef}

RECURSIVE rubyEq(_, _), rubySpaceship(_, _)
rubyEq(a, b) ==
  IF IsNum(a) /\ IsNum(b) THEN Num(a) = Num(b)
  ELSE IF IsNull(a) \/ IsNull(b) THEN IsNull(a) /\ IsNull(b)
  ELSE IF IsRow(a) /\ IsRow(b) THEN Len(a) = Len(b) /\ \A i \in 2 .. Len(a) : rubyEq(a[i], b[i])
  ELSE a = b
rubyClass(v) ==
  IF IsRow(v) THEN "Array" ELSE IF v = Flo THEN "Float" ELSE IF IsNum(v) THEN "Integer"
  ELSE IF IsNull(v) THEN "NilClass" ELSE IF v = True THEN "TrueClass" ELSE "FalseClass"
rubyEql(a, b) == rubyClass(a) = rubyClass(b) /\ rubyEq(a, b)

\* <=>: two numbers, or two arrays by the first elements that are not the same.
Uncomparable == 2
Sign(n) == IF n < 0 THEN -1 ELSE IF n > 0 THEN 1 ELSE 0
rubySpaceship(a, b) ==
  IF IsNum(a) /\ IsNum(b) THEN Sign(Num(a) - Num(b))
  ELSE IF IsRow(a) /\ IsRow(b)
  THEN LET cmp == [i \in 2 .. Min({Len(a), Len(b)}) |-> rubySpaceship(a[i], b[i])]
           differ == {i \in DOMAIN cmp : cmp[i] # 0}
       IN  IF differ = {} THEN Sign(Len(a) - Len(b)) ELSE cmp[Min(differ)]
  ELSE Uncomparable
rubyCmp(a, b) == rubySpaceship(a, b)

\* A sort raises as soon as it meets two elements that cannot be compared, and it meets
\* some whenever there are.
Incomparable(s) == Len(s) > 1 /\ \E i, j \in DOMAIN s : i # j /\ rubySpaceship(s[i], s[j]) = Uncomparable
rubyArrCmpFn(blk, a, b) == IF Given(blk) THEN SaysOfTwo(blk.f, a, b)[1] ELSE rubyCmp(a, b)
rubyArrSort(s, blk) == InOrder(s, LAMBDA a, b : rubyArrCmpFn(blk, a, b))
\* sort_by and its kin: the places of the elements by the block's answers.
rubyArrKeyed(keys) ==
  LET cmp == [i, j \in DOMAIN keys |-> rubyCmp(keys[i], keys[j])] IN MergeSort([i \in DOMAIN keys |-> i], cmp)

rubyArrIndex(s, v) == LET hits == {i \in DOMAIN s : rubyEq(s[i], v)} IN IF hits = {} THEN -1 ELSE Min(hits) - 1
rubyIdxOrNil(i) == IF i < 0 THEN Nil ELSE N(i)
rubyArrNorm(l, i) == IF i < 0 THEN l.n + i ELSE i
\* A start before the first element takes as many elements from the first on.
rubyArrSub(s, from, len) ==
  LET lo == Max({from, 0}) IN SubSeq(s, lo + 1, Min({Len(s), lo + Max({len, 0})}))
\* Array#[start, length].
rubyArrSubseq(l, start, len) ==
  LET s == rubyArrNorm(l, start)
  IN  IF len < 0 \/ s < 0 \/ s > l.n THEN One(Nil) ELSE Many(rubyArrSub(Els(l), s, len))
\* A range arrives as the row of its members.
rubyRangeSubseq(l, r) ==
  IF Len(r) = 1 THEN Many(<<>>) ELSE rubyArrSubseq(l, Num(r[2]), Len(r) - 1)

rubyArrUniq(s) ==
  FoldLeft(LAMBDA out, v : IF \E i \in DOMAIN out : rubyEql(out[i], v) THEN out ELSE Append(out, v), <<>>, s)
rubyArrHas(s, v) == \E i \in DOMAIN s : rubyEql(s[i], v)
rubyArrAnd(s, r) == rubyArrUniq(SelectSeq(s, LAMBDA v : rubyArrHas(r, v)))
rubyArrOr(s, r) == rubyArrUniq(s \o r)
rubyArrMinus(s, r) == SelectSeq(s, LAMBDA v : ~rubyArrHas(r, v))
rubyArrFlat(s, depth) ==
  IF depth = 0 THEN s ELSE FlattenSeq([i \in DOMAIN s |-> IF IsRow(s[i]) THEN CellsOf(s[i]) ELSE <<s[i]>>])

\* combination and permutation as rows of indices, depth first.
RECURSIVE CombsFrom(_, _, _, _), PermsFrom(_, _, _)
CombsFrom(n, k, start, cur) ==
  IF Len(cur) = k THEN <<cur>>
  ELSE FlattenSeq([j \in 1 .. n - start + 1 |-> CombsFrom(n, k, start + j, Append(cur, start + j - 1))])
PermsFrom(n, k, cur) ==
  IF Len(cur) = k THEN <<cur>>
  ELSE LET free == SelectSeq([i \in 1 .. n |-> i], LAMBDA i : \A j \in DOMAIN cur : cur[j] # i)
       IN  FlattenSeq([j \in DOMAIN free |-> PermsFrom(n, k, Append(cur, free[j]))])
rubyCombIdx(n, k) == IF k < 0 \/ k > n THEN <<>> ELSE CombsFrom(n, k, 1, <<>>)
rubyPermIdx(n, k) == IF k < 0 \/ k > n THEN <<>> ELSE PermsFrom(n, k, <<>>)
rubyPick(s, picks) == [j \in DOMAIN picks |-> Row([i \in DOMAIN picks[j] |-> s[picks[j][i]]])]

\* The keys of tally and group_by.
rubyKeyEq(a, b) == strictEq(a, b) \/ (IsRow(a) /\ IsRow(b) /\ rubyEq(a, b))

-----------------------------------------------------------------------------
(* What changes the list without a block.                                  *)

rubyArrReplace(l, s) == Fresh(l, s)
Arg(p, i) == IF i \in DOMAIN p THEN p[i] ELSE Undef
Num1(p) == IF p = <<>> THEN 0 ELSE Num(p[1])

rubyEnds(l, m, p) ==
  LET s == Els(l)
      n == Min({Num1(p), l.n})
  IN
  CASE m \in {"push", "append"} -> Answer(Appended(l, p), Me)
    [] m = "pop" /\ p # <<>> -> Answer(rubyArrReplace(l, rubyArrSub(s, 0, l.n - n)), Many(rubyArrSub(s, l.n - n, n)))
    [] m = "pop" /\ p = <<>> -> IF l.n = 0 THEN Answer(l, One(Nil)) ELSE Answer(Trimmed(l, l.n - 1), One(s[l.n]))
    [] m = "shift" /\ p # <<>> -> Answer(rubyArrReplace(l, rubyArrSub(s, n, l.n - n)), Many(rubyArrSub(s, 0, n)))
    [] m = "shift" /\ p = <<>> -> IF l.n = 0 THEN Answer(l, One(Nil)) ELSE Answer(rubyArrReplace(l, Tail(s)), One(s[1]))
    [] m = "unshift" -> Answer(rubyArrReplace(l, p \o s), Me)
    [] m = "clear" -> Answer(rubyArrReplace(l, <<>>), Me)

rubyPuts(l, m, p) ==
  LET s == Els(l) IN
  CASE m = "concat" ->
         Answer(FoldLeft(LAMBDA x, a : IF IsRow(a) THEN Appended(x, CellsOf(a)) ELSE x, l, p), Me)
    [] m = "insert" ->
         LET ix == rubyArrNorm(l, Num1(p))
         IN  IF ix < 0 \/ ix > l.n THEN Bad(l, "panic")
             ELSE Answer(rubyArrReplace(l, SubSeq(s, 1, ix) \o Tail(p) \o SubSeq(s, ix + 1, l.n)), Me)
    [] m = "delete" ->
         LET hits == SelectSeq(s, LAMBDA v : rubyEq(v, Arg(p, 1)))
         IN  Answer(rubyArrReplace(l, SelectSeq(s, LAMBDA v : ~rubyEq(v, Arg(p, 1)))),
                    One(IF hits = <<>> THEN Nil ELSE Last(hits)))
    [] m = "delete_at" ->
         LET ix == rubyArrNorm(l, Num1(p))
         IN  IF ix \notin 0 .. l.n - 1 THEN Answer(l, One(Nil))
             ELSE Answer(rubyArrReplace(l, RemoveAt(s, ix + 1)), One(s[ix + 1]))

\* a[k] = v grows the list; a[start, length] = v and a[range] = v put another part there.
rubyIndexSet(l, k, v) ==
  LET ix == rubyArrNorm(l, k)
      grown == FoldLeft(LAMBDA x, i : Appended(x, <<Nil>>), l, [i \in 1 .. ix + 1 - l.n |-> i])
  IN  IF ix < 0 THEN Bad(l, "raise") ELSE Answer(Stored(grown, ix, v), One(v))
rubySliceBounds(l, k1, k2) ==
  IF ~IsNull(k2) THEN <<rubyArrNorm(l, Num(k1)), Max({Num(k2), 0})>>
  ELSE IF Len(k1) = 1 THEN <<l.n, 0>> ELSE <<rubyArrNorm(l, Num(k1[2])), Len(k1) - 1>>
rubySetSlice(l, k1, k2, v) ==
  IF IsNull(k2) /\ ~IsRow(k1) THEN [rubyIndexSet(l, Num(k1), v) EXCEPT !.a = Me]
  ELSE LET bounds == rubySliceBounds(l, k1, k2)
           s == bounds[1]
           grown == FoldLeft(LAMBDA x, i : Appended(x, <<Nil>>), l, [i \in 1 .. s - l.n |-> i])
           els == Els(grown)
           len == Min({bounds[2], grown.n - s})
           ins == IF IsRow(v) THEN CellsOf(v) ELSE <<v>>
       IN  IF s < 0 THEN Bad(l, "raise")
           ELSE Answer(Fresh(grown, SubSeq(els, 1, s) \o ins \o SubSeq(els, s + len + 1, grown.n)), Me)

\* What a block may do to the list it is called from.
rubyChange(l, m, p) ==
  (CASE m = "[]=" -> rubyIndexSet(l, Num1(p), p[2])
     [] m = "pop, push" -> rubyEnds(rubyEnds(l, "pop", <<>>).l, "push", p)
     [] m = "delete_at" -> rubyPuts(l, m, p)
     [] OTHER -> rubyEnds(l, m, p)).l
rubyAfter(l, blk) == IF blk.at = 0 THEN l ELSE rubyChange(l, blk.m, blk.args)

-----------------------------------------------------------------------------
(* Questions.                                                              *)

rubyAsks(l, m, p) ==
  LET s == Els(l)
      n == Num1(p)
      ix == rubyArrNorm(l, n)
      orNil(a) == IF l.n = 0 THEN One(Nil) ELSE One(a)
  IN  Answer(l,
  CASE m \in {"size", "length"} -> One(N(l.n))
    [] m = "empty?" -> One(Truth(l.n = 0))
    [] m \in {"[]", "slice"} /\ Len(p) = 1 /\ ~IsRow(p[1]) -> One(IF ix \in 0 .. l.n - 1 THEN s[ix + 1] ELSE Nil)
    [] m = "[]" /\ Len(p) = 2 -> rubyArrSubseq(l, n, Num(p[2]))
    [] m = "[]" /\ Len(p) = 1 /\ IsRow(p[1]) -> rubyRangeSubseq(l, p[1])
    [] m = "first" -> IF p = <<>> THEN orNil(s[1]) ELSE Many(rubyArrSub(s, 0, n))
    [] m = "last" -> IF p = <<>> THEN orNil(s[l.n]) ELSE Many(rubyArrSub(s, l.n - Min({n, l.n}), Min({n, l.n})))
    [] m = "include?" -> One(Truth(rubyArrIndex(s, Arg(p, 1)) >= 0))
    [] m \in {"index", "find_index"} -> One(rubyIdxOrNil(rubyArrIndex(s, Arg(p, 1))))
    [] m = "rindex" ->
         LET hits == {i \in 1 .. l.n : rubyEq(s[i], Arg(p, 1))} IN One(IF hits = {} THEN Nil ELSE N(Max(hits) - 1))
    [] m \in {"to_a", "dup"} -> Many(s)
    [] m = "uniq" -> Many(rubyArrUniq(s))
    [] m = "&" -> Many(rubyArrAnd(s, CellsOf(p[1])))
    [] m = "|" -> Many(rubyArrOr(s, CellsOf(p[1])))
    [] m = "-" -> Many(rubyArrMinus(s, CellsOf(p[1]))))

\* Lists made of all elements.
rubyMakes(l, m, p) ==
  LET s == Els(l) IN
  CASE m = "count" -> One(N(IF p = <<>> THEN l.n ELSE Len(SelectSeq(s, LAMBDA v : rubyEq(v, p[1])))))
    [] m = "tally" ->
         LET keyed == Bucketed(s, s, rubyKeyEq) IN Hash([g \in DOMAIN keyed |-> <<keyed[g][1], N(Len(keyed[g]) - 1)>>])
    [] m = "compact" -> Many(SelectSeq(s, LAMBDA v : ~IsNull(v)))
    [] m = "flatten" -> Many(rubyArrFlat(s, IF p = <<>> THEN -1 ELSE Num1(p)))
    [] m = "reverse" -> Many(Reversed(s))
    [] m = "zip" ->
         Many([i \in 1 .. l.n |-> Row(<<s[i]>> \o [j \in DOMAIN p |-> IF i < Len(p[j]) THEN p[j][i + 1] ELSE Nil])])

\* Parts of it by number.
rubyParts(l, m, p) ==
  LET s == Els(l)
      n == Num1(p)
      r == IF p = <<>> THEN 1 ELSE n
  IN
  CASE m = "take" -> Many(rubyArrSub(s, 0, n))
    [] m = "drop" -> Many(rubyArrSub(s, n, l.n - n))
    [] m = "rotate" -> Many(IF l.n = 0 THEN <<>> ELSE [i \in 1 .. l.n |-> s[((i - 1 + (r % l.n)) % l.n) + 1]])
    [] m = "values_at" ->
         Many([j \in DOMAIN p |-> LET i == rubyArrNorm(l, Num(p[j])) IN IF i \in 0 .. l.n - 1 THEN s[i + 1] ELSE Nil])
    [] m = "slice" /\ Len(p) = 2 -> Many(rubyArrSub(s, rubyArrNorm(l, n), Num(p[2])))
    [] m = "slice" /\ Len(p) = 1 /\ IsRow(p[1]) ->
         Many(IF Len(p[1]) = 1 THEN <<>> ELSE rubyArrSub(s, rubyArrNorm(l, Num(p[1][2])), Len(p[1]) - 1))

\* The first of its rows that begins with an element, and all rows of it and others.
rubyRows(l, m, p) ==
  LET s == Els(l)
      rows == SelectSeq(s, LAMBDA v : IsRow(v) /\ Len(v) > 1 /\ rubyEq(v[2], Arg(p, 1)))
  IN
  CASE m = "assoc" -> One(IF rows = <<>> THEN Nil ELSE rows[1])
    [] m = "product" ->
         Many(FoldLeft(LAMBDA all, a : FlattenSeq([r \in DOMAIN all |-> [v \in 1 .. Len(a) - 1 |-> Append(all[r], a[v + 1])]]),
                       [i \in 1 .. l.n |-> Row(<<s[i]>>)], p))
rubySample(l, p) == IF p = <<>> THEN One(IF l.n = 0 THEN Nil ELSE l.c[1]) ELSE Many(rubyArrSub(Els(l), 0, Min({Num1(p), l.n})))

\* The forms with a bang, that answer nil where they change nothing.
rubyBangs(l, m) ==
  LET s == Els(l)
      new == CASE m = "compact!" -> SelectSeq(s, LAMBDA v : ~IsNull(v))
               [] m = "uniq!" -> rubyArrUniq(s)
               [] m = "flatten!" -> rubyArrFlat(s, -1)
               [] m = "reverse!" -> Reversed(s)
               [] m = "shuffle!" -> s
  IN  IF m \in {"compact!", "uniq!"} /\ Len(new) = l.n THEN Answer(l, One(Nil))
      ELSE Answer(IF m = "shuffle!" THEN l ELSE rubyArrReplace(l, new), Me)

-----------------------------------------------------------------------------
(* Orders.                                                                 *)

rubyOrders(l, m, p, blk) ==
  LET s == Els(l)
      sorted == rubyArrSort(s, blk)
      \* The first of the smallest, or of the largest.
      best(sign) == FoldLeft(LAMBDA x, v : IF sign * rubyArrCmpFn(blk, v, x) > 0 THEN v ELSE x, s[1], Tail(s))
  IN
  IF ~Given(blk) /\ Incomparable(s) THEN Bad(l, "raise")
  ELSE CASE m = "sort" -> Answer(l, Many(sorted))
         [] m = "sort!" -> Answer(rubyArrReplace(l, sorted), Me)
         [] m = "min" /\ p # <<>> -> Answer(l, Many(rubyArrSub(sorted, 0, Num1(p))))
         [] m = "max" /\ p # <<>> -> Answer(l, Many(rubyArrSub(Reversed(sorted), 0, Num1(p))))
         [] m = "min" /\ p = <<>> -> Answer(l, One(IF s = <<>> THEN Nil ELSE best(-1)))
         [] m = "max" /\ p = <<>> -> Answer(l, One(IF s = <<>> THEN Nil ELSE best(1)))
         [] m = "minmax" -> Answer(l, Many(IF s = <<>> THEN <<Nil, Nil>> ELSE <<sorted[1], Last(sorted)>>))

\* An empty list is answered before the block is asked for a key.
rubyKeyed(l, l2, m, blk) ==
  LET w == Walked(l, l2, blk, Never)
      places == rubyArrKeyed(w.said)
      sorted == [i \in DOMAIN places |-> w.seen[places[i]]]
  IN
  IF m \in {"min_by", "max_by"} /\ l.n = 0 THEN Answer(l, One(Nil))
  ELSE IF Incomparable(w.said) THEN [AfterWalk(w, One(Undef)) EXCEPT !.bad = "raise"]
  ELSE CASE m = "sort_by" -> AfterWalk(w, Many(sorted))
         [] m = "sort_by!" -> [AfterWalk(w, Me) EXCEPT !.l = rubyArrReplace(w.l, sorted)]
         [] m = "min_by" -> AfterWalk(w, One(sorted[1]))
         [] m = "max_by" -> AfterWalk(w, One(Last(sorted)))

-----------------------------------------------------------------------------
(* Walks.                                                                  *)

Yes(v) == rubyTruthy(v)
No(v) == ~rubyTruthy(v)

rubyWalks(l, l2, m, p, blk) ==
  LET w == Walked(l, l2, blk, Never)
      numbers == Walked(l, l2, blk, LAMBDA v : ~IsNum(v))
  IN
  CASE m \in {"each", "each_with_index"} -> AfterWalk(w, Me)
    [] m = "each_with_object" -> AfterWalk(w, One(p[1]))
    [] m \in {"map", "collect"} -> AfterWalk(w, Many(w.said))
    [] m \in {"select", "filter"} -> AfterWalk(w, Many(Taken(w, Yes)))
    [] m = "reject" -> AfterWalk(w, Many(Taken(w, No)))
    [] m = "count" -> AfterWalk(w, One(N(Len(Taken(w, Yes)))))
    [] m = "sum" -> IF numbers.stopped THEN [AfterWalk(numbers, One(Undef)) EXCEPT !.bad = "raise"]
                    ELSE AfterWalk(w, One(N(FoldLeft(LAMBDA x, v : x + Num(v), Num1(p), w.said))))

\* Walks that one element decides; the ones after a place, and all?, look at the list as it
\* is when the calls are over, and all? and its kin go on to the end.
rubyDecides(l, l2, m, blk) ==
  LET w == Walked(l, l2, blk, Never)
      first == Walked(l, l2, blk, Yes)
      while == Walked(l, l2, blk, No)
      cut == IF while.stopped THEN Len(while.seen) - 1 ELSE l.n
      hits == Len(Taken(w, Yes))
  IN
  CASE m \in {"find", "detect"} -> AfterWalk(first, One(IF first.stopped THEN Last(first.seen) ELSE Nil))
    [] m = "find_index" -> AfterWalk(first, One(IF first.stopped THEN N(Len(first.seen) - 1) ELSE Nil))
    [] m = "take_while" -> AfterWalk(while, Many(rubyArrSub(Els(while.l), 0, cut)))
    [] m = "drop_while" -> AfterWalk(while, Many(rubyArrSub(Els(while.l), cut, while.l.n)))
    [] m = "all?" -> AfterWalk(w, One(Truth(hits = w.l.n)))
    [] m = "any?" -> AfterWalk(w, One(Truth(hits > 0)))
    [] m = "none?" -> AfterWalk(w, One(Truth(hits = 0)))
    [] m = "one?" -> AfterWalk(w, One(Truth(hits = 1)))

rubyGathers(l, l2, m, blk) ==
  LET w == Walked(l, l2, blk, Never)
      spliced == FlattenSeq([i \in DOMAIN w.said |-> IF IsRow(w.said[i]) THEN CellsOf(w.said[i]) ELSE <<w.said[i]>>])
      keyed == Bucketed(w.said, w.seen, rubyKeyEq)
  IN
  CASE m = "flat_map" -> AfterWalk(w, Many(spliced))
    [] m = "group_by" -> AfterWalk(w, Hash([g \in DOMAIN keyed |-> <<keyed[g][1], Row(Tail(keyed[g]))>>]))
    [] m = "partition" -> AfterWalk(w, Many(<<Row(Taken(w, Yes)), Row(Taken(w, No))>>))

\* Those that put what they have gathered in the place of the list at their end.
rubyRewrites(l, l2, m, blk) ==
  LET w == Walked(l, l2, blk, Never)
      kept == IF m \in {"delete_if", "reject!"} THEN Taken(w, No) ELSE Taken(w, Yes)
      same == Len(kept) = w.l.n
  IN  IF m = "map!" THEN [AfterWalk(w, Me) EXCEPT !.l = rubyArrReplace(w.l, w.said)]
      ELSE [AfterWalk(w, IF m \in {"reject!", "select!"} /\ same THEN One(Nil) ELSE Me)
              EXCEPT !.l = rubyArrReplace(w.l, kept)]

\* An array of the indices is what fill and each_index go through.
rubyIndexed(l, m, p, blk) ==
  LET w == Walked(List(Numbers(l.n)), l, [blk EXCEPT !.at = 0], Never)
  IN  IF m = "each_index" THEN [Answer(l, Me) EXCEPT !.seen = w.seen]
      ELSE [Answer(rubyArrReplace(l, IF Given(blk) THEN w.said ELSE [i \in 1 .. l.n |-> Arg(p, 1)]), Me)
              EXCEPT !.seen = IF Given(blk) THEN w.seen ELSE <<>>]

\* inject: the elements are folded from the given value, or from the first of them, on.
rubyInject(l, l2, p, blk) ==
  LET given == p # <<>>
      from1(x) == IF given THEN x ELSE [c |-> SubSeq(x.c, 2, Len(x.c)), n |-> x.n - 1, b |-> x.b]
      rest == from1(l)
      seen == SeenBy(rest, from1(l2), blk.at, Up(rest))
  IN  IF ~given /\ l.n = 0 THEN Answer(l, One(Nil))
      ELSE [l |-> IF blk.at \in 1 .. rest.n THEN l2 ELSE l, bad |-> "no", seen |-> seen,
            a |-> One(FoldLeft(LAMBDA x, v : SaysOfTwo("fold", x, v), IF given THEN p[1] ELSE l.c[1], seen))]

rubyChoices(s, m, k) == rubyPick(s, IF m = "combination" THEN rubyCombIdx(Len(s), k) ELSE rubyPermIdx(Len(s), k))

\* each_slice, each_cons, combination and permutation have all their groups before they
\* call the block with one.
rubyGroups(l, l2, m, p, blk) ==
  LET s == Els(l)
      n == Num1(p)
      groups == CASE m = "each_slice" -> [j \in 1 .. (l.n + n - 1) \div n |-> Row(rubyArrSub(s, (j - 1) * n, n))]
                  [] m = "each_cons" -> [j \in 1 .. Max({l.n - n + 1, 0}) |-> Row(rubyArrSub(s, j - 1, n))]
                  [] OTHER -> rubyChoices(s, m, IF p = <<>> THEN l.n ELSE n)
  IN  IF m \in {"each_slice", "each_cons"} /\ n < 1 THEN Bad(l, "raise")
      ELSE IF ~Given(blk) THEN Answer(l, Enum("each", groups))
      ELSE [Answer(IF blk.at \in DOMAIN groups THEN l2 ELSE l, Me) EXCEPT !.seen = groups]

\* cycle takes a header of its own for every round.
rubyCycle(l, l2, p, blk) ==
  LET one == Walked(l, l2, blk, Never)
      later == [blk EXCEPT !.at = IF @ > l.n THEN @ - l.n ELSE 0]
      two == Walked(one.l, rubyAfter(one.l, later), later, Never)
      n == Num1(p)
  IN  IF ~Given(blk)
      THEN IF p = <<>> THEN Bad(l, "raise") ELSE Answer(l, Enum("each", FlattenSeq([i \in 1 .. n |-> Els(l)])))
      \* Without a count the rounds end only where the block leaves them.
      ELSE CASE p = <<>> /\ l.n > 0 -> Bad(l, "never")
             [] n <= 0 -> Answer(l, One(Nil))
             [] n = 1 -> AfterWalk(one, One(Nil))
             [] n = 2 -> [AfterWalk(two, One(Nil)) EXCEPT !.seen = one.seen \o two.seen]

-----------------------------------------------------------------------------
(* Enumerators: the elements there were, a place, and what was asked.      *)

rubyArrWantsBlock ==
  {"map", "collect", "map!", "select", "filter", "select!", "reject", "reject!", "keep_if", "delete_if", "sort_by",
   "sort_by!", "group_by", "partition", "flat_map", "find", "detect", "min_by", "max_by", "take_while", "drop_while"}
rubyMkEnumOp(l, op) == Answer(l, Enum(op, Els(l)))

rubyEnumFinish(e, said) ==
  LET w == [seen |-> e.v, said |-> said]
  IN  CASE e.op \in {"map", "collect"} -> Many(said)
        [] e.op = "flat_map" ->
             Many(FlattenSeq([i \in DOMAIN said |-> IF IsRow(said[i]) THEN CellsOf(said[i]) ELSE <<said[i]>>]))
        [] e.op \in {"select", "filter"} -> Many(Taken(w, Yes))
        [] e.op = "reject" -> Many(Taken(w, No))
        [] OTHER -> e

-----------------------------------------------------------------------------
\* l2 is what a block's change would leave of the list.
rubyArrayCall(l, l2, m, p, blk) ==
  CASE ~Given(blk) /\ m \in rubyArrWantsBlock -> rubyMkEnumOp(l, m)
    [] ~Given(blk) /\ m = "each" -> rubyMkEnumOp(l, "each")
    [] ~Given(blk) /\ m = "each_with_index" ->
         Answer(l, Enum("each", [i \in 1 .. l.n |-> Row(<<Els(l)[i], N(i - 1)>>)]))
    [] m \in {"push", "append", "pop", "shift", "unshift", "clear"} -> rubyEnds(l, m, p)
    [] m \in {"concat", "insert", "delete", "delete_at"} -> rubyPuts(l, m, p)
    [] m = "[]=" -> rubySetSlice(l, p[1], IF Len(p) = 3 THEN p[2] ELSE Nil, Last(p))
    [] m \in {"compact!", "uniq!", "flatten!", "reverse!", "shuffle!"} -> rubyBangs(l, m)
    [] m \in {"sort", "sort!", "min", "max", "minmax"} -> rubyOrders(l, m, p, blk)
    [] m \in {"sort_by", "sort_by!", "min_by", "max_by"} -> rubyKeyed(l, l2, m, blk)
    [] m \in {"delete_if", "reject!", "keep_if", "select!", "map!"} -> rubyRewrites(l, l2, m, blk)
    [] m \in {"fill", "each_index"} -> rubyIndexed(l, m, p, blk)
    [] m = "inject" -> rubyInject(l, l2, p, blk)
    [] m \in {"each_slice", "each_cons", "combination", "permutation"} -> rubyGroups(l, l2, m, p, blk)
    [] m = "cycle" -> rubyCycle(l, l2, p, blk)
    [] m \in {"each", "each_with_index", "each_with_object", "collect", "map", "select", "filter", "reject"} -> rubyWalks(l, l2, m, p, blk)
    [] m \in {"find", "detect", "take_while", "drop_while"} -> rubyDecides(l, l2, m, blk)
    [] m \in {"partition", "flat_map", "group_by"} -> rubyGathers(l, l2, m, blk)
    [] m = "sum" -> rubyWalks(l, l2, m, p, IF Given(blk) THEN blk ELSE [NoBlock EXCEPT !.f = "self"])
    [] m \in {"all?", "any?", "none?", "one?"} -> rubyDecides(l, l2, m, IF Given(blk) THEN blk ELSE [NoBlock EXCEPT !.f = "self"])
    [] m = "count" /\ Given(blk) -> rubyWalks(l, l2, m, p, blk)
    [] m = "find_index" /\ Given(blk) -> rubyDecides(l, l2, m, blk)
    [] (m = "count" /\ ~Given(blk)) \/ m \in {"tally", "compact", "flatten", "reverse", "zip"} -> Answer(l, rubyMakes(l, m, p))
    [] m \in {"take", "drop", "rotate", "values_at"} \/ (m = "slice" /\ (Len(p) = 2 \/ IsRow(p[1]))) -> Answer(l, rubyParts(l, m, p))
    [] m \in {"assoc", "product"} -> Answer(l, rubyRows(l, m, p))
    [] m = "sample" -> Answer(l, rubySample(l, p))
    [] OTHER -> rubyAsks(l, m, p)
rubyArrayMethod(l, m, p, blk) == rubyArrayCall(l, rubyAfter(l, blk), m, p, blk)

\* What an enumerator answers itself; everything else its elements answer as a list.
rubyEnumMethod(e, m, p, blk) ==
  LET said == [i \in DOMAIN e.v |-> Says(blk.f, e.v[i])]
      off == IF m = "with_index" /\ p # <<>> THEN Num1(p) ELSE 0
      ends == e.pos >= Len(e.v)
      all(a) == [e |-> e, a |-> a, seen |-> e.v, bad |-> "no"]
      now(a) == [e |-> e, a |-> a, seen |-> <<>>, bad |-> "no"]
      fromList(o) == [e |-> e, a |-> o.a, seen |-> o.seen, bad |-> o.bad]
  IN
  CASE m = "to_a" -> now(Many(e.v))
    [] m = "size" -> now(One(N(Len(e.v))))
    [] m = "next" -> IF ends THEN [now(One(Undef)) EXCEPT !.bad = "raise"]
                     ELSE [now(One(e.v[e.pos + 1])) EXCEPT !.e.pos = @ + 1]
    [] m = "peek" -> IF ends THEN [now(One(Undef)) EXCEPT !.bad = "raise"] ELSE now(One(e.v[e.pos + 1]))
    [] m = "rewind" -> [now(Me) EXCEPT !.e.pos = 0]
    [] m = "each" -> IF Given(blk) THEN all(rubyEnumFinish(e, said)) ELSE now(e)
    [] m \in {"with_index", "each_with_index"} ->
         IF Given(blk) THEN all(rubyEnumFinish(e, said))
         ELSE now(Enum("each", [i \in DOMAIN e.v |-> Row(<<e.v[i], N(i - 1 + off)>>)]))
    [] m \in {"with_object", "each_with_object"} -> all(One(p[1]))
    [] OTHER -> fromList(rubyArrayMethod(List(e.v), m, p, blk))

-----------------------------------------------------------------------------
(* Hashes (rubyHashMethod and the Hash arms of rubyMethod).                *)

rubyDictFind(d, k) ==
  LET f == dictFind(d, k, strictEq)
  IN  IF f.at >= 0 \/ ~IsRow(k) THEN f
      ELSE [f EXCEPT !.at = dictScan(Els(d.keys), k, LAMBDA x, y : IsRow(x) /\ rubyEq(x, y))]

PairsOf(row) == [i \in 1 .. (Len(row) - 1) \div 2 |-> <<row[2 * i], row[2 * i + 1]>>]
rubyHashCopy(d) == [Dict(Els(d.keys), Els(d.vals)) EXCEPT !.other = d.other]
\* h[k] = v, and the same where the index is not kept in step.
rubyHashSet(d, k, v) ==
  LET f == rubyDictFind(d, k) IN IF f.at >= 0 THEN dictStore(f.d, f.at, v) ELSE dictAppend(f.d, k, v)
rubyPut(d, k, v) ==
  LET f == rubyDictFind(d, k) IN IF f.at >= 0 THEN dictStore(f.d, f.at, v) ELSE plainAppend(f.d, k, v)
rubyPairsToHash(rows, d) ==
  FoldLeft(LAMBDA x, r : rubyPut(x, r[1], r[2]), [NoDict EXCEPT !.other = d.other], rows)

\* A missing key: the default, or what the default's block says, which also stores it.
rubyHashDefault(d, k) ==
  CASE d.other = Undef -> OfDict(d, One(Nil))
    [] d.other = True -> OfDict(rubyHashSet(d, k, N(7)), One(N(7)))
    [] OTHER -> OfDict(d, One(d.other))
rubyHashGet(d, k) ==
  LET f == rubyDictFind(d, k) IN IF f.at >= 0 THEN OfDict(f.d, One(f.d.vals.c[f.at + 1])) ELSE rubyHashDefault(f.d, k)
rubyHashFetch(d, p) ==
  LET f == rubyDictFind(d, p[1])
  IN  IF f.at >= 0 THEN OfDict(f.d, One(f.d.vals.c[f.at + 1]))
      ELSE IF Len(p) > 1 THEN OfDict(f.d, One(p[2])) ELSE [OfDict(f.d, One(Undef)) EXCEPT !.bad = "raise"]
rubyHashDelete(d, k) ==
  LET f == rubyDictFind(d, k)
  IN  IF f.at < 0 THEN OfDict(f.d, One(Nil)) ELSE OfDict(dictCut(f.d, f.at), One(f.d.vals.c[f.at + 1]))
rubyHashClear(d) == dropIdx([d EXCEPT !.keys = Fresh(@, <<>>), !.vals = Fresh(@, <<>>)])
\* merge, merge!: the block, where there is one, answers for a key of both.
rubyHashMerge(d, pairs, blk) ==
  LET both(x, r) ==
        LET f == rubyDictFind(x, r[1])
        IN  IF f.at < 0 THEN plainAppend(f.d, r[1], r[2])
            ELSE dictStore(f.d, f.at, IF Given(blk) THEN SaysOfTwo("fold", f.d.vals.c[f.at + 1], r[2]) ELSE r[2])
  IN  dropIdx(FoldLeft(both, d, pairs))

rubyHashChange(d, m, p) ==
  CASE m = "[]=" -> rubyHashSet(d, p[1], p[2])
    [] m = "delete" -> rubyHashDelete(d, p[1]).d
    [] m = "clear" -> rubyHashClear(d)
rubyHashAfter(d, blk) == IF blk.at = 0 THEN d ELSE rubyHashChange(d, blk.m, blk.args)

rubyHashEnumName ==
  {"map", "flat_map", "select", "reject", "find", "find_index", "sort", "sort_by", "min_by", "max_by", "count", "sum",
   "group_by", "partition", "each_with_index", "inject", "all?", "any?", "none?", "first", "take", "drop",
   "take_while", "drop_while", "each_slice", "each_cons", "zip", "uniq", "reverse", "assoc"}

\* The Enumerable methods go over rows of keys and values made beforehand; the ones that
\* select make a hash of the rows they have kept.
rubyHashEnum(d, d2, m, p, blk) ==
  LET rows == [i \in 1 .. d.keys.n |-> Row(Rows(d)[i])]
      inner == CASE m = "select!" -> "select" [] m \in {"reject!", "delete_if"} -> "reject"
                 [] m = "keep_if" -> "select" [] OTHER -> m
      kept(out) == rubyPairsToHash([i \in DOMAIN out.a.v |-> CellsOf(out.a.v[i])], d)
      after(out) == IF blk.at \in DOMAIN out.seen THEN d2 ELSE d
      of(e, a, out) == [d |-> e, a |-> a, seen |-> out.seen, bad |-> out.bad]
      with(e, new) == dropIdx([e EXCEPT !.keys = Fresh(@, Els(new.keys)), !.vals = Fresh(@, Els(new.vals))])
      finished(out) ==
        CASE m \in {"select", "reject"} /\ Given(blk) -> of(after(out), Hash(Rows(kept(out))), out)
          [] m \in {"select!", "reject!", "keep_if", "delete_if"} -> of(with(after(out), kept(out)), Me, out)
          [] OTHER -> of(after(out), out.a, out)
  IN  finished(rubyArrayMethod(List(rows), inner, p, [blk EXCEPT !.at = 0]))

rubyHashCall(d, d2, m, p, blk) ==
  LET w == PairRange(d, d2, blk)
      keysSaid == [i \in 1 .. d.keys.n |-> Says(blk.f, d.keys.c[i])]
      hits == {i \in 1 .. d.keys.n : rubyEq(d.vals.c[i], Arg(p, 1))}
      others == [d EXCEPT !.other = Undef]
      copied(s) == [OfDict(IF blk.at \in DOMAIN s THEN d2 ELSE d, Me) EXCEPT !.seen = s]
  IN
  CASE m \in {"size", "length"} -> OfDict(d, One(N(d.keys.n)))
    [] m = "keys" -> OfDict(d, Many(Els(d.keys)))
    [] m = "values" -> OfDict(d, Many(Els(d.vals)))
    [] m = "to_a" -> OfDict(d, Many([i \in 1 .. d.keys.n |-> Row(Rows(d)[i])]))
    [] m \in {"key?", "include?"} -> LET f == rubyDictFind(d, p[1]) IN OfDict(f.d, One(Truth(f.at >= 0)))
    [] m = "[]" -> rubyHashGet(d, p[1])
    [] m = "[]=" -> OfDict(rubyHashSet(d, p[1], p[2]), One(p[2]))
    [] m = "fetch" -> rubyHashFetch(d, p)
    [] m = "default" -> OfDict(d, One(IF d.other \in {Undef, True} THEN Nil ELSE d.other))
    [] m = "delete" -> rubyHashDelete(d, p[1])
    [] m = "clear" -> OfDict(rubyHashClear(d), Me)
    [] m = "dup" -> OfDict(d, Hash(Rows(rubyHashCopy(d))))
    [] m = "merge" -> OfDict(d, Hash(Rows(rubyHashMerge(rubyHashCopy(d), PairsOf(p[1]), blk))))
    [] m = "merge!" -> OfDict(rubyHashMerge(d, PairsOf(p[1]), blk), Me)
    [] m \in {"each", "each_pair"} -> [d |-> w.d, a |-> Me, seen |-> w.seen, bad |-> w.bad]
    [] m = "each_key" -> copied(Els(d.keys))
    [] m = "each_value" -> copied(Els(d.vals))
    [] m = "values_at" ->
         LET got == FoldLeft(LAMBDA x, k : LET o == rubyHashGet(x.d, k) IN [d |-> o.d, v |-> x.v \o o.a.v],
                             [d |-> d, v |-> <<>>], p)
         IN  OfDict(got.d, Many(got.v))
    [] m = "invert" -> OfDict(d, Hash(Rows(rubyPairsToHash([i \in DOMAIN Rows(d) |-> Reverse(Rows(d)[i])], others))))
    [] m = "key" -> OfDict(d, One(IF hits = {} THEN Nil ELSE d.keys.c[Min(hits)]))
    [] m = "transform_values" ->
         OfDict(d, Hash([i \in DOMAIN Rows(d) |-> <<Rows(d)[i][1], Says(blk.f, Rows(d)[i][2])>>]))
    [] m = "transform_keys" ->
         OfDict(d, Hash(Rows(rubyPairsToHash([i \in DOMAIN Rows(d) |-> <<keysSaid[i], Rows(d)[i][2]>>], others))))
    [] OTHER -> rubyHashEnum(d, d2, m, p, blk)
rubyHashMethod(d, m, p, blk) == rubyHashCall(d, rubyHashAfter(d, blk), m, p, blk)
=============================================================================
