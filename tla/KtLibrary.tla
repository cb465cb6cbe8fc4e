------------------------------ MODULE KtLibrary ------------------------------
(***************************************************************************)
(* Kotlin's lists, sets and maps (ktSeqMethod, ktSetMethod, ktMapMethod,   *)
(* jsrtkotlin.go).  A walk has a header of its own; a map is searched from *)
(* its first key to its last.  A row stands for a pair or a list.          *)
(***************************************************************************)
EXTENDS Lists

ktTruthy(v) == v \notin {False, Nil, Undef, N(0)}
ktNo(v) == ~ktTruthy(v)
ktEqVals(a, b) == a = b
ktHas(s, v) == \E i \in DOMAIN s : ktEqVals(s[i], v)
ktFind(s, v) == LET hits == {i \in DOMAIN s : ktEqVals(s[i], v)} IN IF hits = {} THEN -1 ELSE Min(hits) - 1
Arg(p, i) == IF i \in DOMAIN p THEN p[i] ELSE Undef
Num1(p) == IF p = <<>> THEN 0 ELSE Num(p[1])
Raised(l) == Bad(l, "raise")
PickRow(v) == IF IsRow(v) THEN CellsOf(v) ELSE <<v>>

\* Places by the keys of their elements, equal ones as they were.
ktSortBy(s, keys, desc) ==
  LET key(i) == IF IsNull(keys[i]) THEN 0 ELSE Num(keys[i])
      places == InOrder([i \in DOMAIN s |-> i], LAMBDA i, j : IF desc THEN key(j) - key(i) ELSE key(i) - key(j))
  IN  [i \in DOMAIN s |-> s[places[i]]]
ktSorted(s, desc) == ktSortBy(s, s, desc)

ktSetAdd(l, v) == IF ktHas(Els(l), v) THEN l ELSE Appended(l, <<v>>)
ktSetFrom(s) == FoldLeft(ktSetAdd, List(<<>>), s)

\* java.util's: a list by 31 * acc + element, a set by the sum.
ktElemHash(v) ==
  CASE v = True -> 1231 [] v = False -> 1237 [] IsNull(v) -> 0
    [] IsRow(v) -> FoldLeft(LAMBDA h, x : 31 * h + Num(x), 1, CellsOf(v))
    [] OTHER -> Num(v)
ktSetHash(s) == FoldLeft(LAMBDA h, x : h + ktElemHash(x), 0, s)

-----------------------------------------------------------------------------
(* Maps: a plain search, no index.                                         *)

ktMapFind(d, k) == ktFind(Els(d.keys), k)
ktMapPut(d, k, v) == LET i == ktMapFind(d, k) IN IF i >= 0 THEN dictStore(d, i, v) ELSE plainAppend(dropIdx(d), k, v)
ktMapOf(rows) == FoldLeft(LAMBDA d, r : ktMapPut(d, r[1], r[2]), NoDict, rows)
ktMapAll(d, rows) == FoldLeft(LAMBDA x, r : ktMapPut(x, r[1], r[2]), d, rows)
AsRows(s) == [i \in DOMAIN s |-> CellsOf(s[i])]

-----------------------------------------------------------------------------
(* Questions without a block.                                              *)

ktAsks(l, m, p) ==
  LET s == Els(l)
      asked(ok, v) == IF ok THEN Answer(l, One(v)) ELSE Raised(l)
      orNull(v) == Answer(l, One(IF l.n = 0 THEN Nil ELSE v))
      hits == {j \in 1 .. l.n : ktEqVals(s[j], Arg(p, 1))}
      is(b) == Answer(l, One(Truth(b)))
  IN
  CASE m \in {"isEmpty", "none"} -> is(l.n = 0)
    [] m = "isNotEmpty" -> is(l.n > 0)
    [] m = "count" -> Answer(l, One(N(l.n)))
    [] m = "contains" -> is(hits # {})
    [] m = "contentEquals" -> is(s = CellsOf(p[1]))
    [] m = "indexOf" -> Answer(l, One(N(ktFind(s, p[1]))))
    [] m = "lastIndexOf" -> Answer(l, One(N(IF hits = {} THEN -1 ELSE Max(hits) - 1)))
    [] m = "first" -> asked(l.n > 0, s[1])
    [] m = "last" -> asked(l.n > 0, s[l.n])
    [] m = "single" -> asked(l.n = 1, s[1])
    [] m = "firstOrNull" -> orNull(s[1])
    [] m = "lastOrNull" -> orNull(s[l.n])
    [] m \in {"maxOrNull", "minOrNull"} -> orNull(ktSorted(s, m = "maxOrNull")[1])
    [] m = "sum" -> Answer(l, One(N(FoldLeft(LAMBDA x, v : x + Num(v), 0, s))))
    [] m = "hashCode" -> Answer(l, One(N(ktElemHash(Row(s)))))

ktAsksAt(l, m, p) ==
  LET s == Els(l)
      i == Num1(p)
      within == i \in 0 .. l.n - 1
  IN
  CASE m = "containsAll" -> Answer(l, One(Truth(\A v \in ToSet(CellsOf(p[1])) : ktHas(s, v))))
    [] m = "elementAt" -> IF within THEN Answer(l, One(s[i + 1])) ELSE Raised(l)
    [] m \in {"elementAtOrNull", "getOrNull"} -> Answer(l, One(IF within THEN s[i + 1] ELSE Nil))
    [] m \in {"max", "min"} -> IF l.n > 0 THEN Answer(l, One(ktSorted(s, m = "max")[1])) ELSE Raised(l)

\* es[lo:hi] goes up to the last cell, not the last element.
ktSubList(l, lo, hi) ==
  IF lo < 0 \/ lo > hi \/ hi > Len(l.c) THEN Bad(l, "panic") ELSE Answer(l, Many(SubSeq(l.c, lo + 1, hi)))

Made(l, x) == Answer(l, Many(x))
MadeSet(l, x) == Made(l, Els(ktSetFrom(x)))

\* Pieces of a size, each a step behind the one before.
ktChunks(l, m, p) ==
  LET size == Num1(p)
      step == IF m = "chunked" THEN size ELSE IF Len(p) > 1 THEN Num(p[2]) ELSE 1
      partial == m = "chunked" \/ Arg(p, 3) = True
      begins(k) == k % step = 0 /\ IF partial THEN k < l.n ELSE k + size <= l.n
      at == SelectSeq(Numbers(l.n + 1), LAMBDA v : begins(Num(v)))
  IN  IF size <= 0 \/ step <= 0 THEN Raised(l)
      ELSE Made(l, [k \in DOMAIN at |-> Row(SubSeq(Els(l), Num(at[k]) + 1, Min({Num(at[k]) + size, l.n})))])

ktCopies(l, m) ==
  LET s == Els(l) IN
  CASE m \in {"toList", "asList", "asSequence"} -> Made(l, s)
    [] m = "distinct" -> Made(l, FirstsOf(s, ktEqVals))
    [] m = "toSet" -> MadeSet(l, s)
    [] m = "toSortedSet" -> MadeSet(l, ktSorted(s, FALSE))
    [] m \in {"reversed", "asReversed"} -> Made(l, Reverse(s))
    [] m \in {"sorted", "sortedDescending"} -> Made(l, ktSorted(s, m = "sortedDescending"))
    [] m = "filterNotNull" -> Made(l, SelectSeq(s, LAMBDA v : ~IsNull(v)))
    [] m = "requireNoNulls" -> IF \E i \in DOMAIN s : IsNull(s[i]) THEN Raised(l) ELSE Made(l, s)
    [] m = "flatten" -> Made(l, FlattenSeq([i \in DOMAIN s |-> CellsOf(s[i])]))
    [] m = "toMap" -> Answer(l, Hash(Rows(ktMapOf(AsRows(SelectSeq(s, IsRow))))))

ktTakes(l, m, p) ==
  LET s == Els(l)
      given == IF p = <<>> THEN 0 ELSE Max({0, Min({Num1(p), l.n})})
  IN
  CASE m = "take" -> Made(l, SubSeq(s, 1, given))
    [] m = "drop" -> Made(l, SubSeq(s, given + 1, l.n))
    [] m = "takeLast" -> Made(l, SubSeq(s, l.n - given + 1, l.n))
    [] m = "dropLast" -> Made(l, SubSeq(s, 1, l.n - given))
    [] m = "withIndex" -> Made(l, [i \in 1 .. l.n |-> Row(<<N(i - 1), s[i]>>)])

\* With the elements of another list, or with its own neighbours.
ktWithOther(l, m, p) ==
  LET s == Els(l)
      other == PickRow(Arg(p, 1))
  IN
  CASE m = "plus" -> Made(l, s \o other)
    [] m = "minus" -> Made(l, SelectSeq(s, LAMBDA v : ~ktHas(other, v)))
    [] m = "intersect" -> MadeSet(l, SelectSeq(s, LAMBDA v : ktHas(other, v)))
    [] m = "subtract" -> MadeSet(l, SelectSeq(s, LAMBDA v : ~ktHas(other, v)))
    [] m = "union" -> MadeSet(l, s \o other)
    [] m = "slice" ->
         IF \E i \in DOMAIN other : Num(other[i]) \notin 0 .. l.n - 1 THEN Bad(l, "panic")
         ELSE Made(l, [i \in DOMAIN other |-> s[Num(other[i]) + 1]])
    [] m = "zip" -> Made(l, [i \in 1 .. Min({l.n, Len(other)}) |-> Row(<<s[i], other[i]>>)])
    [] m = "zipWithNext" -> Made(l, [i \in 1 .. Max({l.n - 1, 0}) |-> Row(<<s[i], s[i + 1]>>)])

-----------------------------------------------------------------------------
(* What changes the list.                                                  *)

ktInserted(l, i, v) ==
  LET k == Appended(l, <<Nil>>)
  IN  [k EXCEPT !.c = [j \in DOMAIN @ |-> IF j <= i \/ j > k.n THEN @[j] ELSE IF j = i + 1 THEN v ELSE @[j - 1]]]
\* copy(o.elems, ord): as many as there still are.
ktOverwritten(l, s) == [l EXCEPT !.c = [i \in DOMAIN @ |-> IF i <= Min({l.n, Len(s)}) THEN s[i] ELSE @[i]]]

ktChanges(l, m, p) ==
  LET s == Els(l)
      i == Num1(p)
      at == CASE m = "removeFirst" -> 0 [] m = "removeLast" -> l.n - 1 [] m = "removeAt" -> i [] m = "remove" -> ktFind(s, p[1])
              [] OTHER -> 0
      kept == SelectSeq(s, LAMBDA v : ktHas(CellsOf(p[1]), v) = (m = "retainAll"))
  IN
  CASE m = "add" /\ Len(p) = 1 -> Answer(Appended(l, p), One(True))
    [] m = "add" /\ Len(p) = 2 -> IF i \notin 0 .. l.n THEN Raised(l) ELSE Answer(ktInserted(l, i, p[2]), One(Undef))
    [] m = "addAll" -> Answer(Appended(l, CellsOf(p[1])), One(Truth(Len(p[1]) > 1)))
    [] m = "set" -> IF i \notin 0 .. l.n - 1 THEN Raised(l) ELSE Answer(Stored(l, i, p[2]), One(s[i + 1]))
    [] m \in {"removeAt", "removeFirst", "removeLast"} ->
         IF at \notin 0 .. l.n - 1 THEN Raised(l) ELSE Answer(CutOut(l, at), One(s[at + 1]))
    [] m = "remove" -> IF at < 0 THEN Answer(l, One(False)) ELSE Answer(CutOut(l, at), One(True))
    [] m \in {"removeAll", "retainAll"} -> Answer(Fresh(l, kept), One(Truth(Len(kept) # l.n)))
    [] m = "clear" -> Answer(Fresh(l, <<>>), One(Undef))
    [] m \in {"sort", "sortDescending"} -> Answer(ktOverwritten(l, ktSorted(s, m = "sortDescending")), One(Undef))
    [] m = "reverse" -> Answer(ktOverwritten(l, Reverse(s)), One(Undef))
ktAfter(l, blk) == IF blk.at = 0 THEN l ELSE ktChanges(l, blk.m, blk.args).l

-----------------------------------------------------------------------------
(* Walks.                                                                  *)

ktWalks(l, l2, m, blk) ==
  LET w == Walked(l, l2, blk, Never)
      first == Walked(l, l2, blk, ktTruthy)
      while == Walked(l, l2, blk, ktNo)
      hits == Taken(w, ktTruthy)
      found(x) == One(IF x.stopped THEN Last(x.seen) ELSE Nil)
      raised(x) == [AfterWalk(x, One(Undef)) EXCEPT !.bad = "raise"]
  IN
  CASE m = "forEach" -> AfterWalk(w, One(Undef))
    [] m = "map" -> AfterWalk(w, Many(w.said))
    [] m = "filter" -> AfterWalk(w, Many(hits))
    [] m = "count" -> AfterWalk(w, One(N(Len(hits))))
    [] m = "single" -> IF Len(hits) = 1 THEN AfterWalk(w, One(hits[1])) ELSE raised(w)
    [] m = "first" -> IF first.stopped THEN AfterWalk(first, found(first)) ELSE raised(first)
    [] m \in {"find", "firstOrNull"} -> AfterWalk(first, found(first))
    [] m = "indexOfFirst" -> AfterWalk(first, One(N(IF first.stopped THEN Len(first.seen) - 1 ELSE -1)))
    [] m = "any" -> AfterWalk(first, One(Truth(first.stopped)))
    [] m = "none" -> AfterWalk(first, One(Truth(~first.stopped)))
    [] m = "all" -> AfterWalk(while, One(Truth(~while.stopped)))

ktGathers(l, l2, m, blk) ==
  LET w == Walked(l, l2, blk, Never) IN
  CASE m = "sumOf" -> AfterWalk(w, One(N(FoldLeft(LAMBDA x, v : x + Num(v), 0, w.said))))
    [] m = "flatMap" -> AfterWalk(w, Many(FlattenSeq([i \in DOMAIN w.said |-> CellsOf(w.said[i])])))
    [] m = "mapIndexed" -> AfterWalk(w, Many(w.said))
    [] m = "mapNotNull" -> AfterWalk(w, Many(SelectSeq(w.said, LAMBDA v : v # Nil)))
    [] m = "forEachIndexed" -> AfterWalk(w, One(Undef))
    [] m = "filterNot" -> AfterWalk(w, Many(Taken(w, ktNo)))
    [] m = "partition" -> AfterWalk(w, Many(<<Row(Taken(w, ktTruthy)), Row(Taken(w, ktNo))>>))

ktMaps(l, l2, m, blk) ==
  LET w == Walked(l, l2, blk, Never)
      b == Bucketed(w.said, w.seen, ktEqVals)
  IN
  CASE m = "groupBy" -> AfterWalk(w, Hash([g \in DOMAIN b |-> <<b[g][1], Row(Tail(b[g]))>>]))
    [] m = "associate" -> AfterWalk(w, Hash(Rows(ktMapOf(AsRows(w.said)))))
    [] m = "associateWith" -> AfterWalk(w, Hash(Rows(ktMapOf([i \in DOMAIN w.seen |-> <<w.seen[i], w.said[i]>>]))))
    [] m = "associateBy" -> AfterWalk(w, Hash(Rows(ktMapOf([i \in DOMAIN w.seen |-> <<w.said[i], w.seen[i]>>]))))
    [] m = "distinctBy" -> AfterWalk(w, Many([g \in DOMAIN b |-> b[g][2]]))

\* takeWhile and dropWhile cut the header of the walk, whose cells may have others in them by then.
ktLastly(l, l2, m, blk) ==
  LET w == Walked(l, l2, blk, Never)
      while == Walked(l, l2, blk, ktNo)
      last == WalkedIn(Down(l), l, l2, blk, ktTruthy)
      cut == IF while.stopped THEN Len(while.seen) - 1 ELSE l.n
      now == [i \in 1 .. l.n |-> Cell(l, while.l, i)]
  IN
  CASE m = "filterIndexed" -> AfterWalk(w, Many(Taken(w, ktTruthy)))
    [] m = "filterNotIndexed" -> AfterWalk(w, Many(Taken(w, ktNo)))
    [] m = "findLast" -> AfterWalk(last, One(IF last.stopped THEN Last(last.seen) ELSE Nil))
    [] m = "indexOfLast" -> AfterWalk(last, One(N(IF last.stopped THEN l.n - Len(last.seen) ELSE -1)))
    [] m = "takeWhile" -> AfterWalk(while, Many(SubSeq(now, 1, cut)))
    [] m = "dropWhile" -> AfterWalk(while, Many(SubSeq(now, cut + 1, l.n)))

ktExtremes(l, l2, m, p, blk) ==
  LET w == Walked(l, l2, blk, Never)
      said == {Num(w.said[i]) : i \in DOMAIN w.said}
      best == AfterWalk(w, One(N(IF m \in {"maxOf", "maxOfOrNull"} THEN Max(said) ELSE Min(said))))
  IN
  CASE m \in {"maxOf", "minOf"} -> IF l.n = 0 THEN Raised(l) ELSE best
    [] m \in {"maxOfOrNull", "minOfOrNull"} -> IF l.n = 0 THEN Answer(l, One(Nil)) ELSE best
    [] m \in {"onEach", "onEachIndexed"} -> AfterWalk(w, Me)
    [] m \in {"elementAtOrElse", "getOrElse"} ->
         Answer(l, One(IF Num1(p) \in 0 .. l.n - 1 THEN l.c[Num1(p) + 1] ELSE Says(blk.f, p[1])))
ktIfEmpty(l, l2) == IF l.n = 0 THEN Answer(l2, One(N(7))) ELSE Answer(l, Me)

\* sortedBy and its kin copy the elements before they ask for the keys; an empty list is
\* answered before.
ktOrders(l, l2, m, blk) ==
  LET copy == List(Els(l))
      w == [Walked(copy, copy, blk, Never) EXCEPT !.l = IF blk.at \in 1 .. l.n THEN l2 ELSE l]
      by(desc) == ktSortBy(Els(l), w.said, desc)
      with == InOrder(Els(l), LAMBDA a, b : SaysOfTwo(blk.f, a, b)[1])
      extreme(desc) == AfterWalk(w, One(by(desc)[1]))
      inPlace(s) == [AfterWalk(w, One(Undef)) EXCEPT !.l = ktOverwritten(w.l, s)]
  IN
  CASE m \in {"sortedBy", "sortedByDescending"} -> AfterWalk(w, Many(by(m = "sortedByDescending")))
    [] m \in {"sortBy", "sortByDescending"} -> inPlace(by(m = "sortByDescending"))
    [] m = "sortedWith" -> Answer(l, Many(with))
    [] m = "sortWith" -> Answer(ktOverwritten(l, with), One(Undef))
    [] m \in {"maxByOrNull", "minByOrNull"} -> IF l.n = 0 THEN Answer(l, One(Nil)) ELSE extreme(m = "maxByOrNull")
    [] m \in {"maxBy", "minBy"} -> IF l.n = 0 THEN Raised(l) ELSE extreme(m = "maxBy")

\* removeAll and retainAll with a predicate: what the block has changed is replaced.
ktPurge(l, l2, m, blk) ==
  LET w == Walked(l, l2, blk, Never)
      kept == IF m = "retainAll" THEN Taken(w, ktTruthy) ELSE Taken(w, ktNo)
  IN  [AfterWalk(w, One(Truth(Len(kept) # l.n))) EXCEPT !.l = Fresh(w.l, kept)]

ktFolds(l, l2, m, p, blk) ==
  LET fromFirst == m \in {"reduce", "runningReduce"}
      order == IF fromFirst THEN [i \in 1 .. l.n - 1 |-> i + 1] ELSE IF m = "foldRight" THEN Down(l) ELSE Up(l)
      seen == SeenBy(l, l2, blk.at, order)
      begin == IF fromFirst THEN l.c[1] ELSE p[1]
      step(x, v) == IF m = "foldRight" THEN SaysOfTwo("fold", v, x) ELSE SaysOfTwo("fold", x, v)
      all(a) == [l |-> IF blk.at \in DOMAIN seen THEN l2 ELSE l, a |-> a, seen |-> seen, bad |-> "no"]
      running == FoldLeft(LAMBDA xs, v : Append(xs, step(Last(xs), v)), <<begin>>, seen)
  IN
  CASE m = "reduce" /\ l.n = 0 -> Raised(l)
    [] m = "runningReduce" /\ l.n = 0 -> Answer(l, Many(<<>>))
    [] m \in {"scan", "runningFold"} \/ (m = "runningReduce" /\ l.n > 0) -> all(Many(running))
    [] m \in {"fold", "foldRight"} \/ (m = "reduce" /\ l.n > 0) -> all(One(Last(running)))

\* l2 is what a block's change would leave of the list.
ktSeqCall(l, l2, m, p, blk) ==
  CASE m \in {"fold", "foldRight", "reduce", "scan", "runningFold", "runningReduce"} -> ktFolds(l, l2, m, p, blk)
    [] m \in {"removeAll", "retainAll"} /\ Given(blk) -> ktPurge(l, l2, m, blk)
    [] m \in {"sortedBy", "sortedByDescending", "sortBy", "sortByDescending", "sortedWith", "sortWith", "maxByOrNull",
              "minByOrNull", "maxBy", "minBy"} -> ktOrders(l, l2, m, blk)
    [] m \in {"add", "addAll", "set", "removeAt", "removeFirst", "removeLast", "remove", "clear", "sort", "sortDescending", "reverse"}
       \/ (m \in {"removeAll", "retainAll"} /\ ~Given(blk)) -> ktChanges(l, m, p)
    [] m \in {"chunked", "windowed"} -> ktChunks(l, m, p)
    [] m = "subList" -> ktSubList(l, Num(p[1]), Num(p[2]))
    [] m \in {"toList", "asList", "asSequence", "distinct", "toSet", "toSortedSet", "reversed", "asReversed", "sorted", "sortedDescending",
              "filterNotNull", "requireNoNulls", "flatten", "toMap"} -> ktCopies(l, m)
    [] m \in {"take", "drop", "takeLast", "dropLast", "withIndex"} -> ktTakes(l, m, p)
    [] m \in {"plus", "minus", "intersect", "subtract", "union", "slice", "zip", "zipWithNext"} -> ktWithOther(l, m, p)
    [] m \in {"containsAll", "elementAt", "elementAtOrNull", "getOrNull", "max", "min"} -> ktAsksAt(l, m, p)
    [] m \in {"sumOf", "flatMap", "mapIndexed", "mapNotNull", "forEachIndexed", "filterNot", "partition"} -> ktGathers(l, l2, m, blk)
    [] m \in {"groupBy", "associate", "associateWith", "associateBy", "distinctBy"} -> ktMaps(l, l2, m, blk)
    [] m \in {"filterIndexed", "filterNotIndexed", "findLast", "indexOfLast", "takeWhile", "dropWhile"} -> ktLastly(l, l2, m, blk)
    [] m \in {"maxOf", "minOf", "maxOfOrNull", "minOfOrNull", "onEach", "onEachIndexed", "elementAtOrElse", "getOrElse"} ->
         ktExtremes(l, l2, m, p, blk)
    [] m = "ifEmpty" -> ktIfEmpty(l, l2)
    [] OTHER -> IF Given(blk) THEN ktWalks(l, l2, m, blk) ELSE ktAsks(l, m, p)
ktSeqMethod(l, m, p, blk) == ktSeqCall(l, ktAfter(l, blk), m, p, blk)

-----------------------------------------------------------------------------
(* Sets and maps.                                                          *)

ktSetMethod(l, m, p, blk) ==
  LET s == Els(l)
      gone == IF m \in {"remove", "plus"} THEN <<p[1]>> ELSE PickRow(Arg(p, 1))
      kept == SelectSeq(s, LAMBDA v : ktHas(gone, v) = (m \in {"retainAll", "intersect"}))
      grown == FoldLeft(ktSetAdd, l, PickRow(Arg(p, 1)))
      made(x) == Answer(l, Many(Els(ktSetFrom(x))))
      truth(k, b) == Answer(k, One(Truth(b)))
  IN
  CASE ~Given(blk) /\ m = "add" -> truth(ktSetAdd(l, p[1]), ~ktHas(s, p[1]))
    [] ~Given(blk) /\ m = "addAll" -> truth(grown, grown.n > l.n)
    [] ~Given(blk) /\ m \in {"remove", "removeAll", "retainAll"} -> truth(Fresh(l, kept), Len(kept) # l.n)
    [] ~Given(blk) /\ m = "clear" -> Answer(Fresh(l, <<>>), One(Undef))
    [] ~Given(blk) /\ m = "contains" -> truth(l, ktHas(s, p[1]))
    [] ~Given(blk) /\ m = "containsAll" -> truth(l, \A v \in ToSet(CellsOf(p[1])) : ktHas(s, v))
    [] ~Given(blk) /\ m = "hashCode" -> Answer(l, One(N(ktSetHash(s))))
    [] ~Given(blk) /\ m = "equals" -> truth(l, Len(p[1]) - 1 = l.n /\ \A i \in DOMAIN s : ktHas(CellsOf(p[1]), s[i]))
    [] ~Given(blk) /\ m \in {"plus", "union"} -> made(s \o PickRow(p[1]))
    [] ~Given(blk) /\ m \in {"minus", "subtract", "intersect"} -> made(kept)
    [] OTHER -> ktSeqMethod(l, m, p, blk)

ktMapChange(d, m, p) ==
  CASE m = "put" -> ktMapPut(d, p[1], p[2])
    [] m = "remove" -> LET i == ktMapFind(d, p[1]) IN IF i < 0 THEN d ELSE dictCut(d, i)
    [] m = "clear" -> dropIdx([d EXCEPT !.keys = Fresh(@, <<>>), !.vals = Fresh(@, <<>>)])
ktMapAfter(d, blk) == IF blk.at = 0 THEN d ELSE ktMapChange(d, blk.m, blk.args)

\* filter and its kin: the keys of a header of their own, the values as they are by then;
\* behind their end, that is a panic.
ktMapWalk(d, d2, m, blk) ==
  LET now(i) == IF blk.at # 0 /\ i > blk.at THEN d2 ELSE d
      key(i) == Cell(d.keys, now(i).keys, i)
      over == {i \in 1 .. d.keys.n : i > now(i).vals.n}
      upTo == IF over = {} THEN d.keys.n ELSE Min(over) - 1
      seen == [i \in 1 .. upTo |-> Row(<<key(i), now(i).vals.c[i]>>)]
      asked(i) == IF m = "filterKeys" THEN key(i) ELSE IF m = "filterValues" THEN now(i).vals.c[i] ELSE seen[i]
      said == [i \in 1 .. upTo |-> Says(blk.f, asked(i))]
      row(i) == CASE m = "mapValues" -> <<key(i), said[i]>> [] m = "mapKeys" -> <<said[i], now(i).vals.c[i]>>
                  [] OTHER -> <<key(i), now(i).vals.c[i]>>
      in == SelectSeq([i \in 1 .. upTo |-> i], LAMBDA i : m \in {"mapValues", "mapKeys"} \/ ktTruthy(said[i]) = (m # "filterNot"))
  IN  [d |-> IF blk.at \in 1 .. upTo THEN d2 ELSE d, a |-> Hash(Rows(ktMapOf([k \in DOMAIN in |-> row(in[k])]))),
       seen |-> seen, bad |-> IF over = {} THEN "no" ELSE "panic"]

ktMapCall(d, d2, m, p, blk) ==
  LET i == ktMapFind(d, Arg(p, 1))
      val == d.vals.c[i + 1]
      is(b) == OfDict(d, One(Truth(b)))
      rows == Rows(d)
      other == PickRow(Arg(p, 1))
      pairs == [k \in 1 .. Len(other) \div 2 |-> <<other[2 * k - 1], other[2 * k]>>]
      raised == [OfDict(d, One(Undef)) EXCEPT !.bad = "raise"]
      entries == List([k \in DOMAIN rows |-> Row(rows[k])])
      asSeq(out) == [d |-> IF blk.at \in DOMAIN out.seen THEN d2 ELSE d, a |-> out.a, seen |-> out.seen, bad |-> out.bad]
  IN
  CASE m = "get" -> OfDict(d, One(IF i >= 0 THEN val ELSE Nil))
    [] m = "getValue" -> IF i >= 0 THEN OfDict(d, One(val)) ELSE raised
    [] m = "getOrDefault" -> OfDict(d, One(IF i >= 0 THEN val ELSE p[2]))
    [] m = "getOrElse" -> IF i >= 0 THEN OfDict(d, One(val)) ELSE OfDict(d2, One(N(7)))
    [] m = "getOrPut" ->
         IF i >= 0 THEN OfDict(d, One(val)) ELSE OfDict(ktMapPut(d2, p[1], N(7)), One(N(7)))
    [] m = "put" -> OfDict(ktMapPut(d, p[1], p[2]), One(IF i >= 0 THEN val ELSE Nil))
    [] m = "remove" -> IF i < 0 THEN OfDict(d, One(Nil)) ELSE OfDict(dictCut(d, i), One(val))
    [] m = "clear" -> OfDict(ktMapChange(d, m, p), One(Undef))
    [] m = "containsKey" -> is(i >= 0)
    [] m = "containsValue" -> is(ktHas(Els(d.vals), p[1]))
    [] m = "isEmpty" -> is(d.keys.n = 0)
    [] m = "isNotEmpty" -> is(d.keys.n > 0)
    [] m = "size" -> OfDict(d, One(N(d.keys.n)))
    [] m = "keys" -> OfDict(d, Many(Els(d.keys)))
    [] m = "values" -> OfDict(d, Many(Els(d.vals)))
    [] m \in {"entries", "toList"} -> OfDict(d, Many(Els(entries)))
    [] m = "toMap" -> OfDict(d, Hash(Rows(ktMapOf(rows))))
    [] m = "plus" -> OfDict(d, Hash(Rows(ktMapAll(ktMapOf(rows), pairs))))
    [] m = "putAll" -> OfDict(ktMapAll(d, pairs), Me)
    [] m = "minus" -> OfDict(d, Hash(Rows(ktMapOf(SelectSeq(rows, LAMBDA r : ~ktHas(other, r[1]))))))
    [] m \in {"filterKeys", "filterValues", "filter", "filterNot", "mapValues", "mapKeys"} -> ktMapWalk(d, d2, m, blk)
    [] OTHER -> asSeq(ktSeqMethod(entries, m, p, [blk EXCEPT !.at = 0]))
ktMapMethod(d, m, p, blk) == ktMapCall(d, ktMapAfter(d, blk), m, p, blk)
=============================================================================
