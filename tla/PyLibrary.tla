------------------------------ MODULE PyLibrary ------------------------------
(***************************************************************************)
(* Python's lists, slices, dicts and sets (pyListMethod, pySortList,       *)
(* pySliceIndices, pyDictMethod, pySetMethod, pySetBin, jsrt.go).          *)
(***************************************************************************)
EXTENDS Lists

\* A bool is the int it is, and 1.0 equals 1.
pyInt(v) == IF v = True THEN N(1) ELSE IF v = False THEN N(0) ELSE IF v = Flo THEN N(1) ELSE v
pyEqual(a, b) == pyInt(a) = pyInt(b)

\* A bound of a slice where the step is 1, and where it may be any other.
pySliceBound(v, n, other) ==
  IF v = Undef THEN other ELSE LET i == IF Num(v) < 0 THEN Num(v) + n ELSE Num(v) IN Max({0, Min({i, n})})
pySliceRange(lo, hi, n) ==
  LET from == pySliceBound(lo, n, 0) IN <<from, Max({from, pySliceBound(hi, n, n)})>>
pyClampIndex(i, n, step) ==
  IF i < 0 THEN IF i + n >= 0 THEN i + n ELSE IF step < 0 THEN -1 ELSE 0
  ELSE IF i >= n THEN (IF step < 0 THEN n - 1 ELSE n) ELSE i
\* The positions a[lo:hi:step] takes, in the order in which it takes them.
pySliceIndices(n, lo, hi, step) ==
  LET d == IF IsNull(step) THEN 1 ELSE Num(step)
      from == IF IsNull(lo) THEN (IF d < 0 THEN n - 1 ELSE 0) ELSE pyClampIndex(Num(lo), n, d)
      to == IF IsNull(hi) THEN (IF d < 0 THEN -n - 1 ELSE n) ELSE pyClampIndex(Num(hi), n, d)
      abs == IF d < 0 THEN -d ELSE d
      span == IF d > 0 THEN to - from ELSE from - to
      steps == IF span <= 0 THEN 0 ELSE (span + abs - 1) \div abs
  IN  SelectSeq([k \in 1 .. steps |-> from + (k - 1) * d], LAMBDA i : i \in 0 .. n - 1)

-----------------------------------------------------------------------------
(* Lists.                                                                  *)

pyArg(p, i) == IF i \in DOMAIN p THEN p[i] ELSE Undef
pyIndex(n, v) == IF Num(v) < 0 THEN Num(v) + n ELSE Num(v)
Raised(l) == Bad(l, "raise")
Swap(l) == [l EXCEPT !.c = [i \in DOMAIN @ |-> IF i <= l.n THEN @[l.n + 1 - i] ELSE @[i]]]
\* append(a, nil); copy(a[i+1:], a[i:]); a[i] = v
Inserted(l, i, v) ==
  LET k == Appended(l, <<v>>)
  IN  [k EXCEPT !.c = [j \in DOMAIN @ |-> IF j <= i \/ j > k.n THEN @[j] ELSE IF j = i + 1 THEN v ELSE @[j - 1]]]

\* sort: reversed before and after where it shall be in reverse, so that it stays stable;
\* the keys are asked for one by one, from the list as it is by then.
pySortList(l, p, blk, after) ==
  LET rev == pyArg(p, 1) = True
      place(i) == IF rev THEN l.n + 1 - i ELSE i
      now(i) == IF blk.at # 0 /\ i > blk.at THEN after ELSE l
      over == {i \in 1 .. l.n : place(i) > now(i).n}
      upTo == IF over = {} THEN l.n ELSE Min(over) - 1
      seen == [i \in 1 .. upTo |-> now(i).c[place(i)]]
      keys == [i \in 1 .. upTo |-> IF Given(blk) THEN Says(blk.f, seen[i]) ELSE seen[i]]
      places == InOrder([i \in 1 .. upTo |-> i], LAMBDA i, j : Num(keys[i]) - Num(keys[j]))
      sorted == [i \in 1 .. upTo |-> seen[places[i]]]
      end == IF blk.at \in 1 .. upTo THEN after ELSE l
      out == [l |-> Fresh(end, IF rev THEN Reverse(sorted) ELSE sorted), a |-> One(Undef),
              seen |-> IF Given(blk) THEN seen ELSE <<>>, bad |-> "no"]
  IN  IF over # {} THEN [out EXCEPT !.l = end, !.bad = "panic"] ELSE out

pyListPlain(l, m, p) ==
  LET s == Els(l)
      i == IF pyArg(p, 1) = Undef THEN l.n - 1 ELSE pyIndex(l.n, p[1])
      hits == {j \in 1 .. l.n : pyEqual(s[j], pyArg(p, 1))}
      r == pySliceRange(pyArg(p, 2), pyArg(p, 3), l.n)
      within == {j \in hits : j > r[1] /\ j <= r[2]}
      none(k) == Answer(k, One(Undef))
  IN
  CASE m = "append" -> none(Appended(l, <<p[1]>>))
    [] m = "extend" -> none(Appended(l, CellsOf(p[1])))
    [] m = "clear" -> none(Trimmed(l, 0))
    [] m = "reverse" -> none(Swap(l))
    [] m = "insert" -> none(Inserted(l, Max({0, Min({i, l.n})}), p[2]))
    [] m = "copy" -> Answer(l, Many(s))
    [] m = "count" -> Answer(l, One(N(Cardinality(hits))))
    [] m = "pop" -> IF i \notin 0 .. l.n - 1 THEN Raised(l) ELSE Answer(CutOut(l, i), One(s[i + 1]))
    [] m = "remove" -> IF hits = {} THEN Raised(l) ELSE none(CutOut(l, Min(hits) - 1))
    [] m = "index" -> IF within = {} THEN Raised(l) ELSE Answer(l, One(N(Min(within) - 1)))

\* a[i], a[i] = v, a[lo:hi], a[lo:hi:step], and what is assigned to or deleted from one.
pyGet(l, p) ==
  LET i == pyIndex(l.n, p[1]) IN IF i \notin 0 .. l.n - 1 THEN Raised(l) ELSE Answer(l, One(l.c[i + 1]))
pySet(l, p) ==
  LET i == pyIndex(l.n, p[1]) IN IF i \notin 0 .. l.n - 1 THEN Raised(l) ELSE Answer(Stored(l, i, p[2]), One(Undef))
pySlice(l, p) ==
  LET r == pySliceRange(p[1], p[2], l.n) IN Answer(l, Many(SubSeq(l.c, r[1] + 1, r[2])))
pySlice3(l, p) ==
  LET at == pySliceIndices(l.n, p[1], p[2], p[3]) IN Answer(l, Many([k \in DOMAIN at |-> l.c[at[k] + 1]]))
pySetSlice(l, p) ==
  LET at == pySliceIndices(l.n, p[1], p[2], p[3])
      vals == CellsOf(p[4])
      lo == IF at # <<>> THEN at[1] ELSE IF IsNull(p[1]) THEN 0 ELSE pyClampIndex(Num(p[1]), l.n, 1)
      hi == IF at # <<>> THEN Last(at) + 1 ELSE lo
      put(x, k) == Stored(x, at[k], vals[k])
  IN  IF IsNull(p[3]) \/ Num(p[3]) = 1
      THEN Answer(Fresh(l, SubSeq(l.c, 1, lo) \o vals \o SubSeq(l.c, hi + 1, l.n)), One(Undef))
      ELSE IF Len(at) # Len(vals) THEN Raised(l)
      ELSE Answer(FoldLeft(put, l, [k \in DOMAIN at |-> k]), One(Undef))
pyDelSlice(l, p) ==
  LET at == ToSet(pySliceIndices(l.n, p[1], p[2], p[3]))
      kept == SelectSeq([i \in 1 .. l.n |-> i], LAMBDA i : i - 1 \notin at)
  IN  Answer(Fresh(l, [k \in DOMAIN kept |-> l.c[kept[k]]]), One(Undef))

pyListMethod(l, m, p, blk) ==
  CASE m = "sort" -> pySortList(l, p, blk, IF blk.at = 0 THEN l ELSE pyListPlain(l, blk.m, blk.args).l)
    [] m = "[]" -> pyGet(l, p)
    [] m = "[]=" -> pySet(l, p)
    [] m = "[:]" -> pySlice(l, p)
    [] m = "[::]" -> pySlice3(l, p)
    [] m = "[::]=" -> pySetSlice(l, p)
    [] m = "del" -> pyDelSlice(l, p)
    [] OTHER -> pyListPlain(l, m, p)

-----------------------------------------------------------------------------
(* Dicts: True, 1 and 1.0 are one key.                                     *)

pyKeyAlias(k) ==
  CASE k = Flo -> N(1) [] k = True -> N(1) [] k = False -> N(0) [] k = N(1) -> True [] k = N(0) -> False [] OTHER -> Undef
dictKeyEq(a, b) == IF Flo \in {a, b} THEN pyEqual(a, b) ELSE strictEq(a, b)
pyDictFind(d, k) ==
  LET orAlias(f, alias) == IF f.at >= 0 \/ alias = Undef THEN f ELSE dictFind(f.d, alias, dictKeyEq)
  IN  orAlias(orAlias(dictFind(d, k, dictKeyEq), pyKeyAlias(k)), pyKeyAlias(pyKeyAlias(k)))
pyDictStore(d, k, v) ==
  LET f == pyDictFind(d, k) IN IF f.at >= 0 THEN dictStore(f.d, f.at, v) ELSE dictAppend(f.d, k, v)

pyDictMethod(d, m, p) ==
  LET f == pyDictFind(d, p[1])
      there == f.at >= 0
      val == One(f.d.vals.c[f.at + 1])
      raised == [OfDict(d, One(Undef)) EXCEPT !.bad = "raise"]
      pairs == CellsOf(p[1])
      none(e) == OfDict(e, One(Undef))
  IN
  CASE m = "keys" -> OfDict(d, Many(Els(d.keys)))
    [] m = "values" -> OfDict(d, Many(Els(d.vals)))
    [] m = "items" -> OfDict(d, Many([i \in 1 .. d.keys.n |-> Row(Rows(d)[i])]))
    [] m = "[]" -> IF there THEN OfDict(f.d, val) ELSE [raised EXCEPT !.d = f.d]
    [] m = "[]=" -> none(pyDictStore(d, p[1], p[2]))
    [] m = "in" -> OfDict(f.d, One(Truth(there)))
    [] m = "get" -> OfDict(f.d, IF there THEN val ELSE One(pyArg(p, 2)))
    [] m = "pop" -> IF there THEN OfDict(dictCut(f.d, f.at), val)
                    ELSE IF Len(p) > 1 THEN OfDict(f.d, One(p[2])) ELSE [raised EXCEPT !.d = f.d]
    [] m = "popitem" ->
         IF d.keys.n = 0 THEN raised
         ELSE OfDict(dropIdx([d EXCEPT !.keys = Trimmed(@, @.n - 1), !.vals = Trimmed(@, @.n - 1)]),
                     Many(Rows(d)[d.keys.n]))
    [] m = "clear" -> none(dropIdx([d EXCEPT !.keys = Trimmed(@, 0), !.vals = Trimmed(@, 0)]))
    [] m = "copy" -> OfDict(d, Hash(Rows(d)))
    [] m = "setdefault" ->
         IF there THEN OfDict(f.d, val) ELSE OfDict(dictAppend(f.d, p[1], pyArg(p, 2)), One(pyArg(p, 2)))
    [] m = "update" ->
         none(FoldLeft(LAMBDA x, i : pyDictStore(x, pairs[2 * i - 1], pairs[2 * i]), d, [i \in 1 .. Len(pairs) \div 2 |-> i]))
    [] m = "fromkeys" ->
         OfDict(d, Hash(Rows(FoldLeft(LAMBDA x, k : pyDictStore(x, k, pyArg(p, 2)), NoDict, pairs))))

-----------------------------------------------------------------------------
(* Sets: a list without two equal members.                                 *)

pySetHas(s, v) == \E i \in DOMAIN s : pyEqual(s[i], v)
pySetAdd(l, v) == IF pySetHas(Els(l), v) THEN l ELSE Appended(l, <<v>>)
pySetAll(l, s) == FoldLeft(pySetAdd, l, s)

pySetBin(op, l, r) ==
  LET x == Els(l)
      both == SelectSeq(x, LAMBDA v : pySetHas(r, v))
      mine == SelectSeq(x, LAMBDA v : ~pySetHas(r, v))
      theirs == SelectSeq(r, LAMBDA v : ~pySetHas(x, v))
      within(a, b) == \A i \in DOMAIN a : pySetHas(b, a[i])
      made(s) == Many(Els(pySetAll(List(<<>>), s)))
  IN
  CASE op = "|" -> Many(Els(pySetAll(List(x), r)))
    [] op = "&" -> made(both)
    [] op = "-" -> made(mine)
    [] op = "^" -> made(mine \o theirs)
    [] op = "<=" -> One(Truth(within(x, r)))
    [] op = ">=" -> One(Truth(within(r, x)))
    [] op = "<" -> One(Truth(within(x, r) /\ Len(x) < Len(r)))
    [] op = ">" -> One(Truth(within(r, x) /\ Len(r) < Len(x)))
    [] op = "==" -> One(Truth(Len(x) = Len(r) /\ within(x, r)))

pySetMethod(l, m, p) ==
  LET s == Els(l)
      hits == {i \in 1 .. l.n : pyEqual(s[i], pyArg(p, 1))}
      none(k) == Answer(k, One(Undef))
  IN
  CASE m = "add" -> none(pySetAdd(l, p[1]))
    [] m = "clear" -> none(Trimmed(l, 0))
    [] m = "copy" -> Answer(l, Many(s))
    [] m = "pop" -> IF l.n = 0 THEN Raised(l) ELSE Answer(CutOut(l, 0), One(s[1]))
    [] m \in {"remove", "discard"} ->
         IF hits # {} THEN none(CutOut(l, Min(hits) - 1)) ELSE IF m = "remove" THEN Raised(l) ELSE none(l)
    [] m = "union" -> Answer(l, Many(Els(pySetAll(List(s), FlattenSeq([i \in DOMAIN p |-> CellsOf(p[i])])))))
    [] m = "update" -> none(pySetAll(l, FlattenSeq([i \in DOMAIN p |-> CellsOf(p[i])])))
    [] OTHER -> Answer(l, pySetBin(m, l, CellsOf(p[1])))
=============================================================================
