------------------------------- MODULE Meaning -------------------------------
(***************************************************************************)
(* What the list methods are for, without slices, loops or copies: a list  *)
(* is a sequence, and a method keeps some of its places, puts others       *)
(* between them, or orders them.  A name means the same in every language  *)
(* unless a language is named beside it.  Where the code leaves a language *)
(* the meaning is the code's: Ruby's max_by, insert behind the end or far  *)
(* before it and cycle without a block, Kotlin's slice and subList.        *)
(***************************************************************************)
EXTENDS Lists

Hit(lang, v) == IF lang = "ruby" THEN v \notin {Nil, False} ELSE v \notin {Nil, False, N(0)}
None(lang) == IF lang \in {"ruby", "kotlin"} THEN Nil ELSE Undef
Plain(lang, v) ==
  CASE lang = "python" /\ v = True -> N(1) [] lang = "python" /\ v = False -> N(0)
    [] lang \in {"python", "ruby"} /\ v = Flo -> N(1) [] OTHER -> v
\* The equality of a language; and the one of its sets, where 1 and 1.0 may be two.
SameIn(lang, a, b) == Plain(lang, a) = Plain(lang, b) /\ ~(lang = "js" /\ IsRow(a))
MemberIn(lang, a, b) == IF lang = "ruby" THEN a = b ELSE SameIn(lang, a, b)

At(s, I) == [k \in 1 .. Cardinality(I) |-> s[CHOOSE i \in I : Cardinality({j \in I : j <= i}) = k]]
Put(s, at, del, ins) == SubSeq(s, 1, at) \o ins \o SubSeq(s, at + del + 1, Len(s))
FromEnd(i, n) == IF i < 0 THEN i + n ELSE i
Within(i, n) == IF i < 0 THEN 0 ELSE IF i > n THEN n ELSE i
Opt(p, i, v) == IF i \in DOMAIN p /\ ~IsNull(p[i]) /\ ~IsRow(p[i]) THEN Num(p[i]) ELSE v
Cells(p, i) == IF i \notin DOMAIN p THEN <<>> ELSE IF IsRow(p[i]) THEN CellsOf(p[i]) ELSE <<p[i]>>

\* The places in the order of their keys, equal ones in their own.
OrderOf(keys, sign) ==
  LET before(i, j) == sign * keys[i] < sign * keys[j] \/ (keys[i] = keys[j] /\ i < j)
  IN  [k \in DOMAIN keys |-> CHOOSE i \in DOMAIN keys : Cardinality({j \in DOMAIN keys : before(j, i)}) = k - 1]
Sorted(s, keys, sign) == LET order == OrderOf(keys, sign) IN [k \in DOMAIN s |-> s[order[k]]]
Nums(s) == [i \in DOMAIN s |-> Num(s[i])]
\* The number whose digits a fold has read.
Digit(v) == Key(v)
Folded(begin, s) ==
  LET n == Len(s) IN (begin * 10 ^ n + FoldLeft(LAMBDA x, i : x + Digit(s[i]) * 10 ^ (n - i), 0, [i \in 1 .. n |-> i])) % 997

\* What a call leaves and answers; the block sees the elements unless it says otherwise.
Is(t, a) == [t |-> t, a |-> a, seen |-> <<>>, bad |-> "no"]
Refused(s, why) == [t |-> s, a |-> One(Undef), seen |-> <<>>, bad |-> why]

-----------------------------------------------------------------------------
(* Without a block.                                                        *)

\* The places, from 0, that Python's a[lo:hi:by] goes through; backwards, from lo down to hi.
Stepped(n, p) ==
  LET by == Opt(p, 3, 1)
      end(i) == Within(FromEnd(i, n), n)
      lo == Min({FromEnd(Opt(p, 1, n - 1), n), n - 1})
      hi == IF Len(p) > 1 /\ ~IsNull(p[2]) THEN FromEnd(Num(p[2]), n) ELSE -1
  IN  IF by > 0 THEN {i \in 0 .. n - 1 : i >= end(Opt(p, 1, 0)) /\ i < end(Opt(p, 2, n)) /\ (i - end(Opt(p, 1, 0))) % by = 0}
      ELSE {i \in 0 .. n - 1 : i <= lo /\ i > hi /\ (lo - i) % (-by) = 0}

\* Places kept in the answer.
KeepNames ==
  {"compact", "filterNotNull", "uniq", "distinct", "toSet", "take", "drop", "first", "last", "takeLast", "dropLast", "-", "minus",
   "subtract", "&", "intersect", "slice", "[:]", "to_a", "dup", "copy", "toList"}
Kept(lang, m, s, p) ==
  LET n == Len(s)
      all == 1 .. n
      k == Within(Opt(p, 1, 1), n)
      others == ToSet(Cells(p, 1))
      with == {i \in all : \E v \in others : MemberIn(lang, s[i], v)}
      firsts(I) == {i \in I : \A j \in I : j < i => ~MemberIn(lang, s[i], s[j])}
      cut(from, upTo) == {i \in all : i > from /\ i <= upTo}
      at(i) == Within(FromEnd(i, n), n)
  IN
  CASE m \in {"compact", "filterNotNull"} -> {i \in all : ~IsNull(s[i])}
    [] m \in {"uniq", "distinct", "toSet"} -> firsts(all)
    [] m \in {"take", "first"} -> 1 .. k
    [] m = "drop" -> k + 1 .. n
    [] m \in {"last", "takeLast"} -> n - k + 1 .. n
    [] m = "dropLast" -> 1 .. n - k
    [] m \in {"-", "minus"} -> all \ with
    [] m = "subtract" -> firsts(all \ with)
    [] m \in {"&", "intersect"} -> firsts(with)
    [] m \in {"slice", "[:]"} -> cut(at(Opt(p, 1, 0)), at(Opt(p, 2, n)))
    [] m \in {"to_a", "dup", "copy", "toList"} -> all

\* Ruby's part of a list from a place on, or of the places a range goes through.
Part(s, p) ==
  LET n == Len(s)
      from == FromEnd(IF IsRow(p[1]) THEN Num(p[1][2]) ELSE Num(p[1]), n)
      len == IF IsRow(p[1]) THEN Len(p[1]) - 1 ELSE Num(p[2])
  IN  IF p = <<Row(<<>>)>> THEN Many(<<>>)
      ELSE IF from \in 0 .. n THEN Many(At(s, {i \in 1 .. n : i > from /\ i <= from + len})) ELSE One(Nil)

\* Places kept in the list, and what is answered for it.
CutNames == {"pop", "shift", "removeFirst", "removeLast", "removeAt", "delete_at", "remove", "delete", "clear", "removeAll", "retainAll",
             "compact!", "uniq!", "del"}
Cut(lang, m, s, p) ==
  LET n == Len(s)
      all == 1 .. n
      same == {i \in all : p # <<>> /\ SameIn(lang, s[i], p[1])}
      one == CASE m = "shift" \/ m = "removeFirst" -> 1 [] m = "removeLast" \/ (m = "pop" /\ lang # "python") -> n
               [] m = "removeAt" -> Num(p[1]) + 1
               [] m = "delete_at" -> FromEnd(Num(p[1]), n) + 1
               [] m = "pop" /\ lang = "python" -> FromEnd(Opt(p, 1, -1), n) + 1
               [] m = "remove" -> IF same = {} THEN 0 ELSE Min(same)
               [] OTHER -> 0
      there == one \in all
      but(I) == At(s, all \ I)
      others == ToSet(Cells(p, 1))
      with == {i \in all : \E v \in others : SameIn(lang, s[i], v)}
      taken == CASE m = "removeAll" -> with [] m = "retainAll" -> all \ with
                 [] m = "compact!" -> {i \in all : IsNull(s[i])}
                 [] m = "uniq!" -> {i \in all : \E j \in all : j < i /\ MemberIn(lang, s[i], s[j])}
                 [] m = "delete" -> same [] m = "clear" -> all
                 [] m = "del" -> {i \in all : i - 1 \in Stepped(n, p)}
                 [] OTHER -> {}
  IN
  CASE m \in {"pop", "shift"} /\ lang = "ruby" /\ p # <<>> ->
         LET k == Within(Num(p[1]), n)
             gone == IF m = "pop" THEN n - k + 1 .. n ELSE 1 .. k
         IN  Is(but(gone), Many(At(s, gone)))
    [] m = "remove" -> IF there THEN Is(but({one}), One(IF lang = "kotlin" THEN True ELSE Undef))
                       ELSE IF lang = "kotlin" THEN Is(s, One(False)) ELSE Refused(s, "raise")
    [] m \in {"removeFirst", "removeLast", "removeAt", "delete_at"}
       \/ (m \in {"pop", "shift"} /\ ~(lang = "ruby" /\ p # <<>>)) ->
         IF there THEN Is(but({one}), One(s[one]))
         ELSE IF lang \in {"python", "kotlin"} THEN Refused(s, "raise") ELSE Is(s, One(None(lang)))
    [] m = "delete" -> Is(but(same), One(IF same = {} THEN Nil ELSE s[Max(same)]))
    [] m \in {"compact!", "uniq!"} -> Is(but(taken), IF taken = {} THEN One(Nil) ELSE Me)
    [] m \in {"removeAll", "retainAll"} -> Is(but(taken), One(Truth(taken # {})))
    [] m \in {"clear", "del"} -> Is(but(taken), IF lang = "ruby" THEN Me ELSE One(Undef))

\* Others put between the places.
PutNames == {"push", "append", "add", "extend", "addAll", "unshift", "insert", "splice", "concat", "plus", "|", "union", "set", "[]="}
Puts(lang, m, s, p) ==
  LET n == Len(s)
      more(ins) == Put(s, n, 0, ins)
      place == IF IsRow(p[1]) /\ Len(p[1]) > 1 THEN Num(p[1][2]) ELSE Opt(p, 1, 0)
      at == IF lang = "kotlin" THEN place ELSE FromEnd(place, n)
      begin == Within(at, n)
      del == IF Len(p) < 2 THEN n - begin ELSE Within(Num(p[2]), n - begin)
      both == s \o Cells(p, 1)
      firsts == {i \in DOMAIN both : \A j \in 1 .. i - 1 : ~MemberIn(lang, both[i], both[j])}
      pad == [i \in 1 .. at - n |-> Nil]
  IN
  CASE m \in {"push", "append", "add"} /\ ~(m = "add" /\ Len(p) = 2) ->
         Is(more(p), CASE lang = "ruby" -> Me [] lang = "js" -> One(N(n + Len(p))) [] lang = "python" -> One(Undef) [] lang = "kotlin" -> One(True))
    [] m = "add" /\ Len(p) = 2 -> IF at \in 0 .. n THEN Is(Put(s, at, 0, <<p[2]>>), One(Undef)) ELSE Refused(s, "raise")
    [] m = "extend" -> Is(more(Cells(p, 1)), One(Undef))
    [] m = "addAll" -> Is(more(Cells(p, 1)), One(Truth(Cells(p, 1) # <<>>)))
    [] m = "unshift" -> Is(Put(s, 0, 0, p), IF lang = "ruby" THEN Me ELSE One(N(n + Len(p))))
    [] m = "insert" /\ lang = "python" -> Is(Put(s, begin, 0, <<p[2]>>), One(Undef))
    [] m = "insert" /\ lang = "ruby" -> IF at \in 0 .. n THEN Is(Put(s, at, 0, Tail(p)), Me) ELSE Refused(s, "panic")
    [] m = "splice" -> IF p = <<>> THEN Is(s, Many(<<>>))
                       ELSE Is(Put(s, begin, del, SubSeq(p, 3, Len(p))), Many(SubSeq(s, begin + 1, begin + del)))
    [] m = "concat" -> IF lang = "ruby" THEN Is(both, Me) ELSE Is(s, Many(both))
    [] m = "plus" -> Is(s, Many(both))
    [] m \in {"|", "union"} -> Is(s, Many(At(both, firsts)))
    [] m = "set" -> IF at \in 0 .. n - 1 THEN Is(Put(s, at, 1, <<p[2]>>), One(s[at + 1])) ELSE Refused(s, "raise")
    [] m = "[]=" /\ lang = "python" ->
         IF at \in 0 .. n - 1 THEN Is(Put(s, at, 1, <<p[2]>>), One(Undef)) ELSE Refused(s, "raise")
    [] m = "[]=" /\ lang = "ruby" ->
         IF at < 0 THEN Refused(s, "raise")
         ELSE IF Len(p) = 2 /\ ~IsRow(p[1]) THEN Is(Put(s \o pad, at, 1, <<p[2]>>), Me)
         ELSE IF Len(p) = 2 THEN Is(Put(s \o pad, at, Within(Len(p[1]) - 1, Len(s \o pad) - at), Cells(p, 2)), Me)
         ELSE Is(Put(s \o pad, at, Within(Num(p[2]), Len(s \o pad) - at), Cells(p, 3)), Me)

\* One element, or a fact.
AskNames == {"size", "length", "empty?", "isEmpty", "isNotEmpty", "include?", "includes", "contains", "index", "indexOf", "lastIndexOf",
             "rindex", "count", "at", "first1", "last1", "containsAll", "min", "max", "minmax", "elementAtOrNull", "elementAt", "sum1"}
Asks(lang, m, s, p) ==
  LET n == Len(s)
      from == IF lang \in {"js", "python"} THEN Within(FromEnd(Opt(p, 2, 0), n), n) ELSE 0
      upTo == IF lang = "python" THEN Within(FromEnd(Opt(p, 3, n), n), n) ELSE n
      same == {i \in from + 1 .. upTo : p # <<>> /\ SameIn(lang, s[i], p[1])}
      nowhere == IF lang = "ruby" THEN Nil ELSE N(-1)
      i == Opt(p, 1, 0)
      at == (IF lang = "kotlin" THEN i ELSE FromEnd(i, n)) + 1
      least == {j \in 1 .. n : \A k \in 1 .. n : Num(s[j]) <= Num(s[k])}
      most == {j \in 1 .. n : \A k \in 1 .. n : Num(s[j]) >= Num(s[k])}
      orNone(I) == IF I # {} THEN Is(s, One(s[Min(I)])) ELSE IF lang = "kotlin" THEN Refused(s, "raise") ELSE Is(s, One(Nil))
      is(b) == Is(s, One(Truth(b)))
  IN
  CASE m \in {"size", "length"} -> Is(s, One(N(n)))
    [] m \in {"empty?", "isEmpty"} -> is(n = 0)
    [] m = "isNotEmpty" -> is(n > 0)
    [] m \in {"include?", "includes", "contains"} -> is(same # {})
    [] m = "containsAll" -> is(\A v \in ToSet(Cells(p, 1)) : \E j \in 1 .. n : SameIn(lang, s[j], v))
    [] m = "index" /\ lang = "python" -> IF same = {} THEN Refused(s, "raise") ELSE Is(s, One(N(Min(same) - 1)))
    [] m \in {"index", "indexOf"} /\ lang # "python" -> Is(s, One(IF same = {} THEN nowhere ELSE N(Min(same) - 1)))
    [] m \in {"rindex", "lastIndexOf"} -> Is(s, One(IF same = {} THEN nowhere ELSE N(Max(same) - 1)))
    [] m = "count" -> Is(s, One(N(IF p = <<>> THEN n ELSE Cardinality(same))))
    [] m \in {"at", "elementAtOrNull"} -> Is(s, One(IF at \in 1 .. n THEN s[at] ELSE None(lang)))
    [] m = "elementAt" -> IF at \in 1 .. n THEN Is(s, One(s[at])) ELSE Refused(s, "raise")
    [] m = "first1" -> orNone({j \in {1} : n > 0})
    [] m = "last1" -> orNone({j \in {n} : n > 0})
    [] m = "min" -> orNone(least)
    [] m = "max" -> orNone(most)
    [] m = "minmax" -> Is(s, Many(IF n = 0 THEN <<Nil, Nil>> ELSE <<s[Min(least)], s[Max(most)]>>))

\* All elements, in another order or otherwise arranged.
ArrangeNames == {"sort", "sorted", "sortedDescending", "sort!", "sortDescending", "reverse", "reverse!", "reversed", "rotate", "zip", "each_slice",
                 "each_cons", "chunked", "windowed", "flatten", "flat", "[::]", "zipWithNext", "withIndex", "values_at"}
Arranged(lang, m, s, p) ==
  LET n == Len(s)
      k == Opt(p, 1, 1)
      step == IF m \in {"each_slice", "chunked"} THEN k ELSE Opt(p, 2, 1)
      whole == m = "each_cons" \/ (m = "windowed" /\ p # <<>> /\ p[Len(p)] # True)
      starts == {i \in 0 .. n - 1 : step > 0 /\ i % step = 0 /\ (whole => i + k <= n)}
      pieces == LET at == At([i \in 1 .. n |-> i - 1], {i + 1 : i \in starts})
                IN  [j \in DOMAIN at |-> Row([i \in 1 .. Min({k, n - at[j]}) |-> s[at[j] + i]])]
      stepped == At(s, {i + 1 : i \in Stepped(n, p)})
  IN
  CASE m \in {"sort", "sorted", "sort!"} -> Sorted(s, Nums(s), IF p = <<True>> THEN -1 ELSE 1)
    [] m \in {"sortedDescending", "sortDescending"} -> Sorted(s, Nums(s), -1)
    [] m \in {"reverse", "reverse!", "reversed"} -> [i \in 1 .. n |-> s[n + 1 - i]]
    [] m = "rotate" -> [i \in 1 .. n |-> s[((i - 1 + k) % n) + 1]]
    [] m = "zip" -> LET long == IF lang = "ruby" THEN n ELSE Min({n, Len(Cells(p, 1))})
                    IN  [i \in 1 .. long |-> Row(<<s[i], IF i <= Len(Cells(p, 1)) THEN Cells(p, 1)[i] ELSE Nil>>)]
    [] m \in {"each_slice", "each_cons", "chunked", "windowed"} -> pieces
    [] m \in {"flatten", "flat"} -> IF k < 1 THEN s ELSE FlattenSeq([i \in 1 .. n |-> Cells(s, i)])
    [] m = "[::]" -> IF Opt(p, 3, 1) > 0 THEN stepped ELSE [i \in 1 .. Len(stepped) |-> stepped[Len(stepped) + 1 - i]]
    [] m = "zipWithNext" -> [i \in 1 .. n - 1 |-> Row(<<s[i], s[i + 1]>>)]
    [] m = "withIndex" -> [i \in 1 .. n |-> Row(<<N(i - 1), s[i]>>)]
    [] m = "places" -> [j \in DOMAIN Cells(p, 1) |-> s[Num(Cells(p, 1)[j]) + 1]]
    [] m = "values_at" -> [j \in DOMAIN p |-> LET i == FromEnd(Num(p[j]), n) + 1 IN IF i \in 1 .. n THEN s[i] ELSE Nil]
InPlace(lang, m) == m \in {"sort!", "reverse!", "sortDescending"} \/ (m \in {"sort", "reverse"} /\ lang \in {"js", "python", "kotlin"})
                    \/ (m = "reverse" /\ lang # "ruby")

-----------------------------------------------------------------------------
(* Selections of several, sums, and the enumerators and maps made of a     *)
(* list.                                                                   *)

MoreNames == {"product", "combination", "permutation", "tally", "sum", "each", "map", "select", "each_with_index", "cycle", "fill", "assoc", "join", "none",
              "contentEquals", "single", "firstOrNull", "lastOrNull", "maxOrNull", "minOrNull", "hashCode", "toSortedSet", "requireNoNulls",
              "subList", "toMap", "[::]="}
\* x before y where they differ first.
Earlier(x, y) == \E i \in DOMAIN x : x[i] < y[i] /\ \A j \in 1 .. i - 1 : x[j] = y[j]
InEarlierOrder(S) == [k \in 1 .. Cardinality(S) |-> CHOOSE x \in S : Cardinality({y \in S : Earlier(y, x)}) = k - 1]
Selections(n, k, Ok(_)) == IF k \in 0 .. n THEN InEarlierOrder({x \in [1 .. k -> 1 .. n] : Ok(x)}) ELSE <<>>
Increasing(x) == \A i, j \in DOMAIN x : i < j => x[i] < x[j]
Injective1(x) == \A i, j \in DOMAIN x : i # j => x[i] # x[j]
RowsAt(s, picks) == [j \in DOMAIN picks |-> Row([i \in DOMAIN picks[j] |-> s[picks[j][i]]])]
Total(s) == FoldLeft(LAMBDA x, v : x + Num(v), 0, s)

More(lang, m, s, p) ==
  LET n == Len(s)
      k == Opt(p, 1, 0)
      firsts == At(s, {i \in 1 .. n : \A j \in 1 .. i - 1 : ~MemberIn(lang, s[i], s[j])})
      other == Cells(p, 1)
      enum(op, x) == Is(s, Enum(op, x))
      is(b) == Is(s, One(Truth(b)))
      orNil(v) == Is(s, One(IF n = 0 THEN Nil ELSE v))
      from == Within(FromEnd(Opt(p, 2, 0), n), n)
      upTo == Within(FromEnd(Opt(p, 3, n), n), n)
      assoc == {i \in 1 .. n : IsRow(s[i]) /\ Len(s[i]) > 1 /\ SameIn(lang, s[i][2], p[1])}
      steps == Stepped(n, p)
      rank(i) == IF Opt(p, 3, 1) > 0 THEN Cardinality({j \in steps : j <= i}) ELSE Cardinality({j \in steps : j >= i})
      keys == {i \in 1 .. n : \A j \in 1 .. i - 1 : s[i][2] # s[j][2]}
  IN
  CASE m = "product" ->
         Is(s, Many([i \in 1 .. n * Len(other) |-> Row(<<s[((i - 1) \div Len(other)) + 1], other[((i - 1) % Len(other)) + 1]>>)]))
    [] m = "combination" -> enum("each", RowsAt(s, Selections(n, k, Increasing)))
    [] m = "permutation" -> enum("each", RowsAt(s, Selections(n, k, Injective1)))
    [] m = "tally" -> Is(s, Hash([j \in DOMAIN firsts |-> <<firsts[j], N(Cardinality({i \in 1 .. n : MemberIn(lang, s[i], firsts[j])}))>>]))
    [] m = "sum" -> [Is(s, One(N(Total(s)))) EXCEPT !.seen = IF lang = "ruby" THEN s ELSE <<>>]
    [] m \in {"each", "map", "select"} -> enum(m, s)
    [] m = "each_with_index" -> enum("each", [i \in 1 .. n |-> Row(<<s[i], N(i - 1)>>)])
    [] m = "cycle" -> IF p = <<>> THEN Refused(s, "raise") ELSE enum("each", [i \in 1 .. n * k |-> s[((i - 1) % n) + 1]])
    [] m = "fill" -> Is([i \in 1 .. n |-> IF lang = "ruby" \/ (i > from /\ i <= upTo) THEN p[1] ELSE s[i]], Me)
    [] m = "assoc" -> Is(s, One(IF assoc = {} THEN Nil ELSE s[Min(assoc)]))
    [] m = "join" -> Is(s, Many([i \in 1 .. n |-> IF IsNull(s[i]) THEN Blank ELSE s[i]]))
    [] m = "none" -> is(n = 0)
    [] m = "contentEquals" -> is(s = other)
    [] m = "single" -> IF n = 1 THEN Is(s, One(s[1])) ELSE Refused(s, "raise")
    [] m = "firstOrNull" -> orNil(s[1])
    [] m = "lastOrNull" -> orNil(s[n])
    [] m = "maxOrNull" -> orNil(N(Max({Num(s[i]) : i \in 1 .. n})))
    [] m = "minOrNull" -> orNil(N(Min({Num(s[i]) : i \in 1 .. n})))
    [] m = "hashCode" -> Is(s, One(N(31 ^ n + Total([i \in 1 .. n |-> N(Num(s[i]) * 31 ^ (n - i))]))))
    [] m = "toSortedSet" -> Is(s, Many(Sorted(firsts, Nums(firsts), 1)))
    [] m = "requireNoNulls" -> IF Nil \in ToSet(s) THEN Refused(s, "raise") ELSE Is(s, Many(s))
    [] m = "subList" -> IF 0 <= k /\ k <= Num(p[2]) /\ Num(p[2]) <= n THEN Is(s, Many(SubSeq(s, k + 1, Num(p[2])))) ELSE Refused(s, "panic")
    [] m = "toMap" -> Is(s, Hash([j \in 1 .. Cardinality(keys) |->
                                    LET key == At(s, keys)[j][2] IN <<key, s[Max({i \in 1 .. n : s[i][2] = key})][3]>>]))
    [] m = "[::]=" ->
         IF Opt(p, 3, 1) = 1
         THEN LET lo == Within(FromEnd(Opt(p, 1, 0), n), n) IN Is(Put(s, lo, Cardinality(steps), Cells(p, 4)), One(Undef))
         ELSE IF Cardinality(steps) # Len(Cells(p, 4)) THEN Refused(s, "raise")
         ELSE Is([i \in 1 .. n |-> IF i - 1 \in steps THEN Cells(p, 4)[rank(i - 1)] ELSE s[i]], One(Undef))

-----------------------------------------------------------------------------
(* With a block that leaves the list alone.                                *)

KeptByBlock(m, yes, said) ==
  LET all == DOMAIN said IN
  CASE m \in {"select", "filter", "select!", "keep_if", "retainAll"} -> yes
    [] m \in {"reject", "filterNot", "reject!", "delete_if", "removeAll"} -> all \ yes
    [] m \in {"take_while", "takeWhile"} -> {i \in all : 1 .. i \subseteq yes}
    [] m \in {"drop_while", "dropWhile"} -> {i \in all : ~(1 .. i \subseteq yes)}
    [] m = "distinctBy" -> {i \in all : \A j \in 1 .. i - 1 : said[j] # said[i]}
KeepByBlock == {"select", "filter", "reject", "filterNot", "take_while", "takeWhile", "drop_while", "dropWhile", "distinctBy"}
CutByBlock == {"select!", "keep_if", "retainAll", "reject!", "delete_if", "removeAll"}
WalkNames == {"each", "forEach", "onEach", "map", "collect", "map!", "flat_map", "flatMap", "find", "detect", "findLast", "find_index", "findIndex",
              "indexOfFirst", "findLastIndex", "indexOfLast", "any?", "any", "some", "all?", "all", "every", "none?", "none", "one?", "count",
              "partition", "group_by", "groupBy", "sort_by", "sortedBy", "sortedByDescending", "sort_by!", "sortBy", "sortByDescending",
              "min_by", "minBy", "maxBy", "sort", "sort!", "sortedWith", "sortWith", "inject", "reduce", "reduceRight", "fold", "foldRight", "sumOf", "mapNotNull",
              "max_by", "maxByOrNull", "each_with_index", "each_with_object", "sum", "each_slice", "each_cons", "cycle", "min", "max", "minmax", "first",
              "single", "firstOrNull", "maxOf", "minOfOrNull", "associate", "associateWith", "associateBy", "getOrElse", "ifEmpty", "scan", "runningReduce"}

ByBlock(lang, m, s, p, blk) ==
  LET n == Len(s)
      all == 1 .. n
      said == [i \in all |-> Says(blk.f, s[i])]
      yes == {i \in all : Hit(lang, said[i])}
      no == all \ yes
      seenAll(x) == [x EXCEPT !.seen = s]
      upTo(I, x) == [x EXCEPT !.seen = IF I = {} THEN s ELSE SubSeq(s, 1, Min(I))]
      downTo(I, x) == [x EXCEPT !.seen = [i \in 1 .. (IF I = {} THEN n ELSE n + 1 - Max(I)) |-> s[n + 1 - i]]]
      el(I, i) == One(IF I = {} THEN None(lang) ELSE s[i])
      place(I, i) == One(IF I = {} THEN (IF lang = "ruby" THEN Nil ELSE N(-1)) ELSE N(i - 1))
      kept == At(s, KeptByBlock(m, yes, said))
      stops == m \in {"take_while", "takeWhile", "drop_while", "dropWhile"}
      spliced == FlattenSeq([i \in all |-> Cells(said, i)])
      keys == [i \in all |-> Key(said[i])]
      ordered(sign) == Sorted(s, keys, sign)
      groups == {i \in all : \A j \in 1 .. i - 1 : said[j] # said[i]}
      grouped == [k \in 1 .. Cardinality(groups) |->
                    LET g == At(said, groups)[k] IN <<g, Row(At(s, {i \in all : said[i] = g}))>>]
      begin == IF p = <<>> THEN Digit(s[1]) ELSE Digit(p[1])
      backwards == [i \in all |-> s[n + 1 - i]]
      read == IF p # <<>> THEN s ELSE Tail(s)
      empty == n = 0
      compared == Sorted(s, Nums(s), IF blk.f = "less" THEN 1 ELSE -1)
      answers(b) == One(Truth(b))
  IN
  CASE m \in KeepByBlock -> (IF stops THEN upTo(no, Is(s, Many(kept))) ELSE seenAll(Is(s, Many(kept))))
    [] m \in CutByBlock ->
         seenAll(Is(kept, IF lang = "kotlin" THEN answers(Len(kept) < n)
                          ELSE IF m \in {"select!", "reject!"} /\ Len(kept) = n THEN One(Nil) ELSE Me))
    [] m \in {"each", "onEach"} -> seenAll(Is(s, Me))
    [] m = "forEach" -> seenAll(Is(s, One(Undef)))
    [] m \in {"map", "collect"} -> seenAll(Is(s, Many(said)))
    [] m = "map!" -> seenAll(Is(said, Me))
    [] m = "mapNotNull" -> seenAll(Is(s, Many(At(said, {i \in all : said[i] # Nil}))))
    [] m \in {"flat_map", "flatMap"} -> seenAll(Is(s, Many(spliced)))
    [] m \in {"find", "detect"} -> upTo(yes, Is(s, el(yes, Min(yes \cup {n + 1}))))
    [] m = "findLast" -> downTo(yes, Is(s, el(yes, Max(yes \cup {0}))))
    [] m \in {"find_index", "findIndex", "indexOfFirst"} -> upTo(yes, Is(s, place(yes, Min(yes \cup {n + 1}))))
    [] m \in {"findLastIndex", "indexOfLast"} -> downTo(yes, Is(s, place(yes, Max(yes \cup {0}))))
    [] m \in {"any", "some"} -> upTo(yes, Is(s, answers(yes # {})))
    [] m = "none" -> upTo(yes, Is(s, answers(yes = {})))
    [] m \in {"all", "every"} -> upTo(no, Is(s, answers(no = {})))
    \* Ruby's ask about all elements in any case.
    [] m = "any?" -> seenAll(Is(s, answers(yes # {})))
    [] m = "none?" -> seenAll(Is(s, answers(yes = {})))
    [] m = "all?" -> seenAll(Is(s, answers(no = {})))
    [] m = "one?" -> seenAll(Is(s, answers(Cardinality(yes) = 1)))
    [] m = "count" -> seenAll(Is(s, One(N(Cardinality(yes)))))
    [] m = "partition" -> seenAll(Is(s, Many(<<Row(At(s, yes)), Row(At(s, no))>>)))
    [] m \in {"group_by", "groupBy"} -> seenAll(Is(s, Hash(grouped)))
    [] m \in {"sort_by", "sortedBy"} -> seenAll(Is(s, Many(ordered(1))))
    [] m = "sortedByDescending" -> seenAll(Is(s, Many(ordered(-1))))
    [] m = "sort_by!" -> seenAll(Is(ordered(1), Me))
    [] m = "sortBy" -> seenAll(Is(ordered(1), One(Undef)))
    [] m = "sortByDescending" -> seenAll(Is(ordered(-1), One(Undef)))
    [] m = "min_by" -> seenAll(Is(s, One(IF empty THEN Nil ELSE ordered(1)[1])))
    [] m \in {"max_by", "maxByOrNull"} ->
         seenAll(Is(s, One(IF empty THEN Nil ELSE IF lang = "ruby" THEN ordered(1)[n] ELSE ordered(-1)[1])))
    [] m = "each_with_index" -> seenAll(Is(s, Me))
    [] m = "each_with_object" -> seenAll(Is(s, One(p[1])))
    [] m = "sum" -> IF \E i \in all : ~IsNum(said[i]) THEN Refused(s, "raise") ELSE seenAll(Is(s, One(N(Total(said)))))
    [] m \in {"each_slice", "each_cons"} -> [Is(s, Me) EXCEPT !.seen = Arranged(lang, m, s, p)]
    [] m = "cycle" -> IF p = <<>> /\ ~empty THEN Refused(s, "never")
                      ELSE [Is(s, One(Nil)) EXCEPT !.seen = IF p = <<>> THEN <<>> ELSE [i \in 1 .. n * Num(p[1]) |-> s[((i - 1) % n) + 1]]]
    [] m = "min" -> Is(s, One(IF empty THEN Nil ELSE compared[1]))
    [] m = "max" -> Is(s, One(IF empty THEN Nil ELSE SelectSeq(s, LAMBDA v : Num(v) = Num(compared[n]))[1]))
    [] m = "minmax" -> Is(s, Many(IF empty THEN <<Nil, Nil>> ELSE <<compared[1], compared[n]>>))
    [] m = "first" -> upTo(yes, IF yes = {} THEN Refused(s, "raise") ELSE Is(s, One(s[Min(yes)])))
    [] m = "single" -> IF Cardinality(yes) = 1 THEN seenAll(Is(s, One(s[Min(yes)]))) ELSE Refused(s, "raise")
    [] m = "firstOrNull" -> upTo(yes, Is(s, el(yes, Min(yes \cup {n + 1}))))
    [] m = "maxOf" -> IF empty THEN Refused(s, "raise") ELSE seenAll(Is(s, One(N(Max({Num(said[i]) : i \in all})))))
    [] m = "minOfOrNull" -> seenAll(Is(s, One(IF empty THEN Nil ELSE N(Min({Num(said[i]) : i \in all})))))
    [] m = "associate" -> seenAll(Is(s, More(lang, "toMap", said, <<>>).a))
    [] m = "associateWith" -> seenAll(Is(s, More(lang, "toMap", [i \in all |-> Row(<<s[i], said[i]>>)], <<>>).a))
    [] m = "associateBy" -> seenAll(Is(s, More(lang, "toMap", [i \in all |-> Row(<<said[i], s[i]>>)], <<>>).a))
    [] m = "getOrElse" -> LET i == Num(p[1]) + 1 IN Is(s, One(IF i \in all THEN s[i] ELSE Says(blk.f, p[1])))
    [] m = "ifEmpty" -> Is(s, IF empty THEN One(N(7)) ELSE Me)
    [] m = "scan" -> [Is(s, Many(<<p[1]>> \o [i \in all |-> N(Folded(begin, SubSeq(s, 1, i)))])) EXCEPT !.seen = s]
    [] m = "runningReduce" ->
         [Is(s, Many([i \in all |-> IF i = 1 THEN s[1] ELSE N(Folded(begin, SubSeq(s, 2, i)))])) EXCEPT !.seen = IF empty THEN <<>> ELSE Tail(s)]
    [] m = "minBy" -> IF empty THEN Refused(s, "raise") ELSE seenAll(Is(s, One(ordered(1)[1])))
    [] m = "maxBy" -> IF empty THEN Refused(s, "raise") ELSE seenAll(Is(s, One(ordered(-1)[1])))
    [] m = "sumOf" -> seenAll(Is(s, One(N(FoldLeft(LAMBDA x, v : x + Num(v), 0, said)))))
    [] m \in {"sort", "sortedWith"} /\ lang # "python" -> (IF lang = "js" THEN Is(compared, Me) ELSE Is(s, Many(compared)))
    [] m = "sort!" -> Is(compared, Me)
    [] m = "sortWith" -> Is(compared, One(Undef))
    [] m = "sort" /\ lang = "python" ->
         IF p = <<True>> THEN [Is(ordered(-1), One(Undef)) EXCEPT !.seen = backwards] ELSE seenAll(Is(ordered(1), One(Undef)))
    [] m \in {"reduceRight", "foldRight"} /\ p = <<>> /\ empty -> Refused(s, "raise")
    [] m = "reduceRight" /\ (p # <<>> \/ ~empty) ->
         LET back == IF p # <<>> THEN backwards ELSE Tail(backwards)
             last == IF p # <<>> THEN p[1] ELSE s[n]
         IN  [Is(s, IF back = <<>> THEN One(last) ELSE One(N(Folded(Digit(last), back)))) EXCEPT !.seen = back]
    [] m = "foldRight" /\ p # <<>> ->
         [Is(s, One(N((Digit(p[1]) + 10 * FoldLeft(LAMBDA x, v : x + Digit(v), 0, s)) % 997))) EXCEPT !.seen = backwards]
    [] m \in {"inject", "reduce", "fold"} ->
         IF p = <<>> /\ empty THEN (IF lang = "ruby" THEN Is(s, One(Nil)) ELSE Refused(s, "raise"))
         ELSE [Is(s, IF read = <<>> THEN One(IF p = <<>> THEN s[1] ELSE p[1]) ELSE One(N(Folded(begin, read)))) EXCEPT !.seen = read]

-----------------------------------------------------------------------------
(* Sets, in the order in which their members came.                         *)

SetNames == {"add", "update", "addAll", "remove", "discard", "removeAll", "retainAll", "clear", "|", "union", "plus", "&", "intersect", "-", "minus",
             "subtract", "^", "<=", ">=", "<", ">", "==", "equals", "contains", "containsAll"}
SetMeaning(lang, m, s, p) ==
  LET other == IF m = "union" /\ lang = "python" THEN FlattenSeq([i \in DOMAIN p |-> Cells(p, i)]) ELSE Cells(p, 1)
      member(v, x) == \E i \in DOMAIN x : SameIn(lang, x[i], v)
      onceEach(x) == At(x, {i \in DOMAIN x : \A j \in 1 .. i - 1 : ~SameIn(lang, x[i], x[j])})
      all == onceEach(s \o other)
      both == At(s, {i \in DOMAIN s : member(s[i], other)})
      mine == At(s, {i \in DOMAIN s : ~member(s[i], other)})
      theirs == onceEach(At(other, {i \in DOMAIN other : ~member(other[i], s)}))
      A == {Plain(lang, s[i]) : i \in DOMAIN s}
      O == {Plain(lang, other[i]) : i \in DOMAIN other}
      \* Kotlin's answer whether anything has changed, Python's nothing.
      now(t) == Is(t, One(IF lang = "kotlin" THEN Truth(t # s) ELSE Undef))
      is(b) == Is(s, One(Truth(b)))
  IN
  CASE m \in {"add", "update", "addAll"} -> now(all)
    [] m \in {"remove", "discard", "removeAll"} -> IF m = "remove" /\ lang = "python" /\ both = <<>> THEN Refused(s, "raise") ELSE now(mine)
    [] m = "retainAll" -> now(both)
    [] m = "clear" -> Is(<<>>, One(Undef))
    [] m \in {"|", "union", "plus"} -> Is(s, Many(all))
    [] m \in {"&", "intersect"} -> Is(s, Many(both))
    [] m \in {"-", "minus", "subtract"} -> Is(s, Many(mine))
    [] m = "^" -> Is(s, Many(mine \o theirs))
    [] m = "contains" -> is(O \subseteq A)
    [] m = "containsAll" \/ m = ">=" -> is(O \subseteq A)
    [] m = "<=" -> is(A \subseteq O)
    [] m = ">" -> is(O \subseteq A /\ A # O)
    [] m = "<" -> is(A \subseteq O /\ A # O)
    [] m \in {"==", "equals"} -> is(A = O)

MeantPlain == {"[]"} \cup MoreNames \cup KeepNames \cup CutNames \cup PutNames \cup AskNames \cup ArrangeNames
MeantByBlock == KeepByBlock \cup CutByBlock \cup WalkNames
Meaning(lg, m, s, p, blk) ==
  LET lang == IF lg = "any" THEN "js" ELSE lg
      one == IF m = "first" /\ p = <<>> THEN "first1" ELSE IF m = "last" /\ p = <<>> THEN "last1"
             ELSE IF lang = "ruby" /\ m \in {"[]", "slice"} /\ Len(p) = 1 /\ ~IsRow(p[1]) THEN "at"
             ELSE IF lang = "python" /\ m = "[]" THEN "elementAt" ELSE m
      part == lang = "ruby" /\ m \in {"[]", "slice"} /\ one = m
      few == m \in {"min", "max"} /\ p # <<>>
      arranged == Arranged(lang, m, s, p)
      places == lang = "kotlin" /\ m = "slice"
      inPlace == IF lang \in {"ruby", "js"} THEN Me ELSE One(Undef)
  IN
  CASE Given(blk) -> ByBlock(lang, m, s, p, blk)
    [] part -> Is(s, Part(s, p))
    [] places -> IF \A v \in ToSet(Cells(p, 1)) : Num(v) \in 0 .. Len(s) - 1 THEN Is(s, Many(Arranged(lang, "places", s, p))) ELSE Refused(s, "panic")
    [] few -> Is(s, Many(SubSeq(Sorted(s, Nums(s), IF m = "min" THEN 1 ELSE -1), 1, Within(Num(p[1]), Len(s)))))
    [] ~Given(blk) /\ ~part /\ ~few /\ one \in AskNames -> Asks(lang, one, s, p)
    [] ~Given(blk) /\ ~part /\ ~places /\ one \in KeepNames -> Is(s, Many(At(s, Kept(lang, m, s, p))))
    [] ~Given(blk) /\ m \in MoreNames -> More(lang, m, s, p)
    [] ~Given(blk) /\ m \in CutNames -> Cut(lang, m, s, p)
    [] ~Given(blk) /\ m \in PutNames -> Puts(lang, m, s, p)
    [] ~Given(blk) /\ m \in ArrangeNames ->
         IF m \in {"each_slice", "each_cons", "chunked", "windowed"} /\ (Opt(p, 1, 1) < 1 \/ Opt(p, 2, 1) < 1) THEN Refused(s, "raise")
         ELSE IF m \in {"each_slice", "each_cons"} THEN Is(s, Enum("each", arranged))
         ELSE IF InPlace(lang, m) THEN Is(arranged, inPlace) ELSE Is(s, Many(arranged))

\* An enumerator goes through the elements there were when it was made, whatever has become
\* of the list; without a block, with_index and the list's methods make another.
EnumMeaning(e, m, p, blk) ==
  LET n == Len(e.v)
      said == [i \in 1 .. n |-> Says(blk.f, e.v[i])]
      off == IF m = "with_index" /\ p # <<>> THEN Num(p[1]) ELSE 0
      is(x, a) == [e |-> x, a |-> a, seen |-> <<>>, bad |-> "no"]
      raised == [is(e, Me) EXCEPT !.bad = "raise"]
      finished == CASE e.op \in {"map", "collect"} -> Many(said)
                    [] e.op = "flat_map" -> Many(FlattenSeq([i \in 1 .. n |-> Cells(said, i)]))
                    [] e.op \in {"select", "filter", "reject"} -> Many(At(e.v, KeptByBlock(e.op, {i \in 1 .. n : Hit("ruby", said[i])}, said)))
                    [] OTHER -> e
      asList(w) == [e |-> e, a |-> w.a, seen |-> w.seen, bad |-> w.bad]
  IN
  CASE m = "next" -> IF e.pos = n THEN raised ELSE is([e EXCEPT !.pos = @ + 1], One(e.v[e.pos + 1]))
    [] m = "peek" -> IF e.pos = n THEN raised ELSE is(e, One(e.v[e.pos + 1]))
    [] m = "rewind" -> is([e EXCEPT !.pos = 0], Me)
    [] m \in {"each", "with_index", "each_with_index"} /\ Given(blk) -> [is(e, finished) EXCEPT !.seen = e.v]
    [] m = "each" /\ ~Given(blk) -> is(e, e)
    [] m \in {"with_index", "each_with_index"} /\ ~Given(blk) ->
         is(e, Enum("each", [i \in 1 .. n |-> Row(<<e.v[i], N(i - 1 + off)>>)]))
    [] m \in {"with_object", "each_with_object"} -> [is(e, One(p[1])) EXCEPT !.seen = e.v]
    [] OTHER -> asList(Meaning("ruby", m, e.v, p, blk))

-----------------------------------------------------------------------------
(***************************************************************************)
(* What the methods of a dictionary are for: a dictionary is a sequence of *)
(* entries, in the order in which their keys came, of which no two have    *)
(* equal keys.  No index, no search, no second array.                      *)
(***************************************************************************)
Entries(rows, k, lang) == {i \in DOMAIN rows : MemberIn(lang, rows[i][1], k)}
KeysOf(rows) == [i \in DOMAIN rows |-> rows[i][1]]
ValsOf(rows) == [i \in DOMAIN rows |-> rows[i][2]]
AsRow(row) == Row(row)
Pairs(v) == [i \in 1 .. (Len(v) - 1) \div 2 |-> <<v[2 * i], v[2 * i + 1]>>]

\* Entries put one after the other: a key stays where it first came, its value is the last.
Latest(lang, rows) ==
  LET first == {i \in DOMAIN rows : \A j \in 1 .. i - 1 : ~MemberIn(lang, rows[i][1], rows[j][1])}
      kept == At(rows, first)
  IN  [i \in DOMAIN kept |-> <<kept[i][1], rows[Max(Entries(rows, kept[i][1], lang))][2]>>]
\* The same where a key of both has its two values put together.
Together(lang, rows, more) ==
  LET all == Latest(lang, rows \o more)
      old(k) == rows[Min(Entries(rows, k, lang))][2]
      common(k) == Entries(rows, k, lang) # {} /\ Entries(more, k, lang) # {}
  IN  [i \in DOMAIN all |-> IF common(all[i][1]) THEN <<all[i][1], N(Folded(Digit(old(all[i][1])), <<all[i][2]>>))>> ELSE all[i]]

\* The entry of key p[1]: found, or what a missing one is answered with.
FindNames == {"[]", "get", "getValue", "fetch", "getOrDefault", "getOrElse", "getOrPut", "setdefault"}
Found(lang, m, rows, other, p) ==
  LET here == Entries(rows, p[1], lang)
      stored(v) == Is(Append(rows, <<p[1], v>>), One(v))
      else == IF Len(p) > 1 THEN p[2] ELSE Undef
  IN
  CASE here # {} -> Is(rows, One(rows[Min(here)][2]))
    [] here = {} /\ m \in {"getValue"} -> Refused(rows, "raise")
    [] here = {} /\ m = "fetch" -> IF Len(p) > 1 THEN Is(rows, One(else)) ELSE Refused(rows, "raise")
    [] here = {} /\ m = "[]" /\ lang = "python" -> Refused(rows, "raise")
    [] here = {} /\ m = "[]" /\ lang = "ruby" ->
         IF other = True THEN stored(N(7)) ELSE Is(rows, One(IF other = Undef THEN Nil ELSE other))
    [] here = {} /\ m = "get" -> Is(rows, One(IF lang = "kotlin" THEN Nil ELSE else))
    [] here = {} /\ m = "getOrDefault" -> Is(rows, One(else))
    [] here = {} /\ m = "getOrElse" -> Is(rows, One(N(7)))
    [] here = {} /\ m = "getOrPut" -> stored(N(7))
    [] here = {} /\ m = "setdefault" -> stored(else)

DictChangeNames == {"[]=", "put", "delete", "remove", "pop", "popitem", "clear", "merge!", "update", "putAll"}
DictChanged(lang, m, rows, p, blk) ==
  LET here == IF p = <<>> THEN {} ELSE Entries(rows, p[1], lang)
      old == IF here = {} THEN Nil ELSE rows[Min(here)][2]
      without == At(rows, DOMAIN rows \ here)
  IN
  CASE m \in {"[]=", "put"} ->
         Is(Latest(lang, Append(rows, p)), One(CASE lang = "ruby" -> p[2] [] lang = "python" -> Undef [] lang = "kotlin" -> old))
    [] m \in {"delete", "remove"} -> Is(without, One(old))
    [] m = "pop" -> IF here # {} THEN Is(without, One(old)) ELSE IF Len(p) > 1 THEN Is(rows, One(p[2])) ELSE Refused(rows, "raise")
    [] m = "popitem" -> IF rows = <<>> THEN Refused(rows, "raise") ELSE Is(Front(rows), Many(Last(rows)))
    [] m = "clear" -> Is(<<>>, IF lang = "ruby" THEN Me ELSE One(Undef))
    [] m = "merge!" -> Is(IF Given(blk) THEN Together(lang, rows, Pairs(p[1])) ELSE Latest(lang, rows \o Pairs(p[1])), Me)
    [] m = "update" -> Is(Latest(lang, rows \o Pairs(p[1])), One(Undef))
    [] m = "putAll" -> Is(Latest(lang, rows \o Pairs(p[1])), Me)

DictAskNames == {"size", "length", "keys", "values", "to_a", "items", "entries", "toList", "key?", "include?", "in", "containsKey", "containsValue",
                 "isEmpty", "isNotEmpty", "key", "values_at", "dup", "copy", "toMap", "merge", "plus", "minus", "invert", "fromkeys"}
DictAsks(lang, m, rows, other, p, blk) ==
  LET is(b) == One(Truth(b))
      with == {i \in DOMAIN rows : p # <<>> /\ SameIn(lang, rows[i][2], p[1])}
      gone == IF p = <<>> THEN <<>> ELSE Cells(p, 1)
  IN
  CASE m \in {"size", "length"} -> One(N(Len(rows)))
    [] m = "keys" -> Many(KeysOf(rows))
    [] m = "values" -> Many(ValsOf(rows))
    [] m \in {"to_a", "items", "entries", "toList"} -> Many([i \in DOMAIN rows |-> AsRow(rows[i])])
    [] m \in {"key?", "include?", "in", "containsKey"} -> is(Entries(rows, p[1], lang) # {})
    [] m = "containsValue" -> is(with # {})
    [] m = "isEmpty" -> is(rows = <<>>)
    [] m = "isNotEmpty" -> is(rows # <<>>)
    [] m = "key" -> One(IF with = {} THEN Nil ELSE rows[Min(with)][1])
    [] m \in {"dup", "copy", "toMap"} -> Hash(rows)
    [] m = "merge" /\ Given(blk) -> Hash(Together(lang, rows, Pairs(p[1])))
    [] m \in {"merge", "plus"} /\ ~Given(blk) -> Hash(Latest(lang, rows \o Pairs(p[1])))
    [] m = "minus" -> Hash(At(rows, {i \in DOMAIN rows : \A k \in ToSet(gone) : ~MemberIn(lang, rows[i][1], k)}))
    [] m = "invert" -> Hash(Latest(lang, [i \in DOMAIN rows |-> <<rows[i][2], rows[i][1]>>]))
    [] m = "fromkeys" -> Hash(Latest(lang, [i \in DOMAIN gone |-> <<gone[i], IF Len(p) > 1 THEN p[2] ELSE Undef>>]))
    [] m = "values_at" ->
         Many([j \in DOMAIN p |-> LET here == Entries(rows, p[j], lang)
                                  IN  IF here # {} THEN rows[Min(here)][2] ELSE IF other = Undef THEN Nil ELSE other])

\* With a block that leaves the dictionary alone, which is asked about each entry.
DictBlockNames == {"each", "each_pair", "each_key", "each_value", "select", "reject", "filter", "filterNot", "filterKeys", "filterValues", "mapValues",
                   "mapKeys", "transform_values", "transform_keys", "select!", "reject!", "keep_if", "delete_if"}
DictByBlock(lang, m, rows, blk) ==
  LET asked(i) == CASE m \in {"each_key", "filterKeys", "transform_keys"} -> rows[i][1]
                    [] m \in {"each_value", "filterValues", "transform_values"} -> rows[i][2]
                    [] OTHER -> AsRow(rows[i])
      said == [i \in DOMAIN rows |-> Says(blk.f, asked(i))]
      yes == {i \in DOMAIN rows : Hit(lang, said[i])}
      kept == At(rows, IF m \in {"reject", "filterNot", "reject!", "delete_if"} THEN DOMAIN rows \ yes ELSE yes)
      seen == CASE m \in {"transform_values", "transform_keys"} -> <<>>
                [] m \in {"each_key", "each_value"} -> [i \in DOMAIN rows |-> asked(i)]
                [] OTHER -> [i \in DOMAIN rows |-> AsRow(rows[i])]
      is(t, a) == [Is(t, a) EXCEPT !.seen = seen]
  IN
  CASE m \in {"each", "each_pair", "each_key", "each_value"} -> is(rows, Me)
    [] m \in {"select", "reject", "filter", "filterNot", "filterKeys", "filterValues"} -> is(rows, Hash(kept))
    [] m \in {"select!", "reject!", "keep_if", "delete_if"} -> is(kept, Me)
    [] m \in {"mapValues", "transform_values"} -> is(rows, Hash([i \in DOMAIN rows |-> <<rows[i][1], said[i]>>]))
    [] m \in {"mapKeys", "transform_keys"} -> is(rows, Hash(Latest(lang, [i \in DOMAIN rows |-> <<said[i], rows[i][2]>>])))

DictMeaningOf(lang, m, rows, other, p, blk) ==
  CASE m \in DictAskNames -> Is(rows, DictAsks(lang, m, rows, other, p, blk))
    [] m \in FindNames -> Found(lang, m, rows, other, p)
    [] m \in DictChangeNames -> DictChanged(lang, m, rows, p, blk)
    [] m \in DictBlockNames /\ Given(blk) -> DictByBlock(lang, m, rows, blk)
    \* Everything else, a list of the entries answers.
    [] OTHER -> [Meaning(lang, m, [i \in DOMAIN rows |-> AsRow(rows[i])], p, blk) EXCEPT !.t = rows]
=============================================================================
