------------------------------ MODULE LibraryCalls ------------------------------
(***************************************************************************)
(* Small lists, every method of each language on them with the arguments   *)
(* that matter to it, and blocks that answer in different ways and change  *)
(* the list they are called from.                                          *)
(***************************************************************************)
EXTENDS Lists

One12 == Row(<<N(1), N(2)>>)
Vals == {N(1), N(2), Nil}
Ints(set) == {<<N(i)>> : i \in set}
Pairs(set) == {<<N(i), N(j)>> : i \in set, j \in set}
Call(ms, ps) == {[m |-> m, p |-> p, blk |-> NoBlock] : m \in ms, p \in ps}
Blk(f, at, ch) == [f |-> f, at |-> at, m |-> ch[1], args |-> ch[2]]
\* Blocks that change nothing, and ones that do at their first or second call.
Walks(ms, ps, fs, changes) ==
  {[m |-> m, p |-> p, blk |-> b] : m \in ms, p \in ps,
     b \in {Blk(f, 0, <<"", <<>>>>) : f \in fs} \cup {Blk(f, at, ch) : f \in fs, at \in {1, 2}, ch \in changes}}
None0 == {<<>>}
Items == {<<N(1)>>, <<Flo>>, <<Nil>>, <<One12>>}
RowsOf == {<<Row(<<>>)>>, <<Row(<<N(1), N(3)>>)>>, <<Row(<<N(2), N(2), Flo>>)>>}

-----------------------------------------------------------------------------
RubyChanges == Call({"push"}, {<<N(3)>>}) \cup Call({"pop", "shift"}, None0) \cup Call({"delete_at"}, Ints({0}))
               \cup Call({"each", "map", "select"}, None0) \cup Call({"each_slice"}, Ints({2}))
RubyBlocks == {<<"push", <<N(3)>>>>, <<"pop", <<>>>>, <<"shift", <<>>>>, <<"pop, push", <<N(3)>>>>, <<"[]=", <<N(2), N(4)>>>>}
RubyPlain ==
  Call({"pop", "shift", "clear", "compact", "compact!", "uniq", "uniq!", "first", "last", "size", "empty?", "count", "reverse", "reverse!",
        "to_a", "dup", "flatten", "rotate", "min", "max", "minmax", "sort", "sort!", "tally", "each_with_index", "each", "map", "select", "cycle", "sum"}, None0)
  \cup Call({"pop", "shift", "delete_at", "take", "drop", "first", "last", "rotate", "each_slice", "each_cons", "combination", "permutation", "cycle", "values_at", "[]"},
            Ints({0, 1, 2, 4}))
  \cup Call({"delete_at", "[]", "slice", "values_at"}, Ints({-1, -4}))
  \cup Call({"push", "unshift", "delete", "include?", "index", "rindex", "count", "fill"}, Items)
  \cup Call({"[]", "slice"}, {<<N(i), N(k)>> : i \in {-2, 0, 1, 3}, k \in {0, 1, 3}} \cup RowsOf)
  \cup Call({"insert", "[]="}, {<<N(i), N(9)>> : i \in {-2, 0, 2, 4, -5}})
  \cup Call({"[]="}, {<<N(i), N(k), v>> : i \in {-2, 0, 2, 4}, k \in {0, 1, 3}, v \in {N(9), One12}} \cup {<<r, N(9)>> : r \in {Row(<<N(0), N(1)>>)}})
  \cup Call({"&", "|", "-", "concat", "zip", "product", "assoc"}, RowsOf)
RubyEnumChanges == Call({"next", "peek", "rewind"}, None0)
RubyEnum ==
  RubyEnumChanges \cup Call({"to_a", "size", "each", "with_index", "first", "count", "reverse"}, None0) \cup Call({"with_index", "take", "include?"}, Ints({1, 2}))
  \cup Walks({"each", "with_index", "each_with_index", "map", "select", "find"}, None0, {"is2", "half"}, {}) \cup Walks({"with_object"}, Ints({5}), {"self"}, {})
RubyWalks ==
  Walks({"each", "map", "select", "reject", "find", "find_index", "count", "partition", "flat_map", "take_while", "drop_while", "all?", "any?", "none?",
         "one?", "group_by", "sum", "select!", "reject!", "keep_if", "delete_if", "map!", "sort_by", "sort_by!", "min_by", "max_by", "inject", "cycle"},
        None0, {"is2", "not2", "half"}, RubyBlocks)
  \cup Walks({"inject", "cycle", "each_slice", "each_cons", "each_with_index", "each_with_object"}, Ints({1, 2}), {"self"}, RubyBlocks)
  \cup Walks({"flat_map", "map"}, None0, {"pair", "nil"}, {})
  \cup Walks({"sort", "sort!", "min", "max", "minmax"}, None0, {"less", "more"}, {})

-----------------------------------------------------------------------------
JsChanges == Call({"push"}, {<<N(3)>>}) \cup Call({"pop", "shift"}, None0) \cup Call({"splice"}, {<<N(0), N(1)>>})
JsBlocks == {<<"push", <<N(3)>>>>, <<"pop", <<>>>>, <<"shift", <<>>>>, <<"splice", <<N(0), N(1), N(4)>>>>}
JsPlain ==
  Call({"pop", "shift", "reverse", "slice", "concat", "join", "splice", "sort", "flat", "at"}, None0)
  \cup Call({"at", "slice", "splice", "flat"}, Ints({-4, -1, 0, 1, 2, 4}))
  \cup Call({"push", "unshift", "indexOf", "lastIndexOf", "includes"}, Items)
  \cup Call({"slice", "splice"}, {<<N(i), N(k)>> : i \in {-2, 0, 1, 3}, k \in {-1, 0, 1, 3}})
  \cup Call({"splice"}, {<<N(i), N(1), N(8), N(9)>> : i \in {-1, 0, 1, 5}})
  \cup Call({"indexOf"}, {<<N(2), N(i)>> : i \in {-1, 1, 3}}) \cup Call({"fill"}, {<<N(9), N(i), N(k)>> : i \in {-2, 0, 1}, k \in {-1, 1, 3}})
  \cup Call({"concat"}, RowsOf)
JsWalks ==
  Walks({"forEach", "map", "filter", "some", "every", "find", "findIndex", "findLast", "findLastIndex", "flatMap", "reduce", "reduceRight"},
        None0, {"is2", "not2", "half"}, JsBlocks)
  \cup Walks({"reduce", "reduceRight"}, Ints({1}), {"self"}, JsBlocks)
  \cup Walks({"flatMap", "map"}, None0, {"pair", "nil"}, {}) \cup Walks({"sort"}, None0, {"less", "more"}, {})
AnyPlain == Call({"pop", "reverse", "slice", "join"}, None0) \cup Call({"push", "indexOf"}, Items) \cup Call({"slice"}, Pairs({-2, 0, 1, 3}))

-----------------------------------------------------------------------------
PyChanges == Call({"append"}, {<<N(3)>>}) \cup Call({"pop"}, None0 \cup Ints({0})) \cup Call({"insert"}, {<<N(0), N(4)>>})
PyBlocks == {<<"append", <<N(3)>>>>, <<"pop", <<>>>>, <<"insert", <<N(0), N(4)>>>>}
Steps == {<<lo, hi, st>> : lo \in {Nil, N(-2), N(0), N(3)}, hi \in {Nil, N(-1), N(1), N(3)}, st \in {Nil, N(2), N(-1), N(-2)}}
PyPlain ==
  Call({"pop", "clear", "reverse", "copy", "sort"}, None0) \cup Call({"append", "count", "index", "remove"}, Items)
  \cup Call({"pop", "[]"}, Ints({-4, -1, 0, 2, 4})) \cup Call({"insert", "[]="}, {<<N(i), N(9)>> : i \in {-5, -1, 0, 2, 4}})
  \cup Call({"extend"}, RowsOf) \cup Call({"index"}, {<<N(2), N(i), N(k)>> : i \in {-1, 0, 1}, k \in {1, 3}})
  \cup Call({"[:]"}, {<<lo, hi>> : lo \in {Undef, N(-2), N(0), N(4)}, hi \in {Undef, N(-1), N(1), N(4)}})
  \cup Call({"[::]", "del"}, Steps)
  \cup Call({"[::]="}, {s \o <<r>> : s \in Steps, r \in {Row(<<>>), Row(<<N(8)>>), Row(<<N(8), N(9)>>)}})
PyWalks == Walks({"sort"}, {<<False>>, <<True>>}, {"back", "half"}, PyBlocks) \cup Call({"sort"}, {<<True>>})
PySet ==
  Call({"add", "remove", "discard", "in"} \ {"in"}, Items \ {<<One12>>}) \cup Call({"pop", "clear", "copy"}, None0)
  \cup Call({"union", "update", "|", "&", "-", "^", "<=", ">=", "<", ">", "=="}, (RowsOf \ {<<Row(<<N(2), N(2), Flo>>)>>}) \cup {<<Row(<<Flo, N(2)>>)>>})

-----------------------------------------------------------------------------
KtChanges == Call({"add"}, {<<N(3)>>}) \cup Call({"removeLast", "removeFirst"}, None0) \cup Call({"set"}, {<<N(0), N(4)>>})
KtBlocks == {<<"add", <<N(3)>>>>, <<"removeLast", <<>>>>, <<"removeAt", <<N(0)>>>>, <<"set", <<N(1), N(4)>>>>, <<"clear", <<>>>>}
KtPlain ==
  Call({"isEmpty", "isNotEmpty", "none", "count", "first", "last", "single", "firstOrNull", "lastOrNull", "maxOrNull", "minOrNull", "max", "min", "sum",
        "hashCode", "toList", "distinct", "toSet", "toSortedSet", "reversed", "sorted", "sortedDescending", "filterNotNull", "requireNoNulls",
        "flatten", "zipWithNext", "withIndex", "toMap", "sort", "sortDescending", "reverse", "clear", "removeFirst", "removeLast"}, None0)
  \cup Call({"take", "drop", "takeLast", "dropLast", "elementAt", "elementAtOrNull", "chunked", "windowed", "removeAt"}, Ints({-1, 0, 1, 2, 4}))
  \cup Call({"windowed"}, {<<N(i), N(k), b>> : i \in {1, 2}, k \in {0, 1, 2}, b \in {True, False}})
  \cup Call({"contains", "indexOf", "lastIndexOf", "remove", "add"}, Items \ {<<Flo>>})
  \cup Call({"subList"}, Pairs({0, 1, 3})) \cup Call({"add", "set"}, {<<N(i), N(9)>> : i \in {-1, 0, 1, 3, 4}})
  \cup Call({"containsAll", "contentEquals", "plus", "minus", "intersect", "subtract", "union", "zip", "slice", "addAll", "removeAll", "retainAll"},
            {<<Row(s)>> : s \in {<<>>, <<N(1), N(0)>>, <<N(2), N(2), N(4)>>}})
KtWalks ==
  Walks({"forEach", "onEach", "map", "mapNotNull", "filter", "filterNot", "partition", "count", "sumOf", "single", "first", "find", "firstOrNull", "findLast",
         "indexOfFirst", "indexOfLast", "any", "none", "all", "takeWhile", "dropWhile", "distinctBy", "maxOf", "minOfOrNull", "groupBy", "associateWith",
         "associateBy", "sortedBy", "sortedByDescending", "sortBy", "sortByDescending", "maxByOrNull", "minBy", "maxBy", "removeAll", "retainAll",
         "reduce", "runningReduce", "ifEmpty", "mapIndexed", "forEachIndexed", "filterIndexed", "filterNotIndexed", "onEach", "maxOfOrNull"},
        None0, {"is2", "not2", "half"}, KtBlocks)
  \cup Walks({"fold", "foldRight", "scan", "getOrElse"}, Ints({1}), {"self"}, KtBlocks)
  \cup Walks({"map", "mapNotNull", "flatMap", "associate"}, None0, {"pair"}, {}) \cup Walks({"mapNotNull"}, None0, {"nil"}, {})
  \cup Walks({"sortedWith", "sortWith"}, None0, {"less", "more"}, {})
KtSet ==
  Call({"add", "remove", "contains"}, Items \ {<<Flo>>, <<One12>>}) \cup Call({"clear", "hashCode", "toSet", "sorted", "first"}, None0)
  \cup Call({"addAll", "removeAll", "retainAll", "containsAll", "equals", "plus", "minus", "intersect", "subtract", "union"},
            {<<Row(s)>> : s \in {<<>>, <<N(1), N(3)>>, <<N(2), N(2), N(4)>>, <<N(2), N(1)>>}})

-----------------------------------------------------------------------------
\* Dictionaries: the keys are equal or not as the language has it.
KeysIn(lg) == CASE lg = "ruby" -> {N(1), Flo, One12} [] lg = "python" -> {N(1), True, Flo, N(2)} [] lg = "kotlin" -> {N(1), N(2), One12}
MCKeys == {N(0), N(1), N(2), Nil, True, Flo, One12}
Keyed(lg) == {<<k>> : k \in KeysIn(lg)}
Entry(lg) == {<<k, v>> : k \in KeysIn(lg), v \in {N(3), N(4)}}
Several == {<<Row(<<>>)>>, <<Row(<<N(2), N(5), N(1), N(6)>>)>>, <<Row(<<N(1), N(8), N(1), N(9)>>)>>}
OneEach == {<<Row(<<>>)>>, <<Row(<<N(2), N(5), N(1), N(6)>>)>>}
DictChanges(lg) ==
  CASE lg = "ruby" -> Call({"[]="}, {<<k, N(3)>> : k \in KeysIn(lg)}) \cup Call({"delete", "key?"}, Keyed(lg))
                      \cup Call({"merge!"}, {<<Row(<<N(2), N(5), N(1), N(6)>>)>>}) \cup Walks({"select!", "reject!"}, None0, {"is2"}, {})
    [] lg = "python" -> Call({"[]="}, {<<k, N(3)>> : k \in KeysIn(lg)}) \cup Call({"pop", "in"}, Keyed(lg)) \cup Call({"popitem", "clear"}, None0)
    [] lg = "kotlin" -> Call({"put"}, {<<k, N(3)>> : k \in KeysIn(lg)}) \cup Call({"remove"}, Keyed(lg)) \cup Call({"clear"}, None0)
RubyDictBlocks == {<<"[]=", <<N(2), N(9)>>>>, <<"[]=", <<N(1), N(9)>>>>, <<"delete", <<N(1)>>>>, <<"clear", <<>>>>}
RubyDict ==
  DictChanges("ruby") \cup Call({"size", "keys", "values", "to_a", "clear", "dup", "invert"}, None0)
  \cup Call({"[]", "fetch", "delete", "key?"}, Keyed("ruby") \cup {<<Nil>>}) \cup Call({"[]=", "fetch"}, Entry("ruby"))
  \cup Call({"key"}, {<<N(3)>>, <<N(4)>>}) \cup Call({"values_at"}, {<<N(1), Flo, N(2)>>}) \cup Call({"merge", "merge!"}, OneEach)
  \cup {[c EXCEPT !.blk = Blk("is2", 0, <<"", <<>>>>)] : c \in Call({"merge", "merge!"}, OneEach)}
  \cup Walks({"each", "each_pair", "each_key", "each_value", "select", "reject", "select!", "reject!", "keep_if", "delete_if", "map", "find", "count",
               "partition", "group_by", "any?", "all?", "none?", "flat_map"}, None0, {"is2", "not2"}, RubyDictBlocks)
  \cup Walks({"transform_values", "transform_keys"}, None0, {"is2", "half"}, {}) \cup Walks({"sort_by", "min_by"}, None0, {"half", "back"}, {})
PyDict ==
  DictChanges("python") \cup Call({"keys", "values", "items", "copy", "clear", "popitem"}, None0)
  \cup Call({"[]", "in", "get", "pop", "setdefault"}, Keyed("python") \cup {<<N(0)>>, <<False>>})
  \cup Call({"get", "pop", "setdefault", "[]="}, Entry("python")) \cup Call({"update"}, Several \cup {<<Row(<<True, N(9), Flo, N(8)>>)>>})
  \cup Call({"fromkeys"}, {<<Row(<<N(1), True, N(2)>>), N(5)>>, <<Row(<<>>)>>})
KtDictBlocks == {<<"put", <<N(2), N(9)>>>>, <<"put", <<N(1), N(9)>>>>, <<"remove", <<N(1)>>>>, <<"clear", <<>>>>}
KtDict ==
  DictChanges("kotlin") \cup Call({"isEmpty", "isNotEmpty", "size", "keys", "values", "entries", "toList", "toMap"}, None0)
  \cup Call({"get", "getValue", "remove", "containsKey"}, Keyed("kotlin") \cup {<<Nil>>}) \cup Call({"getOrDefault", "put"}, Entry("kotlin"))
  \cup Call({"containsValue"}, {<<N(3)>>, <<N(4)>>}) \cup Call({"plus", "putAll"}, Several) \cup Call({"minus"}, {<<Row(<<>>)>>, <<Row(<<N(1), N(2)>>)>>})
  \cup Walks({"filterKeys", "filterValues", "filter", "filterNot", "mapValues", "mapKeys", "map", "count", "any", "all", "none", "forEach"},
              None0, {"is2", "not2"}, KtDictBlocks)
  \cup Walks({"getOrElse", "getOrPut"}, Keyed("kotlin"), {"self"}, KtDictBlocks) \cup Walks({"sortedBy", "minBy", "maxBy"}, None0, {"half", "back"}, {})

-----------------------------------------------------------------------------
Numeric(v) == \A i \in 1 .. v.n : IsNum(v.c[i])
Nested(v) == \A i \in 1 .. v.n : IsRow(v.c[i])
Sums == {"sum", "min", "max", "minmax", "sort", "sort!", "inject", "sorted", "sortedDescending", "sortDescending", "toSortedSet", "sum", "sumOf",
         "maxOrNull", "minOrNull", "hashCode", "reduce", "reduceRight", "sortedWith", "sortWith", "[::]="}
Orders == {"sort_by", "sort_by!", "min_by", "max_by", "sortedBy", "sortedByDescending", "sortBy", "sortByDescending", "maxByOrNull", "minBy", "maxBy",
           "maxOf", "minOfOrNull", "sumOf"}
\* Sums and orders of numbers only.
Sensible(lg, c, v) ==
  /\ c.m \in Sums => Numeric(v)
  /\ c.m \in Orders => c.blk.f \notin {"is2", "not2"}
  /\ c.m \in {"flatten", "toMap"} /\ lg = "kotlin" => Nested(v)
Every(lg, kind) ==
  IF kind = "enum" THEN RubyEnum ELSE
  IF kind = "dict" THEN (CASE lg = "ruby" -> RubyDict [] lg = "python" -> PyDict [] lg = "kotlin" -> KtDict) ELSE
  CASE lg = "ruby" -> RubyPlain \cup RubyWalks
    [] lg = "js" -> JsPlain \cup JsWalks
    [] lg = "any" -> AnyPlain
    [] lg = "python" /\ kind = "list" -> PyPlain \cup PyWalks
    [] lg = "python" /\ kind = "set" -> PySet
    [] lg = "kotlin" /\ kind = "list" -> KtPlain \cup KtWalks
    [] lg = "kotlin" /\ kind = "set" -> KtSet
Changing(lg, kind) ==
  IF kind = "enum" THEN RubyEnumChanges ELSE
  IF kind = "dict" THEN DictChanges(lg) ELSE
  CASE lg = "ruby" -> RubyChanges [] lg = "js" -> JsChanges [] lg = "python" /\ kind = "list" -> PyChanges [] lg = "kotlin" /\ kind = "list" -> KtChanges
    [] kind = "set" -> Call({"add"}, {<<N(3)>>}) \cup Call({"remove"}, {<<N(1)>>})
MCMethodCalls(lg, kind, v, n) ==
  IF n = 0 THEN {} ELSE IF n > 1 THEN Changing(lg, kind) ELSE IF kind = "enum" THEN RubyEnum ELSE IF kind = "dict" THEN {c \in Every(lg, kind) : c.m = "values_at" => v.other # True} ELSE {c \in Every(lg, kind) : Sensible(lg, c, v)}

Lists1 == {<<>>, <<N(1)>>, <<N(2), N(1)>>, <<N(2), N(1), N(2)>>, <<N(1), N(2), N(3)>>}
Mixed == {<<N(1), Flo, N(2)>>, <<N(1), Nil, N(2)>>, <<One12, N(2), One12>>}
Programs(lg, kind, ls, ns) == {[lang |-> lg, on |-> kind, val |-> List(s), left |-> n] : s \in ls, n \in ns}
MCBeginnings ==
  Programs("ruby", "list", Lists1 \cup Mixed, {1, 2}) \cup Programs("js", "list", Lists1 \cup Mixed \cup {<<N(1), Undef, N(2)>>}, {1, 2})
  \cup Programs("any", "list", Lists1, {1}) \cup Programs("python", "list", Lists1 \cup Mixed \cup {<<True, N(2), N(1)>>}, {1, 2})
  \cup Programs("python", "set", {<<>>, <<N(2), N(1)>>, <<True, N(2)>>}, {1, 2})
  \cup Programs("kotlin", "list", Lists1 \cup {<<N(1), Nil, N(2)>>, <<One12, One12>>}, {1, 2})
  \cup Programs("kotlin", "set", {<<>>, <<N(2), N(1)>>, <<N(1), N(2), N(3)>>}, {1, 2})
  \cup {[lang |-> lg, on |-> "dict", val |-> d, left |-> n] : lg \in {"ruby", "python", "kotlin"}, n \in {1, 2, 3},
        d \in {NoDict, Dict(<<N(1), N(2)>>, <<N(3), N(4)>>)}}
  \cup {[lang |-> "ruby", on |-> "dict", val |-> [Dict(<<N(1)>>, <<N(3)>>) EXCEPT !.other = o], left |-> 1] : o \in {N(5), True}}
  \cup {[lang |-> "ruby", on |-> "enum", val |-> Enum(op, s), left |-> 4] :
        op \in {"each", "map", "select", "reject", "flat_map"}, s \in {<<>>, <<N(1)>>, <<N(1), N(2)>>}}
=============================================================================
