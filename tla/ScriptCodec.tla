---------------------------- MODULE ScriptCodec ----------------------------
(***************************************************************************)
(* The two forms in which the frozen script cache keeps a module           *)
(* (abnf/scriptcodec.go; LLVM assembly for what that codec does not know). *)
(*                                                                         *)
(* A module has globals, functions and, for each function, a body: a list  *)
(* of blocks.  Types, constants, instructions and terminators are nodes,   *)
(* an `op' with its arguments; a format names the fields an op is written  *)
(* with.  A list field holds tuples.  An operand is a constant or names a  *)
(* global, a function, a block, or a local by <<block, instruction>>,      *)
(* <<0, n>> being parameter n.  A written number, string or byte is one    *)
(* token of the entry.                                                     *)
(***************************************************************************)
EXTENDS Integers, SequencesExt, TLC

\* TLC compares nothing of different kinds.
Same(x, y) == ToString(x) = ToString(y)

Magic == "MECIR"

Binary == {"add", "sub", "mul", "udiv", "sdiv", "urem", "srem", "and", "or", "xor", "shl", "lshr", "ashr"}
Cast == {"zext", "sext", "trunc", "inttoptr", "ptrtoint", "bitcast"}

\* What an element of each kind of list consists of.
Lists ==
  [types |-> <<"type">>, consts |-> <<"const">>, init |-> <<"const">>,
   vals |-> <<"val">>, opt |-> <<"val">>, pairs |-> <<"val", "block">>,
   params |-> <<"str", "num", "type">>, insts |-> <<"inst">>,
   blocks |-> <<"str", "num", "insts", "term">>,
   globals |-> <<"str", "type", "init">>, funcs |-> <<"str", "type", "num", "params">>]

-----------------------------------------------------------------------------
(* Encoding.                                                               *)

WritesType ==
  [void |-> <<>>, label |-> <<>>, int |-> <<"num">>, pointer |-> <<"type">>,
   array |-> <<"num", "type">>, struct |-> <<"str", "num", "types">>,
   func |-> <<"num", "type", "types">>]

WritesConst ==
  [int |-> <<"type", "num", "num">>, null |-> <<"type">>, zero |-> <<"type">>,
   chars |-> <<"type", "num">>, array |-> <<"type", "consts">>, struct |-> <<"type", "consts">>,
   global |-> <<"num">>, index |-> <<"const">>, gep |-> <<"type", "const", "consts">>]

WritesInst ==
  [alloca |-> <<"str", "num", "type", "opt">>, load |-> <<"str", "num", "type", "val">>,
   store |-> <<"val", "val">>, gep |-> <<"str", "num", "type", "val", "vals">>,
   icmp |-> <<"str", "num", "num", "val", "val">>,
   select |-> <<"str", "num", "val", "val", "val">>, phi |-> <<"str", "num", "type", "pairs">>,
   call |-> <<"str", "num", "func", "vals">>]
  @@ [op \in Binary |-> <<"str", "num", "val", "val">>]
  @@ [op \in Cast |-> <<"str", "num", "val", "type">>]

WritesTerm ==
  [br |-> <<"block">>, condbr |-> <<"val", "block", "block">>, ret |-> <<"opt">>,
   unreachable |-> <<>>]

\* The places of the values of a body: the parameters, then the instructions
\* of the blocks in order; a store takes a slot but is no value.
Slots(nparams, blocks) ==
  [n \in 1 .. nparams |-> <<0, n>>]
  \o FlattenSeq([b \in DOMAIN blocks |->
       [i \in DOMAIN blocks[b][3] |-> IF blocks[b][3][i][1].op = "store" THEN <<>> ELSE <<b, i>>]])

Encoder == [buf |-> <<>>, strs |-> <<>>, types |-> <<>>, tys |-> <<>>, slots |-> <<>>, ok |-> TRUE]
Place(s, x) == SelectInSeq(s, LAMBDA y : Same(y, x))
Put(e, x) == [e EXCEPT !.buf = Append(@, x)]

\* str: a string is written once and then by its index.
Str(e, s) ==
  IF Contains(e.strs, s) THEN Put(e, Place(e.strs, s) - 1)
  ELSE Put([e EXCEPT !.strs = Append(@, s)], Len(e.strs))

RECURSIVE Write(_, _, _), WriteAll(_, _, _), WriteList(_, _, _), WriteNode(_, _, _), Typ(_, _)

\* The fields of a tuple, the tuples of a list, up to the first error.
WriteAll(e, fields, xs) ==
  IF ~e.ok \/ fields = <<>> THEN e
  ELSE WriteAll(Write(e, Head(fields), Head(xs)), Tail(fields), Tail(xs))
WriteList(e, list, xs) ==
  IF ~e.ok \/ xs = <<>> THEN e
  ELSE WriteList(WriteAll(e, Lists[list], Head(xs)), list, Tail(xs))

\* val: the kind of an operand and its index, or the constant itself.
Val(e, v) ==
  CASE v.k = "const" -> WriteNode(Put(e, "const"), WritesConst, v.c)
    [] v.k = "local" -> IF Contains(e.slots, v.at) THEN Put(Put(e, "local"), Place(e.slots, v.at) - 1)
                        ELSE [e EXCEPT !.ok = FALSE]
    [] OTHER -> Put(Put(e, v.k), v.i - 1)

Write(e, field, x) ==
  CASE field = "num" -> Put(e, x)
    [] field = "str" -> Str(e, x)
    [] field = "type" -> Typ(e, x)
    [] field \in {"val", "block", "func"} -> Val(e, x)
    [] field = "const" -> WriteNode(e, WritesConst, x)
    [] field = "inst" -> WriteNode(e, WritesInst, x)
    [] field = "term" -> WriteNode(e, WritesTerm, x)
    [] OTHER -> WriteList(Put(e, Len(x)), field, x)

WriteNode(e, format, x) ==
  IF x.op \in DOMAIN format THEN WriteAll(Put(e, x.op), format[x.op], x.args)
  ELSE [e EXCEPT !.ok = FALSE]

\* Mutant: the entry of a type takes its index before it is written.
TypFirst(e, t) ==
  IF Place(e.types, t) > 0 THEN Put(e, Place(e.types, t) - 1)
  ELSE LET sub == WriteNode([e EXCEPT !.buf = <<>>, !.types = Append(e.types, t)], WritesType, t) IN
       [sub EXCEPT !.buf = Append(e.buf, Len(e.types)), !.tys = Append(sub.tys, sub.buf)]

\* typ: the entry of a type comes behind those of the types it is made of.
Typ(e, t) ==
  IF Place(e.types, t) > 0 THEN Put(e, Place(e.types, t) - 1)
  ELSE LET sub == WriteNode([e EXCEPT !.buf = <<>>], WritesType, t) IN
       [sub EXCEPT !.buf = Append(e.buf, Len(sub.tys)),
                   !.types = Append(sub.types, t), !.tys = Append(sub.tys, sub.buf)]

Body(e, f, blocks) == Write([e EXCEPT !.slots = Slots(Len(f[4]), blocks)], "blocks", blocks)

\* encodeModule: all signatures first, then the bodies, and the tables in front.
Unsupported == <<"unsupported">>
encodeModule(m) ==
  LET signs == Write(Write(Encoder, "globals", m.globals), "funcs", m.funcs)
      e == FoldLeftDomain(LAMBDA a, i : Body(a, m.funcs[i], m.bodies[i]), signs, m.funcs)
  IN  IF ~e.ok THEN Unsupported
      ELSE <<Magic, Len(e.strs)>> \o e.strs \o <<Len(e.tys)>> \o e.tys \o e.buf

-----------------------------------------------------------------------------
(* Decoding.                                                               *)

ReadsType ==
  [void |-> <<>>, int |-> <<"num">>, pointer |-> <<"type">>, array |-> <<"num", "type">>,
   struct |-> <<"str", "num", "types">>, func |-> <<"num", "type", "types">>, label |-> <<>>]

ReadsConst ==
  [int |-> <<"type", "num", "num">>, null |-> <<"type">>, zero |-> <<"type">>,
   chars |-> <<"type", "num">>, array |-> <<"type", "consts">>, struct |-> <<"type", "consts">>,
   global |-> <<"glob">>, index |-> <<"const">>, gep |-> <<"type", "const", "consts">>]

\* The types that the constants of a kind must have.
ConstTypes ==
  [int |-> {"int"}, null |-> {"pointer"}, chars |-> {"array"}, array |-> {"array"},
   struct |-> {"struct"}]

ReadsInst ==
  [alloca |-> <<"str", "num", "type", "opt">>, load |-> <<"str", "num", "type", "val">>,
   store |-> <<"val", "val">>, gep |-> <<"str", "num", "type", "val", "vals">>,
   icmp |-> <<"str", "num", "num", "val", "val">>,
   select |-> <<"str", "num", "val", "val", "val">>, phi |-> <<"str", "num", "type", "pairs">>,
   call |-> <<"str", "num", "func", "vals">>]
  @@ [op \in Binary |-> <<"str", "num", "val", "val">>]
  @@ [op \in Cast |-> <<"str", "num", "val", "type">>]

ReadsTerm ==
  [br |-> <<"block">>, condbr |-> <<"val", "block", "block">>, ret |-> <<"opt">>,
   unreachable |-> <<>>]

\* `got' is what has been read of a tuple, `refs' the references of a body,
\* `seen' the globals there are so far.
Decoder(data, pos, strs, tys) ==
  [data |-> data, pos |-> pos, strs |-> strs, tys |-> tys, got |-> <<>>,
   refs |-> <<>>, seen |-> 0, ok |-> TRUE]
Token(d) == d.data[d.pos + 1]
Corrupt(d) == [d EXCEPT !.ok = FALSE]
Skip(d) == [d EXCEPT !.pos = @ + 1]
Took(d, x) == [Skip(d) EXCEPT !.got = Append(@, x)]
Lookup(d, s, i) == IF i < Len(s) THEN Took(d, s[i + 1]) ELSE Corrupt(d)

RECURSIVE Read(_, _), ReadFields(_, _), ReadTuples(_, _, _), ReadNode(_, _)

ReadFields(d, fields) ==
  IF ~d.ok \/ fields = <<>> THEN d ELSE ReadFields(Read(d, Head(fields)), Tail(fields))

\* What d reads with f becomes one value.
Collected(d, r) == [r EXCEPT !.got = Append(d.got, r.got)]
ReadAll(d, fields) == Collected(d, ReadFields([d EXCEPT !.got = <<>>], fields))

\* A list of n tuples; a global exists when its initialiser is read.
ReadTuples(d, n, list) ==
  IF ~d.ok \/ n = 0 THEN d
  ELSE ReadTuples(ReadAll([d EXCEPT !.seen = IF list = "globals" THEN @ + 1 ELSE @], Lists[list]), n - 1, list)
ReadList(d, n, list) == Collected(d, ReadTuples([Skip(d) EXCEPT !.got = <<>>], n, list))

\* ref: an operand as it comes off the stream.
Ref(d) ==
  IF Token(d) = "const" THEN
    LET r == ReadNode(Skip(d), ReadsConst)
    IN  IF r.ok THEN [r EXCEPT !.got = Append(d.got, [k |-> "const", c |-> Last(@)])] ELSE r
  ELSE IF d.pos + 1 >= Len(d.data) THEN Corrupt(d)
  ELSE LET v == [k |-> Token(d), i |-> Token(Skip(d))]
       IN  [Took(Skip(d), v) EXCEPT !.refs = Append(@, v)]

Read(d, field) ==
  IF ~d.ok \/ d.pos >= Len(d.data) THEN Corrupt(d) ELSE
  CASE field = "num" -> Took(d, Token(d))
    [] field = "str" -> Lookup(d, d.strs, Token(d))
    [] field = "type" -> Lookup(d, d.tys, Token(d))
    [] field = "glob" -> IF Token(d) < d.seen THEN Took(d, Token(d)) ELSE Corrupt(d)
    [] field \in {"val", "block", "func"} -> Ref(d)
    [] field = "const" -> ReadNode(d, ReadsConst)
    [] field = "inst" -> ReadNode(d, ReadsInst)
    [] field = "term" -> ReadNode(d, ReadsTerm)
    [] OTHER -> ReadList(d, Token(d), field)

ReadNode(d, format) ==
  IF ~d.ok \/ d.pos >= Len(d.data) THEN Corrupt(d)
  ELSE IF Token(d) \notin DOMAIN format THEN Corrupt(d)
  ELSE LET op == Token(d)
           r == ReadAll(Skip(d), format[op])
           args == Last(r.got)
       IN  IF ~r.ok \/ (format = ReadsConst /\ op \in DOMAIN ConstTypes /\ args[1].op \notin ConstTypes[op])
           THEN Corrupt(r)
           ELSE [r EXCEPT !.got = Append(d.got, [op |-> op, args |-> args])]

\* function: what the references of a body name is only looked up when all of
\* it has been read.
Resolves(v, slots, nblocks, nglobals, nfuncs) ==
  CASE v.k = "local" -> v.i < Len(slots) /\ slots[v.i + 1] # <<>>
    [] v.k = "block" -> v.i < nblocks
    [] v.k = "global" -> v.i < nglobals
    [] v.k = "func" -> v.i < nfuncs

Bound(v, slots) ==
  CASE v.k = "const" -> v
    [] v.k = "local" -> [k |-> "local", at |-> slots[v.i + 1]]
    [] OTHER -> [k |-> v.k, i |-> v.i + 1]

\* The operands of a node, or of a list of tuples, bound.
RECURSIVE Bind(_, _, _)
Bind(fields, xs, slots) ==
  [i \in DOMAIN fields |->
     CASE fields[i] \in {"val", "block", "func"} -> Bound(xs[i], slots)
       [] fields[i] = "inst" -> [xs[i] EXCEPT !.args = Bind(ReadsInst[xs[i].op], @, slots)]
       [] fields[i] = "term" -> [xs[i] EXCEPT !.args = Bind(ReadsTerm[xs[i].op], @, slots)]
       [] fields[i] \in {"vals", "opt", "pairs", "insts"} ->
            [j \in DOMAIN xs[i] |-> Bind(Lists[fields[i]], xs[i][j], slots)]
       [] OTHER -> xs[i]]

readBody(d, nglobals, funcs, f) ==
  LET r == Read([d EXCEPT !.refs = <<>>], "blocks")
      blocks == Last(r.got)
      slots == Slots(Len(f[4]), blocks)
  IN  IF ~r.ok \/ \E i \in DOMAIN r.refs : ~Resolves(r.refs[i], slots, Len(blocks), nglobals, Len(funcs))
      THEN Corrupt(r)
      ELSE [r EXCEPT !.got = Append(d.got, [b \in DOMAIN blocks |-> Bind(Lists.blocks, blocks[b], slots)])]

readType(d, entry) ==
  LET r == ReadNode(Decoder(entry, 0, d.strs, d.tys), ReadsType)
  IN  IF r.ok THEN [d EXCEPT !.tys = Append(@, r.got[1])] ELSE Corrupt(d)
RECURSIVE readTypes(_, _)
readTypes(d, entries) ==
  IF ~d.ok \/ entries = <<>> THEN d ELSE readTypes(readType(d, Head(entries)), Tail(entries))

\* A list of strings or type entries at the head of an entry.
Whole(d) == d.pos < Len(d.data) /\ d.pos + Token(d) < Len(d.data)
Head1(d) == SubSeq(d.data, d.pos + 2, d.pos + 1 + Token(d))

NoModule == <<"none">>
decodeModule(data) ==
  LET d0 == Decoder(data, 1, <<>>, <<>>)
      d1 == IF ~Whole(d0) THEN Corrupt(d0)
            ELSE [d0 EXCEPT !.strs = Head1(d0), !.pos = @ + 1 + Token(d0)]
      d2 == IF ~d1.ok \/ ~Whole(d1) THEN Corrupt(d1)
            ELSE readTypes([d1 EXCEPT !.pos = @ + 1 + Token(d1)], Head1(d1))
      d3 == Read(Read(d2, "globals"), "funcs")
      funcs == d3.got[2]
      d4 == FoldLeft(LAMBDA a, f : IF a.ok THEN readBody(a, Len(d3.got[1]), funcs, f) ELSE a,
                     [d3 EXCEPT !.got = <<>>], funcs)
  IN  IF ~d3.ok THEN NoModule
      ELSE IF ~d4.ok THEN NoModule
      ELSE [globals |-> d3.got[1], funcs |-> funcs, bodies |-> d4.got]

-----------------------------------------------------------------------------
(* Entries.                                                                *)

\* The text of a module: its globals, then its functions.
Text(m) ==
  [i \in DOMAIN m.globals |-> [kind |-> "global", entity |-> m.globals[i]]]
  \o [i \in DOMAIN m.funcs |-> [kind |-> "func", entity |-> <<m.funcs[i], m.bodies[i]>>]]

\* The functions that the calls of a body name.
Callees(blocks) ==
  UNION {{v.i : v \in {x \in {inst.args[3]} \cup ToSet(FlattenSeq(inst.args[4])) : x.k = "func"}} :
           inst \in {x \in {blocks[b][3][i][1] : <<b, i>> \in
                              UNION {{<<b, i>> : i \in DOMAIN blocks[b][3]} : b \in DOMAIN blocks}} : x.op = "call"}}

\* asm.ParseString takes any list of entities of which none names another one
\* that is missing, the empty list too.
parseText(data) ==
  LET of(kind) == [i \in DOMAIN SelectSeq(data, LAMBDA x : x.kind = kind) |->
                     SelectSeq(data, LAMBDA x : x.kind = kind)[i].entity]
      funcs == of("func")
  IN  IF \E i \in DOMAIN funcs : ~(Callees(funcs[i][2]) \subseteq DOMAIN funcs) THEN NoModule
      ELSE [globals |-> of("global"), funcs |-> [i \in DOMAIN funcs |-> funcs[i][1]],
            bodies |-> [i \in DOMAIN funcs |-> funcs[i][2]]]

\* storeCachedScript: what is written for a module.
Stored(m) == LET data == encodeModule(m) IN IF data = Unsupported THEN Text(m) ELSE data

\* What there is of a module for its function jsrun.
RECURSIVE Reach(_, _)
Reach(m, fs) ==
  LET more == fs \cup UNION {Callees(m.bodies[i]) : i \in fs}
  IN  IF more = fs THEN {<<m.funcs[i], m.bodies[i]>> : i \in fs} ELSE Reach(m, more)
Program(m) == <<m.globals, Reach(m, {i \in DOMAIN m.funcs : m.funcs[i][1] = "jsrun"})>>

\* loadCachedScript: a module without jsrun is none.
Parsed(data) == IF data # <<>> /\ Same(data[1], Magic) THEN decodeModule(data) ELSE parseText(data)
LoadedModule(data) ==
  LET m == Parsed(data) IN
  IF Same(m, NoModule) THEN NoModule
  ELSE IF \E i \in DOMAIN m.funcs : m.funcs[i][1] = "jsrun" THEN Program(m) ELSE NoModule
=============================================================================
