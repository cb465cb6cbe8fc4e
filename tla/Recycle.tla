------------------------------- MODULE Recycle -------------------------------
(***************************************************************************)
(* The reclaiming of handles by the IR machine (abnf/llvmmap.go: recycle,  *)
(* call, exec) on the value table of the Go runtime (abnf/jsrt.go: wrap,   *)
(* unwrap, releaseHandle, pinArray), for any compiled program.             *)
(*                                                                         *)
(* A value that the runtime makes gets the next handle and carries it, so  *)
(* here it IS its handle; the table's slot of a released one is empty,     *)
(* while others may still point at the Go value.  Handle 0 is undefined,   *)
(* and as a scope the root.  One variable per scope, one arena cell and    *)
(* one element that an array's reader may pick stand for all of them.      *)
(*                                                                         *)
(* An operand is a register (from 1 on, the parameters first) or 0.        *)
(***************************************************************************)
EXTENDS Integers, Sequences, FiniteSets

CONSTANTS
  Programs,    \* the programs: sequences of functions, the first is the entry
  MaxSteps     \* MaxIRSteps

Ops == {"js_scope_new", "js_arr_new", "js_scope_decl", "js_scope_get", "js_arr_push", "js_arg",
        "js_closure", "js_call", "js_try", "js_throw", "store", "load", "select"}
Arity(op) ==
  CASE op \in {"js_arr_new", "load"} -> 0
    [] op \in {"js_scope_decl", "js_arr_push", "js_call", "select"} -> 2
    [] OTHER -> 1

VARIABLES
  prog,        \* the program
  values,      \* the values by handle, as Go holds them
  cleared,     \* the handles whose slot is empty
  arena,       \* the memory cell
  stack,       \* the frames, the running one last
  pool,        \* registers of frames that have ended
  exc,         \* the panic that unwinds, or None
  steps,
  stale        \* an empty slot was read

vars == <<prog, values, cleared, arena, stack, pool, exc, steps, stale>>

None == "none"
Undefined == 0

-----------------------------------------------------------------------------
(* The externs and the analysis.                                           *)

RelNew == {"js_scope_new", "js_arr_new"}

\* Mutant: a closure counts as a reader of its scope.
ThruClosure(op) ==
  CASE op \in {"js_scope_new", "js_scope_decl", "js_scope_get", "js_arr_push", "js_arg", "js_closure"} -> {1}
    [] op = "js_call" -> {2}
    [] OTHER -> {}

\* jsThroughArgs: the positions an extern only reads.
Thru(op) ==
  CASE op \in {"js_scope_new", "js_scope_decl", "js_scope_get", "js_arr_push", "js_arg"} -> {1}
    [] op = "js_call" -> {2}
    [] OTHER -> {}

Insts(f) == UNION {{f.blocks[b].insts[i] : i \in DOMAIN f.blocks[b].insts} : b \in DOMAIN f.blocks}
Phis(f) == UNION {{f.blocks[b].phis[i] : i \in DOMAIN f.blocks[b].phis} : b \in DOMAIN f.blocks}
Terms(f) == {f.blocks[b].term : b \in DOMAIN f.blocks}

\* recycle: the operands with a use that may outlive the frame.
Escapes(f) ==
  (UNION {{in.args[k] : k \in DOMAIN in.args \ Thru(in.op)} : in \in Insts(f)})
  \cup (UNION {{ph.incs[p] : p \in DOMAIN ph.incs} : ph \in Phis(f)})
  \cup {t.cond : t \in Terms(f)}

\* What LLVM IR guarantees of a function of program p: operands and blocks are there, a
\* phi has a value for each way in, and a register is written in one place ("slots are
\* dense and never shared between two values"), which does not read it.  The functions
\* of a program all take the environment and the arguments.
PhiSet(f) == [dst: 3 .. f.size, incs: Seq(0 .. f.size)]
InstSet(p, f) == [op: Ops, args: Seq(0 .. f.size), fn: DOMAIN p, dst: 3 .. f.size]
TermSet(f) == [kind: {"br", "ret"}, cond: 0 .. f.size, to: SUBSET (DOMAIN f.blocks)]
BlockSet(p, f) == [phis: Seq(PhiSet(f)), insts: Seq(InstSet(p, f)), term: TermSet(f)]
WellFormed(p, f) ==
  /\ f.params = 2 /\ f.size \in Nat \ {0, 1} /\ f.blocks # <<>> /\ f.blocks \in Seq(BlockSet(p, f))
  /\ \A b \in DOMAIN f.blocks : \A to \in f.blocks[b].term.to : \A k \in DOMAIN f.blocks[to].phis :
       b \in DOMAIN f.blocks[to].phis[k].incs
  /\ \A in \in Insts(f) : Len(in.args) = Arity(in.op) /\ \A k \in DOMAIN in.args : in.args[k] # in.dst
  /\ \A in, other \in Insts(f) : in.dst = other.dst => in = other
  /\ \A in \in Insts(f), ph \in Phis(f) : in.dst # ph.dst

ASSUME ProgramsAssumption ==
  \A p \in Programs : 1 \in DOMAIN p /\ \A n \in DOMAIN p : WellFormed(p, p[n])

\* The destinations of the calls whose result may be reclaimed (dOpCallRel).
RelSlots(f) == {in.dst : in \in {i \in Insts(f) : i.op \in RelNew}} \ Escapes(f)
PinArgs(f) == f.params = 2 /\ 2 \in Escapes(f)

-----------------------------------------------------------------------------
(* The value table.                                                        *)

Scope(parent) == [kind |-> "scope", parent |-> parent, elems |-> <<>>, pinned |-> FALSE, fn |-> 0, rel |-> FALSE]
Array(elems) == [kind |-> "array", parent |-> 0, elems |-> elems, pinned |-> FALSE, fn |-> 0, rel |-> FALSE]
Closure(fn, env) == [kind |-> "closure", parent |-> env, elems |-> <<>>, pinned |-> FALSE, fn |-> fn, rel |-> FALSE]

\* unwrap: what a handle stands for; an empty slot is nil.
Unwrap(h) == IF h \in cleared THEN Undefined ELSE h
Is(kind, h) == h \in DOMAIN values /\ h \notin cleared /\ values[h].kind = kind

\* Mutant: a pinned array goes as well.
ReleasePinned(table, handles) == {h \in handles \cap DOMAIN table : table[h].kind \in {"scope", "array"}}

\* releaseHandle, of several handles.
Release(table, handles) ==
  {h \in handles \cap DOMAIN table : table[h].kind = "scope" \/ (table[h].kind = "array" /\ ~table[h].pinned)}

\* pinArray.
Pinned(table, h) ==
  IF h \in DOMAIN table /\ h \notin cleared /\ table[h].kind = "array" THEN [table EXCEPT ![h].pinned = TRUE] ELSE table

-----------------------------------------------------------------------------
(* Frames.                                                                 *)

Frame == stack[Len(stack)]
Fn == prog[Frame.fn]
ThisBlock == Fn.blocks[Frame.bi]
AtInst == exc = None /\ stack # <<>> /\ Frame.ii <= Len(ThisBlock.insts)
Inst == ThisBlock.insts[Frame.ii]
Rd(o) == IF o = 0 THEN 0 ELSE Frame.regs[o]
Arg(k) == Rd(Inst.args[k])

\* Mutant: what a former frame left is still there.
NotCleared(regs, n) == [r \in 1 .. n |-> IF r <= Len(regs) THEN regs[r] ELSE 0]

\* acquireFrame and the parameters: registers of a former frame are cleared.
Cleared(regs, n) == [r \in 1 .. n |-> 0]
Registers(f, args) ==
  LET old == IF pool = <<>> THEN <<>> ELSE pool[Len(pool)]
      clean == Cleared(old, f.size)
  IN  [r \in 1 .. f.size |-> IF r <= Len(args) THEN args[r] ELSE clean[r]]
PoolTaken == IF pool = <<>> THEN pool ELSE SubSeq(pool, 1, Len(pool) - 1)

NewFrame(n, args) == [fn |-> n, regs |-> Registers(prog[n], args), bi |-> 1, ii |-> 1]

Top(frames, fr) == [frames EXCEPT ![Len(frames)] = fr]
\* The result of the instruction goes to its register, and the next one follows.
Answer(frames, h) ==
  LET fr == frames[Len(frames)]
      in == prog[fr.fn].blocks[fr.bi].insts[fr.ii]
  IN  Top(frames, [fr EXCEPT !.regs[in.dst] = h, !.ii = @ + 1])
Pop(frames) == SubSeq(frames, 1, Len(frames) - 1)

-----------------------------------------------------------------------------
(* The machine.                                                            *)

Init ==
  /\ prog \in Programs
  /\ values = <<Array(<<>>)>>   \* the entry's arguments; its environment is the root scope
  /\ cleared = {} /\ arena = Undefined /\ pool = <<>>
  /\ stack = <<[fn |-> 1, regs |-> [r \in 1 .. prog[1].size |-> IF r = 2 THEN 1 ELSE 0], bi |-> 1, ii |-> 1]>>
  /\ exc = None /\ steps = 0 /\ stale = FALSE

Reads(handles) == stale' = (stale \/ handles \cap cleared # {})
Panics(what) == exc' = what /\ UNCHANGED <<values, cleared, arena, stack, pool>>
Runs(ops) == AtInst /\ Inst.op \in ops /\ steps < MaxSteps /\ steps' = steps + 1 /\ UNCHANGED prog

StepLimit ==
  /\ exc = None /\ stack # <<>> /\ steps >= MaxSteps
  /\ Panics("limit") /\ UNCHANGED <<prog, steps, stale>>

\* js_scope_new, js_arr_new: a reclaimable one first releases what it made last time.
Make ==
  LET isScope == Inst.op = "js_scope_new"
      rel == Inst.dst \in RelSlots(Fn)
      gone == cleared \cup (IF rel THEN Release(values, {Frame.regs[Inst.dst]}) ELSE {})
      parent == IF isScope THEN Arg(1) ELSE Undefined
      good == parent = Undefined \/ (parent \in DOMAIN values \ gone /\ values[parent].kind = "scope")
      new == IF isScope THEN Scope(parent) ELSE Array(<<>>)
  IN
  /\ Runs(RelNew)
  /\ cleared' = gone /\ stale' = (stale \/ parent \in gone)
  /\ IF good
     THEN /\ values' = Append(values, [new EXCEPT !.rel = rel])
          /\ stack' = Answer(stack, Len(values) + 1)
          /\ UNCHANGED exc
     ELSE exc' = "fail" /\ UNCHANGED <<values, stack>>
  /\ UNCHANGED <<arena, pool>>

\* js_scope_decl, js_arr_push: the VALUE behind the last operand is kept.
Put ==
  LET into == Arg(1)
      good == IF Inst.op = "js_arr_push" THEN Is("array", into) ELSE Is("scope", into)
      v == Unwrap(Arg(2))
      elems == IF Inst.op = "js_arr_push" THEN Append(values[into].elems, v) ELSE <<v>>
  IN
  /\ Runs({"js_arr_push", "js_scope_decl"})
  /\ Reads({into, Arg(2)})
  /\ IF ~good THEN Panics("fail")
     ELSE /\ values' = [values EXCEPT ![into].elems = elems]
          /\ stack' = Answer(stack, Undefined) /\ UNCHANGED <<cleared, arena, pool, exc>>

\* js_arg, js_scope_get: an element, a scope's variable; of the scope or what is around it.
Take ==
  /\ Runs({"js_arg", "js_scope_get"})
  /\ Reads({Arg(1)})
  /\ LET from == Arg(1)
         around(h) == IF h \in DOMAIN values /\ values[h].parent # 0 THEN values[h].parent ELSE 0
         holders == {from} \cup IF Inst.op = "js_arg" THEN {} ELSE {around(from), around(around(from))}
         found == {h \in holders : h \in DOMAIN values /\ values[h].elems # <<>>}
         good == IF Inst.op = "js_arg" THEN Is("array", from) ELSE Is("scope", from)
     IN  IF ~good THEN Panics("fail")
         ELSE /\ IF found = {} THEN stack' = Answer(stack, Undefined)
                 ELSE \E h \in found : \E i \in DOMAIN values[h].elems : stack' = Answer(stack, values[h].elems[i])
              /\ UNCHANGED <<values, cleared, arena, pool, exc>>

\* js_closure keeps the HANDLE of its scope.
MakeClosure ==
  /\ Runs({"js_closure"})
  /\ values' = Append(values, Closure(Inst.fn, Arg(1)))
  /\ stack' = Answer(stack, Len(values) + 1)
  /\ UNCHANGED <<cleared, arena, pool, exc, stale>>

\* callInner and machine.call: the callee may keep the array it is handed.
Enter(table, c, argsH) ==
  LET n == values[c].fn IN
  /\ values' = IF PinArgs(prog[n]) THEN Pinned(table, argsH) ELSE table
  /\ stack' = Append(stack, NewFrame(n, <<values[c].parent, argsH>>))
  /\ pool' = PoolTaken
  /\ UNCHANGED <<cleared, arena, exc>>

\* js_call hands the caller's array over.
Call ==
  /\ Runs({"js_call"}) /\ Reads({Arg(1), Arg(2)})
  /\ IF Is("array", Arg(2)) /\ Is("closure", Arg(1)) THEN Enter(values, Arg(1), Arg(2)) ELSE Panics("fail")

\* js_try (with a catch clause that does nothing) boxes a new one.
Try ==
  /\ Runs({"js_try"}) /\ Reads({Arg(1)})
  /\ IF Is("closure", Arg(1)) THEN Enter(Append(values, Array(<<>>)), Arg(1), Len(values) + 1) ELSE Panics("fail")

Throw == Runs({"js_throw"}) /\ Reads({Arg(1)}) /\ Panics("throw")

\* Loads, stores and copies move the number.
Move ==
  /\ Runs({"store", "load", "select"})
  /\ arena' = IF Inst.op = "store" THEN Arg(1) ELSE arena
  /\ \E h \in CASE Inst.op = "select" -> {Arg(1), Arg(2)} [] Inst.op = "load" -> {arena} [] OTHER -> {Undefined} :
       stack' = Answer(stack, h)
  /\ UNCHANGED <<values, cleared, pool, exc, stale>>

-----------------------------------------------------------------------------
(* Terminators.                                                            *)

AtTerm == exc = None /\ stack # <<>> /\ Frame.ii > Len(ThisBlock.insts) /\ steps < MaxSteps

\* The phis of a block are read together, then written.
Jump ==
  /\ AtTerm /\ ThisBlock.term.kind = "br"
  /\ \E to \in ThisBlock.term.to :
       LET phis == Fn.blocks[to].phis
           at(r) == {k \in DOMAIN phis : phis[k].dst = r}
           regs == [r \in DOMAIN Frame.regs |->
                      IF at(r) = {} THEN Frame.regs[r] ELSE Rd(phis[CHOOSE k \in at(r) : TRUE].incs[Frame.bi])]
       IN  /\ stack' = Top(stack, [Frame EXCEPT !.regs = regs, !.bi = to, !.ii = 1])
           /\ steps' = steps + Len(phis)
  /\ UNCHANGED <<prog, values, cleared, arena, pool, exc, stale>>

\* Mutant: only the next round of a loop releases.
FrameLeaves == cleared' = cleared /\ pool' = Append(pool, Frame.regs)

\* The deferred part of call: the frame's last reclaimable values go with it.
FrameDies ==
  /\ cleared' = cleared \cup Release(values, {Frame.regs[s] : s \in RelSlots(Fn)})
  /\ pool' = Append(pool, Frame.regs)

\* tRet, and the unwrap and wrap of the result by the extern that called.
Return ==
  LET h == Rd(ThisBlock.term.cond)
      rest == Pop(stack)
  IN
  /\ AtTerm /\ ThisBlock.term.kind = "ret"
  /\ FrameDies
  /\ stale' = (stale \/ h \in cleared')
  /\ stack' = IF rest = <<>> THEN rest ELSE Answer(rest, IF h \in cleared' THEN Undefined ELSE h)
  /\ UNCHANGED <<prog, values, arena, exc, steps>>

\* A panic unwinds frame by frame; a try takes what was thrown.
Unwind ==
  LET rest == Pop(stack)
      below == rest[Len(rest)]
      caught == rest # <<>> /\ exc = "throw" /\ prog[below.fn].blocks[below.bi].insts[below.ii].op = "js_try"
  IN
  /\ exc # None /\ stack # <<>>
  /\ FrameDies
  /\ stack' = IF caught THEN Answer(rest, Undefined) ELSE rest
  /\ exc' = IF caught THEN None ELSE exc
  /\ UNCHANGED <<prog, values, arena, steps, stale>>

Next ==
  \/ StepLimit \/ Make \/ Put \/ Take \/ MakeClosure \/ Call \/ Try \/ Throw \/ Move
  \/ Jump \/ Return \/ Unwind

Spec == Init /\ [][Next]_vars

-----------------------------------------------------------------------------
(* What reclaiming handles may never do, and what it must achieve.         *)

Handle == 0 .. Len(values)

TypeOK ==
  /\ \A h \in DOMAIN values :
       /\ values[h].kind \in {"scope", "array", "closure"}
       /\ values[h].parent \in Handle /\ \A i \in DOMAIN values[h].elems : values[h].elems[i] \in Handle
  /\ \A h \in cleared : h \in DOMAIN values /\ values[h].rel /\ ~values[h].pinned
  /\ arena \in Handle
  /\ \A i \in DOMAIN stack :
       /\ stack[i].fn \in DOMAIN prog /\ stack[i].bi \in DOMAIN prog[stack[i].fn].blocks
       /\ \A r \in DOMAIN stack[i].regs : stack[i].regs[r] \in Handle
  /\ exc \in {None, "throw", "fail", "limit"} /\ steps \in Nat /\ stale \in BOOLEAN

\* What can be asked for again when every frame has ended: the arena, the scopes of
\* closures, and the values that scopes and arrays hold.
Kept ==
  {arena}
  \cup {values[h].parent : h \in {c \in DOMAIN values : values[c].kind = "closure"}}
  \cup (UNION {{values[h].elems[i] : i \in DOMAIN values[h].elems} : h \in DOMAIN values \ cleared})

\* The analysis of recycle is sound for every program: no handle that outlives the frame
\* that made it is released, whatever loops, calls, throws and pooled frames do, and no
\* emptied slot is ever read ("a value that could have escaped it is not marked"); all
\* that is cleared was reclaimable and not pinned.
KeepsWhatEscapes == TypeOK /\ ~stale /\ Kept \cap cleared = {}

\* And it is worth having: of what reclaimable calls have made, only the last value of
\* each such call in a live frame is still in the table, and the arrays that a callee
\* pinned; a loop leaves nothing behind ("a program that runs a loop N times leaves N
\* scopes behind").
NothingPiles ==
  \A h \in DOMAIN values \ cleared :
    values[h].rel /\ ~values[h].pinned =>
      \E i \in DOMAIN stack : \E s \in RelSlots(prog[stack[i].fn]) : stack[i].regs[s] = h
=============================================================================
