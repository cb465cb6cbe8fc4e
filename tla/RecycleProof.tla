----------------------------- MODULE RecycleProof -----------------------------
(***************************************************************************)
(* The analysis of recycle is sound and worth having, for every program of *)
(* well formed functions: an inductive invariant of Recycle and the        *)
(* theorems that follow from it.                                           *)
(***************************************************************************)
EXTENDS Recycle, TLAPS

-----------------------------------------------------------------------------
(* The invariant.  Its parts take the state as parameters: an instruction  *)
(* is followed through the states it passes.                               *)

\* What may be released, now or later; and what may be kept by anything.
AtRisk(vals) == {h \in DOMAIN vals : vals[h].rel /\ ~vals[h].pinned}
Handles(vals) == 0 .. Len(vals)
Quiet(vals) == Handles(vals) \ AtRisk(vals)

Values(pr) ==
  [kind: {"scope", "array", "closure"}, parent: Nat, elems: Seq(Nat), pinned: BOOLEAN,
   fn: DOMAIN pr \cup {0}, rel: BOOLEAN]

ValueOK(pr, vals, v) ==
  /\ v.parent \in Handles(vals) /\ \A i \in DOMAIN v.elems : v.elems[i] \in Quiet(vals)
  /\ v.kind = "closure" => v.fn \in DOMAIN pr /\ v.parent \in Quiet(vals) /\ ~v.rel
  /\ v.pinned => v.kind = "array"

\* Nothing in the table or in the arena holds a handle at risk; a scope's parent is a
\* pointer, so it does not count.
HeapInv(pr, vals, clr, a) ==
  /\ vals \in Seq(Values(pr)) /\ clr \subseteq AtRisk(vals) /\ a \in Quiet(vals)
  /\ \A h \in DOMAIN vals : ValueOK(pr, vals, vals[h])

FrameSet(pr) == [fn: DOMAIN pr, regs: Seq(Nat), bi: Nat, ii: Nat]
Slots(pr, fr) == RelSlots(pr[fr.fn])

FrameOK(pr, vals, fr) ==
  /\ fr \in FrameSet(pr) /\ fr.regs \in [1 .. pr[fr.fn].size -> Handles(vals)]
  /\ fr.bi \in DOMAIN pr[fr.fn].blocks /\ fr.ii >= 1
  /\ \A s \in Slots(pr, fr) : fr.regs[s] = 0 \/ vals[fr.regs[s]].rel

\* A frame that waits is at a call.
Calls(pr, fr) ==
  LET insts == pr[fr.fn].blocks[fr.bi].insts IN fr.ii <= Len(insts) /\ insts[fr.ii].op \in {"js_call", "js_try"}

\* One of the frames below keeps this handle.
Lent(pr, stk, i, h) == \E j \in 1 .. i - 1 : \E s \in Slots(pr, stk[j]) : stk[j].regs[s] = h

\* A handle at risk is in the slot of the call that made it, or is the argument array of
\* a frame above that only reads it.
InPlace(pr, vals, stk, i) ==
  \A r \in DOMAIN stk[i].regs : stk[i].regs[r] \in AtRisk(vals) =>
    \/ r \in Slots(pr, stk[i])
    \/ r = 2 /\ 2 \notin Escapes(pr[stk[i].fn]) /\ Lent(pr, stk, i, stk[i].regs[2])

\* No two slots hold the same one.
Apart(pr, stk) ==
  \A i, j \in DOMAIN stk : \A s \in Slots(pr, stk[i]), t \in Slots(pr, stk[j]) :
    stk[i].regs[s] = stk[j].regs[t] /\ stk[i].regs[s] # 0 => i = j /\ s = t

StackInv(pr, vals, stk) ==
  /\ stk \in Seq(FrameSet(pr))
  /\ \A i \in DOMAIN stk : FrameOK(pr, vals, stk[i]) /\ InPlace(pr, vals, stk, i)
  /\ \A i \in 1 .. Len(stk) - 1 : Calls(pr, stk[i])
  /\ Apart(pr, stk)

\* The slots of the first n frames hold nothing that is cleared.
LiveInv(pr, clr, stk, n) ==
  \A i \in 1 .. n : i \in DOMAIN stk => \A s \in Slots(pr, stk[i]) : stk[i].regs[s] \notin clr

\* What is at risk and not cleared is in a slot.
OwnInv(pr, vals, clr, stk) ==
  \A h \in AtRisk(vals) \ clr : \E i \in DOMAIN stk : \E s \in Slots(pr, stk[i]) : stk[i].regs[s] = h

\* The frame that fails may have released and not made anew; it ends before it reads.
Going == IF exc = None THEN Len(stack) ELSE Len(stack) - 1

IInv ==
  /\ prog \in Programs
  /\ HeapInv(prog, values, cleared, arena)
  /\ StackInv(prog, values, stack)
  /\ LiveInv(prog, cleared, stack, Going)
  /\ OwnInv(prog, values, cleared, stack)
  /\ exc \in {None, "throw", "fail", "limit"} /\ steps \in Nat /\ stale = FALSE
-----------------------------------------------------------------------------
(* Well formed programs.                                                   *)

Good(pr) == 1 \in DOMAIN pr /\ \A n \in DOMAIN pr : WellFormed(pr, pr[n])

LEMMA ElementOf == ASSUME NEW S, NEW s \in Seq(S), NEW i \in DOMAIN s PROVE s[i] \in S
  OBVIOUS

LEMMA OfBlock ==
  ASSUME NEW pr, Good(pr), NEW n \in DOMAIN pr, NEW b \in DOMAIN pr[n].blocks
  PROVE  pr[n].blocks[b] \in BlockSet(pr, pr[n])
<1>1. pr[n].blocks \in Seq(BlockSet(pr, pr[n]))
  BY DEF Good, WellFormed
<1>. QED BY <1>1, ElementOf

LEMMA OfProgram ==
  ASSUME NEW pr, Good(pr), NEW n \in DOMAIN pr
  PROVE  /\ pr[n].params = 2 /\ pr[n].size \in Nat /\ pr[n].size >= 2 /\ 1 \in DOMAIN pr[n].blocks
         /\ RelSlots(pr[n]) \subseteq 3 .. pr[n].size /\ RelSlots(pr[n]) \cap Escapes(pr[n]) = {}
<1> DEFINE f == pr[n]
<1>1. f.params = 2 /\ f.size \in Nat /\ f.size >= 2 /\ f.blocks # <<>> /\ f.blocks \in Seq(BlockSet(pr, f))
  BY DEF Good, WellFormed
<1>2. 1 \in DOMAIN f.blocks
  BY <1>1
<1>3. ASSUME NEW b \in DOMAIN f.blocks, NEW i \in DOMAIN f.blocks[b].insts
      PROVE  f.blocks[b].insts[i].dst \in 3 .. f.size
  <2>1. f.blocks[b].insts \in Seq(InstSet(pr, f))
    BY OfBlock DEF BlockSet
  <2>2. f.blocks[b].insts[i] \in InstSet(pr, f)
    BY <2>1, ElementOf
  <2>. QED BY <2>2 DEF InstSet
<1>4. \A in \in Insts(f) : in.dst \in 3 .. f.size
  BY <1>3 DEF Insts
<1>. QED BY <1>1, <1>2, <1>4 DEF RelSlots

\* What escapes.
LEMMA Escaping ==
  ASSUME NEW f
  PROVE  /\ \A in \in Insts(f) : \A k \in DOMAIN in.args \ Thru(in.op) : in.args[k] \in Escapes(f)
         /\ \A ph \in Phis(f) : \A b \in DOMAIN ph.incs : ph.incs[b] \in Escapes(f)
         /\ \A t \in Terms(f) : t.cond \in Escapes(f)
<1> DEFINE I == {{in.args[k] : k \in DOMAIN in.args \ Thru(in.op)} : in \in Insts(f)}
           P == {{ph.incs[p] : p \in DOMAIN ph.incs} : ph \in Phis(f)}
           T == {t.cond : t \in Terms(f)}
<1>1. Escapes(f) = (UNION I) \cup (UNION P) \cup T
  BY DEF Escapes
<1>2. ASSUME NEW in \in Insts(f), NEW k \in DOMAIN in.args \ Thru(in.op) PROVE \E u \in I : in.args[k] \in u
  <2> DEFINE u == {in.args[j] : j \in DOMAIN in.args \ Thru(in.op)}
  <2>1. u \in I /\ in.args[k] \in u
    OBVIOUS
  <2>. QED BY <2>1
<1>3. ASSUME NEW ph \in Phis(f), NEW b \in DOMAIN ph.incs PROVE \E u \in P : ph.incs[b] \in u
  <2> DEFINE u == {ph.incs[p] : p \in DOMAIN ph.incs}
  <2>1. u \in P /\ ph.incs[b] \in u
    OBVIOUS
  <2>. QED BY <2>1
<1>4. \A t \in Terms(f) : t.cond \in T
  OBVIOUS
<1> HIDE DEF I, P, T
<1>5. \A e : (\E u \in I \cup P : e \in u) \/ e \in T => e \in Escapes(f)
  <2>1. \A e : e \in UNION I \/ e \in UNION P \/ e \in T => e \in Escapes(f)
    BY <1>1
  <2>2. \A e : (\E u \in I : e \in u) => e \in UNION I
    OBVIOUS
  <2>3. \A e : (\E u \in P : e \in u) => e \in UNION P
    OBVIOUS
  <2>. QED BY <2>1, <2>2, <2>3
<1>6. \A in \in Insts(f) : \A k \in DOMAIN in.args \ Thru(in.op) : in.args[k] \in Escapes(f)
  BY <1>2, <1>5
<1>7. \A ph \in Phis(f) : \A b \in DOMAIN ph.incs : ph.incs[b] \in Escapes(f)
  BY <1>3, <1>5
<1>. QED BY <1>4, <1>5, <1>6, <1>7

LEMMA OfInst ==
  ASSUME NEW pr, Good(pr), NEW n \in DOMAIN pr, NEW b \in DOMAIN pr[n].blocks,
         NEW i \in DOMAIN pr[n].blocks[b].insts
  PROVE  LET f == pr[n]
             in == f.blocks[b].insts[i] IN
         /\ in.op \in Ops /\ in.fn \in DOMAIN pr /\ in.dst \in 3 .. f.size
         /\ in.args \in Seq(0 .. f.size) /\ Len(in.args) = Arity(in.op)
         /\ \A k \in DOMAIN in.args : in.args[k] # in.dst
         /\ \A k \in DOMAIN in.args \ Thru(in.op) : in.args[k] \in Escapes(f)
         /\ in.dst \in RelSlots(f) => in.op \in RelNew
<1> DEFINE f == pr[n]
           in == f.blocks[b].insts[i]
<1>1. /\ \A x \in Insts(f) : Len(x.args) = Arity(x.op) /\ \A k \in DOMAIN x.args : x.args[k] # x.dst
      /\ \A x, y \in Insts(f) : x.dst = y.dst => x = y
  BY DEF Good, WellFormed
<1>2. f.blocks[b].insts \in Seq(InstSet(pr, f))
  BY OfBlock DEF BlockSet
<1>3. in \in InstSet(pr, f)
  BY <1>2, ElementOf
<1>4. in.op \in Ops /\ in.fn \in DOMAIN pr /\ in.dst \in 3 .. f.size /\ in.args \in Seq(0 .. f.size)
  BY <1>3 DEF InstSet
<1>5. in \in Insts(f)
  BY DEF Insts
<1> HIDE DEF f, in
<1>6. \A k \in DOMAIN in.args \ Thru(in.op) : in.args[k] \in Escapes(f)
  BY <1>5, Escaping
<1>7. in.dst \in RelSlots(f) => in.op \in RelNew
  BY <1>1, <1>5 DEF RelSlots
<1>8. Len(in.args) = Arity(in.op) /\ \A k \in DOMAIN in.args : in.args[k] # in.dst
  BY <1>1, <1>5
<1>. QED BY <1>4, <1>6, <1>7, <1>8 DEF f, in

LEMMA OfTerm ==
  ASSUME NEW pr, Good(pr), NEW n \in DOMAIN pr, NEW b \in DOMAIN pr[n].blocks
  PROVE  LET f == pr[n] IN
         /\ Len(f.blocks[b].insts) \in Nat /\ DOMAIN f.blocks[b].insts = 1 .. Len(f.blocks[b].insts)
         /\ f.blocks[b].term.cond \in 0 .. f.size /\ f.blocks[b].term.cond \in Escapes(f)
         /\ f.blocks[b].term.to \subseteq DOMAIN f.blocks
<1> DEFINE f == pr[n]
<1>1. f.blocks[b].insts \in Seq(InstSet(pr, f)) /\ f.blocks[b].term \in TermSet(f)
  BY OfBlock DEF BlockSet
<1>2. f.blocks[b].term.cond \in Escapes(f)
  BY Escaping DEF Terms
<1>3. f.blocks[b].term.cond \in 0 .. f.size /\ f.blocks[b].term.to \subseteq DOMAIN f.blocks
  BY <1>1 DEF TermSet
<1>. QED BY <1>1, <1>2, <1>3

LEMMA OfPhi ==
  ASSUME NEW pr, Good(pr), NEW n \in DOMAIN pr, NEW b \in DOMAIN pr[n].blocks,
         NEW to \in pr[n].blocks[b].term.to
  PROVE  LET f == pr[n]
             phis == f.blocks[to].phis IN
         /\ Len(phis) \in Nat
         /\ \A k \in DOMAIN phis :
              /\ phis[k].dst \in 3 .. f.size /\ phis[k].dst \notin RelSlots(f)
              /\ phis[k].incs[b] \in 0 .. f.size /\ phis[k].incs[b] \in Escapes(f)
<1> DEFINE f == pr[n]
           phis == f.blocks[to].phis
<1>1. to \in DOMAIN f.blocks
  BY OfTerm
<1>2. phis \in Seq(PhiSet(f))
  BY <1>1, OfBlock DEF BlockSet
<1>3. /\ \A k \in DOMAIN phis : b \in DOMAIN phis[k].incs
      /\ \A in \in Insts(f), ph \in Phis(f) : in.dst # ph.dst
  BY DEF Good, WellFormed
<1>4. ASSUME NEW k \in DOMAIN phis
      PROVE  /\ phis[k].dst \in 3 .. f.size /\ phis[k].dst \notin RelSlots(f)
             /\ phis[k].incs[b] \in 0 .. f.size /\ phis[k].incs[b] \in Escapes(f)
  <2>1. phis[k] \in PhiSet(f)
    BY <1>2, ElementOf
  <2>2. phis[k].dst \in 3 .. f.size /\ phis[k].incs \in Seq(0 .. f.size)
    BY <2>1 DEF PhiSet
  <2>3. phis[k] \in Phis(f)
    BY <1>1 DEF Phis
  <2>4. phis[k].incs[b] \in 0 .. f.size
    BY <1>3, <2>2, ElementOf
  <2> HIDE DEF f, phis
  <2>5. phis[k].incs[b] \in Escapes(f)
    BY <1>3, <2>3, Escaping
  <2>6. phis[k].dst \notin RelSlots(f)
    BY <1>3, <2>3 DEF RelSlots
  <2>. QED BY <2>2, <2>4, <2>5, <2>6
<1>. QED BY <1>2, <1>4

-----------------------------------------------------------------------------
(* The table.                                                              *)

LEMMA TableTypes ==
  ASSUME NEW pr, NEW vals \in Seq(Values(pr))
  PROVE  /\ Len(vals) \in Nat /\ DOMAIN vals = 1 .. Len(vals) /\ Handles(vals) = DOMAIN vals \cup {0}
         /\ 0 \in Quiet(vals) /\ Handles(vals) \subseteq Nat
         /\ \A h \in DOMAIN vals : vals[h] \in Values(pr)
  BY DEF Handles, Quiet, AtRisk

\* A new value.
Grew(pr, vals, clr, a, v, w, n) ==
  /\ HeapInv(pr, w, clr, a)
  /\ n \in Nat \ {0} /\ n \notin Handles(vals) /\ n \in Handles(w) /\ w[n] = v
  /\ \A h \in DOMAIN vals : h \in DOMAIN w /\ w[h] = vals[h]
  /\ Handles(vals) \subseteq Handles(w) /\ Quiet(vals) \subseteq Quiet(w)
  /\ AtRisk(w) = AtRisk(vals) \cup (IF v.rel THEN {n} ELSE {})

LEMMA Grown ==
  ASSUME NEW pr, NEW vals, NEW clr, NEW a, HeapInv(pr, vals, clr, a),
         NEW v \in Values(pr), ValueOK(pr, vals, v), ~v.pinned
  PROVE  Grew(pr, vals, clr, a, v, Append(vals, v), Len(vals) + 1)
<1> DEFINE w == Append(vals, v)
           n == Len(vals) + 1
<1>1. vals \in Seq(Values(pr)) /\ \A h \in DOMAIN vals : ValueOK(pr, vals, vals[h])
  BY DEF HeapInv
<1>2. /\ w \in Seq(Values(pr)) /\ Len(w) = n /\ w[n] = v /\ n \in Nat \ {0}
      /\ \A h \in 1 .. Len(vals) : w[h] = vals[h]
  BY <1>1
<1>3. Len(vals) \in Nat /\ DOMAIN vals = 1 .. Len(vals) /\ DOMAIN w = 1 .. Len(vals) \cup {n}
  BY <1>1, <1>2
<1> HIDE DEF w, n
<1>4. AtRisk(w) = AtRisk(vals) \cup (IF v.rel THEN {n} ELSE {})
  BY <1>2, <1>3 DEF AtRisk
<1>5. n \notin Handles(vals) /\ n \in Handles(w) /\ Handles(vals) \subseteq Handles(w)
  BY <1>2, <1>3 DEF Handles, n
<1>6. Quiet(vals) \subseteq Quiet(w)
  BY <1>4, <1>5 DEF Quiet
<1>7. \A x : ValueOK(pr, vals, x) => ValueOK(pr, w, x)
  BY <1>5, <1>6 DEF ValueOK
<1>8. \A h \in DOMAIN w : ValueOK(pr, w, w[h])
  BY <1>1, <1>2, <1>3, <1>7
<1>9. HeapInv(pr, w, clr, a)
  BY <1>2, <1>4, <1>6, <1>8 DEF HeapInv
<1>. QED BY <1>2, <1>3, <1>4, <1>5, <1>6, <1>9 DEF w, n, Grew

\* A value changes, and is at risk then only if it was before.
SetTo(vals, h, v) == [vals EXCEPT ![h] = v]

Altered(pr, vals, clr, a, h, v, w) ==
  /\ HeapInv(pr, w, clr, a) /\ w \in Seq(Values(pr))
  /\ Handles(w) = Handles(vals) /\ DOMAIN w = DOMAIN vals
  /\ w[h] = v /\ \A x \in DOMAIN vals \ {h} : w[x] = vals[x]
  /\ AtRisk(w) = AtRisk(vals) \ (IF v.pinned THEN {h} ELSE {})

LEMMA Changed ==
  ASSUME NEW pr, NEW vals, NEW clr, NEW a, HeapInv(pr, vals, clr, a),
         NEW h \in DOMAIN vals, NEW v \in Values(pr), ValueOK(pr, vals, v),
         v.rel = vals[h].rel, vals[h].pinned => v.pinned, v.pinned => h \notin clr
  PROVE  Altered(pr, vals, clr, a, h, v, SetTo(vals, h, v))
<1> DEFINE w == [vals EXCEPT ![h] = v]
<1>1. vals \in Seq(Values(pr)) /\ clr \subseteq AtRisk(vals) /\ \A x \in DOMAIN vals : ValueOK(pr, vals, vals[x])
  BY DEF HeapInv
<1>2. /\ w \in Seq(Values(pr)) /\ Len(w) = Len(vals) /\ DOMAIN w = DOMAIN vals
      /\ w[h] = v /\ \A x \in DOMAIN vals \ {h} : w[x] = vals[x]
  BY <1>1
<1> HIDE DEF w
<1>3. v.pinned \in BOOLEAN /\ vals[h].pinned \in BOOLEAN /\ v.rel \in BOOLEAN
  BY <1>1, TableTypes DEF Values
<1>4. AtRisk(w) = AtRisk(vals) \ (IF v.pinned THEN {h} ELSE {})
  BY <1>2, <1>3 DEF AtRisk
<1>5. Handles(w) = Handles(vals) /\ Quiet(vals) \subseteq Quiet(w)
  BY <1>2, <1>4 DEF Handles, Quiet
<1>6. \A x : ValueOK(pr, vals, x) => ValueOK(pr, w, x)
  BY <1>5 DEF ValueOK
<1>7. \A x \in DOMAIN w : ValueOK(pr, w, w[x])
  BY <1>1, <1>2, <1>6
<1>8. HeapInv(pr, w, clr, a)
  BY <1>1, <1>2, <1>3, <1>4, <1>5, <1>7 DEF HeapInv
<1>. QED BY <1>2, <1>4, <1>5, <1>8 DEF w, SetTo, Altered

\* What is released was at risk, and all of it that is at risk is.
LEMMA Released ==
  ASSUME NEW pr, NEW vals, NEW clr, NEW a, HeapInv(pr, vals, clr, a), NEW handles,
         \A h \in handles \cap DOMAIN vals : vals[h].rel
  PROVE  /\ Release(vals, handles) = handles \cap AtRisk(vals)
         /\ HeapInv(pr, vals, clr \cup Release(vals, handles), a)
<1>1. vals \in Seq(Values(pr)) /\ clr \subseteq AtRisk(vals) /\ \A x \in DOMAIN vals : ValueOK(pr, vals, vals[x])
  BY DEF HeapInv
<1>2. Release(vals, handles) = handles \cap AtRisk(vals)
  <2>1. ASSUME NEW h \in handles \cap DOMAIN vals
        PROVE  (vals[h].kind = "scope" \/ (vals[h].kind = "array" /\ ~vals[h].pinned)) <=> ~vals[h].pinned
    <3>1. vals[h] \in Values(pr) /\ ValueOK(pr, vals, vals[h]) /\ vals[h].rel
      BY <1>1, TableTypes
    <3>. QED BY <3>1 DEF Values, ValueOK
  <2>. QED BY <2>1 DEF Release, AtRisk
<1>. QED BY <1>1, <1>2 DEF HeapInv

\* The stack does not mind what happens to values, as long as none is put at risk.
LEMMA SlotsThere ==
  ASSUME NEW pr, Good(pr), NEW vals, NEW fr, FrameOK(pr, vals, fr)
  PROVE  /\ fr.fn \in DOMAIN pr /\ pr[fr.fn].size \in Nat /\ pr[fr.fn].size >= 2
         /\ DOMAIN fr.regs = 1 .. pr[fr.fn].size /\ fr.regs \in [DOMAIN fr.regs -> Handles(vals)]
         /\ Slots(pr, fr) \subseteq DOMAIN fr.regs \ {1, 2}
<1>1. fr.fn \in DOMAIN pr /\ fr.regs \in [1 .. pr[fr.fn].size -> Handles(vals)]
  BY DEF FrameOK, FrameSet
<1>. QED BY <1>1, OfProgram DEF Slots

LEMMA Resettled ==
  ASSUME NEW pr, Good(pr), NEW vals \in Seq(Values(pr)), NEW stk, StackInv(pr, vals, stk),
         NEW w, Handles(vals) \subseteq Handles(w), AtRisk(w) \cap Handles(vals) \subseteq AtRisk(vals),
         \A h \in DOMAIN vals : w[h].rel = vals[h].rel
  PROVE  StackInv(pr, w, stk)
<1>1. ASSUME NEW i \in DOMAIN stk PROVE FrameOK(pr, w, stk[i]) /\ InPlace(pr, w, stk, i)
  <2>1. FrameOK(pr, vals, stk[i]) /\ InPlace(pr, vals, stk, i)
    BY DEF StackInv
  <2>2. stk[i].regs \in [1 .. pr[stk[i].fn].size -> Handles(vals)]
    BY <2>1 DEF FrameOK
  <2>3. stk[i].regs \in [1 .. pr[stk[i].fn].size -> Handles(w)]
    BY <2>2
  <2>4. \A s \in Slots(pr, stk[i]) : stk[i].regs[s] = 0 \/ w[stk[i].regs[s]].rel
    <3>1. TAKE s \in Slots(pr, stk[i])
    <3>2. stk[i].regs[s] = 0 \/ vals[stk[i].regs[s]].rel
      BY <2>1 DEF FrameOK
    <3>3. stk[i].regs[s] \in Handles(vals)
      BY <2>1, SlotsThere
    <3>. QED BY <3>2, <3>3, TableTypes
  <2>5. InPlace(pr, w, stk, i)
    BY <2>1, <2>2 DEF InPlace
  <2>. QED BY <2>1, <2>3, <2>4, <2>5 DEF FrameOK
<1>. QED BY <1>1 DEF StackInv

-----------------------------------------------------------------------------
(* The stack.                                                              *)

LEMMA Tops ==
  ASSUME NEW S, NEW s \in Seq(S), s # <<>>, NEW x \in S
  PROVE  LET t == [s EXCEPT ![Len(s)] = x] IN
         /\ t \in Seq(S) /\ Len(t) = Len(s) /\ DOMAIN t = 1 .. Len(s) /\ DOMAIN s = 1 .. Len(s) /\ Len(s) \in Nat \ {0}
         /\ t[Len(s)] = x /\ \A i \in 1 .. Len(s) - 1 : t[i] = s[i]
  OBVIOUS

\* The running frame goes on: its slots and its arguments stay.
GoesOn(pr, vals, top, fr) ==
  /\ FrameOK(pr, vals, fr) /\ fr.fn = top.fn
  /\ \A r \in DOMAIN fr.regs :
       fr.regs[r] = top.regs[r] \/ (fr.regs[r] \in Quiet(vals) /\ r \notin Slots(pr, fr) /\ r # 2)

\* A stack takes the place of another of its length.
Follows(pr, vals, stk, t) ==
  /\ StackInv(pr, vals, t) /\ Len(t) = Len(stk)
  /\ \A clr, n : LiveInv(pr, clr, stk, n) => LiveInv(pr, clr, t, n)
  /\ \A clr : OwnInv(pr, vals, clr, stk) => OwnInv(pr, vals, clr, t)

LEMMA Retopped ==
  ASSUME NEW pr, Good(pr), NEW vals \in Seq(Values(pr)), NEW stk, StackInv(pr, vals, stk), stk # <<>>,
         NEW fr, GoesOn(pr, vals, stk[Len(stk)], fr)
  PROVE  Follows(pr, vals, stk, Top(stk, fr))
<1> DEFINE t == [stk EXCEPT ![Len(stk)] = fr]
           top == stk[Len(stk)]
<1>0. /\ FrameOK(pr, vals, fr) /\ fr.fn = top.fn
      /\ \A r \in DOMAIN fr.regs :
           fr.regs[r] = top.regs[r] \/ (fr.regs[r] \in Quiet(vals) /\ r \notin Slots(pr, fr) /\ r # 2)
  BY DEF GoesOn
<1>1. stk \in Seq(FrameSet(pr)) /\ fr \in FrameSet(pr)
  BY <1>0 DEF StackInv, FrameOK
<1>2. /\ t \in Seq(FrameSet(pr)) /\ Len(t) = Len(stk) /\ DOMAIN t = 1 .. Len(stk) /\ DOMAIN stk = 1 .. Len(stk)
      /\ Len(stk) \in Nat \ {0} /\ t[Len(stk)] = fr /\ \A i \in 1 .. Len(stk) - 1 : t[i] = stk[i]
  BY <1>1, Tops
<1> HIDE DEF t
<1>3. FrameOK(pr, vals, top) /\ InPlace(pr, vals, stk, Len(stk))
  BY <1>2 DEF StackInv
<1>4. Slots(pr, fr) = Slots(pr, top) /\ DOMAIN fr.regs = DOMAIN top.regs /\ Slots(pr, fr) \subseteq DOMAIN fr.regs
      /\ 2 \in DOMAIN fr.regs
  BY <1>0, <1>3, SlotsThere DEF Slots
<1>5. fr.regs[2] = top.regs[2] /\ \A s \in Slots(pr, fr) : fr.regs[s] = top.regs[s]
  BY <1>0, <1>4
<1>6. \A i \in DOMAIN stk : /\ t[i].fn = stk[i].fn /\ Slots(pr, t[i]) = Slots(pr, stk[i])
                            /\ t[i].regs[2] = stk[i].regs[2]
                            /\ \A s \in Slots(pr, stk[i]) : t[i].regs[s] = stk[i].regs[s]
  <2>1. TAKE i \in DOMAIN stk
  <2>2. CASE i = Len(stk)
    BY <1>0, <1>2, <1>4, <1>5, <2>2
  <2>3. CASE i # Len(stk)
    BY <1>2, <2>3
  <2>. QED BY <2>2, <2>3
<1>7. \A i \in DOMAIN stk : \A h : Lent(pr, t, i, h) <=> Lent(pr, stk, i, h)
  <2>1. TAKE i \in DOMAIN stk
  <2>2. \A j \in 1 .. i - 1 : t[j] = stk[j]
    BY <1>2
  <2>. QED BY <2>2 DEF Lent
<1>8. \A i \in DOMAIN stk : FrameOK(pr, vals, t[i]) /\ InPlace(pr, vals, t, i)
  <2>1. TAKE i \in DOMAIN stk
  <2>2. FrameOK(pr, vals, stk[i]) /\ InPlace(pr, vals, stk, i)
    BY DEF StackInv
  <2>3. CASE i = Len(stk)
    <3>1. t[i] = fr /\ InPlace(pr, vals, stk, i) /\ stk[i] = top
      BY <1>2, <2>2, <2>3
    <3>2. ASSUME NEW r \in DOMAIN fr.regs, fr.regs[r] \in AtRisk(vals)
          PROVE  \/ r \in Slots(pr, fr)
                 \/ r = 2 /\ 2 \notin Escapes(pr[fr.fn]) /\ Lent(pr, t, i, fr.regs[2])
      <4>1. fr.regs[r] = top.regs[r]
        BY <1>0, <3>2 DEF Quiet
      <4>2. \/ r \in Slots(pr, top)
            \/ r = 2 /\ 2 \notin Escapes(pr[top.fn]) /\ Lent(pr, stk, i, top.regs[2])
        BY <1>4, <3>1, <3>2, <4>1 DEF InPlace
      <4>. QED BY <1>0, <1>4, <1>5, <1>7, <2>3, <4>2
    <3>. QED BY <1>0, <3>1, <3>2 DEF InPlace
  <2>4. CASE i # Len(stk)
    <3>1. t[i] = stk[i]
      BY <1>2, <2>4
    <3>2. InPlace(pr, vals, t, i)
      BY <1>7, <2>2, <3>1 DEF InPlace
    <3>. QED BY <2>2, <3>1, <3>2
  <2>. QED BY <2>3, <2>4
<1>9. \A i \in 1 .. Len(t) - 1 : Calls(pr, t[i])
  BY <1>2 DEF StackInv
<1>10. Apart(pr, t)
  BY <1>2, <1>6 DEF StackInv, Apart
<1>11. StackInv(pr, vals, t)
  BY <1>2, <1>8, <1>9, <1>10 DEF StackInv
<1>12. \A clr, n : LiveInv(pr, clr, stk, n) => LiveInv(pr, clr, t, n)
  BY <1>2, <1>6 DEF LiveInv
<1>13. \A clr : OwnInv(pr, vals, clr, stk) => OwnInv(pr, vals, clr, t)
  BY <1>2, <1>6 DEF OwnInv
<1>. QED BY <1>2, <1>11, <1>12, <1>13 DEF t, Follows, Top

\* A slot of the running frame gets a new handle; what it held is released.
Renews(pr, vals, stk, fr, s) ==
  /\ FrameOK(pr, vals, fr) /\ fr.fn = stk[Len(stk)].fn /\ s \in Slots(pr, fr)
  /\ \A i \in DOMAIN stk : \A r \in DOMAIN stk[i].regs : stk[i].regs[r] # fr.regs[s]
  /\ \A r \in DOMAIN fr.regs \ {s} : fr.regs[r] = stk[Len(stk)].regs[r]

Frees(was, vals, old, new, clr, clr2) ==
  /\ clr2 \subseteq clr \cup {old} /\ clr \subseteq clr2 /\ 0 \notin clr2 /\ new \notin clr2
  /\ AtRisk(vals) \subseteq AtRisk(was) \cup {new} /\ (old \in AtRisk(was) => old \in clr2)

LEMMA Renewed ==
  ASSUME NEW pr, Good(pr), NEW vals \in Seq(Values(pr)), NEW stk, StackInv(pr, vals, stk), stk # <<>>,
         NEW fr, NEW s, Renews(pr, vals, stk, fr, s),
         NEW clr, NEW clr2, NEW was, LiveInv(pr, clr, stk, Len(stk)), OwnInv(pr, was, clr, stk),
         Frees(was, vals, stk[Len(stk)].regs[s], fr.regs[s], clr, clr2)
  PROVE  /\ StackInv(pr, vals, Top(stk, fr)) /\ Len(Top(stk, fr)) = Len(stk)
         /\ LiveInv(pr, clr2, Top(stk, fr), Len(stk)) /\ OwnInv(pr, vals, clr2, Top(stk, fr))
<1> USE DEF Renews, Frees
<1> DEFINE t == [stk EXCEPT ![Len(stk)] = fr]
           top == stk[Len(stk)]
           old == top.regs[s]
           new == fr.regs[s]
<1>1. stk \in Seq(FrameSet(pr)) /\ fr \in FrameSet(pr)
  BY DEF StackInv, FrameOK
<1>2. /\ t \in Seq(FrameSet(pr)) /\ Len(t) = Len(stk) /\ DOMAIN t = 1 .. Len(stk) /\ DOMAIN stk = 1 .. Len(stk)
      /\ Len(stk) \in Nat \ {0} /\ t[Len(stk)] = fr /\ \A i \in 1 .. Len(stk) - 1 : t[i] = stk[i]
  BY <1>1, Tops
<1> HIDE DEF t
<1>3. FrameOK(pr, vals, top) /\ InPlace(pr, vals, stk, Len(stk)) /\ Apart(pr, stk)
  BY <1>2 DEF StackInv
<1>4. Slots(pr, fr) = Slots(pr, top) /\ DOMAIN fr.regs = DOMAIN top.regs /\ Slots(pr, fr) \subseteq DOMAIN fr.regs \ {1, 2}
      /\ 2 \in DOMAIN fr.regs
  <2>1. Slots(pr, fr) = Slots(pr, top) /\ DOMAIN fr.regs = 1 .. pr[fr.fn].size
    BY SlotsThere DEF Slots
  <2>2. DOMAIN top.regs = 1 .. pr[top.fn].size
    BY <1>3, SlotsThere
  <2>3. Slots(pr, fr) \subseteq DOMAIN fr.regs \ {1, 2} /\ pr[fr.fn].size \in Nat /\ pr[fr.fn].size >= 2
    BY SlotsThere
  <2>. QED BY <2>1, <2>2, <2>3
<1>5. \A i \in DOMAIN stk : Slots(pr, t[i]) = Slots(pr, stk[i]) /\ Slots(pr, stk[i]) \subseteq DOMAIN stk[i].regs
  <2>1. TAKE i \in DOMAIN stk
  <2>2. FrameOK(pr, vals, stk[i])
    BY DEF StackInv
  <2>3. Slots(pr, stk[i]) \subseteq DOMAIN stk[i].regs
    BY <2>2, SlotsThere
  <2>. QED BY <1>2, <1>4, <2>3
<1>6. \A i \in DOMAIN stk : \A q \in Slots(pr, stk[i]) :
        IF i = Len(stk) /\ q = s THEN t[i].regs[q] = new ELSE t[i].regs[q] = stk[i].regs[q]
  <2>1. TAKE i \in DOMAIN stk
  <2>2. CASE i = Len(stk)
    BY <1>2, <1>4, <2>2
  <2>3. CASE i # Len(stk)
    BY <1>2, <2>3
  <2>. QED BY <2>2, <2>3
<1>7. \A i \in DOMAIN stk : \A h : Lent(pr, t, i, h) <=> Lent(pr, stk, i, h)
  <2>1. TAKE i \in DOMAIN stk
  <2>2. \A j \in 1 .. i - 1 : t[j] = stk[j]
    BY <1>2
  <2>. QED BY <2>2 DEF Lent
<1>8. \A i \in DOMAIN stk : FrameOK(pr, vals, t[i]) /\ InPlace(pr, vals, t, i)
  <2>1. TAKE i \in DOMAIN stk
  <2>2. FrameOK(pr, vals, stk[i]) /\ InPlace(pr, vals, stk, i)
    BY DEF StackInv
  <2>3. CASE i = Len(stk)
    <3>1. t[i] = fr /\ InPlace(pr, vals, stk, i) /\ stk[i] = top
      BY <1>2, <2>2, <2>3
    <3>2. ASSUME NEW r \in DOMAIN fr.regs, fr.regs[r] \in AtRisk(vals)
          PROVE  \/ r \in Slots(pr, fr)
                 \/ r = 2 /\ 2 \notin Escapes(pr[fr.fn]) /\ Lent(pr, t, i, fr.regs[2])
      <4>1. CASE r = s
        BY <4>1
      <4>2. CASE r # s
        <5>1. fr.regs[r] = top.regs[r] /\ fr.regs[2] = top.regs[2]
          BY <1>4, <4>2
        <5>2. \/ r \in Slots(pr, top)
              \/ r = 2 /\ 2 \notin Escapes(pr[top.fn]) /\ Lent(pr, stk, i, top.regs[2])
          BY <1>4, <3>1, <3>2, <5>1 DEF InPlace
        <5>. QED BY <1>4, <1>7, <2>3, <5>1, <5>2
      <4>. QED BY <4>1, <4>2
    <3>. QED BY <3>1, <3>2 DEF InPlace
  <2>4. CASE i # Len(stk)
    <3>1. t[i] = stk[i]
      BY <1>2, <2>4
    <3>2. InPlace(pr, vals, t, i)
      BY <1>7, <2>2, <3>1 DEF InPlace
    <3>. QED BY <2>2, <3>1, <3>2
  <2>. QED BY <2>3, <2>4
<1>9. \A i \in 1 .. Len(t) - 1 : Calls(pr, t[i])
  BY <1>2 DEF StackInv
<1>10. Apart(pr, t)
  <2>1. \A i, j \in DOMAIN stk : \A a \in Slots(pr, stk[i]), b \in Slots(pr, stk[j]) :
          stk[i].regs[a] = stk[j].regs[b] /\ stk[i].regs[a] # 0 => i = j /\ a = b
    BY <1>3 DEF Apart
  <2>2. \A i \in DOMAIN stk : \A a \in Slots(pr, stk[i]) : stk[i].regs[a] # new
    BY <1>5
  <2>3. \A i, j \in DOMAIN stk : \A a \in Slots(pr, stk[i]), b \in Slots(pr, stk[j]) :
          t[i].regs[a] = t[j].regs[b] /\ t[i].regs[a] # 0 => i = j /\ a = b
    BY <1>6, <2>1, <2>2
  <2>. QED BY <1>2, <1>5, <2>3 DEF Apart
<1>11. StackInv(pr, vals, t)
  BY <1>2, <1>8, <1>9, <1>10 DEF StackInv
<1>12. LiveInv(pr, clr2, t, Len(stk))
  <2>1. ASSUME NEW i \in DOMAIN stk, NEW q \in Slots(pr, stk[i]) PROVE t[i].regs[q] \notin clr2
    <3>1. CASE i = Len(stk) /\ q = s
      BY <1>6, <3>1
    <3>2. CASE ~(i = Len(stk) /\ q = s)
      <4>1. t[i].regs[q] = stk[i].regs[q] /\ stk[i].regs[q] \notin clr
        BY <1>2, <1>6, <3>2 DEF LiveInv
      <4>2. stk[i].regs[q] = old => old = 0
        BY <1>2, <1>3, <1>4, <3>2 DEF Apart
      <4>. QED BY <4>1, <4>2
    <3>. QED BY <3>1, <3>2
  <2>. QED BY <1>2, <1>5, <2>1 DEF LiveInv
<1>13. OwnInv(pr, vals, clr2, t)
  <2>1. ASSUME NEW h \in AtRisk(vals) \ clr2
        PROVE  \E i \in DOMAIN t : \E q \in Slots(pr, t[i]) : t[i].regs[q] = h
    <3>1. CASE h = new
      <4>1. Len(stk) \in DOMAIN t /\ s \in Slots(pr, t[Len(stk)]) /\ t[Len(stk)].regs[s] = h
        BY <1>2, <3>1
      <4>. QED BY <4>1
    <3>2. CASE h # new
      <4>1. PICK i \in DOMAIN stk : \E q \in Slots(pr, stk[i]) : stk[i].regs[q] = h
        BY <3>2 DEF OwnInv
      <4>2. PICK q \in Slots(pr, stk[i]) : stk[i].regs[q] = h
        BY <4>1
      <4>3. h # old
        BY <3>2
      <4>4. ~(i = Len(stk) /\ q = s)
        BY <4>2, <4>3
      <4>. QED BY <1>2, <1>5, <1>6, <4>2, <4>4
    <3>. QED BY <3>1, <3>2
  <2>. QED BY <2>1 DEF OwnInv
<1>. QED BY <1>2, <1>11, <1>12, <1>13 DEF t, Top

\* A call: the callee's slots are empty, and of the handles at risk it is lent only its
\* arguments, if it only reads them.
LEMMA Pushed ==
  ASSUME NEW pr, Good(pr), NEW vals \in Seq(Values(pr)), NEW stk, StackInv(pr, vals, stk), stk # <<>>,
         Calls(pr, stk[Len(stk)]),
         NEW fr, FrameOK(pr, vals, fr),
         \A r \in DOMAIN fr.regs \ {1, 2} : fr.regs[r] = 0,
         fr.regs[1] \in Quiet(vals),
         fr.regs[2] \in AtRisk(vals) =>
           2 \notin Escapes(pr[fr.fn]) /\ \E j \in DOMAIN stk : \E s \in Slots(pr, stk[j]) : stk[j].regs[s] = fr.regs[2],
         NEW clr, LiveInv(pr, clr, stk, Len(stk)), 0 \notin clr, OwnInv(pr, vals, clr, stk)
  PROVE  LET t == Append(stk, fr) IN
         /\ StackInv(pr, vals, t) /\ Len(t) = Len(stk) + 1
         /\ LiveInv(pr, clr, t, Len(t)) /\ OwnInv(pr, vals, clr, t)
<1> DEFINE t == Append(stk, fr)
           n == Len(stk) + 1
<1>1. stk \in Seq(FrameSet(pr)) /\ fr \in FrameSet(pr)
  BY DEF StackInv, FrameOK
<1>2. /\ t \in Seq(FrameSet(pr)) /\ Len(t) = n /\ t[n] = fr /\ \A i \in 1 .. Len(stk) : t[i] = stk[i]
      /\ Len(stk) \in Nat \ {0}
  BY <1>1
<1>3. DOMAIN stk = 1 .. n - 1 /\ DOMAIN t = 1 .. n /\ n \in Nat /\ \A i \in DOMAIN stk : t[i] = stk[i]
  BY <1>1, <1>2
<1> HIDE DEF t
<1>4. Slots(pr, fr) \subseteq DOMAIN fr.regs \ {1, 2} /\ \A s \in Slots(pr, fr) : fr.regs[s] = 0
  BY SlotsThere
<1>5. \A i \in DOMAIN stk : \A h : Lent(pr, t, i, h) <=> Lent(pr, stk, i, h)
  <2>1. TAKE i \in DOMAIN stk
  <2>2. \A j \in 1 .. i - 1 : t[j] = stk[j]
    BY <1>3
  <2>. QED BY <2>2 DEF Lent
<1>6. \A i \in DOMAIN stk : FrameOK(pr, vals, t[i]) /\ InPlace(pr, vals, t, i)
  <2>1. TAKE i \in DOMAIN stk
  <2>2. FrameOK(pr, vals, stk[i]) /\ InPlace(pr, vals, stk, i) /\ t[i] = stk[i]
    BY <1>3 DEF StackInv
  <2>. QED BY <1>5, <2>2 DEF InPlace
<1>7. InPlace(pr, vals, t, n)
  <2>1. ASSUME NEW r \in DOMAIN fr.regs, fr.regs[r] \in AtRisk(vals)
        PROVE  r = 2 /\ 2 \notin Escapes(pr[fr.fn]) /\ Lent(pr, t, n, fr.regs[2])
    <3>1. r # 1
      BY <2>1 DEF Quiet
    <3>2. r = 2
      BY <2>1, <3>1, TableTypes DEF Quiet
    <3>3. PICK j \in DOMAIN stk : \E s \in Slots(pr, stk[j]) : stk[j].regs[s] = fr.regs[2]
      BY <2>1, <3>2
    <3>4. j \in 1 .. n - 1 /\ t[j] = stk[j]
      BY <1>3
    <3>5. Lent(pr, t, n, fr.regs[2])
      BY <3>3, <3>4 DEF Lent
    <3>. QED BY <2>1, <3>2, <3>5
  <2>. QED BY <1>2, <2>1 DEF InPlace
<1>8. \A i \in DOMAIN t : FrameOK(pr, vals, t[i]) /\ InPlace(pr, vals, t, i)
  BY <1>2, <1>3, <1>6, <1>7
<1>9. \A i \in 1 .. Len(t) - 1 : Calls(pr, t[i])
  <2>1. TAKE i \in 1 .. Len(t) - 1
  <2>2. t[i] = stk[i]
    BY <1>2, <1>3
  <2>3. CASE i = Len(stk)
    BY <2>2, <2>3
  <2>4. CASE i # Len(stk)
    BY <1>2, <2>2, <2>4 DEF StackInv
  <2>. QED BY <2>3, <2>4
<1>10. Apart(pr, t)
  <2>1. Apart(pr, stk)
    BY DEF StackInv
  <2>2. ASSUME NEW i \in DOMAIN t, NEW j \in DOMAIN t, NEW a \in Slots(pr, t[i]), NEW b \in Slots(pr, t[j]),
               t[i].regs[a] = t[j].regs[b], t[i].regs[a] # 0
        PROVE  i = j /\ a = b
    <3>1. i # n /\ j # n
      BY <1>2, <1>4, <2>2
    <3>2. i \in DOMAIN stk /\ j \in DOMAIN stk
      BY <1>3, <3>1
    <3>. QED BY <1>3, <2>1, <2>2, <3>2 DEF Apart
  <2>. QED BY <2>2 DEF Apart
<1>11. StackInv(pr, vals, t)
  BY <1>2, <1>8, <1>9, <1>10 DEF StackInv
<1>12. LiveInv(pr, clr, t, Len(t))
  <2>1. ASSUME NEW i \in DOMAIN t, NEW s \in Slots(pr, t[i]) PROVE t[i].regs[s] \notin clr
    <3>1. CASE i = n
      BY <1>2, <1>4, <2>1, <3>1
    <3>2. CASE i # n
      BY <1>3, <2>1, <3>2 DEF LiveInv
    <3>. QED BY <3>1, <3>2
  <2>. QED BY <2>1 DEF LiveInv
<1>13. OwnInv(pr, vals, clr, t)
  BY <1>3 DEF OwnInv
<1>. QED BY <1>2, <1>11, <1>12, <1>13 DEF t

Held(pr, fr) == {fr.regs[s] : s \in Slots(pr, fr)}

\* A frame ends, and what its slots hold goes with it.
LEMMA Popped ==
  ASSUME NEW pr, Good(pr), NEW vals \in Seq(Values(pr)), NEW stk, StackInv(pr, vals, stk), stk # <<>>,
         NEW clr, NEW gone, LiveInv(pr, clr, stk, Len(stk) - 1), gone \subseteq Held(pr, stk[Len(stk)]) \ {0},
         OwnInv(pr, vals, clr, stk), Held(pr, stk[Len(stk)]) \cap AtRisk(vals) \subseteq gone
  PROVE  LET t == Pop(stk) IN
         /\ StackInv(pr, vals, t) /\ Len(t) = Len(stk) - 1 /\ Len(t) \in Nat
         /\ \A i \in DOMAIN t : i \in DOMAIN stk /\ t[i] = stk[i] /\ Calls(pr, t[i])
         /\ LiveInv(pr, clr \cup gone, t, Len(t)) /\ OwnInv(pr, vals, clr \cup gone, t)
<1> DEFINE t == Pop(stk)
           n == Len(stk)
           held == Held(pr, stk[n])
<1>1. stk \in Seq(FrameSet(pr))
  BY DEF StackInv
<1>2. n \in Nat \ {0} /\ DOMAIN stk = 1 .. n
  BY <1>1
<1>3. t \in Seq(FrameSet(pr)) /\ Len(t) = n - 1 /\ DOMAIN t = 1 .. n - 1 /\ \A i \in 1 .. n - 1 : t[i] = stk[i]
  BY <1>1, <1>2 DEF Pop
<1> HIDE DEF t, held
<1>4. \A i \in DOMAIN t : i \in DOMAIN stk /\ t[i] = stk[i]
  BY <1>2, <1>3
<1>5. \A i \in DOMAIN t : \A h : Lent(pr, t, i, h) <=> Lent(pr, stk, i, h)
  <2>1. TAKE i \in DOMAIN t
  <2>2. \A j \in 1 .. i - 1 : t[j] = stk[j]
    BY <1>2, <1>3
  <2>. QED BY <2>2 DEF Lent
<1>6. \A i \in DOMAIN t : FrameOK(pr, vals, t[i]) /\ InPlace(pr, vals, t, i)
  <2>1. TAKE i \in DOMAIN t
  <2>2. FrameOK(pr, vals, stk[i]) /\ InPlace(pr, vals, stk, i) /\ t[i] = stk[i]
    BY <1>4 DEF StackInv
  <2>. QED BY <1>5, <2>2 DEF InPlace
<1>7. \A i \in DOMAIN t : Calls(pr, t[i])
  BY <1>3 DEF StackInv
<1>8. Apart(pr, t)
  BY <1>4 DEF StackInv, Apart
<1>9. StackInv(pr, vals, t)
  <2>1. \A i \in 1 .. Len(t) - 1 : Calls(pr, t[i])
    BY <1>2, <1>3, <1>7
  <2>. QED BY <1>3, <1>6, <1>8, <2>1 DEF StackInv
<1>10. LiveInv(pr, clr \cup gone, t, Len(t))
  <2>1. ASSUME NEW i \in DOMAIN t, NEW s \in Slots(pr, t[i]) PROVE t[i].regs[s] \notin clr \cup gone
    <3>1. t[i] = stk[i] /\ i \in 1 .. n - 1 /\ i \in DOMAIN stk /\ n \in DOMAIN stk /\ i # n
      BY <1>2, <1>3
    <3>2. stk[i].regs[s] \notin clr
      BY <2>1, <3>1 DEF LiveInv
    <3>3. stk[i].regs[s] \notin held \ {0}
      BY <2>1, <3>1 DEF StackInv, Apart, held, Held
    <3>. QED BY <3>1, <3>2, <3>3 DEF held
  <2>. QED BY <2>1 DEF LiveInv
<1>11. OwnInv(pr, vals, clr \cup gone, t)
  <2>1. ASSUME NEW h \in AtRisk(vals) \ (clr \cup gone)
        PROVE  \E i \in DOMAIN t : \E s \in Slots(pr, t[i]) : t[i].regs[s] = h
    <3>1. PICK i \in DOMAIN stk : \E s \in Slots(pr, stk[i]) : stk[i].regs[s] = h
      BY DEF OwnInv
    <3>2. i # n
      BY <2>1, <3>1 DEF Held
    <3>3. i \in DOMAIN t /\ t[i] = stk[i]
      BY <1>2, <1>3, <3>2
    <3>. QED BY <3>1, <3>3
  <2>. QED BY <2>1 DEF OwnInv
<1>12. Len(t) = n - 1 /\ Len(t) \in Nat /\ \A i \in DOMAIN t : i \in DOMAIN stk /\ t[i] = stk[i] /\ Calls(pr, t[i])
  BY <1>2, <1>3, <1>4, <1>7
<1>. QED BY <1>9, <1>10, <1>11, <1>12 DEF t, held

-----------------------------------------------------------------------------
(* The running frame.                                                      *)

LEMMA Parts ==
  ASSUME IInv
  PROVE  /\ Good(prog) /\ values \in Seq(Values(prog)) /\ cleared \subseteq AtRisk(values) /\ 0 \notin cleared
         /\ stack \in Seq(FrameSet(prog)) /\ Len(stack) \in Nat /\ DOMAIN stack = 1 .. Len(stack)
<1>1. Good(prog)
  BY ProgramsAssumption DEF IInv, Good
<1>2. values \in Seq(Values(prog)) /\ cleared \subseteq AtRisk(values) /\ stack \in Seq(FrameSet(prog))
  BY DEF IInv, HeapInv, StackInv
<1>3. 0 \notin cleared
  BY <1>2, TableTypes DEF AtRisk
<1>. QED BY <1>1, <1>2, <1>3

LEMMA Running ==
  ASSUME IInv, stack # <<>>
  PROVE  /\ Frame = stack[Len(stack)] /\ Len(stack) \in DOMAIN stack /\ Len(stack) \in Nat \ {0}
         /\ FrameOK(prog, values, Frame) /\ InPlace(prog, values, stack, Len(stack))
         /\ Frame.fn \in DOMAIN prog /\ Fn = prog[Frame.fn] /\ ThisBlock = Fn.blocks[Frame.bi]
         /\ Frame.bi \in DOMAIN Fn.blocks /\ Frame.ii \in Nat \ {0} /\ Frame \in FrameSet(prog)
         /\ Len(ThisBlock.insts) \in Nat /\ DOMAIN ThisBlock.insts = 1 .. Len(ThisBlock.insts)
         /\ Slots(prog, Frame) = RelSlots(Fn)
<1>1. /\ Good(prog) /\ Len(stack) \in DOMAIN stack /\ Len(stack) \in Nat \ {0} /\ Frame = stack[Len(stack)]
  BY Parts DEF Frame
<1>2. FrameOK(prog, values, Frame) /\ InPlace(prog, values, stack, Len(stack))
  BY <1>1 DEF IInv, StackInv
<1>3. Frame.fn \in DOMAIN prog /\ Frame.bi \in DOMAIN prog[Frame.fn].blocks /\ Frame.ii \in Nat \ {0} /\ Frame \in FrameSet(prog)
  BY <1>2 DEF FrameOK, FrameSet
<1>4. Fn = prog[Frame.fn] /\ ThisBlock = Fn.blocks[Frame.bi] /\ Slots(prog, Frame) = RelSlots(Fn)
  BY DEF Fn, ThisBlock, Slots
<1>5. Len(ThisBlock.insts) \in Nat /\ DOMAIN ThisBlock.insts = 1 .. Len(ThisBlock.insts)
  BY <1>1, <1>3, <1>4, OfTerm
<1>. QED BY <1>1, <1>2, <1>3, <1>4, <1>5

\* What an instruction reads is not cleared; what may outlive the frame is not at risk.
LEMMA Operand ==
  ASSUME IInv, exc = None, stack # <<>>, NEW o \in 0 .. Fn.size
  PROVE  /\ Rd(o) \in Handles(values) /\ Rd(o) \notin cleared
         /\ o \in Escapes(Fn) => Rd(o) \in Quiet(values)
         /\ Rd(o) \in AtRisk(values) =>
              \E j \in DOMAIN stack : \E s \in Slots(prog, stack[j]) : stack[j].regs[s] = Rd(o)
<1> DEFINE n == Len(stack)
<1>1. /\ Frame = stack[n] /\ n \in DOMAIN stack /\ n \in Nat \ {0} /\ FrameOK(prog, values, Frame)
      /\ InPlace(prog, values, stack, n) /\ Frame.fn \in DOMAIN prog /\ Fn = prog[Frame.fn]
      /\ Slots(prog, Frame) = RelSlots(Fn)
  BY Running
<1>2. /\ Good(prog) /\ values \in Seq(Values(prog)) /\ cleared \subseteq AtRisk(values) /\ 0 \notin cleared
      /\ DOMAIN stack = 1 .. n
  BY Parts
<1>3. LiveInv(prog, cleared, stack, n)
  BY DEF IInv, Going
<1>4. CASE o = 0
  <2>1. Rd(o) = 0 /\ 0 \in Quiet(values) /\ 0 \in Handles(values)
    BY <1>2, <1>4, TableTypes DEF Rd
  <2>. QED BY <1>2, <2>1 DEF Quiet
<1>5. CASE o # 0
  <2>1. Rd(o) = Frame.regs[o] /\ o \in DOMAIN Frame.regs /\ Rd(o) \in Handles(values)
    BY <1>1, <1>2, <1>5, SlotsThere DEF Rd
  <2>2. ASSUME Rd(o) \in AtRisk(values)
        PROVE  o \in RelSlots(Fn) \/ (o = 2 /\ 2 \notin Escapes(Fn) /\ Lent(prog, stack, n, Rd(o)))
    BY <1>1, <2>1, <2>2 DEF InPlace
  <2>3. RelSlots(Fn) \cap Escapes(Fn) = {}
    BY <1>1, <1>2, OfProgram
  <2>4. ASSUME Rd(o) \in AtRisk(values)
        PROVE  \E j \in DOMAIN stack : \E s \in Slots(prog, stack[j]) : stack[j].regs[s] = Rd(o)
    <3>1. CASE o \in RelSlots(Fn)
      BY <1>1, <2>1, <3>1
    <3>2. CASE Lent(prog, stack, n, Rd(o))
      <4>1. PICK j \in 1 .. n - 1 : \E s \in Slots(prog, stack[j]) : stack[j].regs[s] = Rd(o)
        BY <3>2 DEF Lent
      <4>2. j \in DOMAIN stack
        BY <1>1, <1>2
      <4>. QED BY <4>1, <4>2
    <3>. QED BY <2>2, <2>4, <3>1, <3>2
  <2>5. Rd(o) \notin cleared
    <3>1. SUFFICES ASSUME Rd(o) \in cleared PROVE FALSE
      OBVIOUS
    <3>2. PICK j \in DOMAIN stack : \E s \in Slots(prog, stack[j]) : stack[j].regs[s] = Rd(o)
      BY <1>2, <2>4, <3>1
    <3>. QED BY <1>2, <1>3, <3>1, <3>2 DEF LiveInv
  <2>. QED BY <2>1, <2>2, <2>3, <2>4, <2>5 DEF Quiet
<1>. QED BY <1>4, <1>5

LEMMA Instruction ==
  ASSUME IInv, AtInst
  PROVE  /\ stack # <<>> /\ exc = None /\ Frame.ii \in DOMAIN ThisBlock.insts
         /\ Inst.op \in Ops /\ Inst.fn \in DOMAIN prog /\ Inst.dst \in 3 .. Fn.size
         /\ Inst.dst \in RelSlots(Fn) => Inst.op \in RelNew
         /\ \A k \in 1 .. Arity(Inst.op) :
              /\ Inst.args[k] \in 0 .. Fn.size /\ Inst.args[k] # Inst.dst
              /\ Arg(k) \in Handles(values) /\ Arg(k) \notin cleared
              /\ k \notin Thru(Inst.op) => Arg(k) \in Quiet(values)
              /\ Arg(k) \in AtRisk(values) =>
                   \E j \in DOMAIN stack : \E s \in Slots(prog, stack[j]) : stack[j].regs[s] = Arg(k)
<1>1. stack # <<>> /\ exc = None /\ Frame.ii <= Len(ThisBlock.insts)
  BY DEF AtInst
<1>2. Good(prog)
  BY Parts
<1>3. /\ Frame.fn \in DOMAIN prog /\ Fn = prog[Frame.fn] /\ ThisBlock = Fn.blocks[Frame.bi]
      /\ Frame.bi \in DOMAIN Fn.blocks /\ Frame.ii \in Nat \ {0}
      /\ Len(ThisBlock.insts) \in Nat /\ DOMAIN ThisBlock.insts = 1 .. Len(ThisBlock.insts)
  BY <1>1, Running
<1>4. Frame.ii \in DOMAIN ThisBlock.insts
  BY <1>1, <1>3
<1>5. Inst = prog[Frame.fn].blocks[Frame.bi].insts[Frame.ii]
  BY <1>3 DEF Inst
<1> DEFINE in == prog[Frame.fn].blocks[Frame.bi].insts[Frame.ii]
           f == prog[Frame.fn]
<1>8. /\ Frame.bi \in DOMAIN prog[Frame.fn].blocks
      /\ Frame.ii \in DOMAIN prog[Frame.fn].blocks[Frame.bi].insts
  BY <1>3, <1>4
<1>9. /\ in.op \in Ops /\ in.fn \in DOMAIN prog /\ in.dst \in 3 .. f.size
      /\ in.args \in Seq(0 .. f.size) /\ Len(in.args) = Arity(in.op)
      /\ \A k \in DOMAIN in.args : in.args[k] # in.dst
      /\ \A k \in DOMAIN in.args \ Thru(in.op) : in.args[k] \in Escapes(f)
      /\ in.dst \in RelSlots(f) => in.op \in RelNew
  BY <1>2, <1>3, <1>8, OfInst
<1>10. in = Inst /\ f = Fn
  BY <1>3, <1>5
<1> HIDE DEF in, f
<1>6. /\ Inst.op \in Ops /\ Inst.fn \in DOMAIN prog /\ Inst.dst \in 3 .. Fn.size
      /\ Inst.args \in Seq(0 .. Fn.size) /\ Len(Inst.args) = Arity(Inst.op)
      /\ \A k \in DOMAIN Inst.args : Inst.args[k] # Inst.dst
      /\ \A k \in DOMAIN Inst.args \ Thru(Inst.op) : Inst.args[k] \in Escapes(Fn)
      /\ Inst.dst \in RelSlots(Fn) => Inst.op \in RelNew
  BY <1>9, <1>10
<1>7. ASSUME NEW k \in 1 .. Arity(Inst.op)
      PROVE  /\ Inst.args[k] \in 0 .. Fn.size /\ Inst.args[k] # Inst.dst
             /\ Arg(k) \in Handles(values) /\ Arg(k) \notin cleared
             /\ k \notin Thru(Inst.op) => Arg(k) \in Quiet(values)
             /\ Arg(k) \in AtRisk(values) =>
                  \E j \in DOMAIN stack : \E s \in Slots(prog, stack[j]) : stack[j].regs[s] = Arg(k)
  <2>1. k \in DOMAIN Inst.args
    BY <1>6
  <2>2. Inst.args[k] \in 0 .. Fn.size
    BY <1>6, <2>1, ElementOf
  <2>. QED BY <1>1, <1>6, <2>1, <2>2, Operand DEF Arg
<1>. QED BY <1>1, <1>4, <1>6, <1>7

-----------------------------------------------------------------------------
(* An instruction's result.                                                *)

TopOf(stk) == stk[Len(stk)]
InstOf(pr, fr) == pr[fr.fn].blocks[fr.bi].insts[fr.ii]
NextOf(pr, fr, h) == [fr EXCEPT !.regs[InstOf(pr, fr).dst] = h, !.ii = @ + 1]
AtInstOf(pr, fr) == fr.ii <= Len(pr[fr.fn].blocks[fr.bi].insts)

LEMMA Moved ==
  ASSUME NEW F, NEW fr \in [fn: F, regs: Seq(Nat), bi: Nat, ii: Nat], NEW x \in Seq(Nat), NEW y \in Nat
  PROVE  [fr EXCEPT !.regs = x, !.ii = y] \in [fn: F, regs: Seq(Nat), bi: Nat, ii: Nat]
  OBVIOUS

LEMMA Stepped ==
  ASSUME NEW F, NEW fr \in [fn: F, regs: Seq(Nat), bi: Nat, ii: Nat], NEW d, NEW h,
         [fr.regs EXCEPT ![d] = h] \in Seq(Nat)
  PROVE  LET to == [fr EXCEPT !.regs[d] = h, !.ii = @ + 1] IN
         /\ to \in [fn: F, regs: Seq(Nat), bi: Nat, ii: Nat]
         /\ to.fn = fr.fn /\ to.bi = fr.bi /\ to.ii = fr.ii + 1 /\ to.regs = [fr.regs EXCEPT ![d] = h]
<1>1. PICK x \in Seq(Nat) : x = [fr.regs EXCEPT ![d] = h]
  OBVIOUS
<1>2. [fr EXCEPT !.regs[d] = h, !.ii = @ + 1] = [fr EXCEPT !.regs = x, !.ii = fr.ii + 1]
  BY <1>1
<1>3. PICK y \in Nat : y = fr.ii + 1
  OBVIOUS
<1>4. [fr EXCEPT !.regs[d] = h, !.ii = @ + 1] \in [fn: F, regs: Seq(Nat), bi: Nat, ii: Nat]
  BY <1>2, <1>3, Moved
<1>. QED BY <1>4

LEMMA RegisterSet ==
  ASSUME NEW n \in Nat, NEW H \in SUBSET Nat, NEW f \in [1 .. n -> H], NEW d \in 1 .. n, NEW h \in H
  PROVE  LET g == [f EXCEPT ![d] = h] IN
         g \in Seq(Nat) /\ g \in [1 .. n -> H] /\ g[d] = h /\ \A r \in 1 .. n \ {d} : g[r] = f[r]
<1> DEFINE g == [f EXCEPT ![d] = h]
<1>1. g \in [1 .. n -> H] /\ g[d] = h /\ \A r \in 1 .. n \ {d} : g[r] = f[r]
  OBVIOUS
<1> HIDE DEF g
<1>2. g \in [1 .. n -> Nat]
  BY <1>1
<1>3. g \in Seq(Nat)
  BY <1>2
<1>. QED BY <1>1, <1>3 DEF g

LEMMA NextFrame ==
  ASSUME Good(prog), NEW vals \in Seq(Values(prog)), NEW fr, FrameOK(prog, vals, fr), AtInstOf(prog, fr),
         NEW h \in Handles(vals), InstOf(prog, fr).dst \in Slots(prog, fr) => vals[h].rel
  PROVE  LET d == InstOf(prog, fr).dst
             to == NextOf(prog, fr, h) IN
         /\ FrameOK(prog, vals, to) /\ to.fn = fr.fn /\ DOMAIN to.regs = DOMAIN fr.regs
         /\ d \in DOMAIN fr.regs \ {1, 2} /\ to.regs[d] = h
         /\ \A r \in DOMAIN to.regs \ {d} : to.regs[r] = fr.regs[r]
<1> DEFINE d == InstOf(prog, fr).dst
           to == [fr EXCEPT !.regs[d] = h, !.ii = @ + 1]
           n == prog[fr.fn].size
<1>1. /\ fr \in FrameSet(prog) /\ fr.fn \in DOMAIN prog /\ fr.regs \in Seq(Nat) /\ fr.bi \in DOMAIN prog[fr.fn].blocks
      /\ fr.ii \in Nat /\ fr.ii >= 1 /\ fr.regs \in [1 .. n -> Handles(vals)] /\ fr.bi \in Nat
      /\ \A s \in Slots(prog, fr) : fr.regs[s] = 0 \/ vals[fr.regs[s]].rel
  BY DEF FrameOK, FrameSet
<1>2. fr.ii \in DOMAIN prog[fr.fn].blocks[fr.bi].insts
  BY <1>1, OfTerm DEF AtInstOf
<1>3. d \in 3 .. n /\ n \in Nat
  BY <1>1, <1>2, OfInst, OfProgram DEF InstOf
<1> HIDE DEF d, n
<1>4. Handles(vals) \in SUBSET Nat /\ d \in 1 .. n
  BY <1>3, TableTypes
<1>5. LET g == [fr.regs EXCEPT ![d] = h] IN
      g \in Seq(Nat) /\ g \in [1 .. n -> Handles(vals)] /\ g[d] = h /\ \A r \in 1 .. n \ {d} : g[r] = fr.regs[r]
  BY <1>1, <1>3, <1>4, RegisterSet
<1>6. to \in FrameSet(prog) /\ to.fn = fr.fn /\ to.bi = fr.bi /\ to.ii = fr.ii + 1 /\ to.regs = [fr.regs EXCEPT ![d] = h]
  BY <1>1, <1>5, Stepped DEF FrameSet
<1> HIDE DEF to
<1>7. /\ to.regs \in Seq(Nat) /\ to.regs \in [1 .. n -> Handles(vals)]
      /\ to.regs[d] = h /\ \A r \in 1 .. n \ {d} : to.regs[r] = fr.regs[r]
  BY <1>5, <1>6
<1>8. DOMAIN to.regs = DOMAIN fr.regs /\ d \in DOMAIN fr.regs \ {1, 2} /\ DOMAIN fr.regs = 1 .. n
  BY <1>1, <1>3, <1>7
<1>9. Slots(prog, to) = Slots(prog, fr) /\ Slots(prog, fr) \subseteq DOMAIN fr.regs
  BY <1>6, SlotsThere DEF Slots
<1>10. \A s \in Slots(prog, to) : to.regs[s] = 0 \/ vals[to.regs[s]].rel
  <2>1. TAKE s \in Slots(prog, to)
  <2>2. CASE s = d
    BY <1>7, <1>9, <2>2 DEF d
  <2>3. CASE s # d
    BY <1>1, <1>7, <1>8, <1>9, <2>3
  <2>. QED BY <2>2, <2>3
<1>11. FrameOK(prog, vals, to)
  BY <1>1, <1>6, <1>7, <1>10 DEF FrameOK, n
<1>. QED BY <1>6, <1>7, <1>8, <1>11 DEF d, to, NextOf

\* The result is not at risk, and not that of a reclaimable call.
LEMMA Answered ==
  ASSUME Good(prog), NEW vals \in Seq(Values(prog)), NEW stk, StackInv(prog, vals, stk), stk # <<>>,
         AtInstOf(prog, TopOf(stk)), NEW h \in Quiet(vals),
         InstOf(prog, TopOf(stk)).dst \notin Slots(prog, TopOf(stk))
  PROVE  Follows(prog, vals, stk, Answer(stk, h))
<1> DEFINE fr == TopOf(stk)
           d == InstOf(prog, fr).dst
           to == NextOf(prog, fr, h)
<1>1. Answer(stk, h) = Top(stk, to)
  BY DEF Answer, Top, TopOf, InstOf, NextOf
<1>2. FrameOK(prog, vals, fr) /\ fr = stk[Len(stk)]
  BY DEF StackInv, TopOf
<1>3. h \in Handles(vals)
  BY DEF Quiet
<1>4. AtInstOf(prog, fr) /\ d \notin Slots(prog, fr)
  OBVIOUS
<1> HIDE DEF fr
<1>5. /\ FrameOK(prog, vals, to) /\ to.fn = fr.fn /\ DOMAIN to.regs = DOMAIN fr.regs
      /\ d \in DOMAIN fr.regs \ {1, 2} /\ to.regs[d] = h
      /\ \A r \in DOMAIN to.regs \ {d} : to.regs[r] = fr.regs[r]
  BY <1>2, <1>3, <1>4, NextFrame
<1>6. Slots(prog, to) = Slots(prog, fr) /\ d \notin Slots(prog, to)
  BY <1>4, <1>5 DEF Slots
<1> HIDE DEF d, to
<1>7. GoesOn(prog, vals, stk[Len(stk)], to)
  BY <1>2, <1>5, <1>6 DEF GoesOn
<1>. QED BY <1>1, <1>7, Retopped

-----------------------------------------------------------------------------
(* What a step has to show.                                                *)

\* Nothing is put at risk or released.
LEMMA Proceeds ==
  ASSUME IInv, exc = None, exc' = None, prog' = prog, cleared' = cleared, stale' = FALSE, steps' \in Nat,
         HeapInv(prog, values', cleared, arena'), AtRisk(values') \subseteq AtRisk(values),
         Follows(prog, values', stack, stack')
  PROVE  IInv'
<1>1. /\ prog \in Programs /\ LiveInv(prog, cleared, stack, Len(stack)) /\ OwnInv(prog, values, cleared, stack)
  BY DEF IInv, Going
<1>2. OwnInv(prog, values', cleared, stack)
  BY <1>1 DEF OwnInv
<1>3. /\ StackInv(prog, values', stack') /\ Len(stack') = Len(stack)
      /\ LiveInv(prog, cleared, stack', Len(stack)) /\ OwnInv(prog, values', cleared, stack')
  BY <1>1, <1>2 DEF Follows
<1>4. Going' = Len(stack)
  BY <1>3 DEF Going
<1>. QED BY <1>1, <1>3, <1>4 DEF IInv

\* A panic: what the running frame may have released, it does not read again.
LEMMA Fails ==
  ASSUME IInv, exc = None, stack # <<>>, exc' \in {"throw", "fail", "limit"},
         prog' = prog, values' = values, cleared' = cleared, arena' = arena, stack' = stack,
         stale' = FALSE, steps' \in Nat
  PROVE  IInv'
<1>1. LiveInv(prog, cleared, stack, Len(stack)) /\ Len(stack) \in Nat /\ Len(stack) # 0
  <2>1. Len(stack) \in Nat \ {0}
    BY Running
  <2>. QED BY <2>1 DEF IInv, Going
<1>2. LiveInv(prog, cleared, stack, Len(stack) - 1)
  BY <1>1 DEF LiveInv
<1>3. Going' = Len(stack) - 1
  BY DEF Going, None
<1>. QED BY <1>2, <1>3 DEF IInv

\* The steps are counted.
LEMMA Counted ==
  ASSUME IInv, NEW ops, Runs(ops)
  PROVE  AtInst /\ Inst.op \in ops /\ prog' = prog /\ steps' \in Nat /\ exc = None /\ stack # <<>>
  BY DEF Runs, IInv, AtInst

\* The running frame is at its instruction.
LEMMA RunsInst ==
  ASSUME IInv, AtInst
  PROVE  AtInstOf(prog, TopOf(stack)) /\ InstOf(prog, TopOf(stack)) = Inst /\ TopOf(stack) = Frame
  BY DEF AtInst, AtInstOf, InstOf, TopOf, Inst, ThisBlock, Fn, Frame

LEMMA StepLimitKeeps == ASSUME IInv, StepLimit PROVE IInv'
<1>1. steps \in Nat /\ stale = FALSE
  BY DEF IInv
<1>. QED BY <1>1, Fails DEF StepLimit, Panics

LEMMA ThrowKeeps == ASSUME IInv, Throw PROVE IInv'
<1>1. AtInst /\ Inst.op = "js_throw" /\ prog' = prog /\ steps' \in Nat /\ exc = None /\ stack # <<>>
  <2>1. Runs({"js_throw"})
    BY DEF Throw
  <2>. QED BY <2>1, Counted
<1>2. Arg(1) \notin cleared
  <2>1. Arity(Inst.op) = 1
    BY <1>1 DEF Arity
  <2>. QED BY <1>1, <2>1, Instruction
<1>3. stale' = FALSE
  BY <1>2 DEF Throw, Reads, IInv
<1>. QED BY <1>1, <1>3, Fails DEF Throw, Panics

\* An instruction that is not reclaimable answers with a handle that is not at risk.
LEMMA AnswersQuiet ==
  ASSUME IInv, AtInst, Inst.op \in RelNew => Inst.dst \notin RelSlots(Fn), NEW vals \in Seq(Values(prog)), StackInv(prog, vals, stack), NEW h \in Quiet(vals)
  PROVE  Follows(prog, vals, stack, Answer(stack, h))
<1>1. Inst.dst \notin RelSlots(Fn) /\ stack # <<>>
  BY Instruction
<1>2. Slots(prog, TopOf(stack)) = RelSlots(Fn)
  BY <1>1, Running, RunsInst
<1>. QED BY <1>1, <1>2, Parts, RunsInst, Answered

LEMMA MoveKeeps == ASSUME IInv, Move PROVE IInv'
<1>1. AtInst /\ Inst.op \in {"store", "load", "select"} /\ prog' = prog /\ steps' \in Nat /\ exc = None /\ stack # <<>>
  <2>1. Runs({"store", "load", "select"})
    BY DEF Move
  <2>. QED BY <2>1, Counted
<1>2. PICK h \in CASE Inst.op = "select" -> {Arg(1), Arg(2)} [] Inst.op = "load" -> {arena} [] OTHER -> {Undefined} :
        stack' = Answer(stack, h)
  BY DEF Move
<1>3. /\ Thru(Inst.op) = {}
      /\ Arity(Inst.op) = IF Inst.op = "load" THEN 0 ELSE IF Inst.op = "select" THEN 2 ELSE 1
  BY <1>1 DEF Thru, Arity
<1>4. values \in Seq(Values(prog)) /\ arena \in Quiet(values) /\ HeapInv(prog, values, cleared, arena) /\ StackInv(prog, values, stack)
  BY DEF IInv, HeapInv
<1>5. \A k \in 1 .. Arity(Inst.op) : Arg(k) \in Quiet(values)
  BY <1>1, <1>3, Instruction
<1>6. h \in Quiet(values)
  <2>1. CASE Inst.op = "select"
    BY <1>2, <1>3, <1>5, <2>1
  <2>2. CASE Inst.op = "load"
    BY <1>2, <1>4, <2>2
  <2>3. CASE Inst.op = "store"
    BY <1>2, <1>4, <2>3, TableTypes DEF Undefined
  <2>. QED BY <1>1, <2>1, <2>2, <2>3
<1>7. arena' \in Quiet(values)
  BY <1>3, <1>4, <1>5 DEF Move
<1>8. HeapInv(prog, values, cleared, arena')
  BY <1>4, <1>7 DEF HeapInv
<1>9. Inst.op \notin RelNew
  BY <1>1 DEF RelNew
<1>10. Follows(prog, values, stack, stack')
  BY <1>1, <1>2, <1>4, <1>6, <1>9, AnswersQuiet
<1>. QED BY <1>1, <1>8, <1>10, Proceeds DEF Move, IInv

LEMMA TakeKeeps == ASSUME IInv, Take PROVE IInv'
<1>1. AtInst /\ Inst.op \in {"js_arg", "js_scope_get"} /\ prog' = prog /\ steps' \in Nat /\ exc = None /\ stack # <<>>
  <2>1. Runs({"js_arg", "js_scope_get"})
    BY DEF Take
  <2>. QED BY <2>1, Counted
<1>2. Arg(1) \notin cleared
  <2>1. Arity(Inst.op) = 1
    BY <1>1 DEF Arity
  <2>. QED BY <1>1, <2>1, Instruction
<1>3. stale' = FALSE
  BY <1>2 DEF Take, Reads, IInv
<1>4. /\ values \in Seq(Values(prog)) /\ HeapInv(prog, values, cleared, arena) /\ StackInv(prog, values, stack)
      /\ \A h \in DOMAIN values : \A i \in DOMAIN values[h].elems : values[h].elems[i] \in Quiet(values)
  BY DEF IInv, HeapInv, ValueOK
<1>5. CASE Panics("fail")
  BY <1>1, <1>3, <1>5, Fails DEF Panics
<1>6. CASE ~Panics("fail")
  <2>1. UNCHANGED <<values, cleared, arena, pool, exc>>
    BY <1>6 DEF Take
  <2>2. \/ stack' = Answer(stack, Undefined)
        \/ \E h \in DOMAIN values : \E i \in DOMAIN values[h].elems : stack' = Answer(stack, values[h].elems[i])
    BY <1>6 DEF Take
  <2>3. PICK h \in Quiet(values) : stack' = Answer(stack, h)
    BY <1>4, <2>2, TableTypes DEF Undefined
  <2>4. Follows(prog, values, stack, stack')
    BY <1>1, <1>4, <2>3, AnswersQuiet DEF RelNew
  <2>. QED BY <1>1, <1>3, <1>4, <2>1, <2>4, Proceeds
<1>. QED BY <1>5, <1>6

LEMMA MakeClosureKeeps == ASSUME IInv, MakeClosure PROVE IInv'
<1>1. AtInst /\ Inst.op = "js_closure" /\ prog' = prog /\ steps' \in Nat /\ exc = None /\ stack # <<>>
  <2>1. Runs({"js_closure"})
    BY DEF MakeClosure
  <2>. QED BY <2>1, Counted
<1>2. Arg(1) \in Quiet(values) /\ Arg(1) \in Nat /\ Inst.fn \in DOMAIN prog
  <2>1. Arity(Inst.op) = 1 /\ Thru(Inst.op) = {}
    BY <1>1 DEF Arity, Thru
  <2>2. Handles(values) \subseteq Nat
    BY Parts, TableTypes
  <2>. QED BY <1>1, <2>1, <2>2, Instruction
<1>3. /\ values \in Seq(Values(prog)) /\ HeapInv(prog, values, cleared, arena) /\ StackInv(prog, values, stack)
      /\ stale = FALSE
  BY DEF IInv, HeapInv
<1>4. PICK v : v = Closure(Inst.fn, Arg(1))
  OBVIOUS
<1>5. v \in Values(prog) /\ ~v.pinned /\ ~v.rel
  BY <1>2, <1>4 DEF Values, Closure
<1>6. ValueOK(prog, values, v)
  BY <1>2, <1>4 DEF ValueOK, Closure, Quiet
<1>7. PICK w : w = Append(values, v)
  OBVIOUS
<1>8. PICK n : n = Len(values) + 1
  OBVIOUS
<1>9. /\ HeapInv(prog, w, cleared, arena) /\ n \in Handles(w)
      /\ n \notin Handles(values)
      /\ \A h \in DOMAIN values : w[h] = values[h]
      /\ Handles(values) \subseteq Handles(w) /\ AtRisk(w) = AtRisk(values)
  <2>1. Grew(prog, values, cleared, arena, v, w, n)
    BY <1>3, <1>5, <1>6, <1>7, <1>8, Grown
  <2>. QED BY <1>5, <2>1 DEF Grew
<1>10. n \in Quiet(w) /\ w \in Seq(Values(prog))
  BY <1>3, <1>9, TableTypes DEF Quiet, AtRisk, HeapInv
<1>11. StackInv(prog, w, stack)
  BY <1>3, <1>9, Parts, Resettled
<1>12. values' = w /\ stack' = Answer(stack, n) /\ UNCHANGED <<cleared, arena, exc, stale>>
  BY <1>4, <1>7, <1>8 DEF MakeClosure
<1>13. Follows(prog, w, stack, stack')
  BY <1>1, <1>10, <1>11, <1>12, AnswersQuiet DEF RelNew
<1>. QED BY <1>1, <1>3, <1>9, <1>12, <1>13, Proceeds

LEMMA Filled ==
  ASSUME NEW pr, NEW v \in Values(pr), NEW e \in Seq(Nat)
  PROVE  LET x == [v EXCEPT !.elems = e] IN
         /\ x \in Values(pr) /\ x.elems = e
         /\ x.kind = v.kind /\ x.parent = v.parent /\ x.pinned = v.pinned /\ x.fn = v.fn /\ x.rel = v.rel
  BY DEF Values

LEMMA PutKeeps == ASSUME IInv, Put PROVE IInv'
<1>1. AtInst /\ Inst.op \in {"js_arr_push", "js_scope_decl"} /\ prog' = prog /\ steps' \in Nat /\ exc = None /\ stack # <<>>
  <2>1. Runs({"js_arr_push", "js_scope_decl"})
    BY DEF Put
  <2>. QED BY <2>1, Counted
<1>2. Arg(1) \notin cleared /\ Arg(2) \notin cleared /\ Arg(2) \in Quiet(values) /\ Arg(2) \in Nat
  <2>1. Arity(Inst.op) = 2 /\ Thru(Inst.op) = {1}
    BY <1>1 DEF Arity, Thru
  <2>2. Handles(values) \subseteq Nat
    BY Parts, TableTypes
  <2>. QED BY <1>1, <2>1, <2>2, Instruction
<1>3. stale' = FALSE
  BY <1>2 DEF Put, Reads, IInv
<1>4. /\ values \in Seq(Values(prog)) /\ HeapInv(prog, values, cleared, arena) /\ StackInv(prog, values, stack)
      /\ cleared \subseteq AtRisk(values)
  BY DEF IInv, HeapInv
<1>5. CASE Panics("fail")
  BY <1>1, <1>3, <1>5, Fails DEF Panics
<1>6. CASE ~Panics("fail")
  <2>1. PICK into : into = Arg(1)
    OBVIOUS
  <2>2. PICK e : e = IF Inst.op = "js_arr_push" THEN Append(values[into].elems, Arg(2)) ELSE <<Arg(2)>>
    OBVIOUS
  <2>3. Unwrap(Arg(2)) = Arg(2)
    BY <1>2 DEF Unwrap
  <2>4. /\ values' = [values EXCEPT ![into].elems = e] /\ stack' = Answer(stack, Undefined)
        /\ UNCHANGED <<cleared, arena, pool, exc>>
    BY <1>6, <2>1, <2>2, <2>3 DEF Put
  <2>5. into \in DOMAIN values /\ values[into].kind \in {"array", "scope"}
    BY <1>6, <2>1 DEF Put, Is
  <2>6. values[into] \in Values(prog) /\ ValueOK(prog, values, values[into])
    BY <1>4, <2>5, TableTypes DEF HeapInv
  <2>7. e \in Seq(Nat) /\ \A i \in DOMAIN e : e[i] \in Quiet(values)
    <3>1. values[into].elems \in Seq(Nat) /\ \A i \in DOMAIN values[into].elems : values[into].elems[i] \in Quiet(values)
      BY <2>6 DEF Values, ValueOK
    <3>2. CASE Inst.op = "js_arr_push"
      BY <1>2, <2>2, <3>1, <3>2
    <3>3. CASE Inst.op # "js_arr_push"
      BY <1>2, <2>2, <3>3
    <3>. QED BY <3>2, <3>3
  <2>8. PICK v : v = [values[into] EXCEPT !.elems = e]
    OBVIOUS
  <2>9. /\ v \in Values(prog) /\ v.elems = e /\ v.kind = values[into].kind /\ v.parent = values[into].parent
        /\ v.pinned = values[into].pinned /\ v.fn = values[into].fn /\ v.rel = values[into].rel
    BY <2>6, <2>7, <2>8, Filled
  <2>10. ValueOK(prog, values, v)
    BY <2>5, <2>6, <2>7, <2>9 DEF ValueOK
  <2>11. PICK w : w = SetTo(values, into, v)
    OBVIOUS
  <2>12. values' = w
    BY <2>4, <2>8, <2>11 DEF SetTo
  <2>13. v.pinned => into \notin cleared
    BY <1>4, <2>9 DEF AtRisk
  <2>14. /\ HeapInv(prog, w, cleared, arena) /\ w \in Seq(Values(prog)) /\ Handles(w) = Handles(values)
         /\ w[into] = v /\ (\A x \in DOMAIN values \ {into} : w[x] = values[x])
         /\ AtRisk(w) \subseteq AtRisk(values)
    <3>1. Altered(prog, values, cleared, arena, into, v, w)
      BY <1>4, <2>5, <2>9, <2>10, <2>11, <2>13, Changed
    <3>. QED BY <3>1 DEF Altered
  <2>15. \A h \in DOMAIN values : w[h].rel = values[h].rel
    BY <2>9, <2>14
  <2>16. StackInv(prog, w, stack)
    BY <1>4, <2>14, <2>15, Parts, Resettled
  <2>17. 0 \in Quiet(w)
    BY <2>14, TableTypes
  <2>18. Follows(prog, w, stack, stack')
    BY <1>1, <2>4, <2>14, <2>16, <2>17, AnswersQuiet DEF RelNew, Undefined
  <2>. QED BY <1>1, <1>3, <2>4, <2>12, <2>14, <2>18, Proceeds
<1>. QED BY <1>5, <1>6

\* A reclaimable call reads nothing that its own slot holds, and no other slot holds it.
LEMMA OldIsAlone ==
  ASSUME IInv, AtInst, Inst.dst \in RelSlots(Fn), Frame.regs[Inst.dst] # 0
  PROVE  /\ \A k \in 1 .. Arity(Inst.op) : Arg(k) # Frame.regs[Inst.dst] \/ Arg(k) \notin AtRisk(values)
         /\ \A i \in 1 .. Len(stack) - 1 : \A s \in Slots(prog, stack[i]) : stack[i].regs[s] # Frame.regs[Inst.dst]
<1> DEFINE n == Len(stack)
           d == Inst.dst
<1>1. /\ stack # <<>> /\ Frame = stack[n] /\ n \in DOMAIN stack /\ n \in Nat \ {0} /\ InPlace(prog, values, stack, n)
      /\ Slots(prog, stack[n]) = RelSlots(Fn) /\ FrameOK(prog, values, Frame) /\ Fn = prog[Frame.fn]
      /\ Good(prog) /\ DOMAIN stack = 1 .. n
  <2>1. stack # <<>>
    BY Instruction
  <2>. QED BY <2>1, Running, Parts
<1>2. \A i, j \in DOMAIN stack : \A s \in Slots(prog, stack[i]), t \in Slots(prog, stack[j]) :
        stack[i].regs[s] = stack[j].regs[t] /\ stack[i].regs[s] # 0 => i = j /\ s = t
  BY DEF IInv, StackInv, Apart
<1>3. ASSUME NEW i \in 1 .. n - 1, NEW s \in Slots(prog, stack[i]) PROVE stack[i].regs[s] # Frame.regs[d]
  BY <1>1, <1>2
<1>4. ASSUME NEW k \in 1 .. Arity(Inst.op), Arg(k) = Frame.regs[d], Arg(k) \in AtRisk(values) PROVE FALSE
  <2>1. Inst.args[k] \in 0 .. Fn.size /\ Inst.args[k] # d
    BY Instruction
  <2>2. Arg(k) = Rd(Inst.args[k]) /\ Inst.args[k] # 0
    BY <1>4 DEF Arg, Rd
  <2>3. Arg(k) = stack[n].regs[Inst.args[k]]
    BY <1>1, <2>2 DEF Rd
  <2>4. Inst.args[k] \in DOMAIN stack[n].regs
    BY <1>1, <2>1, <2>2, SlotsThere
  <2>5. CASE Inst.args[k] \in Slots(prog, stack[n])
    <3>1. d \in Slots(prog, stack[n]) /\ stack[n].regs[d] = stack[n].regs[Inst.args[k]] /\ stack[n].regs[d] # 0
      BY <1>1, <1>4, <2>3
    <3>2. d = Inst.args[k]
      BY <1>1, <1>2, <2>5, <3>1
    <3>. QED BY <2>1, <3>2
  <2>6. CASE Inst.args[k] = 2 /\ Lent(prog, stack, n, stack[n].regs[2])
    <3>1. PICK j \in 1 .. n - 1 : \E s \in Slots(prog, stack[j]) : stack[j].regs[s] = stack[n].regs[2]
      BY <2>6 DEF Lent
    <3>. QED BY <1>3, <1>4, <2>3, <2>6, <3>1
  <2>. QED BY <1>1, <1>4, <2>3, <2>4, <2>5, <2>6 DEF InPlace
<1>. QED BY <1>3, <1>4

Gone == cleared \cup (IF Inst.dst \in RelSlots(Fn) THEN Release(values, {Frame.regs[Inst.dst]}) ELSE {})

LEMMA GoneIs ==
  ASSUME IInv, AtInst
  PROVE  /\ HeapInv(prog, values, Gone, arena) /\ cleared \subseteq Gone /\ Gone \subseteq AtRisk(values)
         /\ Inst.dst \notin RelSlots(Fn) => Gone = cleared
         /\ Inst.dst \in RelSlots(Fn) =>
              /\ Gone = cleared \cup ({Frame.regs[Inst.dst]} \cap AtRisk(values))
              /\ Frame.regs[Inst.dst] \in Handles(values)
<1>1. HeapInv(prog, values, cleared, arena) /\ values \in Seq(Values(prog))
  BY DEF IInv, HeapInv
<1>2. CASE Inst.dst \notin RelSlots(Fn)
  BY <1>1, <1>2 DEF Gone, HeapInv
<1>3. CASE Inst.dst \in RelSlots(Fn)
  <2>1. stack # <<>> /\ Good(prog)
    BY Instruction, Parts
  <2>2. FrameOK(prog, values, Frame) /\ Slots(prog, Frame) = RelSlots(Fn)
    BY <2>1, Running
  <2>3. Frame.regs[Inst.dst] \in Handles(values)
    BY <1>3, <2>1, <2>2, SlotsThere
  <2>4. PICK old : old = Frame.regs[Inst.dst]
    OBVIOUS
  <2>5. old = 0 \/ values[old].rel
    BY <1>3, <2>2, <2>4 DEF FrameOK
  <2>6. PICK handles : handles = {old}
    OBVIOUS
  <2>7. \A h \in handles \cap DOMAIN values : values[h].rel
    BY <1>1, <2>5, <2>6
  <2>8. /\ Release(values, handles) = handles \cap AtRisk(values)
        /\ HeapInv(prog, values, cleared \cup Release(values, handles), arena)
    BY <1>1, <2>7, Released
  <2>9. Gone = cleared \cup Release(values, handles)
    BY <1>3, <2>4, <2>6 DEF Gone
  <2>10. Gone \subseteq AtRisk(values)
    BY <2>8, <2>9 DEF HeapInv
  <2>. QED BY <1>3, <2>3, <2>4, <2>6, <2>8, <2>9, <2>10
<1>. QED BY <1>2, <1>3

LEMMA MakeFails ==
  ASSUME IInv, AtInst, exc = None, exc' = "fail", prog' = prog, values' = values, cleared' = Gone, arena' = arena,
         stack' = stack, stale' = FALSE, steps' \in Nat
  PROVE  IInv'
<1>1. /\ LiveInv(prog, cleared, stack, Len(stack)) /\ OwnInv(prog, values, cleared, stack)
      /\ prog \in Programs /\ StackInv(prog, values, stack) /\ values \in Seq(Values(prog))
  BY DEF IInv, Going, HeapInv
<1>2. /\ HeapInv(prog, values, Gone, arena) /\ cleared \subseteq Gone /\ Gone \subseteq AtRisk(values)
      /\ Inst.dst \notin RelSlots(Fn) => Gone = cleared
      /\ Inst.dst \in RelSlots(Fn) => Gone = cleared \cup ({Frame.regs[Inst.dst]} \cap AtRisk(values))
  BY GoneIs
<1>3. OwnInv(prog, values, Gone, stack)
  BY <1>1, <1>2 DEF OwnInv
<1>4. LiveInv(prog, Gone, stack, Len(stack) - 1)
  <2>1. Len(stack) \in Nat /\ 0 \notin Gone
    BY <1>1, <1>2, Parts, TableTypes DEF AtRisk
  <2>2. ASSUME NEW i \in 1 .. Len(stack) - 1, i \in DOMAIN stack, NEW s \in Slots(prog, stack[i])
        PROVE  stack[i].regs[s] \notin Gone
    <3>1. stack[i].regs[s] \notin cleared
      BY <1>1, <2>1, <2>2 DEF LiveInv
    <3>2. CASE Inst.dst \in RelSlots(Fn) /\ Frame.regs[Inst.dst] # 0
      BY <1>2, <3>1, <3>2, OldIsAlone
    <3>3. CASE ~(Inst.dst \in RelSlots(Fn) /\ Frame.regs[Inst.dst] # 0)
      BY <1>2, <2>1, <3>1, <3>3
    <3>. QED BY <3>2, <3>3
  <2>. QED BY <2>2 DEF LiveInv
<1>5. Going' = Len(stack) - 1
  BY DEF Going, None
<1>. QED BY <1>1, <1>2, <1>3, <1>4, <1>5 DEF IInv

LEMMA MakeAnswers ==
  ASSUME IInv, AtInst, exc = None, exc' = None, prog' = prog, cleared' = Gone, arena' = arena, stale' = FALSE, steps' \in Nat,
         NEW v \in Values(prog), ValueOK(prog, values, v), ~v.pinned, v.rel = (Inst.dst \in RelSlots(Fn)),
         values' = Append(values, v), stack' = Answer(stack, Len(values) + 1)
  PROVE  IInv'
<1>1. /\ LiveInv(prog, cleared, stack, Len(stack)) /\ OwnInv(prog, values, cleared, stack)
      /\ prog \in Programs /\ StackInv(prog, values, stack) /\ values \in Seq(Values(prog)) /\ Good(prog)
      /\ stack # <<>> /\ Len(stack) \in Nat
  BY Parts, Instruction DEF IInv, Going
<1>2. PICK gone : gone = Gone
  OBVIOUS
<1>3. /\ HeapInv(prog, values, gone, arena) /\ cleared \subseteq gone /\ gone \subseteq AtRisk(values)
      /\ Inst.dst \notin RelSlots(Fn) => gone = cleared
      /\ Inst.dst \in RelSlots(Fn) => gone = cleared \cup ({Frame.regs[Inst.dst]} \cap AtRisk(values))
  BY <1>2, GoneIs
<1>4. PICK w : w = Append(values, v)
  OBVIOUS
<1>5. PICK n : n = Len(values) + 1
  OBVIOUS
<1>6. Grew(prog, values, gone, arena, v, w, n)
  BY <1>3, <1>4, <1>5, Grown
<1>7. /\ HeapInv(prog, w, gone, arena)
      /\ n \in Nat \ {0} /\ n \notin Handles(values) /\ n \in Handles(w) /\ w[n] = v
      /\ \A h \in DOMAIN values : w[h] = values[h]
      /\ Handles(values) \subseteq Handles(w)
      /\ AtRisk(w) = AtRisk(values) \cup (IF v.rel THEN {n} ELSE {})
  BY <1>6 DEF Grew
<1>8. w \in Seq(Values(prog))
  BY <1>7 DEF HeapInv
<1>9. StackInv(prog, w, stack)
  <2>1. AtRisk(w) \cap Handles(values) \subseteq AtRisk(values)
    BY <1>7
  <2>. QED BY <1>1, <1>7, <2>1, Resettled
<1>10. CASE Inst.dst \notin RelSlots(Fn)
  <2>1. AtRisk(w) = AtRisk(values)
    BY <1>7, <1>10
  <2>2. n \in Quiet(w)
    BY <1>1, <1>7, <2>1, TableTypes DEF Quiet, AtRisk
  <2>3. Follows(prog, w, stack, stack')
    BY <1>5, <1>8, <1>9, <1>10, <2>2, AnswersQuiet
  <2>. QED BY <1>2, <1>3, <1>4, <1>7, <1>10, <2>1, <2>3, Proceeds
<1>11. CASE Inst.dst \in RelSlots(Fn)
  <2>1. AtInstOf(prog, Frame) /\ InstOf(prog, Frame) = Inst /\ TopOf(stack) = Frame /\ Frame = stack[Len(stack)]
        /\ Slots(prog, Frame) = RelSlots(Fn) /\ Len(stack) \in DOMAIN stack
    BY <1>1, RunsInst, Running
  <2>2. FrameOK(prog, w, Frame)
    BY <1>9, <2>1 DEF StackInv
  <2>3. PICK to : to = NextOf(prog, Frame, n)
    OBVIOUS
  <2>4. /\ FrameOK(prog, w, to) /\ to.fn = Frame.fn /\ DOMAIN to.regs = DOMAIN Frame.regs
        /\ to.regs[Inst.dst] = n /\ \A r \in DOMAIN to.regs \ {Inst.dst} : to.regs[r] = Frame.regs[r]
    <3>1. w[n].rel
      BY <1>7, <1>11
    <3>2. InstOf(prog, Frame).dst = Inst.dst
      BY <2>1
    <3>3. LET d == InstOf(prog, Frame).dst
              fr == NextOf(prog, Frame, n) IN
          /\ FrameOK(prog, w, fr) /\ fr.fn = Frame.fn /\ DOMAIN fr.regs = DOMAIN Frame.regs
          /\ fr.regs[d] = n /\ \A r \in DOMAIN fr.regs \ {d} : fr.regs[r] = Frame.regs[r]
      BY <1>1, <1>7, <1>8, <2>1, <2>2, <3>1, NextFrame
    <3>. QED BY <2>3, <3>2, <3>3
  <2>5. stack' = Top(stack, to)
    BY <1>5, <2>1, <2>3 DEF Answer, Top, TopOf, InstOf, NextOf
  <2>6. Inst.dst \in Slots(prog, to)
    BY <1>11, <2>1, <2>4 DEF Slots
  <2>7. \A i \in DOMAIN stack : \A r \in DOMAIN stack[i].regs : stack[i].regs[r] # n
    <3>1. TAKE i \in DOMAIN stack
    <3>2. FrameOK(prog, values, stack[i])
      BY <1>1 DEF StackInv
    <3>3. stack[i].regs \in [DOMAIN stack[i].regs -> Handles(values)]
      BY <1>1, <3>2, SlotsThere
    <3>. QED BY <1>7, <3>3
  <2>8. 0 \notin gone /\ n \notin gone
    BY <1>1, <1>3, <1>7, TableTypes DEF AtRisk
  <2>9. PICK s : s = Inst.dst
    OBVIOUS
  <2>10. /\ \A r \in DOMAIN to.regs \ {s} : to.regs[r] = stack[Len(stack)].regs[r]
         /\ to.regs[s] = n /\ s \in Slots(prog, to) /\ to.fn = stack[Len(stack)].fn
         /\ gone = cleared \cup ({stack[Len(stack)].regs[s]} \cap AtRisk(values))
    BY <1>3, <1>11, <2>1, <2>4, <2>6, <2>9
  <2>11. /\ gone \subseteq cleared \cup {stack[Len(stack)].regs[s]}
         /\ stack[Len(stack)].regs[s] \in AtRisk(values) => stack[Len(stack)].regs[s] \in gone
         /\ AtRisk(w) \subseteq AtRisk(values) \cup {n}
    BY <1>7, <2>10
  <2>12. /\ StackInv(prog, w, Top(stack, to)) /\ Len(Top(stack, to)) = Len(stack)
         /\ LiveInv(prog, gone, Top(stack, to), Len(stack)) /\ OwnInv(prog, w, gone, Top(stack, to))
    <3>1. Renews(prog, w, stack, to, s)
      BY <2>4, <2>7, <2>10 DEF Renews
    <3>2. Frees(values, w, stack[Len(stack)].regs[s], to.regs[s], cleared, gone)
      BY <1>3, <2>8, <2>10, <2>11 DEF Frees
    <3>. QED BY <1>1, <1>8, <1>9, <3>1, <3>2, Renewed
  <2>13. Going' = Len(stack)
    BY <2>5, <2>12 DEF Going
  <2>. QED BY <1>1, <1>2, <1>4, <1>7, <2>5, <2>12, <2>13 DEF IInv
<1>. QED BY <1>10, <1>11

LEMMA Marked ==
  ASSUME NEW pr, NEW v \in Values(pr), NEW b \in BOOLEAN
  PROVE  LET x == [v EXCEPT !.rel = b] IN
         /\ x \in Values(pr) /\ x.rel = b
         /\ x.kind = v.kind /\ x.parent = v.parent /\ x.pinned = v.pinned /\ x.fn = v.fn /\ x.elems = v.elems
  BY DEF Values

LEMMA Fresh ==
  ASSUME NEW pr, NEW p \in Nat
  PROVE  /\ Scope(p) \in Values(pr) /\ Scope(p).kind = "scope" /\ Scope(p).parent = p /\ Scope(p).elems = <<>> /\ ~Scope(p).pinned
         /\ Array(<<>>) \in Values(pr) /\ Array(<<>>).kind = "array" /\ Array(<<>>).parent = 0 /\ Array(<<>>).elems = <<>>
         /\ ~Array(<<>>).pinned /\ ~Array(<<>>).rel
  BY DEF Scope, Array, Values

LEMMA MakeKeeps == ASSUME IInv, Make PROVE IInv'
<1>1. AtInst /\ Inst.op \in RelNew /\ prog' = prog /\ steps' \in Nat /\ exc = None /\ stack # <<>>
  <2>1. Runs(RelNew)
    BY DEF Make
  <2>. QED BY <2>1, Counted
<1>2. PICK parent : parent = IF Inst.op = "js_scope_new" THEN Arg(1) ELSE Undefined
  OBVIOUS
<1>3. /\ HeapInv(prog, values, Gone, arena) /\ Gone \subseteq AtRisk(values)
      /\ Inst.dst \notin RelSlots(Fn) => Gone = cleared
      /\ Inst.dst \in RelSlots(Fn) => Gone = cleared \cup ({Frame.regs[Inst.dst]} \cap AtRisk(values))
  BY <1>1, GoneIs
<1>4. values \in Seq(Values(prog)) /\ stale = FALSE /\ 0 \notin Gone
  <2>1. values \in Seq(Values(prog)) /\ stale = FALSE
    BY DEF IInv, HeapInv
  <2>2. 0 \in Quiet(values)
    BY <2>1, TableTypes
  <2>. QED BY <1>3, <2>1, <2>2 DEF Quiet
<1>5. parent \in Handles(values) /\ parent \notin Gone
  <2>1. CASE Inst.op = "js_scope_new"
    <3>1. Arity(Inst.op) = 1 /\ parent = Arg(1)
      BY <1>2, <2>1 DEF Arity
    <3>2. Arg(1) \in Handles(values) /\ Arg(1) \notin cleared
      BY <1>1, <3>1, Instruction
    <3>3. CASE Inst.dst \in RelSlots(Fn) /\ Frame.regs[Inst.dst] # 0
      <4>1. Arg(1) # Frame.regs[Inst.dst] \/ Arg(1) \notin AtRisk(values)
        BY <1>1, <3>1, <3>3, OldIsAlone
      <4>. QED BY <1>3, <3>1, <3>2, <3>3, <4>1
    <3>4. CASE ~(Inst.dst \in RelSlots(Fn) /\ Frame.regs[Inst.dst] # 0)
      BY <1>3, <1>4, <3>1, <3>2, <3>4
    <3>. QED BY <3>3, <3>4
  <2>2. CASE Inst.op # "js_scope_new"
    BY <1>2, <1>4, <2>2, TableTypes DEF Undefined
  <2>. QED BY <2>1, <2>2
<1>6. PICK new : new = IF Inst.op = "js_scope_new" THEN Scope(parent) ELSE Array(<<>>)
  OBVIOUS
<1>7. PICK v : v = [new EXCEPT !.rel = (Inst.dst \in RelSlots(Fn))]
  OBVIOUS
<1> DEFINE b == Inst.dst \in RelSlots(Fn)
<1>8. /\ cleared' = Gone /\ stale' = (stale \/ parent \in Gone) /\ UNCHANGED <<arena, pool>>
      /\ \/ exc' = "fail" /\ UNCHANGED <<values, stack>>
         \/ values' = Append(values, v) /\ stack' = Answer(stack, Len(values) + 1) /\ UNCHANGED exc
  BY <1>2, <1>6, <1>7 DEF Make, Gone
<1>9. stale' = FALSE
  BY <1>4, <1>5, <1>8
<1>10. v \in Values(prog) /\ ValueOK(prog, values, v) /\ ~v.pinned /\ v.rel = (Inst.dst \in RelSlots(Fn))
  <2>1. parent \in Nat
    BY <1>4, <1>5, TableTypes
  <2>2. /\ v \in Values(prog) /\ v.kind # "closure" /\ v.parent \in {parent, 0} /\ v.elems = <<>> /\ ~v.pinned
        /\ v.rel = (Inst.dst \in RelSlots(Fn))
    <3>1. new \in Values(prog) /\ new.kind # "closure" /\ new.parent \in {parent, 0} /\ new.elems = <<>> /\ ~new.pinned
      BY <1>6, <2>1, Fresh
    <3>2. b \in BOOLEAN /\ v = [new EXCEPT !.rel = b]
      BY <1>7
    <3> HIDE DEF b
    <3>3. v \in Values(prog) /\ v.rel = b /\ v.kind = new.kind /\ v.parent = new.parent /\ v.pinned = new.pinned
          /\ v.elems = new.elems
      BY <3>1, <3>2, Marked
    <3>. QED BY <3>1, <3>3 DEF b
  <2>3. 0 \in Handles(values)
    BY <1>4, TableTypes
  <2>. QED BY <1>5, <2>2, <2>3 DEF ValueOK
<1>11. CASE exc' = "fail" /\ UNCHANGED <<values, stack>>
  BY <1>1, <1>8, <1>9, <1>11, MakeFails
<1>12. CASE values' = Append(values, v) /\ stack' = Answer(stack, Len(values) + 1) /\ UNCHANGED exc
  BY <1>1, <1>8, <1>9, <1>10, <1>12, MakeAnswers
<1>. QED BY <1>8, <1>11, <1>12

-----------------------------------------------------------------------------
(* Calls.                                                                  *)

LEMMA Registered ==
  ASSUME Good(prog), NEW n \in DOMAIN prog, NEW p, NEW a
  PROVE  /\ DOMAIN Registers(prog[n], <<p, a>>) = 1 .. prog[n].size
         /\ Registers(prog[n], <<p, a>>)[1] = p /\ Registers(prog[n], <<p, a>>)[2] = a
         /\ \A r \in 3 .. prog[n].size : Registers(prog[n], <<p, a>>)[r] = 0
<1> DEFINE size == prog[n].size
<1>1. size \in Nat /\ size >= 2
  BY OfProgram
<1>2. PICK old : old = IF pool = <<>> THEN <<>> ELSE pool[Len(pool)]
  OBVIOUS
<1>3. Cleared(old, size) = [r \in 1 .. size |-> 0]
  BY DEF Cleared
<1>4. Registers(prog[n], <<p, a>>) = [r \in 1 .. size |-> IF r <= Len(<<p, a>>) THEN <<p, a>>[r] ELSE Cleared(old, size)[r]]
  BY <1>2 DEF Registers
<1> HIDE DEF size
<1>5. Registers(prog[n], <<p, a>>) = [r \in 1 .. size |-> IF r <= 2 THEN <<p, a>>[r] ELSE 0]
  BY <1>1, <1>3, <1>4
<1>. QED BY <1>1, <1>5 DEF size

LEMMA Entered ==
  ASSUME Good(prog), NEW w \in Seq(Values(prog)), NEW n \in DOMAIN prog, NEW p \in Handles(w), NEW a \in Handles(w)
  PROVE  LET fr == NewFrame(n, <<p, a>>) IN
         /\ FrameOK(prog, w, fr) /\ fr.fn = n /\ fr.regs[1] = p /\ fr.regs[2] = a
         /\ \A r \in DOMAIN fr.regs \ {1, 2} : fr.regs[r] = 0
<1>1. PICK regs : regs = Registers(prog[n], <<p, a>>)
  OBVIOUS
<1>2. PICK size : size = prog[n].size
  OBVIOUS
<1>3. size \in Nat /\ size >= 2 /\ 1 \in DOMAIN prog[n].blocks /\ RelSlots(prog[n]) \subseteq 3 .. size
  BY <1>2, OfProgram
<1>4. DOMAIN regs = 1 .. size /\ regs[1] = p /\ regs[2] = a /\ \A r \in 3 .. size : regs[r] = 0
  BY <1>1, <1>2, Registered
<1>5. 0 \in Handles(w) /\ Handles(w) \subseteq Nat
  BY TableTypes
<1>6. \A r \in 1 .. size : regs[r] \in Handles(w)
  BY <1>3, <1>4, <1>5
<1>7. regs = [r \in 1 .. size |-> regs[r]]
  BY <1>1, <1>2, <1>4 DEF Registers
<1>8. regs \in [1 .. size -> Handles(w)]
  BY <1>6, <1>7
<1>9. regs \in [1 .. size -> Nat]
  BY <1>5, <1>8
<1>10. regs \in Seq(Nat)
  BY <1>3, <1>9
<1>11. PICK fr : fr = [fn |-> n, regs |-> regs, bi |-> 1, ii |-> 1]
  OBVIOUS
<1>12. fr \in FrameSet(prog)
  BY <1>10, <1>11 DEF FrameSet
<1>13. Slots(prog, fr) = RelSlots(prog[n])
  BY <1>11 DEF Slots
<1>14. FrameOK(prog, w, fr)
  BY <1>2, <1>3, <1>4, <1>8, <1>11, <1>12, <1>13 DEF FrameOK
<1>15. NewFrame(n, <<p, a>>) = fr
  BY <1>1, <1>11 DEF NewFrame
<1>. QED BY <1>3, <1>4, <1>11, <1>14, <1>15

LEMMA PinMarks ==
  ASSUME NEW pr, NEW v \in Values(pr)
  PROVE  LET x == [v EXCEPT !.pinned = TRUE] IN
         /\ x \in Values(pr) /\ x.pinned /\ x.elems = v.elems
         /\ x.kind = v.kind /\ x.parent = v.parent /\ x.fn = v.fn /\ x.rel = v.rel
  BY DEF Values

LEMMA Pinning ==
  ASSUME NEW table, HeapInv(prog, table, cleared, arena), NEW a \in DOMAIN table, table[a].kind = "array", a \notin cleared
  PROVE  /\ HeapInv(prog, Pinned(table, a), cleared, arena)
         /\ Handles(Pinned(table, a)) = Handles(table) /\ AtRisk(Pinned(table, a)) = AtRisk(table) \ {a}
         /\ \A h \in DOMAIN table : Pinned(table, a)[h].rel = table[h].rel
<1>1. table[a] \in Values(prog) /\ ValueOK(prog, table, table[a])
  BY TableTypes DEF HeapInv
<1>2. PICK v : v = [table[a] EXCEPT !.pinned = TRUE]
  OBVIOUS
<1>3. /\ v \in Values(prog) /\ v.pinned /\ v.elems = table[a].elems
      /\ v.kind = table[a].kind /\ v.parent = table[a].parent /\ v.fn = table[a].fn /\ v.rel = table[a].rel
  BY <1>1, <1>2, PinMarks
<1>4. ValueOK(prog, table, v)
  BY <1>1, <1>3 DEF ValueOK
<1>5. Pinned(table, a) = SetTo(table, a, v)
  BY <1>2 DEF Pinned, SetTo
<1>6. Altered(prog, table, cleared, arena, a, v, Pinned(table, a))
  BY <1>3, <1>4, <1>5, Changed
<1>. QED BY <1>3, <1>6 DEF Altered

\* The callee's arguments: what it may keep is pinned, what it only reads is lent.
LEMMA Enters ==
  ASSUME IInv, AtInst, Inst.op \in {"js_call", "js_try"}, exc = None, exc' = None, prog' = prog,
         cleared' = cleared, arena' = arena, stale' = FALSE, steps' \in Nat,
         NEW table \in Seq(Values(prog)), HeapInv(prog, table, cleared, arena), StackInv(prog, table, stack),
         AtRisk(table) \subseteq AtRisk(values),
         NEW n \in DOMAIN prog, NEW p \in Quiet(table), NEW a \in DOMAIN table, table[a].kind = "array", a \notin cleared,
         a \in AtRisk(table) => \E j \in DOMAIN stack : \E s \in Slots(prog, stack[j]) : stack[j].regs[s] = a,
         values' = IF PinArgs(prog[n]) THEN Pinned(table, a) ELSE table,
         stack' = Append(stack, NewFrame(n, <<p, a>>))
  PROVE  IInv'
<1>1. /\ LiveInv(prog, cleared, stack, Len(stack)) /\ OwnInv(prog, values, cleared, stack)
      /\ prog \in Programs /\ Good(prog) /\ 0 \notin cleared /\ stack # <<>> /\ Len(stack) \in Nat
  BY Parts, Instruction DEF IInv, Going
<1>2. PICK w : w = values'
  OBVIOUS
<1>3. /\ HeapInv(prog, w, cleared, arena) /\ Handles(w) = Handles(table) /\ AtRisk(w) \subseteq AtRisk(table)
      /\ PinArgs(prog[n]) => a \notin AtRisk(w)
      /\ \A h \in DOMAIN table : w[h].rel = table[h].rel
  <2>1. CASE PinArgs(prog[n])
    BY <1>2, <2>1, Pinning
  <2>2. CASE ~PinArgs(prog[n])
    BY <1>2, <2>2
  <2>. QED BY <2>1, <2>2
<1>4. w \in Seq(Values(prog))
  BY <1>3 DEF HeapInv
<1>5. StackInv(prog, w, stack)
  <2>1. AtRisk(w) \cap Handles(table) \subseteq AtRisk(table) /\ Handles(table) \subseteq Handles(w)
    BY <1>3
  <2>. QED BY <1>1, <1>3, <2>1, Resettled
<1>6. p \in Quiet(w) /\ p \in Handles(w) /\ a \in Handles(w)
  BY <1>3, TableTypes DEF Quiet
<1>7. PICK fr : fr = NewFrame(n, <<p, a>>)
  OBVIOUS
<1>8. /\ FrameOK(prog, w, fr) /\ fr.fn = n /\ fr.regs[1] = p /\ fr.regs[2] = a
      /\ \A r \in DOMAIN fr.regs \ {1, 2} : fr.regs[r] = 0
  BY <1>1, <1>4, <1>6, <1>7, Entered
<1>9. a \in AtRisk(w) =>
        2 \notin Escapes(prog[n]) /\ \E j \in DOMAIN stack : \E s \in Slots(prog, stack[j]) : stack[j].regs[s] = a
  <2>1. prog[n].params = 2
    BY <1>1, OfProgram
  <2>. QED BY <1>3, <2>1 DEF PinArgs
<1>10. Calls(prog, stack[Len(stack)])
  <2>1. AtInstOf(prog, TopOf(stack)) /\ InstOf(prog, TopOf(stack)) = Inst
    BY RunsInst
  <2>. QED BY <2>1 DEF AtInstOf, InstOf, TopOf, Calls
<1>11. OwnInv(prog, w, cleared, stack)
  BY <1>1, <1>3 DEF OwnInv
<1>12. PICK t : t = Append(stack, fr)
  OBVIOUS
<1>13. /\ StackInv(prog, w, t) /\ Len(t) = Len(stack) + 1
       /\ LiveInv(prog, cleared, t, Len(t)) /\ OwnInv(prog, w, cleared, t)
  <2>1. fr.regs[1] \in Quiet(w)
    BY <1>6, <1>8
  <2>2. fr.regs[2] \in AtRisk(w) =>
          2 \notin Escapes(prog[fr.fn]) /\ \E j \in DOMAIN stack : \E s \in Slots(prog, stack[j]) : stack[j].regs[s] = fr.regs[2]
    BY <1>8, <1>9
  <2>. QED BY <1>1, <1>4, <1>5, <1>8, <1>10, <1>11, <1>12, <2>1, <2>2, Pushed
<1>14. stack' = t /\ Going' = Len(t)
  BY <1>7, <1>12 DEF Going
<1>. QED BY <1>1, <1>2, <1>3, <1>13, <1>14 DEF IInv

LEMMA ClosureOf ==
  ASSUME IInv, NEW c, Is("closure", c)
  PROVE  c \in DOMAIN values /\ values[c].fn \in DOMAIN prog /\ values[c].parent \in Quiet(values)
  BY DEF Is, IInv, HeapInv, ValueOK

LEMMA CallKeeps == ASSUME IInv, Call PROVE IInv'
<1>1. AtInst /\ Inst.op = "js_call" /\ prog' = prog /\ steps' \in Nat /\ exc = None /\ stack # <<>>
  <2>1. Runs({"js_call"})
    BY DEF Call
  <2>. QED BY <2>1, Counted
<1>2. /\ Arg(1) \notin cleared /\ Arg(2) \notin cleared
      /\ Arg(2) \in AtRisk(values) => \E j \in DOMAIN stack : \E s \in Slots(prog, stack[j]) : stack[j].regs[s] = Arg(2)
  <2>1. Arity(Inst.op) = 2
    BY <1>1 DEF Arity
  <2>. QED BY <1>1, <2>1, Instruction
<1>3. stale' = FALSE
  BY <1>2 DEF Call, Reads, IInv
<1>4. CASE Is("array", Arg(2)) /\ Is("closure", Arg(1))
  <2>1. PICK c : c = Arg(1)
    OBVIOUS
  <2>2. PICK a : a = Arg(2)
    OBVIOUS
  <2>3. Enter(values, c, a)
    BY <1>4, <2>1, <2>2 DEF Call
  <2>4. PICK n : n = values[c].fn
    OBVIOUS
  <2>5. PICK p : p = values[c].parent
    OBVIOUS
  <2>6. n \in DOMAIN prog /\ p \in Quiet(values)
    BY <1>4, <2>1, <2>4, <2>5, ClosureOf
  <2>7. a \in DOMAIN values /\ values[a].kind = "array" /\ a \notin cleared
    BY <1>4, <2>2 DEF Is
  <2>8. /\ values' = (IF PinArgs(prog[n]) THEN Pinned(values, a) ELSE values)
        /\ stack' = Append(stack, NewFrame(n, <<p, a>>)) /\ UNCHANGED <<cleared, arena, exc>>
    BY <2>3, <2>4, <2>5 DEF Enter
  <2>9. values \in Seq(Values(prog)) /\ HeapInv(prog, values, cleared, arena) /\ StackInv(prog, values, stack)
    BY DEF IInv, HeapInv
  <2>. QED BY <1>1, <1>2, <1>3, <2>2, <2>6, <2>7, <2>8, <2>9, Enters
<1>5. CASE Panics("fail")
  BY <1>1, <1>3, <1>5, Fails DEF Panics
<1>. QED BY <1>4, <1>5 DEF Call

LEMMA TryKeeps == ASSUME IInv, Try PROVE IInv'
<1>1. AtInst /\ Inst.op = "js_try" /\ prog' = prog /\ steps' \in Nat /\ exc = None /\ stack # <<>>
  <2>1. Runs({"js_try"})
    BY DEF Try
  <2>. QED BY <2>1, Counted
<1>2. Arg(1) \notin cleared
  <2>1. Arity(Inst.op) = 1
    BY <1>1 DEF Arity
  <2>. QED BY <1>1, <2>1, Instruction
<1>3. stale' = FALSE
  BY <1>2 DEF Try, Reads, IInv
<1>4. CASE Is("closure", Arg(1))
  <2>1. PICK c : c = Arg(1)
    OBVIOUS
  <2>2. PICK a : a = Len(values) + 1
    OBVIOUS
  <2>3. PICK v : v = Array(<<>>)
    OBVIOUS
  <2>4. PICK table : table = Append(values, v)
    OBVIOUS
  <2>5. Enter(table, c, a)
    BY <1>4, <2>1, <2>2, <2>3, <2>4 DEF Try
  <2>6. PICK n : n = values[c].fn
    OBVIOUS
  <2>7. PICK p : p = values[c].parent
    OBVIOUS
  <2>8. n \in DOMAIN prog /\ p \in Quiet(values)
    BY <1>4, <2>1, <2>6, <2>7, ClosureOf
  <2>9. /\ values' = (IF PinArgs(prog[n]) THEN Pinned(table, a) ELSE table)
        /\ stack' = Append(stack, NewFrame(n, <<p, a>>)) /\ UNCHANGED <<cleared, arena, exc>>
    BY <2>5, <2>6, <2>7 DEF Enter
  <2>10. values \in Seq(Values(prog)) /\ HeapInv(prog, values, cleared, arena) /\ StackInv(prog, values, stack) /\ Good(prog)
         /\ cleared \subseteq AtRisk(values)
    BY Parts DEF IInv, HeapInv
  <2>11. v \in Values(prog) /\ v.kind = "array" /\ v.parent = 0 /\ v.elems = <<>> /\ ~v.pinned /\ ~v.rel
    BY <2>3, Fresh
  <2>12. ValueOK(prog, values, v)
    <3>1. 0 \in Handles(values)
      BY <2>10, TableTypes
    <3>. QED BY <2>11, <3>1 DEF ValueOK
  <2>13. Grew(prog, values, cleared, arena, v, table, a)
    BY <2>2, <2>4, <2>10, <2>11, <2>12, Grown
  <2>14. /\ HeapInv(prog, table, cleared, arena) /\ a \notin Handles(values) /\ a \in Handles(table) /\ a # 0 /\ table[a] = v
         /\ \A h \in DOMAIN values : table[h] = values[h]
         /\ Handles(values) \subseteq Handles(table) /\ Quiet(values) \subseteq Quiet(table) /\ AtRisk(table) = AtRisk(values)
    BY <2>11, <2>13 DEF Grew
  <2>15. table \in Seq(Values(prog)) /\ a \in DOMAIN table /\ a \notin AtRisk(table) /\ a \notin cleared
    <3>1. table \in Seq(Values(prog))
      BY <2>14 DEF HeapInv
    <3>2. a \in DOMAIN table /\ AtRisk(values) \subseteq Handles(values)
      BY <2>10, <2>14, <3>1, TableTypes DEF AtRisk
    <3>. QED BY <2>10, <2>14, <3>1, <3>2
  <2>16. StackInv(prog, table, stack)
    <3>1. AtRisk(table) \cap Handles(values) \subseteq AtRisk(values)
      BY <2>14
    <3>. QED BY <2>10, <2>14, <3>1, Resettled
  <2>17. p \in Quiet(table) /\ AtRisk(table) \subseteq AtRisk(values) /\ table[a].kind = "array"
    BY <2>8, <2>11, <2>14
  <2>. QED BY <1>1, <1>3, <2>8, <2>9, <2>14, <2>15, <2>16, <2>17, Enters
<1>5. CASE Panics("fail")
  BY <1>1, <1>3, <1>5, Fails DEF Panics
<1>. QED BY <1>4, <1>5 DEF Try

-----------------------------------------------------------------------------
(* Jumps and the end of a frame.                                           *)

LEMMA Jumped ==
  ASSUME NEW F, NEW fr \in [fn: F, regs: Seq(Nat), bi: Nat, ii: Nat], NEW x \in Seq(Nat), NEW b \in Nat, NEW i \in Nat
  PROVE  LET to == [fr EXCEPT !.regs = x, !.bi = b, !.ii = i] IN
         to \in [fn: F, regs: Seq(Nat), bi: Nat, ii: Nat] /\ to.fn = fr.fn /\ to.regs = x /\ to.bi = b /\ to.ii = i
  OBVIOUS

\* The registers behind the phis of block "to".
PhiRegs(to) ==
  LET phis == Fn.blocks[to].phis
      at(r) == {k \in DOMAIN phis : phis[k].dst = r}
  IN  [r \in DOMAIN Frame.regs |->
         IF at(r) = {} THEN Frame.regs[r] ELSE Rd(phis[CHOOSE k \in at(r) : TRUE].incs[Frame.bi])]

LEMMA PhisRead ==
  ASSUME IInv, exc = None, stack # <<>>, NEW to \in ThisBlock.term.to
  PROVE  /\ DOMAIN PhiRegs(to) = DOMAIN Frame.regs
         /\ \A r \in DOMAIN Frame.regs :
              \/ PhiRegs(to)[r] = Frame.regs[r]
              \/ PhiRegs(to)[r] \in Quiet(values) /\ r \notin RelSlots(Fn) /\ r # 2
<1>1. Good(prog) /\ Frame.fn \in DOMAIN prog /\ Fn = prog[Frame.fn] /\ ThisBlock = Fn.blocks[Frame.bi] /\ Frame.bi \in DOMAIN Fn.blocks
  BY Parts, Running
<1> DEFINE phis == Fn.blocks[to].phis
           at(r) == {k \in DOMAIN phis : phis[k].dst = r}
<1>2. \A k \in DOMAIN phis : /\ phis[k].dst \in 3 .. Fn.size /\ phis[k].dst \notin RelSlots(Fn)
                             /\ phis[k].incs[Frame.bi] \in 0 .. Fn.size /\ phis[k].incs[Frame.bi] \in Escapes(Fn)
  BY <1>1, OfPhi
<1>3. ASSUME NEW r \in DOMAIN Frame.regs
      PROVE  \/ PhiRegs(to)[r] = Frame.regs[r]
             \/ PhiRegs(to)[r] \in Quiet(values) /\ r \notin RelSlots(Fn) /\ r # 2
  <2>1. CASE at(r) = {}
    BY <2>1 DEF PhiRegs
  <2>2. CASE at(r) # {}
    <3>1. PICK k : k = CHOOSE j \in at(r) : TRUE
      OBVIOUS
    <3>2. k \in DOMAIN phis /\ phis[k].dst = r
      BY <2>2, <3>1
    <3>3. PhiRegs(to)[r] = Rd(phis[k].incs[Frame.bi])
      BY <2>2, <3>1 DEF PhiRegs
    <3> HIDE DEF phis, at
    <3>4. Rd(phis[k].incs[Frame.bi]) \in Quiet(values)
      BY <1>2, <3>2, Operand
    <3>5. r \notin RelSlots(Fn) /\ r # 2
      <4>1. phis[k].dst \in 3 .. Fn.size /\ phis[k].dst \notin RelSlots(Fn) /\ Fn.size \in Nat
        BY <1>1, <1>2, <3>2, OfProgram
      <4>. QED BY <3>2, <4>1
    <3>. QED BY <3>3, <3>4, <3>5
  <2>. QED BY <2>1, <2>2
<1>. QED BY <1>3 DEF PhiRegs

LEMMA JumpKeeps == ASSUME IInv, Jump PROVE IInv'
<1>1. exc = None /\ stack # <<>>
  BY DEF Jump, AtTerm
<1>2. PICK to \in ThisBlock.term.to :
        /\ stack' = Top(stack, [Frame EXCEPT !.regs = PhiRegs(to), !.bi = to, !.ii = 1])
        /\ steps' = steps + Len(Fn.blocks[to].phis)
  BY DEF Jump, PhiRegs
<1>3. /\ Good(prog) /\ Frame.fn \in DOMAIN prog /\ Fn = prog[Frame.fn] /\ ThisBlock = Fn.blocks[Frame.bi]
      /\ Frame.bi \in DOMAIN Fn.blocks /\ Frame \in FrameSet(prog) /\ FrameOK(prog, values, Frame)
      /\ Frame = stack[Len(stack)] /\ Slots(prog, Frame) = RelSlots(Fn)
  BY <1>1, Parts, Running
<1>4. to \in DOMAIN Fn.blocks /\ Len(Fn.blocks[to].phis) \in Nat
  BY <1>3, OfTerm, OfPhi
<1>5. to \in Nat
  <2>1. Fn.blocks \in Seq(BlockSet(prog, Fn))
    BY <1>3 DEF Good, WellFormed
  <2>. QED BY <1>4, <2>1
<1>6. steps' \in Nat
  BY <1>2, <1>4 DEF IInv
<1>7. PICK regs : regs = PhiRegs(to)
  OBVIOUS
<1>8. /\ DOMAIN regs = DOMAIN Frame.regs
      /\ \A r \in DOMAIN Frame.regs :
           regs[r] = Frame.regs[r] \/ (regs[r] \in Quiet(values) /\ r \notin RelSlots(Fn) /\ r # 2)
  BY <1>1, <1>7, PhisRead
<1>9. PICK size : size = prog[Frame.fn].size
  OBVIOUS
<1>10. DOMAIN Frame.regs = 1 .. size /\ Frame.regs \in [1 .. size -> Handles(values)] /\ size \in Nat
       /\ RelSlots(Fn) \subseteq DOMAIN Frame.regs
  BY <1>3, <1>9, SlotsThere
<1>11. \A r \in 1 .. size : regs[r] \in Handles(values)
  BY <1>8, <1>10 DEF Quiet
<1>12. regs = [r \in 1 .. size |-> regs[r]]
  BY <1>7, <1>10 DEF PhiRegs
<1>13. regs \in [1 .. size -> Handles(values)]
  BY <1>11, <1>12
<1>14. regs \in Seq(Nat)
  <2>1. Handles(values) \subseteq Nat
    BY Parts, TableTypes
  <2>2. regs \in [1 .. size -> Nat]
    BY <1>13, <2>1
  <2>. QED BY <1>10, <2>2
<1>15. PICK fr : fr = [Frame EXCEPT !.regs = regs, !.bi = to, !.ii = 1]
  OBVIOUS
<1>16. fr \in FrameSet(prog) /\ fr.fn = Frame.fn /\ fr.regs = regs /\ fr.bi = to /\ fr.ii = 1
  BY <1>3, <1>5, <1>14, <1>15, Jumped DEF FrameSet
<1>17. Slots(prog, fr) = RelSlots(Fn)
  BY <1>3, <1>16 DEF Slots
<1>18. \A s \in Slots(prog, fr) : fr.regs[s] = 0 \/ values[fr.regs[s]].rel
  <2>1. \A s \in RelSlots(Fn) : Frame.regs[s] = 0 \/ values[Frame.regs[s]].rel
    BY <1>3 DEF FrameOK
  <2>2. \A s \in RelSlots(Fn) : regs[s] = Frame.regs[s]
    BY <1>8, <1>10
  <2>. QED BY <1>16, <1>17, <2>1, <2>2
<1>19. FrameOK(prog, values, fr)
  BY <1>3, <1>4, <1>9, <1>13, <1>16, <1>18 DEF FrameOK
<1>20. GoesOn(prog, values, stack[Len(stack)], fr)
  BY <1>3, <1>8, <1>16, <1>17, <1>19 DEF GoesOn
<1>21. values \in Seq(Values(prog)) /\ HeapInv(prog, values, cleared, arena) /\ StackInv(prog, values, stack) /\ stale = FALSE
  BY DEF IInv, HeapInv
<1>22. Follows(prog, values, stack, Top(stack, fr))
  BY <1>1, <1>3, <1>20, <1>21, Retopped
<1>23. stack' = Top(stack, fr) /\ UNCHANGED <<prog, values, cleared, arena, exc, stale>>
  BY <1>2, <1>7, <1>15 DEF Jump
<1>. QED BY <1>1, <1>6, <1>21, <1>22, <1>23, Proceeds

LEMMA Dies ==
  ASSUME IInv, stack # <<>>, FrameDies
  PROVE  /\ HeapInv(prog, values, cleared', arena) /\ cleared' \subseteq AtRisk(values)
         /\ StackInv(prog, values, Pop(stack)) /\ Len(Pop(stack)) \in Nat
         /\ LiveInv(prog, cleared', Pop(stack), Len(Pop(stack))) /\ OwnInv(prog, values, cleared', Pop(stack))
         /\ Pop(stack) # <<>> => \A h \in Quiet(values) : Follows(prog, values, Pop(stack), Answer(Pop(stack), h))
<1>1. /\ Good(prog) /\ Frame = stack[Len(stack)] /\ FrameOK(prog, values, Frame) /\ Slots(prog, Frame) = RelSlots(Fn)
      /\ Len(stack) \in Nat \ {0}
  BY Parts, Running
<1>2. /\ values \in Seq(Values(prog)) /\ HeapInv(prog, values, cleared, arena) /\ StackInv(prog, values, stack)
      /\ OwnInv(prog, values, cleared, stack)
  BY DEF IInv, HeapInv
<1>3. LiveInv(prog, cleared, stack, Len(stack) - 1)
  BY <1>1 DEF IInv, Going, LiveInv
<1>4. PICK held : held = Held(prog, stack[Len(stack)])
  OBVIOUS
<1>5. held = {Frame.regs[s] : s \in RelSlots(Fn)}
  BY <1>1, <1>4 DEF Held
<1>6. \A h \in held \cap DOMAIN values : values[h].rel
  <2>1. \A s \in RelSlots(Fn) : Frame.regs[s] = 0 \/ values[Frame.regs[s]].rel
    BY <1>1 DEF FrameOK
  <2>. QED BY <1>2, <1>5, <2>1
<1>7. PICK gone : gone = Release(values, held)
  OBVIOUS
<1>8. gone = held \cap AtRisk(values) /\ HeapInv(prog, values, cleared \cup gone, arena)
  BY <1>2, <1>6, <1>7, Released
<1>9. cleared' = cleared \cup gone
  BY <1>5, <1>7 DEF FrameDies
<1>10. 0 \notin AtRisk(values)
  BY <1>2, TableTypes DEF Quiet
<1>11. PICK t : t = Pop(stack)
  OBVIOUS
<1>12. /\ StackInv(prog, values, t) /\ Len(t) \in Nat
       /\ \A i \in DOMAIN t : Calls(prog, t[i])
       /\ LiveInv(prog, cleared \cup gone, t, Len(t)) /\ OwnInv(prog, values, cleared \cup gone, t)
  <2>1. gone \subseteq held \ {0} /\ held \cap AtRisk(values) \subseteq gone
    BY <1>8, <1>10
  <2>. QED BY <1>1, <1>2, <1>3, <1>4, <1>11, <2>1, Popped
<1>13. ASSUME t # <<>>, NEW h \in Quiet(values) PROVE Follows(prog, values, t, Answer(t, h))
  <2>1. t \in Seq(FrameSet(prog)) /\ Len(t) \in DOMAIN t
    BY <1>12, <1>13 DEF StackInv
  <2>2. PICK fr : fr = TopOf(t)
    OBVIOUS
  <2>3. fr = t[Len(t)] /\ Calls(prog, fr) /\ FrameOK(prog, values, fr)
    BY <1>12, <2>1, <2>2 DEF TopOf, StackInv
  <2>4. AtInstOf(prog, fr) /\ InstOf(prog, fr).op \in {"js_call", "js_try"}
    BY <2>3 DEF Calls, AtInstOf, InstOf
  <2>5. /\ fr.fn \in DOMAIN prog /\ fr.bi \in DOMAIN prog[fr.fn].blocks
        /\ fr.ii \in DOMAIN prog[fr.fn].blocks[fr.bi].insts
    BY <1>1, <2>3, <2>4, OfTerm DEF FrameOK, FrameSet, AtInstOf
  <2>6. InstOf(prog, fr).dst \in RelSlots(prog[fr.fn]) => InstOf(prog, fr).op \in RelNew
    BY <1>1, <2>5, OfInst DEF InstOf
  <2>7. InstOf(prog, fr).dst \notin Slots(prog, fr)
    BY <2>4, <2>6 DEF Slots, RelNew
  <2>. QED BY <1>1, <1>2, <1>12, <1>13, <2>2, <2>4, <2>7, Answered
<1>14. cleared \cup gone \subseteq AtRisk(values)
  BY <1>8 DEF HeapInv
<1>. QED BY <1>8, <1>9, <1>11, <1>12, <1>13, <1>14

LEMMA ReturnKeeps == ASSUME IInv, Return PROVE IInv'
<1>1. exc = None /\ stack # <<>> /\ FrameDies /\ UNCHANGED <<prog, values, arena, exc, steps>>
  BY DEF Return, AtTerm
<1>2. /\ HeapInv(prog, values, cleared', arena) /\ cleared' \subseteq AtRisk(values)
      /\ StackInv(prog, values, Pop(stack)) /\ Len(Pop(stack)) \in Nat
      /\ LiveInv(prog, cleared', Pop(stack), Len(Pop(stack))) /\ OwnInv(prog, values, cleared', Pop(stack))
      /\ Pop(stack) # <<>> => \A h \in Quiet(values) : Follows(prog, values, Pop(stack), Answer(Pop(stack), h))
  BY <1>1, Dies
<1>3. PICK h : h = Rd(ThisBlock.term.cond)
  OBVIOUS
<1>4. h \in Quiet(values)
  <2>1. Good(prog) /\ Frame.fn \in DOMAIN prog /\ Fn = prog[Frame.fn] /\ ThisBlock = Fn.blocks[Frame.bi] /\ Frame.bi \in DOMAIN Fn.blocks
    BY <1>1, Parts, Running
  <2>2. ThisBlock.term.cond \in 0 .. Fn.size /\ ThisBlock.term.cond \in Escapes(Fn)
    BY <2>1, OfTerm
  <2>. QED BY <1>1, <1>3, <2>2, Operand
<1>5. h \notin cleared'
  BY <1>2, <1>4 DEF Quiet
<1>6. stale' = FALSE /\ stack' = IF Pop(stack) = <<>> THEN Pop(stack) ELSE Answer(Pop(stack), h)
  BY <1>3, <1>5 DEF Return, IInv
<1>7. /\ StackInv(prog, values, stack') /\ LiveInv(prog, cleared', stack', Len(stack')) /\ OwnInv(prog, values, cleared', stack')
  <2>1. CASE Pop(stack) = <<>>
    BY <1>2, <1>6, <2>1
  <2>2. CASE Pop(stack) # <<>>
    <3>1. Follows(prog, values, Pop(stack), stack')
      BY <1>2, <1>4, <1>6, <2>2
    <3>. QED BY <1>2, <3>1 DEF Follows
  <2>. QED BY <2>1, <2>2
<1>8. Going' = Len(stack')
  BY <1>1 DEF Going
<1>. QED BY <1>1, <1>2, <1>6, <1>7, <1>8 DEF IInv

LEMMA UnwindKeeps == ASSUME IInv, Unwind PROVE IInv'
<1>1. exc # None /\ stack # <<>> /\ FrameDies /\ UNCHANGED <<prog, values, arena, steps, stale>>
  BY DEF Unwind
<1>2. /\ HeapInv(prog, values, cleared', arena) /\ cleared' \subseteq AtRisk(values)
      /\ StackInv(prog, values, Pop(stack)) /\ Len(Pop(stack)) \in Nat
      /\ LiveInv(prog, cleared', Pop(stack), Len(Pop(stack))) /\ OwnInv(prog, values, cleared', Pop(stack))
      /\ Pop(stack) # <<>> => \A h \in Quiet(values) : Follows(prog, values, Pop(stack), Answer(Pop(stack), h))
  BY <1>1, Dies
<1>3. \/ Pop(stack) # <<>> /\ stack' = Answer(Pop(stack), Undefined) /\ exc' = None
      \/ stack' = Pop(stack) /\ exc' = exc
  BY DEF Unwind
<1>4. CASE Pop(stack) # <<>> /\ stack' = Answer(Pop(stack), Undefined) /\ exc' = None
  <2>1. Undefined \in Quiet(values)
    BY Parts, TableTypes DEF Undefined
  <2>2. Follows(prog, values, Pop(stack), stack')
    BY <1>2, <1>4, <2>1
  <2>3. /\ StackInv(prog, values, stack') /\ LiveInv(prog, cleared', stack', Len(stack')) /\ OwnInv(prog, values, cleared', stack')
    BY <1>2, <2>2 DEF Follows
  <2>4. Going' = Len(stack')
    BY <1>4 DEF Going
  <2>. QED BY <1>1, <1>2, <1>4, <2>3, <2>4 DEF IInv
<1>5. CASE stack' = Pop(stack) /\ exc' = exc
  <2>1. LiveInv(prog, cleared', stack', Len(stack') - 1)
    BY <1>2, <1>5 DEF LiveInv
  <2>2. Going' = Len(stack') - 1
    BY <1>1, <1>5 DEF Going
  <2>. QED BY <1>1, <1>2, <1>5, <2>1, <2>2 DEF IInv
<1>. QED BY <1>3, <1>4, <1>5

-----------------------------------------------------------------------------
(* The invariant holds.                                                    *)

LEMMA InitInv == Init => IInv
<1>. SUFFICES ASSUME Init PROVE IInv
  OBVIOUS
<1>1. /\ prog \in Programs /\ values = <<Array(<<>>)>> /\ cleared = {} /\ arena = 0 /\ exc = None /\ steps = 0 /\ stale = FALSE
  BY DEF Init, Undefined
<1>2. Good(prog)
  BY <1>1, ProgramsAssumption DEF Good
<1>3. PICK size : size = prog[1].size
  OBVIOUS
<1>4. size \in Nat /\ size >= 2 /\ 1 \in DOMAIN prog /\ 1 \in DOMAIN prog[1].blocks /\ RelSlots(prog[1]) \subseteq 3 .. size
  BY <1>2, <1>3, OfProgram DEF Good
<1>5. PICK regs : regs = [r \in 1 .. size |-> IF r = 2 THEN 1 ELSE 0]
  OBVIOUS
<1>6. PICK fr : fr = [fn |-> 1, regs |-> regs, bi |-> 1, ii |-> 1]
  OBVIOUS
<1>7. stack = <<fr>>
  BY <1>3, <1>5, <1>6 DEF Init
<1>8. PICK v : v = Array(<<>>)
  OBVIOUS
<1>9. v \in Values(prog) /\ v.kind = "array" /\ v.parent = 0 /\ v.elems = <<>> /\ ~v.pinned /\ ~v.rel
  BY <1>8, Fresh
<1>10. values \in Seq(Values(prog)) /\ Len(values) = 1 /\ values[1] = v
  BY <1>1, <1>8, <1>9
<1>11. DOMAIN values = {1} /\ Handles(values) = {0, 1} /\ AtRisk(values) = {} /\ Quiet(values) = {0, 1}
  BY <1>9, <1>10 DEF Handles, AtRisk, Quiet
<1>12. HeapInv(prog, values, cleared, arena)
  BY <1>1, <1>9, <1>10, <1>11 DEF HeapInv, ValueOK
<1>13. regs \in [1 .. size -> {0, 1}] /\ regs \in Seq(Nat) /\ \A r \in 3 .. size : regs[r] = 0
  <2>1. regs \in [1 .. size -> {0, 1}] /\ regs \in [1 .. size -> Nat]
    BY <1>5
  <2>. QED BY <1>4, <1>5, <2>1
<1>14. fr \in FrameSet(prog) /\ Slots(prog, fr) = RelSlots(prog[1])
  BY <1>4, <1>6, <1>13 DEF FrameSet, Slots
<1>15. FrameOK(prog, values, fr)
  <2>1. \A s \in Slots(prog, fr) : fr.regs[s] = 0
    BY <1>4, <1>6, <1>13, <1>14
  <2>. QED BY <1>3, <1>4, <1>6, <1>11, <1>13, <1>14, <2>1 DEF FrameOK
<1>16. stack \in Seq(FrameSet(prog)) /\ Len(stack) = 1 /\ DOMAIN stack = {1} /\ stack[1] = fr
  BY <1>7, <1>14
<1>17. InPlace(prog, values, stack, 1)
  BY <1>11 DEF InPlace
<1>18. Apart(prog, stack)
  BY <1>4, <1>6, <1>13, <1>14, <1>16 DEF Apart
<1>19. StackInv(prog, values, stack)
  BY <1>15, <1>16, <1>17, <1>18 DEF StackInv
<1>20. LiveInv(prog, cleared, stack, Going) /\ OwnInv(prog, values, cleared, stack)
  BY <1>1, <1>11 DEF LiveInv, OwnInv
<1>. QED BY <1>1, <1>12, <1>19, <1>20 DEF IInv

LEMMA NextInv == IInv /\ [Next]_vars => IInv'
<1>. SUFFICES ASSUME IInv, [Next]_vars PROVE IInv'
  OBVIOUS
<1>1. CASE UNCHANGED vars
  BY <1>1 DEF vars, IInv, Going
<1>2. CASE Next
  BY <1>2, StepLimitKeeps, MakeKeeps, PutKeeps, TakeKeeps, MakeClosureKeeps, CallKeeps, TryKeeps, ThrowKeeps,
     MoveKeeps, JumpKeeps, ReturnKeeps, UnwindKeeps DEF Next
<1>. QED BY <1>1, <1>2

THEOREM Invariance == Spec => []IInv
<1>1. Init => IInv
  BY InitInv
<1>2. IInv /\ [Next]_vars => IInv'
  BY NextInv
<1>. QED BY <1>1, <1>2, PTL DEF Spec

-----------------------------------------------------------------------------
(* What follows from it.                                                   *)

\* For every program of well formed functions: no handle that outlives the frame that
\* made it is released, and no emptied slot is read, whatever loops, calls, throws and
\* pooled frames do (llvmmap.go recycle: "a value that could have escaped it is not
\* marked").
THEOREM EscapesKept == Spec => []KeepsWhatEscapes
<1>1. IInv => KeepsWhatEscapes
  <2>. SUFFICES ASSUME IInv PROVE KeepsWhatEscapes
    OBVIOUS
  <2>1. /\ values \in Seq(Values(prog)) /\ cleared \subseteq AtRisk(values) /\ arena \in Quiet(values) /\ stale = FALSE
        /\ \A h \in DOMAIN values : ValueOK(prog, values, values[h])
    BY DEF IInv, HeapInv
  <2>2. Handle = Handles(values) /\ Quiet(values) \subseteq Handle /\ Quiet(values) \cap cleared = {}
    BY <2>1 DEF Handle, Handles, Quiet
  <2>3. Kept \subseteq Quiet(values)
    <3>1. {values[h].parent : h \in {c \in DOMAIN values : values[c].kind = "closure"}} \subseteq Quiet(values)
      BY <2>1 DEF ValueOK
    <3>2. \A h \in DOMAIN values : {values[h].elems[i] : i \in DOMAIN values[h].elems} \subseteq Quiet(values)
      BY <2>1 DEF ValueOK
    <3>3. (UNION {{values[h].elems[i] : i \in DOMAIN values[h].elems} : h \in DOMAIN values \ cleared}) \subseteq Quiet(values)
      BY <3>2
    <3>. QED BY <2>1, <3>1, <3>3 DEF Kept
  <2>4. TypeOK
    <3>1. ASSUME NEW h \in DOMAIN values
          PROVE  /\ values[h].kind \in {"scope", "array", "closure"}
                 /\ values[h].parent \in Handle /\ \A i \in DOMAIN values[h].elems : values[h].elems[i] \in Handle
      <4>1. values[h] \in Values(prog) /\ ValueOK(prog, values, values[h])
        BY <2>1, TableTypes
      <4>. QED BY <2>2, <4>1 DEF Values, ValueOK
    <3>2. \A h \in cleared : h \in DOMAIN values /\ values[h].rel /\ ~values[h].pinned
      BY <2>1 DEF AtRisk
    <3>3. ASSUME NEW i \in DOMAIN stack
          PROVE  /\ stack[i].fn \in DOMAIN prog /\ stack[i].bi \in DOMAIN prog[stack[i].fn].blocks
                 /\ \A r \in DOMAIN stack[i].regs : stack[i].regs[r] \in Handle
      <4>1. FrameOK(prog, values, stack[i]) /\ Good(prog)
        BY Parts DEF IInv, StackInv
      <4>2. stack[i].fn \in DOMAIN prog /\ stack[i].regs \in [DOMAIN stack[i].regs -> Handles(values)]
        BY <2>1, <4>1, SlotsThere
      <4>. QED BY <2>2, <4>1, <4>2 DEF FrameOK
    <3>4. arena \in Handle
      BY <2>1, <2>2
    <3>. QED BY <3>1, <3>2, <3>3, <3>4 DEF TypeOK, IInv
  <2>. QED BY <2>1, <2>2, <2>3, <2>4 DEF KeepsWhatEscapes
<1>. QED BY <1>1, Invariance, PTL

\* And of what reclaimable calls have made, only the last value of each such call in a
\* live frame is still in the table, and the arrays that a callee pinned (llvmmap.go
\* recycle: "a program that runs a loop N times leaves N scopes behind").
THEOREM LoopsLeaveNothing == Spec => []NothingPiles
<1>1. IInv => NothingPiles
  BY DEF IInv, OwnInv, AtRisk, Slots, NothingPiles
<1>. QED BY <1>1, Invariance, PTL
=============================================================================
