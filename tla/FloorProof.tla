----------------------------- MODULE FloorProof -----------------------------
(***************************************************************************)
(* The C floor (languages/lib/runtime.c): inductive invariants of the      *)
(* generators (GenFloor) and of the collector (Collector), and the         *)
(* theorems that follow from them for any number of generators, any size   *)
(* of the barrier pools and any heap.                                      *)
(***************************************************************************)
EXTENDS GenFloorProps, Collector, FiniteSetTheorems, SequenceTheorems, TLAPS

(***************************************************************************)
(* The generators: the stacks, who runs on which, and what a barrier       *)
(* brings back.                                                            *)
(***************************************************************************)

\* The resumers wait one above the other: main first, each for the next.
ChainInv ==
  /\ \A s \in Stack : call[s] # None <=> pc[s] = "wait"
  /\ \A s \in Stack : pc[s] = "wait" => \E i \in DOMAIN RES : RES[i].lo = s
  /\ \A i \in DOMAIN RES : pc[RES[i].lo] = "wait"
  /\ \A i, j \in DOMAIN RES : RES[i].lo = RES[j].lo => i = j
  /\ RES # <<>> => RES[1].lo = Main
  /\ \A i \in DOMAIN RES : i # Len(RES) => call[RES[i].lo].g = RES[i + 1].lo

\* What a resumer parked is what it had when it ran.
ParkedInv ==
  \A i \in DOMAIN RES :
    LET s == RES[i].lo IN
    /\ RES[i].hi = s /\ RES[i].jbp = s /\ RES[i].jbd = Barriers(s)
    /\ call[s].jbp = s /\ call[s].jbd = Barriers(s)
    /\ call[s].gen = IF s = Main THEN None ELSE s

\* Only the target of the innermost resume may be running, about to run or
\* about to answer; every other coroutine waits for its turn.
SchedInv ==
  /\ \A g \in Gen : pc[g] = "wait" => turn[g] = 1
  /\ \A g \in Gen : pc[g] # "wait" /\ g # Target =>
       turn[g] = 0 /\ pc[g] \in {"none", "parked", "gone"}
  /\ pc[Main] \in {"run", "raise", "wait"}
  /\ pc[Target] # "wait" /\ Target \in Gen =>
       \/ turn[Target] = 1 /\ pc[Target] \in {"run", "raise", "entry", "parked"}
       \/ turn[Target] = 0 /\ pc[Target] \in {"parked", "gone"}

\* The control block describes its thread.
CbInv ==
  \A g \in Gen :
    /\ pc[g] = "none" <=> ~started[g]
    /\ pc[g] \in {"none", "entry"} <=> state[g] = 0
    /\ pc[g] = "parked" <=> state[g] = 1
    /\ pc[g] = "gone" <=> state[g] = 2
    /\ pc[g] \in {"run", "raise", "wait"} <=> state[g] = 3
    /\ pc[g] = "parked" => parked[g] = Barriers(g)
    /\ pc[g] = "gone" => e[g]
    /\ pc[g] \in {"none", "entry", "gone"} => frames[g] = <<>>

\* The k-th try statement of a stack was entered at depth k.
FrameInv == \A s \in Stack : \A i \in DOMAIN frames[s] : frames[s][i].mydepth = i

IInv ==
  /\ TypeOK
  /\ ChainInv
  /\ ParkedInv
  /\ SchedInv
  /\ CbInv
  /\ FrameInv
  /\ OwnsGlobals

-----------------------------------------------------------------------------
(* Sequences.                                                              *)

LEMMA Appended ==
  ASSUME NEW S, NEW q \in Seq(S), NEW x \in S
  PROVE  /\ Append(q, x) \in Seq(S)
         /\ Len(Append(q, x)) = Len(q) + 1
         /\ DOMAIN Append(q, x) = 1 .. Len(q) + 1
         /\ Append(q, x)[Len(q) + 1] = x
         /\ \A i \in 1 .. Len(q) : Append(q, x)[i] = q[i]
  OBVIOUS

LEMMA Prefix ==
  ASSUME NEW S, NEW q \in Seq(S), NEW k \in 0 .. Len(q)
  PROVE  /\ SubSeq(q, 1, k) \in Seq(S)
         /\ Len(SubSeq(q, 1, k)) = k
         /\ DOMAIN SubSeq(q, 1, k) = 1 .. k
         /\ \A i \in 1 .. k : SubSeq(q, 1, k)[i] = q[i]
  OBVIOUS

LEMMA Indices ==
  ASSUME NEW S, NEW q \in Seq(S)
  PROVE  /\ Len(q) \in Nat
         /\ DOMAIN q = 1 .. Len(q)
         /\ \A i \in 1 .. Len(q) : q[i] \in S
         /\ q # <<>> <=> Len(q) > 0
  OBVIOUS

LEMMA AsFunction ==
  ASSUME NEW S, NEW q \in Seq(S)
  PROVE  q \in [1 .. Len(q) -> S]
  OBVIOUS

LEMMA ResEntries ==
  ASSUME TypeOK
  PROVE  /\ Len(RES) \in Nat /\ DOMAIN RES = 1 .. Len(RES)
         /\ RES # <<>> <=> Len(RES) > 0
         /\ \A i \in DOMAIN RES : RES[i].lo \in Stack /\ RES[i].hi \in Stack
                                 /\ RES[i].jbp \in Stack /\ RES[i].jbd \in Nat
<1> DEFINE Entry == [lo: Stack, hi: Stack, jbp: Stack, jbd: Nat]
<1>1. RES \in Seq(Entry)
  BY DEF TypeOK
<1> HIDE DEF Entry
<1>2. /\ Len(RES) \in Nat /\ DOMAIN RES = 1 .. Len(RES)
      /\ RES # <<>> <=> Len(RES) > 0
      /\ \A i \in 1 .. Len(RES) : RES[i] \in Entry
  BY <1>1, Indices
<1>. QED BY <1>2 DEF Entry

-----------------------------------------------------------------------------
(* The stack that runs.                                                    *)

\* Whoever runs is the target of the innermost resume, with its own globals.
LEMMA Runner ==
  ASSUME IInv, NEW s \in Stack, Active(s)
  PROVE  /\ s = Target
         /\ GC_STACK_BASE = s /\ JBP = s
         /\ JB_DEPTH = Len(frames[s]) + 1
         /\ CUR_GEN = IF s = Main THEN None ELSE s
         /\ frames[s] \in Seq(Frame)
         /\ s \in Gen => turn[s] = 1 /\ state[s] = 3
<1>1. s = Target
  <2>1. CASE s \in Gen
    BY <2>1 DEF IInv, SchedInv, Active
  <2>2. CASE s = Main
    <3>1. RES = <<>>
      <4>1. SUFFICES ASSUME RES # <<>> PROVE FALSE
        OBVIOUS
      <4>2. 1 \in DOMAIN RES
        BY <4>1, ResEntries DEF IInv
      <4>3. pc[Main] = "wait"
        BY <4>1, <4>2 DEF IInv, ChainInv
      <4>. QED BY <4>3, <2>2 DEF Active
    <3>. QED BY <2>2, <3>1 DEF Target
  <2>. QED BY <2>1, <2>2 DEF Stack
<1>2. s \in Gen => turn[s] = 1
  BY <1>1 DEF IInv, SchedInv, Active
<1>3. s \in Gen => state[s] = 3
  BY DEF IInv, CbInv, Active, TypeOK
<1>. QED BY <1>1, <1>2, <1>3 DEF IInv, OwnsGlobals, TypeOK, Barriers

-----------------------------------------------------------------------------
(* Steps that move no control between stacks.                              *)

\* The parked resumers stay what they are when a step changes neither RES nor
\* the locals of gen_resume nor the frames of a waiting stack.
LEMMA ChainKept ==
  ASSUME IInv, UNCHANGED <<RES, call>>,
         \A s \in Stack : pc'[s] = "wait" <=> pc[s] = "wait",
         \A s \in Stack : pc[s] = "wait" => frames'[s] = frames[s]
  PROVE  ChainInv' /\ ParkedInv' /\ Target' = Target
<1>1. \A i \in DOMAIN RES : RES[i].lo \in Stack
  BY ResEntries DEF IInv
<1>2. ChainInv'
  BY <1>1 DEF IInv, ChainInv
<1>3. ParkedInv'
  BY <1>1 DEF IInv, ChainInv, ParkedInv, Barriers
<1>4. Target' = Target
  BY DEF Target, Resumer
<1>. QED BY <1>2, <1>3, <1>4

\* A step of the running stack s that changes its try statements to q.
LEMMA RunStep ==
  ASSUME IInv, NEW s \in Stack, Active(s), TypeOK',
         UNCHANGED <<started, cbVars, GC_STACK_BASE, JBP, CUR_GEN, RES, call>>,
         \A g \in Gen : e[g] => e'[g],
         NEW p \in {"run", "raise"}, pc' = [pc EXCEPT ![s] = p],
         NEW q \in Seq(Frame), frames' = [frames EXCEPT ![s] = q],
         \A i \in DOMAIN q : q[i].mydepth = i,
         JB_DEPTH' = Len(q) + 1
  PROVE  IInv'
<1>1. s = Target /\ (s \in Gen => turn[s] = 1 /\ state[s] = 3)
  BY Runner
<1>2. \A t \in Stack : pc'[t] = IF t = s THEN p ELSE pc[t]
  BY DEF IInv, TypeOK
<1>3. \A t \in Stack : frames'[t] = IF t = s THEN q ELSE frames[t]
  BY DEF IInv, TypeOK
<1>4. ChainInv' /\ ParkedInv' /\ Target' = Target
  BY <1>2, <1>3, ChainKept DEF Active
<1>5. SchedInv'
  BY <1>1, <1>2, <1>4 DEF IInv, SchedInv, cbVars, Stack, Active
<1>6. CbInv'
  BY <1>1, <1>2, <1>3 DEF IInv, CbInv, cbVars, Stack, Active, Barriers
<1>7. FrameInv'
  BY <1>3 DEF IInv, FrameInv
<1>8. OwnsGlobals'
  <2>1. \A t \in Stack : Active(t)' => t = s
    <3>1. SUFFICES ASSUME NEW t \in Stack, Active(t)', t # s PROVE FALSE
      OBVIOUS
    <3>2. Active(t)
      BY <3>1, <1>2 DEF Active
    <3>. QED BY <3>1, <3>2, <1>1, Runner
  <2>. QED BY <2>1, <1>3, Runner DEF OwnsGlobals, Barriers
<1>. QED BY <1>4, <1>5, <1>6, <1>7, <1>8 DEF IInv

\* A step of try, catch, finally or throw.
LEMMA TryStepInv ==
  ASSUME IInv, NEW s \in Stack, Active(s),
         UNCHANGED <<proc, cellVars, cbVars, GC_STACK_BASE, JBP, CUR_GEN, RES, call>>,
         THROWN' \in Value, ans' = None,
         NEW p \in {"run", "raise"}, pc' = [pc EXCEPT ![s] = p],
         NEW q \in Seq(Frame), frames' = [frames EXCEPT ![s] = q],
         \A i \in DOMAIN q : q[i].mydepth = i,
         JB_DEPTH' = Len(q) + 1
  PROVE  IInv'
<1>1. pc' \in [Stack -> Pc]
  BY DEF IInv, TypeOK, Pc
<1>2. frames' \in [Stack -> Seq(Frame)]
  BY DEF IInv, TypeOK
<1>3. JB_DEPTH' \in Nat
  BY Indices
<1>4. TypeOK'
  BY <1>1, <1>2, <1>3 DEF IInv, TypeOK, cellVars, cbVars
<1>. QED BY <1>4, RunStep DEF cellVars

\* The frames below position k of the running stack, and the frame there.
LEMMA FrameAt ==
  ASSUME IInv, NEW s \in Stack, NEW k \in 1 .. Len(frames[s])
  PROVE  /\ frames[s][k] \in Frame /\ frames[s][k].mydepth = k
         /\ SubSeq(frames[s], 1, k - 1) \in Seq(Frame)
         /\ Len(SubSeq(frames[s], 1, k - 1)) = k - 1
         /\ \A i \in DOMAIN SubSeq(frames[s], 1, k - 1) :
               SubSeq(frames[s], 1, k - 1)[i].mydepth = i
<1>1. frames[s] \in Seq(Frame)
  BY DEF IInv, TypeOK
<1>2. k - 1 \in 0 .. Len(frames[s]) /\ DOMAIN frames[s] = 1 .. Len(frames[s])
  BY <1>1, Indices
<1>3. frames[s][k] \in Frame
  BY <1>1, Indices
<1>4. \A i \in 1 .. Len(frames[s]) : frames[s][i].mydepth = i
  BY <1>2 DEF IInv, FrameInv
<1>5. /\ SubSeq(frames[s], 1, k - 1) \in Seq(Frame)
      /\ Len(SubSeq(frames[s], 1, k - 1)) = k - 1
      /\ DOMAIN SubSeq(frames[s], 1, k - 1) = 1 .. k - 1
      /\ \A i \in 1 .. k - 1 : SubSeq(frames[s], 1, k - 1)[i] = frames[s][i]
  BY <1>1, <1>2, Prefix
<1>6. Len(frames[s]) \in Nat /\ \A i \in 1 .. k - 1 : i \in 1 .. Len(frames[s])
  BY <1>1, Indices
<1>. QED BY <1>3, <1>4, <1>5, <1>6

\* Entering position k, in whatever phase, under a barrier of depth k.
LEMMA Entering ==
  ASSUME NEW q \in Seq(Frame), \A i \in DOMAIN q : q[i].mydepth = i,
         NEW fr \in Frame, fr.mydepth = Len(q) + 1
  PROVE  /\ Append(q, fr) \in Seq(Frame)
         /\ \A i \in DOMAIN Append(q, fr) : Append(q, fr)[i].mydepth = i
         /\ Len(Append(q, fr)) = Len(q) + 1
<1>1. Len(q) \in Nat /\ DOMAIN q = 1 .. Len(q)
  BY Indices
<1>. QED BY <1>1, Appended

LEMMA TryEnterInv ==
  ASSUME IInv, NEW s \in Stack, NEW hc \in BOOLEAN, NEW hf \in BOOLEAN,
         TryEnter(s, hc, hf)
  PROVE  IInv'
<1> DEFINE fr == [phase |-> "try", hasCatch |-> hc, hasFin |-> hf,
                  pending |-> None, mydepth |-> JB_DEPTH]
           q == Append(frames[s], fr)
<1>1. Active(s) /\ pc' = [pc EXCEPT ![s] = "run"]
  BY DEF TryEnter, Running, Active, IInv, TypeOK
<1>2. frames[s] \in Seq(Frame) /\ JB_DEPTH = Len(frames[s]) + 1
  BY <1>1, Runner
<1>3. fr \in Frame
  BY DEF Frame, IInv, TypeOK
<1>4. \A i \in DOMAIN frames[s] : frames[s][i].mydepth = i
  BY DEF IInv, FrameInv
<1>5. /\ q \in Seq(Frame) /\ Len(q) = Len(frames[s]) + 1
      /\ \A i \in DOMAIN q : q[i].mydepth = i
  BY <1>2, <1>3, <1>4, Entering
<1>6. /\ frames' = [frames EXCEPT ![s] = q]
      /\ JB_DEPTH' = Len(q) + 1
      /\ UNCHANGED <<proc, cellVars, cbVars, GC_STACK_BASE, JBP, CUR_GEN, RES, call>>
      /\ ans' = None /\ THROWN' \in Value
  BY <1>2, <1>5 DEF TryEnter, IInv, TypeOK
<1> HIDE DEF q, fr
<1>. QED BY <1>1, <1>5, <1>6, TryStepInv

\* A clause of the innermost try statement, at position n, returns.
LEMMA ClauseDoneInv ==
  ASSUME IInv, NEW s \in Stack, ClauseDone(s)
  PROVE  IInv'
<1> DEFINE n == Len(frames[s])
           fr == frames[s][n]
           fin == Append(Outer(s), [fr EXCEPT !.phase = "fin"])
<1>1. Active(s) /\ pc' = [pc EXCEPT ![s] = "run"]
  BY DEF ClauseDone, Running, Active, IInv, TypeOK
<1>2. frames[s] \in Seq(Frame) /\ n \in 1 .. Len(frames[s])
  BY <1>1, Runner, Indices DEF ClauseDone
<1>3. /\ fr \in Frame /\ fr.mydepth = n
      /\ Outer(s) \in Seq(Frame) /\ Len(Outer(s)) = n - 1
      /\ \A i \in DOMAIN Outer(s) : Outer(s)[i].mydepth = i
  BY <1>2, FrameAt DEF Outer
<1>4. /\ UNCHANGED <<proc, cellVars, cbVars, GC_STACK_BASE, JBP, CUR_GEN, RES, call>>
      /\ ans' = None /\ THROWN' \in Value
  BY DEF ClauseDone, IInv, TypeOK
<1>5. CASE fr.hasFin
  <2>1. [fr EXCEPT !.phase = "fin"] \in Frame /\ [fr EXCEPT !.phase = "fin"].mydepth = n
    BY <1>3 DEF Frame
  <2>2. /\ fin \in Seq(Frame) /\ \A i \in DOMAIN fin : fin[i].mydepth = i
        /\ Len(fin) = n
    BY <2>1, <1>2, <1>3, Entering
  <2>3. frames' = [frames EXCEPT ![s] = fin] /\ JB_DEPTH' = Len(fin) + 1
    BY <1>3, <1>5, <2>2 DEF ClauseDone, Innermost
  <2> HIDE DEF fin, fr, n
  <2>. QED BY <1>1, <1>4, <2>2, <2>3, TryStepInv
<1>6. CASE ~fr.hasFin
  <2>1. frames' = [frames EXCEPT ![s] = Outer(s)] /\ JB_DEPTH' = Len(Outer(s)) + 1
    BY <1>2, <1>3, <1>6 DEF ClauseDone, Innermost
  <2>. QED BY <1>1, <1>3, <1>4, <2>1, TryStepInv
<1>. QED BY <1>5, <1>6

LEMMA FinallyDoneInv ==
  ASSUME IInv, NEW s \in Stack, NEW ctl \in BOOLEAN, FinallyDone(s, ctl)
  PROVE  IInv'
<1> DEFINE n == Len(frames[s])
           fr == frames[s][n]
<1>1. Active(s) /\ pc[s] = "run"
  BY DEF FinallyDone, Running, Active
<1>2. frames[s] \in Seq(Frame) /\ n \in 1 .. Len(frames[s])
  BY <1>1, Runner, Indices DEF FinallyDone
<1>3. /\ fr \in Frame /\ fr.mydepth = n
      /\ Outer(s) \in Seq(Frame) /\ Len(Outer(s)) = n - 1
      /\ \A i \in DOMAIN Outer(s) : Outer(s)[i].mydepth = i
  BY <1>2, FrameAt DEF Outer
<1>4. /\ UNCHANGED <<proc, cellVars, cbVars, GC_STACK_BASE, JBP, CUR_GEN, RES, call>>
      /\ ans' = None
      /\ frames' = [frames EXCEPT ![s] = Outer(s)] /\ JB_DEPTH' = Len(Outer(s)) + 1
  BY <1>2, <1>3 DEF FinallyDone, Innermost
<1>5. CASE ~Pends(fr, ctl)
  <2>1. THROWN' \in Value /\ pc' = [pc EXCEPT ![s] = "run"]
    BY <1>1, <1>5 DEF FinallyDone, Innermost, IInv, TypeOK
  <2>. QED BY <1>1, <1>3, <1>4, <2>1, TryStepInv
<1>6. CASE Pends(fr, ctl)
  <2>1. fr.pending \in Value
    BY <1>3, <1>6 DEF Frame, Pends
  <2>2. THROWN' \in Value /\ pc' = [pc EXCEPT ![s] = "raise"]
    BY <2>1, <1>6 DEF FinallyDone, Innermost, Throw
  <2>. QED BY <1>1, <1>3, <1>4, <2>2, TryStepInv
<1>. QED BY <1>5, <1>6

LEMMA ThrowUserInv ==
  ASSUME IInv, NEW s \in Stack, NEW v \in UserVal, ThrowUser(s, v)
  PROVE  IInv'
<1>1. Active(s) /\ pc' = [pc EXCEPT ![s] = "raise"] /\ THROWN' \in Value /\ ans' = None
  BY DEF ThrowUser, Throw, Running, Active, Value
<1>2. frames[s] \in Seq(Frame) /\ JB_DEPTH = Len(frames[s]) + 1
  BY <1>1, Runner
<1>3. \A i \in DOMAIN frames[s] : frames[s][i].mydepth = i
  BY DEF IInv, FrameInv
<1>4. frames' = [frames EXCEPT ![s] = frames[s]] /\ JB_DEPTH' = Len(frames[s]) + 1
  BY <1>2 DEF ThrowUser, sideVars, IInv, TypeOK
<1>5. UNCHANGED <<proc, cellVars, cbVars, GC_STACK_BASE, JBP, CUR_GEN, RES, call>>
  BY DEF ThrowUser, sideVars
<1>. QED BY <1>1, <1>2, <1>3, <1>4, <1>5, TryStepInv

\* A throw lands in the innermost try statement of the stack that throws.
LEMMA LandsInnermost ==
  ASSUME IInv, NEW s \in Stack, Raising(s), Slot > 0
  PROVE  /\ Active(s) /\ JBP = s /\ Slot = Len(frames[s])
         /\ Landing = frames[s][Len(frames[s])] /\ Landing \in Frame
         /\ Landing.mydepth = Len(frames[s])
         /\ Below \in Seq(Frame) /\ Len(Below) = Landing.mydepth - 1
         /\ \A i \in DOMAIN Below : Below[i].mydepth = i
         /\ Len(frames[s]) \in Nat
<1>1. Active(s)
  BY DEF Raising, Active
<1>2. JBP = s /\ frames[s] \in Seq(Frame) /\ JB_DEPTH = Len(frames[s]) + 1
  BY <1>1, Runner
<1>3. Len(frames[s]) \in Nat
  BY <1>2, Indices
<1>4. Slot = Len(frames[s]) /\ Len(frames[s]) \in 1 .. Len(frames[s])
  BY <1>2, <1>3 DEF Slot
<1>. QED BY <1>1, <1>2, <1>3, <1>4, FrameAt DEF Landing, Below

\* A clause that takes the exception runs in the place of the one that threw.
LEMMA LandInv ==
  ASSUME IInv, NEW s \in Stack, Raising(s), Slot > 0,
         NEW fr \in Frame, fr.mydepth = Landing.mydepth,
         frames' = [frames EXCEPT ![JBP] = Append(Below, fr)],
         JB_DEPTH' = Landing.mydepth + 1, pc' = [pc EXCEPT ![s] = "run"], ans' = None,
         UNCHANGED <<proc, cellVars, cbVars, GC_STACK_BASE, JBP, CUR_GEN, THROWN, RES, call>>
  PROVE  IInv'
<1> DEFINE q == Append(Below, fr)
<1>1. /\ Active(s) /\ JBP = s
      /\ Below \in Seq(Frame) /\ Len(Below) = Landing.mydepth - 1
      /\ \A i \in DOMAIN Below : Below[i].mydepth = i
      /\ Landing.mydepth \in Nat
  BY LandsInnermost
<1>2. fr.mydepth = Len(Below) + 1
  BY <1>1
<1>3. /\ q \in Seq(Frame) /\ Len(q) = Len(Below) + 1
      /\ \A i \in DOMAIN q : q[i].mydepth = i
  BY <1>1, <1>2, Entering
<1>4. frames' = [frames EXCEPT ![s] = q] /\ JB_DEPTH' = Len(q) + 1 /\ THROWN' \in Value
  BY <1>1, <1>3 DEF IInv, TypeOK
<1> HIDE DEF q
<1>. QED BY <1>1, <1>3, <1>4, TryStepInv

LEMMA LandInCatchInv ==
  ASSUME IInv, NEW s \in Stack, LandInCatch(s)
  PROVE  IInv'
<1> DEFINE fr == [Landing EXCEPT !.phase = "catch"]
<1>1. Raising(s) /\ Slot > 0
  BY DEF LandInCatch
<1>2. fr \in Frame /\ fr.mydepth = Landing.mydepth
  BY <1>1, LandsInnermost DEF Frame
<1>. QED BY <1>1, <1>2, LandInv DEF LandInCatch

LEMMA LandInFinallyInv ==
  ASSUME IInv, NEW s \in Stack, LandInFinally(s)
  PROVE  IInv'
<1> DEFINE fr == [Landing EXCEPT !.phase = "fin", !.pending = THROWN]
<1>1. Raising(s) /\ Slot > 0
  BY DEF LandInFinally
<1>2. fr \in Frame /\ fr.mydepth = Landing.mydepth
  BY <1>1, LandsInnermost DEF Frame, IInv, TypeOK
<1>. QED BY <1>1, <1>2, LandInv DEF LandInFinally

LEMMA LandAndRethrowInv ==
  ASSUME IInv, NEW s \in Stack, LandAndRethrow(s)
  PROVE  IInv'
<1>1. Raising(s) /\ Slot > 0
  BY DEF LandAndRethrow
<1>2. /\ Active(s) /\ JBP = s
      /\ Below \in Seq(Frame) /\ Len(Below) = Landing.mydepth - 1
      /\ \A i \in DOMAIN Below : Below[i].mydepth = i
      /\ Landing.mydepth \in Nat
  BY <1>1, LandsInnermost
<1>3. /\ frames' = [frames EXCEPT ![s] = Below] /\ JB_DEPTH' = Len(Below) + 1
      /\ THROWN' \in Value /\ ans' = None
      /\ UNCHANGED <<proc, cellVars, cbVars, GC_STACK_BASE, JBP, CUR_GEN, RES, call>>
  BY <1>2 DEF LandAndRethrow, IInv, TypeOK
<1>4. pc' = [pc EXCEPT ![s] = "raise"]
  BY <1>1 DEF LandAndRethrow, Raising, IInv, TypeOK
<1>. QED BY <1>2, <1>3, <1>4, TryStepInv

\* The end of the process changes nothing else.
LEMMA ExitInv ==
  ASSUME IInv, proc' = "exited", ans' = None,
         UNCHANGED <<cellVars, cbVars, sideVars, THROWN, RES, pc, frames, call>>
  PROVE  IInv'
<1>1. TypeOK'
  BY DEF IInv, TypeOK, cellVars, cbVars, sideVars
<1>2. ChainInv' /\ ParkedInv' /\ Target' = Target
  BY ChainKept
<1>3. SchedInv' /\ CbInv' /\ FrameInv' /\ OwnsGlobals'
  BY <1>2 DEF IInv, SchedInv, CbInv, FrameInv, OwnsGlobals, Active, Barriers,
              cellVars, cbVars, sideVars
<1>. QED BY <1>1, <1>2, <1>3 DEF IInv

\* A step of the running program that touches only generator cells and raises
\* at most an exception.
LEMMA CellStepInv ==
  ASSUME IInv, NEW s \in Stack, Active(s), TypeOK',
         UNCHANGED <<started, cbVars, sideVars, RES, call, frames>>,
         \A g \in Gen : e[g] => e'[g],
         NEW p \in {"run", "raise"}, pc' = [pc EXCEPT ![s] = p]
  PROVE  IInv'
<1>1. frames[s] \in Seq(Frame) /\ JB_DEPTH = Len(frames[s]) + 1
  BY Runner
<1>2. \A i \in DOMAIN frames[s] : frames[s][i].mydepth = i
  BY DEF IInv, FrameInv
<1>3. frames' = [frames EXCEPT ![s] = frames[s]] /\ JB_DEPTH' = Len(frames[s]) + 1
  BY <1>1 DEF sideVars, IInv, TypeOK
<1>. QED BY <1>1, <1>2, <1>3, RunStep DEF sideVars

LEMMA AnswerTyped ==
  ASSUME NEW s \in Stack, NEW v \in Value, NEW k \in {"sent", "value", "done", "raise"}
  PROVE  Answer(s, k, v) \in [to: Stack, kind: {"sent", "value", "done", "raise"}, val: Value]
  BY DEF Answer

LEMMA GenCreateInv ==
  ASSUME IInv, NEW s \in Stack, NEW g \in Gen, GenCreate(s, g)
  PROVE  IInv'
<1>1. Active(s) /\ pc' = [pc EXCEPT ![s] = "run"]
  BY DEF GenCreate, Running, Active, IInv, TypeOK
<1>2. TypeOK'
  BY DEF GenCreate, IInv, TypeOK, cbVars, sideVars
<1>3. UNCHANGED <<started, e, cbVars, sideVars, RES, call, frames>>
  BY DEF GenCreate
<1>. QED BY <1>1, <1>2, <1>3, CellStepInv

LEMMA NextDoneInv ==
  ASSUME IInv, NEW s \in Stack, NEW g \in Gen, NextDone(s, g)
  PROVE  IInv'
<1>1. Active(s) /\ pc' = [pc EXCEPT ![s] = "run"]
  BY DEF NextDone, Running, Active, IInv, TypeOK
<1>2. TypeOK'
  BY AnswerTyped DEF NextDone, IInv, TypeOK, cellVars, cbVars, sideVars, Value, UserVal
<1>3. UNCHANGED <<started, e, cbVars, sideVars, RES, call, frames>>
  BY DEF NextDone, cellVars
<1>. QED BY <1>1, <1>2, <1>3, CellStepInv

LEMMA ReturnAtOnceInv ==
  ASSUME IInv, NEW s \in Stack, NEW g \in Gen, NEW v \in UserVal, ReturnAtOnce(s, g, v)
  PROVE  IInv'
<1>1. Active(s) /\ pc' = [pc EXCEPT ![s] = "run"]
  BY DEF ReturnAtOnce, Running, Active, IInv, TypeOK
<1>2. v \in Value /\ Undef \in Value
  BY DEF Value, UserVal
<1>3. e' \in [Gen -> BOOLEAN] /\ d' \in [Gen -> Value] /\ f' \in [Gen -> Value]
  BY <1>2 DEF ReturnAtOnce, IInv, TypeOK
<1>4. TypeOK'
  BY <1>2, <1>3, AnswerTyped DEF ReturnAtOnce, IInv, TypeOK, cbVars, sideVars
<1>5. UNCHANGED <<started, cbVars, sideVars, RES, call, frames>>
      /\ \A h \in Gen : e[h] => e'[h]
  BY DEF ReturnAtOnce, IInv, TypeOK
<1>. QED BY <1>1, <1>4, <1>5, CellStepInv

LEMMA ThrowAtOnceInv ==
  ASSUME IInv, NEW s \in Stack, NEW g \in Gen, NEW v \in UserVal, ThrowAtOnce(s, g, v)
  PROVE  IInv'
<1>1. Active(s) /\ pc' = [pc EXCEPT ![s] = "raise"] /\ THROWN' = v
  BY DEF ThrowAtOnce, Throw, Running, Active
<1>2. v \in Value /\ Undef \in Value
  BY DEF Value, UserVal
<1>3. e' \in [Gen -> BOOLEAN] /\ d' \in [Gen -> Value] /\ f' \in [Gen -> Value]
  BY <1>2 DEF ThrowAtOnce, IInv, TypeOK
<1>4. pc' \in [Stack -> Pc]
  BY <1>1 DEF IInv, TypeOK, Pc
<1>5. TypeOK'
  BY <1>1, <1>2, <1>3, <1>4, AnswerTyped DEF ThrowAtOnce, IInv, TypeOK, cbVars, sideVars
<1>6. UNCHANGED <<started, cbVars, sideVars, RES, call, frames>>
      /\ \A h \in Gen : e[h] => e'[h]
  BY DEF ThrowAtOnce, IInv, TypeOK
<1>. QED BY <1>1, <1>5, <1>6, CellStepInv

-----------------------------------------------------------------------------
(* A coroutine gains control, or gives it back.                            *)

\* Nobody runs while a coroutine is about to.
LEMMA Ready ==
  ASSUME IInv, NEW g \in Gen, pc[g] \in {"entry", "parked"}, turn[g] = 1
  PROVE  g = Target /\ \A s \in Stack : ~Active(s)
<1>1. g = Target
  BY DEF IInv, SchedInv
<1>2. ASSUME NEW s \in Stack, Active(s) PROVE FALSE
  <2>1. s = g
    BY <1>1, <1>2, Runner
  <2>. QED BY <2>1, <1>2 DEF Active
<1>. QED BY <1>1, <1>2

LEMMA HandoverInv ==
  ASSUME IInv, NEW g \in Gen, pc[g] \in {"entry", "parked"}, turn[g] = 1,
         TypeOK', TakeOver(g, Len(frames[g]) + 1),
         state' = [state EXCEPT ![g] = 3],
         NEW p \in {"run", "raise"}, pc' = [pc EXCEPT ![g] = p],
         UNCHANGED <<cellVars, turn, parked, RES, frames, call>>
  PROVE  IInv'
<1>1. g = Target /\ \A s \in Stack : ~Active(s)
  BY Ready
<1>2. \A t \in Stack : pc'[t] = IF t = g THEN p ELSE pc[t]
  BY DEF IInv, TypeOK
<1>3. ChainInv' /\ ParkedInv' /\ Target' = Target
  BY <1>2, ChainKept DEF Stack
<1>4. SchedInv'
  BY <1>1, <1>2, <1>3 DEF IInv, SchedInv, Stack
<1>5. \A h \in Gen : state'[h] = IF h = g THEN 3 ELSE state[h]
  BY DEF IInv, TypeOK
<1>6. CbInv'
  BY <1>2, <1>5 DEF IInv, CbInv, Stack, Barriers, cellVars
<1>7. FrameInv'
  BY DEF IInv, FrameInv
<1>8. g # Main
  BY NamesAssumption
<1>9. OwnsGlobals'
  BY <1>1, <1>2, <1>8 DEF OwnsGlobals, Active, TakeOver, Barriers
<1>. QED BY <1>3, <1>4, <1>6, <1>7, <1>9 DEF IInv

LEMMA CoroBeginInv ==
  ASSUME IInv, NEW g \in Gen, CoroBegin(g)
  PROVE  IInv'
<1>1. frames[g] = <<>> /\ Len(frames[g]) + 1 = 1
  BY DEF CoroBegin, Woken, IInv, CbInv
<1>2. /\ state' \in [Gen -> 0 .. 3] /\ pc' \in [Stack -> Pc] /\ JB_DEPTH' \in Nat
      /\ GC_STACK_BASE' \in Stack /\ JBP' \in Stack /\ CUR_GEN' \in Gen
  BY DEF CoroBegin, TakeOver, IInv, TypeOK, Pc, Stack
<1>3. TypeOK'
  BY <1>2 DEF CoroBegin, IInv, TypeOK, cellVars
<1>. QED BY <1>1, <1>3, HandoverInv DEF CoroBegin, Woken

LEMMA YieldWakeInv ==
  ASSUME IInv, NEW g \in Gen, YieldWake(g)
  PROVE  IInv'
<1>1. parked[g] = Len(frames[g]) + 1
  BY DEF YieldWake, IInv, CbInv, Barriers
<1>2. /\ state' \in [Gen -> 0 .. 3] /\ JB_DEPTH' \in Nat
      /\ GC_STACK_BASE' \in Stack /\ JBP' \in Stack /\ CUR_GEN' \in Gen
  BY DEF YieldWake, TakeOver, IInv, TypeOK, Stack
<1>3. g \in Stack /\ f[g] \in Value /\ GenExit \in Value
  BY DEF IInv, TypeOK, Stack, Value
<1>4. PICK p \in {"run", "raise"} : pc' = [pc EXCEPT ![g] = p]
  BY DEF YieldWake, Throw
<1>5. pc' \in [Stack -> Pc]
  BY <1>4 DEF IInv, TypeOK, Pc
<1>6. /\ closing' \in [Gen -> BOOLEAN] /\ throwin' \in [Gen -> BOOLEAN]
      /\ THROWN' \in Value
  BY <1>3 DEF YieldWake, ClearFlag, Throw, IInv, TypeOK
<1>7. ans' \in [to: Stack, kind: {"sent", "value", "done", "raise"}, val: Value]
  BY <1>3, AnswerTyped DEF YieldWake
<1>8. TypeOK'
  BY <1>2, <1>5, <1>6, <1>7 DEF YieldWake, IInv, TypeOK, cellVars
<1>9. TakeOver(g, Len(frames[g]) + 1)
  BY <1>1 DEF YieldWake
<1>. QED BY <1>4, <1>8, <1>9, HandoverInv DEF YieldWake, Woken

\* Giving back: the coroutine s parks in js_yield or returns.
LEMMA HandbackInv ==
  ASSUME IInv, NEW s \in Gen, Active(s), TypeOK',
         NEW p \in {"parked", "gone"}, pc' = [pc EXCEPT ![s] = p],
         state' = [state EXCEPT ![s] = IF p = "parked" THEN 1 ELSE 2],
         turn' = [turn EXCEPT ![s] = 0],
         p = "parked" => /\ parked' = [parked EXCEPT ![s] = Barriers(s)]
                         /\ UNCHANGED <<frames, e>>,
         p = "gone" => /\ frames' = [frames EXCEPT ![s] = <<>>]
                       /\ e' = [e EXCEPT ![s] = TRUE]
                       /\ UNCHANGED parked,
         UNCHANGED <<started, RES, call>>
  PROVE  IInv'
<1>1. s \in Stack /\ s = Target /\ s # Main
  BY Runner, NamesAssumption DEF Stack
<1>2. \A t \in Stack : pc'[t] = IF t = s THEN p ELSE pc[t]
  BY DEF IInv, TypeOK
<1>3. \A t \in Stack : t # s => frames'[t] = frames[t]
  BY DEF IInv, TypeOK
<1>4. ChainInv' /\ ParkedInv' /\ Target' = Target
  BY <1>2, <1>3, ChainKept DEF Active
<1>5. SchedInv'
  BY <1>1, <1>2, <1>4 DEF IInv, SchedInv, Stack, TypeOK
<1>6. CbInv'
  <2>1. CASE p = "parked"
    BY <1>1, <1>2, <2>1 DEF IInv, CbInv, Stack, Barriers, TypeOK, Active
  <2>2. CASE p = "gone"
    BY <1>1, <1>2, <1>3, <2>2 DEF IInv, CbInv, Stack, Barriers, TypeOK, Active
  <2>. QED BY <2>1, <2>2
<1>7. FrameInv'
  <2>1. CASE p = "parked"
    BY <2>1 DEF IInv, FrameInv
  <2>2. CASE p = "gone"
    <3>1. frames'[s] = <<>>
      BY <1>1, <2>2 DEF IInv, TypeOK
    <3>. QED BY <3>1, <1>3 DEF IInv, FrameInv
  <2>. QED BY <2>1, <2>2
<1>8. \A t \in Stack : ~Active(t)'
  BY <1>1, <1>2, Runner DEF Active
<1>9. OwnsGlobals'
  BY <1>8 DEF OwnsGlobals
<1>. QED BY <1>4, <1>5, <1>6, <1>7, <1>9 DEF IInv

\* coro_entry returns, with the body's value or its exception.
LEMMA CoroEndInv ==
  ASSUME IInv, NEW s \in Gen, Active(s), NEW v \in Value, NEW thrown \in BOOLEAN,
         CoroEnd(s, v, thrown)
  PROVE  IInv'
<1>1. s \in Stack /\ CUR_GEN = s
  BY Runner, NamesAssumption DEF Stack
<1>2. Undef \in Value
  BY DEF Value, UserVal
<1>3. /\ d' \in [Gen -> Value] /\ e' \in [Gen -> BOOLEAN] /\ f' \in [Gen -> Value]
      /\ threw' \in [Gen -> BOOLEAN] /\ JB_DEPTH' \in Nat
      /\ state' \in [Gen -> 0 .. 3] /\ turn' \in [Gen -> {0, 1}]
  BY <1>1, <1>2 DEF CoroEnd, HandBack, IInv, TypeOK
<1>4. pc' \in [Stack -> Pc] /\ frames' \in [Stack -> Seq(Frame)]
  BY <1>1 DEF CoroEnd, IInv, TypeOK, Pc
<1>5. TypeOK'
  BY <1>3, <1>4 DEF CoroEnd, IInv, TypeOK
<1>6. /\ pc' = [pc EXCEPT ![s] = "gone"] /\ turn' = [turn EXCEPT ![s] = 0]
      /\ state' = [state EXCEPT ![s] = 2]
      /\ frames' = [frames EXCEPT ![s] = <<>>] /\ e' = [e EXCEPT ![s] = TRUE]
      /\ UNCHANGED <<parked, started, RES, call>>
  BY <1>1 DEF CoroEnd, HandBack
<1>. QED BY <1>5, <1>6, HandbackInv

LEMMA CoroReturnInv ==
  ASSUME IInv, NEW s \in Stack, NEW v \in UserVal, CoroReturn(s, v)
  PROVE  IInv'
  BY CoroEndInv DEF CoroReturn, Running, Active, Value

LEMMA CoroThrowInv ==
  ASSUME IInv, NEW s \in Stack, CoroThrow(s)
  PROVE  IInv'
<1>1. THROWN \in Value
  BY DEF IInv, TypeOK
<1>. QED BY <1>1, CoroEndInv DEF CoroThrow, Raising, Active

\* js_yield parks the running generator: its own, and at its own depth.
LEMMA YieldInv ==
  ASSUME IInv, NEW s \in Stack, NEW v \in UserVal, Yield(s, v)
  PROVE  IInv'
<1>1. Active(s)
  BY DEF Yield, Running, Active
<1>2. s \in Gen /\ CUR_GEN = s /\ JB_DEPTH = Barriers(s) /\ JB_DEPTH \in Nat
  BY <1>1, Runner DEF Yield, Stack, Barriers, IInv, TypeOK
<1>3. /\ d' \in [Gen -> Value] /\ parked' \in [Gen -> Nat]
      /\ state' \in [Gen -> 0 .. 3] /\ turn' \in [Gen -> {0, 1}]
      /\ pc' \in [Stack -> Pc]
  BY <1>2 DEF Yield, Park, HandBack, IInv, TypeOK, Pc, Value, UserVal
<1>4. TypeOK'
  BY <1>3 DEF Yield, IInv, TypeOK, sideVars
<1>5. /\ pc' = [pc EXCEPT ![s] = "parked"] /\ turn' = [turn EXCEPT ![s] = 0]
      /\ state' = [state EXCEPT ![s] = 1]
      /\ parked' = [parked EXCEPT ![s] = Barriers(s)]
      /\ UNCHANGED <<frames, e, started, RES, call>>
  BY <1>2 DEF Yield, Park, HandBack
<1>. QED BY <1>1, <1>2, <1>4, <1>5, HandbackInv

-----------------------------------------------------------------------------
(* A resumer waits, and takes the control back.                            *)

LEMMA GenResumeInv ==
  ASSUME IInv, NEW s \in Stack, Running(s), NEW g \in Gen, ~e[g],
         NEW op \in {"next", "return", "throw"}, NEW sent \in UserVal, NEW val \in UserVal,
         GenResume(s, g, op, sent, val),
         closing' \in [Gen -> BOOLEAN], throwin' \in [Gen -> BOOLEAN]
  PROVE  IInv'
<1> DEFINE n == Len(RES)
           entry == [lo |-> s, hi |-> GC_STACK_BASE, jbp |-> JBP, jbd |-> JB_DEPTH]
           local == [op |-> op, g |-> g, val |-> val,
                     gen |-> CUR_GEN, jbp |-> JBP, jbd |-> JB_DEPTH]
           new == IF g = s \/ pc[g] = "wait" THEN "wait"
                  ELSE IF started[g] THEN pc[g] ELSE "entry"
<1>1. Active(s) /\ pc[s] = "run"
  BY DEF Running, Active
<1>2. /\ s = Target /\ GC_STACK_BASE = s /\ JBP = s /\ JB_DEPTH = Len(frames[s]) + 1
      /\ CUR_GEN = (IF s = Main THEN None ELSE s)
      /\ s \in Gen => turn[s] = 1 /\ state[s] = 3
  BY <1>1, Runner
<1>3. /\ n \in Nat /\ n = Len(RES) /\ DOMAIN RES = 1 .. n /\ (RES # <<>> <=> n > 0)
      /\ \A i \in 1 .. n : RES[i].lo \in Stack /\ RES[i].lo # s /\ pc[RES[i].lo] = "wait"
  BY <1>1, ResEntries DEF IInv, ChainInv
<1>4. entry \in [lo: Stack, hi: Stack, jbp: Stack, jbd: Nat]
  BY DEF IInv, TypeOK
<1>5. local \in Call
  BY DEF Call, IInv, TypeOK
<1> HIDE DEF local, entry
<1>6. /\ RES' \in Seq([lo: Stack, hi: Stack, jbp: Stack, jbd: Nat])
      /\ Len(RES') = n + 1 /\ DOMAIN RES' = 1 .. n + 1
      /\ RES'[n + 1] = entry /\ \A i \in 1 .. n : RES'[i] = RES[i]
  <2>1. RES \in Seq([lo: Stack, hi: Stack, jbp: Stack, jbd: Nat]) /\ RES' = Append(RES, entry)
    BY DEF GenResume, IInv, TypeOK, entry
  <2>. QED BY <2>1, <1>4, Appended
<1>7. \A t \in Stack : call'[t] = IF t = s THEN local ELSE call[t]
  BY DEF GenResume, IInv, TypeOK, local
<1>8. \A t \in Stack : pc'[t] = IF t = s THEN "wait" ELSE IF t = g THEN new ELSE pc[t]
  BY DEF GenResume, IInv, TypeOK, CbInv, Stack
<1>9. g # s /\ pc[g] # "wait" => pc[g] \in {"none", "parked"}
  BY <1>2 DEF IInv, SchedInv, CbInv
<1>10. new \in Pc /\ (new = "wait" <=> g = s \/ pc[g] = "wait")
  BY <1>9 DEF Pc
<1>11. TypeOK'
  <2>1. /\ started' \in [Gen -> BOOLEAN] /\ f' \in [Gen -> Value] /\ turn' \in [Gen -> {0, 1}]
    BY DEF GenResume, IInv, TypeOK, Value
  <2>2. call' \in [Stack -> Call \cup {None}]
    BY <1>5 DEF GenResume, IInv, TypeOK, local
  <2>3. pc' \in [Stack -> Pc]
    <3>1. DOMAIN pc' = Stack /\ pc' = [t \in Stack |-> pc'[t]]
      BY DEF GenResume, IInv, TypeOK
    <3>2. \A t \in Stack : pc'[t] \in Pc
      BY <1>8, <1>10 DEF IInv, TypeOK, Pc
    <3>. QED BY <3>1, <3>2
  <2>. QED BY <2>1, <2>2, <2>3, <1>6 DEF GenResume, IInv, TypeOK, sideVars
<1> HIDE DEF new
<1>12. /\ entry.lo = s /\ entry.hi = s /\ entry.jbp = s /\ entry.jbd = Barriers(s)
       /\ local.g = g /\ local.jbp = s /\ local.jbd = Barriers(s)
       /\ local.gen = (IF s = Main THEN None ELSE s)
       /\ local # None
  <2>1. entry.lo = s /\ entry.hi = s /\ entry.jbp = s /\ entry.jbd = Barriers(s)
    BY <1>2 DEF entry, Barriers
  <2>2. /\ local.g = g /\ local.jbp = s /\ local.jbd = Barriers(s)
        /\ local.gen = (IF s = Main THEN None ELSE s)
    BY <1>2 DEF local, Barriers
  <2>3. local # None
    BY <1>5, NoneAssumption
  <2>. QED BY <2>1, <2>2, <2>3
<1>13. Target' = g
  BY <1>3, <1>6, <1>7, <1>12 DEF Target, Resumer
<1>14. \A t \in Stack : frames'[t] = frames[t] /\ Barriers(t)' = Barriers(t)
  BY DEF GenResume, Barriers
<1>15. g \in Stack
  BY DEF Stack
<1> HIDE DEF n
<1>16. ChainInv'
  <2>1. \A t \in Stack : call'[t] # None <=> pc'[t] = "wait"
    BY <1>7, <1>8, <1>10, <1>12 DEF IInv, ChainInv
  <2>2. \A t \in Stack : pc'[t] = "wait" => \E i \in DOMAIN RES' : RES'[i].lo = t
    <3>1. SUFFICES ASSUME NEW t \in Stack, pc'[t] = "wait", t # s
                   PROVE  \E i \in DOMAIN RES' : RES'[i].lo = t
      BY <1>3, <1>6, <1>12
    <3>2. pc[t] = "wait"
      BY <3>1, <1>8, <1>10
    <3>3. PICK i \in 1 .. n : RES[i].lo = t
      BY <3>2, <1>3 DEF IInv, ChainInv
    <3>4. i \in DOMAIN RES' /\ RES'[i] = RES[i]
      BY <1>3, <1>6
    <3>. QED BY <3>3, <3>4
  <2>3. \A i \in DOMAIN RES' : pc'[RES'[i].lo] = "wait"
    BY <1>3, <1>6, <1>8, <1>10, <1>12
  <2>4. \A i, j \in DOMAIN RES' : RES'[i].lo = RES'[j].lo => i = j
    BY <1>3, <1>6, <1>12 DEF IInv, ChainInv
  <2>5. RES' # <<>> => RES'[1].lo = Main
    <3>1. CASE n = 0
      BY <3>1, <1>2, <1>3, <1>6, <1>12 DEF Target
    <3>2. CASE n # 0
      BY <3>2, <1>3, <1>6 DEF IInv, ChainInv
    <3>. QED BY <3>1, <3>2
  <2>6. \A i \in DOMAIN RES' : i # Len(RES') => call'[RES'[i].lo].g = RES'[i + 1].lo
    <3>1. SUFFICES ASSUME NEW i \in 1 .. n PROVE call'[RES'[i].lo].g = RES'[i + 1].lo
      BY <1>3, <1>6
    <3>2. RES'[i].lo = RES[i].lo /\ call'[RES[i].lo] = call[RES[i].lo]
      BY <1>3, <1>6, <1>7
    <3>3. CASE i = n
      <4>1. RES # <<>>
        BY <3>3, <1>3
      <4>2. Target = call[RES[n].lo].g
        BY <4>1, <1>3 DEF Target, Resumer
      <4>3. RES'[n + 1].lo = s
        BY <1>6, <1>12
      <4>. QED BY <3>2, <3>3, <4>2, <4>3, <1>2
    <3>4. CASE i # n
      <4>1. i \in DOMAIN RES /\ i # Len(RES)
        BY <3>4, <1>3
      <4>2. RES'[i + 1] = RES[i + 1]
        BY <3>4, <1>3, <1>6
      <4>. QED BY <3>2, <4>1, <4>2 DEF IInv, ChainInv
    <3>. QED BY <3>3, <3>4
  <2>. QED BY <2>1, <2>2, <2>3, <2>4, <2>5, <2>6 DEF ChainInv
<1>17. ParkedInv'
  <2>1. SUFFICES ASSUME NEW i \in 1 .. n + 1
                 PROVE  LET t == RES'[i].lo IN
                        /\ RES'[i].hi = t /\ RES'[i].jbp = t /\ RES'[i].jbd = Barriers(t)
                        /\ call'[t].jbp = t /\ call'[t].jbd = Barriers(t)
                        /\ call'[t].gen = IF t = Main THEN None ELSE t
    BY <1>6, <1>14, ResEntries, <1>11, <1>3 DEF ParkedInv, Barriers, GenResume
  <2>2. CASE i = n + 1
    BY <2>2, <1>6, <1>7, <1>12
  <2>3. CASE i # n + 1
    <3>1. i \in 1 .. n /\ RES'[i] = RES[i] /\ call'[RES[i].lo] = call[RES[i].lo]
      BY <2>3, <1>3, <1>6, <1>7
    <3>. QED BY <3>1, <1>3 DEF IInv, ParkedInv
  <2>. QED BY <2>2, <2>3
<1>18. \A h \in Gen : turn'[h] = IF h = g THEN 1 ELSE turn[h]
  BY DEF GenResume, IInv, TypeOK
<1>19. SchedInv'
  <2>1. \A h \in Gen : pc'[h] = "wait" => turn'[h] = 1
    BY <1>2, <1>8, <1>10, <1>18 DEF IInv, SchedInv, Stack
  <2>2. \A h \in Gen : pc'[h] # "wait" /\ h # Target' =>
           turn'[h] = 0 /\ pc'[h] \in {"none", "parked", "gone"}
    BY <1>2, <1>8, <1>13, <1>18 DEF IInv, SchedInv, Stack
  <2>3. pc'[Main] \in {"run", "raise", "wait"}
    BY <1>8, NamesAssumption DEF IInv, SchedInv, Stack
  <2>4. pc'[Target'] # "wait" => turn'[Target'] = 1 /\ pc'[Target'] \in {"entry", "parked"}
    BY <1>8, <1>9, <1>13, <1>15, <1>18 DEF IInv, CbInv, new
  <2>. QED BY <2>1, <2>2, <2>3, <2>4 DEF SchedInv
<1>20. \A h \in Gen : started'[h] = (h = g \/ started[h])
  BY DEF GenResume, IInv, TypeOK
<1>21. CbInv'
  <2>1. UNCHANGED <<state, parked, e>>
    BY DEF GenResume
  <2>2. SUFFICES ASSUME NEW h \in Gen
                 PROVE  /\ pc'[h] = "none" <=> ~started'[h]
                        /\ pc'[h] \in {"none", "entry"} <=> state[h] = 0
                        /\ pc'[h] = "parked" <=> state[h] = 1
                        /\ pc'[h] = "gone" <=> state[h] = 2
                        /\ pc'[h] \in {"run", "raise", "wait"} <=> state[h] = 3
                        /\ pc'[h] = "parked" => parked[h] = Barriers(h)
                        /\ pc'[h] = "gone" => e[h]
                        /\ pc'[h] \in {"none", "entry", "gone"} => frames[h] = <<>>
    BY <2>1, <1>14 DEF CbInv, Barriers, Stack
  <2>3. h \in Stack
    BY DEF Stack
  <2>4. CASE h = s
    BY <2>3, <2>4, <1>1, <1>2, <1>8, <1>20 DEF IInv, CbInv
  <2>5. CASE h # s /\ h # g
    BY <2>3, <2>5, <1>8, <1>20 DEF IInv, CbInv
  <2>6. CASE h # s /\ h = g
    <3>1. pc[g] = "wait" => new = "wait"
      BY DEF new
    <3>2. pc[g] = "none" => new = "entry"
      BY <2>6 DEF new, IInv, CbInv
    <3>3. pc[g] = "parked" => new = "parked"
      BY <2>6 DEF new, IInv, CbInv
    <3>. QED BY <2>3, <2>6, <1>8, <1>9, <1>20, <3>1, <3>2, <3>3 DEF IInv, CbInv
  <2>. QED BY <2>4, <2>5, <2>6
<1>22. FrameInv'
  BY DEF GenResume, IInv, FrameInv
<1>23. OwnsGlobals'
  <2>1. SUFFICES ASSUME NEW t \in Stack, Active(t)' PROVE FALSE
    BY DEF OwnsGlobals
  <2>2. t # s /\ (t = g => new \in {"run", "raise"}) /\ (t # g => Active(t))
    BY <2>1, <1>8 DEF Active
  <2>3. t # g
    BY <2>2, <1>9 DEF new
  <2>. QED BY <2>2, <2>3, <1>2, Runner
<1>. QED BY <1>11, <1>16, <1>17, <1>19, <1>21, <1>22, <1>23 DEF IInv

LEMMA ResumeStepInv ==
  ASSUME IInv, NEW s \in Stack, NEW g \in Gen, NEW v \in UserVal,
         NextResume(s, g, v) \/ ReturnResume(s, g, v) \/ ThrowResume(s, g, v)
  PROVE  IInv'
<1>1. Running(s) /\ ~e[g]
  BY DEF NextResume, ReturnResume, ThrowResume
<1>2. closing' \in [Gen -> BOOLEAN] /\ throwin' \in [Gen -> BOOLEAN]
  BY DEF NextResume, ReturnResume, ThrowResume, IInv, TypeOK
<1>3. Undef \in UserVal
  BY DEF UserVal
<1>4. PICK op \in {"next", "return", "throw"}, sent \in UserVal : GenResume(s, g, op, sent, v)
  BY <1>3 DEF NextResume, ReturnResume, ThrowResume
<1>. QED BY <1>1, <1>2, <1>4, GenResumeInv

\* The stack that may take the control back is the innermost resumer.
LEMMA WokenIsInnermost ==
  ASSUME IInv, NEW s \in Stack, ResumerReady(s)
  PROVE  /\ RES # <<>> /\ Resumer.lo = s /\ Target = call[s].g
         /\ call[s] \in Call
<1>1. pc[s] = "wait" /\ turn[call[s].g] = 0
  BY DEF ResumerReady
<1>2. /\ Len(RES) \in Nat /\ DOMAIN RES = 1 .. Len(RES)
      /\ (RES # <<>> <=> Len(RES) > 0)
  BY ResEntries DEF IInv
<1>3. call[s] \in Call
  BY <1>1 DEF IInv, ChainInv, TypeOK
<1>4. PICK i \in DOMAIN RES : RES[i].lo = s
  BY <1>1 DEF IInv, ChainInv
<1>5. RES # <<>>
  BY <1>2, <1>4
<1>6. i = Len(RES)
  <2>1. SUFFICES ASSUME i # Len(RES) PROVE FALSE
    OBVIOUS
  <2>2. call[s].g = RES[i + 1].lo /\ i + 1 \in DOMAIN RES
    BY <2>1, <1>2, <1>4 DEF IInv, ChainInv
  <2>3. pc[call[s].g] = "wait" /\ call[s].g \in Gen
    BY <2>2, <1>3 DEF IInv, ChainInv, Call
  <2>. QED BY <2>3, <1>1 DEF IInv, SchedInv
<1>. QED BY <1>3, <1>4, <1>5, <1>6 DEF Target, Resumer

LEMMA OutcomeTyped ==
  ASSUME TypeOK, NEW s \in Stack, call[s] \in Call
  PROVE  /\ Outcome(s) \in [to: Stack, kind: {"sent", "value", "done", "raise"}, val: Value]
         /\ Outcome(s).val \in Value
         /\ call[s].g \in Gen /\ call[s].val \in Value
<1>1. call[s].g \in Gen /\ call[s].val \in Value
  BY DEF Call, Value
<1>2. f[call[s].g] \in Value /\ d[call[s].g] \in Value
  BY <1>1 DEF TypeOK
<1>. QED BY <1>1, <1>2 DEF Outcome, Answer, TypeOK

LEMMA ResumerWakeInv ==
  ASSUME IInv, NEW s \in Stack, ResumerWake(s)
  PROVE  IInv'
<1> DEFINE g == call[s].g
           n == Len(RES)
<1>1. ResumerReady(s) /\ pc[s] = "wait"
  BY DEF ResumerWake, ResumerReady
<1>2. /\ RES # <<>> /\ Resumer.lo = s /\ Target = g /\ call[s] \in Call
  BY <1>1, WokenIsInnermost
<1>3. /\ n \in Nat /\ n = Len(RES) /\ DOMAIN RES = 1 .. n /\ n > 0 /\ n \in DOMAIN RES
      /\ RES[n].lo = s /\ Resumer = RES[n]
      /\ \A i \in 1 .. n : RES[i].lo \in Stack
  BY <1>2, ResEntries DEF IInv, Resumer
<1>4. /\ RES' \in Seq([lo: Stack, hi: Stack, jbp: Stack, jbd: Nat])
      /\ Len(RES') = n - 1 /\ DOMAIN RES' = 1 .. n - 1
      /\ \A i \in 1 .. n - 1 : RES'[i] = RES[i]
  <2>1. RES \in Seq([lo: Stack, hi: Stack, jbp: Stack, jbd: Nat]) /\ n - 1 \in 0 .. Len(RES)
    BY <1>3 DEF IInv, TypeOK
  <2>2. RES' = SubSeq(RES, 1, n - 1)
    BY DEF ResumerWake
  <2>. QED BY <2>1, <2>2, Prefix
<1>5. PICK p \in {"run", "raise"} : pc' = [pc EXCEPT ![s] = p]
  BY DEF ResumerWake, Throw
<1>6. \A t \in Stack : pc'[t] = IF t = s THEN p ELSE pc[t]
  BY <1>5 DEF IInv, TypeOK
<1>7. \A t \in Stack : call'[t] = IF t = s THEN None ELSE call[t]
  BY DEF ResumerWake, IInv, TypeOK
<1>8. \A t \in Stack : frames'[t] = frames[t] /\ Barriers(t)' = Barriers(t)
  BY DEF ResumerWake, Barriers
<1>9. /\ GC_STACK_BASE' = s /\ JBP' = s /\ JB_DEPTH' = Barriers(s)
      /\ CUR_GEN' = IF s = Main THEN None ELSE s
  <2>1. /\ RES[n].hi = s /\ call[s].jbp = s /\ call[s].jbd = Barriers(s)
        /\ call[s].gen = IF s = Main THEN None ELSE s
    BY <1>3 DEF IInv, ParkedInv
  <2>. QED BY <2>1, <1>3 DEF ResumerWake
<1>10. TypeOK'
  <2>1. /\ g \in Gen /\ call[s].val \in Value /\ Outcome(s).val \in Value
        /\ Outcome(s) \in [to: Stack, kind: {"sent", "value", "done", "raise"}, val: Value]
    BY <1>2, OutcomeTyped DEF IInv
  <2>2. Undef \in Value
    BY DEF Value, UserVal
  <2>3. /\ d' \in [Gen -> Value] /\ e' \in [Gen -> BOOLEAN] /\ f' \in [Gen -> Value]
        /\ threw' \in [Gen -> BOOLEAN] /\ THROWN' \in Value
    BY <2>1, <2>2 DEF ResumerWake, Throw, IInv, TypeOK
  <2>4. pc' \in [Stack -> Pc]
    BY <1>5 DEF IInv, TypeOK, Pc
  <2>5. call' \in [Stack -> Call \cup {None}]
    BY DEF ResumerWake, IInv, TypeOK
  <2>6. /\ GC_STACK_BASE' \in Stack /\ JBP' \in Stack /\ JB_DEPTH' \in Nat
        /\ CUR_GEN' \in Gen \cup {None}
    <3>1. frames[s] \in Seq(Frame)
      BY DEF IInv, TypeOK
    <3>. QED BY <1>9, <3>1, Indices DEF Stack, Barriers
  <2>. QED BY <2>1, <2>3, <2>4, <2>5, <2>6, <1>4 DEF ResumerWake, IInv, TypeOK
<1> HIDE DEF n
<1>11. \A i \in 1 .. n - 1 : RES[i].lo # s /\ RES[i].lo \in Stack
  BY <1>3 DEF IInv, ChainInv
<1>12. ChainInv'
  <2>1. \A t \in Stack : call'[t] # None <=> pc'[t] = "wait"
    BY <1>6, <1>7 DEF IInv, ChainInv
  <2>2. \A t \in Stack : pc'[t] = "wait" => \E i \in DOMAIN RES' : RES'[i].lo = t
    <3>1. SUFFICES ASSUME NEW t \in Stack, pc'[t] = "wait"
                   PROVE  \E i \in DOMAIN RES' : RES'[i].lo = t
      OBVIOUS
    <3>2. pc[t] = "wait" /\ t # s
      BY <3>1, <1>6
    <3>3. PICK i \in 1 .. n : RES[i].lo = t
      BY <3>2, <1>3 DEF IInv, ChainInv
    <3>4. i \in DOMAIN RES' /\ RES'[i] = RES[i]
      BY <3>2, <3>3, <1>3, <1>4
    <3>. QED BY <3>3, <3>4
  <2>3. \A i \in DOMAIN RES' : pc'[RES'[i].lo] = "wait"
    <3>1. SUFFICES ASSUME NEW i \in 1 .. n - 1 PROVE pc'[RES[i].lo] = "wait"
      BY <1>4
    <3>2. i \in DOMAIN RES
      BY <1>3
    <3>. QED BY <3>2, <1>6, <1>11 DEF IInv, ChainInv
  <2>4. \A i, j \in DOMAIN RES' : RES'[i].lo = RES'[j].lo => i = j
    <3>1. SUFFICES ASSUME NEW i \in 1 .. n - 1, NEW j \in 1 .. n - 1, RES[i].lo = RES[j].lo
                   PROVE  i = j
      BY <1>4
    <3>2. i \in DOMAIN RES /\ j \in DOMAIN RES
      BY <1>3
    <3>. QED BY <3>1, <3>2 DEF IInv, ChainInv
  <2>5. RES' # <<>> => RES'[1].lo = Main
    BY <1>3, <1>4, Indices DEF IInv, ChainInv
  <2>6. \A i \in DOMAIN RES' : i # Len(RES') => call'[RES'[i].lo].g = RES'[i + 1].lo
    <3>1. SUFFICES ASSUME NEW i \in 1 .. n - 1, i # n - 1
                   PROVE  call'[RES'[i].lo].g = RES'[i + 1].lo
      BY <1>4
    <3>2. RES'[i] = RES[i] /\ RES'[i + 1] = RES[i + 1] /\ call'[RES[i].lo] = call[RES[i].lo]
      BY <3>1, <1>3, <1>4, <1>7, <1>11
    <3>3. i \in DOMAIN RES /\ i # Len(RES)
      BY <3>1, <1>3
    <3>4. call[RES[i].lo].g = RES[i + 1].lo
      BY <3>3 DEF IInv, ChainInv
    <3>. QED BY <3>2, <3>4
  <2>. QED BY <2>1, <2>2, <2>3, <2>4, <2>5, <2>6 DEF ChainInv
<1>13. ParkedInv'
  <2>1. SUFFICES ASSUME NEW i \in 1 .. n - 1
                 PROVE  LET t == RES'[i].lo IN
                        /\ RES'[i].hi = t /\ RES'[i].jbp = t /\ RES'[i].jbd = Barriers(t)
                        /\ call'[t].jbp = t /\ call'[t].jbd = Barriers(t)
                        /\ call'[t].gen = IF t = Main THEN None ELSE t
    BY <1>4, <1>8 DEF ParkedInv, Barriers, ResumerWake
  <2>2. RES'[i] = RES[i] /\ call'[RES[i].lo] = call[RES[i].lo] /\ i \in DOMAIN RES
    BY <1>3, <1>4, <1>7, <1>11
  <2>. QED BY <2>2 DEF IInv, ParkedInv
<1>14. Target' = s
  <2>1. CASE n = 1
    <3>1. RES' = <<>> /\ s = Main
      BY <2>1, <1>2, <1>3, <1>4, Indices DEF IInv, ChainInv
    <3>. QED BY <3>1 DEF Target
  <2>2. CASE n # 1
    <3>1. n - 1 \in DOMAIN RES' /\ RES' # <<>> /\ Len(RES') = n - 1 /\ RES'[n - 1] = RES[n - 1]
      BY <2>2, <1>3, <1>4, Indices
    <3>2. Target' = call'[RES[n - 1].lo].g
      BY <3>1 DEF Target, Resumer
    <3>3. call'[RES[n - 1].lo] = call[RES[n - 1].lo]
      BY <2>2, <1>3, <1>7, <1>11
    <3>4. n - 1 \in DOMAIN RES /\ n - 1 # Len(RES) /\ (n - 1) + 1 = n
      BY <2>2, <1>3
    <3>5. call[RES[n - 1].lo].g = RES[(n - 1) + 1].lo
      BY <3>4 DEF IInv, ChainInv
    <3>. QED BY <3>2, <3>3, <3>4, <3>5, <1>3
  <2>. QED BY <2>1, <2>2
<1>15. SchedInv'
  <2>1. UNCHANGED turn
    BY DEF ResumerWake
  <2>2. g \in Gen /\ g \in Stack /\ turn[g] = 0
    BY <1>1, <1>2 DEF Call, Stack, ResumerReady
  <2>3. \A h \in Gen : pc'[h] = "wait" => turn[h] = 1
    BY <1>6 DEF IInv, SchedInv, Stack
  <2>4. \A h \in Gen : pc'[h] # "wait" /\ h # s => turn[h] = 0 /\ pc'[h] \in {"none", "parked", "gone"}
    BY <1>2, <1>6, <2>2 DEF IInv, SchedInv, Stack
  <2>5. pc'[Main] \in {"run", "raise", "wait"}
    BY <1>6 DEF IInv, SchedInv, Stack
  <2>6. s \in Gen => turn[s] = 1 /\ pc'[s] \in {"run", "raise"}
    BY <1>1, <1>6 DEF IInv, SchedInv
  <2>. QED BY <2>1, <2>3, <2>4, <2>5, <2>6, <1>14 DEF SchedInv
<1>16. CbInv'
  <2>1. UNCHANGED <<started, state, parked>> /\ \A h \in Gen : e[h] => e'[h]
    BY DEF ResumerWake, IInv, TypeOK
  <2>. QED BY <2>1, <1>1, <1>6, <1>8 DEF IInv, CbInv, Stack
<1>17. FrameInv'
  BY DEF ResumerWake, IInv, FrameInv
<1>18. OwnsGlobals'
  <2>1. \A t \in Stack : Active(t)' => t = s
    <3>1. SUFFICES ASSUME NEW t \in Stack, Active(t)', t # s PROVE FALSE
      OBVIOUS
    <3>2. Active(t)
      BY <3>1, <1>6 DEF Active
    <3>3. t = Target /\ (t \in Gen => turn[t] = 1)
      BY <3>2, Runner
    <3>4. g \in Gen /\ turn[g] = 0
      BY <1>1, <1>2 DEF Call, ResumerReady
    <3>. QED BY <3>3, <3>4, <1>2
  <2>. QED BY <2>1, <1>8, <1>9 DEF OwnsGlobals
<1>. QED BY <1>10, <1>12, <1>13, <1>15, <1>16, <1>17, <1>18 DEF IInv

-----------------------------------------------------------------------------
(* The specification.                                                      *)

LEMMA InitInv == Init => IInv
<1> SUFFICES ASSUME Init PROVE IInv
  OBVIOUS
<1>1. Main \notin Gen /\ None \notin Gen
  BY NamesAssumption
<1>2. RES = <<>> /\ DOMAIN RES = {} /\ Target = Main
  BY DEF Init, Target
<1>3. TypeOK
  BY DEF Init, TypeOK, Stack, Pc, Value, UserVal
<1>4. ChainInv /\ ParkedInv
  BY <1>2 DEF Init, ChainInv, ParkedInv
<1>5. SchedInv /\ CbInv
  BY <1>1, <1>2 DEF Init, SchedInv, CbInv, Stack
<1>6. FrameInv /\ OwnsGlobals
  BY <1>1 DEF Init, FrameInv, OwnsGlobals, Active, Barriers
<1>. QED BY <1>3, <1>4, <1>5, <1>6 DEF IInv

LEMMA StutterInv == IInv /\ UNCHANGED vars => IInv'
<1> SUFFICES ASSUME IInv, UNCHANGED vars PROVE IInv'
  OBVIOUS
<1>1. TypeOK'
  BY DEF IInv, TypeOK, vars, cellVars, cbVars, sideVars
<1>2. ChainInv' /\ ParkedInv' /\ Target' = Target
  BY ChainKept DEF vars
<1>3. SchedInv' /\ CbInv' /\ FrameInv' /\ OwnsGlobals'
  BY <1>2 DEF IInv, SchedInv, CbInv, FrameInv, OwnsGlobals, Active, Barriers,
              vars, cellVars, cbVars, sideVars
<1>. QED BY <1>1, <1>2, <1>3 DEF IInv

LEMMA NextInv == IInv /\ Next => IInv'
<1> SUFFICES ASSUME IInv, Next PROVE IInv'
  OBVIOUS
<1>1. ASSUME NEW s \in Stack, TryStep(s) PROVE IInv'
  <2>1. ASSUME NEW hc \in BOOLEAN, NEW hf \in BOOLEAN, TryEnter(s, hc, hf) PROVE IInv'
    BY <2>1, TryEnterInv
  <2>2. CASE TryTooDeep(s)
    BY <2>2, ExitInv DEF TryTooDeep
  <2>3. CASE ClauseDone(s)
    BY <2>3, ClauseDoneInv
  <2>4. ASSUME NEW ctl \in BOOLEAN, FinallyDone(s, ctl) PROVE IInv'
    BY <2>4, FinallyDoneInv
  <2>5. ASSUME NEW v \in UserVal, ThrowUser(s, v) PROVE IInv'
    BY <2>5, ThrowUserInv
  <2>6. CASE LandInCatch(s)
    BY <2>6, LandInCatchInv
  <2>7. CASE LandInFinally(s)
    BY <2>7, LandInFinallyInv
  <2>8. CASE LandAndRethrow(s)
    BY <2>8, LandAndRethrowInv
  <2>9. CASE Uncaught(s)
    BY <2>9, ExitInv DEF Uncaught
  <2>. QED BY <1>1, <2>1, <2>2, <2>3, <2>4, <2>5, <2>6, <2>7, <2>8, <2>9 DEF TryStep
<1>2. ASSUME NEW s \in Stack, OwnStep(s) PROVE IInv'
  <2>1. ASSUME NEW g \in Gen, GenCreate(s, g) PROVE IInv'
    BY <2>1, GenCreateInv
  <2>2. ASSUME NEW g \in Gen, NextDone(s, g) PROVE IInv'
    BY <2>2, NextDoneInv
  <2>3. ASSUME NEW v \in UserVal, CoroReturn(s, v) PROVE IInv'
    BY <2>3, CoroReturnInv
  <2>4. ASSUME NEW v \in UserVal, Yield(s, v) PROVE IInv'
    BY <2>4, YieldInv
  <2>5. CASE CoroThrow(s)
    BY <2>5, CoroThrowInv
  <2>6. CASE YieldOutside(s)
    BY <2>6, ExitInv DEF YieldOutside
  <2>. QED BY <1>2, <2>1, <2>2, <2>3, <2>4, <2>5, <2>6 DEF OwnStep
<1>3. ASSUME NEW s \in Stack, NEW g \in Gen, NEW v \in UserVal,
             \/ NextResume(s, g, v) \/ ReturnResume(s, g, v) \/ ThrowResume(s, g, v)
             \/ ReturnAtOnce(s, g, v) \/ ThrowAtOnce(s, g, v)
      PROVE  IInv'
  BY <1>3, ResumeStepInv, ReturnAtOnceInv, ThrowAtOnceInv
<1>4. CASE MainReturn
  BY <1>4, ExitInv DEF MainReturn
<1>5. ASSUME NEW g \in Gen, CoroBegin(g) \/ YieldWake(g) PROVE IInv'
  BY <1>5, CoroBeginInv, YieldWakeInv
<1>6. ASSUME NEW s \in Stack, ResumerWake(s) PROVE IInv'
  BY <1>6, ResumerWakeInv
<1>. QED BY <1>1, <1>2, <1>3, <1>4, <1>5, <1>6 DEF Next, ResumeStep, Wake

\* IInv is an inductive invariant of the floor.
THEOREM Invariance == Spec => []IInv
<1>1. IInv /\ [Next]_vars => IInv'
  BY NextInv, StutterInv
<1>. QED BY InitInv, <1>1, PTL DEF Spec

-----------------------------------------------------------------------------
(* What the invariant gives: the properties of GenFloorProps, for any      *)
(* number of generators and pools of any size.                             *)

\* Every field, flag and stack of the floor has the shape runtime.c gives it.
THEOREM TypeCorrect == Spec => []TypeOK
<1>1. IInv => TypeOK
  BY DEF IInv
<1>. QED BY <1>1, Invariance, PTL

\* Whoever runs does so with the globals of its own stack: gen_resume,
\* coro_entry and js_yield restore what the other side left.
THEOREM GlobalsOwned == Spec => []OwnsGlobals
<1>1. IInv => OwnsGlobals
  BY DEF IInv
<1>. QED BY <1>1, Invariance, PTL

-----------------------------------------------------------------------------
(* Alternation.                                                            *)

LEMMA TargetIsAStack ==
  ASSUME IInv
  PROVE  /\ Target \in Stack
         /\ RES = <<>> => Target = Main
         /\ RES # <<>> => /\ Target \in Gen
                          /\ Resumer.lo \in Stack /\ pc[Resumer.lo] = "wait"
                          /\ call[Resumer.lo].g = Target
<1>1. CASE RES = <<>>
  BY <1>1 DEF Target, Stack
<1>2. CASE RES # <<>>
  <2>1. Len(RES) \in DOMAIN RES
    BY <1>2, ResEntries DEF IInv
  <2>2. Resumer.lo \in Stack /\ pc[Resumer.lo] = "wait"
    BY <2>1, ResEntries DEF IInv, ChainInv, Resumer
  <2>3. call[Resumer.lo] \in Call
    BY <2>2 DEF IInv, ChainInv, TypeOK
  <2>. QED BY <1>2, <2>2, <2>3 DEF Target, Call, Stack
<1>. QED BY <1>1, <1>2

LEMMA OneSide == IInv => AtMostOneSide
<1> SUFFICES ASSUME IInv, NEW s \in Sides, NEW t \in Sides PROVE s = t
  BY DEF AtMostOneSide
<1>1. ASSUME NEW r \in Stack, ResumerReady(r)
      PROVE  RES # <<>> /\ r = Resumer.lo /\ turn[Target] = 0 /\ Target \in Gen
  <2>1. RES # <<>> /\ Resumer.lo = r /\ Target = call[r].g
    BY <1>1, WokenIsInnermost
  <2>. QED BY <1>1, <2>1, TargetIsAStack DEF ResumerReady
<1>2. ASSUME NEW r \in Stack, Active(r) \/ CoroReady(r)
      PROVE  r = Target /\ (r \in Gen => turn[r] = 1)
  BY <1>2, Runner, Ready DEF CoroReady
<1>. QED BY <1>1, <1>2 DEF Sides

\* At most one side runs, for any nesting of resumes, returns and throws.
THEOREM NeverTwo == Spec => []AtMostOneSide
  BY OneSide, Invariance, PTL

LEMMA SomebodyMoves == IInv => HangsOnlyOnReentry
<1> SUFFICES ASSUME IInv PROVE WaitsForItself \/ Sides # {}
  BY DEF HangsOnlyOnReentry
<1>1. CASE RES = <<>>
  <2>1. Main \in Stack /\ pc[Main] # "wait"
    BY <1>1 DEF IInv, ChainInv, Stack
  <2>2. Active(Main)
    BY <2>1 DEF IInv, SchedInv, Active
  <2>. QED BY <2>1, <2>2 DEF Sides
<1>2. CASE RES # <<>> /\ pc[Target] # "wait"
  <2>1. /\ Target \in Gen /\ Target \in Stack
        /\ Resumer.lo \in Stack /\ pc[Resumer.lo] = "wait" /\ call[Resumer.lo].g = Target
    BY <1>2, TargetIsAStack
  <2>2. CASE turn[Target] = 1
    BY <1>2, <2>1, <2>2 DEF IInv, SchedInv, Sides, Active, CoroReady
  <2>3. CASE turn[Target] = 0
    BY <2>1, <2>3 DEF Sides, ResumerReady
  <2>. QED BY <1>2, <2>1, <2>2, <2>3 DEF IInv, SchedInv
\* The resumers from the innermost target's own place on wait in a circle.
<1>3. CASE RES # <<>> /\ pc[Target] = "wait"
  <2>1. /\ Len(RES) \in Nat /\ DOMAIN RES = 1 .. Len(RES)
        /\ \A i \in DOMAIN RES : RES[i].lo \in Stack /\ pc[RES[i].lo] = "wait"
    BY ResEntries DEF IInv, ChainInv
  <2>2. PICK k \in DOMAIN RES : RES[k].lo = Target
    BY <1>3, TargetIsAStack DEF IInv, ChainInv
  <2> DEFINE S == {RES[i].lo : i \in k .. Len(RES)}
  <2>3. S \in SUBSET Stack /\ S # {}
    BY <2>1, <2>2
  <2>4. ASSUME NEW i \in k .. Len(RES)
        PROVE  pc[RES[i].lo] = "wait" /\ call[RES[i].lo].g \in S
    <3>1. i \in DOMAIN RES
      BY <2>1, <2>2
    <3>2. CASE i = Len(RES)
      BY <1>3, <2>1, <2>2, <3>1, <3>2 DEF Target, Resumer
    <3>3. CASE i # Len(RES)
      <4>1. i + 1 \in k .. Len(RES)
        BY <2>1, <2>2, <3>1, <3>3
      <4>2. call[RES[i].lo].g = RES[i + 1].lo
        BY <3>1, <3>3 DEF IInv, ChainInv
      <4>. QED BY <2>1, <3>1, <4>1, <4>2
    <3>. QED BY <3>2, <3>3
  <2>. QED BY <2>3, <2>4 DEF WaitsForItself
<1>. QED BY <1>1, <1>2, <1>3

\* However deep the resumes are nested, the handshake loses the control only if
\* the chain of waits comes back to itself.
THEOREM NoLostControl == Spec => []HangsOnlyOnReentry
  BY SomebodyMoves, Invariance, PTL

\* Both together: the two sides of a resume alternate.
THEOREM Alternation == Spec => []SidesAlternate
<1>1. IInv => SidesAlternate
  BY OneSide, SomebodyMoves DEF SidesAlternate
<1>. QED BY <1>1, Invariance, PTL

-----------------------------------------------------------------------------
(* The collector's roots.                                                  *)

LEMMA LiveOnes ==
  ASSUME IInv, NEW s \in Stack, Active(s), NEW t \in Stack
  PROVE  /\ t \in LiveStacks <=> \/ t = s
                                 \/ \E i \in DOMAIN RES : RES[i].lo = t
                                 \/ t \in Gen /\ state[t] = 1
         /\ t \in Gen /\ state[t] = 1 => started[t] /\ pc[t] = "parked"
<1>1. t = s <=> Active(t)
  BY Runner
<1>2. pc[t] = "wait" <=> \E i \in DOMAIN RES : RES[i].lo = t
  BY DEF IInv, ChainInv
<1>3. t \in Gen => (pc[t] = "parked" <=> state[t] = 1) /\ (pc[t] = "none" <=> ~started[t])
  BY DEF IInv, CbInv
<1>4. t = Main => pc[t] # "parked" /\ t \notin Gen
  BY NamesAssumption DEF IInv, SchedInv
<1>. QED BY <1>1, <1>2, <1>3, <1>4 DEF LiveStacks, Active, Stack

LEMMA RootsExact == IInv => RootsAreTheLiveStacks
<1> SUFFICES ASSUME IInv, NEW s \in Stack, Active(s)
             PROVE  /\ ScannedBy(s) = LiveStacks
                    /\ \A i \in DOMAIN RES : RES[i].lo = RES[i].hi
  BY DEF RootsAreTheLiveStacks
<1>1. \A i \in DOMAIN RES : RES[i].lo \in Stack
  BY ResEntries DEF IInv
<1>2. ScannedBy(s) \subseteq Stack /\ LiveStacks \subseteq Stack
  BY <1>1 DEF ScannedBy, LiveStacks, Stack
<1>3. ASSUME NEW t \in Stack PROVE t \in ScannedBy(s) <=> t \in LiveStacks
  BY LiveOnes DEF ScannedBy
<1>4. \A i \in DOMAIN RES : RES[i].lo = RES[i].hi
  BY DEF IInv, ParkedInv
<1>. QED BY <1>2, <1>3, <1>4

\* A collection scans every stack that holds frames and no other.
THEOREM RootsAreExact == Spec => []RootsAreTheLiveStacks
  BY RootsExact, Invariance, PTL

LEMMA BarriersCovered == IInv => RootsCoverBarriers
<1> SUFFICES ASSUME IInv, NEW s \in Stack, Active(s), NEW t \in LiveStacks
             PROVE  \/ t = s /\ t = JBP /\ JB_DEPTH >= Barriers(t)
                    \/ t \in Gen /\ state[t] = 1 /\ parked[t] >= Barriers(t)
                    \/ \E i \in DOMAIN RES : RES[i].jbp = t /\ RES[i].jbd >= Barriers(t)
  BY DEF RootsCoverBarriers
<1>1. t \in Stack /\ Barriers(t) \in Nat
  BY Indices DEF LiveStacks, IInv, TypeOK, Barriers
<1>2. CASE t = s
  BY <1>1, <1>2, Runner DEF Barriers
<1>3. CASE \E i \in DOMAIN RES : RES[i].lo = t
  BY <1>1, <1>3 DEF IInv, ParkedInv
<1>4. CASE t \in Gen /\ state[t] = 1
  BY <1>1, <1>4 DEF IInv, CbInv
<1>. QED BY <1>1, <1>2, <1>3, <1>4, LiveOnes

\* A collection scans every barrier that a longjmp may still return to.
THEOREM BarriersAreScanned == Spec => []RootsCoverBarriers
  BY BarriersCovered, Invariance, PTL

\* Both together: what a collection scans is what is in use.
THEOREM RootsFound == Spec => []RootsAreSound
<1>1. IInv => RootsAreSound
  BY RootsExact, BarriersCovered DEF RootsAreSound
<1>. QED BY <1>1, Invariance, PTL

-----------------------------------------------------------------------------
(* Closes and throw-ins.                                                   *)

\* A flag is up only while the coroutine of the innermost resume, a return or
\* a throw, has not taken over yet.
FlagInv ==
  \A g \in Gen : closing[g] \/ throwin[g] =>
    /\ RES # <<>> /\ g = Target
    /\ turn[g] = 1 /\ pc[g] \in {"parked", "wait"}
    /\ closing[g] <=> call[Resumer.lo].op = "return"
    /\ throwin[g] <=> call[Resumer.lo].op = "throw"

\* While somebody runs there are no flags.
LEMMA NoFlags ==
  ASSUME IInv, FlagInv, NEW s \in Stack, Active(s), NEW g \in Gen
  PROVE  ~closing[g] /\ ~throwin[g]
  BY Runner DEF FlagInv, Active

LEMMA ResumeFlags ==
  ASSUME IInv, FlagInv, IInv', NEW s \in Stack, Running(s), NEW g \in Gen,
         NEW op \in {"next", "return", "throw"}, NEW sent \in UserVal, NEW val \in UserVal,
         GenResume(s, g, op, sent, val), ~e[g], op # "next" => started[g],
         closing' = [closing EXCEPT ![g] = IF op = "return" THEN TRUE ELSE @],
         throwin' = [throwin EXCEPT ![g] = IF op = "throw" THEN TRUE ELSE @]
  PROVE  FlagInv'
<1>1. Active(s) /\ pc[s] = "run"
  BY DEF Running, Active
<1>2. \A h \in Gen : /\ closing'[h] <=> h = g /\ op = "return"
                     /\ throwin'[h] <=> h = g /\ op = "throw"
  BY <1>1, NoFlags DEF IInv, TypeOK
<1>3. RES' # <<>> /\ Resumer' = [lo |-> s, hi |-> GC_STACK_BASE, jbp |-> JBP, jbd |-> JB_DEPTH]
  <2> DEFINE entry == [lo |-> s, hi |-> GC_STACK_BASE, jbp |-> JBP, jbd |-> JB_DEPTH]
  <2>1. RES' = Append(RES, entry)
    BY DEF GenResume
  <2>2. entry \in [lo: Stack, hi: Stack, jbp: Stack, jbd: Nat]
    BY DEF IInv, TypeOK
  <2>3. RES \in Seq([lo: Stack, hi: Stack, jbp: Stack, jbd: Nat])
    BY DEF IInv, TypeOK
  <2> HIDE DEF entry
  <2>4. Len(RES') = Len(RES) + 1 /\ RES'[Len(RES) + 1] = entry /\ Len(RES) \in Nat
    BY <2>1, <2>2, <2>3, Appended, Indices
  <2>5. RES' # <<>>
    BY <2>4
  <2>. QED BY <2>4, <2>5 DEF Resumer, entry
<1>4. Resumer'.lo = s /\ call'[s].g = g /\ call'[s].op = op
  BY <1>3 DEF GenResume, IInv, TypeOK
<1>5. Target' = g
  BY <1>3, <1>4 DEF Target
<1>6. turn'[g] = 1
  BY DEF GenResume, IInv, TypeOK
<1>7. op # "next" => pc'[g] \in {"parked", "wait"}
  <2>1. SUFFICES ASSUME started[g] PROVE pc'[g] \in {"parked", "wait"}
    OBVIOUS
  <2>2. pc'[g] = IF g = s THEN "wait" ELSE pc[g]
    BY <2>1 DEF GenResume, IInv, TypeOK, Stack
  <2>3. g # s /\ pc[g] # "wait" => pc[g] \in {"none", "parked", "gone"}
    BY <1>1, Runner DEF IInv, SchedInv
  <2>4. pc[g] # "none" /\ pc[g] # "gone"
    BY <2>1 DEF IInv, CbInv
  <2>. QED BY <2>2, <2>3, <2>4
<1>8. SUFFICES ASSUME NEW h \in Gen, closing'[h] \/ throwin'[h]
               PROVE  /\ RES' # <<>> /\ h = Target'
                      /\ turn'[h] = 1 /\ pc'[h] \in {"parked", "wait"}
                      /\ closing'[h] <=> call'[Resumer'.lo].op = "return"
                      /\ throwin'[h] <=> call'[Resumer'.lo].op = "throw"
  BY DEF FlagInv
<1>9. h = g /\ op # "next"
  BY <1>2, <1>8
<1>10. call'[Resumer'.lo].op = op
  BY <1>4
<1>11. (closing'[h] <=> op = "return") /\ (throwin'[h] <=> op = "throw")
  BY <1>2, <1>9
<1>. QED BY <1>3, <1>5, <1>6, <1>7, <1>9, <1>10, <1>11

LEMMA FlagStep == IInv /\ IInv' /\ FlagInv /\ [Next]_vars => FlagInv'
<1> SUFFICES ASSUME IInv, IInv', FlagInv, [Next]_vars PROVE FlagInv'
  OBVIOUS
<1>1. CASE UNCHANGED <<closing, throwin>> /\ \E s \in Stack : Active(s)
  BY <1>1, NoFlags DEF FlagInv
<1>2. ASSUME NEW s \in Stack, NEW g \in Gen, NEW v \in UserVal, ReturnResume(s, g, v)
      PROVE  FlagInv'
  <2>1. /\ closing' = [closing EXCEPT ![g] = IF "return" = "return" THEN TRUE ELSE @]
        /\ throwin' = [throwin EXCEPT ![g] = IF "return" = "throw" THEN TRUE ELSE @]
        /\ Running(s) /\ ~e[g] /\ started[g] /\ GenResume(s, g, "return", Undef, v)
    BY <1>2 DEF ReturnResume, IInv, TypeOK
  <2>. QED BY <2>1, ResumeFlags DEF UserVal
<1>3. ASSUME NEW s \in Stack, NEW g \in Gen, NEW v \in UserVal, ThrowResume(s, g, v)
      PROVE  FlagInv'
  <2>1. /\ closing' = [closing EXCEPT ![g] = IF "throw" = "return" THEN TRUE ELSE @]
        /\ throwin' = [throwin EXCEPT ![g] = IF "throw" = "throw" THEN TRUE ELSE @]
        /\ Running(s) /\ ~e[g] /\ started[g] /\ GenResume(s, g, "throw", v, v)
    BY <1>3 DEF ThrowResume, IInv, TypeOK
  <2>. QED BY <2>1, ResumeFlags DEF UserVal
<1>4. ASSUME NEW g \in Gen, YieldWake(g) PROVE FlagInv'
  <2>1. g = Target
    BY <1>4, Ready DEF YieldWake, Woken
  <2>2. \A h \in Gen : ~closing'[h] /\ ~throwin'[h]
    BY <1>4, <2>1 DEF YieldWake, ClearFlag, FlagInv, IInv, TypeOK
  <2>. QED BY <2>2 DEF FlagInv
<1>5. ASSUME NEW g \in Gen, CoroBegin(g) PROVE FlagInv'
  <2>1. \A h \in Gen : ~closing[h] /\ ~throwin[h]
    BY <1>5, Ready DEF CoroBegin, Woken, FlagInv
  <2>. QED BY <1>5, <2>1 DEF CoroBegin, FlagInv
<1>6. ASSUME NEW s \in Stack, ResumerWake(s) PROVE FlagInv'
  <2>1. Target = call[s].g /\ turn[call[s].g] = 0
    BY <1>6, WokenIsInnermost DEF ResumerWake, ResumerReady
  <2>2. \A h \in Gen : ~closing[h] /\ ~throwin[h]
    BY <2>1 DEF FlagInv
  <2>. QED BY <1>6, <2>2 DEF ResumerWake, FlagInv
<1>7. CASE UNCHANGED vars
  BY <1>7 DEF vars, cbVars, FlagInv, Target, Resumer
<1>8. ASSUME NEW s \in Stack, TryStep(s)
      PROVE  UNCHANGED <<closing, throwin>> /\ Active(s)
  BY <1>8 DEF TryStep, TryEnter, TryTooDeep, ClauseDone, FinallyDone, ThrowUser, LandInCatch,
              LandInFinally, LandAndRethrow, Uncaught, Running, Raising, Active, cbVars
<1>9. ASSUME NEW s \in Stack, OwnStep(s)
      PROVE  UNCHANGED <<closing, throwin>> /\ Active(s)
  BY <1>9 DEF OwnStep, GenCreate, NextDone, CoroReturn, CoroThrow, CoroEnd, Yield, YieldOutside,
              Running, Raising, Active, cbVars
<1>10. ASSUME NEW s \in Stack, NEW g \in Gen, NEW v \in UserVal,
              NextResume(s, g, v) \/ ReturnAtOnce(s, g, v) \/ ThrowAtOnce(s, g, v)
       PROVE  UNCHANGED <<closing, throwin>> /\ Active(s)
  BY <1>10 DEF NextResume, ReturnAtOnce, ThrowAtOnce, Running, Active, cbVars
<1>11. ASSUME MainReturn
       PROVE  UNCHANGED <<closing, throwin>> /\ Active(Main) /\ Main \in Stack
  BY <1>11 DEF MainReturn, Running, Active, cbVars, Stack
<1>. QED BY <1>1, <1>2, <1>3, <1>4, <1>5, <1>6, <1>7, <1>8, <1>9, <1>10, <1>11
         DEF Next, ResumeStep, Wake

LEMMA FlagInvariance == Spec => []FlagInv
<1>1. Init => FlagInv
  BY DEF Init, FlagInv
<1>2. IInv /\ IInv' /\ FlagInv /\ [Next]_vars => FlagInv'
  BY FlagStep
<1>. QED BY <1>1, <1>2, Invariance, PTL DEF Spec

\* A close or a throw-in belongs to one resume: no flag outlives it.
THEOREM FlagsConsumed == Spec => []FlagsAreForOneResume
<1>1. IInv /\ FlagInv => FlagsAreForOneResume
  BY TargetIsAStack DEF FlagInv, FlagsAreForOneResume, IInv, TypeOK
<1>. QED BY <1>1, Invariance, FlagInvariance, PTL

-----------------------------------------------------------------------------
(* Finally clauses and closes.                                             *)

\* A step of the try statements on the running stack s, to q: what it needs.
LEMMA FrameStep ==
  ASSUME IInv, NEW s \in Stack, NEW q, frames' = [frames EXCEPT ![s] = q],
         LET n == Len(frames[s]) IN
         /\ Len(q) < n /\ frames[s][n].hasFin => frames[s][n].phase = "fin"
         /\ \A i \in DOMAIN frames[s] \cap DOMAIN q :
              frames[s][i].phase = "try" /\ q[i].phase = "catch" => THROWN # GenExit
  PROVE  LeavesFromFinally /\ CatchesNoClose
<1>1. \A t \in Stack : frames'[t] = IF t = s THEN q ELSE frames[t]
  BY DEF IInv, TypeOK
<1>2. \A t \in Stack : Len(frames[t]) \in Nat
  BY Indices DEF IInv, TypeOK
<1>3. LeavesFromFinally
  BY <1>1, <1>2 DEF LeavesFromFinally
<1>4. CatchesNoClose
  BY <1>1 DEF CatchesNoClose
<1>. QED BY <1>3, <1>4

\* A step that changes no try statement.
LEMMA NoFrameStep ==
  ASSUME IInv, UNCHANGED frames
  PROVE  LeavesFromFinally /\ CatchesNoClose
<1>1. \A t \in Stack : Len(frames[t]) \in Nat
  BY Indices DEF IInv, TypeOK
<1>. QED BY <1>1 DEF LeavesFromFinally, CatchesNoClose

\* Where a landing throw finds its clause.
LEMMA LandStep ==
  ASSUME IInv, NEW s \in Stack, Raising(s), Slot > 0,
         NEW fr \in Frame, fr.phase = "catch" => THROWN # GenExit,
         frames' = [frames EXCEPT ![JBP] = Append(Below, fr)]
  PROVE  LeavesFromFinally /\ CatchesNoClose
<1> DEFINE n == Len(frames[s])
           q == Append(Below, fr)
<1>1. /\ JBP = s /\ Slot = n /\ n \in Nat
      /\ Below \in Seq(Frame) /\ Len(Below) = n - 1
      /\ Below = SubSeq(frames[s], 1, n - 1) /\ frames[s] \in Seq(Frame)
  BY LandsInnermost DEF Below, IInv, TypeOK
<1>2. /\ Len(q) = n /\ DOMAIN q = 1 .. n /\ q[n] = fr
      /\ \A i \in 1 .. n - 1 : q[i] = Below[i] /\ Below[i] = frames[s][i]
  <2>1. n > 0 /\ n - 1 \in 0 .. Len(frames[s])
    BY <1>1
  <2>2. \A i \in 1 .. n - 1 : Below[i] = frames[s][i]
    BY <2>1, <1>1, Prefix
  <2>. QED BY <1>1, <2>2, Appended
<1>3. \A i \in DOMAIN frames[s] \cap DOMAIN q :
        frames[s][i].phase = "try" /\ q[i].phase = "catch" => THROWN # GenExit
  <2>1. SUFFICES ASSUME NEW i \in 1 .. n, frames[s][i].phase = "try", q[i].phase = "catch"
                 PROVE  THROWN # GenExit
    BY <1>2
  <2>2. i = n
    BY <2>1, <1>1, <1>2
  <2>. QED BY <2>1, <2>2, <1>2
<1>4. frames' = [frames EXCEPT ![s] = q] /\ ~(Len(q) < n)
  BY <1>1, <1>2
<1> HIDE DEF q
<1>. QED BY <1>3, <1>4, FrameStep

LEMMA TryStepFrames ==
  ASSUME IInv, NEW s \in Stack, TryStep(s)
  PROVE  LeavesFromFinally /\ CatchesNoClose
<1> DEFINE n == Len(frames[s])
           fr == frames[s][n]
<1>1. frames[s] \in Seq(Frame) /\ n \in Nat /\ DOMAIN frames[s] = 1 .. n
  BY Indices DEF IInv, TypeOK
<1>2. ASSUME NEW hc \in BOOLEAN, NEW hf \in BOOLEAN, TryEnter(s, hc, hf)
      PROVE  LeavesFromFinally /\ CatchesNoClose
  <2> DEFINE new == [phase |-> "try", hasCatch |-> hc, hasFin |-> hf,
                     pending |-> None, mydepth |-> JB_DEPTH]
             q == Append(frames[s], new)
  <2>1. new \in Frame
    BY DEF Frame, IInv, TypeOK
  <2> HIDE DEF new
  <2>2. Len(q) = n + 1 /\ \A i \in 1 .. n : q[i] = frames[s][i]
    BY <1>1, <2>1, Appended
  <2>3. frames' = [frames EXCEPT ![s] = q] /\ ~(Len(q) < n)
    BY <1>2, <1>1, <2>2 DEF TryEnter, new
  <2>4. \A i \in DOMAIN frames[s] \cap DOMAIN q :
           ~(frames[s][i].phase = "try" /\ q[i].phase = "catch")
    BY <1>1, <2>2
  <2> HIDE DEF q
  <2>. QED BY <2>3, <2>4, FrameStep
<1>3. ASSUME NEW q, q = Outer(s) \/ q = Append(Outer(s), [fr EXCEPT !.phase = "fin"]),
             frames[s] # <<>>, frames' = [frames EXCEPT ![s] = q],
             Len(q) < n /\ fr.hasFin => fr.phase = "fin"
      PROVE  LeavesFromFinally /\ CatchesNoClose
  <2>1. n \in 1 .. n
    BY <1>1, <1>3, Indices
  <2>2. Outer(s) \in Seq(Frame) /\ Len(Outer(s)) = n - 1 /\ fr \in Frame
    BY <2>1, FrameAt DEF Outer
  <2>3. DOMAIN Outer(s) = 1 .. n - 1 /\ \A i \in 1 .. n - 1 : Outer(s)[i] = frames[s][i]
    BY <1>1, <2>1, Prefix DEF Outer
  <2>4. [fr EXCEPT !.phase = "fin"] \in Frame /\ [fr EXCEPT !.phase = "fin"].phase = "fin"
    BY <2>2 DEF Frame
  <2>5. \A i \in DOMAIN q : q[i].phase = "fin" \/ (i \in 1 .. n - 1 /\ q[i] = frames[s][i])
    <3>1. CASE q = Outer(s)
      BY <3>1, <2>3
    <3>2. CASE q = Append(Outer(s), [fr EXCEPT !.phase = "fin"])
      <4> DEFINE last == [fr EXCEPT !.phase = "fin"]
      <4> HIDE DEF last
      <4>1. last \in Frame /\ last.phase = "fin" /\ q = Append(Outer(s), last)
        BY <2>4, <3>2 DEF last
      <4>2. /\ DOMAIN q = 1 .. Len(Outer(s)) + 1 /\ q[Len(Outer(s)) + 1] = last
            /\ \A i \in 1 .. Len(Outer(s)) : q[i] = Outer(s)[i]
        BY <4>1, <2>2, Appended
      <4>. QED BY <4>1, <4>2, <2>1, <2>2, <2>3
    <3>. QED BY <1>3, <3>1, <3>2
  <2>6. \A i \in DOMAIN frames[s] \cap DOMAIN q :
           ~(frames[s][i].phase = "try" /\ q[i].phase = "catch")
    BY <2>5
  <2>. QED BY <1>3, <2>6, FrameStep
<1>4. CASE ClauseDone(s)
  <2>1. n \in 1 .. n
    BY <1>1, <1>4, Indices DEF ClauseDone
  <2>2. Outer(s) \in Seq(Frame) /\ Len(Outer(s)) = n - 1 /\ fr \in Frame
    BY <2>1, FrameAt DEF Outer
  <2>3. CASE fr.hasFin
    <3> DEFINE last == [fr EXCEPT !.phase = "fin"]
               q == Append(Outer(s), last)
    <3>1. last \in Frame
      BY <2>2 DEF Frame
    <3>2. frames' = [frames EXCEPT ![s] = q]
      BY <1>4, <2>3 DEF ClauseDone, Innermost
    <3> HIDE DEF last
    <3>3. ~(Len(q) < n)
      BY <2>1, <2>2, <3>1, Appended
    <3>4. frames[s] # <<>>
      BY <1>4 DEF ClauseDone
    <3>5. q = Append(Outer(s), [fr EXCEPT !.phase = "fin"])
      BY DEF last
    <3> HIDE DEF q
    <3>. QED BY <1>3, <3>2, <3>3, <3>4, <3>5
  <2>4. CASE ~fr.hasFin
    BY <1>3, <1>4, <2>4 DEF ClauseDone, Innermost
  <2>. QED BY <2>3, <2>4
<1>5. ASSUME NEW ctl \in BOOLEAN, FinallyDone(s, ctl)
      PROVE  LeavesFromFinally /\ CatchesNoClose
  BY <1>3, <1>5 DEF FinallyDone, Innermost
<1>6. CASE LandInCatch(s)
  <2>1. Raising(s) /\ Slot > 0 /\ THROWN # GenExit
    BY <1>6 DEF LandInCatch, CatchTakes
  <2>2. [Landing EXCEPT !.phase = "catch"] \in Frame
    BY <2>1, LandsInnermost DEF Frame
  <2>. QED BY <1>6, <2>1, <2>2, LandStep DEF LandInCatch
<1>7. CASE LandInFinally(s)
  <2> DEFINE new == [Landing EXCEPT !.phase = "fin", !.pending = THROWN]
  <2>1. Raising(s) /\ Slot > 0
    BY <1>7 DEF LandInFinally
  <2>2. new \in Frame /\ new.phase = "fin"
    BY <2>1, LandsInnermost DEF Frame, IInv, TypeOK
  <2>. QED BY <1>7, <2>1, <2>2, LandStep DEF LandInFinally
<1>8. CASE LandAndRethrow(s)
  <2>1. Raising(s) /\ Slot > 0 /\ ~CatchTakes /\ ~FinallyTakes
    BY <1>8 DEF LandAndRethrow
  <2>2. JBP = s /\ Slot = n /\ Landing = fr /\ n > 0
    BY <2>1, LandsInnermost
  <2>3. frames' = [frames EXCEPT ![s] = Outer(s)]
    BY <1>8, <2>2 DEF LandAndRethrow, Below, Outer
  <2>4. fr.hasFin => fr.phase = "fin"
    BY <2>1, <2>2 DEF FinallyTakes
  <2>5. frames[s] # <<>>
    BY <2>2
  <2>. QED BY <1>3, <2>3, <2>4, <2>5
<1>9. CASE UNCHANGED frames
  BY <1>9, NoFrameStep
<1>. QED BY <1>2, <1>4, <1>5, <1>6, <1>7, <1>8, <1>9
         DEF TryStep, TryTooDeep, ThrowUser, Uncaught

LEMMA StepFrames == IInv /\ [Next]_vars => LeavesFromFinally /\ CatchesNoClose
<1> SUFFICES ASSUME IInv, [Next]_vars PROVE LeavesFromFinally /\ CatchesNoClose
  OBVIOUS
<1>1. ASSUME NEW s \in Stack, TryStep(s) PROVE LeavesFromFinally /\ CatchesNoClose
  BY <1>1, TryStepFrames
<1>2. CASE UNCHANGED frames
  BY <1>2, NoFrameStep
<1>3. ASSUME NEW s \in Gen, NEW v, NEW thrown, CoroEnd(s, v, thrown),
             frames[s] = <<>>
      PROVE  UNCHANGED frames
  <2>1. frames' = [frames EXCEPT ![s] = <<>>]
    BY <1>3 DEF CoroEnd
  <2>. QED BY <1>3, <2>1 DEF IInv, TypeOK, Stack
<1>4. ASSUME NEW s \in Stack, CoroThrow(s) PROVE UNCHANGED frames
  <2>1. s \in Gen /\ Active(s) /\ Slot = 0 /\ CoroEnd(s, THROWN, TRUE)
    BY <1>4 DEF CoroThrow, Raising, Active
  <2>2. frames[s] \in Seq(Frame) /\ Len(frames[s]) = 0
    BY <2>1, Runner, Indices DEF Slot
  <2>3. frames[s] = <<>>
    BY <2>2
  <2>. QED BY <2>1, <2>3, <1>3
<1>5. ASSUME NEW s \in Stack, OwnStep(s) PROVE UNCHANGED frames
  BY <1>3, <1>4, <1>5 DEF OwnStep, GenCreate, NextDone, CoroReturn, Yield, YieldOutside,
                          Running, Active
<1>6. ASSUME NEW s \in Stack, ResumeStep(s) PROVE UNCHANGED frames
  BY <1>6 DEF ResumeStep, NextResume, ReturnResume, ThrowResume, GenResume,
              ReturnAtOnce, ThrowAtOnce
<1>7. ASSUME MainReturn \/ Wake \/ UNCHANGED vars PROVE UNCHANGED frames
  BY <1>7 DEF MainReturn, Wake, CoroBegin, YieldWake, ResumerWake, vars
<1>8. CASE Next
  BY <1>1, <1>2, <1>5, <1>6, <1>7, <1>8 DEF Next
<1>. QED BY <1>7, <1>2, <1>8

\* No exception, no close and no normal end gets past a finally clause.
THEOREM FinallyRuns == Spec => FinallyNeverSkipped
<1>1. IInv /\ [Next]_vars => [LeavesFromFinally]_vars
  BY StepFrames
<1>. QED BY <1>1, Invariance, PTL DEF Spec, FinallyNeverSkipped

\* A close unwinds every catch clause of the body without running one.
THEOREM ClosesPassCatch == Spec => CatchNeverSeesClose
<1>1. IInv /\ [Next]_vars => [CatchesNoClose]_vars
  BY StepFrames
<1>. QED BY <1>1, Invariance, PTL DEF Spec, CatchNeverSeesClose

\* The stack that runs has not handed back.
LEMMA RunnerHolds ==
  ASSUME IInv, NEW s \in Stack, Active(s)
  PROVE  /\ ~HandedBack /\ ~HandedOver
         /\ pc[Target] # "wait" /\ s = Target
         /\ s \in Gen <=> RES # <<>>
<1>1. s = Target /\ (s \in Gen => turn[s] = 1)
  BY Runner
<1>2. s \in Gen <=> RES # <<>>
  BY <1>1, TargetIsAStack, NamesAssumption
<1>. QED BY <1>1, <1>2 DEF HandedBack, HandedOver, CoroReady, Active

\* An exception that is on its way belongs to the one side that can move.
LEMMA WhoCarries ==
  ASSUME IInv, NEW v, OnItsWay(v)
  PROVE  \/ \E s \in Stack : Raising(s) /\ v = THROWN
         \/ /\ ResumerReady(Resumer.lo) /\ RES # <<>> /\ HandedBack
            /\ LeftBy(Target, call[Resumer.lo].op) /\ v = f[Target]
         \/ /\ CoroReady(Target) /\ pc[Target] = "parked"
            /\ \/ closing[Target] /\ v = GenExit
               \/ ~closing[Target] /\ throwin[Target] /\ v = f[Target]
  BY TargetIsAStack DEF OnItsWay, HandedBack, HandedOver, ResumerReady

\* A throw that lands, or leaves the body, keeps what it carries.
LEMMA ThrowKeeps ==
  ASSUME IInv, IInv', NEW s \in Stack, Raising(s), NEW v, v = THROWN,
         LandInCatch(s) \/ LandInFinally(s) \/ LandAndRethrow(s) \/ Uncaught(s) \/ CoroThrow(s)
  PROVE  OnItsWay(v)' \/ TakenByClause(v) \/ TakenByClose(v) \/ proc' = "exited"
<1> DEFINE n == Len(frames[s])
<1>1. ASSUME NEW fr \in Frame, fr.phase # Landing.phase, Slot > 0, proc' = proc,
             \/ fr.phase = "catch" /\ THROWN # GenExit
             \/ fr.phase = "fin" /\ fr.pending = THROWN,
             frames' = [frames EXCEPT ![JBP] = Append(Below, fr)],
             pc' = [pc EXCEPT ![s] = "run"]
      PROVE  TakenByClause(v)
  <2>1. /\ JBP = s /\ Landing = frames[s][n] /\ Slot = n
        /\ Below \in Seq(Frame) /\ Len(Below) = n - 1 /\ n \in Nat
        /\ frames[s] \in Seq(Frame)
    BY <1>1, LandsInnermost DEF IInv, TypeOK
  <2>2. /\ n \in DOMAIN frames[s] /\ frames'[s] = Append(Below, fr)
        /\ n \in DOMAIN frames'[s] /\ frames'[s][n] = fr
    <3>1. n \in DOMAIN frames[s]
      BY <1>1, <2>1, Indices
    <3>2. frames'[s] = Append(Below, fr)
      BY <1>1, <2>1 DEF IInv, TypeOK
    <3>3. n \in DOMAIN Append(Below, fr) /\ Append(Below, fr)[n] = fr
      BY <1>1, <2>1, Appended
    <3>. QED BY <3>1, <3>2, <3>3
  <2>3. Running(s)'
    BY <1>1 DEF Running, Raising, IInv, TypeOK
  <2>. QED BY <1>1, <2>1, <2>2, <2>3 DEF TakenByClause
<1>2. CASE LandInCatch(s)
  <2> DEFINE fr == [Landing EXCEPT !.phase = "catch"]
  <2>1. Slot > 0 /\ CatchTakes
    BY <1>2 DEF LandInCatch
  <2>2. fr \in Frame /\ fr.phase = "catch" /\ Landing.phase = "try" /\ THROWN # GenExit
    BY <2>1, LandsInnermost DEF Frame, CatchTakes
  <2>3. /\ frames' = [frames EXCEPT ![JBP] = Append(Below, fr)]
        /\ pc' = [pc EXCEPT ![s] = "run"] /\ proc' = proc
    BY <1>2 DEF LandInCatch
  <2> HIDE DEF fr
  <2>. QED BY <1>1, <2>1, <2>2, <2>3
<1>3. CASE LandInFinally(s)
  <2> DEFINE fr == [Landing EXCEPT !.phase = "fin", !.pending = THROWN]
  <2>1. Slot > 0 /\ FinallyTakes
    BY <1>3 DEF LandInFinally
  <2>2. fr \in Frame /\ fr.phase = "fin" /\ fr.pending = THROWN /\ Landing.phase # "fin"
    BY <2>1, LandsInnermost DEF Frame, FinallyTakes, IInv, TypeOK
  <2>3. /\ frames' = [frames EXCEPT ![JBP] = Append(Below, fr)]
        /\ pc' = [pc EXCEPT ![s] = "run"] /\ proc' = proc
    BY <1>3 DEF LandInFinally
  <2> HIDE DEF fr
  <2>. QED BY <1>1, <2>1, <2>2, <2>3
<1>4. CASE LandAndRethrow(s)
  <2>1. Raising(s)' /\ THROWN' = v /\ proc' = "live"
    BY <1>4 DEF LandAndRethrow, Raising
  <2>. QED BY <2>1 DEF OnItsWay
<1>5. CASE Uncaught(s)
  BY <1>5 DEF Uncaught
<1>6. CASE CoroThrow(s)
  <2>1. s \in Gen /\ CoroEnd(s, THROWN, TRUE) /\ Active(s)
    BY <1>6 DEF CoroThrow, Raising, Active
  <2>2. CUR_GEN = s /\ s = Target /\ RES # <<>>
    BY <2>1, Runner, RunnerHolds, NamesAssumption
  <2>3. /\ f'[s] = v /\ threw'[s] /\ turn'[s] = 0
        /\ UNCHANGED <<proc, RES, call>>
    BY <2>1, <2>2 DEF CoroEnd, HandBack, IInv, TypeOK
  <2>4. Target' = s /\ RES' # <<>> /\ Resumer' = Resumer
    BY <2>2, <2>3 DEF Target, Resumer
  <2>5. HandedBack'
    BY <2>3, <2>4 DEF HandedBack
  <2>6. proc' = "live"
    BY <2>3 DEF Raising
  <2>. QED BY <2>3, <2>4, <2>5, <2>6 DEF OnItsWay, LeftBy, TakenByClose
<1>. QED BY <1>2, <1>3, <1>4, <1>5, <1>6

\* A side that takes the control over takes what was handed to it.
LEMMA WakeKeeps ==
  ASSUME IInv, NEW v, OnItsWay(v), Wake
  PROVE  OnItsWay(v)'
<1>1. ASSUME NEW g \in Gen, CoroReady(g)
      PROVE  /\ g = Target /\ (\A s \in Stack : ~Active(s)) /\ turn[Target] = 1
  BY <1>1, Ready DEF CoroReady
<1>2. ASSUME NEW g \in Gen, CoroBegin(g) PROVE FALSE
  <2>1. CoroReady(g) /\ pc[g] = "entry" /\ g \in Stack
    BY <1>2 DEF CoroBegin, CoroReady, Woken, Stack
  <2>. QED BY <1>1, <2>1, WhoCarries DEF HandedBack, Raising, Active
<1>3. ASSUME NEW g \in Gen, YieldWake(g) PROVE OnItsWay(v)'
  <2>1. CoroReady(g) /\ g \in Stack /\ proc' = "live"
    BY <1>3 DEF YieldWake, CoroReady, Woken, Stack
  <2>2. \/ closing[g] /\ v = GenExit
        \/ ~closing[g] /\ throwin[g] /\ v = f[g]
    BY <1>1, <2>1, WhoCarries DEF HandedBack, Raising, Active
  <2>3. pc' = [pc EXCEPT ![g] = "raise"] /\ THROWN' = v
    BY <1>3, <2>2 DEF YieldWake, Throw
  <2>4. Raising(g)'
    BY <2>1, <2>3 DEF Raising, IInv, TypeOK
  <2>. QED BY <2>1, <2>3, <2>4 DEF OnItsWay
<1>4. ASSUME NEW s \in Stack, ResumerWake(s) PROVE OnItsWay(v)'
  <2>1. ResumerReady(s) /\ proc' = "live"
    BY <1>4 DEF ResumerWake, ResumerReady
  <2>2. RES # <<>> /\ Resumer.lo = s /\ Target = call[s].g /\ call[s] \in Call
    BY <2>1, WokenIsInnermost
  <2>3. turn[Target] = 0 /\ s \in Sides
    BY <2>1, <2>2 DEF ResumerReady, Sides
  <2>4. \A t \in Stack : ~Active(t)
    <3>1. ASSUME NEW t \in Stack, Active(t) PROVE FALSE
      <4>1. t = s
        BY <2>3, <3>1, OneSide DEF AtMostOneSide, Sides
      <4>. QED BY <2>1, <3>1, <4>1 DEF ResumerReady, Active
    <3>. QED BY <3>1
  <2>5. LeftBy(call[s].g, call[s].op) /\ v = f[call[s].g]
    BY <2>2, <2>3, <2>4, WhoCarries DEF CoroReady, Raising, Active
  <2>6. threw[call[s].g] /\ ~CloseCompletes(s)
    BY <2>5 DEF LeftBy, CloseCompletes
  <2>7. Outcome(s).kind = "raise" /\ Outcome(s).val = v
    BY <2>5, <2>6 DEF Outcome, Answer
  <2>8. pc' = [pc EXCEPT ![s] = "raise"] /\ THROWN' = v
    BY <1>4, <2>7 DEF ResumerWake, Throw
  <2>9. Raising(s)'
    BY <2>1, <2>8 DEF Raising, IInv, TypeOK
  <2>. QED BY <2>1, <2>8, <2>9 DEF OnItsWay
<1>. QED BY <1>2, <1>3, <1>4 DEF Wake

LEMMA StepKeeps == IInv /\ IInv' /\ [Next]_vars => KeepsException
<1> SUFFICES ASSUME IInv, IInv', [Next]_vars, NEW v \in Value, OnItsWay(v)
             PROVE  OnItsWay(v)' \/ TakenByClause(v) \/ TakenByClose(v) \/ proc' = "exited"
  BY DEF KeepsException
\* Nobody runs while an exception is on its way.
<1>1. \A s \in Stack : ~Running(s)
  <2>1. SUFFICES ASSUME NEW s \in Stack, Running(s) PROVE FALSE
    OBVIOUS
  <2>2. Active(s) /\ pc[s] = "run"
    BY <2>1 DEF Running, Active
  <2>3. s = Target /\ ~HandedBack /\ ~HandedOver
    BY <2>2, RunnerHolds
  <2>4. PICK t \in Stack : Raising(t)
    BY <2>3, WhoCarries DEF HandedOver
  <2>5. t = Target
    BY <2>4, RunnerHolds DEF Raising, Active
  <2>. QED BY <2>2, <2>3, <2>4, <2>5 DEF Raising
<1>2. ASSUME NEW s \in Stack,
             LandInCatch(s) \/ LandInFinally(s) \/ LandAndRethrow(s) \/ Uncaught(s) \/ CoroThrow(s)
      PROVE  OnItsWay(v)' \/ TakenByClause(v) \/ TakenByClose(v) \/ proc' = "exited"
  <2>1. Raising(s)
    BY <1>2 DEF LandInCatch, LandInFinally, LandAndRethrow, Uncaught, CoroThrow
  <2>2. ~HandedBack /\ ~HandedOver
    BY <2>1, RunnerHolds DEF Raising, Active
  <2>3. v = THROWN
    BY <2>2, WhoCarries DEF HandedOver
  <2>. QED BY <1>2, <2>1, <2>3, ThrowKeeps
<1>3. CASE Wake
  BY <1>3, WakeKeeps
<1>4. CASE UNCHANGED vars
  <2>1. Target' = Target /\ Resumer' = Resumer
    BY <1>4 DEF vars, Target, Resumer
  <2>. QED BY <1>4, <2>1 DEF vars, cellVars, cbVars, OnItsWay, Raising, HandedBack, HandedOver,
                             CoroReady, LeftBy
<1>5. ASSUME NEW s \in Stack, TryStep(s)
      PROVE  LandInCatch(s) \/ LandInFinally(s) \/ LandAndRethrow(s) \/ Uncaught(s)
  BY <1>1, <1>5 DEF TryStep, TryEnter, TryTooDeep, ClauseDone, FinallyDone, ThrowUser
<1>6. ASSUME NEW s \in Stack, OwnStep(s) PROVE CoroThrow(s)
  BY <1>1, <1>6 DEF OwnStep, GenCreate, NextDone, CoroReturn, Yield, YieldOutside
<1>7. ASSUME NEW s \in Stack, ResumeStep(s) PROVE FALSE
  BY <1>1, <1>7 DEF ResumeStep, NextResume, ReturnResume, ThrowResume, ReturnAtOnce, ThrowAtOnce
<1>8. ~MainReturn
  BY <1>1 DEF MainReturn, Stack
<1>. QED BY <1>2, <1>3, <1>4, <1>5, <1>6, <1>7, <1>8 DEF Next

\* What is thrown stays on its way, unchanged, over the barriers and the stacks
\* it passes, until a clause takes it, its close completes or the process ends.
THEOREM ExceptionsKept == Spec => ExceptionsAreKept
<1>1. IInv /\ IInv' /\ [Next]_vars => [KeepsException]_vars
  BY StepKeeps
<1>. QED BY <1>1, Invariance, PTL DEF Spec, ExceptionsAreKept

\* All together: each clause runs when it should and only then, and what is
\* thrown reaches one.
THEOREM ClausesTaken == Spec => ClausesAreTaken
  BY FinallyRuns, ClosesPassCatch, ExceptionsKept DEF ClausesAreTaken
-----------------------------------------------------------------------------
(* The protocol: what the refinement needs besides IInv.                   *)

\* A cell that does not exist has never been used; one that has ended does not
\* run, and only one that has ended can have left by a throw.
CellInv ==
  \A g \in Gen :
    /\ g \notin made => ~e[g] /\ ~started[g]
    /\ e[g] => turn[g] = 0
    /\ threw[g] => e[g]

\* The resume that stack t answers to, unless t waits itself, is a close.
ClosedBy(t) ==
  \E i \in DOMAIN RES :
    /\ call[RES[i].lo].g = t /\ call[RES[i].lo].op = "return"
    /\ i = Len(RES) => pc[t] # "wait"

Ended(t) == t \in Gen /\ e[t]

\* The sentinel of a close travels only on a stack that is being closed: in
\* flight, held back by a finally clause, or handed to the resumer.
SentinelInv ==
  /\ \A s \in Stack : pc[s] = "raise" /\ THROWN = GenExit => ClosedBy(s)
  /\ \A s \in Stack : \A i \in DOMAIN frames[s] :
       frames[s][i].pending = GenExit => Ended(s) \/ ClosedBy(s)
  /\ HandedBack /\ threw[Target] /\ f[Target] = GenExit => call[Resumer.lo].op = "return"

\* The program cannot throw the sentinel in.
ThrownInInv == \A g \in Gen : throwin[g] => f[g] # GenExit

ProtInv == FlagInv /\ CellInv /\ SentinelInv /\ ThrownInInv
-----------------------------------------------------------------------------
(* Facts about who has the control.                                        *)

\* What it means for the target of the innermost resume to be closed.
LEMMA ClosedTarget ==
  ASSUME IInv, pc[Target] # "wait"
  PROVE  ClosedBy(Target) <=> RES # <<>> /\ call[Resumer.lo].op = "return"
<1>1. /\ Len(RES) \in Nat /\ DOMAIN RES = 1 .. Len(RES)
      /\ (RES # <<>> <=> Len(RES) > 0)
  BY ResEntries DEF IInv
<1>2. ASSUME ClosedBy(Target) PROVE RES # <<>> /\ call[Resumer.lo].op = "return"
  <2>1. PICK i \in DOMAIN RES : call[RES[i].lo].g = Target /\ call[RES[i].lo].op = "return"
    BY <1>2 DEF ClosedBy
  <2>2. i = Len(RES)
    <3>1. SUFFICES ASSUME i # Len(RES) PROVE FALSE
      OBVIOUS
    <3>2. Target = RES[i + 1].lo /\ i + 1 \in DOMAIN RES
      BY <3>1, <2>1, <1>1 DEF IInv, ChainInv
    <3>. QED BY <3>2 DEF IInv, ChainInv
  <2>. QED BY <2>1, <2>2, <1>1 DEF Resumer
<1>3. ASSUME RES # <<>>, call[Resumer.lo].op = "return" PROVE ClosedBy(Target)
  <2>1. Len(RES) \in DOMAIN RES /\ call[Resumer.lo].g = Target
    BY <1>3, <1>1, TargetIsAStack
  <2>. QED BY <1>3, <2>1 DEF ClosedBy, Resumer
<1>. QED BY <1>2, <1>3

\* A sentinel held back on the stack that runs is that of its own close.
LEMMA HeldByRunner ==
  ASSUME IInv, CellInv, SentinelInv, NEW s \in Stack, Active(s),
         NEW i \in DOMAIN frames[s], frames[s][i].pending = GenExit
  PROVE  ClosedBy(s)
<1>1. s \in Gen => turn[s] = 1
  BY Runner
<1>. QED BY <1>1 DEF CellInv, SentinelInv, Ended

-----------------------------------------------------------------------------
(* The cells.                                                              *)

LEMMA CellStep == IInv /\ CellInv /\ [Next]_vars => CellInv'
<1> SUFFICES ASSUME IInv, CellInv, [Next]_vars PROVE CellInv'
  OBVIOUS
<1>1. CASE made \subseteq made' /\ UNCHANGED <<started, e, turn, threw>>
  BY <1>1 DEF CellInv
<1>2. ASSUME NEW s \in Stack, TryStep(s) PROVE CellInv'
  <2>1. UNCHANGED <<made, started, e, turn, threw>>
    BY <1>2 DEF TryStep, TryEnter, TryTooDeep, ClauseDone, FinallyDone, ThrowUser, LandInCatch,
                LandInFinally, LandAndRethrow, Uncaught, cellVars, cbVars
  <2>. QED BY <2>1, <1>1
<1>3. ASSUME NEW s \in Gen, NEW v, NEW thrown \in BOOLEAN, CoroEnd(s, v, thrown), Active(s)
      PROVE  CellInv'
  <2>1. CUR_GEN = s /\ state[s] = 3
    BY <1>3, Runner, NamesAssumption DEF Stack
  <2>2. pc[s] # "none" /\ started[s]
    BY <1>3 DEF IInv, CbInv, Active
  <2>3. \A h \in Gen : /\ e'[h] = IF h = s THEN TRUE ELSE e[h]
                       /\ turn'[h] = IF h = s THEN 0 ELSE turn[h]
                       /\ threw'[h] = IF h = s THEN thrown ELSE threw[h]
    BY <1>3, <2>1 DEF CoroEnd, HandBack, IInv, TypeOK
  <2>. QED BY <1>3, <2>2, <2>3 DEF CellInv, CoroEnd
<1>4. ASSUME NEW s \in Stack, OwnStep(s) PROVE CellInv'
  <2>1. ASSUME NEW g \in Gen, GenCreate(s, g) \/ NextDone(s, g) PROVE CellInv'
    BY <2>1, <1>1 DEF GenCreate, NextDone, cellVars, cbVars
  <2>2. ASSUME NEW v \in UserVal, CoroReturn(s, v) PROVE CellInv'
    BY <2>2, <1>3 DEF CoroReturn, Running, Active
  <2>3. CASE CoroThrow(s)
    BY <2>3, <1>3 DEF CoroThrow, Raising, Active
  <2>4. ASSUME NEW v \in UserVal, Yield(s, v) PROVE CellInv'
    <3>1. Active(s) /\ CUR_GEN # None
      BY <2>4 DEF Yield, Running, Active
    <3>2. CUR_GEN = s /\ s \in Gen
      BY <3>1, Runner DEF Stack
    <3>3. \A h \in Gen : turn'[h] = 0 \/ turn'[h] = turn[h]
      BY <2>4, <3>2 DEF Yield, HandBack, IInv, TypeOK
    <3>. QED BY <2>4, <3>3 DEF Yield, CellInv
  <2>5. CASE YieldOutside(s)
    BY <2>5, <1>1 DEF YieldOutside, cellVars, cbVars
  <2>. QED BY <1>4, <2>1, <2>2, <2>3, <2>4, <2>5 DEF OwnStep
<1>5. ASSUME NEW s \in Stack, NEW g \in Gen, NEW v \in UserVal,
             NextResume(s, g, v) \/ ReturnResume(s, g, v) \/ ThrowResume(s, g, v)
      PROVE  CellInv'
  <2>1. g \in made /\ ~e[g] /\ UNCHANGED <<made, e, threw>>
        /\ started' = [started EXCEPT ![g] = TRUE] /\ turn' = [turn EXCEPT ![g] = 1]
    BY <1>5 DEF NextResume, ReturnResume, ThrowResume, GenResume
  <2>2. \A h \in Gen : /\ started'[h] = IF h = g THEN TRUE ELSE started[h]
                       /\ turn'[h] = IF h = g THEN 1 ELSE turn[h]
    BY <2>1 DEF IInv, TypeOK
  <2>. QED BY <2>1, <2>2 DEF CellInv
<1>6. ASSUME NEW s \in Stack, NEW g \in Gen, NEW v \in UserVal,
             ReturnAtOnce(s, g, v) \/ ThrowAtOnce(s, g, v)
      PROVE  CellInv'
  <2>1. /\ g \in made /\ (e[g] \/ ~started[g]) /\ e' = [e EXCEPT ![g] = TRUE]
        /\ UNCHANGED <<made, started, turn, threw>> /\ Active(s)
    BY <1>6 DEF ReturnAtOnce, ThrowAtOnce, cbVars, Running, Active
  <2>2. \A h \in Gen : e'[h] = IF h = g THEN TRUE ELSE e[h]
    BY <2>1 DEF IInv, TypeOK
  <2>3. turn[g] = 0
    <3>1. ~started[g] => pc[g] = "none"
      BY DEF IInv, CbInv
    <3>2. pc[g] = "none" => g # Target /\ turn[g] = 0
      BY <2>1, Runner DEF IInv, SchedInv, Active
    <3>. QED BY <2>1, <3>1, <3>2 DEF CellInv
  <2>. QED BY <2>1, <2>2, <2>3 DEF CellInv
<1>7. ASSUME NEW g \in Gen, CoroBegin(g) \/ YieldWake(g) PROVE CellInv'
  BY <1>7, <1>1 DEF CoroBegin, YieldWake, cellVars
<1>8. ASSUME NEW s \in Stack, ResumerWake(s) PROVE CellInv'
  <2> DEFINE g == call[s].g
  <2>1. call[s] \in Call /\ turn[g] = 0 /\ Target = g
    BY <1>8, WokenIsInnermost DEF ResumerWake, ResumerReady
  <2>2. g \in Gen
    BY <2>1 DEF Call
  <2>3. started[g]
    <3>1. RES # <<>> /\ Target \in Gen /\ pc[Target] # "wait"
      BY <1>8, <2>1, <2>2, WokenIsInnermost DEF ResumerWake, ResumerReady, IInv, SchedInv
    <3>2. pc[g] \in {"parked", "gone"}
      BY <2>1, <3>1 DEF IInv, SchedInv
    <3>. QED BY <3>2, <2>2 DEF IInv, CbInv
  <2>4. \A h \in Gen : /\ threw'[h] = IF h = g THEN FALSE ELSE threw[h]
                       /\ e'[h] \in {e[h], h = g \/ e[h]}
    BY <1>8, <2>2 DEF ResumerWake, IInv, TypeOK
  <2>. QED BY <1>8, <2>1, <2>2, <2>3, <2>4 DEF CellInv, ResumerWake
<1>9. CASE MainReturn \/ UNCHANGED vars
  BY <1>9, <1>1 DEF MainReturn, vars, cellVars, cbVars
<1>. QED BY <1>2, <1>4, <1>5, <1>6, <1>7, <1>8, <1>9, <1>1 DEF Next, ResumeStep, Wake
-----------------------------------------------------------------------------
(* The sentinel of a close.                                                *)

\* A step that keeps the resumers and who waits keeps who is being closed.
LEMMA ClosedKept ==
  ASSUME UNCHANGED <<RES, call>>, NEW t, pc'[t] = "wait" <=> pc[t] = "wait"
  PROVE  ClosedBy(t)' <=> ClosedBy(t)
  BY DEF ClosedBy

\* A step of the stack s that runs and goes on.
LEMMA RunSentinel ==
  ASSUME IInv, IInv', CellInv, SentinelInv, NEW s \in Stack, Active(s), UNCHANGED <<RES, call>>,
         \A g \in Gen : e[g] => e'[g],
         NEW p \in {"run", "raise"}, pc' = [pc EXCEPT ![s] = p],
         p = "raise" /\ THROWN' = GenExit => ClosedBy(s),
         \A t \in Stack : t # s => frames'[t] = frames[t],
         \A i \in DOMAIN frames'[s] :
            frames'[s][i].pending = GenExit =>
              ClosedBy(s) \/ \E j \in DOMAIN frames[s] : frames[s][j].pending = GenExit
  PROVE  SentinelInv'
<1>1. \A t \in Stack : pc'[t] = IF t = s THEN p ELSE pc[t]
  BY DEF IInv, TypeOK
<1>2. \A t \in Stack : ClosedBy(t)' <=> ClosedBy(t)
  BY <1>1, ClosedKept DEF Active
<1>3. \A t \in Stack : t # s => ~Active(t)
  BY Runner
<1>4. \A t \in Stack : pc'[t] = "raise" => t = s /\ p = "raise"
  BY <1>1, <1>3 DEF Active
<1>5. ~HandedBack'
  <2>1. Target' = s /\ (s \in Gen <=> RES # <<>>)
    BY RunnerHolds DEF Target, Resumer
  <2>2. s \in Gen => turn'[s] = 1
    BY <1>1, <2>1 DEF IInv, SchedInv
  <2>. QED BY <2>1, <2>2 DEF HandedBack
<1>6. \A t \in Stack : Ended(t) => Ended(t)'
  BY DEF Ended
<1>7. ASSUME NEW t \in Stack, NEW i \in DOMAIN frames'[t], frames'[t][i].pending = GenExit
      PROVE  Ended(t)' \/ ClosedBy(t)'
  <2>1. CASE t = s
    BY <2>1, <1>2, <1>7, HeldByRunner
  <2>2. CASE t # s
    BY <2>2, <1>2, <1>6, <1>7 DEF SentinelInv
  <2>. QED BY <2>1, <2>2
<1>. QED BY <1>2, <1>4, <1>5, <1>7 DEF SentinelInv

\* A step of the stack s that runs and leaves its try statements alone.
LEMMA PlainSentinel ==
  ASSUME IInv, IInv', CellInv, SentinelInv, NEW s \in Stack, Active(s),
         UNCHANGED <<RES, call, frames>>, \A g \in Gen : e[g] => e'[g],
         \/ UNCHANGED <<pc, THROWN>>
         \/ \E p \in {"run", "raise"} : pc' = [pc EXCEPT ![s] = p] /\ THROWN' # GenExit
  PROVE  SentinelInv'
<1>1. CASE UNCHANGED <<pc, THROWN>>
  <2>1. pc[s] \in {"run", "raise"} /\ pc' = [pc EXCEPT ![s] = pc[s]]
    BY <1>1 DEF Active, IInv, TypeOK
  <2>. QED BY <1>1, <2>1, RunSentinel DEF SentinelInv
<1>2. ASSUME NEW p \in {"run", "raise"}, pc' = [pc EXCEPT ![s] = p], THROWN' # GenExit
      PROVE  SentinelInv'
  BY <1>2, RunSentinel
<1>. QED BY <1>1, <1>2

LEMMA TrySentinel ==
  ASSUME IInv, IInv', CellInv, SentinelInv, NEW s \in Stack, TryStep(s)
  PROVE  SentinelInv'
<1> DEFINE n == Len(frames[s])
           fr == frames[s][n]
<1>1. Active(s)
  BY DEF TryStep, TryEnter, TryTooDeep, ClauseDone, FinallyDone, ThrowUser, LandInCatch,
         LandInFinally, LandAndRethrow, Uncaught, Running, Raising, Active
<1>2. frames[s] \in Seq(Frame) /\ n \in Nat /\ DOMAIN frames[s] = 1 .. n
  BY Indices DEF IInv, TypeOK
<1>3. ASSUME UNCHANGED <<RES, call, e>>, NEW p \in {"run", "raise"}, pc' = [pc EXCEPT ![s] = p],
             p = "raise" /\ THROWN' = GenExit => ClosedBy(s),
             NEW k \in 0 .. n, NEW new \in Frame,
             \/ frames' = [frames EXCEPT ![s] = SubSeq(frames[s], 1, k)]
             \/ frames' = [frames EXCEPT ![s] = Append(SubSeq(frames[s], 1, k), new)],
             new.pending = GenExit =>
               ClosedBy(s) \/ \E j \in DOMAIN frames[s] : frames[s][j].pending = GenExit
      PROVE  SentinelInv'
  <2> DEFINE q == SubSeq(frames[s], 1, k)
  <2>1. q \in Seq(Frame) /\ Len(q) = k /\ DOMAIN q = 1 .. k /\ \A i \in 1 .. k : q[i] = frames[s][i]
    BY <1>2, Prefix
  <2> HIDE DEF q
  <2>2. /\ DOMAIN Append(q, new) = 1 .. k + 1 /\ Append(q, new)[k + 1] = new
        /\ \A i \in 1 .. k : Append(q, new)[i] = q[i]
    BY <2>1, Appended
  <2>3. \A t \in Stack : t # s => frames'[t] = frames[t]
    BY <1>3 DEF IInv, TypeOK
  <2>4. frames'[s] = q \/ frames'[s] = Append(q, new)
    BY <1>3 DEF IInv, TypeOK, q
  <2>5. \A i \in DOMAIN frames'[s] :
          (i \in DOMAIN frames[s] /\ frames'[s][i] = frames[s][i]) \/ frames'[s][i] = new
    <3>1. CASE frames'[s] = q
      BY <3>1, <2>1, <1>2
    <3>2. CASE frames'[s] = Append(q, new)
      BY <3>2, <2>1, <2>2, <1>2
    <3>. QED BY <2>4, <3>1, <3>2
  <2>6. \A i \in DOMAIN frames'[s] : frames'[s][i].pending = GenExit =>
              ClosedBy(s) \/ \E j \in DOMAIN frames[s] : frames[s][j].pending = GenExit
    BY <2>5, <1>3
  <2>. QED BY <1>1, <1>3, <2>3, <2>6, RunSentinel
<1>4. SubSeq(frames[s], 1, n) = frames[s]
  BY <1>2
<1>5. ASSUME NEW hc \in BOOLEAN, NEW hf \in BOOLEAN, TryEnter(s, hc, hf) PROVE SentinelInv'
  <2> DEFINE new == [phase |-> "try", hasCatch |-> hc, hasFin |-> hf,
                     pending |-> None, mydepth |-> JB_DEPTH]
  <2>1. new \in Frame /\ new.pending # GenExit
    BY NamesAssumption DEF Frame, IInv, TypeOK
  <2>2. /\ UNCHANGED <<RES, call, e>> /\ pc' = [pc EXCEPT ![s] = "run"]
        /\ frames' = [frames EXCEPT ![s] = Append(SubSeq(frames[s], 1, n), new)]
    BY <1>4, <1>5 DEF TryEnter, cellVars, Running, IInv, TypeOK
  <2>3. n \in 0 .. n
    BY <1>2
  <2> HIDE DEF new
  <2>. QED BY <2>1, <2>2, <2>3, <1>3
<1>6. ASSUME n > 0 PROVE fr \in Frame /\ n \in DOMAIN frames[s] /\ n - 1 \in 0 .. n
  BY <1>2, <1>6
<1>7. CASE ClauseDone(s)
  <2> DEFINE new == [fr EXCEPT !.phase = "fin"]
  <2>1. n > 0
    BY <1>2, <1>7 DEF ClauseDone
  <2>2. new \in Frame /\ new.pending = fr.pending
    BY <1>6, <2>1 DEF Frame
  <2>3. /\ UNCHANGED <<RES, call, e>> /\ pc' = [pc EXCEPT ![s] = "run"]
        /\ \/ frames' = [frames EXCEPT ![s] = SubSeq(frames[s], 1, n - 1)]
           \/ frames' = [frames EXCEPT ![s] = Append(SubSeq(frames[s], 1, n - 1), new)]
    BY <1>7 DEF ClauseDone, Innermost, Outer, cellVars, Running, IInv, TypeOK
  <2> HIDE DEF new
  <2>. QED BY <2>1, <2>2, <2>3, <1>3, <1>6
<1>8. ASSUME NEW ctl \in BOOLEAN, FinallyDone(s, ctl) PROVE SentinelInv'
  <2>1. n > 0
    BY <1>2, <1>8 DEF FinallyDone
  <2>2. /\ UNCHANGED <<RES, call, e>>
        /\ frames' = [frames EXCEPT ![s] = SubSeq(frames[s], 1, n - 1)]
    BY <1>8 DEF FinallyDone, Innermost, Outer, cellVars
  <2>3. PICK p \in {"run", "raise"} : /\ pc' = [pc EXCEPT ![s] = p]
                                      /\ p = "raise" => THROWN' = fr.pending
    BY <1>8 DEF FinallyDone, Innermost, Throw, Running, IInv, TypeOK
  <2>4. p = "raise" /\ THROWN' = GenExit => ClosedBy(s)
    BY <2>1, <2>3, <1>1, <1>6, HeldByRunner
  <2>. QED BY <2>1, <2>2, <2>3, <2>4, <1>3, <1>6
<1>9. CASE TryTooDeep(s) \/ Uncaught(s) \/ \E v \in UserVal : ThrowUser(s, v)
  <2>1. UNCHANGED <<RES, call, frames>> /\ \A g \in Gen : e[g] => e'[g]
    BY <1>9 DEF TryTooDeep, Uncaught, ThrowUser, cellVars
  <2>2. \/ UNCHANGED <<pc, THROWN>>
        \/ pc' = [pc EXCEPT ![s] = "raise"] /\ THROWN' # GenExit
    BY <1>9, NamesAssumption DEF TryTooDeep, Uncaught, ThrowUser, Throw, UserVal
  <2>. QED BY <2>1, <2>2, <1>1, PlainSentinel
<1>10. ASSUME Raising(s), Slot > 0
       PROVE  /\ JBP = s /\ Slot = n /\ n > 0 /\ Landing = fr
              /\ Below = SubSeq(frames[s], 1, n - 1)
              /\ THROWN = GenExit => ClosedBy(s)
              /\ THROWN \in Value
  BY <1>10, LandsInnermost DEF Below, Raising, SentinelInv, IInv, TypeOK
<1>11. CASE LandInCatch(s)
  <2> DEFINE new == [fr EXCEPT !.phase = "catch"]
  <2>1. Raising(s) /\ Slot > 0
    BY <1>11 DEF LandInCatch
  <2>2. new \in Frame /\ new.pending = fr.pending
    BY <1>6, <1>10, <2>1 DEF Frame
  <2>3. /\ UNCHANGED <<RES, call, e>> /\ pc' = [pc EXCEPT ![s] = "run"]
        /\ frames' = [frames EXCEPT ![s] = Append(SubSeq(frames[s], 1, n - 1), new)]
    BY <1>11, <1>10, <2>1 DEF LandInCatch, cellVars
  <2> HIDE DEF new
  <2>. QED BY <1>10, <2>1, <2>2, <2>3, <1>3, <1>6
<1>12. CASE LandInFinally(s)
  <2> DEFINE new == [fr EXCEPT !.phase = "fin", !.pending = THROWN]
  <2>1. Raising(s) /\ Slot > 0
    BY <1>12 DEF LandInFinally
  <2>2. new \in Frame /\ new.pending = THROWN
    BY <1>6, <1>10, <2>1 DEF Frame
  <2>3. /\ UNCHANGED <<RES, call, e>> /\ pc' = [pc EXCEPT ![s] = "run"]
        /\ frames' = [frames EXCEPT ![s] = Append(SubSeq(frames[s], 1, n - 1), new)]
    BY <1>12, <1>10, <2>1 DEF LandInFinally, cellVars
  <2> HIDE DEF new
  <2>. QED BY <1>10, <2>1, <2>2, <2>3, <1>3, <1>6
<1>13. CASE LandAndRethrow(s)
  <2>1. Raising(s) /\ Slot > 0
    BY <1>13 DEF LandAndRethrow
  <2>2. /\ UNCHANGED <<RES, call, e, THROWN>> /\ pc' = [pc EXCEPT ![s] = "raise"]
        /\ frames' = [frames EXCEPT ![s] = SubSeq(frames[s], 1, n - 1)]
    BY <1>13, <1>10, <2>1 DEF LandAndRethrow, cellVars, Raising, IInv, TypeOK
  <2>. QED BY <1>10, <2>1, <2>2, <1>3, <1>6
<1>. QED BY <1>5, <1>7, <1>8, <1>9, <1>11, <1>12, <1>13 DEF TryStep
\* The same of every running stack at once, in this state and the next.
LEMMA RunnersHold ==
  IInv => \A s \in Stack : Active(s) =>
            /\ ~HandedBack /\ ~HandedOver
            /\ pc[Target] # "wait" /\ s = Target
            /\ s \in Gen <=> RES # <<>>
  BY RunnerHolds

LEMMA RunnersHoldNext ==
  IInv' => \A s \in Stack : Active(s)' =>
             /\ ~HandedBack' /\ ~HandedOver'
             /\ pc'[Target'] # "wait" /\ s = Target'
             /\ s \in Gen <=> RES' # <<>>
<1>1. (IInv => \A s \in Stack : Active(s) =>
                 /\ ~HandedBack /\ ~HandedOver
                 /\ pc[Target] # "wait" /\ s = Target
                 /\ s \in Gen <=> RES # <<>>)'
  BY RunnersHold, PTL
<1>. QED BY <1>1

\* The state after a resume: the resumer on top of the waiting ones.
LEMMA Resumed ==
  ASSUME IInv, NEW s \in Stack, Running(s), NEW g \in Gen,
         NEW op \in {"next", "return", "throw"}, NEW sent \in UserVal, NEW val \in UserVal,
         GenResume(s, g, op, sent, val)
  PROVE  /\ Len(RES') = Len(RES) + 1 /\ DOMAIN RES' = 1 .. Len(RES) + 1
         /\ \A i \in 1 .. Len(RES) : RES'[i] = RES[i]
         /\ RES' # <<>> /\ RES'[Len(RES) + 1].lo = s /\ Resumer'.lo = s /\ Target' = g
         /\ call'[s] # None /\ call'[s].g = g /\ call'[s].op = op /\ call'[s].val = val
         /\ \A t \in Stack : t # s => call'[t] = call[t]
         /\ \A t \in Stack : pc'[t] = IF t = s THEN "wait"
                                      ELSE IF t = g /\ ~started[g] THEN "entry" ELSE pc[t]
         /\ \A h \in Gen : turn'[h] = IF h = g THEN 1 ELSE turn[h]
<1> DEFINE entry == [lo |-> s, hi |-> GC_STACK_BASE, jbp |-> JBP, jbd |-> JB_DEPTH]
           parks == [op |-> op, g |-> g, val |-> val,
                     gen |-> CUR_GEN, jbp |-> JBP, jbd |-> JB_DEPTH]
<1>1. Active(s) /\ pc[s] = "run"
  BY DEF Running, Active
<1>2. RES' = Append(RES, entry) /\ call' = [call EXCEPT ![s] = parks]
  BY DEF GenResume
<1>3. /\ entry \in [lo: Stack, hi: Stack, jbp: Stack, jbd: Nat] /\ entry.lo = s
      /\ RES \in Seq([lo: Stack, hi: Stack, jbp: Stack, jbd: Nat])
  BY DEF IInv, TypeOK
<1>4. parks # None /\ parks.g = g /\ parks.op = op /\ parks.val = val
  <2>1. parks \in Call
    BY DEF Call, IInv, TypeOK
  <2>. QED BY <2>1, NoneAssumption
<1>5. \A t \in Stack : call'[t] = IF t = s THEN parks ELSE call[t]
  BY <1>2 DEF IInv, TypeOK
<1> HIDE DEF entry, parks
<1>6. /\ Len(RES) \in Nat
      /\ Len(RES') = Len(RES) + 1 /\ DOMAIN RES' = 1 .. Len(RES) + 1
      /\ RES'[Len(RES) + 1] = entry
      /\ \A i \in 1 .. Len(RES) : RES'[i] = RES[i]
  BY <1>2, <1>3, Appended, Indices
<1>7. RES' # <<>> /\ Resumer' = entry
  BY <1>6 DEF Resumer
<1>8. Target' = g
  BY <1>3, <1>4, <1>5, <1>7 DEF Target
<1>9. started[s] \/ s \notin Gen
  BY <1>1 DEF IInv, CbInv
<1>10. \A t \in Stack : pc'[t] = IF t = s THEN "wait"
                                 ELSE IF t = g /\ ~started[g] THEN "entry" ELSE pc[t]
  BY <1>9 DEF GenResume, IInv, TypeOK, Stack
<1>11. \A h \in Gen : turn'[h] = IF h = g THEN 1 ELSE turn[h]
  BY DEF GenResume, IInv, TypeOK
<1>. QED BY <1>3, <1>4, <1>5, <1>6, <1>7, <1>8, <1>10, <1>11

LEMMA ResumeSentinel ==
  ASSUME IInv, SentinelInv, NEW s \in Stack, Running(s), NEW g \in Gen,
         NEW op \in {"next", "return", "throw"}, NEW sent \in UserVal, NEW val \in UserVal,
         GenResume(s, g, op, sent, val)
  PROVE  SentinelInv'
<1> DEFINE n == Len(RES)
<1>1. /\ Len(RES') = n + 1 /\ DOMAIN RES' = 1 .. n + 1
      /\ \A i \in 1 .. n : RES'[i] = RES[i]
      /\ Target' = g
      /\ \A t \in Stack : t # s => call'[t] = call[t]
      /\ \A t \in Stack : pc'[t] = IF t = s THEN "wait"
                                   ELSE IF t = g /\ ~started[g] THEN "entry" ELSE pc[t]
      /\ \A h \in Gen : turn'[h] = IF h = g THEN 1 ELSE turn[h]
  BY Resumed
<1>2. Active(s) /\ UNCHANGED <<frames, e>>
  BY DEF Running, Active, GenResume
<1>3. \A t \in Stack : pc'[t] # "raise"
  BY <1>1, <1>2, Runner DEF Active
<1>4. ~HandedBack'
  BY <1>1 DEF HandedBack
<1>5. ASSUME NEW t \in Stack, ClosedBy(t) PROVE ClosedBy(t)'
  <2>1. n \in Nat /\ DOMAIN RES = 1 .. n /\ \A i \in 1 .. n : RES[i].lo \in Stack
    BY ResEntries DEF IInv
  <2>2. PICK i \in 1 .. n : call[RES[i].lo].g = t /\ call[RES[i].lo].op = "return"
    BY <1>5, <2>1 DEF ClosedBy
  <2>3. RES[i].lo # s /\ RES[i].lo \in Stack
    BY <1>2, <2>1, <2>2 DEF IInv, ChainInv, Active
  <2>4. i \in DOMAIN RES' /\ i # Len(RES') /\ RES'[i] = RES[i] /\ call'[RES[i].lo] = call[RES[i].lo]
    BY <1>1, <2>1, <2>2, <2>3
  <2>. QED BY <2>2, <2>4 DEF ClosedBy
<1>6. \A t \in Stack : Ended(t) => Ended(t)'
  BY <1>2 DEF Ended
<1>. QED BY <1>2, <1>3, <1>4, <1>5, <1>6 DEF SentinelInv

\* The body s ends: what it hands back is the sentinel only if it was closed.
LEMMA EndSentinel ==
  ASSUME IInv, SentinelInv, NEW s \in Gen, NEW v, NEW thrown \in BOOLEAN, Active(s),
         CoroEnd(s, v, thrown), thrown /\ v = GenExit => ClosedBy(s)
  PROVE  SentinelInv'
<1>1. s \in Stack /\ CUR_GEN = s /\ s = Target /\ RES # <<>> /\ pc[Target] # "wait"
  BY Runner, RunnerHolds, NamesAssumption DEF Stack
<1>2. /\ \A t \in Stack : pc'[t] = IF t = s THEN "gone" ELSE pc[t]
      /\ \A t \in Stack : frames'[t] = IF t = s THEN <<>> ELSE frames[t]
      /\ threw'[s] = thrown /\ f'[s] = v
      /\ \A g \in Gen : e[g] => e'[g]
  BY <1>1 DEF CoroEnd, IInv, TypeOK
<1>3. UNCHANGED <<RES, call, Resumer, Target>>
  BY DEF CoroEnd, Resumer, Target
<1>4. \A t \in Stack : pc'[t] # "raise"
  BY <1>1, <1>2, Runner DEF Active
<1>5. \A t \in Stack : ClosedBy(t)' <=> ClosedBy(t)
  BY <1>2, <1>3, ClosedKept DEF Active
<1>6. \A t \in Stack : Ended(t) => Ended(t)'
  BY <1>2 DEF Ended
<1>7. threw'[Target'] /\ f'[Target'] = GenExit => call'[Resumer'.lo].op = "return"
  BY <1>1, <1>2, <1>3, ClosedTarget
<1>8. \A t \in Stack : \A i \in DOMAIN frames'[t] :
        frames'[t][i].pending = GenExit => Ended(t)' \/ ClosedBy(t)'
  BY <1>2, <1>5, <1>6 DEF SentinelInv
<1>. QED BY <1>4, <1>7, <1>8 DEF SentinelInv

LEMMA YieldSentinel ==
  ASSUME IInv, CellInv, SentinelInv, NEW s \in Stack, NEW v \in UserVal, Yield(s, v)
  PROVE  SentinelInv'
<1>1. Active(s) /\ s \in Gen /\ CUR_GEN = s /\ s = Target /\ turn[s] = 1
  <2>1. Active(s) /\ CUR_GEN # None
    BY DEF Yield, Running, Active
  <2>. QED BY <2>1, Runner DEF Stack
<1>2. /\ \A t \in Stack : pc'[t] = IF t = s THEN "parked" ELSE pc[t]
      /\ UNCHANGED <<RES, call, frames, e, threw, Target>>
  BY DEF Yield, Target, Resumer, IInv, TypeOK
<1>3. \A t \in Stack : pc'[t] # "raise"
  BY <1>1, <1>2, Runner DEF Active
<1>4. \A t \in Stack : ClosedBy(t)' <=> ClosedBy(t)
  BY <1>1, <1>2, ClosedKept DEF Active
<1>5. \A t \in Stack : Ended(t)' <=> Ended(t)
  BY <1>2 DEF Ended
<1>6. ~threw'[Target']
  BY <1>1, <1>2 DEF CellInv
<1>. QED BY <1>2, <1>3, <1>4, <1>5, <1>6 DEF SentinelInv

LEMMA BeginSentinel ==
  ASSUME IInv, SentinelInv, NEW g \in Gen, CoroBegin(g)
  PROVE  SentinelInv'
<1>1. \A t \in Stack : pc'[t] = IF t = g THEN "run" ELSE pc[t]
  BY DEF CoroBegin, IInv, TypeOK
<1>2. UNCHANGED <<RES, call, frames, e, threw, f, turn, THROWN, Target, Resumer, HandedBack>>
  BY DEF CoroBegin, cellVars, Target, Resumer, HandedBack
<1>3. \A t \in Stack : ClosedBy(t)' <=> ClosedBy(t)
  BY <1>1, <1>2, ClosedKept DEF CoroBegin
<1>4. \A t \in Stack : Ended(t)' <=> Ended(t)
  BY <1>2 DEF Ended
<1>. QED BY <1>1, <1>2, <1>3, <1>4 DEF SentinelInv

LEMMA WakeSentinel ==
  ASSUME IInv, FlagInv, ThrownInInv, SentinelInv, NEW g \in Gen, YieldWake(g)
  PROVE  SentinelInv'
<1>1. g = Target /\ RES # <<>> /\ pc[g] = "parked" /\ g \in Stack
  BY Ready, TargetIsAStack, NamesAssumption DEF YieldWake, Woken, Stack
<1>2. PICK p \in {"run", "raise"} : pc' = [pc EXCEPT ![g] = p]
  BY DEF YieldWake, Throw
<1>3. \A t \in Stack : pc'[t] = IF t = g THEN p ELSE pc[t]
  BY <1>2 DEF IInv, TypeOK
<1>4. UNCHANGED <<RES, call, frames, e, threw, f, turn, Target, Resumer, HandedBack>>
  BY DEF YieldWake, cellVars, Target, Resumer, HandedBack
<1>5. \A t \in Stack : ClosedBy(t)' <=> ClosedBy(t)
  BY <1>1, <1>3, <1>4, ClosedKept
<1>6. \A t \in Stack : Ended(t)' <=> Ended(t)
  BY <1>4 DEF Ended
<1>7. \A t \in Stack : pc[t] # "raise"
  BY <1>1, Runner DEF Active
<1>8. pc'[g] = "raise" /\ THROWN' = GenExit => ClosedBy(g)
  <2>1. CASE closing[g]
    BY <2>1, <1>1, ClosedTarget DEF FlagInv
  <2>2. CASE ~closing[g] /\ throwin[g]
    BY <2>2 DEF YieldWake, Throw, ThrownInInv
  <2>3. CASE ~closing[g] /\ ~throwin[g]
    <3>1. pc' = [pc EXCEPT ![g] = "run"]
      BY <2>3 DEF YieldWake
    <3>. QED BY <3>1, <1>1 DEF IInv, TypeOK
  <2>. QED BY <2>1, <2>2, <2>3
<1>. QED BY <1>3, <1>4, <1>5, <1>6, <1>7, <1>8 DEF SentinelInv
\* The state in which a resumer takes the control back, and the one after.
LEMMA TakenBack ==
  ASSUME IInv, IInv', NEW s \in Stack, ResumerWake(s)
  PROVE  /\ HandedBack /\ Resumer.lo = s /\ Target = call[s].g
         /\ call[s] \in Call /\ call[s] # None /\ turn[Target] = 0 /\ Target \in Gen
         /\ Target # s /\ pc[Target] \in {"parked", "gone"}
         /\ Len(RES) > 0 /\ Len(RES) \in Nat /\ DOMAIN RES = 1 .. Len(RES)
         /\ Len(RES') = Len(RES) - 1 /\ DOMAIN RES' = 1 .. Len(RES) - 1
         /\ \A i \in 1 .. Len(RES) - 1 : RES'[i] = RES[i] /\ RES[i].lo \in Stack /\ RES[i].lo # s
         /\ RES[Len(RES)].lo = s
         /\ \A t \in Stack : call'[t] = IF t = s THEN None ELSE call[t]
         /\ \A t \in Stack : t # s => pc'[t] = pc[t]
         /\ Active(s)' /\ Target' = s /\ ~HandedBack' /\ ~HandedOver'
<1>1. pc[s] = "wait" /\ ResumerReady(s)
  BY DEF ResumerWake, ResumerReady
<1>2. /\ RES # <<>> /\ Resumer.lo = s /\ Target = call[s].g /\ call[s] \in Call
      /\ turn[Target] = 0
  BY <1>1, WokenIsInnermost DEF ResumerReady
<1>3. Target \in Gen
  BY <1>2, TargetIsAStack
<1>4. Target # s /\ pc[Target] \in {"parked", "gone"}
  BY <1>1, <1>2, <1>3 DEF IInv, SchedInv
<1>5. /\ Len(RES) \in Nat /\ DOMAIN RES = 1 .. Len(RES) /\ Len(RES) > 0
      /\ \A i \in 1 .. Len(RES) : RES[i].lo \in Stack
  BY <1>2, ResEntries DEF IInv
<1>6. RES[Len(RES)].lo = s
  BY <1>2 DEF Resumer
<1>7. \A i \in 1 .. Len(RES) - 1 : RES[i].lo # s
  <2> DEFINE n == Len(RES)
  <2>1. n \in Nat /\ n > 0 /\ DOMAIN RES = 1 .. n /\ RES[n].lo = s
    BY <1>5, <1>6
  <2> HIDE DEF n
  <2>2. \A i \in 1 .. n - 1 : i \in DOMAIN RES /\ i # n /\ n \in DOMAIN RES
    BY <2>1
  <2>3. \A i \in 1 .. n - 1 : RES[i].lo # s
    BY <2>1, <2>2 DEF IInv, ChainInv
  <2>. QED BY <2>3 DEF n
<1>8. /\ Len(RES') = Len(RES) - 1 /\ DOMAIN RES' = 1 .. Len(RES) - 1
      /\ \A i \in 1 .. Len(RES) - 1 : RES'[i] = RES[i]
  <2> DEFINE n == Len(RES)
  <2>1. RES \in Seq([lo: Stack, hi: Stack, jbp: Stack, jbd: Nat]) /\ n \in Nat /\ n > 0
    BY <1>5 DEF IInv, TypeOK
  <2>2. RES' = SubSeq(RES, 1, n - 1)
    BY DEF ResumerWake
  <2>3. n - 1 \in 0 .. n
    <3> HIDE DEF n
    <3>. QED BY <2>1
  <2>. QED BY <2>1, <2>2, <2>3, Prefix
<1>9. PICK p \in {"run", "raise"} : pc' = [pc EXCEPT ![s] = p]
  BY DEF ResumerWake, Throw
<1>10. \A t \in Stack : pc'[t] = IF t = s THEN p ELSE pc[t]
  BY <1>9 DEF IInv, TypeOK
<1>11. \A t \in Stack : call'[t] = IF t = s THEN None ELSE call[t]
  BY DEF ResumerWake, IInv, TypeOK
<1>12. Active(s)'
  BY <1>10 DEF Active
<1>13. Target' = s /\ ~HandedBack' /\ ~HandedOver'
  BY <1>12, RunnersHoldNext
<1>14. HandedBack /\ call[s] # None
  BY <1>1, <1>2 DEF HandedBack, IInv, ChainInv
<1>. QED BY <1>2, <1>3, <1>4, <1>5, <1>6, <1>7, <1>8, <1>10, <1>11, <1>12, <1>13, <1>14

LEMMA BackSentinel ==
  ASSUME IInv, IInv', CellInv, SentinelInv, NEW s \in Stack, ResumerWake(s)
  PROVE  SentinelInv'
<1> DEFINE g == call[s].g
           n == Len(RES)
<1>1. /\ HandedBack /\ Resumer.lo = s /\ Target = g /\ g \in Gen /\ g # s
      /\ turn[g] = 0 /\ pc[g] \in {"parked", "gone"}
      /\ n > 0 /\ n \in Nat /\ DOMAIN RES = 1 .. n
      /\ Len(RES') = n - 1 /\ DOMAIN RES' = 1 .. n - 1
      /\ \A i \in 1 .. n - 1 : RES'[i] = RES[i] /\ RES[i].lo \in Stack /\ RES[i].lo # s
      /\ RES[n].lo = s
      /\ \A t \in Stack : call'[t] = IF t = s THEN None ELSE call[t]
      /\ \A t \in Stack : t # s => pc'[t] = pc[t]
      /\ Active(s)' /\ Target' = s /\ ~HandedBack'
  BY TakenBack
<1>2. /\ UNCHANGED frames
      /\ \A h \in Gen : e[h] => e'[h]
      /\ CloseCompletes(s) => e'[g]
  <2>1. UNCHANGED frames /\ (IF CloseCompletes(s) THEN e' = [e EXCEPT ![g] = TRUE] ELSE e' = e)
    BY DEF ResumerWake
  <2>2. e \in [Gen -> BOOLEAN] /\ g \in Gen
    BY <1>1 DEF IInv, TypeOK
  <2> HIDE DEF g
  <2>. QED BY <2>1, <2>2
<1>3. \A t \in Stack : t # s => pc'[t] # "raise"
  <2>1. SUFFICES ASSUME NEW t \in Stack, t # s, pc[t] = "raise" PROVE FALSE
    BY <1>1
  <2>. QED BY <2>1, <1>1, RunnersHold DEF Active
<1>4. ~(pc'[s] = "raise" /\ THROWN' = GenExit)
  <2>1. SUFFICES ASSUME pc'[s] = "raise", THROWN' = GenExit PROVE FALSE
    OBVIOUS
  <2>2. Outcome(s).kind = "raise" /\ THROWN' = Outcome(s).val
    <3>1. Outcome(s).kind # "raise" => pc' = [pc EXCEPT ![s] = "run"]
      BY DEF ResumerWake
    <3>2. Outcome(s).kind = "raise"
      BY <3>1, <2>1 DEF IInv, TypeOK
    <3>. QED BY <3>2 DEF ResumerWake, Throw
  <2>3. ~CloseCompletes(s) /\ threw[g] /\ f[g] = GenExit
    BY <2>1, <2>2 DEF Outcome, Answer
  <2>4. call[s].op = "return"
    BY <2>3, <1>1 DEF SentinelInv
  <2>. QED BY <2>3, <2>4 DEF CloseCompletes
<1>5. ASSUME NEW t \in Stack, ClosedBy(t) PROVE Ended(t)' \/ ClosedBy(t)'
  <2>1. PICK i \in 1 .. n : /\ call[RES[i].lo].g = t /\ call[RES[i].lo].op = "return"
                            /\ i = n => pc[t] # "wait"
    BY <1>1, <1>5 DEF ClosedBy
  <2>2. CASE i = n
    <3>1. t = g /\ call[s].op = "return"
      BY <2>1, <2>2, <1>1
    <3>2. e'[g]
      <4>1. CASE CloseCompletes(s)
        BY <4>1, <1>2
      <4>2. CASE ~CloseCompletes(s)
        <5>1. threw[g]
          BY <4>2, <3>1 DEF CloseCompletes
        <5>. QED BY <5>1, <1>1, <1>2 DEF CellInv
      <4>. QED BY <4>1, <4>2
    <3>. QED BY <3>1, <3>2, <1>1 DEF Ended
  <2>3. CASE i # n
    <3>1. i \in 1 .. n - 1
      <4>1. n \in Nat /\ i \in 1 .. n /\ i # n
        BY <2>3, <1>1
      <4> HIDE DEF n
      <4>. QED BY <4>1
    <3>2. i \in DOMAIN RES' /\ RES'[i] = RES[i] /\ call'[RES[i].lo] = call[RES[i].lo]
      BY <3>1, <1>1
    <3>3. i = n - 1 => t = s
      <4>1. SUFFICES ASSUME i = n - 1 PROVE call[RES[i].lo].g = RES[n].lo
        BY <2>1, <1>1
      <4>2. i \in DOMAIN RES /\ i # Len(RES) /\ i + 1 = n
        BY <4>1, <3>1, <1>1
      <4>. QED BY <4>2 DEF IInv, ChainInv
    <3>4. i = Len(RES') => pc'[t] # "wait"
      BY <3>3, <1>1 DEF Active
    <3>. QED BY <2>1, <3>2, <3>4 DEF ClosedBy
  <2>. QED BY <2>2, <2>3
<1>6. \A t \in Stack : Ended(t) => Ended(t)'
  BY <1>2 DEF Ended
<1>7. \A t \in Stack : \A i \in DOMAIN frames'[t] :
        frames'[t][i].pending = GenExit => Ended(t)' \/ ClosedBy(t)'
  BY <1>2, <1>5, <1>6 DEF SentinelInv
<1>. QED BY <1>1, <1>3, <1>4, <1>7 DEF SentinelInv

LEMMA SentinelStep ==
  IInv /\ IInv' /\ FlagInv /\ ThrownInInv /\ CellInv /\ SentinelInv /\ [Next]_vars => SentinelInv'
<1> SUFFICES ASSUME IInv, IInv', FlagInv, ThrownInInv, CellInv, SentinelInv, [Next]_vars
             PROVE  SentinelInv'
  OBVIOUS
<1>1. ASSUME NEW s \in Stack, TryStep(s) PROVE SentinelInv'
  BY <1>1, TrySentinel
<1>2. ASSUME NEW s \in Stack, OwnStep(s) PROVE SentinelInv'
  <2>1. ASSUME NEW g \in Gen, GenCreate(s, g) \/ NextDone(s, g) PROVE SentinelInv'
    BY <2>1, PlainSentinel DEF GenCreate, NextDone, cellVars, Running, Active
  <2>2. ASSUME NEW v \in UserVal, CoroReturn(s, v) PROVE SentinelInv'
    BY <2>2, EndSentinel DEF CoroReturn, Running, Active
  <2>3. ASSUME NEW v \in UserVal, Yield(s, v) PROVE SentinelInv'
    BY <2>3, YieldSentinel
  <2>4. CASE CoroThrow(s)
    <3>1. s \in Gen /\ Active(s) /\ CoroEnd(s, THROWN, TRUE) /\ (THROWN = GenExit => ClosedBy(s))
      BY <2>4 DEF CoroThrow, Raising, Active, SentinelInv
    <3>. QED BY <3>1, EndSentinel
  <2>5. CASE YieldOutside(s)
    BY <2>5, PlainSentinel DEF YieldOutside, cellVars, Running, Active
  <2>. QED BY <1>2, <2>1, <2>2, <2>3, <2>4, <2>5 DEF OwnStep
<1>3. ASSUME NEW s \in Stack, NEW g \in Gen, NEW v \in UserVal,
             NextResume(s, g, v) \/ ReturnResume(s, g, v) \/ ThrowResume(s, g, v)
      PROVE  SentinelInv'
  <2>1. Running(s) /\ Undef \in UserVal
    BY <1>3 DEF NextResume, ReturnResume, ThrowResume, UserVal
  <2>2. PICK op \in {"next", "return", "throw"}, sent \in UserVal : GenResume(s, g, op, sent, v)
    BY <1>3, <2>1 DEF NextResume, ReturnResume, ThrowResume
  <2>. QED BY <2>1, <2>2, ResumeSentinel
<1>4. ASSUME NEW s \in Stack, NEW g \in Gen, NEW v \in UserVal,
             ReturnAtOnce(s, g, v) \/ ThrowAtOnce(s, g, v)
      PROVE  SentinelInv'
  <2>1. UNCHANGED <<RES, call, frames>> /\ Active(s) /\ \A h \in Gen : e[h] => e'[h]
    BY <1>4 DEF ReturnAtOnce, ThrowAtOnce, Running, Active, IInv, TypeOK
  <2>2. \/ UNCHANGED <<pc, THROWN>>
        \/ pc' = [pc EXCEPT ![s] = "raise"] /\ THROWN' # GenExit
    BY <1>4, NamesAssumption DEF ReturnAtOnce, ThrowAtOnce, Throw, UserVal
  <2>. QED BY <2>1, <2>2, PlainSentinel
<1>5. ASSUME NEW g \in Gen, CoroBegin(g) \/ YieldWake(g) PROVE SentinelInv'
  BY <1>5, BeginSentinel, WakeSentinel
<1>6. ASSUME NEW s \in Stack, ResumerWake(s) PROVE SentinelInv'
  BY <1>6, BackSentinel
<1>7. CASE MainReturn
  BY <1>7, PlainSentinel DEF MainReturn, cellVars, Running, Active, Stack
<1>8. CASE UNCHANGED vars
  BY <1>8 DEF vars, cellVars, cbVars, SentinelInv, ClosedBy, Ended, HandedBack, Target, Resumer
<1>. QED BY <1>1, <1>2, <1>3, <1>4, <1>5, <1>6, <1>7, <1>8 DEF Next, ResumeStep, Wake

LEMMA ThrownInStep == IInv /\ FlagInv /\ ThrownInInv /\ [Next]_vars => ThrownInInv'
<1> SUFFICES ASSUME IInv, FlagInv, ThrownInInv, [Next]_vars PROVE ThrownInInv'
  OBVIOUS
<1>1. CASE UNCHANGED throwin /\ \E s \in Stack : Active(s)
  BY <1>1, NoFlags DEF ThrownInInv
<1>2. CASE UNCHANGED f /\ \A g \in Gen : throwin'[g] => throwin[g]
  BY <1>2 DEF ThrownInInv
<1>3. ASSUME NEW s \in Stack, TryStep(s) PROVE UNCHANGED <<throwin, f>>
  BY <1>3 DEF TryStep, TryEnter, TryTooDeep, ClauseDone, FinallyDone, ThrowUser, LandInCatch,
              LandInFinally, LandAndRethrow, Uncaught, cbVars, cellVars
<1>4. ASSUME NEW s \in Stack, OwnStep(s) PROVE UNCHANGED throwin /\ Active(s)
  BY <1>4 DEF OwnStep, GenCreate, NextDone, CoroReturn, CoroThrow, CoroEnd, Yield, YieldOutside,
              Running, Raising, Active, cbVars
<1>5. ASSUME NEW s \in Stack, NEW g \in Gen, NEW v \in UserVal,
             \/ NextResume(s, g, v) \/ ReturnResume(s, g, v)
             \/ ReturnAtOnce(s, g, v) \/ ThrowAtOnce(s, g, v)
      PROVE  UNCHANGED throwin /\ Active(s)
  BY <1>5 DEF NextResume, ReturnResume, ReturnAtOnce, ThrowAtOnce, Running, Active, cbVars
<1>6. ASSUME NEW s \in Stack, NEW g \in Gen, NEW v \in UserVal, ThrowResume(s, g, v)
      PROVE  ThrownInInv'
  <2>1. \A h \in Gen : ~throwin[h]
    BY <1>6, NoFlags DEF ThrowResume, Running, Active
  <2>2. throwin' = [throwin EXCEPT ![g] = TRUE] /\ f' = [f EXCEPT ![g] = v] /\ v # GenExit
    BY <1>6, NamesAssumption DEF ThrowResume, GenResume, UserVal
  <2>3. \A h \in Gen : throwin'[h] => h = g
    BY <2>1, <2>2 DEF IInv, TypeOK
  <2>4. f'[g] = v
    BY <2>2 DEF IInv, TypeOK
  <2>. QED BY <2>2, <2>3, <2>4 DEF ThrownInInv
<1>7. ASSUME NEW g \in Gen, CoroBegin(g) \/ YieldWake(g) PROVE ThrownInInv'
  BY <1>7, <1>2 DEF CoroBegin, YieldWake, ClearFlag, cellVars, IInv, TypeOK
<1>8. ASSUME NEW s \in Stack, ResumerWake(s) PROVE ThrownInInv'
  <2>1. Target = call[s].g /\ turn[call[s].g] = 0
    BY <1>8, WokenIsInnermost DEF ResumerWake, ResumerReady
  <2>2. \A h \in Gen : ~throwin[h]
    BY <2>1 DEF FlagInv
  <2>. QED BY <1>8, <2>2 DEF ResumerWake, ThrownInInv
<1>9. CASE MainReturn \/ UNCHANGED vars
  BY <1>9, <1>2 DEF MainReturn, vars, cellVars, cbVars
<1>. QED BY <1>1, <1>2, <1>3, <1>4, <1>5, <1>6, <1>7, <1>8, <1>9 DEF Next, ResumeStep, Wake

LEMMA ProtInvariance == Spec => []ProtInv
<1>1. Init => CellInv /\ SentinelInv /\ ThrownInInv
  <2> SUFFICES ASSUME Init PROVE CellInv /\ SentinelInv /\ ThrownInInv
    OBVIOUS
  <2>1. CellInv /\ ThrownInInv
    BY DEF Init, CellInv, ThrownInInv
  <2>2. \A s \in Stack : pc[s] # "raise" /\ frames[s] = <<>>
    BY DEF Init
  <2>3. ~HandedBack
    BY DEF Init, HandedBack
  <2>. QED BY <2>1, <2>2, <2>3 DEF SentinelInv
<1>2. IInv /\ IInv' /\ FlagInv /\ CellInv /\ SentinelInv /\ ThrownInInv /\ [Next]_vars
        => CellInv' /\ SentinelInv' /\ ThrownInInv'
  BY CellStep, SentinelStep, ThrownInStep
<1>3. FlagInv /\ CellInv /\ SentinelInv /\ ThrownInInv <=> ProtInv
  BY DEF ProtInv
<1>. QED BY <1>1, <1>2, <1>3, Invariance, FlagInvariance, PTL DEF Spec
-----------------------------------------------------------------------------
(* The protocol as the floor implements it: GenFloorProps maps the state.  *)

MStatus == [g \in Gen |-> StatusOf(g)]
MChain == IF HandedBack \/ pc[Target] = "wait" THEN Parked ELSE Append(Parked, Target)
MCall == [s \in Stack |-> CallOf(s)]

\* The mapped state while a stack runs: nothing is on its way between stacks.
PlainStatus(g) ==
  IF g \notin made THEN "none"
  ELSE IF e[g] THEN "done"
  ELSE IF ~started[g] THEN "fresh"
  ELSE IF turn[g] = 1 THEN "running" ELSE "suspended"
PlainCall(t) ==
  IF call[t] = None THEN None ELSE [op |-> call[t].op, g |-> call[t].g, val |-> call[t].val]

LEMMA ParkedStacks ==
  ASSUME IInv
  PROVE  /\ Parked \in Seq(Stack) /\ Len(Parked) = Len(RES) /\ Len(RES) \in Nat
         /\ \A i \in 1 .. Len(RES) : Parked[i] = RES[i].lo
         /\ RES # <<>> => Parked[Len(RES)] = Resumer.lo
<1> DEFINE n == Len(RES)
<1>1. n \in Nat /\ DOMAIN RES = 1 .. n /\ (RES # <<>> <=> n > 0)
      /\ \A i \in 1 .. n : RES[i].lo \in Stack
  BY ResEntries DEF IInv
<1>2. Parked = [i \in 1 .. n |-> RES[i].lo]
  BY <1>1 DEF Parked
<1> HIDE DEF n
<1>3. Parked \in Seq(Stack) /\ Len(Parked) = n
  BY <1>1, <1>2
<1>4. \A i \in 1 .. n : Parked[i] = RES[i].lo
  BY <1>2
<1>5. RES # <<>> => Parked[n] = Resumer.lo
  BY <1>1, <1>4 DEF Resumer, n
<1>. QED BY <1>1, <1>3, <1>4, <1>5 DEF n

LEMMA RunView ==
  IInv => \A s \in Stack : Active(s) =>
    /\ MChain = Append(Parked, s)
    /\ AnsOf = ans
    /\ MCall = [t \in Stack |-> PlainCall(t)]
    /\ MStatus = [g \in Gen |-> PlainStatus(g)]
    /\ MCall[s] = None
<1> SUFFICES ASSUME IInv, NEW s \in Stack, Active(s)
             PROVE  /\ MChain = Append(Parked, s)
                    /\ AnsOf = ans
                    /\ MCall = [t \in Stack |-> PlainCall(t)]
                    /\ MStatus = [g \in Gen |-> PlainStatus(g)]
                    /\ MCall[s] = None
  OBVIOUS
<1>1. ~HandedBack /\ ~HandedOver /\ pc[Target] # "wait" /\ s = Target
  BY RunnersHold
<1>2. MChain = Append(Parked, s) /\ AnsOf = ans
  BY <1>1 DEF MChain, AnsOf
<1>3. ASSUME NEW t \in Stack PROVE CallOf(t) = PlainCall(t)
  BY <1>1 DEF CallOf, PlainCall
<1>4. ASSUME NEW g \in Gen PROVE StatusOf(g) = PlainStatus(g)
  BY <1>1 DEF StatusOf, PlainStatus
<1>5. call[s] = None
  BY <1>1 DEF IInv, ChainInv
<1>. QED BY <1>2, <1>3, <1>4, <1>5 DEF MCall, MStatus, PlainCall

LEMMA RunViewNext ==
  IInv' => \A s \in Stack : Active(s)' =>
    /\ MChain' = Append(Parked', s)
    /\ AnsOf' = ans'
    /\ MCall' = [t \in Stack |-> PlainCall(t)']
    /\ MStatus' = [g \in Gen |-> PlainStatus(g)']
    /\ MCall'[s] = None
<1>1. (IInv => \A s \in Stack : Active(s) =>
        /\ MChain = Append(Parked, s)
        /\ AnsOf = ans
        /\ MCall = [t \in Stack |-> PlainCall(t)]
        /\ MStatus = [g \in Gen |-> PlainStatus(g)]
        /\ MCall[s] = None)'
  BY RunView, PTL
<1>. QED BY <1>1

\* The activation on top of the chain is the stack that runs.
LEMMA TopRuns ==
  ASSUME IInv, NEW s \in Stack, Active(s), proc = "live"
  PROVE  Protocol!Able /\ Protocol!Top = s
         /\ Len(MChain) = Len(RES) + 1 /\ MChain \in Seq(Stack)
<1>1. Parked \in Seq(Stack) /\ Len(Parked) = Len(RES) /\ Len(RES) \in Nat
  BY ParkedStacks
<1>2. MChain = Append(Parked, s) /\ MCall[s] = None
  BY RunView
<1>3. /\ MChain \in Seq(Stack) /\ Len(MChain) = Len(RES) + 1
      /\ MChain[Len(MChain)] = s
  BY <1>1, <1>2, Appended
<1>4. Protocol!Top = MChain[Len(MChain)]
  BY DEF Protocol!Top, MChain
<1>5. Protocol!Top = s
  BY <1>3, <1>4
<1>6. Protocol!Able <=> ~(proc = "exited") /\ MCall[Protocol!Top] = None
  BY DEF Protocol!Able, MCall
<1>. QED BY <1>2, <1>3, <1>5, <1>6

LEMMA Computes ==
  ASSUME IInv, IInv', NEW s \in Stack, Active(s), Active(s)',
         proc = "live", proc' = "live", ans' = None,
         UNCHANGED <<RES, call, made, e, started, turn>>
  PROVE  Protocol!Compute
<1>1. Parked' = Parked
  BY DEF Parked
<1>2. MChain' = MChain
  BY <1>1, RunView, RunViewNext
<1>3. MCall' = MCall
  BY RunView, RunViewNext DEF PlainCall
<1>4. MStatus' = MStatus
  BY RunView, RunViewNext DEF PlainStatus
<1>5. AnsOf' = None
  BY RunViewNext
<1>6. Protocol!Able
  BY TopRuns
<1>. QED BY <1>2, <1>3, <1>4, <1>5, <1>6 DEF Protocol!Compute, MChain, MCall, MStatus
LEMMA Exits ==
  ASSUME IInv, IInv', NEW s \in Stack, Active(s), Active(s)',
         proc = "live", proc' = "exited", ans' = None,
         UNCHANGED <<RES, call, made, e, started, turn>>
  PROVE  Protocol!End
<1>1. Parked' = Parked
  BY DEF Parked
<1>2. MChain' = MChain
  BY <1>1, RunView, RunViewNext
<1>3. MCall' = MCall
  BY RunView, RunViewNext DEF PlainCall
<1>4. MStatus' = MStatus
  BY RunView, RunViewNext DEF PlainStatus
<1>5. AnsOf' = None
  BY RunViewNext
<1>6. Protocol!Able
  BY TopRuns
<1>. QED BY <1>2, <1>3, <1>4, <1>5, <1>6 DEF Protocol!End, MChain, MCall, MStatus

\* What happens inside an activation is its own.
LEMMA TryMaps ==
  ASSUME IInv, IInv', NEW s \in Stack, TryStep(s)
  PROVE  Protocol!Compute \/ Protocol!End
<1>1. /\ Active(s) /\ proc = "live" /\ ans' = None
      /\ UNCHANGED <<RES, call, made, e, started, turn>>
  BY DEF TryStep, TryEnter, TryTooDeep, ClauseDone, FinallyDone, ThrowUser, LandInCatch,
         LandInFinally, LandAndRethrow, Uncaught, Running, Raising, Active, cellVars, cbVars
<1>2. CASE TryTooDeep(s) \/ Uncaught(s)
  <2>1. Active(s)' /\ proc' = "exited"
    BY <1>1, <1>2 DEF TryTooDeep, Uncaught, Active
  <2>. QED BY <1>1, <2>1, Exits
<1>3. CASE ~(TryTooDeep(s) \/ Uncaught(s))
  <2>1. proc' = "live" /\ (UNCHANGED pc \/ \E p \in {"run", "raise"} : pc' = [pc EXCEPT ![s] = p])
    BY <1>1, <1>3 DEF TryStep, TryEnter, ClauseDone, FinallyDone, ThrowUser, LandInCatch,
                      LandInFinally, LandAndRethrow, Throw
  <2>2. Active(s)'
    BY <1>1, <2>1 DEF Active, IInv, TypeOK
  <2>. QED BY <1>1, <2>1, <2>2, Computes
<1>. QED BY <1>2, <1>3

LEMMA CreateMaps ==
  ASSUME IInv, IInv', CellInv, NEW s \in Stack, NEW g \in Gen, GenCreate(s, g)
  PROVE  Protocol!Create(g)
<1>1. Active(s) /\ Active(s)' /\ proc = "live" /\ proc' = "live"
  BY DEF GenCreate, Running, Active
<1>2. UNCHANGED <<RES, call, e, started, turn>> /\ made' = made \cup {g} /\ ans' = None
  BY DEF GenCreate, cbVars
<1>3. MChain' = MChain /\ MCall' = MCall /\ AnsOf' = None
  BY <1>1, <1>2, RunView, RunViewNext DEF PlainCall, Parked
<1>4. g \notin made /\ ~e[g] /\ ~started[g]
  BY DEF GenCreate, CellInv
<1>5. MStatus = [h \in Gen |-> PlainStatus(h)] /\ MStatus' = [h \in Gen |-> PlainStatus(h)']
  BY <1>1, RunView, RunViewNext
<1>6. PlainStatus(g) = "none" /\ PlainStatus(g)' = "fresh"
  BY <1>2, <1>4 DEF PlainStatus
<1>7. \A h \in Gen : h # g => PlainStatus(h)' = PlainStatus(h)
  BY <1>2 DEF PlainStatus
<1>8. MStatus[g] = "none" /\ MStatus' = [MStatus EXCEPT ![g] = "fresh"]
  BY <1>5, <1>6, <1>7
<1>9. Protocol!Able
  BY <1>1, TopRuns
<1>. QED BY <1>1, <1>3, <1>8, <1>9 DEF Protocol!Create, MChain, MCall, MStatus

\* An operation that runs no body.
LEMMA AtOnceMaps ==
  ASSUME IInv, IInv', NEW s \in Stack, NEW g \in Gen, NEW op, NEW v, Active(s), Active(s)',
         proc = "live", proc' = "live", UNCHANGED <<RES, call, made, started, turn>>,
         g \in made, e[g] \/ (~started[g] /\ op # "next"),
         e' = [e EXCEPT ![g] = TRUE],
         ans' = CASE op = "next"   -> Protocol!Answer(s, "done", Undef)
                  [] op = "return" -> Protocol!Answer(s, "done", v)
                  [] op = "throw"  -> Protocol!Answer(s, "raise", v)
  PROVE  Protocol!AtOnce(g, op, v)
<1>1. MChain' = MChain /\ MCall' = MCall /\ AnsOf' = ans'
  BY RunView, RunViewNext DEF PlainCall, Parked
<1>2. MStatus = [h \in Gen |-> PlainStatus(h)] /\ MStatus' = [h \in Gen |-> PlainStatus(h)']
  BY RunView, RunViewNext
<1>3. \A h \in Gen : e'[h] = IF h = g THEN TRUE ELSE e[h]
  BY DEF IInv, TypeOK
<1>4. PlainStatus(g)' = "done" /\ (PlainStatus(g) = "done" \/ (PlainStatus(g) = "fresh" /\ op # "next"))
  BY <1>3 DEF PlainStatus
<1>5. \A h \in Gen : h # g => PlainStatus(h)' = PlainStatus(h)
  BY <1>3 DEF PlainStatus
<1>6. /\ MStatus[g] = "done" \/ (MStatus[g] = "fresh" /\ op # "next")
      /\ MStatus' = [MStatus EXCEPT ![g] = "done"]
  BY <1>2, <1>4, <1>5
<1>7. Protocol!Able /\ Protocol!Top = s
  BY TopRuns
<1>. QED BY <1>1, <1>6, <1>7 DEF Protocol!AtOnce, MChain, MCall, MStatus

LEMMA Fronts ==
  ASSUME NEW S, NEW q \in Seq(S), NEW x \in S
  PROVE  SubSeq(Append(q, x), 1, Len(q)) = q
<1>1. Append(q, x) \in Seq(S) /\ Len(Append(q, x)) = Len(q) + 1 /\ Len(q) \in Nat
      /\ \A i \in 1 .. Len(q) : Append(q, x)[i] = q[i]
  BY Appended, Indices
<1>2. Len(q) \in 0 .. Len(Append(q, x))
  BY <1>1
<1>3. /\ SubSeq(Append(q, x), 1, Len(q)) \in Seq(S)
      /\ Len(SubSeq(Append(q, x), 1, Len(q))) = Len(q)
      /\ \A i \in 1 .. Len(q) : SubSeq(Append(q, x), 1, Len(q))[i] = Append(q, x)[i]
  BY <1>1, <1>2, Prefix
<1>. QED BY <1>1, <1>3

\* The generator that runs hands back: the activation below it gets the answer.
LEMMA HandsBack ==
  ASSUME IInv, IInv', NEW s \in Gen, Active(s), proc = "live", proc' = "live",
         UNCHANGED <<RES, call, made, started>>, started[s], s \in made,
         turn' = [turn EXCEPT ![s] = 0], \A h \in Gen : h # s => e'[h] = e[h],
         NEW q \in {"parked", "gone"}, pc' = [pc EXCEPT ![s] = q],
         NEW st, st = IF e'[s] \/ call[Resumer.lo].op = "return" THEN "done" ELSE "suspended",
         NEW a, a = Outcome(Resumer.lo)', a.to = Resumer.lo
  PROVE  /\ Protocol!Able /\ Len(MChain) > 1 /\ Protocol!Caller = Resumer.lo
         /\ MCall[Resumer.lo].op = call[Resumer.lo].op
         /\ MCall[Resumer.lo].val = call[Resumer.lo].val
         /\ Protocol!Back(st, a)
<1> DEFINE r == Resumer.lo
           n == Len(RES)
<1>1. s \in Stack /\ s = Target /\ RES # <<>> /\ pc[Target] # "wait"
  BY RunnersHold DEF Stack
<1>2. UNCHANGED <<Target, Resumer, Parked>>
  BY DEF Target, Resumer, Parked
<1>3. \A h \in Gen : turn'[h] = IF h = s THEN 0 ELSE turn[h]
  BY DEF IInv, TypeOK
<1>4. HandedBack' /\ AnsOf' = a
  <2>1. HandedBack'
    BY <1>1, <1>2, <1>3 DEF HandedBack
  <2>2. ~HandedOver'
    BY <1>1, <1>2, <1>3 DEF HandedOver, CoroReady
  <2>. QED BY <2>1, <2>2 DEF AnsOf
<1>5. /\ Parked \in Seq(Stack) /\ Len(Parked) = n /\ n \in Nat /\ n > 0
      /\ Parked[n] = r
  BY <1>1, ParkedStacks, ResEntries DEF IInv
<1>6. MChain = Append(Parked, s)
  BY <1>1, RunView
<1>7. /\ Len(MChain) = n + 1 /\ MChain[n] = r /\ MChain[n + 1] = s
      /\ SubSeq(MChain, 1, n) = Parked
  BY <1>1, <1>5, <1>6, Appended, Fronts
<1>8. MChain' = SubSeq(MChain, 1, Len(MChain) - 1) /\ Protocol!Caller = r /\ Len(MChain) > 1
  <2>1. MChain' = Parked
    BY <1>2, <1>4 DEF MChain
  <2>2. Protocol!Caller = MChain[Len(MChain) - 1]
    BY DEF Protocol!Caller, MChain
  <2> HIDE DEF n
  <2>3. Len(MChain) - 1 = n /\ Len(MChain) > 1
    BY <1>5, <1>7
  <2>. QED BY <1>7, <2>1, <2>2, <2>3
<1>9. r \in Stack /\ call[r] # None
  BY <1>1, TargetIsAStack DEF IInv, ChainInv
<1>10. MCall = [t \in Stack |-> PlainCall(t)] /\ MStatus = [g \in Gen |-> PlainStatus(g)]
  BY <1>1, RunView
<1>11. MCall[r] = [op |-> call[r].op, g |-> call[r].g, val |-> call[r].val]
  BY <1>9, <1>10 DEF PlainCall
<1>12. MCall' = [MCall EXCEPT ![r] = None]
  <2>1. \A t \in Stack : CallOf(t)' = IF t = r THEN None ELSE PlainCall(t)
    BY <1>2, <1>4 DEF CallOf, PlainCall
  <2>2. MCall' = [t \in Stack |-> CallOf(t)']
    BY DEF MCall
  <2>. QED BY <1>10, <2>1, <2>2
<1>13. MStatus' = [MStatus EXCEPT ![s] = st]
  <2>1. StatusOf(s)' = st
    BY <1>1, <1>2, <1>3, <1>4 DEF StatusOf
  <2>2. \A g \in Gen : g # s => StatusOf(g)' = PlainStatus(g)
    BY <1>1, <1>2, <1>3, <1>4 DEF StatusOf, PlainStatus
  <2>3. MStatus' = [g \in Gen |-> StatusOf(g)']
    BY DEF MStatus
  <2>. QED BY <1>10, <2>1, <2>2, <2>3
<1>14. Protocol!Able /\ Protocol!Top = s
  BY <1>1, TopRuns
<1>15. Protocol!Back(st, a)
  BY <1>4, <1>8, <1>12, <1>13, <1>14 DEF Protocol!Back, MChain, MCall, MStatus
<1>. QED BY <1>8, <1>11, <1>14, <1>15
\* A generator that runs: its cell, and the resume it answers to.
LEMMA RunningBody ==
  ASSUME IInv, CellInv, NEW s \in Stack, Active(s), s \in Gen \/ CUR_GEN # None
  PROVE  /\ s \in Gen /\ CUR_GEN = s /\ s = Target /\ RES # <<>>
         /\ started[s] /\ s \in made /\ ~e[s] /\ ~threw[s]
         /\ Resumer.lo \in Stack /\ call[Resumer.lo].g = s
<1>1. s \in Gen /\ CUR_GEN = s /\ turn[s] = 1 /\ s = Target
  BY Runner, NamesAssumption DEF Stack
<1>2. RES # <<>> /\ Resumer.lo \in Stack /\ call[Resumer.lo].g = s
  BY <1>1, RunnersHold, TargetIsAStack
<1>3. started[s]
  BY <1>1 DEF IInv, CbInv, Active
<1>4. s \in made /\ ~e[s] /\ ~threw[s]
  BY <1>1, <1>3 DEF CellInv
<1>. QED BY <1>1, <1>2, <1>3, <1>4

LEMMA EndMaps ==
  ASSUME IInv, IInv', CellInv, NEW s \in Gen, NEW v, NEW thrown \in BOOLEAN, Active(s),
         proc = "live", CoroEnd(s, v, thrown)
  PROVE  /\ Protocol!Able /\ Len(MChain) > 1 /\ Protocol!Caller = Resumer.lo
         /\ MCall[Resumer.lo].op = call[Resumer.lo].op
         /\ MCall[Resumer.lo].val = call[Resumer.lo].val
         /\ Protocol!Back("done",
              IF call[Resumer.lo].op = "return" /\ (thrown => v = GenExit)
              THEN Answer(Resumer.lo, "done", call[Resumer.lo].val)
              ELSE IF thrown THEN Answer(Resumer.lo, "raise", v)
              ELSE Answer(Resumer.lo, "done", v))
<1> DEFINE r == Resumer.lo
<1>1. /\ s \in Stack /\ CUR_GEN = s /\ started[s] /\ s \in made
      /\ r \in Stack /\ call[r].g = s
  BY RunningBody DEF Stack
<1>2. /\ turn' = [turn EXCEPT ![s] = 0] /\ pc' = [pc EXCEPT ![s] = "gone"]
      /\ UNCHANGED <<proc, RES, call, made, started>>
      /\ \A h \in Gen : h # s => e'[h] = e[h]
      /\ e'[s] = TRUE /\ threw'[s] = thrown /\ f'[s] = v
  BY <1>1 DEF CoroEnd, HandBack, IInv, TypeOK
<1>3. Outcome(r)' = IF call[r].op = "return" /\ (thrown => v = GenExit)
                    THEN Answer(r, "done", call[r].val)
                    ELSE IF thrown THEN Answer(r, "raise", v) ELSE Answer(r, "done", v)
  <2>1. r' = r
    BY <1>2 DEF Resumer
  <2>. QED BY <1>1, <1>2, <2>1 DEF Outcome, CloseCompletes
<1>4. Outcome(r)'.to = r
  BY <1>3 DEF Answer
<1>. QED BY <1>1, <1>2, <1>3, <1>4, HandsBack

LEMMA ReturnMaps ==
  ASSUME IInv, IInv', CellInv, NEW s \in Stack, NEW v \in UserVal, CoroReturn(s, v)
  PROVE  Protocol!Return(v)
<1>1. s \in Gen /\ Active(s) /\ proc = "live" /\ CoroEnd(s, v, FALSE)
  BY DEF CoroReturn, Running, Active
<1> DEFINE r == Resumer.lo
           a == IF call[r].op = "return" THEN Answer(r, "done", call[r].val)
                ELSE Answer(r, "done", v)
<1>2. /\ Protocol!Able /\ Len(MChain) > 1 /\ Protocol!Caller = r
      /\ MCall[r].op = call[r].op /\ MCall[r].val = call[r].val
      /\ Protocol!Back("done", a)
  BY <1>1, EndMaps
<1>3. a = Protocol!Answer(r, "done", IF MCall[r].op = "return" THEN MCall[r].val ELSE v)
  BY <1>2 DEF Answer, Protocol!Answer
<1>. QED BY <1>2, <1>3 DEF Protocol!Return, MChain, MCall

\* Only a close ends a body by the sentinel.
LEMMA ThrowMaps ==
  ASSUME IInv, IInv', CellInv, SentinelInv, NEW s \in Stack, CoroThrow(s)
  PROVE  Protocol!Closed \/ \E v \in UserVal : Protocol!Escape(v)
<1>1. /\ s \in Gen /\ Active(s) /\ pc[s] = "raise" /\ proc = "live"
      /\ CoroEnd(s, THROWN, TRUE)
  BY DEF CoroThrow, Raising, Active
<1> DEFINE r == Resumer.lo
           closes == call[r].op = "return" /\ THROWN = GenExit
           a == IF closes THEN Answer(r, "done", call[r].val) ELSE Answer(r, "raise", THROWN)
<1>2. /\ Protocol!Able /\ Len(MChain) > 1 /\ Protocol!Caller = r
      /\ MCall[r].op = call[r].op /\ MCall[r].val = call[r].val
      /\ Protocol!Back("done", a)
  BY <1>1, EndMaps
<1>3. CASE THROWN = GenExit
  <2>1. ClosedBy(s) /\ s = Target /\ pc[Target] # "wait"
    BY <1>1, <1>3, RunnersHold DEF SentinelInv
  <2>2. call[r].op = "return"
    BY <2>1, ClosedTarget
  <2>3. a = Protocol!Answer(r, "done", MCall[r].val)
    BY <1>2, <1>3, <2>2 DEF Answer, Protocol!Answer
  <2>4. Protocol!Closed
    BY <1>2, <2>2, <2>3 DEF Protocol!Closed, MChain, MCall
  <2>. QED BY <2>4
<1>4. CASE THROWN # GenExit
  <2>1. THROWN \in UserVal
    BY <1>4 DEF IInv, TypeOK, Value
  <2>2. a = Protocol!Answer(r, "raise", THROWN)
    BY <1>4 DEF Answer, Protocol!Answer
  <2>3. Protocol!Escape(THROWN)
    BY <1>2, <2>2 DEF Protocol!Escape, MChain
  <2>. QED BY <2>1, <2>3
<1>. QED BY <1>3, <1>4

LEMMA YieldMaps ==
  ASSUME IInv, IInv', CellInv, NEW s \in Stack, NEW v \in UserVal, Yield(s, v)
  PROVE  Protocol!Yield(v)
<1> DEFINE r == Resumer.lo
           closes == call[r].op = "return"
           a == IF closes THEN Answer(r, "done", call[r].val) ELSE Answer(r, "value", v)
           st == IF closes THEN "done" ELSE "suspended"
<1>1. Active(s) /\ CUR_GEN # None /\ proc = "live"
  BY DEF Yield, Running, Active
<1>2. /\ s \in Gen /\ CUR_GEN = s /\ started[s] /\ s \in made /\ ~e[s] /\ ~threw[s]
      /\ r \in Stack /\ call[r].g = s
  BY <1>1, RunningBody
<1>3. /\ turn' = [turn EXCEPT ![s] = 0] /\ pc' = [pc EXCEPT ![s] = "parked"]
      /\ UNCHANGED <<proc, RES, call, made, started, e, threw>>
      /\ d'[s] = v
  BY <1>2 DEF Yield, HandBack, IInv, TypeOK
<1>4. Outcome(r)' = a
  <2>1. r' = r
    BY <1>3 DEF Resumer
  <2>. QED BY <1>2, <1>3, <2>1 DEF Outcome, CloseCompletes
<1>5. a.to = r /\ st = IF e'[s] \/ call[r].op = "return" THEN "done" ELSE "suspended"
  BY <1>2, <1>3 DEF Answer
<1>6. /\ Protocol!Able /\ Len(MChain) > 1 /\ Protocol!Caller = r
      /\ MCall[r].op = call[r].op /\ MCall[r].val = call[r].val
      /\ Protocol!Back(st, a)
  BY <1>1, <1>2, <1>3, <1>4, <1>5, HandsBack
<1>7. a = IF MCall[r].op = "return" THEN Protocol!Answer(r, "done", MCall[r].val)
          ELSE Protocol!Answer(r, "value", v)
  BY <1>6 DEF Answer, Protocol!Answer
<1>8. Protocol!Yield(v) <=>
        /\ Protocol!Able /\ Len(MChain) > 1
        /\ IF MCall[Protocol!Caller].op = "return"
           THEN Protocol!Back("done", Protocol!Answer(Protocol!Caller, "done", MCall[Protocol!Caller].val))
           ELSE Protocol!Back("suspended", Protocol!Answer(Protocol!Caller, "value", v))
  BY DEF Protocol!Yield, MChain, MCall
<1>. QED BY <1>6, <1>7, <1>8
\* A resume: the body moves, from its start or from its yield, unless the
\* generator is running already.
LEMMA ResumeMaps ==
  ASSUME IInv, IInv', CellInv, FlagInv, NEW s \in Stack, Running(s), NEW g \in Gen,
         NEW op \in {"next", "return", "throw"}, NEW sent \in UserVal, NEW val \in UserVal,
         GenResume(s, g, op, sent, val), g \in made, ~e[g], op # "next" => started[g],
         op # "return" => sent = val,
         closing' = [closing EXCEPT ![g] = IF op = "return" THEN TRUE ELSE @],
         throwin' = [throwin EXCEPT ![g] = IF op = "throw" THEN TRUE ELSE @]
  PROVE  Protocol!Resume(g, op, val) \/ Protocol!Hang(g, op, val)
<1> DEFINE n == Len(RES)
           asks == [op |-> op, g |-> g, val |-> val]
<1>1. Active(s) /\ proc = "live" /\ proc' = "live" /\ ans' = None
      /\ UNCHANGED <<made, e>> /\ g \in Stack
  BY DEF Running, Active, GenResume, Stack
<1>2. /\ Len(RES') = n + 1 /\ DOMAIN RES' = 1 .. n + 1
      /\ \A i \in 1 .. n : RES'[i] = RES[i]
      /\ RES' # <<>> /\ RES'[n + 1].lo = s /\ Target' = g
      /\ call'[s] # None /\ call'[s].g = g /\ call'[s].op = op /\ call'[s].val = val
      /\ \A t \in Stack : t # s => call'[t] = call[t]
      /\ \A t \in Stack : pc'[t] = IF t = s THEN "wait"
                                   ELSE IF t = g /\ ~started[g] THEN "entry" ELSE pc[t]
      /\ \A h \in Gen : turn'[h] = IF h = g THEN 1 ELSE turn[h]
  BY Resumed
<1>3. ~HandedBack'
  BY <1>2 DEF HandedBack
<1>4. /\ Parked \in Seq(Stack) /\ Len(Parked) = n /\ n \in Nat
      /\ \A i \in 1 .. n : Parked[i] = RES[i].lo
  BY ParkedStacks
<1>5. MChain = Append(Parked, s) /\ MChain \in Seq(Stack)
      /\ Len(MChain) = n + 1 /\ MChain[n + 1] = s /\ \A i \in 1 .. n : MChain[i] = Parked[i]
  <2>1. MChain = Append(Parked, s)
    BY <1>1, RunView
  <2>2. /\ Append(Parked, s) \in Seq(Stack) /\ Len(Append(Parked, s)) = n + 1
        /\ Append(Parked, s)[n + 1] = s /\ \A i \in 1 .. n : Append(Parked, s)[i] = Parked[i]
    <3> HIDE DEF n
    <3>. QED BY <1>4, Appended
  <2>. QED BY <2>1, <2>2
<1>6. Parked' = MChain
  <2>1. Parked' = [i \in 1 .. n + 1 |-> RES'[i].lo]
    BY <1>2 DEF Parked
  <2>2. MChain \in [1 .. n + 1 -> Stack]
    BY <1>5, AsFunction
  <2>3. \A i \in 1 .. n + 1 : RES'[i].lo = MChain[i]
    <3>1. n + 1 \in 1 .. n + 1 /\ \A i \in 1 .. n + 1 : i = n + 1 \/ i \in 1 .. n
      <4> HIDE DEF n
      <4>. QED BY <1>4
    <3>2. \A i \in 1 .. n : RES'[i].lo = MChain[i]
      BY <1>2, <1>4, <1>5
    <3>3. RES'[n + 1].lo = MChain[n + 1]
      BY <1>2, <1>5
    <3> HIDE DEF n
    <3>. QED BY <3>1, <3>2, <3>3
  <2>4. MChain = [i \in 1 .. n + 1 |-> MChain[i]]
    BY <2>2
  <2> HIDE DEF n
  <2>. QED BY <2>1, <2>3, <2>4
<1>7. MCall = [t \in Stack |-> PlainCall(t)] /\ MStatus = [h \in Gen |-> PlainStatus(h)]
  BY <1>1, RunView
<1>8. MCall' = [MCall EXCEPT ![s] = asks]
  <2>1. CallOf(s)' = asks
    BY <1>2, <1>3 DEF CallOf
  <2>2. \A t \in Stack : t # s => CallOf(t)' = PlainCall(t)
    BY <1>2, <1>3 DEF CallOf, PlainCall
  <2>3. MCall' = [t \in Stack |-> CallOf(t)']
    BY DEF MCall
  <2> HIDE DEF asks
  <2>. QED BY <1>7, <2>1, <2>2, <2>3
<1>9. started' = [started EXCEPT ![g] = TRUE] /\ f' = [f EXCEPT ![g] = sent]
  BY DEF GenResume
<1>10. started'[g] /\ f'[g] = sent /\ \A h \in Gen : h # g => started'[h] = started[h]
  BY <1>9 DEF IInv, TypeOK
<1>11. MStatus' = [MStatus EXCEPT ![g] = "running"]
  <2>1. StatusOf(g)' = "running"
    BY <1>1, <1>2, <1>3, <1>10 DEF StatusOf
  <2>2. \A h \in Gen : h # g => StatusOf(h)' = PlainStatus(h)
    BY <1>1, <1>2, <1>3, <1>10 DEF StatusOf, PlainStatus
  <2>3. MStatus' = [h \in Gen |-> StatusOf(h)']
    BY DEF MStatus
  <2>. QED BY <1>7, <2>1, <2>2, <2>3
<1>12. Protocol!Able /\ Protocol!Top = s
  BY <1>1, TopRuns
<1>13. CASE pc'[g] = "wait"
  <2>1. turn[g] = 1 /\ started[g]
    <3>1. g = s => turn[g] = 1 /\ state[g] = 3
      BY <1>1, Runner
    <3>2. g # s => pc[g] = "wait"
      BY <1>1, <1>2, <1>13
    <3>. QED BY <1>1, <3>1, <3>2 DEF IInv, SchedInv, CbInv, Active
  <2>2. MStatus[g] = "running" /\ MStatus' = MStatus
    <3>1. PlainStatus(g) = "running"
      BY <2>1 DEF PlainStatus
    <3>. QED BY <1>7, <1>11, <3>1
  <2>3. MChain' = MChain
    BY <1>2, <1>3, <1>6, <1>13 DEF MChain
  <2>4. AnsOf' = None
    <3>1. ~HandedOver'
      BY <1>2, <1>13 DEF HandedOver, CoroReady
    <3>. QED BY <1>1, <1>3, <3>1 DEF AnsOf
  <2>5. Protocol!Hang(g, op, val)
    BY <1>1, <1>8, <1>12, <2>2, <2>3, <2>4 DEF Protocol!Hang, MChain, MCall, MStatus
  <2>. QED BY <2>5
<1>14. CASE pc'[g] # "wait"
  <2>1. g # s /\ g # Target /\ turn[g] = 0 /\ pc[g] \in {"none", "parked", "gone"}
    <3>1. g # s /\ s = Target
      BY <1>1, <1>2, <1>14, RunnersHold
    <3>2. pc[g] # "wait" \/ ~started[g]
      BY <1>1, <1>2, <1>14, <3>1
    <3>3. ~started[g] => pc[g] = "none"
      BY DEF IInv, CbInv
    <3>. QED BY <3>1, <3>2, <3>3 DEF IInv, SchedInv
  <2>2. (pc[g] = "none" <=> ~started[g]) /\ pc[g] # "gone"
    BY DEF IInv, CbInv
  <2>3. /\ pc'[g] = "entry" <=> ~started[g]
        /\ pc'[g] \in {"entry", "parked"}
    BY <1>1, <1>2, <2>1, <2>2
  <2>4. MStatus[g] = IF started[g] THEN "suspended" ELSE "fresh"
    BY <1>7, <2>1 DEF PlainStatus
  <2>5. MChain' = Append(MChain, g)
    BY <1>2, <1>3, <1>6, <1>14 DEF MChain
  <2>6. HandedOver'
    BY <1>2, <2>3 DEF HandedOver, CoroReady
  <2>7. (closing'[g] <=> op = "return") /\ (throwin'[g] <=> op = "throw")
    BY <1>1, NoFlags DEF IInv, TypeOK
  <2>8. AnsOf' = IF ~started[g] THEN None
                 ELSE IF op = "return" THEN Answer(g, "raise", GenExit)
                 ELSE Answer(g, IF op = "throw" THEN "raise" ELSE "sent", sent)
    BY <1>2, <1>3, <1>10, <2>3, <2>6, <2>7 DEF AnsOf
  <2>9. AnsOf' = IF MStatus[g] = "fresh" THEN None
                 ELSE CASE op = "next"   -> Protocol!Answer(g, "sent", val)
                        [] op = "return" -> Protocol!Answer(g, "raise", GenExit)
                        [] op = "throw"  -> Protocol!Answer(g, "raise", val)
    BY <2>4, <2>8 DEF Answer, Protocol!Answer
  <2>10. MStatus[g] = "suspended" \/ (MStatus[g] = "fresh" /\ op = "next")
    BY <2>4
  <2>11. Protocol!Resume(g, op, val)
    BY <1>1, <1>8, <1>11, <1>12, <2>5, <2>9, <2>10 DEF Protocol!Resume, MChain, MCall, MStatus
  <2>. QED BY <2>11
<1>. QED BY <1>13, <1>14

\* The other side of a handover is seen by nobody: what it finds was decided
\* when the control was given away.
LEMMA BeginMaps ==
  ASSUME IInv, IInv', NEW g \in Gen, CoroBegin(g)
  PROVE  UNCHANGED <<MStatus, MChain, MCall, AnsOf, proc>>
<1>1. g = Target /\ turn[g] = 1 /\ pc[g] = "entry" /\ g \in Stack
  BY Ready DEF CoroBegin, Woken, Stack
<1>2. /\ UNCHANGED <<proc, RES, call, made, e, started, turn, Target, Resumer, Parked, HandedBack>>
      /\ ans' = None /\ Active(g)'
  BY <1>1 DEF CoroBegin, cellVars, Target, Resumer, Parked, HandedBack, Active, IInv, TypeOK
<1>3. ~HandedBack /\ HandedOver
  BY <1>1 DEF HandedBack, HandedOver, CoroReady
<1>4. AnsOf' = None /\ AnsOf = None
  BY <1>1, <1>2, <1>3, RunViewNext DEF AnsOf
<1>5. MChain' = MChain
  <2>1. MChain = Append(Parked, g)
    BY <1>1, <1>3 DEF MChain
  <2>. QED BY <2>1, <1>1, <1>2, RunViewNext
<1>6. MStatus' = MStatus
  BY <1>2 DEF MStatus, StatusOf
<1>7. MCall' = MCall
  BY <1>2 DEF MCall, CallOf
<1>. QED BY <1>2, <1>4, <1>5, <1>6, <1>7

LEMMA WakeMaps ==
  ASSUME IInv, IInv', NEW g \in Gen, YieldWake(g)
  PROVE  UNCHANGED <<MStatus, MChain, MCall, AnsOf, proc>>
<1>1. g = Target /\ turn[g] = 1 /\ pc[g] = "parked" /\ g \in Stack
  BY Ready DEF YieldWake, Woken, Stack
<1>2. PICK p \in {"run", "raise"} : pc' = [pc EXCEPT ![g] = p]
  BY DEF YieldWake, Throw
<1>3. /\ UNCHANGED <<proc, RES, call, made, e, started, turn, Target, Resumer, Parked, HandedBack>>
      /\ Active(g)'
  BY <1>1, <1>2 DEF YieldWake, cellVars, Target, Resumer, Parked, HandedBack, Active, IInv, TypeOK
<1>4. ~HandedBack /\ HandedOver
  BY <1>1 DEF HandedBack, HandedOver, CoroReady
<1>5. AnsOf = IF closing[g] THEN Answer(g, "raise", GenExit)
              ELSE Answer(g, IF throwin[g] THEN "raise" ELSE "sent", f[g])
  BY <1>1, <1>4 DEF AnsOf
<1>6. ans' = AnsOf
  BY <1>5 DEF YieldWake
<1>7. AnsOf' = AnsOf
  BY <1>1, <1>3, <1>6, RunViewNext
<1>8. MChain' = MChain
  <2>1. MChain = Append(Parked, g)
    BY <1>1, <1>4 DEF MChain
  <2>. QED BY <2>1, <1>1, <1>3, RunViewNext
<1>9. MStatus' = MStatus
  BY <1>3 DEF MStatus, StatusOf
<1>10. MCall' = MCall
  BY <1>3 DEF MCall, CallOf
<1>. QED BY <1>3, <1>7, <1>8, <1>9, <1>10
LEMMA BackMaps ==
  ASSUME IInv, IInv', CellInv, NEW s \in Stack, ResumerWake(s)
  PROVE  UNCHANGED <<MStatus, MChain, MCall, AnsOf, proc>>
<1> SUFFICES ASSUME NEW g \in Gen, g = Target
             PROVE  UNCHANGED <<MStatus, MChain, MCall, AnsOf, proc>>
  BY TakenBack
<1> DEFINE n == Len(RES)
<1>1. /\ HandedBack /\ Resumer.lo = s /\ g = call[s].g /\ call[s] # None
      /\ turn[g] = 0 /\ g \in Gen /\ pc[g] \in {"parked", "gone"}
      /\ n > 0 /\ n \in Nat /\ DOMAIN RES = 1 .. n
      /\ Len(RES') = n - 1 /\ DOMAIN RES' = 1 .. n - 1
      /\ \A i \in 1 .. n - 1 : RES'[i] = RES[i] /\ RES[i].lo \in Stack
      /\ RES[n].lo = s
      /\ \A t \in Stack : call'[t] = IF t = s THEN None ELSE call[t]
      /\ Active(s)' /\ Target' = s /\ ~HandedBack' /\ ~HandedOver'
  BY TakenBack
<1>2. /\ UNCHANGED <<proc, made, started, turn>> /\ ans' = Outcome(s)
      /\ IF CloseCompletes(s) THEN e' = [e EXCEPT ![g] = TRUE] ELSE e' = e
  BY <1>1 DEF ResumerWake
<1>3. \A h \in Gen : e'[h] = IF h = g /\ CloseCompletes(s) THEN TRUE ELSE e[h]
  <2>1. e \in [Gen -> BOOLEAN]
    BY DEF IInv, TypeOK
  <2>. QED BY <1>1, <1>2, <2>1
<1>4. started[g] /\ g \in made
  BY <1>1 DEF IInv, CbInv, CellInv
<1>5. e'[g] <=> e[g] \/ call[s].op = "return"
  BY <1>1, <1>3 DEF CloseCompletes, CellInv
<1>6. AnsOf' = AnsOf
  <2>1. ~HandedOver
    BY <1>1 DEF HandedOver, CoroReady
  <2>2. AnsOf = Outcome(s)
    BY <1>1, <2>1 DEF AnsOf
  <2>3. AnsOf' = ans'
    BY <1>1, RunViewNext
  <2>. QED BY <1>2, <2>2, <2>3
<1>7. MCall' = MCall
  <2>1. MCall' = [t \in Stack |-> PlainCall(t)']
    BY <1>1, RunViewNext
  <2>2. \A t \in Stack : CallOf(t) = PlainCall(t)'
    BY <1>1 DEF CallOf, PlainCall
  <2>. QED BY <2>1, <2>2 DEF MCall
<1>8. MStatus' = MStatus
  <2>1. MStatus' = [h \in Gen |-> PlainStatus(h)']
    BY <1>1, RunViewNext
  <2>2. StatusOf(g) = PlainStatus(g)'
    BY <1>1, <1>2, <1>4, <1>5 DEF StatusOf, PlainStatus
  <2>3. \A h \in Gen : h # g => StatusOf(h) = PlainStatus(h)'
    BY <1>1, <1>2, <1>3 DEF StatusOf, PlainStatus
  <2>. QED BY <2>1, <2>2, <2>3 DEF MStatus
<1>9. MChain' = MChain
  <2>1. MChain = Parked
    BY <1>1 DEF MChain
  <2>2. MChain' = Append(Parked', s)
    BY <1>1, RunViewNext
  <2>3. Parked \in Seq(Stack) /\ Len(Parked) = n
    BY ParkedStacks
  <2>4. Parked \in [1 .. n -> Stack]
    BY <2>3, AsFunction
  <2>5. Parked' = [i \in 1 .. n - 1 |-> Parked[i]]
    <3>1. Parked' = [i \in 1 .. n - 1 |-> RES'[i].lo]
      BY <1>1 DEF Parked
    <3>2. \A i \in 1 .. n - 1 : RES'[i].lo = RES[i].lo
      BY <1>1
    <3>3. \A i \in 1 .. n - 1 : i \in DOMAIN RES
      <4>1. n \in Nat /\ DOMAIN RES = 1 .. n
        BY <1>1
      <4> HIDE DEF n
      <4>. QED BY <4>1
    <3>4. \A i \in 1 .. n - 1 : RES'[i].lo = Parked[i]
      BY <3>2, <3>3 DEF Parked
    <3>. QED BY <3>1, <3>4
  <2>6. Parked[n] = s
    BY <1>1, ParkedStacks
  <2> HIDE DEF n
  <2>7. n \in Nat /\ n > 0
    BY <1>1
  <2>8. /\ Parked' \in Seq(Stack) /\ Len(Parked') = n - 1
        /\ \A i \in 1 .. n - 1 : Parked'[i] = Parked[i]
    BY <2>4, <2>5, <2>7
  <2>9. /\ Append(Parked', s) \in Seq(Stack) /\ Len(Append(Parked', s)) = n
        /\ Append(Parked', s)[n] = s
        /\ \A i \in 1 .. n - 1 : Append(Parked', s)[i] = Parked'[i]
    BY <2>7, <2>8, Appended
  <2>10. Append(Parked', s) \in [1 .. n -> Stack]
    BY <2>9, AsFunction
  <2>11. \A i \in 1 .. n : Append(Parked', s)[i] = Parked[i]
    <3>1. \A i \in 1 .. n : i = n \/ i \in 1 .. n - 1
      BY <2>7
    <3>. QED BY <3>1, <2>6, <2>8, <2>9
  <2>12. Append(Parked', s) = Parked
    <3> DEFINE q == Append(Parked', s)
    <3>1. q \in [1 .. n -> Stack] /\ \A i \in 1 .. n : q[i] = Parked[i]
      BY <2>10, <2>11
    <3> HIDE DEF q
    <3>2. q = [i \in 1 .. n |-> q[i]] /\ Parked = [i \in 1 .. n |-> Parked[i]]
      BY <2>4, <3>1
    <3>3. [i \in 1 .. n |-> q[i]] = [i \in 1 .. n |-> Parked[i]]
      BY <3>1
    <3>4. q = Parked
      BY <3>2, <3>3
    <3>. QED BY <3>4 DEF q
  <2>. QED BY <2>1, <2>2, <2>12
<1>. QED BY <1>2, <1>6, <1>7, <1>8, <1>9

-----------------------------------------------------------------------------
(* The refinement.                                                         *)

LEMMA InitMaps == Init => Protocol!Init
<1> SUFFICES ASSUME Init PROVE Protocol!Init
  OBVIOUS
<1>1. IInv
  BY InitInv
<1>2. Active(Main) /\ Main \in Stack /\ proc = "live" /\ ans = None
  BY DEF Init, Active, Stack
<1>3. Parked = <<>>
  BY DEF Init, Parked
<1>4. MChain = <<Main>>
  BY <1>1, <1>2, <1>3, RunView
<1>5. MStatus = [g \in Gen |-> "none"]
  BY DEF Init, MStatus, StatusOf
<1>6. MCall = [s \in Stack |-> None]
  BY DEF Init, MCall, CallOf
<1>7. AnsOf = None
  BY <1>1, <1>2, RunView
<1>. QED BY <1>2, <1>4, <1>5, <1>6, <1>7 DEF Protocol!Init, Protocol!Stack, Stack, MChain, MStatus, MCall

LEMMA StutterMaps ==
  ASSUME UNCHANGED <<MStatus, MChain, MCall, AnsOf, proc>>
  PROVE  UNCHANGED Protocol!vars
  BY DEF Protocol!vars, MStatus, MChain, MCall

LEMMA StepMaps ==
  IInv /\ IInv' /\ ProtInv /\ [Next]_vars => [Protocol!Next]_(Protocol!vars)
<1> SUFFICES ASSUME IInv, IInv', ProtInv, [Next]_vars
             PROVE  [Protocol!Next]_(Protocol!vars)
  OBVIOUS
<1>1. FlagInv /\ CellInv /\ SentinelInv
  BY DEF ProtInv
<1>2. Protocol!UserVal = UserVal /\ Protocol!Op = {"next", "return", "throw"} /\ Undef \in UserVal
  BY DEF Protocol!UserVal, Protocol!Op, UserVal
<1>3. ASSUME Protocol!Compute \/ Protocol!End \/ Protocol!Closed PROVE Protocol!Next
  BY <1>3 DEF Protocol!Next
<1>4. ASSUME NEW v \in UserVal, Protocol!Yield(v) \/ Protocol!Return(v) \/ Protocol!Escape(v)
      PROVE  Protocol!Next
  BY <1>2, <1>4 DEF Protocol!Next
<1>5. ASSUME NEW g \in Gen, NEW op \in {"next", "return", "throw"}, NEW v \in UserVal,
             Protocol!AtOnce(g, op, v) \/ Protocol!Resume(g, op, v) \/ Protocol!Hang(g, op, v)
      PROVE  Protocol!Next
  BY <1>2, <1>5 DEF Protocol!Next
<1>6. ASSUME NEW s \in Stack, TryStep(s) PROVE Protocol!Next
  BY <1>3, <1>6, TryMaps
<1>7. ASSUME NEW s \in Stack, OwnStep(s) PROVE Protocol!Next
  <2>1. ASSUME NEW g \in Gen, GenCreate(s, g) PROVE Protocol!Next
    BY <1>1, <2>1, CreateMaps DEF Protocol!Next
  <2>2. ASSUME NEW g \in Gen, NextDone(s, g) PROVE Protocol!Next
    <3>1. /\ Active(s) /\ Active(s)' /\ proc = "live" /\ proc' = "live"
          /\ UNCHANGED <<RES, call, made, started, turn, e>> /\ g \in made /\ e[g]
          /\ ans' = Protocol!Answer(s, "done", Undef)
      BY <2>2 DEF NextDone, Running, Active, cellVars, cbVars, Answer, Protocol!Answer
    <3>2. e' = [e EXCEPT ![g] = TRUE]
      BY <3>1 DEF IInv, TypeOK
    <3>3. Protocol!AtOnce(g, "next", Undef)
      BY <3>1, <3>2, AtOnceMaps
    <3>. QED BY <1>2, <1>5, <3>3
  <2>3. ASSUME NEW v \in UserVal, CoroReturn(s, v) PROVE Protocol!Next
    BY <1>1, <1>4, <2>3, ReturnMaps
  <2>4. ASSUME NEW v \in UserVal, Yield(s, v) PROVE Protocol!Next
    BY <1>1, <1>4, <2>4, YieldMaps
  <2>5. CASE CoroThrow(s)
    <3>1. Protocol!Closed \/ \E v \in UserVal : Protocol!Escape(v)
      BY <1>1, <2>5, ThrowMaps
    <3>. QED BY <1>3, <1>4, <3>1
  <2>6. CASE YieldOutside(s)
    <3>1. /\ Active(s) /\ Active(s)' /\ proc = "live" /\ proc' = "exited" /\ ans' = None
          /\ UNCHANGED <<RES, call, made, e, started, turn>>
      BY <2>6 DEF YieldOutside, Running, Active, cellVars, cbVars
    <3>. QED BY <1>3, <3>1, Exits
  <2>. QED BY <1>7, <2>1, <2>2, <2>3, <2>4, <2>5, <2>6 DEF OwnStep
<1>8. ASSUME NEW s \in Stack, NEW g \in Gen, NEW v \in UserVal,
             NextResume(s, g, v) \/ ReturnResume(s, g, v) \/ ThrowResume(s, g, v)
      PROVE  Protocol!Next
  <2>1. PICK op \in {"next", "return", "throw"}, sent \in UserVal :
          /\ Running(s) /\ GenResume(s, g, op, sent, v) /\ g \in made /\ ~e[g]
          /\ op # "next" => started[g]
          /\ op # "return" => sent = v
          /\ closing' = [closing EXCEPT ![g] = IF op = "return" THEN TRUE ELSE @]
          /\ throwin' = [throwin EXCEPT ![g] = IF op = "throw" THEN TRUE ELSE @]
    BY <1>2, <1>8 DEF NextResume, ReturnResume, ThrowResume, IInv, TypeOK
  <2>2. Protocol!Resume(g, op, v) \/ Protocol!Hang(g, op, v)
    BY <1>1, <2>1, ResumeMaps
  <2>. QED BY <1>5, <2>2
<1>9. ASSUME NEW s \in Stack, NEW g \in Gen, NEW v \in UserVal, ReturnAtOnce(s, g, v)
      PROVE  Protocol!Next
  <2>1. /\ Active(s) /\ Active(s)' /\ proc = "live" /\ proc' = "live"
        /\ UNCHANGED <<RES, call, made, started, turn>> /\ g \in made /\ (e[g] \/ ~started[g])
        /\ e' = [e EXCEPT ![g] = TRUE]
        /\ ans' = Protocol!Answer(s, "done", v)
    BY <1>9 DEF ReturnAtOnce, Running, Active, cbVars, Answer, Protocol!Answer
  <2>2. Protocol!AtOnce(g, "return", v)
    BY <2>1, AtOnceMaps
  <2>. QED BY <1>5, <2>2
<1>10. ASSUME NEW s \in Stack, NEW g \in Gen, NEW v \in UserVal, ThrowAtOnce(s, g, v)
       PROVE  Protocol!Next
  <2>1. /\ Active(s) /\ proc = "live" /\ proc' = "live" /\ pc' = [pc EXCEPT ![s] = "raise"]
        /\ UNCHANGED <<RES, call, made, started, turn>> /\ g \in made /\ (e[g] \/ ~started[g])
        /\ e' = [e EXCEPT ![g] = TRUE]
        /\ ans' = Protocol!Answer(s, "raise", v)
    BY <1>10 DEF ThrowAtOnce, Throw, Running, Active, cbVars, Answer, Protocol!Answer
  <2>2. Active(s)'
    BY <2>1 DEF Active, IInv, TypeOK
  <2>3. Protocol!AtOnce(g, "throw", v)
    BY <2>1, <2>2, AtOnceMaps
  <2>. QED BY <1>5, <2>3
<1>11. CASE MainReturn
  <2>1. /\ Active(Main) /\ Active(Main)' /\ Main \in Stack
        /\ proc = "live" /\ proc' = "exited" /\ ans' = None
        /\ UNCHANGED <<RES, call, made, e, started, turn>>
    BY <1>11 DEF MainReturn, Running, Active, Stack, cellVars, cbVars
  <2>. QED BY <1>3, <2>1, Exits
<1>12. ASSUME NEW g \in Gen, CoroBegin(g) \/ YieldWake(g) PROVE UNCHANGED Protocol!vars
  BY <1>12, BeginMaps, WakeMaps, StutterMaps
<1>13. ASSUME NEW s \in Stack, ResumerWake(s) PROVE UNCHANGED Protocol!vars
  BY <1>1, <1>13, BackMaps, StutterMaps
<1>14. CASE UNCHANGED vars
  <2>1. UNCHANGED <<MStatus, MChain, MCall, AnsOf, proc>>
    BY <1>14 DEF vars, cellVars, cbVars, sideVars, MStatus, MChain, MCall, AnsOf, StatusOf, CallOf,
                 HandedBack, HandedOver, Target, Resumer, Parked, Outcome, CloseCompletes, CoroReady
  <2>. QED BY <2>1, StutterMaps
<1>. QED BY <1>6, <1>7, <1>8, <1>9, <1>10, <1>11, <1>12, <1>13, <1>14
         DEF Next, ResumeStep, Wake

\* The floor implements the generator protocol, whatever the program drives
\* with whatever: every step of runtime.c is a step of GenProtocol or none.
THEOREM ProtocolImplemented == Spec => ImplementsProtocol
<1>1. IInv /\ IInv' /\ ProtInv /\ [Next]_vars => [Protocol!Next]_(Protocol!vars)
  BY StepMaps
<1>. QED BY InitMaps, <1>1, Invariance, ProtInvariance, PTL
         DEF Spec, ImplementsProtocol, Protocol!Spec

(***************************************************************************)
(* The collector: what the marking has found is closed under handles but   *)
(* for the blocks on the mark stack, and a sweep only takes what is not    *)
(* in it.                                                                  *)
(***************************************************************************)

\* Where handles are read during a sweep: in what was marked.
Held == IF phase = "sweep" THEN mark ELSE alloc

\* A block that is not allocated holds no handles.
UnownedInv == \A b \in Block \ alloc : refs[b] = {}

\* Handles are handles of held blocks, and of the tags the program stores.
HeldInv ==
  /\ refs[CStack] \subseteq Held
  /\ \A b \in Held : \A y \in refs[b] : y \in Held /\ tag[y] \in MayHold(tag[b])

\* The roots are marked, and so is what a marked block refers to, once the
\* block is off the mark stack.
MarkInv ==
  phase = "drain" =>
    /\ refs[CStack] \subseteq mark
    /\ \A b \in mark \ GC_MSTACK : refs[b] \subseteq mark

\* What is allocated and unmarked has still to be swept.
SweepInv == phase = "sweep" => alloc \ mark \subseteq todo

\* A set with all words of the roots and of its marked members has the marks.
FoundInv ==
  phase \in {"drain", "sweep"} =>
    \A S \in SUBSET Block :
      Words(CStack) \subseteq S /\ (\A x \in S \cap mark : Words(x) \subseteq S) => mark \subseteq S

HeapInv == UnownedInv /\ HeldInv /\ MarkInv /\ SweepInv

CollectorInv == HeapTypeOK /\ FreeListsAreExact /\ HeapInv /\ FoundInv

-----------------------------------------------------------------------------
(* Sequences without repetition.                                           *)

LEMMA Popped ==
  ASSUME NEW S, NEW s \in Seq(S), s # <<>>, IsInjective(s)
  PROVE  /\ Head(s) \in S /\ Head(s) \in Range(s)
         /\ Tail(s) \in Seq(S) /\ IsInjective(Tail(s)) /\ Range(Tail(s)) = Range(s) \ {Head(s)}
<1> DEFINE t == Tail(s)
<1>1. /\ Len(s) \in Nat \ {0} /\ DOMAIN s = 1 .. Len(s) /\ Head(s) = s[1]
  BY EmptySeq, LenProperties
<1>2. /\ Head(s) \in S /\ t \in Seq(S) /\ Len(t) = Len(s) - 1
      /\ \A i \in 1 .. Len(t) : t[i] = s[i + 1]
  BY HeadTailProperties
<1>3. DOMAIN t = 1 .. Len(s) - 1
  BY <1>2, LenProperties
<1>4. \A i \in DOMAIN t : i + 1 \in DOMAIN s /\ t[i] = s[i + 1] /\ i + 1 # 1
  BY <1>1, <1>2, <1>3
<1>5. IsInjective(t)
  <2> SUFFICES ASSUME NEW i \in DOMAIN t, NEW j \in DOMAIN t, t[i] = t[j] PROVE i = j
    BY DEF IsInjective
  <2>1. i + 1 = j + 1
    BY <1>4 DEF IsInjective
  <2>. QED BY <2>1, <1>3, <1>1
<1>6. Range(t) \subseteq Range(s) \ {Head(s)}
  BY <1>1, <1>4 DEF Range, IsInjective
<1>7. ASSUME NEW x \in Range(s) \ {Head(s)} PROVE x \in Range(t)
  <2>1. PICK i \in DOMAIN s : s[i] = x
    BY DEF Range
  <2>2. i - 1 \in DOMAIN t /\ i = (i - 1) + 1
    BY <1>1, <1>3, <2>1
  <2>. QED BY <2>1, <2>2, <1>4 DEF Range
<1>8. Range(t) = Range(s) \ {Head(s)}
  BY <1>6, <1>7
<1>9. Head(s) \in Range(s)
  BY <1>1 DEF Range
<1>. QED BY <1>2, <1>5, <1>8, <1>9

LEMMA Pushed ==
  ASSUME NEW S, NEW s \in Seq(S), NEW b \in S, b \notin Range(s), IsInjective(s)
  PROVE  /\ <<b>> \o s \in Seq(S) /\ IsInjective(<<b>> \o s) /\ Range(<<b>> \o s) = Range(s) \cup {b}
<1> DEFINE t == <<b>> \o s
<1>1. Len(s) \in Nat /\ DOMAIN s = 1 .. Len(s) /\ <<b>> \in Seq(S) /\ Len(<<b>>) = 1 /\ <<b>>[1] = b
  BY LenProperties
<1>2. t \in Seq(S) /\ Len(t) = Len(s) + 1
  BY <1>1, ConcatProperties
<1>3. DOMAIN t = 1 .. Len(s) + 1
  BY <1>2, LenProperties
<1>4. \A i \in DOMAIN t : t[i] = IF i <= 1 THEN <<b>>[i] ELSE s[i - 1]
  BY <1>1, <1>3, ConcatProperties
<1>5. 1 \in DOMAIN t /\ t[1] = b
  BY <1>1, <1>3, <1>4
<1>6. \A i \in DOMAIN t : i # 1 => i - 1 \in DOMAIN s /\ t[i] = s[i - 1]
  BY <1>1, <1>3, <1>4
<1>7. \A i \in DOMAIN s : i + 1 \in DOMAIN t /\ t[i + 1] = s[i]
  BY <1>1, <1>3, <1>4
<1>8. IsInjective(t)
  <2> SUFFICES ASSUME NEW i \in DOMAIN t, NEW j \in DOMAIN t, t[i] = t[j] PROVE i = j
    BY DEF IsInjective
  <2>1. CASE i = 1 \/ j = 1
    BY <2>1, <1>5, <1>6 DEF Range
  <2>2. CASE i # 1 /\ j # 1
    <3>1. i - 1 = j - 1
      BY <2>2, <1>6 DEF IsInjective
    <3>. QED BY <3>1, <1>1, <1>3
  <2>. QED BY <2>1, <2>2
<1>9. Range(t) = Range(s) \cup {b}
  <2>1. Range(t) \subseteq Range(s) \cup {b}
    BY <1>5, <1>6 DEF Range
  <2>2. b \in Range(t)
    BY <1>5 DEF Range
  <2>3. ASSUME NEW x \in Range(s) PROVE x \in Range(t)
    <3>1. PICK i \in DOMAIN s : s[i] = x
      BY DEF Range
    <3>. QED BY <3>1, <1>7 DEF Range
  <2>. QED BY <2>1, <2>2, <2>3
<1>. QED BY <1>2, <1>8, <1>9

-----------------------------------------------------------------------------
(* Types.                                                                  *)

Kinds == {"cell", "raw"}

LEMMA BlocksAreApart ==
  /\ \A t \in Tags : KindOf(t) \in Kinds
  /\ \A k \in Kinds : Slots(k) \subseteq Block
  /\ \A b \in Block : Partition(b) \in Kinds
  /\ \A b \in Block, k \in Kinds : b \in Slots(k) <=> k = Partition(b)
  /\ CStack \notin Block
BY SlotsAssumption DEF KindOf, Slots, Partition, Block, Kinds

LEMMA Counted == \A B \in SUBSET Block : Cardinality(B) \in Nat
<1>1. IsFiniteSet(Block)
  BY SlotsAssumption, FS_Union DEF Block
<1>. QED BY <1>1, FS_Subset, FS_CardinalityType

LEMMA TypeInit == CollectorInit => HeapTypeOK
<1> SUFFICES ASSUME CollectorInit PROVE HeapTypeOK
  OBVIOUS
<1>1. <<>> \in Seq(Block)
  BY EmptySeq
<1>. QED BY <1>1, ThresholdAssumption DEF CollectorInit, HeapTypeOK, Tags, RawTags, CellTags

\* What ar_block hands out is a slot of the right partition that is not in use.
LEMMA Carved ==
  ASSUME HeapTypeOK, FreeListsAreExact, CarveFree \/ \E b \in Block : CarveFresh(b)
  PROVE  \E b \in Block :
           /\ HandOut(b) /\ b \in Slots(KindOf(want)) /\ b \notin alloc
           /\ bumped' = bumped \cup {b}
           /\ UNCHANGED <<GC_MODE, GC_THRESH, GC_LIVE, marking>>
<1> DEFINE k == KindOf(want)
<1>1. k \in Kinds /\ free[k] \in Seq(Block)
  BY BlocksAreApart DEF HeapTypeOK, Kinds
<1>2. CASE CarveFree
  <2>1. free[k] # <<>> /\ HandOut(Head(free[k])) /\ UNCHANGED <<GC_MODE, bumped, GC_THRESH, GC_LIVE, marking>>
    BY <1>2 DEF CarveFree
  <2>2. IsInjective(free[k]) /\ Range(free[k]) \subseteq (bumped \cap Slots(k)) \ alloc
    BY <1>1 DEF FreeListsAreExact, Kinds
  <2>3. Head(free[k]) \in Block /\ Head(free[k]) \in Range(free[k])
    BY <1>1, <2>1, <2>2, Popped
  <2>. QED BY <2>1, <2>2, <2>3
<1>3. ASSUME NEW b \in Block, CarveFresh(b) PROVE b \notin alloc /\ b \in Slots(k)
  BY <1>3 DEF CarveFresh, IsFirst, HeapTypeOK
<1>. QED BY <1>2, <1>3 DEF CarveFresh

LEMMA TypeStep == HeapTypeOK /\ FreeListsAreExact /\ [CollectorNext]_collectorVars => HeapTypeOK'
<1> SUFFICES ASSUME HeapTypeOK, FreeListsAreExact, CollectorNext PROVE HeapTypeOK'
  BY DEF HeapTypeOK, collectorVars, memory, bits, counts, marking
<1> USE BlocksAreApart, Counted DEF HeapTypeOK, Place
<1>1. ASSUME NEW x \in Block, NEW y \in Block, Load(x, y) PROVE HeapTypeOK'
  BY <1>1 DEF Load, bits, counts, marking
<1>2. ASSUME NEW x \in Block, NEW ys \in SUBSET Block, NEW old \in SUBSET junk[x], Write(x, ys, old)
      PROVE  HeapTypeOK'
  BY <1>2 DEF Write, bits, counts, marking
<1>3. ASSUME NEW y \in Block, NEW stays \in BOOLEAN, Drop(y, stays) PROVE HeapTypeOK'
  BY <1>3 DEF Drop, bits, counts, marking
<1>4. CASE Overwrite
  BY <1>4 DEF Overwrite, bits, counts, marking
<1>5. ASSUME NEW t \in Tags, Request(t) PROVE HeapTypeOK'
  BY <1>5 DEF Request, memory, bits, counts, marking
<1>6. CASE CarveFree \/ \E b \in Block : CarveFresh(b)
  <2>1. PICK b \in Block : /\ HandOut(b) /\ b \in Slots(KindOf(want)) /\ b \notin alloc
                           /\ bumped' = bumped \cup {b}
                           /\ UNCHANGED <<GC_MODE, GC_THRESH, GC_LIVE, marking>>
    BY <1>6, Carved
  <2>2. free' \in [{"cell", "raw"} -> Seq(Block)]
    <3>1. CASE CarveFree
      <4>1. KindOf(want) \in Kinds /\ IsInjective(free[KindOf(want)])
        BY DEF FreeListsAreExact, Kinds
      <4>2. Tail(free[KindOf(want)]) \in Seq(Block)
        BY <3>1, <4>1, Popped DEF CarveFree, Kinds
      <4>. QED BY <3>1, <4>2 DEF CarveFree
    <3>2. CASE \E c \in Block : CarveFresh(c)
      BY <3>2 DEF CarveFresh
    <3>. QED BY <1>6, <3>1, <3>2
  <2>. QED BY <2>1, <2>2 DEF HandOut, marking, Tags, RawTags
<1>7. CASE Roots
  BY <1>7 DEF Roots, memory, bits, ClearMarks
<1>8. ASSUME NEW b \in Block, Trace(b) PROVE HeapTypeOK'
  BY <1>8 DEF Trace, memory, bits, Unmarked
<1>9. CASE Drained
  BY <1>9 DEF Drained, memory, bits, counts
<1>10. ASSUME NEW b \in Block, SweepFree(b) PROVE HeapTypeOK'
  <2>1. free' \in [{"cell", "raw"} -> Seq(Block)] /\ refs' \in [Place -> SUBSET Block]
        /\ junk' \in [Place -> SUBSET Block]
    <3>1. CASE GC_MODE = "poison"
      BY <1>10, <3>1 DEF SweepFree, Retire
    <3>2. CASE GC_MODE # "poison"
      <4> DEFINE k == Partition(b)
      <4>1. k \in Kinds /\ free[k] \in Seq(Block) /\ <<b>> \in Seq(Block)
        BY DEF Kinds
      <4>2. <<b>> \o free[k] \in Seq(Block)
        BY <4>1, ConcatProperties
      <4>3. free[k] # <<>> => Head(free[k]) \in Block
        BY <4>1, HeadTailProperties
      <4>4. /\ free' = [free EXCEPT ![k] = <<b>> \o free[k]]
            /\ refs' = [refs EXCEPT ![b] = {}]
            /\ \E rest \in SUBSET (refs[b] \cup junk[b]) :
                 junk' = [junk EXCEPT ![b] = rest \cup (IF free[k] = <<>> THEN {} ELSE {Head(free[k])})]
        BY <1>10, <3>2 DEF SweepFree, Retire, Link
      <4>5. free' \in [{"cell", "raw"} -> Seq(Block)]
        BY <4>1, <4>2, <4>4
      <4>6. refs[b] \cup junk[b] \subseteq Block
        OBVIOUS
      <4>7. junk' \in [Place -> SUBSET Block]
        BY <4>3, <4>4, <4>6
      <4>. QED BY <4>4, <4>5, <4>7
    <3>. QED BY <3>1, <3>2
  <2>. QED BY <1>10, <2>1 DEF SweepFree, counts, IsFirst, Tags, RawTags
<1>11. ASSUME NEW b \in Block, SweepPast(b) PROVE HeapTypeOK'
  BY <1>11 DEF SweepPast, memory, bits, counts
<1>12. CASE Swept
  BY <1>12, ThresholdAssumption DEF Swept, memory, bits, marking
<1>. QED BY <1>1, <1>2, <1>3, <1>4, <1>5, <1>6, <1>7, <1>8, <1>9, <1>10, <1>11, <1>12
         DEF CollectorNext, Program, Collection

-----------------------------------------------------------------------------
(* The free lists.                                                         *)

LEMMA FreeInit == CollectorInit => FreeListsAreExact
<1> SUFFICES ASSUME CollectorInit PROVE FreeListsAreExact
  OBVIOUS
<1>1. DOMAIN <<>> = {}
  BY EmptySeq, LenProperties
<1>2. IsInjective(<<>>) /\ Range(<<>>) = {}
  BY <1>1 DEF IsInjective, Range
<1>. QED BY <1>2 DEF CollectorInit, FreeListsAreExact

\* FreeListsAreExact of one partition.
Exact(k) ==
  /\ IsInjective(free[k])
  /\ Range(free[k]) = IF GC_MODE = "poison" THEN {} ELSE (bumped \cap Slots(k)) \ alloc

LEMMA FreeStep == HeapTypeOK /\ FreeListsAreExact /\ [CollectorNext]_collectorVars => FreeListsAreExact'
<1> SUFFICES ASSUME HeapTypeOK, FreeListsAreExact, CollectorNext, NEW k \in Kinds PROVE Exact(k)'
  BY DEF FreeListsAreExact, Exact, Kinds, collectorVars, bits, Slots
<1>1. Exact(k) /\ free[k] \in Seq(Block)
  BY DEF FreeListsAreExact, Exact, Kinds, HeapTypeOK
<1>2. CASE UNCHANGED <<GC_MODE, bits>>
  BY <1>1, <1>2 DEF Exact, bits, Slots
<1>3. CASE CarveFree \/ \E b \in Block : CarveFresh(b)
  <2> DEFINE w == KindOf(want)
  <2>1. PICK b \in Block : /\ HandOut(b) /\ b \in Slots(w) /\ b \notin alloc
                           /\ bumped' = bumped \cup {b}
                           /\ UNCHANGED <<GC_MODE, GC_THRESH, GC_LIVE, marking>>
    BY <1>3, Carved
  <2>2. alloc' = alloc \cup {b}
    BY <2>1 DEF HandOut
  <2>3. w \in Kinds
    BY BlocksAreApart DEF HeapTypeOK
  <2>4. CASE k # w
    <3>1. b \notin Slots(k)
      BY <2>1, <2>3, <2>4, BlocksAreApart
    <3>2. free'[k] = free[k]
      BY <1>3, <2>3, <2>4 DEF CarveFree, CarveFresh, HeapTypeOK, Kinds
    <3>. QED BY <1>1, <2>1, <2>2, <3>1, <3>2 DEF Exact, Slots
  <2>5. CASE k = w /\ CarveFree
    <3>1. free[k] # <<>> /\ free'[k] = Tail(free[k]) /\ HandOut(Head(free[k]))
      BY <1>1, <2>5 DEF CarveFree, HeapTypeOK, Kinds
    <3>2. /\ IsInjective(Tail(free[k])) /\ Range(Tail(free[k])) = Range(free[k]) \ {Head(free[k])}
          /\ Head(free[k]) \in Range(free[k])
      BY <1>1, <3>1, Popped DEF Exact
    <3>3. alloc' = alloc \cup {Head(free[k])} /\ UNCHANGED <<GC_MODE, bumped>>
      BY <2>5, <3>1 DEF CarveFree, HandOut
    <3>. QED BY <1>1, <3>1, <3>2, <3>3 DEF Exact, Slots
  <2>6. CASE k = w /\ \E c \in Block : CarveFresh(c)
    <3>1. PICK c \in Block : CarveFresh(c)
      BY <2>6
    <3>2. free' = free /\ alloc' = alloc \cup {c} /\ bumped' = bumped \cup {c} /\ c \notin bumped
      BY <3>1 DEF CarveFresh, HandOut, IsFirst
    <3>. QED BY <1>1, <2>1, <3>2 DEF Exact, Slots
  <2>. QED BY <1>3, <2>4, <2>5, <2>6
<1>4. ASSUME NEW b \in Block, SweepFree(b) PROVE Exact(k)'
  <2>1. b \in alloc /\ b \in bumped /\ alloc' = alloc \ {b} /\ UNCHANGED <<GC_MODE, bumped>> /\ Retire(b)
    BY <1>4 DEF SweepFree, HeapTypeOK
  <2>2. CASE GC_MODE = "poison"
    BY <1>1, <2>1, <2>2 DEF Exact, Retire
  <2>3. CASE GC_MODE # "poison" /\ k # Partition(b)
    <3>1. free'[k] = free[k] /\ b \notin Slots(k)
      BY <2>1, <2>3, BlocksAreApart DEF Retire, Link, HeapTypeOK, Kinds
    <3>. QED BY <1>1, <2>1, <3>1 DEF Exact, Slots
  <2>4. CASE GC_MODE # "poison" /\ k = Partition(b)
    <3>1. free'[k] = <<b>> \o free[k] /\ b \in Slots(k)
      BY <2>1, <2>4, BlocksAreApart DEF Retire, Link, HeapTypeOK, Kinds
    <3>2. b \notin Range(free[k]) /\ IsInjective(free[k])
      BY <1>1, <2>1 DEF Exact
    <3>3. IsInjective(<<b>> \o free[k]) /\ Range(<<b>> \o free[k]) = Range(free[k]) \cup {b}
      BY <1>1, <3>2, Pushed
    <3>. QED BY <1>1, <2>1, <2>4, <3>1, <3>3 DEF Exact, Slots
  <2>. QED BY <2>2, <2>3, <2>4
<1>. QED BY <1>2, <1>3, <1>4
         DEF CollectorNext, Program, Collection, Load, Write, Drop, Overwrite, Request, Roots, Trace, Drained,
             SweepPast, Swept

-----------------------------------------------------------------------------
(* The heap.                                                               *)

LEMMA HeapInit == CollectorInit => HeapInv /\ FoundInv
BY BlocksAreApart DEF CollectorInit, HeapInv, UnownedInv, HeldInv, MarkInv, SweepInv, FoundInv, Held, Place

\* A step of the program that allocates nothing; what it can read is all in use.
LEMMA ProgramKeepsHeap ==
  ASSUME HeapTypeOK, HeapInv, Program
  PROVE  HeapInv'
<1> USE BlocksAreApart DEF HeapTypeOK, Place
<1>1. phase = "run" /\ Held = alloc /\ UNCHANGED <<alloc, mark, tag, GC_MSTACK>> /\ phase' \in {"run", "roots", "carve"}
  BY DEF Program, Load, Write, Drop, Overwrite, Request, memory, bits, marking, Held
<1>2. Held' = alloc
  BY <1>1 DEF Held
<1>3. MarkInv' /\ SweepInv'
  BY <1>1 DEF MarkInv, SweepInv
<1>4. ASSUME NEW x \in Block, NEW y \in Block, Load(x, y) PROVE UnownedInv' /\ HeldInv'
  <2>1. x \in alloc /\ y \in alloc /\ refs' = [refs EXCEPT ![CStack] = @ \cup {y}]
    BY <1>1, <1>4 DEF Load, HeapInv, HeldInv
  <2>2. refs'[CStack] = refs[CStack] \cup {y} /\ \A b \in Block : refs'[b] = refs[b]
    BY <2>1
  <2>. QED BY <1>1, <1>2, <2>1, <2>2 DEF HeapInv, HeldInv, UnownedInv
<1>5. ASSUME NEW x \in Block, NEW ys \in SUBSET Block, NEW old \in SUBSET junk[x], Write(x, ys, old)
      PROVE  UnownedInv' /\ HeldInv'
  <2>1. x \in alloc /\ ys \subseteq alloc /\ (\A y \in ys : tag[y] \in MayHold(tag[x]))
        /\ refs' = [refs EXCEPT ![x] = ys]
    BY <1>1, <1>5 DEF Write, HeapInv, HeldInv
  <2>2. refs'[CStack] = refs[CStack] /\ \A b \in Block : refs'[b] = IF b = x THEN ys ELSE refs[b]
    BY <2>1
  <2>. QED BY <1>1, <1>2, <2>1, <2>2 DEF HeapInv, HeldInv, UnownedInv
<1>6. ASSUME NEW y \in Block, NEW stays \in BOOLEAN, Drop(y, stays) PROVE UnownedInv' /\ HeldInv'
  <2>1. refs'[CStack] = refs[CStack] \ {y} /\ \A b \in Block : refs'[b] = refs[b]
    BY <1>6 DEF Drop
  <2>. QED BY <1>1, <1>2, <2>1 DEF HeapInv, HeldInv, UnownedInv
<1>7. ASSUME UNCHANGED refs PROVE UnownedInv' /\ HeldInv'
  BY <1>1, <1>2, <1>7 DEF HeapInv, HeldInv, UnownedInv
<1>8. UnownedInv' /\ HeldInv'
  BY <1>4, <1>5, <1>6, <1>7 DEF Program, Overwrite, Request, memory
<1>. QED BY <1>3, <1>8 DEF HeapInv

\* The block that is handed out was nobody's.
LEMMA CarveKeepsHeap ==
  ASSUME HeapTypeOK, FreeListsAreExact, HeapInv, CarveFree \/ \E b \in Block : CarveFresh(b)
  PROVE  HeapInv'
<1> USE BlocksAreApart DEF HeapTypeOK, Place
<1>1. PICK b \in Block : /\ HandOut(b) /\ b \in Slots(KindOf(want)) /\ b \notin alloc
                         /\ bumped' = bumped \cup {b}
                         /\ UNCHANGED <<GC_MODE, GC_THRESH, GC_LIVE, marking>>
  BY Carved
<1>2. phase = "carve" /\ phase' = "run" /\ Held = alloc /\ Held' = alloc \cup {b}
  BY <1>1 DEF CarveFree, CarveFresh, HandOut, Held
<1>3. /\ refs'[CStack] = refs[CStack] \cup {b} /\ \A c \in Block : refs'[c] = refs[c]
      /\ \A c \in Block \ {b} : tag'[c] = tag[c]
  BY <1>1 DEF HandOut
<1>4. refs[b] = {}
  BY <1>1 DEF HeapInv, UnownedInv
<1>5. HeldInv'
  BY <1>1, <1>2, <1>3, <1>4 DEF HeapInv, HeldInv
<1>6. UnownedInv'
  BY <1>1, <1>3 DEF HeapInv, UnownedInv, HandOut
<1>7. MarkInv' /\ SweepInv'
  BY <1>2 DEF MarkInv, SweepInv
<1>. QED BY <1>5, <1>6, <1>7 DEF HeapInv

LEMMA MarkingKeepsHeap ==
  ASSUME HeapTypeOK, HeapInv, Roots \/ Drained \/ \E b \in Block : Trace(b)
  PROVE  HeapInv'
<1> USE BlocksAreApart DEF HeapTypeOK, Place
<1>1. phase \in {"roots", "drain"} /\ Held = alloc /\ UNCHANGED <<alloc, tag, refs>>
  BY DEF Roots, Drained, Trace, Held, memory, bits
<1>2. UnownedInv'
  BY <1>1 DEF HeapInv, UnownedInv
<1>3. CASE Roots
  <2>1. phase' = "drain" /\ mark' = GC_MSTACK' /\ refs[CStack] \cap alloc \subseteq mark'
    BY <1>3 DEF Roots, ClearMarks
  <2>2. refs[CStack] \subseteq mark'
    BY <1>1, <2>1 DEF HeapInv, HeldInv
  <2>3. Held' = alloc
    BY <1>1, <2>1 DEF Held
  <2>. QED BY <1>1, <1>2, <2>1, <2>2, <2>3 DEF HeapInv, HeldInv, MarkInv, SweepInv
<1>4. ASSUME NEW b \in Block, Trace(b) PROVE HeapInv'
  <2> DEFINE found == Unmarked(Follows(b) \cup MarksOnly(b))
  <2>1. /\ phase = "drain" /\ phase' = "drain" /\ b \in GC_MSTACK /\ mark' = mark \cup found
        /\ GC_MSTACK' = (GC_MSTACK \ {b}) \cup (found \cap Follows(b))
    BY <1>4 DEF Trace
  <2>2. b \in alloc /\ refs[b] \subseteq alloc /\ \A y \in refs[b] : tag[y] \in MayHold(tag[b])
    BY <1>1, <2>1 DEF HeapInv, HeldInv
  <2>3. refs[b] \subseteq mark'
    BY <2>1, <2>2 DEF Unmarked, Follows, MarksOnly, Tags, CellTags, RawTags
  <2>4. ASSUME NEW c \in found \ Follows(b) PROVE refs[c] = {}
    <3>1. tag[b] = "string" /\ c \in refs[b]
      BY <2>4 DEF Unmarked, MarksOnly
    <3>2. tag[c] = "text" /\ c \in alloc
      BY <2>2, <3>1 DEF MayHold
    <3>3. MayHold("text") = {}
      BY DEF MayHold
    <3>. QED BY <1>1, <3>2, <3>3 DEF HeapInv, HeldInv
  <2>5. ASSUME NEW c \in mark' \ GC_MSTACK' PROVE refs[c] \subseteq mark'
    <3>1. CASE c = b
      BY <2>3, <3>1
    <3>2. CASE c \in mark /\ c # b
      BY <2>1, <2>5, <3>2 DEF HeapInv, MarkInv
    <3>3. CASE c \in found
      BY <2>1, <2>4, <2>5, <3>3
    <3>. QED BY <2>1, <3>1, <3>2, <3>3
  <2>6. Held' = alloc
    BY <1>1, <2>1 DEF Held
  <2>7. MarkInv'
    BY <1>1, <2>1, <2>5 DEF HeapInv, MarkInv
  <2>8. SweepInv'
    BY <2>1 DEF SweepInv
  <2>9. HeldInv'
    BY <1>1, <2>6 DEF HeapInv, HeldInv
  <2>. QED BY <1>2, <2>7, <2>8, <2>9 DEF HeapInv
<1>5. CASE Drained
  <2>1. phase = "drain" /\ GC_MSTACK = {} /\ phase' = "sweep" /\ todo' = bumped /\ UNCHANGED <<mark, GC_MSTACK>>
    BY <1>5 DEF Drained
  <2>2. Held' = mark
    BY <2>1 DEF Held
  <2>3. refs[CStack] \subseteq mark /\ \A b \in mark : refs[b] \subseteq mark
    BY <2>1 DEF HeapInv, MarkInv
  <2>4. HeldInv'
    BY <1>1, <2>2, <2>3 DEF HeapInv, HeldInv
  <2>5. MarkInv' /\ SweepInv'
    BY <1>1, <2>1 DEF MarkInv, SweepInv
  <2>. QED BY <1>2, <2>4, <2>5 DEF HeapInv
<1>. QED BY <1>3, <1>4, <1>5

LEMMA SweepKeepsHeap ==
  ASSUME HeapTypeOK, HeapInv, Swept \/ \E b \in Block : SweepFree(b) \/ SweepPast(b)
  PROVE  HeapInv'
<1> USE BlocksAreApart DEF HeapTypeOK, Place
<1>1. /\ phase = "sweep" /\ Held = mark /\ UNCHANGED mark
      /\ refs[CStack] \subseteq mark
      /\ \A b \in mark : \A y \in refs[b] : y \in mark /\ tag[y] \in MayHold(tag[b])
  BY DEF Swept, SweepFree, SweepPast, Held, marking, HeapInv, HeldInv
<1>2. ASSUME NEW b \in Block, SweepFree(b) PROVE HeapInv'
  <2>1. /\ b \in alloc \ mark /\ alloc' = alloc \ {b} /\ todo' = todo \ {b} /\ phase' = "sweep"
        /\ tag' = [tag EXCEPT ![b] = "text"] /\ Retire(b)
    BY <1>1, <1>2 DEF SweepFree
  <2>2. refs' = [refs EXCEPT ![b] = {}]
    BY <2>1 DEF Retire, Link
  <2>3. /\ refs'[CStack] = refs[CStack] /\ \A c \in Block : refs'[c] = IF c = b THEN {} ELSE refs[c]
        /\ \A c \in Block \ {b} : tag'[c] = tag[c]
    BY <2>1, <2>2
  <2>4. Held' = mark
    BY <1>1, <2>1 DEF Held
  <2>5. HeldInv'
    BY <1>1, <2>1, <2>3, <2>4 DEF HeldInv
  <2>6. UnownedInv'
    BY <2>1, <2>3 DEF HeapInv, UnownedInv
  <2>7. MarkInv' /\ SweepInv'
    BY <1>1, <2>1 DEF HeapInv, MarkInv, SweepInv
  <2>. QED BY <2>5, <2>6, <2>7 DEF HeapInv
<1>3. ASSUME NEW b \in Block, SweepPast(b) PROVE HeapInv'
  <2>1. /\ b \notin alloc \ mark /\ todo' = todo \ {b} /\ phase' = "sweep"
        /\ UNCHANGED <<alloc, refs, tag>>
    BY <1>1, <1>3 DEF SweepPast, memory, bits
  <2>2. Held' = mark
    BY <1>1, <2>1 DEF Held
  <2>3. HeldInv' /\ UnownedInv'
    BY <1>1, <2>1, <2>2 DEF HeapInv, HeldInv, UnownedInv
  <2>4. MarkInv' /\ SweepInv'
    BY <1>1, <2>1 DEF HeapInv, MarkInv, SweepInv
  <2>. QED BY <2>3, <2>4 DEF HeapInv
<1>4. CASE Swept
  <2>1. todo = {} /\ phase' = "carve" /\ UNCHANGED <<alloc, refs, tag>>
    BY <1>4 DEF Swept, memory, bits
  <2>2. alloc = mark /\ Held' = mark
    BY <1>1, <2>1 DEF HeapInv, SweepInv, Held
  <2>3. HeldInv' /\ UnownedInv'
    BY <1>1, <2>1, <2>2 DEF HeapInv, HeldInv, UnownedInv
  <2>4. MarkInv' /\ SweepInv'
    BY <2>1 DEF MarkInv, SweepInv
  <2>. QED BY <2>3, <2>4 DEF HeapInv
<1>. QED BY <1>2, <1>3, <1>4

LEMMA HeapStep == HeapTypeOK /\ FreeListsAreExact /\ HeapInv /\ [CollectorNext]_collectorVars => HeapInv'
<1>1. CASE UNCHANGED collectorVars
  BY <1>1 DEF collectorVars, memory, bits, marking, HeapInv, UnownedInv, HeldInv, MarkInv, SweepInv, Held
<1>. QED BY <1>1, ProgramKeepsHeap, CarveKeepsHeap, MarkingKeepsHeap, SweepKeepsHeap
         DEF CollectorNext, Collection

-----------------------------------------------------------------------------
(* What is marked was found.                                               *)

LEMMA FoundStep == HeapTypeOK /\ HeapInv /\ FoundInv /\ [CollectorNext]_collectorVars => FoundInv'
<1> SUFFICES ASSUME HeapTypeOK, FoundInv, [CollectorNext]_collectorVars, phase' \in {"drain", "sweep"},
                    NEW S \in SUBSET Block, Words(CStack)' \subseteq S,
                    \A x \in S \cap mark' : Words(x)' \subseteq S
             PROVE  mark' \subseteq S
  BY DEF FoundInv
<1> USE BlocksAreApart DEF HeapTypeOK, Place
<1>1. CASE Roots
  BY <1>1 DEF Roots, ClearMarks, Words, memory
<1>2. ASSUME NEW b \in Block, Trace(b) PROVE mark' \subseteq S
  <2>1. /\ b \in mark /\ mark \subseteq mark' /\ UNCHANGED <<refs, junk>>
        /\ mark' \subseteq mark \cup Follows(b) \cup MarksOnly(b)
    BY <1>2 DEF Trace, Unmarked, memory
  <2>2. Follows(b) \cup MarksOnly(b) \subseteq Words(b)
    BY DEF Follows, MarksOnly, Words, Tags, CellTags, RawTags
  <2>3. mark \subseteq S
    BY <1>2, <2>1 DEF Trace, FoundInv, Words
  <2>4. Words(b) \subseteq S
    BY <2>1, <2>3 DEF Words
  <2>. QED BY <2>1, <2>2, <2>3, <2>4
<1>3. ASSUME NEW b \in Block, SweepFree(b) PROVE mark' \subseteq S
  <2>1. b \notin mark /\ phase = "sweep" /\ UNCHANGED mark
    BY <1>3 DEF SweepFree
  <2>2. \A p \in Place \ {b} : refs'[p] = refs[p] /\ junk'[p] = junk[p]
    BY <1>3 DEF SweepFree, Retire, Link
  <2>3. Words(CStack) \subseteq S /\ \A x \in S \cap mark : Words(x) \subseteq S
    BY <2>1, <2>2 DEF Words
  <2>. QED BY <2>1, <2>3 DEF FoundInv
<1>4. CASE UNCHANGED <<refs, junk, mark>> /\ phase \in {"drain", "sweep"}
  BY <1>4 DEF FoundInv, Words
<1>5. phase' \notin {"drain", "sweep"} \/ UNCHANGED <<refs, junk, mark>> \/ Roots
      \/ \E b \in Block : Trace(b) \/ SweepFree(b)
  BY DEF CollectorNext, Program, Collection, Load, Write, Drop, Overwrite, Request, CarveFree, CarveFresh, HandOut,
         Drained, SweepPast, Swept, collectorVars, memory, marking
<1>6. phase \in {"drain", "sweep"} \/ Roots
  BY DEF CollectorNext, Program, Collection, Load, Write, Drop, Overwrite, Request, CarveFree, CarveFresh, HandOut,
         Trace, Drained, SweepFree, SweepPast, Swept, collectorVars
<1>. QED BY <1>1, <1>2, <1>3, <1>4, <1>5, <1>6

-----------------------------------------------------------------------------
\* The invariant holds of every heap, with partitions of any size.
THEOREM CollectorInvariance == CollectorSpec => []CollectorInv
<1>1. CollectorInit => CollectorInv
  BY TypeInit, FreeInit, HeapInit DEF CollectorInv
<1>2. CollectorInv /\ [CollectorNext]_collectorVars => CollectorInv'
  BY TypeStep, FreeStep, HeapStep, FoundStep DEF CollectorInv
<1>. QED BY <1>1, <1>2, PTL DEF CollectorSpec

-----------------------------------------------------------------------------
(* What the inductive invariant gives: the properties of Collector, for    *)
(* partitions of any size, blocks and stacks with any number of words, and *)
(* that the collector implements ManagedHeap.                              *)

\* The bitmaps, lists and counters of the arena keep their shape; what is marked
\* is allocated (gc_mark).
THEOREM HeapTypes == CollectorSpec => []HeapTypeOK
<1>1. CollectorInv => HeapTypeOK
  BY DEF CollectorInv
<1>. QED BY <1>1, CollectorInvariance, PTL

\* No handle that the program can read is one of a block that was swept: gc_mark,
\* gc_trace and gc_sweep together, in every mode of MEC_GC.
THEOREM HandlesAreLive == CollectorSpec => []NoDangling
<1>1. CollectorInv => NoDangling
  BY BlocksAreApart DEF CollectorInv, HeapInv, HeldInv, NoDangling, Readable, Held, HeapTypeOK, Place
<1>. QED BY <1>1, CollectorInvariance, PTL

\* A slot is on the free list of its partition if and only if it was used and is
\* not allocated, and is there once, so that ar_block hands it out once.
THEOREM FreeLists == CollectorSpec => []FreeListsAreExact
<1>1. CollectorInv => FreeListsAreExact
  BY DEF CollectorInv
<1>. QED BY <1>1, CollectorInvariance, PTL

\* All together: nothing in use is free.
THEOREM SlotsSound == CollectorSpec => []SlotsAreSound
  BY HeapTypes, HandlesAreLive, FreeLists, PTL DEF SlotsAreSound

\* A finished collection has left nothing that no word leads to (gc_clear_marks,
\* gc_sweep).
THEOREM GarbageGoes == CollectorSpec => SweepsAllGarbage
<1>1. CollectorInv /\ [CollectorNext]_collectorVars => [phase = "sweep" /\ phase' = "carve" => alloc \subseteq Findable]_collectorVars
  <2> SUFFICES ASSUME CollectorInv, CollectorNext, phase = "sweep", phase' = "carve", NEW b \in alloc PROVE b \in Findable
    OBVIOUS
  <2>1. todo = {}
    BY DEF CollectorNext, Program, Collection, Load, Write, Drop, Overwrite, Request, CarveFree, CarveFresh, HandOut,
           Roots, Trace, Drained, SweepFree, SweepPast, Swept
  <2>2. b \in mark /\ b \in Block
    BY <2>1 DEF CollectorInv, HeapInv, SweepInv, HeapTypeOK
  <2>3. ASSUME NEW S \in SUBSET Block, Words(CStack) \subseteq S, \A x \in S : Words(x) \subseteq S
        PROVE  mark \subseteq S
    BY <2>3 DEF CollectorInv, FoundInv
  <2>. QED BY <2>2, <2>3 DEF Findable
<1>. QED BY <1>1, CollectorInvariance, PTL DEF CollectorSpec, SweepsAllGarbage

-----------------------------------------------------------------------------
(* The refinement of ManagedHeap.                                          *)

\* What the program sees of the memory: the words of blocks that are in use.
Seen == [p \in Place |-> IF p = CStack \/ p \in alloc THEN refs[p] ELSE {}]

LEMMA StartsEmpty == CollectorInit => Heap!Init
BY BlocksAreApart DEF CollectorInit, Heap!Init, Place

\* A collection is over when the program goes on: its steps are the abstract ones.
LEMMA ProgramRefines == ASSUME CollectorInv, Program PROVE [Heap!Next]_(Heap!vars)
<1> USE BlocksAreApart DEF Place
<1>1. phase = "run" /\ Held = alloc /\ alloc' = alloc /\ alloc \subseteq Block /\ refs \in [Place -> SUBSET Block]
  BY DEF Program, Load, Write, Drop, Overwrite, Request, bits, Held, CollectorInv, HeapTypeOK
<1>2. refs[CStack] \subseteq alloc
  BY <1>1 DEF CollectorInv, HeapInv, HeldInv
<1>3. ASSUME NEW x \in Block, NEW y \in Block, Load(x, y) PROVE Heap!Load(x, y)
  <2>1. x \in alloc /\ x \in refs[CStack] /\ y \in refs[x] /\ refs' = [refs EXCEPT ![CStack] = @ \cup {y}]
    BY <1>2, <1>3 DEF Load
  <2>2. Seen' = [Seen EXCEPT ![CStack] = @ \cup {y}]
    BY <1>1, <2>1 DEF Seen
  <2>. QED BY <1>1, <2>1, <2>2 DEF Heap!Load, Seen
<1>4. ASSUME NEW x \in Block, NEW ys \in SUBSET Block, NEW old \in SUBSET junk[x], Write(x, ys, old)
      PROVE  Heap!Write(x, ys)
  <2>1. x \in alloc /\ x \in refs[CStack] /\ ys \subseteq refs[CStack] \cup refs[x] /\ refs' = [refs EXCEPT ![x] = ys]
    BY <1>2, <1>4 DEF Write
  <2>2. Seen' = [Seen EXCEPT ![x] = ys]
    BY <1>1, <2>1 DEF Seen
  <2>. QED BY <1>1, <2>1, <2>2 DEF Heap!Write, Seen
<1>5. ASSUME NEW y \in Block, NEW stays \in BOOLEAN, Drop(y, stays) PROVE Heap!Drop(y)
  <2>1. Seen' = [Seen EXCEPT ![CStack] = @ \ {y}]
    BY <1>1, <1>5 DEF Drop, Seen
  <2>. QED BY <1>1, <2>1 DEF Heap!Drop, Seen
<1>6. CASE Overwrite \/ \E t \in Tags : Request(t)
  BY <1>1, <1>6 DEF Overwrite, Request, memory, Heap!vars
<1>. QED BY <1>3, <1>4, <1>5, <1>6 DEF Program, Heap!Next

LEMMA CarveRefines ==
  ASSUME CollectorInv, CarveFree \/ \E b \in Block : CarveFresh(b)
  PROVE  Heap!Next
<1> USE BlocksAreApart DEF Place
<1>1. PICK b \in Block : /\ HandOut(b) /\ b \in Slots(KindOf(want)) /\ b \notin alloc
                         /\ bumped' = bumped \cup {b}
                         /\ UNCHANGED <<GC_MODE, GC_THRESH, GC_LIVE, marking>>
  BY Carved DEF CollectorInv
<1>2. /\ refs[b] = {} /\ alloc' = alloc \cup {b} /\ refs' = [refs EXCEPT ![CStack] = @ \cup {b}]
      /\ refs \in [Place -> SUBSET Block]
  BY <1>1 DEF CollectorInv, HeapInv, UnownedInv, HandOut, HeapTypeOK
<1>3. Seen' = [Seen EXCEPT ![b] = {}, ![CStack] = @ \cup {b}]
  BY <1>2 DEF Seen
<1>. QED BY <1>1, <1>2, <1>3 DEF Heap!Next, Heap!New, Seen

\* What a sweep takes is out of reach: the marks are closed under handles.
LEMMA SweepRefines ==
  ASSUME CollectorInv, NEW b \in Block, SweepFree(b)
  PROVE  Heap!Reclaim(b)
<1> USE BlocksAreApart DEF Place
<1>1. /\ phase = "sweep" /\ b \in alloc \ mark /\ alloc' = alloc \ {b} /\ Retire(b)
      /\ mark \subseteq alloc /\ alloc \subseteq Block /\ refs \in [Place -> SUBSET Block]
  BY DEF SweepFree, CollectorInv, HeapTypeOK
<1>2. refs' = [refs EXCEPT ![b] = {}]
  BY <1>1 DEF Retire, Link
<1>3. Seen' = [Seen EXCEPT ![b] = {}]
  BY <1>1, <1>2 DEF Seen
<1>4. mark \in SUBSET Block /\ Seen[CStack] \subseteq mark /\ \A x \in mark : Seen[x] \subseteq mark
  BY <1>1 DEF CollectorInv, HeapInv, HeldInv, Held, Seen
<1>5. b \notin Heap!Reach
  BY <1>1, <1>4 DEF Heap!Reach, Seen
<1>. QED BY <1>1, <1>3, <1>5 DEF Heap!Reclaim, Seen

\* The collector implements the heap the program relies on: what it can still get
\* at is never reclaimed, whenever an allocation collects.
THEOREM CollectorImplementsHeap == CollectorSpec => ImplementsHeap
<1>1. CollectorInv /\ [CollectorNext]_collectorVars => [Heap!Next]_(Heap!vars)
  <2> SUFFICES ASSUME CollectorInv, [CollectorNext]_collectorVars PROVE [Heap!Next]_(Heap!vars)
    OBVIOUS
  <2>1. CASE UNCHANGED <<alloc, refs>>
    BY <2>1 DEF Heap!vars
  <2>2. CASE \E b \in Block : SweepFree(b)
    BY <2>2, SweepRefines DEF Heap!Next
  <2>3. UNCHANGED <<alloc, refs>> \/ Program \/ CarveFree \/ (\E b \in Block : CarveFresh(b) \/ SweepFree(b))
    BY DEF CollectorNext, Collection, Roots, Trace, Drained, SweepPast, Swept, collectorVars, memory, bits
  <2>. QED BY <2>1, <2>2, <2>3, ProgramRefines, CarveRefines
<1>. QED BY <1>1, StartsEmpty, CollectorInvariance, PTL DEF CollectorSpec, ImplementsHeap, Heap!Spec
=============================================================================
