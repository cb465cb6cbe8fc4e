---------------------------- MODULE GenTwinProof ----------------------------
(***************************************************************************)
(* The goroutines of the Go twin: an inductive invariant of GenTwin, and   *)
(* the theorems that follow from it for any number of generators and any   *)
(* depth of calls and try statements.  The second half is the refinement   *)
(* of the generator protocol, GenProtocol.                                 *)
(***************************************************************************)
EXTENDS GenTwin, FiniteSetTheorems, WellFoundedInduction, TLAPS

-----------------------------------------------------------------------------
(* The invariant.                                                          *)

Ops == {"next", "return", "throw"}
Yields == {"value", "done", "panic"}
Entry == [of : Stack, at : Nat]
Frame == [kind : {"call", "try"}, phase : {"body", "try", "catch", "finally"}, depth : Nat,
          catch : BOOLEAN, fin : BOOLEAN, pend : Exc \cup {None}]
Fields == [made : BOOLEAN, started : BOOLEAN, done : BOOLEAN, saved : Seq(Entry)]
Locals == [op : Ops \cup Yields \cup {None}, g : Gen \cup {None}, v : Exc, this : Seq(Entry), prev : Gen \cup {None}]

TypeInv ==
  /\ gens \in [Gen -> Fields]
  /\ pc \in [Stack -> {"none", "run", "send", "recv", "yield", "parked", "ended"}]
  /\ wait \in [Stack -> Locals]
  /\ frames \in [Stack -> Seq(Frame)]
  /\ \A s \in Stack : Len(frames[s]) <= MaxFrames
  /\ exc \in [Stack -> Exc \cup {None}]
  /\ thisStack \in Seq(Entry) /\ curGen \in Gen \cup {None}
  /\ over \in BOOLEAN

\* The first frame is a call, and the k-th entry of thisStack is that of the k-th frame, so
\* a try statement that is the k-th frame was entered at depth k - 1.
FrameInv ==
  \A s \in Stack :
    /\ frames[s] # <<>> => frames[s][1].kind = "call"
    /\ \A i \in 1 .. Len(frames[s]) : frames[s][i].kind = "try" => frames[s][i].depth = i - 1

\* One goroutine is active, and each body that has the control or has lent it has one resumer.
SchedInv ==
  /\ \E s \in Stack : Active(s)
  /\ \A s, t \in Stack : Active(s) /\ Active(t) => s = t
  /\ pc[Main] \in {"run", "send", "recv"}
  /\ \A s \in Stack : pc[s] = "recv" =>
       wait[s].g \in Gen /\ (Active(wait[s].g) \/ pc[wait[s].g] = "recv")
  /\ \A s, t \in Stack : pc[s] = "recv" /\ pc[t] = "recv" /\ wait[s].g = wait[t].g => s = t
  /\ \A g \in Gen : Active(g) \/ pc[g] = "recv" =>
       \E s \in Stack : pc[s] = "recv" /\ wait[s].g = g

\* What the fields of a generator say of its goroutine.
FieldsInv ==
  \A g \in Gen :
    /\ gens[g].started => gens[g].made
    /\ pc[g] = "none" <=> ~gens[g].started
    /\ Active(g) \/ pc[g] = "recv" => ~gens[g].done
    /\ pc[g] = "ended" => gens[g].done

Own(s) == IF s = Main THEN None ELSE s

\* Every stack is where its owner will look for it: in thisStack, in the locals of a
\* step(), or in the fields of a generator.
StacksInv ==
  \A s \in Stack :
    /\ pc[s] = "run" =>
         /\ curGen = Own(s) /\ IsPrefix(Calls(s), thisStack)
         /\ exc[s] = None => thisStack = Calls(s) /\ frames[s] # <<>>
    /\ pc[s] \in {"send", "recv"} =>
         /\ wait[s].op \in Ops /\ wait[s].this = Calls(s) /\ wait[s].prev = Own(s)
         /\ exc[s] = None /\ frames[s] # <<>>
    /\ pc[s] = "send" =>
         /\ wait[s].g \in Gen /\ gens[wait[s].g].started /\ ~gens[wait[s].g].done
         /\ curGen = wait[s].g /\ thisStack = gens[wait[s].g].saved
    /\ pc[s] = "yield" =>
         /\ wait[s].g = s /\ wait[s].op \in Yields
         /\ wait[s].op = "value" => thisStack = Calls(s) /\ frames[s] # <<>>
    /\ pc[s] \in {"none", "parked"} =>
         exc[s] = None /\ gens[s].saved = Calls(s) /\ (pc[s] = "none" => frames[s] = <<>>)

IInv == TypeInv /\ FrameInv /\ SchedInv /\ FieldsInv /\ StacksInv

-----------------------------------------------------------------------------
(* Sequences of entries.                                                   *)

LEMMA Indices ==
  ASSUME NEW S, NEW q \in Seq(S)
  PROVE  /\ Len(q) \in Nat
         /\ DOMAIN q = 1 .. Len(q)
         /\ \A i \in 1 .. Len(q) : q[i] \in S
         /\ q # <<>> <=> Len(q) > 0
  OBVIOUS

LEMMA Appended ==
  ASSUME NEW S, NEW q \in Seq(S), NEW x \in S
  PROVE  /\ Append(q, x) \in Seq(S)
         /\ Len(Append(q, x)) = Len(q) + 1
         /\ Append(q, x)[Len(q) + 1] = x
         /\ \A i \in 1 .. Len(q) : Append(q, x)[i] = q[i]
  OBVIOUS

LEMMA Cut ==
  ASSUME NEW S, NEW q \in Seq(S), NEW k \in 0 .. Len(q)
  PROVE  /\ SubSeq(q, 1, k) \in Seq(S)
         /\ Len(SubSeq(q, 1, k)) = k
         /\ \A i \in 1 .. k : SubSeq(q, 1, k)[i] = q[i]
  OBVIOUS

LEMMA Fronts ==
  ASSUME NEW S, NEW q \in Seq(S), q # <<>>
  PROVE  /\ Front(q) \in Seq(S)
         /\ Len(Front(q)) = Len(q) - 1
         /\ \A i \in 1 .. Len(q) - 1 : Front(q)[i] = q[i]
         /\ Last(q) = q[Len(q)] /\ Last(q) \in S
<1>1. Len(q) \in Nat /\ Len(q) > 0 /\ q[Len(q)] \in S
  BY Indices
<1>2. Len(q) - 1 \in 0 .. Len(q) /\ Front(q) = SubSeq(q, 1, Len(q) - 1) /\ Last(q) = q[Len(q)]
  BY <1>1 DEF Front, Last
<1>. QED BY <1>1, <1>2, Cut

LEMMA SameElements ==
  ASSUME NEW S, NEW p \in Seq(S), NEW q \in Seq(S), Len(p) = Len(q), \A i \in 1 .. Len(p) : p[i] = q[i]
  PROVE  p = q
  OBVIOUS

LEMMA PrefixMeans ==
  ASSUME NEW S, NEW p \in Seq(S), NEW q \in Seq(S)
  PROVE  IsPrefix(p, q) <=> Len(p) <= Len(q) /\ \A i \in 1 .. Len(p) : p[i] = q[i]
<1>1. Len(p) \in Nat /\ Len(q) \in Nat
  OBVIOUS
<1>2. CASE Len(p) <= Len(q)
  <2>1. Len(p) \in 0 .. Len(p) /\ Len(p) \in 0 .. Len(q)
    BY <1>1, <1>2
  <2>2. /\ SubSeq(p, 1, Len(p)) \in Seq(S) /\ SubSeq(q, 1, Len(p)) \in Seq(S)
        /\ Len(SubSeq(p, 1, Len(p))) = Len(p) /\ Len(SubSeq(q, 1, Len(p))) = Len(p)
        /\ \A i \in 1 .. Len(p) : SubSeq(p, 1, Len(p))[i] = p[i] /\ SubSeq(q, 1, Len(p))[i] = q[i]
    BY <2>1, Cut
  <2>3. SubSeq(p, 1, Len(p)) = SubSeq(q, 1, Len(p)) <=> \A i \in 1 .. Len(p) : p[i] = q[i]
    BY <2>2, SameElements
  <2>. QED BY <1>2, <2>3 DEF IsPrefix
<1>3. CASE ~(Len(p) <= Len(q))
  BY <1>3 DEF IsPrefix
<1>. QED BY <1>2, <1>3

\* The entries of the first n calls of s.
CallsTo(s, n) == [i \in 1 .. n |-> Mine(s, i)]

LEMMA EntriesAre ==
  ASSUME NEW s \in Stack, NEW n \in Nat
  PROVE  /\ CallsTo(s, n) \in Seq(Entry) /\ Len(CallsTo(s, n)) = n
         /\ \A i \in 1 .. n : CallsTo(s, n)[i] = Mine(s, i) /\ Mine(s, i) \in Entry
         /\ \A q \in Seq(Entry) :
              /\ q = CallsTo(s, n) <=> Len(q) = n /\ \A i \in 1 .. n : q[i] = Mine(s, i)
              /\ IsPrefix(CallsTo(s, n), q) <=> n <= Len(q) /\ \A i \in 1 .. n : q[i] = Mine(s, i)
<1>1. \A i \in 1 .. n : CallsTo(s, n)[i] = Mine(s, i) /\ Mine(s, i) \in Entry
  BY DEF CallsTo, Mine, Entry
<1>2. CallsTo(s, n) \in Seq(Entry) /\ Len(CallsTo(s, n)) = n
  BY <1>1 DEF CallsTo
<1>. QED BY <1>1, <1>2, SameElements, PrefixMeans

-----------------------------------------------------------------------------
(* What runs.                                                              *)

\* The running goroutine in terms of places.
LEMMA Running ==
  ASSUME IInv, NEW s \in Stack, pc[s] = "run"
  PROVE  /\ frames[s] \in Seq(Frame) /\ Len(frames[s]) \in Nat /\ Len(frames[s]) <= MaxFrames
         /\ thisStack \in Seq(Entry) /\ Len(thisStack) \in Nat /\ Len(frames[s]) <= Len(thisStack)
         /\ \A i \in 1 .. Len(frames[s]) : thisStack[i] = Mine(s, i)
         /\ exc[s] = None => Len(thisStack) = Len(frames[s]) /\ Len(frames[s]) > 0
         /\ exc[s] \in Exc \cup {None}
         /\ curGen = Own(s)
<1>1. frames[s] \in Seq(Frame) /\ thisStack \in Seq(Entry) /\ exc[s] \in Exc \cup {None}
  BY DEF IInv, TypeInv
<1>2. Len(frames[s]) \in Nat /\ Len(thisStack) \in Nat /\ (frames[s] # <<>> <=> Len(frames[s]) > 0)
  BY <1>1, Indices
<1>3. Calls(s) = CallsTo(s, Len(frames[s]))
  BY DEF Calls, CallsTo, Depth
<1>4. /\ curGen = Own(s) /\ IsPrefix(Calls(s), thisStack)
      /\ exc[s] = None => thisStack = Calls(s) /\ frames[s] # <<>>
  BY DEF IInv, StacksInv
<1>. QED BY <1>1, <1>2, <1>3, <1>4, EntriesAre DEF IInv, TypeInv

\* A step of the running goroutine that changes no more than its frames, its panic and thisStack.
LEMMA CodeStep ==
  ASSUME IInv, NEW s \in Stack, pc[s] = "run", UNCHANGED generators, over' \in BOOLEAN,
         NEW fs \in Seq(Frame), frames' = [frames EXCEPT ![s] = fs], Len(fs) <= MaxFrames,
         fs # <<>> => fs[1].kind = "call",
         \A i \in 1 .. Len(fs) : fs[i].kind = "try" => fs[i].depth = i - 1,
         NEW x \in Exc \cup {None}, exc' = [exc EXCEPT ![s] = x],
         thisStack' \in Seq(Entry), Len(fs) <= Len(thisStack'),
         \A i \in 1 .. Len(fs) : thisStack'[i] = Mine(s, i),
         x = None => Len(thisStack') = Len(fs) /\ Len(fs) > 0
  PROVE  IInv'
<1>1. UNCHANGED <<gens, pc, wait, curGen>>
  BY DEF generators
<1>2. TypeInv /\ FrameInv /\ SchedInv /\ FieldsInv /\ StacksInv
  BY DEF IInv
<1>3. frames'[s] = fs /\ exc'[s] = x /\ \A t \in Stack \ {s} : frames'[t] = frames[t] /\ exc'[t] = exc[t]
  BY <1>2 DEF TypeInv
<1>4. TypeInv'
  BY <1>1, <1>2, <1>3 DEF TypeInv
<1>5. FrameInv'
  BY <1>2, <1>3 DEF FrameInv
<1>6. SchedInv' /\ FieldsInv'
  BY <1>1, <1>2 DEF SchedInv, FieldsInv, Active
<1>7. \A t \in Stack \ {s} : Calls(t)' = Calls(t) /\ ~Active(t)
  BY <1>2, <1>3 DEF Calls, Depth, SchedInv, Active
<1>8. Calls(s)' = CallsTo(s, Len(fs))
  BY <1>3 DEF Calls, CallsTo, Depth
<1>9. Len(fs) \in Nat /\ (fs # <<>> <=> Len(fs) > 0)
  BY Indices
<1>10. IsPrefix(Calls(s)', thisStack') /\ (x = None => thisStack' = Calls(s)' /\ frames'[s] # <<>>)
  BY <1>3, <1>8, <1>9, EntriesAre
<1>11. StacksInv'
  BY <1>1, <1>2, <1>3, <1>7, <1>10 DEF StacksInv, Active, Own
<1>. QED BY <1>4, <1>5, <1>6, <1>11 DEF IInv

-----------------------------------------------------------------------------
(* Calls, throws and try statements.                                       *)

LEMMA PushStep ==
  ASSUME IInv, NEW s \in Stack, pc[s] = "run", exc[s] = None, UNCHANGED <<exc, over>>, UNCHANGED generators,
         NEW f \in Frame, f.kind = "try" => f.depth = Len(frames[s]), Push(s, f)
  PROVE  IInv'
<1> DEFINE fs == Append(frames[s], f)
           n == Len(frames[s])
<1>1. /\ frames[s] \in Seq(Frame) /\ n \in Nat /\ n < MaxFrames /\ n > 0
      /\ thisStack \in Seq(Entry) /\ Len(thisStack) = n
      /\ \A i \in 1 .. n : thisStack[i] = Mine(s, i)
  BY Running DEF Push, Depth
<1>2. fs \in Seq(Frame) /\ Len(fs) = n + 1 /\ fs[n + 1] = f /\ \A i \in 1 .. n : fs[i] = frames[s][i]
  BY <1>1, Appended
<1>3. frames' = [frames EXCEPT ![s] = fs] /\ thisStack' = Append(thisStack, Mine(s, n + 1))
  BY DEF Push, Depth
<1>4. Mine(s, n + 1) \in Entry
  BY <1>1 DEF Mine, Entry
<1>5. /\ thisStack' \in Seq(Entry) /\ Len(thisStack') = n + 1 /\ thisStack'[n + 1] = Mine(s, n + 1)
      /\ \A i \in 1 .. n : thisStack'[i] = thisStack[i]
  BY <1>1, <1>3, <1>4, Appended
<1>6. /\ fs[1].kind = "call"
      /\ \A i \in 1 .. Len(fs) : fs[i].kind = "try" => fs[i].depth = i - 1
  BY <1>1, <1>2 DEF IInv, FrameInv
<1>7. exc' = [exc EXCEPT ![s] = None] /\ None \in Exc \cup {None} /\ over' \in BOOLEAN
  BY DEF IInv, TypeInv
<1> HIDE DEF fs, n
<1>8. /\ Len(fs) <= MaxFrames /\ Len(fs) <= Len(thisStack') /\ Len(thisStack') = Len(fs) /\ Len(fs) > 0
      /\ \A i \in 1 .. Len(fs) : thisStack'[i] = Mine(s, i)
  BY <1>1, <1>2, <1>5, FramesAssumption
<1>. QED BY <1>2, <1>3, <1>5, <1>6, <1>7, <1>8, CodeStep

LEMMA EnterInv == ASSUME IInv, NEW s \in Stack, Enter(s) PROVE IInv'
<1>1. pc[s] = "run" /\ exc[s] = None /\ UNCHANGED <<exc, over>> /\ UNCHANGED generators
  BY DEF Enter, Runs
<1>2. CASE Push(s, CallFrame)
  <2>1. CallFrame \in Frame /\ CallFrame.kind = "call"
    BY DEF CallFrame, Frame
  <2>. QED BY <1>1, <1>2, <2>1, PushStep
<1>3. ASSUME NEW c \in BOOLEAN, NEW f \in BOOLEAN, Push(s, TryFrame(c, f)) PROVE IInv'
  <2>1. TryFrame(c, f) \in Frame /\ TryFrame(c, f).depth = Len(frames[s])
    BY <1>1, Running DEF TryFrame, Frame
  <2>. QED BY <1>1, <1>3, <2>1, PushStep
<1>. QED BY <1>2, <1>3 DEF Enter

LEMMA LeaveInv == ASSUME IInv, NEW s \in Stack, Leave(s) PROVE IInv'
<1> DEFINE fs == Front(frames[s])
           n == Len(frames[s])
<1>1. /\ pc[s] = "run" /\ exc[s] = None /\ exc' = exc /\ over' = over /\ UNCHANGED generators
      /\ frames' = [frames EXCEPT ![s] = fs] /\ thisStack' = Front(thisStack) /\ n > 1
  BY DEF Leave, Runs, Depth
<1>2. /\ frames[s] \in Seq(Frame) /\ n \in Nat /\ n <= MaxFrames /\ Len(thisStack) = n
      /\ thisStack \in Seq(Entry) /\ \A i \in 1 .. n : thisStack[i] = Mine(s, i)
  BY <1>1, Running
<1>3. fs \in Seq(Frame) /\ Len(fs) = n - 1 /\ \A i \in 1 .. n - 1 : fs[i] = frames[s][i]
  <2>1. frames[s] # <<>>
    BY <1>1, <1>2
  <2>. QED BY <1>2, <2>1, Fronts
<1>4. /\ thisStack' \in Seq(Entry) /\ Len(thisStack') = n - 1
      /\ \A i \in 1 .. n - 1 : thisStack'[i] = thisStack[i]
  <2>1. thisStack # <<>>
    BY <1>1, <1>2
  <2>. QED BY <1>1, <1>2, <2>1, Fronts
<1>5. /\ fs[1].kind = "call"
      /\ \A i \in 1 .. Len(fs) : fs[i].kind = "try" => fs[i].depth = i - 1
  BY <1>1, <1>2, <1>3 DEF IInv, FrameInv
<1>6. exc' = [exc EXCEPT ![s] = None] /\ None \in Exc \cup {None} /\ over' \in BOOLEAN
  BY <1>1 DEF IInv, TypeInv
<1> HIDE DEF fs, n
<1>7. /\ Len(fs) <= MaxFrames /\ Len(fs) <= Len(thisStack') /\ Len(thisStack') = Len(fs) /\ Len(fs) > 0
      /\ \A i \in 1 .. Len(fs) : thisStack'[i] = Mine(s, i)
  BY <1>1, <1>2, <1>3, <1>4, FramesAssumption
<1>. QED BY <1>1, <1>3, <1>4, <1>5, <1>6, <1>7, CodeStep

LEMMA ThrowInv == ASSUME IInv, NEW s \in Stack, NEW v \in Val, Throw(s, v) PROVE IInv'
<1>1. /\ pc[s] = "run" /\ exc[s] = None /\ UNCHANGED <<frames, thisStack, over>> /\ UNCHANGED generators
      /\ exc' = [exc EXCEPT ![s] = v]
  BY DEF Throw, Runs
<1>2. /\ frames[s] \in Seq(Frame) /\ Len(frames[s]) <= MaxFrames /\ thisStack' \in Seq(Entry)
      /\ Len(frames[s]) <= Len(thisStack') /\ Len(thisStack') = Len(frames[s]) /\ Len(frames[s]) > 0
      /\ \A i \in 1 .. Len(frames[s]) : thisStack'[i] = Mine(s, i)
  BY <1>1, Running
<1>3. /\ frames[s] # <<>> => frames[s][1].kind = "call"
      /\ \A i \in 1 .. Len(frames[s]) : frames[s][i].kind = "try" => frames[s][i].depth = i - 1
  BY DEF IInv, FrameInv
<1>4. v \in Exc \cup {None} /\ frames' = [frames EXCEPT ![s] = frames[s]] /\ over' \in BOOLEAN
  BY <1>1 DEF IInv, TypeInv, Exc, UserVal
<1>. QED BY <1>1, <1>2, <1>3, <1>4, CodeStep

\* The innermost frame of the running goroutine.
LEMMA Innermost ==
  ASSUME IInv, NEW s \in Stack, pc[s] = "run", frames[s] # <<>>
  PROVE  LET n == Len(frames[s]) IN
         /\ n \in Nat /\ n > 0 /\ Top(s) = frames[s][n] /\ Top(s) \in Frame
         /\ Top(s).kind = "try" => n > 1 /\ Top(s).depth = n - 1
         /\ Front(frames[s]) \in Seq(Frame) /\ Len(Front(frames[s])) = n - 1
         /\ \A i \in 1 .. n - 1 : Front(frames[s])[i] = frames[s][i]
         /\ frames[s][1].kind = "call"
         /\ \A i \in 1 .. n : frames[s][i].kind = "try" => frames[s][i].depth = i - 1
<1>1. frames[s] \in Seq(Frame) /\ Len(frames[s]) \in Nat /\ Len(frames[s]) > 0
  BY Running, Indices
<1>2. /\ Front(frames[s]) \in Seq(Frame) /\ Len(Front(frames[s])) = Len(frames[s]) - 1
      /\ \A i \in 1 .. Len(frames[s]) - 1 : Front(frames[s])[i] = frames[s][i]
      /\ Top(s) = frames[s][Len(frames[s])] /\ Top(s) \in Frame
  BY <1>1, Fronts DEF Top
<1>3. /\ frames[s][1].kind = "call"
      /\ \A i \in 1 .. Len(frames[s]) : frames[s][i].kind = "try" => frames[s][i].depth = i - 1
  BY DEF IInv, FrameInv
<1>4. Top(s).kind = "try" => Len(frames[s]) > 1 /\ Top(s).depth = Len(frames[s]) - 1
  BY <1>1, <1>2, <1>3
<1>. QED BY <1>1, <1>2, <1>3, <1>4

LEMMA ClauseInv ==
  ASSUME IInv, NEW s \in Stack, pc[s] = "run", frames[s] # <<>>, Top(s).kind = "try",
         UNCHANGED over, UNCHANGED generators,
         NEW phase \in {"catch", "finally"}, NEW pend \in Exc \cup {None},
         Clause(s, phase, Len(frames[s]) - 1, pend)
  PROVE  IInv'
<1> DEFINE n == Len(frames[s])
           f == [Top(s) EXCEPT !.phase = phase, !.depth = n - 1, !.pend = pend]
           fs == Append(Front(frames[s]), f)
<1>1. /\ n \in Nat /\ n > 1 /\ Top(s) \in Frame
      /\ Front(frames[s]) \in Seq(Frame) /\ Len(Front(frames[s])) = n - 1
      /\ \A i \in 1 .. n - 1 : Front(frames[s])[i] = frames[s][i]
      /\ frames[s][1].kind = "call"
      /\ \A i \in 1 .. n : frames[s][i].kind = "try" => frames[s][i].depth = i - 1
  BY Innermost
<1>2. f \in Frame /\ f.depth = n - 1
  <2> HIDE DEF n
  <2>1. n - 1 \in Nat /\ Top(s) \in Frame
    BY <1>1
  <2>2. \A t \in Frame, d \in Nat :
          LET nf == [t EXCEPT !.phase = phase, !.depth = d, !.pend = pend] IN
          nf \in Frame /\ nf.depth = d
    BY DEF Frame
  <2>. QED BY <2>1, <2>2
<1>3. fs \in Seq(Frame) /\ Len(fs) = n /\ fs[n] = f /\ \A i \in 1 .. n - 1 : fs[i] = frames[s][i]
  <2> HIDE DEF f, n
  <2>. QED BY <1>1, <1>2, Appended
<1>4. /\ frames' = [frames EXCEPT ![s] = fs] /\ exc' = [exc EXCEPT ![s] = None]
      /\ thisStack' = Append(SubSeq(thisStack, 1, n - 1), Mine(s, n))
  BY DEF Clause, Depth
<1>5. /\ thisStack \in Seq(Entry) /\ Len(thisStack) \in Nat /\ n <= Len(thisStack) /\ n <= MaxFrames
      /\ \A i \in 1 .. n : thisStack[i] = Mine(s, i)
  BY Running
<1> HIDE DEF n, f, fs
<1>6. Mine(s, n) \in Entry
  BY <1>1 DEF Mine, Entry
<1>7. n - 1 \in 0 .. Len(thisStack)
  BY <1>1, <1>5
<1>8. /\ SubSeq(thisStack, 1, n - 1) \in Seq(Entry) /\ Len(SubSeq(thisStack, 1, n - 1)) = n - 1
      /\ \A i \in 1 .. n - 1 : SubSeq(thisStack, 1, n - 1)[i] = thisStack[i]
  BY <1>5, <1>7, Cut
<1>9. /\ thisStack' \in Seq(Entry) /\ Len(thisStack') = n /\ thisStack'[n] = Mine(s, n)
      /\ \A i \in 1 .. n - 1 : thisStack'[i] = thisStack[i]
  <2>1. n - 1 + 1 = n
    BY <1>1
  <2>. QED BY <1>4, <1>6, <1>8, <2>1, Appended
<1>10. /\ Len(fs) <= MaxFrames /\ Len(fs) <= Len(thisStack') /\ Len(thisStack') = Len(fs) /\ Len(fs) > 0
       /\ \A i \in 1 .. Len(fs) : thisStack'[i] = Mine(s, i)
  <2>1. \A i \in 1 .. n : i = n \/ i \in 1 .. n - 1
    BY <1>1
  <2>2. \A i \in 1 .. n : thisStack'[i] = Mine(s, i)
    BY <1>5, <1>9, <2>1
  <2>3. n <= n /\ n > 0
    BY <1>1
  <2>. QED BY <1>3, <1>5, <1>9, <2>2, <2>3
<1>11. /\ fs[1].kind = "call"
       /\ \A i \in 1 .. Len(fs) : fs[i].kind = "try" => fs[i].depth = i - 1
  BY <1>1, <1>2, <1>3
<1>12. None \in Exc \cup {None} /\ over' \in BOOLEAN
  BY DEF IInv, TypeInv
<1>. QED BY <1>3, <1>4, <1>9, <1>10, <1>11, <1>12, CodeStep

LEMMA TryEndsInv ==
  ASSUME IInv, NEW s \in Stack, pc[s] = "run", frames[s] # <<>>, Top(s).kind = "try",
         UNCHANGED over, UNCHANGED generators,
         NEW pend \in Exc \cup {None}, TryEnds(s, Len(frames[s]) - 1, pend)
  PROVE  IInv'
<1> DEFINE n == Len(frames[s])
           fs == Front(frames[s])
<1>1. /\ n \in Nat /\ n > 1 /\ fs \in Seq(Frame) /\ Len(fs) = n - 1
      /\ \A i \in 1 .. n - 1 : fs[i] = frames[s][i]
      /\ frames[s][1].kind = "call"
      /\ \A i \in 1 .. n : frames[s][i].kind = "try" => frames[s][i].depth = i - 1
  BY Innermost
<1>2. /\ frames' = [frames EXCEPT ![s] = fs] /\ exc' = [exc EXCEPT ![s] = pend]
      /\ thisStack' = SubSeq(thisStack, 1, n - 1)
  BY DEF TryEnds
<1>3. /\ thisStack \in Seq(Entry) /\ Len(thisStack) \in Nat /\ n <= Len(thisStack) /\ n <= MaxFrames
      /\ \A i \in 1 .. n : thisStack[i] = Mine(s, i)
  BY Running
<1> HIDE DEF n, fs
<1>4. n - 1 \in 0 .. Len(thisStack)
  BY <1>1, <1>3
<1>5. /\ thisStack' \in Seq(Entry) /\ Len(thisStack') = n - 1
      /\ \A i \in 1 .. n - 1 : thisStack'[i] = thisStack[i]
  BY <1>2, <1>3, <1>4, Cut
<1>6. /\ Len(fs) <= MaxFrames /\ Len(fs) <= Len(thisStack') /\ Len(thisStack') = Len(fs) /\ Len(fs) > 0
      /\ \A i \in 1 .. Len(fs) : thisStack'[i] = Mine(s, i)
  BY <1>1, <1>3, <1>5, FramesAssumption
<1>7. /\ fs[1].kind = "call"
      /\ \A i \in 1 .. Len(fs) : fs[i].kind = "try" => fs[i].depth = i - 1
  BY <1>1
<1>8. over' \in BOOLEAN
  BY DEF IInv, TypeInv
<1>. QED BY <1>1, <1>2, <1>5, <1>6, <1>7, <1>8, CodeStep

LEMMA AfterClauseInv ==
  ASSUME IInv, NEW s \in Stack, pc[s] = "run", frames[s] # <<>>, Top(s).kind = "try",
         UNCHANGED over, UNCHANGED generators,
         NEW pend \in Exc \cup {None}, AfterClause(s, Len(frames[s]) - 1, pend)
  PROVE  IInv'
<1>1. CASE Clause(s, "finally", Len(frames[s]) - 1, pend)
  BY <1>1, ClauseInv
<1>2. CASE TryEnds(s, Len(frames[s]) - 1, pend)
  BY <1>2, TryEndsInv
<1>. QED BY <1>1, <1>2 DEF AfterClause

LEMMA ClauseDoneInv == ASSUME IInv, NEW s \in Stack, ClauseDone(s) PROVE IInv'
<1>1. pc[s] = "run" /\ exc[s] = None /\ UNCHANGED over /\ UNCHANGED generators /\ Top(s).kind = "try"
  BY DEF ClauseDone, Runs
<1>2. frames[s] # <<>> /\ Len(thisStack) = Len(frames[s])
  BY <1>1, Running, Indices
<1>3. Top(s).pend \in Exc \cup {None} /\ None \in Exc \cup {None}
  BY <1>1, <1>2, Innermost DEF Frame
<1>. QED BY <1>1, <1>2, <1>3, AfterClauseInv DEF ClauseDone

LEMMA UnwindInv == ASSUME IInv, NEW s \in Stack, Unwind(s) PROVE IInv'
<1>1. pc[s] = "run" /\ exc[s] # None /\ frames[s] # <<>> /\ UNCHANGED over /\ UNCHANGED generators
  BY DEF Unwind
<1>2. exc[s] \in Exc \cup {None} /\ Top(s) \in Frame
  BY <1>1, Running, Innermost
<1>3. CASE Top(s).kind = "call"
  <2> DEFINE n == Len(frames[s])
             fs == Front(frames[s])
  <2>1. /\ n \in Nat /\ n > 0 /\ fs \in Seq(Frame) /\ Len(fs) = n - 1
        /\ \A i \in 1 .. n - 1 : fs[i] = frames[s][i]
        /\ frames[s][1].kind = "call"
        /\ \A i \in 1 .. n : frames[s][i].kind = "try" => frames[s][i].depth = i - 1
    BY <1>1, Innermost
  <2>2. frames' = [frames EXCEPT ![s] = fs] /\ exc' = [exc EXCEPT ![s] = exc[s]] /\ thisStack' = thisStack
    BY <1>3 DEF Unwind, IInv, TypeInv
  <2>3. /\ thisStack \in Seq(Entry) /\ Len(thisStack) \in Nat /\ n <= Len(thisStack) /\ n <= MaxFrames
        /\ \A i \in 1 .. n : thisStack[i] = Mine(s, i)
    BY <1>1, Running
  <2> HIDE DEF n, fs
  <2>4. /\ Len(fs) <= MaxFrames /\ Len(fs) <= Len(thisStack') /\ thisStack' \in Seq(Entry)
        /\ \A i \in 1 .. Len(fs) : thisStack'[i] = Mine(s, i)
    BY <2>1, <2>2, <2>3, FramesAssumption
  <2>5. /\ fs # <<>> => fs[1].kind = "call"
        /\ \A i \in 1 .. Len(fs) : fs[i].kind = "try" => fs[i].depth = i - 1
    BY <2>1, Indices
  <2>6. over' \in BOOLEAN
    BY <1>1 DEF IInv, TypeInv
  <2>. QED BY <1>1, <1>2, <2>1, <2>2, <2>4, <2>5, <2>6, CodeStep
<1>4. CASE Top(s).kind = "try"
  <2>1. Top(s).depth = Len(frames[s]) - 1
    BY <1>1, <1>4, Innermost
  <2>2. CASE Clause(s, "catch", Len(frames[s]) - 1, None)
    BY <1>1, <1>4, <2>2, ClauseInv
  <2>3. CASE AfterClause(s, Len(frames[s]) - 1, exc[s])
    BY <1>1, <1>2, <1>4, <2>3, AfterClauseInv
  <2>. QED BY <1>4, <2>1, <2>2, <2>3 DEF Unwind
<1>. QED BY <1>2, <1>3, <1>4 DEF Frame

LEMMA MainEndsInv == ASSUME IInv, MainEnds PROVE IInv'
<1>1. UNCHANGED <<gens, pc, wait, frames, exc, thisStack, curGen>> /\ over' \in BOOLEAN
  BY DEF MainEnds, generators
<1>2. TypeInv /\ FrameInv /\ SchedInv /\ FieldsInv /\ StacksInv
  BY DEF IInv
<1>3. TypeInv' /\ FrameInv' /\ SchedInv' /\ FieldsInv'
  <2>1. TypeInv'
    BY <1>1, <1>2 DEF TypeInv
  <2>2. FrameInv'
    BY <1>1, <1>2 DEF FrameInv
  <2>3. \A t : Active(t)' <=> Active(t)
    BY <1>1 DEF Active
  <2>4. SchedInv'
    BY <1>1, <1>2, <2>3, Zenon DEF SchedInv
  <2>5. FieldsInv'
    BY <1>1, <1>2, <2>3, Zenon DEF FieldsInv
  <2>. QED BY <2>1, <2>2, <2>4, <2>5
<1>4. \A t \in Stack : Calls(t)' = Calls(t)
  BY <1>1 DEF Calls, Depth
<1>5. StacksInv'
  BY <1>1, <1>2, <1>4 DEF StacksInv
<1>. QED BY <1>3, <1>5 DEF IInv

-----------------------------------------------------------------------------
(* Generators.                                                             *)

LEMMA CreateInv == ASSUME IInv, NEW g \in Gen, Create(g) PROVE IInv'
<1>1. TypeInv /\ FrameInv /\ SchedInv /\ FieldsInv /\ StacksInv
  BY DEF IInv
<1>2. UNCHANGED <<pc, wait, frames, exc, thisStack, curGen, over>> /\ gens' = [gens EXCEPT ![g].made = TRUE]
  BY DEF Create
<1>3. gens' \in [Gen -> Fields]
  BY <1>1, <1>2 DEF TypeInv, Fields
<1>4. \A h \in Gen : /\ gens'[h].started = gens[h].started /\ gens'[h].done = gens[h].done
                     /\ gens'[h].saved = gens[h].saved /\ (gens[h].made => gens'[h].made)
  BY <1>1, <1>2 DEF TypeInv, Fields
<1>5. TypeInv' /\ FrameInv' /\ SchedInv'
  BY <1>1, <1>2, <1>3 DEF TypeInv, FrameInv, SchedInv, Active
<1>6. FieldsInv'
  BY <1>1, <1>2, <1>4 DEF FieldsInv, Active
<1>7. \A t \in Stack : pc[t] \in {"none", "parked"} => t \in Gen
  BY <1>1 DEF SchedInv, Stack
<1>8. \A t \in Stack : Calls(t)' = Calls(t)
  BY <1>2 DEF Calls, Depth
<1>9. StacksInv'
  BY <1>1, <1>2, <1>4, <1>7, <1>8 DEF StacksInv
<1>. QED BY <1>5, <1>6, <1>9 DEF IInv

LEMMA AtOnceInv ==
  ASSUME IInv, NEW s \in Stack, NEW g \in Gen, NEW op \in Ops, NEW v \in Val, AtOnce(s, g, op, v)
  PROVE  IInv'
<1>1. TypeInv /\ FrameInv /\ SchedInv /\ FieldsInv /\ StacksInv
  BY DEF IInv
<1>2. /\ UNCHANGED <<pc, wait, frames, thisStack, curGen, over>> /\ gens' = [gens EXCEPT ![g].done = TRUE]
      /\ pc[s] = "run" /\ exc[s] = None /\ (gens[g].done \/ pc[g] = "none")
      /\ exc' = IF op = "throw" THEN [exc EXCEPT ![s] = v] ELSE exc
  BY <1>1 DEF AtOnce, Runs, FieldsInv
<1>3. gens' \in [Gen -> Fields] /\ exc' \in [Stack -> Exc \cup {None}]
  BY <1>1, <1>2 DEF TypeInv, Fields, Exc, UserVal
<1>4. \A h \in Gen : /\ gens'[h].started = gens[h].started /\ gens'[h].made = gens[h].made
                     /\ gens'[h].saved = gens[h].saved /\ (h # g => gens'[h].done = gens[h].done)
  BY <1>1, <1>2 DEF TypeInv, Fields
<1>5. gens'[g].done = TRUE
  BY <1>1, <1>2 DEF TypeInv, Fields
<1>6. TypeInv' /\ FrameInv' /\ SchedInv'
  BY <1>1, <1>2, <1>3 DEF TypeInv, FrameInv, SchedInv, Active
<1>7. FieldsInv'
  BY <1>1, <1>2, <1>4, <1>5 DEF FieldsInv, Active
<1>8. \A t \in Stack : pc[t] \in {"none", "parked"} => t \in Gen
  BY <1>1 DEF SchedInv, Stack
<1>9. \A t \in Stack : Calls(t)' = Calls(t) /\ (t # s => exc'[t] = exc[t] /\ ~Active(t))
  <2>1. \A t \in Stack : Calls(t)' = Calls(t)
    BY <1>2 DEF Calls, Depth
  <2>2. \A t \in Stack : t # s => exc'[t] = exc[t]
    <3>1. CASE op = "throw"
      BY <1>1, <1>2, <3>1 DEF TypeInv
    <3>2. CASE op # "throw"
      BY <1>2, <3>2
    <3>. QED BY <3>1, <3>2
  <2>3. \A t \in Stack : t # s => ~Active(t)
    BY <1>1, <1>2 DEF SchedInv, Active
  <2>. QED BY <2>1, <2>2, <2>3
<1>10. StacksInv'
  <2>1. /\ curGen' = Own(s) /\ IsPrefix(Calls(s)', thisStack')
        /\ thisStack' = Calls(s)' /\ frames'[s] # <<>>
    <3>1. curGen = Own(s) /\ IsPrefix(Calls(s), thisStack) /\ thisStack = Calls(s) /\ frames[s] # <<>>
      BY <1>1, <1>2 DEF StacksInv
    <3>2. curGen' = curGen /\ thisStack' = thisStack /\ frames'[s] = frames[s] /\ Calls(s)' = Calls(s)
      BY <1>2, <1>9
    <3>. QED BY <3>1, <3>2
  <2>2. \A t \in Stack \ {s} : pc[t] \notin {"run", "send", "yield"}
    BY <1>9 DEF Active
  <2>3. UNCHANGED <<pc, wait, frames, thisStack, curGen>> /\ pc[s] = "run"
    BY <1>2
  <2>4. \A t \in Stack \ {s} : pc[t] \in {"none", "parked"} => gens'[t].saved = gens[t].saved
    BY <1>4, <1>8
  <2>. QED BY <1>1, <1>9, <2>1, <2>2, <2>3, <2>4 DEF StacksInv
<1>. QED BY <1>6, <1>7, <1>10 DEF IInv

LEMMA StepInv ==
  ASSUME IInv, NEW s \in Stack, NEW g \in Gen, NEW op \in Ops, NEW v \in Val, Step(s, g, op, v)
  PROVE  IInv'
<1> DEFINE m == Meeting(op, g, v, thisStack, curGen)
<1>1. TypeInv /\ FrameInv /\ SchedInv /\ FieldsInv /\ StacksInv
  BY DEF IInv
<1>2. /\ UNCHANGED <<frames, exc, over>> /\ gens' = [gens EXCEPT ![g].started = TRUE]
      /\ pc[s] = "run" /\ exc[s] = None /\ gens[g].made /\ ~gens[g].done
      /\ wait' = [wait EXCEPT ![s] = m] /\ thisStack' = gens[g].saved /\ curGen' = g
      /\ pc' = [pc EXCEPT ![s] = "send", ![g] = IF gens[g].started THEN @ ELSE "parked"]
  BY DEF Step, Runs
<1>3. m \in Locals /\ m.op \in Ops /\ m.g = g /\ m.this = thisStack /\ m.prev = curGen
  BY <1>1 DEF TypeInv, Meeting, Locals, Exc, UserVal
<1>4. /\ wait' \in [Stack -> Locals] /\ wait'[s] = m /\ \A t \in Stack \ {s} : wait'[t] = wait[t]
  BY <1>1, <1>2, <1>3 DEF TypeInv
<1>5. gens' \in [Gen -> Fields] /\ gens[g].saved \in Seq(Entry)
  BY <1>1, <1>2 DEF TypeInv, Fields
<1>6. /\ \A h \in Gen : /\ gens'[h].made = gens[h].made /\ gens'[h].done = gens[h].done
                        /\ gens'[h].saved = gens[h].saved /\ (h # g => gens'[h].started = gens[h].started)
      /\ gens'[g].started = TRUE
  BY <1>1, <1>2 DEF TypeInv, Fields
<1>7. s = g => gens[g].started
  BY <1>1, <1>2 DEF FieldsInv
<1>8. /\ pc' \in [Stack -> {"none", "run", "send", "recv", "yield", "parked", "ended"}]
      /\ pc'[s] = "send" /\ (g # s => pc'[g] = IF gens[g].started THEN pc[g] ELSE "parked")
      /\ \A t \in Stack \ {s, g} : pc'[t] = pc[t]
  <2>1. g \in Stack /\ pc \in [Stack -> {"none", "run", "send", "recv", "yield", "parked", "ended"}]
    BY <1>1 DEF TypeInv, Stack
  <2>2. CASE g = s
    BY <1>2, <1>7, <2>1, <2>2
  <2>3. CASE g # s
    BY <1>2, <2>1, <2>3
  <2>. QED BY <2>2, <2>3
<1>9. g \in Stack /\ Main # g /\ (~gens[g].started => pc[g] = "none")
  BY <1>1, NamesAssumption DEF Stack, FieldsInv
<1> HIDE DEF m
<1>10. TypeInv'
  BY <1>1, <1>2, <1>4, <1>5, <1>8 DEF TypeInv
<1>11. FrameInv'
  BY <1>1, <1>2 DEF FrameInv
<1>12. \A t \in Stack : (Active(t)' <=> Active(t)) /\ (pc'[t] = "recv" <=> pc[t] = "recv")
                        /\ (Active(t) => t = s)
  BY <1>1, <1>2, <1>8, <1>9 DEF Active, SchedInv
<1>13. SchedInv'
  <2>1. \A t \in Stack : pc'[t] = "recv" => wait'[t] = wait[t]
    BY <1>2, <1>4, <1>12
  <2>2. pc'[Main] \in {"run", "send", "recv"} /\ Main \in Stack
    BY <1>1, <1>8, <1>9 DEF SchedInv, Stack
  <2>. QED BY <1>1, <1>12, <2>1, <2>2 DEF SchedInv, Stack
<1>14. FieldsInv'
  BY <1>1, <1>2, <1>6, <1>8, <1>9, <1>12 DEF FieldsInv, Stack
<1>15. \A t \in Stack : Calls(t)' = Calls(t)
  BY <1>2 DEF Calls, Depth
<1>16. \A t \in Stack : pc'[t] \in {"none", "parked"} => t \in Gen /\ pc[t] \in {"none", "parked"}
                           /\ (pc'[t] = "none" => pc[t] = "none")
  BY <1>1, <1>8, <1>9, <1>12 DEF SchedInv, Stack, FieldsInv
<1>17. thisStack = Calls(s) /\ curGen = Own(s) /\ frames[s] # <<>>
  BY <1>1, <1>2 DEF StacksInv
<1>18. \A t \in Stack : t # s => /\ pc'[t] \notin {"run", "send", "yield"}
                                 /\ pc'[t] = "recv" => pc[t] = "recv" /\ wait'[t] = wait[t]
  BY <1>4, <1>12 DEF Active
<1>19. StacksInv'
  BY <1>1, <1>2, <1>3, <1>4, <1>6, <1>8, <1>15, <1>16, <1>17, <1>18 DEF StacksInv, Own
<1>. QED BY <1>10, <1>11, <1>13, <1>14, <1>19 DEF IInv

\* The body a step() has sent to gets the control, its resumer waits for it.
LEMMA DeliverInv == ASSUME IInv, NEW s \in Stack, Deliver(s) PROVE IInv'
<1>1. TypeInv /\ FrameInv /\ SchedInv /\ FieldsInv /\ StacksInv
  BY DEF IInv
<1>a. pc[s] = "send" /\ UNCHANGED <<gens, wait, curGen, over>>
  BY DEF Deliver
<1>b. wait[s].g \in Gen /\ wait[s].op \in Ops
  BY <1>1, <1>a DEF StacksInv
<1>c. PICK g \in Gen, op \in Ops : g = wait[s].g /\ op = wait[s].op
  BY <1>b
<1>2. /\ pc[s] = "send" /\ pc[g] = "parked" /\ UNCHANGED <<gens, wait, curGen, over>>
      /\ pc' = [pc EXCEPT ![s] = "recv", ![g] = "run"]
  BY <1>c DEF Deliver
<1>3. /\ ~gens[g].done /\ curGen = g /\ thisStack = gens[g].saved
      /\ wait[s].this = Calls(s) /\ wait[s].prev = Own(s)
      /\ exc[s] = None /\ frames[s] # <<>>
  BY <1>1, <1>2, <1>c DEF StacksInv
<1>4. g \in Stack /\ g # Main /\ g # s /\ wait[s].v \in Exc
  BY <1>1, <1>2, <1>3, NamesAssumption DEF Stack, TypeInv, Locals
<1>5. exc[g] = None /\ gens[g].saved = Calls(g) /\ frames[g] \in Seq(Frame) /\ thisStack \in Seq(Entry)
  BY <1>1, <1>2, <1>4 DEF StacksInv, TypeInv
<1>6. /\ pc' \in [Stack -> {"none", "run", "send", "recv", "yield", "parked", "ended"}]
      /\ pc'[s] = "recv" /\ pc'[g] = "run" /\ \A t \in Stack \ {s, g} : pc'[t] = pc[t]
  BY <1>1, <1>2, <1>4 DEF TypeInv
<1>7. /\ frames' \in [Stack -> Seq(Frame)] /\ exc' \in [Stack -> Exc \cup {None}]
      /\ \A t \in Stack \ {g} : frames'[t] = frames[t] /\ exc'[t] = exc[t]
      /\ thisStack' \in Seq(Entry) /\ frames'[g] # <<>> /\ Len(frames'[g]) <= MaxFrames
      /\ thisStack' = Calls(g)' /\ IsPrefix(Calls(g)', thisStack')
      /\ frames'[g][1].kind = "call"
      /\ \A i \in 1 .. Len(frames'[g]) : frames'[g][i].kind = "try" => frames'[g][i].depth = i - 1
  <2>1. CASE frames[g] = <<>>
    <3>1. Push(g, CallFrame) /\ UNCHANGED exc
      BY <1>c, <2>1 DEF Deliver
    <3>2. Calls(g) = CallsTo(g, 0) /\ thisStack = Calls(g)
      BY <1>3, <1>5, <2>1 DEF Calls, CallsTo, Depth
    <3>3. thisStack = <<>>
      BY <1>4, <1>5, <3>2, EntriesAre, Indices
    <3>4. /\ frames' = [frames EXCEPT ![g] = Append(<<>>, CallFrame)]
          /\ thisStack' = Append(<<>>, Mine(g, 1)) /\ 0 < MaxFrames
      BY <2>1, <3>1, <3>3, <1>1, <1>4 DEF Push, Depth, TypeInv
    <3>5. CallFrame \in Frame /\ CallFrame.kind = "call" /\ Mine(g, 1) \in Entry
      BY <1>4 DEF CallFrame, Frame, Mine, Entry
    <3>6. frames'[g] = <<CallFrame>> /\ \A t \in Stack \ {g} : frames'[t] = frames[t]
      BY <1>1, <1>4, <3>4 DEF TypeInv
    <3>7. thisStack' = <<Mine(g, 1)>> /\ Len(<<CallFrame>>) = 1 /\ <<CallFrame>>[1] = CallFrame
      BY <3>4
    <3>8. thisStack' \in Seq(Entry) /\ Len(thisStack') = 1 /\ thisStack'[1] = Mine(g, 1)
      BY <3>5, <3>7
    <3>9. Calls(g)' = CallsTo(g, 1)
      BY <3>6, <3>7 DEF Calls, CallsTo, Depth
    <3>10. thisStack' = Calls(g)' /\ IsPrefix(Calls(g)', thisStack')
      BY <1>4, <3>8, <3>9, EntriesAre
    <3>11. frames' \in [Stack -> Seq(Frame)]
      <4>1. frames' = [frames EXCEPT ![g] = <<CallFrame>>] /\ <<CallFrame>> \in Seq(Frame)
        BY <3>4, <3>5
      <4>. QED BY <1>1, <4>1 DEF TypeInv
    <3>. QED
      BY <1>1, <3>1, <3>4, <3>5, <3>6, <3>7, <3>8, <3>10, <3>11, FramesAssumption DEF TypeInv
  <2>2. CASE frames[g] # <<>>
    <3>1. /\ UNCHANGED <<frames, thisStack>>
          /\ exc' = [exc EXCEPT ![g] = CASE op = "next"   -> None
                                         [] op = "return" -> GenExit
                                         [] op = "throw"  -> wait[s].v]
      BY <1>c, <2>2 DEF Deliver
    <3>2. (CASE op = "next" -> None [] op = "return" -> GenExit [] op = "throw" -> wait[s].v) \in Exc \cup {None}
      BY <1>3, <1>4 DEF Ops, Exc
    <3>3. exc' \in [Stack -> Exc \cup {None}] /\ \A t \in Stack \ {g} : exc'[t] = exc[t]
      BY <1>1, <3>1, <3>2 DEF TypeInv
    <3>4. Calls(g)' = Calls(g) /\ thisStack = Calls(g)
      BY <1>3, <1>5, <3>1 DEF Calls, Depth
    <3>5. IsPrefix(thisStack, thisStack)
      BY <1>5, PrefixMeans, Indices
    <3>. QED BY <1>1, <1>4, <1>5, <2>2, <3>1, <3>3, <3>4, <3>5 DEF TypeInv, FrameInv
  <2>. QED BY <2>1, <2>2
<1>8. TypeInv'
  BY <1>1, <1>2, <1>6, <1>7 DEF TypeInv
<1>9. FrameInv'
  BY <1>1, <1>7 DEF FrameInv
<1>10. \A t \in Stack : /\ Active(t) <=> t = s
                        /\ Active(t)' <=> t = g
                        /\ pc'[t] = "recv" <=> pc[t] = "recv" \/ t = s
                        /\ pc[t] = "recv" => wait[t].g # g
  BY <1>1, <1>2, <1>4, <1>6 DEF SchedInv, Active
<1>11. SchedInv'
  <2>1. \E t \in Stack : Active(t)'
    BY <1>4, <1>10
  <2>2. \A t, u \in Stack : Active(t)' /\ Active(u)' => t = u
    BY <1>10
  <2>3. pc'[Main] \in {"run", "send", "recv"}
    BY <1>1, <1>4, <1>6 DEF SchedInv, Stack
  <2>4. \A t \in Stack : pc'[t] = "recv" =>
          wait'[t].g \in Gen /\ (Active(wait[t].g)' \/ pc'[wait'[t].g] = "recv")
    <3>1. \A t \in Stack : pc[t] = "recv" =>
            wait[t].g \in Gen /\ (wait[t].g = s \/ pc[wait[t].g] = "recv")
      BY <1>1, <1>10 DEF SchedInv, Stack
    <3>2. \A t \in Stack : pc'[t] = "recv" =>
            wait'[t].g \in Gen /\ (wait'[t].g = g \/ pc'[wait'[t].g] = "recv")
      BY <1>2, <1>c, <1>10, <3>1 DEF Stack
    <3>. QED BY <1>6, <3>2 DEF Active
  <2>5. \A t, u \in Stack : pc'[t] = "recv" /\ pc'[u] = "recv" /\ wait'[t].g = wait'[u].g => t = u
    BY <1>1, <1>2, <1>c, <1>10 DEF SchedInv
  <2>6. \A h \in Gen : Active(h)' \/ pc'[h] = "recv" => \E t \in Stack : pc'[t] = "recv" /\ wait'[t].g = h
    <3>1. \A h \in Gen : h = s \/ pc[h] = "recv" => \E t \in Stack : pc[t] = "recv" /\ wait[t].g = h
      BY <1>1, <1>10 DEF SchedInv, Stack
    <3>2. \A h \in Gen : Active(h)' \/ pc'[h] = "recv" => h = g \/ h = s \/ pc[h] = "recv"
      BY <1>10 DEF Stack
    <3>3. pc'[s] = "recv" /\ wait'[s].g = g
      BY <1>2, <1>c, <1>6
    <3>4. \A t \in Stack : pc[t] = "recv" => pc'[t] = "recv" /\ wait'[t].g = wait[t].g
      BY <1>2, <1>10
    <3>. QED BY <3>1, <3>2, <3>3, <3>4
  <2>. QED BY <2>1, <2>2, <2>3, <2>4, <2>5, <2>6 DEF SchedInv
<1>12. FieldsInv'
  BY <1>1, <1>2, <1>3, <1>4, <1>6, <1>10 DEF FieldsInv, Stack
<1>13. \A t \in Stack \ {g} : Calls(t)' = Calls(t)
  BY <1>7 DEF Calls, Depth
<1>14. curGen' = Own(g)
  BY <1>2, <1>3, <1>4 DEF Own
<1>15. \A t \in Stack \ {s, g} : pc'[t] = pc[t] /\ pc[t] \notin {"run", "send", "yield"}
  BY <1>6, <1>10 DEF Active
<1>16. StacksInv'
  BY <1>1, <1>2, <1>c, <1>3, <1>4, <1>6, <1>7, <1>13, <1>14, <1>15 DEF StacksInv
<1>. QED BY <1>8, <1>9, <1>11, <1>12, <1>16 DEF IInv

\* A body sends on its own channel.
LEMMA SendInv ==
  ASSUME IInv, NEW g \in Gen, NEW kind \in Yields, NEW v \in Exc, pc[g] = "run",
         kind = "value" => exc[g] = None, Send(g, g, kind, v)
  PROVE  IInv'
<1> DEFINE m == Meeting(kind, g, v, <<>>, None)
<1>1. TypeInv /\ FrameInv /\ SchedInv /\ FieldsInv /\ StacksInv
  BY DEF IInv
<1>2. /\ UNCHANGED <<gens, frames, exc, thisStack, curGen, over>>
      /\ pc' = [pc EXCEPT ![g] = "yield"] /\ wait' = [wait EXCEPT ![g] = m]
  BY DEF Send
<1>3. m \in Locals /\ m.op = kind /\ m.g = g
  BY DEF Meeting, Locals
<1> HIDE DEF m
<1>4. g \in Stack /\ g # Main
  BY NamesAssumption DEF Stack
<1>5. /\ pc' \in [Stack -> {"none", "run", "send", "recv", "yield", "parked", "ended"}]
      /\ pc'[g] = "yield" /\ \A t \in Stack \ {g} : pc'[t] = pc[t]
  BY <1>1, <1>2, <1>4 DEF TypeInv
<1>6. wait' \in [Stack -> Locals] /\ wait'[g] = m /\ \A t \in Stack \ {g} : wait'[t] = wait[t]
  BY <1>1, <1>2, <1>3, <1>4 DEF TypeInv
<1>7. TypeInv' /\ FrameInv'
  BY <1>1, <1>2, <1>5, <1>6 DEF TypeInv, FrameInv
<1>8. \A t \in Stack : /\ Active(t)' <=> Active(t)
                       /\ Active(t) => t = g
                       /\ pc'[t] = "recv" <=> pc[t] = "recv"
                       /\ pc[t] = "recv" => wait'[t] = wait[t]
  BY <1>1, <1>4, <1>5, <1>6 DEF SchedInv, Active
<1>9. pc'[Main] \in {"run", "send", "recv"} /\ Main \in Stack
  BY <1>1, <1>4, <1>5 DEF SchedInv, Stack
<1>10. SchedInv'
  BY <1>1, <1>8, <1>9 DEF SchedInv, Stack
<1>11. FieldsInv'
  BY <1>1, <1>2, <1>4, <1>5, <1>8 DEF FieldsInv, Stack
<1>12. \A t \in Stack : Calls(t)' = Calls(t)
  BY <1>2 DEF Calls, Depth
<1>13. kind = "value" => thisStack = Calls(g) /\ frames[g] # <<>>
  BY <1>1, <1>4 DEF StacksInv
<1>14. \A t \in Stack \ {g} : pc[t] \notin {"run", "send", "yield"}
  BY <1>8 DEF Active
<1>15. StacksInv'
  BY <1>1, <1>2, <1>3, <1>5, <1>6, <1>12, <1>13, <1>14 DEF StacksInv
<1>. QED BY <1>7, <1>10, <1>11, <1>15 DEF IInv

LEMMA YieldInv == ASSUME IInv, NEW s \in Stack, NEW v \in Val, Yield(s, v) PROVE IInv'
<1>1. pc[s] = "run" /\ exc[s] = None /\ curGen # None /\ Send(s, curGen, "value", v)
  BY DEF Yield, Runs
<1>2. curGen = Own(s) /\ curGen \in Gen \cup {None}
  BY <1>1 DEF IInv, StacksInv, TypeInv
<1>3. s \in Gen /\ curGen = s /\ v \in Exc /\ "value" \in Yields
  BY <1>1, <1>2 DEF Own, Stack, Exc, UserVal, Yields
<1>. QED BY <1>1, <1>3, SendInv

LEMMA ReturnInv == ASSUME IInv, NEW g \in Gen, NEW v \in Val, Return(g, v) PROVE IInv'
<1>1. pc[g] = "run" /\ Send(g, g, "done", v) /\ v \in Exc /\ "done" \in Yields
  BY DEF Return, Runs, Exc, UserVal, Yields
<1>. QED BY <1>1, SendInv

LEMMA EscapeInv == ASSUME IInv, NEW g \in Gen, Escape(g) PROVE IInv'
<1>1. pc[g] = "run" /\ Send(g, g, "panic", exc[g]) /\ exc[g] \in Exc /\ "panic" \in Yields
  BY DEF Escape, Yields, IInv, TypeInv, Stack
<1>. QED BY <1>1, SendInv

\* A resumer takes the control back.
LEMMA TakeInv == ASSUME IInv, NEW s \in Stack, NEW b \in Stack, Take(s, b) PROVE IInv'
<1> DEFINE closing == wait[s].op = "return"
           raises == wait[b].op = "panic" /\ ~(closing /\ wait[b].v = GenExit)
           value == wait[b].op = "value"
<1>1. TypeInv /\ FrameInv /\ SchedInv /\ FieldsInv /\ StacksInv
  BY DEF IInv
<1>2. pc[s] = "recv" /\ pc[b] = "yield" /\ wait[b].g = wait[s].g
  BY DEF Take
<1>3. wait[s].g = b /\ b \in Gen /\ s # b /\ b # Main
  BY <1>1, <1>2, NamesAssumption DEF StacksInv, SchedInv
<1>4. /\ curGen' = wait[s].prev /\ thisStack' = wait[s].this /\ over' = over
      /\ gens' = [gens EXCEPT ![b].saved = thisStack, ![b].done = closing \/ wait[b].op # "value"]
      /\ pc' = [pc EXCEPT ![s] = "run", ![b] = IF value THEN "parked" ELSE "ended"]
      /\ wait' = [wait EXCEPT ![s] = NoMeeting, ![b] = NoMeeting]
      /\ exc' = [exc EXCEPT ![s] = IF raises THEN wait[b].v ELSE None, ![b] = None]
      /\ frames' = IF value THEN frames ELSE [frames EXCEPT ![b] = <<>>]
  BY <1>3 DEF Take
<1>5. /\ wait[b].v \in Exc /\ wait[s].this \in Seq(Entry) /\ wait[s].prev \in Gen \cup {None}
      /\ thisStack \in Seq(Entry)
  BY <1>1 DEF TypeInv, Locals
<1>6. wait[s].this = Calls(s) /\ wait[s].prev = Own(s) /\ frames[s] # <<>>
  BY <1>1, <1>2 DEF StacksInv
<1>7. value => thisStack = Calls(b)
  BY <1>1, <1>2 DEF StacksInv
<1> HIDE DEF closing, raises
<1>8. NoMeeting \in Locals
  BY DEF NoMeeting, Meeting, Locals, Exc, UserVal
<1>9. /\ pc' \in [Stack -> {"none", "run", "send", "recv", "yield", "parked", "ended"}]
      /\ pc'[s] = "run" /\ pc'[b] = (IF value THEN "parked" ELSE "ended")
      /\ \A t \in Stack \ {s, b} : pc'[t] = pc[t]
  BY <1>1, <1>3, <1>4 DEF TypeInv
<1>10. wait' \in [Stack -> Locals] /\ \A t \in Stack \ {s, b} : wait'[t] = wait[t]
  BY <1>1, <1>4, <1>8 DEF TypeInv
<1>11. /\ exc' \in [Stack -> Exc \cup {None}] /\ exc'[b] = None
       /\ \A t \in Stack \ {s, b} : exc'[t] = exc[t]
  BY <1>1, <1>3, <1>4, <1>5 DEF TypeInv
<1>12. /\ frames' \in [Stack -> Seq(Frame)] /\ (value => frames'[b] = frames[b])
       /\ ~value => frames'[b] = <<>>
       /\ \A t \in Stack \ {b} : frames'[t] = frames[t]
  <2>1. <<>> \in Seq(Frame)
    OBVIOUS
  <2>2. CASE value
    BY <1>1, <1>4, <2>2 DEF TypeInv
  <2>3. CASE ~value
    BY <1>1, <1>4, <2>1, <2>3 DEF TypeInv
  <2>. QED BY <2>2, <2>3
<1>13. /\ gens' \in [Gen -> Fields] /\ gens'[b].saved = thisStack /\ (~value => gens'[b].done)
       /\ \A h \in Gen : gens'[h].made = gens[h].made /\ gens'[h].started = gens[h].started
       /\ \A h \in Gen \ {b} : gens'[h] = gens[h]
  <2>1. PICK d \in BOOLEAN : d = (closing \/ ~value)
    OBVIOUS
  <2>2. gens' = [gens EXCEPT ![b].saved = thisStack, ![b].done = d]
    BY <1>4, <2>1
  <2>4. gens \in [Gen -> Fields] /\ gens' = [gens EXCEPT ![b] = [@ EXCEPT !.saved = thisStack, !.done = d]]
    BY <1>1, <1>3, <2>2 DEF TypeInv
  <2>5. ~value => d
    BY <2>1
  <2>. HIDE DEF value
  <2>6. \A h \in Gen : gens[h] \in Fields /\ gens'[h] =
          IF h = b THEN [gens[b] EXCEPT !.saved = thisStack, !.done = d] ELSE gens[h]
    BY <2>4
  <2>7. /\ gens'[b] \in Fields /\ gens'[b].saved = thisStack /\ gens'[b].done = d
        /\ gens'[b].made = gens[b].made /\ gens'[b].started = gens[b].started
    <3>1. PICK r \in Fields : r = gens[b]
      BY <1>3, <2>6
    <3>2. gens'[b] = [r EXCEPT !.saved = thisStack, !.done = d]
      BY <1>3, <2>6, <3>1
    <3>. QED BY <1>5, <3>1, <3>2 DEF Fields
  <2>8. gens' \in [Gen -> Fields]
    BY <2>4, <2>6, <2>7
  <2>. QED BY <2>5, <2>6, <2>7, <2>8
<1> HIDE DEF value
<1>14. TypeInv'
  <2>1. \A t \in Stack : Len(frames'[t]) <= MaxFrames
    <3>1. Len(<<>>) <= MaxFrames
      BY FramesAssumption
    <3>. QED BY <1>1, <1>12, <3>1 DEF TypeInv
  <2>. QED BY <1>1, <1>4, <1>5, <1>9, <1>10, <1>11, <1>12, <1>13, <2>1 DEF TypeInv
<1>15. FrameInv'
  <2>1. \A t \in Stack : frames'[t] = frames[t] \/ frames'[t] = <<>>
    BY <1>12
  <2>. QED BY <1>1, <2>1 DEF FrameInv
<1>16. \A t \in Stack : /\ Active(t) <=> t = b
                        /\ Active(t)' <=> t = s
                        /\ pc'[t] = "recv" <=> pc[t] = "recv" /\ t # s
                        /\ pc'[t] = "recv" => wait'[t] = wait[t] /\ wait[t].g # b
  BY <1>1, <1>2, <1>3, <1>9, <1>10 DEF SchedInv, Active
<1>17. SchedInv'
  <2>1. pc'[Main] \in {"run", "send", "recv"}
    BY <1>1, <1>3, <1>9 DEF SchedInv, Stack
  <2>2. \A t \in Stack : pc'[t] = "recv" =>
          wait'[t].g \in Gen /\ (wait'[t].g = s \/ pc'[wait'[t].g] = "recv")
    BY <1>1, <1>16 DEF SchedInv, Stack
  <2>3. \A t \in Stack : pc'[t] = "recv" =>
          wait'[t].g \in Gen /\ (Active(wait[t].g)' \/ pc'[wait'[t].g] = "recv")
    BY <1>9, <2>2 DEF Active
  <2>4. \A t, u \in Stack : pc'[t] = "recv" /\ pc'[u] = "recv" /\ wait'[t].g = wait'[u].g => t = u
    BY <1>1, <1>16 DEF SchedInv
  <2>5. \A h \in Gen : Active(h)' \/ pc'[h] = "recv" => \E t \in Stack : pc'[t] = "recv" /\ wait'[t].g = h
    <3>1. \A h \in Gen : Active(h)' \/ pc'[h] = "recv" => pc[h] = "recv"
      BY <1>2, <1>16 DEF Stack
    <3>2. \A h \in Gen : pc[h] = "recv" => h # b /\ \E t \in Stack : pc[t] = "recv" /\ wait[t].g = h
      BY <1>1, <1>2 DEF SchedInv
    <3>3. \A t \in Stack : pc[t] = "recv" /\ wait[t].g # b => pc'[t] = "recv" /\ wait'[t].g = wait[t].g
      BY <1>3, <1>16
    <3>. QED BY <3>1, <3>2, <3>3
  <2>6. (\E t \in Stack : Active(t)') /\ \A t, u \in Stack : Active(t)' /\ Active(u)' => t = u
    BY <1>16
  <2>. QED BY <2>1, <2>3, <2>4, <2>5, <2>6 DEF SchedInv
<1>18. FieldsInv'
  BY <1>1, <1>2, <1>3, <1>9, <1>13, <1>16 DEF FieldsInv, Stack
<1>19. (\A t \in Stack \ {b} : Calls(t)' = Calls(t)) /\ (value => Calls(b)' = Calls(b))
  BY <1>12 DEF Calls, Depth
<1>20. /\ curGen' = Own(s) /\ thisStack' = Calls(s)' /\ frames'[s] # <<>>
       /\ IsPrefix(Calls(s)', thisStack')
  <2>1. IsPrefix(wait[s].this, wait[s].this)
    BY <1>5, PrefixMeans, Indices
  <2>. QED BY <1>3, <1>4, <1>6, <1>12, <1>19, <2>1
<1>21. pc'[b] = "parked" => gens'[b].saved = Calls(b)'
  BY <1>7, <1>9, <1>13, <1>19
<1>22. \A t \in Stack \ {s, b} : /\ pc'[t] = pc[t] /\ pc[t] \notin {"run", "send", "yield"}
                                 /\ pc[t] \in {"none", "parked"} => t \in Gen
  BY <1>1, <1>9, <1>16 DEF Active, SchedInv, Stack
<1>23. StacksInv'
  <2>1. /\ pc'[s] = "run" /\ pc'[b] \in {"parked", "ended"} /\ exc'[b] = None
    BY <1>9, <1>11
  <2>2. \A t \in Stack \ {s, b} :
          /\ pc'[t] = pc[t] /\ pc[t] \notin {"run", "send", "yield"}
          /\ wait'[t] = wait[t] /\ exc'[t] = exc[t] /\ frames'[t] = frames[t] /\ Calls(t)' = Calls(t)
          /\ pc[t] \in {"none", "parked"} => gens'[t].saved = gens[t].saved
    BY <1>10, <1>11, <1>12, <1>13, <1>19, <1>22
  <2>. QED BY <1>1, <1>20, <1>21, <2>1, <2>2 DEF StacksInv
<1>. QED BY <1>14, <1>15, <1>17, <1>18, <1>23 DEF IInv

-----------------------------------------------------------------------------
(* The invariant is inductive, and says what must hold.                    *)

LEMMA InitInv == ASSUME Init PROVE IInv
<1>1. Main \in Stack /\ \A g \in Gen : g \in Stack /\ g # Main
  BY NamesAssumption DEF Stack
<1>2. TypeInv
  <2>1. CallFrame \in Frame /\ Mine(Main, 1) \in Entry /\ NewGen \in Fields /\ NoMeeting \in Locals
    BY <1>1 DEF CallFrame, Frame, Mine, Entry, NewGen, Fields, NoMeeting, Meeting, Locals, Exc, UserVal
  <2>2. <<CallFrame>> \in Seq(Frame) /\ <<>> \in Seq(Frame) /\ <<Mine(Main, 1)>> \in Seq(Entry)
        /\ Len(<<CallFrame>>) <= MaxFrames /\ Len(<<>>) <= MaxFrames
    BY <2>1, FramesAssumption
  <2>. QED BY <2>1, <2>2 DEF TypeInv, Init
<1>3. FrameInv
  BY DEF FrameInv, Init, CallFrame
<1>4. SchedInv
  BY <1>1 DEF SchedInv, Init, Active, Stack
<1>5. FieldsInv
  BY <1>1 DEF FieldsInv, Init, Active, NewGen
<1>6. StacksInv
  <2>1. Calls(Main) = CallsTo(Main, 1) /\ \A g \in Gen : Calls(g) = CallsTo(g, 0)
    BY <1>1 DEF Init, Calls, CallsTo, Depth
  <2>2. thisStack \in Seq(Entry) /\ Len(thisStack) = 1 /\ thisStack[1] = Mine(Main, 1)
    BY <1>2 DEF TypeInv, Init
  <2>3. thisStack = Calls(Main) /\ IsPrefix(Calls(Main), thisStack)
    BY <1>1, <2>1, <2>2, EntriesAre
  <2>4. \A g \in Gen : gens[g].saved = Calls(g)
    <3>1. \A g \in Gen : gens[g].saved = <<>>
      BY DEF Init, NewGen
    <3>2. <<>> \in Seq(Entry) /\ Len(<<>>) = 0
      OBVIOUS
    <3>. QED BY <1>1, <2>1, <3>1, <3>2, EntriesAre
  <2>. QED BY <1>1, <2>3, <2>4 DEF StacksInv, Init, Own, Stack
<1>. QED BY <1>2, <1>3, <1>4, <1>5, <1>6 DEF IInv

LEMMA NextInv == ASSUME IInv, [Next]_vars PROVE IInv'
<1>1. CASE UNCHANGED vars
  <2>1. TypeInv /\ FrameInv /\ SchedInv /\ FieldsInv /\ StacksInv
    BY DEF IInv
  <2>2. UNCHANGED <<gens, pc, wait, frames, exc, thisStack, curGen, over>>
    BY <1>1 DEF vars
  <2>3. TypeInv' /\ FrameInv' /\ SchedInv' /\ FieldsInv'
    BY <2>1, <2>2 DEF TypeInv, FrameInv, SchedInv, FieldsInv, Active
  <2>4. \A t \in Stack : Calls(t)' = Calls(t)
    BY <2>2 DEF Calls, Depth
  <2>5. StacksInv'
    BY <2>1, <2>2, <2>4 DEF StacksInv
  <2>. QED BY <2>3, <2>5 DEF IInv
<1>2. CASE MainEnds
  BY <1>2, MainEndsInv
<1>3. ASSUME NEW s \in Stack, Enter(s) \/ Leave(s) \/ ClauseDone(s) \/ Unwind(s) \/ Deliver(s) PROVE IInv'
  BY <1>3, EnterInv, LeaveInv, ClauseDoneInv, UnwindInv, DeliverInv
<1>4. ASSUME NEW s \in Stack, NEW v \in Val, Throw(s, v) \/ Yield(s, v) PROVE IInv'
  BY <1>4, ThrowInv, YieldInv
<1>5. ASSUME NEW g \in Gen, NEW v \in Val, Return(g, v) PROVE IInv'
  BY <1>5, ReturnInv
<1>6. ASSUME NEW g \in Gen, Create(g) \/ Escape(g) PROVE IInv'
  BY <1>6, CreateInv, EscapeInv
<1>7. ASSUME NEW s \in Stack, NEW b \in Stack, Take(s, b) PROVE IInv'
  BY <1>7, TakeInv
<1>8. ASSUME NEW s \in Stack, NEW g \in Gen, NEW op \in Ops, NEW v \in Val,
             AtOnce(s, g, op, v) \/ Step(s, g, op, v)
      PROVE  IInv'
  BY <1>8, AtOnceInv, StepInv
<1>. QED BY <1>1, <1>2, <1>3, <1>4, <1>5, <1>6, <1>7, <1>8 DEF Next, Ops

\* In every reachable state of the Go twin's generators (abnf/jsrt.go) each goroutine is in
\* one known place, and each stack is where its owner will look for it.
THEOREM Invariance == Spec => []IInv
<1>1. Init => IInv
  BY InitInv
<1>2. IInv /\ [Next]_vars => IInv'
  BY NextInv
<1>. QED BY <1>1, <1>2, PTL DEF Spec

LEMMA InvMeans == ASSUME IInv PROVE OneRunsOnItsOwn
<1>1. TypeInv /\ SchedInv /\ FieldsInv /\ StacksInv
  BY DEF IInv
<1>2. TypeOK
  BY <1>1 DEF TypeOK, TypeInv, FieldsInv, Fields, Locals, Depth
<1>3. OneRuns
  <2>1. \E s \in Stack : Active(s) /\ \A t \in Stack : Active(t) => t = s
    BY <1>1 DEF SchedInv
  <2>2. ASSUME NEW s \in Stack, pc[s] = "send", ~Reenters(s) PROVE pc[wait[s].g] = "parked"
    <3>1. PICK g \in Gen : g = wait[s].g
      BY <1>1, <2>2 DEF StacksInv
    <3>2. g \in Stack /\ g # s /\ pc[g] # "recv" /\ gens[g].started /\ ~gens[g].done
      BY <1>1, <2>2, <3>1 DEF StacksInv, Reenters, Stack
    <3>3. pc[g] \notin {"none", "ended"}
      BY <1>1, <3>2 DEF FieldsInv
    <3>4. pc[g] \notin {"run", "send", "yield"}
      BY <1>1, <2>2, <3>2 DEF SchedInv, Active
    <3>. QED BY <1>1, <3>1, <3>2, <3>3, <3>4 DEF TypeInv
  <2>3. ASSUME NEW g \in Stack, pc[g] = "yield"
        PROVE  \E s \in Stack : pc[s] = "recv" /\ wait[s].g = wait[g].g
    <3>1. g \in Gen /\ wait[g].g = g
      BY <1>1, <2>3 DEF SchedInv, StacksInv, Stack
    <3>. QED BY <1>1, <2>3, <3>1 DEF SchedInv, Active
  <2>. QED BY <2>1, <2>2, <2>3 DEF OneRuns
<1>4. OwnStacks
  BY <1>1 DEF OwnStacks, StacksInv, Own
<1>. QED BY <1>2, <1>3, <1>4 DEF OneRunsOnItsOwn

\* For any number of generators, any values and any depth of calls: exactly one goroutine
\* has the control (step(), js_yield), nothing but a generator that resumes itself can block,
\* and code runs with the entries of its own calls on thisStack and its own generator in
\* curGen, however panics and generators cut across each other.
THEOREM OneRunning == Spec => []OneRunsOnItsOwn
<1>1. IInv => OneRunsOnItsOwn
  BY InvMeans
<1>. QED BY <1>1, Invariance, PTL

-----------------------------------------------------------------------------
(* The refinement: what the answers of the protocol depend on.             *)

\* Only a generator that was made has ended, and a body that waits for its first resume has
\* a resumer on the other side.
FreshInv ==
  \A g \in Gen :
    /\ gens[g].done => gens[g].made
    /\ pc[g] = "parked" /\ frames[g] = <<>> =>
         \E s \in Stack : pc[s] = "send" /\ wait[s].g = g /\ wait[s].op = "next"

\* The stack s is the body of a generator that is being closed.
ClosedBy(s) == \E t \in Stack : pc[t] = "recv" /\ wait[t].g = s /\ wait[t].op = "return"

\* It unwinds with the sentinel, holds it back in a finally clause or ends by it.
Sentinel(s) ==
  \/ exc[s] \notin UserVal \cup {None}
  \/ \E i \in 1 .. Len(frames[s]) : frames[s][i].pend \notin UserVal \cup {None}
  \/ pc[s] = "yield" /\ wait[s].v \notin UserVal

\* The sentinel is where a close put it and nowhere else, and no operation takes it for a value.
SentinelInv ==
  /\ \A s \in Stack : Sentinel(s) => ClosedBy(s) \/ (s \in Gen /\ gens[s].done)
  /\ \A s \in Stack : pc[s] \in {"send", "recv"} => wait[s].v \in UserVal

\* The chain of the protocol: it is finite, and the active goroutine is its end.
IsChain(c) == c \in [1 .. Cardinality(Waiting) + 1 -> Stack] /\ LinksUp(c)
ChainInv ==
  /\ IsFiniteSet(Waiting)
  /\ \E c : IsChain(c) /\ Active(c[Cardinality(Waiting) + 1])

PInv == FreshInv /\ SentinelInv /\ ChainInv

\* The answers of the mapping, by the place of a goroutine.
StatusIs ==
  \A g \in Gen :
    /\ ~gens[g].made => Status[g] = "none"
    /\ gens[g].done => Status[g] = "done"
    /\ Active(g) \/ pc[g] = "recv" => Status[g] = "running"
    /\ gens[g].made /\ ~gens[g].done /\ pc[g] \in {"none", "parked"} =>
         Status[g] = IF frames[g] = <<>> THEN "fresh" ELSE "suspended"

LEMMA StatusMeans == IInv /\ FreshInv => StatusIs
<1> SUFFICES ASSUME IInv, FreshInv, NEW g \in Gen
    PROVE  /\ ~gens[g].made => Status[g] = "none"
           /\ gens[g].done => Status[g] = "done"
           /\ Active(g) \/ pc[g] = "recv" => Status[g] = "running"
           /\ gens[g].made /\ ~gens[g].done /\ pc[g] \in {"none", "parked"} =>
                Status[g] = IF frames[g] = <<>> THEN "fresh" ELSE "suspended"
  BY DEF StatusIs
<1>1. /\ gens[g].made \in BOOLEAN /\ gens[g].done \in BOOLEAN /\ gens[g].started \in BOOLEAN
      /\ gens[g].done => gens[g].made
      /\ Active(g) \/ pc[g] = "recv" => ~gens[g].done /\ gens[g].made
  <2>1. gens[g] \in Fields
    BY DEF IInv, TypeInv
  <2>2. Active(g) \/ pc[g] = "recv" => ~gens[g].done /\ pc[g] # "none"
    BY DEF IInv, FieldsInv, Active
  <2>3. gens[g].started => gens[g].made
    BY DEF IInv, FieldsInv
  <2>4. pc[g] = "none" <=> ~gens[g].started
    BY DEF IInv, FieldsInv
  <2>. QED BY <2>1, <2>2, <2>3, <2>4 DEF Fields, FreshInv
<1>2. Active(g) \/ pc[g] = "recv" <=> pc[g] \in {"run", "send", "recv", "yield"}
  BY DEF Active
<1>3. Status[g] = StatusOf(g)
  BY DEF Status
<1>4. ~gens[g].made => StatusOf(g) = "none"
  BY <1>1, <1>2 DEF StatusOf
<1>5. gens[g].done => StatusOf(g) = "done"
  BY <1>1 DEF StatusOf
<1>6. Active(g) \/ pc[g] = "recv" => StatusOf(g) = "running"
  BY <1>1, <1>2 DEF StatusOf
<1>7. gens[g].made /\ ~gens[g].done /\ pc[g] \in {"none", "parked"} =>
        StatusOf(g) = IF frames[g] = <<>> THEN "fresh" ELSE "suspended"
  BY DEF StatusOf
<1>. QED BY <1>3, <1>4, <1>5, <1>6, <1>7

LEMMA StatusMeansNext == IInv' /\ FreshInv' => StatusIs'
<1>1. (IInv /\ FreshInv => StatusIs)'
  BY StatusMeans, PTL
<1>. QED BY <1>1

\* A goroutine that waits for its body has an open call, and so has one that waits for itself.
LEMMA OpenCallsAre ==
  ASSUME NEW s \in Stack
  PROVE  /\ pc[s] = "recv" => OpenCalls[s] = [op |-> wait[s].op, g |-> wait[s].g, val |-> wait[s].v]
         /\ pc[s] \notin {"send", "recv"} => OpenCalls[s] = None
  BY DEF OpenCalls, CallOf, Reenters

\* There is but one chain.
ChainIs(c) == /\ c = Chain /\ c \in Seq(Stack) /\ Len(c) = Cardinality(Waiting) + 1
              /\ Cardinality(Waiting) \in Nat

LEMMA OneChain ==
  IsFiniteSet(Waiting) => \A c : IsChain(c) => ChainIs(c)
<1> DEFINE n == Cardinality(Waiting)
<1> SUFFICES ASSUME IsFiniteSet(Waiting), NEW c, IsChain(c) PROVE ChainIs(c)
  OBVIOUS
<1>1. n \in Nat
  BY FS_CardinalityType
<1>2. IsChain(Chain)
  BY DEF IsChain, Chain
<1>3. PICK d : d = Chain
  OBVIOUS
<1>4. /\ c \in [1 .. n + 1 -> Stack] /\ d \in [1 .. n + 1 -> Stack] /\ c[1] = d[1]
      /\ \A i \in 1 .. n : c[i + 1] = wait[c[i]].g /\ d[i + 1] = wait[d[i]].g
  BY <1>2, <1>3 DEF IsChain, LinksUp
<1> HIDE DEF n
<1> DEFINE D == {i \in 1 .. n + 1 : c[i] # d[i]}
<1>5. D = {}
  <2>1. SUFFICES ASSUME D # {} PROVE FALSE
    OBVIOUS
  <2>2. PICK m \in D : \A i \in D : ~(i < m)
    <3> DEFINE R == OpToRel(<, Nat)
    <3>1. IsWellFoundedOn(R, Nat)
      BY NatLessThanWellFounded
    <3>2. D \in SUBSET Nat /\ D # {}
      BY <1>1, <2>1
    <3>3. PICK m \in D : \A i \in D : ~(<<i, m>> \in R)
      <4> HIDE DEF R, D
      <4>. QED BY <3>1, <3>2, WFMin, Zenon
    <3>4. \A i, j \in Nat : i < j => <<i, j>> \in R
      BY DEF OpToRel
    <3>. QED BY <3>2, <3>3, <3>4
  <2>3. m # 1 /\ m \in 1 .. n + 1
    BY <1>4
  <2>4. m - 1 \in 1 .. n /\ m - 1 \notin D /\ m - 1 \in 1 .. n + 1 /\ (m - 1) + 1 = m
    BY <1>1, <2>2, <2>3
  <2>5. c[m] = wait[c[m - 1]].g /\ d[m] = wait[d[m - 1]].g /\ c[m - 1] = d[m - 1]
    BY <1>4, <2>4
  <2>. QED BY <2>2, <2>5
<1>6. c = d
  <2>1. \A i \in 1 .. n + 1 : c[i] = d[i]
    BY <1>5
  <2>2. c \in [1 .. n + 1 -> Stack] /\ d \in [1 .. n + 1 -> Stack]
    BY <1>4
  <2>3. \A A, B : \A f, h \in [A -> B] : (\A i \in A : f[i] = h[i]) => f = h
    OBVIOUS
  <2>4. PICK A : A = 1 .. n + 1
    OBVIOUS
  <2>5. c \in [A -> Stack] /\ d \in [A -> Stack] /\ \A i \in A : c[i] = d[i]
    BY <2>1, <2>2, <2>4
  <2>. QED BY <2>3, <2>5
<1>7. c \in Seq(Stack) /\ Len(c) = n + 1
  BY <1>1, <1>4
<1>. QED BY <1>1, <1>3, <1>6, <1>7 DEF ChainIs, n

LEMMA OneChainNext ==
  IsFiniteSet(Waiting') => \A c : IsChain(c)' => ChainIs(c)'
<1>1. (IsFiniteSet(Waiting) => \A c : IsChain(c) => ChainIs(c))'
  BY OneChain, PTL
<1>. QED BY <1>1

\* Its end is the goroutine that is active.
LEMMA TheChain ==
  ASSUME IInv, ChainInv
  PROVE  /\ IsChain(Chain) /\ ChainIs(Chain)
         /\ Chain \in Seq(Stack) /\ Len(Chain) \in Nat /\ Len(Chain) = Cardinality(Waiting) + 1
         /\ Chain[Len(Chain)] \in Stack /\ Active(Chain[Len(Chain)])
         /\ \A s \in Stack : Active(s) => Chain[Len(Chain)] = s
<1>1. PICK c : IsChain(c) /\ Active(c[Cardinality(Waiting) + 1])
  BY DEF ChainInv
<1>2. ChainIs(c)
  BY <1>1, OneChain DEF ChainInv
<1>3. c = Chain /\ c \in Seq(Stack) /\ Len(c) = Cardinality(Waiting) + 1 /\ Cardinality(Waiting) \in Nat
  BY <1>2 DEF ChainIs
<1>4. c[Len(c)] \in Stack
  BY <1>3
<1>5. \A s, t \in Stack : Active(s) /\ Active(t) => s = t
  BY DEF IInv, SchedInv
<1>. QED BY <1>1, <1>2, <1>3, <1>4, <1>5

\* A step after which the same goroutine is active and the others wait for the same
\* keeps the chain ...
Quiet ==
  \A t \in Stack : /\ Active(t)' <=> Active(t)
                   /\ pc'[t] = "recv" <=> pc[t] = "recv"
                   /\ pc[t] = "recv" => wait'[t] = wait[t]

LEMMA SameChain ==
  ASSUME IInv, ChainInv, Quiet
  PROVE  ChainInv' /\ Chain' = Chain
<1>1. /\ IsChain(Chain) /\ Chain[Cardinality(Waiting) + 1] \in Stack
      /\ Active(Chain[Cardinality(Waiting) + 1]) /\ IsFiniteSet(Waiting)
  BY TheChain DEF ChainInv
<1>2. PICK c : c = Chain
  OBVIOUS
<1>3. Waiting' = Waiting
  BY DEF Waiting, Quiet
<1>4. IsChain(c)'
  <2>1. \A t \in Waiting : wait'[t] = wait[t]
    BY DEF Waiting, Quiet
  <2>2. IsChain(c)
    BY <1>1, <1>2
  <2>. QED BY <1>3, <2>1, <2>2 DEF IsChain, LinksUp
<1>5. Active(c[Cardinality(Waiting) + 1])'
  BY <1>1, <1>2, <1>3 DEF Quiet
<1>6. ChainInv'
  BY <1>1, <1>3, <1>4, <1>5 DEF ChainInv
<1>7. c = Chain'
  BY <1>1, <1>3, <1>4, OneChainNext DEF ChainIs
<1>. QED BY <1>2, <1>6, <1>7

\* ... the open calls, but for that of the active one ...
LEMMA SameCalls ==
  ASSUME IInv, Quiet, NEW s \in Stack, Active(s)
  PROVE  \A t \in Stack \ {s} : OpenCalls'[t] = OpenCalls[t]
<1> SUFFICES ASSUME NEW t \in Stack, t # s PROVE CallOf(t)' = CallOf(t)
  BY DEF OpenCalls
<1>1. ~Active(t) /\ ~Active(t)'
  BY DEF IInv, SchedInv, Quiet
<1>2. pc[t] # "send" /\ pc'[t] # "send"
  BY <1>1 DEF Active
<1>. QED BY <1>2 DEF CallOf, Reenters, Quiet

\* ... and what each generator is doing.
LEMMA SameStatus ==
  ASSUME IInv, IInv', FreshInv, FreshInv', Quiet, NEW h \in Gen,
         gens'[h].made = gens[h].made, gens'[h].done = gens[h].done,
         Active(h) \/ frames'[h] = frames[h]
  PROVE  Status'[h] = Status[h]
<1>1. StatusIs /\ StatusIs'
  BY StatusMeans, StatusMeansNext
<1>2. h \in Stack /\ gens[h].done \in BOOLEAN /\ gens[h].made \in BOOLEAN
  BY DEF Stack, IInv, TypeInv, Fields
<1>3. CASE ~gens[h].made
  BY <1>1, <1>3 DEF StatusIs
<1>4. CASE gens[h].done
  <2>1. gens[h].done /\ gens'[h].done
    BY <1>4
  <2>2. Status[h] = "done" /\ Status'[h] = "done"
    BY <1>1, <2>1, Zenon DEF StatusIs
  <2>. QED BY <2>2
<1>5. CASE Active(h) \/ pc[h] = "recv"
  <2>1. Active(h)' \/ pc'[h] = "recv"
    BY <1>2, <1>5 DEF Quiet
  <2>. QED BY <1>1, <1>5, <2>1 DEF StatusIs
<1>6. CASE gens[h].made /\ ~gens[h].done /\ ~Active(h) /\ pc[h] # "recv"
  <2>1. ~Active(h)' /\ pc'[h] # "recv"
    BY <1>2, <1>6 DEF Quiet
  <2>2. pc[h] # "ended" /\ pc'[h] # "ended"
    BY <1>6 DEF IInv, FieldsInv
  <2>3. pc[h] \in {"none", "parked"}
    BY <1>2, <1>6, <2>2 DEF IInv, TypeInv, Active
  <2>4. pc'[h] \in {"none", "parked"}
    BY <1>2, <2>1, <2>2 DEF IInv, TypeInv, Active
  <2>. QED BY <1>1, <1>6, <2>3, <2>4 DEF StatusIs
<1>. QED BY <1>2, <1>3, <1>4, <1>5, <1>6

\* What the protocol asks of a step: the goroutine on top of the chain has no open call.
LEMMA AbleNow ==
  ASSUME IInv, ChainInv, NEW s \in Stack, Active(s), OpenCalls[s] = None, ~over
  PROVE  Protocol!Able /\ Protocol!Top = s
<1>1. Chain[Len(Chain)] = s
  BY TheChain
<1>. QED BY <1>1 DEF Protocol!Able, Protocol!Top

\* A step that is none of the program's business.
LEMMA Computes ==
  ASSUME IInv, IInv', FreshInv, FreshInv', ChainInv, Quiet, NEW s \in Stack, Active(s),
         OpenCalls[s] = None, OpenCalls'[s] = None, ~over, over' \in BOOLEAN, said' = None,
         \A h \in Gen : gens'[h].made = gens[h].made /\ gens'[h].done = gens[h].done,
         \A h \in Gen \ {s} : frames'[h] = frames[h]
  PROVE  ChainInv' /\ Protocol!Next
<1>1. ChainInv' /\ Chain' = Chain
  BY SameChain
<1>2. OpenCalls' = OpenCalls
  BY SameCalls DEF OpenCalls
<1>3. Status' = Status
  <2>1. \A h \in Gen : Status'[h] = Status[h]
    BY SameStatus
  <2>. QED BY <2>1 DEF Status
<1>4. Protocol!Able
  BY AbleNow
<1>5. CASE over' = FALSE
  <2>1. over' = over
    BY <1>5 DEF IInv, TypeInv
  <2>2. Protocol!Compute
    BY <1>1, <1>2, <1>3, <1>4, <2>1 DEF Protocol!Compute
  <2>. QED BY <1>1, <2>2 DEF Protocol!Next
<1>6. CASE over' = TRUE
  <2>1. Protocol!End
    BY <1>1, <1>2, <1>3, <1>4, <1>6 DEF Protocol!End
  <2>. QED BY <1>1, <2>1 DEF Protocol!Next
<1>. QED BY <1>1, <1>5, <1>6

-----------------------------------------------------------------------------
(* The refinement: calls, throws and try statements.                       *)

\* A step of the running goroutine that makes no sentinel.
LEMMA CodeRefines ==
  ASSUME IInv, IInv', PInv, NEW s \in Stack, pc[s] = "run", ~over, over' = over, Silent,
         UNCHANGED generators,
         \A t \in Stack \ {s} : frames'[t] = frames[t] /\ exc'[t] = exc[t],
         exc'[s] \in UserVal \cup {None} \/ Sentinel(s),
         \A i \in 1 .. Len(frames'[s]) : frames'[s][i].pend \in UserVal \cup {None} \/ Sentinel(s)
  PROVE  PInv' /\ Protocol!Next
<1>1. UNCHANGED <<gens, pc, wait>>
  BY DEF generators
<1>2. FreshInv'
  <2>1. \A g \in Gen : pc[g] = "parked" => frames'[g] = frames[g]
    BY DEF Stack
  <2>. QED BY <1>1, <2>1 DEF PInv, FreshInv
<1>3. SentinelInv'
  <2>1. \A t \in Stack : Sentinel(t)' => Sentinel(t)
    BY <1>1 DEF Sentinel
  <2>2. \A t \in Stack : ClosedBy(t)' <=> ClosedBy(t)
    BY <1>1 DEF ClosedBy
  <2>. QED BY <1>1, <2>1, <2>2 DEF PInv, SentinelInv
<1>4. Quiet
  BY <1>1 DEF Quiet, Active
<1>5. Active(s) /\ OpenCalls[s] = None /\ OpenCalls'[s] = None
  <2>1. OpenCalls[s] = None
    BY OpenCallsAre
  <2>2. OpenCalls'[s] = None
    BY <1>1 DEF OpenCalls, CallOf, Reenters
  <2>. QED BY <2>1, <2>2 DEF Active
<1>6. over' \in BOOLEAN /\ said' = None /\ \A h \in Gen \ {s} : frames'[h] = frames[h]
  BY DEF Silent, Stack, IInv, TypeInv
<1>7. ChainInv' /\ Protocol!Next
  BY <1>1, <1>2, <1>4, <1>5, <1>6, Computes DEF PInv
<1>. QED BY <1>2, <1>3, <1>7 DEF PInv

\* What a step may put on the frames, in terms of one goroutine.
LEMMA FramesRefine ==
  ASSUME IInv, IInv', PInv, NEW s \in Stack, pc[s] = "run", ~over, over' = over, Silent,
         UNCHANGED generators,
         NEW fs, frames' = [frames EXCEPT ![s] = fs],
         NEW x, exc' = [exc EXCEPT ![s] = x], x \in UserVal \cup {None} \/ Sentinel(s),
         \A i \in 1 .. Len(fs) : \/ i \in 1 .. Len(frames[s]) /\ fs[i] = frames[s][i]
                                 \/ fs[i].pend \in UserVal \cup {None}
                                 \/ Sentinel(s)
  PROVE  PInv' /\ Protocol!Next
<1>1. /\ frames'[s] = fs /\ exc'[s] = x
      /\ \A t \in Stack \ {s} : frames'[t] = frames[t] /\ exc'[t] = exc[t]
  BY DEF IInv, TypeInv
<1>2. \A i \in 1 .. Len(frames'[s]) : frames'[s][i].pend \in UserVal \cup {None} \/ Sentinel(s)
  BY <1>1 DEF Sentinel
<1>. QED BY <1>1, <1>2, CodeRefines

LEMMA PushRefines ==
  ASSUME IInv, IInv', PInv, NEW s \in Stack, Runs(s), Silent, UNCHANGED <<exc, over>>, UNCHANGED generators,
         NEW f \in Frame, f.pend = None, Push(s, f)
  PROVE  PInv' /\ Protocol!Next
<1>1. pc[s] = "run" /\ exc[s] = None /\ ~over /\ over' = over
  BY DEF Runs
<1>2. frames[s] \in Seq(Frame)
  BY DEF IInv, TypeInv
<1>3. PICK fs : fs = Append(frames[s], f)
  OBVIOUS
<1>4. frames' = [frames EXCEPT ![s] = fs]
  BY <1>3 DEF Push
<1>5. exc' = [exc EXCEPT ![s] = None]
  BY <1>1 DEF IInv, TypeInv
<1>6. \A i \in 1 .. Len(fs) : (i \in 1 .. Len(frames[s]) /\ fs[i] = frames[s][i]) \/ fs[i].pend = None
  <2>1. /\ Len(frames[s]) \in Nat /\ Len(fs) = Len(frames[s]) + 1 /\ fs[Len(frames[s]) + 1] = f
        /\ \A i \in 1 .. Len(frames[s]) : fs[i] = frames[s][i]
    BY <1>2, <1>3, Appended, Indices
  <2>2. \A i \in 1 .. Len(fs) : i \in 1 .. Len(frames[s]) \/ i = Len(frames[s]) + 1
    BY <2>1
  <2>. QED BY <2>1, <2>2
<1>7. None \in UserVal \cup {None}
  OBVIOUS
<1>8. \A i \in 1 .. Len(fs) : \/ i \in 1 .. Len(frames[s]) /\ fs[i] = frames[s][i]
                              \/ fs[i].pend \in UserVal \cup {None}
                              \/ Sentinel(s)
  BY <1>6
<1>. QED BY <1>1, <1>4, <1>5, <1>7, <1>8, FramesRefine

LEMMA EnterRefines == ASSUME IInv, IInv', PInv, NEW s \in Stack, Enter(s) PROVE PInv' /\ Protocol!Next
<1>1. Runs(s) /\ Silent /\ UNCHANGED <<exc, over>> /\ UNCHANGED generators
  BY DEF Enter
<1>2. CASE Push(s, CallFrame)
  <2>1. CallFrame \in Frame /\ CallFrame.pend = None
    BY DEF CallFrame, Frame
  <2>. QED BY <1>1, <1>2, <2>1, PushRefines
<1>3. ASSUME NEW c \in BOOLEAN, NEW f \in BOOLEAN, Push(s, TryFrame(c, f)) PROVE PInv' /\ Protocol!Next
  <2>1. Len(thisStack) \in Nat
    BY DEF IInv, TypeInv
  <2>2. TryFrame(c, f) \in Frame /\ TryFrame(c, f).pend = None
    BY <2>1 DEF TryFrame, Frame
  <2>. QED BY <1>1, <1>3, <2>2, PushRefines
<1>. QED BY <1>2, <1>3 DEF Enter

\* The frames below the innermost one.
LEMMA Below ==
  ASSUME IInv, NEW s \in Stack, pc[s] = "run", frames[s] # <<>>
  PROVE  /\ \A i \in 1 .. Len(Front(frames[s])) :
              i \in 1 .. Len(frames[s]) /\ Front(frames[s])[i] = frames[s][i]
         /\ Len(frames[s]) \in 1 .. Len(frames[s]) /\ Top(s) = frames[s][Len(frames[s])]
         /\ Front(frames[s]) \in Seq(Frame) /\ Top(s) \in Frame
<1>1. PICK n : n = Len(frames[s])
  OBVIOUS
<1>2. /\ n \in Nat /\ n > 0 /\ Top(s) = frames[s][n] /\ Top(s) \in Frame
      /\ Front(frames[s]) \in Seq(Frame) /\ Len(Front(frames[s])) = n - 1
      /\ \A i \in 1 .. n - 1 : Front(frames[s])[i] = frames[s][i]
  BY <1>1, Innermost
<1>. QED BY <1>1, <1>2

LEMMA LeaveRefines == ASSUME IInv, IInv', PInv, NEW s \in Stack, Leave(s) PROVE PInv' /\ Protocol!Next
<1>1. /\ pc[s] = "run" /\ exc[s] = None /\ ~over /\ over' = over /\ Silent
      /\ UNCHANGED generators /\ Len(frames[s]) > 1
  BY DEF Leave, Runs, Depth
<1>2. frames[s] # <<>>
  BY <1>1, Running, Indices
<1>3. PICK fs : fs = Front(frames[s])
  OBVIOUS
<1>4. frames' = [frames EXCEPT ![s] = fs]
  BY <1>3 DEF Leave
<1>5. exc' = [exc EXCEPT ![s] = None]
  BY <1>1 DEF IInv, TypeInv, Leave
<1>6. \A i \in 1 .. Len(fs) : i \in 1 .. Len(frames[s]) /\ fs[i] = frames[s][i]
  BY <1>1, <1>2, <1>3, Below
<1>7. None \in UserVal \cup {None}
  OBVIOUS
<1>. QED BY <1>1, <1>4, <1>5, <1>6, <1>7, FramesRefine

LEMMA ThrowRefines ==
  ASSUME IInv, IInv', PInv, NEW s \in Stack, NEW v \in Val, Throw(s, v)
  PROVE  PInv' /\ Protocol!Next
<1>1. /\ pc[s] = "run" /\ ~over /\ UNCHANGED <<frames, over>> /\ Silent /\ UNCHANGED generators
      /\ exc' = [exc EXCEPT ![s] = v] /\ v \in UserVal
  BY DEF Throw, Runs, UserVal
<1>2. frames' = [frames EXCEPT ![s] = frames[s]]
  BY <1>1 DEF IInv, TypeInv
<1>. QED BY <1>1, <1>2, FramesRefine

LEMMA ClauseRefines ==
  ASSUME IInv, IInv', PInv, NEW s \in Stack, pc[s] = "run", ~over, over' = over, Silent,
         UNCHANGED generators, frames[s] # <<>>,
         NEW phase, NEW depth, NEW pend, Clause(s, phase, depth, pend),
         pend \in UserVal \cup {None} \/ Sentinel(s)
  PROVE  PInv' /\ Protocol!Next
<1>1. PICK f : f = [Top(s) EXCEPT !.phase = phase, !.depth = depth, !.pend = pend]
  OBVIOUS
<1>2. PICK q : q = Front(frames[s])
  OBVIOUS
<1>3. PICK fs : fs = Append(q, f)
  OBVIOUS
<1>4. frames' = [frames EXCEPT ![s] = fs] /\ exc' = [exc EXCEPT ![s] = None]
  BY <1>1, <1>2, <1>3 DEF Clause
<1>5. /\ q \in Seq(Frame) /\ Top(s) \in Frame
      /\ \A i \in 1 .. Len(q) : i \in 1 .. Len(frames[s]) /\ q[i] = frames[s][i]
  BY <1>2, Below
<1>6. f.pend = pend
  BY <1>1, <1>5 DEF Frame
<1>7. /\ Len(q) \in Nat /\ Len(fs) = Len(q) + 1 /\ fs[Len(q) + 1] = f
      /\ \A i \in 1 .. Len(q) : fs[i] = q[i]
  <2>1. q \in Seq(Frame \cup {f}) /\ f \in Frame \cup {f}
    BY <1>5
  <2>. QED BY <1>3, <2>1, Appended, Indices
<1>8. \A i \in 1 .. Len(fs) : i \in 1 .. Len(q) \/ i = Len(q) + 1
  BY <1>7
<1>9. \A i \in 1 .. Len(fs) : \/ i \in 1 .. Len(frames[s]) /\ fs[i] = frames[s][i]
                              \/ fs[i].pend \in UserVal \cup {None}
                              \/ Sentinel(s)
  BY <1>5, <1>6, <1>7, <1>8
<1>. QED BY <1>4, <1>9, FramesRefine

LEMMA TryEndsRefines ==
  ASSUME IInv, IInv', PInv, NEW s \in Stack, pc[s] = "run", ~over, over' = over, Silent,
         UNCHANGED generators, frames[s] # <<>>,
         NEW depth, NEW pend, TryEnds(s, depth, pend),
         pend \in UserVal \cup {None} \/ Sentinel(s)
  PROVE  PInv' /\ Protocol!Next
<1>1. PICK fs : fs = Front(frames[s])
  OBVIOUS
<1>2. frames' = [frames EXCEPT ![s] = fs] /\ exc' = [exc EXCEPT ![s] = pend]
  BY <1>1 DEF TryEnds
<1>3. \A i \in 1 .. Len(fs) : i \in 1 .. Len(frames[s]) /\ fs[i] = frames[s][i]
  BY <1>1, Below
<1>. QED BY <1>2, <1>3, FramesRefine

LEMMA AfterClauseRefines ==
  ASSUME IInv, IInv', PInv, NEW s \in Stack, pc[s] = "run", ~over, over' = over, Silent,
         UNCHANGED generators, frames[s] # <<>>,
         NEW depth, NEW pend, AfterClause(s, depth, pend),
         pend \in UserVal \cup {None} \/ Sentinel(s)
  PROVE  PInv' /\ Protocol!Next
<1>1. CASE Clause(s, "finally", depth, pend)
  BY <1>1, ClauseRefines
<1>2. CASE TryEnds(s, depth, pend)
  BY <1>2, TryEndsRefines
<1>. QED BY <1>1, <1>2 DEF AfterClause

LEMMA ClauseDoneRefines ==
  ASSUME IInv, IInv', PInv, NEW s \in Stack, ClauseDone(s) PROVE PInv' /\ Protocol!Next
<1>1. pc[s] = "run" /\ exc[s] = None /\ ~over /\ over' = over /\ Silent /\ UNCHANGED generators
  BY DEF ClauseDone, Runs
<1>2. frames[s] # <<>>
  BY <1>1, Running, Indices
<1>3. Top(s).pend \in UserVal \cup {None} \/ Sentinel(s)
  BY <1>1, <1>2, Below DEF Sentinel
<1>4. PICK d : d = Len(thisStack) - 1
  OBVIOUS
<1>5. AfterClause(s, d, Top(s).pend) \/ AfterClause(s, d, None)
  BY <1>4 DEF ClauseDone
<1>6. CASE AfterClause(s, d, Top(s).pend)
  BY <1>1, <1>2, <1>3, <1>6, AfterClauseRefines
<1>7. CASE AfterClause(s, d, None)
  BY <1>1, <1>2, <1>7, AfterClauseRefines
<1>. QED BY <1>5, <1>6, <1>7

LEMMA UnwindRefines == ASSUME IInv, IInv', PInv, NEW s \in Stack, Unwind(s) PROVE PInv' /\ Protocol!Next
<1>1. /\ pc[s] = "run" /\ ~over /\ over' = over /\ Silent /\ UNCHANGED generators /\ frames[s] # <<>>
  BY DEF Unwind
<1>2. exc[s] \in UserVal \cup {None} \/ Sentinel(s)
  BY DEF Sentinel
<1>3. CASE frames' = [frames EXCEPT ![s] = Front(@)] /\ exc' = exc
  <2>1. PICK fs : fs = Front(frames[s])
    OBVIOUS
  <2>2. frames' = [frames EXCEPT ![s] = fs] /\ exc' = [exc EXCEPT ![s] = exc[s]]
    BY <1>3, <2>1 DEF IInv, TypeInv
  <2>3. \A i \in 1 .. Len(fs) : i \in 1 .. Len(frames[s]) /\ fs[i] = frames[s][i]
    BY <1>1, <2>1, Below
  <2>. QED BY <1>1, <1>2, <2>2, <2>3, FramesRefine
<1>4. PICK d : d = Top(s).depth
  OBVIOUS
<1>5. CASE Clause(s, "catch", d, None)
  BY <1>1, <1>5, ClauseRefines
<1>6. CASE AfterClause(s, d, exc[s])
  BY <1>1, <1>2, <1>6, AfterClauseRefines
<1>. QED BY <1>3, <1>4, <1>5, <1>6 DEF Unwind

LEMMA MainEndsRefines == ASSUME IInv, IInv', PInv, MainEnds PROVE PInv' /\ Protocol!Next
<1>1. UNCHANGED <<gens, pc, wait, frames, exc>> /\ pc[Main] = "run" /\ ~over /\ over' = TRUE /\ Main \in Stack
  BY DEF MainEnds, generators, Stack
<1>2. FreshInv'
  BY <1>1 DEF PInv, FreshInv
<1>3. SentinelInv'
  BY <1>1 DEF PInv, SentinelInv, Sentinel, ClosedBy
<1>4. Quiet
  BY <1>1 DEF Quiet, Active
<1>5. OpenCalls[Main] = None /\ OpenCalls'[Main] = None /\ Active(Main)
  <2>1. OpenCalls'[Main] = None
    BY <1>1 DEF OpenCalls, CallOf, Reenters
  <2>. QED BY <1>1, <2>1, OpenCallsAre DEF Active
<1>6. ChainInv' /\ Protocol!Next
  <2>1. said' = None
    BY DEF MainEnds, Silent
  <2>. QED BY <1>1, <1>2, <1>4, <1>5, <2>1, Computes DEF PInv
<1>. QED BY <1>2, <1>3, <1>6 DEF PInv

-----------------------------------------------------------------------------
(* The refinement: generators.                                             *)

LEMMA CreateRefines == ASSUME IInv, IInv', PInv, NEW g \in Gen, Create(g) PROVE PInv' /\ Protocol!Next
<1>1. /\ UNCHANGED <<pc, wait, frames, exc, over>> /\ said' = None /\ ~gens[g].made
      /\ gens' = [gens EXCEPT ![g].made = TRUE]
  BY DEF Create, Silent
<1>2. PICK s \in Stack : pc[s] = "run" /\ ~over
  BY DEF Create, Runs
<1>3. /\ \A h \in Gen : gens'[h].done = gens[h].done /\ (h # g => gens'[h].made = gens[h].made)
      /\ gens'[g].made
  BY <1>1 DEF IInv, TypeInv, Fields
<1>4. ~gens[g].done /\ pc[g] = "none" /\ frames[g] = <<>> /\ g \in Stack
  BY <1>1 DEF PInv, FreshInv, IInv, FieldsInv, StacksInv, Stack
<1>5. FreshInv'
  BY <1>1, <1>3 DEF PInv, FreshInv
<1>6. SentinelInv'
  <2>1. \A t \in Stack : (Sentinel(t)' <=> Sentinel(t)) /\ (ClosedBy(t)' <=> ClosedBy(t))
    BY <1>1 DEF Sentinel, ClosedBy
  <2>. QED BY <1>1, <1>3, <2>1 DEF PInv, SentinelInv
<1>7. Quiet
  BY <1>1 DEF Quiet, Active
<1>8. ChainInv' /\ Chain' = Chain
  BY <1>7, SameChain DEF PInv
<1>9. OpenCalls' = OpenCalls
  BY <1>1 DEF OpenCalls, CallOf, Reenters
<1>10. Protocol!Able
  BY <1>2, OpenCallsAre, AbleNow DEF PInv, Active
<1>11. Status' = [Status EXCEPT ![g] = "fresh"]
  <2>1. Status[g] = "none" /\ Status'[g] = "fresh"
    BY <1>1, <1>3, <1>4, <1>5, StatusMeans, StatusMeansNext DEF PInv, StatusIs
  <2>2. \A h \in Gen \ {g} : Status'[h] = Status[h]
    BY <1>1, <1>3, <1>5, <1>7, SameStatus DEF PInv
  <2>. QED BY <2>1, <2>2 DEF Status
<1>12. Status[g] = "none"
  BY <1>1, StatusMeans DEF PInv, StatusIs
<1>13. Protocol!Create(g)
  BY <1>1, <1>8, <1>9, <1>10, <1>11, <1>12 DEF Protocol!Create
<1>. QED BY <1>5, <1>6, <1>8, <1>13 DEF PInv, Protocol!Next

LEMMA AtOnceRefines ==
  ASSUME IInv, IInv', PInv, NEW s \in Stack, NEW g \in Gen, NEW op \in Ops, NEW v \in Val, AtOnce(s, g, op, v)
  PROVE  PInv' /\ Protocol!Next
<1>1. /\ UNCHANGED <<pc, wait, frames, over>> /\ pc[s] = "run" /\ ~over /\ exc[s] = None
      /\ gens[g].made /\ (gens[g].done \/ (~gens[g].started /\ op # "next"))
      /\ gens' = [gens EXCEPT ![g].done = TRUE]
      /\ exc' = IF op = "throw" THEN [exc EXCEPT ![s] = v] ELSE exc
  BY DEF AtOnce, Runs
<1>2. /\ \A h \in Gen : gens'[h].made = gens[h].made /\ (h # g => gens'[h].done = gens[h].done)
      /\ gens'[g].done
  BY <1>1 DEF IInv, TypeInv, Fields
<1>3. v \in UserVal /\ \A t \in Stack : exc'[t] = exc[t] \/ exc'[t] = v
  BY <1>1 DEF IInv, TypeInv, UserVal
<1>4. FreshInv'
  <2>1. \A h \in Gen : gens'[h].done => gens'[h].made
    BY <1>1, <1>2 DEF PInv, FreshInv
  <2>. QED BY <1>1, <2>1 DEF PInv, FreshInv
<1>5. SentinelInv'
  <2>1. \A t \in Stack : (Sentinel(t)' => Sentinel(t)) /\ (ClosedBy(t)' <=> ClosedBy(t))
    BY <1>1, <1>3 DEF Sentinel, ClosedBy
  <2>2. \A t \in Gen : gens[t].done => gens'[t].done
    BY <1>2
  <2>. QED BY <1>1, <2>1, <2>2 DEF PInv, SentinelInv
<1>6. Quiet
  BY <1>1 DEF Quiet, Active
<1>7. ChainInv' /\ Chain' = Chain
  BY <1>6, SameChain DEF PInv
<1>8. OpenCalls' = OpenCalls
  BY <1>1 DEF OpenCalls, CallOf, Reenters
<1>9. Protocol!Able /\ Protocol!Top = s
  BY <1>1, OpenCallsAre, AbleNow DEF PInv, Active
<1>10. Status[g] = "done" \/ (Status[g] = "fresh" /\ op # "next")
  <2>1. CASE gens[g].done
    BY <2>1, StatusMeans DEF PInv, StatusIs
  <2>2. CASE ~gens[g].done
    <3>1. pc[g] = "none" /\ frames[g] = <<>>
      BY <1>1, <2>2 DEF IInv, FieldsInv, StacksInv, Stack
    <3>. QED BY <1>1, <2>2, <3>1, StatusMeans DEF PInv, StatusIs
  <2>. QED BY <2>1, <2>2
<1>11. Status' = [Status EXCEPT ![g] = "done"]
  <2>1. Status'[g] = "done"
    BY <1>2, <1>4, StatusMeansNext DEF StatusIs
  <2>2. \A h \in Gen \ {g} : Status'[h] = Status[h]
    BY <1>1, <1>2, <1>4, <1>6, SameStatus DEF PInv
  <2>. QED BY <2>1, <2>2 DEF Status
<1>12. said' = CASE op = "next"   -> Protocol!Answer(s, "done", Undef)
                 [] op = "return" -> Protocol!Answer(s, "done", v)
                 [] op = "throw"  -> Protocol!Answer(s, "raise", v)
  BY DEF AtOnce, Protocol!Answer, Said, Ops
<1>13. Protocol!AtOnce(g, op, v)
  BY <1>1, <1>7, <1>8, <1>9, <1>10, <1>11, <1>12 DEF Protocol!AtOnce
<1>14. op \in Protocol!Op /\ v \in Protocol!UserVal
  BY <1>3 DEF Ops, Protocol!Op, Protocol!UserVal, UserVal
<1>. QED BY <1>4, <1>5, <1>7, <1>13, <1>14 DEF PInv, Protocol!Next

\* step() has swapped the stacks and sends.
LEMMA Stepped ==
  ASSUME IInv, NEW s \in Stack, NEW g \in Gen, NEW op \in Ops, NEW v \in Val, Step(s, g, op, v)
  PROVE  /\ UNCHANGED <<frames, exc, over>> /\ pc[s] = "run" /\ ~over /\ said' = None
         /\ gens[g].made /\ ~gens[g].done
         /\ wait'[s].op = op /\ wait'[s].g = g /\ wait'[s].v = v
         /\ \A t \in Stack \ {s} : wait'[t] = wait[t]
         /\ \A h \in Gen : gens'[h].made = gens[h].made /\ gens'[h].done = gens[h].done
         /\ pc'[s] = "send"
         /\ ~gens[g].started => g # s /\ pc[g] = "none" /\ pc'[g] = "parked" /\ op = "next"
         /\ \A t \in Stack \ {s} : pc'[t] = pc[t] \/ (t = g /\ ~gens[g].started)
<1>1. TypeInv /\ FieldsInv
  BY DEF IInv
<1>2. /\ UNCHANGED <<frames, exc, over>> /\ gens' = [gens EXCEPT ![g].started = TRUE]
      /\ pc[s] = "run" /\ ~over /\ gens[g].made /\ ~gens[g].done /\ said' = None
      /\ gens[g].started \/ op = "next"
      /\ wait' = [wait EXCEPT ![s] = Meeting(op, g, v, thisStack, curGen)]
      /\ pc' = [pc EXCEPT ![s] = "send", ![g] = IF gens[g].started THEN @ ELSE "parked"]
  BY DEF Step, Runs, Silent
<1>3. /\ wait'[s].op = op /\ wait'[s].g = g /\ wait'[s].v = v
      /\ \A t \in Stack \ {s} : wait'[t] = wait[t]
  BY <1>1, <1>2 DEF TypeInv, Meeting
<1>4. \A h \in Gen : gens'[h].made = gens[h].made /\ gens'[h].done = gens[h].done
  BY <1>1, <1>2 DEF TypeInv, Fields
<1>5. ~gens[g].started => g # s /\ pc[g] = "none"
  BY <1>1, <1>2 DEF FieldsInv
<1>6. /\ pc'[s] = "send" /\ (g # s => pc'[g] = IF gens[g].started THEN pc[g] ELSE "parked")
      /\ \A t \in Stack \ {s, g} : pc'[t] = pc[t]
  <2>1. g \in Stack /\ pc \in [Stack -> {"none", "run", "send", "recv", "yield", "parked", "ended"}]
    BY <1>1 DEF TypeInv, Stack
  <2>2. CASE g = s
    BY <1>2, <1>5, <2>1, <2>2
  <2>3. CASE g # s
    BY <1>2, <2>1, <2>3
  <2>. QED BY <2>2, <2>3
<1>. QED BY <1>2, <1>3, <1>4, <1>5, <1>6

LEMMA StepRefines ==
  ASSUME IInv, IInv', PInv, NEW s \in Stack, NEW g \in Gen, NEW op \in Ops, NEW v \in Val, Step(s, g, op, v)
  PROVE  PInv' /\ Protocol!Next
<1>1. /\ UNCHANGED <<frames, exc, over>> /\ pc[s] = "run" /\ ~over /\ said' = None
      /\ gens[g].made /\ ~gens[g].done
      /\ wait'[s].op = op /\ wait'[s].g = g /\ wait'[s].v = v
      /\ \A t \in Stack \ {s} : wait'[t] = wait[t]
      /\ \A h \in Gen : gens'[h].made = gens[h].made /\ gens'[h].done = gens[h].done
      /\ pc'[s] = "send"
      /\ ~gens[g].started => g # s /\ pc[g] = "none" /\ pc'[g] = "parked" /\ op = "next"
      /\ \A t \in Stack \ {s} : pc'[t] = pc[t] \/ (t = g /\ ~gens[g].started)
  BY Stepped
<1>2. Active(s) /\ g \in Stack /\ v \in UserVal
  BY <1>1 DEF Active, Stack, UserVal
<1>3. \A t \in Stack \ {s} : ~Active(t)
  BY <1>2 DEF IInv, SchedInv
<1>4. \A t \in Stack \ {s} : /\ pc'[t] = "recv" <=> pc[t] = "recv"
                             /\ pc'[t] \notin {"run", "send", "yield"}
  BY <1>1, <1>3 DEF Active
<1>5. Quiet
  BY <1>1, <1>2, <1>3, <1>4 DEF Quiet, Active
<1>6. FreshInv'
  <2>1. ASSUME NEW h \in Gen, pc'[h] = "parked", frames'[h] = <<>>
        PROVE  \E t \in Stack : pc'[t] = "send" /\ wait'[t].g = h /\ wait'[t].op = "next"
    <3>1. pc[h] # "parked"
      <4>1. pc[h] = "parked" => \E t \in Stack : pc[t] = "send"
        BY <1>1, <2>1 DEF PInv, FreshInv
      <4>. QED BY <1>1, <1>3, <4>1 DEF Active
    <3>2. h # s /\ h \in Stack
      BY <1>1, <2>1 DEF Stack
    <3>3. h = g /\ ~gens[g].started
      BY <1>1, <2>1, <3>1, <3>2
    <3>. QED BY <1>1, <3>3
  <2>2. \A h \in Gen : gens'[h].done => gens'[h].made
    BY <1>1 DEF PInv, FreshInv
  <2>. QED BY <2>1, <2>2 DEF FreshInv
<1>7. SentinelInv'
  <2>1. \A t \in Stack : Sentinel(t)' => Sentinel(t)
    BY <1>1, <1>4 DEF Sentinel
  <2>2. \A t \in Stack : ClosedBy(t) => ClosedBy(t)'
    BY <1>5 DEF ClosedBy, Quiet
  <2>3. \A t \in Stack : pc'[t] \in {"send", "recv"} => wait'[t].v \in UserVal
    BY <1>1, <1>2, <1>4 DEF PInv, SentinelInv
  <2>. QED BY <1>1, <2>1, <2>2, <2>3 DEF PInv, SentinelInv
<1>8. ChainInv' /\ Chain' = Chain
  BY <1>5, SameChain DEF PInv
<1>9. OpenCalls[s] = None /\ Protocol!Able /\ Protocol!Top = s
  BY <1>1, <1>2, OpenCallsAre, AbleNow DEF PInv
<1>10. CASE g = s \/ pc[g] = "recv"
  <2>1. OpenCalls'[s] = [op |-> op, g |-> g, val |-> v]
    <3>1. CASE g = s
      BY <1>1, <3>1 DEF OpenCalls, CallOf, Reenters
    <3>2. CASE g # s /\ pc[g] = "recv"
      BY <1>1, <1>2, <1>4, <3>2 DEF OpenCalls, CallOf, Reenters
    <3>. QED BY <1>10, <3>1, <3>2
  <2>2. OpenCalls' = [OpenCalls EXCEPT ![s] = [op |-> op, g |-> g, val |-> v]]
    <3>1. \A t \in Stack \ {s} : OpenCalls'[t] = OpenCalls[t]
      BY <1>2, <1>5, SameCalls
    <3>. QED BY <2>1, <3>1 DEF OpenCalls
  <2>3. Status' = Status
    <3>1. \A h \in Gen : Status'[h] = Status[h]
      BY <1>1, <1>5, <1>6, SameStatus DEF PInv
    <3>. QED BY <3>1 DEF Status
  <2>4. Status[g] = "running"
    BY <1>2, <1>10, StatusMeans DEF PInv, StatusIs
  <2>5. Protocol!Hang(g, op, v)
    BY <1>1, <1>8, <1>9, <2>2, <2>3, <2>4 DEF Protocol!Hang
  <2>6. op \in Protocol!Op /\ v \in Protocol!UserVal
    BY <1>2 DEF Ops, Protocol!Op, Protocol!UserVal, UserVal
  <2>. QED BY <1>6, <1>7, <1>8, <2>5, <2>6 DEF PInv, Protocol!Next
<1>11. CASE ~(g = s \/ pc[g] = "recv")
  <2>1. OpenCalls'[s] = None
    BY <1>1, <1>2, <1>4, <1>11 DEF OpenCalls, CallOf, Reenters
  <2>2. over' \in BOOLEAN
    BY DEF IInv, TypeInv
  <2>3. ChainInv' /\ Protocol!Next
    BY <1>1, <1>2, <1>5, <1>6, <1>9, <2>1, <2>2, Computes DEF PInv
  <2>. QED BY <1>6, <1>7, <2>3 DEF PInv
<1>. QED BY <1>10, <1>11

\* A yield, a return and the end of a panic, up to the meeting.
LEMMA SendRefines ==
  ASSUME IInv, IInv', PInv, NEW s \in Stack, pc[s] = "run", ~over,
         NEW g, NEW kind, NEW v, v \in UserVal \/ Sentinel(s), Send(s, g, kind, v)
  PROVE  PInv' /\ Protocol!Next
<1>1. /\ UNCHANGED <<gens, frames, exc, over>> /\ said' = None
      /\ pc' = [pc EXCEPT ![s] = "yield"]
      /\ wait' = [wait EXCEPT ![s] = Meeting(kind, g, v, <<>>, None)]
  BY DEF Send, Silent
<1>2. /\ pc'[s] = "yield" /\ wait'[s].v = v
      /\ \A t \in Stack \ {s} : pc'[t] = pc[t] /\ wait'[t] = wait[t]
  BY <1>1 DEF IInv, TypeInv, Meeting
<1>3. Active(s)
  BY DEF Active
<1>4. \A t \in Stack \ {s} : ~Active(t)
  BY <1>3 DEF IInv, SchedInv
<1>5. Quiet
  BY <1>2, <1>3 DEF Quiet, Active
<1>6. FreshInv'
  <2>1. \A h \in Gen : pc'[h] = "parked" => pc[h] = "parked"
    BY <1>2 DEF Stack
  <2>2. \A t \in Stack : pc[t] # "send"
    BY <1>4 DEF Active
  <2>. QED BY <1>1, <2>1, <2>2 DEF PInv, FreshInv
<1>7. SentinelInv'
  <2>1. \A t \in Stack : Sentinel(t)' => Sentinel(t)
    BY <1>1, <1>2 DEF Sentinel
  <2>2. \A t \in Stack : ClosedBy(t) => ClosedBy(t)'
    BY <1>5 DEF ClosedBy, Quiet
  <2>3. \A t \in Stack : pc'[t] \in {"send", "recv"} => wait'[t].v \in UserVal
    BY <1>2 DEF PInv, SentinelInv
  <2>. QED BY <1>1, <2>1, <2>2, <2>3 DEF PInv, SentinelInv
<1>8. OpenCalls[s] = None /\ OpenCalls'[s] = None
  <2>1. OpenCalls'[s] = None
    BY <1>2 DEF OpenCalls, CallOf, Reenters
  <2>. QED BY <2>1, OpenCallsAre
<1>9. ChainInv' /\ Protocol!Next
  <2>1. over' \in BOOLEAN
    BY DEF IInv, TypeInv
  <2>. QED BY <1>1, <1>3, <1>5, <1>6, <1>8, <2>1, Computes DEF PInv
<1>. QED BY <1>6, <1>7, <1>9 DEF PInv

LEMMA HandsBackRefines ==
  ASSUME IInv, IInv', PInv
  PROVE  /\ \A s \in Stack, v \in Val : Yield(s, v) => PInv' /\ Protocol!Next
         /\ \A g \in Gen, v \in Val : Return(g, v) => PInv' /\ Protocol!Next
         /\ \A g \in Gen : Escape(g) => PInv' /\ Protocol!Next
<1>1. ASSUME NEW s \in Stack, NEW v \in Val, Yield(s, v) PROVE PInv' /\ Protocol!Next
  <2>1. pc[s] = "run" /\ ~over /\ v \in UserVal /\ Send(s, curGen, "value", v)
    BY <1>1 DEF Yield, Runs, UserVal
  <2>. QED BY <2>1, SendRefines
<1>2. ASSUME NEW g \in Gen, NEW v \in Val, Return(g, v) PROVE PInv' /\ Protocol!Next
  <2>1. g \in Stack /\ pc[g] = "run" /\ ~over /\ v \in UserVal /\ Send(g, g, "done", v)
    BY <1>2 DEF Return, Runs, UserVal, Stack
  <2>. QED BY <2>1, SendRefines
<1>3. ASSUME NEW g \in Gen, Escape(g) PROVE PInv' /\ Protocol!Next
  <2>1. g \in Stack /\ pc[g] = "run" /\ ~over /\ exc[g] # None /\ Send(g, g, "panic", exc[g])
    BY <1>3 DEF Escape, Stack
  <2>2. exc[g] \in UserVal \/ Sentinel(g)
    BY <2>1 DEF Sentinel
  <2>. QED BY <2>1, <2>2, SendRefines
<1>. QED BY <1>1, <1>2, <1>3

-----------------------------------------------------------------------------
(* The refinement: the two meetings.                                       *)

\* The body gets the control, its resumer waits for it.
LEMMA DeliverRefines == ASSUME IInv, IInv', PInv, NEW s \in Stack, Deliver(s) PROVE PInv' /\ Protocol!Next
<1>1. /\ pc[s] = "send" /\ ~over /\ UNCHANGED <<gens, wait, over>>
      /\ TypeInv /\ SchedInv /\ FieldsInv /\ StacksInv
  BY DEF Deliver, IInv
<1>2. PICK g \in Gen, op \in Ops, v \in UserVal : wait[s].g = g /\ wait[s].op = op /\ wait[s].v = v
  BY <1>1 DEF StacksInv, PInv, SentinelInv
<1>3. /\ pc[g] = "parked" /\ pc' = [pc EXCEPT ![s] = "recv", ![g] = "run"]
      /\ gens[g].made /\ ~gens[g].done
  BY <1>1, <1>2 DEF Deliver, StacksInv, FieldsInv
<1>4. g \in Stack /\ g # s /\ Active(s)
  BY <1>1, <1>3 DEF Stack, Active
<1>5. pc'[s] = "recv" /\ pc'[g] = "run" /\ \A t \in Stack \ {s, g} : pc'[t] = pc[t]
  BY <1>1, <1>3, <1>4 DEF TypeInv
<1>6. \A t \in Stack \ {s} : ~Active(t) /\ pc[t] # "send"
  BY <1>1, <1>4 DEF SchedInv, Active
<1>7. \A t \in Stack \ {g} : frames'[t] = frames[t] /\ exc'[t] = exc[t]
  <2>1. CASE frames[g] = <<>>
    BY <1>1, <1>2, <1>4, <2>1 DEF Deliver, Push, TypeInv
  <2>2. CASE frames[g] # <<>>
    BY <1>1, <1>2, <1>4, <2>2 DEF Deliver, TypeInv
  <2>. QED BY <2>1, <2>2
<1>8. FreshInv'
  <2>1. \A h \in Gen : pc'[h] = "parked" => pc[h] = "parked" /\ h # g /\ frames'[h] = frames[h]
    BY <1>5, <1>7 DEF Stack
  <2>2. \A h \in Gen : pc[h] = "parked" /\ frames[h] = <<>> => h = g
    BY <1>2, <1>6 DEF PInv, FreshInv
  <2>. QED BY <1>1, <2>1, <2>2 DEF PInv, FreshInv
<1>9. ClosedBy(g)' <=> op = "return"
  <2>1. \A t \in Stack : pc[t] = "recv" => wait[t].g # g
    BY <1>1, <1>3, <1>4 DEF SchedInv, Active
  <2>. QED BY <1>1, <1>2, <1>5, <2>1 DEF ClosedBy
<1>10. SentinelInv'
  <2>1. \A t \in Stack \ {g} : Sentinel(t)' => Sentinel(t)
    BY <1>1, <1>5, <1>7 DEF Sentinel
  <2>2. \A t \in Stack : ClosedBy(t) => ClosedBy(t)'
    BY <1>1, <1>3, <1>5 DEF ClosedBy
  <2>3. \A t \in Stack : pc'[t] \in {"send", "recv"} => wait'[t].v \in UserVal
    BY <1>1, <1>5 DEF PInv, SentinelInv
  <2>4. ASSUME Sentinel(g)' PROVE ClosedBy(g)'
    <3>1. ~ClosedBy(g) /\ ~gens[g].done
      <4>1. \A t \in Stack : pc[t] = "recv" => wait[t].g # g
        BY <1>1, <1>3, <1>4 DEF SchedInv, Active
      <4>. QED BY <1>3, <4>1 DEF ClosedBy
    <3>2. ~Sentinel(g)
      BY <1>4, <3>1 DEF PInv, SentinelInv
    <3>3. CASE frames[g] = <<>>
      <4>1. frames' = [frames EXCEPT ![g] = Append(<<>>, CallFrame)] /\ exc' = exc
        BY <1>2, <3>3 DEF Deliver, Push
      <4>2. frames'[g] = <<CallFrame>> /\ exc'[g] = exc[g]
        BY <1>1, <1>4, <4>1 DEF TypeInv
      <4>3. Len(<<CallFrame>>) = 1 /\ <<CallFrame>>[1] = CallFrame /\ CallFrame.pend = None
        BY DEF CallFrame
      <4>4. \A i \in 1 .. Len(frames'[g]) : frames'[g][i].pend = None
        BY <4>2, <4>3
      <4>. QED BY <1>5, <2>4, <3>2, <4>2, <4>4 DEF Sentinel
    <3>4. CASE frames[g] # <<>>
      <4>1. /\ frames' = frames
            /\ exc' = [exc EXCEPT ![g] = CASE op = "next"   -> None
                                           [] op = "return" -> GenExit
                                           [] op = "throw"  -> v]
        BY <1>2, <3>4 DEF Deliver
      <4>2. op # "return" => exc'[g] \in UserVal \cup {None}
        BY <1>1, <1>2, <1>4, <4>1 DEF TypeInv, Ops
      <4>3. op = "return"
        BY <1>5, <2>4, <3>2, <4>1, <4>2 DEF Sentinel
      <4>. QED BY <1>9, <4>3
    <3>. QED BY <3>3, <3>4
  <2>. QED BY <1>1, <2>1, <2>2, <2>3, <2>4 DEF PInv, SentinelInv
<1>11. PICK n : n = Cardinality(Waiting)
  OBVIOUS
<1>12. PICK c : c = Chain
  OBVIOUS
<1>13. /\ IsChain(c) /\ c \in Seq(Stack) /\ Len(c) = n + 1 /\ n \in Nat /\ c[n + 1] = s
       /\ \A i \in 1 .. n : c[i] \in Waiting
       /\ IsFiniteSet(Waiting)
  <2>1. IsChain(c) /\ c \in Seq(Stack) /\ Len(c) = n + 1 /\ n \in Nat /\ c[Len(c)] = s
    BY <1>4, <1>11, <1>12, TheChain DEF PInv, ChainIs
  <2>. QED BY <1>11, <2>1 DEF IsChain, LinksUp, PInv, ChainInv
<1>14. /\ Waiting' = Waiting \cup {s} /\ s \notin Waiting
       /\ IsFiniteSet(Waiting') /\ Cardinality(Waiting') = n + 1
  <2>1. Waiting' = Waiting \cup {s} /\ s \notin Waiting
    BY <1>1, <1>3, <1>5 DEF Waiting
  <2>. QED BY <1>11, <1>13, <2>1, FS_AddElement
<1>15. PICK d : d = Append(c, g)
  OBVIOUS
<1>16. /\ d \in Seq(Stack) /\ Len(d) = n + 2 /\ d[n + 2] = g /\ d[n + 1] = s
       /\ \A i \in 1 .. n + 1 : d[i] = c[i]
  <2>1. /\ d \in Seq(Stack) /\ Len(d) = Len(c) + 1 /\ d[Len(c) + 1] = g
        /\ \A i \in 1 .. Len(c) : d[i] = c[i]
    BY <1>4, <1>13, <1>15, Appended
  <2>2. Len(c) + 1 = n + 2 /\ n + 1 \in 1 .. n + 1
    BY <1>13
  <2>. QED BY <1>13, <2>1, <2>2
<1>17. IsChain(d)'
  <2>1. d \in [1 .. (n + 1) + 1 -> Stack]
    <3>1. DOMAIN d = 1 .. n + 2 /\ n + 2 = (n + 1) + 1
      BY <1>13, <1>16
    <3>. QED BY <1>16, <3>1
  <2>2. d[1] = Main
    BY <1>13, <1>16 DEF IsChain, LinksUp
  <2>3. \A i \in 1 .. n + 1 : d[i] \in Waiting' /\ d[i + 1] = wait'[d[i]].g
    <3>1. ASSUME NEW i \in 1 .. n PROVE d[i] \in Waiting' /\ d[i + 1] = wait'[d[i]].g
      <4>1. i \in 1 .. n + 1 /\ i + 1 \in 1 .. n + 1
        BY <1>13
      <4>2. c[i] \in Waiting /\ c[i + 1] = wait[c[i]].g
        BY <1>11, <1>13 DEF IsChain, LinksUp
      <4>. QED BY <1>1, <1>14, <1>16, <4>1, <4>2
    <3>2. d[n + 1] \in Waiting' /\ d[n + 2] = wait'[d[n + 1]].g
      BY <1>1, <1>2, <1>14, <1>16
    <3>3. \A i \in 1 .. n + 1 : i \in 1 .. n \/ (i = n + 1 /\ i + 1 = n + 2)
      BY <1>13
    <3>. QED BY <3>1, <3>2, <3>3
  <2>. QED BY <1>14, <2>1, <2>2, <2>3 DEF IsChain, LinksUp
<1>18. ChainInv' /\ Chain' = d
  <2>1. d[Cardinality(Waiting') + 1] = g
    <3>1. (n + 1) + 1 = n + 2
      BY <1>13
    <3>. QED BY <1>14, <1>16, <3>1
  <2>2. Active(d[Cardinality(Waiting) + 1])'
    BY <1>5, <2>1 DEF Active
  <2>3. ChainInv'
    BY <1>14, <1>17, <2>2 DEF ChainInv
  <2>. QED BY <1>14, <1>17, <2>3, OneChainNext DEF ChainIs
<1>19. Protocol!Able /\ Protocol!Top = s
  <2>1. OpenCalls[s] = None
    BY <1>1, <1>2, <1>3, <1>4 DEF OpenCalls, CallOf, Reenters
  <2>. QED BY <1>1, <1>4, <2>1, AbleNow DEF PInv
<1>20. OpenCalls' = [OpenCalls EXCEPT ![s] = [op |-> op, g |-> g, val |-> v]]
  <2>1. OpenCalls'[s] = [op |-> op, g |-> g, val |-> v]
    BY <1>1, <1>2, <1>5 DEF OpenCalls, CallOf
  <2>2. OpenCalls'[g] = None /\ OpenCalls[g] = None
    BY <1>3, <1>4, <1>5 DEF OpenCalls, CallOf, Reenters
  <2>3. \A t \in Stack \ {s, g} : OpenCalls'[t] = OpenCalls[t]
    BY <1>1, <1>5, <1>6 DEF OpenCalls, CallOf, Reenters
  <2>. QED BY <2>1, <2>2, <2>3 DEF OpenCalls
<1>21. Status[g] = IF frames[g] = <<>> THEN "fresh" ELSE "suspended"
  BY <1>3, StatusMeans DEF PInv, StatusIs
<1>22. Status' = [Status EXCEPT ![g] = "running"]
  <2>1. StatusIs /\ StatusIs'
    BY <1>8, StatusMeans, StatusMeansNext DEF PInv
  <2>2. Status'[g] = "running"
    BY <1>5, <2>1 DEF StatusIs, Active
  <2>3. ASSUME NEW h \in Gen \ {g} PROVE Status'[h] = Status[h]
    <3>1. CASE h = s
      <4>1. Status[h] = "running" /\ Status'[h] = "running"
        BY <1>4, <1>5, <2>1, <3>1 DEF StatusIs
      <4>. QED BY <4>1
    <3>2. CASE h # s
      <4>1. h \in Stack /\ pc'[h] = pc[h] /\ frames'[h] = frames[h]
        BY <1>5, <1>7, <3>2 DEF Stack
      <4>. QED BY <1>1, <4>1 DEF Status, StatusOf
    <3>. QED BY <3>1, <3>2
  <2>. QED BY <2>2, <2>3 DEF Status
<1>23. op = "next" \/ frames[g] # <<>>
  BY <1>2, <1>3, <1>6 DEF PInv, FreshInv
<1>24. said' = IF Status[g] = "fresh" THEN None
               ELSE CASE op = "next"   -> Protocol!Answer(g, "sent", v)
                      [] op = "return" -> Protocol!Answer(g, "raise", GenExit)
                      [] op = "throw"  -> Protocol!Answer(g, "raise", v)
  <2>1. CASE frames[g] = <<>>
    BY <1>2, <1>21, <2>1 DEF Deliver, Silent
  <2>2. CASE frames[g] # <<>>
    <3>1. /\ exc' = [exc EXCEPT ![g] = CASE op = "next"   -> None
                                         [] op = "return" -> GenExit
                                         [] op = "throw"  -> v]
          /\ said' = IF op = "next" THEN Said(g, "sent", v) ELSE Said(g, "raise", exc'[g])
      BY <1>2, <2>2 DEF Deliver
    <3>2. (op = "return" => exc'[g] = GenExit) /\ (op = "throw" => exc'[g] = v)
      BY <1>1, <1>4, <3>1 DEF TypeInv
    <3>. QED BY <1>21, <2>2, <3>1, <3>2 DEF Ops, Said, Protocol!Answer
  <2>. QED BY <2>1, <2>2
<1>25. Protocol!Resume(g, op, v)
  <2>1. Status[g] = "suspended" \/ (Status[g] = "fresh" /\ op = "next")
    BY <1>21, <1>23
  <2>2. Chain' = Append(Chain, g)
    BY <1>12, <1>15, <1>18
  <2>. QED BY <1>1, <1>19, <1>20, <1>22, <1>24, <2>1, <2>2 DEF Protocol!Resume
<1>26. op \in Protocol!Op /\ v \in Protocol!UserVal
  BY DEF Ops, Protocol!Op, Protocol!UserVal, UserVal
<1>. QED BY <1>8, <1>10, <1>18, <1>25, <1>26 DEF PInv, Protocol!Next

\* What the meeting on g.yields leaves behind.
LEMMA Taken ==
  ASSUME IInv, NEW s \in Stack, NEW b \in Stack, Take(s, b),
         NEW closing \in BOOLEAN, closing <=> wait[s].op = "return",
         NEW raises \in BOOLEAN, raises <=> wait[b].op = "panic" /\ ~(closing /\ wait[b].v = GenExit),
         NEW value \in BOOLEAN, value <=> wait[b].op = "value"
  PROVE  /\ pc[s] = "recv" /\ pc[b] = "yield" /\ wait[s].g = b /\ b \in Gen /\ s # b /\ ~over /\ over' = over
         /\ pc'[s] = "run" /\ pc'[b] = (IF value THEN "parked" ELSE "ended")
         /\ \A t \in Stack \ {s, b} : pc'[t] = pc[t] /\ wait'[t] = wait[t]
         /\ \A h \in Gen : gens'[h].made = gens[h].made /\ (h # b => gens'[h].done = gens[h].done)
         /\ gens'[b].done <=> closing \/ ~value
         /\ exc'[s] = (IF raises THEN wait[b].v ELSE None) /\ exc'[b] = None
         /\ \A t \in Stack \ {s, b} : exc'[t] = exc[t]
         /\ frames'[b] = (IF value THEN frames[b] ELSE <<>>) /\ (value => frames[b] # <<>>)
         /\ \A t \in Stack \ {b} : frames'[t] = frames[t]
         /\ said' = IF raises THEN Said(s, "raise", wait[b].v)
                    ELSE IF closing THEN Said(s, "done", wait[s].v)
                    ELSE Said(s, wait[b].op, wait[b].v)
<1>1. TypeInv /\ SchedInv /\ StacksInv
  BY DEF IInv
<1>2. pc[s] = "recv" /\ pc[b] = "yield" /\ wait[b].g = wait[s].g /\ ~over /\ over' = over
  BY DEF Take
<1>3. wait[s].g = b /\ b \in Gen /\ s # b
  BY <1>1, <1>2, NamesAssumption DEF StacksInv, SchedInv
<1>4. PICK p : p = IF value THEN "parked" ELSE "ended"
  OBVIOUS
<1>5. PICK x : x = IF raises THEN wait[b].v ELSE None
  OBVIOUS
<1>6. PICK d \in BOOLEAN : d <=> closing \/ ~value
  OBVIOUS
<1>7. /\ gens' = [gens EXCEPT ![b].saved = thisStack, ![b].done = d]
      /\ pc' = [pc EXCEPT ![s] = "run", ![b] = p]
      /\ wait' = [wait EXCEPT ![s] = NoMeeting, ![b] = NoMeeting]
      /\ exc' = [exc EXCEPT ![s] = x, ![b] = None]
      /\ frames' = IF value THEN frames ELSE [frames EXCEPT ![b] = <<>>]
      /\ said' = CASE raises -> Said(s, "raise", wait[b].v)
                   [] ~raises /\ closing -> Said(s, "done", wait[s].v)
                   [] OTHER -> Said(s, wait[b].op, wait[b].v)
  <2>1. d = (wait[s].op = "return" \/ wait[b].op # "value")
    BY <1>6
  <2>2. gens' = [gens EXCEPT ![b].saved = thisStack, ![b].done = d]
    BY <1>3, <2>1 DEF Take
  <2>3. pc' = [pc EXCEPT ![s] = "run", ![b] = p] /\ exc' = [exc EXCEPT ![s] = x, ![b] = None]
    BY <1>4, <1>5 DEF Take
  <2>4. wait' = [wait EXCEPT ![s] = NoMeeting, ![b] = NoMeeting]
    BY DEF Take
  <2>5. frames' = IF value THEN frames ELSE [frames EXCEPT ![b] = <<>>]
    BY DEF Take
  <2>6. said' = CASE raises -> Said(s, "raise", wait[b].v)
                   [] ~raises /\ closing -> Said(s, "done", wait[s].v)
                   [] OTHER -> Said(s, wait[b].op, wait[b].v)
    BY DEF Take
  <2>. QED BY <2>2, <2>3, <2>4, <2>5, <2>6
<1>8. pc'[s] = "run" /\ pc'[b] = p /\ \A t \in Stack \ {s, b} : pc'[t] = pc[t] /\ wait'[t] = wait[t]
  BY <1>1, <1>3, <1>7 DEF TypeInv
<1>9. exc'[s] = x /\ exc'[b] = None /\ \A t \in Stack \ {s, b} : exc'[t] = exc[t]
  BY <1>1, <1>3, <1>7 DEF TypeInv
<1>10. /\ frames'[b] = (IF value THEN frames[b] ELSE <<>>)
       /\ \A t \in Stack \ {b} : frames'[t] = frames[t]
  <2>1. CASE value
    BY <1>7, <2>1
  <2>2. CASE ~value
    <3>1. frames' = [frames EXCEPT ![b] = <<>>]
      BY <1>7, <2>2
    <3>. QED BY <1>1, <2>2, <3>1 DEF TypeInv
  <2>. QED BY <2>1, <2>2
<1>11. value => frames[b] # <<>>
  BY <1>1, <1>2 DEF StacksInv
<1>12. /\ \A h \in Gen : gens'[h].made = gens[h].made /\ (h # b => gens'[h].done = gens[h].done)
       /\ gens'[b].done = d
  BY <1>1, <1>3, <1>7 DEF TypeInv, Fields
<1>13. said' = IF raises THEN Said(s, "raise", wait[b].v)
               ELSE IF closing THEN Said(s, "done", wait[s].v)
               ELSE Said(s, wait[b].op, wait[b].v)
  BY <1>7
<1>. QED BY <1>2, <1>3, <1>4, <1>5, <1>6, <1>8, <1>9, <1>10, <1>11, <1>12, <1>13

\* The end of the chain goes, and the resumer below it runs again.
LEMMA ChainShrinks ==
  ASSUME IInv, PInv, NEW s \in Stack, NEW b \in Stack, pc[s] = "recv", pc[b] = "yield", wait[s].g = b, s # b,
         pc'[s] = "run", pc'[b] # "recv",
         \A t \in Stack \ {s, b} : pc'[t] = pc[t] /\ wait'[t] = wait[t]
  PROVE  /\ ChainInv' /\ Chain' = SubSeq(Chain, 1, Len(Chain) - 1)
         /\ Len(Chain) > 1 /\ Chain[Len(Chain) - 1] = s /\ Chain[Len(Chain)] = b
<1>1. SchedInv /\ ChainInv
  BY DEF IInv, PInv
<1>2. PICK n : n = Cardinality(Waiting)
  OBVIOUS
<1>3. PICK c : c = Chain
  OBVIOUS
<1>4. Active(b) /\ s \in Waiting
  BY DEF Active, Waiting
<1>5. /\ IsChain(c) /\ c \in Seq(Stack) /\ Len(c) = n + 1 /\ n \in Nat /\ c[n + 1] = b
      /\ c \in [1 .. n + 1 -> Stack] /\ c[1] = Main
      /\ \A i \in 1 .. n : c[i] \in Waiting /\ c[i + 1] = wait[c[i]].g
      /\ IsFiniteSet(Waiting)
  <2>1. IsChain(c) /\ c \in Seq(Stack) /\ Len(c) = n + 1 /\ n \in Nat /\ c[Len(c)] = b
    BY <1>1, <1>2, <1>3, <1>4, TheChain DEF ChainIs
  <2>. QED BY <1>1, <1>2, <2>1 DEF IsChain, LinksUp, ChainInv
<1>6. n > 0
  <2>1. n # 0
    BY <1>2, <1>4, <1>5, FS_EmptySet
  <2>. QED BY <1>5, <2>1
<1>7. c[n] = s
  <2>1. n \in 1 .. n
    BY <1>5, <1>6
  <2>2. c[n] \in Stack /\ pc[c[n]] = "recv" /\ wait[c[n]].g = b
    BY <1>5, <2>1 DEF Waiting
  <2>. QED BY <1>1, <2>2 DEF SchedInv
<1>8. /\ Waiting' = Waiting \ {s} /\ IsFiniteSet(Waiting') /\ Cardinality(Waiting') = n - 1
  <2>1. Waiting' = Waiting \ {s}
    BY DEF Waiting
  <2>. QED BY <1>2, <1>4, <1>5, <2>1, FS_RemoveElement
<1>9. PICK d : d = SubSeq(c, 1, n)
  OBVIOUS
<1>10. d \in Seq(Stack) /\ Len(d) = n /\ \A i \in 1 .. n : d[i] = c[i]
  <2>1. n \in 0 .. Len(c)
    BY <1>5
  <2>. QED BY <1>5, <1>9, <2>1, Cut
<1>11. IsChain(d)'
  <2>1. d \in [1 .. (n - 1) + 1 -> Stack]
    <3>1. DOMAIN d = 1 .. n /\ (n - 1) + 1 = n
      BY <1>5, <1>10
    <3>. QED BY <1>10, <3>1
  <2>2. d[1] = Main
    BY <1>5, <1>6, <1>10
  <2>3. ASSUME NEW i \in 1 .. n - 1 PROVE d[i] \in Waiting' /\ d[i + 1] = wait'[d[i]].g
    <3>1. i \in 1 .. n /\ i + 1 \in 1 .. n
      BY <1>5
    <3>2. d[i] = c[i] /\ d[i + 1] = c[i + 1] /\ c[i] \in Waiting /\ c[i + 1] = wait[c[i]].g
      BY <1>5, <1>10, <3>1
    <3>3. pc[c[i + 1]] = "recv"
      BY <1>5, <3>1 DEF Waiting
    <3>4. c[i] # s /\ c[i] # b /\ c[i] \in Stack
      BY <3>2, <3>3 DEF Waiting
    <3>. QED BY <1>8, <3>2, <3>4
  <2>. QED BY <1>8, <2>1, <2>2, <2>3 DEF IsChain, LinksUp
<1>12. ChainInv' /\ Chain' = d
  <2>1. d[Cardinality(Waiting') + 1] = s
    <3>1. (n - 1) + 1 = n /\ n \in 1 .. n
      BY <1>5, <1>6
    <3>. QED BY <1>7, <1>8, <1>10, <3>1
  <2>2. Active(d[Cardinality(Waiting) + 1])'
    BY <2>1 DEF Active
  <2>3. ChainInv'
    BY <1>8, <1>11, <2>2 DEF ChainInv
  <2>. QED BY <1>8, <1>11, <2>3, OneChainNext DEF ChainIs
<1>13. Len(c) - 1 = n /\ Len(c) > 1
  BY <1>5, <1>6
<1>. QED BY <1>3, <1>5, <1>7, <1>9, <1>12, <1>13

\* The resumer takes its own stacks back and answers.
LEMMA TakeRefines ==
  ASSUME IInv, IInv', PInv, NEW s \in Stack, NEW b \in Stack, Take(s, b) PROVE PInv' /\ Protocol!Next
<1>1. PICK closing \in BOOLEAN : closing <=> wait[s].op = "return"
  OBVIOUS
<1>2. PICK raises \in BOOLEAN : raises <=> wait[b].op = "panic" /\ ~(closing /\ wait[b].v = GenExit)
  OBVIOUS
<1>3. PICK value \in BOOLEAN : value <=> wait[b].op = "value"
  OBVIOUS
<1>4. /\ pc[s] = "recv" /\ pc[b] = "yield" /\ wait[s].g = b /\ b \in Gen /\ s # b /\ ~over /\ over' = over
      /\ pc'[s] = "run" /\ pc'[b] = (IF value THEN "parked" ELSE "ended")
      /\ \A t \in Stack \ {s, b} : pc'[t] = pc[t] /\ wait'[t] = wait[t]
      /\ \A h \in Gen : gens'[h].made = gens[h].made /\ (h # b => gens'[h].done = gens[h].done)
      /\ gens'[b].done <=> closing \/ ~value
      /\ exc'[s] = (IF raises THEN wait[b].v ELSE None) /\ exc'[b] = None
      /\ \A t \in Stack \ {s, b} : exc'[t] = exc[t]
      /\ frames'[b] = (IF value THEN frames[b] ELSE <<>>) /\ (value => frames[b] # <<>>)
      /\ \A t \in Stack \ {b} : frames'[t] = frames[t]
      /\ said' = IF raises THEN Said(s, "raise", wait[b].v)
                 ELSE IF closing THEN Said(s, "done", wait[s].v)
                 ELSE Said(s, wait[b].op, wait[b].v)
  BY <1>1, <1>2, <1>3, Taken
<1>5. TypeInv /\ SchedInv /\ FieldsInv /\ StacksInv
  BY DEF IInv
<1>6. /\ gens[b].made /\ ~gens[b].done /\ wait[b].op \in Yields /\ wait[b].v \in UserVal \cup {GenExit}
      /\ wait[s].op \in Ops /\ wait[s].v \in UserVal
      /\ exc[s] = None
  <2>1. gens[b].made /\ ~gens[b].done
    BY <1>4, <1>5 DEF FieldsInv, Active
  <2>2. wait[b].v \in Exc
    BY <1>5 DEF TypeInv, Locals
  <2>. QED BY <1>4, <1>5, <2>1, <2>2 DEF StacksInv, PInv, SentinelInv, Exc
<1>7. \A t \in Stack \ {b} : ~Active(t) /\ pc[t] # "send"
  BY <1>4, <1>5 DEF SchedInv, Active
<1>8. ClosedBy(b) <=> closing
  BY <1>1, <1>4, <1>5 DEF ClosedBy, SchedInv
<1>9. wait[b].v \in UserVal \/ closing
  BY <1>4, <1>6, <1>8 DEF PInv, SentinelInv, Sentinel
<1>10. raises => wait[b].v \in UserVal
  BY <1>2, <1>6, <1>9
<1>11. FreshInv'
  <2>1. \A h \in Gen : pc'[h] = "parked" /\ frames'[h] = <<>> => pc[h] = "parked" /\ frames[h] = <<>>
    BY <1>4 DEF Stack
  <2>2. \A t \in Stack : pc[t] # "send"
    BY <1>4, <1>7
  <2>3. \A h \in Gen : gens'[h].done => gens'[h].made
    BY <1>4, <1>6 DEF PInv, FreshInv
  <2>. QED BY <2>1, <2>2, <2>3 DEF PInv, FreshInv
<1>12. SentinelInv'
  <2>1. \A t \in Stack \ {b} : Sentinel(t)' => Sentinel(t)
    <3>1. \A t \in Stack \ {s, b} : Sentinel(t)' => Sentinel(t)
      BY <1>4 DEF Sentinel
    <3>2. Sentinel(s)' => Sentinel(s)
      BY <1>4, <1>10 DEF Sentinel
    <3>. QED BY <3>1, <3>2
  <2>2. \A t \in Stack \ {b} : ClosedBy(t) => ClosedBy(t)'
    BY <1>4 DEF ClosedBy
  <2>3. ASSUME Sentinel(b)' PROVE gens'[b].done
    <3>1. CASE ~value
      BY <1>4, <3>1
    <3>2. CASE value
      <4>1. Sentinel(b)
        BY <1>4, <2>3, <3>2 DEF Sentinel
      <4>2. closing
        BY <1>6, <1>8, <4>1 DEF PInv, SentinelInv
      <4>. QED BY <1>4, <4>2
    <3>. QED BY <3>1, <3>2
  <2>4. \A t \in Stack : pc'[t] \in {"send", "recv"} => wait'[t].v \in UserVal
    BY <1>4 DEF PInv, SentinelInv
  <2>5. \A t \in Gen \ {b} : gens'[t].done = gens[t].done
    BY <1>4
  <2>6. ASSUME NEW t \in Stack, Sentinel(t)' PROVE ClosedBy(t)' \/ (t \in Gen /\ gens'[t].done)
    <3>1. CASE t = b
      BY <1>4, <2>3, <2>6, <3>1
    <3>2. CASE t # b
      BY <2>1, <2>2, <2>5, <2>6, <3>2 DEF PInv, SentinelInv
    <3>. QED BY <3>1, <3>2
  <2>. QED BY <2>4, <2>6 DEF SentinelInv
<1>13. /\ ChainInv' /\ Chain' = SubSeq(Chain, 1, Len(Chain) - 1)
       /\ Len(Chain) > 1 /\ Protocol!Caller = s /\ Protocol!Top = b
  <2>1. pc'[b] # "recv"
    BY <1>4
  <2>. QED BY <1>4, <2>1, ChainShrinks DEF Protocol!Caller, Protocol!Top
<1>14. Protocol!Able
  BY <1>4, OpenCallsAre, AbleNow DEF PInv, Active
<1>15. OpenCalls[s] = [op |-> wait[s].op, g |-> b, val |-> wait[s].v]
  BY <1>4, OpenCallsAre
<1>16. OpenCalls' = [OpenCalls EXCEPT ![s] = None]
  <2>1. OpenCalls'[s] = None
    BY <1>4 DEF OpenCalls, CallOf, Reenters
  <2>2. OpenCalls'[b] = None /\ OpenCalls[b] = None
    BY <1>4 DEF OpenCalls, CallOf, Reenters
  <2>3. \A t \in Stack \ {s, b} : OpenCalls'[t] = OpenCalls[t]
    BY <1>4, <1>7 DEF OpenCalls, CallOf, Reenters
  <2>. QED BY <2>1, <2>2, <2>3 DEF OpenCalls
<1>17. PICK st : st = IF closing \/ ~value THEN "done" ELSE "suspended"
  OBVIOUS
<1>18. Status' = [Status EXCEPT ![b] = st]
  <2>1. StatusIs /\ StatusIs'
    BY <1>11, StatusMeans, StatusMeansNext DEF PInv
  <2>2. Status'[b] = st
    <3>1. CASE closing \/ ~value
      <4>1. gens'[b].done
        BY <1>4, <3>1
      <4>2. Status'[b] = "done"
        BY <1>4, <2>1, <4>1 DEF StatusIs
      <4>. QED BY <1>17, <3>1, <4>2
    <3>2. CASE ~closing /\ value
      <4>1. gens'[b].made /\ ~gens'[b].done /\ pc'[b] = "parked" /\ frames'[b] # <<>>
        BY <1>4, <1>6, <3>2
      <4>2. Status'[b] = "suspended"
        BY <1>4, <2>1, <4>1 DEF StatusIs
      <4>. QED BY <1>17, <3>2, <4>2
    <3>. QED BY <3>1, <3>2
  <2>3. ASSUME NEW h \in Gen \ {b} PROVE Status'[h] = Status[h]
    <3>1. CASE h = s
      <4>1. Status[h] = "running"
        BY <1>4, <2>1, <3>1 DEF StatusIs
      <4>2. Active(h)'
        BY <1>4, <3>1 DEF Active
      <4>3. Status'[h] = "running"
        BY <2>1, <4>2 DEF StatusIs
      <4>. QED BY <4>1, <4>3
    <3>2. CASE h # s
      <4>1. h \in Stack \ {s, b} /\ h \in Gen \ {b}
        BY <3>2 DEF Stack
      <4>2. /\ pc'[h] = pc[h] /\ frames'[h] = frames[h]
            /\ gens'[h].made = gens[h].made /\ gens'[h].done = gens[h].done
        BY <1>4, <4>1
      <4>. QED BY <4>2 DEF Status, StatusOf
    <3>. QED BY <3>1, <3>2
  <2>. QED BY <2>2, <2>3 DEF Status
<1>19. OpenCalls[s].op = wait[s].op /\ OpenCalls[s].val = wait[s].v
  BY <1>15
<1>20. ASSUME NEW k, NEW x, said' = Said(s, k, x)
       PROVE  Protocol!Back(st, Protocol!Answer(s, k, x))
  BY <1>4, <1>13, <1>16, <1>18, <1>20 DEF Protocol!Back, Protocol!Answer, Said
<1>21. wait[b].v \in UserVal => wait[b].v \in Protocol!UserVal
  BY DEF UserVal, Protocol!UserVal
<1>22. CASE raises
  <2>1. st = "done" /\ wait[b].v \in UserVal
    BY <1>2, <1>3, <1>10, <1>17, <1>22
  <2>2. Protocol!Back("done", Protocol!Answer(s, "raise", wait[b].v))
    BY <1>4, <1>20, <1>22, <2>1
  <2>3. Protocol!Escape(wait[b].v)
    BY <1>13, <1>14, <2>2 DEF Protocol!Escape
  <2>. QED BY <1>11, <1>12, <1>13, <1>21, <2>1, <2>3 DEF PInv, Protocol!Next
<1>23. CASE ~raises /\ closing
  <2>1. st = "done" /\ OpenCalls[s].op = "return" /\ OpenCalls[s].val = wait[s].v
    BY <1>1, <1>17, <1>19, <1>23
  <2>2. Protocol!Back("done", Protocol!Answer(s, "done", wait[s].v))
    BY <1>4, <1>20, <1>23, <2>1
  <2>3. Protocol!Closed
    BY <1>13, <1>14, <2>1, <2>2 DEF Protocol!Closed
  <2>. QED BY <1>11, <1>12, <1>13, <2>3 DEF PInv, Protocol!Next
<1>24. CASE ~raises /\ ~closing
  <2>1. /\ wait[b].v \in UserVal /\ OpenCalls[s].op # "return"
        /\ Protocol!Back(st, Protocol!Answer(s, wait[b].op, wait[b].v))
    BY <1>1, <1>4, <1>9, <1>19, <1>20, <1>24
  <2>2. CASE value
    <3>1. st = "suspended" /\ wait[b].op = "value"
      BY <1>3, <1>17, <1>24, <2>2
    <3>2. Protocol!Yield(wait[b].v)
      BY <1>13, <1>14, <2>1, <3>1 DEF Protocol!Yield
    <3>. QED BY <1>11, <1>12, <1>13, <1>21, <2>1, <3>2 DEF PInv, Protocol!Next
  <2>3. CASE ~value
    <3>1. st = "done" /\ wait[b].op = "done"
      BY <1>2, <1>3, <1>6, <1>17, <1>24, <2>3 DEF Yields
    <3>2. Protocol!Return(wait[b].v)
      BY <1>13, <1>14, <2>1, <3>1 DEF Protocol!Return
    <3>. QED BY <1>11, <1>12, <1>13, <1>21, <2>1, <3>2 DEF PInv, Protocol!Next
  <2>. QED BY <2>2, <2>3
<1>. QED BY <1>22, <1>23, <1>24

-----------------------------------------------------------------------------
(* The refinement: every step of the Go twin is one of the protocol.       *)

LEMMA InitRefines == ASSUME Init, IInv PROVE PInv /\ Protocol!Init
<1>1. Main \in Stack /\ \A s \in Stack : pc[s] = IF s = Main THEN "run" ELSE "none"
  BY DEF Init, Stack
<1>2. FreshInv
  BY <1>1 DEF FreshInv, Init, NewGen, Stack
<1>3. SentinelInv
  <2>1. \A s \in Stack : exc[s] = None /\ pc[s] \notin {"yield", "send", "recv"}
    BY <1>1 DEF Init
  <2>2. \A s \in Stack : \A i \in 1 .. Len(frames[s]) : frames[s][i].pend = None
    <3>1. Len(<<CallFrame>>) = 1 /\ <<CallFrame>>[1] = CallFrame /\ CallFrame.pend = None /\ Len(<<>>) = 0
      BY DEF CallFrame
    <3>2. \A s \in Stack : frames[s] = <<CallFrame>> \/ frames[s] = <<>>
      BY DEF Init
    <3>. QED BY <3>1, <3>2
  <2>. QED BY <2>1, <2>2 DEF SentinelInv, Sentinel
<1>4. Waiting = {} /\ IsFiniteSet(Waiting) /\ Cardinality(Waiting) = 0
  <2>1. Waiting = {}
    BY <1>1 DEF Waiting
  <2>. QED BY <2>1, FS_EmptySet
<1>5. PICK c : c = <<Main>>
  OBVIOUS
<1>6. IsChain(c)
  BY <1>1, <1>4, <1>5 DEF IsChain, LinksUp
<1>7. ChainInv
  BY <1>1, <1>4, <1>5, <1>6 DEF ChainInv, Active
<1>8. Chain = <<Main>>
  BY <1>4, <1>5, <1>6, OneChain DEF ChainIs
<1>9. Status = [g \in Gen |-> "none"]
  <2>1. \A g \in Gen : Status[g] = "none"
    BY <1>2, StatusMeans DEF StatusIs, Init, NewGen
  <2>. QED BY <2>1 DEF Status
<1>10. OpenCalls = [s \in Stack |-> None]
  BY <1>1 DEF OpenCalls, CallOf, Reenters
<1>11. Protocol!Init
  BY <1>8, <1>9, <1>10 DEF Protocol!Init, Init, Protocol!Stack, Stack
<1>. QED BY <1>2, <1>3, <1>7, <1>11 DEF PInv

LEMMA StutterRefines == ASSUME IInv, PInv, UNCHANGED vars PROVE PInv' /\ UNCHANGED Protocol!vars
<1>1. UNCHANGED <<gens, pc, wait, frames, exc, said, over>>
  BY DEF vars
<1>2. FreshInv' /\ SentinelInv'
  BY <1>1 DEF PInv, FreshInv, SentinelInv, Sentinel, ClosedBy
<1>3. Quiet
  BY <1>1 DEF Quiet, Active
<1>4. ChainInv' /\ Chain' = Chain
  BY <1>3, SameChain DEF PInv
<1>5. Status' = Status
  BY <1>1 DEF Status, StatusOf
<1>6. OpenCalls' = OpenCalls
  BY <1>1 DEF OpenCalls, CallOf, Reenters
<1>. QED BY <1>1, <1>2, <1>4, <1>5, <1>6 DEF PInv, Protocol!vars

LEMMA NextRefines == IInv /\ IInv' /\ PInv /\ [Next]_vars => PInv' /\ [Protocol!Next]_(Protocol!vars)
<1> SUFFICES ASSUME IInv, IInv', PInv, [Next]_vars PROVE PInv' /\ [Protocol!Next]_(Protocol!vars)
  OBVIOUS
<1>1. CASE UNCHANGED vars
  BY <1>1, StutterRefines
<1>2. CASE MainEnds
  BY <1>2, MainEndsRefines
<1>3. ASSUME NEW s \in Stack, Enter(s) \/ Leave(s) \/ ClauseDone(s) \/ Unwind(s) \/ Deliver(s)
      PROVE  PInv' /\ Protocol!Next
  BY <1>3, EnterRefines, LeaveRefines, ClauseDoneRefines, UnwindRefines, DeliverRefines
<1>4. ASSUME NEW s \in Stack, NEW v \in Val, Throw(s, v) \/ Yield(s, v) PROVE PInv' /\ Protocol!Next
  BY <1>4, ThrowRefines, HandsBackRefines
<1>5. ASSUME NEW g \in Gen, NEW v \in Val, Return(g, v) PROVE PInv' /\ Protocol!Next
  BY <1>5, HandsBackRefines
<1>6. ASSUME NEW g \in Gen, Create(g) \/ Escape(g) PROVE PInv' /\ Protocol!Next
  BY <1>6, CreateRefines, HandsBackRefines
<1>7. ASSUME NEW s \in Stack, NEW b \in Stack, Take(s, b) PROVE PInv' /\ Protocol!Next
  BY <1>7, TakeRefines
<1>8. ASSUME NEW s \in Stack, NEW g \in Gen, NEW op \in Ops, NEW v \in Val,
             AtOnce(s, g, op, v) \/ Step(s, g, op, v)
      PROVE  PInv' /\ Protocol!Next
  BY <1>8, AtOnceRefines, StepRefines
<1>. QED BY <1>1, <1>2, <1>3, <1>4, <1>5, <1>6, <1>7, <1>8 DEF Next, Ops

\* For any number of generators, any values and any depth of calls the Go twin implements
\* the iterator protocol (step(), js_yield and the meetings on the channels of a jsGenerator):
\* it gives the answers and raises the exceptions of the protocol, in the goroutine the protocol
\* names, a generator runs in one place at a time, and the sentinel of a close never gets out.
THEOREM ProtocolImplemented == Spec => ImplementsProtocol
<1>1. Init => IInv /\ PInv /\ Protocol!Init
  BY InitInv, InitRefines
<1>2. IInv /\ [Next]_vars => IInv'
  BY NextInv
<1>3. IInv /\ IInv' /\ PInv /\ [Next]_vars => PInv' /\ [Protocol!Next]_(Protocol!vars)
  BY NextRefines
<1>. QED BY <1>1, <1>2, <1>3, PTL DEF Spec, ImplementsProtocol, Protocol!Spec
=============================================================================
