------------------------------ MODULE ParserProof ------------------------------
(***************************************************************************)
(* Every rule that fails gives the position back, what the block list      *)
(* blocks is running, and the parse stays within its text: the proofs.     *)
(* The first two rest on the shape of the recursion alone: who waits for   *)
(* whom, where each application began and as what the list knows it.       *)
(* Nothing is assumed for them of the grammars, the texts and the          *)
(* :script() rules.  The last needs a grammar that obeys (GrammarObeys).   *)
(***************************************************************************)
EXTENDS ParserProps, Assemble, TLAPS, WellFoundedInduction

Fields == {"rule", "ws", "skip", "was", "phase", "i", "at", "prods", "counts"}

\* The rules of a grammar are arbitrary values, hence the unnamed set.
IsStack(s) == (\E S : s \in Seq(S)) /\ \A k \in 1 .. Len(s) : DOMAIN s[k] = Fields

\* An application that has not begun is at the position it was called at.
EntersHere == stack # <<>> /\ Top.phase = "enter" => Sdx = Top.was

IInv == IsStack(stack) /\ Chained /\ EntersHere /\ FailureGivesBack

-----------------------------------------------------------------------------
(* The three things an application does with the stack.                    *)

\* Sequences: the top is replaced, a frame is pushed, a frame is popped.
LEMMA Replaced ==
  ASSUME NEW s, IsStack(s), s # <<>>, NEW x, DOMAIN x = Fields
  PROVE  LET t == [s EXCEPT ![Len(s)] = x] IN
         /\ IsStack(t) /\ Len(t) = Len(s) /\ t # <<>>
         /\ t[Len(t)] = x
         /\ \A k \in 1 .. Len(s) - 1 : t[k] = s[k]
<1> DEFINE t == [s EXCEPT ![Len(s)] = x]
<1>1. PICK S : s \in Seq(S) BY DEF IsStack
<1>2. /\ t \in Seq(S \cup {x}) /\ Len(t) = Len(s) /\ Len(s) \in Nat \ {0}
      /\ t[Len(t)] = x /\ \A k \in 1 .. Len(s) - 1 : t[k] = s[k]
  BY <1>1
<1>3. \A k \in 1 .. Len(t) : DOMAIN t[k] = Fields
  <2>1. TAKE k \in 1 .. Len(t)
  <2>2. CASE k = Len(t) BY <1>2, <2>2
  <2>3. CASE k # Len(t)
    <3>1. k \in 1 .. Len(s) - 1 BY <1>2, <2>1, <2>3
    <3> QED BY <1>2, <3>1 DEF IsStack
  <2> QED BY <2>2, <2>3
<1> QED BY <1>2, <1>3 DEF IsStack

LEMMA Pushed ==
  ASSUME NEW s, IsStack(s), NEW x, DOMAIN x = Fields
  PROVE  LET t == Append(s, x) IN
         /\ IsStack(t) /\ Len(t) = Len(s) + 1 /\ t # <<>>
         /\ t[Len(t)] = x
         /\ \A k \in 1 .. Len(s) : t[k] = s[k]
<1> DEFINE t == Append(s, x)
<1>1. PICK S : s \in Seq(S) BY DEF IsStack
<1>2. /\ t \in Seq(S \cup {x}) /\ Len(t) = Len(s) + 1 /\ Len(s) \in Nat
      /\ t[Len(t)] = x /\ \A k \in 1 .. Len(s) : t[k] = s[k]
  BY <1>1
<1>3. \A k \in 1 .. Len(t) : DOMAIN t[k] = Fields
  <2>1. TAKE k \in 1 .. Len(t)
  <2>2. CASE k = Len(t) BY <1>2, <2>2
  <2>3. CASE k # Len(t)
    <3>1. k \in 1 .. Len(s) BY <1>2, <2>1, <2>3
    <3> QED BY <1>2, <3>1 DEF IsStack
  <2> QED BY <2>2, <2>3
<1> QED BY <1>2, <1>3 DEF IsStack

LEMMA Prefix ==
  ASSUME NEW S, NEW s \in Seq(S), NEW k \in 0 .. Len(s)
  PROVE  LET t == SubSeq(s, 1, k) IN
         t \in Seq(S) /\ Len(t) = k /\ \A j \in 1 .. k : t[j] = s[j]
OBVIOUS

LEMMA Popped ==
  ASSUME NEW s, IsStack(s), s # <<>>
  PROVE  LET t == SubSeq(s, 1, Len(s) - 1) IN
         /\ IsStack(t) /\ Len(t) = Len(s) - 1 /\ Len(s) \in Nat \ {0}
         /\ \A k \in 1 .. Len(t) : t[k] = s[k]
<1> DEFINE t == SubSeq(s, 1, Len(s) - 1)
<1>1. PICK S : s \in Seq(S) BY DEF IsStack
<1>0. Len(s) \in Nat \ {0} /\ Len(s) - 1 \in 0 .. Len(s) BY <1>1
<1>2. /\ t \in Seq(S) /\ Len(t) = Len(s) - 1
      /\ \A k \in 1 .. Len(t) : t[k] = s[k]
  BY <1>0, <1>1, Prefix
<1>3. \A k \in 1 .. Len(t) : DOMAIN t[k] = Fields
  <2>1. TAKE k \in 1 .. Len(t)
  <2>2. k \in 1 .. Len(s) BY <1>0, <1>2, <2>1
  <2> QED BY <1>2, <2>1, <2>2 DEF IsStack
<1> QED BY <1>0, <1>2, <1>3 DEF IsStack

\* It goes on, with what it was called with.
LEMMA Continues ==
  ASSUME IInv, stack # <<>>, NEW x, Continue(x),
         DOMAIN x = Fields, x.was = Top.was, x.phase # "enter"
  PROVE  IInv'
<1>0. stack' = [stack EXCEPT ![Len(stack)] = x] BY DEF Continue, With
<1>1. /\ IsStack(stack') /\ Len(stack') = Len(stack) /\ Top' = x
      /\ \A k \in 1 .. Len(stack) - 1 : stack'[k] = stack[k]
  <2>1. IsStack(stack) BY DEF IInv
  <2>2. LET t == [stack EXCEPT ![Len(stack)] = x] IN
        /\ IsStack(t) /\ Len(t) = Len(stack) /\ t # <<>>
        /\ t[Len(t)] = x
        /\ \A k \in 1 .. Len(stack) - 1 : t[k] = stack[k]
    BY <2>1, Replaced
  <2> QED BY <1>0, <2>2 DEF Top
<1>2. Len(stack) \in Nat \ {0} BY Popped DEF IInv
<1>3. Chained'
  <2> SUFFICES ASSUME NEW k \in 1 .. Len(stack) - 1
               PROVE  stack'[k].phase \in Calling /\ stack'[k].at = stack'[k + 1].was
    BY <1>1 DEF Chained
  <2>1. stack[k].phase \in Calling /\ stack[k].at = stack[k + 1].was BY DEF IInv, Chained
  <2>2. CASE k + 1 = Len(stack) BY <1>1, <2>1, <2>2 DEF Top
  <2>3. CASE k + 1 # Len(stack)
    <3>1. k + 1 \in 1 .. Len(stack) - 1 BY <1>2, <2>3
    <3> QED BY <1>1, <2>1, <3>1
  <2> QED BY <2>2, <2>3
<1>4. EntersHere' /\ FailureGivesBack'
  BY <1>1 DEF EntersHere, FailureGivesBack, Continue
<1> QED BY <1>1, <1>3, <1>4 DEF IInv

\* It calls another one, at the position where the other one begins.
LEMMA Calls ==
  ASSUME IInv, stack # <<>>, answer = "none",
         NEW x, NEW rule, NEW ws, NEW skip, Call(x, rule, ws, skip, Sdx'),
         DOMAIN x = Fields, x.was = Top.was, x.phase \in Calling, x.at = Sdx'
  PROVE  IInv'
<1> DEFINE new == Frame(rule, ws, skip, Sdx')
           s == With(x)
<1>1. /\ IsStack(s) /\ Len(s) = Len(stack) /\ s[Len(stack)] = x
      /\ \A k \in 1 .. Len(stack) - 1 : s[k] = stack[k]
  BY Replaced DEF IInv, With
<1>2. DOMAIN new = Fields /\ new.was = Sdx' /\ new.phase = "enter"
  BY DEF Frame, Fields
<1>3. stack' = Append(s, new) BY DEF Call
<1>4. /\ IsStack(stack') /\ Len(stack') = Len(stack) + 1 /\ Top' = new
      /\ \A k \in 1 .. Len(stack) : stack'[k] = s[k]
  <2> HIDE DEF new, s
  <2> QED BY <1>1, <1>2, <1>3, Pushed DEF Top
<1>5. Len(stack) \in Nat \ {0} BY Popped DEF IInv
<1>6. Chained'
  <2> SUFFICES ASSUME NEW k \in 1 .. Len(stack)
               PROVE  stack'[k].phase \in Calling /\ stack'[k].at = stack'[k + 1].was
    BY <1>4, <1>5 DEF Chained
  <2>1. CASE k = Len(stack)
    <3>1. stack'[k] = x /\ stack'[k + 1] = new BY <1>1, <1>4, <2>1 DEF Top
    <3> QED BY <1>2, <3>1
  <2>2. CASE k # Len(stack)
    <3>1. k \in 1 .. Len(stack) - 1 /\ k + 1 \in 1 .. Len(stack) BY <1>5, <2>2
    <3>2. stack[k].phase \in Calling /\ stack[k].at = stack[k + 1].was
      BY <3>1 DEF IInv, Chained
    <3>3. stack'[k] = stack[k] /\ stack'[k + 1].was = stack[k + 1].was
      <4>1. CASE k + 1 = Len(stack) BY <1>1, <1>4, <3>1, <4>1 DEF Top
      <4>2. CASE k + 1 # Len(stack)
        <5>1. k + 1 \in 1 .. Len(stack) - 1 BY <1>5, <3>1, <4>2
        <5> QED BY <1>1, <1>4, <3>1, <5>1
      <4> QED BY <4>1, <4>2
    <3> QED BY <3>2, <3>3
  <2> QED BY <2>1, <2>2
<1>7. EntersHere' /\ FailureGivesBack'
  BY <1>2, <1>4 DEF EntersHere, FailureGivesBack, Call
<1> QED BY <1>4, <1>6, <1>7 DEF IInv

\* It answers: a failure, from where it began.
LEMMA Answers ==
  ASSUME IInv, stack # <<>>, NEW a, NEW prods, Pop(a, prods),
         a = "fail" => Sdx' = Top.was
  PROVE  IInv'
<1>1. /\ IsStack(stack') /\ Len(stack') = Len(stack) - 1 /\ Len(stack) \in Nat \ {0}
      /\ \A k \in 1 .. Len(stack') : stack'[k] = stack[k]
  BY Popped DEF IInv, Pop, Below
<1>2. Chained'
  <2> SUFFICES ASSUME NEW k \in 1 .. Len(stack') - 1
               PROVE  stack'[k].phase \in Calling /\ stack'[k].at = stack'[k + 1].was
    BY DEF Chained
  <2>1. k \in 1 .. Len(stack') /\ k + 1 \in 1 .. Len(stack') /\ k \in 1 .. Len(stack) - 1
    BY <1>1
  <2> QED BY <1>1, <2>1 DEF IInv, Chained
<1>3. ASSUME stack' # <<>> PROVE Top'.phase \in Calling /\ Top'.at = Top.was
  <2>1. Len(stack') # 0
    <3>1. PICK S : stack' \in Seq(S) BY <1>1 DEF IsStack
    <3> QED BY <1>3, <3>1
  <2>2. Len(stack') \in 1 .. Len(stack) - 1 /\ Len(stack') + 1 = Len(stack) BY <1>1, <2>1
  <2>3. Top' = stack[Len(stack')] BY <1>1, <2>2 DEF Top
  <2> QED BY <2>2, <2>3 DEF IInv, Chained, Top
<1>4. EntersHere' BY <1>3 DEF EntersHere, Calling
<1>5. FailureGivesBack' BY <1>3 DEF FailureGivesBack, Pop
<1> QED BY <1>1, <1>2, <1>4, <1>5 DEF IInv

LEMMA Stays == ASSUME IInv, UNCHANGED <<stack, answer, Sdx>> PROVE IInv'
BY DEF IInv, IsStack, Chained, EntersHere, FailureGivesBack, Top

\* The top of a stack is a frame.
LEMMA TopIsFrame == ASSUME IInv, stack # <<>> PROVE DOMAIN Top = Fields
<1>1. Len(stack) \in 1 .. Len(stack) BY Popped DEF IInv
<1> QED BY <1>1 DEF IInv, IsStack, Top

-----------------------------------------------------------------------------
(* The steps.                                                              *)

LEMMA InitInv == Init => IInv
<1> SUFFICES ASSUME Init PROVE IInv OBVIOUS
<1> DEFINE new == Frame(SeqWrapper(gram.prods[gram.start]), InitialSpaces, FALSE, 0)
<1>1. stack = <<new>> /\ answer = "none" /\ Sdx = 0 BY DEF Init
<1>2. DOMAIN new = Fields /\ new.was = 0 BY DEF Frame, Fields
<1> HIDE DEF new
<1>3. stack \in Seq({new}) /\ Len(stack) = 1 /\ stack[1] = new BY <1>1
<1>4. IsStack(stack)
  <2>1. \A k \in 1 .. Len(stack) : DOMAIN stack[k] = Fields BY <1>1, <1>2, <1>3
  <2> QED BY <1>1, <1>3, <2>1 DEF IsStack
<1>5. Chained BY <1>1, <1>3 DEF Chained
<1>6. EntersHere /\ FailureGivesBack
  BY <1>1, <1>2, <1>3 DEF EntersHere, FailureGivesBack, Top
<1> QED BY <1>4, <1>5, <1>6 DEF IInv

LEMMA Matches ==
  ASSUME IInv, stack # <<>>, NEW prods, NEW sdx, Match(prods, sdx) PROVE IInv'
BY Answers DEF Match

LEMMA Fails == ASSUME IInv, stack # <<>>, Fail PROVE IInv'
BY Answers DEF Fail

\* Where an application stands, and where its callee does.
LEMMA Here == ASSUME NEW p, At(p) PROVE stack # <<>> /\ answer = "none" /\ Top.phase = p
<1>1. Len(stack) # 0 BY BoundsAssumption DEF At
<1> QED BY <1>1 DEF At

LEMMA There == ASSUME NEW p, Back(p) PROVE stack # <<>> /\ answer # "none"
BY DEF Back

LEMMA EnterStep == ASSUME IInv, Enter PROVE IInv'
<1>1. PICK p \in {"spaces", "params", "body"} : Continue([Top EXCEPT !.phase = p])
  BY DEF Enter
<1> DEFINE x == [Top EXCEPT !.phase = p]
<1>2. stack # <<>> BY Here DEF Enter
<1>3. Continue(x) /\ DOMAIN x = Fields /\ x.was = Top.was /\ x.phase # "enter"
  BY <1>1, <1>2, TopIsFrame DEF Fields
<1> HIDE DEF x
<1> QED BY <1>2, <1>3, Continues

LEMMA SkipKnownStep == ASSUME IInv, SkipKnown PROVE IInv'
<1> DEFINE x == [Top EXCEPT !.phase = "body"]
<1>1. stack # <<>> BY Here DEF SkipKnown
<1>2. Continue(x) BY DEF SkipKnown
<1>3. DOMAIN x = Fields /\ x.was = Top.was /\ x.phase # "enter" BY <1>1, TopIsFrame DEF Fields
<1> HIDE DEF x
<1> QED BY <1>1, <1>2, <1>3, Continues

LEMMA SkipSpacesStep == ASSUME IInv, SkipSpaces PROVE IInv'
<1> DEFINE x == [Top EXCEPT !.phase = "skipping", !.at = Sdx]
<1>1. stack # <<>> /\ answer = "none" BY Here DEF SkipSpaces
<1>2. Call(x, Top.ws, Top.ws, TRUE, Sdx) BY DEF SkipSpaces
<1>3. Sdx' = Sdx BY DEF SkipSpaces, text
<1>4. DOMAIN x = Fields /\ x.was = Top.was /\ x.phase \in Calling /\ x.at = Sdx
  BY <1>1, TopIsFrame DEF Fields, Calling
<1> HIDE DEF x
<1> QED BY <1>1, <1>2, <1>3, <1>4, Calls

LEMMA SkipDoneStep == ASSUME IInv, SkipDone PROVE IInv'
<1> DEFINE x == [Top EXCEPT !.phase = "body"]
<1>1. stack # <<>> BY There DEF SkipDone
<1>2. Continue(x) BY DEF SkipDone
<1>3. DOMAIN x = Fields /\ x.was = Top.was /\ x.phase # "enter" BY <1>1, TopIsFrame DEF Fields
<1> HIDE DEF x
<1> QED BY <1>1, <1>2, <1>3, Continues

LEMMA DescendStep == ASSUME IInv, Descend PROVE IInv'
<1> DEFINE x == [Top EXCEPT !.phase = "kid", !.at = Sdx]
<1>1. stack # <<>> /\ answer = "none" BY Here DEF Descend
<1>2. Call(x, Kid(Top), Top.ws, Top.skip, Sdx) BY DEF Descend
<1>3. Sdx' = Sdx BY DEF Descend, text
<1>4. DOMAIN x = Fields /\ x.was = Top.was /\ x.phase \in Calling /\ x.at = Sdx
  BY <1>1, TopIsFrame DEF Fields, Calling
<1> HIDE DEF x
<1> QED BY <1>1, <1>2, <1>3, <1>4, Calls

LEMMA SequenceStep == ASSUME IInv, SequenceTakes PROVE IInv'
<1> DEFINE x == [Top EXCEPT !.phase = "body", !.i = @ + 1, !.ws = SpacesAfter(@, out),
                            !.prods = @ \o SelectSeq(out, IsProduct)]
<1>1. stack # <<>> BY There DEF SequenceTakes
<1>2. Fail \/ Continue(x) BY DEF SequenceTakes
<1>3. DOMAIN x = Fields /\ x.was = Top.was /\ x.phase # "enter" BY <1>1, TopIsFrame DEF Fields
<1> HIDE DEF x
<1> QED BY <1>1, <1>2, <1>3, Continues, Fails

\* The next child, alternative or round.
LEMMA NextKids == ASSUME IInv, stack # <<>>, NEW prods, NextKid(prods) PROVE IInv'
<1> DEFINE x == [Top EXCEPT !.phase = "body", !.i = @ + 1, !.prods = @ \o prods]
<1>1. Continue(x) BY DEF NextKid
<1>2. DOMAIN x = Fields /\ x.was = Top.was /\ x.phase # "enter" BY TopIsFrame DEF Fields
<1> HIDE DEF x
<1> QED BY <1>1, <1>2, Continues

LEMMA OrStep == ASSUME IInv, OrTakes PROVE IInv'
<1>1. stack # <<>> BY There DEF OrTakes
<1>2. Match(out, Sdx) \/ NextKid(<<>>) BY DEF OrTakes
<1> QED BY <1>1, <1>2, Matches, NextKids

LEMMA NotStep == ASSUME IInv, NotTakes PROVE IInv'
<1>1. stack # <<>> BY There DEF NotTakes
<1>2. Fail \/ Match(<<>>, Top.was) BY DEF NotTakes
<1> QED BY <1>1, <1>2, Matches, Fails

LEMMA RepeatStep == ASSUME IInv, RepeatTakes PROVE IInv'
<1> DEFINE x == [Top EXCEPT !.phase = "body", !.prods = @ \o out]
<1>1. stack # <<>> BY There DEF RepeatTakes
<1>2. Match(Top.prods \o out, Sdx) \/ Continue(x) BY DEF RepeatTakes
<1>3. DOMAIN x = Fields /\ x.was = Top.was /\ x.phase # "enter" BY <1>1, TopIsFrame DEF Fields
<1> HIDE DEF x
<1> QED BY <1>1, <1>2, <1>3, Continues, Matches

LEMMA TimesStep == ASSUME IInv, TimesTakes PROVE IInv'
<1>1. stack # <<>> BY There DEF TimesTakes
<1>2. Fail \/ NextKid(out) \/ Match(Top.prods \o out, Sdx) BY DEF TimesTakes
<1> QED BY <1>1, <1>2, Fails, NextKids, Matches

LEMMA WrapperStep == ASSUME IInv, WrapperTakes PROVE IInv'
<1>1. stack # <<>> BY There DEF WrapperTakes
<1>2. \/ Fail \/ Match(out, Sdx)
      \/ Match(<<[Top.rule EXCEPT !.kids = out]>>, Sdx)
  BY DEF WrapperTakes
<1> QED BY <1>1, <1>2, Fails, Matches

LEMMA CountKnownStep == ASSUME IInv, CountKnown PROVE IInv'
<1> DEFINE x == [Top EXCEPT !.phase = "body", !.i = 1]
           y == [Top EXCEPT !.i = @ + 1]
<1>1. stack # <<>> /\ Top.phase = "params" BY Here DEF CountKnown
<1>2. Continue(x) \/ Continue(y) BY DEF CountKnown
<1>3. /\ DOMAIN x = Fields /\ x.was = Top.was /\ x.phase # "enter"
      /\ DOMAIN y = Fields /\ y.was = Top.was /\ y.phase # "enter"
  BY <1>1, TopIsFrame DEF Fields
<1> HIDE DEF x, y
<1> QED BY <1>1, <1>2, <1>3, Continues

LEMMA PanicStep == ASSUME IInv, Panic PROVE IInv'
BY Stays DEF Panic, text, control

LEMMA CountReadStep == ASSUME IInv, CountRead PROVE IInv'
<1> DEFINE x == [Top EXCEPT !.phase = "count", !.at = Sdx]
<1>1. stack # <<>> /\ answer = "none" BY Here DEF CountRead
<1>2. CASE Panic BY <1>2, PanicStep
<1>3. CASE Call(x, Counts(Top)[Top.i], Top.ws, Top.skip, Sdx) /\ UNCHANGED text
  <2>1. Sdx' = Sdx BY <1>3 DEF text
  <2>2. DOMAIN x = Fields /\ x.was = Top.was /\ x.phase \in Calling /\ x.at = Sdx
    BY <1>1, TopIsFrame DEF Fields, Calling
  <2> HIDE DEF x
  <2> QED BY <1>1, <1>3, <2>1, <2>2, Calls
<1> QED BY <1>2, <1>3 DEF CountRead

LEMMA CountTakenStep == ASSUME IInv, CountTaken PROVE IInv'
<1> DEFINE x == [Top EXCEPT !.phase = "params", !.i = @ + 1, !.counts[Top.i] = out[1]]
<1>1. stack # <<>> BY There DEF CountTaken
<1>2. Panic \/ Continue(x) BY DEF CountTaken
<1>3. DOMAIN x = Fields /\ x.was = Top.was /\ x.phase # "enter" BY <1>1, TopIsFrame DEF Fields
<1> HIDE DEF x
<1> QED BY <1>1, <1>2, <1>3, PanicStep, Continues

LEMMA NumberStep == ASSUME IInv, NumberCommand PROVE IInv'
<1>1. stack # <<>> BY Here DEF NumberCommand
<1>2. \/ Fail \/ Panic
      \/ \E prods, sdx : Match(prods, sdx)
  BY DEF NumberCommand
<1> QED BY <1>1, <1>2, Fails, PanicStep, Matches

\* A :script() may move the position; the rule it hands back begins there.
LEMMA ScriptStep == ASSUME IInv, ScriptCommand PROVE IInv'
<1> DEFINE x == [Top EXCEPT !.phase = "kid", !.at = Sdx']
<1>1. stack # <<>> /\ answer = "none" BY Here DEF ScriptCommand
<1>2. CASE Pop("match", <<>>) BY <1>1, <1>2, Answers
<1>3. CASE Call(x, Effect.rule, Top.ws, Top.skip, Sdx')
  <2>1. DOMAIN x = Fields /\ x.was = Top.was /\ x.phase \in Calling /\ x.at = Sdx'
    BY <1>1, TopIsFrame DEF Fields, Calling
  <2> HIDE DEF x
  <2> QED BY <1>1, <1>3, <2>1, Calls
<1> QED BY <1>2, <1>3 DEF ScriptCommand

LEMMA StartDoneStep == ASSUME IInv, StartDone PROVE IInv'
<1> DEFINE new == Frame(InitialSpaces, InitialSpaces, TRUE, Sdx)
<1>1. stack = <<>> /\ Sdx' = Sdx BY DEF StartDone, text
<1>2. CASE UNCHANGED <<stack, answer>> BY <1>1, <1>2, Stays
<1>3. CASE stack' = <<new>> /\ answer' = "none"
  <2>1. DOMAIN new = Fields /\ new.was = Sdx BY DEF Frame, Fields
  <2> HIDE DEF new
  <2>2. stack' \in Seq({new}) /\ Len(stack') = 1 /\ stack'[1] = new BY <1>3
  <2>3. IsStack(stack')
    <3>1. \A k \in 1 .. Len(stack') : DOMAIN stack'[k] = Fields BY <2>1, <2>2
    <3> QED BY <2>2, <3>1 DEF IsStack
  <2>4. Chained' BY <2>2 DEF Chained
  <2>5. EntersHere' /\ FailureGivesBack'
    BY <1>1, <1>3, <2>1, <2>2 DEF EntersHere, FailureGivesBack, Top
  <2> QED BY <2>3, <2>4, <2>5 DEF IInv
<1> QED BY <1>2, <1>3 DEF StartDone

\* What answers at once: the lists, a terminal, the last child, a command.
LEMMA AnswerStep ==
  ASSUME IInv, EnterFound \/ EnterBlocked \/ MatchTerminal \/ KidsDone \/ WhitespaceCommand
  PROVE  IInv'
<1>1. CASE EnterFound
  <2>1. stack # <<>> BY <1>1, Here DEF EnterFound
  <2> QED BY <1>1, <2>1, Answers DEF EnterFound
<1>2. CASE EnterBlocked
  <2>1. stack # <<>> /\ Top.phase = "enter" BY <1>2, Here DEF EnterBlocked
  <2>2. Sdx' = Top.was BY <1>2, <2>1 DEF EnterBlocked, text, IInv, EntersHere
  <2> QED BY <1>2, <2>1, <2>2, Answers DEF EnterBlocked, BlockedExit
<1>3. CASE MatchTerminal
  <2>1. stack # <<>> BY <1>3, Here DEF MatchTerminal
  <2>2. Fail \/ \E prods, sdx : Match(prods, sdx) BY <1>3 DEF MatchTerminal
  <2> QED BY <2>1, <2>2, Fails, Matches
<1>4. CASE KidsDone
  <2>1. stack # <<>> BY <1>4, Here DEF KidsDone
  <2> QED BY <1>4, <2>1, Fails, Matches DEF KidsDone
<1>5. CASE WhitespaceCommand
  <2>1. stack # <<>> BY <1>5, Here DEF WhitespaceCommand
  <2> QED BY <1>5, <2>1, Matches DEF WhitespaceCommand
<1> QED BY <1>1, <1>2, <1>3, <1>4, <1>5

\* What ends the parse, or says what is wrong with the grammar.
LEMMA EndStep == ASSUME IInv, Overflow \/ Unknown \/ Verdict PROVE IInv'
<1>1. CASE Overflow BY <1>1, Stays DEF Overflow, text, control
<1>2. CASE Unknown BY <1>2, PanicStep DEF Unknown
<1>3. CASE Verdict BY <1>3, Stays DEF Verdict, text, control
<1> QED BY <1>1, <1>2, <1>3

LEMMA StutterStep == ASSUME IInv, UNCHANGED vars PROVE IInv'
BY Stays DEF vars, text, control

LEMMA NextInv == ASSUME IInv, [Next]_vars PROVE IInv'
<1>1. CASE Next
  BY <1>1, EnterStep, AnswerStep, EndStep, SkipKnownStep, SkipSpacesStep, SkipDoneStep,
     DescendStep, SequenceStep, OrStep, NotStep, RepeatStep, TimesStep, WrapperStep,
     CountKnownStep, CountReadStep, CountTakenStep, NumberStep, ScriptStep, StartDoneStep
  DEF Next
<1> QED BY <1>1, StutterStep

-----------------------------------------------------------------------------
(* What follows.                                                           *)

\* Whatever the grammar, the text, the flags and the :script() rules are, the
\* applications that wait form a chain of calls, each at the position where
\* the next one began, and one that has not begun is where it was called
\* (apply).
THEOREM Invariance == Spec => []IInv
<1>1. Init => IInv BY InitInv
<1>2. IInv /\ [Next]_vars => IInv' BY NextInv
<1> QED BY <1>1, <1>2, PTL DEF Spec

\* Whatever the grammar, the text, the flags and the :script() rules are, a
\* rule that fails has given the position back when its caller goes on: also
\* one the block list stopped, and one below which a :script() moved the
\* position or replaced the text (apply, ruleEnter).
THEOREM FailuresRestore == Spec => []FailureGivesBack
<1>1. IInv => FailureGivesBack BY DEF IInv
<1> QED BY <1>1, Invariance, PTL
-----------------------------------------------------------------------------
(* The block list.                                                         *)

\* The applications the list is about, and what it knows them by.
Applied == {k \in DOMAIN stack : Entered(k)}
Id(k) == Key(stack[k])

\* Only an application that runs blocks another one.
OnlyRunningBlock ==
  /\ ~opts.lb => blockList = {}
  /\ \A b \in blockList : \E k \in Applied : Id(k) = b

ListExact ==
  /\ ~opts.lb => blockList = {}
  /\ opts.lb => blockList = {Id(k) : k \in Applied}
  /\ opts.lb => \A k, l \in Applied : Id(k) = Id(l) => k = l

LEMMA Exact == BlockListIsExact <=> ListExact
BY DEF ListExact, BlockListIsExact, BlockListIsTheStack, NoRuleIsItsOwnParent, Applied, Id

\* Nothing is entered and nothing is left.
LEMMA SameList ==
  ASSUME UNCHANGED <<opts, blockList>>, Applied' = Applied, \A k \in Applied : Id(k)' = Id(k)
  PROVE  /\ OnlyRunningBlock => OnlyRunningBlock'
         /\ ListExact => ListExact'
<1>1. OnlyRunningBlock => OnlyRunningBlock' BY DEF OnlyRunningBlock
<1>2. ListExact => ListExact' BY DEF ListExact
<1> QED BY <1>1, <1>2

\* The application on top is entered, and was not blocked.
LEMMA LongerList ==
  ASSUME UNCHANGED opts, NEW n, n \notin Applied, Applied' = Applied \cup {n},
         \A k \in Applied : Id(k)' = Id(k), opts.lb => Id(n)' \notin blockList,
         blockList' = IF opts.lb THEN blockList \cup {Id(n)'} ELSE blockList
  PROVE  /\ OnlyRunningBlock => OnlyRunningBlock'
         /\ ListExact => ListExact'
<1>1. OnlyRunningBlock => OnlyRunningBlock' BY DEF OnlyRunningBlock
<1>2. ListExact => ListExact' BY DEF ListExact
<1> QED BY <1>1, <1>2

\* The application on top answers.
LEMMA ShorterList ==
  ASSUME UNCHANGED opts, NEW n, n \in Applied, Applied' = Applied \ {n},
         \A k \in Applied' : Id(k)' = Id(k), blockList' = blockList \ {Id(n)}
  PROVE  /\ OnlyRunningBlock => OnlyRunningBlock'
         /\ ListExact => ListExact'
<1>1. OnlyRunningBlock => OnlyRunningBlock' BY DEF OnlyRunningBlock
<1>2. ListExact => ListExact' BY DEF ListExact
<1> QED BY <1>1, <1>2

\* To the list, the same application in the same phase.
Alike(x, y) ==
  /\ x.rule = y.rule /\ x.was = y.was /\ x.skip = y.skip
  /\ y.rule.op = "Identifier" => x.ws = y.ws
  /\ x.phase = "enter" <=> y.phase = "enter"

LEMMA Indices ==
  ASSUME NEW s, IsStack(s)
  PROVE  DOMAIN s = 1 .. Len(s) /\ Len(s) \in Nat /\ (s # <<>> <=> Len(s) # 0)
<1>1. PICK S : s \in Seq(S) BY DEF IsStack
<1> QED BY <1>1

LEMMA AlikeListed ==
  ASSUME UNCHANGED <<opts, pureCache>>, NEW k, NEW l, Alike(stack'[k], stack[l])
  PROVE  (Entered(k)' <=> Entered(l)) /\ (Entered(l) => Id(k)' = Id(l))
BY DEF Alike, Entered, Listed, Id, Key, RulePosId

\* The applications stay as they are, and one may be called.
LEMMA SameApplied ==
  ASSUME IsStack(stack), IsStack(stack)', UNCHANGED <<opts, pureCache>>, Len(stack') >= Len(stack),
         \A k \in 1 .. Len(stack) : Alike(stack'[k], stack[k]),
         \A k \in Len(stack) + 1 .. Len(stack') : stack'[k].phase = "enter"
  PROVE  Applied' = Applied /\ \A k \in Applied : Id(k)' = Id(k)
<1>1. DOMAIN stack = 1 .. Len(stack) /\ DOMAIN stack' = 1 .. Len(stack')
      /\ Len(stack) \in Nat /\ Len(stack') \in Nat
  BY Indices
<1>2. \A k \in 1 .. Len(stack) : (Entered(k)' <=> Entered(k)) /\ (Entered(k) => Id(k)' = Id(k))
  BY AlikeListed
<1>3. \A k \in Len(stack) + 1 .. Len(stack') : ~Entered(k)' BY DEF Entered
<1>4. \A k \in 1 .. Len(stack') : k \in 1 .. Len(stack) \/ k \in Len(stack) + 1 .. Len(stack') BY <1>1
<1>5. \A k \in 1 .. Len(stack) : k \in 1 .. Len(stack') BY <1>1
<1>6. Applied' = {k \in 1 .. Len(stack') : Entered(k)'} /\ Applied = {k \in 1 .. Len(stack) : Entered(k)}
  BY <1>1 DEF Applied
<1> QED BY <1>2, <1>3, <1>4, <1>5, <1>6

\* The one on top is gone.
LEMMA FewerApplied ==
  ASSUME IInv, stack # <<>>, NEW a, NEW prods, Pop(a, prods), UNCHANGED <<opts, pureCache>>
  PROVE  Applied' = Applied \ {Len(stack)} /\ \A k \in Applied' : Id(k)' = Id(k)
<1>1. /\ IsStack(stack') /\ Len(stack') = Len(stack) - 1 /\ Len(stack) \in Nat \ {0}
      /\ \A k \in 1 .. Len(stack') : stack'[k] = stack[k]
  BY Popped DEF IInv, Pop, Below
<1>2. DOMAIN stack = 1 .. Len(stack) /\ DOMAIN stack' = 1 .. Len(stack) - 1
  BY <1>1, Indices DEF IInv
<1>3. \A k \in 1 .. Len(stack) - 1 : (Entered(k)' <=> Entered(k)) /\ Id(k)' = Id(k)
  BY <1>1 DEF Entered, Listed, Id, Key, RulePosId
<1>4. 1 .. Len(stack) - 1 = 1 .. Len(stack) \ {Len(stack)} BY <1>1
<1> QED BY <1>2, <1>3, <1>4 DEF Applied

\* The two invariants live through a step.
ListsKept ==
  /\ OnlyRunningBlock => OnlyRunningBlock'
  /\ ListExact => ListExact'

LEMMA ListContinues ==
  ASSUME IInv, stack # <<>>, NEW x, stack' = With(x), DOMAIN x = Fields, Alike(x, Top),
         UNCHANGED <<opts, pureCache, blockList>>
  PROVE  ListsKept
<1> DEFINE s == With(x)
<1>0. /\ IsStack(s) /\ Len(s) = Len(stack) /\ s[Len(stack)] = x
      /\ \A k \in 1 .. Len(stack) - 1 : s[k] = stack[k]
  BY Replaced DEF IInv, With
<1>1. /\ IsStack(stack') /\ Len(stack') = Len(stack) /\ stack'[Len(stack)] = x
      /\ \A k \in 1 .. Len(stack) - 1 : stack'[k] = stack[k]
  BY <1>0
<1>2. Len(stack) \in Nat \ {0} BY Popped DEF IInv
<1>3. \A k \in 1 .. Len(stack) : Alike(stack'[k], stack[k])
  <2>1. TAKE k \in 1 .. Len(stack)
  <2>2. CASE k = Len(stack) BY <1>1, <2>2 DEF Top
  <2>3. CASE k # Len(stack)
    <3>1. k \in 1 .. Len(stack) - 1 BY <1>2, <2>3
    <3> QED BY <1>1, <3>1 DEF Alike
  <2> QED BY <2>2, <2>3
<1>4. Applied' = Applied /\ \A k \in Applied : Id(k)' = Id(k)
  BY <1>1, <1>2, <1>3, SameApplied DEF IInv
<1> QED BY <1>4, SameList DEF ListsKept

LEMMA ListCalls ==
  ASSUME IInv, stack # <<>>, NEW x, NEW rule, NEW ws, NEW skip, NEW sdx, Call(x, rule, ws, skip, sdx),
         DOMAIN x = Fields, Alike(x, Top), UNCHANGED <<opts, pureCache>>
  PROVE  /\ Applied' = Applied
         /\ UNCHANGED blockList => ListsKept
<1> DEFINE new == Frame(rule, ws, skip, sdx)
           s == With(x)
<1>1. /\ IsStack(s) /\ Len(s) = Len(stack) /\ s[Len(stack)] = x
      /\ \A k \in 1 .. Len(stack) - 1 : s[k] = stack[k]
  BY Replaced DEF IInv, With
<1>2. DOMAIN new = Fields /\ new.phase = "enter" BY DEF Frame, Fields
<1>3. stack' = Append(s, new) BY DEF Call
<1>4. /\ IsStack(stack') /\ Len(stack') = Len(stack) + 1 /\ stack'[Len(stack')] = new
      /\ \A k \in 1 .. Len(stack) : stack'[k] = s[k]
  <2> HIDE DEF new, s
  <2> QED BY <1>1, <1>2, <1>3, Pushed
<1>5. Len(stack) \in Nat \ {0} BY Popped DEF IInv
<1>6. \A k \in 1 .. Len(stack) : Alike(stack'[k], stack[k])
  <2>1. TAKE k \in 1 .. Len(stack)
  <2>2. CASE k = Len(stack) BY <1>1, <1>4, <2>2 DEF Top
  <2>3. CASE k # Len(stack)
    <3>1. k \in 1 .. Len(stack) - 1 BY <1>5, <2>3
    <3> QED BY <1>1, <1>4, <3>1 DEF Alike
  <2> QED BY <2>2, <2>3
<1>7. \A k \in Len(stack) + 1 .. Len(stack') : stack'[k].phase = "enter" BY <1>2, <1>4, <1>5
<1>8. Applied' = Applied /\ \A k \in Applied : Id(k)' = Id(k)
  BY <1>4, <1>5, <1>6, <1>7, SameApplied DEF IInv
<1> QED BY <1>8, SameList DEF ListsKept

LEMMA ListAnswers ==
  ASSUME IInv, stack # <<>>, NEW a, NEW prods, Pop(a, prods), Unblock(Top), Top.phase # "enter",
         UNCHANGED <<opts, pureCache>>
  PROVE  ListsKept
<1>1. Applied' = Applied \ {Len(stack)} /\ \A k \in Applied' : Id(k)' = Id(k) BY FewerApplied
<1>2. Len(stack) \in DOMAIN stack BY Popped, Indices DEF IInv
<1>3. CASE Listed(Top)
  <2>1. Len(stack) \in Applied /\ blockList' = blockList \ {Id(Len(stack))}
    BY <1>2, <1>3 DEF Applied, Entered, Top, Id, Unblock
  <2> QED BY <1>1, <2>1, ShorterList DEF ListsKept
<1>4. CASE ~Listed(Top)
  <2>1. Len(stack) \notin Applied /\ blockList' = blockList
    BY <1>4 DEF Applied, Entered, Top, Unblock
  <2> QED BY <1>1, <2>1, SameList DEF ListsKept
<1> QED BY <1>3, <1>4

\* What has not been entered answers.
LEMMA ListSkips ==
  ASSUME IInv, stack # <<>>, NEW a, NEW prods, Pop(a, prods), Top.phase = "enter" \/ ~Listed(Top),
         UNCHANGED <<opts, pureCache>>
  PROVE  /\ Applied' = Applied
         /\ UNCHANGED blockList => ListsKept
<1>1. Applied' = Applied \ {Len(stack)} /\ \A k \in Applied' : Id(k)' = Id(k) BY FewerApplied
<1>2. Len(stack) \notin Applied BY DEF Applied, Entered, Top
<1> QED BY <1>1, <1>2, SameList DEF ListsKept

LEMMA ListEnters ==
  ASSUME IInv, Enter
  PROVE  ListsKept
<1>1. stack # <<>> /\ Top.phase = "enter" BY Here DEF Enter
<1>2. PICK p \in {"spaces", "params", "body"} : Continue([Top EXCEPT !.phase = p])
  BY DEF Enter
<1> DEFINE x == [Top EXCEPT !.phase = p]
<1>3. /\ DOMAIN x = Fields /\ x.rule = Top.rule /\ x.was = Top.was /\ x.ws = Top.ws /\ x.skip = Top.skip
      /\ x.phase # "enter"
  BY <1>1, TopIsFrame DEF Fields
<1>4. stack' = With(x) BY <1>2 DEF Continue
<1> HIDE DEF x
<1> DEFINE s == With(x)
<1>0. /\ IsStack(s) /\ Len(s) = Len(stack) /\ s[Len(stack)] = x
      /\ \A k \in 1 .. Len(stack) - 1 : s[k] = stack[k]
  BY <1>1, <1>3, Replaced DEF IInv, With
<1>. PICK n : n = Len(stack) OBVIOUS
<1>5. /\ IsStack(stack') /\ Len(stack') = n /\ stack'[n] = x
      /\ \A k \in 1 .. n - 1 : stack'[k] = stack[k]
  BY <1>0, <1>4
<1>6. n \in Nat \ {0} BY <1>1, Popped DEF IInv
<1>7. DOMAIN stack = 1 .. n /\ DOMAIN stack' = 1 .. n
  BY <1>5, Indices DEF IInv
<1>8. UNCHANGED <<opts, pureCache>> BY DEF Enter, input
<1>9. \A k \in 1 .. n - 1 : (Entered(k)' <=> Entered(k)) /\ Id(k)' = Id(k)
  BY <1>5, <1>8 DEF Entered, Listed, Id, Key, RulePosId
<1>10. /\ ~Entered(n) /\ (Entered(n)' <=> Listed(Top))
       /\ Id(n)' = Key(Top)
  BY <1>1, <1>3, <1>5, <1>8 DEF Entered, Listed, Id, Key, RulePosId, Top
<1>11. \A k : k \in 1 .. n <=> k \in 1 .. n - 1 \/ k = n BY <1>6
<1>12. CASE Listed(Top)
  <2>1. n \notin Applied /\ Applied' = Applied \cup {n} /\ \A k \in Applied : Id(k)' = Id(k)
    BY <1>7, <1>9, <1>10, <1>11, <1>12 DEF Applied
  <2>2. /\ opts.lb => Key(Top) \notin blockList
        /\ blockList' = IF opts.lb THEN blockList \cup {Key(Top)} ELSE blockList
    BY <1>12 DEF Enter, Blocked, Block
  <2>3. /\ opts.lb => Id(n)' \notin blockList
        /\ blockList' = IF opts.lb THEN blockList \cup {Id(n)'} ELSE blockList
    BY <1>10, <2>2
  <2> QED BY <1>8, <2>1, <2>3, LongerList DEF ListsKept
<1>13. CASE ~Listed(Top)
  <2>1. Applied' = Applied /\ \A k \in Applied : Id(k)' = Id(k)
    BY <1>7, <1>9, <1>10, <1>11, <1>13 DEF Applied
  <2>2. blockList' = blockList BY <1>13 DEF Enter, Block
  <2> QED BY <1>8, <2>1, <2>2, SameList DEF ListsKept
<1> QED BY <1>12, <1>13

LEMMA ListMatches ==
  ASSUME IInv, stack # <<>>, Top.phase # "enter", NEW prods, NEW sdx, Match(prods, sdx), UNCHANGED <<opts, pureCache>>
  PROVE  ListsKept
BY ListAnswers DEF Match

LEMMA ListFails ==
  ASSUME IInv, stack # <<>>, Top.phase # "enter", Fail, UNCHANGED <<opts, pureCache>> PROVE ListsKept
BY ListAnswers DEF Fail

LEMMA ListStays == ASSUME UNCHANGED <<stack, blockList, opts, pureCache>> PROVE ListsKept
<1>1. Applied' = Applied /\ \A k \in Applied : Id(k)' = Id(k)
  BY DEF Applied, Entered, Listed, Id, Key, RulePosId
<1> QED BY <1>1, SameList DEF ListsKept

LEMMA ListPanics == ASSUME Panic, UNCHANGED <<opts, pureCache>> PROVE ListsKept
BY ListStays DEF Panic, control, lists

\* Where an application stands that has been entered.
LEMMA Inside ==
  ASSUME NEW p, At(p) \/ Back(p), p # "enter" PROVE stack # <<>> /\ Top.phase = p /\ Top.phase # "enter"
BY Here DEF Back

LEMMA ListSkipSteps == ASSUME IInv, SkipKnown \/ SkipSpaces \/ SkipDone PROVE ListsKept
<1> DEFINE x == [Top EXCEPT !.phase = "body"]
           y == [Top EXCEPT !.phase = "skipping", !.at = Sdx]
<1>1. stack # <<>> /\ Top.phase # "enter" BY Inside DEF SkipKnown, SkipSpaces, SkipDone
<1>2. DOMAIN x = Fields /\ Alike(x, Top) /\ DOMAIN y = Fields /\ Alike(y, Top)
  BY <1>1, TopIsFrame DEF Fields, Alike
<1>3. UNCHANGED <<opts, pureCache, blockList>> BY DEF SkipKnown, SkipSpaces, SkipDone, input, lists
<1>4. CASE stack' = With(x)
  <2> HIDE DEF x, y
  <2> QED BY <1>1, <1>2, <1>3, <1>4, ListContinues
<1>5. CASE Call(y, Top.ws, Top.ws, TRUE, Sdx)
  <2> HIDE DEF x, y
  <2> QED BY <1>1, <1>2, <1>3, <1>5, ListCalls
<1> QED BY <1>4, <1>5 DEF SkipKnown, SkipSpaces, SkipDone, Continue

LEMMA ListDescends == ASSUME IInv, Descend PROVE ListsKept
<1> DEFINE x == [Top EXCEPT !.phase = "kid", !.at = Sdx]
<1>1. stack # <<>> /\ Top.phase # "enter" BY Inside DEF Descend
<1>2. DOMAIN x = Fields /\ Alike(x, Top) BY <1>1, TopIsFrame DEF Fields, Alike
<1>3. Call(x, Kid(Top), Top.ws, Top.skip, Sdx) /\ UNCHANGED <<opts, pureCache, blockList>>
  BY DEF Descend, input, lists
<1> HIDE DEF x
<1> QED BY <1>1, <1>2, <1>3, ListCalls

\* The next child of a sequence: it may have changed the whitespace rule.
LEMMA ListSequence == ASSUME IInv, SequenceTakes PROVE ListsKept
<1> DEFINE x == [Top EXCEPT !.phase = "body", !.i = @ + 1, !.ws = SpacesAfter(@, out),
                            !.prods = @ \o SelectSeq(out, IsProduct)]
<1>1. stack # <<>> /\ Top.phase # "enter" /\ Top.rule.op = "Sequence" BY Inside DEF SequenceTakes
<1>2. DOMAIN x = Fields /\ Alike(x, Top) BY <1>1, TopIsFrame DEF Fields, Alike
<1>3. UNCHANGED <<opts, pureCache>> BY DEF SequenceTakes, input
<1>4. CASE Fail BY <1>1, <1>3, <1>4, ListFails
<1>5. CASE stack' = With(x) /\ UNCHANGED blockList
  <2> HIDE DEF x
  <2> QED BY <1>1, <1>2, <1>3, <1>5, ListContinues
<1> QED BY <1>4, <1>5 DEF SequenceTakes, Continue, lists

LEMMA ListNextKid ==
  ASSUME IInv, stack # <<>>, Top.phase # "enter", NEW prods, NextKid(prods), UNCHANGED <<opts, pureCache, blockList>>
  PROVE  ListsKept
<1> DEFINE x == [Top EXCEPT !.phase = "body", !.i = @ + 1, !.prods = @ \o prods]
<1>1. DOMAIN x = Fields /\ Alike(x, Top) BY TopIsFrame DEF Fields, Alike
<1>2. stack' = With(x) BY DEF NextKid, Continue
<1> HIDE DEF x
<1> QED BY <1>1, <1>2, ListContinues

\* A child has answered.
LEMMA ListTakes ==
  ASSUME IInv, OrTakes \/ NotTakes \/ RepeatTakes \/ TimesTakes \/ WrapperTakes PROVE ListsKept
<1> DEFINE x == [Top EXCEPT !.phase = "body", !.prods = @ \o out]
<1>1. stack # <<>> /\ Top.phase # "enter"
  BY Inside DEF OrTakes, NotTakes, RepeatTakes, TimesTakes, WrapperTakes
<1>2. UNCHANGED <<opts, pureCache>> BY DEF OrTakes, NotTakes, RepeatTakes, TimesTakes, WrapperTakes, input
<1>3. \/ Fail \/ \E prods, sdx : Match(prods, sdx)
      \/ UNCHANGED blockList /\ \E prods : NextKid(prods)
      \/ UNCHANGED blockList /\ stack' = With(x)
  <2>1. CASE OrTakes BY <2>1 DEF OrTakes, lists
  <2>2. CASE NotTakes BY <2>2 DEF NotTakes
  <2>3. CASE RepeatTakes BY <2>3 DEF RepeatTakes, lists, Continue
  <2>4. CASE TimesTakes BY <2>4 DEF TimesTakes, lists
  <2>5. CASE WrapperTakes BY <2>5 DEF WrapperTakes
  <2> QED BY <2>1, <2>2, <2>3, <2>4, <2>5
<1>4. DOMAIN x = Fields /\ Alike(x, Top) BY <1>1, TopIsFrame DEF Fields, Alike
<1> HIDE DEF x
<1> QED BY <1>1, <1>2, <1>3, <1>4, ListFails, ListMatches, ListNextKid, ListContinues

LEMMA ListCounts == ASSUME IInv, CountKnown \/ CountRead \/ CountTaken PROVE ListsKept
<1> DEFINE x == [Top EXCEPT !.phase = "body", !.i = 1]
           y == [Top EXCEPT !.i = @ + 1]
           z == [Top EXCEPT !.phase = "params", !.i = @ + 1, !.counts[Top.i] = out[1]]
           c == [Top EXCEPT !.phase = "count", !.at = Sdx]
<1>1. stack # <<>> /\ Top.phase # "enter" BY Inside DEF CountKnown, CountRead, CountTaken
<1>2. UNCHANGED <<opts, pureCache>> BY DEF CountKnown, CountRead, CountTaken, input
<1>3. /\ DOMAIN x = Fields /\ Alike(x, Top) /\ DOMAIN y = Fields /\ Alike(y, Top)
      /\ DOMAIN z = Fields /\ Alike(z, Top) /\ DOMAIN c = Fields /\ Alike(c, Top)
  BY <1>1, TopIsFrame DEF Fields, Alike
<1>4. \/ Panic
      \/ UNCHANGED blockList /\ (stack' = With(x) \/ stack' = With(y) \/ stack' = With(z))
      \/ UNCHANGED blockList /\ Call(c, Counts(Top)[Top.i], Top.ws, Top.skip, Sdx)
  BY DEF CountKnown, CountRead, CountTaken, Continue, lists
<1> HIDE DEF x, y, z, c
<1>5. CASE Panic BY <1>2, <1>5, ListPanics
<1>6. CASE UNCHANGED blockList /\ (stack' = With(x) \/ stack' = With(y) \/ stack' = With(z))
  BY <1>1, <1>2, <1>3, <1>6, ListContinues
<1>7. CASE UNCHANGED blockList /\ Call(c, Counts(Top)[Top.i], Top.ws, Top.skip, Sdx)
  BY <1>1, <1>2, <1>3, <1>7, ListCalls
<1> QED BY <1>4, <1>5, <1>6, <1>7

\* What answers at once.
LEMMA ListAnswered ==
  ASSUME IInv, EnterFound \/ EnterBlocked \/ MatchTerminal \/ KidsDone \/ WhitespaceCommand \/ NumberCommand
  PROVE  ListsKept
<1>1. UNCHANGED <<opts, pureCache>>
  BY DEF EnterFound, EnterBlocked, MatchTerminal, KidsDone, WhitespaceCommand, NumberCommand, input
<1>2. CASE EnterFound
  <2>1. stack # <<>> /\ Top.phase = "enter" BY <1>2, Here DEF EnterFound
  <2> QED BY <1>1, <1>2, <2>1, ListSkips DEF EnterFound, lists
<1>3. CASE EnterBlocked
  <2>1. stack # <<>> /\ Top.phase = "enter" BY <1>3, Here DEF EnterBlocked
  <2> QED BY <1>1, <1>3, <2>1, ListSkips DEF EnterBlocked, BlockedExit
<1>4. CASE MatchTerminal \/ KidsDone \/ WhitespaceCommand \/ NumberCommand
  <2>1. stack # <<>> /\ Top.phase # "enter"
    BY <1>4, Inside DEF MatchTerminal, KidsDone, WhitespaceCommand, NumberCommand
  <2>2. Fail \/ Panic \/ \E prods, sdx : Match(prods, sdx)
    <3>1. CASE MatchTerminal BY <3>1 DEF MatchTerminal
    <3>2. CASE KidsDone BY <3>2 DEF KidsDone
    <3>3. CASE WhitespaceCommand BY <3>3 DEF WhitespaceCommand
    <3>4. CASE NumberCommand BY <3>4 DEF NumberCommand
    <3> QED BY <1>4, <3>1, <3>2, <3>3, <3>4
  <2> QED BY <1>1, <2>1, <2>2, ListFails, ListPanics, ListMatches
<1> QED BY <1>2, <1>3, <1>4

LEMMA ListStarts == ASSUME IInv, IInv', StartDone PROVE ListsKept
<1>1. UNCHANGED <<opts, pureCache, blockList>> BY DEF StartDone, input, lists
<1>2. CASE UNCHANGED stack BY <1>1, <1>2, ListStays
<1>3. CASE stack' = <<Frame(InitialSpaces, InitialSpaces, TRUE, Sdx)>>
  <2> DEFINE new == Frame(InitialSpaces, InitialSpaces, TRUE, Sdx)
  <2>1. new.phase = "enter" BY DEF Frame
  <2> HIDE DEF new
  <2>2. stack = <<>> /\ Len(stack') = 1 /\ stack'[1] = new BY <1>3 DEF StartDone, new
  <2>3. Len(stack) = 0 BY <2>2
  <2>4. Applied' = Applied /\ \A k \in Applied : Id(k)' = Id(k)
    BY <1>1, <2>1, <2>2, <2>3, SameApplied DEF IInv
  <2> QED BY <1>1, <2>4, SameList DEF ListsKept
<1> QED BY <1>2, <1>3 DEF StartDone

\* A script that replaces the text clears the list.  The hypothesis of the second part: it
\* does so while no production is under way that the list knows.
SwapsOutside == ScriptCommand /\ Effect.swap => Applied = {}

LEMMA ListScripts ==
  ASSUME IInv, ScriptCommand
  PROVE  /\ OnlyRunningBlock => OnlyRunningBlock'
         /\ SwapsOutside /\ ListExact => ListExact'
<1> DEFINE x == [Top EXCEPT !.phase = "kid", !.at = Sdx']
<1>1. stack # <<>> /\ Top.phase # "enter" /\ ~Listed(Top) BY Inside DEF ScriptCommand, Listed
<1>2. DOMAIN x = Fields /\ Alike(x, Top) BY <1>1, TopIsFrame DEF Fields, Alike
<1>3. UNCHANGED <<opts, pureCache>> BY DEF ScriptCommand, input
<1>4. Applied' = Applied /\ (UNCHANGED blockList => ListsKept)
  <2>1. CASE Pop("match", <<>>) BY <1>1, <1>3, <2>1, ListSkips
  <2>2. CASE Call(x, Effect.rule, Top.ws, Top.skip, Sdx')
    <3> HIDE DEF x
    <3> QED BY <1>1, <1>2, <1>3, <2>2, ListCalls
  <2> QED BY <2>1, <2>2 DEF ScriptCommand
<1>5. CASE ~Effect.swap BY <1>4, <1>5 DEF ScriptCommand, lists, ListsKept
<1>6. CASE Effect.swap
  <2>1. blockList' = {} BY <1>6 DEF ScriptCommand, SetSrc
  <2> QED BY <1>3, <1>4, <1>6, <2>1 DEF OnlyRunningBlock, ListExact, SwapsOutside
<1> QED BY <1>5, <1>6

LEMMA ListSteps ==
  ASSUME IInv, IInv', [Next]_vars
  PROVE  /\ OnlyRunningBlock => OnlyRunningBlock'
         /\ SwapsOutside /\ ListExact => ListExact'
<1>1. CASE ScriptCommand BY <1>1, ListScripts
<1>2. CASE UNCHANGED vars BY <1>2, ListStays DEF vars, input, control, lists, ListsKept
<1>3. CASE Overflow \/ Verdict BY <1>3, ListStays DEF Overflow, Verdict, input, control, lists, ListsKept
<1>4. CASE Unknown BY <1>4, ListPanics DEF Unknown, input, ListsKept
<1>5. CASE Next /\ ~ScriptCommand /\ ~Overflow /\ ~Verdict /\ ~Unknown
  <2>1. ListsKept
    BY <1>5, ListEnters, ListSkipSteps, ListDescends, ListSequence, ListTakes, ListCounts, ListAnswered, ListStarts
    DEF Next
  <2> QED BY <2>1 DEF ListsKept
<1> QED BY <1>1, <1>2, <1>3, <1>4, <1>5

LEMMA InitLists == Init => OnlyRunningBlock /\ ListExact
<1> SUFFICES ASSUME Init PROVE OnlyRunningBlock /\ ListExact OBVIOUS
<1> DEFINE new == Frame(SeqWrapper(gram.prods[gram.start]), InitialSpaces, FALSE, 0)
<1>1. stack = <<new>> /\ blockList = {} BY DEF Init
<1>2. new.phase = "enter" BY DEF Frame
<1> HIDE DEF new
<1>3. Applied = {} BY <1>1, <1>2 DEF Applied, Entered
<1> QED BY <1>1, <1>3 DEF OnlyRunningBlock, ListExact

\* What blocks an application is one of its production, whitespace rule and
\* position that is still running, in every grammar, text and setting of the
\* flags, whatever the :script() rules do: no entry of the block list outlives
\* its application (ruleEnter, ruleExit, setSrc).
THEOREM BlockedByTheRunning == Spec => []OnlyRunningBlock
<1>1. Init => OnlyRunningBlock BY InitLists
<1>2. IInv /\ IInv' /\ OnlyRunningBlock /\ [Next]_vars => OnlyRunningBlock' BY ListSteps
<1> QED BY <1>1, <1>2, Invariance, PTL DEF Spec

\* As long as a :script() replaces the text only while no pure production runs -
\* isPure promises that of the production's own rules, not of a whitespace rule
\* set by somebody else -, the block list is exactly the applications that run,
\* and with -lb no production is applied below itself at one position
\* (ruleEnter, ruleExit, setSrc).
THEOREM ListsExact == Spec /\ [][SwapsOutside]_vars => []BlockListIsExact
<1>1. Init => ListExact BY InitLists
<1>2. IInv /\ IInv' /\ ListExact /\ [Next]_vars /\ [SwapsOutside]_vars => ListExact'
  <2> SUFFICES ASSUME IInv, IInv', ListExact, [Next]_vars, [SwapsOutside]_vars PROVE ListExact' OBVIOUS
  <2>1. CASE UNCHANGED vars BY <2>1, ListStays DEF vars, input, control, lists, ListsKept
  <2>2. CASE SwapsOutside BY <2>2, ListSteps
  <2> QED BY <2>1, <2>2
<1> QED BY <1>1, <1>2, Invariance, Exact, PTL DEF Spec
-----------------------------------------------------------------------------
(* Types, and positions within the text.                                   *)

\* What the parser takes from the grammar without looking: a token has a
\* length, and :number() a number of bytes.
Typed(r) == /\ r.op = "Token" => Len(r.txt) \in Nat
            /\ r.op = "number" => Arg(r, 1, 0) \in Int

\* A :script() moves within the text; when it replaces the text, whatever runs
\* began at a position that the new one has.
ScriptStays ==
  LET length == Len(IF Effect.swap THEN gram.other ELSE Src) IN
  /\ Effect.sdx # -1 => Effect.sdx \in 0 .. length
  /\ Effect.swap => \A k \in DOMAIN stack : stack[k].was <= length
  /\ Effect.swap /\ Effect.sdx = -1 => Sdx <= length

GrammarObeys ==
  stack # <<>> => Typed(Top.rule) /\ (At("body") /\ Top.rule.op = "script" => ScriptStays)

FrameIn(f, n) ==
  f.skip \in BOOLEAN /\ f.phase \in Phase /\ f.i \in Nat /\ f.was \in 0 .. n /\ f.at \in Int
FramesIn(s, n) == \A k \in DOMAIN s : FrameIn(s[k], n)

\* The memos hold positions of the text there is now.
SpacesIn(m, n) == \A k \in DOMAIN m : m[k] \in 0 .. n
FoundIn(m, n) == \A k \in DOMAIN m : m[k].sdx \in 0 .. n

GivenInv ==
  /\ \E c \in Cases : gram = c.grammar /\ given \in c.inputs /\ opts \in c.options
  /\ pureCache \subseteq DOMAIN gram.prods
  /\ Src \in {given, gram.other}
Answer == {"none", "match", "fail"}
Status == {"parsing", "trailing", "accepted", "rejected", "error", "overflow"}
Places(n) ==
  Sdx \in 0 .. n /\ FramesIn(stack, n) /\ SpacesIn(wsCache, n) /\ FoundIn(foundList, n)
TInv == GivenInv /\ answer \in Answer /\ stat \in Status /\ Places(Len(Src))

LEMMA Lengths == ASSUME GivenInv PROVE Len(Src) \in Nat /\ Len(gram.other) \in Nat /\ Src \in Seq(Nat)
<1>1. PICK c \in Cases : gram = c.grammar /\ given \in c.inputs BY DEF GivenInv
<1>2. gram.other \in Seq(Nat) /\ given \in Seq(Nat) BY <1>1, TextsAssumption
<1> QED BY <1>2 DEF GivenInv

LEMMA StackIndices == ASSUME NEW s, IsStack(s) PROVE DOMAIN s = 1 .. Len(s) /\ Len(s) \in Nat
<1>1. PICK S : s \in Seq(S) BY DEF IsStack
<1> QED BY <1>1

LEMMA TopIn == ASSUME IInv, TInv, stack # <<>> PROVE FrameIn(Top, Len(Src)) /\ DOMAIN Top = Fields
<1>1. Len(stack) \in DOMAIN stack BY StackIndices, Popped DEF IInv
<1> QED BY <1>1, TopIsFrame DEF TInv, Places, FramesIn, Top

\* The frames after a step.
LEMMA FramesContinue ==
  ASSUME IInv, stack # <<>>, NEW n, FramesIn(stack, n), NEW x, DOMAIN x = Fields, FrameIn(x, n)
  PROVE  FramesIn(With(x), n) /\ IsStack(With(x))
<1> DEFINE t == With(x)
<1>1. /\ IsStack(t) /\ Len(t) = Len(stack) /\ t[Len(stack)] = x
      /\ \A k \in 1 .. Len(stack) - 1 : t[k] = stack[k]
  BY Replaced DEF IInv, With
<1>2. DOMAIN stack = 1 .. Len(stack) /\ Len(stack) \in Nat BY StackIndices DEF IInv
<1> HIDE DEF t
<1>3. DOMAIN t = 1 .. Len(stack) BY <1>1, StackIndices
<1>4. ASSUME NEW k \in DOMAIN t PROVE FrameIn(t[k], n)
  <2>1. CASE k = Len(stack) BY <1>1, <2>1
  <2>2. CASE k # Len(stack)
    <3>1. k \in 1 .. Len(stack) - 1 /\ k \in DOMAIN stack BY <1>2, <1>3, <2>2
    <3> QED BY <1>1, <3>1 DEF FramesIn
  <2> QED BY <2>1, <2>2
<1> QED BY <1>1, <1>4 DEF FramesIn, t

LEMMA FramesCall ==
  ASSUME IInv, stack # <<>>, NEW n, FramesIn(stack, n), NEW x, DOMAIN x = Fields, FrameIn(x, n),
         NEW rule, NEW ws, NEW skip \in BOOLEAN, NEW sdx \in 0 .. n, n \in Nat, Call(x, rule, ws, skip, sdx)
  PROVE  FramesIn(stack', n)
<1> DEFINE s == With(x)
           new == Frame(rule, ws, skip, sdx)
<1>1. IsStack(s) /\ FramesIn(s, n) BY FramesContinue
<1>2. DOMAIN new = Fields /\ FrameIn(new, n) BY DEF Frame, Fields, FrameIn, Phase
<1>3. stack' = Append(s, new) BY DEF Call
<1> HIDE DEF s, new
<1>4. /\ IsStack(stack') /\ Len(stack') = Len(s) + 1 /\ stack'[Len(stack')] = new
      /\ \A k \in 1 .. Len(s) : stack'[k] = s[k]
  BY <1>1, <1>2, <1>3, Pushed
<1>5. DOMAIN s = 1 .. Len(s) /\ Len(s) \in Nat /\ DOMAIN stack' = 1 .. Len(stack') BY <1>1, <1>4, StackIndices
<1>6. ASSUME NEW k \in DOMAIN stack' PROVE FrameIn(stack'[k], n)
  <2>1. CASE k = Len(stack') BY <1>2, <1>4, <2>1
  <2>2. CASE k # Len(stack')
    <3>1. k \in 1 .. Len(s) BY <1>4, <1>5, <2>2
    <3> QED BY <1>1, <1>4, <1>5, <3>1 DEF FramesIn
  <2> QED BY <2>1, <2>2
<1> QED BY <1>6 DEF FramesIn

LEMMA FramesPop ==
  ASSUME IInv, stack # <<>>, NEW n, FramesIn(stack, n)
  PROVE  FramesIn(Below, n)
<1> DEFINE t == Below
<1>1. /\ IsStack(t) /\ Len(t) = Len(stack) - 1 /\ Len(stack) \in Nat \ {0}
      /\ \A k \in 1 .. Len(t) : t[k] = stack[k]
  BY Popped DEF IInv, Below
<1> HIDE DEF t
<1>2. DOMAIN t = 1 .. Len(t) /\ DOMAIN stack = 1 .. Len(stack) BY <1>1, StackIndices DEF IInv
<1>3. ASSUME NEW k \in DOMAIN t PROVE FrameIn(t[k], n)
  <2>1. k \in DOMAIN stack /\ t[k] = stack[k] BY <1>1, <1>2
  <2> QED BY <2>1 DEF FramesIn
<1> QED BY <1>3 DEF FramesIn, t


-----------------------------------------------------------------------------
(* A terminal matches what is there.                                       *)

\* A set of numbers up to n has a greatest one.
LEMMA Greatest ==
  ASSUME NEW n \in Nat, NEW R, R \subseteq 0 .. n, R # {}
  PROVE  \E m \in R : \A j \in R : j <= m
<1> DEFINE Less == OpToRel(<, Nat)
           T == {k \in Nat : \E r \in R : r = n - k}
<1>1. IsWellFoundedOn(Less, Nat) BY NatLessThanWellFounded
<1>2. \A a, b \in Nat : a < b <=> <<a, b>> \in Less BY DEF OpToRel
<1>3. T \subseteq Nat /\ T # {}
  <2>1. PICK r \in R : TRUE OBVIOUS
  <2>2. n - r \in Nat /\ r = n - (n - r) BY <2>1
  <2> QED BY <2>1, <2>2
<1> HIDE DEF Less
<1>4. PICK x \in T : \A y \in T : ~(<<y, x>> \in Less) BY <1>1, <1>3, WFMin
<1>5. PICK m \in R : m = n - x BY <1>4
<1>6. ASSUME NEW j \in R PROVE j <= m
  <2>1. j \in 0 .. n /\ m \in 0 .. n BY <1>5, <1>6
  <2>2. n - j \in Nat /\ j = n - (n - j) BY <2>1
  <2>3. n - j \in T BY <1>6, <2>2
  <2>4. ~(n - j < x) BY <1>2, <1>4, <2>2, <2>3
  <2> QED BY <1>4, <1>5, <2>1, <2>4
<1> QED BY <1>5, <1>6

LEMMA Widths ==
  ASSUME GivenInv, Sdx \in 0 .. Len(Src), NEW r, Typed(r), IsTerminal(r)
  PROVE  Width(r) = -1 \/ Width(r) \in 0 .. Len(Src) - Sdx
<1>1. Len(Src) \in Nat /\ Sdx \in Nat BY Lengths
<1>2. CASE r.op = "Token" BY <1>1, <1>2 DEF Width, Typed
<1>3. CASE r.op = "CharsOf"
  <2> DEFINE run == {k \in 0 .. Len(Src) - Sdx : \A j \in 1 .. k : InSet(r, Src[Sdx + j])}
  <2>1. Width(r) = IF run \subseteq {0} THEN -1 ELSE CHOOSE k \in run : \A j \in run : j <= k
    BY <1>3 DEF Width
  <2>2. run \subseteq 0 .. Len(Src) - Sdx /\ Len(Src) - Sdx \in Nat BY <1>1
  <2> HIDE DEF run
  <2>3. CASE run # {}
    <3>1. \E k \in run : \A j \in run : j <= k BY <2>2, <2>3, Greatest
    <3> QED BY <2>1, <2>2, <3>1
  <2>4. CASE run = {} BY <2>1, <2>4
  <2> QED BY <2>3, <2>4
<1>4. CASE r.op # "Token" /\ r.op # "CharsOf" BY <1>1, <1>4 DEF Width
<1> QED BY <1>2, <1>3, <1>4

-----------------------------------------------------------------------------
(* What the steps are made of.                                             *)

\* The text stays.
SameText == Src' = Src /\ UNCHANGED <<input, stat>>

LEMMA Kept ==
  ASSUME TInv, UNCHANGED input, Src' \in {given, gram.other}, answer' \in Answer, stat' \in Status,
         Sdx' \in 0 .. Len(Src'), FramesIn(stack', Len(Src')),
         SpacesIn(wsCache', Len(Src')), FoundIn(foundList', Len(Src'))
  PROVE  TInv'
BY DEF TInv, GivenInv, Places, FramesIn, FrameIn, SpacesIn, FoundIn, input

LEMMA TypedContinue ==
  ASSUME IInv, TInv, stack # <<>>, UNCHANGED <<input, Src, foundList>>, stat' \in Status, NEW x, Continue(x),
         DOMAIN x = Fields, FrameIn(x, Len(Src)), Sdx' \in 0 .. Len(Src), SpacesIn(wsCache', Len(Src))
  PROVE  TInv'
<1>1. FramesIn(stack', Len(Src)) BY FramesContinue DEF Continue, TInv, Places
<1>2. FoundIn(foundList', Len(Src)) BY DEF TInv, Places, FoundIn
<1>3. Src' \in {given, gram.other} /\ answer' \in Answer BY DEF TInv, GivenInv, Answer, Continue
<1> QED BY <1>1, <1>2, <1>3, Kept

LEMMA TypedCall ==
  ASSUME IInv, TInv, stack # <<>>, UNCHANGED <<input, Src, foundList, wsCache>>, stat' \in Status,
         NEW x, NEW rule, NEW ws, NEW skip \in BOOLEAN, Call(x, rule, ws, skip, Sdx), Sdx' = Sdx,
         DOMAIN x = Fields, FrameIn(x, Len(Src))
  PROVE  TInv'
<1>1. Len(Src) \in Nat BY Lengths DEF TInv
<1>2. Sdx \in 0 .. Len(Src) /\ FramesIn(stack, Len(Src)) BY DEF TInv, Places
<1>3. FramesIn(stack', Len(Src)) BY <1>1, <1>2, FramesCall
<1>4. FoundIn(foundList', Len(Src)) /\ SpacesIn(wsCache', Len(Src)) BY DEF TInv, Places, FoundIn, SpacesIn
<1>5. Src' \in {given, gram.other} /\ answer' \in Answer BY DEF TInv, GivenInv, Answer, Call
<1> QED BY <1>2, <1>3, <1>4, <1>5, Kept

LEMMA TypedPop ==
  ASSUME IInv, TInv, stack # <<>>, UNCHANGED <<input, Src, wsCache>>, stat' \in Status,
         NEW a \in Answer, NEW prods, Pop(a, prods), Sdx' \in 0 .. Len(Src), FoundIn(foundList', Len(Src))
  PROVE  TInv'
<1>1. FramesIn(stack', Len(Src)) BY FramesPop DEF Pop, TInv, Places
<1>2. SpacesIn(wsCache', Len(Src)) BY DEF TInv, Places, SpacesIn
<1>3. Src' \in {given, gram.other} /\ answer' \in Answer BY DEF TInv, GivenInv, Pop
<1> QED BY <1>1, <1>2, <1>3, Kept

LEMMA TypedMatch ==
  ASSUME IInv, TInv, stack # <<>>, UNCHANGED <<input, Src, wsCache, stat>>, NEW prods, NEW sdx \in 0 .. Len(Src),
         Match(prods, sdx)
  PROVE  TInv'
<1>1. FoundIn(foundList', Len(Src))
  BY DEF TInv, Places, FoundIn, Match, Put
<1>2. stat' \in Status BY DEF TInv
<1>3. "match" \in Answer /\ Pop("match", prods) /\ Sdx' = sdx BY DEF Answer, Match
<1> QED BY <1>1, <1>2, <1>3, TypedPop

LEMMA TypedFail ==
  ASSUME IInv, TInv, stack # <<>>, UNCHANGED <<input, Src, wsCache, stat>>, Fail
  PROVE  TInv'
<1>1. FoundIn(foundList', Len(Src)) BY DEF TInv, Places, FoundIn, Fail
<1>2. stat' \in Status BY DEF TInv
<1>3. "fail" \in Answer /\ Pop("fail", <<>>) /\ Sdx' = Top.was BY DEF Answer, Fail
<1>4. Top.was \in 0 .. Len(Src) BY TopIn DEF FrameIn
<1> QED BY <1>1, <1>2, <1>3, <1>4, TypedPop

LEMMA TypedStays ==
  ASSUME TInv, UNCHANGED <<input, text, stack, answer, foundList, wsCache>>, stat' \in Status
  PROVE  TInv'
BY DEF TInv, GivenInv, Places, FramesIn, FrameIn, SpacesIn, FoundIn, input, text

LEMMA TypedPanic == ASSUME TInv, Panic, UNCHANGED <<input, wsCache>> PROVE TInv'
BY TypedStays DEF Panic, Status, text, control, lists

-----------------------------------------------------------------------------
(* The steps.                                                              *)

LEMMA TypedEnter == ASSUME IInv, TInv, Enter PROVE TInv'
<1>1. PICK p \in {"spaces", "params", "body"} : Continue([Top EXCEPT !.phase = p])
  BY DEF Enter
<1> DEFINE x == [Top EXCEPT !.phase = p]
<1>2. stack # <<>> BY Here DEF Enter
<1>3. FrameIn(x, Len(Src)) /\ DOMAIN x = Fields BY <1>2, TopIn DEF FrameIn, Fields, Phase
<1>4. UNCHANGED <<input, Src, foundList, wsCache, stat, Sdx>> BY DEF Enter, text
<1>5. Sdx' \in 0 .. Len(Src) /\ SpacesIn(wsCache', Len(Src)) /\ stat' \in Status
  BY <1>4 DEF TInv, Places, SpacesIn
<1> HIDE DEF x
<1> QED BY <1>1, <1>2, <1>3, <1>4, <1>5, TypedContinue DEF x

LEMMA TypedFound == ASSUME IInv, TInv, EnterFound PROVE TInv'
<1>1. stack # <<>> BY Here DEF EnterFound
<1>2. Key(Top) \in DOMAIN foundList BY DEF EnterFound, Reused
<1>3. UNCHANGED <<input, Src, foundList, wsCache, stat>> BY DEF EnterFound, lists
<1>4. Sdx' \in 0 .. Len(Src) BY <1>2 DEF EnterFound, TInv, Places, FoundIn
<1>5. FoundIn(foundList', Len(Src)) /\ stat' \in Status BY <1>3 DEF TInv, Places, FoundIn
<1>6. "match" \in Answer BY DEF Answer
<1> QED BY <1>1, <1>3, <1>4, <1>5, <1>6, TypedPop DEF EnterFound

LEMMA TypedBlocked == ASSUME IInv, TInv, EnterBlocked PROVE TInv'
<1>1. stack # <<>> BY Here DEF EnterBlocked
<1>2. UNCHANGED <<input, Src, Sdx, foundList, wsCache, stat>> BY DEF EnterBlocked, text
<1>3. Sdx' \in 0 .. Len(Src) /\ FoundIn(foundList', Len(Src)) /\ stat' \in Status
  BY <1>2 DEF TInv, Places, FoundIn
<1>4. "fail" \in Answer BY DEF Answer
<1> QED BY <1>1, <1>2, <1>3, <1>4, TypedPop DEF EnterBlocked, BlockedExit

LEMMA TypedSkipKnown == ASSUME IInv, TInv, SkipKnown PROVE TInv'
<1> DEFINE x == [Top EXCEPT !.phase = "body"]
<1>1. stack # <<>> BY Here DEF SkipKnown
<1>2. Continue(x) BY DEF SkipKnown
<1>3. FrameIn(x, Len(Src)) /\ DOMAIN x = Fields BY <1>1, TopIn DEF FrameIn, Fields, Phase
<1>4. UNCHANGED <<input, Src, foundList, wsCache, stat>> BY DEF SkipKnown, lists
<1>5. Sdx' \in 0 .. Len(Src) BY DEF SkipKnown, TInv, Places, SpacesIn
<1>6. SpacesIn(wsCache', Len(Src)) /\ stat' \in Status BY <1>4 DEF TInv, Places, SpacesIn
<1> HIDE DEF x
<1> QED BY <1>1, <1>2, <1>3, <1>4, <1>5, <1>6, TypedContinue

LEMMA TypedSkipSpaces == ASSUME IInv, TInv, SkipSpaces PROVE TInv'
<1> DEFINE x == [Top EXCEPT !.phase = "skipping", !.at = Sdx]
<1>1. stack # <<>> BY Here DEF SkipSpaces
<1>2. Call(x, Top.ws, Top.ws, TRUE, Sdx) BY DEF SkipSpaces
<1>3. Sdx \in Int BY DEF TInv, Places
<1>4. FrameIn(x, Len(Src)) /\ DOMAIN x = Fields BY <1>1, <1>3, TopIn DEF FrameIn, Fields, Phase
<1>5. UNCHANGED <<input, Src, Sdx, foundList, wsCache, stat>> BY DEF SkipSpaces, lists, text
<1>6. stat' \in Status BY <1>5 DEF TInv
<1> HIDE DEF x
<1> QED BY <1>1, <1>2, <1>4, <1>5, <1>6, TypedCall

LEMMA TypedSkipDone == ASSUME IInv, TInv, SkipDone PROVE TInv'
<1> DEFINE x == [Top EXCEPT !.phase = "body"]
<1>1. stack # <<>> BY There DEF SkipDone
<1>2. Continue(x) BY DEF SkipDone
<1>3. FrameIn(x, Len(Src)) /\ DOMAIN x = Fields BY <1>1, TopIn DEF FrameIn, Fields, Phase
<1>4. UNCHANGED <<input, Src, Sdx, foundList, stat>> BY DEF SkipDone, lists, text
<1>5. Sdx' \in 0 .. Len(Src) /\ stat' \in Status BY <1>4 DEF TInv, Places
<1>6. SpacesIn(wsCache', Len(Src)) BY DEF SkipDone, Memoize, Put, TInv, Places, SpacesIn
<1> HIDE DEF x
<1> QED BY <1>1, <1>2, <1>3, <1>4, <1>5, <1>6, TypedContinue

LEMMA TypedTerminal == ASSUME IInv, TInv, GrammarObeys, MatchTerminal PROVE TInv'
<1> DEFINE w == Width(Top.rule)
<1>1. stack # <<>> BY Here DEF MatchTerminal
<1>2. UNCHANGED <<input, Src, wsCache, stat>> BY DEF MatchTerminal
<1>3. Sdx \in 0 .. Len(Src) /\ Len(Src) \in Nat BY Lengths DEF TInv, Places
<1>4. w = -1 \/ w \in 0 .. Len(Src) - Sdx BY <1>1, <1>3, Widths DEF MatchTerminal, GrammarObeys, TInv
<1>5. Fail \/ (w >= 0 /\ \E prods : Match(prods, Sdx + w))
  <2> HIDE DEF w
  <2>1. (w < 0 => Fail) /\ (~(w < 0) => \E prods : Match(prods, Sdx + w)) BY DEF MatchTerminal, w
  <2> QED BY <1>4, <1>3, <2>1
<1> HIDE DEF w
<1>6. CASE Fail BY <1>1, <1>2, <1>6, TypedFail
<1>7. CASE w >= 0 /\ \E prods : Match(prods, Sdx + w)
  <2>1. Sdx + w \in 0 .. Len(Src) BY <1>3, <1>4, <1>7
  <2> QED BY <1>1, <1>2, <1>7, <2>1, TypedMatch
<1> QED BY <1>5, <1>6, <1>7

LEMMA TypedDescend == ASSUME IInv, TInv, Descend PROVE TInv'
<1> DEFINE x == [Top EXCEPT !.phase = "kid", !.at = Sdx]
<1>1. stack # <<>> BY Here DEF Descend
<1>2. Call(x, Kid(Top), Top.ws, Top.skip, Sdx) BY DEF Descend
<1>3. Sdx \in Int BY DEF TInv, Places
<1>4. FrameIn(x, Len(Src)) /\ DOMAIN x = Fields /\ Top.skip \in BOOLEAN
  BY <1>1, <1>3, TopIn DEF FrameIn, Fields, Phase
<1>5. UNCHANGED <<input, Src, Sdx, foundList, wsCache, stat>> BY DEF Descend, lists, text
<1>6. stat' \in Status BY <1>5 DEF TInv
<1> HIDE DEF x
<1> QED BY <1>1, <1>2, <1>4, <1>5, <1>6, TypedCall

\* What answers where it stands, or where it began.
LEMMA TypedAnswers ==
  ASSUME IInv, TInv, stack # <<>>, UNCHANGED <<input, Src, wsCache, stat>>,
         Fail \/ \E prods : Match(prods, Sdx) \/ Match(prods, Top.was)
  PROVE  TInv'
<1>1. Sdx \in 0 .. Len(Src) /\ Top.was \in 0 .. Len(Src) BY TopIn DEF TInv, Places, FrameIn
<1> QED BY <1>1, TypedFail, TypedMatch

LEMMA TypedKidsDone == ASSUME IInv, TInv, KidsDone \/ WhitespaceCommand PROVE TInv'
<1>1. stack # <<>> /\ UNCHANGED <<input, Src, wsCache, stat>> BY Here DEF KidsDone, WhitespaceCommand
<1>2. Fail \/ \E prods : Match(prods, Sdx) BY DEF KidsDone, WhitespaceCommand
<1> QED BY <1>1, <1>2, TypedAnswers

\* The text and the memos stay while a frame goes on.
LEMMA TypedGoesOn ==
  ASSUME IInv, TInv, stack # <<>>, UNCHANGED <<input, Src, Sdx, wsCache, stat, lists>>, NEW x, Continue(x),
         DOMAIN x = Fields, FrameIn(x, Len(Src))
  PROVE  TInv'
<1>1. Sdx' \in 0 .. Len(Src) /\ SpacesIn(wsCache', Len(Src)) /\ stat' \in Status /\ UNCHANGED foundList
  BY DEF TInv, Places, SpacesIn, lists
<1> QED BY <1>1, TypedContinue

LEMMA TypedNextKid ==
  ASSUME IInv, TInv, stack # <<>>, UNCHANGED <<input, Src, Sdx, wsCache, stat, lists>>, NEW prods, NextKid(prods)
  PROVE  TInv'
<1> DEFINE x == [Top EXCEPT !.phase = "body", !.i = @ + 1, !.prods = @ \o prods]
<1>1. FrameIn(x, Len(Src)) /\ DOMAIN x = Fields BY TopIn DEF FrameIn, Fields, Phase
<1>2. Continue(x) BY DEF NextKid
<1> HIDE DEF x
<1> QED BY <1>1, <1>2, TypedGoesOn

LEMMA TypedSequence == ASSUME IInv, TInv, SequenceTakes PROVE TInv'
<1> DEFINE x == [Top EXCEPT !.phase = "body", !.i = @ + 1, !.ws = SpacesAfter(@, out),
                            !.prods = @ \o SelectSeq(out, IsProduct)]
<1>1. stack # <<>> BY There DEF SequenceTakes
<1>2. FrameIn(x, Len(Src)) /\ DOMAIN x = Fields BY <1>1, TopIn DEF FrameIn, Fields, Phase
<1>3. UNCHANGED <<input, Src, wsCache, stat>> BY DEF SequenceTakes
<1>4. Fail \/ (Continue(x) /\ UNCHANGED <<Sdx, lists>>) BY DEF SequenceTakes
<1> HIDE DEF x
<1> QED BY <1>1, <1>2, <1>3, <1>4, TypedAnswers, TypedGoesOn

\* A child has answered.
LEMMA TypedTakes ==
  ASSUME IInv, TInv, OrTakes \/ NotTakes \/ RepeatTakes \/ TimesTakes \/ WrapperTakes PROVE TInv'
<1> DEFINE x == [Top EXCEPT !.phase = "body", !.prods = @ \o out]
<1>1. stack # <<>> BY There DEF OrTakes, NotTakes, RepeatTakes, TimesTakes, WrapperTakes
<1>2. UNCHANGED <<input, Src, wsCache, stat>> BY DEF OrTakes, NotTakes, RepeatTakes, TimesTakes, WrapperTakes
<1>3. \/ Fail \/ \E prods : Match(prods, Sdx) \/ Match(prods, Top.was)
      \/ UNCHANGED <<Sdx, lists>> /\ \E prods : NextKid(prods)
      \/ UNCHANGED <<Sdx, lists>> /\ Continue(x)
  <2>1. CASE OrTakes BY <2>1 DEF OrTakes
  <2>2. CASE NotTakes BY <2>2 DEF NotTakes
  <2>3. CASE RepeatTakes BY <2>3 DEF RepeatTakes
  <2>4. CASE TimesTakes BY <2>4 DEF TimesTakes
  <2>5. CASE WrapperTakes BY <2>5 DEF WrapperTakes
  <2> QED BY <1>1, <2>1, <2>2, <2>3, <2>4, <2>5 DEF OrTakes, NotTakes, RepeatTakes, TimesTakes, WrapperTakes
<1>4. FrameIn(x, Len(Src)) /\ DOMAIN x = Fields BY <1>1, TopIn DEF FrameIn, Fields, Phase
<1> HIDE DEF x
<1> QED BY <1>1, <1>2, <1>3, <1>4, TypedAnswers, TypedNextKid, TypedGoesOn

LEMMA TypedCounts == ASSUME IInv, TInv, CountKnown \/ CountRead \/ CountTaken PROVE TInv'
<1> DEFINE x == [Top EXCEPT !.phase = "body", !.i = 1]
           y == [Top EXCEPT !.i = @ + 1]
           z == [Top EXCEPT !.phase = "params", !.i = @ + 1, !.counts[Top.i] = out[1]]
           c == [Top EXCEPT !.phase = "count", !.at = Sdx]
<1>1. stack # <<>> BY Here, There DEF CountKnown, CountRead, CountTaken
<1>2. UNCHANGED <<input, wsCache>> BY DEF CountKnown, CountRead, CountTaken
<1>3. Sdx \in Int BY DEF TInv, Places
<1>4. /\ FrameIn(x, Len(Src)) /\ DOMAIN x = Fields
      /\ FrameIn(y, Len(Src)) /\ DOMAIN y = Fields
      /\ FrameIn(z, Len(Src)) /\ DOMAIN z = Fields
      /\ FrameIn(c, Len(Src)) /\ DOMAIN c = Fields /\ Top.skip \in BOOLEAN
  BY <1>1, <1>3, TopIn DEF FrameIn, Fields, Phase
<1>5. \/ Panic
      \/ /\ UNCHANGED <<text, lists, stat>>
         /\ \/ Continue(x) \/ Continue(y) \/ Continue(z)
            \/ Call(c, Counts(Top)[Top.i], Top.ws, Top.skip, Sdx)
  BY DEF CountKnown, CountRead, CountTaken
<1> HIDE DEF x, y, z, c
<1>6. CASE Panic BY <1>2, <1>6, TypedPanic
<1>7. CASE UNCHANGED <<text, lists, stat>> /\ (Continue(x) \/ Continue(y) \/ Continue(z))
  <2>1. UNCHANGED <<Src, Sdx>> BY <1>7 DEF text
  <2> QED BY <1>1, <1>2, <1>4, <1>7, <2>1, TypedGoesOn
<1>8. CASE UNCHANGED <<text, lists, stat>> /\ Call(c, Counts(Top)[Top.i], Top.ws, Top.skip, Sdx)
  <2>1. UNCHANGED <<Src, Sdx, foundList>> /\ stat' \in Status BY <1>8 DEF text, lists, TInv
  <2> QED BY <1>1, <1>2, <1>4, <1>8, <2>1, TypedCall
<1> QED BY <1>5, <1>6, <1>7, <1>8

LEMMA TypedNumber == ASSUME IInv, TInv, GrammarObeys, NumberCommand PROVE TInv'
<1> DEFINE size == Arg(Top.rule, 1, 0)
           value == NumberValue(Arg(Top.rule, 2, 0), Ahead(size))
<1>1. stack # <<>> /\ Top.rule.op = "number" BY Here DEF NumberCommand
<1>2. size \in Int BY <1>1 DEF GrammarObeys, Typed
<1>3. Sdx \in 0 .. Len(Src) /\ Len(Src) \in Nat BY Lengths DEF TInv, Places
<1>4. UNCHANGED <<input, wsCache>> BY DEF NumberCommand
<1>5. /\ Sdx + size > Len(Src) => Fail /\ UNCHANGED <<Src, stat>>
      /\ Sdx + size <= Len(Src) /\ size <= 0 => Panic
      /\ Sdx + size <= Len(Src) /\ ~(size <= 0) =>
           Panic \/ (UNCHANGED <<Src, stat>> /\ \E prods : Match(prods, Sdx + size))
  <2> HIDE DEF size
  <2>1. ~(Sdx + size > Len(Src) /\ Sdx + size <= Len(Src)) BY <1>2, <1>3
  <2>2. Sdx + size > Len(Src) \/ Sdx + size <= Len(Src) BY <1>2, <1>3
  <2> QED BY <2>1, <2>2 DEF NumberCommand, size
<1> HIDE DEF size
<1>6. CASE Sdx + size > Len(Src) BY <1>1, <1>4, <1>5, <1>6, TypedFail
<1>7. CASE Panic BY <1>4, <1>7, TypedPanic
<1>8. CASE Sdx + size <= Len(Src) /\ ~(size <= 0) /\ ~Panic
  <2>1. Sdx + size \in 0 .. Len(Src) BY <1>2, <1>3, <1>8
  <2>2. PICK prods : Match(prods, Sdx + size) BY <1>5, <1>8
  <2> QED BY <1>1, <1>4, <1>5, <1>8, <2>1, <2>2, TypedMatch
<1> QED BY <1>2, <1>3, <1>5, <1>6, <1>7, <1>8

LEMMA TypedScript == ASSUME IInv, TInv, GrammarObeys, ScriptCommand PROVE TInv'
<1> DEFINE n == Len(IF Effect.swap THEN gram.other ELSE Src)
           x == [Top EXCEPT !.phase = "kid", !.at = Sdx']
<1>1. stack # <<>> /\ Top.rule.op = "script" /\ At("body") BY Here DEF ScriptCommand
<1>2. ScriptStays BY <1>1 DEF GrammarObeys
<1>3. Len(Src) \in Nat /\ Len(gram.other) \in Nat BY Lengths DEF TInv
<1>4. Src' = (IF Effect.swap THEN gram.other ELSE Src) /\ UNCHANGED <<input, stat>>
  BY DEF ScriptCommand, SetSrc
<1>5. Len(Src') = n BY <1>4
<1>6. Sdx' \in 0 .. n BY <1>2 DEF ScriptStays, ScriptCommand, TInv, Places
<1>7. FramesIn(stack, n)
  <2>1. FramesIn(stack, Len(Src)) BY DEF TInv, Places
  <2>2. CASE Effect.swap BY <1>2, <1>3, <2>1, <2>2 DEF ScriptStays, FramesIn, FrameIn
  <2>3. CASE ~Effect.swap BY <2>1, <2>3
  <2> QED BY <2>2, <2>3
<1>8. SpacesIn(wsCache', n) /\ FoundIn(foundList', n)
  <2>1. CASE Effect.swap
    <3>1. wsCache' = <<>> /\ foundList' = <<>> BY <2>1 DEF ScriptCommand, SetSrc
    <3> QED BY <3>1 DEF SpacesIn, FoundIn
  <2>2. CASE ~Effect.swap
    <3>1. UNCHANGED <<wsCache, foundList>> BY <2>2 DEF ScriptCommand, lists
    <3> QED BY <2>2, <3>1 DEF TInv, Places, SpacesIn, FoundIn
  <2> QED BY <2>1, <2>2
<1>9. n \in Nat BY <1>3
<1>10. DOMAIN Top = Fields /\ Top.skip \in BOOLEAN /\ Top.was \in 0 .. n /\ Top.i \in Nat
  <2>1. Len(stack) \in DOMAIN stack BY <1>1, StackIndices, Popped DEF IInv
  <2> QED BY <1>1, <1>7, <2>1, TopIsFrame DEF FramesIn, FrameIn, Top
<1> HIDE DEF n
<1>11. FramesIn(stack', n) /\ answer' \in Answer
  <2>1. CASE Pop("match", <<>>) BY <1>1, <1>7, <2>1, FramesPop DEF Pop, Answer
  <2>2. CASE Call(x, Effect.rule, Top.ws, Top.skip, Sdx')
    <3>1. DOMAIN x = Fields BY <1>10 DEF Fields
    <3>2. FrameIn(x, n) BY <1>6, <1>10 DEF FrameIn, Fields, Phase
    <3>3. answer' \in Answer BY <2>2 DEF Call, TInv
    <3> HIDE DEF x
    <3> QED BY <1>1, <1>6, <1>7, <1>9, <1>10, <2>2, <3>1, <3>2, <3>3, FramesCall
  <2> QED BY <2>1, <2>2 DEF ScriptCommand
<1>12. Src' \in {given, gram.other} /\ stat' \in Status BY <1>4 DEF TInv, GivenInv
<1> QED BY <1>4, <1>5, <1>6, <1>8, <1>11, <1>12, Kept

LEMMA TypedStart == ASSUME TInv, StartDone PROVE TInv'
<1> DEFINE new == Frame(InitialSpaces, InitialSpaces, TRUE, Sdx)
<1>1. UNCHANGED <<input, Src, Sdx, wsCache, foundList>> /\ stat' \in Status
  BY DEF StartDone, text, lists, Status
<1>2. Sdx \in 0 .. Len(Src) /\ Len(Src) \in Nat BY Lengths DEF TInv, Places
<1>3. FramesIn(stack', Len(Src)) /\ answer' \in Answer
  <2>1. CASE UNCHANGED <<stack, answer>> BY <2>1 DEF TInv, Places, FramesIn
  <2>2. CASE stack' = <<new>> /\ answer' = "none"
    <3>1. FrameIn(new, Len(Src)) BY <1>2 DEF Frame, FrameIn, Phase
    <3> HIDE DEF new
    <3>2. DOMAIN stack' = {1} /\ stack'[1] = new BY <2>2
    <3> QED BY <2>2, <3>1, <3>2 DEF FramesIn, Answer
  <2> QED BY <2>1, <2>2 DEF StartDone
<1>4. Src' \in {given, gram.other} /\ SpacesIn(wsCache', Len(Src)) /\ FoundIn(foundList', Len(Src))
  BY <1>1 DEF TInv, GivenInv, Places, SpacesIn, FoundIn
<1> QED BY <1>1, <1>2, <1>3, <1>4, Kept

LEMMA TypedEnds == ASSUME TInv, Overflow \/ Unknown \/ Verdict PROVE TInv'
<1>1. CASE Unknown BY <1>1, TypedPanic DEF Unknown
<1>2. CASE Overflow \/ Verdict
  BY <1>2, TypedStays DEF Overflow, Verdict, control, lists, Status
<1> QED BY <1>1, <1>2

LEMMA TypedInit == Init => TInv
<1> SUFFICES ASSUME Init PROVE TInv OBVIOUS
<1> DEFINE new == Frame(SeqWrapper(gram.prods[gram.start]), InitialSpaces, FALSE, 0)
<1>1. GivenInv BY DEF Init, GivenInv, PureProductions
<1>2. Len(Src) \in Nat /\ Sdx = 0 BY <1>1, Lengths DEF Init
<1>3. FrameIn(new, Len(Src)) BY <1>2 DEF Frame, FrameIn, Phase
<1>4. stack = <<new>> BY DEF Init
<1> HIDE DEF new
<1>5. FramesIn(stack, Len(Src)) BY <1>3, <1>4 DEF FramesIn
<1>6. SpacesIn(wsCache, Len(Src)) /\ FoundIn(foundList, Len(Src)) BY DEF Init, SpacesIn, FoundIn
<1>7. answer \in Answer /\ stat \in Status BY DEF Init, Answer, Status
<1> QED BY <1>1, <1>2, <1>5, <1>6, <1>7 DEF TInv, Places

LEMMA TypedStep == ASSUME IInv, TInv, GrammarObeys, [Next]_vars PROVE TInv'
<1>1. CASE UNCHANGED vars BY <1>1, TypedStays DEF vars, control, lists, TInv
<1>2. CASE Next
  BY <1>2, TypedEnter, TypedFound, TypedBlocked, TypedSkipKnown, TypedSkipSpaces, TypedSkipDone, TypedTerminal,
     TypedDescend, TypedKidsDone, TypedSequence, TypedTakes, TypedCounts, TypedNumber, TypedScript,
     TypedStart, TypedEnds
  DEF Next
<1> QED BY <1>1, <1>2

\* As long as a :script() keeps the position within the text it sets or leaves,
\* and replaces the text by a shorter one only where no application that runs has
\* begun behind its end, the parser never reads or stands behind the end of the
\* text: whatever the memos and the found list bring back, a failing rule
\* restores or a counted number of bytes skips; and every variable keeps its
\* type (apply, skipSpaces, setSrc, setSdx).
THEOREM StaysInTheText == Spec /\ []GrammarObeys => []TypeOK
<1>1. Init => TInv BY TypedInit
<1>2. IInv /\ TInv /\ GrammarObeys /\ [Next]_vars => TInv' BY TypedStep
<1>3. TInv => TypeOK
  BY DEF TInv, TypeOK, GivenInv, Answer, Status, Places, FramesIn, FrameIn
<1> QED BY <1>1, <1>2, <1>3, Invariance, PTL DEF Spec

-----------------------------------------------------------------------------
(* How a grammar is put together: the shape of its rules.                  *)

RuleFields == {"op", "name", "uses", "text", "links", "anchor"}

\* A rule of a grammar with n rules.  Texts may be any values.
IsRule(r, n) == DOMAIN r = RuleFields /\ r.uses \in Seq(STRING) /\ r.links \in [DOMAIN r.uses -> 0 .. n]
IsGrammar(rules) ==
  (\E R : rules \in Seq(R)) /\ rules # <<>> /\ \A k \in DOMAIN rules : IsRule(rules[k], Len(rules))

\* Every name is defined at most once, and every link is at the production of its name.
Linked(rules) ==
  /\ ~DefinedTwice(rules)
  /\ \A k \in DOMAIN rules : \A u \in DOMAIN rules[k].uses : rules[k].links[u] = Position(rules, rules[k].uses[u])

AInv ==
  /\ fs \in Systems /\ IsGrammar(g)
  /\ spaces # 0 => spaces \in DOMAIN g /\ g[spaces].op = "whitespace"
  /\ pc \in {"apply", "ready"} => at \in Nat \ {0} /\ Linked(g) /\ FirstCommand(g, "startRule") # 0

LEMMA GrammarDomain ==
  ASSUME NEW rules, IsGrammar(rules)
  PROVE  Len(rules) \in Nat \ {0} /\ DOMAIN rules = 1 .. Len(rules)
<1>1. PICK R : rules \in Seq(R) BY DEF IsGrammar
<1> QED BY <1>1 DEF IsGrammar

\* A name is found at a production that defines it, if there is one.
LEMMA PositionFinds ==
  ASSUME NEW rules, IsGrammar(rules), NEW name
  PROVE  /\ Position(rules, name) \in 0 .. Len(rules)
         /\ Position(rules, name) # 0 => Position(rules, name) \in DOMAIN rules /\ Defines(rules, Position(rules, name), name)
         /\ Position(rules, name) = 0 <=> ~\E k \in DOMAIN rules : Defines(rules, k, name)
<1> DEFINE found == {k \in DOMAIN rules : Defines(rules, k, name)}
<1>1. Len(rules) \in Nat /\ DOMAIN rules = 1 .. Len(rules) BY GrammarDomain
<1>2. CASE found = {} BY <1>1, <1>2 DEF Position
<1>3. CASE found # {}
  <2>1. Position(rules, name) = CHOOSE k \in found : TRUE BY <1>3 DEF Position
  <2>2. Position(rules, name) \in found BY <2>1, <1>3
  <2> QED BY <2>2, <1>1
<1> QED BY <1>2, <1>3

LEMMA PositionIs ==
  ASSUME NEW rules, IsGrammar(rules), ~DefinedTwice(rules), NEW name, NEW k \in DOMAIN rules, Defines(rules, k, name)
  PROVE  Position(rules, name) = k
<1>1. Position(rules, name) \in DOMAIN rules /\ Defines(rules, Position(rules, name), name) BY PositionFinds
<1> QED BY <1>1 DEF DefinedTwice, Defines

\* Two grammars with the same productions at the same places agree on names.
LEMMA SamePosition ==
  ASSUME NEW a, NEW b, DOMAIN a = DOMAIN b, \A k \in DOMAIN a : b[k].op = a[k].op /\ b[k].name = a[k].name
  PROVE  /\ \A name : Position(b, name) = Position(a, name)
         /\ DefinedTwice(b) <=> DefinedTwice(a)
         /\ \A op : FirstCommand(b, op) = FirstCommand(a, op)
<1>1. \A name : \A k \in DOMAIN a : Defines(b, k, name) <=> Defines(a, k, name) BY DEF Defines
<1>2. ASSUME NEW name PROVE Position(b, name) = Position(a, name)
  <2> DEFINE fa == {k \in DOMAIN a : Defines(a, k, name)}
             fb == {k \in DOMAIN b : Defines(b, k, name)}
  <2>1. fb = fa BY <1>1
  <2>2. Position(a, name) = IF fa = {} THEN 0 ELSE CHOOSE k \in fa : TRUE BY DEF Position
  <2>3. Position(b, name) = IF fb = {} THEN 0 ELSE CHOOSE k \in fb : TRUE BY DEF Position
  <2> HIDE DEF fa, fb
  <2> QED BY <2>1, <2>2, <2>3
<1>3. DefinedTwice(b) <=> DefinedTwice(a) BY <1>1 DEF DefinedTwice
<1>4. ASSUME NEW op PROVE FirstCommand(b, op) = FirstCommand(a, op)
  <2> DEFINE fa == {k \in DOMAIN a : a[k].op = op}
             fb == {k \in DOMAIN b : b[k].op = op}
  <2>1. fb = fa OBVIOUS
  <2>2. FirstCommand(a, op) = IF fa = {} THEN 0 ELSE CHOOSE k \in fa : \A j \in fa : k <= j BY DEF FirstCommand
  <2>3. FirstCommand(b, op) = IF fb = {} THEN 0 ELSE CHOOSE k \in fb : \A j \in fb : k <= j BY DEF FirstCommand
  <2> HIDE DEF fa, fb
  <2> QED BY <2>1, <2>2, <2>3
<1> QED BY <1>2, <1>3, <1>4

LEMMA CorrectRules ==
  ASSUME NEW rules, IsGrammar(rules)
  PROVE  LET c == Correct(rules) IN
         /\ IsGrammar(c) /\ DOMAIN c = DOMAIN rules /\ Len(c) = Len(rules)
         /\ \A k \in DOMAIN rules :
              /\ c[k].op = rules[k].op /\ c[k].name = rules[k].name /\ c[k].uses = rules[k].uses /\ c[k].text = rules[k].text
              /\ c[k].links = [u \in DOMAIN rules[k].uses |-> Position(rules, rules[k].uses[u])]
         /\ ~DefinedTwice(rules) => Linked(c)
<1> DEFINE c == Correct(rules)
           new(k) == [u \in DOMAIN rules[k].uses |-> Position(rules, rules[k].uses[u])]
           R == {c[k] : k \in DOMAIN rules}
<1>1. Len(rules) \in Nat \ {0} /\ DOMAIN rules = 1 .. Len(rules) BY GrammarDomain
<1>2. c = [k \in DOMAIN rules |-> [rules[k] EXCEPT !.links = new(k)]] BY DEF Correct
<1>3. DOMAIN c = DOMAIN rules /\ c \in Seq(R) /\ Len(c) = Len(rules) /\ c # <<>>
  <2>1. DOMAIN c = DOMAIN rules BY <1>2
  <2> HIDE DEF c
  <2>2. \A k \in 1 .. Len(rules) : c[k] \in R BY <1>1
  <2> HIDE DEF R
  <2>3. c = [k \in 1 .. Len(rules) |-> c[k]] BY <1>2, <1>1
  <2>4. c \in [1 .. Len(rules) -> R] BY <2>2, <2>3
  <2>5. c \in Seq(R) BY <2>4, <1>1
  <2> QED BY <2>1, <2>5, <1>1
<1>4. \A k \in DOMAIN rules : IsRule(rules[k], Len(rules)) BY DEF IsGrammar
<1> HIDE DEF c, new
<1>5. ASSUME NEW k \in DOMAIN rules
      PROVE  /\ DOMAIN c[k] = RuleFields
             /\ c[k].op = rules[k].op /\ c[k].name = rules[k].name /\ c[k].uses = rules[k].uses /\ c[k].text = rules[k].text
             /\ c[k].links = new(k)
  <2>1. DOMAIN rules[k] = RuleFields BY <1>4 DEF IsRule
  <2>2. c[k] = [rules[k] EXCEPT !.links = new(k)] BY <1>2
  <2> QED BY <2>1, <2>2 DEF RuleFields
<1>6. ASSUME NEW k \in DOMAIN rules PROVE IsRule(c[k], Len(c))
  <2>1. new(k) \in [DOMAIN rules[k].uses -> 0 .. Len(rules)] BY PositionFinds DEF new
  <2> QED BY <2>1, <1>3, <1>4, <1>5 DEF IsRule
<1>7. IsGrammar(c) BY <1>3, <1>6 DEF IsGrammar
<1>8. ASSUME ~DefinedTwice(rules) PROVE Linked(c)
  <2>1. \A name : Position(c, name) = Position(rules, name) BY <1>3, <1>5, SamePosition
  <2>2. ~DefinedTwice(c) BY <1>3, <1>5, <1>8, SamePosition
  <2>3. \A k \in DOMAIN c : \A u \in DOMAIN c[k].uses : c[k].links[u] = Position(c, c[k].uses[u])
    <3>1. TAKE k \in DOMAIN c
    <3>2. k \in DOMAIN rules /\ c[k].uses = rules[k].uses /\ c[k].links = new(k) BY <1>3, <1>5, <3>1
    <3>3. \A u \in DOMAIN rules[k].uses : new(k)[u] = Position(rules, rules[k].uses[u]) BY DEF new
    <3> QED BY <2>1, <3>2, <3>3
  <2> QED BY <2>2, <2>3 DEF Linked
<1> QED BY <1>3, <1>5, <1>7, <1>8 DEF new, c

\* What a file compiles to.
LEMMA CompiledRules ==
  ASSUME fs \in Systems, NEW f \in DOMAIN fs, fs[f] # Broken \/ f = Main
  PROVE  IsGrammar(Compile(f))
<1>1. fs[f] \in Seq(Decl) BY SystemsAssumption
<1> DEFINE body == [k \in DOMAIN fs[f] |-> Rule(f, fs[f][k])]
           c == Compile(f)
           R == {c[k] : k \in DOMAIN c}
<1>2. Len(fs[f]) \in Nat /\ DOMAIN fs[f] = 1 .. Len(fs[f]) /\ \A k \in DOMAIN fs[f] : fs[f][k] \in Decl BY <1>1
<1>3. body \in Seq({body[k] : k \in DOMAIN fs[f]}) /\ Len(body) = Len(fs[f])
  <2>1. body \in [1 .. Len(fs[f]) -> {body[k] : k \in DOMAIN fs[f]}] BY <1>2
  <2>2. DOMAIN body = 1 .. Len(fs[f]) BY <1>2
  <2> HIDE DEF body
  <2>3. body \in Seq({body[k] : k \in DOMAIN fs[f]}) BY <2>1, <1>2
  <2> QED BY <2>2, <2>3, <1>2
<1>4. c = Append(body, Origin(f)) BY DEF Compile
<1> DEFINE All == {body[k] : k \in DOMAIN fs[f]} \cup {Origin(f)}
<1>5. ASSUME NEW r \in All, NEW n \in Nat \ {0} PROVE IsRule(r, n)
  <2>1. CASE r = Origin(f)
    <3>1. DOMAIN r = RuleFields /\ r.uses = <<>> /\ r.links = <<>> BY <2>1 DEF Origin, RuleFields
    <3> QED BY <3>1 DEF IsRule
  <2>2. CASE r # Origin(f)
    <3>1. PICK k \in DOMAIN fs[f] : r = Rule(f, fs[f][k]) BY <1>5, <2>2
    <3>2. fs[f][k].uses \in Seq(STRING) BY <1>2 DEF Decl
    <3>3. DOMAIN r = RuleFields /\ r.uses = fs[f][k].uses /\ r.links = [u \in DOMAIN fs[f][k].uses |-> 1]
      BY <3>1 DEF Rule, RuleFields
    <3> QED BY <3>2, <3>3 DEF IsRule
  <2> QED BY <2>1, <2>2
<1>6. c \in Seq(All) /\ Len(c) = Len(fs[f]) + 1
  <2> HIDE DEF body, c
  <2>1. body \in Seq(All) /\ Origin(f) \in All
    <3>1. Origin(f) \in All OBVIOUS
    <3>2. {body[k] : k \in DOMAIN fs[f]} \subseteq All OBVIOUS
    <3> HIDE DEF All
    <3> QED BY <3>1, <3>2, <1>3
  <2> HIDE DEF All
  <2> QED BY <2>1, <1>3, <1>4
<1> HIDE DEF c, All
<1>7. Len(c) \in Nat \ {0} /\ c # <<>> /\ \A k \in DOMAIN c : c[k] \in All BY <1>6, <1>2
<1>8. IsGrammar(c) BY <1>5, <1>6, <1>7 DEF IsGrammar
<1> QED BY <1>8 DEF c

\* Rules that come behind others.
LEMMA AddedRules ==
  ASSUME NEW a, IsGrammar(a), NEW b, IsGrammar(b)
  PROVE  LET all == AddRules(a, b) IN
         /\ IsGrammar(all) /\ Len(all) >= Len(a) /\ DOMAIN a \subseteq DOMAIN all
         /\ \A k \in DOMAIN a : all[k] = a[k]
<1>1. PICK A : a \in Seq(A) BY DEF IsGrammar
<1>2. PICK B : b \in Seq(B) BY DEF IsGrammar
<1> DEFINE all == a \o b
<1>3. a \in Seq(A \cup B) /\ b \in Seq(A \cup B) BY <1>1, <1>2
<1>4. Len(a) \in Nat \ {0} /\ Len(b) \in Nat BY <1>1, <1>2, GrammarDomain
<1>5. /\ all \in Seq(A \cup B) /\ Len(all) = Len(a) + Len(b) /\ DOMAIN all = 1 .. Len(a) + Len(b)
      /\ \A k \in 1 .. Len(all) : all[k] = IF k <= Len(a) THEN a[k] ELSE b[k - Len(a)]
  BY <1>3
<1>6. DOMAIN a = 1 .. Len(a) /\ DOMAIN b = 1 .. Len(b) BY <1>1, <1>2
<1> HIDE DEF all
<1>7. \A k \in DOMAIN a : all[k] = a[k] /\ k \in DOMAIN all BY <1>4, <1>5, <1>6
<1>8. ASSUME NEW k \in DOMAIN all PROVE IsRule(all[k], Len(all))
  <2>1. CASE k <= Len(a)
    <3>1. k \in DOMAIN a /\ all[k] = a[k] BY <1>4, <1>5, <1>6, <2>1
    <3>2. IsRule(a[k], Len(a)) BY <3>1 DEF IsGrammar
    <3>3. 0 .. Len(a) \subseteq 0 .. Len(all) BY <1>4, <1>5
    <3> QED BY <3>1, <3>2, <3>3 DEF IsRule
  <2>2. CASE ~(k <= Len(a))
    <3>1. k - Len(a) \in DOMAIN b /\ all[k] = b[k - Len(a)] BY <1>4, <1>5, <1>6, <2>2
    <3>2. IsRule(b[k - Len(a)], Len(b)) BY <3>1 DEF IsGrammar
    <3>3. 0 .. Len(b) \subseteq 0 .. Len(all) BY <1>4, <1>5
    <3> QED BY <3>1, <3>2, <3>3 DEF IsRule
  <2> QED BY <2>1, <2>2
<1>9. all # <<>> BY <1>4, <1>5
<1>10. IsGrammar(all) BY <1>5, <1>8, <1>9 DEF IsGrammar
<1> QED BY <1>4, <1>5, <1>7, <1>10 DEF AddRules, all

\* An include keeps its text, and its name for the file is gone.
LEMMA NamedRule ==
  ASSUME NEW rules, IsGrammar(rules), NEW k \in DOMAIN rules, NEW x,
         x.op = rules[k].op, x.name = rules[k].name, DOMAIN x = RuleFields, x.uses = <<>>, x.links = <<>>
  PROVE  LET mine == [rules EXCEPT ![k] = x] IN
         /\ IsGrammar(mine) /\ Len(mine) = Len(rules) /\ DOMAIN mine = DOMAIN rules
         /\ mine[k] = x /\ \A j \in DOMAIN rules : j # k => mine[j] = rules[j]
         /\ \A j \in DOMAIN rules : mine[j].op = rules[j].op /\ mine[j].name = rules[j].name
<1> DEFINE mine == [rules EXCEPT ![k] = x]
<1>1. PICK R : rules \in Seq(R) BY DEF IsGrammar
<1>2. /\ mine \in Seq(R \cup {x}) /\ Len(mine) = Len(rules) /\ DOMAIN mine = DOMAIN rules
      /\ mine[k] = x /\ \A j \in DOMAIN rules : j # k => mine[j] = rules[j]
      /\ Len(rules) \in Nat \ {0}
  BY <1>1, GrammarDomain
<1> HIDE DEF mine
<1>3. IsRule(x, Len(rules)) BY DEF IsRule
<1>4. \A j \in DOMAIN mine : IsRule(mine[j], Len(mine)) BY <1>2, <1>3 DEF IsGrammar
<1>5. IsGrammar(mine)
  <2>1. mine # <<>> BY <1>2
  <2> QED BY <1>2, <1>4, <2>1 DEF IsGrammar
<1> QED BY <1>2, <1>5 DEF mine

\* The first of the commands of a kind is one, if there is any.
LEMMA FirstCommandIs ==
  ASSUME NEW rules, IsGrammar(rules), NEW op
  PROVE  /\ FirstCommand(rules, op) # 0 <=> \E k \in DOMAIN rules : rules[k].op = op
         /\ FirstCommand(rules, op) # 0 =>
              FirstCommand(rules, op) \in DOMAIN rules /\ rules[FirstCommand(rules, op)].op = op
<1> DEFINE found == {k \in DOMAIN rules : rules[k].op = op}
           Less == OpToRel(<, Nat)
<1>1. Len(rules) \in Nat \ {0} /\ DOMAIN rules = 1 .. Len(rules) BY GrammarDomain
<1>2. FirstCommand(rules, op) = IF found = {} THEN 0 ELSE CHOOSE k \in found : \A j \in found : k <= j
  BY DEF FirstCommand
<1>3. CASE found = {} BY <1>2, <1>3
<1>4. CASE found # {}
  <2>1. IsWellFoundedOn(Less, Nat) BY NatLessThanWellFounded
  <2>2. \A a, b \in Nat : a < b <=> <<a, b>> \in Less BY DEF OpToRel
  <2>3. found \subseteq Nat BY <1>1
  <2> HIDE DEF Less, found
  <2>4. PICK x \in found : \A y \in found : ~(<<y, x>> \in Less) BY <2>1, <2>3, <1>4, WFMin
  <2>5. ASSUME NEW y \in found PROVE x <= y
    <3>1. x \in Nat /\ y \in Nat BY <2>3, <2>4, <2>5
    <3>2. ~(<<y, x>> \in Less) BY <2>4, <2>5
    <3>3. ~(y < x) BY <2>2, <3>1, <3>2
    <3> QED BY <3>1, <3>3
  <2>6. FirstCommand(rules, op) \in found BY <1>2, <1>4, <2>4, <2>5
  <2> QED BY <2>6, <1>1 DEF found
<1> QED BY <1>3, <1>4

-----------------------------------------------------------------------------
(* Positions and links stay.                                               *)

\* What a parse that follows a's rules by position may rely on when they become b.
Keeps(a, b) ==
  /\ Len(b) >= Len(a)
  /\ \A k \in DOMAIN a :
       /\ b[k].op = a[k].op /\ b[k].name = a[k].name
       /\ b[k].uses = a[k].uses =>
            \A u \in DOMAIN a[k].uses :
              a[k].links[u] # 0 /\ Defines(a, a[k].links[u], a[k].uses[u]) => b[k].links[u] = a[k].links[u]

\* The same rules in front, but for includes that are named now.
Extends(a, b) ==
  /\ Len(b) >= Len(a) /\ DOMAIN a \subseteq DOMAIN b
  /\ \A k \in DOMAIN a :
       b[k].op = a[k].op /\ b[k].name = a[k].name /\ (b[k].uses = <<>> \/ (b[k].uses = a[k].uses /\ b[k].links = a[k].links))

LEMMA LinkInside ==
  ASSUME NEW a, IsGrammar(a), NEW k \in DOMAIN a, NEW u \in DOMAIN a[k].uses, a[k].links[u] # 0
  PROVE  a[k].links[u] \in DOMAIN a
<1>1. a[k].links \in [DOMAIN a[k].uses -> 0 .. Len(a)] BY DEF IsGrammar, IsRule
<1> QED BY <1>1, GrammarDomain

LEMMA ExtendsKeeps ==
  ASSUME NEW a, IsGrammar(a), NEW b, IsGrammar(b), Extends(a, b)
  PROVE  Keeps(a, b) /\ (~DefinedTwice(b) => Keeps(a, Correct(b)))
<1>1. ASSUME NEW k \in DOMAIN a, b[k].uses = a[k].uses, NEW u \in DOMAIN a[k].uses PROVE b[k].links[u] = a[k].links[u]
  BY <1>1 DEF Extends
<1>2. Keeps(a, b) BY <1>1 DEF Keeps, Extends
<1>3. ASSUME ~DefinedTwice(b) PROVE Keeps(a, Correct(b))
  <2> DEFINE c == Correct(b)
  <2>1. /\ Len(c) = Len(b)
        /\ \A k \in DOMAIN b :
             /\ c[k].op = b[k].op /\ c[k].name = b[k].name /\ c[k].uses = b[k].uses
             /\ c[k].links = [u \in DOMAIN b[k].uses |-> Position(b, b[k].uses[u])]
    BY CorrectRules
  <2> HIDE DEF c
  <2>2. ASSUME NEW k \in DOMAIN a, c[k].uses = a[k].uses, NEW u \in DOMAIN a[k].uses,
               a[k].links[u] # 0, Defines(a, a[k].links[u], a[k].uses[u])
        PROVE  c[k].links[u] = a[k].links[u]
    <3>1. a[k].links[u] \in DOMAIN a BY <2>2, LinkInside
    <3>2. k \in DOMAIN b /\ a[k].links[u] \in DOMAIN b /\ Defines(b, a[k].links[u], a[k].uses[u])
      BY <2>2, <3>1 DEF Extends, Defines
    <3>3. Position(b, a[k].uses[u]) = a[k].links[u] BY <1>3, <3>2, PositionIs
    <3>4. b[k].uses = a[k].uses BY <2>1, <2>2, <3>2
    <3>5. c[k].links = [v \in DOMAIN a[k].uses |-> Position(b, a[k].uses[v])] BY <2>1, <3>2, <3>4
    <3>6. c[k].links[u] = Position(b, a[k].uses[u]) BY <2>2, <3>5
    <3> QED BY <3>3, <3>6
  <2>3. Len(c) >= Len(a) BY <2>1 DEF Extends
  <2>4. \A k \in DOMAIN a : c[k].op = a[k].op /\ c[k].name = a[k].name BY <2>1 DEF Extends
  <2> QED BY <2>2, <2>3, <2>4 DEF Keeps, c
<1> QED BY <1>2, <1>3

\* What Include makes of the grammar: the named rule, and what comes behind.
LEMMA IncludeRules ==
  ASSUME IsGrammar(g), at \in DOMAIN g
  PROVE  LET mine == [g EXCEPT ![at] = WithText(g[at])]
         IN  /\ IsGrammar(mine) /\ Extends(g, mine)
             /\ \A f \in DOMAIN fs : fs \in Systems /\ fs[f] # Broken =>
                  LET all == AddRules(mine, Compile(f)) IN IsGrammar(all) /\ Extends(g, all)
<1> DEFINE x == WithText(g[at])
           mine == [g EXCEPT ![at] = x]
<1>1. IsRule(g[at], Len(g)) BY DEF IsGrammar
<1>2. x.op = g[at].op /\ x.name = g[at].name /\ DOMAIN x = RuleFields /\ x.uses = <<>> /\ x.links = <<>>
  BY <1>1 DEF WithText, IsRule, RuleFields
<1> HIDE DEF x
<1>3. /\ IsGrammar(mine) /\ Len(mine) = Len(g) /\ DOMAIN mine = DOMAIN g
      /\ mine[at] = x /\ \A j \in DOMAIN g : j # at => mine[j] = g[j]
      /\ \A j \in DOMAIN g : mine[j].op = g[j].op /\ mine[j].name = g[j].name
  BY <1>2, NamedRule
<1> HIDE DEF mine
<1>4. Len(g) \in Nat BY GrammarDomain
<1>5. \A k \in DOMAIN g : mine[k].uses = <<>> \/ (mine[k].uses = g[k].uses /\ mine[k].links = g[k].links) BY <1>2, <1>3
<1>6. Extends(g, mine) BY <1>3, <1>4, <1>5 DEF Extends
<1>7. ASSUME NEW f \in DOMAIN fs, fs \in Systems, fs[f] # Broken
      PROVE  LET all == AddRules(mine, Compile(f)) IN IsGrammar(all) /\ Extends(g, all)
  <2> DEFINE all == AddRules(mine, Compile(f))
  <2>1. IsGrammar(Compile(f)) BY <1>7, CompiledRules
  <2>2. IsGrammar(all) /\ Len(all) >= Len(mine) /\ DOMAIN mine \subseteq DOMAIN all /\ \A k \in DOMAIN mine : all[k] = mine[k]
    BY <1>3, <2>1, AddedRules
  <2> HIDE DEF all
  <2>3. Extends(g, all) BY <1>3, <1>6, <2>2 DEF Extends
  <2> QED BY <2>2, <2>3 DEF all
<1> QED BY <1>3, <1>6, <1>7 DEF mine, x

\* Linked rules that are named or corrected.
LEMMA NamedIsLinked ==
  ASSUME NEW a, IsGrammar(a), Linked(a), NEW b, DOMAIN b = DOMAIN a, Extends(a, b)
  PROVE  Linked(b)
<1>1. (\A name : Position(b, name) = Position(a, name)) /\ ~DefinedTwice(b) BY SamePosition DEF Extends, Linked
<1>2. ASSUME NEW k \in DOMAIN b, NEW u \in DOMAIN b[k].uses PROVE b[k].links[u] = Position(b, b[k].uses[u])
  <2>1. b[k].uses # <<>> BY <1>2
  <2>2. b[k].uses = a[k].uses /\ b[k].links = a[k].links BY <2>1 DEF Extends
  <2> QED BY <1>1, <2>2 DEF Linked
<1> QED BY <1>1, <1>2 DEF Linked

\* A file's commands and the whitespace in effect stay where they are.
LEMMA ExtendsCommands ==
  ASSUME NEW a, IsGrammar(a), NEW b, IsGrammar(b), Extends(a, b)
  PROVE  /\ FirstCommand(a, "startRule") # 0 => FirstCommand(b, "startRule") # 0
         /\ \A k \in DOMAIN a : k \in DOMAIN b /\ b[k].op = a[k].op
<1>1. \A k \in DOMAIN a : k \in DOMAIN b /\ b[k].op = a[k].op BY DEF Extends
<1> QED BY <1>1, FirstCommandIs

-----------------------------------------------------------------------------
(* The invariant, and LinksHold.                                           *)

LEMMA AssembleInitInv == AssembleInit => AInv
<1> SUFFICES ASSUME AssembleInit PROVE AInv OBVIOUS
<1>1. fs \in Systems /\ g = Compile(Main) /\ spaces = 0 /\ pc = "new" BY DEF AssembleInit
<1>2. Main \in DOMAIN fs BY <1>1, SystemsAssumption
<1>3. IsGrammar(g) BY <1>1, <1>2, CompiledRules
<1> QED BY <1>1, <1>3 DEF AInv

LEMMA BeginKeeps == ASSUME AInv, NEW d, Begin(d) PROVE AInv' /\ Keeps(g, g')
<1>1. fs' = fs /\ spaces' = 0 /\ IsGrammar(g) BY DEF Begin, AInv
<1>2. Extends(g, g) /\ Len(g) \in Nat BY <1>1, GrammarDomain DEF Extends
<1>3. CASE FirstCommand(g, "startRule") = 0
  <2>1. pc' = "nothing" /\ g' = g BY <1>3 DEF Begin
  <2> QED BY <1>1, <1>2, <2>1, ExtendsKeeps DEF AInv
<1>4. CASE FirstCommand(g, "startRule") # 0 /\ DefinedTwice(g)
  <2>1. pc' = "failed" /\ g' = g BY <1>4 DEF Begin, Panics
  <2> QED BY <1>1, <1>2, <2>1, ExtendsKeeps DEF AInv
<1>5. CASE FirstCommand(g, "startRule") # 0 /\ ~DefinedTwice(g)
  <2>1. pc' = "apply" /\ at' = 1 /\ g' = Correct(g) BY <1>5 DEF Begin
  <2>2. IsGrammar(g') /\ Linked(g') /\ DOMAIN g' = DOMAIN g /\ Len(g') = Len(g) /\ \A k \in DOMAIN g : g'[k].op = g[k].op
    BY <1>1, <1>5, <2>1, CorrectRules
  <2>3. FirstCommand(g', "startRule") # 0 BY <1>1, <1>5, <2>2, FirstCommandIs
  <2>4. Keeps(g, g') BY <1>1, <1>2, <1>5, <2>1, ExtendsKeeps
  <2> QED BY <1>1, <2>1, <2>2, <2>3, <2>4 DEF AInv
<1> QED BY <1>3, <1>4, <1>5

LEMMA LoopKeeps == ASSUME AInv, Pass \/ Whitespace \/ Start PROVE AInv' /\ Keeps(g, g')
<1>1. fs' = fs /\ g' = g /\ pc = "apply" BY DEF Pass, Whitespace, Start, Command
<1>2. IsGrammar(g) /\ at \in Nat \ {0} /\ Linked(g) /\ FirstCommand(g, "startRule") # 0 BY <1>1 DEF AInv
<1>3. Len(g) \in Nat /\ DOMAIN g = 1 .. Len(g) BY <1>2, GrammarDomain
<1>4. Keeps(g, g')
  <2>1. Extends(g, g) BY <1>3 DEF Extends
  <2> QED BY <1>1, <1>2, <2>1, ExtendsKeeps
<1>5. at' \in Nat \ {0} BY <1>2 DEF Pass, Whitespace, Start, ToNext
<1>6. spaces' = spaces \/ (spaces' = at /\ at \in DOMAIN g /\ g[at].op = "whitespace")
  BY <1>2, <1>3 DEF Pass, Whitespace, Start, Command, More
<1> QED BY <1>1, <1>2, <1>4, <1>5, <1>6 DEF AInv

LEMMA IncludeKeeps == ASSUME AInv, Include PROVE AInv' /\ Keeps(g, g')
<1> DEFINE f == Target(g[at])
           mine == [g EXCEPT ![at] = WithText(g[at])]
           all == AddRules(mine, Compile(f))
<1>1. fs' = fs /\ spaces' = spaces /\ pc = "apply" /\ at <= Len(g) BY DEF Include, Command, More
<1>2. IsGrammar(g) /\ at \in Nat \ {0} /\ Linked(g) /\ FirstCommand(g, "startRule") # 0 /\ fs \in Systems BY <1>1 DEF AInv
<1>3. at \in DOMAIN g /\ Len(g) \in Nat BY <1>1, <1>2, GrammarDomain
<1>4. IsGrammar(mine) /\ Extends(g, mine) BY <1>2, <1>3, IncludeRules
<1>5. Readable(f) => IsGrammar(all) /\ Extends(g, all) BY <1>2, <1>3, IncludeRules DEF Readable
<1>6. \/ pc' = "failed" /\ g' = g
      \/ g' = mine /\ ToNext /\ UNCHANGED pc
      \/ g' = mine /\ pc' = "failed"
      \/ Readable(f) /\ g' = all /\ pc' = "failed"
      \/ Readable(f) /\ ~DefinedTwice(all) /\ g' = Correct(all) /\ ToNext /\ UNCHANGED pc
  BY DEF Include, Panics
<1>7. DOMAIN mine = DOMAIN g BY <1>2, GrammarDomain DEF IsGrammar
<1> HIDE DEF f, mine, all
<1>8. ASSUME NEW b, IsGrammar(b), Extends(g, b) PROVE spaces # 0 => spaces \in DOMAIN b /\ b[spaces].op = "whitespace"
  BY <1>2, <1>8, ExtendsCommands DEF AInv
<1>9. CASE pc' = "failed" /\ g' = g
  <2>1. Extends(g, g) BY <1>3 DEF Extends
  <2> QED BY <1>1, <1>2, <1>9, <2>1, ExtendsKeeps DEF AInv
<1>10. CASE g' = mine /\ ToNext /\ UNCHANGED pc
  <2>1. Linked(g') /\ FirstCommand(g', "startRule") # 0 BY <1>2, <1>4, <1>7, <1>10, NamedIsLinked, ExtendsCommands
  <2>2. at' \in Nat \ {0} BY <1>2, <1>10 DEF ToNext
  <2> QED BY <1>1, <1>2, <1>4, <1>8, <1>10, <2>1, <2>2, ExtendsKeeps DEF AInv
<1>11. CASE g' = mine /\ pc' = "failed" BY <1>1, <1>2, <1>4, <1>8, <1>11, ExtendsKeeps DEF AInv
<1>12. CASE Readable(f) /\ g' = all /\ pc' = "failed" BY <1>1, <1>2, <1>5, <1>8, <1>12, ExtendsKeeps DEF AInv
<1>13. CASE Readable(f) /\ ~DefinedTwice(all) /\ g' = Correct(all) /\ ToNext /\ UNCHANGED pc
  <2>1. IsGrammar(all) /\ Extends(g, all) BY <1>5, <1>13
  <2>2. IsGrammar(g') /\ Linked(g') /\ DOMAIN g' = DOMAIN all /\ \A k \in DOMAIN all : g'[k].op = all[k].op
    BY <1>13, <2>1, CorrectRules
  <2>3. FirstCommand(all, "startRule") # 0 BY <1>2, <2>1, ExtendsCommands
  <2>4. FirstCommand(g', "startRule") # 0 BY <2>1, <2>2, <2>3, FirstCommandIs
  <2>5. at' \in Nat \ {0} BY <1>2, <1>13 DEF ToNext
  <2>6. spaces # 0 => spaces \in DOMAIN g' /\ g'[spaces].op = "whitespace" BY <1>8, <2>1, <2>2
  <2>7. Keeps(g, g') BY <1>2, <1>13, <2>1, ExtendsKeeps
  <2> QED BY <1>1, <1>2, <1>13, <2>2, <2>4, <2>5, <2>6, <2>7 DEF AInv
<1> QED BY <1>6, <1>9, <1>10, <1>11, <1>12, <1>13

LEMMA AssembleStep == ASSUME AInv, [AssembleNext]_grammarVars PROVE AInv' /\ Keeps(g, g')
<1>1. ASSUME NEW d \in Dirs, Begin(d) PROVE AInv' /\ Keeps(g, g') BY <1>1, BeginKeeps
<1>2. CASE Pass \/ Whitespace \/ Start BY <1>2, LoopKeeps
<1>3. CASE Include BY <1>3, IncludeKeeps
<1>4. CASE UNCHANGED grammarVars
  <2>1. UNCHANGED <<fs, g, pc, at, spaces>> BY <1>4 DEF grammarVars
  <2>2. Extends(g, g) BY GrammarDomain DEF Extends, AInv
  <2>3. Keeps(g, g') BY <2>1, <2>2, ExtendsKeeps DEF AInv
  <2> QED BY <2>1, <2>3 DEF AInv
<1> QED BY <1>1, <1>2, <1>3, <1>4 DEF AssembleNext

\* A grammar is a sequence of rules at any time, and while it is applied every link is at
\* the one production of its name.
THEOREM AssembleInvariance == AssembleSpec => []AInv
<1>1. AInv /\ [AssembleNext]_grammarVars => AInv' BY AssembleStep
<1> QED BY AssembleInitInv, <1>1, PTL DEF AssembleSpec

\* A parse that runs while another one assembles the same grammar follows its rules by
\* position: rules only come behind them, and a link that was found stays.
THEOREM LinksStay == AssembleSpec => LinksHold
<1>1. AInv /\ [AssembleNext]_grammarVars =>
        [/\ Len(g') >= Len(g)
         /\ \A k \in DOMAIN g :
              /\ g'[k].op = g[k].op /\ g'[k].name = g[k].name
              /\ g'[k].uses = g[k].uses =>
                   \A u \in DOMAIN g[k].uses :
                     g[k].links[u] # 0 /\ Defines(g, g[k].links[u], g[k].uses[u]) => g'[k].links[u] = g[k].links[u]
        ]_grammarVars
  <2> SUFFICES ASSUME AInv, [AssembleNext]_grammarVars PROVE Keeps(g, g') BY DEF Keeps
  <2> QED BY AssembleStep
<1> QED BY AssembleInvariance, <1>1, PTL DEF AssembleSpec, LinksHold

-----------------------------------------------------------------------------
(* By name and by position (VerifierAgrees).                               *)

\* A set of rules that holds what its links lead to.
FollowsLinks(S) == \A k \in S : LinksOf(k) \subseteq S

\* What can be applied holds what is in effect, and follows its links.
LEMMA ApplicableFollows ==
  ASSUME \A k \in DOMAIN g : LinksOf(k) \subseteq DOMAIN g, InEffect \subseteq DOMAIN g
  PROVE  InEffect \subseteq Applicable /\ Applicable \subseteq DOMAIN g /\ FollowsLinks(Applicable)
<1> DEFINE Closed == {S \in SUBSET DOMAIN g : \A k \in S : LinksOf(k) \subseteq S}
<1>1. Applicable = {k \in DOMAIN g : \A S \in Closed : InEffect \subseteq S => k \in S} BY DEF Applicable
<1>2. ASSUME NEW k \in Applicable, NEW l \in LinksOf(k) PROVE l \in Applicable
  <2>1. k \in DOMAIN g /\ l \in DOMAIN g BY <1>1, <1>2
  <2>2. ASSUME NEW S \in Closed, InEffect \subseteq S PROVE l \in S
    <3>1. k \in S BY <1>1, <1>2, <2>2
    <3>2. LinksOf(k) \subseteq S BY <2>2, <3>1
    <3> QED BY <1>2, <3>2
  <2> QED BY <1>1, <2>1, <2>2
<1>3. InEffect \subseteq Applicable /\ Applicable \subseteq DOMAIN g BY <1>1
<1> QED BY <1>2, <1>3 DEF FollowsLinks

LEMMA ApplicableIsLeast ==
  ASSUME NEW S \in SUBSET DOMAIN g, FollowsLinks(S), InEffect \subseteq S
  PROVE  Applicable \subseteq S
BY DEF Applicable, FollowsLinks

\* A set of names that holds what its productions use.
FollowsUses(S) == \A k \in DOMAIN g : \A n \in S : Defines(g, k, n) => Uses(g[k]) \subseteq S
Mentioned == Names(g) \cup UNION {Uses(g[k]) : k \in DOMAIN g}

LEMMA ReachedFollows ==
  ASSUME NEW from \in SUBSET Mentioned
  PROVE  from \subseteq Reached(g, from) /\ FollowsUses(Reached(g, from))
<1> DEFINE Closed == {S \in SUBSET Mentioned : from \subseteq S /\ FollowsUses(S)}
<1>1. Reached(g, from) = {n \in UNION Closed : \A S \in Closed : n \in S} BY DEF Reached, FollowsUses, Mentioned
<1>2. Mentioned \in Closed
  <2>1. FollowsUses(Mentioned) BY DEF FollowsUses, Mentioned
  <2> QED BY <2>1
<1> HIDE DEF Closed
<1>3. \A n : (\A S \in Closed : n \in S) => n \in Reached(g, from) BY <1>1, <1>2
<1>4. \A S \in Closed : from \subseteq S /\ FollowsUses(S) BY DEF Closed
<1>5. from \subseteq Reached(g, from) BY <1>3, <1>4
<1>6. ASSUME NEW k \in DOMAIN g, NEW n \in Reached(g, from), Defines(g, k, n), NEW m \in Uses(g[k])
      PROVE  m \in Reached(g, from)
  <2>1. ASSUME NEW S \in Closed PROVE m \in S
    <3>1. n \in S BY <1>1, <1>6, <2>1
    <3> QED BY <1>4, <1>6, <2>1, <3>1 DEF FollowsUses
  <2> QED BY <1>3, <2>1
<1> QED BY <1>5, <1>6 DEF FollowsUses

LEMMA ReachedIsLeast ==
  ASSUME NEW S \in SUBSET Mentioned, NEW from, from \subseteq S, FollowsUses(S)
  PROVE  Reached(g, from) \subseteq S
<1>1. S \in {T \in SUBSET Mentioned : from \subseteq T /\ FollowsUses(T)} OBVIOUS
<1> QED BY <1>1 DEF Reached, FollowsUses, Mentioned

\* A name is some production's, exactly if its position is not the marker.
LEMMA NamesHavePositions ==
  ASSUME IsGrammar(g)
  PROVE  /\ \A n : n \in Names(g) <=> \E k \in DOMAIN g : Defines(g, k, n)
         /\ \A n : n \in Names(g) <=> Position(g, n) # 0
<1>1. ASSUME NEW n PROVE n \in Names(g) <=> \E k \in DOMAIN g : Defines(g, k, n) BY DEF Names, Defines
<1>2. ASSUME NEW n PROVE n \in Names(g) <=> Position(g, n) # 0 BY <1>1, PositionFinds
<1> QED BY <1>1, <1>2

\* The links of a rule are the positions of the names it uses.
LEMMA LinksAreUses ==
  ASSUME IsGrammar(g), Linked(g), NEW k \in DOMAIN g
  PROVE  LinksOf(k) = {Position(g, n) : n \in Uses(g[k])} \ {0} /\ LinksOf(k) \subseteq DOMAIN g
<1>1. DOMAIN g[k].links = DOMAIN g[k].uses BY DEF IsGrammar, IsRule
<1>2. \A u \in DOMAIN g[k].uses : g[k].links[u] = Position(g, g[k].uses[u]) BY DEF Linked
<1>3. LinksOf(k) = {Position(g, n) : n \in Uses(g[k])} \ {0} BY <1>1, <1>2 DEF LinksOf, Uses
<1>4. \A n : Position(g, n) # 0 => Position(g, n) \in DOMAIN g BY PositionFinds
<1> QED BY <1>3, <1>4

LEMMA CommandsInEffect ==
  ASSUME AInv, pc = "ready"
  PROVE  InEffect \subseteq DOMAIN g /\ \A k \in InEffect : g[k].op # "production"
<1>1. IsGrammar(g) /\ FirstCommand(g, "startRule") # 0 BY DEF AInv
<1>2. /\ FirstCommand(g, "startRule") \in DOMAIN g
      /\ g[FirstCommand(g, "startRule")].op = "startRule"
  BY <1>1, FirstCommandIs
<1>3. spaces # 0 => spaces \in DOMAIN g /\ g[spaces].op = "whitespace" BY DEF AInv
<1> QED BY <1>2, <1>3 DEF InEffect

\* Undefined names are those whose uses point nowhere.
LEMMA UndefinedPointNowhere ==
  ASSUME AInv, pc = "ready", NEW k \in DOMAIN g, NEW u \in DOMAIN g[k].uses
  PROVE  g[k].uses[u] \in Undefined(g) <=> g[k].links[u] = 0
<1>1. IsGrammar(g) /\ Linked(g) BY DEF AInv
<1>2. g[k].links[u] = Position(g, g[k].uses[u]) BY <1>1 DEF Linked
<1>3. g[k].uses[u] \in UNION {Uses(g[j]) : j \in DOMAIN g} BY DEF Uses
<1>4. g[k].uses[u] \in Undefined(g) <=> g[k].uses[u] \notin Names(g) BY <1>3 DEF Undefined
<1> QED BY <1>1, <1>2, <1>4, NamesHavePositions

LEMMA RootsMentioned == Roots(g) \subseteq Mentioned
BY DEF Roots, Mentioned

\* A production that can be applied is reached by name.
LEMMA AppliedAreReached ==
  ASSUME AInv, pc = "ready", NEW k \in Applicable, g[k].op = "production"
  PROVE  g[k].name \in Reached(g, Roots(g))
<1> DEFINE R == Reached(g, Roots(g))
           S == InEffect \cup {j \in DOMAIN g : \E n \in R : Defines(g, j, n)}
<1>1. IsGrammar(g) /\ Linked(g) BY DEF AInv
<1>2. Roots(g) \subseteq R /\ FollowsUses(R) BY RootsMentioned, ReachedFollows
<1>3. InEffect \subseteq DOMAIN g /\ \A j \in InEffect : g[j].op # "production" BY CommandsInEffect
<1> HIDE DEF R
<1>4. ASSUME NEW j \in S, NEW l \in LinksOf(j) PROVE l \in S
  <2>1. j \in DOMAIN g BY <1>3, <1>4
  <2>2. Uses(g[j]) \subseteq R
    <3>1. CASE j \in InEffect
      <4>1. Uses(g[j]) \subseteq Roots(g) BY <1>3, <2>1, <3>1 DEF Roots
      <4> QED BY <1>2, <4>1
    <3>2. CASE j \notin InEffect BY <1>2, <1>4, <3>2 DEF FollowsUses
    <3> QED BY <3>1, <3>2
  <2>3. PICK n \in Uses(g[j]) : l = Position(g, n) /\ l # 0 BY <1>1, <1>4, <2>1, LinksAreUses
  <2>4. l \in DOMAIN g /\ Defines(g, l, n) BY <1>1, <2>3, PositionFinds
  <2> QED BY <2>2, <2>3, <2>4
<1>5. Applicable \subseteq S
  <2>1. FollowsLinks(S) BY <1>4 DEF FollowsLinks
  <2>2. S \in SUBSET DOMAIN g /\ InEffect \subseteq S BY <1>3
  <2> HIDE DEF S
  <2> QED BY <2>1, <2>2, ApplicableIsLeast
<1>6. k \in DOMAIN g BY DEF Applicable
<1>7. PICK n \in R : Defines(g, k, n) BY <1>3, <1>5, <1>6
<1> QED BY <1>7 DEF Defines, R

\* A production that is reached by name can be applied, unless names that no parse looks at
\* reach it.
LEMMA ReachedAreApplied ==
  ASSUME AInv, pc = "ready", NEW k \in DOMAIN g, g[k].op = "production", g[k].name \in Reached(g, Roots(g)),
         g[k].name \notin Reached(g, Idle \cap Names(g))
  PROVE  k \in Applicable
<1> DEFINE I == Idle \cap Names(g)
           R == Reached(g, I)
           T == {n \in Mentioned : n \in Names(g) => Position(g, n) \in Applicable \/ n \in R}
<1>1. IsGrammar(g) /\ Linked(g) BY DEF AInv
<1>2. InEffect \subseteq Applicable /\ Applicable \subseteq DOMAIN g /\ FollowsLinks(Applicable)
  BY <1>1, LinksAreUses, CommandsInEffect, ApplicableFollows
<1>3. I \subseteq R /\ FollowsUses(R)
  <2>1. I \subseteq Mentioned BY DEF Mentioned
  <2> HIDE DEF I
  <2> QED BY <2>1, ReachedFollows
<1> HIDE DEF R
<1>4. ASSUME NEW j \in Applicable, NEW n \in Uses(g[j]) PROVE n \in T
  <2>1. j \in DOMAIN g BY <1>2
  <2>2. n \in Mentioned BY <2>1, <1>4 DEF Mentioned
  <2>3. n \in Names(g) => Position(g, n) \in LinksOf(j) BY <1>1, <1>4, <2>1, LinksAreUses, NamesHavePositions
  <2> QED BY <1>2, <1>4, <2>2, <2>3 DEF FollowsLinks
<1>5. ASSUME NEW n \in Roots(g) PROVE n \in T
  <2>1. Roots(g) = UNION {Uses(g[j]) : j \in {i \in DOMAIN g : g[i].op # "production"}} BY DEF Roots
  <2>2. PICK j \in DOMAIN g : g[j].op # "production" /\ n \in Uses(g[j]) BY <1>5, <2>1
  <2>3. CASE j \in InEffect BY <1>2, <1>4, <2>2, <2>3
  <2>4. CASE j \notin InEffect
    <3>1. n \in Idle BY <2>2, <2>4 DEF Idle
    <3>2. n \in Mentioned BY <2>2 DEF Mentioned
    <3> QED BY <1>3, <3>1, <3>2
  <2> QED BY <2>3, <2>4
<1>6. ASSUME NEW j \in DOMAIN g, NEW n \in T, Defines(g, j, n) PROVE Uses(g[j]) \subseteq T
  <2>1. Position(g, n) = j BY <1>1, <1>6, PositionIs DEF Linked
  <2>2. n \in Names(g) BY <1>1, <1>6, NamesHavePositions
  <2>3. CASE j \in Applicable BY <1>4, <2>3
  <2>4. CASE n \in R
    <3>1. Uses(g[j]) \subseteq R BY <1>3, <1>6, <2>4 DEF FollowsUses
    <3>2. Uses(g[j]) \subseteq Mentioned BY <1>6 DEF Mentioned
    <3> QED BY <3>1, <3>2
  <2> QED BY <1>6, <2>1, <2>2, <2>3, <2>4
<1>7. Reached(g, Roots(g)) \subseteq T
  <2>1. FollowsUses(T) BY <1>6 DEF FollowsUses
  <2>2. T \in SUBSET Mentioned /\ Roots(g) \subseteq T BY <1>5
  <2> HIDE DEF T
  <2> QED BY <2>1, <2>2, ReachedIsLeast
<1>8. Defines(g, k, g[k].name) BY DEF Defines
<1>9. g[k].name \in T BY <1>7
<1>10. Position(g, g[k].name) = k BY <1>1, <1>8, PositionIs DEF Linked
<1>11. g[k].name \in Names(g) BY <1>1, <1>8, NamesHavePositions
<1>12. g[k].name \notin R BY DEF R
<1> QED BY <1>9, <1>10, <1>11, <1>12

LEMMA InvAgrees == AInv => VerifierAgrees
<1> SUFFICES ASSUME AInv, pc = "ready" PROVE VerifierAgrees BY DEF VerifierAgrees
<1> DEFINE own == Names(Compile(Main))
           applied == {k \in Applicable : g[k].op = "production"}
<1>1. FirstCommand(g, "startRule") # 0 /\ IsGrammar(g) BY DEF AInv
<1>2. Unreachable(g, own) = (Names(g) \cap own) \ Reached(g, Roots(g)) BY <1>1 DEF Unreachable
<1>3. \A k \in DOMAIN g : \A u \in DOMAIN g[k].uses : g[k].uses[u] \in Undefined(g) <=> g[k].links[u] = 0
  BY UndefinedPointNowhere
<1>4. Unreachable(g, own) \cap {g[k].name : k \in applied} = {} BY <1>2, AppliedAreReached
<1>5. ASSUME NEW k \in DOMAIN g, g[k].op = "production", g[k].name \in own, k \notin applied
      PROVE  g[k].name \in Unreachable(g, own) \cup Reached(g, Idle \cap Names(g))
  <2>1. k \notin Applicable BY <1>5
  <2>2. g[k].name \in Names(g) BY <1>1, <1>5, NamesHavePositions DEF Defines
  <2> QED BY <1>2, <1>5, <2>1, <2>2, ReachedAreApplied
<1> QED BY <1>3, <1>4, <1>5 DEF VerifierAgrees

\* What the verifier says by name is what a parse finds by position: an undefined name is one
\* whose uses point nowhere, no production that a parse can apply is unreachable, and an own
\* one that no parse can apply is, unless the names that no parse looks at lead to it.
THEOREM NamesAgreeWithPositions == AssembleSpec => []VerifierAgrees
BY AssembleInvariance, InvAgrees, PTL

-----------------------------------------------------------------------------
(* The rules are those of the files (HoldsItsFiles).                       *)

\* Where the stamp of the grammar's own file is.
Stamp == Len(fs[Main]) + 1

FInv ==
  /\ Kinds(g) = UNION {KindsIn(f) : f \in {Main} \cup included}
  /\ Stamp \in DOMAIN g /\ g[Stamp].op = "origin" /\ g[Stamp].text = Main[1]
  /\ \A k \in 1 .. Stamp - 1 : g[k].op # "origin"
  /\ pc \in {"apply", "ready"} => \A k \in DOMAIN g : k < at /\ g[k].op = "whitespace" => k <= spaces
  /\ pc = "ready" => at > Len(g)

LEMMA BrokenIsNoFile == Broken \notin Seq(Decl)
<1> SUFFICES ASSUME Broken \in Seq(Decl) PROVE FALSE OBVIOUS
<1>1. Len(Broken) = 1 /\ Broken[1] = [op |-> "error"] BY DEF Broken
<1>2. [op |-> "error"] \in Decl BY <1>1
<1>3. [op |-> "error"].op \in Ops BY <1>2 DEF Decl
<1> QED BY <1>3 DEF Ops

LEMMA MainIsReadable == ASSUME fs \in Systems PROVE Readable(Main) /\ Len(fs[Main]) \in Nat
<1>1. Main \in DOMAIN fs /\ fs[Main] \in Seq(Decl) BY SystemsAssumption
<1> QED BY <1>1, BrokenIsNoFile DEF Readable

LEMMA OriginIs == ASSUME NEW f PROVE Origin(f).op = "origin" /\ Origin(f).text = f[1]
<1> DEFINE rest == <<>>
           base == f[1]
           r == Origin(f)
           stamp == [op |-> "origin", name |-> "", uses |-> rest, text |-> base, links |-> rest, anchor |-> Nowhere]
<1>1. stamp.op = "origin" OBVIOUS
<1>2. stamp.text = base
  <2> HIDE DEF rest, base
  <2> QED OBVIOUS
<1>3. r = stamp BY DEF Origin
<1> HIDE DEF r, stamp, base
<1>4. r.op = "origin" /\ r.text = base BY <1>1, <1>2, <1>3
<1> QED BY <1>4 DEF base, r

\* What a file compiles to holds the kinds of its declarations, and the stamp comes last.
LEMMA CompiledKinds ==
  ASSUME fs \in Systems, NEW f, Readable(f)
  PROVE  /\ Len(Compile(f)) = Len(fs[f]) + 1 /\ Len(fs[f]) \in Nat /\ DOMAIN Compile(f) = 1 .. Len(fs[f]) + 1
         /\ \A k \in 1 .. Len(fs[f]) : Compile(f)[k].op # "origin"
         /\ Compile(f)[Len(fs[f]) + 1] = Origin(f)
         /\ Kinds(Compile(f)) = KindsIn(f)
<1> DEFINE n == Len(fs[f])
           body == [k \in DOMAIN fs[f] |-> Rule(f, fs[f][k])]
           c == Compile(f)
           R == {body[k] : k \in 1 .. n}
<1>1. f \in DOMAIN fs /\ fs[f] \in Seq(Decl) BY SystemsAssumption DEF Readable
<1>2. n \in Nat /\ DOMAIN fs[f] = 1 .. n /\ \A k \in 1 .. n : fs[f][k] \in Decl BY <1>1
<1>3. body = [k \in 1 .. n |-> Rule(f, fs[f][k])] BY <1>2
<1>4. body \in Seq(R) /\ Len(body) = n
  <2> HIDE DEF n
  <2>1. body \in [1 .. n -> R] /\ DOMAIN body = 1 .. n BY <1>3
  <2> HIDE DEF body, R
  <2> QED BY <2>1, <1>2
<1>5. c = Append(body, Origin(f)) BY DEF Compile
<1> HIDE DEF n, body, c
<1>6. Len(c) = n + 1 /\ DOMAIN c = 1 .. n + 1 /\ c[n + 1] = Origin(f) /\ \A k \in 1 .. n : c[k] = body[k]
  <2> HIDE DEF R
  <2> QED BY <1>2, <1>4, <1>5
<1>7. ASSUME NEW k \in 1 .. n PROVE c[k].op = fs[f][k].op /\ c[k].name = fs[f][k].name /\ c[k].op # "origin"
  <2>1. c[k] = Rule(f, fs[f][k]) BY <1>3, <1>6
  <2>2. c[k].op = fs[f][k].op /\ c[k].name = fs[f][k].name BY <2>1 DEF Rule
  <2>3. fs[f][k].op \in Ops BY <1>2 DEF Decl
  <2> QED BY <2>2, <2>3 DEF Ops
<1>8. c[n + 1].op = "origin" BY <1>6, OriginIs
<1>9. {j \in DOMAIN c : c[j].op # "origin"} = 1 .. n BY <1>2, <1>6, <1>7, <1>8
<1>10. Kinds(c) = {<<c[k].op, c[k].name>> : k \in 1 .. n} BY <1>9 DEF Kinds
<1>11. KindsIn(f) = {<<fs[f][k].op, fs[f][k].name>> : k \in 1 .. n} BY <1>2 DEF KindsIn, Decls
<1>12. Kinds(c) = KindsIn(f) BY <1>7, <1>10, <1>11
<1> QED BY <1>2, <1>6, <1>7, <1>12 DEF n, c

\* The first stamp.
LEMMA FirstIs ==
  ASSUME NEW rules, IsGrammar(rules), NEW op, NEW n \in DOMAIN rules, rules[n].op = op, \A k \in 1 .. n - 1 : rules[k].op # op
  PROVE  FirstCommand(rules, op) = n
<1> DEFINE found == {k \in DOMAIN rules : rules[k].op = op}
<1>1. Len(rules) \in Nat /\ DOMAIN rules = 1 .. Len(rules) BY GrammarDomain
<1>2. FirstCommand(rules, op) = IF found = {} THEN 0 ELSE CHOOSE k \in found : \A j \in found : k <= j
  BY DEF FirstCommand
<1>3. n \in found /\ found \subseteq Nat /\ \A j \in found : n <= j BY <1>1
<1> HIDE DEF found
<1>4. FirstCommand(rules, op) \in found /\ \A j \in found : FirstCommand(rules, op) <= j BY <1>2, <1>3
<1>5. FirstCommand(rules, op) <= n /\ n <= FirstCommand(rules, op) BY <1>3, <1>4
<1> QED BY <1>3, <1>4, <1>5

\* Rules that keep their kinds.
LEMMA SameKinds ==
  ASSUME NEW a, NEW b, DOMAIN a = DOMAIN b, \A k \in DOMAIN a : b[k].op = a[k].op /\ b[k].name = a[k].name
  PROVE  Kinds(b) = Kinds(a)
BY DEF Kinds

\* The kinds of some rules and those that come behind them.
LEMMA AddedKinds ==
  ASSUME NEW a, IsGrammar(a), NEW b, IsGrammar(b)
  PROVE  Kinds(AddRules(a, b)) = Kinds(a) \cup Kinds(b)
<1> DEFINE all == a \o b
<1>1. PICK A : a \in Seq(A) BY DEF IsGrammar
<1>2. PICK B : b \in Seq(B) BY DEF IsGrammar
<1>3. a \in Seq(A \cup B) /\ b \in Seq(A \cup B) BY <1>1, <1>2
<1>4. /\ Len(a) \in Nat /\ Len(b) \in Nat /\ DOMAIN a = 1 .. Len(a) /\ DOMAIN b = 1 .. Len(b) BY <1>1, <1>2
<1>5. /\ DOMAIN all = 1 .. Len(a) + Len(b)
      /\ \A k \in 1 .. Len(a) + Len(b) : all[k] = IF k <= Len(a) THEN a[k] ELSE b[k - Len(a)]
  BY <1>3
<1> HIDE DEF all
<1>6. \A k \in DOMAIN a : k \in DOMAIN all /\ all[k] = a[k] BY <1>4, <1>5
<1>7. \A k \in DOMAIN b : k + Len(a) \in DOMAIN all /\ all[k + Len(a)] = b[k] BY <1>4, <1>5
<1>8. \A k \in DOMAIN all : (k \in DOMAIN a /\ all[k] = a[k]) \/ (k - Len(a) \in DOMAIN b /\ all[k] = b[k - Len(a)])
  BY <1>4, <1>5
<1>9. ASSUME NEW p \in Kinds(all) PROVE p \in Kinds(a) \cup Kinds(b)
  <2>1. PICK k \in DOMAIN all : all[k].op # "origin" /\ p = <<all[k].op, all[k].name>> BY <1>9 DEF Kinds
  <2>2. CASE k \in DOMAIN a /\ all[k] = a[k] BY <2>1, <2>2 DEF Kinds
  <2>3. CASE k - Len(a) \in DOMAIN b /\ all[k] = b[k - Len(a)] BY <2>1, <2>3 DEF Kinds
  <2> QED BY <1>8, <2>1, <2>2, <2>3
<1>10. ASSUME NEW p \in Kinds(a) PROVE p \in Kinds(all)
  <2>1. PICK k \in DOMAIN a : a[k].op # "origin" /\ p = <<a[k].op, a[k].name>> BY <1>10 DEF Kinds
  <2>2. k \in DOMAIN all /\ all[k] = a[k] BY <1>6
  <2> QED BY <2>1, <2>2 DEF Kinds
<1>11. ASSUME NEW p \in Kinds(b) PROVE p \in Kinds(all)
  <2>1. PICK k \in DOMAIN b : b[k].op # "origin" /\ p = <<b[k].op, b[k].name>> BY <1>11 DEF Kinds
  <2>2. k + Len(a) \in DOMAIN all /\ all[k + Len(a)] = b[k] BY <1>7
  <2> QED BY <2>1, <2>2 DEF Kinds
<1>12. Kinds(all) = Kinds(a) \cup Kinds(b) BY <1>9, <1>10, <1>11
<1> QED BY <1>12 DEF AddRules, all

LEMMA FilesInit == AssembleInit => FInv
<1> SUFFICES ASSUME AssembleInit PROVE FInv OBVIOUS
<1>1. fs \in Systems /\ g = Compile(Main) /\ included = {} /\ pc = "new" BY DEF AssembleInit
<1>2. Readable(Main) /\ Len(fs[Main]) \in Nat BY <1>1, MainIsReadable
<1>3. /\ DOMAIN g = 1 .. Stamp /\ \A k \in 1 .. Stamp - 1 : g[k].op # "origin"
      /\ g[Stamp] = Origin(Main) /\ Kinds(g) = KindsIn(Main)
  BY <1>1, <1>2, CompiledKinds DEF Stamp
<1>4. Stamp \in DOMAIN g /\ g[Stamp].op = "origin" /\ g[Stamp].text = Main[1] BY <1>2, <1>3, OriginIs DEF Stamp
<1> QED BY <1>1, <1>3, <1>4 DEF FInv

LEMMA BeginFiles == ASSUME AInv, FInv, NEW d, Begin(d) PROVE FInv'
<1>1. fs' = fs /\ included' = included /\ IsGrammar(g) BY DEF Begin, AInv
<1>2. Stamp' = Stamp /\ \A f : KindsIn(f)' = KindsIn(f) BY <1>1 DEF Stamp, KindsIn, Decls, Readable
<1>3. \/ pc' \in {"nothing", "failed"} /\ g' = g
      \/ pc' = "apply" /\ at' = 1 /\ g' = Correct(g)
  BY DEF Begin, Panics
<1>4. CASE pc' \in {"nothing", "failed"} /\ g' = g BY <1>1, <1>2, <1>4 DEF FInv
<1>5. CASE pc' = "apply" /\ at' = 1 /\ g' = Correct(g)
  <2>1. DOMAIN g' = DOMAIN g /\ \A k \in DOMAIN g : g'[k].op = g[k].op /\ g'[k].name = g[k].name /\ g'[k].text = g[k].text
    BY <1>1, <1>5, CorrectRules
  <2>2. Kinds(g') = Kinds(g) BY <2>1, SameKinds
  <2>3. Len(g) \in Nat /\ DOMAIN g = 1 .. Len(g) BY <1>1, GrammarDomain
  <2>4. \A k \in DOMAIN g' : ~(k < at') BY <1>5, <2>1, <2>3
  <2>5. \A k \in 1 .. Stamp - 1 : g'[k].op # "origin"
    <3>1. \A k \in 1 .. Stamp - 1 : k \in DOMAIN g BY <2>3 DEF FInv
    <3> QED BY <2>1, <3>1 DEF FInv
  <2>6. Kinds(g)' = UNION {KindsIn(f)' : f \in {Main} \cup included'} BY <1>1, <1>2, <2>2 DEF FInv, Kinds
  <2> QED BY <1>2, <1>5, <2>1, <2>4, <2>5, <2>6 DEF FInv
<1> QED BY <1>3, <1>4, <1>5

LEMMA LoopFiles == ASSUME AInv, FInv, Pass \/ Whitespace \/ Start PROVE FInv'
<1>1. fs' = fs /\ g' = g /\ included' = included /\ pc = "apply" BY DEF Pass, Whitespace, Start, Command
<1>2. Stamp' = Stamp /\ \A f : KindsIn(f)' = KindsIn(f) BY <1>1 DEF Stamp, KindsIn, Decls, Readable
<1>3. IsGrammar(g) /\ at \in Nat \ {0} BY <1>1 DEF AInv
<1>4. Len(g) \in Nat /\ DOMAIN g = 1 .. Len(g) BY <1>3, GrammarDomain
<1>5. \A k \in DOMAIN g : k < at /\ g[k].op = "whitespace" => k <= spaces BY <1>1 DEF FInv
<1>6. \A k \in DOMAIN g : k < at' /\ g[k].op = "whitespace" => k <= spaces'
  <2>1. CASE Pass
    <3>1. at' = at + 1 /\ spaces' = spaces /\ g[at].op # "whitespace" BY <2>1 DEF Pass, ToNext
    <3> QED BY <1>3, <1>4, <1>5, <3>1
  <2>2. CASE Whitespace
    <3>1. at' = at + 1 /\ spaces' = at BY <2>2 DEF Whitespace, ToNext
    <3> QED BY <1>3, <1>4, <3>1
  <2>3. CASE Start
    <3>1. at' = at /\ spaces' = spaces BY <2>3 DEF Start
    <3> QED BY <1>5, <3>1
  <2> QED BY <2>1, <2>2, <2>3
<1>7. pc' = "ready" => at' > Len(g')
  <2>1. CASE Pass \/ Whitespace BY <1>1, <2>1 DEF Pass, Whitespace
  <2>2. CASE Start BY <1>1, <1>3, <1>4, <2>2 DEF Start, More
  <2> QED BY <2>1, <2>2
<1>8. Kinds(g)' = UNION {KindsIn(f)' : f \in {Main} \cup included'} BY <1>1, <1>2 DEF FInv, Kinds
<1> QED BY <1>1, <1>2, <1>6, <1>7, <1>8 DEF FInv

\* Rules that begin with some others, but for the text of the include at at, keep the stamp.
LEMMA StampStays ==
  ASSUME AInv, FInv, NEW b, IsGrammar(b), DOMAIN g \subseteq DOMAIN b, g[at].op = "include",
         \A k \in DOMAIN g : b[k].op = g[k].op /\ (k # at => b[k].text = g[k].text)
  PROVE  /\ Stamp \in DOMAIN b /\ b[Stamp].op = "origin" /\ b[Stamp].text = Main[1]
         /\ \A k \in 1 .. Stamp - 1 : b[k].op # "origin"
<1>1. Len(g) \in Nat /\ DOMAIN g = 1 .. Len(g) BY GrammarDomain DEF AInv
<1>2. Stamp \in DOMAIN g /\ g[Stamp].op = "origin" /\ g[Stamp].text = Main[1] /\ \A k \in 1 .. Stamp - 1 : g[k].op # "origin"
  BY DEF FInv
<1>3. Stamp # at BY <1>2
<1>4. \A k \in 1 .. Stamp - 1 : k \in DOMAIN g BY <1>1, <1>2
<1> QED BY <1>2, <1>3, <1>4

LEMMA IncludeFiles == ASSUME AInv, FInv, Include PROVE FInv'
<1> DEFINE f == Target(g[at])
           mine == [g EXCEPT ![at] = WithText(g[at])]
           all == AddRules(mine, Compile(f))
           kept(b) == /\ Stamp \in DOMAIN b /\ b[Stamp].op = "origin" /\ b[Stamp].text = Main[1]
                      /\ \A k \in 1 .. Stamp - 1 : b[k].op # "origin"
           files(s) == UNION {KindsIn(h) : h \in {Main} \cup s}
<1>1. fs' = fs /\ spaces' = spaces /\ pc = "apply" /\ at <= Len(g) /\ g[at].op = "include" BY DEF Include, Command, More
<1>2. IsGrammar(g) /\ at \in Nat \ {0} /\ fs \in Systems BY <1>1 DEF AInv
<1>3. at \in DOMAIN g /\ Len(g) \in Nat /\ DOMAIN g = 1 .. Len(g) BY <1>1, <1>2, GrammarDomain
<1>4. Stamp' = Stamp /\ \A h : KindsIn(h)' = KindsIn(h) BY <1>1 DEF Stamp, KindsIn, Decls, Readable
<1>5. Kinds(g) = files(included) /\ kept(g) /\ \A k \in DOMAIN g : k < at /\ g[k].op = "whitespace" => k <= spaces
  BY <1>1 DEF FInv
<1>6. /\ IsGrammar(mine) /\ DOMAIN mine = DOMAIN g
      /\ \A k \in DOMAIN g : mine[k].op = g[k].op /\ mine[k].name = g[k].name /\ (k # at => mine[k] = g[k])
  <2>1. IsGrammar(mine) /\ Extends(g, mine) BY <1>2, <1>3, IncludeRules
  <2>2. DOMAIN mine = DOMAIN g /\ \A k \in DOMAIN g : k # at => mine[k] = g[k] BY <1>2, <1>3 DEF IsGrammar
  <2> HIDE DEF mine
  <2> QED BY <2>1, <2>2 DEF Extends
<1>7. /\ IsGrammar(mine) => kept(mine)
      /\ Kinds(mine) = files(included)
  <2> HIDE DEF mine
  <2>1. kept(mine) BY <1>1, <1>6, StampStays
  <2>2. Kinds(mine) = Kinds(g) BY <1>6, SameKinds
  <2> QED BY <1>5, <2>1, <2>2
<1>8. ASSUME Readable(f)
      PROVE  /\ IsGrammar(all) /\ DOMAIN g \subseteq DOMAIN all /\ \A k \in DOMAIN g : all[k] = mine[k]
             /\ kept(all) /\ Kinds(all) = files(included \cup {f})
  <2>1. f \in DOMAIN fs /\ fs[f] # Broken BY <1>8 DEF Readable
  <2>2. IsGrammar(Compile(f)) BY <1>2, <2>1, CompiledRules
  <2> HIDE DEF mine, f
  <2>3. IsGrammar(all) /\ DOMAIN g \subseteq DOMAIN all /\ \A k \in DOMAIN g : all[k] = mine[k]
    BY <1>6, <2>2, AddedRules
  <2>4. Kinds(all) = Kinds(mine) \cup Kinds(Compile(f)) BY <1>6, <2>2, AddedKinds
  <2>5. Kinds(Compile(f)) = KindsIn(f) BY <1>2, <1>8, CompiledKinds
  <2> HIDE DEF all
  <2>6. kept(all) BY <1>1, <1>6, <2>3, StampStays
  <2>7. files(included \cup {f}) = files(included) \cup KindsIn(f) OBVIOUS
  <2> QED BY <1>7, <2>3, <2>4, <2>5, <2>6, <2>7
<1>9. ASSUME ~Readable(f) PROVE files(included \cup {f}) = files(included)
  <2> HIDE DEF f
  <2>1. KindsIn(f) = {} BY <1>9 DEF KindsIn, Decls
  <2>2. files(included \cup {f}) = files(included) \cup KindsIn(f) OBVIOUS
  <2> QED BY <2>1, <2>2
<1>10. \/ pc' = "failed" /\ g' = g /\ included' = included
       \/ g' = mine /\ included' = included /\ at' = at + 1 /\ pc' = pc
       \/ ~Readable(f) /\ g' = mine /\ included' = included \cup {f} /\ pc' = "failed"
       \/ Readable(f) /\ g' = all /\ included' = included \cup {f} /\ pc' = "failed"
       \/ Readable(f) /\ g' = Correct(all) /\ included' = included \cup {f} /\ at' = at + 1 /\ pc' = pc
  BY DEF Include, Panics, ToNext
<1> HIDE DEF f, mine, all
<1>11. ASSUME kept(g'), Kinds(g') = files(included'),
              pc' = "failed" \/ (pc' = "apply" /\ \A k \in DOMAIN g' : k < at' /\ g'[k].op = "whitespace" => k <= spaces)
       PROVE  FInv'
  <2>1. Kinds(g)' = UNION {KindsIn(h)' : h \in {Main} \cup included'} BY <1>4, <1>11 DEF Kinds
  <2> QED BY <1>1, <1>4, <1>11, <2>1 DEF FInv
<1>12. \A b : /\ DOMAIN g \subseteq DOMAIN b /\ IsGrammar(b) /\ \A k \in DOMAIN g : b[k].op = g[k].op
           => \A k \in DOMAIN b : k < at + 1 /\ b[k].op = "whitespace" => k <= spaces
  <2> SUFFICES ASSUME NEW b, DOMAIN g \subseteq DOMAIN b, IsGrammar(b), \A k \in DOMAIN g : b[k].op = g[k].op,
                      NEW k \in DOMAIN b, k < at + 1, b[k].op = "whitespace"
               PROVE  k <= spaces
    OBVIOUS
  <2>1. k \in 1 .. Len(b) /\ Len(b) \in Nat BY GrammarDomain
  <2>2. k \in DOMAIN g BY <1>2, <1>3, <2>1
  <2>3. k # at BY <1>1, <2>2
  <2> QED BY <1>2, <1>5, <2>1, <2>2, <2>3
<1>13. CASE pc' = "failed" /\ g' = g /\ included' = included BY <1>5, <1>11, <1>13
<1>14. CASE g' = mine /\ included' = included /\ at' = at + 1 /\ pc' = pc BY <1>1, <1>6, <1>7, <1>11, <1>12, <1>14
<1>15. CASE ~Readable(f) /\ g' = mine /\ included' = included \cup {f} /\ pc' = "failed"
  BY <1>6, <1>7, <1>9, <1>11, <1>15
<1>16. CASE Readable(f) /\ g' = all /\ included' = included \cup {f} /\ pc' = "failed" BY <1>8, <1>11, <1>16
<1>17. CASE Readable(f) /\ g' = Correct(all) /\ included' = included \cup {f} /\ at' = at + 1 /\ pc' = pc
  <2>1. IsGrammar(all) /\ DOMAIN g \subseteq DOMAIN all /\ kept(all) /\ Kinds(all) = files(included \cup {f}) BY <1>8, <1>17
  <2>2. /\ IsGrammar(g') /\ DOMAIN g' = DOMAIN all
        /\ \A k \in DOMAIN all : g'[k].op = all[k].op /\ g'[k].name = all[k].name /\ g'[k].text = all[k].text
    BY <1>17, <2>1, CorrectRules
  <2>3. Kinds(g') = files(included') BY <1>17, <2>1, <2>2, SameKinds
  <2>4. \A k \in 1 .. Stamp - 1 : k \in DOMAIN all BY <2>1, GrammarDomain
  <2>5. kept(g') BY <2>1, <2>2, <2>4
  <2>6. \A k \in DOMAIN g : g'[k].op = g[k].op BY <1>6, <1>8, <1>17, <2>1, <2>2
  <2> QED BY <1>1, <1>11, <1>12, <1>17, <2>1, <2>2, <2>3, <2>5, <2>6
<1> QED BY <1>10, <1>13, <1>14, <1>15, <1>16, <1>17

LEMMA FilesStep == ASSUME AInv, FInv, [AssembleNext]_grammarVars PROVE FInv'
<1>1. ASSUME NEW d \in Dirs, Begin(d) PROVE FInv' BY <1>1, BeginFiles
<1>2. CASE Pass \/ Whitespace \/ Start BY <1>2, LoopFiles
<1>3. CASE Include BY <1>3, IncludeFiles
<1>4. CASE UNCHANGED grammarVars
  <2>1. UNCHANGED <<fs, g, pc, at, spaces, included>> BY <1>4 DEF grammarVars
  <2> QED BY <2>1 DEF FInv, Stamp, Kinds, KindsIn, Decls, Readable
<1> QED BY <1>1, <1>2, <1>3, <1>4 DEF AssembleNext

LEMMA InvHolds == AInv /\ FInv => HoldsItsFiles
<1> SUFFICES ASSUME AInv, FInv PROVE HoldsItsFiles OBVIOUS
<1>1. IsGrammar(g) BY DEF AInv
<1>2. FirstCommand(g, "origin") = Stamp BY <1>1, FirstIs DEF FInv
<1>3. ASSUME pc = "ready", NEW k \in DOMAIN g, g[k].op = "whitespace" PROVE k <= spaces
  <2>1. at > Len(g) /\ at \in Nat BY <1>3 DEF FInv, AInv
  <2>2. k < at BY <1>1, <2>1, GrammarDomain
  <2> QED BY <1>3, <2>2 DEF FInv
<1> QED BY <1>2, <1>3 DEF HoldsItsFiles, FInv

\* At any time, after parses that failed as well, the rules are those of the grammar's own file
\* and of the files it has included, no others and none missing.  When a parse gets to its start
\* rule, the first stamp is that of the grammar's own file, and no whitespace command comes
\* after the one in effect.
THEOREM GrammarHoldsItsFiles == AssembleSpec => []HoldsItsFiles
<1>1. AInv /\ FInv /\ [AssembleNext]_grammarVars => FInv' BY FilesStep
<1>2. AssembleSpec => []FInv BY AssembleInvariance, FilesInit, <1>1, PTL DEF AssembleSpec
<1> QED BY AssembleInvariance, <1>2, InvHolds, PTL

=============================================================================
