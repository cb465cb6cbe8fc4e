------------------------------ MODULE GenFloor ------------------------------
(***************************************************************************)
(* Generators, try/catch/finally and the collector's view of the stacks in *)
(* the C floor (languages/lib/runtime.c).                                  *)
(*                                                                         *)
(* A generator body runs on a pthread of its own.  The globals             *)
(* GC_STACK_BASE, JBP, JB_DEPTH and CUR_GEN describe the stack that runs,  *)
(* and whoever gains control restores them; the resumer's copies are       *)
(* parked in the RES arrays and in gen_resume's locals, the coroutine's in *)
(* its control block.  A stack is named by its owner: a generator or Main. *)
(* The mutex and the condition variable of a control block are abstracted  *)
(* to its turn word.                                                       *)
(***************************************************************************)
EXTENDS Integers, Sequences

CONSTANTS Gen,       \* the generator cells the program may create
          Val,       \* the values a program sends, yields and throws
          Main,      \* main's stack
          Undef,     \* H_UNDEF
          GenExit,   \* GEN_EXIT, the sentinel of a close
          None,      \* an absent value (handle 0)
          MainCap,   \* slots in main's jmp_buf pool (512)
          CoroCap    \* slots in a coroutine's pool (128)

ASSUME NamesAssumption ==
  /\ Main \notin Gen
  /\ None \notin Gen \cup {Main}
  /\ None \notin Val \cup {Undef, GenExit}
  /\ GenExit \notin Val \cup {Undef}

ASSUME CapAssumption == MainCap \in Nat \ {0} /\ CoroCap \in Nat \ {0}

VARIABLES
  proc,        \* "live", or "exited" after exit() or main's return
  \* the generator cells (tag 15): their fields c, d, e and f
  made,        \* the cells that exist
  started,     \* c: there is a control block, hence a thread
  d, e, f,     \* last yielded value; done; sent, returned or thrown value
  \* the control blocks
  turn,        \* cb[0]: 1 = the coroutine runs, 0 = the resumer runs
  state,       \* cb[1]: 0 not started, 1 suspended, 2 done, 3 running
  parked,      \* cb[10]: the depth it parked at
  threw,       \* cb[11]: the body left by a throw
  closing,     \* cb[13]: this resume is a close
  throwin,     \* cb[14]: this resume is a throw-in
  \* the globals of the running side
  GC_STACK_BASE, JBP, JB_DEPTH, CUR_GEN, THROWN,
  RES,         \* the parked resumers, a LIFO of [lo, hi, jbp, jbd]
  \* the C stacks
  pc,          \* what each stack is doing
  frames,      \* the js_try activations on it, innermost last
  call,        \* the locals of the gen_resume it waits in
  ans          \* what the last step handed over to a stack

cellVars == <<made, started, d, e, f>>
cbVars == <<turn, state, parked, threw, closing, throwin>>
sideVars == <<GC_STACK_BASE, JBP, JB_DEPTH, CUR_GEN>>
vars == <<proc, cellVars, cbVars, sideVars, THROWN, RES, pc, frames, call, ans>>

Stack == Gen \cup {Main}
UserVal == Val \cup {Undef}
Value == UserVal \cup {GenExit}

\* A stack runs, raises (js_throw has set THROWN), waits in gen_resume, waits
\* in coro_entry, is parked in js_yield, has returned, or has no thread yet.
Pc == {"run", "raise", "wait", "entry", "parked", "gone", "none"}
Frame == [phase: {"try", "catch", "fin"}, hasCatch: BOOLEAN, hasFin: BOOLEAN,
          pending: Value \cup {None}, mydepth: Nat]
Call == [op: {"next", "return", "throw"}, g: Gen, val: UserVal,
         gen: Gen \cup {None}, jbp: Stack, jbd: Nat]
ASSUME NoneAssumption == None \notin Call
Answer(s, k, v) == [to |-> s, kind |-> k, val |-> v]

\* JB_CAP is swapped together with JBP.
JB_CAP == IF JBP = Main THEN MainCap ELSE CoroCap

Init ==
  /\ proc = "live"
  /\ made = {}
  /\ started = [g \in Gen |-> FALSE]
  /\ d = [g \in Gen |-> Undef]
  /\ e = [g \in Gen |-> FALSE]
  /\ f = [g \in Gen |-> Undef]
  /\ turn = [g \in Gen |-> 0]
  /\ state = [g \in Gen |-> 0]
  /\ parked = [g \in Gen |-> 0]
  /\ threw = [g \in Gen |-> FALSE]
  /\ closing = [g \in Gen |-> FALSE]
  /\ throwin = [g \in Gen |-> FALSE]
  /\ GC_STACK_BASE = Main /\ JBP = Main /\ JB_DEPTH = 1 /\ CUR_GEN = None
  /\ THROWN = Undef
  /\ RES = <<>>
  /\ pc = [s \in Stack |-> IF s = Main THEN "run" ELSE "none"]
  /\ frames = [s \in Stack |-> <<>>]
  /\ call = [s \in Stack |-> None]
  /\ ans = None

Running(s) == proc = "live" /\ pc[s] = "run"
Raising(s) == proc = "live" /\ pc[s] = "raise"

-----------------------------------------------------------------------------
(* try, catch, finally and throw.                                          *)

\* js_throw(v), up to its longjmp.
Throw(s, v) == THROWN' = v /\ pc' = [pc EXCEPT ![s] = "raise"]

\* js_try runs its try clause under a barrier of its own.
TryEnter(s, hasCatch, hasFin) ==
  /\ Running(s) /\ (hasCatch \/ hasFin)
  /\ JB_DEPTH < JB_CAP
  /\ frames' = [frames EXCEPT ![s] =
                  Append(@, [phase |-> "try", hasCatch |-> hasCatch, hasFin |-> hasFin,
                             pending |-> None, mydepth |-> JB_DEPTH])]
  /\ JB_DEPTH' = JB_DEPTH + 1
  /\ ans' = None
  /\ UNCHANGED <<proc, cellVars, cbVars, GC_STACK_BASE, JBP, CUR_GEN, THROWN, RES, pc, call>>

\* jb_at: "try nested too deeply" ends the process.
TryTooDeep(s) ==
  /\ Running(s) /\ JB_DEPTH >= JB_CAP
  /\ proc' = "exited" /\ ans' = None
  /\ UNCHANGED <<cellVars, cbVars, sideVars, THROWN, RES, pc, frames, call>>

Innermost(s) == frames[s][Len(frames[s])]
Outer(s) == SubSeq(frames[s], 1, Len(frames[s]) - 1)

\* The try or the catch clause returns: its finally clause runs, if it has one.
ClauseDone(s) ==
  /\ Running(s) /\ frames[s] # <<>> /\ Innermost(s).phase # "fin"
  /\ LET fr == Innermost(s) IN
       IF fr.hasFin
       THEN /\ frames' = [frames EXCEPT ![s] = Append(Outer(s), [fr EXCEPT !.phase = "fin"])]
            /\ JB_DEPTH' = fr.mydepth + 1
       ELSE frames' = [frames EXCEPT ![s] = Outer(s)] /\ JB_DEPTH' = fr.mydepth
  /\ ans' = None
  /\ UNCHANGED <<proc, cellVars, cbVars, GC_STACK_BASE, JBP, CUR_GEN, THROWN, RES, pc, call>>

\* Mutant: no flag of its own says that an exception is pending.
PendsAlways(fr, ctl) == ~ctl

\* An exception was pending and the finally clause did not swallow it.
Pends(fr, ctl) == fr.pending # None /\ ~ctl

\* The finally clause returns: a pending exception goes on, unless the clause
\* left by a return, break or continue of its own (ctl), which swallows it.
FinallyDone(s, ctl) ==
  /\ Running(s) /\ frames[s] # <<>> /\ Innermost(s).phase = "fin"
  /\ ctl => Innermost(s).pending # None
  /\ JB_DEPTH' = Innermost(s).mydepth
  /\ frames' = [frames EXCEPT ![s] = Outer(s)]
  /\ IF Pends(Innermost(s), ctl)
     THEN Throw(s, Innermost(s).pending)
     ELSE UNCHANGED <<THROWN, pc>>
  /\ ans' = None
  /\ UNCHANGED <<proc, cellVars, cbVars, GC_STACK_BASE, JBP, CUR_GEN, RES, call>>

\* The program throws.
ThrowUser(s, v) ==
  /\ Running(s)
  /\ Throw(s, v) /\ ans' = None
  /\ UNCHANGED <<proc, cellVars, cbVars, sideVars, RES, frames, call>>

\* js_throw's longjmp goes to slot JB_DEPTH - 1 of the pool JBP.  Slot 0 of a
\* pool is the barrier of main or of coro_entry, slot k that of the k-th
\* activation of js_try on the stack the pool belongs to.
Slot == JB_DEPTH - 1
Landing == frames[JBP][Slot]
Below == SubSeq(frames[JBP], 1, Slot - 1)

\* Mutant: the sentinel of a close is an exception like any other.
CatchTakesAll == Landing.phase = "try" /\ Landing.hasCatch

\* A catch clause does not see the sentinel of a close.
CatchTakes == Landing.phase = "try" /\ Landing.hasCatch /\ THROWN # GenExit
FinallyTakes == ~CatchTakes /\ Landing.phase # "fin" /\ Landing.hasFin

LandInCatch(s) ==
  /\ Raising(s) /\ Slot > 0 /\ CatchTakes
  /\ frames' = [frames EXCEPT ![JBP] = Append(Below, [Landing EXCEPT !.phase = "catch"])]
  /\ JB_DEPTH' = Landing.mydepth + 1
  /\ pc' = [pc EXCEPT ![s] = "run"]
  /\ ans' = None
  /\ UNCHANGED <<proc, cellVars, cbVars, GC_STACK_BASE, JBP, CUR_GEN, THROWN, RES, call>>

LandInFinally(s) ==
  /\ Raising(s) /\ Slot > 0 /\ FinallyTakes
  /\ frames' = [frames EXCEPT ![JBP] =
                  Append(Below, [Landing EXCEPT !.phase = "fin", !.pending = THROWN])]
  /\ JB_DEPTH' = Landing.mydepth + 1
  /\ pc' = [pc EXCEPT ![s] = "run"]
  /\ ans' = None
  /\ UNCHANGED <<proc, cellVars, cbVars, GC_STACK_BASE, JBP, CUR_GEN, THROWN, RES, call>>

\* Nothing takes it here: js_try throws it again, from its own depth.
LandAndRethrow(s) ==
  /\ Raising(s) /\ Slot > 0 /\ ~CatchTakes /\ ~FinallyTakes
  /\ frames' = [frames EXCEPT ![JBP] = Below]
  /\ JB_DEPTH' = Landing.mydepth
  /\ ans' = None
  /\ UNCHANGED <<proc, cellVars, cbVars, GC_STACK_BASE, JBP, CUR_GEN, THROWN, RES, pc, call>>

\* main's own barrier reports an uncaught exception and exits.
Uncaught(s) ==
  /\ Raising(s) /\ Slot = 0 /\ JBP = Main
  /\ proc' = "exited" /\ ans' = None
  /\ UNCHANGED <<cellVars, cbVars, sideVars, THROWN, RES, pc, frames, call>>

MainReturn ==
  /\ Running(Main) /\ frames[Main] = <<>>
  /\ proc' = "exited" /\ ans' = None
  /\ UNCHANGED <<cellVars, cbVars, sideVars, THROWN, RES, pc, frames, call>>

-----------------------------------------------------------------------------
(* The coroutine's side.                                                   *)

\* gen_create; a cell that does not exist yet already has the fields it sets.
GenCreate(s, g) ==
  /\ Running(s) /\ g \notin made
  /\ made' = made \cup {g} /\ ans' = None
  /\ UNCHANGED <<proc, started, d, e, f, cbVars, sideVars, THROWN, RES, pc, frames, call>>

\* Mutants: a side that forgets which generator runs, that does not hand back
\* to a resumer that is itself a body, or that is not seen to be parked.
TakeOverNoGen(g, depth) ==
  /\ GC_STACK_BASE' = g /\ JBP' = g /\ JB_DEPTH' = depth /\ UNCHANGED CUR_GEN
HandBackToMain(g) == turn' = IF Len(RES) > 1 THEN turn ELSE [turn EXCEPT ![g] = 0]
ParkUnseen(g) == parked' = [parked EXCEPT ![g] = JB_DEPTH] /\ UNCHANGED state

\* The end of the coroutine's wait: while (cb[0] == 0) pthread_cond_wait.
Woken(g) == turn[g] = 1

\* The running side takes over the globals that describe its stack.
TakeOver(g, depth) ==
  /\ GC_STACK_BASE' = g /\ JBP' = g /\ JB_DEPTH' = depth /\ CUR_GEN' = g

HandBack(g) == turn' = [turn EXCEPT ![g] = 0]
Park(g) == parked' = [parked EXCEPT ![g] = JB_DEPTH] /\ state' = [state EXCEPT ![g] = 1]

\* coro_entry up to the call of the body, its own barrier installed.
CoroBegin(g) ==
  /\ proc = "live" /\ pc[g] = "entry" /\ Woken(g)
  /\ TakeOver(g, 1)
  /\ state' = [state EXCEPT ![g] = 3]
  /\ pc' = [pc EXCEPT ![g] = "run"]
  /\ ans' = None
  /\ UNCHANGED <<proc, cellVars, turn, parked, threw, closing, throwin, THROWN, RES, frames, call>>

\* The end of coro_entry: f is the returned or the thrown value.
CoroEnd(s, v, thrown) ==
  /\ f' = [f EXCEPT ![CUR_GEN] = v]
  /\ threw' = [threw EXCEPT ![CUR_GEN] = thrown]
  /\ JB_DEPTH' = 0
  /\ e' = [e EXCEPT ![CUR_GEN] = TRUE]
  /\ d' = [d EXCEPT ![CUR_GEN] = Undef]
  /\ state' = [state EXCEPT ![CUR_GEN] = 2]
  /\ HandBack(CUR_GEN)
  /\ pc' = [pc EXCEPT ![s] = "gone"]
  /\ frames' = [frames EXCEPT ![s] = <<>>]
  /\ ans' = None
  /\ UNCHANGED <<proc, made, started, parked, closing, throwin,
                 GC_STACK_BASE, JBP, CUR_GEN, THROWN, RES, call>>

CoroReturn(s, v) == Running(s) /\ s \in Gen /\ frames[s] = <<>> /\ CoroEnd(s, v, FALSE)

CoroThrow(s) == Raising(s) /\ s \in Gen /\ Slot = 0 /\ JBP = s /\ CoroEnd(s, THROWN, TRUE)

\* js_yield, up to its wait.
Yield(s, v) ==
  /\ Running(s) /\ CUR_GEN # None
  /\ d' = [d EXCEPT ![CUR_GEN] = v]
  /\ Park(CUR_GEN)
  /\ HandBack(CUR_GEN)
  /\ pc' = [pc EXCEPT ![s] = "parked"]
  /\ ans' = None
  /\ UNCHANGED <<proc, made, started, e, f, threw, closing, throwin, sideVars,
                 THROWN, RES, frames, call>>

\* "yield outside of a generator" ends the process.
YieldOutside(s) ==
  /\ Running(s) /\ CUR_GEN = None
  /\ proc' = "exited" /\ ans' = None
  /\ UNCHANGED <<cellVars, cbVars, sideVars, THROWN, RES, pc, frames, call>>

\* Mutant: the flag of a close or a throw-in stays up.
KeepFlag(flag, g) == flag
ClearFlag(flag, g) == [flag EXCEPT ![g] = FALSE]

\* js_yield after its wait: it answers the sent value, or raises the sentinel
\* of a close, or the value thrown in.
YieldWake(g) ==
  /\ proc = "live" /\ pc[g] = "parked" /\ Woken(g)
  /\ state' = [state EXCEPT ![g] = 3]
  /\ TakeOver(g, parked[g])
  /\ \/ /\ closing[g]
        /\ closing' = ClearFlag(closing, g)
        /\ Throw(g, GenExit) /\ ans' = Answer(g, "raise", GenExit)
        /\ UNCHANGED throwin
     \/ /\ ~closing[g] /\ throwin[g]
        /\ throwin' = ClearFlag(throwin, g)
        /\ Throw(g, f[g]) /\ ans' = Answer(g, "raise", f[g])
        /\ UNCHANGED closing
     \/ /\ ~closing[g] /\ ~throwin[g]
        /\ pc' = [pc EXCEPT ![g] = "run"]
        /\ ans' = Answer(g, "sent", f[g])
        /\ UNCHANGED <<closing, throwin, THROWN>>
  /\ UNCHANGED <<proc, cellVars, turn, parked, threw, RES, frames, call>>

-----------------------------------------------------------------------------
(* The resumer's side.                                                     *)

\* gen_resume, up to its wait: the first one starts the thread; the resumer's
\* stack, registers and barriers are parked in RES, the rest in locals.
GenResume(s, g, op, sent, val) ==
  /\ started' = [started EXCEPT ![g] = TRUE]
  /\ f' = [f EXCEPT ![g] = sent]
  /\ RES' = Append(RES, [lo |-> s, hi |-> GC_STACK_BASE, jbp |-> JBP, jbd |-> JB_DEPTH])
  /\ call' = [call EXCEPT ![s] = [op |-> op, g |-> g, val |-> val,
                                  gen |-> CUR_GEN, jbp |-> JBP, jbd |-> JB_DEPTH]]
  /\ turn' = [turn EXCEPT ![g] = 1]
  /\ pc' = [pc EXCEPT ![s] = "wait", ![g] = IF started[g] THEN @ ELSE "entry"]
  /\ ans' = None
  /\ UNCHANGED <<proc, made, d, e, state, parked, threw, sideVars, THROWN, frames>>

\* gen_next of a generator that has not ended.
NextResume(s, g, v) ==
  /\ Running(s) /\ g \in made /\ ~e[g]
  /\ GenResume(s, g, "next", v, v)
  /\ UNCHANGED <<closing, throwin>>

\* gen_return (gen_close) and gen_throw of one that has started.
ReturnResume(s, g, v) ==
  /\ Running(s) /\ g \in made /\ ~e[g] /\ started[g]
  /\ closing' = [closing EXCEPT ![g] = TRUE]
  /\ GenResume(s, g, "return", Undef, v)
  /\ UNCHANGED throwin

ThrowResume(s, g, v) ==
  /\ Running(s) /\ g \in made /\ ~e[g] /\ started[g]
  /\ throwin' = [throwin EXCEPT ![g] = TRUE]
  /\ GenResume(s, g, "throw", v, v)
  /\ UNCHANGED closing

\* The three operations where no body runs.
NextDone(s, g) ==
  /\ Running(s) /\ g \in made /\ e[g]
  /\ ans' = Answer(s, "done", Undef)
  /\ UNCHANGED <<proc, cellVars, cbVars, sideVars, THROWN, RES, pc, frames, call>>

ReturnAtOnce(s, g, v) ==
  /\ Running(s) /\ g \in made /\ (e[g] \/ ~started[g])
  /\ e' = [e EXCEPT ![g] = TRUE]
  /\ d' = [d EXCEPT ![g] = IF e[g] THEN @ ELSE Undef]
  /\ f' = [f EXCEPT ![g] = v]
  /\ ans' = Answer(s, "done", v)
  /\ UNCHANGED <<proc, made, started, cbVars, sideVars, THROWN, RES, pc, frames, call>>

ThrowAtOnce(s, g, v) ==
  /\ Running(s) /\ g \in made /\ (e[g] \/ ~started[g])
  /\ e' = [e EXCEPT ![g] = TRUE]
  /\ d' = [d EXCEPT ![g] = IF e[g] THEN @ ELSE Undef]
  /\ f' = [f EXCEPT ![g] = IF e[g] THEN @ ELSE Undef]
  /\ Throw(s, v)
  /\ ans' = Answer(s, "raise", v)
  /\ UNCHANGED <<proc, made, started, cbVars, sideVars, RES, frames, call>>

Resumer == RES[Len(RES)]

\* Mutant: the sentinel is raised again in the resumer.
CloseCompletesSilently(s) == call[s].op = "return" /\ ~threw[call[s].g]

\* What gen_next, gen_return or gen_throw makes of the generator's return.
\* An exception of the body is raised here, on the resumer's stack; a close
\* that unwound the body is the close completing.
CloseCompletes(s) ==
  call[s].op = "return" /\ (threw[call[s].g] => f[call[s].g] = GenExit)

\* Mutant: a body that left by a throw ends like one that returned.
OutcomeForgets(s) ==
  LET g == call[s].g IN
  IF CloseCompletes(s) THEN Answer(s, "done", call[s].val)
  ELSE IF e[g] THEN Answer(s, "done", f[g]) ELSE Answer(s, "value", d[g])

Outcome(s) ==
  LET g == call[s].g IN
  CASE CloseCompletes(s)             -> Answer(s, "done", call[s].val)
    [] threw[g] /\ ~CloseCompletes(s) -> Answer(s, "raise", f[g])
    [] OTHER -> IF e[g] THEN Answer(s, "done", f[g]) ELSE Answer(s, "value", d[g])

ResumerWake(s) ==
  /\ proc = "live" /\ pc[s] = "wait" /\ turn[call[s].g] = 0
  /\ LET g == call[s].g IN
       /\ GC_STACK_BASE' = Resumer.hi
       /\ RES' = SubSeq(RES, 1, Len(RES) - 1)
       /\ JBP' = call[s].jbp /\ JB_DEPTH' = call[s].jbd /\ CUR_GEN' = call[s].gen
       /\ threw' = [threw EXCEPT ![g] = FALSE]
       /\ IF CloseCompletes(s)
          THEN /\ e' = [e EXCEPT ![g] = TRUE]
               /\ d' = [d EXCEPT ![g] = Undef]
               /\ f' = [f EXCEPT ![g] = call[s].val]
          ELSE UNCHANGED <<d, e, f>>
       /\ IF Outcome(s).kind = "raise"
          THEN Throw(s, Outcome(s).val)
          ELSE pc' = [pc EXCEPT ![s] = "run"] /\ UNCHANGED THROWN
  /\ ans' = Outcome(s)
  /\ call' = [call EXCEPT ![s] = None]
  /\ UNCHANGED <<proc, made, started, turn, state, parked, closing, throwin, frames>>

-----------------------------------------------------------------------------
TryStep(s) ==
  \/ \E hc, hf \in BOOLEAN : TryEnter(s, hc, hf)
  \/ TryTooDeep(s)
  \/ ClauseDone(s)
  \/ \E ctl \in BOOLEAN : FinallyDone(s, ctl)
  \/ \E v \in UserVal : ThrowUser(s, v)
  \/ LandInCatch(s) \/ LandInFinally(s) \/ LandAndRethrow(s) \/ Uncaught(s)

OwnStep(s) ==
  \/ \E g \in Gen : GenCreate(s, g) \/ NextDone(s, g)
  \/ \E v \in UserVal : CoroReturn(s, v) \/ Yield(s, v)
  \/ CoroThrow(s)
  \/ YieldOutside(s)

ResumeStep(s) ==
  \E g \in Gen, v \in UserVal :
    \/ NextResume(s, g, v) \/ ReturnResume(s, g, v) \/ ThrowResume(s, g, v)
    \/ ReturnAtOnce(s, g, v) \/ ThrowAtOnce(s, g, v)

Wake ==
  \/ \E g \in Gen : CoroBegin(g) \/ YieldWake(g)
  \/ \E s \in Stack : ResumerWake(s)

Next ==
  \/ \E s \in Stack : TryStep(s) \/ OwnStep(s) \/ ResumeStep(s)
  \/ MainReturn
  \/ Wake

Spec == Init /\ [][Next]_vars

\* The end of a throw: the runtime's own steps, with no user code among them.
Unwind ==
  \E s \in Stack :
    LandInCatch(s) \/ LandInFinally(s) \/ LandAndRethrow(s) \/ Uncaught(s) \/ CoroThrow(s)

\* A thread that has been signalled is scheduled, and one that raises goes on.
FairSpec == Spec /\ WF_vars(Wake) /\ WF_vars(Unwind)
=============================================================================
