---------------------------- MODULE GenFloorProps ----------------------------
(***************************************************************************)
(* What must hold of the C floor's generators, and the protocol they       *)
(* implement.                                                              *)
(***************************************************************************)
EXTENDS GenFloor, TLC

TypeOK ==
  /\ proc \in {"live", "exited"}
  /\ made \in SUBSET Gen
  /\ started \in [Gen -> BOOLEAN]
  /\ d \in [Gen -> Value] /\ e \in [Gen -> BOOLEAN] /\ f \in [Gen -> Value]
  /\ turn \in [Gen -> {0, 1}]
  /\ state \in [Gen -> 0 .. 3]
  /\ parked \in [Gen -> Nat]
  /\ threw \in [Gen -> BOOLEAN]
  /\ closing \in [Gen -> BOOLEAN]
  /\ throwin \in [Gen -> BOOLEAN]
  /\ GC_STACK_BASE \in Stack /\ JBP \in Stack
  /\ JB_DEPTH \in Nat
  /\ CUR_GEN \in Gen \cup {None}
  /\ THROWN \in Value
  /\ RES \in Seq([lo: Stack, hi: Stack, jbp: Stack, jbd: Nat])
  /\ pc \in [Stack -> Pc]
  /\ frames \in [Stack -> Seq(Frame)]
  /\ call \in [Stack -> Call \cup {None}]
  /\ ans \in [to: Stack, kind: {"sent", "value", "done", "raise"}, val: Value] \cup {None}

-----------------------------------------------------------------------------
(* Who may move.                                                           *)

Active(s) == pc[s] \in {"run", "raise"}
CoroReady(s) == s \in Gen /\ pc[s] \in {"entry", "parked"} /\ turn[s] = 1
ResumerReady(s) == pc[s] = "wait" /\ turn[call[s].g] = 0
Sides == {s \in Stack : Active(s) \/ CoroReady(s) \/ ResumerReady(s)}

\* The two sides of a resume strictly alternate: the runtime's state needs no
\* lock because never two stacks can move (runtime.c, "coroutines").
AtMostOneSide == \A s, t \in Sides : s = t

\* The chain of waits comes back to itself: stacks that all wait, each for one
\* of them.
WaitsForItself ==
  \E S \in SUBSET Stack : S # {} /\ \A s \in S : pc[s] = "wait" /\ call[s].g \in S

\* The handshake never loses the control, however deep the resumes are nested:
\* as long as no generator is resumed by its own body or by one it drives,
\* somebody can move.
HangsOnlyOnReentry == WaitsForItself \/ Sides # {}

\* The two sides of a resume alternate, whatever drives whatever: never two
\* move, and the control is with one of them (runtime.c, "coroutines").
SidesAlternate == AtMostOneSide /\ HangsOnlyOnReentry

-----------------------------------------------------------------------------
(* The stacks and the collector.                                           *)

Barriers(s) == Len(frames[s]) + 1

\* Code only ever runs with the globals of its own stack: a collection scans
\* up to the right base, js_throw longjmps into a frame of the running stack
\* (its innermost barrier), and js_yield suspends the running generator.
OwnsGlobals ==
  \A s \in Stack : Active(s) =>
    /\ GC_STACK_BASE = s /\ JBP = s
    /\ JB_DEPTH = Barriers(s)
    /\ CUR_GEN = IF s = Main THEN None ELSE s

\* gc_roots and gc_collect: the ranges a collection run by s scans.
ScannedBy(s) ==
  {s} \cup {RES[i].lo : i \in DOMAIN RES} \cup {g \in Gen : started[g] /\ state[g] = 1}
LiveStacks == {s \in Stack : pc[s] \in {"run", "raise", "wait", "parked"}}

\* A collection sees every stack that holds frames, and none that does not
\* exist (a finished thread's stack is unmapped); a resumer's range lies
\* within one stack.
RootsAreTheLiveStacks ==
  \A s \in Stack : Active(s) =>
    /\ ScannedBy(s) = LiveStacks
    /\ \A i \in DOMAIN RES : RES[i].lo = RES[i].hi

\* The jmp_buf pools a collection scans, and how deep: together they are every
\* barrier that a longjmp may still restore registers from.
RootsCoverBarriers ==
  \A s \in Stack : Active(s) =>
    \A t \in LiveStacks :
      \/ t = s /\ t = JBP /\ JB_DEPTH >= Barriers(t)
      \/ t \in Gen /\ state[t] = 1 /\ parked[t] >= Barriers(t)
      \/ \E i \in DOMAIN RES : RES[i].jbp = t /\ RES[i].jbd >= Barriers(t)

\* What a collection finds on the parked sides: the stacks and the registers
\* that longjmp restores (gc_roots, gc_collect).
RootsAreSound == RootsAreTheLiveStacks /\ RootsCoverBarriers

-----------------------------------------------------------------------------
(* Closes and throws.                                                      *)

\* A close or a throw-in is consumed by the yield it was meant for: no flag
\* outlives the resume that set it.
FlagsAreForOneResume ==
  \A g \in Gen : closing[g] \/ throwin[g] =>
    \E s \in Stack : /\ pc[s] = "wait" /\ call[s].g = g /\ turn[g] = 1
                     /\ closing[g] = (call[s].op = "return")
                     /\ pc[g] # "run"

\* The stack the innermost resume runs, or has run.
Target == IF RES = <<>> THEN Main ELSE call[Resumer.lo].g
HandedBack == RES # <<>> /\ turn[Target] = 0
HandedOver == CoroReady(Target)

LeavesFromFinally ==
  \A s \in Stack :
    LET n == Len(frames[s]) IN
    Len(frames'[s]) < n /\ frames[s][n].hasFin => frames[s][n].phase = "fin"

CatchesNoClose ==
  \A s \in Stack : \A i \in DOMAIN frames[s] \cap DOMAIN frames'[s] :
    frames[s][i].phase = "try" /\ frames'[s][i].phase = "catch" => THROWN # GenExit

\* Whatever leaves a try statement that has a finally clause, an exception,
\* a close or a normal end, leaves it from the finally clause (js_try).
FinallyNeverSkipped == [][LeavesFromFinally]_vars

\* A catch clause never runs on account of a close (js_try, the test of GEN_EXIT).
CatchNeverSeesClose == [][CatchesNoClose]_vars

\* An exception that is not a close's end: the body left by it, and its resumer
\* has not heard of it yet.
LeftBy(g, op) == threw[g] /\ ~(op = "return" /\ f[g] = GenExit)

\* The exception v is on its way, on whatever stack: raised on one, handed
\* back by a body it ended, or handed in by a close or a throw-in.
OnItsWay(v) ==
  /\ proc = "live"
  /\ \/ \E s \in Stack : Raising(s) /\ v = THROWN
     \/ HandedBack /\ LeftBy(Target, call[Resumer.lo].op) /\ v = f[Target]
     \/ /\ HandedOver /\ pc[Target] = "parked"
        /\ \/ closing[Target] /\ v = GenExit
           \/ ~closing[Target] /\ throwin[Target] /\ v = f[Target]

\* A clause takes the exception v: a catch clause begins, or a finally clause
\* that holds v.
TakenByClause(v) ==
  \E s \in Stack : \E i \in DOMAIN frames[s] \cap DOMAIN frames'[s] :
    /\ frames[s][i].phase # frames'[s][i].phase
    /\ \/ frames'[s][i].phase = "catch" /\ v # GenExit
       \/ frames'[s][i].phase = "fin" /\ frames'[s][i].pending = v
    /\ Running(s)'

\* The sentinel of a close has unwound the body it was sent into.
TakenByClose(v) ==
  /\ v = GenExit /\ HandedBack' /\ threw'[Target'] /\ f'[Target'] = GenExit
  /\ call'[Resumer'.lo].op = "return"

KeepsException ==
  \A v \in Value :
    OnItsWay(v) => OnItsWay(v)' \/ TakenByClause(v) \/ TakenByClose(v) \/ proc' = "exited"

\* No step loses an exception or makes another one of it: as long as it is on
\* its way it stays the same, through barriers, throws into a body and ends of
\* a body, until a clause takes it, the close it belongs to has unwound its
\* body, or it ends the process (js_throw, js_try, coro_entry, js_yield,
\* gen_resume, main).
ExceptionsAreKept == [][KeepsException]_vars

\* Each clause of a try statement runs when it should and only then, and what
\* is thrown reaches one.
ClausesAreTaken == FinallyNeverSkipped /\ CatchNeverSeesClose /\ ExceptionsAreKept

\* An exception is never lost in a handover: it stays on its way, and its way
\* comes to an end, at a clause on whatever stack it has to travel to, at the
\* close it belongs to, or at the end of the process.
ExceptionsArrive == ExceptionsAreKept /\ \A v \in Value : OnItsWay(v) ~> ~OnItsWay(v)

\* A close of a body without finally clauses ends it, whatever catch clauses
\* and rethrows lie between (gen_close, js_yield, js_try).
ClosesEnd ==
  \A g \in Gen :
    /\ closing[g] /\ pc[g] = "parked"
    /\ \A i \in DOMAIN frames[g] : frames[g][i].hasFin => frames[g][i].phase = "fin"
    ~> e[g]

-----------------------------------------------------------------------------
(* The protocol.                                                           *)

Parked == [i \in DOMAIN RES |-> RES[i].lo]

StatusOf(g) ==
  CASE g \notin made -> "none"
    [] g \in made /\ (e[g] \/ (HandedBack /\ g = Target /\ call[Resumer.lo].op = "return")) -> "done"
    [] OTHER -> IF ~started[g] THEN "fresh"
                ELSE IF turn[g] = 1 THEN "running" ELSE "suspended"

CallOf(s) ==
  IF call[s] = None \/ (HandedBack /\ s = Resumer.lo) THEN None
  ELSE [op |-> call[s].op, g |-> call[s].g, val |-> call[s].val]

AnsOf ==
  CASE HandedBack -> Outcome(Resumer.lo)
    [] HandedOver -> IF pc[Target] = "entry" THEN None
                     ELSE IF closing[Target] THEN Answer(Target, "raise", GenExit)
                     ELSE Answer(Target, IF throwin[Target] THEN "raise" ELSE "sent", f[Target])
    [] OTHER -> ans

\* The floor implements the generator protocol: in particular the slots that
\* sent, returned and thrown values share are never read for one another, the
\* sentinel of a close never reaches the program, and an exception a body does
\* not catch reaches its resumer, once.
Protocol == INSTANCE GenProtocol WITH
  status <- [g \in Gen |-> StatusOf(g)],
  chain <- IF HandedBack \/ pc[Target] = "wait" THEN Parked ELSE Append(Parked, Target),
  call <- [s \in Stack |-> CallOf(s)],
  ans <- AnsOf,
  over <- proc = "exited"

ImplementsProtocol == Protocol!Spec
-----------------------------------------------------------------------------
\* Nothing tells one generator from another.
Symmetry == Permutations(Gen)
=============================================================================
