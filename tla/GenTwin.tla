------------------------------- MODULE GenTwin -------------------------------
(***************************************************************************)
(* Generators and try statements on the Go twin of the runtime             *)
(* (abnf/jsrt.go, "Generators", js_yield and js_try).                      *)
(*                                                                         *)
(* A body runs on a goroutine of its own.  Resumer and body hand over on   *)
(* two unbuffered channels, so each handover is a meeting of a sender and  *)
(* a receiver; nothing else keeps the goroutines apart.  What belongs to   *)
(* the running one, thisStack (newTargetStack moves with it) and curGen,   *)
(* is swapped by the resumer before and after.                             *)
(*                                                                         *)
(* What a function does is open: in each step the running goroutine may    *)
(* make any call, enter any try statement and drive any generator.         *)
(***************************************************************************)
EXTENDS Naturals, Sequences, SequencesExt

CONSTANTS Gen, Val, Main, Undef, GenExit, None,
          MaxFrames  \* bound: nested calls and try statements of one goroutine

ASSUME FramesAssumption == MaxFrames \in Nat \ {0}

VARIABLES
  gens,      \* the fields of each jsGenerator
  pc,        \* where each goroutine is
  wait,      \* what it does there: the operation and the locals of step()
  frames,    \* its compiled calls and its js_try, the innermost last
  exc,       \* the Go panic it unwinds with, or None
  thisStack, curGen,
  said,      \* history: what the last step handed to a goroutine
  over       \* the program has ended

vars == <<gens, pc, wait, frames, exc, thisStack, curGen, said, over>>

Stack == Gen \cup {Main}
UserVal == Val \cup {Undef}
Exc == UserVal \cup {GenExit}

ASSUME NamesAssumption == Main \notin Gen /\ None \notin Gen \cup Exc

NewGen == [made |-> FALSE, started |-> FALSE, done |-> FALSE, saved |-> <<>>]

\* An entry of thisStack names the call that pushed it.
Mine(s, i) == [of |-> s, at |-> i]

CallFrame == [kind |-> "call", phase |-> "body", depth |-> 0, catch |-> FALSE,
              fin |-> FALSE, pend |-> None]
TryFrame(c, f) == [kind |-> "try", phase |-> "try", depth |-> Len(thisStack),
                   catch |-> c, fin |-> f, pend |-> None]

Meeting(op, g, v, this, prev) == [op |-> op, g |-> g, v |-> v, this |-> this, prev |-> prev]
NoMeeting == Meeting(None, None, Undef, <<>>, None)

Said(s, k, v) == [to |-> s, kind |-> k, val |-> v]

Init ==
  /\ gens = [g \in Gen |-> NewGen]
  /\ pc = [s \in Stack |-> IF s = Main THEN "run" ELSE "none"]
  /\ wait = [s \in Stack |-> NoMeeting]
  /\ frames = [s \in Stack |-> IF s = Main THEN <<CallFrame>> ELSE <<>>]
  /\ exc = [s \in Stack |-> None]
  /\ thisStack = <<Mine(Main, 1)>> /\ curGen = None
  /\ said = None /\ over = FALSE

Runs(s) == pc[s] = "run" /\ exc[s] = None /\ ~over
Depth(s) == Len(frames[s])
Top(s) == Last(frames[s])

generators == <<gens, pc, wait, curGen>>
Silent == said' = None

-----------------------------------------------------------------------------
(* Calls, throws and try statements on one goroutine.                      *)

\* callInner pushes the receiver and pops it again; a panic skips the pop.
Push(s, f) ==
  /\ Depth(s) < MaxFrames
  /\ frames' = [frames EXCEPT ![s] = Append(@, f)]
  /\ thisStack' = Append(thisStack, Mine(s, Depth(s) + 1))

Enter(s) ==
  /\ Runs(s) /\ Silent
  /\ \/ Push(s, CallFrame)
     \/ \E c, f \in BOOLEAN : Push(s, TryFrame(c, f))
  /\ UNCHANGED <<exc, over>> /\ UNCHANGED generators

Leave(s) ==
  /\ Runs(s) /\ Silent /\ Depth(s) > 1 /\ Top(s).kind = "call"
  /\ frames' = [frames EXCEPT ![s] = Front(@)]
  /\ thisStack' = Front(thisStack)
  /\ UNCHANGED <<exc, over>> /\ UNCHANGED generators

Throw(s, v) ==
  /\ Runs(s) /\ Silent
  /\ exc' = [exc EXCEPT ![s] = v]
  /\ UNCHANGED <<frames, thisStack, over>> /\ UNCHANGED generators

\* Mutant: what a panic left on thisStack stays there.
ClauseUncut(s, phase, depth, pend) ==
  /\ frames' = [frames EXCEPT ![s] =
       Append(Front(@), [Top(s) EXCEPT !.phase = phase, !.depth = depth, !.pend = pend])]
  /\ thisStack' = Append(thisStack, Mine(s, Depth(s)))
  /\ exc' = [exc EXCEPT ![s] = None]

\* js_try starts the next clause at the given depth of thisStack ...
Clause(s, phase, depth, pend) ==
  /\ frames' = [frames EXCEPT ![s] =
       Append(Front(@), [Top(s) EXCEPT !.phase = phase, !.depth = depth, !.pend = pend])]
  /\ thisStack' = Append(SubSeq(thisStack, 1, depth), Mine(s, Depth(s)))
  /\ exc' = [exc EXCEPT ![s] = None]

\* ... or ends, and raises what is still pending.
TryEnds(s, depth, pend) ==
  /\ frames' = [frames EXCEPT ![s] = Front(@)]
  /\ thisStack' = SubSeq(thisStack, 1, depth)
  /\ exc' = [exc EXCEPT ![s] = pend]

\* Behind its clauses: the finally clause, if it has not run.
AfterClause(s, depth, pend) ==
  IF Top(s).fin /\ Top(s).phase # "finally" THEN Clause(s, "finally", depth, pend)
  ELSE TryEnds(s, depth, pend)

\* A clause is done; one of finally may override what is pending.
ClauseDone(s) ==
  /\ Runs(s) /\ Silent /\ Top(s).kind = "try"
  /\ \/ AfterClause(s, Len(thisStack) - 1, Top(s).pend)
     \/ Top(s).pend # None /\ AfterClause(s, Len(thisStack) - 1, None)
  /\ UNCHANGED over /\ UNCHANGED generators

\* A panic leaves the innermost frame.  js_try recovers it and cuts thisStack
\* back; only its catch clause asks what kind of panic it is.
Unwind(s) ==
  /\ pc[s] = "run" /\ exc[s] # None /\ ~over /\ Silent
  /\ frames[s] # <<>>
  /\ IF Top(s).kind = "call"
     THEN frames' = [frames EXCEPT ![s] = Front(@)] /\ UNCHANGED <<thisStack, exc>>
     ELSE IF Top(s).phase = "try" /\ Top(s).catch /\ exc[s] # GenExit
          THEN Clause(s, "catch", Top(s).depth, None)
          ELSE AfterClause(s, Top(s).depth, exc[s])
  /\ UNCHANGED over /\ UNCHANGED generators

\* The program returns, or nothing catches an exception of main.
MainEnds ==
  /\ pc[Main] = "run" /\ ~over /\ Silent
  /\ \/ exc[Main] = None /\ Depth(Main) = 1
     \/ exc[Main] # None /\ frames[Main] = <<>>
  /\ over' = TRUE
  /\ UNCHANGED <<frames, exc, thisStack>> /\ UNCHANGED generators

-----------------------------------------------------------------------------
(* Generators.                                                             *)

Create(g) ==
  /\ \E s \in Stack : Runs(s)
  /\ ~gens[g].made /\ Silent
  /\ gens' = [gens EXCEPT ![g].made = TRUE]
  /\ UNCHANGED <<pc, wait, frames, exc, thisStack, curGen, over>>

\* Asking a finished generator, or ending one that has not begun.
AtOnce(s, g, op, v) ==
  /\ Runs(s) /\ gens[g].made
  /\ gens[g].done \/ (~gens[g].started /\ op # "next")
  /\ gens' = [gens EXCEPT ![g].done = TRUE]
  /\ exc' = IF op = "throw" THEN [exc EXCEPT ![s] = v] ELSE exc
  /\ said' = CASE op = "next"   -> Said(s, "done", Undef)
               [] op = "return" -> Said(s, "done", v)
               [] op = "throw"  -> Said(s, "raise", v)
  /\ UNCHANGED <<pc, wait, frames, thisStack, curGen, over>>

\* step() and closeBody(): swap the stacks and send on g.resume.  The first
\* step makes the goroutine of the body, which waits on the other side.
Step(s, g, op, v) ==
  /\ Runs(s) /\ gens[g].made /\ ~gens[g].done /\ Silent
  /\ gens[g].started \/ op = "next"
  /\ gens' = [gens EXCEPT ![g].started = TRUE]
  /\ wait' = [wait EXCEPT ![s] = Meeting(op, g, v, thisStack, curGen)]
  /\ pc' = [pc EXCEPT ![s] = "send", ![g] = IF gens[g].started THEN @ ELSE "parked"]
  /\ thisStack' = gens[g].saved
  /\ curGen' = g
  /\ UNCHANGED <<frames, exc, over>>

\* The meeting on g.resume: the body starts, or goes on behind its yield.
Deliver(s) ==
  LET g == wait[s].g  op == wait[s].op IN
  /\ pc[s] = "send" /\ pc[g] = "parked" /\ ~over
  /\ pc' = [pc EXCEPT ![s] = "recv", ![g] = "run"]
  /\ IF frames[g] = <<>>
     THEN Push(g, CallFrame) /\ Silent /\ UNCHANGED exc
     ELSE /\ exc' = [exc EXCEPT ![g] = CASE op = "next"   -> None
                                         [] op = "return" -> GenExit
                                         [] op = "throw"  -> wait[s].v]
          /\ said' = IF op = "next" THEN Said(g, "sent", wait[s].v) ELSE Said(g, "raise", exc'[g])
          /\ UNCHANGED <<frames, thisStack>>
  /\ UNCHANGED <<gens, wait, curGen, over>>

\* js_yield, and the end of a body, send on g.yields; a yield does so on the
\* channel of the generator curGen names.
Send(s, g, kind, v) ==
  /\ pc' = [pc EXCEPT ![s] = "yield"]
  /\ wait' = [wait EXCEPT ![s] = Meeting(kind, g, v, <<>>, None)]
  /\ Silent
  /\ UNCHANGED <<gens, frames, exc, thisStack, curGen, over>>

Yield(s, v) == Runs(s) /\ curGen # None /\ Send(s, curGen, "value", v)
Return(g, v) == Runs(g) /\ Depth(g) = 1 /\ Send(g, g, "done", v)
Escape(g) == pc[g] = "run" /\ ~over /\ exc[g] # None /\ frames[g] = <<>> /\ Send(g, g, "panic", exc[g])

\* Mutant: the record of the panic is raised, not its value.
TakeRecord(s, b) ==
  LET g == wait[s].g  st == wait[b]
      closing == wait[s].op = "return"
      raises == st.op = "panic" /\ ~(closing /\ st.v = GenExit)
  IN
  /\ pc[s] = "recv" /\ pc[b] = "yield" /\ st.g = g /\ ~over
  /\ curGen' = wait[s].prev
  /\ thisStack' = wait[s].this
  /\ gens' = [gens EXCEPT ![g].saved = thisStack,
                          ![g].done = closing \/ st.op # "value"]
  /\ pc' = [pc EXCEPT ![s] = "run", ![b] = IF st.op = "value" THEN "parked" ELSE "ended"]
  /\ wait' = [wait EXCEPT ![s] = NoMeeting, ![b] = NoMeeting]
  /\ exc' = [exc EXCEPT ![s] = IF raises THEN st ELSE None, ![b] = None]
  /\ frames' = IF st.op = "value" THEN frames ELSE [frames EXCEPT ![b] = <<>>]
  /\ said' = CASE raises -> Said(s, "raise", st.v)
               [] ~raises /\ closing -> Said(s, "done", wait[s].v)
               [] OTHER -> Said(s, st.op, st.v)
  /\ UNCHANGED over

\* Mutant: the sentinel of a close reaches the program.
TakeLeaks(s, b) ==
  LET g == wait[s].g  st == wait[b]
      closing == wait[s].op = "return"
      raises == st.op = "panic"
  IN
  /\ pc[s] = "recv" /\ pc[b] = "yield" /\ st.g = g /\ ~over
  /\ curGen' = wait[s].prev
  /\ thisStack' = wait[s].this
  /\ gens' = [gens EXCEPT ![g].saved = thisStack,
                          ![g].done = closing \/ st.op # "value"]
  /\ pc' = [pc EXCEPT ![s] = "run", ![b] = IF st.op = "value" THEN "parked" ELSE "ended"]
  /\ wait' = [wait EXCEPT ![s] = NoMeeting, ![b] = NoMeeting]
  /\ exc' = [exc EXCEPT ![s] = IF raises THEN st.v ELSE None, ![b] = None]
  /\ frames' = IF st.op = "value" THEN frames ELSE [frames EXCEPT ![b] = <<>>]
  /\ said' = CASE raises -> Said(s, "raise", st.v)
               [] ~raises /\ closing -> Said(s, "done", wait[s].v)
               [] OTHER -> Said(s, st.op, st.v)
  /\ UNCHANGED over

\* The meeting on g.yields: the resumer takes its own stacks back and answers.
Take(s, b) ==
  LET g == wait[s].g  st == wait[b]
      closing == wait[s].op = "return"
      raises == st.op = "panic" /\ ~(closing /\ st.v = GenExit)
  IN
  /\ pc[s] = "recv" /\ pc[b] = "yield" /\ st.g = g /\ ~over
  /\ curGen' = wait[s].prev
  /\ thisStack' = wait[s].this
  /\ gens' = [gens EXCEPT ![g].saved = thisStack,
                          ![g].done = closing \/ st.op # "value"]
  /\ pc' = [pc EXCEPT ![s] = "run", ![b] = IF st.op = "value" THEN "parked" ELSE "ended"]
  /\ wait' = [wait EXCEPT ![s] = NoMeeting, ![b] = NoMeeting]
  /\ exc' = [exc EXCEPT ![s] = IF raises THEN st.v ELSE None, ![b] = None]
  /\ frames' = IF st.op = "value" THEN frames ELSE [frames EXCEPT ![b] = <<>>]
  /\ said' = CASE raises -> Said(s, "raise", st.v)
               [] ~raises /\ closing -> Said(s, "done", wait[s].v)
               [] OTHER -> Said(s, st.op, st.v)
  /\ UNCHANGED over

-----------------------------------------------------------------------------
Next ==
  \/ MainEnds
  \/ \E s \in Stack : Enter(s) \/ Leave(s) \/ ClauseDone(s) \/ Unwind(s) \/ Deliver(s)
  \/ \E s \in Stack, v \in Val : Throw(s, v)
  \/ \E s \in Stack, v \in Val : Yield(s, v)
  \/ \E g \in Gen, v \in Val : Return(g, v)
  \/ \E g \in Gen : Create(g) \/ Escape(g)
  \/ \E s, b \in Stack : Take(s, b)
  \/ \E s \in Stack, g \in Gen, op \in {"next", "return", "throw"}, v \in Val :
       AtOnce(s, g, op, v) \/ Step(s, g, op, v)

Spec == Init /\ [][Next]_vars

-----------------------------------------------------------------------------
(* What must hold of generators on the Go twin.                            *)

TypeOK ==
  /\ \A g \in Gen : /\ {gens[g].made, gens[g].started, gens[g].done} \subseteq BOOLEAN
                    /\ gens[g].started => gens[g].made
  /\ pc \in [Stack -> {"none", "run", "send", "recv", "yield", "parked", "ended"}]
  /\ \A s \in Stack : /\ Depth(s) <= MaxFrames
                      /\ wait[s].g \in Gen \cup {None}
  /\ exc \in [Stack -> Exc \cup {None}]
  /\ curGen \in Gen \cup {None}
  /\ over \in BOOLEAN

-----------------------------------------------------------------------------
(* Who runs, and on which stacks.                                          *)

\* Neither parked nor waiting for a body.
Active(s) == pc[s] \in {"run", "send", "yield"}

\* A goroutine sends to a body that waits for something else itself.
Reenters(s) == pc[s] = "send" /\ (wait[s].g = s \/ pc[wait[s].g] = "recv")

\* One goroutine is active, all others are parked or wait for one that is not.  If it waits
\* for a meeting, the other side is there, unless a generator was resumed from within itself.
OneRuns ==
  /\ \E s \in Stack : Active(s) /\ \A t \in Stack : Active(t) => t = s
  /\ \A s \in Stack : pc[s] = "send" /\ ~Reenters(s) => pc[wait[s].g] = "parked"
  /\ \A g \in Stack : pc[g] = "yield" =>
       \E s \in Stack : pc[s] = "recv" /\ wait[s].g = wait[g].g

\* The entries the calls of s have pushed.
Calls(s) == [i \in 1 .. Depth(s) |-> Mine(s, i)]

\* Code runs with the `this` of its own call: the entries of its goroutine and
\* no others, however panics and generators cut across each other, and yields
\* on the channel of its own generator.
OwnStacks ==
  \A s \in Stack : pc[s] = "run" /\ ~over =>
    /\ curGen = IF s = Main THEN None ELSE s
    /\ exc[s] = None => thisStack = Calls(s)
    /\ IsPrefix(Calls(s), thisStack)

\* One goroutine runs, and with its own stacks, all of them of their types.
OneRunsOnItsOwn == TypeOK /\ OneRuns /\ OwnStacks

-----------------------------------------------------------------------------
(* The generator protocol, which the C floor implements, too.              *)

StatusOf(g) ==
  CASE ~gens[g].made -> "none"
    [] gens[g].done -> "done"
    [] ~gens[g].done /\ pc[g] \in {"run", "send", "recv", "yield"} -> "running"
    [] gens[g].made /\ ~gens[g].done /\ frames[g] = <<>> /\ pc[g] \in {"none", "parked"} -> "fresh"
    [] OTHER -> "suspended"

CallOf(s) ==
  IF pc[s] = "recv" \/ Reenters(s) THEN [op |-> wait[s].op, g |-> wait[s].g, val |-> wait[s].v]
  ELSE None

\* The resumers that wait for the goroutine that runs, the program first, each of them
\* for the next.
Waiting == {s \in Stack : pc[s] = "recv"}
LinksUp(c) ==
  /\ c[1] = Main
  /\ \A i \in 1 .. Cardinality(Waiting) : c[i] \in Waiting /\ c[i + 1] = wait[c[i]].g
Chain == CHOOSE c \in [1 .. Cardinality(Waiting) + 1 -> Stack] : LinksUp(c)

Status == [g \in Gen |-> StatusOf(g)]
OpenCalls == [s \in Stack |-> CallOf(s)]

Protocol == INSTANCE GenProtocol WITH
  status <- Status, chain <- Chain, call <- OpenCalls, ans <- said

\* Every behaviour of the Go twin is one of the iterator protocol: the same
\* answers, the same exceptions in the same place, and no generator in two.
ImplementsProtocol == Protocol!Spec
=============================================================================
