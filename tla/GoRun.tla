-------------------------------- MODULE GoRun --------------------------------
(***************************************************************************)
(* A compiled Go program on the Go twin of the runtime (abnf/jsrt.go,      *)
(* "Go channels and goroutines" and "Go's panic / defer / recover";        *)
(* languages/go-to-llvm-ir.abnf emits the calls).                          *)
(*                                                                         *)
(* There is one host stack.  A send never blocks; `go f()` only queues f;  *)
(* a receive that finds nothing runs the queue, goroutine after goroutine, *)
(* NESTED on the stack of the receiver.  Every compiled function runs its  *)
(* body in js_gotry, then its deferred functions in js_rundefers, then     *)
(* js_gorepanic, and the three speak to each other and to recover() only   *)
(* through the stacks goPanics and goDeferAt.                              *)
(*                                                                         *)
(* What a function does is open: in each step the running one may take any *)
(* operation its program's menu has.                                       *)
(***************************************************************************)
EXTENDS Integers, Sequences, FiniteSets, SequencesExt

CONSTANTS Chan,      \* the channels of the program
          Panic,     \* the values it panics with
          GoMenus,     \* the kinds of programs: the operations they use, and how many
          None       \* nil

GoOps == {"call", "defer", "panic", "recover", "spawn", "send", "close",
        "recv", "range", "select", "drain"}

ASSUME GoMenusAssumption == GoMenus \subseteq [ops : SUBSET GoOps, steps : Nat]

VARIABLES
  goMenu,      \* what this program uses, and how many operations it has left
  goStack,     \* the host stack, the running activation last
  exc,       \* the Go panic that unwinds the host stack, or None
  goPanics,  \* one entry per compiled frame, in theory
  goDeferAt, \* the entry each js_rundefers belongs to
  goQueue,   \* the goroutines that wait for a drain
  chans,     \* per channel its queue and whether it is closed
  goOver,      \* how the program ended: None, "exit" or the panic reported
  born, runs,    \* history: goroutines made, and how often each was called
  sent, got      \* history: values sent to and received from each channel

goVars == <<goMenu, goStack, exc, goPanics, goDeferAt, goQueue, chans, goOver, born, runs, sent, got>>

(***************************************************************************)
(* An activation is a compiled function, or a goDrain inside an operation  *)
(* on a channel.  pan is history: the panic the function is unwinding with.*)
(***************************************************************************)
Function(role) == [role |-> role, phase |-> "body", defs |-> 0, pan |-> None]
Drain(op, c) == [role |-> "drain", op |-> op, chan |-> c]

\* What rt.fail panics with; a recover() takes it like any other.
Failure == {"deadlock", "send on closed channel"}
PanicValue == Panic \cup Failure
NoChan == "no channel"

\* nil is no panic, and no way to end.
ASSUME NilAssumption == None \notin PanicValue \cup {"exit"}

Depth == Len(goStack)
GoTop == goStack[Depth]
IsFunction(a) == a.role # "drain"

\* The activation on top runs code of the program.
GoRunning == goOver = None /\ exc = None /\ IsFunction(GoTop) /\ GoTop.phase = "body" /\ GoTop.role # "top"

GoDoes(op) ==
  /\ GoRunning /\ op \in goMenu.ops /\ goMenu.steps > 0
  /\ goMenu' = [goMenu EXCEPT !.steps = @ - 1]

Push(a) == Append(goStack, a)
GoPop(s) == Front(s)
SetTop(s, x) == [s EXCEPT ![Len(s)] = x]

GoInit ==
  /\ goMenu \in GoMenus
  /\ goStack = <<Function("top"), Function("main")>>
  /\ exc = None
  /\ goPanics = <<None, None>> /\ goDeferAt = <<>> /\ goQueue = <<>>
  /\ chans = [c \in Chan |-> [buf |-> <<>>, closed |-> FALSE]]
  /\ goOver = None
  /\ born = 0 /\ runs = [g \in 1 .. goMenu.steps |-> 0]
  /\ sent = [c \in Chan |-> 0] /\ got = [c \in Chan |-> 0]

program == <<goQueue, chans, born, runs, sent, got>>

-----------------------------------------------------------------------------
(* Functions, deferred functions and panics.                               *)

\* A call: js_gotry gives the frame its entry and runs the body.
Enter(role) ==
  /\ goStack' = Push(Function(role))
  /\ goPanics' = Append(goPanics, None)

Call ==
  /\ GoDoes("call") /\ Enter("call")
  /\ UNCHANGED <<exc, goDeferAt, goOver>> /\ UNCHANGED program

\* A defer statement: the pair is pushed on the function's $defers list.
Defer ==
  /\ GoDoes("defer")
  /\ goStack' = SetTop(goStack, [GoTop EXCEPT !.defs = @ + 1])
  /\ UNCHANGED <<exc, goPanics, goDeferAt, goOver>> /\ UNCHANGED program

js_gopanic(v) ==
  /\ GoDoes("panic")
  /\ exc' = v
  /\ UNCHANGED <<goStack, goPanics, goDeferAt, goOver>> /\ UNCHANGED program

\* Mutant: any function below the panicking one recovers.
RecoverAtAnyDepth ==
  IF goDeferAt = <<>> THEN 0
  ELSE LET at == Last(goDeferAt) IN
       IF at = 0 \/ at > Len(goPanics) THEN 0
       ELSE IF goPanics[at] = None THEN 0 ELSE at

\* The entry js_gorecover takes the panic from, or 0.  It is the one of the
\* frame whose deferred functions run, if the caller is no deeper than a
\* function that frame deferred.
RecoverAt ==
  IF goDeferAt = <<>> THEN 0
  ELSE LET at == Last(goDeferAt) IN
       IF at = 0 \/ at > Len(goPanics) \/ Len(goPanics) > at + 1 THEN 0
       ELSE IF goPanics[at] = None THEN 0 ELSE at

\* Mutant: recover() reads the panic and leaves it in its entry.
RecoverKeeps ==
  /\ GoDoes("recover")
  /\ goStack' = IF RecoverAt = 0 \/ GoTop.role # "deferred" THEN goStack
              ELSE [goStack EXCEPT ![Depth - 1].pan = None]
  /\ UNCHANGED <<exc, goPanics, goDeferAt, goOver>> /\ UNCHANGED program

js_gorecover ==
  /\ GoDoes("recover")
  /\ goPanics' = IF RecoverAt = 0 THEN goPanics ELSE [goPanics EXCEPT ![RecoverAt] = None]
  /\ goStack' = IF RecoverAt = 0 \/ GoTop.role # "deferred" THEN goStack
              ELSE [goStack EXCEPT ![Depth - 1].pan = None]
  /\ UNCHANGED <<exc, goDeferAt, goOver>> /\ UNCHANGED program

\* The frame on top goes over to its deferred functions (js_rundefers).
Leave(pan, panics) ==
  /\ goStack' = SetTop(goStack, [GoTop EXCEPT !.phase = "defers", !.pan = pan])
  /\ goPanics' = panics
  /\ goDeferAt' = Append(goDeferAt, Len(goPanics))

\* A body returns to js_gotry.
GoReturn ==
  /\ GoRunning
  /\ Leave(None, goPanics)
  /\ UNCHANGED <<goMenu, exc, goOver>> /\ UNCHANGED program

\* js_gotry catches whatever unwinds the body, and notes it in the last entry.
Caught ==
  /\ exc # None /\ IsFunction(GoTop) /\ GoTop.phase = "body" /\ GoTop.role # "top"
  /\ Leave(exc, SetTop(goPanics, exc))
  /\ exc' = None
  /\ UNCHANGED <<goMenu, goOver>> /\ UNCHANGED program

InDefers == goOver = None /\ IsFunction(GoTop) /\ GoTop.phase = "defers"

\* Mutant: the loop runs once too often.
RunDeferOnceMore ==
  /\ InDefers /\ exc = None
  /\ goStack' = Append(SetTop(goStack, [GoTop EXCEPT !.defs = @ - 1]), Function("deferred"))
  /\ goPanics' = Append(goPanics, None)
  /\ UNCHANGED <<goMenu, exc, goDeferAt, goOver>> /\ UNCHANGED program

\* js_rundefers calls the deferred functions, the last one first.
RunDefer ==
  /\ InDefers /\ exc = None /\ GoTop.defs > 0
  /\ goStack' = Append(SetTop(goStack, [GoTop EXCEPT !.defs = @ - 1]), Function("deferred"))
  /\ goPanics' = Append(goPanics, None)
  /\ UNCHANGED <<goMenu, exc, goDeferAt, goOver>> /\ UNCHANGED program

\* js_rundefers returns; js_gorepanic pops the last entry and raises it again.
js_gorepanic ==
  /\ InDefers /\ exc = None /\ GoTop.defs = 0
  /\ goDeferAt' = GoPop(goDeferAt)
  /\ goPanics' = GoPop(goPanics)
  /\ exc' = Last(goPanics)
  /\ goStack' = GoPop(goStack)
  /\ UNCHANGED <<goMenu, goOver>> /\ UNCHANGED program

\* A deferred function panicked: js_rundefers leaves its own entry behind it,
\* the other deferred functions and js_gorepanic are not reached.
DeferPanics ==
  /\ InDefers /\ exc # None
  /\ goDeferAt' = GoPop(goDeferAt)
  /\ goStack' = GoPop(goStack)
  /\ UNCHANGED <<goMenu, exc, goPanics, goOver>> /\ UNCHANGED program

\* The entry function is back in jsmain: js_gotop takes the last entry and
\* ends the process on a panic.
js_gotop ==
  /\ goOver = None /\ GoTop.role = "top"
  /\ LET panics == IF exc = None THEN goPanics ELSE SetTop(goPanics, exc)
     IN  /\ goOver' = IF Last(panics) = None THEN "exit" ELSE Last(panics)
         /\ goPanics' = GoPop(panics)
  /\ exc' = None
  /\ UNCHANGED <<goMenu, goStack, goDeferAt>> /\ UNCHANGED program

-----------------------------------------------------------------------------
(* Goroutines and channels.                                                *)

calls == <<goStack, goPanics, goDeferAt, goOver>>

js_gospawn ==
  /\ GoDoes("spawn")
  /\ born' = born + 1
  /\ goQueue' = Append(goQueue, born')
  /\ UNCHANGED <<exc, chans, runs, sent, got>> /\ UNCHANGED calls

\* The buffer size is not modelled by the runtime either: it never blocks.
js_gochan_send(c) ==
  /\ GoDoes("send")
  /\ IF chans[c].closed
     THEN exc' = "send on closed channel" /\ UNCHANGED <<chans, sent>>
     ELSE /\ sent' = [sent EXCEPT ![c] = @ + 1]
          /\ chans' = [chans EXCEPT ![c].buf = Append(@, sent'[c])]
          /\ UNCHANGED exc
  /\ UNCHANGED <<goQueue, born, runs, got>> /\ UNCHANGED calls

js_gochan_close(c) ==
  /\ GoDoes("close")
  /\ chans' = [chans EXCEPT ![c].closed = TRUE]
  /\ UNCHANGED <<exc, goQueue, born, runs, sent, got>> /\ UNCHANGED calls

Empty(c) == chans[c].buf = <<>>

\* Mutant: the value stays in the queue of its channel.
TakeKeeps(op, c) ==
  LET n == IF op = "range" THEN Len(chans[c].buf) ELSE 1
  IN  got' = [got EXCEPT ![c] = @ + n] /\ UNCHANGED chans

\* A receive takes the first value of the channel, a range all there are.
Take(op, c) ==
  LET n == IF op = "range" THEN Len(chans[c].buf) ELSE 1
  IN  /\ got' = [got EXCEPT ![c] = @ + n]
      /\ chans' = [chans EXCEPT ![c].buf = SubSeq(@, n + 1, Len(@))]

\* goChanRecv, and js_gochan_ready before it, on a channel with a value.
RecvAtOnce(op, c) ==
  /\ op # "range" /\ GoDoes(op) /\ ~Empty(c)
  /\ Take(op, c)
  /\ UNCHANGED <<exc, goQueue, born, runs, sent>> /\ UNCHANGED calls

\* The rest runs the queue first: a receive on an empty channel (goChanRecv),
\* a range after the values that are there (js_gorange), a select arm that is
\* not ready (js_gochan_ready) or is because its channel is closed, and a
\* select without a ready arm (js_godrain).
BeginDrain(op, c) ==
  /\ GoDoes(op)
  /\ CASE op = "drain" -> UNCHANGED program
       [] op = "range" -> Take(op, c) /\ UNCHANGED <<goQueue, born, runs, sent>>
       [] OTHER -> Empty(c) /\ UNCHANGED program
  /\ goStack' = Push(Drain(op, c))
  /\ UNCHANGED <<exc, goPanics, goDeferAt, goOver>>

InDrain == goOver = None /\ exc = None /\ GoTop.role = "drain"

\* Mutant: the goroutine stays in the queue while it runs.
goDrainKeeps ==
  /\ InDrain /\ goQueue # <<>>
  /\ Enter("go")
  /\ runs' = [runs EXCEPT ![Head(goQueue)] = @ + 1]
  /\ UNCHANGED <<goMenu, exc, goDeferAt, goOver, goQueue, chans, born, sent, got>>

\* goDrain takes the first goroutine and calls it.  The channel is looked at
\* again only when the queue is empty.
goDrain ==
  /\ InDrain /\ goQueue # <<>>
  /\ Enter("go")
  /\ goQueue' = Tail(goQueue)
  /\ runs' = [runs EXCEPT ![Head(goQueue)] = @ + 1]
  /\ UNCHANGED <<goMenu, exc, goDeferAt, goOver, chans, born, sent, got>>

\* A range gives up with the channel open, a receive if it finds nothing, too.
GivesUp(a) ==
  CASE a.op = "range" -> ~chans[a.chan].closed
    [] a.op = "recv"  -> Empty(a.chan) /\ ~chans[a.chan].closed
    [] OTHER -> FALSE

\* The queue is empty: the operation goes on with what the channel has now.
EndDrain ==
  /\ InDrain /\ goQueue = <<>>
  /\ goStack' = GoPop(goStack)
  /\ IF GoTop.op = "drain" \/ (GoTop.op # "range" /\ Empty(GoTop.chan))
     THEN UNCHANGED <<chans, got>> ELSE Take(GoTop.op, GoTop.chan)
  /\ exc' = IF GivesUp(GoTop) THEN "deadlock" ELSE None
  /\ UNCHANGED <<goMenu, goPanics, goDeferAt, goOver, goQueue, born, runs, sent>>

\* A panic leaves goDrain, and with it the operation on the channel.
DrainPanics ==
  /\ goOver = None /\ exc # None /\ GoTop.role = "drain"
  /\ goStack' = GoPop(goStack)
  /\ UNCHANGED <<goMenu, exc, goPanics, goDeferAt, goOver>> /\ UNCHANGED program

-----------------------------------------------------------------------------
GoNext ==
  \/ Call \/ Defer \/ js_gorecover \/ GoReturn \/ Caught \/ RunDefer
  \/ js_gorepanic \/ DeferPanics \/ js_gotop
  \/ js_gospawn \/ goDrain \/ EndDrain \/ DrainPanics
  \/ \E v \in Panic : js_gopanic(v)
  \/ \E c \in Chan : js_gochan_send(c) \/ js_gochan_close(c)
  \/ \E c \in Chan, op \in {"recv", "select"} : RecvAtOnce(op, c)
  \/ \E c \in Chan, op \in {"recv", "range", "select"} : BeginDrain(op, c)
  \/ BeginDrain("drain", NoChan)

GoSpec == GoInit /\ [][GoNext]_goVars

-----------------------------------------------------------------------------
(* What must hold of a compiled Go program on the Go twin.                 *)

Roles == {"top", "main", "call", "deferred", "go"}
FrameSet == [role : Roles, phase : {"body", "defers"}, defs : Nat, pan : PanicValue \cup {None}]
DrainSet == [role : {"drain"}, op : {"recv", "range", "select", "drain"}, chan : Chan \cup {NoChan}]

GoTypeOK ==
  /\ goMenu \in [ops : SUBSET GoOps, steps : Nat]
  /\ goStack \in Seq(FrameSet \cup DrainSet)
  /\ exc \in PanicValue \cup {None}
  /\ goPanics \in Seq(PanicValue \cup {None}) /\ goDeferAt \in Seq(Nat)
  /\ goQueue \in Seq(Nat)
  /\ chans \in [Chan -> [buf : Seq(Nat), closed : BOOLEAN]]
  /\ goOver \in PanicValue \cup {None, "exit"}
  /\ born \in Nat /\ runs \in Seq(Nat)
  /\ sent \in [Chan -> Nat] /\ got \in [Chan -> Nat]

-----------------------------------------------------------------------------
(* Panics.                                                                 *)

\* The compiled functions on the host stack, and those of them whose deferred
\* functions run.
Frames == {k \in 1 .. Depth : IsFunction(goStack[k])}
Deferring == {k \in Frames : goStack[k].phase = "defers"}

\* The place of k among the numbers of S.
Place(S, k) == Cardinality(S \cap (1 .. k))

\* The panic stack never runs out: js_gorepanic, js_gotop and js_gotry index
\* its last entry unguarded, and recover() the one goDeferAt names.
PanicStackSuffices ==
  goOver = None =>
    /\ Len(goPanics) >= Cardinality(Frames)
    /\ Len(goDeferAt) = Cardinality(Deferring)
    /\ \A k \in Deferring : goDeferAt[Place(Deferring, k)] \in Place(Frames, k) .. Len(goPanics)

\* No deferred function has panicked so far.
Aligned == Len(goPanics) = Cardinality(Frames)

\* As long as that is so, each frame finds its own panic in the entry it was
\* given, whatever was called, drained or recovered in between, so that
\* js_gorepanic raises what was caught for this frame and not recovered.
PanicsBelongToFrames ==
  Aligned /\ goOver = None =>
    /\ \A k \in Deferring : goDeferAt[Place(Deferring, k)] = Place(Frames, k)
    /\ \A k \in Frames : goPanics[Place(Frames, k)] = goStack[k].pan

\* The panic stack fits the host stack, at every depth of calls, deferred
\* functions and drains.
PanicStackFits == PanicStackSuffices /\ PanicsBelongToFrames

\* What Go's recover() answers: the panic of the function that deferred the
\* one that runs, and nothing in any other function.
GoRecovers ==
  IF GoTop.role = "deferred" THEN goStack[Depth - 1].pan ELSE None

\* A recover() takes the panic it should and no other frame's, however deep
\* the calls, and also below a drain that runs other goroutines.
RecoverIsGos ==
  Aligned /\ GoRunning =>
    GoRecovers = IF RecoverAt = 0 THEN None ELSE goPanics[RecoverAt]

\* Panics reach the frames they belong to, and only those, in a state of the right types.
PanicsAreGos == GoTypeOK /\ PanicStackFits /\ RecoverIsGos

-----------------------------------------------------------------------------
(* Goroutines and channels.                                                *)

\* A goroutine is called once at most and in the order of the go statements,
\* also when a goroutine that a drain runs starts a drain itself, and when a
\* panic leaves a drain half-way.
GoroutinesRunOnce ==
  /\ \A g \in DOMAIN runs : runs[g] = IF g <= born /\ ~Contains(goQueue, g) THEN 1 ELSE 0
  /\ goQueue = [i \in 1 .. Len(goQueue) |-> born - Len(goQueue) + i]

\* Every value sent is received once, in the order of the sends, or is still
\* in the queue: the receive that drains looks at the queue after the drain.
ChannelsAreFifo ==
  \A c \in Chan : chans[c].buf = [i \in 1 .. sent[c] - got[c] |-> got[c] + i]

\* Whatever drains within drains do, nothing runs or arrives twice or out of turn.
DrainsAreExact == GoroutinesRunOnce /\ ChannelsAreFifo
=============================================================================
