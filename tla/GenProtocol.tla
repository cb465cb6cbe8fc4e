----------------------------- MODULE GenProtocol -----------------------------
(***************************************************************************)
(* What a generator promises the program that drives it: the iterator      *)
(* protocol of next / return / throw, with neither threads nor slots.      *)
(* Both engines of the compiler are meant to implement it: the Go twin     *)
(* (abnf/jsrt.go, goroutines and channels) and the C floor                 *)
(* (languages/lib/runtime.c, pthreads and a condition variable).           *)
(*                                                                         *)
(* chain is the stack of activations: its last member is the only one that *)
(* runs, the others wait for the generator above them.  ans is what the    *)
(* last step handed over (a sent value, an answer or an exception).        *)
(***************************************************************************)
EXTENDS Sequences, Naturals

CONSTANTS Gen,      \* the generators of the program
          Val,      \* the values the program sends, yields and throws
          Main,     \* the activation that is no generator
          Undef,    \* the undefined value
          GenExit,  \* the sentinel of a close; no program value
          None      \* "nothing"

VARIABLES status, chain, call, ans, over

vars == <<status, chain, call, ans, over>>

Stack == Gen \cup {Main}
UserVal == Val \cup {Undef}
Op == {"next", "return", "throw"}

Top == chain[Len(chain)]

\* The activation on top computes unless it waits for itself (see Hang).
Able == ~over /\ call[Top] = None

Answer(s, k, v) == [to |-> s, kind |-> k, val |-> v]

Init ==
  /\ status = [g \in Gen |-> "none"]
  /\ chain = <<Main>>
  /\ call = [s \in Stack |-> None]
  /\ ans = None
  /\ over = FALSE

Create(g) ==
  /\ Able /\ status[g] = "none"
  /\ status' = [status EXCEPT ![g] = "fresh"]
  /\ ans' = None
  /\ UNCHANGED <<chain, call, over>>

\* The running activation does something of its own.
Compute == Able /\ ans' = None /\ UNCHANGED <<status, chain, call, over>>

\* The program ends: main returned, or nothing caught an exception.
End == Able /\ over' = TRUE /\ ans' = None /\ UNCHANGED <<status, chain, call>>

\* An operation that runs no body: the generator has ended, or has not begun
\* and is asked to return or to throw, which ends it.
AtOnce(g, op, v) ==
  /\ Able
  /\ status[g] = "done" \/ (status[g] = "fresh" /\ op # "next")
  /\ status' = [status EXCEPT ![g] = "done"]
  /\ ans' = CASE op = "next"   -> Answer(Top, "done", Undef)
              [] op = "return" -> Answer(Top, "done", v)
              [] op = "throw"  -> Answer(Top, "raise", v)
  /\ UNCHANGED <<chain, call, over>>

\* The body runs, from its start or from the yield it is suspended at.
Resume(g, op, v) ==
  /\ Able
  /\ status[g] = "suspended" \/ (status[g] = "fresh" /\ op = "next")
  /\ chain' = Append(chain, g)
  /\ call' = [call EXCEPT ![Top] = [op |-> op, g |-> g, val |-> v]]
  /\ ans' = IF status[g] = "fresh" THEN None
            ELSE CASE op = "next"   -> Answer(g, "sent", v)
                   [] op = "return" -> Answer(g, "raise", GenExit)
                   [] op = "throw"  -> Answer(g, "raise", v)
  /\ status' = [status EXCEPT ![g] = "running"]
  /\ UNCHANGED over

\* An operation on a generator that is running waits for itself: the program
\* never moves again.
Hang(g, op, v) ==
  /\ Able /\ status[g] = "running"
  /\ call' = [call EXCEPT ![Top] = [op |-> op, g |-> g, val |-> v]]
  /\ ans' = None
  /\ UNCHANGED <<status, chain, over>>

\* The generator on top hands back to the activation below it.
Back(st, a) ==
  /\ chain' = SubSeq(chain, 1, Len(chain) - 1)
  /\ call' = [call EXCEPT ![a.to] = None]
  /\ status' = [status EXCEPT ![Top] = st]
  /\ ans' = a
  /\ UNCHANGED over

Caller == chain[Len(chain) - 1]

\* A yield.  A body that is being closed and yields is abandoned there.
Yield(v) ==
  /\ Able /\ Len(chain) > 1
  /\ IF call[Caller].op = "return"
     THEN Back("done", Answer(Caller, "done", call[Caller].val))
     ELSE Back("suspended", Answer(Caller, "value", v))

Return(v) ==
  /\ Able /\ Len(chain) > 1
  /\ Back("done", Answer(Caller, "done",
                         IF call[Caller].op = "return" THEN call[Caller].val ELSE v))

\* The body ends by an exception, which its caller sees.
Escape(v) ==
  /\ Able /\ Len(chain) > 1
  /\ Back("done", Answer(Caller, "raise", v))

\* The body of a generator that is being closed unwound to its start.
Closed ==
  /\ Able /\ Len(chain) > 1 /\ call[Caller].op = "return"
  /\ Back("done", Answer(Caller, "done", call[Caller].val))

Next ==
  \/ Compute \/ End \/ Closed
  \/ \E g \in Gen : Create(g)
  \/ \E v \in UserVal : Yield(v) \/ Return(v) \/ Escape(v)
  \/ \E g \in Gen, op \in Op, v \in UserVal :
        AtOnce(g, op, v) \/ Resume(g, op, v) \/ Hang(g, op, v)

Spec == Init /\ [][Next]_vars
=============================================================================
