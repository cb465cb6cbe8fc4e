------------------------------ MODULE MCMemory ------------------------------
(***************************************************************************)
(* Who gives memory back: the collector of the C floor (Collector), and    *)
(* the Go runtime's table of values (Recycle).  A behaviour shows one of   *)
(* the two, and the other one does nothing.                                *)
(***************************************************************************)
EXTENDS Collector, Recycle

-----------------------------------------------------------------------------
(* Programs of the table: a loop around every three or four instructions   *)
(* that the registers' kinds allow, and a menu of functions to call.       *)

In(op, args, dst) == [op |-> op, args |-> args, fn |-> 2, dst |-> dst]

\* The instructions that make sense: kinds[r] is what register r holds.
Of(kinds, kind) == {r \in DOMAIN kinds : kinds[r] = kind}
Any3(kinds) == DOMAIN kinds \ {1}
Possible(kinds) ==
  LET dst == Len(kinds) + 1
      scopes == Of(kinds, "scope")
      arrays == Of(kinds, "array")
  IN  {In("js_scope_new", <<s>>, dst) : s \in scopes}
      \cup {In("js_scope_decl", <<s, v>>, dst) : s \in scopes \ {1}, v \in Any3(kinds)}
      \cup {In("js_scope_get", <<s>>, dst) : s \in scopes \ {1}}
      \cup {In("js_arr_push", <<a, v>>, dst) : a \in arrays, v \in Any3(kinds)}
      \cup {In("js_arg", <<a>>, dst) : a \in arrays}
      \cup {In("js_closure", <<s>>, dst) : s \in scopes}
      \cup {In("js_call", <<c, a>>, dst) : c \in Of(kinds, "closure"), a \in arrays}
      \cup {In("js_try", <<c>>, dst) : c \in Of(kinds, "closure")}
      \cup {In("store", <<v>>, dst) : v \in Any3(kinds)}
      \cup {In("select", <<v, dst - 1>>, dst) : v \in Any3(kinds) \ {dst - 1}}
      \cup {In("load", <<>>, dst), In("js_arr_new", <<>>, dst)}
Made(in) ==
  CASE in.op = "js_scope_new" -> "scope" [] in.op = "js_arr_new" -> "array" [] in.op = "js_closure" -> "closure"
    [] OTHER -> "value"
Then(kinds, ins) == [k \in 1 .. Len(kinds) + Len(ins) |-> IF k <= Len(kinds) THEN kinds[k] ELSE Made(ins[k - Len(kinds)])]

Block1(phis, insts, term) == [phis |-> phis, insts |-> insts, term |-> term]
Br(to) == [kind |-> "br", cond |-> 0, to |-> to]
Ret(o) == [kind |-> "ret", cond |-> o, to |-> {}]
Params == <<"scope", "array">>

\* A function of one block, and one whose first block is a loop: what register 3 carries
\* over from the round before is `carried'.
Straight(insts, r) == [params |-> 2, size |-> 2 + Len(insts), blocks |-> <<Block1(<<>>, insts, Ret(r))>>]
Looping(insts, carried, r) ==
  [params |-> 2, size |-> 3 + Len(insts),
   blocks |-> <<Block1(<<>>, <<>>, Br({2})),
                Block1(IF carried = 0 THEN <<>> ELSE <<[dst |-> 3, incs |-> <<2, carried>>]>>, insts, Br({2, 3})),
                Block1(<<>>, <<>>, Ret(r))>>]

Callees == {
  Straight(<<>>, 2),
  Straight(<<In("js_arg", <<2>>, 3)>>, 3),
  Straight(<<In("store", <<2>>, 3)>>, 0),
  Straight(<<In("js_throw", <<2>>, 3)>>, 0),
  Straight(<<In("js_scope_new", <<1>>, 3), In("js_scope_decl", <<3, 2>>, 4)>>, 0),
  Straight(<<In("js_scope_new", <<1>>, 3), In("js_arg", <<2>>, 4), In("js_scope_decl", <<3, 4>>, 5), In("js_throw", <<4>>, 6)>>, 0),
  Straight(<<In("js_scope_new", <<1>>, 3), In("js_closure", <<3>>, 4)>>, 4),
  Straight(<<In("js_arr_new", <<>>, 3), In("js_arr_push", <<3, 2>>, 4)>>, 3),
  Straight(<<In("js_arr_new", <<>>, 3), In("js_closure", <<1>>, 4), In("js_call", <<4, 3>>, 5)>>, 0),
  Straight(<<In("js_arg", <<2>>, 3), In("js_call", <<3, 2>>, 4)>>, 4)}

\* Loops without a call, and loops that call.
Loops ==
  UNION {UNION {{<<i, j, k>> : k \in Possible(Then(<<"scope", "array", "value">>, <<i, j>>))}
                : j \in Possible(Then(<<"scope", "array", "value">>, <<i>>))}
         : i \in {In("js_scope_new", <<1>>, 4), In("js_arr_new", <<>>, 4)}}
Kinds5 == <<"scope", "array", "value", "array", "closure">>
CallingLoops ==
  UNION {{<<In("js_arr_new", <<>>, 4), In("js_closure", <<1>>, 5), j, k, l>>
            : l \in {In("js_arr_push", <<4, 7>>, 8), In("js_arg", <<4>>, 8), In("store", <<7>>, 8), In("js_scope_new", <<1>>, 8)}}
         : j \in {In("js_arr_push", <<4, 5>>, 6), In("js_arr_push", <<4, 3>>, 6), In("js_scope_new", <<1>>, 6), In("js_arg", <<4>>, 6)},
           k \in {In("js_call", <<5, 4>>, 7), In("js_call", <<5, 2>>, 7), In("js_try", <<5>>, 7)}}
\* Two functions, one after the other on the frame that the first has left.
TwoCalls ==
  <<In("js_arr_new", <<>>, 4), In("js_closure", <<1>>, 5), In("js_call", <<5, 4>>, 6),
    [In("js_closure", <<1>>, 7) EXCEPT !.fn = 3], In("js_call", <<7, 4>>, 8)>>
MCPrograms ==
  {<<Looping(ins, c, r), f>> : ins \in Loops, c \in {0, 4, 6}, r \in {0, 4}, f \in {Straight(<<>>, 0)}}
  \cup {<<Looping(ins, c, r), f>> : ins \in CallingLoops, c \in {0, 7}, r \in {0, 4, 7}, f \in Callees}
  \cup {<<Looping(TwoCalls, c, 0), f, g>> : c \in {0, 6}, f \in Callees, g \in Callees}

-----------------------------------------------------------------------------
(* One or the other.                                                       *)

NoHeap == CollectorInit /\ GC_MODE = "off"
NoTable ==
  /\ prog = <<>> /\ values = <<>> /\ cleared = {} /\ arena = Undefined /\ pool = <<>>
  /\ stack = <<>> /\ exc = None /\ steps = 0 /\ stale = FALSE

Heaps(A) == prog = <<>> /\ A /\ UNCHANGED vars
Tables == prog # <<>> /\ Next /\ UNCHANGED collectorVars
MemorySpec ==
  /\ (CollectorInit /\ NoTable) \/ (NoHeap /\ Init)
  /\ [][Heaps(CollectorNext) \/ Tables]_<<collectorVars, vars>>
  /\ WF_<<collectorVars, vars>>(Heaps(Collection))
=============================================================================
