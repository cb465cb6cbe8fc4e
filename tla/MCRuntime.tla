------------------------------ MODULE MCRuntime ------------------------------
(***************************************************************************)
(* What the Go runtime does for programs that wait: goroutines, channels   *)
(* and panics of Go programs (GoRun), promises and async functions of      *)
(* JavaScript programs (Promises).  A behaviour shows one of the two, and  *)
(* the other one does nothing.                                             *)
(***************************************************************************)
EXTENDS GoRun, Promises

-----------------------------------------------------------------------------
(* Go programs.                                                            *)

MCGoMenus == {
  [ops |-> {"call", "defer", "panic", "recover"}, steps |-> 9],
  [ops |-> {"spawn", "send", "close", "recv", "range", "select", "drain"}, steps |-> 6],
  [ops |-> {"defer", "panic", "recover", "spawn", "send", "recv"}, steps |-> 6]}

-----------------------------------------------------------------------------
(* JavaScript programs.                                                    *)

Menu(values, times) == [values |-> values, times |-> times]

MCMenus == {
  Menu(Plain, "new" :> 2 @@ "resolve" :> 2 @@ "then" :> 1),
  Menu(Thenable, "new" :> 1 @@ "resolve" :> 1 @@ "then" :> 2),
  Menu(Plain, "new" :> 1 @@ "resolve" :> 1 @@ "async" :> 2 @@ "await" :> 2),
  Menu(Thenable, "resolve" :> 1 @@ "async" :> 1 @@ "await" :> 2),
  Menu(Plain, "new" :> 1 @@ "resolve" :> 1 @@ "finally" :> 1
              @@ "Promise.reject" :> 1 @@ "Promise.resolve" :> 1),
  Menu(Plain, "new" :> 2 @@ "resolve" :> 2 @@ "combine" :> 1),
  Menu(Plain, "new" :> 1 @@ "resolve" :> 1 @@ "reject" :> 1 @@ "combine" :> 1),
  Menu(Plain, "new" :> 1 @@ "resolve" :> 1 @@ "asyncgen" :> 1 @@ "request" :> 3 @@ "yield" :> 1 @@ "await" :> 1),
  Menu(Plain, "Promise.reject" :> 1 @@ "asyncgen" :> 1 @@ "request" :> 4 @@ "yield" :> 2)}

-----------------------------------------------------------------------------
(* One or the other.                                                       *)

NoGo ==
  /\ goMenu = [ops |-> {}, steps |-> 0] /\ goStack = <<Function("top")>> /\ exc = None /\ goOver = None
  /\ goPanics = <<None>> /\ goDeferAt = <<>> /\ goQueue = <<>>
  /\ chans = [c \in Chan |-> [buf |-> <<>>, closed |-> FALSE]] /\ born = 0 /\ runs = <<>>
  /\ sent = [c \in Chan |-> 0] /\ got = [c \in Chan |-> 0]
NoScript == Menu({}, <<>>)
NoPromises ==
  /\ menu = NoScript /\ stack = <<Frame("script", 0, TRUE, Undef)>> /\ over = FALSE
  /\ heap = [prom |-> <<>>, combs |-> <<>>, ags |-> <<>>, queue |-> <<>>, gen |-> 0]

RunsGo == menu = NoScript /\ GoNext /\ UNCHANGED vars
RunsScript == menu # NoScript /\ Next /\ UNCHANGED goVars
RuntimeSpec == ((GoInit /\ NoPromises) \/ (NoGo /\ Init)) /\ [][RunsGo \/ RunsScript]_<<goVars, vars>>
=============================================================================
