------------------------------- MODULE Promises ------------------------------
(***************************************************************************)
(* Promises, async functions, async generators and the microtask queue of  *)
(* the Go twin (abnf/jsrt.go, "Promises and the microtask queue";          *)
(* js_jsasyncfn, js_jsawaitv, js_jsdrain and "Async generators" in         *)
(* abnf/jsrtjsprint.go).                                                   *)
(*                                                                         *)
(* Promises are numbered in the order they are made.  The script runs      *)
(* first, then one job of the queue after the other; an executor, the      *)
(* first stretch of an async function and the then() of a thenable run     *)
(* nested on the code that calls them.  What the program's own functions   *)
(* do is open: in each step the running one may take any operation of the  *)
(* program's menu.                                                         *)
(***************************************************************************)
EXTENDS Integers, Sequences, SequencesExt

CONSTANTS Plain,     \* values that are no objects
          Thenable,  \* objects of the program with a then() of their own
          Reason,    \* values the program throws or rejects with
          CycleError, AggregateError, Undef,
          Record,    \* any {value, done} record of an async generator
          Names,     \* the combinators, a subset of CombinatorNames
          MaxElements, \* how many elements a combinator is given at most
          Menus      \* the kinds of programs: how often they use which operation,
                     \* with which values

Ops == {"new", "resolve", "reject", "then", "finally", "async", "await",
        "Promise.resolve", "Promise.reject", "combine",
        "asyncgen", "request", "yield"}
CombinatorNames == {"all", "allSettled", "race", "any"}

ASSUME MenusAssumption ==
  /\ \A m \in Menus : /\ m = [values |-> m.values, times |-> m.times]
                      /\ m.values \subseteq Plain \cup Thenable
                      /\ DOMAIN m.times \subseteq Ops
                      /\ m.times \in [DOMAIN m.times -> Nat]
  /\ Names \subseteq CombinatorNames
  /\ MaxElements \in Nat

\* Promises and arrays of results are numbers, and a plain value has no then().
ASSUME ValuesAssumption ==
  /\ \A x \in Plain \cup {Undef, Record} : x \notin Thenable \cup Int
  /\ \A x \in Thenable : x \notin Int

VARIABLES
  menu,   \* the operations this program may still take
  stack,  \* the code that runs, the innermost last
  heap,   \* the promises, the combinators, the async generators, the microtask queue
          \* and, as history, the generation of the job that runs; the script is generation 0
  over    \* an exception of the script ended the program

vars == <<menu, stack, heap, over>>

(***************************************************************************)
(* A promise has a state, a value and the reactions registered while it is *)
(* pending.  The rest is history: how many reactions were registered on it *)
(* and have run, what it was first resolved with, in which generation, in  *)
(* which one it settled, and whether the program settled it after that.    *)
(***************************************************************************)
NewPromise == [state |-> "pending", value |-> Undef, cbs |-> <<>>, cap |-> FALSE,
               reg |-> 0, ran |-> 0, fate |-> Undef, fateAt |-> 0, at |-> 0, again |-> FALSE]

(***************************************************************************)
(* A reaction: what it is for, which of its handlers are functions and the *)
(* promise or combinator it goes on with.  n is history: its number among  *)
(* the reactions of its promise.                                           *)
(***************************************************************************)
Reaction(kind, f, r, to, idx) ==
  [kind |-> kind, f |-> f, r |-> r, to |-> to, idx |-> idx, n |-> 0]

\* The running code: kind says what its end does, to which promise.
Frame(kind, p, ok, arg) == [kind |-> kind, p |-> p, ok |-> ok, arg |-> arg]

Promise(h) == DOMAIN h.prom
Last1(h) == Len(h.prom)          \* the promise made last

-----------------------------------------------------------------------------
(* The operations on promises, as functions of the heap.                   *)

promNew(h) == [h EXCEPT !.prom = Append(@, NewPromise)]

ReactionJob(g, p, r, state, v) ==
  [kind |-> "reaction", p |-> p, r |-> r, ok |-> state = "fulfilled", x |-> v, gen |-> g + 1]
AdoptJob(g, p, x) ==
  [kind |-> "adopt", p |-> p, r |-> Undef, ok |-> TRUE, x |-> x, gen |-> g + 1]

\* Mutant: the reactions stay registered.
promSettleKeeps(h, p, state, v) ==
  LET s == h.prom[p] IN
  IF s.state # "pending" THEN h
  ELSE [h EXCEPT
    !.prom[p] = [s EXCEPT !.state = state, !.value = v, !.at = h.gen],
    !.queue = @ \o [i \in DOMAIN s.cbs |-> ReactionJob(h.gen, p, s.cbs[i], state, v)]]

\* The first settlement is the last one; it queues the reactions in order.
promSettle(h, p, state, v) ==
  LET s == h.prom[p] IN
  IF s.state # "pending" THEN h
  ELSE [h EXCEPT
    !.prom[p] = [s EXCEPT !.state = state, !.value = v, !.cbs = <<>>, !.at = h.gen],
    !.queue = @ \o [i \in DOMAIN s.cbs |->
                      ReactionJob(h.gen, p, s.cbs[i], state, v)]]

\* Mutant: the last one registered is the first to run.
promThenFirst(h, p, r) ==
  LET s == h.prom[p]
      mine == [r EXCEPT !.n = s.reg + 1]
      h1 == [h EXCEPT !.prom[p].reg = mine.n]
  IN  IF s.state = "pending" THEN [h1 EXCEPT !.prom[p].cbs = <<mine>> \o @]
      ELSE [h1 EXCEPT !.queue = Append(@, ReactionJob(h.gen, p, mine, s.state, s.value))]

promThen(h, p, r) ==
  LET s == h.prom[p]
      mine == [r EXCEPT !.n = s.reg + 1]
      h1 == [h EXCEPT !.prom[p].reg = mine.n]
  IN  IF s.state = "pending" THEN [h1 EXCEPT !.prom[p].cbs = Append(@, mine)]
      ELSE [h1 EXCEPT !.queue = Append(@, ReactionJob(h.gen, p, mine, s.state, s.value))]

\* The reaction that makes p take over the state of another promise.
Settle(p) == Reaction("settle", TRUE, TRUE, p, 0)

\* Mutant: it is adopted without a job of its own.
promResolveAtOnce(h, p, x) ==
  LET s == h.prom[p] IN
  CASE s.state # "pending" -> h
    [] s.state = "pending" /\ x = p -> promSettle(h, p, "rejected", CycleError)
    [] s.state = "pending" /\ x # p /\ (x \in Promise(h) \/ x \in Thenable) ->
         [(IF x \in Thenable THEN h ELSE promThen(h, x, Settle(p)))
          EXCEPT !.prom[p].fate = IF @ = Undef THEN x ELSE @,
                 !.prom[p].fateAt = IF s.fate = Undef THEN h.gen ELSE @]
    [] OTHER -> promSettle(h, p, "fulfilled", x)

\* A promise or thenable is adopted by a job of its own; until that has run
\* its course the promise stays pending.
promResolve(h, p, x) ==
  LET s == h.prom[p] IN
  CASE s.state # "pending" -> h
    [] s.state = "pending" /\ x = p -> promSettle(h, p, "rejected", CycleError)
    [] s.state = "pending" /\ x # p /\ (x \in Promise(h) \/ x \in Thenable) ->
         [h EXCEPT !.queue = Append(@, AdoptJob(h.gen, p, x)),
                   !.prom[p].fate = IF @ = Undef THEN x ELSE @,
                   !.prom[p].fateAt = IF s.fate = Undef THEN h.gen ELSE @]
    [] OTHER -> promSettle(h, p, "fulfilled", x)

\* The promise for x is x itself, or a new one, the last of the new heap.
promResolveValue(h, x) ==
  IF x \in Promise(h) THEN h ELSE promResolve(promNew(h), Last1(h) + 1, x)
Resolved(h, x) == IF x \in Promise(h) THEN x ELSE Last1(h) + 1

\* A new promise that is settled by a reaction of kind on p.
Derive(h, p, kind, f, r) ==
  LET h1 == promNew(h) IN promThen(h1, p, Reaction(kind, f, r, Last1(h1), 0))

-----------------------------------------------------------------------------
(* Combinators: what Promise.all and its like keep in their closures.      *)

\* The array of a combinator's results, as a value.
Results(k) == -k

\* An element of combinator k settled.
Element(h, k, idx, ok, v) ==
  LET c == h.combs[k]
      left == c.left - 1
      h1 == [h EXCEPT !.combs[k].results[idx] = v, !.combs[k].left = left]
  IN  CASE c.name = "race" /\ ~ok -> promSettle(h, c.out, "rejected", v)
        [] c.name = "all" /\ ~ok -> promSettle(h, c.out, "rejected", v)
        [] c.name \in {"race", "any"} /\ ok -> promResolve(h, c.out, v)
        [] OTHER -> IF left # 0 THEN h1
                    ELSE IF c.name = "any" THEN promSettle(h1, c.out, "rejected", AggregateError)
                    ELSE promResolve(h1, c.out, Results(k))

\* Registers the next element of combinator k.
promElement(h, k, x) ==
  [promThen(promResolveValue(h, x), Resolved(h, x),
            Reaction("element", TRUE, TRUE, k, Len(h.combs[k].els) + 1))
   EXCEPT !.combs[k].els = Append(@, Resolved(h, x))]

\* Mutant: the count is one short.
promCombineShort(h, name, n) ==
  LET k == Len(h.combs) + 1
      out == Last1(h) + 1
      comb == [name |-> name, els |-> <<>>, left |-> IF n = 0 THEN 0 ELSE n - 1, out |-> out,
               results |-> [i \in 1 .. n |-> Undef]]
      h1 == [promNew(h) EXCEPT !.combs = Append(@, comb)]
  IN  CASE n > 0 \/ name = "race" -> h1
        [] n = 0 /\ name = "any" -> promSettle(h1, out, "rejected", AggregateError)
        [] n = 0 /\ name \in {"all", "allSettled"} -> promResolve(h1, out, Results(k))

\* A combinator over n elements; over none it answers at once, or never.
promCombine(h, name, n) ==
  LET k == Len(h.combs) + 1
      out == Last1(h) + 1
      comb == [name |-> name, els |-> <<>>, left |-> n, out |-> out,
               results |-> [i \in 1 .. n |-> Undef]]
      h1 == [promNew(h) EXCEPT !.combs = Append(@, comb)]
  IN  CASE n > 0 \/ name = "race" -> h1
        [] n = 0 /\ name = "any" -> promSettle(h1, out, "rejected", AggregateError)
        [] n = 0 /\ name \in {"all", "allSettled"} -> promResolve(h1, out, Results(k))

-----------------------------------------------------------------------------
(* Async generators: a body that both awaits and yields, with a queue of   *)
(* requests in front of it.  What a function of these gives is a heap and  *)
(* the code it calls.                                                      *)

(***************************************************************************)
(* The requests that wait, the one that is served first; whether one is    *)
(* being served; whether the body has been entered, and will not be again. *)
(* The rest is history: the promises of all requests, what was answered,   *)
(* and whether a finally clause threw while the body was closed.           *)
(***************************************************************************)
NewAsyncGen == [q |-> <<>>, run |-> FALSE, done |-> FALSE, started |-> FALSE,
                reqs |-> <<>>, said |-> <<>>, lost |-> FALSE]

Calls(h, frames) == [heap |-> h, frames |-> frames]

\* agShift and the settlement: the first request is answered by a record, of a
\* yield or of the end, or rejected.
Answer(h, k, how, x) ==
  LET a == h.ags[k]
      p == Head(a.q).p
      h1 == [h EXCEPT !.ags[k] = [a EXCEPT !.q = Tail(@), !.run = FALSE,
                                           !.said = Append(@, [p |-> p, how |-> how, x |-> x])]]
  IN  IF how = "fail" THEN promSettle(h1, p, "rejected", x) ELSE promSettle(h1, p, "fulfilled", Record)

\* A generator that is done answers every request at once: the heap after n of
\* them, and after all.
Answering(h, k) ==
  LET q == h.ags[k].q
      after[n \in 0 .. Len(q)] ==
        IF n = 0 THEN [h EXCEPT !.ags[k].done = TRUE]
        ELSE Answer(after[n - 1], k, IF q[n].kind = "throw" THEN "fail" ELSE "end",
                    IF q[n].kind = "next" THEN Undef ELSE q[n].arg)
  IN  after

AnswerAll(h, k) == Answering(h, k)[Len(h.ags[k].q)]

\* Mutant: it does not look whether a request is being served.
agPumpAgain(h, k) ==
  LET a == h.ags[k]
      req == Head(a.q)
      serves == [h EXCEPT !.ags[k].run = TRUE]
  IN
  CASE a.q = <<>> -> Calls(h, <<>>)
    [] a.q # <<>> /\ (a.done \/ (~a.started /\ req.kind # "next")) -> Calls(AnswerAll(h, k), <<>>)
    [] a.q # <<>> /\ ~a.done /\ a.started /\ req.kind = "return" ->
         Calls([serves EXCEPT !.ags[k].done = TRUE], <<Frame("agclose", k, TRUE, Undef)>>)
    [] OTHER -> Calls([serves EXCEPT !.ags[k].started = TRUE], <<Frame("agen", k, req.kind = "next", req.arg)>>)

\* Serves the first request if none is being served: next() resumes the body,
\* throw() raises at its yield, return() runs its finally clauses, and the last
\* two do not start a body that has not run.
agPump(h, k) ==
  LET a == h.ags[k]
      req == Head(a.q)
      serves == [h EXCEPT !.ags[k].run = TRUE]
      waits == a.q # <<>> /\ ~a.run
  IN
  CASE ~waits -> Calls(h, <<>>)
    [] waits /\ (a.done \/ (~a.started /\ req.kind # "next")) -> Calls(AnswerAll(h, k), <<>>)
    [] waits /\ ~a.done /\ a.started /\ req.kind = "return" ->
         Calls([serves EXCEPT !.ags[k].done = TRUE], <<Frame("agclose", k, TRUE, Undef)>>)
    [] OTHER -> Calls([serves EXCEPT !.ags[k].started = TRUE], <<Frame("agen", k, req.kind = "next", req.arg)>>)

\* next(x), return(x) and throw(x) answer a promise, the last of the new heap.
agReq(h, k, kind, x) ==
  LET h1 == promNew(h)
      p == Last1(h1)
  IN  agPump([h1 EXCEPT !.ags[k].q = Append(@, [kind |-> kind, arg |-> x, p |-> p]),
                        !.ags[k].reqs = Append(@, p)], k)

\* Mutant: the request that waits behind it is not served.
agCompleteOnly(h, k, how, x) == Calls(Answer(h, k, how, x), <<>>)

\* agComplete and agFail: the request is answered and the next one served.
agComplete(h, k, how, x) ==
  agPump(Answer([h EXCEPT !.ags[k].done = @ \/ how # "yield"], k, how, x), k)

-----------------------------------------------------------------------------
(* The program.                                                            *)

Top == Last(stack)
Running == stack # <<>> /\ ~over /\ Top.kind # "combine"
Pop == Front(stack)

Does(op) ==
  /\ Running /\ op \in DOMAIN menu.times /\ menu.times[op] > 0
  /\ menu' = [menu EXCEPT !.times[op] = @ - 1]
  /\ UNCHANGED over

Anything == menu.values \cup Promise(heap)

\* History: the program settles p although it was resolved before.
Again(h, p) == [h EXCEPT !.prom[p].again = @ \/ h.prom[p].fate # Undef]

Init ==
  /\ menu \in Menus
  /\ stack = <<Frame("script", 0, TRUE, Undef)>>
  /\ heap = [prom |-> <<>>, combs |-> <<>>, ags |-> <<>>, queue |-> <<>>, gen |-> 0]
  /\ over = FALSE

\* new Promise(executor): the executor runs at once.
New ==
  /\ Does("new")
  /\ heap' = [heap EXCEPT !.prom = Append(@, [NewPromise EXCEPT !.cap = TRUE])]
  /\ stack' = Append(stack, Frame("executor", Last1(heap) + 1, TRUE, Undef))

\* Any code may call the two functions an executor or a then() was given.
Resolve(p, x) ==
  /\ Does("resolve") /\ heap.prom[p].cap
  /\ heap' = promResolve(Again(heap, p), p, x)
  /\ UNCHANGED stack

Reject(p, v) ==
  /\ Does("reject") /\ heap.prom[p].cap
  /\ heap' = promSettle(Again(heap, p), p, "rejected", v)
  /\ UNCHANGED stack

\* p.then(f, r); p.catch(r) is then(undefined, r).
Then(p, f, r) ==
  /\ Does("then")
  /\ heap' = Derive(heap, p, "then", f, r)
  /\ UNCHANGED stack

Finally(p) ==
  /\ Does("finally")
  /\ heap' = Derive(heap, p, "finally", TRUE, TRUE)
  /\ UNCHANGED stack

\* Promise.resolve(x) and Promise.reject(v).
StaticResolve(x) ==
  /\ Does("Promise.resolve")
  /\ heap' = promResolveValue(heap, x)
  /\ UNCHANGED stack

StaticReject(v) ==
  /\ Does("Promise.reject")
  /\ heap' = promSettle(promNew(heap), Last1(heap) + 1, "rejected", v)
  /\ UNCHANGED stack

\* Promise.all(els) and its like; the loop of promStatic over the elements is
\* a frame of its own, in which no code of the program runs.
Combine(name, els) ==
  /\ Does("combine")
  /\ heap' = promCombine(heap, name, Len(els))
  /\ stack' = Append(stack, Frame("combine", Len(heap.combs) + 1, TRUE, els))

Register ==
  /\ stack # <<>> /\ ~over /\ Top.kind = "combine"
  /\ IF Top.arg = <<>>
     THEN stack' = Pop /\ UNCHANGED heap
     ELSE /\ heap' = promElement(heap, Top.p, Head(Top.arg))
          /\ stack' = Append(Pop, [Top EXCEPT !.arg = Tail(@)])
  /\ UNCHANGED <<menu, over>>

\* A call of an async function: the body runs at once, up to its first await.
CallAsync ==
  /\ Does("async")
  /\ heap' = promNew(heap)
  /\ stack' = Append(stack, Frame("async", Last1(heap) + 1, TRUE, Undef))

\* Mutant: the body's promise takes what is awaited for its answer.
AwaitSettles(x) ==
  /\ Does("await") /\ Top.kind = "async"
  /\ heap' = promResolve(promThen(promResolveValue(heap, x), Resolved(heap, x),
                                  Reaction("await", TRUE, TRUE, Top.p, 0)), Top.p, x)
  /\ stack' = Pop

\* asyncStep: the body yielded x to its driver, which waits for it.
Await(x) ==
  /\ Does("await") /\ Top.kind = "async"
  /\ heap' = promThen(promResolveValue(heap, x), Resolved(heap, x),
                      Reaction("await", TRUE, TRUE, Top.p, 0))
  /\ stack' = Pop

\* An async generator function only makes its generator.
AsyncGen ==
  /\ Does("asyncgen")
  /\ heap' = [heap EXCEPT !.ags = Append(@, NewAsyncGen)]
  /\ UNCHANGED stack

\* What the functions of the generators give, on what is left of the stack.
Goes(rest, result) == heap' = result.heap /\ stack' = rest \o result.frames

Request(k, kind, x) ==
  /\ Does("request")
  /\ Goes(stack, agReq(heap, k, kind, x))

\* agStep: the body awaits x, or awaits what it is going to yield; the request
\* that is served stays unanswered.
Suspends(kind, x) ==
  /\ Top.kind = "agen"
  /\ heap' = promThen(promResolveValue(heap, x), Resolved(heap, x), Reaction(kind, TRUE, TRUE, Top.p, 0))
  /\ stack' = Pop
AgAwait(x) == Does("await") /\ Suspends("agawait", x)
Yield(x) == Does("yield") /\ Suspends("agyield", x)

\* It returns x or throws.
AgReturn(x) ==
  /\ Running /\ Top.kind = "agen"
  /\ Goes(Pop, agComplete(heap, Top.p, "end", x))
  /\ UNCHANGED <<menu, over>>
AgThrow(v) ==
  /\ Running /\ Top.kind = "agen"
  /\ Goes(Pop, agComplete(heap, Top.p, "fail", v))
  /\ UNCHANGED <<menu, over>>

\* The finally clauses of a body that return() closes end; one that awaits or
\* yields is left there (closeBody).
Closed ==
  /\ Running /\ Top.kind = "agclose"
  /\ Goes(Pop, agComplete(heap, Top.p, "end", Head(heap.ags[Top.p].q).arg))
AgClosed == Closed /\ UNCHANGED <<menu, over>>
AgAbandoned == Closed /\ (Does("await") \/ Does("yield"))

\* One that throws leaves return() by the exception: the request is not answered
\* and none is after it.  What the caller does about the exception is open, as
\* everything it does.
AgCloseThrows ==
  /\ Running /\ Top.kind = "agclose"
  /\ heap' = [heap EXCEPT !.ags[Top.p].lost = TRUE]
  /\ stack' = Pop
  /\ UNCHANGED <<menu, over>>

\* The innermost code returns x.
IsGenerator == Top.kind \in {"agen", "agclose"}
Return(x) ==
  /\ Running /\ ~IsGenerator
  /\ heap' = CASE Top.kind \in {"script", "executor", "thenable"} -> heap
               [] Top.kind \in {"handler", "async"} -> promResolve(heap, Top.p, x)
               [] Top.kind = "finally" ->
                    IF Top.ok THEN promResolve(heap, Top.p, Top.arg)
                    ELSE promSettle(heap, Top.p, "rejected", Top.arg)
  /\ stack' = Pop
  /\ UNCHANGED <<menu, over>>

\* It throws v.  Nothing catches an exception of the script itself.
Throw(v) ==
  /\ Running /\ ~IsGenerator
  /\ heap' = CASE Top.kind = "script" -> heap
               [] Top.kind \in {"executor", "thenable"} ->
                    promSettle(Again(heap, Top.p), Top.p, "rejected", v)
               [] OTHER -> promSettle(heap, Top.p, "rejected", v)
  /\ over' = (Top.kind = "script")
  /\ stack' = Pop
  /\ UNCHANGED menu

-----------------------------------------------------------------------------
(* The microtask queue.                                                    *)

Job == Head(heap.queue)

\* drainMicrotasks takes the next job.
Dequeue(kind) ==
  /\ stack = <<>> /\ ~over /\ heap.queue # <<>>
  /\ Job.kind = kind
  /\ UNCHANGED <<menu, over>>

\* The heap the job runs on.
Taken ==
  [heap EXCEPT !.queue = Tail(@), !.gen = Job.gen,
               !.prom[Job.p].ran = IF Job.kind = "adopt" THEN @ ELSE @ + 1]

\* A promise is adopted by two reactions on it; a thenable's then() runs, and
\* is given the two functions of the promise that adopts it.
RunAdoption ==
  /\ Dequeue("adopt")
  /\ IF Job.x \in Promise(heap)
     THEN /\ heap' = promThen(Taken, Job.x, Settle(Job.p))
          /\ UNCHANGED stack
     ELSE /\ heap' = [Taken EXCEPT !.prom[Job.p].cap = TRUE]
          /\ stack' = <<Frame("thenable", Job.p, TRUE, Undef)>>

\* The runtime's own handlers: an adopted promise settled, or an element.
RunOwn ==
  /\ Dequeue("reaction") /\ Job.r.kind \in {"settle", "element"}
  /\ heap' = CASE Job.r.kind = "element" -> Element(Taken, Job.r.to, Job.r.idx, Job.ok, Job.x)
               [] Job.r.kind = "settle" /\ Job.ok -> promResolve(Taken, Job.r.to, Job.x)
               [] OTHER -> promSettle(Taken, Job.r.to, "rejected", Job.x)
  /\ UNCHANGED stack

\* The program's handler for the state the promise settled in.
HasHandler == IF Job.ok THEN Job.r.f ELSE Job.r.r

RunHandler ==
  /\ Dequeue("reaction") /\ Job.r.kind \in {"then", "finally"} /\ HasHandler
  /\ heap' = Taken
  /\ stack' = <<Frame(IF Job.r.kind = "then" THEN "handler" ELSE "finally",
                     Job.r.to, Job.ok, Job.x)>>

\* Without one the derived promise takes over the state.
RunPassOn ==
  /\ Dequeue("reaction") /\ Job.r.kind = "then" /\ ~HasHandler
  /\ heap' = IF Job.ok THEN promResolve(Taken, Job.r.to, Job.x)
             ELSE promSettle(Taken, Job.r.to, "rejected", Job.x)
  /\ UNCHANGED stack

\* asyncStep: the body goes on behind its await (js_jsawaitv raises there what
\* the awaited promise was rejected with).
RunAwait ==
  /\ Dequeue("reaction") /\ Job.r.kind = "await"
  /\ heap' = Taken
  /\ stack' = <<Frame("async", Job.r.to, Job.ok, Job.x)>>

\* An async generator goes on behind its await, with what was awaited or thrown
\* there; what it yielded has settled.
RunAgAwait ==
  /\ Dequeue("reaction") /\ Job.r.kind = "agawait"
  /\ heap' = Taken
  /\ stack' = <<Frame("agen", Job.r.to, Job.ok, Job.x)>>

RunAgYield ==
  /\ Dequeue("reaction") /\ Job.r.kind = "agyield"
  /\ Goes(<<>>, agComplete(Taken, Job.r.to, IF Job.ok THEN "yield" ELSE "fail", Job.x))

-----------------------------------------------------------------------------
Next ==
  \/ New \/ CallAsync \/ Register \/ AsyncGen
  \/ AgClosed \/ AgAbandoned \/ AgCloseThrows \/ RunAgAwait \/ RunAgYield
  \/ RunAdoption \/ RunOwn \/ RunHandler \/ RunPassOn \/ RunAwait
  \/ \E x \in Anything : StaticResolve(x) \/ Await(x) \/ Return(x) \/ AgAwait(x) \/ Yield(x) \/ AgReturn(x)
  \/ \E v \in Reason : StaticReject(v) \/ Throw(v) \/ AgThrow(v)
  \/ \E p \in Promise(heap) :
       \/ Finally(p)
       \/ \E x \in Anything : Resolve(p, x)
       \/ \E v \in Reason : Reject(p, v)
       \/ \E f, r \in BOOLEAN : Then(p, f, r)
  \/ \E k \in DOMAIN heap.ags :
       \/ \E x \in menu.values, kind \in {"next", "return"} : Request(k, kind, x)
       \/ \E v \in Reason : Request(k, "throw", v)
  \/ \E name \in Names, els \in BoundedSeq(Anything, MaxElements) : Combine(name, els)

Spec == Init /\ [][Next]_vars

-----------------------------------------------------------------------------
(* What must hold of promises, async functions and the microtask queue.    *)

Value == Plain \cup Thenable \cup Reason \cup {CycleError, AggregateError, Undef, Record} \cup Int

ReactionRec ==
  [kind: {"then", "finally", "settle", "await", "element", "agawait", "agyield"},
   f: BOOLEAN, r: BOOLEAN, to: Nat, idx: Nat, n: Nat]
PromiseRec ==
  [state: {"pending", "fulfilled", "rejected"}, value: Value, cbs: Seq(ReactionRec), cap: BOOLEAN,
   reg: Nat, ran: Nat, fate: Value, fateAt: Nat, at: Nat, again: BOOLEAN]
JobRec ==
  [kind: {"reaction", "adopt"}, p: Nat, r: ReactionRec \cup {Undef}, ok: BOOLEAN, x: Value, gen: Nat]
CombinatorRec ==
  [name: CombinatorNames, els: Seq(Nat), left: Int, out: Nat, results: Seq(Value)]
AsyncGenRec ==
  [q: Seq([kind: {"next", "return", "throw"}, arg: Value, p: Nat]),
   run: BOOLEAN, done: BOOLEAN, started: BOOLEAN, reqs: Seq(Nat),
   said: Seq([p: Nat, how: {"yield", "end", "fail"}, x: Value]), lost: BOOLEAN]
Heap == [prom: Seq(PromiseRec), combs: Seq(CombinatorRec), ags: Seq(AsyncGenRec), queue: Seq(JobRec), gen: Nat]

\* The promise, combinator or generator a frame is about is there.
FrameIsTyped(h, f) ==
  /\ f = Frame(f.kind, f.p, f.ok, f.arg) /\ f.ok \in BOOLEAN
  /\ IF f.kind = "combine" THEN f.arg \in Seq(Value) ELSE f.arg \in Value
  /\ \/ f.kind = "script" /\ f.p = 0
     \/ f.kind \in {"executor", "thenable", "async", "handler", "finally"} /\ f.p \in Promise(h)
     \/ f.kind = "combine" /\ f.p \in DOMAIN h.combs
     \/ f.kind \in {"agen", "agclose"} /\ f.p \in DOMAIN h.ags

TypeOK ==
  /\ \A op \in DOMAIN menu.times : menu.times[op] \in Nat
  /\ over \in BOOLEAN
  /\ heap \in Heap
  /\ \A i \in DOMAIN stack : FrameIsTyped(heap, stack[i])

-----------------------------------------------------------------------------
Pending(p) == heap.prom[p].state = "pending"

\* The reactions of promise p of heap h: those that wait on it have the last
\* numbers, those that have run the first, the others are queued, each once.
IsReactionOf(j, p) == j.kind = "reaction" /\ j.p = p
InOrder(h, p) ==
  LET s == h.prom[p]
      last == s.reg - Len(s.cbs)
      queued == {i \in DOMAIN h.queue : IsReactionOf(h.queue[i], p)}
  IN  /\ s.ran \in 0 .. last
      /\ \A i \in DOMAIN s.cbs : s.cbs[i].n = last + i
      /\ \A n \in s.ran + 1 .. last : \E i \in queued : h.queue[i].r.n = n
      /\ \A i \in queued : LET j == h.queue[i] IN
           j.r.n \in s.ran + 1 .. last /\ j.x = s.value /\ s.state = (IF j.ok THEN "fulfilled" ELSE "rejected")
      /\ \A i, j \in queued : i < j => h.queue[i].r.n < h.queue[j].r.n

\* Each reaction registered on a promise runs once, and those of one promise
\* run in the order in which they were registered, whether it was pending or
\* had settled (promThen, promSettle): what waits on the promise or in the
\* queue is what has not run, in order.
ReactionsRunInOrder == \A p \in Promise(heap) : InOrder(heap, p)

\* The queue is a breadth-first walk: no job overtakes one of an earlier
\* generation (enqueue, drainMicrotasks).
GenerationsInOrder ==
  \A i, j \in DOMAIN heap.queue : i < j =>
    heap.gen <= heap.queue[i].gen /\ heap.queue[i].gen <= heap.queue[j].gen

\* Reactions and jobs run in the order the specification of promises fixes.
JobsRunInOrder == ReactionsRunInOrder /\ GenerationsInOrder

Later(a, b) == IF a > b THEN a ELSE b

\* A promise resolved with another settles two ticks after that, or one after
\* the other settled if that is later (promResolve: "the two extra ticks that
\* every ordering test measures").
AdoptionTakesTwoTicks ==
  \A p \in Promise(heap) : LET s == heap.prom[p] IN
    s.fate \in Promise(heap) /\ s.state # "pending" /\ ~s.again =>
      /\ heap.prom[s.fate].state = s.state /\ heap.prom[s.fate].value = s.value
      /\ s.at = Later(s.fateAt + 1, heap.prom[s.fate].at) + 1

\* When the queue has run dry, a promise that was resolved with a settled one
\* has settled: no adoption is lost.
Finished == stack = <<>> /\ heap.queue = <<>>
NoAdoptionIsLost ==
  Finished => \A p \in Promise(heap) :
    heap.prom[p].fate \in Promise(heap) /\ Pending(p) => Pending(heap.prom[p].fate)

\* A promise that follows another settles with it, in its tick and not before.
AdoptionIsTimely == AdoptionTakesTwoTicks /\ NoAdoptionIsLost

\* Every job has its place in the order, those of an adoption included, and every
\* variable its type.
JobsAreInTheirPlace == TypeOK /\ JobsRunInOrder /\ AdoptionIsTimely

-----------------------------------------------------------------------------
(* Async functions and async generators.                                   *)

\* The places where a body may go on: in code that runs, behind a reaction that
\* is queued, behind one that is registered.
GoesOn(r, kinds, p) == r.kind \in kinds /\ r.to = p
Places(kinds, p) ==
  {<<"runs", i>> : i \in {i \in DOMAIN stack : stack[i].kind \in kinds /\ stack[i].p = p}}
  \cup {<<"queued", i>> : i \in {i \in DOMAIN heap.queue :
                                 heap.queue[i].kind = "reaction" /\ GoesOn(heap.queue[i].r, kinds, p)}}
  \cup UNION {{<<"waits", q, i>> : i \in {i \in DOMAIN heap.prom[q].cbs :
                                          GoesOn(heap.prom[q].cbs[i], kinds, p)}} : q \in Promise(heap)}
AtMostOne(places) == \A a, b \in places : a = b

\* An async function is at one place at a time, and nowhere once it has
\* answered: no await resumes it twice, and the promise it was called for
\* settles only by its own end (asyncStep).
AsyncFunctionsAreResumedOnce ==
  \A p \in Promise(heap) :
    LET places == Places({"async", "await"}, p) IN
    /\ AtMostOne(places)
    /\ places # {} => Pending(p) /\ heap.prom[p].fate = Undef

\* An async generator is at one place at a time, and is there exactly as long as
\* a request is being served; it serves them in the order they were made, each
\* once, none waits while it is idle, and none gets a value after its end
\* (agPump, agStep, agComplete, agFail).
AsyncGeneratorsServeInOrder ==
  \A k \in DOMAIN heap.ags :
    LET a == heap.ags[k]
        places == Places({"agen", "agclose", "agawait", "agyield"}, k)
    IN
    ~a.lost =>
      /\ AtMostOne(places)
      /\ (places # {}) = a.run
      /\ a.q # <<>> => a.run
      /\ a.reqs = [i \in DOMAIN a.said |-> a.said[i].p] \o [i \in DOMAIN a.q |-> a.q[i].p]
      /\ \A i \in DOMAIN a.said : ~Pending(a.said[i].p) /\ (a.said[i].how = "fail") = (heap.prom[a.said[i].p].state = "rejected")
      /\ \A i \in DOMAIN a.q : Pending(a.q[i].p)
      /\ \A i, j \in DOMAIN a.said : i < j /\ a.said[i].how # "yield" => a.said[j].how # "yield" /\ a.done

\* Bodies that wait are resumed once, by what they wait for.
AsyncBodiesAreResumedOnce == AsyncFunctionsAreResumedOnce /\ AsyncGeneratorsServeInOrder

-----------------------------------------------------------------------------
(* Combinators.                                                            *)

State(q) == heap.prom[q].state
AllOf(c, state) == \A i \in DOMAIN c.els : State(c.els[i]) = state
OneOf(c, state, v) ==
  \E i \in DOMAIN c.els : State(c.els[i]) = state /\ heap.prom[c.els[i]].value = v

\* What the promise of a combinator may settle with, given its elements.
MaySettle(c, k, o) ==
  CASE c.name = "all" ->
         IF o.state = "fulfilled"
         THEN /\ o.value = Results(k) /\ AllOf(c, "fulfilled")
              /\ \A i \in DOMAIN c.els : c.results[i] = heap.prom[c.els[i]].value
         ELSE OneOf(c, "rejected", o.value)
    [] c.name = "allSettled" ->
         /\ o.state = "fulfilled" /\ o.value = Results(k)
         /\ \A i \in DOMAIN c.els : State(c.els[i]) # "pending"
                                   /\ c.results[i] = heap.prom[c.els[i]].value
    [] c.name = "race" -> OneOf(c, o.state, o.value)
    [] c.name = "any" ->
         IF o.state = "rejected" THEN o.value = AggregateError /\ AllOf(c, "rejected")
         ELSE OneOf(c, "fulfilled", o.value)

\* The promise of a combinator settles as its elements allow: the counter of
\* promStatic reaches zero when the last element has reported, not before.
CombinatorsKeepTheirPromise ==
  \A k \in DOMAIN heap.combs :
    LET o == heap.prom[heap.combs[k].out] IN
    /\ heap.combs[k].left \in 0 .. Len(heap.combs[k].results)
    /\ o.state # "pending" => MaySettle(heap.combs[k], k, o)

\* And they do settle: when everything has run, all, allSettled and any are
\* pending only because of a pending element, race of elements that all are.
MustSettle(c) ==
  CASE c.name \in {"all", "allSettled", "any"} -> \A i \in DOMAIN c.els : State(c.els[i]) # "pending"
    [] c.name = "race" -> \E i \in DOMAIN c.els : State(c.els[i]) # "pending"
CombinatorsSettle ==
  Finished /\ ~over => \A k \in DOMAIN heap.combs :
    MustSettle(heap.combs[k]) => ~Pending(heap.combs[k].out)

\* A combinator settles exactly when, and as, its elements say.
CombinatorsAreExact == CombinatorsKeepTheirPromise /\ CombinatorsSettle
=============================================================================
