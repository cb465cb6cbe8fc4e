-------------------------- MODULE CombinatorsProof --------------------------
(***************************************************************************)
(* Promise.all, any, allSettled and race of the Go twin: an invariant over *)
(* that of PromisesProof, and the theorem that a combinator settles with   *)
(* the first or the last of its elements, as its name says, whatever the   *)
(* program and the number of its elements.                                 *)
(***************************************************************************)
EXTENDS PromisesProof, FiniteSetTheorems

-----------------------------------------------------------------------------
(* Combinators.  Which elements have reported is read off the reactions    *)
(* that have not run: PInv says of those of combinators only that they are *)
(* about one.                                                              *)

\* Reaction r of promise q has not run: it is queued, or waits.
At(h, q, r) ==
  \/ \E i \in DOMAIN h.queue : IsReactionOf(h.queue[i], q) /\ h.queue[i].r = r
  \/ q \in Promise(h) /\ \E i \in DOMAIN h.prom[q].cbs : h.prom[q].cbs[i] = r

\* What has settled stays, the promises of combinators go on waiting, and the
\* reactions of elements are where they were.
Settled(h, g) ==
  \A p \in Promise(h) :
    p \in Promise(g) /\ (h.prom[p].state # "pending" =>
                           g.prom[p].state = h.prom[p].state /\ g.prom[p].value = h.prom[p].value)
OutsWait(h, g) ==
  \A p \in Promise(h) : IsOut(h, p) /\ h.prom[p].state = "pending" => g.prom[p].state = "pending"
SameAt(h, g) == \A q, r : At(g, q, r) <=> At(h, q, r)
SameElements(h, g) == \A q, r : r.kind = "element" => (At(g, q, r) <=> At(h, q, r))

\* A step that has nothing to do with combinators.
Calm(h, g) == g.combs = h.combs /\ Settled(h, g) /\ OutsWait(h, g) /\ SameElements(h, g)

LEMMA CalmSelf ==
  ASSUME NEW h
  PROVE  Calm(h, h)
BY DEF Calm, Settled, OutsWait, SameElements

LEMMA CalmThen ==
  ASSUME NEW h, NEW g, NEW f, Calm(h, g), Calm(g, f)
  PROVE  Calm(h, f)
<1>1. f.combs = h.combs BY DEF Calm
<1>2. Settled(h, f) BY DEF Calm, Settled
<1>3. SameElements(h, f) BY DEF Calm, SameElements
<1>4. OutsWait(h, f)
  <2>1. \A p : IsOut(h, p) <=> IsOut(g, p) BY DEF Calm, IsOut
  <2> QED BY <2>1 DEF Calm, OutsWait, Settled
<1> QED BY <1>1, <1>2, <1>3, <1>4 DEF Calm

\* Nothing about promises but their flags changes.
LEMMA CalmFlags ==
  ASSUME NEW h \in Heap, NEW g \in Heap, g.combs = h.combs, g.queue = h.queue, Promise(g) = Promise(h),
         \A p \in Promise(h) : /\ g.prom[p].state = h.prom[p].state /\ g.prom[p].value = h.prom[p].value
                               /\ g.prom[p].cbs = h.prom[p].cbs
  PROVE  Calm(h, g)
<1>1. Settled(h, g) BY DEF Settled
<1>2. OutsWait(h, g) BY DEF OutsWait
<1>3. SameElements(h, g) BY DEF SameElements, At
<1> QED BY <1>1, <1>2, <1>3 DEF Calm

LEMMA AtSettles ==
  ASSUME NEW h \in Heap, NEW g \in Heap, NEW p \in Promise(h), NEW how, NEW v, Settles(h, g, p, how, v)
  PROVE  SameAt(h, g)
<1> DEFINE n == Len(h.queue)
           c == h.prom[p].cbs
<1>1. QueueGrows(h, g, p, how, v, n, c) BY SettledQueue
<1>2. /\ DOMAIN h.queue = 1 .. n
      /\ \A i \in 1 .. n : i \in DOMAIN g.queue /\ g.queue[i] = h.queue[i]
      /\ \A i \in DOMAIN c : n + i \in DOMAIN g.queue /\ g.queue[n + i] = ReactionJob(h.gen, p, c[i], how, v)
      /\ \A i \in DOMAIN g.queue : i \in 1 .. n \/ (i - n \in DOMAIN c /\ i = n + (i - n))
  BY <1>1 DEF QueueGrows
<1>3. \A r : ReactionJob(h.gen, p, r, how, v).kind = "reaction" /\ ReactionJob(h.gen, p, r, how, v).p = p
             /\ ReactionJob(h.gen, p, r, how, v).r = r
  BY DEF ReactionJob
<1>4. Promise(g) = Promise(h) /\ g.prom[p].cbs = <<>> /\ \A q \in Promise(h) : q # p => g.prom[q] = h.prom[q]
  BY DEF Settles, OthersKept
<1> HIDE DEF n, c
<1> SUFFICES ASSUME NEW q, NEW r PROVE At(g, q, r) <=> At(h, q, r) BY DEF SameAt
<1>5. ASSUME At(g, q, r) PROVE At(h, q, r)
  <2>1. CASE \E i \in DOMAIN g.queue : IsReactionOf(g.queue[i], q) /\ g.queue[i].r = r
    <3>1. PICK i \in DOMAIN g.queue : IsReactionOf(g.queue[i], q) /\ g.queue[i].r = r BY <2>1
    <3>2. CASE i \in 1 .. n BY <1>2, <3>1, <3>2 DEF At
    <3>3. CASE i - n \in DOMAIN c /\ i = n + (i - n)
      <4>1. PICK j \in DOMAIN c : i = n + j BY <3>3
      <4>2. g.queue[i] = ReactionJob(h.gen, p, c[j], how, v) BY <1>2, <4>1
      <4>3. q = p /\ r = c[j] BY <1>3, <3>1, <4>2 DEF IsReactionOf
      <4> QED BY <4>3 DEF At, c
    <3> QED BY <1>2, <3>2, <3>3
  <2>2. CASE q \in Promise(g) /\ \E i \in DOMAIN g.prom[q].cbs : g.prom[q].cbs[i] = r
    <3>1. q # p BY <1>4, <2>2
    <3> QED BY <1>4, <2>2, <3>1 DEF At
  <2> QED BY <1>5, <2>1, <2>2 DEF At
<1>6. ASSUME At(h, q, r) PROVE At(g, q, r)
  <2>1. CASE \E i \in DOMAIN h.queue : IsReactionOf(h.queue[i], q) /\ h.queue[i].r = r
    BY <1>2, <2>1 DEF At
  <2>2. CASE q \in Promise(h) /\ \E i \in DOMAIN h.prom[q].cbs : h.prom[q].cbs[i] = r
    <3>1. CASE q # p BY <1>4, <2>2, <3>1 DEF At
    <3>2. CASE q = p
      <4>1. PICK j \in DOMAIN c : c[j] = r BY <2>2, <3>2 DEF c
      <4>2. n + j \in DOMAIN g.queue /\ g.queue[n + j] = ReactionJob(h.gen, p, r, how, v) BY <1>2, <4>1
      <4> QED BY <1>3, <3>2, <4>2 DEF At, IsReactionOf
    <3> QED BY <3>1, <3>2
  <2> QED BY <1>6, <2>1, <2>2 DEF At
<1> QED BY <1>5, <1>6

LEMMA CalmSettles ==
  ASSUME NEW h \in Heap, NEW p \in Promise(h), NEW how \in {"fulfilled", "rejected"}, NEW v \in Value,
         h.prom[p].state = "pending" => ~IsOut(h, p), NEW g, g = promSettle(h, p, how, v)
  PROVE  g \in Heap /\ Calm(h, g) /\ Promise(g) = Promise(h) /\ g.ags = h.ags
<1>1. CASE h.prom[p].state # "pending"
  <2>1. g = h BY <1>1 DEF promSettle
  <2> QED BY <2>1, CalmSelf
<1>2. CASE h.prom[p].state = "pending"
  <2>1. g \in Heap /\ Settles(h, g, p, how, v) BY <1>2, SettleEffect
  <2>2. SameAt(h, g) BY <2>1, AtSettles
  <2>3. g.combs = h.combs /\ g.ags = h.ags /\ Promise(g) = Promise(h) /\ \A q \in Promise(h) : q # p => g.prom[q] = h.prom[q]
    BY <2>1 DEF Settles, OthersKept
  <2>4. Settled(h, g) BY <1>2, <2>3 DEF Settled
  <2>5. OutsWait(h, g) BY <1>2, <2>3 DEF OutsWait
  <2> QED BY <2>1, <2>2, <2>3, <2>4, <2>5 DEF Calm, SameElements, SameAt
<1> QED BY <1>1, <1>2

LEMMA CalmAdopts ==
  ASSUME NEW h \in Heap, NEW g \in Heap, NEW p \in Promise(h), NEW x \in Value, Adopts(h, g, p, x)
  PROVE  Calm(h, g)
<1> DEFINE n == Len(h.queue)
           j == AdoptJob(h.gen, p, x)
<1>1. h.queue \in Seq(JobRec) /\ h.gen \in Nat /\ p \in Nat BY Parts
<1>2. j \in JobRec /\ j.kind # "reaction" BY <1>1 DEF AdoptJob, JobRec
<1>3. g.queue = Append(h.queue, j) BY DEF Adopts
<1> HIDE DEF j
<1>4. n \in Nat /\ DOMAIN h.queue = 1 .. n /\ DOMAIN g.queue = 1 .. n + 1 BY <1>1, <1>2, <1>3, Appended, Indices
<1>5. (\A i \in 1 .. n : g.queue[i] = h.queue[i]) /\ g.queue[n + 1] = j BY <1>1, <1>2, <1>3, Appended
<1>6. \A i \in 1 .. n + 1 : i \in 1 .. n \/ i = n + 1 BY <1>4
<1>7. \A i \in 1 .. n : i \in 1 .. n + 1 BY <1>4
<1> HIDE DEF n
<1>8. Promise(g) = Promise(h) /\ \A q \in Promise(h) : g.prom[q].cbs = h.prom[q].cbs BY DEF Adopts, OthersKept
<1>9. \A q \in Promise(h) : g.prom[q].state = h.prom[q].state /\ g.prom[q].value = h.prom[q].value
  BY DEF Adopts, OthersKept, StateKept
<1>10. SameElements(h, g)
  <2>1. \A i \in DOMAIN g.queue : \A q : IsReactionOf(g.queue[i], q) => i \in DOMAIN h.queue /\ g.queue[i] = h.queue[i]
    BY <1>2, <1>4, <1>5, <1>6 DEF IsReactionOf
  <2>2. \A i \in DOMAIN h.queue : i \in DOMAIN g.queue /\ g.queue[i] = h.queue[i] BY <1>4, <1>5, <1>7
  <2> SUFFICES ASSUME NEW q, NEW r PROVE At(g, q, r) <=> At(h, q, r) BY DEF SameElements
  <2> QED BY <1>8, <2>1, <2>2 DEF At
<1>11. g.combs = h.combs BY DEF Adopts
<1>12. Settled(h, g) BY <1>8, <1>9 DEF Settled
<1>13. OutsWait(h, g) BY <1>8, <1>9 DEF OutsWait
<1> QED BY <1>10, <1>11, <1>12, <1>13 DEF Calm

LEMMA CalmResolves ==
  ASSUME NEW h \in Heap, NEW p \in Promise(h), NEW x \in Value,
         h.prom[p].state = "pending" => ~IsOut(h, p), NEW g, g = promResolve(h, p, x)
  PROVE  g \in Heap /\ Calm(h, g) /\ Promise(g) = Promise(h)
<1>1. CASE h.prom[p].state # "pending"
  <2>1. g = h BY <1>1 DEF promResolve
  <2> QED BY <2>1, CalmSelf
<1>2. CASE h.prom[p].state = "pending" /\ x = p
  <2>1. g = promSettle(h, p, "rejected", CycleError) BY <1>2 DEF promResolve
  <2>2. CycleError \in Value BY DEF Value
  <2> QED BY <2>1, <2>2, CalmSettles
<1>3. CASE h.prom[p].state = "pending" /\ x # p /\ (x \in Promise(h) \/ x \in Thenable)
  <2>1. x \in (Promise(h) \cup Thenable) \ {p} BY <1>3
  <2>2. g \in Heap /\ Adopts(h, g, p, x) BY <1>3, <2>1, AdoptEffect
  <2> QED BY <2>2, CalmAdopts DEF Adopts, OthersKept
<1>4. CASE h.prom[p].state = "pending" /\ x # p /\ ~(x \in Promise(h) \/ x \in Thenable)
  <2>1. g = promSettle(h, p, "fulfilled", x) BY <1>4 DEF promResolve
  <2> QED BY <2>1, CalmSettles
<1> QED BY <1>1, <1>2, <1>3, <1>4

\* promThen adds the reaction.
AtMore(h, g, p, m) == \A q, r : At(g, q, r) <=> (At(h, q, r) \/ (q = p /\ r = m))

LEMMA AtWaits ==
  ASSUME NEW h \in Heap, NEW g \in Heap, NEW p \in Promise(h), NEW m \in ReactionRec, Waits(h, g, p, m)
  PROVE  AtMore(h, g, p, m)
<1> DEFINE c == h.prom[p].cbs
           n == Len(c)
<1>1. c \in Seq(ReactionRec) BY Parts, PromiseParts
<1>2. g.queue = h.queue /\ g.prom[p].cbs = Append(c, m) /\ Promise(g) = Promise(h)
      /\ \A q \in Promise(h) : q # p => g.prom[q] = h.prom[q]
  BY DEF Waits, OthersKept
<1>3. n \in Nat /\ DOMAIN c = 1 .. n /\ DOMAIN g.prom[p].cbs = 1 .. n + 1 BY <1>1, <1>2, Appended, Indices
<1>4. (\A i \in 1 .. n : g.prom[p].cbs[i] = c[i]) /\ g.prom[p].cbs[n + 1] = m BY <1>1, <1>2, Appended
<1>5. \A i \in 1 .. n + 1 : i \in 1 .. n \/ i = n + 1 BY <1>3
<1>6. n + 1 \in 1 .. n + 1 /\ \A i \in 1 .. n : i \in 1 .. n + 1 BY <1>3
<1> HIDE DEF n
<1>7. \A r : (\E i \in DOMAIN g.prom[p].cbs : g.prom[p].cbs[i] = r) <=> ((\E i \in DOMAIN c : c[i] = r) \/ r = m)
  BY <1>3, <1>4, <1>5, <1>6
<1> HIDE DEF c
<1> SUFFICES ASSUME NEW q, NEW r PROVE At(g, q, r) <=> (At(h, q, r) \/ (q = p /\ r = m)) BY DEF AtMore
<1>8. CASE q = p BY <1>2, <1>7, <1>8, Zenon DEF At, c
<1>9. CASE q # p BY <1>2, <1>9 DEF At
<1> QED BY <1>8, <1>9

LEMMA AtQueues ==
  ASSUME NEW h \in Heap, NEW g \in Heap, NEW p \in Promise(h), NEW m \in ReactionRec, Queues(h, g, p, m)
  PROVE  AtMore(h, g, p, m)
<1> DEFINE n == Len(h.queue)
           j == ReactionJob(h.gen, p, m, h.prom[p].state, h.prom[p].value)
<1>1. h.queue \in Seq(JobRec) /\ h.gen \in Nat /\ p \in Nat /\ h.prom[p].value \in Value BY Parts, PromiseParts
<1>2. j \in JobRec /\ j.kind = "reaction" /\ j.p = p /\ j.r = m BY <1>1 DEF ReactionJob, JobRec
<1>3. g.queue = Append(h.queue, j) BY DEF Queues
<1> HIDE DEF j
<1>4. n \in Nat /\ DOMAIN h.queue = 1 .. n /\ DOMAIN g.queue = 1 .. n + 1 BY <1>1, <1>2, <1>3, Appended, Indices
<1>5. (\A i \in 1 .. n : g.queue[i] = h.queue[i]) /\ g.queue[n + 1] = j BY <1>1, <1>2, <1>3, Appended
<1>6. \A i \in 1 .. n + 1 : i \in 1 .. n \/ i = n + 1 BY <1>4
<1>7. n + 1 \in 1 .. n + 1 /\ \A i \in 1 .. n : i \in 1 .. n + 1 BY <1>4
<1> HIDE DEF n
<1>8. \A q, r : (\E i \in DOMAIN g.queue : IsReactionOf(g.queue[i], q) /\ g.queue[i].r = r)
                <=> ((\E i \in DOMAIN h.queue : IsReactionOf(h.queue[i], q) /\ h.queue[i].r = r) \/ (q = p /\ r = m))
  BY <1>2, <1>4, <1>5, <1>6, <1>7 DEF IsReactionOf
<1>9. Promise(g) = Promise(h) /\ \A q \in Promise(h) : g.prom[q].cbs = h.prom[q].cbs BY DEF Queues, OthersKept
<1> QED BY <1>8, <1>9, Zenon DEF AtMore, At

\* r with its number.
ThenOf(h, p, r) == [r EXCEPT !.n = h.prom[p].reg + 1]

LEMMA ThenAt ==
  ASSUME NEW h \in Heap, NEW p \in Promise(h), NEW r \in ReactionRec, NEW g, g = promThen(h, p, r)
  PROVE  /\ g \in Heap /\ g.combs = h.combs /\ Promise(g) = Promise(h) /\ AtMore(h, g, p, ThenOf(h, p, r))
         /\ \A q \in Promise(h) : g.prom[q].state = h.prom[q].state /\ g.prom[q].value = h.prom[q].value
         /\ ThenOf(h, p, r) \in ReactionRec /\ ThenOf(h, p, r).kind = r.kind
         /\ ThenOf(h, p, r).to = r.to /\ ThenOf(h, p, r).idx = r.idx
<1>1. PICK m : m = ThenOf(h, p, r) OBVIOUS
<1>2. h.prom[p].reg + 1 \in Nat BY Parts, PromiseParts
<1>3. m \in ReactionRec /\ m.kind = r.kind /\ m.to = r.to /\ m.idx = r.idx BY <1>1, <1>2, Numbered DEF ThenOf
<1>4. g \in Heap /\ (Waits(h, g, p, m) \/ Queues(h, g, p, m)) BY <1>1, ThenEffect DEF ThenOf
<1>5. AtMore(h, g, p, m) BY <1>3, <1>4, AtWaits, AtQueues
<1>6. g.combs = h.combs /\ OthersKept(h, g, p) /\ StateKept(h.prom[p], g.prom[p]) BY <1>4 DEF Waits, Queues
<1> QED BY <1>1, <1>3, <1>4, <1>5, <1>6 DEF OthersKept, StateKept

LEMMA CalmReacts ==
  ASSUME NEW h \in Heap, NEW p \in Promise(h), NEW r \in ReactionRec, r.kind # "element", NEW g, g = promThen(h, p, r)
  PROVE  g \in Heap /\ Calm(h, g) /\ Promise(g) = Promise(h)
<1>1. PICK m : m = ThenOf(h, p, r) OBVIOUS
<1>2. /\ g \in Heap /\ g.combs = h.combs /\ Promise(g) = Promise(h) /\ AtMore(h, g, p, m)
      /\ \A q \in Promise(h) : g.prom[q].state = h.prom[q].state /\ g.prom[q].value = h.prom[q].value
      /\ m.kind # "element"
  BY <1>1, ThenAt
<1>3. SameElements(h, g) BY <1>2 DEF SameElements, AtMore
<1>4. Settled(h, g) /\ OutsWait(h, g) BY <1>2 DEF Settled, OutsWait
<1> QED BY <1>2, <1>3, <1>4 DEF Calm

LEMMA CalmMakes ==
  ASSUME NEW h \in Heap, NEW s, s = NewPromise \/ s = [NewPromise EXCEPT !.cap = TRUE],
         NEW g, g = [h EXCEPT !.prom = Append(@, s)], NEW n, n = Len(h.prom) + 1
  PROVE  /\ g \in Heap /\ Calm(h, g) /\ g.ags = h.ags
         /\ n \in Promise(g) /\ n \notin Promise(h) /\ g.prom[n] = s /\ n = Len(g.prom) /\ Promise(g) = Promise(h) \cup {n}
<1>1. s \in PromiseRec BY NewIsPromise
<1>2. g \in Heap /\ Makes(h, g, s) BY <1>1, MakeEffect
<1>3. /\ g.combs = h.combs /\ g.ags = h.ags /\ g.queue = h.queue /\ Len(g.prom) = n /\ Promise(g) = Promise(h) \cup {n}
      /\ n \in Promise(g) /\ n \notin Promise(h) /\ (\A p \in Promise(h) : g.prom[p] = h.prom[p]) /\ g.prom[n] = s
  BY <1>2 DEF Makes
<1>4. s.cbs = <<>> BY NewParts
<1>5. Settled(h, g) /\ OutsWait(h, g) BY <1>3 DEF Settled, OutsWait
<1>6. SameElements(h, g)
  <2>1. DOMAIN g.prom[n].cbs = {} BY <1>3, <1>4
  <2> QED BY <1>3, <2>1 DEF SameElements, At
<1> QED BY <1>2, <1>3, <1>5, <1>6 DEF Calm

\* The promises of combinators are there.
OutsThere(h) == \A k \in DOMAIN h.combs : h.combs[k].out \in Promise(h)

LEMMA CalmResolveValue ==
  ASSUME NEW h \in Heap, OutsThere(h), NEW x \in Value, NEW g, g = promResolveValue(h, x)
  PROVE  g \in Heap /\ Calm(h, g) /\ Resolved(h, x) \in Promise(g)
<1>1. CASE x \in Promise(h) BY <1>1, CalmSelf DEF promResolveValue, Resolved
<1>2. CASE x \notin Promise(h)
  <2>1. PICK n, s, h1 : n = Len(h.prom) + 1 /\ s = NewPromise /\ h1 = [h EXCEPT !.prom = Append(@, s)] OBVIOUS
  <2>2. g = promResolve(h1, n, x) /\ Resolved(h, x) = n BY <1>2, <2>1 DEF promResolveValue, Resolved, promNew, Last1
  <2>3. h1 \in Heap /\ Calm(h, h1) /\ n \in Promise(h1) /\ n \notin Promise(h) BY <2>1, CalmMakes
  <2>4. ~IsOut(h1, n) BY <2>3 DEF IsOut, OutsThere, Calm
  <2>5. g \in Heap /\ Calm(h1, g) /\ Promise(g) = Promise(h1) BY <2>2, <2>3, <2>4, CalmResolves
  <2> QED BY <2>2, <2>3, <2>5, CalmThen
<1> QED BY <1>1, <1>2

\* The job that is taken off the queue is there once.
LEMMA AtTakes ==
  ASSUME NEW h \in Heap, NEW g \in Heap, NEW j, j.p \in Promise(h), NEW n, Takes(h, g, j, n), InOrderAll(h),
         NEW q, NEW r
  PROVE  At(g, q, r) <=> (At(h, q, r) /\ ~(IsReactionOf(j, q) /\ r = j.r))
<1>1. n \in Nat /\ DOMAIN h.queue = 1 .. n + 1 /\ DOMAIN g.queue = 1 .. n /\ h.queue[1] = j
      /\ \A i \in 1 .. n : g.queue[i] = h.queue[i + 1]
  BY DEF Takes
<1>2. Promise(g) = Promise(h) /\ \A p \in Promise(h) : g.prom[p].cbs = h.prom[p].cbs BY DEF Takes
<1>3. \A i \in 1 .. n : i + 1 \in 1 .. n + 1 /\ i + 1 # 1 /\ 1 < i + 1 BY <1>1
<1>4. \A i \in 1 .. n + 1 : i = 1 \/ (i - 1 \in 1 .. n /\ i = (i - 1) + 1) BY <1>1
<1>5. 1 \in 1 .. n + 1 BY <1>1
<1>6. ASSUME IsReactionOf(j, q)
      PROVE  /\ \A i \in 1 .. n : IsReactionOf(g.queue[i], q) => g.queue[i].r # j.r
             /\ \A i \in DOMAIN h.prom[q].cbs : h.prom[q].cbs[i] # j.r
  <2>0. q \in Promise(h) BY <1>6 DEF IsReactionOf
  <2> DEFINE Qd == {i \in DOMAIN h.queue : IsReactionOf(h.queue[i], q)}
             s == h.prom[q]
             c == s.cbs
             last == s.reg - Len(c)
  <2>1. /\ \A i \in DOMAIN c : c[i].n = last + i
        /\ \A i \in Qd : h.queue[i].r.n \in s.ran + 1 .. last
        /\ \A i, k \in Qd : i < k => h.queue[i].r.n < h.queue[k].r.n
    BY <2>0 DEF InOrderAll, InOrder
  <2>2. 1 \in Qd BY <1>1, <1>5, <1>6
  <2>3. s.ran \in Nat /\ s.reg \in Nat /\ Len(c) \in Nat /\ DOMAIN c = 1 .. Len(c) BY <2>0, Parts, PromiseParts
  <2>4. last \in Int BY <2>3
  <2>5. j.r.n \in s.ran + 1 .. last BY <1>1, <2>1, <2>2
  <2> HIDE DEF last, s
  <2>6. j.r.n \in Int /\ j.r.n <= last BY <2>3, <2>4, <2>5
  <2>7. ASSUME NEW i \in DOMAIN c PROVE c[i] # j.r
    <3>1. c[i].n = last + i /\ i \in Nat /\ i > 0 BY <2>1, <2>3
    <3>2. c[i].n # j.r.n BY <2>4, <2>6, <3>1
    <3> QED BY <3>2
  <2>8. ASSUME NEW i \in 1 .. n, IsReactionOf(g.queue[i], q) PROVE g.queue[i].r # j.r
    <3>1. i + 1 \in Qd /\ 1 < i + 1 /\ g.queue[i] = h.queue[i + 1] BY <1>1, <1>3, <2>8
    <3>2. h.queue[1].r.n < h.queue[i + 1].r.n BY <2>1, <2>2, <3>1
    <3>3. j.r.n < g.queue[i].r.n BY <1>1, <3>1, <3>2
    <3> QED BY <2>6, <3>3
  <2> QED BY <2>7, <2>8 DEF s
<1>7. ASSUME At(g, q, r) PROVE At(h, q, r) /\ ~(IsReactionOf(j, q) /\ r = j.r)
  <2>1. CASE \E i \in DOMAIN g.queue : IsReactionOf(g.queue[i], q) /\ g.queue[i].r = r
    BY <1>1, <1>3, <1>6, <2>1 DEF At
  <2>2. CASE q \in Promise(g) /\ \E i \in DOMAIN g.prom[q].cbs : g.prom[q].cbs[i] = r
    BY <1>2, <1>6, <2>2 DEF At
  <2> QED BY <1>7, <2>1, <2>2 DEF At
<1>8. ASSUME At(h, q, r), ~(IsReactionOf(j, q) /\ r = j.r) PROVE At(g, q, r)
  <2>1. CASE \E i \in DOMAIN h.queue : IsReactionOf(h.queue[i], q) /\ h.queue[i].r = r
    <3>1. PICK i \in DOMAIN h.queue : IsReactionOf(h.queue[i], q) /\ h.queue[i].r = r BY <2>1
    <3>2. i # 1 BY <1>1, <1>8, <3>1
    <3>3. i - 1 \in DOMAIN g.queue /\ g.queue[i - 1] = h.queue[i] BY <1>1, <1>4, <3>2
    <3> QED BY <3>1, <3>3 DEF At
  <2>2. CASE q \in Promise(h) /\ \E i \in DOMAIN h.prom[q].cbs : h.prom[q].cbs[i] = r
    BY <1>2, <2>2 DEF At
  <2> QED BY <1>8, <2>1, <2>2 DEF At
<1> QED BY <1>7, <1>8

\* The heap a job runs on, compared with the one before.
Took(h, g, j) ==
  /\ g \in Heap /\ g.combs = h.combs /\ Promise(g) = Promise(h) /\ j.p \in Promise(h)
  /\ \A p \in Promise(h) : g.prom[p].state = h.prom[p].state /\ g.prom[p].value = h.prom[p].value
  /\ \A q, r : At(g, q, r) <=> (At(h, q, r) /\ ~(IsReactionOf(j, q) /\ r = j.r))
  /\ j.kind = "reaction" => At(h, j.p, j.r)

LEMMA TakenTook ==
  ASSUME PInv, NEW kind, Dequeue(kind), NEW g, g = Taken, NEW j, j = Job
  PROVE  Took(heap, g, j)
<1>0. /\ stack = <<>> /\ heap.queue # <<>> /\ j = Head(heap.queue) BY DEF Dequeue, Job
<1>1. All(heap, <<>>, {}, {}, {}) /\ heap \in Heap BY <1>0, PInvParts
<1>2. JobsOK(heap) /\ InOrderAll(heap) BY <1>1 DEF All, Core
<1>3. heap.queue \in Seq(JobRec) BY <1>1, Parts
<1>4. j = heap.queue[1] /\ 1 \in DOMAIN heap.queue
  <2>1. PICK n : n = Len(heap.queue) OBVIOUS
  <2>2. j = heap.queue[1] /\ n >= 1 /\ n \in Nat /\ DOMAIN heap.queue = 1 .. n BY <1>0, <1>3, <2>1, Tailed, Indices
  <2> QED BY <2>2
<1>5. j.p \in Promise(heap) BY <1>2, <1>4 DEF JobsOK, JobOK
<1>6. g = [heap EXCEPT !.queue = Tail(@), !.gen = j.gen, !.prom[j.p].ran = IF j.kind = "adopt" THEN @ ELSE @ + 1]
  BY DEF Taken
<1>7. g \in Heap /\ j \in JobRec /\ \E n : Takes(heap, g, j, n) BY ONLY <1>0, <1>1, <1>5, <1>6, TakeEffect, Zenon
<1>8. PICK n : Takes(heap, g, j, n) BY <1>7
<1>9. \A q, r : At(g, q, r) <=> (At(heap, q, r) /\ ~(IsReactionOf(j, q) /\ r = j.r))
  BY ONLY <1>1, <1>2, <1>5, <1>7, <1>8, AtTakes
<1>10. /\ g.combs = heap.combs /\ Promise(g) = Promise(heap)
       /\ \A q \in Promise(heap) : g.prom[q].state = heap.prom[q].state /\ g.prom[q].value = heap.prom[q].value
  BY <1>8 DEF Takes, StateKept
<1>11. j.kind = "reaction" => At(heap, j.p, j.r) BY <1>4 DEF At, IsReactionOf
<1> QED BY <1>5, <1>7, <1>9, <1>10, <1>11 DEF Took

LEMMA CalmTook ==
  ASSUME NEW h, NEW g, NEW j, Took(h, g, j), j.kind = "reaction" => j.r.kind # "element"
  PROVE  Calm(h, g)
<1>1. Settled(h, g) /\ OutsWait(h, g) BY DEF Took, Settled, OutsWait
<1>2. SameElements(h, g) BY DEF Took, SameElements, IsReactionOf
<1> QED BY <1>1, <1>2 DEF Took, Calm

-----------------------------------------------------------------------------
(* Async generators settle the promises of requests, which no combinator   *)
(* has.                                                                    *)

Clear(h) ==
  /\ h \in Heap /\ OutsThere(h)
  /\ \A k \in DOMAIN h.ags : \A i \in DOMAIN h.ags[k].q : h.ags[k].q[i].p \in Promise(h) /\ ~IsOut(h, h.ags[k].q[i].p)

LEMMA ClearCore ==
  ASSUME NEW h, NEW st, NEW P, NEW G, NEW X, All(h, st, P, G, X)
  PROVE  Clear(h)
<1>1. h \in Heap /\ CombsOK(h, st) /\ RequestsOK(h, st) BY DEF All, Core
<1>2. OutsThere(h) BY <1>1 DEF CombsOK, CombOK, OutsThere
<1>3. \A k \in DOMAIN h.ags : \A i \in DOMAIN h.ags[k].q : h.ags[k].q[i].p \in Promise(h)
  BY <1>1, Zenon DEF RequestsOK, Owned
<1>4. \A k \in DOMAIN h.ags : \A i \in DOMAIN h.ags[k].q : ~IsOut(h, h.ags[k].q[i].p)
  BY <1>1 DEF CombsOK, CombOK, IsRequest, IsOut
<1> QED BY <1>1, <1>2, <1>3, <1>4 DEF Clear

\* A generator changes, and has no request that is a combinator's promise.
LEMMA CalmChange ==
  ASSUME NEW h, Clear(h), NEW k \in DOMAIN h.ags, NEW a \in AsyncGenRec,
         \A i \in DOMAIN a.q : a.q[i].p \in Promise(h) /\ ~IsOut(h, a.q[i].p),
         NEW g, g = [h EXCEPT !.ags = [h.ags EXCEPT ![k] = a]]
  PROVE  Clear(g) /\ Calm(h, g) /\ k \in DOMAIN g.ags /\ g.ags[k] = a
<1>0. h \in Heap BY DEF Clear
<1>1. g \in Heap /\ GenChanges(h, g, k, a) BY <1>0, GenSet
<1>2. /\ g.prom = h.prom /\ g.combs = h.combs /\ g.queue = h.queue /\ DOMAIN g.ags = DOMAIN h.ags /\ g.ags[k] = a
      /\ \A l \in DOMAIN h.ags : l # k => g.ags[l] = h.ags[l]
  BY <1>1 DEF GenChanges
<1>3. Promise(g) = Promise(h) BY <1>2 DEF Promise
<1>4. Calm(h, g) BY <1>0, <1>1, <1>2, <1>3, CalmFlags
<1>5. \A p : IsOut(g, p) <=> IsOut(h, p) BY <1>2 DEF IsOut
<1>6. \A l \in DOMAIN g.ags : \A i \in DOMAIN g.ags[l].q : g.ags[l].q[i].p \in Promise(g) /\ ~IsOut(g, g.ags[l].q[i].p)
  BY <1>2, <1>3, <1>5 DEF Clear
<1>7. OutsThere(g) BY <1>2, <1>3 DEF Clear, OutsThere
<1> QED BY <1>1, <1>2, <1>4, <1>6, <1>7 DEF Clear

\* It has no requests but those it had.
LEMMA CalmGen ==
  ASSUME NEW h, Clear(h), NEW k \in DOMAIN h.ags, NEW a \in AsyncGenRec,
         \A i \in DOMAIN a.q : \E j \in DOMAIN h.ags[k].q : a.q[i].p = h.ags[k].q[j].p,
         NEW g, g = [h EXCEPT !.ags = [h.ags EXCEPT ![k] = a]]
  PROVE  Clear(g) /\ Calm(h, g) /\ k \in DOMAIN g.ags /\ g.ags[k] = a
<1>1. \A i \in DOMAIN a.q : a.q[i].p \in Promise(h) /\ ~IsOut(h, a.q[i].p) BY DEF Clear
<1> QED BY <1>1, CalmChange

LEMMA ClearStays ==
  ASSUME NEW h, Clear(h), NEW g \in Heap, Calm(h, g), g.ags = h.ags
  PROVE  Clear(g)
<1>1. \A p : IsOut(g, p) <=> IsOut(h, p) BY DEF Calm, IsOut
<1>2. OutsThere(g) BY DEF Clear, OutsThere, Calm, Settled
<1>3. \A k \in DOMAIN g.ags : \A i \in DOMAIN g.ags[k].q : g.ags[k].q[i].p \in Promise(g) /\ ~IsOut(g, g.ags[k].q[i].p)
  BY <1>1 DEF Clear, Calm, Settled
<1> QED BY <1>2, <1>3 DEF Clear

LEMMA CalmAnswer ==
  ASSUME NEW h, Clear(h), NEW k \in DOMAIN h.ags, h.ags[k].q # <<>>, NEW how \in {"yield", "end", "fail"}, NEW x \in Value,
         NEW g, g = Answer(h, k, how, x)
  PROVE  Clear(g) /\ Calm(h, g) /\ k \in DOMAIN g.ags /\ g.ags[k].q = Tail(h.ags[k].q)
<1> DEFINE b == h.ags[k]
           p == Head(b.q).p
           e == [p |-> p, how |-> how, x |-> x]
           how1 == IF how = "fail" THEN "rejected" ELSE "fulfilled"
           v == IF how = "fail" THEN x ELSE Record
<1>0. h \in Heap BY DEF Clear
<1>2. b \in AsyncGenRec BY <1>0, Parts
<1>3. b.q \in Seq([kind: {"next", "return", "throw"}, arg: Value, p: Nat]) BY <1>2, GenParts
<1>4. PICK a, h1 : a = AnsweredBy(b, e) /\ h1 = [h EXCEPT !.ags = [h.ags EXCEPT ![k] = a]] OBVIOUS
<1>1. g = promSettle(h1, p, how1, v) BY <1>4 DEF Answer, AnsweredBy
<1>n. PICK n : n = Len(b.q) OBVIOUS
<1>5. /\ n \in Nat /\ n >= 1 /\ DOMAIN b.q = 1 .. n /\ Head(b.q) = b.q[1] /\ Head(b.q) \in [kind: {"next", "return", "throw"}, arg: Value, p: Nat]
      /\ DOMAIN Tail(b.q) = 1 .. n - 1 /\ \A i \in 1 .. n - 1 : Tail(b.q)[i] = b.q[i + 1]
  BY <1>3, <1>n, Tailed, Indices, Zenon
<1>6. p \in Nat /\ p = b.q[1].p /\ 1 \in DOMAIN b.q BY <1>5
<1>7. e \in SaidRec BY <1>6 DEF SaidRec
<1>8. a \in AsyncGenRec /\ a.q = Tail(b.q) BY <1>2, <1>4, <1>7, ShiftedRec, Zenon
<1>9. \A i \in DOMAIN a.q : \E j \in DOMAIN b.q : a.q[i].p = b.q[j].p
  <2>1. \A i \in 1 .. n - 1 : i + 1 \in 1 .. n BY <1>5
  <2> QED BY <1>5, <1>8, <2>1
<1>10. p \in Promise(h) /\ ~IsOut(h, p) BY <1>6 DEF Clear
<1>11. how1 \in {"fulfilled", "rejected"} /\ v \in Value BY DEF Value
<1> HIDE DEF p, e, how1, v
<1>a. a \in AsyncGenRec BY <1>8
<1>b. h1 = [h EXCEPT !.ags = [h.ags EXCEPT ![k] = a]] BY <1>4
<1>12. Clear(h1) /\ Calm(h, h1) /\ k \in DOMAIN h1.ags /\ h1.ags[k] = a
  BY ONLY Clear(h), k \in DOMAIN h.ags, <1>a, <1>b, <1>9, CalmGen
<1>13. p \in Promise(h1) /\ ~IsOut(h1, p) /\ h1 \in Heap BY <1>10, <1>12 DEF Calm, Settled, IsOut, Clear
<1>14. g \in Heap /\ Calm(h1, g) /\ g.ags = h1.ags BY <1>1, <1>11, <1>13, CalmSettles
<1>15. Clear(g) BY <1>12, <1>14, ClearStays
<1>16. Calm(h, g) BY <1>12, <1>14, CalmThen
<1> QED BY <1>8, <1>12, <1>14, <1>15, <1>16

\* Generator k of heap g, which h has become, has l requests to answer.
Answerable(h, g, k, l) == Clear(g) /\ Calm(h, g) /\ k \in DOMAIN g.ags /\ Len(g.ags[k].q) = l

LEMMA AnswersOne ==
  ASSUME NEW h, NEW g, NEW k, NEW l \in Nat, l # 0, Answerable(h, g, k, l),
         NEW r \in [kind: {"next", "return", "throw"}, arg: Value, p: Nat], NEW f, f = AnswerThis(g, k, r)
  PROVE  Answerable(h, f, k, l - 1)
<1> DEFINE how == IF r.kind = "throw" THEN "fail" ELSE "end"
           x == IF r.kind = "next" THEN Undef ELSE r.arg
           q == g.ags[k].q
<1>1. how \in {"yield", "end", "fail"} /\ x \in Value BY DEF Value
<1>2. f = Answer(g, k, how, x) BY DEF AnswerThis
<1> HIDE DEF how, x
<1>3. Clear(g) /\ Calm(h, g) /\ k \in DOMAIN g.ags /\ Len(q) = l BY DEF Answerable
<1>4. q \in Seq([kind: {"next", "return", "throw"}, arg: Value, p: Nat])
  <2>1. g.ags[k] \in AsyncGenRec BY <1>3, Parts DEF Clear
  <2> QED BY <2>1, GenParts
<1>5. q # <<>> BY <1>3, <1>4, Indices
<1>6. Len(Tail(q)) = l - 1 BY <1>3, <1>4, <1>5, Tailed
<1>7. Clear(f) /\ Calm(g, f) /\ k \in DOMAIN f.ags /\ f.ags[k].q = Tail(q) BY <1>1, <1>2, <1>3, <1>5, CalmAnswer
<1>8. Calm(h, f) BY <1>3, <1>7, CalmThen
<1> QED BY <1>6, <1>7, <1>8 DEF Answerable

LEMMA CalmAnswerAll ==
  ASSUME NEW h, Clear(h), NEW k \in DOMAIN h.ags, NEW g, g = AnswerAll(h, k)
  PROVE  Calm(h, g)
<1> DEFINE b == h.ags[k]
           q == b.q
           L == Len(q)
           f == Answering(h, k)
<1>0. h \in Heap BY DEF Clear
<1>1. b \in AsyncGenRec BY <1>0, Parts
<1>2. q \in Seq([kind: {"next", "return", "throw"}, arg: Value, p: Nat]) BY <1>1, GenParts
<1>3. L \in Nat /\ DOMAIN q = 1 .. L /\ \A i \in 1 .. L : q[i] \in [kind: {"next", "return", "throw"}, arg: Value, p: Nat]
  BY <1>2, Indices
<1>4. Goes0(f, h, k, q) BY <1>3, AnsweringUnfolds
<1>5. g = f[L] BY DEF AnswerAll
<1> HIDE DEF f
<1>6. Answerable(h, f[0], k, L)
  <2>1. PICK a, c : a = [b EXCEPT !.done = TRUE] /\ c = ClosedHeap(h, k) OBVIOUS
  <2>2. f[0] = c BY <1>3, <1>4, <2>1 DEF Goes0
  <2>3. a \in AsyncGenRec /\ a.q = q BY <1>1, <2>1, GenRecs, Zenon DEF AsyncGenRec
  <2>4. c = [h EXCEPT !.ags = [h.ags EXCEPT ![k] = a]] BY <2>1 DEF ClosedHeap
  <2>5. \A i \in DOMAIN a.q : \E j \in DOMAIN h.ags[k].q : a.q[i].p = h.ags[k].q[j].p BY <2>3
  <2>6. Clear(c) /\ Calm(h, c) /\ k \in DOMAIN c.ags /\ c.ags[k] = a
    BY ONLY Clear(h), k \in DOMAIN h.ags, <2>3, <2>4, <2>5, CalmGen
  <2> QED BY <2>2, <2>3, <2>6 DEF Answerable
<1> DEFINE S == {n \in Nat : n <= L => Answerable(h, f[n], k, L - n)}
<1>7. 0 \in S BY <1>3, <1>6
<1>8. ASSUME NEW n \in Nat, n \in S PROVE n + 1 \in S
  <2> SUFFICES ASSUME n + 1 <= L PROVE Answerable(h, f[n + 1], k, L - (n + 1)) OBVIOUS
  <2> DEFINE m == n + 1
             l == L - n
  <2>1. m \in 0 .. L /\ m # 0 /\ m - 1 = n /\ m \in 1 .. L /\ l \in Nat /\ l # 0 /\ L - m = l - 1 BY <1>3
  <2>2. Answerable(h, f[n], k, l) BY <1>3, <1>8
  <2> HIDE DEF m, l
  <2>3. f[m] = AnswerThis(f[n], k, q[m]) BY <1>4, <2>1 DEF Goes0
  <2>4. Answerable(h, f[m], k, l - 1) BY <1>3, <2>1, <2>2, <2>3, AnswersOne
  <2> QED BY <2>1, <2>4 DEF m
<1> HIDE DEF S
<1>9. Nat \subseteq S BY <1>7, <1>8, Induction
<1>10. Answerable(h, f[L], k, L - L) BY <1>3, <1>9 DEF S
<1> QED BY <1>5, <1>10 DEF Answerable

\* No code in st registers the elements of a combinator.
NoLoops(st) == \A i \in DOMAIN st : st[i].kind # "combine"

\* What agPump and its like give.
CalmCalls(h, r) ==
  /\ Calm(h, r.heap)
  /\ \/ r.frames = <<>>
     \/ \E f \in FrameRec : f.kind # "combine" /\ r.frames = <<f>>

LEMMA CalmPump ==
  ASSUME NEW h, Clear(h), NEW k \in DOMAIN h.ags, NEW r, r = agPump(h, k)
  PROVE  CalmCalls(h, r)
<1> DEFINE b == h.ags[k]
           req == Head(b.q)
           serves == [h EXCEPT !.ags[k].run = TRUE]
           waits == b.q # <<>> /\ ~b.run
<1>0. h \in Heap BY DEF Clear
<1>1. b \in AsyncGenRec /\ k \in Nat BY <1>0, Parts
<1>2. b.q \in Seq([kind: {"next", "return", "throw"}, arg: Value, p: Nat]) BY <1>1, GenParts
<1>3. b.q # <<>> => req \in [kind: {"next", "return", "throw"}, arg: Value, p: Nat] BY <1>2, Tailed
<1>4. CASE ~waits
  <2>1. r = Calls(h, <<>>) BY <1>4 DEF agPump
  <2> QED BY <2>1, CalmSelf DEF Calls, CalmCalls
<1>5. CASE waits /\ (b.done \/ (~b.started /\ req.kind # "next"))
  <2>1. r = Calls(AnswerAll(h, k), <<>>) BY <1>5 DEF agPump
  <2>2. r.heap = AnswerAll(h, k) /\ r.frames = <<>> BY <2>1 DEF Calls
  <2> QED BY <2>2, CalmAnswerAll DEF CalmCalls
<1>6. CASE waits /\ ~b.done /\ b.started /\ req.kind = "return"
  <2>1. PICK a1, a, h1, f : /\ a1 = [b EXCEPT !.run = TRUE] /\ a = [a1 EXCEPT !.done = TRUE]
                            /\ h1 = [serves EXCEPT !.ags[k].done = TRUE] /\ f = Frame("agclose", k, TRUE, Undef)
    OBVIOUS
  <2>2. r = Calls(h1, <<f>>) BY <1>6, <2>1 DEF agPump
  <2>3. r.heap = h1 /\ r.frames = <<f>> BY ONLY <2>2, CallsParts
  <2>4. a1 \in AsyncGenRec BY <1>1, <2>1, GenRecs
  <2>5. a \in AsyncGenRec BY <2>1, <2>4, GenRecs
  <2>6. a.q = b.q BY <1>1, <2>1 DEF AsyncGenRec
  <2>7. h1 = [h EXCEPT !.ags = [h.ags EXCEPT ![k] = a]] BY <1>0, <2>1 DEF Heap
  <2>8. \A i \in DOMAIN a.q : \E j \in DOMAIN h.ags[k].q : a.q[i].p = h.ags[k].q[j].p BY <2>6
  <2>9. Calm(h, h1) BY ONLY Clear(h), k \in DOMAIN h.ags, <2>5, <2>7, <2>8, CalmGen
  <2>10. f \in FrameRec /\ f.kind # "combine" BY <1>1, <2>1 DEF Frame, FrameRec, Value
  <2> QED BY <2>3, <2>9, <2>10 DEF CalmCalls
<1>7. CASE waits /\ ~b.done /\ ~(b.started /\ req.kind = "return") /\ ~(~b.started /\ req.kind # "next")
  <2>0. /\ ~(~waits) /\ ~(waits /\ (b.done \/ (~b.started /\ req.kind # "next")))
        /\ ~(waits /\ ~b.done /\ b.started /\ req.kind = "return")
    BY <1>7
  <2>1. PICK a1, a, h1, f : /\ a1 = [b EXCEPT !.run = TRUE] /\ a = [a1 EXCEPT !.started = TRUE]
                            /\ h1 = [serves EXCEPT !.ags[k].started = TRUE]
                            /\ f = Frame("agen", k, req.kind = "next", req.arg)
    OBVIOUS
  <2>c. r = Calls([serves EXCEPT !.ags[k].started = TRUE], <<Frame("agen", k, req.kind = "next", req.arg)>>)
    BY <2>0 DEF agPump
  <2>2. r = Calls(h1, <<f>>) BY <2>1, <2>c
  <2>3. r.heap = h1 /\ r.frames = <<f>> BY ONLY <2>2, CallsParts
  <2>4. a1 \in AsyncGenRec BY <1>1, <2>1, GenRecs
  <2>5. a \in AsyncGenRec BY <2>1, <2>4, GenRecs
  <2>6. a.q = b.q BY <1>1, <2>1 DEF AsyncGenRec
  <2>7. h1 = [h EXCEPT !.ags = [h.ags EXCEPT ![k] = a]] BY <1>0, <2>1 DEF Heap
  <2>8. \A i \in DOMAIN a.q : \E j \in DOMAIN h.ags[k].q : a.q[i].p = h.ags[k].q[j].p BY <2>6
  <2>9. Calm(h, h1) BY ONLY Clear(h), k \in DOMAIN h.ags, <2>5, <2>7, <2>8, CalmGen
  <2>10. PICK ok \in BOOLEAN, arg \in Value : ok = (req.kind = "next") /\ arg = req.arg BY <1>3, <1>7
  <2>11. f = Frame("agen", k, ok, arg) BY <2>1, <2>10
  <2>12. f \in FrameRec /\ f.kind # "combine" BY <1>1, <2>11 DEF Frame, FrameRec
  <2> QED BY <2>3, <2>9, <2>12 DEF CalmCalls
<1> HIDE DEF b, req, serves
<1> QED BY <1>4, <1>5, <1>6, <1>7

LEMMA CalmRequest ==
  ASSUME NEW h, Clear(h), NEW k \in DOMAIN h.ags,
         NEW kind \in {"next", "return", "throw"}, NEW x \in Value, NEW res, res = agReq(h, k, kind, x)
  PROVE  CalmCalls(h, res)
<1>0. h \in Heap BY DEF Clear
<1>1. PICK n, s, h1 : n = Len(h.prom) + 1 /\ s = NewPromise /\ h1 = [h EXCEPT !.prom = Append(@, s)] OBVIOUS
<1>2. /\ h1 \in Heap /\ Calm(h, h1) /\ h1.ags = h.ags
      /\ n \in Promise(h1) /\ n \notin Promise(h) /\ n = Len(h1.prom)
  BY <1>0, <1>1, CalmMakes
<1>3. Clear(h1) BY <1>2, ClearStays
<1>4. ~IsOut(h1, n) BY <1>2 DEF IsOut, Clear, OutsThere, Calm
<1>5. k \in DOMAIN h1.ags BY <1>2
<1>6. PICK b, r, a1, a, g : /\ b = h1.ags[k] /\ r = [kind |-> kind, arg |-> x, p |-> n]
                            /\ a1 = [b EXCEPT !.q = Append(@, r)] /\ a = [a1 EXCEPT !.reqs = Append(@, n)]
                            /\ g = [h1 EXCEPT !.ags[k].q = Append(@, r), !.ags[k].reqs = Append(@, n)]
  OBVIOUS
<1>7. res = agPump(g, k)
  <2>1. promNew(h) = h1 BY <1>1 DEF promNew
  <2> QED BY <1>2, <1>6, <2>1 DEF agReq, Last1
<1>8. b \in AsyncGenRec BY <1>2, <1>5, <1>6, Parts
<1>9. b.q \in Seq([kind: {"next", "return", "throw"}, arg: Value, p: Nat]) /\ b.reqs \in Seq(Nat) BY <1>8, GenParts
<1>10. n \in Nat BY <1>2, Parts
<1>11. r \in [kind: {"next", "return", "throw"}, arg: Value, p: Nat] /\ r.p = n BY <1>6, <1>10
<1>12. Append(b.q, r) \in Seq([kind: {"next", "return", "throw"}, arg: Value, p: Nat]) /\ Append(b.reqs, n) \in Seq(Nat)
  BY <1>9, <1>10, <1>11, Appended
<1>13. a1 \in AsyncGenRec BY <1>6, <1>8, <1>12, GenRecs
<1>14. a1.reqs = b.reqs /\ a1.q = Append(b.q, r) BY <1>6, <1>8 DEF AsyncGenRec
<1>15. a \in AsyncGenRec BY <1>6, <1>12, <1>13, <1>14, GenRecs
<1>16. a.q = Append(b.q, r) BY <1>6, <1>13, <1>14 DEF AsyncGenRec
<1>17. g = [h1 EXCEPT !.ags = [h1.ags EXCEPT ![k] = a]]
  <2>1. h1.ags \in Seq(AsyncGenRec) BY <1>2, Parts
  <2> QED BY <1>2, <1>5, <1>6, <1>8, <2>1 DEF Heap, AsyncGenRec
<1>18. \A i \in DOMAIN a.q : a.q[i].p \in Promise(h1) /\ ~IsOut(h1, a.q[i].p)
  <2>1. PICK m : m = Len(b.q) OBVIOUS
  <2>2. /\ m \in Nat /\ DOMAIN b.q = 1 .. m /\ DOMAIN a.q = 1 .. m + 1 /\ a.q[m + 1] = r
        /\ \A i \in 1 .. m : a.q[i] = b.q[i]
    BY <1>9, <1>11, <1>16, <2>1, Appended, Indices
  <2>3. \A i \in 1 .. m + 1 : i \in 1 .. m \/ i = m + 1 BY <2>2
  <2>4. \A i \in 1 .. m : b.q[i].p \in Promise(h1) /\ ~IsOut(h1, b.q[i].p) BY <1>3, <1>5, <1>6, <2>2 DEF Clear
  <2> QED BY <1>2, <1>4, <1>11, <2>2, <2>3, <2>4
<1>19. Clear(g) /\ Calm(h1, g) /\ k \in DOMAIN g.ags BY ONLY <1>3, <1>5, <1>15, <1>17, <1>18, CalmChange
<1>20. CalmCalls(g, res) BY <1>7, <1>19, CalmPump
<1>21. Calm(h, g) BY <1>2, <1>19, CalmThen
<1> QED BY <1>20, <1>21, CalmThen DEF CalmCalls

LEMMA CalmComplete ==
  ASSUME NEW h, Clear(h), NEW k \in DOMAIN h.ags, h.ags[k].q # <<>>, NEW how \in {"yield", "end", "fail"}, NEW x \in Value,
         NEW res, res = agComplete(h, k, how, x)
  PROVE  CalmCalls(h, res)
<1>0. h \in Heap BY DEF Clear
<1>1. PICK b : b = h.ags[k] OBVIOUS
<1>2. b \in AsyncGenRec BY <1>0, <1>1, Parts
<1>3. PICK d \in BOOLEAN : d = (b.done \/ how # "yield") OBVIOUS
<1>4. PICK a, h1 : a = [b EXCEPT !.done = d] /\ h1 = [h EXCEPT !.ags = [h.ags EXCEPT ![k] = a]] OBVIOUS
<1>5. a \in AsyncGenRec /\ a.q = b.q BY <1>2, <1>4, GenRecs DEF AsyncGenRec
<1>6. h1 = [h EXCEPT !.ags[k].done = @ \/ how # "yield"] BY <1>0, <1>1, <1>3, <1>4 DEF Heap
<1>7. PICK g : g = Answer(h1, k, how, x) OBVIOUS
<1>8. res = agPump(g, k) BY <1>6, <1>7 DEF agComplete
<1>9. \A i \in DOMAIN a.q : \E j \in DOMAIN h.ags[k].q : a.q[i].p = h.ags[k].q[j].p BY <1>1, <1>5
<1>a. h1 = [h EXCEPT !.ags = [h.ags EXCEPT ![k] = a]] BY <1>4
<1>10. Clear(h1) /\ Calm(h, h1) /\ k \in DOMAIN h1.ags /\ h1.ags[k] = a
  BY ONLY Clear(h), k \in DOMAIN h.ags, <1>5, <1>a, <1>9, CalmGen
<1>11. h1.ags[k].q # <<>> BY <1>1, <1>5, <1>10
<1>12. Clear(g) /\ Calm(h1, g) /\ k \in DOMAIN g.ags BY <1>7, <1>10, <1>11, CalmAnswer
<1>13. CalmCalls(g, res) BY <1>8, <1>12, CalmPump
<1>14. Calm(h, g) BY <1>10, <1>12, CalmThen
<1> QED BY <1>13, <1>14, CalmThen DEF CalmCalls

-----------------------------------------------------------------------------
(* The loop of a combinator runs no code of the program: its frame is the  *)
(* last one while there is one.                                            *)

OnlyTop(st) == \A i \in DOMAIN st : st[i].kind = "combine" => i = Len(st)

LEMMA StackFront ==
  ASSUME NEW st \in Seq(FrameRec), st # <<>>, OnlyTop(st)
  PROVE  NoLoops(Front(st)) /\ (Last(st).kind # "combine" => NoLoops(st))
<1>1. PICK n : n = Len(st) OBVIOUS
<1>2. /\ n \in Nat /\ n >= 1 /\ DOMAIN st = 1 .. n /\ DOMAIN Front(st) = 1 .. n - 1
      /\ (\A i \in 1 .. n - 1 : Front(st)[i] = st[i]) /\ Last(st) = st[n]
  BY <1>1, Fronted
<1>3. \A i \in 1 .. n - 1 : i \in 1 .. n /\ i # n BY <1>2
<1>4. \A i \in 1 .. n : st[i].kind = "combine" => i = n BY <1>1, <1>2 DEF OnlyTop
<1>5. NoLoops(Front(st)) BY <1>2, <1>3, <1>4 DEF NoLoops
<1>6. Last(st).kind # "combine" => NoLoops(st) BY <1>2, <1>4 DEF NoLoops
<1> QED BY <1>5, <1>6

LEMMA StackPush ==
  ASSUME NEW st \in Seq(FrameRec), NoLoops(st), NEW f, f.kind # "combine"
  PROVE  NoLoops(Append(st, f)) /\ NoLoops(<<f>>)
<1>1. PICK S : S = FrameRec \cup {f} OBVIOUS
<1>2. st \in Seq(S) /\ f \in S BY <1>1
<1>3. PICK n, t : n = Len(st) /\ t = Append(st, f) OBVIOUS
<1>4. /\ n \in Nat /\ DOMAIN st = 1 .. n /\ DOMAIN t = 1 .. n + 1
      /\ (\A i \in 1 .. n : t[i] = st[i]) /\ t[n + 1] = f
  BY <1>2, <1>3, Appended, Indices
<1>5. \A i \in 1 .. n + 1 : i \in 1 .. n \/ i = n + 1 BY <1>4
<1>6. NoLoops(t) BY <1>4, <1>5 DEF NoLoops
<1>7. NoLoops(<<f>>) BY DEF NoLoops
<1> QED BY <1>3, <1>6, <1>7

LEMMA StackCalls ==
  ASSUME NEW st \in Seq(FrameRec), NoLoops(st), NEW h, NEW r, CalmCalls(h, r)
  PROVE  NoLoops(st \o r.frames) /\ Calm(h, r.heap)
<1>1. CASE r.frames = <<>> BY <1>1, Joins1 DEF CalmCalls
<1>2. CASE \E f \in FrameRec : f.kind # "combine" /\ r.frames = <<f>>
  <2>1. PICK f \in FrameRec : f.kind # "combine" /\ r.frames = <<f>> BY <1>2
  <2>2. st \o r.frames = Append(st, f) BY <2>1, Joins1
  <2> QED BY <2>1, <2>2, StackPush DEF CalmCalls
<1> QED BY <1>1, <1>2 DEF CalmCalls

LEMMA EmptyLoops == NoLoops(<<>>) /\ OnlyTop(<<>>)
BY DEF NoLoops, OnlyTop

\* A step that has nothing to do with combinators, the stack included.
Aside == Calm(heap, heap') /\ NoLoops(stack) /\ NoLoops(stack')

LEMMA RunningFacts ==
  ASSUME PInv, OnlyTop(stack), Running, NEW f, f = Last(stack), NEW s, s = Front(stack)
  PROVE  /\ stack # <<>> /\ f.kind # "combine" /\ NoLoops(stack) /\ NoLoops(s)
         /\ stack \in Seq(FrameRec) /\ s \in Seq(FrameRec) /\ f = Top /\ s = Pop
<1>1. stack # <<>> /\ f.kind # "combine" /\ f = Top /\ s = Pop BY DEF Running, Top, Pop
<1>2. stack \in Seq(FrameRec) BY PInvParts
<1>3. s \in Seq(FrameRec) BY <1>1, <1>2, FrontedFrames
<1> QED BY <1>1, <1>2, <1>3, StackFront

LEMMA ProgramHeap ==
  ASSUME PInv
  PROVE  Clear(heap) /\ heap \in Heap /\ OutsThere(heap)
<1>1. All(heap, stack, {}, {}, {}) BY PInvParts
<1>2. Clear(heap) BY <1>1, ClearCore
<1> QED BY <1>2 DEF Clear

\* What the program does leaves the stack, or puts a frame on it.
LEMMA AsideStays ==
  ASSUME PInv, OnlyTop(stack), Running, NEW g, Calm(heap, g), heap' = g, stack' = stack
  PROVE  Aside
<1>1. PICK f, s : f = Last(stack) /\ s = Front(stack) OBVIOUS
<1>2. NoLoops(stack) BY <1>1, RunningFacts
<1> QED BY <1>2 DEF Aside

LEMMA AsidePushes ==
  ASSUME PInv, OnlyTop(stack), Running, NEW g, Calm(heap, g), heap' = g,
         NEW f, f.kind # "combine", stack' = Append(stack, f)
  PROVE  Aside
<1>1. PICK e, s : e = Last(stack) /\ s = Front(stack) OBVIOUS
<1>2. NoLoops(stack) /\ stack \in Seq(FrameRec) BY <1>1, RunningFacts
<1>3. NoLoops(stack') BY <1>2, StackPush
<1> QED BY <1>2, <1>3 DEF Aside

LEMMA AsidePops ==
  ASSUME PInv, OnlyTop(stack), Running, NEW g, Calm(heap, g), heap' = g, stack' = Pop
  PROVE  Aside
<1>1. PICK f, s : f = Last(stack) /\ s = Front(stack) OBVIOUS
<1>2. NoLoops(stack) /\ NoLoops(s) /\ s = Pop BY <1>1, RunningFacts
<1> QED BY <1>2 DEF Aside

LEMMA AsideNew ==
  ASSUME PInv, OnlyTop(stack), New \/ CallAsync
  PROVE  Aside
<1>1. PICK n, s, g : /\ n = Len(heap.prom) + 1 /\ (s = NewPromise \/ s = [NewPromise EXCEPT !.cap = TRUE])
                     /\ g = [heap EXCEPT !.prom = Append(@, s)] /\ heap' = g
  BY DEF New, CallAsync, promNew
<1>2. heap \in Heap BY ProgramHeap
<1>3. Calm(heap, g) BY <1>1, <1>2, CalmMakes
<1>4. PICK f : f.kind # "combine" /\ stack' = Append(stack, f)
  <2>1. Frame("executor", Last1(heap) + 1, TRUE, Undef).kind = "executor" BY DEF Frame
  <2>2. Frame("async", Last1(heap) + 1, TRUE, Undef).kind = "async" BY DEF Frame
  <2> QED BY <2>1, <2>2 DEF New, CallAsync
<1>5. Running BY DEF New, CallAsync, Does
<1> QED BY <1>1, <1>3, <1>4, <1>5, AsidePushes

\* The mark is history.
LEMMA CalmMark ==
  ASSUME PInv, NEW p \in Promise(heap), heap.prom[p].cap, NEW h, h = Again(heap, p)
  PROVE  h \in Heap /\ Calm(heap, h) /\ Promise(h) = Promise(heap) /\ ~IsOut(h, p)
<1>1. heap \in Heap /\ All(heap, stack, {}, {}, {}) BY PInvParts
<1>2. h \in Heap /\ Promise(h) = Promise(heap) /\ ~IsOut(h, p) BY <1>1, MarkAll
<1>3. h = [heap EXCEPT !.prom[p].again = @ \/ heap.prom[p].fate # Undef] BY DEF Again
<1>4. heap.prom \in Seq(PromiseRec) /\ DOMAIN heap.prom = Promise(heap) /\ (\A q \in Promise(heap) : heap.prom[q] \in PromiseRec)
      /\ heap = [prom |-> heap.prom, combs |-> heap.combs, ags |-> heap.ags, queue |-> heap.queue, gen |-> heap.gen]
  BY <1>1, Parts DEF Promise
<1>5. h.combs = heap.combs /\ h.queue = heap.queue BY <1>3, <1>4
<1>6. \A q \in Promise(heap) : /\ h.prom[q].state = heap.prom[q].state /\ h.prom[q].value = heap.prom[q].value
                               /\ h.prom[q].cbs = heap.prom[q].cbs
  <2>1. PICK b, t : b = (heap.prom[p].again \/ heap.prom[p].fate # Undef) /\ t = [heap.prom[p] EXCEPT !.again = b] OBVIOUS
  <2>2. h.prom = [heap.prom EXCEPT ![p] = t] BY <1>3, <1>4, <2>1
  <2>3. t.state = heap.prom[p].state /\ t.value = heap.prom[p].value /\ t.cbs = heap.prom[p].cbs BY <2>1
  <2>4. h.prom[p] = t /\ \A q \in Promise(heap) : q # p => h.prom[q] = heap.prom[q] BY <1>4, <2>2 DEF Promise
  <2> QED BY <2>3, <2>4
<1>7. Calm(heap, h) BY <1>1, <1>2, <1>5, <1>6, CalmFlags
<1> QED BY <1>2, <1>7

LEMMA AsideResolve ==
  ASSUME PInv, OnlyTop(stack), NEW p \in Promise(heap), NEW x \in Anything, Resolve(p, x)
  PROVE  Aside
<1>1. PICK h, g : h = Again(heap, p) /\ g = promResolve(h, p, x) OBVIOUS
<1>2. h \in Heap /\ Calm(heap, h) /\ Promise(h) = Promise(heap) /\ ~IsOut(h, p) BY <1>1, CalmMark DEF Resolve
<1>3. x \in Value BY AnythingIsSound
<1>4. Calm(h, g) BY <1>1, <1>2, <1>3, CalmResolves
<1>5. Calm(heap, g) BY <1>2, <1>4, CalmThen
<1>6. heap' = g /\ stack' = stack /\ Running BY <1>1 DEF Resolve, Does
<1> QED BY <1>5, <1>6, AsideStays

LEMMA AsideReject ==
  ASSUME PInv, OnlyTop(stack), NEW p \in Promise(heap), NEW v \in Reason, Reject(p, v)
  PROVE  Aside
<1>1. PICK h, g, how : h = Again(heap, p) /\ how = "rejected" /\ g = promSettle(h, p, how, v) OBVIOUS
<1>2. h \in Heap /\ Calm(heap, h) /\ Promise(h) = Promise(heap) /\ ~IsOut(h, p) BY <1>1, CalmMark DEF Reject
<1>3. v \in Value BY PlainIsFinal
<1>4. Calm(h, g) BY <1>1, <1>2, <1>3, CalmSettles
<1>5. Calm(heap, g) BY <1>2, <1>4, CalmThen
<1>6. heap' = g /\ stack' = stack /\ Running BY <1>1 DEF Reject, Does
<1> QED BY <1>5, <1>6, AsideStays

LEMMA AsideThen ==
  ASSUME PInv, OnlyTop(stack), NEW p \in Promise(heap), NEW f \in BOOLEAN, NEW r \in BOOLEAN, Then(p, f, r) \/ Finally(p)
  PROVE  Aside
<1>1. PICK kind \in {"then", "finally"}, f1 \in BOOLEAN, r1 \in BOOLEAN : heap' = Derive(heap, p, kind, f1, r1)
  BY DEF Then, Finally
<1>2. PICK n, s, h : n = Len(heap.prom) + 1 /\ s = NewPromise /\ h = [heap EXCEPT !.prom = Append(@, s)] OBVIOUS
<1>3. heap \in Heap BY ProgramHeap
<1>4. h \in Heap /\ Calm(heap, h) /\ n \in Promise(h) /\ n = Len(h.prom) /\ Promise(h) = Promise(heap) \cup {n}
  BY <1>2, <1>3, CalmMakes
<1>5. PICK c, g : c = Reaction(kind, f1, r1, n, 0) /\ g = promThen(h, p, c) OBVIOUS
<1>6. heap' = g BY <1>1, <1>2, <1>4, <1>5 DEF Derive, promNew, Last1
<1>7. n \in Nat BY <1>4, Parts
<1>8. c \in ReactionRec /\ c.kind # "element" BY <1>5, <1>7 DEF Reaction, ReactionRec
<1>9. p \in Promise(h) BY <1>4
<1>10. Calm(h, g) BY <1>4, <1>5, <1>8, <1>9, CalmReacts
<1>11. Calm(heap, g) BY <1>4, <1>10, CalmThen
<1>12. stack' = stack /\ Running BY DEF Then, Finally, Does
<1> QED BY <1>6, <1>11, <1>12, AsideStays

LEMMA AsideStatic ==
  ASSUME PInv, OnlyTop(stack), NEW x \in Anything, StaticResolve(x)
  PROVE  Aside
<1>1. PICK g : g = promResolveValue(heap, x) OBVIOUS
<1>2. x \in Value BY AnythingIsSound
<1>3. Calm(heap, g) BY <1>1, <1>2, ProgramHeap, CalmResolveValue
<1>4. heap' = g /\ stack' = stack /\ Running BY <1>1 DEF StaticResolve, Does
<1> QED BY <1>3, <1>4, AsideStays

LEMMA AsideStaticReject ==
  ASSUME PInv, OnlyTop(stack), NEW v \in Reason, StaticReject(v)
  PROVE  Aside
<1>1. PICK n, s, h, how, g : /\ n = Len(heap.prom) + 1 /\ s = NewPromise /\ h = [heap EXCEPT !.prom = Append(@, s)]
                             /\ how = "rejected" /\ g = promSettle(h, n, how, v)
  OBVIOUS
<1>2. heap \in Heap /\ OutsThere(heap) BY ProgramHeap
<1>3. h \in Heap /\ Calm(heap, h) /\ n \in Promise(h) /\ n \notin Promise(heap) BY <1>1, <1>2, CalmMakes
<1>4. ~IsOut(h, n) BY <1>2, <1>3 DEF IsOut, OutsThere, Calm
<1>5. v \in Value BY PlainIsFinal
<1>6. Calm(h, g) BY <1>1, <1>3, <1>4, <1>5, CalmSettles
<1>7. Calm(heap, g) BY <1>3, <1>6, CalmThen
<1>8. heap' = g /\ stack' = stack /\ Running BY <1>1 DEF StaticReject, Does, promNew, Last1
<1> QED BY <1>7, <1>8, AsideStays

\* What is awaited or handed over settles nobody's promise.
LEMMA CalmWaits ==
  ASSUME PInv, NEW x \in Value, NEW c \in ReactionRec, c.kind # "element",
         NEW g, g = promThen(promResolveValue(heap, x), Resolved(heap, x), c)
  PROVE  Calm(heap, g)
<1>1. PICK h, q : h = promResolveValue(heap, x) /\ q = Resolved(heap, x) OBVIOUS
<1>2. h \in Heap /\ Calm(heap, h) /\ q \in Promise(h) BY <1>1, ProgramHeap, CalmResolveValue
<1>3. g = promThen(h, q, c) BY <1>1
<1>4. Calm(h, g) BY <1>2, <1>3, CalmReacts
<1> QED BY <1>2, <1>4, CalmThen

LEMMA AsideAwait ==
  ASSUME PInv, OnlyTop(stack), NEW x \in Anything, Await(x) \/ AgAwait(x) \/ Yield(x)
  PROVE  Aside
<1>1. PICK kind \in {"await", "agawait", "agyield"} :
        heap' = promThen(promResolveValue(heap, x), Resolved(heap, x), Reaction(kind, TRUE, TRUE, Top.p, 0))
  BY DEF Await, AgAwait, Yield, Suspends
<1>2. stack' = Pop /\ Running BY DEF Await, AgAwait, Yield, Suspends, Does
<1>3. PICK f, s : f = Last(stack) /\ s = Front(stack) OBVIOUS
<1>4. f = Top /\ f \in FrameRec
  <2>1. stack # <<>> /\ f = Top /\ stack \in Seq(FrameRec) BY <1>2, <1>3, RunningFacts
  <2> QED BY <1>3, <2>1, FrontedFrames
<1>5. f.p \in Nat BY <1>4 DEF FrameRec
<1>6. PICK c, g : /\ c = Reaction(kind, TRUE, TRUE, f.p, 0)
                  /\ g = promThen(promResolveValue(heap, x), Resolved(heap, x), c)
  OBVIOUS
<1>7. c \in ReactionRec /\ c.kind # "element" BY <1>5, <1>6 DEF Reaction, ReactionRec
<1>8. heap' = g BY <1>1, <1>4, <1>6
<1>9. x \in Value BY AnythingIsSound
<1>10. Calm(heap, g) BY <1>6, <1>7, <1>9, CalmWaits
<1> QED BY <1>2, <1>8, <1>10, AsidePops

\* A flag of a generator, and a new generator.
LEMMA CalmAgs ==
  ASSUME NEW h \in Heap, NEW g \in Heap, g.prom = h.prom, g.combs = h.combs, g.queue = h.queue
  PROVE  Calm(h, g)
<1>1. Promise(g) = Promise(h) BY DEF Promise
<1> QED BY <1>1, CalmFlags

LEMMA AsideAsyncGen ==
  ASSUME PInv, OnlyTop(stack), AsyncGen
  PROVE  Aside
<1>1. PICK g : g = [heap EXCEPT !.ags = Append(@, NewAsyncGen)] OBVIOUS
<1>2. g \in Heap /\ heap \in Heap BY <1>1, PInvParts, NewGenAll
<1>3. g.prom = heap.prom /\ g.combs = heap.combs /\ g.queue = heap.queue BY <1>1, <1>2, Parts
<1>4. Calm(heap, g) BY <1>2, <1>3, CalmAgs
<1>5. heap' = g /\ stack' = stack /\ Running BY <1>1 DEF AsyncGen, Does
<1> QED BY <1>4, <1>5, AsideStays

LEMMA AsideCloseThrows ==
  ASSUME PInv, OnlyTop(stack), AgCloseThrows
  PROVE  Aside
<1>1. PICK g : g = [heap EXCEPT !.ags[Top.p].lost = TRUE] OBVIOUS
<1>2. heap' = g /\ stack' = Pop /\ Running BY <1>1 DEF AgCloseThrows
<1>3. g \in Heap /\ heap \in Heap
  <2>1. Good(heap', stack') BY AgCloseThrowsKeeps DEF Keeps
  <2> QED BY <1>2, <2>1, PInvParts DEF Good, All, Core
<1>4. g.prom = heap.prom /\ g.combs = heap.combs /\ g.queue = heap.queue BY <1>1, <1>3, Parts
<1>5. Calm(heap, g) BY <1>3, <1>4, CalmAgs
<1> QED BY <1>2, <1>5, AsidePops

LEMMA AsideRequest ==
  ASSUME PInv, OnlyTop(stack), NEW k \in DOMAIN heap.ags, NEW kind \in {"next", "return", "throw"}, NEW x \in Value, Request(k, kind, x)
  PROVE  Aside
<1>1. PICK r : r = agReq(heap, k, kind, x) OBVIOUS
<1>2. CalmCalls(heap, r) BY <1>1, ProgramHeap, CalmRequest
<1>3. heap' = r.heap /\ stack' = stack \o r.frames /\ Running BY <1>1 DEF Request, Goes, Does
<1>4. PICK f, s : f = Last(stack) /\ s = Front(stack) OBVIOUS
<1>5. NoLoops(stack) /\ stack \in Seq(FrameRec) BY <1>3, <1>4, RunningFacts
<1>6. NoLoops(stack \o r.frames) /\ Calm(heap, r.heap) BY <1>2, <1>5, StackCalls
<1> QED BY <1>3, <1>5, <1>6 DEF Aside

LEMMA AsideCompletes ==
  ASSUME PInv, OnlyTop(stack), Running, Top.kind \in {"agen", "agclose"}, NEW how \in {"end", "fail"}, NEW x \in Value,
         Goes(Pop, agComplete(heap, Top.p, how, x))
  PROVE  Aside
<1>1. PICK f, s, r : f = Last(stack) /\ s = Front(stack) /\ r = agComplete(heap, f.p, how, x) OBVIOUS
<1>2. /\ stack # <<>> /\ NoLoops(stack) /\ NoLoops(s) /\ s \in Seq(FrameRec) /\ f = Top /\ s = Pop
  BY <1>1, RunningFacts
<1>3. f.kind \in OfGen BY <1>2 DEF OfGen
<1>4. f.p \in DOMAIN heap.ags /\ Serving(heap, f.p) BY <1>1, <1>2, <1>3, PInvParts, PopFacts
<1>5. PICK k \in DOMAIN heap.ags : k = f.p BY <1>4
<1>6. heap.ags[k].q # <<>> BY <1>4, <1>5 DEF Serving
<1>7. how \in {"yield", "end", "fail"} OBVIOUS
<1>8. CalmCalls(heap, r) BY <1>1, <1>5, <1>6, <1>7, ProgramHeap, CalmComplete
<1>9. NoLoops(s \o r.frames) /\ Calm(heap, r.heap) BY <1>2, <1>8, StackCalls
<1>10. heap' = r.heap /\ stack' = s \o r.frames BY <1>1, <1>2 DEF Goes
<1> QED BY <1>2, <1>9, <1>10 DEF Aside

LEMMA AsideEnds ==
  ASSUME PInv, OnlyTop(stack), NEW x \in Value, AgReturn(x) \/ AgThrow(x)
  PROVE  Aside
<1>1. PICK how \in {"end", "fail"} : Goes(Pop, agComplete(heap, Top.p, how, x)) BY DEF AgReturn, AgThrow
<1>2. Running /\ Top.kind \in {"agen", "agclose"} BY DEF AgReturn, AgThrow
<1> QED BY <1>1, <1>2, AsideCompletes

LEMMA AsideClosed ==
  ASSUME PInv, OnlyTop(stack), Closed
  PROVE  Aside
<1>1. PICK f, s : f = Last(stack) /\ s = Front(stack) OBVIOUS
<1>0. Running /\ f.kind = "agclose" /\ stack # <<>> /\ f = Top BY <1>1 DEF Closed, Running, Top
<1>2. f.kind \in OfGen BY <1>0 DEF OfGen
<1>3. f.p \in DOMAIN heap.ags /\ Serving(heap, f.p) /\ heap \in Heap BY <1>0, <1>1, <1>2, PInvParts, PopFacts
<1> DEFINE x == Head(heap.ags[f.p].q).arg
<1>4. x \in Value
  <2>1. heap.ags[f.p] \in AsyncGenRec BY <1>3, Parts
  <2>2. heap.ags[f.p].q \in Seq([kind: {"next", "return", "throw"}, arg: Value, p: Nat]) BY <2>1, GenParts
  <2>3. heap.ags[f.p].q # <<>> BY <1>3 DEF Serving
  <2>4. Head(heap.ags[f.p].q) \in [kind: {"next", "return", "throw"}, arg: Value, p: Nat] BY <2>2, <2>3, Tailed
  <2> QED BY <2>4
<1>5. Goes(Pop, agComplete(heap, Top.p, "end", x)) BY <1>0 DEF Closed
<1>6. PICK how \in {"end", "fail"} : how = "end" OBVIOUS
<1>7. Goes(Pop, agComplete(heap, Top.p, how, x)) BY <1>5, <1>6
<1> HIDE DEF x
<1>8. Top.kind \in {"agen", "agclose"} BY <1>0
<1> QED BY <1>0, <1>4, <1>7, <1>8, AsideCompletes

LEMMA AsideReturn ==
  ASSUME PInv, OnlyTop(stack), NEW x \in Anything, Return(x)
  PROVE  Aside
<1>1. PICK f, s, h : f = Last(stack) /\ s = Front(stack) /\ h = heap' OBVIOUS
<1>2. Running /\ stack' = Pop BY DEF Return
<1>3. stack # <<>> /\ f = Top BY <1>1, <1>2, RunningFacts
<1>4. f.kind \notin {"combine", "agen", "agclose"} BY <1>3 DEF Return, Running, IsGenerator
<1>5. /\ heap \in Heap /\ f \in FrameRec /\ FrameOK(heap, f)
      /\ f.kind \in OfPromise => ~IsOut(heap, f.p)
      /\ f.kind \in {"async", "handler", "finally"} => f.p \in Promise(heap)
  BY <1>1, <1>3, PInvParts, PopFacts
<1>6. CASE f.kind \in {"script", "executor", "thenable"}
  <2>1. h = heap BY <1>1, <1>3, <1>6 DEF Return
  <2>2. Calm(heap, h) BY <2>1, CalmSelf
  <2> QED BY <1>1, <1>2, <2>2, AsidePops
<1>7. CASE f.kind \in {"async", "handler", "finally"}
  <2>1. f.kind \in OfPromise BY <1>7 DEF OfPromise
  <2>2. PICK p \in Promise(heap) : p = f.p /\ ~IsOut(heap, p) BY <1>5, <1>7, <2>1
  <2>3. Calm(heap, h)
    <3>1. CASE f.kind \in {"handler", "async"}
      <4>1. h = promResolve(heap, p, x) BY <1>1, <1>3, <2>2, <3>1 DEF Return
      <4>2. x \in Value BY AnythingIsSound
      <4> QED BY <1>5, <2>2, <4>1, <4>2, CalmResolves
    <3>2. CASE f.kind = "finally"
      <4>1. f.arg \in Value BY <1>5, <3>2 DEF FrameOK, FrameIsTyped
      <4>2. PICK v \in Value : v = f.arg BY <4>1
      <4>3. CASE f.ok
        <5>1. h = promResolve(heap, p, v) BY <1>1, <1>3, <2>2, <3>2, <4>2, <4>3 DEF Return
        <5> QED BY <1>5, <2>2, <5>1, CalmResolves
      <4>4. CASE ~f.ok
        <5>1. PICK how \in {"fulfilled", "rejected"} : how = "rejected" OBVIOUS
        <5>2. h = promSettle(heap, p, how, v) BY <1>1, <1>3, <2>2, <3>2, <4>2, <4>4, <5>1 DEF Return
        <5> QED BY <1>5, <2>2, <5>2, CalmSettles
      <4> QED BY <4>3, <4>4
    <3> QED BY <1>7, <3>1, <3>2
  <2> QED BY <1>1, <1>2, <2>3, AsidePops
<1>8. f.kind \in {"script", "executor", "thenable"} \/ f.kind \in {"async", "handler", "finally"}
  BY <1>4, <1>5 DEF FrameRec
<1> QED BY <1>6, <1>7, <1>8

LEMMA AsideThrow ==
  ASSUME PInv, OnlyTop(stack), NEW v \in Reason, Throw(v)
  PROVE  Aside
<1>1. PICK f, s, h, how : f = Last(stack) /\ s = Front(stack) /\ h = heap' /\ how = "rejected" OBVIOUS
<1>2. Running /\ stack' = Pop /\ v \in Value BY PlainIsFinal DEF Throw
<1>3. stack # <<>> /\ f = Top BY <1>1, <1>2, RunningFacts
<1>4. f.kind \notin {"combine", "agen", "agclose"} BY <1>3 DEF Throw, Running, IsGenerator
<1>5. /\ heap \in Heap /\ f \in FrameRec /\ FrameOK(heap, f)
      /\ f.kind \in OfPromise => ~IsOut(heap, f.p)
      /\ f.kind \in {"async", "handler", "finally"} => f.p \in Promise(heap)
  BY <1>1, <1>3, PInvParts, PopFacts
<1>6. Calm(heap, h)
  <2>1. CASE f.kind = "script"
    <3>1. h = heap BY <1>1, <1>3, <2>1 DEF Throw
    <3> QED BY <3>1, CalmSelf
  <2>2. CASE f.kind \in {"executor", "thenable"}
    <3>1. PICK p, g : p \in Promise(heap) /\ p = f.p /\ g = Again(heap, p) BY <1>5, <2>2 DEF FrameOK, FrameIsTyped
    <3>2. heap.prom[p].cap BY <1>5, <2>2, <3>1 DEF FrameOK
    <3>3. g \in Heap /\ Calm(heap, g) /\ Promise(g) = Promise(heap) /\ ~IsOut(g, p) BY <3>1, <3>2, CalmMark
    <3>4. h = promSettle(g, p, how, v) BY <1>1, <1>3, <2>2, <3>1 DEF Throw
    <3>5. p \in Promise(g) /\ how \in {"fulfilled", "rejected"} BY <1>1, <3>1, <3>3
    <3>6. Calm(g, h) BY <1>2, <3>3, <3>4, <3>5, CalmSettles
    <3> QED BY <3>3, <3>6, CalmThen
  <2>3. CASE f.kind \in {"async", "handler", "finally"}
    <3>1. f.kind \in OfPromise BY <2>3 DEF OfPromise
    <3>2. PICK p \in Promise(heap) : p = f.p /\ ~IsOut(heap, p) BY <1>5, <2>3, <3>1
    <3>3. h = promSettle(heap, p, how, v) BY <1>1, <1>3, <2>3, <3>2 DEF Throw
    <3>4. how \in {"fulfilled", "rejected"} BY <1>1
    <3> QED BY <1>2, <1>5, <3>2, <3>3, <3>4, CalmSettles
  <2>4. f.kind = "script" \/ f.kind \in {"executor", "thenable"} \/ f.kind \in {"async", "handler", "finally"}
    BY <1>4, <1>5 DEF FrameRec
  <2> QED BY <2>1, <2>2, <2>3, <2>4
<1> QED BY <1>1, <1>2, <1>6, AsidePops

\* The jobs, those of elements aside.
LEMMA TakesAside ==
  ASSUME PInv, NEW kind, Dequeue(kind), NEW g, g = Taken, NEW j, j = Job, j.kind = "reaction" => j.r.kind # "element"
  PROVE  /\ Calm(heap, g) /\ g \in Heap /\ heap \in Heap /\ TakenFor(g, j) /\ stack = <<>> /\ NoLoops(stack)
         /\ j.kind = kind /\ Clear(g)
<1>1. Took(heap, g, j) BY TakenTook
<1>2. TakenFor(g, j) /\ stack = <<>> /\ j.kind = kind BY TakenAll
<1>3. Calm(heap, g) BY <1>1, CalmTook
<1>4. All(g, <<>>, OwesP(g, j), OwesG(g, j), {}) /\ g \in Heap BY <1>2 DEF TakenFor
<1>5. Clear(g) BY <1>4, ClearCore
<1> QED BY <1>2, <1>3, <1>4, <1>5, ProgramHeap, EmptyLoops

\* The promise a job goes on for is no combinator's.
LEMMA JobsOwn ==
  ASSUME NEW g, NEW j, TakenFor(g, j), NEW p, JobGoes(j, OfPromise, p)
  PROVE  p \in Promise(g) => ~IsOut(g, p)
BY DEF TakenFor

LEMMA AsideRunHandler ==
  ASSUME PInv, RunHandler \/ RunAwait \/ RunAgAwait
  PROVE  Aside
<1>1. PICK g, j : g = Taken /\ j = Job OBVIOUS
<1>2. Dequeue("reaction") /\ j.r.kind # "element" BY <1>1 DEF RunHandler, RunAwait, RunAgAwait
<1>3. Calm(heap, g) /\ NoLoops(stack) /\ stack = <<>> BY <1>1, <1>2, TakesAside
<1>4. PICK f : f.kind # "combine" /\ stack' = <<f>>
  <2>1. \A kind : Frame(kind, j.r.to, j.ok, j.x).kind = kind BY DEF Frame
  <2>2. CASE RunHandler
    <3>1. PICK kind \in {"handler", "finally"} : stack' = <<Frame(kind, j.r.to, j.ok, j.x)>> BY <1>1, <2>2 DEF RunHandler
    <3> QED BY <2>1, <3>1
  <2>3. CASE RunAwait
    <3>1. stack' = <<Frame("async", j.r.to, j.ok, j.x)>> BY <1>1, <2>3 DEF RunAwait
    <3> QED BY <2>1, <3>1
  <2>4. CASE RunAgAwait
    <3>1. stack' = <<Frame("agen", j.r.to, j.ok, j.x)>> BY <1>1, <2>4 DEF RunAgAwait
    <3> QED BY <2>1, <3>1
  <2> QED BY <2>2, <2>3, <2>4
<1>5. NoLoops(stack') BY <1>4 DEF NoLoops
<1>6. heap' = g BY <1>1 DEF RunHandler, RunAwait, RunAgAwait
<1> QED BY <1>3, <1>5, <1>6 DEF Aside

\* A reaction that settles a promise of its own.
LEMMA SettlesAside ==
  ASSUME PInv, Dequeue("reaction"), Job.r.kind \in {"then", "settle"},
         heap' = (IF Job.ok THEN promResolve(Taken, Job.r.to, Job.x) ELSE promSettle(Taken, Job.r.to, "rejected", Job.x)),
         UNCHANGED stack
  PROVE  Aside
<1>1. PICK g, j, h, how : g = Taken /\ j = Job /\ h = heap' /\ how = "rejected" OBVIOUS
<1>2. /\ Calm(heap, g) /\ g \in Heap /\ TakenFor(g, j) /\ NoLoops(stack) /\ j.kind = "reaction"
  BY <1>1, TakesAside
<1>3. j.x \in Value /\ ReactionOK(g, j.p, j.r) BY <1>2, JobValue
<1>4. PICK p \in Promise(g) : p = j.r.to BY <1>1, <1>3 DEF ReactionOK, Owned
<1>5. ~IsOut(g, p)
  <2>1. JobGoes(j, OfPromise, p) BY <1>1, <1>2, <1>4 DEF JobGoes, GoesOn, OfPromise
  <2> QED BY <1>2, <1>4, <2>1, JobsOwn
<1>6. h = IF j.ok THEN promResolve(g, p, j.x) ELSE promSettle(g, p, how, j.x) BY <1>1, <1>4
<1>v. PICK v \in Value : v = j.x BY <1>3
<1>7. CASE j.ok
  <2>1. h = promResolve(g, p, v) BY <1>6, <1>7, <1>v
  <2>2. Calm(g, h) BY <1>2, <1>5, <2>1, CalmResolves
  <2>3. Calm(heap, h) BY <1>2, <2>2, CalmThen
  <2> QED BY <1>1, <1>2, <2>3 DEF Aside
<1>8. CASE ~j.ok
  <2>1. h = promSettle(g, p, how, v) /\ how \in {"fulfilled", "rejected"} BY <1>1, <1>6, <1>8, <1>v
  <2>2. Calm(g, h) BY <1>2, <1>5, <2>1, CalmSettles
  <2>3. Calm(heap, h) BY <1>2, <2>2, CalmThen
  <2> QED BY <1>1, <1>2, <2>3 DEF Aside
<1> QED BY <1>7, <1>8

LEMMA AsideRunPassOn ==
  ASSUME PInv, RunPassOn
  PROVE  Aside
<1>1. Dequeue("reaction") /\ Job.r.kind \in {"then", "settle"} /\ UNCHANGED stack BY DEF RunPassOn
<1>2. heap' = (IF Job.ok THEN promResolve(Taken, Job.r.to, Job.x) ELSE promSettle(Taken, Job.r.to, "rejected", Job.x))
  BY DEF RunPassOn
<1> QED BY <1>1, <1>2, SettlesAside

LEMMA AsideRunOwn ==
  ASSUME PInv, RunOwn, Job.r.kind # "element"
  PROVE  Aside
<1>1. Dequeue("reaction") /\ Job.r.kind \in {"then", "settle"} /\ UNCHANGED stack BY DEF RunOwn
<1>2. Job.r.kind = "settle" BY DEF RunOwn
<1>3. heap' = (IF Job.ok THEN promResolve(Taken, Job.r.to, Job.x) ELSE promSettle(Taken, Job.r.to, "rejected", Job.x))
  BY <1>2 DEF RunOwn
<1> QED BY <1>1, <1>3, SettlesAside

LEMMA AsideRunAgYield ==
  ASSUME PInv, RunAgYield
  PROVE  Aside
<1>1. PICK g, j : g = Taken /\ j = Job OBVIOUS
<1>2. Dequeue("reaction") /\ j.r.kind \in {"agawait", "agyield"} BY <1>1 DEF RunAgYield
<1>3. /\ Calm(heap, g) /\ Clear(g) /\ TakenFor(g, j) /\ stack = <<>> /\ NoLoops(stack) /\ j.kind = "reaction"
  BY <1>1, <1>2, TakesAside
<1>4. j.r.to \in DOMAIN g.ags /\ Serving(g, j.r.to) BY <1>2, <1>3, GenJob
<1>5. PICK how \in {"yield", "end", "fail"}, x \in Value : Goes(<<>>, agComplete(g, j.r.to, how, x))
  <2>1. j.x \in Value BY <1>3, JobValue
  <2> QED BY <1>1, <2>1 DEF RunAgYield
<1>6. PICK k, r, st : k \in DOMAIN g.ags /\ k = j.r.to /\ r = agComplete(g, k, how, x) /\ st = <<>> BY <1>4
<1>7. g.ags[k].q # <<>> BY <1>4, <1>6 DEF Serving
<1>8. CalmCalls(g, r) BY <1>3, <1>6, <1>7, CalmComplete
<1>9. st \in Seq(FrameRec) /\ NoLoops(st) BY <1>6, EmptyStack, EmptyLoops
<1>10. NoLoops(st \o r.frames) /\ Calm(g, r.heap) BY <1>8, <1>9, StackCalls
<1>11. heap' = r.heap /\ stack' = st \o r.frames BY <1>5, <1>6 DEF Goes
<1>12. Calm(heap, r.heap) BY <1>3, <1>10, CalmThen
<1> QED BY <1>3, <1>10, <1>11, <1>12 DEF Aside

LEMMA AsideRunAdoption ==
  ASSUME PInv, RunAdoption
  PROVE  Aside
<1>1. PICK g, j, h : g = Taken /\ j = Job /\ h = heap' OBVIOUS
<1>2. Dequeue("adopt") BY DEF RunAdoption
<1>3. j.kind = "adopt" BY <1>1, <1>2 DEF Dequeue
<1>4. /\ Calm(heap, g) /\ g \in Heap /\ TakenFor(g, j) /\ stack = <<>> /\ NoLoops(stack)
  BY <1>1, <1>2, <1>3, TakesAside
<1>5. Promise(g) = Promise(heap)
  <2>1. Promise(Taken) = Promise(heap) BY DEF Taken, Promise
  <2> QED BY <1>1, <2>1
<1>6. j.p \in Promise(g) /\ j.p \in Nat BY <1>4, Parts DEF TakenFor, JobOK
<1>7. CASE j.x \in Promise(g)
  <2>1. PICK r, q : r = Settle(j.p) /\ q = j.x OBVIOUS
  <2>2. h = promThen(g, q, r) /\ stack' = <<>> BY <1>1, <1>4, <1>5, <1>7, <2>1 DEF RunAdoption
  <2>3. r \in ReactionRec /\ r.kind # "element" BY <1>6, <2>1 DEF Settle, Reaction, ReactionRec
  <2>4. Calm(g, h) BY <1>4, <1>7, <2>1, <2>2, <2>3, CalmReacts
  <2>5. Calm(heap, h) BY <1>4, <2>4, CalmThen
  <2> QED BY <1>1, <1>4, <2>2, <2>5, EmptyLoops DEF Aside
<1>8. CASE j.x \notin Promise(g)
  <2>1. PICK f, p : f = Frame("thenable", j.p, TRUE, Undef) /\ p = j.p OBVIOUS
  <2>2. h = [g EXCEPT !.prom[p].cap = TRUE] /\ stack' = <<f>> BY <1>1, <1>5, <1>8, <2>1 DEF RunAdoption
  <2>3. NoLoops(stack') BY <2>1, <2>2 DEF NoLoops, Frame
  <2>4. Calm(g, h)
    <3>1. h \in Heap
      <4>1. Good(heap', stack') BY RunAdoptionKeeps DEF Keeps
      <4> QED BY <1>1, <4>1 DEF Good, All, Core
    <3>2. g.prom \in Seq(PromiseRec) /\ DOMAIN g.prom = Promise(g)
          /\ g = [prom |-> g.prom, combs |-> g.combs, ags |-> g.ags, queue |-> g.queue, gen |-> g.gen]
      BY <1>4, Parts DEF Promise
    <3>3. h.combs = g.combs /\ h.queue = g.queue BY <2>2, <3>2
    <3>4. PICK t : t = [g.prom[p] EXCEPT !.cap = TRUE] OBVIOUS
    <3>5. h.prom = [g.prom EXCEPT ![p] = t] BY <2>2, <3>2, <3>4
    <3>6. t.state = g.prom[p].state /\ t.value = g.prom[p].value /\ t.cbs = g.prom[p].cbs BY <3>4
    <3>7. Promise(h) = Promise(g) BY <3>5 DEF Promise
    <3>8. h.prom[p] = t /\ \A q \in Promise(g) : q # p => h.prom[q] = g.prom[q] BY <1>6, <2>1, <3>2, <3>5
    <3>9. \A q \in Promise(g) : /\ h.prom[q].state = g.prom[q].state /\ h.prom[q].value = g.prom[q].value
                                /\ h.prom[q].cbs = g.prom[q].cbs
      BY <3>6, <3>8
    <3> QED BY <1>4, <3>1, <3>3, <3>7, <3>9, CalmFlags
  <2>5. Calm(heap, h) BY <1>4, <2>4, CalmThen
  <2> QED BY <1>1, <1>4, <2>3, <2>5 DEF Aside
<1> QED BY <1>7, <1>8

\* What the steps of a combinator are.
Combining ==
  \/ \E name \in Names, els \in BoundedSeq(Anything, MaxElements) : Combine(name, els)
  \/ Register
  \/ RunOwn /\ Job.r.kind = "element"

LEMMA AsideOrCombining ==
  ASSUME PInv, OnlyTop(stack), Next
  PROVE  Aside \/ Combining
<1>1. ASSUME New \/ CallAsync \/ AsyncGen PROVE Aside
  BY <1>1, AsideNew, AsideAsyncGen
<1>2. ASSUME AgClosed \/ AgAbandoned \/ AgCloseThrows PROVE Aside
  BY <1>2, AsideClosed, AsideCloseThrows DEF AgClosed, AgAbandoned
<1>3. ASSUME RunAgAwait \/ RunAgYield \/ RunAdoption \/ RunHandler \/ RunPassOn \/ RunAwait PROVE Aside
  BY <1>3, AsideRunAgYield, AsideRunAdoption, AsideRunHandler, AsideRunPassOn
<1>4. ASSUME NEW x \in Anything,
             StaticResolve(x) \/ Await(x) \/ Return(x) \/ AgAwait(x) \/ Yield(x) \/ AgReturn(x)
      PROVE  Aside
  <2>1. x \in Value BY AnythingIsSound
  <2> QED BY <1>4, <2>1, AsideStatic, AsideAwait, AsideReturn, AsideEnds
<1>5. ASSUME NEW v \in Reason, StaticReject(v) \/ Throw(v) \/ AgThrow(v) PROVE Aside
  <2>1. v \in Value BY PlainIsFinal
  <2> QED BY <1>5, <2>1, AsideStaticReject, AsideThrow, AsideEnds
<1>6. ASSUME NEW p \in Promise(heap), Finally(p) PROVE Aside
  <2>1. PICK f \in BOOLEAN : TRUE OBVIOUS
  <2> QED BY <1>6, <2>1, AsideThen
<1>7. ASSUME NEW p \in Promise(heap), \E x \in Anything : Resolve(p, x) PROVE Aside BY <1>7, AsideResolve
<1>8. ASSUME NEW p \in Promise(heap), \E v \in Reason : Reject(p, v) PROVE Aside BY <1>8, AsideReject
<1>9. ASSUME NEW p \in Promise(heap), \E f, r \in BOOLEAN : Then(p, f, r) PROVE Aside BY <1>9, AsideThen
<1>10. ASSUME NEW k \in DOMAIN heap.ags, NEW x \in menu.values, NEW kind \in {"next", "return"}, Request(k, kind, x)
       PROVE  Aside
  <2>1. x \in Value BY PlainIsFinal DEF PInv, MenuOK
  <2>2. kind \in {"next", "return", "throw"} OBVIOUS
  <2> QED BY <1>10, <2>1, <2>2, AsideRequest
<1>11. ASSUME NEW k \in DOMAIN heap.ags, NEW v \in Reason, Request(k, "throw", v) PROVE Aside
  <2>1. v \in Value BY PlainIsFinal
  <2>2. PICK kind \in {"next", "return", "throw"} : kind = "throw" OBVIOUS
  <2> QED BY <1>11, <2>1, <2>2, AsideRequest
<1>12. ASSUME RunOwn PROVE Aside \/ Combining BY <1>12, AsideRunOwn DEF Combining
<1> QED BY <1>1, <1>2, <1>3, <1>4, <1>5, <1>6, <1>7, <1>8, <1>9, <1>10, <1>11, <1>12 DEF Next, Combining

-----------------------------------------------------------------------------
(* What a combinator knows: which of its elements have reported, that is,  *)
(* have no reaction left that has not run; and which of these its counter  *)
(* counts.                                                                 *)

Placed(h, k, i) == \E q, r : At(h, q, r) /\ r.kind = "element" /\ r.to = k /\ r.idx = i
Reported(h, k) == {i \in DOMAIN h.combs[k].els : ~Placed(h, k, i)}
Counts(name, state) ==
  \/ name = "all" /\ state = "fulfilled"
  \/ name = "any" /\ state = "rejected"
  \/ name = "allSettled"
Counted(h, k) == {i \in Reported(h, k) : Counts(h.combs[k].name, h.prom[h.combs[k].els[i]].state)}

\* The reaction of an element is on that element, and is the only one.
ElementsOK(h) ==
  \A q, r : At(h, q, r) /\ r.kind = "element" =>
    r.to \in DOMAIN h.combs /\ r.idx \in DOMAIN h.combs[r.to].els /\ h.combs[r.to].els[r.idx] = q
OnceEach(h) ==
  \A p, q, r, s : At(h, p, r) /\ At(h, q, s) /\ r.kind = "element" /\ s.kind = "element"
                  /\ r.to = s.to /\ r.idx = s.idx => r = s
OutsDiffer(h) == \A k, l \in DOMAIN h.combs : h.combs[k].out = h.combs[l].out => k = l

\* Its promise waits while only counted elements have reported and not all of
\* them; it settles when all are counted, or as one that is not counted.
Unanswered(c, R, C) == R = C /\ (c.name # "race" => C # 1 .. Len(c.results))
AsAll(c, k, o) ==
  IF c.name = "any" THEN o.state = "rejected" /\ o.value = AggregateError
  ELSE o.state = "fulfilled" /\ o.value = Results(k)
Answered(h, c, k, R, C) ==
  LET o == h.prom[c.out] IN
  \/ c.name # "race" /\ C = 1 .. Len(c.results) /\ AsAll(c, k, o)
  \/ \E i \in R \ C : h.prom[c.els[i]].state = o.state /\ h.prom[c.els[i]].value = o.value

\* Its counter says how many are missing, and its results are those of the
\* elements that it has counted.
Knows(h, c, k, R, C) ==
  /\ c.out \in Promise(h) /\ \A i \in DOMAIN c.els : c.els[i] \in Promise(h)
  /\ c.left = Len(c.results) - Cardinality(C)
  /\ \A i \in R : h.prom[c.els[i]].state # "pending"
  /\ \A i \in C : i \in 1 .. Len(c.results) /\ c.results[i] = h.prom[c.els[i]].value
  /\ h.prom[c.out].state = "pending" => Unanswered(c, R, C)
  /\ h.prom[c.out].state # "pending" => Answered(h, c, k, R, C)
Exact(h, k) == Knows(h, h.combs[k], k, Reported(h, k), Counted(h, k))

\* Elements still to be registered: those of a loop that runs.
Loop(st, k) == st # <<>> /\ Last(st).kind = "combine" /\ Last(st).p = k
ToCome(st, k) == IF Loop(st, k) THEN Len(Last(st).arg) ELSE 0
Owing(h, st, k) == Len(h.combs[k].els) + ToCome(st, k) = Len(h.combs[k].results)

CombsExact(h, st) ==
  /\ ElementsOK(h) /\ OnceEach(h) /\ OutsDiffer(h) /\ OnlyTop(st)
  /\ \A k \in DOMAIN h.combs : Exact(h, k) /\ Owing(h, st, k)

\* The second invariant: the combinators are exact between two steps.
CInv == CombsExact(heap, stack)

LEMMA CombParts ==
  ASSUME NEW h \in Heap, NEW k \in DOMAIN h.combs, NEW c, c = h.combs[k]
  PROVE  /\ c \in CombinatorRec /\ c.name \in CombinatorNames /\ c.left \in Int /\ c.out \in Nat
         /\ c.els \in Seq(Nat) /\ c.results \in Seq(Value)
         /\ DOMAIN c.els = 1 .. Len(c.els) /\ Len(c.els) \in Nat
         /\ DOMAIN c.results = 1 .. Len(c.results) /\ Len(c.results) \in Nat
         /\ k \in Nat /\ k >= 1
<1>1. c \in CombinatorRec /\ k \in Nat /\ k >= 1 BY Parts
<1>2. c.els \in Seq(Nat) /\ c.results \in Seq(Value) /\ c.name \in CombinatorNames /\ c.left \in Int /\ c.out \in Nat
  BY <1>1 DEF CombinatorRec
<1> QED BY <1>1, <1>2, Indices

\* Combinator k gets no new report: it stays exact.
SameButEls(c, d) ==
  /\ d.name = c.name /\ d.left = c.left /\ d.out = c.out /\ d.results = c.results
  /\ DOMAIN c.els \subseteq DOMAIN d.els /\ \A i \in DOMAIN c.els : d.els[i] = c.els[i]

LEMMA ExactStays ==
  ASSUME NEW h, NEW g, NEW k, Exact(h, k), SameButEls(h.combs[k], g.combs[k]),
         \A i \in DOMAIN g.combs[k].els : g.combs[k].els[i] \in Promise(g),
         Reported(g, k) = Reported(h, k), Settled(h, g),
         h.prom[h.combs[k].out].state = "pending" => g.prom[h.combs[k].out].state = "pending"
  PROVE  Exact(g, k)
<1>1. PICK c, d, R, C : c = h.combs[k] /\ d = g.combs[k] /\ R = Reported(h, k) /\ C = Counted(h, k) OBVIOUS
<1>2. Knows(h, c, k, R, C) BY <1>1 DEF Exact
<1>3. SameButEls(c, d) /\ (\A i \in DOMAIN d.els : d.els[i] \in Promise(g)) BY <1>1
<1>4. R \subseteq DOMAIN c.els /\ C \subseteq R BY <1>1 DEF Reported, Counted
<1>5. /\ c.out \in Promise(h) /\ (\A i \in DOMAIN c.els : c.els[i] \in Promise(h))
      /\ c.left = Len(c.results) - Cardinality(C)
      /\ (\A i \in R : h.prom[c.els[i]].state # "pending")
      /\ (\A i \in C : i \in 1 .. Len(c.results) /\ c.results[i] = h.prom[c.els[i]].value)
      /\ (h.prom[c.out].state = "pending" => Unanswered(c, R, C))
      /\ (h.prom[c.out].state # "pending" => Answered(h, c, k, R, C))
  BY <1>2 DEF Knows
<1>6. \A i \in R : d.els[i] = c.els[i] /\ g.prom[c.els[i]].state = h.prom[c.els[i]].state
                   /\ g.prom[c.els[i]].value = h.prom[c.els[i]].value
  BY <1>3, <1>4, <1>5 DEF Settled, SameButEls
<1>7. Counted(g, k) = C
  <2>1. C = {i \in R : Counts(c.name, h.prom[c.els[i]].state)} BY <1>1 DEF Counted
  <2>2. Counted(g, k) = {i \in R : Counts(d.name, g.prom[d.els[i]].state)} BY <1>1 DEF Counted
  <2>3. d.name = c.name BY <1>3 DEF SameButEls
  <2> QED BY <1>6, <2>1, <2>2, <2>3
<1>8. d.name = c.name /\ d.left = c.left /\ d.out = c.out /\ d.results = c.results BY <1>3 DEF SameButEls
<1>9. Knows(g, d, k, R, C)
  <2>1. d.out \in Promise(g) BY <1>5, <1>8 DEF Settled
  <2>2. \A i \in C : i \in 1 .. Len(d.results) /\ d.results[i] = g.prom[d.els[i]].value BY <1>4, <1>5, <1>6, <1>8
  <2>3. \A i \in R : g.prom[d.els[i]].state # "pending" BY <1>5, <1>6
  <2>4. ASSUME h.prom[c.out].state = "pending" PROVE g.prom[d.out].state = "pending" /\ Unanswered(d, R, C)
    BY <1>1, <1>5, <1>8, <2>4 DEF Unanswered
  <2>5. ASSUME h.prom[c.out].state # "pending" PROVE g.prom[d.out].state # "pending" /\ Answered(g, d, k, R, C)
    <3>1. g.prom[d.out].state = h.prom[c.out].state /\ g.prom[d.out].value = h.prom[c.out].value
      BY <1>5, <1>8, <2>5 DEF Settled
    <3>2. Answered(h, c, k, R, C) BY <1>5, <2>5
    <3> QED BY <1>6, <1>8, <2>5, <3>1, <3>2 DEF Answered, AsAll
  <2> QED BY <1>3, <1>5, <1>8, <2>1, <2>2, <2>3, <2>4, <2>5 DEF Knows
<1>10. Reported(g, k) = R BY <1>1
<1> QED BY <1>1, <1>7, <1>9, <1>10 DEF Exact

LEMMA NothingToCome ==
  ASSUME NEW st \in Seq(FrameRec), NoLoops(st), NEW k
  PROVE  ToCome(st, k) = 0
<1>1. CASE st = <<>> BY <1>1 DEF ToCome, Loop
<1>2. CASE st # <<>>
  <2>1. PICK n : n = Len(st) OBVIOUS
  <2>2. n \in DOMAIN st /\ Last(st) = st[n] BY <1>2, <2>1, Fronted
  <2> QED BY <2>2 DEF NoLoops, ToCome, Loop
<1> QED BY <1>1, <1>2

LEMMA CalmReported ==
  ASSUME NEW h, NEW g, Calm(h, g), NEW k
  PROVE  Reported(g, k) = Reported(h, k)
<1>1. \A i : Placed(g, k, i) <=> Placed(h, k, i) BY DEF Placed, Calm, SameElements
<1>2. g.combs = h.combs BY DEF Calm
<1> QED BY <1>1, <1>2 DEF Reported

\* A step aside keeps the combinators as they are.
LEMMA CalmKeeps ==
  ASSUME NEW h, NEW g, NEW st, CombsExact(h, st), Calm(h, g), NEW s, OnlyTop(s),
         \A k \in DOMAIN h.combs : ToCome(s, k) = ToCome(st, k)
  PROVE  CombsExact(g, s)
<1>1. g.combs = h.combs /\ Settled(h, g) /\ OutsWait(h, g) /\ SameElements(h, g) BY DEF Calm
<1>2. ElementsOK(g) BY <1>1 DEF CombsExact, ElementsOK, SameElements
<1>3. OnceEach(g) BY <1>1 DEF CombsExact, OnceEach, SameElements
<1>4. OutsDiffer(g) BY <1>1 DEF CombsExact, OutsDiffer
<1>5. ASSUME NEW k \in DOMAIN g.combs PROVE Exact(g, k) /\ Owing(g, s, k)
  <2>1. k \in DOMAIN h.combs /\ Exact(h, k) /\ Owing(h, st, k) BY <1>1 DEF CombsExact
  <2>2. Reported(g, k) = Reported(h, k) BY CalmReported
  <2>3. SameButEls(h.combs[k], g.combs[k]) BY <1>1 DEF SameButEls
  <2>4. h.combs[k].out \in Promise(h) /\ \A i \in DOMAIN h.combs[k].els : h.combs[k].els[i] \in Promise(h)
    BY <2>1 DEF Exact, Knows
  <2>5. \A i \in DOMAIN g.combs[k].els : g.combs[k].els[i] \in Promise(g) BY <1>1, <2>4 DEF Settled
  <2>6. h.prom[h.combs[k].out].state = "pending" => g.prom[h.combs[k].out].state = "pending"
    BY <1>1, <2>1, <2>4 DEF OutsWait, IsOut
  <2>7. Exact(g, k) BY <1>1, <2>1, <2>2, <2>3, <2>5, <2>6, ExactStays
  <2>8. Owing(g, s, k) BY <1>1, <2>1 DEF Owing
  <2> QED BY <2>7, <2>8
<1> QED BY <1>2, <1>3, <1>4, <1>5 DEF CombsExact

LEMMA AsideKeeps ==
  ASSUME PInv, CInv, Aside, Keeps
  PROVE  CInv'
<1>1. PICK h, g, st, s : h = heap /\ g = heap' /\ st = stack /\ s = stack' OBVIOUS
<1>2. st \in Seq(FrameRec) /\ s \in Seq(FrameRec) BY <1>1, PInvParts DEF Keeps, Good
<1>3. CombsExact(h, st) /\ Calm(h, g) /\ NoLoops(st) /\ NoLoops(s) BY <1>1 DEF CInv, Aside
<1>4. OnlyTop(s) BY <1>3 DEF NoLoops, OnlyTop
<1>5. \A k \in DOMAIN h.combs : ToCome(s, k) = ToCome(st, k) BY <1>2, <1>3, NothingToCome
<1>6. CombsExact(g, s) BY <1>3, <1>4, <1>5, CalmKeeps
<1>7. CombsExact(heap', stack') BY <1>1, <1>6
<1> QED BY <1>7 DEF CInv

\* How many of n elements.
LEMMA CountFacts ==
  ASSUME NEW n \in Nat, NEW C, C \subseteq 1 .. n
  PROVE  /\ Cardinality(C) \in Nat /\ Cardinality(C) <= n /\ (Cardinality(C) = n <=> C = 1 .. n)
         /\ \A i : i \notin C => Cardinality(C \cup {i}) = Cardinality(C) + 1
<1>1. IsFiniteSet(1 .. n) /\ Cardinality(1 .. n) = n
  <2>1. 1 \in Int /\ n \in Int OBVIOUS
  <2>2. IsFiniteSet(1 .. n) /\ Cardinality(1 .. n) = IF 1 > n THEN 0 ELSE n - 1 + 1 BY <2>1, FS_Interval
  <2> QED BY <2>2
<1>2. C \in SUBSET (1 .. n) OBVIOUS
<1>3. IsFiniteSet(C) /\ Cardinality(C) <= n /\ (n = Cardinality(C) => C = 1 .. n) BY <1>1, <1>2, FS_Subset
<1>4. Cardinality(C) \in Nat BY <1>3, FS_CardinalityType
<1>5. \A i : i \notin C => Cardinality(C \cup {i}) = Cardinality(C) + 1 BY <1>3, FS_AddElement
<1> QED BY <1>1, <1>3, <1>4, <1>5

LEMMA NoneCounted == Cardinality({}) = 0
BY FS_EmptySet

\* Only promise o settles, if anything does, and no reaction goes.
OnlyOut(h, g, o) ==
  /\ g.combs = h.combs /\ Promise(g) = Promise(h) /\ SameAt(h, g)
  /\ \A p \in Promise(h) :
       (p # o \/ h.prom[p].state # "pending") => g.prom[p].state = h.prom[p].state /\ g.prom[p].value = h.prom[p].value

LEMMA OutSettles ==
  ASSUME NEW h \in Heap, NEW o \in Promise(h), NEW how \in {"fulfilled", "rejected"}, NEW v \in Value,
         NEW g, g = promSettle(h, o, how, v)
  PROVE  /\ g \in Heap /\ OnlyOut(h, g, o)
         /\ h.prom[o].state = "pending" => g.prom[o].state = how /\ g.prom[o].value = v
<1>1. CASE h.prom[o].state # "pending"
  <2>1. g = h BY <1>1 DEF promSettle
  <2> QED BY <1>1, <2>1 DEF OnlyOut, SameAt
<1>2. CASE h.prom[o].state = "pending"
  <2>1. g \in Heap /\ Settles(h, g, o, how, v) BY <1>2, SettleEffect
  <2>2. SameAt(h, g) BY <2>1, AtSettles
  <2>3. /\ g.combs = h.combs /\ Promise(g) = Promise(h) /\ (\A q \in Promise(h) : q # o => g.prom[q] = h.prom[q])
        /\ g.prom[o].state = how /\ g.prom[o].value = v
    BY <2>1 DEF Settles, OthersKept
  <2> QED BY <1>2, <2>1, <2>2, <2>3 DEF OnlyOut
<1> QED BY <1>1, <1>2

LEMMA OnlyOutSelf == ASSUME NEW h, NEW o PROVE OnlyOut(h, h, o)
BY DEF OnlyOut, SameAt

LEMMA OnlyOutSettled == ASSUME NEW h, NEW g, NEW o, OnlyOut(h, g, o) PROVE Settled(h, g)
BY DEF OnlyOut, Settled

\* The results of a combinator as a value.
LEMMA ResultsFinal ==
  ASSUME NEW k \in Nat, k >= 1
  PROVE  Results(k) \in Final /\ Results(k) \in Value
<1>1. -k \in Int /\ -k \notin Nat OBVIOUS
<1>2. -k \in Final BY <1>1, ValuesAssumption DEF Final, Value
<1> QED BY <1>2 DEF Results, Final

\* Combinator l with its reactions where they were, while the promise of
\* another one settles.
LEMMA OtherExact ==
  ASSUME NEW h, NEW g, NEW l, Exact(h, l), Settled(h, g), SameButEls(h.combs[l], g.combs[l]),
         g.combs[l].els = h.combs[l].els, \A i : Placed(g, l, i) <=> Placed(h, l, i),
         h.prom[h.combs[l].out].state = "pending" => g.prom[h.combs[l].out].state = "pending"
  PROVE  Exact(g, l)
<1>1. Reported(g, l) = Reported(h, l) BY DEF Reported
<1>2. \A i \in DOMAIN h.combs[l].els : h.combs[l].els[i] \in Promise(h) BY DEF Exact, Knows
<1>3. \A i \in DOMAIN g.combs[l].els : g.combs[l].els[i] \in Promise(g) BY <1>2 DEF Settled
<1> QED BY <1>1, <1>3, ExactStays

\* A new combinator, k, over n elements.
Starts(h, g, k, c, o, n) ==
  /\ c.out = o /\ c.left = n /\ c.els = <<>> /\ Len(c.results) = n /\ o \in Promise(h)
  /\ DOMAIN h.combs \subseteq DOMAIN g.combs /\ k \in DOMAIN g.combs /\ k \notin DOMAIN h.combs /\ g.combs[k] = c
  /\ \A l \in DOMAIN g.combs : l # k => l \in DOMAIN h.combs /\ g.combs[l] = h.combs[l]
  /\ Promise(g) = Promise(h) /\ SameAt(h, g)
  /\ \A p \in Promise(h) : p # o => g.prom[p].state = h.prom[p].state /\ g.prom[p].value = h.prom[p].value
  /\ h.prom[o].state = "pending"
  /\ IF n > 0 \/ c.name = "race" THEN g.prom[o].state = "pending"
     ELSE g.prom[o].state # "pending" /\ AsAll(c, k, g.prom[o])

LEMMA CombineStarts ==
  ASSUME NEW h \in Heap, NEW name \in CombinatorNames, NEW n \in Nat,
         NEW g, g = promCombine(h, name, n), NEW k, k = Len(h.combs) + 1, NEW o, o = Len(h.prom) + 1
  PROVE  \E f, c : f \in Heap /\ Calm(h, f) /\ o \notin Promise(h) /\ f.combs = h.combs /\ Starts(f, g, k, c, o, n)
<1> DEFINE res == [i \in 1 .. n |-> Undef]
<1>1. PICK s, f : s = NewPromise /\ f = [h EXCEPT !.prom = Append(@, s)] OBVIOUS
<1>2. PICK c : c = [name |-> name, els |-> <<>>, left |-> n, out |-> o, results |-> res] OBVIOUS
<1>3. f \in Heap /\ Calm(h, f) /\ o \in Promise(f) /\ o \notin Promise(h) /\ f.prom[o] = s BY <1>1, CalmMakes
<1>4. f.combs = h.combs BY <1>3 DEF Calm
<1>5. res \in Seq(Value) /\ Len(res) = n
  <2>1. Undef \in Value BY DEF Value
  <2>2. res \in [1 .. n -> Value] BY <2>1
  <2> QED BY <2>2, Built
<1>6. c.name = name /\ c.els = <<>> /\ c.left = n /\ c.out = o /\ Len(c.results) = n BY <1>2, <1>5
<1>7. o \in Nat BY <1>3, Parts
<1> HIDE DEF res
<1>8. c \in CombinatorRec
  <2>1. <<>> \in Seq(Nat) /\ n \in Int OBVIOUS
  <2> QED BY <1>2, <1>5, <1>7, <2>1 DEF CombinatorRec
<1>9. PICK e : e = [f EXCEPT !.combs = Append(@, c)] OBVIOUS
<1>10. k = Len(f.combs) + 1 BY <1>4
<1>11. e \in Heap /\ Combines(f, e, k, c) BY ONLY <1>3, <1>8, <1>9, <1>10, CombAdd
<1>12. /\ e.prom = f.prom /\ e.queue = f.queue
       /\ DOMAIN f.combs \subseteq DOMAIN e.combs /\ k \in DOMAIN e.combs /\ k \in Nat /\ k > 0 /\ e.combs[k] = c
       /\ \A l \in DOMAIN e.combs : l # k => l \in DOMAIN f.combs /\ e.combs[l] = f.combs[l]
  BY <1>11 DEF Combines
<1>13. k \notin DOMAIN f.combs BY ONLY <1>3, <1>10, Parts
<1>14. Promise(e) = Promise(f) BY <1>12 DEF Promise
<1>15. SameAt(f, e) BY <1>12, <1>14 DEF SameAt, At
<1>16. f.prom[o].state = "pending" /\ e.prom[o].state = "pending" BY <1>1, <1>3, <1>12, NewParts
<1>17. g = (CASE n > 0 \/ name = "race" -> e
              [] n = 0 /\ name = "any" -> promSettle(e, o, "rejected", AggregateError)
              [] n = 0 /\ name \in {"all", "allSettled"} -> promResolve(e, o, Results(k)))
  <2>1. f = promNew(h) BY <1>1 DEF promNew
  <2> QED BY <1>2, <1>9, <2>1 DEF promCombine, Last1, res
<1>18. n > 0 \/ n = 0 OBVIOUS
<1>19. /\ OnlyOut(e, g, o)
       /\ IF n > 0 \/ c.name = "race" THEN g.prom[o].state = "pending"
          ELSE g.prom[o].state # "pending" /\ AsAll(c, k, g.prom[o])
  <2>1. CASE n > 0 \/ name = "race"
    <3>1. g = e BY <1>17, <2>1
    <3> QED BY <1>6, <1>16, <2>1, <3>1, OnlyOutSelf
  <2>2. CASE n = 0 /\ name = "any"
    <3>1. PICK how \in {"fulfilled", "rejected"}, v \in Value : how = "rejected" /\ v = AggregateError BY DEF Value
    <3>2. g = promSettle(e, o, how, v) BY <1>17, <2>2, <3>1
    <3>3. o \in Promise(e) BY <1>3, <1>14
    <3>4. OnlyOut(e, g, o) /\ g.prom[o].state = how /\ g.prom[o].value = v BY <1>11, <1>16, <3>2, <3>3, OutSettles
    <3> QED BY <1>6, <2>2, <3>1, <3>4 DEF AsAll
  <2>3. CASE n = 0 /\ name \in {"all", "allSettled"}
    <3>1. PICK how \in {"fulfilled", "rejected"}, v \in Final : how = "fulfilled" /\ v = Results(k) /\ v \in Value
      BY <1>12, ResultsFinal
    <3>2. o \in Promise(e) BY <1>3, <1>14
    <3>3. g = promResolve(e, o, v) BY <1>17, <2>3, <3>1
    <3>4. g = promSettle(e, o, how, v) BY <1>11, <3>1, <3>2, <3>3, ResolveFinal
    <3>5. OnlyOut(e, g, o) /\ g.prom[o].state = how /\ g.prom[o].value = v BY <1>11, <1>16, <3>1, <3>2, <3>4, OutSettles
    <3> QED BY <1>6, <2>3, <3>1, <3>5 DEF AsAll
  <2> QED BY <1>18, <2>1, <2>2, <2>3 DEF CombinatorNames
<1>20. /\ g.combs = e.combs /\ Promise(g) = Promise(e) /\ SameAt(e, g)
       /\ \A p \in Promise(e) : p # o => g.prom[p].state = e.prom[p].state /\ g.prom[p].value = e.prom[p].value
  BY <1>19 DEF OnlyOut
<1>21. SameAt(f, g) BY <1>15, <1>20 DEF SameAt
<1>22. Starts(f, g, k, c, o, n) BY <1>3, <1>6, <1>12, <1>13, <1>14, <1>16, <1>19, <1>20, <1>21 DEF Starts
<1> QED BY <1>3, <1>4, <1>22

\* A loop on top of the program's code.
LEMMA LoopOnTop ==
  ASSUME NEW st \in Seq(FrameRec), NoLoops(st), NEW f \in FrameRec, f.kind = "combine", NEW s, s = Append(st, f)
  PROVE  OnlyTop(s) /\ \A k : ToCome(s, k) = IF f.p = k THEN Len(f.arg) ELSE 0
<1>1. PICK n : n = Len(st) OBVIOUS
<1>2. /\ s \in Seq(FrameRec) /\ n \in Nat /\ DOMAIN st = 1 .. n /\ DOMAIN s = 1 .. n + 1 /\ Len(s) = n + 1
      /\ (\A i \in 1 .. n : s[i] = st[i]) /\ s[n + 1] = f
  BY <1>1, Appended, Indices
<1>3. \A i \in 1 .. n + 1 : i \in 1 .. n \/ i = n + 1 BY <1>2
<1>4. OnlyTop(s) BY <1>2, <1>3 DEF NoLoops, OnlyTop
<1>5. s # <<>> BY <1>2, Indices
<1>6. Last(s) = f BY <1>2, <1>5, Fronted, Zenon
<1> QED BY <1>4, <1>5, <1>6 DEF ToCome, Loop

LEMMA CombineExact ==
  ASSUME NEW h \in Heap, NEW f \in Heap, NEW g, NEW st \in Seq(FrameRec), CombsExact(h, st), NoLoops(st),
         NEW k, NEW c, NEW o, NEW n \in Nat, Calm(h, f), o \notin Promise(h), Starts(f, g, k, c, o, n),
         NEW e \in FrameRec, e.kind = "combine", e.p = k, Len(e.arg) = n, NEW s, s = Append(st, e)
  PROVE  CombsExact(g, s)
<1>1. OnlyTop(s) /\ (\A l : ToCome(s, l) = IF l = k THEN n ELSE 0) BY LoopOnTop
<1>2. OnlyTop(st) BY DEF CombsExact
<1>3. CombsExact(f, st) BY <1>2, CalmKeeps
<1>4. /\ c.out = o /\ c.left = n /\ c.els = <<>> /\ Len(c.results) = n /\ o \in Promise(f)
      /\ DOMAIN f.combs \subseteq DOMAIN g.combs /\ k \in DOMAIN g.combs /\ k \notin DOMAIN f.combs /\ g.combs[k] = c
      /\ \A l \in DOMAIN g.combs : l # k => l \in DOMAIN f.combs /\ g.combs[l] = f.combs[l]
      /\ Promise(g) = Promise(f) /\ SameAt(f, g)
      /\ \A p \in Promise(f) : p # o => g.prom[p].state = f.prom[p].state /\ g.prom[p].value = f.prom[p].value
      /\ f.prom[o].state = "pending"
  BY DEF Starts
<1>5. IF n > 0 \/ c.name = "race" THEN g.prom[o].state = "pending"
      ELSE g.prom[o].state # "pending" /\ AsAll(c, k, g.prom[o])
  BY DEF Starts
<1>6. f.combs = h.combs BY DEF Calm
<1>7. \A q, r : At(g, q, r) <=> At(f, q, r) BY <1>4 DEF SameAt
<1>8. \A l \in DOMAIN f.combs : l # k /\ g.combs[l] = f.combs[l] BY <1>4
<1>9. ElementsOK(g) BY <1>3, <1>4, <1>7, <1>8 DEF CombsExact, ElementsOK
<1>10. OnceEach(g) BY <1>3, <1>7 DEF CombsExact, OnceEach
<1>11. \A l \in DOMAIN f.combs : f.combs[l].out # o BY <1>6 DEF CombsExact, Exact, Knows
<1>12. OutsDiffer(g) BY <1>3, <1>4, <1>11 DEF CombsExact, OutsDiffer
<1>13. Exact(g, k) /\ Owing(g, s, k)
  <2>1. DOMAIN c.els = {} /\ Len(c.els) = 0 BY <1>4
  <2>2. Reported(g, k) = {} BY <1>4, <2>1 DEF Reported
  <2>3. Counted(g, k) = {} BY <2>2 DEF Counted
  <2>4. c.left = Len(c.results) - Cardinality({}) BY <1>4, NoneCounted
  <2>5. g.prom[o].state = "pending" => Unanswered(c, {}, {})
    <3>1. n > 0 => {} # 1 .. n OBVIOUS
    <3> QED BY <1>4, <1>5, <3>1 DEF Unanswered
  <2>6. g.prom[o].state # "pending" => Answered(g, c, k, {}, {})
    <3>1. ~(n > 0) => {} = 1 .. n OBVIOUS
    <3> QED BY <1>4, <1>5, <3>1 DEF Answered
  <2>7. Knows(g, c, k, {}, {}) BY <1>4, <2>1, <2>4, <2>5, <2>6 DEF Knows
  <2>8. Exact(g, k) BY <1>4, <2>2, <2>3, <2>7 DEF Exact
  <2>9. ToCome(s, k) = n BY <1>1
  <2>10. Owing(g, s, k) BY <1>4, <2>1, <2>9 DEF Owing
  <2> QED BY <2>8, <2>10
<1>14. ASSUME NEW l \in DOMAIN g.combs, l # k PROVE Exact(g, l) /\ Owing(g, s, l)
  <2>1. l \in DOMAIN f.combs /\ g.combs[l] = f.combs[l] BY <1>4, <1>14
  <2>2. Exact(f, l) /\ Owing(f, st, l) BY <1>3, <2>1 DEF CombsExact
  <2>3. Settled(f, g) BY <1>4 DEF Settled
  <2>4. SameButEls(f.combs[l], g.combs[l]) /\ g.combs[l].els = f.combs[l].els BY <2>1 DEF SameButEls
  <2>5. \A i : Placed(g, l, i) <=> Placed(f, l, i) BY <1>7 DEF Placed
  <2>6. f.combs[l].out \in Promise(f) /\ f.combs[l].out # o BY <1>11, <2>1, <2>2 DEF Exact, Knows
  <2>7. f.prom[f.combs[l].out].state = "pending" => g.prom[f.combs[l].out].state = "pending" BY <1>4, <2>6
  <2>8. Exact(g, l) BY <2>2, <2>3, <2>4, <2>5, <2>7, OtherExact
  <2>9. ToCome(st, l) = 0 /\ ToCome(s, l) = 0 BY <1>1, <1>14, NothingToCome
  <2>10. Owing(g, s, l) BY <2>1, <2>2, <2>9 DEF Owing
  <2> QED BY <2>8, <2>10
<1> QED BY <1>1, <1>9, <1>10, <1>12, <1>13, <1>14 DEF CombsExact

LEMMA CombineStaysExact ==
  ASSUME PInv, CInv, NEW name \in Names, NEW els \in BoundedSeq(Anything, MaxElements), Combine(name, els)
  PROVE  CInv'
<1>1. els \in Seq(Anything) BY MenusAssumption, BoundedIsSeq
<1>2. PICK h, st, n, k, g, o, s : /\ h = heap /\ st = stack /\ n = Len(els) /\ k = Len(h.combs) + 1 /\ g = promCombine(h, name, n)
                               /\ o = Len(h.prom) + 1 /\ s = stack'
  OBVIOUS
<1>3. n \in Nat BY <1>1, <1>2, Indices
<1>4. name \in CombinatorNames BY MenusAssumption
<1>5. h \in Heap /\ st \in Seq(FrameRec) BY <1>2, PInvParts
<1>6. CombsExact(h, st) BY <1>2 DEF CInv
<1>7. NoLoops(st)
  <2>1. PICK f, r : f = Last(stack) /\ r = Front(stack) OBVIOUS
  <2>2. OnlyTop(stack) /\ Running BY <1>2, <1>6 DEF CombsExact, Combine, Does
  <2> QED BY <1>2, <2>1, <2>2, RunningFacts
<1>8. PICK f, c : f \in Heap /\ Calm(h, f) /\ o \notin Promise(h) /\ Starts(f, g, k, c, o, n)
  BY <1>2, <1>3, <1>4, <1>5, CombineStarts
<1>9. PICK e : e = Frame("combine", k, TRUE, els) OBVIOUS
<1>10. heap' = g /\ s = Append(st, e) BY <1>2, <1>9 DEF Combine
<1>11. e \in FrameRec /\ e.kind = "combine" /\ e.p = k /\ Len(e.arg) = n
  <2>1. els \in Seq(Value)
    <3>1. \A x \in Anything : x \in Value BY AnythingIsSound
    <3> QED BY <1>1, <3>1
  <2>2. k \in Nat BY <1>2, <1>5, Parts
  <2> QED BY <1>2, <1>9, <2>1, <2>2 DEF Frame, FrameRec
<1>12. CombsExact(g, s) BY ONLY <1>3, <1>5, <1>6, <1>7, <1>8, <1>10, <1>11, CombineExact
<1> QED BY <1>2, <1>10, <1>12 DEF CInv

LEMMA ElsMore ==
  ASSUME NEW h \in Heap, NEW k \in DOMAIN h.combs, NEW q \in Nat, NEW c, c = h.combs[k],
         NEW g, g = [h EXCEPT !.combs[k].els = Append(@, q)]
  PROVE  /\ g \in Heap /\ SameOuts(h, g)
         /\ g.combs[k].els = Append(c.els, q) /\ g.combs[k].name = c.name /\ g.combs[k].left = c.left
         /\ g.combs[k].out = c.out /\ g.combs[k].results = c.results
         /\ \A l \in DOMAIN h.combs : l # k => g.combs[l] = h.combs[l]
<1>1. g \in Heap /\ SameOuts(h, g) BY ElsSet
<1>2. c \in CombinatorRec BY Parts
<1>3. PICK e, d : e = Append(c.els, q) /\ d = [c EXCEPT !.els = e] OBVIOUS
<1>4. g.combs = [h.combs EXCEPT ![k] = d] BY <1>3 DEF Heap
<1>5. d.els = e /\ d.name = c.name /\ d.left = c.left /\ d.out = c.out /\ d.results = c.results
  BY <1>2, <1>3 DEF CombinatorRec
<1>6. g.combs[k] = d /\ \A l \in DOMAIN h.combs : l # k => g.combs[l] = h.combs[l] BY <1>4
<1> QED BY <1>1, <1>3, <1>5, <1>6

\* A combinator's loop registers its next element, promise p: what is then known of combinator k is d, with reaction t.
Registers(h, g, k, p, t, d) ==
  LET c == h.combs[k]
      n == Len(c.els)
  IN
  /\ Promise(g) = Promise(h) /\ AtMore(h, g, p, t)
  /\ \A q \in Promise(h) : g.prom[q].state = h.prom[q].state /\ g.prom[q].value = h.prom[q].value
  /\ t.kind = "element" /\ t.to = k /\ t.idx = n + 1
  /\ g.combs[k] = d /\ d.els = Append(c.els, p) /\ d.name = c.name /\ d.left = c.left /\ d.out = c.out
  /\ d.results = c.results
  /\ DOMAIN g.combs = DOMAIN h.combs /\ \A l \in DOMAIN h.combs : l # k => g.combs[l] = h.combs[l]

LEMMA RegisterEffect ==
  ASSUME NEW h \in Heap, NEW k \in DOMAIN h.combs, NEW p \in Promise(h), NEW n, n = Len(h.combs[k].els),
         NEW r, r = Reaction("element", TRUE, TRUE, k, n + 1), NEW f, f = promThen(h, p, r),
         NEW g, g = [f EXCEPT !.combs[k].els = Append(@, p)]
  PROVE  \E t, d : Registers(h, g, k, p, t, d)
<1>1. PICK c : c = h.combs[k] BY Zenon
<1>2. n \in Nat /\ k \in Nat BY <1>1, CombParts, Zenon
<1>3. r \in ReactionRec /\ r.kind = "element" /\ r.to = k /\ r.idx = n + 1 BY <1>2 DEF Reaction, ReactionRec
<1>4. PICK t : t = ThenOf(h, p, r) BY Zenon
<1>f. f = promThen(h, p, r) BY Zenon
<1>5. /\ f \in Heap /\ f.combs = h.combs /\ Promise(f) = Promise(h) /\ AtMore(h, f, p, t)
      /\ \A q \in Promise(h) : f.prom[q].state = h.prom[q].state /\ f.prom[q].value = h.prom[q].value
      /\ t.kind = "element" /\ t.to = k /\ t.idx = n + 1
  BY ONLY <1>3, <1>4, <1>f, h \in Heap, p \in Promise(h), ThenAt
<1>6. p \in Nat BY ONLY Parts
<1>7. k \in DOMAIN f.combs /\ c = f.combs[k] BY <1>1, <1>5
<1>g. g = [f EXCEPT !.combs[k].els = Append(@, p)] OBVIOUS
<1>8. /\ g \in Heap /\ SameOuts(f, g)
      /\ g.combs[k].els = Append(c.els, p) /\ g.combs[k].name = c.name /\ g.combs[k].left = c.left
      /\ g.combs[k].out = c.out /\ g.combs[k].results = c.results
      /\ \A l \in DOMAIN f.combs : l # k => g.combs[l] = f.combs[l]
  BY ONLY <1>5, <1>6, <1>7, <1>g, ElsMore
<1>9. PICK d : d = g.combs[k] BY Zenon
<1>10. g.prom = f.prom /\ g.queue = f.queue /\ DOMAIN g.combs = DOMAIN f.combs BY ONLY <1>8 DEF SameOuts
<1>11. Promise(g) = Promise(f) /\ SameAt(f, g) BY ONLY <1>10 DEF Promise, SameAt, At
<1>12. AtMore(h, g, p, t) BY ONLY <1>5, <1>11 DEF AtMore, SameAt
<1>13. Registers(h, g, k, p, t, d)
  <2>1. n = Len(c.els) BY <1>1
  <2>2. \A q \in Promise(h) : g.prom[q].state = h.prom[q].state /\ g.prom[q].value = h.prom[q].value BY ONLY <1>5, <1>10
  <2> QED BY ONLY <1>1, <1>5, <1>8, <1>9, <1>10, <1>11, <1>12, <2>1, <2>2 DEF Registers
<1> QED BY ONLY <1>13

LEMMA RegisterExact ==
  ASSUME NEW h \in Heap, NEW st, CombsExact(h, st), NEW k \in DOMAIN h.combs, NEW p \in Promise(h),
         NEW g, NEW t, NEW d, Registers(h, g, k, p, t, d), NEW s, OnlyTop(s), NEW m \in Nat,
         \A l : ToCome(st, l) = IF l = k THEN m + 1 ELSE 0,
         \A l : ToCome(s, l) = IF l = k THEN m ELSE 0
  PROVE  CombsExact(g, s)
<1>1. PICK c, n : c = h.combs[k] /\ n = Len(c.els) OBVIOUS
<1>2. c.els \in Seq(Nat) /\ DOMAIN c.els = 1 .. n /\ n \in Nat /\ k \in Nat BY <1>1, CombParts
<1>5. t.kind = "element" /\ t.to = k /\ t.idx = n + 1 BY <1>1 DEF Registers
<1>6. p \in Nat BY Parts
<1>9. /\ g.combs[k] = d /\ d.els = Append(c.els, p) /\ d.name = c.name /\ d.left = c.left /\ d.out = c.out
      /\ d.results = c.results
  BY <1>1 DEF Registers
<1>10. /\ DOMAIN g.combs = DOMAIN h.combs
       /\ (\A l \in DOMAIN h.combs : l # k => g.combs[l] = h.combs[l])
       /\ (\A l \in DOMAIN h.combs : g.combs[l].out = h.combs[l].out)
  BY <1>1, <1>9 DEF Registers
<1>11. Promise(g) = Promise(h) BY DEF Registers
<1>12. \A q, e : At(g, q, e) <=> (At(h, q, e) \/ (q = p /\ e = t)) BY DEF Registers, AtMore
<1>13. \A q \in Promise(h) : g.prom[q].state = h.prom[q].state /\ g.prom[q].value = h.prom[q].value BY DEF Registers
<1>14. /\ DOMAIN d.els = 1 .. n + 1 /\ Len(d.els) = n + 1 /\ (\A i \in 1 .. n : d.els[i] = c.els[i]) /\ d.els[n + 1] = p
  BY <1>1, <1>2, <1>6, <1>9, Appended
<1>15. /\ \A i \in 1 .. n + 1 : i \in 1 .. n \/ i = n + 1
       /\ \A i \in 1 .. n : i \in 1 .. n + 1 /\ i # n + 1
       /\ n + 1 \in 1 .. n + 1
  BY <1>2
<1>16. ElementsOK(h) /\ OnceEach(h) /\ OutsDiffer(h) /\ \A l \in DOMAIN h.combs : Exact(h, l) /\ Owing(h, st, l)
  BY DEF CombsExact
<1>17. ElementsOK(g)
  <2> SUFFICES ASSUME NEW q, NEW e, At(g, q, e), e.kind = "element"
               PROVE  e.to \in DOMAIN g.combs /\ e.idx \in DOMAIN g.combs[e.to].els /\ g.combs[e.to].els[e.idx] = q
    BY DEF ElementsOK
  <2>1. CASE At(h, q, e)
    <3>1. e.to \in DOMAIN h.combs /\ e.idx \in DOMAIN h.combs[e.to].els /\ h.combs[e.to].els[e.idx] = q
      BY <1>16, <2>1 DEF ElementsOK
    <3>2. CASE e.to = k BY <1>1, <1>2, <1>9, <1>10, <1>14, <1>15, <3>1, <3>2
    <3>3. CASE e.to # k BY <1>10, <3>1, <3>3
    <3> QED BY <3>2, <3>3
  <2>2. CASE q = p /\ e = t BY <1>5, <1>9, <1>10, <1>14, <1>15, <2>2
  <2> QED BY <1>12, <2>1, <2>2
<1>18. \A q, e : At(h, q, e) /\ e.kind = "element" /\ e.to = k => e.idx # n + 1
  BY <1>1, <1>2, <1>15, <1>16 DEF ElementsOK
<1>19. OnceEach(g)
  <2> SUFFICES ASSUME NEW q, NEW u, NEW a, NEW e, At(g, q, a), At(g, u, e), a.kind = "element", e.kind = "element",
                      a.to = e.to, a.idx = e.idx
               PROVE  a = e
    BY DEF OnceEach
  <2>1. CASE At(h, q, a) /\ At(h, u, e) BY <1>16, <2>1 DEF OnceEach
  <2>2. CASE At(h, q, a) /\ e = t BY <1>5, <1>18, <2>2
  <2>3. CASE At(h, u, e) /\ a = t BY <1>5, <1>18, <2>3
  <2>4. At(h, q, a) \/ a = t BY <1>12
  <2>5. At(h, u, e) \/ e = t BY <1>12
  <2> QED BY <2>1, <2>2, <2>3, <2>4, <2>5
<1>20. OutsDiffer(g) BY <1>10, <1>16 DEF OutsDiffer
<1>21. Settled(h, g) BY <1>11, <1>13 DEF Settled
<1>22. \A l \in DOMAIN h.combs : h.combs[l].out \in Promise(h) /\ \A i \in DOMAIN h.combs[l].els : h.combs[l].els[i] \in Promise(h)
  BY <1>16 DEF Exact, Knows
<1>23. Exact(g, k) /\ Owing(g, s, k)
  <2>1. SameButEls(h.combs[k], g.combs[k]) BY <1>1, <1>2, <1>9, <1>14, <1>15 DEF SameButEls
  <2>2. \A i \in DOMAIN g.combs[k].els : g.combs[k].els[i] \in Promise(g)
    BY <1>1, <1>2, <1>9, <1>11, <1>14, <1>15, <1>22
  <2>3. \A i : Placed(g, k, i) <=> (Placed(h, k, i) \/ i = n + 1) BY <1>5, <1>12 DEF Placed
  <2>4. Reported(g, k) = Reported(h, k) BY <1>1, <1>2, <1>9, <1>14, <1>15, <2>3 DEF Reported
  <2>5. h.prom[h.combs[k].out].state = "pending" => g.prom[h.combs[k].out].state = "pending" BY <1>13, <1>22
  <2>6. Exact(h, k) /\ Owing(h, st, k) BY <1>16
  <2>7. Exact(g, k) BY <1>21, <2>1, <2>2, <2>4, <2>5, <2>6, ExactStays
  <2>8. ToCome(st, k) = m + 1 /\ ToCome(s, k) = m OBVIOUS
  <2>9. n + (m + 1) = (n + 1) + m BY ONLY <1>2, m \in Nat
  <2>10. n + ToCome(st, k) = Len(c.results) BY <1>1, <2>6 DEF Owing
  <2>11. Len(g.combs[k].els) + ToCome(s, k) = Len(g.combs[k].results) BY <1>9, <1>14, <2>8, <2>9, <2>10
  <2> QED BY <2>7, <2>11 DEF Owing
<1>24. ASSUME NEW l \in DOMAIN g.combs, l # k PROVE Exact(g, l) /\ Owing(g, s, l)
  <2>1. l \in DOMAIN h.combs /\ g.combs[l] = h.combs[l] BY <1>10, <1>24
  <2>2. Exact(h, l) /\ Owing(h, st, l) BY <1>16, <2>1
  <2>3. SameButEls(h.combs[l], g.combs[l]) /\ g.combs[l].els = h.combs[l].els BY <2>1 DEF SameButEls
  <2>4. \A i : Placed(g, l, i) <=> Placed(h, l, i) BY <1>5, <1>12, <1>24 DEF Placed
  <2>5. h.prom[h.combs[l].out].state = "pending" => g.prom[h.combs[l].out].state = "pending" BY <1>13, <1>22, <2>1
  <2>6. Exact(g, l) BY <1>21, <2>2, <2>3, <2>4, <2>5, OtherExact
  <2>7. ToCome(st, l) = 0 /\ ToCome(s, l) = 0 BY <1>24
  <2>8. Owing(g, s, l) BY <2>1, <2>2, <2>7 DEF Owing
  <2> QED BY <2>6, <2>8
<1> QED BY <1>17, <1>19, <1>20, <1>23, <1>24 DEF CombsExact

LEMMA RegisterStaysExact ==
  ASSUME PInv, CInv, Register
  PROVE  CInv'
<1>f. PICK h, st, f, s : h = heap /\ st = stack /\ f = Last(st) /\ s = Front(st) OBVIOUS
<1>0. st # <<>> /\ f.kind = "combine" BY <1>f DEF Register, Top
<1>1. f.kind \notin OfGen BY <1>0 DEF OfGen
<1>2. /\ h \in Heap /\ s \in Seq(FrameRec) /\ st \in Seq(FrameRec) /\ f \in FrameRec /\ FrameOK(h, f) /\ OutsThere(h)
  <2>1. /\ heap \in Heap /\ Front(stack) \in Seq(FrameRec) /\ Last(stack) \in FrameRec /\ FrameOK(heap, Last(stack))
    BY <1>0, <1>f, PInvParts, PopFacts
  <2> QED BY <1>f, <2>1, PInvParts, ProgramHeap
<1>3. CombsExact(h, st) /\ OnlyTop(st) BY <1>f DEF CInv, CombsExact
<1>4. NoLoops(s) BY <1>0, <1>2, <1>3, <1>f, StackFront
<1>5. \A l : ToCome(st, l) = IF l = f.p THEN Len(f.arg) ELSE 0 BY <1>0, <1>f DEF ToCome, Loop
<1>6. CASE f.arg = <<>>
  <2>1. heap' = h /\ stack' = s BY <1>6, <1>f DEF Register, Top, Pop
  <2>2. OnlyTop(s) BY <1>4 DEF NoLoops, OnlyTop
  <2>3. \A l : ToCome(st, l) = 0 BY <1>5, <1>6
  <2>4. \A l : ToCome(s, l) = 0 BY <1>2, <1>4, NothingToCome
  <2>5. CombsExact(h, s) BY <1>3, <2>2, <2>3, <2>4, CalmSelf, CalmKeeps
  <2> QED BY <2>1, <2>5 DEF CInv
<1>7. CASE f.arg # <<>>
  <2>1. PICK x, els, n : x = Head(f.arg) /\ els = Tail(f.arg) /\ n = Len(f.arg) OBVIOUS
  <2>2. f.arg \in Seq(Value) /\ f = Frame(f.kind, f.p, f.ok, f.arg) BY <1>0, <1>2 DEF FrameOK, FrameIsTyped
  <2>3. PICK k \in DOMAIN h.combs : k = f.p BY <1>0, <1>2 DEF FrameOK, FrameIsTyped
  <2>4. els \in Seq(Value) /\ x \in Value /\ n \in Nat /\ n >= 1 /\ Len(els) = n - 1 BY <1>7, <2>1, <2>2, Tailed, Indices
  <2>5. PICK h1, p : h1 = promResolveValue(h, x) /\ p = Resolved(h, x) OBVIOUS
  <2>6. h1 \in Heap /\ Calm(h, h1) /\ p \in Promise(h1) BY <1>2, <2>4, <2>5, CalmResolveValue
  <2>7. CombsExact(h1, st) BY <1>3, <2>6, CalmKeeps
  <2>8. h1.combs = h.combs BY <2>6 DEF Calm
  <2>9. PICK l, r, h2, g : /\ l = Len(h1.combs[k].els) /\ r = Reaction("element", TRUE, TRUE, k, l + 1)
                           /\ h2 = promThen(h1, p, r) /\ g = [h2 EXCEPT !.combs[k].els = Append(@, p)]
    OBVIOUS
  <2>10. g = promElement(h, k, x) BY <2>5, <2>8, <2>9 DEF promElement
  <2>11. PICK c, t : c = [f EXCEPT !.arg = els] /\ t = stack' OBVIOUS
  <2>12. heap' = g /\ t = Append(s, c) BY <1>7, <1>f, <2>1, <2>3, <2>10, <2>11 DEF Register, Top, Pop
  <2>13. c \in FrameRec /\ c.kind = "combine" /\ c.p = k /\ c.arg = els BY <1>0, <1>2, <2>2, <2>3, <2>4, <2>11 DEF Frame, FrameRec
  <2>14. PICK m \in Nat : m = n - 1 BY <2>4
  <2>15. OnlyTop(t) /\ (\A i : ToCome(t, i) = IF i = k THEN m ELSE 0)
    BY <1>2, <1>4, <2>4, <2>12, <2>13, <2>14, LoopOnTop
  <2>16. \A i : ToCome(st, i) = IF i = k THEN m + 1 ELSE 0 BY <1>5, <2>1, <2>3, <2>4, <2>14
  <2>17. k \in DOMAIN h1.combs BY ONLY <2>8
  <2>18. l = Len(h1.combs[k].els) BY ONLY <2>9, Zenon
  <2>19. r = Reaction("element", TRUE, TRUE, k, l + 1) BY <2>9, Zenon
  <2>20. h2 = promThen(h1, p, r) BY <2>9
  <2>21. g = [h2 EXCEPT !.combs[k].els = Append(@, p)] BY <2>9, Zenon
  <2>22. PICK a, d : Registers(h1, g, k, p, a, d)
    BY ONLY <2>6, <2>17, <2>18, <2>19, <2>20, <2>21, RegisterEffect, Zenon
  <2>23. CombsExact(g, t) BY ONLY <2>6, <2>7, <2>14, <2>15, <2>16, <2>17, <2>22, RegisterExact
  <2> QED BY <2>11, <2>12, <2>23 DEF CInv
<1> QED BY <1>6, <1>7

\* The counter and a result of combinator k change.
Recorded(h, g, k, idx, v, left, c) ==
  /\ g \in Heap /\ SameOuts(h, g)
  /\ g.combs[k].els = c.els /\ g.combs[k].name = c.name /\ g.combs[k].left = left /\ g.combs[k].out = c.out
  /\ g.combs[k].results = [c.results EXCEPT ![idx] = v]
  /\ \A l \in DOMAIN h.combs : l # k => g.combs[l] = h.combs[l]

LEMMA ResultSet ==
  ASSUME NEW h \in Heap, NEW k \in DOMAIN h.combs, NEW idx, NEW v \in Value, NEW left \in Int, NEW c, c = h.combs[k],
         NEW g, g = [h EXCEPT !.combs[k].results[idx] = v, !.combs[k].left = left]
  PROVE  Recorded(h, g, k, idx, v, left, c)
<1>1. g \in Heap /\ SameOuts(h, g) BY ElementSet
<1>2. c \in CombinatorRec /\ h.combs \in Seq(CombinatorRec) BY Parts
<1>3. PICK r, c1, c2 : r = [c.results EXCEPT ![idx] = v] /\ c1 = [c EXCEPT !.results = r] /\ c2 = [c1 EXCEPT !.left = left]
  OBVIOUS
<1>4. PICK h1 : h1 = [h EXCEPT !.combs[k].results[idx] = v] OBVIOUS
<1>5. h1.combs = [h.combs EXCEPT ![k] = c1] BY <1>3, <1>4 DEF Heap
<1>6. h1.combs[k] = c1 /\ k \in DOMAIN h1.combs BY <1>5
<1>7. g = [h1 EXCEPT !.combs[k].left = left] BY <1>4
<1>8. DOMAIN h1 = {"prom", "combs", "ags", "queue", "gen"} BY <1>4 DEF Heap
<1>9. g.combs = [h1.combs EXCEPT ![k] = c2] BY ONLY <1>3, <1>6, <1>7, <1>8
<1>10. g.combs[k] = c2 /\ \A l \in DOMAIN h.combs : l # k => g.combs[l] = h.combs[l] BY ONLY <1>5, <1>6, <1>9
<1>11. c1.els = c.els /\ c1.name = c.name /\ c1.out = c.out /\ c1.results = r /\ DOMAIN c1 = {"name", "els", "left", "out", "results"}
  BY ONLY <1>2, <1>3 DEF CombinatorRec
<1>12. c2.els = c.els /\ c2.name = c.name /\ c2.out = c.out /\ c2.results = r /\ c2.left = left BY ONLY <1>3, <1>11
<1> QED BY ONLY <1>1, <1>3, <1>10, <1>12 DEF Recorded

\* The report of element i to combinator k, that it settled as how with v.
Says(h, g, k, i, how, v, c, d) ==
  /\ c = h.combs[k] /\ g.combs[k] = d /\ d.name = c.name /\ d.els = c.els /\ d.out = c.out
  /\ DOMAIN g.combs = DOMAIN h.combs /\ (\A l \in DOMAIN h.combs : l # k => g.combs[l] = h.combs[l])
  /\ Promise(g) = Promise(h) /\ SameAt(h, g)
  /\ \A p \in Promise(h) :
       (p # c.out \/ h.prom[p].state # "pending") => g.prom[p].state = h.prom[p].state /\ g.prom[p].value = h.prom[p].value
  /\ IF ~Counts(c.name, how)
     THEN /\ d.left = c.left /\ d.results = c.results
          /\ h.prom[c.out].state = "pending" => g.prom[c.out].state = how /\ g.prom[c.out].value = v
     ELSE /\ d.left = c.left - 1 /\ d.results = [c.results EXCEPT ![i] = v]
          /\ h.prom[c.out].state = "pending" =>
               IF d.left # 0 THEN g.prom[c.out].state = "pending"
               ELSE g.prom[c.out].state # "pending" /\ AsAll(c, k, g.prom[c.out])

LEMMA ElementSays ==
  ASSUME NEW h \in Heap, NEW k \in DOMAIN h.combs, h.combs[k].out \in Promise(h), NEW i, NEW ok \in BOOLEAN, NEW v \in Value,
         ok => v \in Final, NEW how, how = (IF ok THEN "fulfilled" ELSE "rejected"), NEW g, g = Element(h, k, i, ok, v)
  PROVE  \E c, d : Says(h, g, k, i, how, v, c, d)
<1>1. PICK c, o, left : c = h.combs[k] /\ o = c.out /\ left = c.left - 1 OBVIOUS
<1>2. /\ c.name \in CombinatorNames /\ c.left \in Int /\ left \in Int /\ k \in Nat /\ k >= 1 /\ o \in Promise(h)
  BY <1>1, CombParts
<1>3. PICK h1 : h1 = [h EXCEPT !.combs[k].results[i] = v, !.combs[k].left = left] OBVIOUS
<1>4. g = (CASE c.name = "race" /\ ~ok -> promSettle(h, o, "rejected", v)
             [] c.name = "all" /\ ~ok -> promSettle(h, o, "rejected", v)
             [] c.name \in {"race", "any"} /\ ok -> promResolve(h, o, v)
             [] OTHER -> IF left # 0 THEN h1
                         ELSE IF c.name = "any" THEN promSettle(h1, o, "rejected", AggregateError)
                         ELSE promResolve(h1, o, Results(k)))
  BY <1>1, <1>3 DEF Element
<1>5. how \in {"fulfilled", "rejected"} OBVIOUS
<1>6. Counts(c.name, how) <=> ((c.name = "all" /\ ok) \/ (c.name = "any" /\ ~ok) \/ c.name = "allSettled")
  BY DEF Counts
<1>7. CASE ~Counts(c.name, how)
  <2>1. g = promSettle(h, o, how, v)
    <3>1. CASE ok
      <4>1. c.name \in {"race", "any"} /\ g = promResolve(h, o, v) BY <1>2, <1>4, <1>6, <1>7, <3>1 DEF CombinatorNames
      <4> QED BY <1>2, <3>1, <4>1, ResolveFinal
    <3>2. CASE ~ok
      <4>1. c.name \in {"race", "all"} BY <1>2, <1>6, <1>7, <3>2 DEF CombinatorNames
      <4> QED BY <1>4, <3>2, <4>1
    <3> QED BY <3>1, <3>2
  <2>2. OnlyOut(h, g, o) /\ (h.prom[o].state = "pending" => g.prom[o].state = how /\ g.prom[o].value = v)
    BY <1>2, <1>5, <2>1, OutSettles
  <2>3. Says(h, g, k, i, how, v, c, c) BY ONLY <1>1, <1>7, <2>2 DEF Says, OnlyOut
  <2> QED BY <2>3
<1>8. CASE Counts(c.name, how)
  <2>1. g = IF left # 0 THEN h1
            ELSE IF c.name = "any" THEN promSettle(h1, o, "rejected", AggregateError)
            ELSE promResolve(h1, o, Results(k))
    BY <1>4, <1>6, <1>8
  <2>2. PICK d : d = h1.combs[k] OBVIOUS
  <2>3. /\ h1 \in Heap /\ SameOuts(h, h1)
        /\ h1.combs[k].els = c.els /\ h1.combs[k].name = c.name /\ h1.combs[k].left = left /\ h1.combs[k].out = c.out
        /\ h1.combs[k].results = [c.results EXCEPT ![i] = v]
        /\ \A l \in DOMAIN h.combs : l # k => h1.combs[l] = h.combs[l]
    <3>1. c = h.combs[k] BY <1>1
    <3>2. left \in Int BY <1>2
    <3>3. h1 = [h EXCEPT !.combs[k].results[i] = v, !.combs[k].left = left] BY <1>3
    <3>4. Recorded(h, h1, k, i, v, left, c)
      BY ONLY h \in Heap, k \in DOMAIN h.combs, v \in Value, <3>1, <3>2, <3>3, ResultSet
    <3> QED BY ONLY <3>4 DEF Recorded
  <2>4. h1.prom = h.prom /\ h1.queue = h.queue /\ DOMAIN h1.combs = DOMAIN h.combs BY ONLY <2>3 DEF SameOuts
  <2>5. Promise(h1) = Promise(h) /\ SameAt(h, h1) BY ONLY <2>4 DEF Promise, SameAt, At
  <2>6. o \in Promise(h1) BY ONLY <1>2, <2>5
  <2>7. /\ OnlyOut(h1, g, o)
        /\ h1.prom[o].state = "pending" =>
             IF left # 0 THEN g.prom[o].state = "pending" ELSE g.prom[o].state # "pending" /\ AsAll(c, k, g.prom[o])
    <3>1. CASE left # 0
      <4>1. g = h1 BY <2>1, <3>1
      <4> QED BY ONLY <3>1, <4>1, OnlyOutSelf
    <3>2. CASE left = 0 /\ c.name = "any"
      <4>1. PICK e \in {"fulfilled", "rejected"}, w \in Value : e = "rejected" /\ w = AggregateError BY DEF Value
      <4>2. g = promSettle(h1, o, e, w) BY <2>1, <3>2, <4>1
      <4>3. OnlyOut(h1, g, o) /\ (h1.prom[o].state = "pending" => g.prom[o].state = e /\ g.prom[o].value = w)
        BY ONLY <2>3, <2>6, <4>2, e \in {"fulfilled", "rejected"}, w \in Value, OutSettles
      <4> QED BY ONLY <3>2, <4>1, <4>3 DEF AsAll
    <3>3. CASE left = 0 /\ c.name # "any"
      <4>1. PICK e \in {"fulfilled", "rejected"}, w \in Final : e = "fulfilled" /\ w = Results(k) /\ w \in Value
        BY <1>2, ResultsFinal
      <4>2. g = promResolve(h1, o, w) BY <2>1, <3>3, <4>1
      <4>3. g = promSettle(h1, o, e, w) BY <2>3, <2>6, <4>1, <4>2, ResolveFinal
      <4>4. OnlyOut(h1, g, o) /\ (h1.prom[o].state = "pending" => g.prom[o].state = e /\ g.prom[o].value = w)
        BY ONLY <2>3, <2>6, <4>1, <4>3, e \in {"fulfilled", "rejected"}, OutSettles
      <4> QED BY ONLY <3>3, <4>1, <4>4 DEF AsAll
    <3> QED BY <3>1, <3>2, <3>3
  <2>8. SameAt(h, g) BY ONLY <2>5, <2>7 DEF SameAt, OnlyOut
  <2>9. g.combs = h1.combs /\ Promise(g) = Promise(h) /\ \A p \in Promise(h) :
          (p # o \/ h.prom[p].state # "pending") => g.prom[p].state = h.prom[p].state /\ g.prom[p].value = h.prom[p].value
    BY ONLY <2>4, <2>5, <2>7 DEF OnlyOut
  <2>10. Says(h, g, k, i, how, v, c, d) BY ONLY <1>1, <1>8, <2>2, <2>3, <2>4, <2>7, <2>8, <2>9 DEF Says
  <2> QED BY <2>10
<1> QED BY <1>7, <1>8

\* The reaction of element i of combinator k is taken from the queue: one more
\* element has reported.
Reports(h, f, k, i, p) ==
  /\ f.combs = h.combs /\ Promise(f) = Promise(h) /\ ElementsOK(f) /\ OnceEach(f)
  /\ \A q \in Promise(h) : f.prom[q].state = h.prom[q].state /\ f.prom[q].value = h.prom[q].value
  /\ k \in DOMAIN h.combs /\ i \in DOMAIN h.combs[k].els /\ h.combs[k].els[i] = p
  /\ i \notin Reported(h, k) /\ Reported(f, k) = Reported(h, k) \cup {i}
  /\ \A l, x : l # k => (Placed(f, l, x) <=> Placed(h, l, x))

LEMMA TookReports ==
  ASSUME NEW h, NEW f, NEW j, Took(h, f, j), j.kind = "reaction", j.r.kind = "element", ElementsOK(h), OnceEach(h)
  PROVE  Reports(h, f, j.r.to, j.r.idx, j.p)
<1>1. /\ f.combs = h.combs /\ Promise(f) = Promise(h)
      /\ \A q \in Promise(h) : f.prom[q].state = h.prom[q].state /\ f.prom[q].value = h.prom[q].value
      /\ At(h, j.p, j.r)
  BY DEF Took
<1>2. \A q, r : At(f, q, r) <=> (At(h, q, r) /\ ~(q = j.p /\ r = j.r)) BY DEF Took, IsReactionOf
<1>3. PICK k, i, p : k = j.r.to /\ i = j.r.idx /\ p = j.p OBVIOUS
<1>4. k \in DOMAIN h.combs /\ i \in DOMAIN h.combs[k].els /\ h.combs[k].els[i] = p BY <1>1, <1>3 DEF ElementsOK
<1>5. ElementsOK(f) BY <1>1, <1>2 DEF ElementsOK
<1>6. OnceEach(f) BY <1>2 DEF OnceEach
<1>7. Placed(h, k, i) BY <1>1, <1>3 DEF Placed
<1>8. ~Placed(f, k, i)
  <2>1. ASSUME NEW q, NEW r, At(f, q, r), r.kind = "element", r.to = k, r.idx = i PROVE FALSE
    <3>1. At(h, q, r) BY <1>2, <2>1
    <3>2. r = j.r BY <1>1, <1>3, <2>1, <3>1 DEF OnceEach
    <3>3. q = p BY <1>4, <2>1, <3>1 DEF ElementsOK
    <3> QED BY <1>2, <1>3, <2>1, <3>2, <3>3
  <2> QED BY <2>1 DEF Placed
<1>9. \A l, x : l # k \/ x # i => (Placed(f, l, x) <=> Placed(h, l, x)) BY <1>2, <1>3 DEF Placed
<1>10. i \notin Reported(h, k) BY <1>7 DEF Reported
<1>11. Reported(f, k) = Reported(h, k) \cup {i} BY <1>1, <1>4, <1>8, <1>9 DEF Reported
<1> QED BY <1>1, <1>3, <1>4, <1>5, <1>6, <1>9, <1>10, <1>11 DEF Reports

\* Combinator k with one more element, counted or not.
OneMore(R, C, i, counts, S, D) == S = R \cup {i} /\ D = IF counts THEN C \cup {i} ELSE C

LEMMA KnowsMore ==
  ASSUME NEW h \in Heap, NEW k \in DOMAIN h.combs, NEW c, NEW d, NEW R, NEW C, Knows(h, c, k, R, C), c = h.combs[k], C \subseteq R,
         R \subseteq DOMAIN c.els, Len(c.els) = Len(c.results),
         NEW i \in DOMAIN c.els, i \notin R, NEW how \in {"fulfilled", "rejected"}, NEW v,
         h.prom[c.els[i]].state = how, h.prom[c.els[i]].value = v,
         NEW f, f.combs = h.combs, Promise(f) = Promise(h),
         \A q \in Promise(h) : f.prom[q].state = h.prom[q].state /\ f.prom[q].value = h.prom[q].value,
         NEW g, Says(f, g, k, i, how, v, c, d), NEW S, NEW D, OneMore(R, C, i, Counts(c.name, how), S, D)
  PROVE  Knows(g, d, k, S, D)
<1>1. PICK o, n : o = c.out /\ n = Len(c.results) OBVIOUS
<1>s. S = R \cup {i} /\ D = IF Counts(c.name, how) THEN C \cup {i} ELSE C BY DEF OneMore
<1>2. /\ n \in Nat /\ DOMAIN c.els = 1 .. n /\ DOMAIN c.results = 1 .. n /\ c.left \in Int
  BY <1>1, CombParts
<1>3. /\ o \in Promise(h) /\ (\A x \in DOMAIN c.els : c.els[x] \in Promise(h))
      /\ c.left = n - Cardinality(C)
      /\ (\A x \in R : h.prom[c.els[x]].state # "pending")
      /\ (\A x \in C : x \in 1 .. n /\ c.results[x] = h.prom[c.els[x]].value)
      /\ (h.prom[o].state = "pending" => Unanswered(c, R, C))
      /\ (h.prom[o].state # "pending" => Answered(h, c, k, R, C))
  BY <1>1, Zenon DEF Knows
<1>4. /\ d.name = c.name /\ d.els = c.els /\ d.out = o /\ Promise(g) = Promise(f)
      /\ \A p \in Promise(f) :
           (p # o \/ f.prom[p].state # "pending") => g.prom[p].state = f.prom[p].state /\ g.prom[p].value = f.prom[p].value
  BY <1>1 DEF Says
<1>5. IF ~Counts(c.name, how)
      THEN /\ d.left = c.left /\ d.results = c.results
           /\ f.prom[o].state = "pending" => g.prom[o].state = how /\ g.prom[o].value = v
      ELSE /\ d.left = c.left - 1 /\ d.results = [c.results EXCEPT ![i] = v]
           /\ f.prom[o].state = "pending" =>
                IF d.left # 0 THEN g.prom[o].state = "pending"
                ELSE g.prom[o].state # "pending" /\ AsAll(c, k, g.prom[o])
  BY <1>1, Zenon DEF Says
<1>6. \A p \in Promise(h) : h.prom[p].state # "pending" => g.prom[p].state = h.prom[p].state /\ g.prom[p].value = h.prom[p].value
  BY <1>4
<1>7. \A x \in S : /\ h.prom[c.els[x]].state # "pending" /\ x \in 1 .. n
                   /\ g.prom[d.els[x]].state = h.prom[c.els[x]].state /\ g.prom[d.els[x]].value = h.prom[c.els[x]].value
  BY <1>2, <1>3, <1>4, <1>6, <1>s
<1>8. i \notin C /\ i \in 1 .. n /\ C \subseteq 1 .. n /\ i \in S /\ C \subseteq S BY <1>2, <1>s
<1>9. Cardinality(C) \in Nat /\ Cardinality(C \cup {i}) = Cardinality(C) + 1 BY ONLY <1>2, <1>8, CountFacts
<1>10. Len(d.results) = n /\ d.left = n - Cardinality(D) /\ \A x \in D : x \in 1 .. n /\ d.results[x] = g.prom[d.els[x]].value
  <2>1. CASE ~Counts(c.name, how)
    <3>1. D = C /\ d.left = c.left /\ d.results = c.results BY <1>5, <1>s, <2>1
    <3> QED BY <1>1, <1>3, <1>7, <1>8, <3>1
  <2>2. CASE Counts(c.name, how)
    <3>1. D = C \cup {i} /\ d.left = c.left - 1 /\ d.results = [c.results EXCEPT ![i] = v] BY <1>5, <1>s, <2>2
    <3>2. c.results \in Seq(Value) BY CombParts
    <3>3. PICK r : r = c.results OBVIOUS
    <3>4. r \in [1 .. n -> Value] /\ d.results = [r EXCEPT ![i] = v] BY <1>1, <3>1, <3>2, <3>3, Indices
    <3>5. /\ d.results \in [1 .. n -> Value \cup {v}] /\ d.results[i] = v
          /\ \A x \in 1 .. n : x # i => d.results[x] = c.results[x]
      BY ONLY <1>8, <3>3, <3>4
    <3>6. Len(d.results) = n BY ONLY <1>2, <3>5
    <3>7. d.left = n - Cardinality(D) BY ONLY <1>3, <1>9, <1>2, <3>1
    <3>8. \A x \in C : x \in 1 .. n /\ d.results[x] = g.prom[d.els[x]].value BY ONLY <1>3, <1>7, <1>8, <3>5, Zenon
    <3>9. d.results[i] = g.prom[d.els[i]].value BY <1>7, <1>8, <3>5
    <3> QED BY ONLY <1>8, <3>1, <3>6, <3>7, <3>8, <3>9
  <2> QED BY ONLY <2>1, <2>2
<1>11. D \subseteq 1 .. n BY <1>10
<1>12. d.left = 0 <=> D = 1 .. n
  <2>1. Cardinality(D) \in Nat /\ (Cardinality(D) = n <=> D = 1 .. n) BY ONLY <1>2, <1>11, CountFacts
  <2> QED BY ONLY <1>2, <1>10, <2>1
<1>13. ASSUME g.prom[o].state = "pending" PROVE Unanswered(d, S, D)
  <2>1. h.prom[o].state = "pending" BY ONLY <1>3, <1>6, <1>13, Zenon
  <2>2. f.prom[o].state = "pending" BY <1>3, <2>1
  <2>3. Unanswered(c, R, C) BY <1>3, <2>1
  <2>4. Counts(c.name, how) /\ d.left # 0 BY <1>5, <1>13, <2>2
  <2>5. S = D BY <1>s, <2>3, <2>4 DEF Unanswered
  <2>6. D # 1 .. Len(d.results) BY <1>10, <1>12, <2>4
  <2> QED BY <2>5, <2>6 DEF Unanswered
<1>14. ASSUME g.prom[o].state # "pending" PROVE Answered(g, d, k, S, D)
  <2>1. CASE h.prom[o].state # "pending"
    <3>1. g.prom[o].state = h.prom[o].state /\ g.prom[o].value = h.prom[o].value BY <1>3, <1>6, <2>1
    <3>2. C # 1 .. n BY <1>8
    <3>3. PICK x \in R \ C : h.prom[c.els[x]].state = h.prom[o].state /\ h.prom[c.els[x]].value = h.prom[o].value
      BY ONLY <1>1, <1>3, <2>1, <3>2 DEF Answered
    <3>4. x \in S \ D BY <1>s, <3>3, Zenon
    <3>5. g.prom[d.els[x]].state = g.prom[o].state /\ g.prom[d.els[x]].value = g.prom[o].value BY ONLY <1>7, <3>1, <3>3, <3>4
    <3> QED BY <1>4, <3>4, <3>5, Zenon DEF Answered
  <2>2. CASE h.prom[o].state = "pending"
    <3>0. f.prom[o].state = "pending" BY <1>3, <2>2, Zenon
    <3>1. CASE ~Counts(c.name, how)
      <4>1. g.prom[o].state = how /\ g.prom[o].value = v BY <1>5, <3>0, <3>1
      <4>2. i \in S \ D BY ONLY <1>8, <1>s, <3>1
      <4>3. g.prom[d.els[i]].state = g.prom[o].state /\ g.prom[d.els[i]].value = g.prom[o].value BY <1>7, <4>1, <4>2, Zenon
      <4> QED BY ONLY <1>4, <4>2, <4>3, Zenon DEF Answered
    <3>2. CASE Counts(c.name, how)
      <4>1. d.left = 0 /\ AsAll(c, k, g.prom[o]) BY <1>5, <1>14, <3>0, <3>2
      <4>2. D = 1 .. Len(d.results) BY <1>10, <1>12, <4>1
      <4>3. d.name # "race" BY <1>4, <3>2 DEF Counts
      <4>4. AsAll(d, k, g.prom[o]) BY <1>4, <4>1 DEF AsAll
      <4> QED BY <1>4, <4>2, <4>3, <4>4 DEF Answered
    <3> QED BY <3>1, <3>2
  <2> QED BY <2>1, <2>2
<1>15. d.out \in Promise(g) /\ \A x \in DOMAIN d.els : d.els[x] \in Promise(g) BY <1>3, <1>4
<1>16. \A x \in S : g.prom[d.els[x]].state # "pending" BY ONLY <1>7
<1> QED BY ONLY <1>4, <1>10, <1>13, <1>14, <1>15, <1>16 DEF Knows

LEMMA ElementExact ==
  ASSUME NEW h \in Heap, NEW st, CombsExact(h, st), \A l : ToCome(st, l) = 0,
         NEW f, NEW g, NEW k, NEW i, NEW p, Reports(h, f, k, i, p), NEW how \in {"fulfilled", "rejected"}, NEW v,
         h.prom[p].state = how, h.prom[p].value = v, NEW c, NEW d, Says(f, g, k, i, how, v, c, d)
  PROVE  CombsExact(g, st)
<1>1. /\ f.combs = h.combs /\ Promise(f) = Promise(h) /\ ElementsOK(f) /\ OnceEach(f)
      /\ \A q \in Promise(h) : f.prom[q].state = h.prom[q].state /\ f.prom[q].value = h.prom[q].value
      /\ k \in DOMAIN h.combs /\ i \in DOMAIN h.combs[k].els /\ h.combs[k].els[i] = p
      /\ i \notin Reported(h, k) /\ Reported(f, k) = Reported(h, k) \cup {i}
      /\ \A l, x : l # k => (Placed(f, l, x) <=> Placed(h, l, x))
  BY DEF Reports
<1>2. /\ c = h.combs[k] /\ g.combs[k] = d /\ d.name = c.name /\ d.els = c.els /\ d.out = c.out
      /\ DOMAIN g.combs = DOMAIN h.combs /\ (\A l \in DOMAIN h.combs : l # k => g.combs[l] = h.combs[l])
      /\ Promise(g) = Promise(h) /\ SameAt(f, g)
      /\ \A q \in Promise(h) :
           (q # c.out \/ h.prom[q].state # "pending") => g.prom[q].state = h.prom[q].state /\ g.prom[q].value = h.prom[q].value
  BY <1>1 DEF Says
<1>3. OutsDiffer(h) /\ OnlyTop(st) /\ \A l \in DOMAIN h.combs : Exact(h, l) /\ Owing(h, st, l) BY DEF CombsExact
<1>4. \A q, r : At(g, q, r) <=> At(f, q, r) BY <1>2 DEF SameAt
<1>5. \A l \in DOMAIN h.combs : g.combs[l].out = h.combs[l].out /\ g.combs[l].els = h.combs[l].els BY <1>2
<1>6. ElementsOK(g) BY <1>1, <1>2, <1>4, <1>5 DEF ElementsOK
<1>7. OnceEach(g) BY <1>1, <1>4 DEF OnceEach
<1>8. OutsDiffer(g) BY <1>2, <1>3, <1>5 DEF OutsDiffer
<1>9. \A l, x : Placed(g, l, x) <=> Placed(f, l, x) BY <1>4 DEF Placed
<1>10. Settled(h, g) BY <1>2 DEF Settled
<1>11. Exact(g, k)
  <2>1. PICK R, C, S, D : /\ R = Reported(h, k) /\ C = Counted(h, k) /\ S = R \cup {i}
                          /\ D = IF Counts(c.name, how) THEN C \cup {i} ELSE C
    OBVIOUS
  <2>2. Knows(h, c, k, R, C) BY <1>1, <1>2, <1>3, <2>1 DEF Exact
  <2>3. C = {x \in R : Counts(c.name, h.prom[c.els[x]].state)} /\ R \subseteq DOMAIN c.els
    BY <1>2, <2>1 DEF Counted, Reported
  <2>4. Len(c.els) = Len(c.results)
    <3>1. Owing(h, st, k) /\ ToCome(st, k) = 0 BY <1>1, <1>3
    <3>2. Len(c.els) \in Nat BY <1>1, <1>2, CombParts
    <3> QED BY <1>2, <3>1, <3>2 DEF Owing
  <2>5. i \in DOMAIN c.els /\ i \notin R /\ h.prom[c.els[i]].state = how /\ h.prom[c.els[i]].value = v BY <1>1, <1>2, <2>1
  <2>6. C \subseteq R BY <2>3, Zenon
  <2>7. Knows(g, d, k, S, D)
    <3>1. OneMore(R, C, i, Counts(c.name, how), S, D) BY <2>1 DEF OneMore
    <3>2. c = h.combs[k] BY <1>2
    <3>3. k \in DOMAIN h.combs BY <1>1
    <3>4. f.combs = h.combs /\ Promise(f) = Promise(h)
          /\ \A q \in Promise(h) : f.prom[q].state = h.prom[q].state /\ f.prom[q].value = h.prom[q].value
      BY <1>1
    <3> QED BY ONLY h \in Heap, how \in {"fulfilled", "rejected"}, Says(f, g, k, i, how, v, c, d), <2>2, <2>3, <2>4, <2>5, <2>6,
                    <3>1, <3>2, <3>3, <3>4, KnowsMore, ZenonT(60)
  <2>8. Reported(g, k) = S BY <1>1, <1>2, <1>9, <2>1 DEF Reported
  <2>9. \A x \in S : g.prom[d.els[x]].state = h.prom[c.els[x]].state
    <3>1. \A x \in S : c.els[x] \in Promise(h) /\ h.prom[c.els[x]].state # "pending"
      BY <2>1, <2>2, <2>3, <2>5 DEF Knows
    <3> QED BY <1>2, <3>1
  <2>10. Counted(g, k) = D
    <3>1. Counted(g, k) = {x \in S : Counts(c.name, h.prom[c.els[x]].state)} BY <1>2, <2>8, <2>9 DEF Counted
    <3> QED BY <2>1, <2>3, <2>5, <3>1
  <2> QED BY <1>2, <2>7, <2>8, <2>10 DEF Exact
<1>12. ASSUME NEW l \in DOMAIN g.combs, l # k PROVE Exact(g, l)
  <2>1. l \in DOMAIN h.combs /\ g.combs[l] = h.combs[l] BY <1>2, <1>12
  <2>2. Exact(h, l) BY <1>3, <2>1
  <2>3. SameButEls(h.combs[l], g.combs[l]) /\ g.combs[l].els = h.combs[l].els BY <2>1 DEF SameButEls
  <2>4. \A x : Placed(g, l, x) <=> Placed(h, l, x) BY <1>1, <1>9, <1>12
  <2>5. h.combs[l].out \in Promise(h) /\ h.combs[l].out # c.out
    BY <1>1, <1>2, <1>3, <1>12, <2>1, <2>2, Zenon DEF OutsDiffer, Exact, Knows
  <2>6. h.prom[h.combs[l].out].state = "pending" => g.prom[h.combs[l].out].state = "pending" BY <1>2, <2>5
  <2> QED BY <1>10, <2>2, <2>3, <2>4, <2>6, OtherExact
<1>13. ASSUME NEW l \in DOMAIN g.combs PROVE Owing(g, st, l)
  <2>1. l \in DOMAIN h.combs /\ Owing(h, st, l) BY <1>2, <1>3, <1>13
  <2>2. Len(g.combs[l].els) = Len(h.combs[l].els) BY <1>5, <2>1
  <2>3. Len(g.combs[l].results) = Len(h.combs[l].results)
    <3>1. CASE l # k BY <1>2, <2>1, <3>1
    <3>2. CASE l = k
      <4>1. d.results = c.results \/ d.results = [c.results EXCEPT ![i] = v] BY DEF Says
      <4>2. c.results \in Seq(Value) BY <1>1, <1>2, CombParts
      <4>3. PICK r, n : r = c.results /\ n = Len(r) OBVIOUS
      <4>4. r \in [1 .. n -> Value] /\ n \in Nat BY <4>2, <4>3, Indices
      <4>5. [r EXCEPT ![i] = v] \in [1 .. n -> Value \cup {v}] BY ONLY <4>4
      <4>6. Len([r EXCEPT ![i] = v]) = n BY ONLY <4>4, <4>5
      <4>7. Len(d.results) = n BY <4>1, <4>3, <4>6
      <4> QED BY <1>2, <3>2, <4>3, <4>7
    <3> QED BY <3>1, <3>2
  <2> QED BY <2>1, <2>2, <2>3 DEF Owing
<1> QED BY <1>3, <1>6, <1>7, <1>8, <1>11, <1>12, <1>13 DEF CombsExact

LEMMA ElementStaysExact ==
  ASSUME PInv, CInv, RunOwn, Job.r.kind = "element"
  PROVE  CInv'
<1>1. PICK h, st, f, j, g : h = heap /\ st = stack /\ f = Taken /\ j = Job /\ g = heap' OBVIOUS
<1>2. Dequeue("reaction") BY DEF RunOwn
<1>3. Took(h, f, j) BY <1>1, <1>2, TakenTook
<1>4. TakenFor(f, j) /\ st = <<>> /\ j.kind = "reaction" /\ j.r.kind = "element" BY <1>1, TakenAll DEF RunOwn
<1>5. /\ j.ok \in BOOLEAN /\ j.x \in Value /\ (j.ok => j.x \in Final)
      /\ f.prom[j.p].state = (IF j.ok THEN "fulfilled" ELSE "rejected") /\ f.prom[j.p].value = j.x
  BY <1>4, JobValue
<1>6. CombsExact(h, st) /\ h \in Heap BY <1>1, PInvParts DEF CInv
<1>7. PICK k, i, p, ok, v, how :
        /\ k = j.r.to /\ i = j.r.idx /\ p = j.p /\ ok = j.ok /\ v = j.x /\ how = (IF ok THEN "fulfilled" ELSE "rejected")
  OBVIOUS
<1>t. ok \in BOOLEAN /\ v \in Value /\ how \in {"fulfilled", "rejected"} BY <1>5, <1>7
<1>8. Reports(h, f, k, i, p) BY <1>3, <1>4, <1>6, <1>7, TookReports DEF CombsExact
<1>9. h.prom[p].state = how /\ h.prom[p].value = v BY <1>3, <1>5, <1>7 DEF Took
<1>10. g = Element(f, k, i, ok, v) BY <1>1, <1>4, <1>7 DEF RunOwn
<1>11. f \in Heap /\ k \in DOMAIN f.combs /\ f.combs[k].out \in Promise(f)
  <2>1. f \in Heap /\ f.combs = h.combs /\ Promise(f) = Promise(h) BY <1>3 DEF Took
  <2>2. k \in DOMAIN h.combs BY <1>8 DEF Reports
  <2>3. h.combs[k].out \in Promise(h) BY <1>6, <2>2 DEF CombsExact, Exact, Knows
  <2> QED BY <2>1, <2>2, <2>3
<1>12. (ok => v \in Final) /\ how = (IF ok THEN "fulfilled" ELSE "rejected") BY <1>5, <1>7
<1>13. PICK c, d : Says(f, g, k, i, how, v, c, d)
  BY ONLY <1>10, <1>11, <1>12, <1>t, ElementSays
<1>14. \A l : ToCome(st, l) = 0 BY <1>4 DEF ToCome, Loop
<1>15. CombsExact(g, st)
  BY ONLY <1>6, <1>8, <1>9, <1>13, <1>14, <1>t, ElementExact
<1>16. heap' = g /\ stack' = st BY <1>1 DEF RunOwn
<1> QED BY <1>15, <1>16 DEF CInv

LEMMA InitExact == Init => CInv
<1> SUFFICES ASSUME Init PROVE CInv OBVIOUS
<1>1. DOMAIN heap.combs = {} /\ DOMAIN heap.queue = {} /\ Promise(heap) = {} BY DEF Init, Promise
<1>2. \A q, r : ~At(heap, q, r) BY <1>1 DEF At
<1>3. OnlyTop(stack) BY DEF Init, Frame, OnlyTop
<1> QED BY <1>1, <1>2, <1>3 DEF CInv, CombsExact, ElementsOK, OnceEach, OutsDiffer

LEMMA NextExact ==
  ASSUME PInv, CInv, Next
  PROVE  CInv'
<1>1. OnlyTop(stack) BY DEF CInv, CombsExact
<1>2. Aside \/ Combining BY <1>1, AsideOrCombining
<1>3. CASE Aside
  <2>1. PInv' BY NextHolds
  <2>2. Good(heap', stack') BY <2>1 DEF PInv
  <2> QED BY <1>3, <2>2, AsideKeeps DEF Keeps
<1>4. CASE Combining BY <1>4, CombineStaysExact, RegisterStaysExact, ElementStaysExact DEF Combining
<1> QED BY <1>2, <1>3, <1>4

LEMMA StutterExact == CInv /\ UNCHANGED vars => CInv'
<1> SUFFICES ASSUME CInv, UNCHANGED vars PROVE CInv' OBVIOUS
<1>1. heap' = heap /\ stack' = stack BY DEF vars
<1> QED BY <1>1 DEF CInv

\* The combinators stay exact, whatever the program does and in whatever order
\* the elements settle.
THEOREM CombinatorInvariance == Spec => []CInv
<1>1. PInv /\ CInv /\ [Next]_vars => CInv' BY NextExact, StutterExact
<1> QED BY <1>1, InitExact, Invariance, PTL DEF Spec

\* No loop has a negative number of elements to come.
LEMMA ElementsToCome ==
  ASSUME PInv, NEW k
  PROVE  ToCome(stack, k) \in Nat
<1>1. CASE ~Loop(stack, k) BY <1>1 DEF ToCome
<1>2. CASE Loop(stack, k)
  <2>1. PICK f : f = Last(stack) OBVIOUS
  <2>2. stack # <<>> /\ f.kind = "combine" BY <1>2, <2>1 DEF Loop
  <2>3. FrameOK(heap, f) BY <2>1, <2>2, PInvParts, PopFacts
  <2>4. f.arg \in Seq(Value) BY <2>2, <2>3 DEF FrameOK, FrameIsTyped
  <2>5. Len(f.arg) \in Nat BY <2>4, Indices
  <2> QED BY <1>2, <2>1, <2>5 DEF ToCome
<1> QED BY <1>1, <1>2

\* What is known of combinator k, in terms of its elements.
LEMMA KnownOf ==
  ASSUME PInv, CInv, NEW k \in DOMAIN heap.combs, NEW c, c = heap.combs[k], NEW n, n = Len(c.results),
         NEW R, R = Reported(heap, k), NEW C, C = Counted(heap, k)
  PROVE  /\ Knows(heap, c, k, R, C) /\ c.name \in CombinatorNames /\ n \in Nat /\ C \subseteq R /\ R \subseteq DOMAIN c.els
         /\ DOMAIN c.els \subseteq 1 .. n /\ C \subseteq 1 .. n /\ (stack = <<>> => DOMAIN c.els = 1 .. n)
         /\ C = {i \in R : Counts(c.name, heap.prom[c.els[i]].state)}
         /\ \A i \in DOMAIN c.els : heap.prom[c.els[i]].state \in {"pending", "fulfilled", "rejected"}
         /\ \A i \in R : heap.prom[c.els[i]].state \in {"fulfilled", "rejected"}
<1>1. heap \in Heap BY PInvParts
<1>2. Exact(heap, k) /\ Owing(heap, stack, k) BY DEF CInv, CombsExact
<1>3. Knows(heap, c, k, R, C) BY <1>2 DEF Exact
<1>4. c.name \in CombinatorNames /\ n \in Nat /\ DOMAIN c.els = 1 .. Len(c.els) /\ Len(c.els) \in Nat BY <1>1, CombParts
<1>5. C = {i \in R : Counts(c.name, heap.prom[c.els[i]].state)} /\ R \subseteq DOMAIN c.els BY DEF Counted, Reported
<1>6. C \subseteq R BY <1>5
<1>7. PICK t, l : t = ToCome(stack, k) /\ l = Len(c.els) OBVIOUS
<1>8. t \in Nat /\ l + t = n /\ l \in Nat BY <1>2, <1>4, <1>7, ElementsToCome DEF Owing
<1>9. l <= n /\ (t = 0 => l = n) BY ONLY <1>4, <1>8
<1>10. DOMAIN c.els \subseteq 1 .. n BY <1>4, <1>7, <1>8, <1>9
<1>11. stack = <<>> => DOMAIN c.els = 1 .. n
  <2>1. stack = <<>> => t = 0 BY <1>7 DEF ToCome, Loop
  <2> QED BY <1>4, <1>7, <1>9, <2>1
<1>12. C \subseteq 1 .. n BY <1>5, <1>6, <1>10
<1>13. \A i \in DOMAIN c.els : c.els[i] \in Promise(heap) BY <1>3 DEF Knows
<1>14. \A q \in Promise(heap) : heap.prom[q].state \in {"pending", "fulfilled", "rejected"} BY <1>1, Parts, PromiseParts
<1>15. \A i \in R : heap.prom[c.els[i]].state # "pending" BY <1>3 DEF Knows
<1> QED BY <1>3, <1>4, <1>5, <1>6, <1>10, <1>11, <1>12, <1>13, <1>14, <1>15, Zenon

LEMMA KeepTheirPromise == PInv /\ CInv => CombinatorsKeepTheirPromise
<1> SUFFICES ASSUME PInv, CInv, NEW k \in DOMAIN heap.combs, NEW c, c = heap.combs[k], NEW o, o = heap.prom[c.out]
             PROVE  c.left \in 0 .. Len(c.results) /\ (o.state # "pending" => MaySettle(c, k, o))
  BY DEF CombinatorsKeepTheirPromise
<1>1. PICK n, R, C : n = Len(c.results) /\ R = Reported(heap, k) /\ C = Counted(heap, k) OBVIOUS
<1>2. /\ Knows(heap, c, k, R, C) /\ c.name \in CombinatorNames /\ n \in Nat /\ C \subseteq R /\ R \subseteq DOMAIN c.els
      /\ DOMAIN c.els \subseteq 1 .. n /\ C \subseteq 1 .. n
      /\ C = {i \in R : Counts(c.name, heap.prom[c.els[i]].state)}
      /\ \A i \in R : heap.prom[c.els[i]].state \in {"fulfilled", "rejected"}
  BY <1>1, KnownOf
<1>3. /\ c.left = n - Cardinality(C)
      /\ \A i \in C : c.results[i] = heap.prom[c.els[i]].value
      /\ o.state # "pending" => Answered(heap, c, k, R, C)
  BY <1>1, <1>2, Zenon DEF Knows
<1>4. c.left \in 0 .. n
  <2>1. Cardinality(C) \in Nat /\ Cardinality(C) <= n BY ONLY <1>2, CountFacts, Zenon
  <2> QED BY ONLY <1>2, <1>3, <2>1
<1>5. ASSUME o.state # "pending" PROVE MaySettle(c, k, o)
  <2>1. \/ c.name # "race" /\ C = 1 .. n /\ AsAll(c, k, o)
        \/ \E i \in R \ C : heap.prom[c.els[i]].state = o.state /\ heap.prom[c.els[i]].value = o.value
    BY <1>1, <1>3, <1>5, Zenon DEF Answered
  <2>2. CASE c.name # "race" /\ C = 1 .. n /\ AsAll(c, k, o)
    <3>1. \A i \in DOMAIN c.els : i \in C BY ONLY <1>2, <2>2, ZenonT(60)
    <3>2. \A i \in DOMAIN c.els : /\ c.results[i] = heap.prom[c.els[i]].value
                                  /\ Counts(c.name, heap.prom[c.els[i]].state)
                                  /\ heap.prom[c.els[i]].state \in {"fulfilled", "rejected"}
      BY <1>2, <1>3, <3>1, Zenon
    <3>3. CASE c.name = "all"
      <4>1. o.state = "fulfilled" /\ o.value = Results(k) BY <2>2, <3>3 DEF AsAll
      <4>2. AllOf(c, "fulfilled") BY <3>2, <3>3 DEF AllOf, State, Counts
      <4> QED BY <3>2, <3>3, <4>1, <4>2 DEF MaySettle
    <3>4. CASE c.name = "allSettled"
      <4>1. o.state = "fulfilled" /\ o.value = Results(k) BY <2>2, <3>4 DEF AsAll
      <4>2. \A i \in DOMAIN c.els : State(c.els[i]) # "pending" /\ c.results[i] = heap.prom[c.els[i]].value
        BY <3>2 DEF State
      <4> QED BY <3>4, <4>1, <4>2 DEF MaySettle
    <3>5. CASE c.name = "any"
      <4>1. o.state = "rejected" /\ o.value = AggregateError BY <2>2, <3>5 DEF AsAll
      <4>2. AllOf(c, "rejected") BY <3>2, <3>5, Zenon DEF AllOf, State, Counts
      <4> QED BY <3>5, <4>1, <4>2 DEF MaySettle
    <3> QED BY ONLY <1>2, <2>2, <3>3, <3>4, <3>5, ZenonT(60) DEF CombinatorNames
  <2>3. CASE \E i \in R \ C : heap.prom[c.els[i]].state = o.state /\ heap.prom[c.els[i]].value = o.value
    <3>1. PICK i \in R \ C : heap.prom[c.els[i]].state = o.state /\ heap.prom[c.els[i]].value = o.value BY <2>3, Zenon
    <3>2. /\ i \in DOMAIN c.els /\ ~Counts(c.name, o.state) /\ o.state \in {"fulfilled", "rejected"} BY ONLY <1>2, <3>1, ZenonT(60)
    <3>3. OneOf(c, o.state, o.value) BY <3>1, <3>2, Zenon DEF OneOf, State
    <3>4. CASE c.name = "all"
      <4>1. o.state = "rejected" BY <3>2, <3>4 DEF Counts
      <4> QED BY <3>3, <3>4, <4>1 DEF MaySettle
    <3>5. CASE c.name = "allSettled" BY <3>2, <3>5 DEF Counts
    <3>6. CASE c.name = "race" BY <3>3, <3>6 DEF MaySettle
    <3>7. CASE c.name = "any"
      <4>1. o.state = "fulfilled" BY <3>2, <3>7 DEF Counts
      <4> QED BY <3>3, <3>7, <4>1 DEF MaySettle
    <3> QED BY ONLY <1>2, <3>4, <3>5, <3>6, <3>7, ZenonT(60) DEF CombinatorNames
  <2> QED BY ONLY <2>1, <2>2, <2>3, Zenon
<1> QED BY <1>1, <1>4, <1>5

\* When everything has run, the elements that have settled have reported.
LEMMA AllReported ==
  ASSUME PInv, CInv, Finished, NEW k \in DOMAIN heap.combs, NEW i \in DOMAIN heap.combs[k].els,
         heap.prom[heap.combs[k].els[i]].state # "pending"
  PROVE  i \in Reported(heap, k)
<1>1. ElementsOK(heap) BY DEF CInv, CombsExact
<1>2. PromisesOK(heap, stack) BY PInvParts DEF All, Core
<1>3. heap.queue = <<>> BY DEF Finished
<1>4. ASSUME NEW q, NEW r, At(heap, q, r), r.kind = "element", r.to = k, r.idx = i PROVE FALSE
  <2>1. heap.combs[k].els[i] = q BY <1>1, <1>4 DEF ElementsOK
  <2>2. q \in Promise(heap) /\ DOMAIN heap.prom[q].cbs # {} BY <1>3, <1>4 DEF At
  <2>3. heap.prom[q].cbs = <<>> BY <1>2, <2>1, <2>2 DEF PromisesOK, PromOK
  <2> QED BY <2>2, <2>3
<1>5. ~Placed(heap, k, i) BY <1>4 DEF Placed
<1> QED BY <1>5 DEF Reported

LEMMA TheySettle == PInv /\ CInv => CombinatorsSettle
<1> SUFFICES ASSUME PInv, CInv, Finished, NEW k \in DOMAIN heap.combs, NEW c, c = heap.combs[k],
                    MustSettle(c), heap.prom[c.out].state = "pending"
             PROVE  FALSE
  BY DEF CombinatorsSettle, Pending
<1>1. PICK n, R, C : n = Len(c.results) /\ R = Reported(heap, k) /\ C = Counted(heap, k) OBVIOUS
<1>2. stack = <<>> BY DEF Finished
<1>3. /\ Knows(heap, c, k, R, C) /\ c.name \in CombinatorNames /\ R \subseteq DOMAIN c.els
      /\ DOMAIN c.els = 1 .. n
      /\ C = {i \in R : Counts(c.name, heap.prom[c.els[i]].state)}
  BY <1>1, <1>2, KnownOf
<1>4. R = C /\ (c.name # "race" => C # 1 .. n) BY <1>1, <1>3, Zenon DEF Knows, Unanswered
<1>5. \A i \in DOMAIN c.els : heap.prom[c.els[i]].state # "pending" => i \in R BY <1>1, AllReported
<1>6. CASE c.name = "race"
  <2>1. PICK i \in DOMAIN c.els : heap.prom[c.els[i]].state # "pending" BY <1>6 DEF MustSettle, State
  <2>2. i \in C BY <1>4, <1>5, <2>1, Zenon
  <2> QED BY <1>3, <1>6, <2>2 DEF Counts
<1>7. CASE c.name # "race"
  <2>1. \A i \in DOMAIN c.els : heap.prom[c.els[i]].state # "pending"
    BY <1>3, <1>7 DEF MustSettle, State, CombinatorNames
  <2>2. R = DOMAIN c.els BY <1>3, <1>5, <2>1
  <2> QED BY ONLY <1>3, <1>4, <1>7, <2>2, ZenonT(60)
<1> QED BY <1>6, <1>7

\* The promise of Promise.all, allSettled, race or any settles as its elements
\* say, with their values in their order, not before and, once everything has
\* run, not never: the counter of its closures reaches zero with the last
\* element that reports (promStatic).
THEOREM CombinatorsExact == Spec => []CombinatorsAreExact
<1>1. PInv /\ CInv => CombinatorsAreExact BY KeepTheirPromise, TheySettle DEF CombinatorsAreExact
<1> QED BY <1>1, Invariance, CombinatorInvariance, PTL
=============================================================================
