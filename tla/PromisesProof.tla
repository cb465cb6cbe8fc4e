---------------------------- MODULE PromisesProof ----------------------------
(***************************************************************************)
(* Promises, async functions and async generators of the Go twin: an       *)
(* inductive invariant of Promises and the theorems that follow from it,   *)
(* for every program and every number of promises, functions, generators   *)
(* and requests.                                                           *)
(***************************************************************************)
EXTENDS Promises, TLAPS, WellFoundedInduction

-----------------------------------------------------------------------------
(* The inductive invariant.  h is a heap and st the code that runs on it;  *)
(* the lemmas speak of heaps between two calls of one step, too.           *)

\* What goes on for a promise, and for an async generator: frames, reactions and
\* adoptions.
OfPromise == {"async", "handler", "finally", "then", "settle", "await", "adopt"}
OfGen == {"agen", "agclose", "agawait", "agyield"}

\* Frame f or job j goes on for p, being one of the kinds K.
FrameGoes(f, K, p) == f.kind \in K /\ f.p = p
JobGoes(j, K, p) == \/ j.kind = "reaction" /\ GoesOn(j.r, K, p)
                    \/ j.kind = "adopt" /\ "adopt" \in K /\ j.p = p

\* Nothing of the kinds K goes on for p: nothing runs, is queued or waits.
NoneRuns(st, K, p) == \A i \in DOMAIN st : ~FrameGoes(st[i], K, p)
NoneQueued(h, K, p) == \A i \in DOMAIN h.queue : ~JobGoes(h.queue[i], K, p)
NoneWaits(h, K, p) == \A q \in DOMAIN h.prom : \A i \in DOMAIN h.prom[q].cbs : ~GoesOn(h.prom[q].cbs[i], K, p)
NoPlace(h, st, K, p) == NoneRuns(st, K, p) /\ NoneQueued(h, K, p) /\ NoneWaits(h, K, p)

\* At most one thing of the kinds K goes on for p.
OneRuns(st, K, p) == \A i, j \in DOMAIN st : FrameGoes(st[i], K, p) /\ FrameGoes(st[j], K, p) => i = j
OneQueued(h, K, p) == \A i, j \in DOMAIN h.queue : JobGoes(h.queue[i], K, p) /\ JobGoes(h.queue[j], K, p) => i = j
OneWaits(h, K, p) == \A q, r \in DOMAIN h.prom : \A i \in DOMAIN h.prom[q].cbs, j \in DOMAIN h.prom[r].cbs :
   GoesOn(h.prom[q].cbs[i], K, p) /\ GoesOn(h.prom[r].cbs[j], K, p) => q = r /\ i = j
OnePlace(h, st, K, p) ==
  /\ OneRuns(st, K, p) /\ OneQueued(h, K, p) /\ OneWaits(h, K, p)
  /\ NoneRuns(st, K, p) \/ NoneQueued(h, K, p)
  /\ NoneRuns(st, K, p) \/ NoneWaits(h, K, p)
  /\ NoneQueued(h, K, p) \/ NoneWaits(h, K, p)

\* What a promise can be fulfilled with: no promise and nothing with a then().
Final == Value \ (Thenable \cup Nat)

\* Promise p is settled by one place only, and the program has no functions for it.
Owned(h, p) ==
  p \in Promise(h) /\ LET s == h.prom[p] IN s.state = "pending" /\ s.fate = Undef /\ ~s.cap /\ ~s.again

\* Generator k serves a request.
Serving(h, k) == k \in DOMAIN h.ags /\ LET a == h.ags[k] IN a.run /\ a.q # <<>> /\ ~a.lost

\* A frame settles a promise that is its own, or is a generator's that serves.
FrameOK(h, f) ==
  /\ FrameIsTyped(h, f)
  /\ f.kind \in {"executor", "thenable"} => h.prom[f.p].cap
  /\ f.kind \in {"async", "handler", "finally"} => Owned(h, f.p)
  /\ f.kind = "finally" /\ f.ok => f.arg \in Final
  /\ f.kind = "combine" => \A i \in DOMAIN f.arg : f.arg[i] \in Plain \cup Thenable \cup Promise(h)
  /\ f.kind \in {"agen", "agclose"} => Serving(h, f.p) /\ h.ags[f.p].done = (f.kind = "agclose")

\* So does a reaction of promise q; one that adopts q is what its promise was
\* resolved with, at least a tick ago.
ReactionOK(h, q, r) ==
  /\ r \in ReactionRec
  /\ r.kind \in {"then", "finally", "await"} => Owned(h, r.to)
  /\ r.kind = "settle" =>
       /\ r.to \in Promise(h)
       /\ ~h.prom[r.to].again =>
            h.prom[r.to].state = "pending" /\ h.prom[r.to].fate = q /\ h.prom[r.to].fateAt < h.gen
  /\ r.kind = "element" => r.to \in DOMAIN h.combs
  /\ r.kind \in {"agawait", "agyield"} => Serving(h, r.to) /\ ~h.ags[r.to].done

\* A job says what its promise says; that of an adoption is in the tick it should be.
JobOK(h, j) ==
  /\ j \in JobRec /\ j.p \in Promise(h)
  /\ j.kind = "reaction" =>
       /\ ReactionOK(h, j.p, j.r)
       /\ h.prom[j.p].state = (IF j.ok THEN "fulfilled" ELSE "rejected")
       /\ h.prom[j.p].value = j.x
       /\ j.r.kind = "settle" /\ ~h.prom[j.r.to].again =>
            j.gen = Later(h.prom[j.r.to].fateAt + 1, h.prom[j.p].at) + 1
  /\ j.kind = "adopt" =>
       /\ j.x \in (Promise(h) \cup Thenable) \ {j.p}
       /\ ~h.prom[j.p].again =>
            /\ h.prom[j.p].state = "pending" /\ h.prom[j.p].fate = j.x
            /\ j.gen = h.prom[j.p].fateAt + 1

\* p will learn what becomes of x.
Followed(h, p, x) ==
  \/ \E i \in DOMAIN h.queue : LET j == h.queue[i] IN
       \/ j.kind = "adopt" /\ j.p = p /\ j.x = x
       \/ j.kind = "reaction" /\ j.p = x /\ j.r.kind = "settle" /\ j.r.to = p
  \/ \E i \in DOMAIN h.prom[x].cbs : h.prom[x].cbs[i].kind = "settle" /\ h.prom[x].cbs[i].to = p

\* At most one place settles p, unless the program itself broke its resolution.
PromOK(h, st, p) ==
  LET s == h.prom[p] IN
  /\ s.state # "pending" => s.cbs = <<>>
  /\ s.state = "fulfilled" => s.value \in Final
  /\ s.at <= h.gen /\ s.fateAt <= h.gen
  /\ s.fate \in (Promise(h) \ {p}) \cup Thenable \cup {Undef}
  /\ s.again => s.fate # Undef
  /\ ~s.again => OnePlace(h, st, OfPromise, p)
  /\ s.cap /\ s.fate = Undef => NoPlace(h, st, OfPromise, p)
  /\ s.fate \in Promise(h) /\ s.state # "pending" /\ ~s.again =>
       /\ h.prom[s.fate].state = s.state /\ h.prom[s.fate].value = s.value
       /\ s.at = Later(s.fateAt + 1, h.prom[s.fate].at) + 1

\* The promises of requests and of combinators are settled by nothing else.
IsRequest(h, p) == \E k \in DOMAIN h.ags : \E i \in DOMAIN h.ags[k].q : h.ags[k].q[i].p = p
IsOut(h, p) == \E k \in DOMAIN h.combs : h.combs[k].out = p
CombOK(h, st, k) ==
  LET o == h.combs[k].out IN
  /\ o \in Promise(h) /\ ~h.prom[o].cap /\ ~h.prom[o].again /\ h.prom[o].fate = Undef
  /\ NoPlace(h, st, OfPromise, o) /\ ~IsRequest(h, o)

RequestsOK(h, st) ==
  \A k \in DOMAIN h.ags : \A i \in DOMAIN h.ags[k].q :
    /\ Owned(h, h.ags[k].q[i].p) /\ NoPlace(h, st, OfPromise, h.ags[k].q[i].p)
    /\ \A l \in DOMAIN h.ags : \A j \in DOMAIN h.ags[l].q : h.ags[l].q[j].p = h.ags[k].q[i].p => l = k /\ j = i

\* Requests are answered in the order they were made, none with a value after the end.
GenOK(h, st, k) ==
  LET a == h.ags[k] IN
  /\ OnePlace(h, st, OfGen, k)
  /\ a.run => a.q # <<>>
  /\ a.lost => a.run
  /\ a.reqs = [i \in DOMAIN a.said |-> a.said[i].p] \o [i \in DOMAIN a.q |-> a.q[i].p]
  /\ \A i \in DOMAIN a.said : a.said[i].p \in Promise(h)
  /\ \A i \in DOMAIN a.said : a.said[i].how # "yield" => a.done
  /\ \A i, j \in DOMAIN a.said : i < j /\ a.said[i].how # "yield" => a.said[j].how # "yield"

\* The queue holds the jobs of this tick and then those of the next.
Gens(h) ==
  /\ \A i \in DOMAIN h.queue : h.gen <= h.queue[i].gen /\ h.queue[i].gen <= h.gen + 1
  /\ \A i, j \in DOMAIN h.queue : i < j => h.queue[i].gen <= h.queue[j].gen

FramesOK(h, st) == \A i \in DOMAIN st : FrameOK(h, st[i])
JobsOK(h) == \A i \in DOMAIN h.queue : JobOK(h, h.queue[i])
WaitOK(h) == \A p \in Promise(h) : \A i \in DOMAIN h.prom[p].cbs : ReactionOK(h, p, h.prom[p].cbs[i])
PromisesOK(h, st) == \A p \in Promise(h) : PromOK(h, st, p)
InOrderAll(h) == \A p \in Promise(h) : InOrder(h, p)
CombsOK(h, st) == \A k \in DOMAIN h.combs : CombOK(h, st, k)
GensOK(h, st) == \A k \in DOMAIN h.ags : GenOK(h, st, k)

\* What every heap satisfies, between the calls of a step too.
Core(h, st) ==
  /\ h \in Heap
  /\ FramesOK(h, st)
  /\ JobsOK(h)
  /\ WaitOK(h)
  /\ PromisesOK(h, st) /\ InOrderAll(h)
  /\ CombsOK(h, st) /\ GensOK(h, st)
  /\ RequestsOK(h, st)
  /\ Gens(h)

\* Every adoption is under way, but for the promises P; every generator that has
\* requests serves one, but for G.
Follows(h, P) ==
  \A p \in Promise(h) \ P : h.prom[p].state = "pending" /\ h.prom[p].fate \in Promise(h) => Followed(h, p, h.prom[p].fate)
Served(h, st, G) ==
  \A k \in DOMAIN h.ags \ G :
    /\ h.ags[k].q # <<>> => h.ags[k].run
    /\ h.ags[k].run /\ ~h.ags[k].lost => ~NoPlace(h, st, OfGen, k)

\* What was answered was answered so, but for the answers in X.
Answers(h, X) ==
  \A k \in DOMAIN h.ags : \A i \in DOMAIN h.ags[k].said : <<k, i>> \notin X =>
    h.prom[h.ags[k].said[i].p].state = (IF h.ags[k].said[i].how = "fail" THEN "rejected" ELSE "fulfilled")

\* All of it, but for what the step that is under way still owes.
All(h, st, P, G, X) == Core(h, st) /\ Follows(h, P) /\ Served(h, st, G) /\ Answers(h, X)

-----------------------------------------------------------------------------
(* Sequences and heaps.                                                    *)

LEMMA Joined ==
  ASSUME NEW S, NEW s \in Seq(S), NEW t \in Seq(S)
  PROVE  /\ s \o t \in Seq(S) /\ Len(s \o t) = Len(s) + Len(t)
         /\ DOMAIN (s \o t) = 1 .. Len(s) + Len(t)
         /\ \A i \in 1 .. Len(s) : (s \o t)[i] = s[i]
         /\ \A i \in 1 .. Len(t) : (s \o t)[Len(s) + i] = t[i]
OBVIOUS

LEMMA Appended ==
  ASSUME NEW S, NEW s \in Seq(S), NEW e \in S
  PROVE  /\ Append(s, e) \in Seq(S) /\ DOMAIN Append(s, e) = 1 .. Len(s) + 1
         /\ Len(Append(s, e)) = Len(s) + 1
         /\ \A i \in 1 .. Len(s) : Append(s, e)[i] = s[i]
         /\ Append(s, e)[Len(s) + 1] = e
OBVIOUS

LEMMA Tailed ==
  ASSUME NEW S, NEW s \in Seq(S), s # <<>>
  PROVE  /\ Tail(s) \in Seq(S) /\ Len(s) >= 1 /\ Head(s) = s[1] /\ Head(s) \in S
         /\ Len(Tail(s)) = Len(s) - 1 /\ DOMAIN Tail(s) = 1 .. Len(s) - 1
         /\ \A i \in 1 .. Len(s) - 1 : Tail(s)[i] = s[i + 1]
OBVIOUS

LEMMA Indices ==
  ASSUME NEW S, NEW s \in Seq(S)
  PROVE  /\ DOMAIN s = 1 .. Len(s) /\ Len(s) \in Nat /\ \A i \in 1 .. Len(s) : s[i] \in S
         /\ s \in [1 .. Len(s) -> S]
         /\ s = <<>> <=> Len(s) = 0
OBVIOUS

LEMMA Replaced ==
  ASSUME NEW S, NEW s \in Seq(S), NEW i \in 1 .. Len(s), NEW e \in S
  PROVE  /\ [s EXCEPT ![i] = e] \in Seq(S) /\ Len([s EXCEPT ![i] = e]) = Len(s)
         /\ DOMAIN [s EXCEPT ![i] = e] = 1 .. Len(s)
         /\ [s EXCEPT ![i] = e][i] = e
         /\ \A j \in 1 .. Len(s) : j # i => [s EXCEPT ![i] = e][j] = s[j]
OBVIOUS

LEMMA Built ==
  ASSUME NEW S, NEW n \in Nat, NEW f, f \in [1 .. n -> S]
  PROVE  f \in Seq(S) /\ Len(f) = n
OBVIOUS

LEMMA SameSeq ==
  ASSUME NEW S, NEW s \in Seq(S), NEW t \in Seq(S), Len(s) = Len(t), \A i \in 1 .. Len(s) : s[i] = t[i]
  PROVE  s = t
OBVIOUS

\* A heap has its parts.
LEMMA Parts ==
  ASSUME NEW h \in Heap
  PROVE  /\ h.prom \in Seq(PromiseRec) /\ h.combs \in Seq(CombinatorRec) /\ h.ags \in Seq(AsyncGenRec)
         /\ h.queue \in Seq(JobRec) /\ h.gen \in Nat
         /\ h = [prom |-> h.prom, combs |-> h.combs, ags |-> h.ags, queue |-> h.queue, gen |-> h.gen]
         /\ Promise(h) = 1 .. Len(h.prom) /\ Len(h.prom) \in Nat
         /\ DOMAIN h.prom = 1 .. Len(h.prom)
         /\ DOMAIN h.combs = 1 .. Len(h.combs) /\ Len(h.combs) \in Nat
         /\ DOMAIN h.ags = 1 .. Len(h.ags) /\ Len(h.ags) \in Nat
         /\ DOMAIN h.queue = 1 .. Len(h.queue) /\ Len(h.queue) \in Nat
         /\ \A p \in Promise(h) : h.prom[p] \in PromiseRec
         /\ \A k \in DOMAIN h.combs : h.combs[k] \in CombinatorRec
         /\ \A k \in DOMAIN h.ags : h.ags[k] \in AsyncGenRec
         /\ \A i \in DOMAIN h.queue : h.queue[i] \in JobRec
<1>1. /\ h.prom \in Seq(PromiseRec) /\ h.combs \in Seq(CombinatorRec) /\ h.ags \in Seq(AsyncGenRec)
      /\ h.queue \in Seq(JobRec) /\ h.gen \in Nat
      /\ h = [prom |-> h.prom, combs |-> h.combs, ags |-> h.ags, queue |-> h.queue, gen |-> h.gen]
  BY DEF Heap
<1> QED BY <1>1, Indices DEF Promise

LEMMA PromiseParts ==
  ASSUME NEW s \in PromiseRec
  PROVE  /\ s.state \in {"pending", "fulfilled", "rejected"} /\ s.value \in Value /\ s.cap \in BOOLEAN
         /\ s.reg \in Nat /\ s.ran \in Nat /\ s.fate \in Value /\ s.fateAt \in Nat /\ s.at \in Nat
         /\ s.again \in BOOLEAN /\ s.cbs \in Seq(ReactionRec)
         /\ Len(s.cbs) \in Nat /\ DOMAIN s.cbs = 1 .. Len(s.cbs)
         /\ \A i \in DOMAIN s.cbs : s.cbs[i] \in ReactionRec
<1>1. s.cbs \in Seq(ReactionRec) BY DEF PromiseRec
<1>2. Len(s.cbs) \in Nat /\ DOMAIN s.cbs = 1 .. Len(s.cbs) /\ \A i \in DOMAIN s.cbs : s.cbs[i] \in ReactionRec
  BY <1>1, Indices
<1> QED BY <1>1, <1>2 DEF PromiseRec

\* A change of one part of a promise leaves a promise.
LEMMA StateSet == ASSUME NEW s \in PromiseRec, NEW x \in {"pending", "fulfilled", "rejected"} PROVE [s EXCEPT !.state = x] \in PromiseRec
BY DEF PromiseRec
LEMMA ValueSet == ASSUME NEW s \in PromiseRec, NEW x \in Value PROVE [s EXCEPT !.value = x] \in PromiseRec
BY DEF PromiseRec
LEMMA CbsSet == ASSUME NEW s \in PromiseRec, NEW x \in Seq(ReactionRec) PROVE [s EXCEPT !.cbs = x] \in PromiseRec
BY DEF PromiseRec
LEMMA CapSet == ASSUME NEW s \in PromiseRec, NEW x \in BOOLEAN PROVE [s EXCEPT !.cap = x] \in PromiseRec
BY DEF PromiseRec
LEMMA RegSet == ASSUME NEW s \in PromiseRec, NEW x \in Nat PROVE [s EXCEPT !.reg = x] \in PromiseRec
BY DEF PromiseRec
LEMMA RanSet == ASSUME NEW s \in PromiseRec, NEW x \in Nat PROVE [s EXCEPT !.ran = x] \in PromiseRec
BY DEF PromiseRec
LEMMA FateSet == ASSUME NEW s \in PromiseRec, NEW x \in Value PROVE [s EXCEPT !.fate = x] \in PromiseRec
BY DEF PromiseRec
LEMMA FateAtSet == ASSUME NEW s \in PromiseRec, NEW x \in Nat PROVE [s EXCEPT !.fateAt = x] \in PromiseRec
BY DEF PromiseRec
LEMMA AtSet == ASSUME NEW s \in PromiseRec, NEW x \in Nat PROVE [s EXCEPT !.at = x] \in PromiseRec
BY DEF PromiseRec
LEMMA AgainSet == ASSUME NEW s \in PromiseRec, NEW x \in BOOLEAN PROVE [s EXCEPT !.again = x] \in PromiseRec
BY DEF PromiseRec

LEMMA SettledRec ==
  ASSUME NEW s \in PromiseRec, NEW st \in {"fulfilled", "rejected"}, NEW v \in Value, NEW at \in Nat
  PROVE  [s EXCEPT !.state = st, !.value = v, !.cbs = <<>>, !.at = at] \in PromiseRec
<1> DEFINE a == [s EXCEPT !.state = st]
           b == [a EXCEPT !.value = v]
           c == [b EXCEPT !.cbs = <<>>]
           d == [c EXCEPT !.at = at]
<1>1. [s EXCEPT !.state = st, !.value = v, !.cbs = <<>>, !.at = at] = d OBVIOUS
<1>2. <<>> \in Seq(ReactionRec) OBVIOUS
<1>3. a \in PromiseRec BY StateSet
<1> HIDE DEF a
<1>4. b \in PromiseRec BY <1>3, ValueSet
<1> HIDE DEF b
<1>5. c \in PromiseRec BY <1>2, <1>4, CbsSet
<1> HIDE DEF c
<1>6. d \in PromiseRec BY <1>5, AtSet
<1> QED BY <1>1, <1>6

LEMMA FatedRec ==
  ASSUME NEW s \in PromiseRec, NEW x \in Value, NEW n \in Nat
  PROVE  [s EXCEPT !.fate = x, !.fateAt = n] \in PromiseRec
<1> DEFINE a == [s EXCEPT !.fate = x]
<1>1. [s EXCEPT !.fate = x, !.fateAt = n] = [a EXCEPT !.fateAt = n] OBVIOUS
<1>2. a \in PromiseRec BY FateSet
<1> HIDE DEF a
<1> QED BY <1>1, <1>2, FateAtSet

LEMMA WaitedRec ==
  ASSUME NEW s \in PromiseRec, NEW n \in Nat, NEW c \in Seq(ReactionRec)
  PROVE  [s EXCEPT !.reg = n, !.cbs = c] \in PromiseRec
<1> DEFINE a == [s EXCEPT !.reg = n]
<1>1. [s EXCEPT !.reg = n, !.cbs = c] = [a EXCEPT !.cbs = c] OBVIOUS
<1>2. a \in PromiseRec BY RegSet
<1> HIDE DEF a
<1> QED BY <1>1, <1>2, CbsSet

-----------------------------------------------------------------------------
(* What the operations make of the parts of a heap.                        *)

\* The promises but p are as they were, and so is what no reaction touches of p.
OthersKept(h, g, p) ==
  /\ Promise(g) = Promise(h)
  /\ \A q \in Promise(h) : q # p => g.prom[q] = h.prom[q]
StateKept(s, t) == t.state = s.state /\ t.value = s.value /\ t.at = s.at
FateKept(s, t) == t.fate = s.fate /\ t.fateAt = s.fateAt
RightsKept(s, t) == t.cap = s.cap /\ t.again = s.again

\* promSettle of a pending promise.
Settles(h, g, p, how, v) ==
  /\ g.combs = h.combs /\ g.ags = h.ags /\ g.gen = h.gen
  /\ OthersKept(h, g, p) /\ FateKept(h.prom[p], g.prom[p]) /\ RightsKept(h.prom[p], g.prom[p])
  /\ g.prom[p].state = how /\ g.prom[p].value = v /\ g.prom[p].cbs = <<>> /\ g.prom[p].at = h.gen
  /\ g.prom[p].reg = h.prom[p].reg /\ g.prom[p].ran = h.prom[p].ran
  /\ Len(g.queue) = Len(h.queue) + Len(h.prom[p].cbs)
  /\ \A i \in DOMAIN h.queue : g.queue[i] = h.queue[i]
  /\ \A i \in DOMAIN h.prom[p].cbs :
       g.queue[Len(h.queue) + i] = ReactionJob(h.gen, p, h.prom[p].cbs[i], how, v)

LEMMA SettleEffect ==
  ASSUME NEW h \in Heap, NEW p \in Promise(h), NEW st \in {"fulfilled", "rejected"}, NEW v \in Value,
         h.prom[p].state = "pending", NEW g, g = promSettle(h, p, st, v)
  PROVE  g \in Heap /\ Settles(h, g, p, st, v)
<1> DEFINE s == h.prom[p]
           s1 == [s EXCEPT !.state = st, !.value = v, !.cbs = <<>>, !.at = h.gen]
           js == [i \in DOMAIN s.cbs |-> ReactionJob(h.gen, p, s.cbs[i], st, v)]
<1>1. s \in PromiseRec /\ h.gen \in Nat /\ p \in 1 .. Len(h.prom) BY Parts
<1>2. /\ Len(s.cbs) \in Nat /\ DOMAIN s.cbs = 1 .. Len(s.cbs)
      /\ \A i \in DOMAIN s.cbs : s.cbs[i] \in ReactionRec
  BY <1>1, PromiseParts
<1>3. s1 \in PromiseRec BY <1>1, SettledRec
<1>4. p \in Nat BY <1>1
<1>5. \A i \in DOMAIN s.cbs : ReactionJob(h.gen, p, s.cbs[i], st, v) \in JobRec
  BY <1>1, <1>2, <1>4 DEF ReactionJob, JobRec
<1>6. js \in [1 .. Len(s.cbs) -> JobRec] BY <1>2, <1>5
<1>7. js \in Seq(JobRec) /\ Len(js) = Len(s.cbs) BY <1>2, <1>6, Built
<1>8. g = [h EXCEPT !.prom[p] = s1, !.queue = @ \o js] BY DEF promSettle
<1>9. /\ g.prom = [h.prom EXCEPT ![p] = s1] /\ g.queue = h.queue \o js
      /\ g.combs = h.combs /\ g.ags = h.ags /\ g.gen = h.gen
      /\ g = [prom |-> g.prom, combs |-> g.combs, ags |-> g.ags, queue |-> g.queue, gen |-> g.gen]
  BY <1>8 DEF Heap
<1> HIDE DEF s1, js
<1>10. h.prom \in Seq(PromiseRec) /\ h.queue \in Seq(JobRec) BY Parts
<1>11. /\ g.prom \in Seq(PromiseRec) /\ Len(g.prom) = Len(h.prom) /\ DOMAIN g.prom = DOMAIN h.prom
       /\ g.prom[p] = s1 /\ \A q \in DOMAIN h.prom : q # p => g.prom[q] = h.prom[q]
  BY <1>1, <1>3, <1>9, <1>10, Replaced, Parts
<1>12. /\ g.queue \in Seq(JobRec) /\ Len(g.queue) = Len(h.queue) + Len(js)
       /\ \A i \in 1 .. Len(h.queue) : g.queue[i] = h.queue[i]
       /\ \A i \in 1 .. Len(js) : g.queue[Len(h.queue) + i] = js[i]
  <2> HIDE DEF js
  <2>1. h.queue \in Seq(JobRec) /\ js \in Seq(JobRec) /\ g.queue = h.queue \o js BY <1>7, <1>9, <1>10
  <2> QED BY ONLY <2>1, Joined
<1>13. g \in Heap BY <1>9, <1>11, <1>12, Parts DEF Heap
<1>14. /\ s1.state = st /\ s1.value = v /\ s1.cbs = <<>> /\ s1.at = h.gen
       /\ s1.reg = s.reg /\ s1.ran = s.ran /\ FateKept(s, s1) /\ RightsKept(s, s1)
  BY <1>1 DEF s1, PromiseRec, FateKept, RightsKept
<1>15. \A i \in DOMAIN s.cbs : js[i] = ReactionJob(h.gen, p, s.cbs[i], st, v) BY DEF js
<1>16. DOMAIN h.queue = 1 .. Len(h.queue) /\ Promise(g) = Promise(h) BY <1>11, Parts DEF Promise
<1> HIDE DEF s
<1>17. OthersKept(h, g, p) BY <1>11, <1>16 DEF OthersKept, Promise
<1>18. \A i \in DOMAIN s.cbs : g.queue[Len(h.queue) + i] = ReactionJob(h.gen, p, s.cbs[i], st, v)
  BY <1>2, <1>7, <1>12, <1>15
<1> QED BY <1>2, <1>7, <1>9, <1>11, <1>12, <1>13, <1>14, <1>16, <1>17, <1>18 DEF Settles, s

\* promThen on a pending promise: reaction m waits there.
Waits(h, g, p, m) ==
  /\ g.combs = h.combs /\ g.ags = h.ags /\ g.gen = h.gen /\ g.queue = h.queue
  /\ OthersKept(h, g, p) /\ FateKept(h.prom[p], g.prom[p]) /\ RightsKept(h.prom[p], g.prom[p])
  /\ StateKept(h.prom[p], g.prom[p]) /\ g.prom[p].ran = h.prom[p].ran
  /\ g.prom[p].reg = h.prom[p].reg + 1 /\ g.prom[p].cbs = Append(h.prom[p].cbs, m)

\* promThen on one that has settled: its job is queued.
Queues(h, g, p, m) ==
  /\ g.combs = h.combs /\ g.ags = h.ags /\ g.gen = h.gen
  /\ OthersKept(h, g, p) /\ FateKept(h.prom[p], g.prom[p]) /\ RightsKept(h.prom[p], g.prom[p])
  /\ StateKept(h.prom[p], g.prom[p]) /\ g.prom[p].ran = h.prom[p].ran
  /\ g.prom[p].reg = h.prom[p].reg + 1 /\ g.prom[p].cbs = h.prom[p].cbs
  /\ g.queue = Append(h.queue, ReactionJob(h.gen, p, m, h.prom[p].state, h.prom[p].value))

LEMMA Numbered ==
  ASSUME NEW r \in ReactionRec, NEW n \in Nat, NEW m, m = [r EXCEPT !.n = n]
  PROVE  m \in ReactionRec /\ m.n = n /\ m.kind = r.kind /\ m.to = r.to /\ m.idx = r.idx
BY DEF ReactionRec

LEMMA ThenEffect ==
  ASSUME NEW h \in Heap, NEW p \in Promise(h), NEW r \in ReactionRec, NEW g, g = promThen(h, p, r),
         NEW m, m = [r EXCEPT !.n = h.prom[p].reg + 1]
  PROVE  /\ g \in Heap
         /\ h.prom[p].state = "pending" => Waits(h, g, p, m)
         /\ h.prom[p].state # "pending" => Queues(h, g, p, m)
<1> DEFINE s == h.prom[p]
<1>1. s \in PromiseRec /\ h.gen \in Nat /\ p \in 1 .. Len(h.prom) /\ h.prom \in Seq(PromiseRec)
      /\ h.queue \in Seq(JobRec) /\ p \in Nat
  BY Parts
<1>2. s.reg \in Nat /\ s.reg + 1 \in Nat /\ s.cbs \in Seq(ReactionRec) /\ s.value \in Value
      /\ s.state \in {"pending", "fulfilled", "rejected"}
  <2> HIDE DEF s
  <2> QED BY <1>1, PromiseParts
<1>3. m \in ReactionRec BY <1>2, Numbered
<1>4. m.n = s.reg + 1 BY <1>2, Numbered
<1>a. CASE s.state = "pending"
  <2> DEFINE a == [s EXCEPT !.reg = s.reg + 1]
             s1 == [a EXCEPT !.cbs = Append(s.cbs, m)]
  <2>1. g = [[h EXCEPT !.prom[p].reg = m.n] EXCEPT !.prom[p].cbs = Append(@, m)] BY <1>a DEF promThen
  <2>2. a \in PromiseRec /\ a.cbs = s.cbs BY <1>1, <1>2, RegSet DEF PromiseRec
  <2> DEFINE h1 == [h EXCEPT !.prom[p].reg = m.n]
  <2>b. h1.prom = [h.prom EXCEPT ![p] = a] BY <1>4 DEF Heap
  <2>c. h1.prom[p] = a BY <1>1, <2>b, Replaced, <2>2
  <2>d. g.prom = [h1.prom EXCEPT ![p] = [h1.prom[p] EXCEPT !.cbs = Append(h1.prom[p].cbs, m)]]
    BY <2>1 DEF Heap
  <2>3. g.prom = [h.prom EXCEPT ![p] = s1]
    <3> HIDE DEF h1, a, s
    <3>1. g.prom = [h1.prom EXCEPT ![p] = s1] BY <2>c, <2>d, <2>2
    <3> HIDE DEF s1
    <3> QED BY <3>1, <2>b
  <2>4. /\ g.queue = h.queue /\ g.combs = h.combs /\ g.ags = h.ags /\ g.gen = h.gen
        /\ g = [prom |-> g.prom, combs |-> g.combs, ags |-> g.ags, queue |-> g.queue, gen |-> g.gen]
    BY <2>1 DEF Heap
  <2>5. Append(s.cbs, m) \in Seq(ReactionRec) BY <1>2, <1>3, Appended
  <2>6. s1 \in PromiseRec BY <2>2, <2>5, CbsSet
  <2>7. /\ StateKept(s, s1) /\ s1.cbs = Append(s.cbs, m) /\ s1.ran = s.ran
        /\ s1.reg = s.reg + 1 /\ FateKept(s, s1) /\ RightsKept(s, s1)
    BY <1>1 DEF PromiseRec, FateKept, RightsKept, StateKept
  <2> HIDE DEF s1
  <2>8. /\ g.prom \in Seq(PromiseRec) /\ Len(g.prom) = Len(h.prom) /\ DOMAIN g.prom = DOMAIN h.prom
        /\ g.prom[p] = s1 /\ \A q \in DOMAIN h.prom : q # p => g.prom[q] = h.prom[q]
    BY <1>1, <2>3, <2>6, Replaced, Parts
  <2>9. g \in Heap BY <2>4, <2>8, Parts DEF Heap
  <2>10. OthersKept(h, g, p) BY <2>8 DEF OthersKept, Promise
  <2> QED BY <1>a, <2>4, <2>7, <2>8, <2>9, <2>10 DEF Waits
<1>b. CASE s.state # "pending"
  <2> DEFINE s1 == [s EXCEPT !.reg = s.reg + 1]
             j == ReactionJob(h.gen, p, m, s.state, s.value)
  <2>1. g = [[h EXCEPT !.prom[p].reg = m.n] EXCEPT !.queue = Append(@, j)] BY <1>b DEF promThen
  <2>2. s1 \in PromiseRec BY <1>1, <1>2, RegSet
  <2>3. g.prom = [h.prom EXCEPT ![p] = s1] BY <1>1, <1>4, <2>1 DEF Heap
  <2>4. /\ g.queue = Append(h.queue, j) /\ g.combs = h.combs /\ g.ags = h.ags /\ g.gen = h.gen
        /\ g = [prom |-> g.prom, combs |-> g.combs, ags |-> g.ags, queue |-> g.queue, gen |-> g.gen]
    BY <2>1 DEF Heap
  <2>5. j \in JobRec BY <1>1, <1>2, <1>3 DEF JobRec, ReactionJob
  <2>7. /\ StateKept(s, s1) /\ s1.cbs = s.cbs /\ s1.ran = s.ran
        /\ s1.reg = s.reg + 1 /\ FateKept(s, s1) /\ RightsKept(s, s1)
    BY <1>1 DEF PromiseRec, FateKept, RightsKept, StateKept
  <2> HIDE DEF s1, j
  <2>8. /\ g.prom \in Seq(PromiseRec) /\ Len(g.prom) = Len(h.prom) /\ DOMAIN g.prom = DOMAIN h.prom
        /\ g.prom[p] = s1 /\ \A q \in DOMAIN h.prom : q # p => g.prom[q] = h.prom[q]
    BY <1>1, <2>2, <2>3, Replaced, Parts
  <2>9. g.queue \in Seq(JobRec) BY <1>1, <2>4, <2>5, Appended
  <2>10. g \in Heap BY <2>4, <2>8, <2>9, Parts DEF Heap
  <2>11. OthersKept(h, g, p) BY <2>8 DEF OthersKept, Promise
  <2> QED BY <1>b, <2>4, <2>7, <2>8, <2>10, <2>11 DEF Queues, j
<1> QED BY <1>a, <1>b

\* promResolve with a promise or a thenable: a job that adopts it.
Adopts(h, g, p, x) ==
  /\ g.combs = h.combs /\ g.ags = h.ags /\ g.gen = h.gen
  /\ OthersKept(h, g, p) /\ RightsKept(h.prom[p], g.prom[p]) /\ StateKept(h.prom[p], g.prom[p])
  /\ g.prom[p].reg = h.prom[p].reg /\ g.prom[p].ran = h.prom[p].ran /\ g.prom[p].cbs = h.prom[p].cbs
  /\ IF h.prom[p].fate = Undef THEN g.prom[p].fate = x /\ g.prom[p].fateAt = h.gen
     ELSE FateKept(h.prom[p], g.prom[p])
  /\ g.queue = Append(h.queue, AdoptJob(h.gen, p, x))

LEMMA AdoptEffect ==
  ASSUME NEW h \in Heap, NEW p \in Promise(h), NEW x \in (Promise(h) \cup Thenable) \ {p},
         h.prom[p].state = "pending", NEW g, g = promResolve(h, p, x)
  PROVE  g \in Heap /\ Adopts(h, g, p, x)
<1> DEFINE s == h.prom[p]
           fate == IF s.fate = Undef THEN x ELSE s.fate
           at == IF s.fate = Undef THEN h.gen ELSE s.fateAt
           s1 == [s EXCEPT !.fate = fate, !.fateAt = at]
           j == AdoptJob(h.gen, p, x)
<1>1. s \in PromiseRec /\ h.gen \in Nat /\ p \in 1 .. Len(h.prom) /\ h.prom \in Seq(PromiseRec)
      /\ h.queue \in Seq(JobRec) /\ p \in Nat /\ \A q \in Promise(h) : q \in Nat
  BY Parts
<1>2. x \in Value BY <1>1 DEF Value
<1>3. s.fate \in Value /\ s.fateAt \in Nat BY <1>1, PromiseParts
<1>4. fate \in Value /\ at \in Nat BY <1>1, <1>2, <1>3
<1>5. g = [h EXCEPT !.queue = Append(@, j), !.prom[p].fate = fate, !.prom[p].fateAt = at]
  BY DEF promResolve
<1> DEFINE a == [s EXCEPT !.fate = fate]
           h0 == [h EXCEPT !.queue = Append(@, j)]
           h1 == [h0 EXCEPT !.prom[p].fate = fate]
<1>a. h0.prom = h.prom /\ h0.combs = h.combs /\ h0.ags = h.ags /\ h0.gen = h.gen BY DEF Heap
<1>b. p \in DOMAIN h.prom BY DEF Promise
<1>c. h1.prom = [h.prom EXCEPT ![p] = a]
  <2>1. h1.prom = [h0.prom EXCEPT ![p] = [h0.prom[p] EXCEPT !.fate = fate]] BY DEF Heap
  <2> QED BY <1>a, <2>1
<1>d. h1.prom[p] = a
  <2> HIDE DEF h1, a, h0
  <2> QED BY <1>b, <1>c
<1>e. g.prom = [h1.prom EXCEPT ![p] = [h1.prom[p] EXCEPT !.fateAt = at]]
  <2>1. g = [h1 EXCEPT !.prom[p].fateAt = at] BY <1>5
  <2> QED BY <2>1 DEF Heap
<1>6. g.prom = [h.prom EXCEPT ![p] = [a EXCEPT !.fateAt = at]]
  <2> HIDE DEF h1, h0, a
  <2>1. g.prom = [h1.prom EXCEPT ![p] = [a EXCEPT !.fateAt = at]] BY <1>d, <1>e
  <2> DEFINE s2 == [a EXCEPT !.fateAt = at]
  <2> HIDE DEF s2
  <2>2. g.prom = [h1.prom EXCEPT ![p] = s2] BY <2>1 DEF s2
  <2>3. g.prom = [h.prom EXCEPT ![p] = s2] BY <2>2, <1>c
  <2> QED BY <2>3 DEF s2
<1>7. [a EXCEPT !.fateAt = at] = s1 OBVIOUS
<1> HIDE DEF a, h0, h1
<1>8. /\ g.queue = Append(h.queue, j) /\ g.combs = h.combs /\ g.ags = h.ags /\ g.gen = h.gen
      /\ g = [prom |-> g.prom, combs |-> g.combs, ags |-> g.ags, queue |-> g.queue, gen |-> g.gen]
  BY <1>5 DEF Heap
<1>9. s1 \in PromiseRec BY <1>1, <1>4, FatedRec
<1>10. j \in JobRec BY <1>1, <1>2 DEF JobRec, AdoptJob
<1>11. /\ StateKept(s, s1) /\ s1.cbs = s.cbs /\ s1.ran = s.ran /\ s1.reg = s.reg
       /\ s1.fate = fate /\ s1.fateAt = at /\ RightsKept(s, s1)
  BY <1>1 DEF PromiseRec, RightsKept, StateKept
<1> HIDE DEF s1, j
<1>12. /\ g.prom \in Seq(PromiseRec) /\ Len(g.prom) = Len(h.prom) /\ DOMAIN g.prom = DOMAIN h.prom
       /\ g.prom[p] = s1 /\ \A q \in DOMAIN h.prom : q # p => g.prom[q] = h.prom[q]
  <2>1. g.prom = [h.prom EXCEPT ![p] = s1] BY <1>6, <1>7
  <2> QED BY <1>1, <1>9, <2>1, Replaced, Parts
<1>13. g.queue \in Seq(JobRec) BY <1>1, <1>8, <1>10, Appended
<1>14. g \in Heap BY <1>8, <1>12, <1>13, Parts DEF Heap
<1>15. OthersKept(h, g, p) BY <1>12 DEF OthersKept, Promise
<1>16. IF h.prom[p].fate = Undef THEN g.prom[p].fate = x /\ g.prom[p].fateAt = h.gen
       ELSE FateKept(h.prom[p], g.prom[p])
  BY <1>11, <1>12 DEF FateKept
<1> QED BY <1>8, <1>11, <1>12, <1>14, <1>15, <1>16 DEF Adopts, j

\* A promise is made.
Makes(h, g, s) ==
  /\ g.combs = h.combs /\ g.ags = h.ags /\ g.gen = h.gen /\ g.queue = h.queue
  /\ Len(g.prom) = Len(h.prom) + 1 /\ Promise(g) = Promise(h) \cup {Len(h.prom) + 1}
  /\ Len(h.prom) + 1 \in Promise(g) /\ Len(h.prom) + 1 \notin Promise(h)
  /\ \A p \in Promise(h) : g.prom[p] = h.prom[p]
  /\ g.prom[Len(h.prom) + 1] = s

LEMMA MakeEffect ==
  ASSUME NEW h \in Heap, NEW s \in PromiseRec, NEW g, g = [h EXCEPT !.prom = Append(@, s)]
  PROVE  g \in Heap /\ Makes(h, g, s)
<1>1. h.prom \in Seq(PromiseRec) BY Parts
<1>2. /\ g.prom = Append(h.prom, s) /\ g.queue = h.queue /\ g.combs = h.combs /\ g.ags = h.ags /\ g.gen = h.gen
      /\ g = [prom |-> g.prom, combs |-> g.combs, ags |-> g.ags, queue |-> g.queue, gen |-> g.gen]
  BY DEF Heap
<1>3. /\ g.prom \in Seq(PromiseRec) /\ DOMAIN g.prom = 1 .. Len(h.prom) + 1 /\ Len(g.prom) = Len(h.prom) + 1
      /\ \A p \in 1 .. Len(h.prom) : g.prom[p] = h.prom[p]
      /\ g.prom[Len(h.prom) + 1] = s
  BY <1>1, <1>2, Appended
<1>4. g \in Heap BY <1>2, <1>3, Parts DEF Heap
<1>5. Promise(g) = 1 .. Len(h.prom) + 1 /\ Promise(h) = 1 .. Len(h.prom) /\ Len(h.prom) \in Nat
  BY <1>3, Parts DEF Promise
<1>6. \A n \in Nat : 1 .. n + 1 = 1 .. n \cup {n + 1} /\ n + 1 \notin 1 .. n OBVIOUS
<1>7. Promise(g) = Promise(h) \cup {Len(h.prom) + 1} /\ Len(h.prom) + 1 \notin Promise(h) BY <1>5, <1>6
<1> QED BY <1>2, <1>3, <1>4, <1>5, <1>7 DEF Makes

LEMMA NewIsPromise ==
  /\ NewPromise \in PromiseRec
  /\ [NewPromise EXCEPT !.cap = TRUE] \in PromiseRec
<1>1. Undef \in Value /\ <<>> \in Seq(ReactionRec) BY DEF Value
<1>2. NewPromise \in PromiseRec BY <1>1 DEF NewPromise, PromiseRec
<1> QED BY <1>2, CapSet

-----------------------------------------------------------------------------
(* What waits keeps its meaning as long as what it goes on with is not     *)
(* disturbed.                                                              *)

World(h, g) ==
  /\ h.gen <= g.gen
  /\ \A p \in Promise(h) : /\ p \in Promise(g) /\ (h.prom[p].cap => g.prom[p].cap)
                           /\ (h.prom[p].state # "pending" => StateKept(h.prom[p], g.prom[p]))
  /\ DOMAIN h.combs \subseteq DOMAIN g.combs

Kept(h, g, p) ==
  /\ Owned(h, p) => Owned(g, p)
  /\ g.prom[p].again \/ (/\ g.prom[p].state = h.prom[p].state /\ FateKept(h.prom[p], g.prom[p])
                         /\ g.prom[p].again = h.prom[p].again)
KeptGen(h, g, k) ==
  k \in DOMAIN g.ags /\ (Serving(h, k) => Serving(g, k) /\ g.ags[k].done = h.ags[k].done)

Undisturbed(h, st, g) ==
  /\ World(h, g)
  /\ \A p \in Promise(h) : Kept(h, g, p) \/ NoPlace(h, st, OfPromise, p)
  /\ \A k \in DOMAIN h.ags : KeptGen(h, g, k) \/ NoPlace(h, st, OfGen, k)

LEMMA ReactionKept ==
  ASSUME NEW h \in Heap, NEW g \in Heap, World(h, g), NEW q \in Promise(h), NEW r, ReactionOK(h, q, r),
         r.kind \in OfPromise => Kept(h, g, r.to), r.kind \in OfGen => KeptGen(h, g, r.to)
  PROVE  ReactionOK(g, q, r)
<1>0. r \in ReactionRec BY DEF ReactionOK
<1>1. CASE r.kind \in {"then", "finally", "await"}
  <2>1. Owned(h, r.to) /\ Kept(h, g, r.to) BY <1>1 DEF ReactionOK, OfPromise
  <2>2. Owned(g, r.to) BY <2>1 DEF Kept
  <2> QED BY <1>0, <1>1, <2>2 DEF ReactionOK
<1>2. CASE r.kind = "settle"
  <2>1. Kept(h, g, r.to) /\ r.to \in Promise(h) BY <1>2 DEF ReactionOK, OfPromise
  <2>2. r.to \in Promise(g) BY <2>1 DEF World
  <2>3. ASSUME ~g.prom[r.to].again
        PROVE  g.prom[r.to].state = "pending" /\ g.prom[r.to].fate = q /\ g.prom[r.to].fateAt < g.gen
    <3>1. /\ g.prom[r.to].state = h.prom[r.to].state /\ FateKept(h.prom[r.to], g.prom[r.to])
          /\ ~h.prom[r.to].again
      BY <2>1, <2>3 DEF Kept
    <3>2. h.prom[r.to].state = "pending" /\ h.prom[r.to].fate = q /\ h.prom[r.to].fateAt < h.gen
      BY <1>2, <3>1 DEF ReactionOK
    <3>3. h.gen <= g.gen /\ h.gen \in Nat /\ g.gen \in Nat BY Parts DEF World
    <3>4. h.prom[r.to].fateAt \in Nat BY <2>1, Parts, PromiseParts
    <3> QED BY <3>1, <3>2, <3>3, <3>4 DEF FateKept
  <2> QED BY <1>0, <1>2, <2>2, <2>3 DEF ReactionOK
<1>3. CASE r.kind = "element"
  BY <1>0, <1>3 DEF ReactionOK, World
<1>4. CASE r.kind \in {"agawait", "agyield"}
  BY <1>0, <1>4 DEF ReactionOK, KeptGen, OfGen
<1> QED BY <1>0, <1>1, <1>2, <1>3, <1>4 DEF ReactionRec

LEMMA FrameKept ==
  ASSUME NEW h \in Heap, NEW g \in Heap, World(h, g), NEW f, FrameOK(h, f),
         f.kind \in OfPromise => Kept(h, g, f.p), f.kind \in OfGen => KeptGen(h, g, f.p)
  PROVE  FrameOK(g, f)
<1>0. FrameIsTyped(h, f) BY DEF FrameOK
<1>1. CASE f.kind = "script" BY <1>0, <1>1 DEF FrameOK, FrameIsTyped
<1>2. CASE f.kind \in {"executor", "thenable"}
  <2>1. f.p \in Promise(h) /\ h.prom[f.p].cap BY <1>0, <1>2 DEF FrameOK, FrameIsTyped
  <2>2. f.p \in Promise(g) /\ g.prom[f.p].cap BY <2>1 DEF World
  <2> QED BY <1>0, <1>2, <2>2 DEF FrameOK, FrameIsTyped
<1>3. CASE f.kind \in {"async", "handler", "finally"}
  <2>1. Owned(h, f.p) /\ Kept(h, g, f.p) BY <1>3 DEF FrameOK, OfPromise
  <2>2. Owned(g, f.p) BY <2>1 DEF Kept
  <2>3. f.p \in Promise(g) BY <2>2 DEF Owned
  <2> QED BY <1>0, <1>3, <2>2, <2>3 DEF FrameOK, FrameIsTyped
<1>4. CASE f.kind = "combine"
  <2>1. f.p \in DOMAIN g.combs /\ f.arg \in Seq(Value) BY <1>0, <1>4 DEF World, FrameIsTyped
  <2>2. \A i \in DOMAIN f.arg : f.arg[i] \in Plain \cup Thenable \cup Promise(g) BY <1>4 DEF FrameOK, World
  <2> QED BY <1>0, <1>4, <2>1, <2>2 DEF FrameOK, FrameIsTyped
<1>5. CASE f.kind \in {"agen", "agclose"}
  BY <1>0, <1>5 DEF FrameOK, FrameIsTyped, KeptGen, OfGen
<1> QED BY <1>0, <1>1, <1>2, <1>3, <1>4, <1>5 DEF FrameIsTyped

LEMMA JobKept ==
  ASSUME NEW h \in Heap, NEW g \in Heap, World(h, g), NEW j, JobOK(h, j),
         \A p \in Promise(h) : JobGoes(j, OfPromise, p) => Kept(h, g, p),
         \A k \in DOMAIN h.ags : JobGoes(j, OfGen, k) => KeptGen(h, g, k)
  PROVE  JobOK(g, j)
<1>0. j \in JobRec /\ j.p \in Promise(h) /\ j.p \in Promise(g) BY DEF JobOK, World
<1>1. CASE j.kind = "reaction"
  <2>1. ReactionOK(h, j.p, j.r) BY <1>1 DEF JobOK
  <2>2. j.r.kind \in OfPromise => j.r.to \in Promise(h) /\ JobGoes(j, OfPromise, j.r.to)
    BY <1>1, <2>1 DEF ReactionOK, OfPromise, JobGoes, GoesOn, Owned, ReactionRec
  <2>3. j.r.kind \in OfGen => j.r.to \in DOMAIN h.ags /\ JobGoes(j, OfGen, j.r.to)
    BY <1>1, <2>1 DEF ReactionOK, OfGen, JobGoes, GoesOn, Serving, ReactionRec
  <2>4. ReactionOK(g, j.p, j.r) BY <1>0, <2>1, <2>2, <2>3, ReactionKept
  <2>5. h.prom[j.p].state # "pending" BY <1>1 DEF JobOK
  <2>6. StateKept(h.prom[j.p], g.prom[j.p]) BY <1>0, <2>5 DEF World
  <2>7. ASSUME j.r.kind = "settle", ~g.prom[j.r.to].again
        PROVE  j.gen = Later(g.prom[j.r.to].fateAt + 1, g.prom[j.p].at) + 1
    <3>1. Kept(h, g, j.r.to) BY <2>2, <2>7 DEF OfPromise
    <3>2. FateKept(h.prom[j.r.to], g.prom[j.r.to]) /\ ~h.prom[j.r.to].again BY <2>7, <3>1 DEF Kept
    <3>3. j.gen = Later(h.prom[j.r.to].fateAt + 1, h.prom[j.p].at) + 1 BY <1>1, <2>7, <3>2 DEF JobOK
    <3> QED BY <2>6, <3>2, <3>3 DEF FateKept, StateKept
  <2>8. g.prom[j.p].state = (IF j.ok THEN "fulfilled" ELSE "rejected") /\ g.prom[j.p].value = j.x
    BY <1>1, <2>6 DEF JobOK, StateKept
  <2> QED BY <1>0, <1>1, <2>4, <2>7, <2>8 DEF JobOK
<1>2. CASE j.kind = "adopt"
  <2>1. JobGoes(j, OfPromise, j.p) BY <1>2 DEF JobGoes, OfPromise
  <2>2. Kept(h, g, j.p) BY <1>0, <2>1
  <2>3. j.x \in (Promise(g) \cup Thenable) \ {j.p} BY <1>2 DEF JobOK, World
  <2>4. ASSUME ~g.prom[j.p].again
        PROVE  g.prom[j.p].state = "pending" /\ g.prom[j.p].fate = j.x /\ j.gen = g.prom[j.p].fateAt + 1
    BY <1>2, <2>2, <2>4 DEF Kept, FateKept, JobOK
  <2> QED BY <1>0, <1>2, <2>3, <2>4 DEF JobOK
<1> QED BY <1>0, <1>1, <1>2 DEF JobRec

\* All of it at once.

LEMMA AllKept ==
  ASSUME NEW h \in Heap, NEW g \in Heap, NEW st, Undisturbed(h, st, g)
  PROVE  /\ FramesOK(h, st) => FramesOK(g, st)
         /\ \A i \in DOMAIN h.queue : JobOK(h, h.queue[i]) => JobOK(g, h.queue[i])
         /\ \A p \in Promise(h) : \A i \in DOMAIN h.prom[p].cbs :
              ReactionOK(h, p, h.prom[p].cbs[i]) => ReactionOK(g, p, h.prom[p].cbs[i])
<1>0. /\ World(h, g)
      /\ \A p \in Promise(h) : Kept(h, g, p) \/ NoPlace(h, st, OfPromise, p)
      /\ \A k \in DOMAIN h.ags : KeptGen(h, g, k) \/ NoPlace(h, st, OfGen, k)
  BY DEF Undisturbed
<1>1. ASSUME FramesOK(h, st), NEW i \in DOMAIN st PROVE FrameOK(g, st[i])
  <2> DEFINE f == st[i]
  <2>1. FrameOK(h, f) BY <1>1 DEF FramesOK
  <2>2. ASSUME f.kind \in OfPromise PROVE Kept(h, g, f.p)
    <3>1. f.p \in Promise(h) BY <2>1, <2>2 DEF FrameOK, FrameIsTyped, OfPromise
    <3>2. ~NoPlace(h, st, OfPromise, f.p) BY <2>2 DEF NoPlace, NoneRuns, FrameGoes
    <3> QED BY <1>0, <3>1, <3>2
  <2>3. ASSUME f.kind \in OfGen PROVE KeptGen(h, g, f.p)
    <3>1. f.p \in DOMAIN h.ags BY <2>1, <2>3 DEF FrameOK, FrameIsTyped, OfGen
    <3>2. ~NoPlace(h, st, OfGen, f.p) BY <2>3 DEF NoPlace, NoneRuns, FrameGoes
    <3> QED BY <1>0, <3>1, <3>2
  <2> QED BY <1>0, <2>1, <2>2, <2>3, FrameKept
<1>2. ASSUME NEW i \in DOMAIN h.queue, JobOK(h, h.queue[i]) PROVE JobOK(g, h.queue[i])
  <2>1. \A p \in Promise(h) : JobGoes(h.queue[i], OfPromise, p) => Kept(h, g, p)
    BY <1>0 DEF NoPlace, NoneQueued
  <2>2. \A k \in DOMAIN h.ags : JobGoes(h.queue[i], OfGen, k) => KeptGen(h, g, k)
    BY <1>0 DEF NoPlace, NoneQueued
  <2> QED BY <1>0, <1>2, <2>1, <2>2, JobKept
<1>3. ASSUME NEW p \in Promise(h), NEW i \in DOMAIN h.prom[p].cbs, ReactionOK(h, p, h.prom[p].cbs[i])
      PROVE  ReactionOK(g, p, h.prom[p].cbs[i])
  <2> DEFINE r == h.prom[p].cbs[i]
  <2>0. r \in ReactionRec /\ p \in DOMAIN h.prom BY <1>3 DEF ReactionOK, Promise
  <2>1. ASSUME r.kind \in OfPromise PROVE Kept(h, g, r.to)
    <3>1. r.to \in Promise(h) BY <1>3, <2>0, <2>1, Zenon DEF ReactionOK, Owned, OfPromise, ReactionRec
    <3>2. ~NoPlace(h, st, OfPromise, r.to) BY <2>0, <2>1 DEF NoPlace, NoneWaits, GoesOn
    <3> QED BY <1>0, <3>1, <3>2
  <2>2. ASSUME r.kind \in OfGen PROVE KeptGen(h, g, r.to)
    <3>1. r.to \in DOMAIN h.ags BY <1>3, <2>0, <2>2, Zenon DEF ReactionOK, Serving, OfGen, ReactionRec
    <3>2. ~NoPlace(h, st, OfGen, r.to) BY <2>0, <2>2 DEF NoPlace, NoneWaits, GoesOn
    <3> QED BY <1>0, <3>1, <3>2
  <2> QED BY <1>0, <1>3, <2>1, <2>2, ReactionKept
<1> QED BY <1>1, <1>2, <1>3 DEF FramesOK

\* A promise of which nothing changed but the world around it.
LEMMA PromKept ==
  ASSUME NEW h \in Heap, NEW g \in Heap, NEW st, World(h, g), NEW q \in Promise(h), PromOK(h, st, q),
         StateKept(h.prom[q], g.prom[q]), FateKept(h.prom[q], g.prom[q]), RightsKept(h.prom[q], g.prom[q]),
         h.prom[q].cbs = <<>> => g.prom[q].cbs = <<>> \/ h.prom[q].state = "pending",
         ~h.prom[q].again /\ OnePlace(h, st, OfPromise, q) => OnePlace(g, st, OfPromise, q),
         h.prom[q].cap /\ h.prom[q].fate = Undef /\ NoPlace(h, st, OfPromise, q) => NoPlace(g, st, OfPromise, q)
  PROVE  PromOK(g, st, q)
<1> DEFINE s == h.prom[q]
           t == g.prom[q]
<1>1. /\ t.state = s.state /\ t.value = s.value /\ t.at = s.at
      /\ t.fate = s.fate /\ t.fateAt = s.fateAt /\ t.cap = s.cap /\ t.again = s.again
  BY DEF StateKept, FateKept, RightsKept
<1>2. /\ s.state # "pending" => s.cbs = <<>>
      /\ s.state = "fulfilled" => s.value \in Final
      /\ s.at <= h.gen /\ s.fateAt <= h.gen
      /\ s.fate \in (Promise(h) \ {q}) \cup Thenable \cup {Undef}
      /\ s.again => s.fate # Undef
      /\ ~s.again => OnePlace(h, st, OfPromise, q)
      /\ s.cap /\ s.fate = Undef => NoPlace(h, st, OfPromise, q)
  BY DEF PromOK
<1>3. h.gen \in Nat /\ g.gen \in Nat /\ h.gen <= g.gen /\ s.at \in Nat /\ s.fateAt \in Nat
  BY Parts, PromiseParts DEF World
<1>4. t.at <= g.gen /\ t.fateAt <= g.gen BY <1>1, <1>2, <1>3
<1>5. \A x \in Promise(h) : x \in Promise(g) BY DEF World
<1>6. ASSUME t.fate \in Promise(g), t.state # "pending", ~t.again
      PROVE  /\ g.prom[t.fate].state = t.state /\ g.prom[t.fate].value = t.value
             /\ t.at = Later(t.fateAt + 1, g.prom[t.fate].at) + 1
  <2>1. s.fate \in Promise(h)
    <3>1. \A x \in Promise(g) : x \in Int BY Parts
    <3>2. s.fate \in Int BY <1>1, <1>6, <3>1
    <3>3. s.fate \notin Thenable /\ s.fate # Undef BY <3>2, ValuesAssumption
    <3> QED BY <1>2, <3>3
  <2>2. /\ h.prom[s.fate].state = s.state /\ h.prom[s.fate].value = s.value
        /\ s.at = Later(s.fateAt + 1, h.prom[s.fate].at) + 1
    BY <1>1, <1>6, <2>1 DEF PromOK
  <2>3. h.prom[s.fate].state # "pending" BY <1>1, <1>6, <2>2
  <2>4. StateKept(h.prom[s.fate], g.prom[s.fate]) BY <2>1, <2>3 DEF World
  <2> HIDE DEF s, t
  <2> QED BY <1>1, <2>2, <2>4 DEF StateKept
<1>n. /\ ~s.again /\ OnePlace(h, st, OfPromise, q) => OnePlace(g, st, OfPromise, q)
      /\ s.cap /\ s.fate = Undef /\ NoPlace(h, st, OfPromise, q) => NoPlace(g, st, OfPromise, q)
  OBVIOUS
<1>7. t.state # "pending" => t.cbs = <<>> BY <1>1, <1>2
<1> HIDE DEF s, t
<1>8. /\ t.state = "fulfilled" => t.value \in Final
      /\ t.fate \in (Promise(g) \ {q}) \cup Thenable \cup {Undef}
      /\ t.again => t.fate # Undef
      /\ ~t.again => OnePlace(g, st, OfPromise, q)
      /\ t.cap /\ t.fate = Undef => NoPlace(g, st, OfPromise, q)
  BY <1>1, <1>2, <1>5, <1>n
<1> QED BY <1>4, <1>6, <1>7, <1>8 DEF PromOK, t

\* Nor of what is queued for it.
SameJobs(h, g, q) ==
  /\ \A i \in DOMAIN h.queue : i \in DOMAIN g.queue /\ g.queue[i] = h.queue[i]
  /\ \A i \in DOMAIN g.queue : i \notin DOMAIN h.queue => ~IsReactionOf(g.queue[i], q)

LEMMA InOrderKept ==
  ASSUME NEW h, NEW g, NEW q, InOrder(h, q), SameJobs(h, g, q),
         g.prom[q].reg = h.prom[q].reg, g.prom[q].ran = h.prom[q].ran, g.prom[q].cbs = h.prom[q].cbs,
         StateKept(h.prom[q], g.prom[q])
  PROVE  InOrder(g, q)
<1> DEFINE Qd(k) == {i \in DOMAIN k.queue : IsReactionOf(k.queue[i], q)}
<1>1. Qd(g) = Qd(h) /\ \A i \in Qd(h) : g.queue[i] = h.queue[i] BY DEF SameJobs
<1> QED BY <1>1 DEF InOrder, StateKept

-----------------------------------------------------------------------------
(* The places where something goes on.                                     *)

\* None is added where nothing was added.
LEMMA PlacesSame ==
  ASSUME NEW h \in Heap, NEW g \in Heap, NEW st, NEW K, NEW x, g.queue = h.queue,
         \A q \in Promise(h) : q \in Promise(g) /\ g.prom[q].cbs = h.prom[q].cbs,
         \A q \in Promise(g) : q \notin Promise(h) => g.prom[q].cbs = <<>>
  PROVE  /\ NoPlace(g, st, K, x) <=> NoPlace(h, st, K, x)
         /\ OnePlace(h, st, K, x) => OnePlace(g, st, K, x)
<1>0. DOMAIN h.prom = Promise(h) /\ DOMAIN g.prom = Promise(g) /\ DOMAIN <<>> = {} BY DEF Promise
<1>1. NoneQueued(g, K, x) <=> NoneQueued(h, K, x) BY DEF NoneQueued
<1>2. NoneWaits(g, K, x) <=> NoneWaits(h, K, x) BY <1>0 DEF NoneWaits
<1>3. OneQueued(h, K, x) => OneQueued(g, K, x) BY DEF OneQueued
<1>4. OneWaits(h, K, x) => OneWaits(g, K, x)
  <2> SUFFICES ASSUME OneWaits(h, K, x), NEW q \in DOMAIN g.prom, NEW r \in DOMAIN g.prom,
                      NEW i \in DOMAIN g.prom[q].cbs, NEW j \in DOMAIN g.prom[r].cbs,
                      GoesOn(g.prom[q].cbs[i], K, x), GoesOn(g.prom[r].cbs[j], K, x)
               PROVE  q = r /\ i = j
    BY DEF OneWaits
  <2>1. q \in DOMAIN h.prom /\ r \in DOMAIN h.prom BY <1>0
  <2>2. g.prom[q].cbs = h.prom[q].cbs /\ g.prom[r].cbs = h.prom[r].cbs BY <1>0, <2>1
  <2> QED BY <2>1, <2>2 DEF OneWaits
<1> QED BY <1>1, <1>2, <1>3, <1>4 DEF NoPlace, OnePlace

\* A job is queued.
LEMMA PlacesQueued ==
  ASSUME NEW h \in Heap, NEW g \in Heap, NEW st, NEW K, NEW x, NEW j \in JobRec, g.queue = Append(h.queue, j),
         Promise(g) = Promise(h), \A q \in Promise(h) : g.prom[q].cbs = h.prom[q].cbs
  PROVE  /\ NoPlace(h, st, K, x) /\ ~JobGoes(j, K, x) => NoPlace(g, st, K, x)
         /\ OnePlace(h, st, K, x) /\ (~JobGoes(j, K, x) \/ NoPlace(h, st, K, x)) => OnePlace(g, st, K, x)
         /\ JobGoes(j, K, x) \/ ~NoPlace(h, st, K, x) => ~NoPlace(g, st, K, x)
<1>0. DOMAIN h.prom = Promise(h) /\ DOMAIN g.prom = Promise(g) BY DEF Promise
<1>1. /\ DOMAIN g.queue = 1 .. Len(h.queue) + 1 /\ DOMAIN h.queue = 1 .. Len(h.queue) /\ Len(h.queue) \in Nat
      /\ \A i \in 1 .. Len(h.queue) : g.queue[i] = h.queue[i]
      /\ g.queue[Len(h.queue) + 1] = j
  BY Parts, Appended
<1>2. NoneWaits(g, K, x) <=> NoneWaits(h, K, x) BY <1>0 DEF NoneWaits
<1>3. OneWaits(h, K, x) => OneWaits(g, K, x) BY <1>0 DEF OneWaits
<1>4. NoneQueued(g, K, x) <=> (NoneQueued(h, K, x) /\ ~JobGoes(j, K, x)) BY <1>1 DEF NoneQueued
<1>5. OneQueued(h, K, x) /\ (~JobGoes(j, K, x) \/ NoneQueued(h, K, x)) => OneQueued(g, K, x)
  BY <1>1 DEF OneQueued, NoneQueued
<1> QED BY <1>2, <1>3, <1>4, <1>5 DEF NoPlace, OnePlace

\* A reaction waits.
LEMMA PlacesWaits ==
  ASSUME NEW h \in Heap, NEW g \in Heap, NEW st, NEW K, NEW x, NEW p \in Promise(h), NEW m \in ReactionRec,
         Waits(h, g, p, m)
  PROVE  /\ NoPlace(h, st, K, x) /\ ~GoesOn(m, K, x) => NoPlace(g, st, K, x)
         /\ OnePlace(h, st, K, x) /\ (~GoesOn(m, K, x) \/ NoPlace(h, st, K, x)) => OnePlace(g, st, K, x)
         /\ GoesOn(m, K, x) \/ ~NoPlace(h, st, K, x) => ~NoPlace(g, st, K, x)
<1>0. DOMAIN h.prom = Promise(h) /\ DOMAIN g.prom = Promise(h) BY DEF Promise, Waits, OthersKept
<1>1. h.prom[p].cbs \in Seq(ReactionRec) BY Parts, PromiseParts
<1> DEFINE n == Len(h.prom[p].cbs)
<1>2. /\ DOMAIN g.prom[p].cbs = 1 .. n + 1 /\ DOMAIN h.prom[p].cbs = 1 .. n /\ n \in Nat
      /\ \A i \in 1 .. n : g.prom[p].cbs[i] = h.prom[p].cbs[i]
      /\ g.prom[p].cbs[n + 1] = m
  BY <1>1, Appended, Indices DEF Waits
<1>3. \A q \in Promise(h) : q # p => g.prom[q].cbs = h.prom[q].cbs BY DEF Waits, OthersKept
<1>4. g.queue = h.queue BY DEF Waits
<1> HIDE DEF n
<1>5. NoneWaits(g, K, x) <=> (NoneWaits(h, K, x) /\ ~GoesOn(m, K, x))
  <2>1. NoneWaits(g, K, x) => NoneWaits(h, K, x) /\ ~GoesOn(m, K, x)
    <3> SUFFICES ASSUME NoneWaits(g, K, x) PROVE NoneWaits(h, K, x) /\ ~GoesOn(m, K, x) OBVIOUS
    <3>1. ~GoesOn(m, K, x) BY <1>0, <1>2 DEF NoneWaits
    <3>2. ASSUME NEW q \in DOMAIN h.prom, NEW i \in DOMAIN h.prom[q].cbs PROVE ~GoesOn(h.prom[q].cbs[i], K, x)
      BY <1>0, <1>2, <1>3 DEF NoneWaits
    <3> QED BY <3>1, <3>2 DEF NoneWaits
  <2>2. NoneWaits(h, K, x) /\ ~GoesOn(m, K, x) => NoneWaits(g, K, x)
    <3> SUFFICES ASSUME NoneWaits(h, K, x), ~GoesOn(m, K, x), NEW q \in DOMAIN g.prom, NEW i \in DOMAIN g.prom[q].cbs
                 PROVE  ~GoesOn(g.prom[q].cbs[i], K, x)
      BY DEF NoneWaits
    <3>1. CASE q = p BY <1>0, <1>2, <3>1 DEF NoneWaits
    <3>2. CASE q # p BY <1>0, <1>3, <3>2 DEF NoneWaits
    <3> QED BY <3>1, <3>2
  <2> QED BY <2>1, <2>2
<1>6. OneWaits(h, K, x) /\ (~GoesOn(m, K, x) \/ NoneWaits(h, K, x)) => OneWaits(g, K, x)
  <2> SUFFICES ASSUME OneWaits(h, K, x), ~GoesOn(m, K, x) \/ NoneWaits(h, K, x),
                      NEW q \in DOMAIN g.prom, NEW r \in DOMAIN g.prom,
                      NEW i \in DOMAIN g.prom[q].cbs, NEW j \in DOMAIN g.prom[r].cbs,
                      GoesOn(g.prom[q].cbs[i], K, x), GoesOn(g.prom[r].cbs[j], K, x)
               PROVE  q = r /\ i = j
    BY DEF OneWaits
  <2> DEFINE Old(u, l) == u \in DOMAIN h.prom /\ l \in DOMAIN h.prom[u].cbs /\ h.prom[u].cbs[l] = g.prom[u].cbs[l]
  <2>1. Old(q, i) \/ (q = p /\ i = n + 1) BY <1>0, <1>2, <1>3
  <2>2. Old(r, j) \/ (r = p /\ j = n + 1) BY <1>0, <1>2, <1>3
  <2>3. CASE Old(q, i) /\ Old(r, j) BY <2>3 DEF OneWaits
  <2>4. CASE q = p /\ i = n + 1 /\ Old(r, j) BY <1>2, <2>4 DEF NoneWaits
  <2>5. CASE Old(q, i) /\ r = p /\ j = n + 1 BY <1>2, <2>5 DEF NoneWaits
  <2> QED BY <2>1, <2>2, <2>3, <2>4, <2>5
<1>7. (NoneQueued(g, K, x) <=> NoneQueued(h, K, x)) /\ (OneQueued(h, K, x) => OneQueued(g, K, x))
  BY <1>4 DEF NoneQueued, OneQueued
<1> QED BY <1>5, <1>6, <1>7 DEF NoPlace, OnePlace

LEMMA Spans ==
  ASSUME NEW n \in Nat, NEW l \in Nat
  PROVE  /\ \A i \in 1 .. n + l : i \in Int /\ (i \in 1 .. n \/ (i - n \in 1 .. l /\ i = n + (i - n) /\ i > n))
         /\ \A i \in 1 .. l : n + i \in 1 .. n + l
         /\ \A i \in 1 .. n : i \in 1 .. n + l
OBVIOUS

\* The queue when p has settled: the n jobs there were, then what waited on p.
QueueGrows(h, g, p, how, v, n, c) ==
  /\ n \in Nat /\ Len(c) \in Nat
  /\ DOMAIN h.queue = 1 .. n /\ DOMAIN c = 1 .. Len(c) /\ DOMAIN g.queue = 1 .. n + Len(c)
  /\ \A i \in 1 .. n : i \in DOMAIN g.queue /\ g.queue[i] = h.queue[i]
  /\ \A i \in DOMAIN c : n + i \in DOMAIN g.queue /\ g.queue[n + i] = ReactionJob(h.gen, p, c[i], how, v)
  /\ \A i \in DOMAIN g.queue : i \in Int /\ (i \in 1 .. n \/ (i - n \in DOMAIN c /\ i = n + (i - n) /\ i > n))

LEMMA SettledQueue ==
  ASSUME NEW h \in Heap, NEW g \in Heap, NEW p \in Promise(h), NEW how, NEW v, Settles(h, g, p, how, v)
  PROVE  QueueGrows(h, g, p, how, v, Len(h.queue), h.prom[p].cbs)
<1> DEFINE n == Len(h.queue)
           c == h.prom[p].cbs
           l == Len(c)
<1>1. n \in Nat /\ l \in Nat /\ DOMAIN c = 1 .. l BY Parts, PromiseParts
<1>3. DOMAIN h.queue = 1 .. n /\ DOMAIN g.queue = 1 .. Len(g.queue) BY Parts
<1>4. Len(g.queue) = n + l BY DEF Settles
<1>5. \A i \in DOMAIN h.queue : g.queue[i] = h.queue[i] BY DEF Settles
<1>6. \A i \in DOMAIN c : g.queue[n + i] = ReactionJob(h.gen, p, c[i], how, v) BY DEF Settles
<1> HIDE DEF n, c, l
<1>10. DOMAIN g.queue = 1 .. n + l BY <1>3, <1>4
<1>7. /\ \A i \in 1 .. n + l : i \in Int /\ (i \in 1 .. n \/ (i - n \in 1 .. l /\ i = n + (i - n) /\ i > n))
      /\ \A i \in 1 .. l : n + i \in 1 .. n + l
      /\ \A i \in 1 .. n : i \in 1 .. n + l
  BY <1>1, Spans
<1>8. QueueGrows(h, g, p, how, v, n, c)
  <2>1. Len(c) = l BY DEF l
  <2> QED BY <1>1, <1>3, <1>5, <1>6, <1>7, <1>10, <2>1 DEF QueueGrows
<1> QED BY <1>8 DEF n, c

\* What waits on a promise that settles is queued.
LEMMA PlacesSettled ==
  ASSUME NEW h \in Heap, NEW g \in Heap, NEW st, NEW K, NEW x, NEW p \in Promise(h), NEW how, NEW v,
         Settles(h, g, p, how, v)
  PROVE  /\ NoPlace(g, st, K, x) <=> NoPlace(h, st, K, x)
         /\ OnePlace(h, st, K, x) => OnePlace(g, st, K, x)
<1>0. /\ DOMAIN h.prom = Promise(h) /\ DOMAIN g.prom = Promise(h) /\ g.prom[p].cbs = <<>> /\ DOMAIN <<>> = {}
      /\ p \in DOMAIN h.prom
  BY DEF Promise, Settles, OthersKept
<1> DEFINE n == Len(h.queue)
           c == h.prom[p].cbs
<1>s. /\ DOMAIN h.queue = 1 .. n /\ DOMAIN c = 1 .. Len(c) /\ DOMAIN g.queue = 1 .. n + Len(c) /\ n \in Nat /\ Len(c) \in Nat
      /\ \A i \in 1 .. n : i \in DOMAIN g.queue /\ g.queue[i] = h.queue[i]
      /\ \A i \in DOMAIN c : n + i \in DOMAIN g.queue /\ g.queue[n + i] = ReactionJob(h.gen, p, c[i], how, v)
      /\ \A i \in DOMAIN g.queue : i \in Int /\ (i \in 1 .. n \/ (i - n \in DOMAIN c /\ i = n + (i - n) /\ i > n))
  <2>1. QueueGrows(h, g, p, how, v, n, c) BY SettledQueue
  <2> HIDE DEF n, c
  <2> QED BY <2>1 DEF QueueGrows
<1>4. \A i \in DOMAIN c : JobGoes(g.queue[n + i], K, x) <=> GoesOn(c[i], K, x)
  <2> SUFFICES ASSUME NEW i \in DOMAIN c PROVE JobGoes(g.queue[n + i], K, x) <=> GoesOn(c[i], K, x) OBVIOUS
  <2>1. g.queue[n + i] = ReactionJob(h.gen, p, c[i], how, v) BY <1>s
  <2> DEFINE j == ReactionJob(h.gen, p, c[i], how, v)
  <2>2. j.kind = "reaction" /\ j.r = c[i] BY DEF ReactionJob
  <2> HIDE DEF j, c, n
  <2> QED BY <2>1, <2>2 DEF JobGoes, j
<1>5. \A q \in Promise(h) : q # p => g.prom[q].cbs = h.prom[q].cbs BY DEF Settles, OthersKept
<1> HIDE DEF n, c
<1>7. NoneQueued(g, K, x) <=> (NoneQueued(h, K, x) /\ \A i \in DOMAIN c : ~GoesOn(c[i], K, x))
  <2>1. NoneQueued(g, K, x) => NoneQueued(h, K, x) BY <1>s DEF NoneQueued
  <2>2. NoneQueued(g, K, x) => \A i \in DOMAIN c : ~GoesOn(c[i], K, x)
    BY <1>s, <1>4 DEF NoneQueued
  <2>3. NoneQueued(h, K, x) /\ (\A i \in DOMAIN c : ~GoesOn(c[i], K, x)) => NoneQueued(g, K, x)
    BY <1>s, <1>4, <1>s DEF NoneQueued
  <2> QED BY <2>1, <2>2, <2>3
<1>8. NoneWaits(h, K, x) <=> (NoneWaits(g, K, x) /\ \A i \in DOMAIN c : ~GoesOn(c[i], K, x))
  BY <1>0, <1>5 DEF NoneWaits, c
<1>9. OneWaits(h, K, x) => OneWaits(g, K, x) /\ \A i, j \in DOMAIN c : GoesOn(c[i], K, x) /\ GoesOn(c[j], K, x) => i = j
  <2> SUFFICES ASSUME OneWaits(h, K, x)
               PROVE  OneWaits(g, K, x) /\ \A i, j \in DOMAIN c : GoesOn(c[i], K, x) /\ GoesOn(c[j], K, x) => i = j
    OBVIOUS
  <2>1. \A i, j \in DOMAIN c : GoesOn(c[i], K, x) /\ GoesOn(c[j], K, x) => i = j BY <1>0 DEF OneWaits, c
  <2>2. \A q \in DOMAIN g.prom : \A i \in DOMAIN g.prom[q].cbs : q # p /\ q \in DOMAIN h.prom /\ g.prom[q].cbs = h.prom[q].cbs
    BY <1>0, <1>5
  <2>3. OneWaits(g, K, x) BY <2>2 DEF OneWaits
  <2> QED BY <2>1, <2>3
<1>10. ASSUME OneQueued(h, K, x), \A i, j \in DOMAIN c : GoesOn(c[i], K, x) /\ GoesOn(c[j], K, x) => i = j,
              NoneQueued(h, K, x) \/ \A i \in DOMAIN c : ~GoesOn(c[i], K, x)
       PROVE  OneQueued(g, K, x)
  <2> SUFFICES ASSUME NEW i \in DOMAIN g.queue, NEW j \in DOMAIN g.queue,
                      JobGoes(g.queue[i], K, x), JobGoes(g.queue[j], K, x)
               PROVE  i = j
    BY DEF OneQueued
  <2>1. CASE i \in 1 .. n /\ j \in 1 .. n BY <1>s, <1>10, <2>1 DEF OneQueued
  <2>2. CASE i \in 1 .. n /\ j - n \in DOMAIN c /\ j = n + (j - n) BY <1>s, <1>4, <1>10, <2>2 DEF NoneQueued
  <2>3. CASE i - n \in DOMAIN c /\ i = n + (i - n) /\ j \in 1 .. n BY <1>s, <1>4, <1>10, <2>3 DEF NoneQueued
  <2>4. CASE i - n \in DOMAIN c /\ i = n + (i - n) /\ j - n \in DOMAIN c /\ j = n + (j - n)
    <3>1. i - n = j - n BY <1>4, <1>10, <2>4
    <3> QED BY <1>s, <2>4, <3>1
  <2> QED BY <1>s, <2>1, <2>2, <2>3, <2>4
<1>11. (\E i \in DOMAIN c : GoesOn(c[i], K, x)) /\ OneWaits(h, K, x) => NoneWaits(g, K, x)
  <2> SUFFICES ASSUME NEW i \in DOMAIN c, GoesOn(c[i], K, x), OneWaits(h, K, x), NEW q \in DOMAIN g.prom,
                      NEW j \in DOMAIN g.prom[q].cbs, GoesOn(g.prom[q].cbs[j], K, x)
               PROVE  FALSE
    BY DEF NoneWaits
  <2>1. q # p /\ q \in DOMAIN h.prom /\ g.prom[q].cbs = h.prom[q].cbs BY <1>0, <1>5
  <2> QED BY <1>0, <2>1 DEF OneWaits, c
<1>12. OnePlace(h, st, K, x) => OnePlace(g, st, K, x)
  BY <1>7, <1>8, <1>9, <1>10, <1>11 DEF OnePlace
<1> QED BY <1>7, <1>8, <1>12 DEF NoPlace

-----------------------------------------------------------------------------
(* A promise settles.                                                      *)

\* It is no request that waits, nothing else goes on with it, and if it follows
\* another it settles as that one did, two ticks after it was resolved or one
\* after that one settled.
MayFinish(h, st, p, how, v) ==
  /\ p \in Promise(h) /\ h.prom[p].state = "pending" /\ ~IsRequest(h, p)
  /\ how \in {"fulfilled", "rejected"} /\ v \in Value /\ (how = "fulfilled" => v \in Final)
  /\ \/ h.prom[p].again
     \/ /\ NoPlace(h, st, OfPromise, p)
        /\ h.prom[p].fate \in Promise(h) =>
             /\ h.prom[h.prom[p].fate].state = how /\ h.prom[h.prom[p].fate].value = v
             /\ h.gen = Later(h.prom[p].fateAt + 1, h.prom[h.prom[p].fate].at) + 1

LEMMA SettleUndisturbed ==
  ASSUME NEW h, NEW st, NEW g \in Heap, Core(h, st), NEW p, NEW how, NEW v, MayFinish(h, st, p, how, v),
         Settles(h, g, p, how, v)
  PROVE  Undisturbed(h, st, g)
<1>0. h \in Heap /\ p \in Promise(h) /\ h.prom[p].state = "pending" BY DEF Core, MayFinish
<1>1. g.gen = h.gen /\ Promise(g) = Promise(h) /\ g.combs = h.combs /\ g.ags = h.ags
      /\ (\A q \in Promise(h) : q # p => g.prom[q] = h.prom[q])
      /\ FateKept(h.prom[p], g.prom[p]) /\ RightsKept(h.prom[p], g.prom[p])
  BY DEF Settles, OthersKept
<1>2. World(h, g)
  <2>1. h.gen <= g.gen BY <1>0, <1>1, Parts
  <2> QED BY <1>0, <1>1, <2>1 DEF World, StateKept, RightsKept
<1>3. \A q \in Promise(h) : q # p => Kept(h, g, q) BY <1>1 DEF Kept, FateKept, Owned
<1>4. Kept(h, g, p) \/ NoPlace(h, st, OfPromise, p)
  <2>1. CASE h.prom[p].again BY <1>0, <1>1, <2>1 DEF Kept, Owned, RightsKept
  <2>2. CASE ~h.prom[p].again BY <2>2 DEF MayFinish
  <2> QED BY <2>1, <2>2
<1>5. \A k \in DOMAIN h.ags : KeptGen(h, g, k) BY <1>1 DEF KeptGen, Serving
<1> QED BY <1>2, <1>3, <1>4, <1>5 DEF Undisturbed

LEMMA SettleOrder ==
  ASSUME NEW h \in Heap, NEW g \in Heap, NEW p \in Promise(h), h.prom[p].state = "pending",
         NEW how \in {"fulfilled", "rejected"}, NEW v, Settles(h, g, p, how, v), InOrder(h, p)
  PROVE  InOrder(g, p)
<1> DEFINE n == Len(h.queue)
           c == h.prom[p].cbs
           reg == h.prom[p].reg
           ran == h.prom[p].ran
           Qd(k) == {i \in DOMAIN k.queue : IsReactionOf(k.queue[i], p)}
<1>1. reg \in Nat /\ ran \in Nat BY Parts, PromiseParts
<1>s. /\ DOMAIN h.queue = 1 .. n /\ DOMAIN c = 1 .. Len(c) /\ DOMAIN g.queue = 1 .. n + Len(c) /\ n \in Nat /\ Len(c) \in Nat
      /\ \A i \in 1 .. n : i \in DOMAIN g.queue /\ g.queue[i] = h.queue[i]
      /\ \A i \in DOMAIN c : n + i \in DOMAIN g.queue /\ g.queue[n + i] = ReactionJob(h.gen, p, c[i], how, v)
      /\ \A i \in DOMAIN g.queue : i \in Int /\ (i \in 1 .. n \/ (i - n \in DOMAIN c /\ i = n + (i - n) /\ i > n))
  <2>1. QueueGrows(h, g, p, how, v, n, c) BY SettledQueue
  <2> HIDE DEF n, c
  <2> QED BY <2>1 DEF QueueGrows
<1>4. /\ g.prom[p].reg = reg /\ g.prom[p].ran = ran /\ g.prom[p].cbs = <<>> /\ g.prom[p].state = how /\ g.prom[p].value = v
  BY DEF Settles
<1>5. /\ ran \in 0 .. reg - Len(c)
      /\ \A i \in DOMAIN c : c[i].n = reg - Len(c) + i
      /\ \A m \in ran + 1 .. reg - Len(c) : \E i \in Qd(h) : h.queue[i].r.n = m
      /\ \A i \in Qd(h) : /\ h.queue[i].r.n \in ran + 1 .. reg - Len(c)
                          /\ h.prom[p].state = (IF h.queue[i].ok THEN "fulfilled" ELSE "rejected")
      /\ \A i, j \in Qd(h) : i < j => h.queue[i].r.n < h.queue[j].r.n
  BY DEF InOrder
\* While it was pending nothing was queued.
<1>6. Qd(h) = {} /\ ran = reg - Len(c)
  <2>1. Qd(h) = {} BY <1>5
  <2>2. \A m \in ran + 1 .. reg - Len(c) : FALSE BY <1>5, <2>1
  <2>3. reg - Len(c) \in Int /\ ran <= reg - Len(c) BY <1>1, <1>s, <1>5
  <2> QED BY <1>1, <2>1, <2>2, <2>3
<1>7. \A i \in DOMAIN c : LET j == g.queue[n + i] IN
        IsReactionOf(j, p) /\ j.r = c[i] /\ j.x = v /\ j.ok = (how = "fulfilled")
  <2> SUFFICES ASSUME NEW i \in DOMAIN c
               PROVE  LET j == g.queue[n + i] IN
                        IsReactionOf(j, p) /\ j.r = c[i] /\ j.x = v /\ j.ok = (how = "fulfilled")
    OBVIOUS
  <2>1. g.queue[n + i] = ReactionJob(h.gen, p, c[i], how, v) BY <1>s
  <2> QED BY <2>1 DEF ReactionJob, IsReactionOf
<1>8. \A i \in DOMAIN c : n + i \in Qd(g) BY <1>s, <1>s, <1>7
<1>9. \A i \in Qd(g) : i - n \in DOMAIN c /\ i = n + (i - n) /\ i \in Int
  <2> SUFFICES ASSUME NEW i \in Qd(g) PROVE i - n \in DOMAIN c /\ i = n + (i - n) /\ i \in Int OBVIOUS
  <2>1. i \in DOMAIN g.queue /\ IsReactionOf(g.queue[i], p) OBVIOUS
  <2>2. i \in 1 .. n => i \in Qd(h) BY <1>s, <2>1
  <2> HIDE DEF Qd, n, c
  <2> QED BY <1>s, <1>6, <2>1, <2>2
<1> DEFINE len == Len(c)
<1>l. len \in Nat /\ DOMAIN c = 1 .. len BY <1>s
<1>r. reg \in Nat /\ ran \in Nat /\ ran = reg - len BY <1>1, <1>6
<1> HIDE DEF Qd, n, c, reg, ran, len
<1>10. \A i \in Qd(g) : /\ g.queue[i].r.n = ran + (i - n) /\ i - n \in 1 .. len /\ g.queue[i].x = v
                        /\ how = (IF g.queue[i].ok THEN "fulfilled" ELSE "rejected")
  <2> SUFFICES ASSUME NEW i \in Qd(g)
               PROVE  /\ g.queue[i].r.n = ran + (i - n) /\ i - n \in 1 .. len /\ g.queue[i].x = v
                      /\ how = (IF g.queue[i].ok THEN "fulfilled" ELSE "rejected")
    OBVIOUS
  <2> DEFINE d == i - n
  <2>1. d \in DOMAIN c /\ i = n + d BY <1>9
  <2>2. g.queue[i].r = c[d] /\ g.queue[i].x = v /\ g.queue[i].ok = (how = "fulfilled")
    <3> HIDE DEF d
    <3> QED BY <1>7, <2>1
  <2>3. c[d].n = ran + d /\ d \in 1 .. len
    <3> HIDE DEF d
    <3> QED BY <1>5, <1>6, <1>l, <2>1
  <2>4. g.queue[i].r.n = ran + d
    <3> HIDE DEF d
    <3> QED BY <2>2, <2>3
  <2>5. how = (IF g.queue[i].ok THEN "fulfilled" ELSE "rejected") BY <2>2
  <2>6. g.queue[i].r.n = ran + d /\ d \in 1 .. len BY <2>3, <2>4
  <2> QED BY <2>2, <2>5, <2>6, Zenon
<1>11. \A m \in ran + 1 .. reg : \E i \in Qd(g) : g.queue[i].r.n = m
  <2> SUFFICES ASSUME NEW m \in ran + 1 .. reg PROVE \E i \in Qd(g) : g.queue[i].r.n = m OBVIOUS
  <2> DEFINE d == m - ran
  <2>1. d \in 1 .. len /\ d \in Int /\ ran + d = m BY <1>l, <1>r
  <2> HIDE DEF d
  <2>2. n + d \in Qd(g) BY <1>l, <1>8, <2>1
  <2>3. g.queue[n + d].r = c[d]
    BY <1>l, <1>7, <2>1
  <2>4. c[d].n = ran + d BY <1>5, <1>6, <1>l, <2>1
  <2> DEFINE e == n + d
  <2>5. e \in Qd(g) /\ g.queue[e].r.n = m
    <3>1. g.queue[e].r = c[d] /\ e \in Qd(g) BY <2>2, <2>3
    <3> HIDE DEF e
    <3> QED BY <2>1, <2>4, <3>1
  <2> HIDE DEF e, d
  <2> QED BY <2>5, Zenon
<1>12. \A i \in Qd(g) : g.queue[i].r.n \in ran + 1 .. reg BY <1>l, <1>r, <1>10
<1>13. \A i, j \in Qd(g) : i < j => g.queue[i].r.n < g.queue[j].r.n BY ONLY <1>1, <1>s, <1>9, <1>10
<1>14. ran \in 0 .. reg BY <1>l, <1>r
<1>15. reg - Len(<<>>) = reg /\ DOMAIN <<>> = {} BY <1>r
<1> QED BY <1>4, <1>10, <1>11, <1>12, <1>13, <1>14, <1>15 DEF InOrder, Qd

LEMMA SettleCore ==
  ASSUME NEW h, NEW st, NEW g \in Heap, Core(h, st), NEW p, NEW how, NEW v, MayFinish(h, st, p, how, v),
         Settles(h, g, p, how, v)
  PROVE  Core(g, st)
<1> DEFINE n == Len(h.queue)
           c == h.prom[p].cbs
<1>0. h \in Heap /\ p \in Promise(h) /\ h.prom[p].state = "pending" /\ how \in {"fulfilled", "rejected"}
      /\ ~IsRequest(h, p) /\ v \in Value
  BY DEF Core, MayFinish
<1>1. Undisturbed(h, st, g) BY SettleUndisturbed
<1>2. World(h, g) BY <1>1 DEF Undisturbed
<1>3. g.gen = h.gen /\ Promise(g) = Promise(h) /\ g.combs = h.combs /\ g.ags = h.ags
      /\ (\A q \in Promise(h) : q # p => g.prom[q] = h.prom[q])
      /\ FateKept(h.prom[p], g.prom[p]) /\ RightsKept(h.prom[p], g.prom[p])
      /\ g.prom[p].state = how /\ g.prom[p].value = v /\ g.prom[p].cbs = <<>> /\ g.prom[p].at = h.gen
  BY DEF Settles, OthersKept
<1>4. \A K, x : /\ NoPlace(g, st, K, x) <=> NoPlace(h, st, K, x)
                /\ OnePlace(h, st, K, x) => OnePlace(g, st, K, x)
  BY <1>0, PlacesSettled
<1>5. FramesOK(g, st) BY <1>0, <1>1, AllKept DEF Core
<1>s. /\ DOMAIN h.queue = 1 .. n /\ DOMAIN c = 1 .. Len(c) /\ DOMAIN g.queue = 1 .. n + Len(c) /\ n \in Nat /\ Len(c) \in Nat
      /\ \A i \in 1 .. n : i \in DOMAIN g.queue /\ g.queue[i] = h.queue[i]
      /\ \A i \in DOMAIN c : n + i \in DOMAIN g.queue /\ g.queue[n + i] = ReactionJob(h.gen, p, c[i], how, v)
      /\ \A i \in DOMAIN g.queue : i \in Int /\ (i \in 1 .. n \/ (i - n \in DOMAIN c /\ i = n + (i - n) /\ i > n))
  <2>1. QueueGrows(h, g, p, how, v, n, c) BY <1>0, SettledQueue
  <2> HIDE DEF n, c
  <2> QED BY <2>1 DEF QueueGrows
<1>9. ASSUME NEW i \in DOMAIN c PROVE JobOK(g, g.queue[n + i])
  <2> DEFINE j == ReactionJob(h.gen, p, c[i], how, v)
             r == c[i]
  <2>1. g.queue[n + i] = j BY <1>s
  <2>2. j.kind = "reaction" /\ j.p = p /\ j.r = r /\ j.ok = (how = "fulfilled") /\ j.x = v /\ j.gen = h.gen + 1
    BY DEF ReactionJob
  <2>3. ReactionOK(h, p, r) BY <1>0 DEF Core, WaitOK
  <2>4. ReactionOK(g, p, r) BY <1>0, <1>1, <2>3, AllKept
  <2>5. n + i \in DOMAIN g.queue BY <1>s
  <2>6. j \in JobRec BY <2>1, <2>5, Parts
  <2>7. ASSUME r.kind = "settle", ~g.prom[r.to].again
        PROVE  h.gen + 1 = Later(g.prom[r.to].fateAt + 1, g.prom[p].at) + 1
    <3>1. r.to \in Promise(g) /\ g.prom[r.to].fateAt < g.gen BY ONLY <2>4, <2>7, Zenon DEF ReactionOK
    <3>2. g.prom[r.to].fateAt \in Nat /\ h.gen \in Nat BY <1>0, <3>1, Parts, PromiseParts, Zenon
    <3>3. g.prom[r.to].fateAt + 1 <= h.gen BY <1>3, <3>1, <3>2
    <3> QED BY <1>3, <3>2, <3>3 DEF Later
  <2> HIDE DEF j, r
  <2>8. JobOK(g, j)
    <3>1. g.prom[j.p].state = (IF j.ok THEN "fulfilled" ELSE "rejected") /\ g.prom[j.p].value = j.x
      BY <1>0, <1>3, <2>2
    <3> QED BY <1>0, <1>3, <2>2, <2>4, <2>6, <2>7, <3>1 DEF JobOK
  <2> QED BY <2>1, <2>8
<1>10. JobsOK(g)
  <2>1. \A i \in 1 .. n : JobOK(g, g.queue[i]) BY <1>0, <1>1, <1>s, AllKept DEF Core, JobsOK
  <2> QED BY <1>s, <1>9, <2>1 DEF JobsOK
<1>11. WaitOK(g)
  <2> SUFFICES ASSUME NEW q \in Promise(g), NEW i \in DOMAIN g.prom[q].cbs PROVE ReactionOK(g, q, g.prom[q].cbs[i])
    BY DEF WaitOK
  <2>1. q # p
    <3>1. DOMAIN <<>> = {} OBVIOUS
    <3> QED BY <1>3, <3>1
  <2>2. g.prom[q] = h.prom[q] /\ q \in Promise(h) BY <1>3, <2>1
  <2> QED BY <1>0, <1>1, <2>2, AllKept DEF Core, WaitOK
<1>12. PromisesOK(g, st)
  <2> SUFFICES ASSUME NEW q \in Promise(h) PROVE PromOK(g, st, q) BY <1>3 DEF PromisesOK
  <2>0. PromOK(h, st, q) BY DEF Core, PromisesOK
  <2>1. CASE q # p
    <3>1. StateKept(h.prom[q], g.prom[q]) /\ FateKept(h.prom[q], g.prom[q]) /\ RightsKept(h.prom[q], g.prom[q])
          /\ g.prom[q].cbs = h.prom[q].cbs
      BY <1>3, <2>1 DEF StateKept, FateKept, RightsKept
    <3> QED BY <1>0, <1>2, <1>4, <2>0, <3>1, PromKept
  <2>2. CASE q = p
    <3> DEFINE s == h.prom[p]
               t == g.prom[p]
    <3>1. t.fate = s.fate /\ t.fateAt = s.fateAt /\ t.cap = s.cap /\ t.again = s.again
      BY <1>3 DEF FateKept, RightsKept
    <3>2. /\ s.fateAt <= h.gen /\ s.fate \in (Promise(h) \ {p}) \cup Thenable \cup {Undef}
          /\ s.again => s.fate # Undef
          /\ ~s.again => OnePlace(h, st, OfPromise, p)
          /\ s.cap /\ s.fate = Undef => NoPlace(h, st, OfPromise, p)
      BY <2>0, <2>2 DEF PromOK
    <3>3. t.state = "fulfilled" => t.value \in Final BY <1>3 DEF MayFinish
    <3>4. ASSUME t.fate \in Promise(g), ~t.again
          PROVE  /\ g.prom[t.fate].state = t.state /\ g.prom[t.fate].value = t.value
                 /\ t.at = Later(t.fateAt + 1, g.prom[t.fate].at) + 1
      <4>1. s.fate # p
        <5>1. \A x \in Promise(h) : x \in Int BY <1>0, Parts
        <5>2. s.fate \in Int BY <1>3, <3>1, <3>4, <5>1
        <5> QED BY <3>2, <5>2, ValuesAssumption, <1>0, <5>1
      <4>2. /\ h.prom[s.fate].state = how /\ h.prom[s.fate].value = v
            /\ h.gen = Later(s.fateAt + 1, h.prom[s.fate].at) + 1
        BY <1>3, <3>1, <3>4 DEF MayFinish
      <4>3. g.prom[s.fate] = h.prom[s.fate] BY <1>3, <3>1, <3>4, <4>1
      <4> QED BY <1>3, <3>1, <4>2, <4>3
    <3>5. t.at <= g.gen /\ t.fateAt <= g.gen
      <4>1. h.gen \in Nat BY <1>0, Parts
      <4> QED BY <1>3, <3>1, <3>2, <4>1
    <3> HIDE DEF s
    <3>6. /\ t.cbs = <<>> /\ t.fate \in (Promise(g) \ {p}) \cup Thenable \cup {Undef}
          /\ t.again => t.fate # Undef
          /\ ~t.again => OnePlace(g, st, OfPromise, p)
          /\ t.cap /\ t.fate = Undef => NoPlace(g, st, OfPromise, p)
      BY <1>3, <1>4, <3>1, <3>2
    <3> QED BY <2>2, <3>3, <3>4, <3>5, <3>6 DEF PromOK
  <2> QED BY <2>1, <2>2
<1>13. InOrderAll(g)
  <2> SUFFICES ASSUME NEW q \in Promise(h) PROVE InOrder(g, q) BY <1>3 DEF InOrderAll
  <2>0. InOrder(h, q) BY DEF Core, InOrderAll
  <2>1. CASE q = p BY <1>0, <2>0, <2>1, SettleOrder
  <2>2. CASE q # p
    <3>1. SameJobs(h, g, q)
      <4>1. \A i \in DOMAIN h.queue : i \in DOMAIN g.queue /\ g.queue[i] = h.queue[i] BY <1>s
      <4>2. \A i \in DOMAIN c : ~IsReactionOf(g.queue[n + i], q)
        <5> SUFFICES ASSUME NEW i \in DOMAIN c PROVE ~IsReactionOf(g.queue[n + i], q) OBVIOUS
        <5>1. g.queue[n + i] = ReactionJob(h.gen, p, c[i], how, v) BY <1>s
        <5> QED BY <2>2, <5>1 DEF IsReactionOf, ReactionJob
      <4>3. \A i \in DOMAIN g.queue : i \notin DOMAIN h.queue => ~IsReactionOf(g.queue[i], q)
        BY <1>s, <1>s, <4>2
      <4> QED BY <4>1, <4>3 DEF SameJobs
    <3> QED BY <1>3, <2>0, <2>2, <3>1, InOrderKept DEF StateKept
  <2> QED BY <2>1, <2>2
<1>14. CombsOK(g, st)
  <2> SUFFICES ASSUME NEW k \in DOMAIN h.combs PROVE CombOK(g, st, k) BY <1>3 DEF CombsOK
  <2>1. CombOK(h, st, k) BY DEF Core, CombsOK
  <2> DEFINE o == h.combs[k].out
  <2>2. RightsKept(h.prom[o], g.prom[o]) /\ FateKept(h.prom[o], g.prom[o])
    BY <1>3, <2>1, Zenon DEF CombOK, RightsKept, FateKept
  <2>3. IsRequest(g, o) <=> IsRequest(h, o) BY <1>3 DEF IsRequest
  <2> QED BY <1>3, <1>4, <2>1, <2>2, <2>3 DEF CombOK, RightsKept, FateKept
<1>15. GensOK(g, st)
  <2> SUFFICES ASSUME NEW k \in DOMAIN h.ags PROVE GenOK(g, st, k) BY <1>3 DEF GensOK
  <2>1. GenOK(h, st, k) BY DEF Core, GensOK
  <2> QED BY <1>3, <1>4, <2>1, Zenon DEF GenOK
<1>16. RequestsOK(g, st)
  <2> SUFFICES ASSUME NEW k \in DOMAIN h.ags, NEW i \in DOMAIN h.ags[k].q
               PROVE  /\ Owned(g, h.ags[k].q[i].p) /\ NoPlace(g, st, OfPromise, h.ags[k].q[i].p)
                      /\ \A l \in DOMAIN h.ags : \A j \in DOMAIN h.ags[l].q : h.ags[l].q[j].p = h.ags[k].q[i].p => l = k /\ j = i
    BY <1>3 DEF RequestsOK
  <2>1. /\ Owned(h, h.ags[k].q[i].p) /\ NoPlace(h, st, OfPromise, h.ags[k].q[i].p)
        /\ \A l \in DOMAIN h.ags : \A j \in DOMAIN h.ags[l].q : h.ags[l].q[j].p = h.ags[k].q[i].p => l = k /\ j = i
    BY DEF Core, RequestsOK
  <2>2. h.ags[k].q[i].p # p BY <1>0 DEF IsRequest
  <2>3. Owned(g, h.ags[k].q[i].p) BY <1>3, <2>1, <2>2, Zenon DEF Owned
  <2> QED BY <1>4, <2>1, <2>3
<1>17. Gens(g)
  <2>0. /\ \A i \in 1 .. n : h.gen <= h.queue[i].gen /\ h.queue[i].gen <= h.gen + 1 /\ h.queue[i].gen \in Nat
        /\ \A i, j \in 1 .. n : i < j => h.queue[i].gen <= h.queue[j].gen
    <3>1. \A i \in 1 .. n : h.queue[i].gen \in Nat
      <4>1. \A i \in 1 .. n : h.queue[i] \in JobRec BY <1>0, <1>s, Parts
      <4> QED BY <4>1 DEF JobRec
    <3> QED BY <1>s, <3>1 DEF Core, Gens
  <2>1. h.gen \in Nat BY <1>0, Parts
  <2>2. \A i \in DOMAIN c : g.queue[n + i].gen = h.gen + 1
    <3> SUFFICES ASSUME NEW i \in DOMAIN c PROVE g.queue[n + i].gen = h.gen + 1 OBVIOUS
    <3>1. g.queue[n + i] = ReactionJob(h.gen, p, c[i], how, v) BY <1>s
    <3> QED BY <3>1 DEF ReactionJob
  <2>3. \A i \in DOMAIN g.queue : i \in Int /\ ((i \in 1 .. n /\ g.queue[i].gen = h.queue[i].gen) \/ (i > n /\ g.queue[i].gen = h.gen + 1))
    <3> SUFFICES ASSUME NEW i \in DOMAIN g.queue
                 PROVE  i \in Int /\ ((i \in 1 .. n /\ g.queue[i].gen = h.queue[i].gen) \/ (i > n /\ g.queue[i].gen = h.gen + 1))
      OBVIOUS
    <3>1. CASE i \in 1 .. n BY <1>s, <1>s, <3>1
    <3>2. CASE i - n \in DOMAIN c /\ i = n + (i - n) /\ i > n
      <4>1. g.queue[i].gen = h.gen + 1 BY <2>2, <3>2
      <4> QED BY <1>s, <3>2, <4>1
    <3> QED BY <1>s, <3>1, <3>2
  <2> HIDE DEF n, c
  <2>4. n \in Nat BY <1>s
  <2>5. \A i \in DOMAIN g.queue : g.gen <= g.queue[i].gen /\ g.queue[i].gen <= g.gen + 1
    BY <1>3, <2>0, <2>1, <2>3
  <2>6. \A i, j \in DOMAIN g.queue : i < j => g.queue[i].gen <= g.queue[j].gen
    BY <2>0, <2>1, <2>3, <2>4
  <2> QED BY <2>5, <2>6 DEF Gens
<1> QED BY <1>5, <1>10, <1>11, <1>12, <1>13, <1>14, <1>15, <1>16, <1>17 DEF Core

-----------------------------------------------------------------------------
(* What does not touch the reactions and the jobs.                         *)

\* What is not there goes on nowhere.
LEMMA Fresh ==
  ASSUME NEW h, NEW st, Core(h, st), NEW p, p \notin Promise(h)
  PROVE  NoPlace(h, st, OfPromise, p) /\ ~IsRequest(h, p) /\ ~IsOut(h, p)
<1>0. h \in Heap /\ FramesOK(h, st) /\ JobsOK(h) /\ WaitOK(h) /\ CombsOK(h, st) /\ RequestsOK(h, st) BY DEF Core
<1>1. NoneRuns(st, OfPromise, p)
  <2> SUFFICES ASSUME NEW i \in DOMAIN st, FrameGoes(st[i], OfPromise, p) PROVE FALSE BY DEF NoneRuns
  <2>1. FrameIsTyped(h, st[i]) BY <1>0 DEF FramesOK, FrameOK
  <2>2. st[i].kind \in {"async", "handler", "finally"} /\ st[i].p = p
    BY <2>1 DEF FrameGoes, FrameIsTyped, OfPromise
  <2> QED BY <2>1, <2>2 DEF FrameIsTyped
<1>2. NoneQueued(h, OfPromise, p)
  <2> SUFFICES ASSUME NEW i \in DOMAIN h.queue, JobGoes(h.queue[i], OfPromise, p) PROVE FALSE BY DEF NoneQueued
  <2>1. JobOK(h, h.queue[i]) BY <1>0 DEF JobsOK
  <2>2. CASE h.queue[i].kind = "adopt" BY <2>1, <2>2 DEF JobGoes, JobOK
  <2>3. CASE h.queue[i].kind = "reaction"
    <3>1. ReactionOK(h, h.queue[i].p, h.queue[i].r) BY <2>1, <2>3 DEF JobOK
    <3>2. h.queue[i].r.kind \in OfPromise /\ h.queue[i].r.to = p BY <2>3 DEF JobGoes, GoesOn
    <3> QED BY <3>1, <3>2 DEF ReactionOK, Owned, OfPromise, ReactionRec
  <2> QED BY <2>2, <2>3 DEF JobGoes
<1>3. NoneWaits(h, OfPromise, p)
  <2> SUFFICES ASSUME NEW q \in DOMAIN h.prom, NEW i \in DOMAIN h.prom[q].cbs, GoesOn(h.prom[q].cbs[i], OfPromise, p)
               PROVE  FALSE
    BY DEF NoneWaits
  <2>1. ReactionOK(h, q, h.prom[q].cbs[i]) BY <1>0 DEF WaitOK, Promise
  <2> QED BY <2>1 DEF GoesOn, ReactionOK, Owned, OfPromise, ReactionRec
<1>4. ~IsRequest(h, p) BY <1>0 DEF IsRequest, RequestsOK, Owned
<1>5. ~IsOut(h, p) BY <1>0 DEF IsOut, CombsOK, CombOK
<1> QED BY <1>1, <1>2, <1>3, <1>4, <1>5 DEF NoPlace

LEMMA NotServing ==
  ASSUME NEW h, NEW st, Core(h, st), NEW k, ~Serving(h, k)
  PROVE  NoPlace(h, st, OfGen, k)
<1>0. h \in Heap /\ FramesOK(h, st) /\ JobsOK(h) /\ WaitOK(h) BY DEF Core
<1>1. NoneRuns(st, OfGen, k)
  <2> SUFFICES ASSUME NEW i \in DOMAIN st, FrameGoes(st[i], OfGen, k) PROVE FALSE BY DEF NoneRuns
  <2>1. FrameOK(h, st[i]) BY <1>0 DEF FramesOK
  <2>2. st[i].kind \in {"agen", "agclose"} /\ st[i].p = k
    BY <2>1 DEF FrameGoes, FrameOK, FrameIsTyped, OfGen
  <2> QED BY <2>1, <2>2 DEF FrameOK
<1>2. NoneQueued(h, OfGen, k)
  <2> SUFFICES ASSUME NEW i \in DOMAIN h.queue, JobGoes(h.queue[i], OfGen, k) PROVE FALSE BY DEF NoneQueued
  <2>1. JobOK(h, h.queue[i]) BY <1>0 DEF JobsOK
  <2>2. h.queue[i].kind = "reaction" /\ GoesOn(h.queue[i].r, OfGen, k) BY DEF JobGoes, OfGen
  <2>3. ReactionOK(h, h.queue[i].p, h.queue[i].r) BY <2>1, <2>2 DEF JobOK
  <2> QED BY <2>2, <2>3 DEF GoesOn, ReactionOK, OfGen, ReactionRec
<1>3. NoneWaits(h, OfGen, k)
  <2> SUFFICES ASSUME NEW q \in DOMAIN h.prom, NEW i \in DOMAIN h.prom[q].cbs, GoesOn(h.prom[q].cbs[i], OfGen, k)
               PROVE  FALSE
    BY DEF NoneWaits
  <2>1. ReactionOK(h, q, h.prom[q].cbs[i]) BY <1>0 DEF WaitOK, Promise
  <2> QED BY <2>1 DEF GoesOn, ReactionOK, OfGen, ReactionRec
<1> QED BY <1>1, <1>2, <1>3 DEF NoPlace

\* No reaction and no job changes; what is new has none.
Quiet(h, g) ==
  /\ g.queue = h.queue /\ g.gen = h.gen
  /\ \A q \in Promise(h) :
       /\ q \in Promise(g) /\ g.prom[q].cbs = h.prom[q].cbs
       /\ g.prom[q].reg = h.prom[q].reg /\ g.prom[q].ran = h.prom[q].ran
       /\ StateKept(h.prom[q], g.prom[q]) /\ FateKept(h.prom[q], g.prom[q])
  /\ \A q \in Promise(g) : q \notin Promise(h) =>
       g.prom[q] = NewPromise \/ g.prom[q] = [NewPromise EXCEPT !.cap = TRUE]

LEMMA NewParts ==
  ASSUME NEW s, s = NewPromise \/ s = [NewPromise EXCEPT !.cap = TRUE]
  PROVE  /\ s.state = "pending" /\ s.cbs = <<>> /\ s.reg = 0 /\ s.ran = 0 /\ s.fate = Undef /\ s.fateAt = 0 /\ s.at = 0
         /\ s.again = FALSE
BY DEF NewPromise

LEMMA QuietPlaces ==
  ASSUME NEW h \in Heap, NEW g \in Heap, Quiet(h, g), NEW st, NEW K, NEW x
  PROVE  /\ NoPlace(g, st, K, x) <=> NoPlace(h, st, K, x)
         /\ OnePlace(h, st, K, x) => OnePlace(g, st, K, x)
<1>1. \A q \in Promise(g) : q \notin Promise(h) => g.prom[q].cbs = <<>> BY NewParts DEF Quiet
<1>2. g.queue = h.queue /\ \A q \in Promise(h) : q \in Promise(g) /\ g.prom[q].cbs = h.prom[q].cbs BY DEF Quiet
<1> QED BY <1>1, <1>2, PlacesSame

LEMMA QuietFollows ==
  ASSUME NEW h \in Heap, NEW g \in Heap, Quiet(h, g), NEW P, Follows(h, P),
         \A q \in Promise(h) : h.prom[q].fate \in Promise(g) => h.prom[q].fate \in Promise(h)
  PROVE  Follows(g, P)
<1> SUFFICES ASSUME NEW p \in Promise(g) \ P, g.prom[p].state = "pending", g.prom[p].fate \in Promise(g)
             PROVE  Followed(g, p, g.prom[p].fate)
  BY DEF Follows
<1>1. p \in Promise(h)
  <2> SUFFICES ASSUME p \notin Promise(h) PROVE FALSE OBVIOUS
  <2>1. g.prom[p].fate = Undef BY NewParts DEF Quiet
  <2>2. \A x \in Promise(g) : x \in Int BY Parts
  <2> QED BY <2>1, <2>2, ValuesAssumption
<1>2. g.prom[p].state = h.prom[p].state /\ g.prom[p].fate = h.prom[p].fate BY <1>1 DEF Quiet, StateKept, FateKept
<1> DEFINE x == h.prom[p].fate
<1>3. x \in Promise(h) BY <1>1, <1>2
<1>4. Followed(h, p, x) BY <1>1, <1>2, <1>3 DEF Follows
<1>5. g.queue = h.queue /\ g.prom[x].cbs = h.prom[x].cbs BY <1>3 DEF Quiet
<1> HIDE DEF x
<1>6. Followed(g, p, x) BY <1>4, <1>5 DEF Followed
<1> QED BY <1>2, <1>6 DEF x

LEMMA QuietCore ==
  ASSUME NEW h, NEW g \in Heap, NEW st, Core(h, st), Quiet(h, g), Undisturbed(h, st, g),
         \A q \in Promise(h) : PromOK(g, st, q) \/ RightsKept(h.prom[q], g.prom[q]),
         CombsOK(g, st), GensOK(g, st), RequestsOK(g, st)
  PROVE  Core(g, st)
<1>0. h \in Heap /\ FramesOK(h, st) /\ JobsOK(h) /\ WaitOK(h) /\ PromisesOK(h, st) /\ InOrderAll(h) /\ Gens(h)
  BY DEF Core
<1>1. World(h, g) BY DEF Undisturbed
<1>2. \A K, x : /\ NoPlace(g, st, K, x) <=> NoPlace(h, st, K, x)
                /\ OnePlace(h, st, K, x) => OnePlace(g, st, K, x)
  BY <1>0, QuietPlaces
<1>3. /\ g.queue = h.queue /\ g.gen = h.gen
      /\ \A q \in Promise(h) :
           /\ q \in Promise(g) /\ g.prom[q].cbs = h.prom[q].cbs
           /\ g.prom[q].reg = h.prom[q].reg /\ g.prom[q].ran = h.prom[q].ran
           /\ StateKept(h.prom[q], g.prom[q]) /\ FateKept(h.prom[q], g.prom[q])
      /\ \A q \in Promise(g) : q \notin Promise(h) =>
           g.prom[q] = NewPromise \/ g.prom[q] = [NewPromise EXCEPT !.cap = TRUE]
  BY DEF Quiet
<1>4. DOMAIN <<>> = {} OBVIOUS
<1>5. FramesOK(g, st) BY <1>0, AllKept
<1>6. JobsOK(g) BY <1>0, <1>3, AllKept DEF JobsOK
<1>7. WaitOK(g)
  <2> SUFFICES ASSUME NEW q \in Promise(g), NEW i \in DOMAIN g.prom[q].cbs PROVE ReactionOK(g, q, g.prom[q].cbs[i])
    BY DEF WaitOK
  <2>1. q \in Promise(h)
    <3> SUFFICES ASSUME q \notin Promise(h) PROVE FALSE OBVIOUS
    <3>1. g.prom[q].cbs = <<>> BY <1>3, NewParts
    <3> QED BY <1>4, <3>1
  <2>2. g.prom[q].cbs = h.prom[q].cbs BY <1>3, <2>1
  <2> QED BY <1>0, <2>1, <2>2, AllKept DEF WaitOK
<1>8. PromisesOK(g, st)
  <2> SUFFICES ASSUME NEW q \in Promise(g) PROVE PromOK(g, st, q) BY DEF PromisesOK
  <2>1. CASE q \in Promise(h)
    <3>1. PromOK(h, st, q) BY <1>0, <2>1 DEF PromisesOK
    <3> SUFFICES ASSUME RightsKept(h.prom[q], g.prom[q]) PROVE PromOK(g, st, q) BY <2>1
    <3>2. StateKept(h.prom[q], g.prom[q]) /\ FateKept(h.prom[q], g.prom[q]) /\ g.prom[q].cbs = h.prom[q].cbs
      BY <1>3, <2>1
    <3> QED BY <1>0, <1>1, <1>2, <2>1, <3>1, <3>2, PromKept
  <2>2. CASE q \notin Promise(h)
    <3> DEFINE s == g.prom[q]
    <3>1. /\ s.state = "pending" /\ s.fate = Undef /\ s.fateAt = 0 /\ s.at = 0 /\ s.again = FALSE
      BY <1>3, <2>2, NewParts
    <3>2. NoPlace(g, st, OfPromise, q) BY <1>2, <2>2, Fresh
    <3>3. OnePlace(g, st, OfPromise, q)
      BY <3>2 DEF NoPlace, OnePlace, NoneRuns, NoneQueued, NoneWaits, OneRuns, OneQueued, OneWaits
    <3>4. g.gen \in Nat BY Parts
    <3>5. Undef \notin Promise(g)
      <4>1. \A x \in Promise(g) : x \in Int BY Parts
      <4> QED BY <4>1, ValuesAssumption
    <3> HIDE DEF s
    <3>6. 0 <= g.gen BY <3>4
    <3> QED BY <3>1, <3>2, <3>3, <3>5, <3>6 DEF PromOK, s
  <2> QED BY <2>1, <2>2
<1>9. InOrderAll(g)
  <2> SUFFICES ASSUME NEW q \in Promise(g) PROVE InOrder(g, q) BY DEF InOrderAll
  <2>1. CASE q \in Promise(h)
    <3>1. SameJobs(h, g, q) BY <1>3 DEF SameJobs
    <3>2. InOrder(h, q) BY <1>0, <2>1 DEF InOrderAll
    <3> QED BY <1>3, <2>1, <3>1, <3>2, InOrderKept
  <2>2. CASE q \notin Promise(h)
    <3>1. g.prom[q].reg = 0 /\ g.prom[q].ran = 0 /\ g.prom[q].cbs = <<>> BY <1>3, <2>2, NewParts
    <3>2. \A i \in DOMAIN g.queue : ~IsReactionOf(g.queue[i], q) BY <1>0, <1>3, <2>2 DEF JobsOK, JobOK, IsReactionOf
    <3>3. Len(<<>>) = 0 /\ 0 - 0 = 0 /\ 0 \in 0 .. 0 /\ 0 + 1 .. 0 = {} OBVIOUS
    <3> QED BY <1>4, <3>1, <3>2, <3>3 DEF InOrder
  <2> QED BY <2>1, <2>2
<1>10. Gens(g) BY <1>0, <1>3 DEF Gens
<1> QED BY <1>5, <1>6, <1>7, <1>8, <1>9, <1>10 DEF Core


-----------------------------------------------------------------------------
(* Something more goes on: a reaction or the job of an adoption, of kind kd *)
(* and with goal t.                                                        *)

MayJoin(h, g, st, kd, t) ==
  /\ kd \in OfPromise =>
       /\ t \in Promise(h) /\ (NoPlace(h, st, OfPromise, t) \/ h.prom[t].again)
       /\ ~(h.prom[t].cap /\ g.prom[t].fate = Undef) /\ ~IsRequest(h, t) /\ ~IsOut(h, t)
  /\ kd \in OfGen => NoPlace(h, st, OfGen, t)

Joins(h, g, st, kd, t) ==
  \A K, x : /\ NoPlace(h, st, K, x) /\ ~(kd \in K /\ t = x) => NoPlace(g, st, K, x)
            /\ OnePlace(h, st, K, x) /\ (~(kd \in K /\ t = x) \/ NoPlace(h, st, K, x)) => OnePlace(g, st, K, x)

LEMMA RequestsKept ==
  ASSUME NEW h, NEW g, NEW st, NEW sg, RequestsOK(h, st), g.ags = h.ags,
         \A p : IsRequest(h, p) /\ Owned(h, p) /\ NoPlace(h, st, OfPromise, p) => Owned(g, p) /\ NoPlace(g, sg, OfPromise, p)
  PROVE  RequestsOK(g, sg)
<1> SUFFICES ASSUME NEW k \in DOMAIN h.ags, NEW i \in DOMAIN h.ags[k].q
             PROVE  /\ Owned(g, h.ags[k].q[i].p) /\ NoPlace(g, sg, OfPromise, h.ags[k].q[i].p)
                    /\ \A l \in DOMAIN h.ags : \A j \in DOMAIN h.ags[l].q : h.ags[l].q[j].p = h.ags[k].q[i].p => l = k /\ j = i
  BY DEF RequestsOK
<1>1. /\ Owned(h, h.ags[k].q[i].p) /\ NoPlace(h, st, OfPromise, h.ags[k].q[i].p)
      /\ \A l \in DOMAIN h.ags : \A j \in DOMAIN h.ags[l].q : h.ags[l].q[j].p = h.ags[k].q[i].p => l = k /\ j = i
  BY DEF RequestsOK
<1>2. IsRequest(h, h.ags[k].q[i].p) BY DEF IsRequest
<1> QED BY <1>1, <1>2

LEMMA JoinsKeep ==
  ASSUME NEW h, NEW g \in Heap, NEW st, Core(h, st), NEW p \in Promise(h), NEW kd, NEW t,
         Undisturbed(h, st, g), g.combs = h.combs, g.ags = h.ags,
         OthersKept(h, g, p), StateKept(h.prom[p], g.prom[p]), RightsKept(h.prom[p], g.prom[p]),
         h.prom[p].cbs = <<>> => g.prom[p].cbs = <<>> \/ h.prom[p].state = "pending",
         FateKept(h.prom[p], g.prom[p]) \/ (~IsRequest(h, p) /\ ~IsOut(h, p)),
         Joins(h, g, st, kd, t), MayJoin(h, g, st, kd, t)
  PROVE  /\ CombsOK(g, st) /\ GensOK(g, st) /\ RequestsOK(g, st)
         /\ \A q \in Promise(h) : FateKept(h.prom[q], g.prom[q]) => PromOK(g, st, q)
<1>0. h \in Heap /\ PromisesOK(h, st) /\ CombsOK(h, st) /\ GensOK(h, st) /\ RequestsOK(h, st) BY DEF Core
<1>1. World(h, g) BY DEF Undisturbed
<1>2. Promise(g) = Promise(h) /\ \A q \in Promise(h) : q # p => g.prom[q] = h.prom[q] BY DEF OthersKept
<1>3. \A q \in Promise(h) : StateKept(h.prom[q], g.prom[q]) /\ RightsKept(h.prom[q], g.prom[q])
                            /\ (h.prom[q].cbs = <<>> => g.prom[q].cbs = <<>> \/ h.prom[q].state = "pending")
                            /\ (q # p => FateKept(h.prom[q], g.prom[q]))
  BY <1>2 DEF StateKept, RightsKept, FateKept
<1>4. ASSUME NEW q, NoPlace(h, st, OfPromise, q), IsRequest(h, q) \/ IsOut(h, q) PROVE NoPlace(g, st, OfPromise, q)
  BY <1>4 DEF Joins, MayJoin
<1>5. CombsOK(g, st)
  <2> SUFFICES ASSUME NEW k \in DOMAIN h.combs PROVE CombOK(g, st, k) BY DEF CombsOK
  <2> DEFINE o == h.combs[k].out
  <2>1. CombOK(h, st, k) BY <1>0 DEF CombsOK
  <2>2. /\ o \in Promise(h) /\ ~h.prom[o].cap /\ ~h.prom[o].again /\ h.prom[o].fate = Undef
        /\ NoPlace(h, st, OfPromise, o) /\ ~IsRequest(h, o)
    BY <2>1 DEF CombOK
  <2>3. IsOut(h, o) BY DEF IsOut
  <2>4. NoPlace(g, st, OfPromise, o) BY <1>4, <2>2, <2>3
  <2>5. FateKept(h.prom[o], g.prom[o]) BY <1>3, <2>2, <2>3
  <2>6. ~IsRequest(g, o) BY <2>2 DEF IsRequest
  <2> QED BY <1>2, <1>3, <2>2, <2>4, <2>5, <2>6 DEF CombOK, RightsKept, FateKept
<1>6. GensOK(g, st)
  <2> SUFFICES ASSUME NEW k \in DOMAIN h.ags PROVE GenOK(g, st, k) BY DEF GensOK
  <2>1. GenOK(h, st, k) BY ONLY <1>0 DEF GensOK
  <2>2. OnePlace(h, st, OfGen, k) BY <2>1 DEF GenOK
  <2>3. OnePlace(g, st, OfGen, k) BY <2>2 DEF Joins, MayJoin
  <2> QED BY <1>2, <2>1, <2>3, Zenon DEF GenOK
<1>7. RequestsOK(g, st)
  <2>1. ASSUME NEW q, IsRequest(h, q), Owned(h, q), NoPlace(h, st, OfPromise, q)
        PROVE  Owned(g, q) /\ NoPlace(g, st, OfPromise, q)
    <3>1. NoPlace(g, st, OfPromise, q) BY <1>4, <2>1
    <3>2. q \in Promise(h) BY <2>1 DEF Owned
    <3>3. FateKept(h.prom[q], g.prom[q]) BY <1>3, <2>1, <3>2
    <3>4. Owned(g, q) BY <1>2, <1>3, <2>1, <3>2, <3>3 DEF Owned, StateKept, RightsKept, FateKept
    <3> QED BY <3>1, <3>4
  <2> QED BY <1>0, <2>1, RequestsKept
<1>8. ASSUME NEW q \in Promise(h), FateKept(h.prom[q], g.prom[q]) PROVE PromOK(g, st, q)
  <2>1. PromOK(h, st, q) BY <1>0 DEF PromisesOK
  <2>2. ~h.prom[q].again /\ OnePlace(h, st, OfPromise, q) => OnePlace(g, st, OfPromise, q)
    BY DEF Joins, MayJoin
  <2>3. h.prom[q].cap /\ h.prom[q].fate = Undef /\ NoPlace(h, st, OfPromise, q) => NoPlace(g, st, OfPromise, q)
    BY <1>8 DEF Joins, MayJoin, FateKept
  <2> QED BY <1>0, <1>1, <1>3, <1>8, <2>1, <2>2, <2>3, PromKept
<1> QED BY <1>5, <1>6, <1>7, <1>8


LEMMA OrderWaits ==
  ASSUME NEW h \in Heap, NEW g \in Heap, NEW p \in Promise(h), NEW m \in ReactionRec, m.n = h.prom[p].reg + 1,
         Waits(h, g, p, m), InOrder(h, p)
  PROVE  InOrder(g, p)
<1> DEFINE c == h.prom[p].cbs
           d == g.prom[p].cbs
           l == Len(c)
           reg == h.prom[p].reg
           Qd == {i \in DOMAIN h.queue : IsReactionOf(h.queue[i], p)}
<1>1. c \in Seq(ReactionRec) /\ l \in Nat /\ reg \in Nat /\ h.prom[p].ran \in Nat BY Parts, PromiseParts
<1>2. g.queue = h.queue /\ g.prom[p].reg = reg + 1 /\ d = Append(c, m) /\ g.prom[p].ran = h.prom[p].ran
      /\ StateKept(h.prom[p], g.prom[p])
  BY DEF Waits
<1>3. /\ Len(d) = l + 1 /\ DOMAIN d = 1 .. l + 1 /\ DOMAIN c = 1 .. l /\ d[l + 1] = m
      /\ \A i \in 1 .. l : d[i] = c[i]
  <2> HIDE DEF c, d
  <2> QED BY <1>1, <1>2, Appended, Indices
<1>4. reg + 1 - Len(d) = reg - l
  <2> HIDE DEF c, d, l, reg
  <2> QED BY <1>1, <1>3
<1>5. \A i \in DOMAIN c : c[i].n = (reg - l) + i BY DEF InOrder
<1>6. \A i \in DOMAIN d : d[i].n = (reg - l) + i
  <2>1. m.n = reg + 1 OBVIOUS
  <2>2. reg + 1 = (reg - l) + (l + 1)
    <3> HIDE DEF reg, l
    <3> QED BY <1>1
  <2>3. \A i \in 1 .. l + 1 : i \in 1 .. l \/ i = l + 1
    <3> HIDE DEF reg, l
    <3> QED BY <1>1
  <2> HIDE DEF c, d, l, reg
  <2> QED BY <1>3, <1>5, <2>1, <2>2, <2>3
<1> DEFINE last == reg - l
<1>7. /\ h.prom[p].ran \in 0 .. last
      /\ \A n \in h.prom[p].ran + 1 .. last : \E i \in Qd : h.queue[i].r.n = n
      /\ \A i \in Qd : LET j == h.queue[i] IN
           j.r.n \in h.prom[p].ran + 1 .. last /\ j.x = h.prom[p].value
           /\ h.prom[p].state = (IF j.ok THEN "fulfilled" ELSE "rejected")
      /\ \A i, j \in Qd : i < j => h.queue[i].r.n < h.queue[j].r.n
  BY DEF InOrder
<1>8. g.prom[p].reg - Len(g.prom[p].cbs) = last /\ \A i \in DOMAIN g.prom[p].cbs : g.prom[p].cbs[i].n = last + i
  <2>1. Len(d) \in Nat /\ g.prom[p].reg = reg + 1 /\ reg \in Nat /\ l \in Nat BY <1>1, <1>2, <1>3
  <2>2. g.prom[p].reg - Len(g.prom[p].cbs) = last
    <3> DEFINE e == Len(d)
               f == g.prom[p].reg
    <3>1. e \in Nat /\ f = reg + 1 /\ reg \in Nat /\ l \in Nat /\ reg + 1 - e = reg - l BY <1>4, <2>1
    <3> HIDE DEF l, e, reg, f
    <3>2. f - e = reg - l BY <3>1
    <3> QED BY <3>2 DEF e, f
  <2> QED BY <2>2, <1>6
<1>9. g.queue = h.queue /\ g.prom[p].ran = h.prom[p].ran
      /\ g.prom[p].value = h.prom[p].value /\ g.prom[p].state = h.prom[p].state
  BY <1>2 DEF StateKept
<1> HIDE DEF c, d, l, reg, last
<1> QED BY <1>7, <1>8, <1>9 DEF InOrder

LEMMA OrderQueues ==
  ASSUME NEW h \in Heap, NEW g \in Heap, NEW p \in Promise(h), NEW m \in ReactionRec, m.n = h.prom[p].reg + 1,
         Queues(h, g, p, m), h.prom[p].state # "pending", h.prom[p].cbs = <<>>, InOrder(h, p)
  PROVE  InOrder(g, p)
<1> DEFINE n == Len(h.queue)
           reg == h.prom[p].reg
           ran == h.prom[p].ran
           v == h.prom[p].value
           state == h.prom[p].state
           new == ReactionJob(h.gen, p, m, state, v)
           Qd(k) == {i \in DOMAIN k.queue : IsReactionOf(k.queue[i], p)}
<1>1. n \in Nat /\ reg \in Nat /\ ran \in Nat /\ DOMAIN h.queue = 1 .. n /\ h.queue \in Seq(JobRec)
      /\ state \in {"pending", "fulfilled", "rejected"}
  BY Parts, PromiseParts
<1>2. /\ g.queue = Append(h.queue, new) /\ g.prom[p].reg = reg + 1 /\ g.prom[p].cbs = <<>> /\ g.prom[p].ran = ran
      /\ g.prom[p].value = v /\ g.prom[p].state = state
  BY DEF Queues, StateKept
<1>3. new.kind = "reaction" /\ new.p = p /\ new.r = m /\ new.x = v /\ new.ok = (state = "fulfilled")
  BY DEF ReactionJob
<1>4. new \in JobRec
  <2>1. h.gen + 1 \in Nat /\ v \in Value /\ p \in Nat BY ONLY Parts, PromiseParts
  <2> QED BY <2>1 DEF ReactionJob, JobRec
<1>5. Len(<<>>) = 0 /\ DOMAIN <<>> = {} OBVIOUS
<1>6. /\ ran \in 0 .. reg
      /\ \A k \in ran + 1 .. reg : \E i \in Qd(h) : h.queue[i].r.n = k
      /\ \A i \in Qd(h) : /\ h.queue[i].r.n \in ran + 1 .. reg /\ h.queue[i].x = v
                          /\ state = (IF h.queue[i].ok THEN "fulfilled" ELSE "rejected")
      /\ \A i, j \in Qd(h) : i < j => h.queue[i].r.n < h.queue[j].r.n
  <2>1. reg - 0 = reg BY <1>1
  <2> QED BY <1>5, <2>1 DEF InOrder
<1> HIDE DEF n, new
<1>7. /\ DOMAIN g.queue = 1 .. n + 1 /\ g.queue[n + 1] = new /\ \A i \in 1 .. n : g.queue[i] = h.queue[i]
  BY <1>1, <1>2, <1>4, Appended DEF n
<1>8. \A i \in Qd(h) : i \in Qd(g) /\ i \in 1 .. n /\ g.queue[i] = h.queue[i] BY <1>1, <1>7
<1>9. n + 1 \in Qd(g) BY <1>1, <1>3, <1>7 DEF IsReactionOf
<1>10. \A i \in Qd(g) : i \in Qd(h) \/ i = n + 1 BY <1>1, <1>7
<1> DEFINE last == n + 1
<1>11. last \in Qd(g) /\ g.queue[last].r.n = reg + 1 /\ g.queue[last].x = v /\ last \in Nat
       /\ state = (IF g.queue[last].ok THEN "fulfilled" ELSE "rejected")
       /\ \A i \in 1 .. n : i < last
  <2>1. g.queue[last] = new /\ last \in Qd(g) BY <1>7, <1>9
  <2>2. last \in Nat /\ \A i \in 1 .. n : i < last BY <1>1
  <2> HIDE DEF last
  <2>3. g.queue[last].r = m /\ g.queue[last].x = v /\ g.queue[last].ok = (state = "fulfilled") BY <1>3, <2>1
  <2> HIDE DEF v, state, Qd
  <2>4. state = (IF g.queue[last].ok THEN "fulfilled" ELSE "rejected")
    <3>1. state \in {"fulfilled", "rejected"} BY <1>1 DEF state
    <3> QED BY <2>3, <3>1
  <2> QED BY <2>1, <2>2, <2>3, <2>4
<1>12. \A i \in Qd(g) : i \in Qd(h) \/ i = last BY <1>10
<1> HIDE DEF Qd, reg, ran, v, state, last
<1>13. ran \in 0 .. reg + 1 BY <1>1, <1>6
<1>14. \A k \in ran + 1 .. reg + 1 : \E i \in Qd(g) : g.queue[i].r.n = k
  <2> SUFFICES ASSUME NEW k \in ran + 1 .. reg + 1 PROVE \E i \in Qd(g) : g.queue[i].r.n = k OBVIOUS
  <2>1. CASE k = reg + 1 BY <1>11, <2>1
  <2>2. CASE k \in ran + 1 .. reg BY <1>6, <1>8, <2>2
  <2> QED BY <1>1, <2>1, <2>2
<1>15. \A i \in Qd(g) : /\ g.queue[i].r.n \in ran + 1 .. reg + 1 /\ g.queue[i].x = v
                        /\ state = (IF g.queue[i].ok THEN "fulfilled" ELSE "rejected")
  <2> SUFFICES ASSUME NEW i \in Qd(g)
               PROVE  /\ g.queue[i].r.n \in ran + 1 .. reg + 1 /\ g.queue[i].x = v
                      /\ state = (IF g.queue[i].ok THEN "fulfilled" ELSE "rejected")
    OBVIOUS
  <2>0. reg + 1 \in ran + 1 .. reg + 1 /\ \A k \in ran + 1 .. reg : k \in ran + 1 .. reg + 1 BY <1>1, <1>6
  <2>1. CASE i \in Qd(h) BY <1>6, <1>8, <2>0, <2>1
  <2>2. CASE i = last BY <1>11, <2>0, <2>2
  <2> QED BY <1>12, <2>1, <2>2
<1>16. \A i, j \in Qd(g) : i < j => g.queue[i].r.n < g.queue[j].r.n
  <2> SUFFICES ASSUME NEW i \in Qd(g), NEW j \in Qd(g), i < j PROVE g.queue[i].r.n < g.queue[j].r.n OBVIOUS
  <2>1. CASE i \in Qd(h) /\ j \in Qd(h) BY <1>6, <1>8, <2>1
  <2>2. CASE i \in Qd(h) /\ j = last
    <3>1. g.queue[i].r.n \in ran + 1 .. reg BY <1>6, <1>8, <2>2
    <3> QED BY <1>1, <1>11, <2>2, <3>1
  <2>3. CASE i = last
    <3>1. j \in 1 .. n \/ j = last BY <1>8, <1>12
    <3> QED BY <1>1, <1>11, <2>3, <3>1
  <2> QED BY <1>12, <2>1, <2>2, <2>3
<1>17. reg + 1 - 0 = reg + 1 BY <1>1
<1>18. g.prom[p].reg - Len(g.prom[p].cbs) = reg + 1 /\ DOMAIN g.prom[p].cbs = {} /\ g.prom[p].ran = ran
       /\ g.prom[p].value = v /\ g.prom[p].state = state
  <2>1. g.prom[p].reg = reg + 1 /\ g.prom[p].cbs = <<>> /\ g.prom[p].ran = ran
        /\ g.prom[p].value = v /\ g.prom[p].state = state
    BY <1>2
  <2>2. Len(g.prom[p].cbs) = 0 /\ DOMAIN g.prom[p].cbs = {} BY <2>1
  <2>3. reg \in Nat BY <1>1 DEF reg
  <2> QED BY <2>1, <2>2, <2>3
<1> QED BY <1>13, <1>14, <1>15, <1>16, <1>18 DEF InOrder, Qd


\* Reaction r may be registered on p.
MayGoOn(h, st, p, r) ==
  /\ p \in Promise(h) /\ ReactionOK(h, p, r)
  /\ r.kind \in OfPromise =>
       /\ NoPlace(h, st, OfPromise, r.to) \/ h.prom[r.to].again
       /\ ~IsRequest(h, r.to) /\ ~IsOut(h, r.to)
  /\ r.kind = "settle" /\ ~h.prom[r.to].again => h.gen = h.prom[r.to].fateAt + 1
  /\ r.kind \in OfGen => NoPlace(h, st, OfGen, r.to)

\* What promThen leaves alone.
ThenKeeps(h, g, p) ==
  /\ g.combs = h.combs /\ g.ags = h.ags /\ g.gen = h.gen
  /\ OthersKept(h, g, p) /\ FateKept(h.prom[p], g.prom[p]) /\ RightsKept(h.prom[p], g.prom[p])
  /\ StateKept(h.prom[p], g.prom[p])

LEMMA ThenUndisturbed ==
  ASSUME NEW h \in Heap, NEW g \in Heap, NEW st, NEW p \in Promise(h), ThenKeeps(h, g, p)
  PROVE  Undisturbed(h, st, g) /\ World(h, g)
<1>1. g.gen = h.gen /\ Promise(g) = Promise(h) /\ g.combs = h.combs /\ g.ags = h.ags
      /\ (\A q \in Promise(h) : q # p => g.prom[q] = h.prom[q])
      /\ FateKept(h.prom[p], g.prom[p]) /\ RightsKept(h.prom[p], g.prom[p]) /\ StateKept(h.prom[p], g.prom[p])
  BY DEF ThenKeeps, OthersKept
<1>2. World(h, g)
  <2>1. h.gen <= g.gen BY <1>1, Parts
  <2> QED BY <1>1, <2>1 DEF World, StateKept, RightsKept
<1>3. \A q \in Promise(h) : Kept(h, g, q) BY <1>1 DEF Kept, FateKept, RightsKept, StateKept, Owned
<1>4. \A k \in DOMAIN h.ags : KeptGen(h, g, k) BY <1>1 DEF KeptGen, Serving
<1> QED BY <1>2, <1>3, <1>4 DEF Undisturbed

LEMMA RenumberedOK ==
  ASSUME NEW h \in Heap, NEW p \in Promise(h), NEW r, ReactionOK(h, p, r), NEW n \in Nat, NEW m, m = [r EXCEPT !.n = n]
  PROVE  /\ m \in ReactionRec /\ m.n = n /\ m.kind = r.kind /\ m.to = r.to
         /\ ReactionOK(h, p, m)
<1>1. r \in ReactionRec BY DEF ReactionOK
<1>2. m \in ReactionRec /\ m.n = n /\ m.kind = r.kind /\ m.to = r.to BY <1>1, Numbered
<1> QED BY <1>2 DEF ReactionOK

LEMMA ThenPlaces ==
  ASSUME NEW h \in Heap, NEW g \in Heap, NEW st, NEW p \in Promise(h), NEW m \in ReactionRec,
         Waits(h, g, p, m) \/ Queues(h, g, p, m), NEW K, NEW x
  PROVE  /\ NoPlace(h, st, K, x) /\ ~(m.kind \in K /\ m.to = x) => NoPlace(g, st, K, x)
         /\ OnePlace(h, st, K, x) /\ (~(m.kind \in K /\ m.to = x) \/ NoPlace(h, st, K, x)) => OnePlace(g, st, K, x)
         /\ (m.kind \in K /\ m.to = x) \/ ~NoPlace(h, st, K, x) => ~NoPlace(g, st, K, x)
<1>0. GoesOn(m, K, x) <=> (m.kind \in K /\ m.to = x) BY DEF GoesOn
<1>1. CASE Waits(h, g, p, m) BY <1>0, <1>1, PlacesWaits
<1>2. CASE Queues(h, g, p, m)
  <2> DEFINE j == ReactionJob(h.gen, p, m, h.prom[p].state, h.prom[p].value)
  <2>1. JobGoes(j, K, x) <=> GoesOn(m, K, x) BY DEF JobGoes, ReactionJob
  <2>2. g.queue = Append(h.queue, j) /\ Promise(g) = Promise(h) /\ (\A q \in Promise(h) : g.prom[q].cbs = h.prom[q].cbs)
    BY <1>2 DEF Queues, OthersKept
  <2>3. j \in JobRec
    <3>1. h.gen + 1 \in Nat /\ h.prom[p].value \in Value /\ p \in Nat BY Parts, PromiseParts
    <3> QED BY <3>1 DEF ReactionJob, JobRec
  <2> HIDE DEF j
  <2> QED BY <1>0, <2>1, <2>2, <2>3, PlacesQueued
<1> QED BY <1>1, <1>2

LEMMA ThenCore ==
  ASSUME NEW h, NEW st, Core(h, st), NEW p, NEW r, MayGoOn(h, st, p, r),
         NEW g \in Heap, NEW m, m = [r EXCEPT !.n = h.prom[p].reg + 1],
         h.prom[p].state = "pending" => Waits(h, g, p, m),
         h.prom[p].state # "pending" => Queues(h, g, p, m)
  PROVE  Core(g, st) /\ ThenKeeps(h, g, p)
<1>0. /\ h \in Heap /\ JobsOK(h) /\ WaitOK(h) /\ PromisesOK(h, st) /\ InOrderAll(h) /\ Gens(h) /\ FramesOK(h, st)
      /\ p \in Promise(h) /\ ReactionOK(h, p, r)
  BY DEF Core, MayGoOn
<1>1. h.prom[p].reg \in Nat /\ h.prom[p].reg + 1 \in Nat BY <1>0, Parts, PromiseParts
<1>2. /\ m \in ReactionRec /\ m.n = h.prom[p].reg + 1 /\ m.kind = r.kind /\ m.to = r.to
      /\ ReactionOK(h, p, m)
  BY <1>0, <1>1, RenumberedOK
<1>3. ThenKeeps(h, g, p) BY DEF ThenKeeps, Waits, Queues
<1>4. Undisturbed(h, st, g) /\ World(h, g) BY <1>0, <1>3, ThenUndisturbed
<1>5. g.gen = h.gen /\ Promise(g) = Promise(h) /\ g.combs = h.combs /\ g.ags = h.ags
      /\ (\A q \in Promise(h) : q # p => g.prom[q] = h.prom[q])
      /\ FateKept(h.prom[p], g.prom[p]) /\ RightsKept(h.prom[p], g.prom[p]) /\ StateKept(h.prom[p], g.prom[p])
      /\ OthersKept(h, g, p)
  BY <1>3 DEF ThenKeeps, OthersKept
<1>6. PromOK(h, st, p) BY <1>0 DEF PromisesOK
<1>7. Joins(h, g, st, m.kind, m.to)
  <2>1. Waits(h, g, p, m) \/ Queues(h, g, p, m) OBVIOUS
  <2> SUFFICES ASSUME NEW K, NEW x
               PROVE  /\ NoPlace(h, st, K, x) /\ ~(m.kind \in K /\ m.to = x) => NoPlace(g, st, K, x)
                      /\ OnePlace(h, st, K, x) /\ (~(m.kind \in K /\ m.to = x) \/ NoPlace(h, st, K, x)) => OnePlace(g, st, K, x)
    BY DEF Joins
  <2>2. m \in ReactionRec BY <1>2
  <2> HIDE DEF Joins
  <2> QED BY ONLY <1>0, <2>1, <2>2, ThenPlaces, g \in Heap
<1>8. MayJoin(h, g, st, m.kind, m.to)
  <2>1. ASSUME m.kind \in OfPromise
        PROVE  /\ m.to \in Promise(h) /\ (NoPlace(h, st, OfPromise, m.to) \/ h.prom[m.to].again)
               /\ ~(h.prom[m.to].cap /\ g.prom[m.to].fate = Undef) /\ ~IsRequest(h, m.to) /\ ~IsOut(h, m.to)
    <3>1. (NoPlace(h, st, OfPromise, m.to) \/ h.prom[m.to].again) /\ ~IsRequest(h, m.to) /\ ~IsOut(h, m.to)
      BY <1>2, <2>1 DEF MayGoOn
    <3>2. m.kind \in {"then", "finally", "await", "settle"} BY <1>2, <2>1 DEF OfPromise, ReactionRec
    <3>3. m.to \in Promise(h) BY <1>2, <3>2 DEF ReactionOK, Owned
    <3>4. g.prom[m.to].fate = h.prom[m.to].fate BY <1>5, <3>3 DEF FateKept
    <3>5. CASE m.kind = "settle"
      <4>1. CASE h.prom[m.to].again
        <5>1. PromOK(h, st, m.to) BY <1>0, <3>3 DEF PromisesOK
        <5> QED BY <3>1, <3>3, <3>4, <4>1, <5>1 DEF PromOK
      <4>2. CASE ~h.prom[m.to].again
        <5>1. h.prom[m.to].fate = p BY <1>2, <3>5, <4>2 DEF ReactionOK
        <5>2. p # Undef
          <6>1. p \in Int BY <1>0, Parts
          <6> QED BY <6>1, ValuesAssumption
        <5> QED BY <3>1, <3>3, <3>4, <5>1, <5>2
      <4> QED BY <4>1, <4>2
    <3>6. CASE m.kind # "settle"
      <4>1. ~h.prom[m.to].cap BY <1>2, <3>2, <3>6 DEF ReactionOK, Owned
      <4> QED BY <3>1, <3>3, <4>1
    <3> QED BY <3>5, <3>6
  <2>2. m.kind \in OfGen => NoPlace(h, st, OfGen, m.to) BY <1>2 DEF MayGoOn
  <2> QED BY <2>1, <2>2 DEF MayJoin
<1>9. h.prom[p].cbs = <<>> => g.prom[p].cbs = <<>> \/ h.prom[p].state = "pending" BY DEF Queues
<1>10. CombsOK(g, st) /\ GensOK(g, st) /\ RequestsOK(g, st)
       /\ \A q \in Promise(h) : FateKept(h.prom[q], g.prom[q]) => PromOK(g, st, q)
  BY <1>0, <1>4, <1>5, <1>7, <1>8, <1>9, JoinsKeep
<1>11. PromisesOK(g, st)
  <2>1. \A q \in Promise(h) : FateKept(h.prom[q], g.prom[q]) BY <1>5 DEF FateKept
  <2> QED BY <1>5, <1>10, <2>1 DEF PromisesOK
<1>12. FramesOK(g, st) BY <1>0, <1>4, AllKept
<1>13. ReactionOK(g, p, m)
  <2>1. \A q \in Promise(h) : Kept(h, g, q) BY <1>5 DEF Kept, FateKept, RightsKept, StateKept, Owned
  <2>2. \A k : KeptGen(h, g, k) \/ k \notin DOMAIN h.ags BY <1>5 DEF KeptGen, Serving
  <2>3. m.kind \in OfPromise => Kept(h, g, m.to) BY <1>8, <2>1 DEF MayJoin
  <2>4. m.kind \in OfGen => KeptGen(h, g, m.to) BY <1>2, <2>2 DEF ReactionOK, OfGen, Serving, ReactionRec
  <2> QED BY <1>0, <1>2, <1>4, <2>3, <2>4, ReactionKept
<1>14. JobsOK(g) /\ WaitOK(g) /\ InOrderAll(g) /\ Gens(g)
  <2>w. CASE h.prom[p].state = "pending"
    <3>1. Waits(h, g, p, m) /\ g.queue = h.queue BY <2>w DEF Waits
    <3>2. JobsOK(g) BY <1>0, <1>4, <3>1, AllKept DEF JobsOK
    <3>3. Gens(g) BY <1>0, <1>5, <3>1 DEF Gens
    <3>4. InOrderAll(g)
      <4> SUFFICES ASSUME NEW q \in Promise(h) PROVE InOrder(g, q) BY <1>5 DEF InOrderAll
      <4>0. InOrder(h, q) BY <1>0 DEF InOrderAll
      <4>1. CASE q = p BY <1>0, <1>2, <3>1, <4>0, <4>1, OrderWaits
      <4>2. CASE q # p
        <5>1. SameJobs(h, g, q) BY <3>1 DEF SameJobs
        <5>2. g.prom[q] = h.prom[q] BY <1>5, <4>2
        <5> QED BY <4>0, <5>1, <5>2, InOrderKept DEF StateKept
      <4> QED BY <4>1, <4>2
    <3>5. WaitOK(g)
      <4> SUFFICES ASSUME NEW q \in Promise(h), NEW i \in DOMAIN g.prom[q].cbs PROVE ReactionOK(g, q, g.prom[q].cbs[i])
        BY <1>5 DEF WaitOK
      <4>1. CASE q # p
        <5>1. g.prom[q] = h.prom[q] BY <1>5, <4>1
        <5> QED BY <1>0, <1>4, <5>1, AllKept DEF WaitOK
      <4>2. CASE q = p
        <5> DEFINE c == h.prom[p].cbs
                   d == g.prom[p].cbs
                   l == Len(c)
        <5>1. c \in Seq(ReactionRec) /\ l \in Nat BY <1>0, Parts, PromiseParts
        <5>2. d = Append(c, m) BY <3>1 DEF Waits
        <5> HIDE DEF c, d
        <5>3. DOMAIN d = 1 .. l + 1 /\ DOMAIN c = 1 .. l /\ d[l + 1] = m /\ \A k \in 1 .. l : d[k] = c[k]
          BY <1>2, <5>1, <5>2, Appended, Indices
        <5> HIDE DEF l
        <5>4. i \in DOMAIN c \/ i = l + 1 BY <4>2, <5>1, <5>3 DEF d
        <5>5. CASE i \in DOMAIN c
          <6>1. d[i] = c[i] BY <5>3, <5>5
          <6>2. ReactionOK(h, p, c[i]) BY <1>0, <5>5 DEF WaitOK, c
          <6>3. ReactionOK(g, p, c[i]) BY <1>0, <1>4, <5>5, <6>2, AllKept DEF c
          <6> QED BY <4>2, <6>1, <6>3 DEF d
        <5>6. CASE i = l + 1 BY <1>13, <4>2, <5>3, <5>6 DEF d
        <5> QED BY <5>4, <5>5, <5>6
      <4> QED BY <4>1, <4>2
    <3> QED BY <3>2, <3>3, <3>4, <3>5
  <2>q. CASE h.prom[p].state # "pending"
    <3> DEFINE n == Len(h.queue)
               j == ReactionJob(h.gen, p, m, h.prom[p].state, h.prom[p].value)
    <3>0. n \in Nat /\ DOMAIN h.queue = 1 .. n /\ h.queue \in Seq(JobRec) /\ h.gen \in Nat /\ h.prom[p].value \in Value
          /\ p \in Nat /\ h.prom[p].state \in {"fulfilled", "rejected"}
      BY <1>0, <2>q, Parts, PromiseParts
    <3>1. /\ Queues(h, g, p, m) /\ g.queue = Append(h.queue, j) /\ h.prom[p].cbs = <<>>
          /\ \A q \in Promise(h) : g.prom[q].cbs = h.prom[q].cbs
      BY <1>5, <1>6, <2>q DEF Queues, PromOK
    <3>2. j.kind = "reaction" /\ j.p = p /\ j.r = m /\ j.ok = (h.prom[p].state = "fulfilled") /\ j.x = h.prom[p].value
          /\ j.gen = h.gen + 1
      BY DEF ReactionJob
    <3>3. j \in JobRec BY <1>2, <3>0 DEF ReactionJob, JobRec
    <3> HIDE DEF j
    <3>4. /\ DOMAIN g.queue = 1 .. n + 1 /\ g.queue[n + 1] = j /\ \A i \in 1 .. n : g.queue[i] = h.queue[i]
      BY <3>0, <3>1, <3>3, Appended
    <3> HIDE DEF n
    <3>5. \A i \in DOMAIN g.queue : i \in 1 .. n \/ i = n + 1 BY <3>0, <3>4
    <3>6. JobOK(g, j)
      <4>1. g.prom[p].state = (IF j.ok THEN "fulfilled" ELSE "rejected") /\ g.prom[p].value = j.x
        BY <1>5, <3>0, <3>2 DEF StateKept
      <4>2. ASSUME m.kind = "settle", ~g.prom[m.to].again
            PROVE  h.gen + 1 = Later(g.prom[m.to].fateAt + 1, g.prom[p].at) + 1
        <5>1. m.to \in Promise(h) BY <1>2, <4>2 DEF ReactionOK
        <5>2. ~h.prom[m.to].again /\ g.prom[m.to].fateAt = h.prom[m.to].fateAt
          BY <1>5, <4>2, <5>1 DEF RightsKept, FateKept
        <5>3. h.gen = g.prom[m.to].fateAt + 1 BY <1>2, <4>2, <5>2 DEF MayGoOn
        <5>4. g.prom[p].at <= h.gen BY <1>5, <1>6 DEF StateKept, PromOK
        <5>5. g.prom[p].at \in Nat BY <1>0, <1>5, Parts, PromiseParts
        <5> QED BY <3>0, <5>3, <5>4, <5>5 DEF Later
      <4> QED BY <1>0, <1>5, <1>13, <3>2, <3>3, <4>1, <4>2 DEF JobOK
    <3>7. JobsOK(g)
      <4>1. \A i \in 1 .. n : JobOK(g, g.queue[i]) BY <1>0, <1>4, <3>0, <3>4, AllKept DEF JobsOK
      <4> QED BY <3>4, <3>5, <3>6, <4>1 DEF JobsOK
    <3>8. WaitOK(g)
      <4> SUFFICES ASSUME NEW q \in Promise(h), NEW i \in DOMAIN g.prom[q].cbs PROVE ReactionOK(g, q, g.prom[q].cbs[i])
        BY <1>5 DEF WaitOK
      <4>1. g.prom[q].cbs = h.prom[q].cbs BY <3>1
      <4> QED BY <1>0, <1>4, <4>1, AllKept DEF WaitOK
    <3>9. Gens(g)
      <4>1. \A i \in 1 .. n : h.gen <= h.queue[i].gen /\ h.queue[i].gen <= h.gen + 1 BY <1>0, <3>0 DEF Gens
      <4>2. \A i, k \in 1 .. n : i < k => h.queue[i].gen <= h.queue[k].gen BY <1>0, <3>0 DEF Gens
      <4>3. \A i \in DOMAIN g.queue : g.gen <= g.queue[i].gen /\ g.queue[i].gen <= g.gen + 1
        BY <1>5, <3>0, <3>2, <3>4, <3>5, <4>1
      <4>4. ASSUME NEW i \in DOMAIN g.queue, NEW k \in DOMAIN g.queue, i < k
            PROVE  g.queue[i].gen <= g.queue[k].gen
        <5>1. CASE i \in 1 .. n /\ k \in 1 .. n BY <3>4, <4>2, <4>4, <5>1
        <5>2. CASE i \in 1 .. n /\ k = n + 1 BY <3>2, <3>4, <4>1, <5>2
        <5>3. CASE i = n + 1
          <6>1. k = n + 1 BY <3>0, <3>5, <4>4, <5>3
          <6> QED BY <3>0, <4>4, <5>3, <6>1
        <5> QED BY <3>5, <5>1, <5>2, <5>3
      <4> QED BY <4>3, <4>4 DEF Gens
    <3>10. InOrderAll(g)
      <4> SUFFICES ASSUME NEW q \in Promise(h) PROVE InOrder(g, q) BY <1>5 DEF InOrderAll
      <4>0. InOrder(h, q) BY <1>0 DEF InOrderAll
      <4>1. CASE q = p BY <1>0, <1>2, <2>q, <3>1, <4>0, <4>1, OrderQueues
      <4>2. CASE q # p
        <5>1. SameJobs(h, g, q) BY <3>0, <3>2, <3>4, <3>5, <4>2 DEF SameJobs, IsReactionOf
        <5>2. g.prom[q] = h.prom[q] BY <1>5, <4>2
        <5> QED BY <4>0, <5>1, <5>2, InOrderKept DEF StateKept
      <4> QED BY <4>1, <4>2
    <3> QED BY <3>7, <3>8, <3>9, <3>10
  <2> QED BY <2>w, <2>q
<1> QED BY <1>3, <1>10, <1>11, <1>12, <1>14 DEF Core


-----------------------------------------------------------------------------
(* A promise or a thenable is adopted.                                     *)

MayAdopt(h, st, p, x) ==
  /\ p \in Promise(h) /\ h.prom[p].state = "pending" /\ x \in (Promise(h) \cup Thenable) \ {p}
  /\ h.prom[p].again \/ (NoPlace(h, st, OfPromise, p) /\ h.prom[p].fate = Undef)
  /\ ~IsRequest(h, p) /\ ~IsOut(h, p)

LEMMA AdoptPlaces ==
  ASSUME NEW h \in Heap, NEW g \in Heap, NEW st, NEW p \in Promise(h), NEW xx \in Value, Adopts(h, g, p, xx), NEW K, NEW x
  PROVE  /\ NoPlace(h, st, K, x) /\ ~("adopt" \in K /\ p = x) => NoPlace(g, st, K, x)
         /\ OnePlace(h, st, K, x) /\ (~("adopt" \in K /\ p = x) \/ NoPlace(h, st, K, x)) => OnePlace(g, st, K, x)
         /\ ("adopt" \in K /\ p = x) \/ ~NoPlace(h, st, K, x) => ~NoPlace(g, st, K, x)
<1> DEFINE j == AdoptJob(h.gen, p, xx)
<1>1. JobGoes(j, K, x) <=> ("adopt" \in K /\ p = x) BY DEF JobGoes, AdoptJob
<1>2. g.queue = Append(h.queue, j) /\ Promise(g) = Promise(h) /\ (\A q \in Promise(h) : g.prom[q].cbs = h.prom[q].cbs)
  BY DEF Adopts, OthersKept
<1>3. j \in JobRec
  <2>1. h.gen + 1 \in Nat /\ p \in Nat BY Parts
  <2> QED BY <2>1 DEF AdoptJob, JobRec
<1> HIDE DEF j
<1> QED BY <1>1, <1>2, <1>3, PlacesQueued

LEMMA AdoptCore ==
  ASSUME NEW h, NEW st, Core(h, st), NEW p, NEW x, MayAdopt(h, st, p, x),
         NEW g \in Heap, Adopts(h, g, p, x)
  PROVE  Core(g, st) /\ World(h, g)
<1>0. /\ h \in Heap /\ JobsOK(h) /\ WaitOK(h) /\ PromisesOK(h, st) /\ InOrderAll(h) /\ Gens(h) /\ FramesOK(h, st)
      /\ p \in Promise(h) /\ h.prom[p].state = "pending" /\ x \in (Promise(h) \cup Thenable) \ {p}
      /\ ~IsRequest(h, p) /\ ~IsOut(h, p)
      /\ h.prom[p].again \/ (NoPlace(h, st, OfPromise, p) /\ h.prom[p].fate = Undef)
  BY DEF Core, MayAdopt
<1>1. \A q \in Promise(h) : q \in Int /\ q \in Nat BY <1>0, Parts
<1>2. x \in Value /\ x # Undef /\ Undef \notin Promise(h) BY <1>0, <1>1, ValuesAssumption DEF Value
<1>3. /\ g.combs = h.combs /\ g.ags = h.ags /\ g.gen = h.gen /\ Promise(g) = Promise(h) /\ OthersKept(h, g, p)
      /\ (\A q \in Promise(h) : q # p => g.prom[q] = h.prom[q])
      /\ RightsKept(h.prom[p], g.prom[p]) /\ StateKept(h.prom[p], g.prom[p])
      /\ g.prom[p].reg = h.prom[p].reg /\ g.prom[p].ran = h.prom[p].ran /\ g.prom[p].cbs = h.prom[p].cbs
      /\ IF h.prom[p].fate = Undef THEN g.prom[p].fate = x /\ g.prom[p].fateAt = h.gen
         ELSE FateKept(h.prom[p], g.prom[p])
      /\ g.queue = Append(h.queue, AdoptJob(h.gen, p, x))
  BY DEF Adopts, OthersKept
<1>4. World(h, g)
  <2>1. h.gen <= g.gen BY <1>0, <1>3, Parts
  <2> QED BY <1>3, <2>1 DEF World, StateKept, RightsKept
<1>5. Undisturbed(h, st, g)
  <2>1. \A q \in Promise(h) : q # p => Kept(h, g, q) BY <1>3 DEF Kept, FateKept, Owned
  <2>2. Kept(h, g, p) \/ NoPlace(h, st, OfPromise, p) BY <1>0, <1>3 DEF Kept, RightsKept, Owned
  <2>3. \A k \in DOMAIN h.ags : KeptGen(h, g, k) BY <1>3 DEF KeptGen, Serving
  <2> QED BY <1>4, <2>1, <2>2, <2>3 DEF Undisturbed
<1>6. PromOK(h, st, p) BY <1>0 DEF PromisesOK
<1>7. Joins(h, g, st, "adopt", p)
  <2> SUFFICES ASSUME NEW K, NEW y
               PROVE  /\ NoPlace(h, st, K, y) /\ ~("adopt" \in K /\ p = y) => NoPlace(g, st, K, y)
                      /\ OnePlace(h, st, K, y) /\ (~("adopt" \in K /\ p = y) \/ NoPlace(h, st, K, y)) => OnePlace(g, st, K, y)
    BY DEF Joins
  <2>1. Adopts(h, g, p, x) OBVIOUS
  <2> QED BY ONLY <1>0, <1>2, <2>1, g \in Heap, AdoptPlaces
<1>8. g.prom[p].fate # Undef BY <1>2, <1>3 DEF FateKept
<1>9. MayJoin(h, g, st, "adopt", p) BY <1>0, <1>8 DEF MayJoin, OfGen
<1>10. CombsOK(g, st) /\ GensOK(g, st) /\ RequestsOK(g, st)
       /\ \A q \in Promise(h) : FateKept(h.prom[q], g.prom[q]) => PromOK(g, st, q)
  BY <1>0, <1>3, <1>5, <1>7, <1>9, JoinsKeep
<1>11. PromisesOK(g, st)
  <2> SUFFICES ASSUME NEW q \in Promise(h) PROVE PromOK(g, st, q) BY <1>3 DEF PromisesOK
  <2>1. CASE FateKept(h.prom[q], g.prom[q]) BY <1>10, <2>1
  <2>2. CASE ~FateKept(h.prom[q], g.prom[q])
    <3>1. q = p /\ h.prom[p].fate = Undef /\ g.prom[p].fate = x /\ g.prom[p].fateAt = h.gen
      BY <1>3, <2>2 DEF FateKept
    <3> DEFINE s == h.prom[p]
               t == g.prom[p]
    <3>2. /\ t.state = "pending" /\ t.value = s.value /\ t.at = s.at /\ t.cap = s.cap /\ t.again = s.again
      BY <1>0, <1>3 DEF StateKept, RightsKept
    <3>3. ~s.again /\ s.at <= h.gen /\ OnePlace(h, st, OfPromise, p) BY <1>6, <3>1 DEF PromOK
    <3>4. NoPlace(h, st, OfPromise, p) BY <1>0, <3>3
    <3>5. OnePlace(g, st, OfPromise, p) BY <1>7, <3>3, <3>4 DEF Joins
    <3>6. h.gen <= h.gen
      <4>1. h.gen \in Nat BY <1>0, Parts
      <4> QED BY <4>1
    <3> HIDE DEF s
    <3> QED BY <1>0, <1>2, <1>3, <3>1, <3>2, <3>3, <3>5, <3>6 DEF PromOK
  <2> QED BY <2>1, <2>2
<1>12. FramesOK(g, st) BY <1>0, <1>5, AllKept
<1> DEFINE n == Len(h.queue)
           j == AdoptJob(h.gen, p, x)
<1>13. n \in Nat /\ DOMAIN h.queue = 1 .. n /\ h.queue \in Seq(JobRec) /\ h.gen \in Nat BY <1>0, Parts
<1>14. j.kind = "adopt" /\ j.p = p /\ j.x = x /\ j.gen = h.gen + 1 BY DEF AdoptJob
<1>15. j \in JobRec BY <1>0, <1>1, <1>2, <1>13 DEF AdoptJob, JobRec
<1>16. g.queue = Append(h.queue, j) BY <1>3
<1> HIDE DEF j
<1>17. /\ DOMAIN g.queue = 1 .. n + 1 /\ g.queue[n + 1] = j /\ \A i \in 1 .. n : g.queue[i] = h.queue[i]
  BY <1>13, <1>15, <1>16, Appended
<1> HIDE DEF n
<1>18. \A i \in DOMAIN g.queue : i \in 1 .. n \/ i = n + 1 BY <1>13, <1>17
<1>19. JobsOK(g)
  <2>1. \A i \in 1 .. n : JobOK(g, g.queue[i]) BY <1>0, <1>5, <1>13, <1>17, AllKept DEF JobsOK
  <2>2. ASSUME ~g.prom[p].again
        PROVE  g.prom[p].state = "pending" /\ g.prom[p].fate = x /\ h.gen + 1 = g.prom[p].fateAt + 1
    <3>1. ~h.prom[p].again /\ h.prom[p].fate = Undef BY <1>0, <1>3, <2>2 DEF RightsKept
    <3> QED BY <1>0, <1>3, <3>1 DEF StateKept
  <2>3. JobOK(g, j) BY <1>0, <1>3, <1>14, <1>15, <2>2 DEF JobOK
  <2> QED BY <1>17, <1>18, <2>1, <2>3 DEF JobsOK
<1>20. WaitOK(g)
  <2> SUFFICES ASSUME NEW q \in Promise(h), NEW i \in DOMAIN g.prom[q].cbs PROVE ReactionOK(g, q, g.prom[q].cbs[i])
    BY <1>3 DEF WaitOK
  <2>1. g.prom[q].cbs = h.prom[q].cbs BY <1>3
  <2> QED BY <1>0, <1>5, <2>1, AllKept DEF WaitOK
<1>21. Gens(g)
  <2>1. \A i \in 1 .. n : h.gen <= h.queue[i].gen /\ h.queue[i].gen <= h.gen + 1 BY <1>0, <1>13 DEF Gens
  <2>2. \A i, k \in 1 .. n : i < k => h.queue[i].gen <= h.queue[k].gen BY <1>0, <1>13 DEF Gens
  <2>3. \A i \in DOMAIN g.queue : g.gen <= g.queue[i].gen /\ g.queue[i].gen <= g.gen + 1
    BY <1>3, <1>13, <1>14, <1>17, <1>18, <2>1
  <2>4. ASSUME NEW i \in DOMAIN g.queue, NEW k \in DOMAIN g.queue, i < k
        PROVE  g.queue[i].gen <= g.queue[k].gen
    <3>1. CASE i \in 1 .. n /\ k \in 1 .. n BY <1>17, <2>2, <2>4, <3>1
    <3>2. CASE i \in 1 .. n /\ k = n + 1 BY <1>14, <1>17, <2>1, <3>2
    <3>3. CASE i = n + 1
      <4>1. k = n + 1 BY <1>13, <1>18, <2>4, <3>3
      <4> QED BY <1>13, <2>4, <3>3, <4>1
    <3> QED BY <1>18, <3>1, <3>2, <3>3
  <2> QED BY <2>3, <2>4 DEF Gens
<1>22. InOrderAll(g)
  <2> SUFFICES ASSUME NEW q \in Promise(h) PROVE InOrder(g, q) BY <1>3 DEF InOrderAll
  <2>1. InOrder(h, q) BY <1>0 DEF InOrderAll
  <2>2. SameJobs(h, g, q) BY <1>13, <1>14, <1>17, <1>18 DEF SameJobs, IsReactionOf
  <2>3. g.prom[q].reg = h.prom[q].reg /\ g.prom[q].ran = h.prom[q].ran /\ g.prom[q].cbs = h.prom[q].cbs
        /\ StateKept(h.prom[q], g.prom[q])
    BY <1>3, Zenon DEF StateKept
  <2> QED BY <2>1, <2>2, <2>3, InOrderKept
<1> QED BY <1>4, <1>10, <1>11, <1>12, <1>19, <1>20, <1>21, <1>22 DEF Core


-----------------------------------------------------------------------------
(* drainMicrotasks takes the first job.                                    *)

Takes(h, g, j, n) ==
  /\ g.combs = h.combs /\ g.ags = h.ags /\ g.gen = j.gen
  /\ Promise(g) = Promise(h)
  /\ \A q \in Promise(h) :
       /\ StateKept(h.prom[q], g.prom[q]) /\ FateKept(h.prom[q], g.prom[q]) /\ RightsKept(h.prom[q], g.prom[q])
       /\ g.prom[q].cbs = h.prom[q].cbs /\ g.prom[q].reg = h.prom[q].reg
       /\ g.prom[q].ran = (IF IsReactionOf(j, q) THEN h.prom[q].ran + 1 ELSE h.prom[q].ran)
  /\ n \in Nat /\ DOMAIN h.queue = 1 .. n + 1 /\ DOMAIN g.queue = 1 .. n
  /\ h.queue[1] = j /\ \A i \in 1 .. n : g.queue[i] = h.queue[i + 1]

LEMMA TakeEffect ==
  ASSUME NEW h \in Heap, h.queue # <<>>, NEW j, j = Head(h.queue), j.p \in Promise(h),
         NEW g, g = [h EXCEPT !.queue = Tail(@), !.gen = j.gen, !.prom[j.p].ran = IF j.kind = "adopt" THEN @ ELSE @ + 1]
  PROVE  g \in Heap /\ j \in JobRec /\ \E n : Takes(h, g, j, n)
<1>1. h.prom \in Seq(PromiseRec) /\ h.queue \in Seq(JobRec) /\ DOMAIN h.queue = 1 .. Len(h.queue) /\ Len(h.queue) \in Nat
  BY Parts
<1> DEFINE n == Len(h.queue) - 1
           s == h.prom[j.p]
           ran == IF j.kind = "adopt" THEN s.ran ELSE s.ran + 1
           s1 == [s EXCEPT !.ran = ran]
<1>2. /\ Tail(h.queue) \in Seq(JobRec) /\ Len(h.queue) >= 1 /\ j = h.queue[1] /\ j \in JobRec
      /\ DOMAIN Tail(h.queue) = 1 .. n /\ \A i \in 1 .. n : Tail(h.queue)[i] = h.queue[i + 1]
  BY <1>1, Tailed
<1>3. n \in Nat /\ n + 1 = Len(h.queue) BY <1>1, <1>2
<1>4. s \in PromiseRec /\ j.gen \in Nat /\ j.kind \in {"reaction", "adopt"} /\ j.p \in 1 .. Len(h.prom)
  <2>1. s \in PromiseRec /\ j.p \in 1 .. Len(h.prom) BY Parts
  <2> QED BY <1>2, <2>1 DEF JobRec
<1>5. s.ran \in Nat BY <1>4, PromiseParts
<1>6. s1 \in PromiseRec
  <2>1. ran \in Nat BY <1>5
  <2> QED BY ONLY <1>4, <2>1, RanSet
<1>7. /\ g.prom = [h.prom EXCEPT ![j.p] = s1] /\ g.queue = Tail(h.queue)
      /\ g.combs = h.combs /\ g.ags = h.ags /\ g.gen = j.gen
      /\ g = [prom |-> g.prom, combs |-> g.combs, ags |-> g.ags, queue |-> g.queue, gen |-> g.gen]
  BY DEF Heap
<1>8. /\ StateKept(s, s1) /\ FateKept(s, s1) /\ RightsKept(s, s1) /\ s1.cbs = s.cbs /\ s1.reg = s.reg /\ s1.ran = ran
  BY <1>4 DEF PromiseRec, FateKept, RightsKept, StateKept
<1> HIDE DEF s1
<1>9. /\ g.prom \in Seq(PromiseRec) /\ Len(g.prom) = Len(h.prom) /\ DOMAIN g.prom = DOMAIN h.prom
      /\ g.prom[j.p] = s1 /\ \A q \in DOMAIN h.prom : q # j.p => g.prom[q] = h.prom[q]
  <2> DEFINE p == j.p
  <2>1. p \in 1 .. Len(h.prom) /\ g.prom = [h.prom EXCEPT ![p] = s1] /\ DOMAIN h.prom = 1 .. Len(h.prom)
    BY ONLY <1>4, <1>7, Parts
  <2> HIDE DEF p
  <2>2. /\ g.prom \in Seq(PromiseRec) /\ Len(g.prom) = Len(h.prom) /\ DOMAIN g.prom = 1 .. Len(h.prom)
        /\ g.prom[p] = s1 /\ \A q \in 1 .. Len(h.prom) : q # p => g.prom[q] = h.prom[q]
    BY ONLY <1>1, <1>6, <2>1, Replaced
  <2> QED BY <2>1, <2>2, ZenonT(60) DEF p
<1>10. g \in Heap
  <2>1. h.combs \in Seq(CombinatorRec) /\ h.ags \in Seq(AsyncGenRec) BY Parts, Zenon
  <2> QED BY <1>2, <1>4, <1>7, <1>9, <2>1, Zenon DEF Heap
<1>11. \A q \in Promise(h) :
         /\ StateKept(h.prom[q], g.prom[q]) /\ FateKept(h.prom[q], g.prom[q]) /\ RightsKept(h.prom[q], g.prom[q])
         /\ g.prom[q].cbs = h.prom[q].cbs /\ g.prom[q].reg = h.prom[q].reg
         /\ g.prom[q].ran = (IF IsReactionOf(j, q) THEN h.prom[q].ran + 1 ELSE h.prom[q].ran)
  <2> SUFFICES ASSUME NEW q \in Promise(h)
               PROVE  /\ StateKept(h.prom[q], g.prom[q]) /\ FateKept(h.prom[q], g.prom[q]) /\ RightsKept(h.prom[q], g.prom[q])
                      /\ g.prom[q].cbs = h.prom[q].cbs /\ g.prom[q].reg = h.prom[q].reg
                      /\ g.prom[q].ran = (IF IsReactionOf(j, q) THEN h.prom[q].ran + 1 ELSE h.prom[q].ran)
    BY ZenonT(60)
  <2>1. CASE q = j.p BY <1>4, <1>8, <1>9, <2>1, Zenon DEF IsReactionOf
  <2>2. CASE q # j.p
    <3>1. g.prom[q] = h.prom[q] BY <1>9, <2>2, Zenon DEF Promise
    <3> QED BY ONLY <2>2, <3>1 DEF IsReactionOf, StateKept, FateKept, RightsKept
  <2> QED BY ONLY <2>1, <2>2, ZenonT(60)
<1>12. Promise(g) = Promise(h) BY ONLY <1>9 DEF Promise
<1> HIDE DEF n
<1>13. DOMAIN h.queue = 1 .. n + 1 /\ DOMAIN g.queue = 1 .. n /\ h.queue[1] = j /\ \A i \in 1 .. n : g.queue[i] = h.queue[i + 1]
  BY <1>1, <1>2, <1>3, <1>7, Zenon
<1>14. Takes(h, g, j, n) BY <1>3, <1>7, <1>11, <1>12, <1>13, Zenon DEF Takes
<1> QED BY ONLY <1>2, <1>10, <1>14

LEMMA TakePlaces ==
  ASSUME NEW h \in Heap, NEW g \in Heap, NEW st, NEW j, NEW n, Takes(h, g, j, n), NEW K, NEW x
  PROVE  /\ NoPlace(h, st, K, x) => NoPlace(g, st, K, x)
         /\ OnePlace(h, st, K, x) => OnePlace(g, st, K, x)
         /\ JobGoes(j, K, x) /\ OnePlace(h, st, K, x) => NoPlace(g, st, K, x)
         /\ ~JobGoes(j, K, x) /\ ~NoPlace(h, st, K, x) => ~NoPlace(g, st, K, x)
<1>0. DOMAIN h.prom = Promise(h) /\ DOMAIN g.prom = Promise(h) BY DEF Promise, Takes
<1>1. n \in Nat /\ DOMAIN h.queue = 1 .. n + 1 /\ DOMAIN g.queue = 1 .. n /\ h.queue[1] = j
      /\ \A i \in 1 .. n : g.queue[i] = h.queue[i + 1]
  BY DEF Takes
<1>2. \A i \in 1 .. n : i + 1 \in 1 .. n + 1 /\ i + 1 # 1 BY <1>1
<1>3. 1 \in 1 .. n + 1 /\ \A i \in 1 .. n + 1 : i = 1 \/ (i - 1 \in 1 .. n /\ i = (i - 1) + 1) BY <1>1
<1>4. \A i, k \in 1 .. n : i + 1 = k + 1 => i = k BY <1>1
<1>5. \A q \in Promise(h) : g.prom[q].cbs = h.prom[q].cbs BY DEF Takes
<1>6. NoneWaits(g, K, x) <=> NoneWaits(h, K, x) BY <1>0, <1>5 DEF NoneWaits
<1>7. OneWaits(h, K, x) => OneWaits(g, K, x) BY <1>0, <1>5 DEF OneWaits
<1>8. NoneQueued(h, K, x) => NoneQueued(g, K, x) /\ ~JobGoes(j, K, x) BY <1>1, <1>2, <1>3 DEF NoneQueued
<1>9. NoneQueued(g, K, x) /\ ~JobGoes(j, K, x) => NoneQueued(h, K, x)
  <2> SUFFICES ASSUME NoneQueued(g, K, x), ~JobGoes(j, K, x), NEW i \in 1 .. n + 1 PROVE ~JobGoes(h.queue[i], K, x)
    BY <1>1 DEF NoneQueued
  <2>1. CASE i = 1 BY <1>1, <2>1
  <2>2. CASE i - 1 \in 1 .. n /\ i = (i - 1) + 1
    <3> DEFINE k == i - 1
    <3>1. k \in 1 .. n /\ i = k + 1 BY <2>2
    <3> HIDE DEF k
    <3>2. ~JobGoes(g.queue[k], K, x) BY <1>1, <3>1 DEF NoneQueued
    <3> QED BY <1>1, <3>1, <3>2
  <2> QED BY <1>3, <2>1, <2>2
<1>10. OneQueued(h, K, x) => OneQueued(g, K, x) /\ (JobGoes(j, K, x) => NoneQueued(g, K, x))
  <2> SUFFICES ASSUME OneQueued(h, K, x)
               PROVE  OneQueued(g, K, x) /\ (JobGoes(j, K, x) => NoneQueued(g, K, x))
    OBVIOUS
  <2>1. \A i, k \in 1 .. n + 1 : JobGoes(h.queue[i], K, x) /\ JobGoes(h.queue[k], K, x) => i = k
    BY <1>1 DEF OneQueued
  <2>2. OneQueued(g, K, x)
    <3> SUFFICES ASSUME NEW i \in 1 .. n, NEW k \in 1 .. n, JobGoes(g.queue[i], K, x), JobGoes(g.queue[k], K, x)
                 PROVE  i = k
      BY <1>1 DEF OneQueued
    <3>1. JobGoes(h.queue[i + 1], K, x) /\ JobGoes(h.queue[k + 1], K, x) BY <1>1
    <3>2. i + 1 = k + 1 BY <1>2, <2>1, <3>1
    <3> QED BY <1>4, <3>2
  <2>3. ASSUME JobGoes(j, K, x) PROVE NoneQueued(g, K, x)
    <3> SUFFICES ASSUME NEW i \in 1 .. n, JobGoes(g.queue[i], K, x) PROVE FALSE BY <1>1 DEF NoneQueued
    <3>1. JobGoes(h.queue[i + 1], K, x) /\ JobGoes(h.queue[1], K, x) BY <1>1, <2>3
    <3>2. i + 1 = 1 BY <1>2, <1>3, <2>1, <3>1
    <3> QED BY <1>2, <3>2
  <2> QED BY <2>2, <2>3
<1> QED BY <1>6, <1>7, <1>8, <1>9, <1>10 DEF NoPlace, OnePlace

LEMMA TakeOrder ==
  ASSUME NEW h \in Heap, NEW g \in Heap, NEW j, NEW n, Takes(h, g, j, n), NEW q \in Promise(h), InOrder(h, q)
  PROVE  InOrder(g, q)
<1> DEFINE Qd(k) == {i \in DOMAIN k.queue : IsReactionOf(k.queue[i], q)}
           ran == h.prom[q].ran
           ran1 == g.prom[q].ran
           c == h.prom[q].cbs
           last == h.prom[q].reg - Len(c)
           v == h.prom[q].value
           state == h.prom[q].state
<1>1. n \in Nat /\ DOMAIN h.queue = 1 .. n + 1 /\ DOMAIN g.queue = 1 .. n /\ h.queue[1] = j
      /\ \A i \in 1 .. n : g.queue[i] = h.queue[i + 1]
  BY DEF Takes
<1>2. g.prom[q].reg = h.prom[q].reg /\ g.prom[q].cbs = c /\ g.prom[q].value = v /\ g.prom[q].state = state
      /\ ran1 = (IF IsReactionOf(j, q) THEN ran + 1 ELSE ran)
  BY DEF Takes, StateKept
<1>3. ran \in Nat /\ last \in Int BY Parts, PromiseParts
<1>4. /\ ran \in 0 .. last
      /\ \A i \in DOMAIN c : c[i].n = last + i
      /\ \A m \in ran + 1 .. last : \E i \in Qd(h) : h.queue[i].r.n = m
      /\ \A i \in Qd(h) : /\ h.queue[i].r.n \in ran + 1 .. last /\ h.queue[i].x = v
                          /\ state = (IF h.queue[i].ok THEN "fulfilled" ELSE "rejected")
      /\ \A i, k \in Qd(h) : i < k => h.queue[i].r.n < h.queue[k].r.n
  BY DEF InOrder
<1>5. g.prom[q].reg - Len(g.prom[q].cbs) = last BY <1>2
<1>6. \A i \in Qd(g) : i + 1 \in Qd(h) /\ i + 1 > 1 /\ i \in Nat /\ g.queue[i] = h.queue[i + 1] BY <1>1
<1>7. \A i \in Qd(h) : \/ i = 1 /\ h.queue[i] = j /\ IsReactionOf(j, q)
                       \/ i - 1 \in Qd(g) /\ g.queue[i - 1] = h.queue[i] /\ i > 1
  <2> SUFFICES ASSUME NEW i \in Qd(h)
               PROVE  \/ i = 1 /\ h.queue[i] = j /\ IsReactionOf(j, q)
                      \/ i - 1 \in Qd(g) /\ g.queue[i - 1] = h.queue[i] /\ i > 1
    OBVIOUS
  <2>1. i \in 1 .. n + 1 BY <1>1
  <2>2. CASE i = 1 BY <1>1, <2>2
  <2>3. CASE i # 1
    <3> DEFINE k == i - 1
    <3>1. k \in 1 .. n /\ i = k + 1 /\ i > 1 BY <1>1, <2>1, <2>3
    <3> HIDE DEF k
    <3>2. g.queue[k] = h.queue[i] BY <1>1, <3>1
    <3>3. k \in Qd(g) BY <1>1, <3>1, <3>2
    <3> HIDE DEF Qd
    <3> QED BY <3>1, <3>2, <3>3 DEF k
  <2> QED BY <2>2, <2>3
<1>8. IsReactionOf(j, q) => 1 \in Qd(h) BY <1>1
<1> HIDE DEF Qd, ran, ran1, c, last, v, state
<1>9. ASSUME IsReactionOf(j, q) PROVE j.r.n = ran + 1 /\ ran + 1 \in 0 .. last
  <2>1. 1 \in Qd(h) /\ h.queue[1] = j BY <1>1, <1>8, <1>9
  <2>2. j.r.n \in ran + 1 .. last BY <1>4, <2>1
  <2>3. ran + 1 \in ran + 1 .. last BY <1>3, <2>2
  <2>4. PICK i \in Qd(h) : h.queue[i].r.n = ran + 1 BY <1>4, <2>3
  <2>5. CASE i = 1 BY <1>3, <2>1, <2>3, <2>4, <2>5
  <2>6. CASE i > 1
    <3>1. j.r.n < ran + 1 BY <1>4, <2>1, <2>4, <2>6
    <3> QED BY <1>3, <2>2, <3>1
  <2> QED BY <1>7, <2>5, <2>6
<1>10. ran1 \in 0 .. last BY <1>2, <1>4, <1>9
<1>11. \A i \in Qd(g) : g.queue[i].r.n \in ran1 + 1 .. last /\ g.queue[i].x = v
                        /\ state = (IF g.queue[i].ok THEN "fulfilled" ELSE "rejected")
  <2> SUFFICES ASSUME NEW i \in Qd(g)
               PROVE  g.queue[i].r.n \in ran1 + 1 .. last /\ g.queue[i].x = v
                      /\ state = (IF g.queue[i].ok THEN "fulfilled" ELSE "rejected")
    OBVIOUS
  <2> DEFINE k == i + 1
  <2>1. k \in Qd(h) /\ k > 1 /\ g.queue[i] = h.queue[k] BY <1>6
  <2> HIDE DEF k
  <2>2. /\ h.queue[k].r.n \in ran + 1 .. last /\ h.queue[k].x = v
        /\ state = (IF h.queue[k].ok THEN "fulfilled" ELSE "rejected")
    BY <1>4, <2>1
  <2>3. IsReactionOf(j, q) => ran + 1 < h.queue[k].r.n
    <3> SUFFICES ASSUME IsReactionOf(j, q) PROVE ran + 1 < h.queue[k].r.n OBVIOUS
    <3>1. h.queue[1].r.n < h.queue[k].r.n BY <1>4, <1>8, <2>1
    <3> QED BY <1>1, <1>9, <3>1
  <2>4. h.queue[k].r.n \in ran1 + 1 .. last BY <1>2, <1>3, <2>2, <2>3
  <2> QED BY <2>1, <2>2, <2>4
<1>12. \A m \in ran1 + 1 .. last : \E i \in Qd(g) : g.queue[i].r.n = m
  <2> SUFFICES ASSUME NEW m \in ran1 + 1 .. last PROVE \E i \in Qd(g) : g.queue[i].r.n = m OBVIOUS
  <2>1. m \in ran + 1 .. last BY <1>2, <1>3
  <2>2. PICK i \in Qd(h) : h.queue[i].r.n = m BY <1>4, <2>1
  <2>3. ~(i = 1 /\ IsReactionOf(j, q) /\ h.queue[i] = j)
    <3> SUFFICES ASSUME i = 1, IsReactionOf(j, q), h.queue[i] = j PROVE FALSE OBVIOUS
    <3>1. m = ran + 1 /\ ran1 = ran + 1 BY <1>2, <1>9, <2>2
    <3> QED BY <1>3, <3>1
  <2>4. i - 1 \in Qd(g) /\ g.queue[i - 1] = h.queue[i] BY <1>7, <2>3
  <2> DEFINE k == i - 1
  <2>5. k \in Qd(g) /\ g.queue[k].r.n = m BY <2>2, <2>4
  <2> HIDE DEF k
  <2> QED BY <2>5
<1>13. ASSUME NEW i \in Qd(g), NEW k \in Qd(g), i < k PROVE g.queue[i].r.n < g.queue[k].r.n
  <2> DEFINE i1 == i + 1
             k1 == k + 1
  <2>1. i1 \in Qd(h) /\ k1 \in Qd(h) /\ i1 < k1 /\ g.queue[i] = h.queue[i1] /\ g.queue[k] = h.queue[k1]
    BY <1>6, <1>13
  <2> HIDE DEF i1, k1
  <2> QED BY <1>4, <2>1
<1>14. \A i \in DOMAIN g.prom[q].cbs : g.prom[q].cbs[i].n = last + i BY <1>2, <1>4
<1>15. InOrder(g, q) <=>
         /\ ran1 \in 0 .. last
         /\ \A i \in DOMAIN g.prom[q].cbs : g.prom[q].cbs[i].n = last + i
         /\ \A m \in ran1 + 1 .. last : \E i \in Qd(g) : g.queue[i].r.n = m
         /\ \A i \in Qd(g) : g.queue[i].r.n \in ran1 + 1 .. last /\ g.queue[i].x = v
                             /\ state = (IF g.queue[i].ok THEN "fulfilled" ELSE "rejected")
         /\ \A i, k \in Qd(g) : i < k => g.queue[i].r.n < g.queue[k].r.n
  BY <1>2, <1>5, Zenon DEF InOrder, Qd, ran1
<1> QED BY <1>10, <1>11, <1>12, <1>13, <1>14, <1>15


\* Whom the job was for: a promise that followed by it, a generator.
OwesP(h, j) ==
  {p \in Promise(h) : /\ JobGoes(j, {"adopt", "settle"}, p)
                      /\ h.prom[p].fate = (IF j.kind = "adopt" THEN j.x ELSE j.p)}
OwesG(h, j) == {k \in DOMAIN h.ags : JobGoes(j, OfGen, k)}

LEMMA TakeFollows ==
  ASSUME NEW h \in Heap, NEW g \in Heap, NEW j, NEW n, Takes(h, g, j, n), Follows(h, {})
  PROVE  Follows(g, OwesP(h, j))
<1>1. n \in Nat /\ DOMAIN h.queue = 1 .. n + 1 /\ DOMAIN g.queue = 1 .. n /\ h.queue[1] = j
      /\ (\A i \in 1 .. n : g.queue[i] = h.queue[i + 1]) /\ Promise(g) = Promise(h)
      /\ (\A q \in Promise(h) : StateKept(h.prom[q], g.prom[q]) /\ FateKept(h.prom[q], g.prom[q]) /\ g.prom[q].cbs = h.prom[q].cbs)
  BY DEF Takes
<1> SUFFICES ASSUME NEW p \in Promise(h), p \notin OwesP(h, j), g.prom[p].state = "pending", g.prom[p].fate \in Promise(h)
             PROVE  Followed(g, p, g.prom[p].fate)
  BY <1>1 DEF Follows
<1>2. h.prom[p].state = "pending" /\ h.prom[p].fate = g.prom[p].fate BY <1>1 DEF StateKept, FateKept
<1> DEFINE x == h.prom[p].fate
           By(u) == \/ u.kind = "adopt" /\ u.p = p /\ u.x = x
                    \/ u.kind = "reaction" /\ u.p = x /\ u.r.kind = "settle" /\ u.r.to = p
<1>3. Followed(h, p, x) BY <1>2 DEF Follows
<1>4. g.prom[x].cbs = h.prom[x].cbs BY <1>1, <1>2
<1>5. ~By(j) BY DEF OwesP, JobGoes, GoesOn
<1>6. CASE \E i \in DOMAIN h.queue : By(h.queue[i])
  <2>1. PICK i \in 1 .. n + 1 : By(h.queue[i]) BY <1>1, <1>6
  <2> DEFINE k == i - 1
  <2>2. i # 1 BY <1>1, <1>5, <2>1
  <2>3. k \in 1 .. n /\ i = k + 1 BY <1>1, <2>2
  <2> HIDE DEF k, By
  <2>4. By(g.queue[k]) /\ k \in DOMAIN g.queue BY <1>1, <2>1, <2>3
  <2> QED BY <1>2, <2>4, Zenon DEF Followed, By
<1>7. CASE \E i \in DOMAIN h.prom[x].cbs : h.prom[x].cbs[i].kind = "settle" /\ h.prom[x].cbs[i].to = p
  <2>1. \E i \in DOMAIN g.prom[x].cbs : g.prom[x].cbs[i].kind = "settle" /\ g.prom[x].cbs[i].to = p BY <1>4, <1>7, Zenon
  <2> QED BY <1>2, <2>1 DEF Followed
<1> QED BY <1>3, <1>6, <1>7, Zenon DEF Followed

LEMMA TakeAll ==
  ASSUME NEW h, All(h, <<>>, {}, {}, {}), NEW g \in Heap, NEW j \in JobRec, NEW n, Takes(h, g, j, n)
  PROVE  /\ All(g, <<>>, OwesP(h, j), OwesG(h, j), {})
         /\ JobOK(g, j)
         /\ \A p \in Promise(h) : JobGoes(j, OfPromise, p) /\ ~h.prom[p].again => NoPlace(g, <<>>, OfPromise, p)
         /\ \A k \in DOMAIN h.ags : JobGoes(j, OfGen, k) => NoPlace(g, <<>>, OfGen, k)
<1>0. /\ h \in Heap /\ JobsOK(h) /\ WaitOK(h) /\ PromisesOK(h, <<>>) /\ InOrderAll(h) /\ Gens(h) /\ FramesOK(h, <<>>)
      /\ CombsOK(h, <<>>) /\ GensOK(h, <<>>) /\ RequestsOK(h, <<>>)
      /\ Follows(h, {}) /\ Served(h, <<>>, {}) /\ Answers(h, {}) /\ Core(h, <<>>)
  BY DEF All, Core
<1>1. n \in Nat /\ DOMAIN h.queue = 1 .. n + 1 /\ DOMAIN g.queue = 1 .. n /\ h.queue[1] = j
      /\ (\A i \in 1 .. n : g.queue[i] = h.queue[i + 1])
  BY DEF Takes
<1>2. /\ g.combs = h.combs /\ g.ags = h.ags /\ g.gen = j.gen /\ Promise(g) = Promise(h)
      /\ \A q \in Promise(h) :
           /\ StateKept(h.prom[q], g.prom[q]) /\ FateKept(h.prom[q], g.prom[q]) /\ RightsKept(h.prom[q], g.prom[q])
           /\ g.prom[q].cbs = h.prom[q].cbs
  BY DEF Takes
<1>3. 1 \in 1 .. n + 1 /\ \A i \in 1 .. n : i + 1 \in 1 .. n + 1 BY <1>1
<1>4. JobOK(h, j) BY <1>0, <1>1, <1>3 DEF JobsOK
<1>5. h.gen \in Nat /\ g.gen \in Nat /\ h.gen <= g.gen /\ g.gen <= h.gen + 1
  <2>1. h.gen \in Nat /\ g.gen \in Nat BY <1>0, Parts
  <2>2. h.gen <= h.queue[1].gen /\ h.queue[1].gen <= h.gen + 1 BY <1>0, <1>1, <1>3 DEF Gens
  <2> QED BY <1>1, <1>2, <2>1, <2>2
<1>6. World(h, g) BY <1>2, <1>5 DEF World, RightsKept
<1>7. (\A q \in Promise(h) : Kept(h, g, q)) /\ (\A k \in DOMAIN h.ags : KeptGen(h, g, k))
  BY <1>2 DEF Kept, FateKept, RightsKept, StateKept, Owned, KeptGen, Serving
<1>8. Undisturbed(h, <<>>, g) BY <1>6, <1>7 DEF Undisturbed
<1>9. \A K, x : /\ NoPlace(h, <<>>, K, x) => NoPlace(g, <<>>, K, x)
                /\ OnePlace(h, <<>>, K, x) => OnePlace(g, <<>>, K, x)
                /\ JobGoes(j, K, x) /\ OnePlace(h, <<>>, K, x) => NoPlace(g, <<>>, K, x)
                /\ ~JobGoes(j, K, x) /\ ~NoPlace(h, <<>>, K, x) => ~NoPlace(g, <<>>, K, x)
  BY <1>0, TakePlaces
<1>10. JobOK(g, j) BY <1>0, <1>4, <1>6, <1>7, JobKept
<1>11. FramesOK(g, <<>>) BY <1>0, <1>8, AllKept
<1>12. JobsOK(g)
  <2> SUFFICES ASSUME NEW i \in 1 .. n PROVE JobOK(g, g.queue[i]) BY <1>1 DEF JobsOK
  <2>1. g.queue[i] = h.queue[i + 1] /\ i + 1 \in DOMAIN h.queue BY <1>1, <1>3
  <2> QED BY <1>0, <1>8, <2>1, AllKept DEF JobsOK
<1>13. WaitOK(g)
  <2> SUFFICES ASSUME NEW q \in Promise(h), NEW i \in DOMAIN g.prom[q].cbs PROVE ReactionOK(g, q, g.prom[q].cbs[i])
    BY <1>2 DEF WaitOK
  <2>1. g.prom[q].cbs = h.prom[q].cbs BY <1>2
  <2> QED BY <1>0, <1>8, <2>1, AllKept DEF WaitOK
<1>14. PromisesOK(g, <<>>)
  <2> SUFFICES ASSUME NEW q \in Promise(h) PROVE PromOK(g, <<>>, q) BY <1>2 DEF PromisesOK
  <2>1. PromOK(h, <<>>, q) BY <1>0 DEF PromisesOK
  <2> QED BY <1>0, <1>2, <1>6, <1>9, <2>1, PromKept
<1>15. InOrderAll(g) BY <1>0, <1>2, TakeOrder DEF InOrderAll
<1>16. CombsOK(g, <<>>)
  <2> SUFFICES ASSUME NEW k \in DOMAIN h.combs PROVE CombOK(g, <<>>, k) BY <1>2 DEF CombsOK
  <2>1. CombOK(h, <<>>, k) BY <1>0 DEF CombsOK
  <2> DEFINE o == h.combs[k].out
  <2>2. RightsKept(h.prom[o], g.prom[o]) /\ FateKept(h.prom[o], g.prom[o]) BY <1>2, <2>1 DEF CombOK
  <2>3. IsRequest(g, o) <=> IsRequest(h, o) BY <1>2, Zenon DEF IsRequest
  <2> QED BY <1>2, <1>9, <2>1, <2>2, <2>3 DEF CombOK, RightsKept, FateKept
<1>17. GensOK(g, <<>>)
  <2> SUFFICES ASSUME NEW k \in DOMAIN h.ags PROVE GenOK(g, <<>>, k) BY <1>2 DEF GensOK
  <2>1. GenOK(h, <<>>, k) BY <1>0 DEF GensOK
  <2>2. OnePlace(g, <<>>, OfGen, k) BY <1>9, <2>1, Zenon DEF GenOK
  <2> QED BY <1>2, <2>1, <2>2, Zenon DEF GenOK
<1>18. RequestsOK(g, <<>>)
  <2>1. \A q : Owned(h, q) => Owned(g, q) BY <1>2 DEF Owned, StateKept, FateKept, RightsKept
  <2> QED BY <1>0, <1>2, <1>9, <2>1, RequestsKept
<1>19. Gens(g)
  <2>1. \A i \in 1 .. n + 1 : h.gen <= h.queue[i].gen /\ h.queue[i].gen <= h.gen + 1 /\ h.queue[i].gen \in Nat
    <3>1. \A i \in 1 .. n + 1 : h.queue[i].gen \in Nat
      <4>1. \A i \in 1 .. n + 1 : h.queue[i] \in JobRec BY <1>0, <1>1, Parts
      <4> QED BY <4>1 DEF JobRec
    <3> QED BY <1>0, <1>1, <3>1 DEF Gens
  <2>2. \A i, k \in 1 .. n + 1 : i < k => h.queue[i].gen <= h.queue[k].gen BY <1>0, <1>1 DEF Gens
  <2>3. ASSUME NEW i \in 1 .. n PROVE g.gen <= g.queue[i].gen /\ g.queue[i].gen <= g.gen + 1
    <3> DEFINE k == i + 1
    <3>1. k \in 1 .. n + 1 /\ 1 < k /\ g.queue[i] = h.queue[k] BY <1>1
    <3> HIDE DEF k
    <3>2. h.queue[1].gen <= h.queue[k].gen BY <1>3, <2>2, <3>1
    <3>3. h.queue[k].gen <= h.gen + 1 /\ h.queue[k].gen \in Nat BY <2>1, <3>1
    <3> QED BY <1>1, <1>2, <1>5, <3>1, <3>2, <3>3
  <2>4. ASSUME NEW i \in 1 .. n, NEW l \in 1 .. n, i < l PROVE g.queue[i].gen <= g.queue[l].gen
    <3> DEFINE i1 == i + 1
               l1 == l + 1
    <3>1. i1 \in 1 .. n + 1 /\ l1 \in 1 .. n + 1 /\ i1 < l1 /\ g.queue[i] = h.queue[i1] /\ g.queue[l] = h.queue[l1]
      BY <1>1, <2>4
    <3> HIDE DEF i1, l1
    <3> QED BY <2>2, <3>1
  <2> QED BY <1>1, <2>3, <2>4 DEF Gens
<1>20. Core(g, <<>>) BY <1>11, <1>12, <1>13, <1>14, <1>15, <1>16, <1>17, <1>18, <1>19 DEF Core
<1>21. Follows(g, OwesP(h, j)) BY <1>0, TakeFollows
<1>22. Served(g, <<>>, OwesG(h, j)) BY <1>0, <1>2, <1>9 DEF Served, OwesG
<1>23. Answers(g, {})
  <2> SUFFICES ASSUME NEW k \in DOMAIN h.ags, NEW i \in DOMAIN h.ags[k].said
               PROVE  g.prom[h.ags[k].said[i].p].state = (IF h.ags[k].said[i].how = "fail" THEN "rejected" ELSE "fulfilled")
    BY <1>2 DEF Answers
  <2>1. GenOK(h, <<>>, k) BY <1>0 DEF GensOK
  <2>2. h.ags[k].said[i].p \in Promise(h) BY ONLY <2>1, Zenon DEF GenOK
  <2> QED BY <1>0, <1>2, <2>2 DEF Answers, StateKept
<1>24. ASSUME NEW p \in Promise(h), JobGoes(j, OfPromise, p), ~h.prom[p].again PROVE NoPlace(g, <<>>, OfPromise, p)
  <2>1. OnePlace(h, <<>>, OfPromise, p) BY <1>0, <1>24 DEF PromisesOK, PromOK
  <2> QED BY <1>9, <1>24, <2>1
<1>25. ASSUME NEW k \in DOMAIN h.ags, JobGoes(j, OfGen, k) PROVE NoPlace(g, <<>>, OfGen, k)
  <2>1. OnePlace(h, <<>>, OfGen, k) BY <1>0 DEF GensOK, GenOK
  <2> QED BY <1>9, <1>25, <2>1
<1> QED BY <1>10, <1>20, <1>21, <1>22, <1>23, <1>24, <1>25 DEF All


-----------------------------------------------------------------------------
(* The operations on promises keep all of it.                              *)

\* An operation on the promises in T leaves the other ones alone.
Carries(h, g, st, T) ==
  /\ g.ags = h.ags /\ g.combs = h.combs /\ g.gen = h.gen
  /\ \A q \in Promise(h) :
       /\ q \in Promise(g)
       /\ h.prom[q].state # "pending" => g.prom[q].state = h.prom[q].state /\ g.prom[q].value = h.prom[q].value
       /\ q \notin T => FateKept(h.prom[q], g.prom[q]) /\ RightsKept(h.prom[q], g.prom[q])
       /\ q \notin T /\ h.prom[q].state = "pending" => g.prom[q].state = "pending"
       /\ q \notin T /\ NoPlace(h, st, OfPromise, q) => NoPlace(g, st, OfPromise, q)
  /\ \A k : NoPlace(h, st, OfGen, k) => NoPlace(g, st, OfGen, k)

LEMMA AnswersKept ==
  ASSUME NEW h, NEW g, NEW st, GensOK(h, st), World(h, g), g.ags = h.ags, NEW X, Answers(h, X)
  PROVE  Answers(g, X)
<1> SUFFICES ASSUME NEW k \in DOMAIN h.ags, NEW i \in DOMAIN h.ags[k].said, <<k, i>> \notin X
             PROVE  g.prom[h.ags[k].said[i].p].state = (IF h.ags[k].said[i].how = "fail" THEN "rejected" ELSE "fulfilled")
  BY DEF Answers
<1> DEFINE q == h.ags[k].said[i].p
<1>1. h.prom[q].state = (IF h.ags[k].said[i].how = "fail" THEN "rejected" ELSE "fulfilled") BY DEF Answers
<1>2. q \in Promise(h) BY Zenon DEF GensOK, GenOK
<1> HIDE DEF q
<1>3. g.prom[q].state = h.prom[q].state BY <1>1, <1>2 DEF World, StateKept
<1> QED BY <1>1, <1>3 DEF q

\* What goes on for a promise that settles is done; what was owed is paid.
LEMMA SettleFollows ==
  ASSUME NEW h \in Heap, NEW g \in Heap, NEW p \in Promise(h), NEW how \in {"fulfilled", "rejected"}, NEW v, Settles(h, g, p, how, v),
         NEW P, Follows(h, P)
  PROVE  Follows(g, P \ {p})
<1> DEFINE n == Len(h.queue)
           c == h.prom[p].cbs
<1>s. QueueGrows(h, g, p, how, v, n, c) BY SettledQueue
<1>1. Promise(g) = Promise(h) /\ (\A q \in Promise(h) : q # p => g.prom[q] = h.prom[q]) /\ g.prom[p].state = how
  BY DEF Settles, OthersKept
<1> SUFFICES ASSUME NEW q \in Promise(h), q \notin P \ {p}, g.prom[q].state = "pending", g.prom[q].fate \in Promise(h)
             PROVE  Followed(g, q, g.prom[q].fate)
  BY <1>1 DEF Follows
<1>2. q # p /\ g.prom[q] = h.prom[q] /\ q \notin P BY <1>1
<1> DEFINE x == h.prom[q].fate
           By(u) == \/ u.kind = "adopt" /\ u.p = q /\ u.x = x
                    \/ u.kind = "reaction" /\ u.p = x /\ u.r.kind = "settle" /\ u.r.to = q
<1>3. Followed(h, q, x) /\ x \in Promise(h) BY <1>2 DEF Follows
<1>4. CASE \E i \in DOMAIN h.queue : By(h.queue[i])
  <2>1. PICK i \in DOMAIN h.queue : By(h.queue[i]) BY <1>4
  <2> HIDE DEF By, n, c
  <2>2. i \in DOMAIN g.queue /\ By(g.queue[i]) BY <1>s, <2>1 DEF QueueGrows
  <2> QED BY <1>2, <2>2, Zenon DEF Followed, By
<1>5. CASE \E i \in DOMAIN h.prom[x].cbs : h.prom[x].cbs[i].kind = "settle" /\ h.prom[x].cbs[i].to = q
  <2>1. PICK i \in DOMAIN h.prom[x].cbs : h.prom[x].cbs[i].kind = "settle" /\ h.prom[x].cbs[i].to = q BY ONLY <1>5
  <2>2. CASE x # p
    <3>1. g.prom[x].cbs = h.prom[x].cbs BY <1>1, <1>3, <2>2
    <3> HIDE DEF x
    <3>2. \E k \in DOMAIN g.prom[x].cbs : g.prom[x].cbs[k].kind = "settle" /\ g.prom[x].cbs[k].to = q BY <2>1, <3>1
    <3> QED BY <1>2, <3>2 DEF Followed, x
  <2>3. CASE x = p
    <3>1. i \in DOMAIN c /\ c[i].kind = "settle" /\ c[i].to = q BY <2>1, <2>3
    <3> DEFINE k == n + i
    <3>2. k \in DOMAIN g.queue /\ g.queue[k] = ReactionJob(h.gen, p, c[i], how, v) BY <1>s, <3>1 DEF QueueGrows
    <3> HIDE DEF k, c, n
    <3>3. g.queue[k].kind = "reaction" /\ g.queue[k].p = p /\ g.queue[k].r = c[i] BY <3>2 DEF ReactionJob
    <3>4. By(g.queue[k]) BY <2>3, <3>1, <3>3
    <3> QED BY <1>2, <3>2, <3>4, Zenon DEF Followed
  <2> QED BY <2>2, <2>3
<1> QED BY <1>3, <1>4, <1>5, Zenon DEF Followed

LEMMA SettleAll ==
  ASSUME NEW h, NEW st, NEW P, NEW G, NEW X, All(h, st, P, G, X), NEW p \in Promise(h), NEW how, NEW v,
         h.prom[p].state = "pending" => MayFinish(h, st, p, how, v), NEW g, g = promSettle(h, p, how, v)
  PROVE  /\ g \in Heap /\ All(g, st, P \ {p}, G, X) /\ Carries(h, g, st, {p})
         /\ h.prom[p].state = "pending" => Settles(h, g, p, how, v)
<1>0. /\ h \in Heap /\ Core(h, st) /\ Follows(h, P) /\ Served(h, st, G) /\ Answers(h, X) /\ GensOK(h, st)
  BY DEF All, Core
<1>1. CASE h.prom[p].state # "pending"
  <2>1. g = h BY <1>1 DEF promSettle
  <2>2. Follows(h, P \ {p}) BY <1>0, <1>1 DEF Follows
  <2> QED BY <1>0, <1>1, <2>1, <2>2 DEF All, Carries, StateKept, FateKept, RightsKept
<1>2. CASE h.prom[p].state = "pending"
  <2>1. MayFinish(h, st, p, how, v) /\ how \in {"fulfilled", "rejected"} /\ v \in Value BY <1>2 DEF MayFinish
  <2>2. g \in Heap /\ Settles(h, g, p, how, v) BY <1>0, <1>2, <2>1, SettleEffect
  <2>3. Core(g, st) BY <1>0, <2>1, <2>2, SettleCore
  <2>4. World(h, g) BY <1>0, <2>1, <2>2, SettleUndisturbed DEF Undisturbed
  <2>5. \A K, x : NoPlace(g, st, K, x) <=> NoPlace(h, st, K, x) BY <1>0, <2>2, PlacesSettled
  <2>6. g.ags = h.ags /\ g.combs = h.combs /\ g.gen = h.gen /\ Promise(g) = Promise(h)
        /\ (\A q \in Promise(h) : q # p => g.prom[q] = h.prom[q])
    BY <2>2 DEF Settles, OthersKept
  <2>7. Answers(g, X) BY <1>0, <2>4, <2>6, AnswersKept
  <2>8. Served(g, st, G) BY <1>0, <2>5, <2>6 DEF Served
  <2>9. Follows(g, P \ {p}) BY <1>0, <2>1, <2>2, SettleFollows
  <2>10. Carries(h, g, st, {p}) BY <1>2, <2>5, <2>6 DEF Carries, StateKept, FateKept, RightsKept
  <2> QED BY <2>2, <2>3, <2>7, <2>8, <2>9, <2>10 DEF All
<1> QED BY <1>1, <1>2

LEMMA AdoptAll ==
  ASSUME NEW h, NEW st, NEW P, NEW G, NEW X, All(h, st, P, G, X), NEW p, NEW x,
         MayAdopt(h, st, p, x), NEW g, g = promResolve(h, p, x)
  PROVE  /\ g \in Heap /\ All(g, st, P, G, X) /\ Carries(h, g, st, {p})
<1>0. /\ h \in Heap /\ Core(h, st) /\ Follows(h, P) /\ Served(h, st, G) /\ Answers(h, X) /\ GensOK(h, st)
      /\ p \in Promise(h) /\ h.prom[p].state = "pending" /\ x \in (Promise(h) \cup Thenable) \ {p}
      /\ (h.prom[p].again \/ h.prom[p].fate = Undef) /\ PromisesOK(h, st)
  BY DEF All, Core, MayAdopt
<1>1. g \in Heap /\ Adopts(h, g, p, x) BY <1>0, AdoptEffect
<1>2. Core(g, st) /\ World(h, g) BY <1>0, <1>1, AdoptCore
<1>3. \A q \in Promise(h) : q \in Int /\ q \in Nat BY <1>0, Parts
<1>4. x \in Value /\ Undef \notin Promise(h) BY <1>0, <1>3, ValuesAssumption DEF Value
<1>5. \A K, y : /\ NoPlace(h, st, K, y) /\ ~("adopt" \in K /\ p = y) => NoPlace(g, st, K, y)
                /\ ~NoPlace(h, st, K, y) => ~NoPlace(g, st, K, y)
  BY <1>0, <1>1, <1>4, AdoptPlaces
<1>6. /\ g.combs = h.combs /\ g.ags = h.ags /\ g.gen = h.gen /\ Promise(g) = Promise(h)
      /\ (\A q \in Promise(h) : q # p => g.prom[q] = h.prom[q])
      /\ (\A q \in Promise(h) : g.prom[q].cbs = h.prom[q].cbs)
      /\ StateKept(h.prom[p], g.prom[p])
      /\ (IF h.prom[p].fate = Undef THEN g.prom[p].fate = x ELSE FateKept(h.prom[p], g.prom[p]))
      /\ g.queue = Append(h.queue, AdoptJob(h.gen, p, x))
  BY <1>1 DEF Adopts, OthersKept
<1>7. Answers(g, X) BY <1>0, <1>2, <1>6, AnswersKept
<1>8. Served(g, st, G) BY <1>0, <1>5, <1>6 DEF Served
<1>9. Carries(h, g, st, {p})
  <2>1. "adopt" \notin OfGen BY DEF OfGen
  <2>2. \A q \in Promise(h) : q # p /\ NoPlace(h, st, OfPromise, q) => NoPlace(g, st, OfPromise, q) BY <1>5
  <2>3. \A k : NoPlace(h, st, OfGen, k) => NoPlace(g, st, OfGen, k) BY <1>5, <2>1
  <2> QED BY <1>0, <1>6, <2>2, <2>3 DEF Carries, StateKept, FateKept, RightsKept
<1> DEFINE n == Len(h.queue)
           j == AdoptJob(h.gen, p, x)
<1>10. n \in Nat /\ DOMAIN h.queue = 1 .. n /\ h.queue \in Seq(JobRec) /\ h.gen \in Nat BY <1>0, Parts
<1>11. j.kind = "adopt" /\ j.p = p /\ j.x = x BY DEF AdoptJob
<1>12. j \in JobRec BY <1>0, <1>3, <1>4, <1>10 DEF AdoptJob, JobRec
<1>13. /\ DOMAIN g.queue = 1 .. n + 1 /\ g.queue[n + 1] = j /\ \A i \in 1 .. n : g.queue[i] = h.queue[i]
  <2> HIDE DEF j
  <2> QED BY <1>6, <1>10, <1>12, Appended DEF j
<1> HIDE DEF n, j
<1> DEFINE last == n + 1
<1>14. last \in DOMAIN g.queue /\ g.queue[last] = j /\ \A i \in DOMAIN h.queue : i \in DOMAIN g.queue /\ g.queue[i] = h.queue[i]
  BY <1>10, <1>13
<1> HIDE DEF last
<1>15. Follows(g, P)
  <2> SUFFICES ASSUME NEW q \in Promise(h), q \notin P, g.prom[q].state = "pending", g.prom[q].fate \in Promise(h)
               PROVE  Followed(g, q, g.prom[q].fate)
    BY <1>6 DEF Follows
  <2>1. CASE q = p /\ h.prom[p].fate = Undef
    <3>1. g.prom[q].fate = x BY <1>6, <2>1
    <3> QED BY <1>11, <1>14, <2>1, <3>1 DEF Followed
  <2>2. CASE q # p \/ h.prom[p].fate # Undef
    <3>1. g.prom[q].state = h.prom[q].state /\ g.prom[q].fate = h.prom[q].fate BY <1>6, <2>2 DEF StateKept, FateKept
    <3> DEFINE y == h.prom[q].fate
    <3>2. Followed(h, q, y) /\ y \in Promise(h) BY <1>0, <3>1 DEF Follows
    <3>3. g.prom[y].cbs = h.prom[y].cbs BY <1>6, <3>2
    <3> HIDE DEF y
    <3>4. Followed(g, q, y) BY <1>14, <3>2, <3>3 DEF Followed
    <3> QED BY <3>1, <3>4 DEF y
  <2> QED BY <2>1, <2>2
<1> QED BY <1>1, <1>2, <1>7, <1>8, <1>9, <1>15 DEF All

LEMMA ThenAll ==
  ASSUME NEW h, NEW st, NEW P, NEW G, NEW X, All(h, st, P, G, X), NEW p, NEW r,
         MayGoOn(h, st, p, r), NEW g, g = promThen(h, p, r), NEW Q, NEW H,
         \A q \in P : q \notin Q => r.kind = "settle" /\ r.to = q /\ h.prom[q].fate = p,
         \A k \in G : k \notin H => r.kind \in OfGen /\ r.to = k
  PROVE  g \in Heap /\ All(g, st, Q, H, X) /\ ThenKeeps(h, g, p)
<1> DEFINE m == [r EXCEPT !.n = h.prom[p].reg + 1]
<1>0. /\ h \in Heap /\ Core(h, st) /\ Follows(h, P) /\ Served(h, st, G) /\ Answers(h, X) /\ GensOK(h, st)
      /\ p \in Promise(h) /\ r \in ReactionRec /\ ReactionOK(h, p, r)
  BY DEF All, Core, MayGoOn, ReactionOK
<1>1. h.prom[p].reg \in Nat /\ h.prom[p].reg + 1 \in Nat BY <1>0, Parts, PromiseParts
<1>2. m \in ReactionRec /\ m.kind = r.kind /\ m.to = r.to BY <1>0, <1>1, Numbered
<1>3. /\ g \in Heap /\ (h.prom[p].state = "pending" => Waits(h, g, p, m)) /\ (h.prom[p].state # "pending" => Queues(h, g, p, m))
  BY <1>0, ThenEffect
<1>4. Core(g, st) /\ ThenKeeps(h, g, p) BY <1>0, <1>3, ThenCore
<1> HIDE DEF m
<1>5. World(h, g) BY <1>0, <1>3, <1>4, ThenUndisturbed
<1>6. Waits(h, g, p, m) \/ Queues(h, g, p, m) BY <1>3
<1>7. \A K, x : (m.kind \in K /\ m.to = x) \/ ~NoPlace(h, st, K, x) => ~NoPlace(g, st, K, x)
  BY ONLY <1>0, <1>2, <1>3, <1>6, ThenPlaces
<1>8. g.combs = h.combs /\ g.ags = h.ags /\ g.gen = h.gen /\ Promise(g) = Promise(h)
      /\ \A q \in Promise(h) : g.prom[q].state = h.prom[q].state /\ g.prom[q].fate = h.prom[q].fate
  BY <1>4 DEF ThenKeeps, OthersKept, FateKept, StateKept
<1>9. Answers(g, X) BY <1>0, <1>5, <1>8, AnswersKept
<1>10. Served(g, st, H)
  <2> SUFFICES ASSUME NEW k \in DOMAIN h.ags, k \notin H
               PROVE  /\ h.ags[k].q # <<>> => h.ags[k].run
                      /\ h.ags[k].run /\ ~h.ags[k].lost => ~NoPlace(g, st, OfGen, k)
    BY <1>8 DEF Served
  <2>1. CASE k \notin G BY <1>0, <1>7, <2>1 DEF Served
  <2>2. CASE k \in G
    <3>1. r.kind \in OfGen /\ r.to = k BY <2>2
    <3>2. Serving(h, k) BY <1>0, <3>1 DEF ReactionOK, OfGen, ReactionRec
    <3>3. ~NoPlace(g, st, OfGen, k) BY <1>2, <1>7, <3>1
    <3> QED BY <3>2, <3>3 DEF Serving
  <2> QED BY <2>1, <2>2
<1>11. Follows(g, Q)
  <2> SUFFICES ASSUME NEW q \in Promise(h), q \notin Q, h.prom[q].state = "pending", h.prom[q].fate \in Promise(h)
               PROVE  Followed(g, q, h.prom[q].fate)
    BY <1>8 DEF Follows
  <2> DEFINE x == h.prom[q].fate
  <2>w. CASE h.prom[p].state = "pending"
    <3> DEFINE c == h.prom[p].cbs
               d == g.prom[p].cbs
               l == Len(c)
    <3>1. g.queue = h.queue /\ d = Append(c, m) /\ \A y \in Promise(h) : y # p => g.prom[y].cbs = h.prom[y].cbs
      BY <1>3, <2>w DEF Waits, OthersKept
    <3>2. c \in Seq(ReactionRec) /\ l \in Nat BY <1>0, Parts, PromiseParts
    <3> HIDE DEF c, d
    <3>3. DOMAIN d = 1 .. l + 1 /\ DOMAIN c = 1 .. l /\ d[l + 1] = m /\ \A k \in 1 .. l : d[k] = c[k]
      BY <1>2, <3>1, <3>2, Appended, Indices
    <3> HIDE DEF l
    <3> DEFINE last == l + 1
    <3>4. last \in DOMAIN d /\ d[last] = m /\ \A k \in DOMAIN c : k \in DOMAIN d /\ d[k] = c[k] BY ONLY <3>2, <3>3
    <3> HIDE DEF last
    <3>5. CASE q \notin P
      <4>1. Followed(h, q, x) /\ x \in Promise(h) BY <1>0, <3>5 DEF Follows
      <4> HIDE DEF x
      <4>2. ASSUME NEW i \in DOMAIN h.prom[x].cbs, h.prom[x].cbs[i].kind = "settle" /\ h.prom[x].cbs[i].to = q
            PROVE  \E k \in DOMAIN g.prom[x].cbs : g.prom[x].cbs[k].kind = "settle" /\ g.prom[x].cbs[k].to = q
        <5>1. CASE x # p BY <3>1, <4>1, <4>2, <5>1
        <5>2. CASE x = p BY <3>4, <4>2, <5>2 DEF c, d
        <5> QED BY <5>1, <5>2
      <4> QED BY ONLY <3>1, <4>1, <4>2, ZenonT(60) DEF Followed, x
    <3>6. CASE q \in P
      <4>1. m.kind = "settle" /\ m.to = q /\ x = p BY <1>2, <3>6
      <4> QED BY <3>4, <4>1 DEF Followed, d
    <3> QED BY <3>5, <3>6
  <2>q. CASE h.prom[p].state # "pending"
    <3> DEFINE n == Len(h.queue)
               j == ReactionJob(h.gen, p, m, h.prom[p].state, h.prom[p].value)
    <3>0. n \in Nat /\ DOMAIN h.queue = 1 .. n /\ h.queue \in Seq(JobRec) /\ h.gen + 1 \in Nat /\ h.prom[p].value \in Value /\ p \in Nat
      BY <1>0, Parts, PromiseParts
    <3>1. g.queue = Append(h.queue, j) /\ \A y \in Promise(h) : g.prom[y].cbs = h.prom[y].cbs
      BY <1>3, <2>q DEF Queues, OthersKept
    <3>2. j.kind = "reaction" /\ j.p = p /\ j.r = m BY DEF ReactionJob
    <3>3. j \in JobRec BY <1>2, <3>0 DEF ReactionJob, JobRec
    <3> HIDE DEF j
    <3>4. /\ DOMAIN g.queue = 1 .. n + 1 /\ g.queue[n + 1] = j /\ \A i \in 1 .. n : g.queue[i] = h.queue[i]
      BY <3>0, <3>1, <3>3, Appended
    <3> HIDE DEF n
    <3> DEFINE last == n + 1
    <3>5. last \in DOMAIN g.queue /\ g.queue[last] = j /\ \A i \in DOMAIN h.queue : i \in DOMAIN g.queue /\ g.queue[i] = h.queue[i]
      BY <3>0, <3>4
    <3> HIDE DEF last
    <3>6. CASE q \notin P
      <4>1. Followed(h, q, x) /\ x \in Promise(h) BY <1>0, <3>6 DEF Follows
      <4>2. g.prom[x].cbs = h.prom[x].cbs BY <3>1, <4>1
      <4> HIDE DEF x
      <4> QED BY ONLY <3>5, <4>1, <4>2, ZenonT(60) DEF Followed, x
    <3>7. CASE q \in P
      <4>1. m.kind = "settle" /\ m.to = q /\ x = p BY <1>2, <3>7
      <4> QED BY <3>2, <3>5, <4>1 DEF Followed
    <3> QED BY <3>6, <3>7
  <2> QED BY <2>w, <2>q
<1> QED BY <1>3, <1>4, <1>9, <1>10, <1>11 DEF All


-----------------------------------------------------------------------------
(* Promises are made and resolved.                                         *)

\* What no reaction and no job is changed by.
LEMMA QuietAll ==
  ASSUME NEW h, NEW st, NEW P, NEW G, NEW X, All(h, st, P, G, X), NEW g \in Heap, Quiet(h, g), Undisturbed(h, st, g),
         \A q \in Promise(h) : PromOK(g, st, q) \/ RightsKept(h.prom[q], g.prom[q]),
         CombsOK(g, st), GensOK(g, st), RequestsOK(g, st),
         NEW H, Served(g, st, H), NEW Y, Answers(g, Y)
  PROVE  All(g, st, P, H, Y)
<1>1. h \in Heap /\ Core(h, st) /\ Follows(h, P) /\ PromisesOK(h, st) BY DEF All, Core
<1>2. Core(g, st) BY <1>1, QuietCore
<1>3. \A q \in Promise(g) : q \in Int BY Parts
<1>4. \A q \in Promise(h) : h.prom[q].fate \in Promise(g) => h.prom[q].fate \in Promise(h)
  BY <1>1, <1>3, ValuesAssumption DEF PromisesOK, PromOK
<1>5. Follows(g, P) BY <1>1, <1>4, QuietFollows
<1> QED BY <1>2, <1>5 DEF All

LEMMA MakeAll ==
  ASSUME NEW h, NEW st, NEW P, NEW G, NEW X, All(h, st, P, G, X),
         NEW s, s = NewPromise \/ s = [NewPromise EXCEPT !.cap = TRUE],
         NEW g, g = [h EXCEPT !.prom = Append(@, s)], NEW n, n = Len(h.prom) + 1
  PROVE  /\ g \in Heap /\ Makes(h, g, s) /\ All(g, st, P, G, X) /\ Carries(h, g, st, {})
         /\ n \in Promise(g) /\ n \notin Promise(h) /\ g.prom[n] = s /\ n = Len(g.prom)
         /\ Promise(g) = Promise(h) \cup {n}
         /\ NoPlace(g, st, OfPromise, n) /\ ~IsRequest(g, n) /\ ~IsOut(g, n)
<1>0. /\ h \in Heap /\ Core(h, st) /\ Follows(h, P) /\ Served(h, st, G) /\ Answers(h, X)
      /\ PromisesOK(h, st) /\ CombsOK(h, st) /\ GensOK(h, st) /\ RequestsOK(h, st)
  BY DEF All, Core
<1>1. s \in PromiseRec BY NewIsPromise
<1>2. g \in Heap /\ Makes(h, g, s) BY <1>0, <1>1, MakeEffect
<1>3. /\ g.combs = h.combs /\ g.ags = h.ags /\ g.gen = h.gen /\ g.queue = h.queue
      /\ Promise(g) = Promise(h) \cup {n} /\ n \notin Promise(h) /\ g.prom[n] = s /\ n = Len(g.prom)
      /\ \A q \in Promise(h) : g.prom[q] = h.prom[q]
  BY <1>2 DEF Makes
<1>4. Quiet(h, g) BY <1>3 DEF Quiet, StateKept, FateKept
<1>5. \A K, x : NoPlace(g, st, K, x) <=> NoPlace(h, st, K, x) BY <1>0, <1>2, <1>4, QuietPlaces
<1>6. \A K, x : OnePlace(h, st, K, x) => OnePlace(g, st, K, x) BY <1>0, <1>2, <1>4, QuietPlaces
<1>7. \A q \in Promise(h) : Owned(h, q) => Owned(g, q) BY <1>3 DEF Owned
<1>8. Undisturbed(h, st, g)
  <2>1. h.gen \in Nat BY <1>0, Parts
  <2>2. World(h, g) BY ONLY <1>3, <2>1 DEF World, StateKept
  <2>3. \A q \in Promise(h) : Kept(h, g, q) BY <1>3, <1>7 DEF Kept, FateKept
  <2>4. \A k \in DOMAIN h.ags : KeptGen(h, g, k) BY <1>3 DEF KeptGen, Serving
  <2> QED BY <2>2, <2>3, <2>4 DEF Undisturbed
<1>9. \A q \in Promise(h) : RightsKept(h.prom[q], g.prom[q]) BY <1>3 DEF RightsKept
<1>10. CombsOK(g, st)
  <2> SUFFICES ASSUME NEW k \in DOMAIN h.combs PROVE CombOK(g, st, k) BY <1>3, Zenon DEF CombsOK
  <2>1. CombOK(h, st, k) BY <1>0 DEF CombsOK
  <2> QED BY ONLY <1>3, <1>5, <2>1 DEF CombOK, IsRequest
<1>11. GensOK(g, st)
  <2> SUFFICES ASSUME NEW k \in DOMAIN h.ags PROVE GenOK(g, st, k) BY <1>3 DEF GensOK
  <2>1. GenOK(h, st, k) BY <1>0 DEF GensOK
  <2>2. g.ags[k] = h.ags[k] BY <1>3
  <2>3. OnePlace(g, st, OfGen, k) BY <1>6, <2>1, Zenon DEF GenOK
  <2> QED BY ONLY <1>3, <2>1, <2>2, <2>3, Zenon DEF GenOK
<1>12. RequestsOK(g, st)
  <2>1. \A p : IsRequest(h, p) /\ Owned(h, p) /\ NoPlace(h, st, OfPromise, p) => Owned(g, p) /\ NoPlace(g, st, OfPromise, p)
    BY <1>5, <1>7 DEF Owned
  <2> QED BY <1>0, <1>3, <2>1, RequestsKept
<1>13. Served(g, st, G) BY <1>0, <1>3, <1>5 DEF Served
<1>14. Answers(g, X) BY <1>0, <1>3, <1>8, AnswersKept DEF Undisturbed
<1>15. All(g, st, P, G, X) BY <1>2, <1>4, <1>8, <1>9, <1>10, <1>11, <1>12, <1>13, <1>14, QuietAll
<1>16. Carries(h, g, st, {}) BY <1>3, <1>5 DEF Carries, FateKept, RightsKept
<1>17. NoPlace(h, st, OfPromise, n) /\ ~IsRequest(h, n) /\ ~IsOut(h, n) BY <1>0, <1>3, Fresh
<1>18. NoPlace(g, st, OfPromise, n) /\ ~IsRequest(g, n) /\ ~IsOut(g, n) BY ONLY <1>3, <1>5, <1>17 DEF IsRequest, IsOut
<1> QED BY <1>2, <1>3, <1>15, <1>16, <1>18

\* Nothing else goes on with p and no generator will answer it.
Free(h, st, p) ==
  /\ p \in Promise(h) /\ ~IsRequest(h, p)
  /\ h.prom[p].again \/ (NoPlace(h, st, OfPromise, p) /\ h.prom[p].fate = Undef)

LEMMA FreeMayFinish ==
  ASSUME NEW h \in Heap, NEW st, NEW p, h.prom[p].state = "pending", Free(h, st, p),
         NEW how \in {"fulfilled", "rejected"}, NEW v \in Value, how = "fulfilled" => v \in Final
  PROVE  MayFinish(h, st, p, how, v)
<1>1. \A q \in Promise(h) : q \in Int BY Parts
<1>2. Undef \notin Promise(h) BY <1>1, ValuesAssumption
<1> QED BY <1>2 DEF Free, MayFinish

LEMMA ResolveFinal ==
  ASSUME NEW h \in Heap, NEW p \in Promise(h), NEW x \in Final
  PROVE  promResolve(h, p, x) = promSettle(h, p, "fulfilled", x)
<1>1. \A q \in Promise(h) : q \in Nat BY Parts
<1>2. x # p /\ x \notin Promise(h) /\ x \notin Thenable BY <1>1 DEF Final
<1>3. h.prom[p].state # "pending" => promSettle(h, p, "fulfilled", x) = h BY DEF promSettle
<1> QED BY <1>2, <1>3 DEF promResolve

LEMMA ResolveAll ==
  ASSUME NEW h, NEW st, NEW G, NEW X, All(h, st, {}, G, X), NEW p \in Promise(h), NEW x \in Final \cup Promise(h) \cup Thenable,
         h.prom[p].state = "pending" => Free(h, st, p) /\ (x \in Final \/ ~IsOut(h, p)),
         NEW g, g = promResolve(h, p, x)
  PROVE  g \in Heap /\ All(g, st, {}, G, X) /\ Carries(h, g, st, {p})
<1>0. h \in Heap /\ Core(h, st) BY DEF All, Core
<1>1. CASE h.prom[p].state # "pending"
  <2>1. g = h BY <1>1 DEF promResolve
  <2> QED BY <1>0, <1>1, <2>1 DEF Carries, StateKept, FateKept, RightsKept
<1>2. CASE h.prom[p].state = "pending" /\ x = p
  <2>1. g = promSettle(h, p, "rejected", CycleError) BY <1>2 DEF promResolve
  <2>2. CycleError \in Value BY DEF Value
  <2>3. MayFinish(h, st, p, "rejected", CycleError) BY <1>0, <1>2, <2>2, FreeMayFinish
  <2>4. All(g, st, {} \ {p}, G, X) BY <2>1, <2>3, SettleAll
  <2>5. {} \ {p} = {} OBVIOUS
  <2> QED BY <2>1, <2>3, <2>4, <2>5, SettleAll
<1>3. CASE h.prom[p].state = "pending" /\ x # p /\ x \notin Final
  <2>1. MayAdopt(h, st, p, x) BY <1>3 DEF MayAdopt, Free
  <2> QED BY <2>1, AdoptAll
<1>4. CASE h.prom[p].state = "pending" /\ x # p /\ x \in Final
  <2>1. g = promSettle(h, p, "fulfilled", x) BY <1>0, <1>4, ResolveFinal
  <2>2. x \in Value BY <1>4 DEF Final
  <2>3. MayFinish(h, st, p, "fulfilled", x) BY <1>0, <1>4, <2>2, FreeMayFinish
  <2>4. All(g, st, {} \ {p}, G, X) BY <2>1, <2>3, SettleAll
  <2>5. {} \ {p} = {} OBVIOUS
  <2> QED BY <2>1, <2>3, <2>4, <2>5, SettleAll
<1> QED BY <1>1, <1>2, <1>3, <1>4

LEMMA RejectAll ==
  ASSUME NEW h, NEW st, NEW G, NEW X, All(h, st, {}, G, X), NEW p \in Promise(h), NEW v \in Value,
         h.prom[p].state = "pending" => Free(h, st, p), NEW g, g = promSettle(h, p, "rejected", v)
  PROVE  g \in Heap /\ All(g, st, {}, G, X) /\ Carries(h, g, st, {p})
<1>0. h \in Heap BY DEF All, Core
<1>1. h.prom[p].state = "pending" => MayFinish(h, st, p, "rejected", v) BY <1>0, FreeMayFinish
<1>2. /\ g \in Heap /\ All(g, st, {} \ {p}, G, X) /\ Carries(h, g, st, {p}) BY <1>1, SettleAll
<1>3. {} \ {p} = {} OBVIOUS
<1> QED BY <1>2, <1>3

\* What an earlier step left alone and a later one too.
LEMMA CarriesOn ==
  ASSUME NEW h, NEW g, NEW f, NEW st, NEW S, NEW T, Carries(h, g, st, S), Carries(g, f, st, T)
  PROVE  Carries(h, f, st, S \cup T)
BY DEF Carries, FateKept, RightsKept

LEMMA CarriesFewer ==
  ASSUME NEW h, NEW g, NEW st, NEW T, NEW n, n \notin Promise(h), Carries(h, g, st, T \cup {n})
  PROVE  Carries(h, g, st, T)
BY DEF Carries

\* promResolveValue: the promise for x is there and nobody else's.
LEMMA ResolveValueAll ==
  ASSUME NEW h, NEW st, NEW G, NEW X, All(h, st, {}, G, X), NEW x \in Final \cup Promise(h) \cup Thenable,
         NEW g, g = promResolveValue(h, x)
  PROVE  g \in Heap /\ All(g, st, {}, G, X) /\ Carries(h, g, st, {}) /\ Resolved(h, x) \in Promise(g)
<1>0. h \in Heap BY DEF All, Core
<1>1. CASE x \in Promise(h)
  BY <1>0, <1>1 DEF promResolveValue, Resolved, Carries, StateKept, FateKept, RightsKept
<1>2. CASE x \notin Promise(h)
  <2> DEFINE n == Len(h.prom) + 1
             h1 == [h EXCEPT !.prom = Append(@, NewPromise)]
  <2>1. g = promResolve(h1, n, x) /\ Resolved(h, x) = n BY <1>2 DEF promResolveValue, Resolved, promNew, Last1
  <2>2. /\ h1 \in Heap /\ All(h1, st, {}, G, X) /\ Carries(h, h1, st, {}) /\ n \in Promise(h1) /\ n \notin Promise(h)
        /\ h1.prom[n] = NewPromise /\ NoPlace(h1, st, OfPromise, n) /\ ~IsRequest(h1, n) /\ ~IsOut(h1, n)
    BY MakeAll
  <2> HIDE DEF h1, n
  <2>3. Free(h1, st, n) BY <2>2, NewParts DEF Free
  <2>4. x \in Final \cup Promise(h1) \cup Thenable BY <1>2
  <2>5. g \in Heap /\ All(g, st, {}, G, X) /\ Carries(h1, g, st, {n}) BY <2>1, <2>2, <2>3, <2>4, ResolveAll
  <2>6. Carries(h, g, st, {} \cup {n}) BY <2>2, <2>5, CarriesOn
  <2>7. Carries(h, g, st, {}) BY <2>2, <2>6, CarriesFewer
  <2>8. n \in Promise(g) BY <2>2, <2>5 DEF Carries
  <2> QED BY <2>1, <2>5, <2>7, <2>8
<1> QED BY <1>1, <1>2

\* The program gets the functions of p, or settles it although it was resolved.
LEMMA RightsAll ==
  ASSUME NEW h, NEW st, NEW P, NEW G, NEW X, All(h, st, P, G, X), NEW p \in Promise(h), NEW g \in Heap,
         g.combs = h.combs, g.ags = h.ags, g.gen = h.gen, g.queue = h.queue, OthersKept(h, g, p),
         StateKept(h.prom[p], g.prom[p]), FateKept(h.prom[p], g.prom[p]), g.prom[p].cbs = h.prom[p].cbs,
         g.prom[p].reg = h.prom[p].reg, g.prom[p].ran = h.prom[p].ran, ~Owned(h, p),
         h.prom[p].cap => g.prom[p].cap, g.prom[p].again = h.prom[p].again \/ g.prom[p].again,
         g.prom[p].again => h.prom[p].fate # Undef, g.prom[p].cap /\ h.prom[p].fate = Undef => h.prom[p].cap
  PROVE  All(g, st, P, G, X) /\ \A K, x : NoPlace(g, st, K, x) <=> NoPlace(h, st, K, x)
<1>0. /\ h \in Heap /\ Core(h, st) /\ Follows(h, P) /\ Served(h, st, G) /\ Answers(h, X)
      /\ PromisesOK(h, st) /\ CombsOK(h, st) /\ GensOK(h, st) /\ RequestsOK(h, st)
  BY DEF All, Core
<1>1. Promise(g) = Promise(h) /\ \A q \in Promise(h) : q # p => g.prom[q] = h.prom[q] BY DEF OthersKept
<1>2. \A q \in Promise(h) : /\ StateKept(h.prom[q], g.prom[q]) /\ FateKept(h.prom[q], g.prom[q])
                            /\ g.prom[q].cbs = h.prom[q].cbs
                            /\ g.prom[q].reg = h.prom[q].reg /\ g.prom[q].ran = h.prom[q].ran
                            /\ (h.prom[q].cap => g.prom[q].cap)
  BY <1>1 DEF StateKept, FateKept
<1>3. Quiet(h, g) BY <1>1, <1>2 DEF Quiet
<1>4. \A K, x : NoPlace(g, st, K, x) <=> NoPlace(h, st, K, x) BY <1>0, <1>3, QuietPlaces
<1>5. \A K, x : OnePlace(h, st, K, x) => OnePlace(g, st, K, x) BY <1>0, <1>3, QuietPlaces
<1>6. \A q \in Promise(h) : Owned(h, q) => Owned(g, q) BY <1>1 DEF Owned
<1>7. Undisturbed(h, st, g)
  <2>1. h.gen \in Nat BY <1>0, Parts
  <2>2. World(h, g) BY <1>1, <1>2, <2>1 DEF World
  <2>3. \A q \in Promise(h) : Kept(h, g, q) BY <1>1, <1>2, <1>6 DEF Kept, StateKept
  <2>4. \A k \in DOMAIN h.ags : KeptGen(h, g, k) BY DEF KeptGen, Serving
  <2> QED BY <2>2, <2>3, <2>4 DEF Undisturbed
<1>8. PromOK(g, st, p)
  <2>1. PromOK(h, st, p) BY <1>0 DEF PromisesOK
  <2> DEFINE s == h.prom[p]
             t == g.prom[p]
  <2>2. /\ t.state = s.state /\ t.value = s.value /\ t.at = s.at /\ t.fate = s.fate /\ t.fateAt = s.fateAt /\ t.cbs = s.cbs
    BY <1>2 DEF StateKept, FateKept
  <2>3. \A q \in Promise(h) : g.prom[q].state = h.prom[q].state /\ g.prom[q].value = h.prom[q].value /\ g.prom[q].at = h.prom[q].at
    BY <1>2 DEF StateKept
  <2>4. ~t.again => OnePlace(g, st, OfPromise, p) BY <1>5, <2>1 DEF PromOK
  <2>5. t.cap /\ t.fate = Undef => NoPlace(g, st, OfPromise, p) BY <1>4, <2>1, <2>2 DEF PromOK
  <2>6. ~t.again => ~s.again OBVIOUS
  <2>7. t.again => t.fate # Undef BY <2>2
  <2> QED BY ONLY <1>1, <2>1, <2>2, <2>3, <2>4, <2>5, <2>6, <2>7, g.gen = h.gen DEF PromOK
<1>9. \A q \in Promise(h) : PromOK(g, st, q) \/ RightsKept(h.prom[q], g.prom[q]) BY <1>1, <1>8 DEF RightsKept
<1>10. CombsOK(g, st)
  <2> SUFFICES ASSUME NEW k \in DOMAIN h.combs PROVE CombOK(g, st, k) BY DEF CombsOK
  <2>1. CombOK(h, st, k) BY <1>0 DEF CombsOK
  <2> DEFINE o == h.combs[k].out
  <2>2. ~g.prom[o].cap /\ ~g.prom[o].again /\ g.prom[o].fate = Undef BY <1>1, <1>2, <2>1, Zenon DEF CombOK, FateKept
  <2> QED BY <1>1, <1>4, <2>1, <2>2 DEF CombOK, IsRequest
<1>11. GensOK(g, st)
  <2> SUFFICES ASSUME NEW k \in DOMAIN h.ags PROVE GenOK(g, st, k) BY DEF GensOK
  <2>1. GenOK(h, st, k) BY <1>0 DEF GensOK
  <2>2. OnePlace(g, st, OfGen, k) BY <1>5, <2>1, Zenon DEF GenOK
  <2>3. g.ags = h.ags OBVIOUS
  <2> QED BY ONLY <1>1, <2>1, <2>2, <2>3, ZenonT(60) DEF GenOK
<1>12. RequestsOK(g, st)
  <2>1. \A q : IsRequest(h, q) /\ Owned(h, q) /\ NoPlace(h, st, OfPromise, q) => Owned(g, q) /\ NoPlace(g, st, OfPromise, q)
    BY <1>4, <1>6 DEF Owned
  <2> QED BY <1>0, <2>1, RequestsKept
<1>13. Served(g, st, G) BY <1>0, <1>4 DEF Served
<1>14. Answers(g, X) BY <1>0, <1>7, AnswersKept DEF Undisturbed
<1> QED BY <1>3, <1>4, <1>7, <1>9, <1>10, <1>11, <1>12, <1>13, <1>14, QuietAll

LEMMA MarkAll ==
  ASSUME NEW h, NEW st, NEW P, NEW G, NEW X, All(h, st, P, G, X), NEW p \in Promise(h), h.prom[p].cap, NEW g, g = Again(h, p)
  PROVE  /\ g \in Heap /\ All(g, st, P, G, X) /\ Promise(g) = Promise(h) /\ Free(g, st, p) /\ ~IsOut(g, p)
<1>0. /\ h \in Heap /\ Core(h, st) /\ PromisesOK(h, st) /\ CombsOK(h, st) /\ RequestsOK(h, st) BY DEF All, Core
<1> DEFINE s == h.prom[p]
           b == s.again \/ s.fate # Undef
           s1 == [s EXCEPT !.again = b]
<1>1. s \in PromiseRec /\ h.prom \in Seq(PromiseRec) /\ p \in 1 .. Len(h.prom) BY <1>0, Parts
<1>2. s.again \in BOOLEAN BY <1>1, PromiseParts
<1>3. b \in BOOLEAN /\ s1 \in PromiseRec BY <1>1, <1>2, AgainSet
<1>4. /\ g.prom = [h.prom EXCEPT ![p] = s1] /\ g.queue = h.queue /\ g.combs = h.combs /\ g.ags = h.ags /\ g.gen = h.gen
      /\ g = [prom |-> g.prom, combs |-> g.combs, ags |-> g.ags, queue |-> g.queue, gen |-> g.gen]
  BY <1>0 DEF Again, Heap
<1>5. /\ StateKept(s, s1) /\ s1.cbs = s.cbs /\ s1.ran = s.ran /\ s1.reg = s.reg /\ FateKept(s, s1) /\ s1.cap = s.cap
      /\ s1.again = b
  BY <1>1 DEF PromiseRec, FateKept, StateKept
<1> HIDE DEF s1
<1>6. /\ g.prom \in Seq(PromiseRec) /\ Len(g.prom) = Len(h.prom) /\ DOMAIN g.prom = DOMAIN h.prom
      /\ g.prom[p] = s1 /\ \A q \in DOMAIN h.prom : q # p => g.prom[q] = h.prom[q]
  BY ONLY <1>0, <1>1, <1>3, <1>4, Replaced, Parts
<1>7. g \in Heap BY <1>0, <1>4, <1>6, Parts DEF Heap
<1>8. OthersKept(h, g, p) /\ Promise(g) = Promise(h) BY <1>6 DEF OthersKept, Promise
<1>9. PromOK(h, st, p) BY <1>0 DEF PromisesOK
<1>10. ~Owned(h, p) BY DEF Owned
<1>11. b => s.fate # Undef BY <1>9 DEF PromOK
<1>12. g.prom[p].again = h.prom[p].again \/ g.prom[p].again BY <1>5, <1>6, <1>2
<1>13. All(g, st, P, G, X) /\ \A K, x : NoPlace(g, st, K, x) <=> NoPlace(h, st, K, x)
  BY <1>4, <1>5, <1>6, <1>7, <1>8, <1>10, <1>11, <1>12, RightsAll, Zenon
<1>14. ~IsRequest(h, p) /\ ~IsOut(h, p) BY <1>0, <1>10 DEF RequestsOK, IsRequest, CombsOK, CombOK, IsOut
<1>15. ~IsRequest(g, p) /\ ~IsOut(g, p) BY <1>4, <1>14 DEF IsRequest, IsOut
<1>16. g.prom[p].again \/ (NoPlace(g, st, OfPromise, p) /\ g.prom[p].fate = Undef)
  BY <1>5, <1>6, <1>9, <1>13 DEF PromOK, FateKept
<1> QED BY <1>7, <1>8, <1>13, <1>15, <1>16 DEF Free

LEMMA CapAll ==
  ASSUME NEW h, NEW st, NEW P, NEW G, NEW X, All(h, st, P, G, X), NEW p \in Promise(h), h.prom[p].fate # Undef,
         NEW g, g = [h EXCEPT !.prom[p].cap = TRUE]
  PROVE  g \in Heap /\ All(g, st, P, G, X) /\ Promise(g) = Promise(h) /\ g.prom[p].cap
<1>0. /\ h \in Heap BY DEF All, Core
<1> DEFINE s == h.prom[p]
           s1 == [s EXCEPT !.cap = TRUE]
<1>1. s \in PromiseRec /\ h.prom \in Seq(PromiseRec) /\ p \in 1 .. Len(h.prom) BY <1>0, Parts
<1>3. s1 \in PromiseRec BY <1>1, CapSet
<1>4. /\ g.prom = [h.prom EXCEPT ![p] = s1] /\ g.queue = h.queue /\ g.combs = h.combs /\ g.ags = h.ags /\ g.gen = h.gen
      /\ g = [prom |-> g.prom, combs |-> g.combs, ags |-> g.ags, queue |-> g.queue, gen |-> g.gen]
  BY <1>0 DEF Heap
<1>5. /\ StateKept(s, s1) /\ s1.cbs = s.cbs /\ s1.ran = s.ran /\ s1.reg = s.reg /\ FateKept(s, s1) /\ s1.cap = TRUE
      /\ s1.again = s.again
  BY <1>1 DEF PromiseRec, FateKept, StateKept
<1> HIDE DEF s1
<1>6. /\ g.prom \in Seq(PromiseRec) /\ Len(g.prom) = Len(h.prom) /\ DOMAIN g.prom = DOMAIN h.prom
      /\ g.prom[p] = s1 /\ \A q \in DOMAIN h.prom : q # p => g.prom[q] = h.prom[q]
  BY ONLY <1>0, <1>1, <1>3, <1>4, Replaced, Parts
<1>7. g \in Heap BY <1>0, <1>4, <1>6, Parts DEF Heap
<1>8. OthersKept(h, g, p) /\ Promise(g) = Promise(h) BY <1>6 DEF OthersKept, Promise
<1>10. ~Owned(h, p) BY DEF Owned
<1>12. g.prom[p].again = h.prom[p].again \/ g.prom[p].again BY <1>5, <1>6
<1>13. All(g, st, P, G, X)
  BY <1>4, <1>5, <1>6, <1>7, <1>8, <1>10, <1>12, RightsAll
<1> QED BY <1>5, <1>6, <1>7, <1>8, <1>13

-----------------------------------------------------------------------------
(* The stack.                                                              *)

FrameRec ==
  [kind: {"script", "executor", "thenable", "async", "handler", "finally", "combine", "agen", "agclose"},
   p: Nat, ok: BOOLEAN, arg: Value \cup Seq(Value)]

LEMMA Fronted ==
  ASSUME NEW S, NEW s \in Seq(S), s # <<>>, NEW n, n = Len(s)
  PROVE  /\ n \in Nat /\ n >= 1 /\ DOMAIN s = 1 .. n /\ Front(s) \in Seq(S) /\ DOMAIN Front(s) = 1 .. n - 1
         /\ \A i \in 1 .. n - 1 : Front(s)[i] = s[i]
         /\ Last(s) = s[n] /\ n \in DOMAIN s /\ Last(s) \in S
BY DEF Front, Last

LEMMA FrontedFrames ==
  ASSUME NEW s \in Seq(FrameRec), s # <<>>
  PROVE  Front(s) \in Seq(FrameRec) /\ Last(s) \in FrameRec
<1>1. PICK n : n = Len(s) OBVIOUS
<1>2. PICK F : F = FrameRec OBVIOUS
<1>3. s \in Seq(F) BY <1>2
<1> QED BY ONLY <1>1, <1>2, <1>3, s # <<>>, Fronted

LEMMA PopPlaces ==
  ASSUME NEW h, NEW st \in Seq(FrameRec), st # <<>>, NEW K, NEW x
  PROVE  /\ NoPlace(h, st, K, x) => NoPlace(h, Front(st), K, x)
         /\ OnePlace(h, st, K, x) => OnePlace(h, Front(st), K, x)
         /\ FrameGoes(Last(st), K, x) /\ OnePlace(h, st, K, x) => NoPlace(h, Front(st), K, x)
         /\ ~FrameGoes(Last(st), K, x) /\ ~NoPlace(h, st, K, x) => ~NoPlace(h, Front(st), K, x)
<1> DEFINE n == Len(st)
           f == Front(st)
           l == Last(st)
<1> HIDE DEF n, f, l
<1>1. /\ n \in Nat /\ n >= 1 /\ DOMAIN st = 1 .. n /\ DOMAIN f = 1 .. n - 1 /\ l = st[n]
      /\ \A i \in 1 .. n - 1 : f[i] = st[i]
  <2>1. n = Len(st) BY DEF n
  <2>2. /\ n \in Nat /\ n >= 1 /\ DOMAIN st = 1 .. n /\ DOMAIN Front(st) = 1 .. n - 1 /\ Last(st) = st[n]
        /\ \A i \in 1 .. n - 1 : Front(st)[i] = st[i]
    BY <2>1, Fronted
  <2> QED BY <2>2 DEF f, l
<1>2. \A i \in DOMAIN f : i \in DOMAIN st /\ f[i] = st[i] /\ i # n BY <1>1
<1>3. \A i \in DOMAIN st : i = n \/ i \in DOMAIN f BY <1>1
<1>4. n \in DOMAIN st BY <1>1
<1>5. NoneRuns(st, K, x) => NoneRuns(f, K, x) BY <1>2 DEF NoneRuns
<1>6. OneRuns(st, K, x) => OneRuns(f, K, x) BY <1>2 DEF OneRuns
<1>7. FrameGoes(l, K, x) /\ OneRuns(st, K, x) => NoneRuns(f, K, x) BY <1>1, <1>2, <1>4 DEF OneRuns, NoneRuns
<1>8. FrameGoes(l, K, x) => ~NoneRuns(st, K, x) BY <1>1, <1>4 DEF NoneRuns
<1>9. ~FrameGoes(l, K, x) /\ NoneRuns(f, K, x) => NoneRuns(st, K, x) BY <1>1, <1>2, <1>3 DEF NoneRuns
<1>a. NoPlace(h, st, K, x) => NoPlace(h, f, K, x) BY <1>5 DEF NoPlace
<1>b. OnePlace(h, st, K, x) => OnePlace(h, f, K, x) BY <1>5, <1>6 DEF OnePlace
<1>c. FrameGoes(l, K, x) /\ OnePlace(h, st, K, x) => NoPlace(h, f, K, x) BY <1>7, <1>8 DEF NoPlace, OnePlace
<1>d. ~FrameGoes(l, K, x) /\ ~NoPlace(h, st, K, x) => ~NoPlace(h, f, K, x) BY <1>9 DEF NoPlace
<1> QED BY <1>a, <1>b, <1>c, <1>d DEF f, l

\* The generator the code served that ends now.
Ended(f) == {k \in {f.p} : f.kind \in OfGen}

LEMMA PopAll ==
  ASSUME NEW h, NEW st \in Seq(FrameRec), st # <<>>, All(h, st, {}, {}, {}), NEW f, f = Last(st)
  PROVE  /\ All(h, Front(st), {}, Ended(f), {}) /\ Front(st) \in Seq(FrameRec) /\ FrameOK(h, f) /\ f \in FrameRec
         /\ f.kind \in OfPromise /\ ~h.prom[f.p].again => NoPlace(h, Front(st), OfPromise, f.p)
         /\ f.kind \in OfGen => NoPlace(h, Front(st), OfGen, f.p)
         /\ f.kind \notin OfGen => All(h, Front(st), {}, {}, {})
<1>0. /\ h \in Heap /\ Core(h, st) /\ Follows(h, {}) /\ Served(h, st, {}) /\ Answers(h, {}) /\ FramesOK(h, st)
      /\ PromisesOK(h, st) /\ CombsOK(h, st) /\ GensOK(h, st) /\ RequestsOK(h, st)
      /\ JobsOK(h) /\ WaitOK(h) /\ InOrderAll(h) /\ Gens(h)
  BY DEF All, Core
<1> DEFINE s == Front(st)
           n == Len(st)
<1>1. /\ s \in Seq(FrameRec) /\ f \in FrameRec /\ n \in DOMAIN st /\ f = st[n]
      /\ \A i \in DOMAIN s : i \in DOMAIN st /\ s[i] = st[i]
  <2> HIDE DEF n
  <2>1. n = Len(st) BY DEF n
  <2>2. /\ n \in Nat /\ n >= 1 /\ DOMAIN st = 1 .. n /\ DOMAIN Front(st) = 1 .. n - 1 /\ Last(st) = st[n]
        /\ Front(st) \in Seq(FrameRec) /\ Last(st) \in FrameRec /\ n \in DOMAIN st
        /\ \A i \in 1 .. n - 1 : Front(st)[i] = st[i]
    BY ONLY <2>1, st \in Seq(FrameRec), st # <<>>, Fronted
  <2>3. \A i \in 1 .. n - 1 : i \in 1 .. n BY <2>2
  <2> QED BY ONLY <2>2, <2>3, f = Last(st)
<1>2. FrameOK(h, f) /\ FramesOK(h, s)
  <2> HIDE DEF s, n
  <2> QED BY ONLY <1>0, <1>1 DEF FramesOK
<1>3. \A K, x : /\ NoPlace(h, st, K, x) => NoPlace(h, s, K, x)
                /\ OnePlace(h, st, K, x) => OnePlace(h, s, K, x)
                /\ FrameGoes(f, K, x) /\ OnePlace(h, st, K, x) => NoPlace(h, s, K, x)
                /\ ~FrameGoes(f, K, x) /\ ~NoPlace(h, st, K, x) => ~NoPlace(h, s, K, x)
  BY PopPlaces
<1> HIDE DEF s, n
<1>4. PromisesOK(h, s)
  <2> SUFFICES ASSUME NEW p \in Promise(h) PROVE PromOK(h, s, p) BY DEF PromisesOK
  <2>1. PromOK(h, st, p) BY <1>0 DEF PromisesOK
  <2>2. OnePlace(h, st, OfPromise, p) => OnePlace(h, s, OfPromise, p) BY <1>3
  <2>3. NoPlace(h, st, OfPromise, p) => NoPlace(h, s, OfPromise, p) BY <1>3
  <2> QED BY ONLY <2>1, <2>2, <2>3 DEF PromOK
<1>5. CombsOK(h, s)
  <2>1. \A p : NoPlace(h, st, OfPromise, p) => NoPlace(h, s, OfPromise, p) BY <1>3
  <2> QED BY ONLY <1>0, <2>1 DEF CombsOK, CombOK
<1>6. GensOK(h, s)
  <2>1. \A k : OnePlace(h, st, OfGen, k) => OnePlace(h, s, OfGen, k) BY <1>3
  <2> QED BY ONLY <1>0, <2>1, Zenon DEF GensOK, GenOK
<1>7. RequestsOK(h, s)
  <2>1. \A p : NoPlace(h, st, OfPromise, p) => NoPlace(h, s, OfPromise, p) BY <1>3
  <2> QED BY ONLY <1>0, <2>1 DEF RequestsOK
<1>8. Served(h, s, Ended(f))
  <2>1. \A k : k \notin Ended(f) => ~FrameGoes(f, OfGen, k) BY DEF Ended, FrameGoes
  <2>2. \A k : k \notin Ended(f) /\ ~NoPlace(h, st, OfGen, k) => ~NoPlace(h, s, OfGen, k) BY <1>3, <2>1
  <2> QED BY ONLY <1>0, <2>2 DEF Served
<1>9. All(h, s, {}, Ended(f), {}) BY ONLY <1>0, <1>2, <1>4, <1>5, <1>6, <1>7, <1>8 DEF All, Core
<1>10. ASSUME f.kind \in OfPromise, ~h.prom[f.p].again PROVE NoPlace(h, s, OfPromise, f.p)
  <2>1. f.p \in Promise(h) BY <1>2, <1>10 DEF FrameOK, FrameIsTyped, OfPromise
  <2>2. OnePlace(h, st, OfPromise, f.p) BY <1>0, <1>10, <2>1 DEF PromisesOK, PromOK
  <2> QED BY <1>3, <1>10, <2>2 DEF FrameGoes
<1>11. ASSUME f.kind \in OfGen PROVE NoPlace(h, s, OfGen, f.p)
  <2>1. f.p \in DOMAIN h.ags BY <1>2, <1>11 DEF FrameOK, FrameIsTyped, OfGen
  <2>2. OnePlace(h, st, OfGen, f.p) BY <1>0, <2>1, Zenon DEF GensOK, GenOK
  <2> QED BY <1>3, <1>11, <2>2 DEF FrameGoes
<1>12. f.kind \notin OfGen => Ended(f) = {} BY DEF Ended
<1> QED BY <1>1, <1>2, <1>9, <1>10, <1>11, <1>12 DEF s

LEMMA PushPlaces ==
  ASSUME NEW h, NEW st \in Seq(FrameRec), NEW f \in FrameRec, NEW K, NEW x, NEW s, s = Append(st, f)
  PROVE  /\ NoPlace(h, st, K, x) /\ ~FrameGoes(f, K, x) => NoPlace(h, s, K, x)
         /\ OnePlace(h, st, K, x) /\ (~FrameGoes(f, K, x) \/ NoPlace(h, st, K, x)) => OnePlace(h, s, K, x)
         /\ FrameGoes(f, K, x) \/ ~NoPlace(h, st, K, x) => ~NoPlace(h, s, K, x)
<1> DEFINE n == Len(st)
<1>1. /\ n \in Nat /\ DOMAIN st = 1 .. n /\ DOMAIN s = 1 .. n + 1 /\ s[n + 1] = f
      /\ \A i \in 1 .. n : s[i] = st[i]
  BY Appended, Indices
<1> HIDE DEF n
<1> DEFINE l == n + 1
<1>2. /\ \A i \in DOMAIN st : i \in DOMAIN s /\ s[i] = st[i] /\ i # l
      /\ \A i \in DOMAIN s : i = l \/ i \in DOMAIN st
      /\ l \in DOMAIN s /\ s[l] = f
  BY ONLY <1>1
<1> HIDE DEF l
<1>3. NoneRuns(st, K, x) /\ ~FrameGoes(f, K, x) => NoneRuns(s, K, x) BY ONLY <1>2 DEF NoneRuns
<1>4. OneRuns(st, K, x) /\ ~FrameGoes(f, K, x) => OneRuns(s, K, x) BY ONLY <1>2 DEF OneRuns
<1>5. NoneRuns(st, K, x) => OneRuns(s, K, x) BY ONLY <1>2 DEF OneRuns, NoneRuns
<1>6. ~NoneRuns(st, K, x) => ~NoneRuns(s, K, x) BY ONLY <1>2 DEF NoneRuns
<1>7. FrameGoes(f, K, x) => ~NoneRuns(s, K, x) BY ONLY <1>2 DEF NoneRuns
<1>a. NoPlace(h, st, K, x) /\ ~FrameGoes(f, K, x) => NoPlace(h, s, K, x) BY ONLY <1>3 DEF NoPlace
<1>b. OnePlace(h, st, K, x) /\ ~FrameGoes(f, K, x) => OnePlace(h, s, K, x) BY ONLY <1>3, <1>4 DEF OnePlace
<1>c. OnePlace(h, st, K, x) /\ NoPlace(h, st, K, x) => OnePlace(h, s, K, x) BY ONLY <1>5 DEF OnePlace, NoPlace
<1>d. FrameGoes(f, K, x) \/ ~NoPlace(h, st, K, x) => ~NoPlace(h, s, K, x) BY ONLY <1>6, <1>7 DEF NoPlace
<1> QED BY <1>a, <1>b, <1>c, <1>d

LEMMA PushAll ==
  ASSUME NEW h, NEW st \in Seq(FrameRec), NEW P, NEW G, NEW X, All(h, st, P, G, X), NEW f \in FrameRec, FrameOK(h, f),
         f.kind \in OfPromise => NoPlace(h, st, OfPromise, f.p) /\ ~IsRequest(h, f.p) /\ ~IsOut(h, f.p),
         f.kind \in OfGen => NoPlace(h, st, OfGen, f.p),
         NEW H, \A k \in G : k \notin H => f.kind \in OfGen /\ f.p = k, NEW s, s = Append(st, f)
  PROVE  All(h, s, P, H, X) /\ s \in Seq(FrameRec)
<1>0. /\ h \in Heap /\ Core(h, st) /\ Follows(h, P) /\ Served(h, st, G) /\ Answers(h, X) /\ FramesOK(h, st)
      /\ PromisesOK(h, st) /\ CombsOK(h, st) /\ GensOK(h, st) /\ RequestsOK(h, st)
      /\ JobsOK(h) /\ WaitOK(h) /\ InOrderAll(h) /\ Gens(h)
  BY DEF All, Core
<1>1. /\ s \in Seq(FrameRec) /\ \A i \in DOMAIN s : (i \in DOMAIN st /\ s[i] = st[i]) \/ s[i] = f
  <2> DEFINE n == Len(st)
  <2>1. /\ n \in Nat /\ DOMAIN st = 1 .. n /\ DOMAIN s = 1 .. n + 1 /\ s[n + 1] = f /\ s \in Seq(FrameRec)
        /\ \A i \in 1 .. n : s[i] = st[i]
    BY Appended, Indices
  <2> HIDE DEF n
  <2>2. \A i \in 1 .. n + 1 : i = n + 1 \/ i \in 1 .. n BY <2>1
  <2> QED BY <2>1, <2>2
<1>2. FramesOK(h, s) BY ONLY <1>0, <1>1, FrameOK(h, f) DEF FramesOK
<1>3. \A K, x : /\ NoPlace(h, st, K, x) /\ ~FrameGoes(f, K, x) => NoPlace(h, s, K, x)
                /\ OnePlace(h, st, K, x) /\ (~FrameGoes(f, K, x) \/ NoPlace(h, st, K, x)) => OnePlace(h, s, K, x)
                /\ FrameGoes(f, K, x) \/ ~NoPlace(h, st, K, x) => ~NoPlace(h, s, K, x)
  BY PushPlaces
<1>4. ASSUME f.kind \in OfPromise PROVE f.p \in Promise(h) /\ Owned(h, f.p)
  BY <1>4 DEF FrameOK, FrameIsTyped, OfPromise
<1>5. PromisesOK(h, s)
  <2> SUFFICES ASSUME NEW p \in Promise(h) PROVE PromOK(h, s, p) BY DEF PromisesOK
  <2>1. PromOK(h, st, p) BY <1>0 DEF PromisesOK
  <2>2. OnePlace(h, st, OfPromise, p) => OnePlace(h, s, OfPromise, p) BY <1>3 DEF FrameGoes
  <2>3. NoPlace(h, st, OfPromise, p) => NoPlace(h, s, OfPromise, p) \/ ~h.prom[p].cap BY <1>3, <1>4 DEF FrameGoes, Owned
  <2> QED BY ONLY <2>1, <2>2, <2>3 DEF PromOK
<1>6. CombsOK(h, s)
  <2> SUFFICES ASSUME NEW k \in DOMAIN h.combs PROVE CombOK(h, s, k) BY DEF CombsOK
  <2>1. CombOK(h, st, k) BY <1>0 DEF CombsOK
  <2>2. ~FrameGoes(f, OfPromise, h.combs[k].out) BY DEF IsOut, FrameGoes
  <2>3. NoPlace(h, s, OfPromise, h.combs[k].out) BY <1>3, <2>1, <2>2, Zenon DEF CombOK
  <2> QED BY ONLY <2>1, <2>3 DEF CombOK
<1>7. GensOK(h, s)
  <2> SUFFICES ASSUME NEW k \in DOMAIN h.ags PROVE GenOK(h, s, k) BY DEF GensOK
  <2>1. GenOK(h, st, k) BY <1>0 DEF GensOK
  <2>2. OnePlace(h, s, OfGen, k) BY <1>3, <2>1, Zenon DEF GenOK, FrameGoes
  <2> QED BY ONLY <2>1, <2>2, Zenon DEF GenOK
<1>8. RequestsOK(h, s)
  <2>1. \A q : IsRequest(h, q) /\ NoPlace(h, st, OfPromise, q) => NoPlace(h, s, OfPromise, q) BY <1>3 DEF FrameGoes
  <2>2. \A q : IsRequest(h, q) /\ Owned(h, q) /\ NoPlace(h, st, OfPromise, q) => Owned(h, q) /\ NoPlace(h, s, OfPromise, q)
    BY <2>1
  <2> QED BY <1>0, <2>2, RequestsKept
<1>9. Served(h, s, H)
  <2> SUFFICES ASSUME NEW k \in DOMAIN h.ags, k \notin H
               PROVE  /\ h.ags[k].q # <<>> => h.ags[k].run
                      /\ h.ags[k].run /\ ~h.ags[k].lost => ~NoPlace(h, s, OfGen, k)
    BY DEF Served
  <2>1. CASE k \notin G BY <1>0, <1>3, <2>1 DEF Served
  <2>2. CASE k \in G
    <3>1. f.kind \in OfGen /\ f.p = k BY <2>2
    <3>2. Serving(h, k) BY <3>1 DEF FrameOK, OfGen, FrameIsTyped, OfPromise
    <3>3. ~NoPlace(h, s, OfGen, k) BY <1>3, <3>1 DEF FrameGoes
    <3> QED BY <3>2, <3>3 DEF Serving
  <2> QED BY <2>1, <2>2
<1> QED BY ONLY <1>0, <1>1, <1>2, <1>5, <1>6, <1>7, <1>8, <1>9 DEF All, Core

-----------------------------------------------------------------------------
(* Combinators.                                                            *)

\* Nothing else goes on with the promise a combinator will settle.
OutOK(h, st, o) ==
  /\ o \in Promise(h) /\ ~h.prom[o].cap /\ ~h.prom[o].again /\ h.prom[o].fate = Undef
  /\ NoPlace(h, st, OfPromise, o) /\ ~IsRequest(h, o)

LEMMA CombsAll ==
  ASSUME NEW h, NEW st, NEW P, NEW G, NEW X, All(h, st, P, G, X), NEW g \in Heap,
         g.prom = h.prom, g.ags = h.ags, g.gen = h.gen, g.queue = h.queue, DOMAIN h.combs \subseteq DOMAIN g.combs,
         \A k \in DOMAIN g.combs : OutOK(h, st, g.combs[k].out)
  PROVE  All(g, st, P, G, X) /\ Promise(g) = Promise(h)
<1>0. /\ h \in Heap /\ Core(h, st) /\ Follows(h, P) /\ Served(h, st, G) /\ Answers(h, X)
      /\ PromisesOK(h, st) /\ CombsOK(h, st) /\ GensOK(h, st) /\ RequestsOK(h, st)
  BY DEF All, Core
<1>1. Promise(g) = Promise(h) BY DEF Promise
<1>2. Quiet(h, g) BY <1>1 DEF Quiet, StateKept, FateKept
<1>3. \A K, x : NoPlace(g, st, K, x) <=> NoPlace(h, st, K, x) BY <1>0, <1>2, QuietPlaces
<1>4. \A K, x : OnePlace(h, st, K, x) => OnePlace(g, st, K, x) BY <1>0, <1>2, QuietPlaces
<1>5. \A q : Owned(h, q) => Owned(g, q) BY <1>1 DEF Owned
<1>6. Undisturbed(h, st, g)
  <2>1. h.gen \in Nat BY <1>0, Parts
  <2>2. World(h, g) BY <1>1, <2>1 DEF World, StateKept
  <2>3. \A q \in Promise(h) : Kept(h, g, q) BY <1>5 DEF Kept, FateKept
  <2>4. \A k \in DOMAIN h.ags : KeptGen(h, g, k) BY DEF KeptGen, Serving
  <2> QED BY <2>2, <2>3, <2>4 DEF Undisturbed
<1>7. \A q \in Promise(h) : RightsKept(h.prom[q], g.prom[q]) BY DEF RightsKept
<1>8. CombsOK(g, st)
  <2> SUFFICES ASSUME NEW k \in DOMAIN g.combs PROVE CombOK(g, st, k) BY DEF CombsOK
  <2>1. OutOK(h, st, g.combs[k].out) BY Zenon
  <2> QED BY <1>1, <1>3, <2>1 DEF CombOK, OutOK, IsRequest
<1>9. GensOK(g, st)
  <2> SUFFICES ASSUME NEW k \in DOMAIN h.ags PROVE GenOK(g, st, k) BY DEF GensOK
  <2>1. GenOK(h, st, k) BY <1>0 DEF GensOK
  <2>2. OnePlace(g, st, OfGen, k) BY <1>4, <2>1, Zenon DEF GenOK
  <2>3. g.ags = h.ags OBVIOUS
  <2> QED BY ONLY <1>1, <2>1, <2>2, <2>3, Zenon DEF GenOK
<1>10. RequestsOK(g, st)
  <2>1. \A q : IsRequest(h, q) /\ Owned(h, q) /\ NoPlace(h, st, OfPromise, q) => Owned(g, q) /\ NoPlace(g, st, OfPromise, q)
    BY <1>3, <1>5
  <2> QED BY <1>0, <2>1, RequestsKept
<1>11. Served(g, st, G) BY <1>0, <1>3 DEF Served
<1>12. Answers(g, X) BY <1>0, <1>6, AnswersKept DEF Undisturbed
<1>13. All(g, st, P, G, X) BY <1>2, <1>6, <1>7, <1>8, <1>9, <1>10, <1>11, <1>12, QuietAll
<1> QED BY <1>1, <1>13

\* The promise of combinator k is one.
LEMMA CombOut ==
  ASSUME NEW h, NEW st, NEW P, NEW G, NEW X, All(h, st, P, G, X)
  PROVE  \A k \in DOMAIN h.combs : OutOK(h, st, h.combs[k].out)
BY DEF All, Core, CombsOK, CombOK, OutOK

LEMMA OutIsFree ==
  ASSUME NEW h, NEW st, NEW o, OutOK(h, st, o)
  PROVE  o \in Promise(h) /\ Free(h, st, o)
BY DEF OutOK, Free

\* Only the combinators change, and not their promises.
SameOuts(h, g) ==
  /\ g.prom = h.prom /\ g.ags = h.ags /\ g.gen = h.gen /\ g.queue = h.queue
  /\ DOMAIN g.combs = DOMAIN h.combs /\ Len(g.combs) = Len(h.combs)
  /\ \A l \in DOMAIN h.combs : g.combs[l].out = h.combs[l].out

\* A combinator's record changes but for its promise.
LEMMA CombSet ==
  ASSUME NEW h \in Heap, NEW k \in DOMAIN h.combs, NEW c \in CombinatorRec, c.out = h.combs[k].out,
         NEW g, g = [h EXCEPT !.combs = [h.combs EXCEPT ![k] = c]]
  PROVE  g \in Heap /\ SameOuts(h, g)
<1>1. h.combs \in Seq(CombinatorRec) /\ DOMAIN h.combs = 1 .. Len(h.combs) /\ k \in 1 .. Len(h.combs) BY Parts
<1> DEFINE cs == [h.combs EXCEPT ![k] = c]
<1>2. /\ cs \in Seq(CombinatorRec) /\ Len(cs) = Len(h.combs) /\ DOMAIN cs = DOMAIN h.combs
      /\ cs[k] = c /\ \A l \in DOMAIN h.combs : l # k => cs[l] = h.combs[l]
  BY ONLY <1>1, c \in CombinatorRec, Replaced
<1> HIDE DEF cs
<1>3. /\ g.combs = cs /\ g.prom = h.prom /\ g.queue = h.queue /\ g.ags = h.ags /\ g.gen = h.gen
      /\ g = [prom |-> g.prom, combs |-> g.combs, ags |-> g.ags, queue |-> g.queue, gen |-> g.gen]
  BY DEF cs, Heap
<1>4. g \in Heap BY ONLY <1>2, <1>3, h \in Heap DEF Heap
<1> QED BY <1>2, <1>3, <1>4 DEF SameOuts

LEMMA ElementSet ==
  ASSUME NEW h \in Heap, NEW k \in DOMAIN h.combs, NEW idx, NEW v \in Value, NEW left \in Int,
         NEW g, g = [h EXCEPT !.combs[k].results[idx] = v, !.combs[k].left = left]
  PROVE  g \in Heap /\ SameOuts(h, g)
<1> DEFINE c == h.combs[k]
           r == [c.results EXCEPT ![idx] = v]
           c1 == [c EXCEPT !.results = r]
           c2 == [c1 EXCEPT !.left = left]
           h1 == [h EXCEPT !.combs[k].results[idx] = v]
<1>1. c \in CombinatorRec BY Parts
<1>2. c.results \in Seq(Value) BY <1>1 DEF CombinatorRec
<1>3. r \in Seq(Value)
  <2> DEFINE s == c.results
  <2>1. s \in [1 .. Len(s) -> Value] /\ Len(s) \in Nat BY <1>2, Indices
  <2> HIDE DEF s
  <2>2. [s EXCEPT ![idx] = v] \in [1 .. Len(s) -> Value] BY <2>1
  <2> DEFINE t == [s EXCEPT ![idx] = v]
  <2> HIDE DEF t
  <2>3. t \in Seq(Value) BY <2>1, <2>2, Built DEF t
  <2> QED BY <2>3 DEF t, s
<1> HIDE DEF r
<1>4. c1 \in CombinatorRec /\ c1.out = c.out BY <1>1, <1>3 DEF CombinatorRec
<1>5. h1.combs = [h.combs EXCEPT ![k] = c1] BY DEF Heap, r
<1>6. h1 \in Heap /\ h1.combs[k] = c1 /\ h1 = [h EXCEPT !.combs = [h.combs EXCEPT ![k] = c1]]
  <2>1. h1 = [h EXCEPT !.combs = [h.combs EXCEPT ![k] = c1]] BY DEF r
  <2> HIDE DEF c1, h1
  <2>2. h1 \in Heap BY <1>4, <2>1, CombSet DEF c
  <2> QED BY <1>5, <2>1, <2>2
<1>7. g = [h1 EXCEPT !.combs[k].left = left] OBVIOUS
<1> HIDE DEF h1
<1>8. g = [h1 EXCEPT !.combs = [h1.combs EXCEPT ![k] = [h1.combs[k] EXCEPT !.left = left]]] BY <1>7
<1>9. c2 \in CombinatorRec /\ c2.out = c1.out BY <1>4 DEF CombinatorRec
<1>10. g = [h1 EXCEPT !.combs = [h1.combs EXCEPT ![k] = c2]] BY <1>6, <1>8
<1> HIDE DEF c2, c1, c
<1>11. k \in DOMAIN h1.combs BY <1>5
<1>12. g \in Heap /\ SameOuts(h1, g)
  <2>1. c2.out = h1.combs[k].out BY <1>6, <1>9
  <2> QED BY ONLY <1>6, <1>9, <1>10, <1>11, <2>1, CombSet
<1>13. SameOuts(h, h1)
  <2>1. c1.out = h.combs[k].out BY <1>4 DEF c
  <2> QED BY ONLY <1>4, <1>6, <2>1, h \in Heap, k \in DOMAIN h.combs, CombSet
<1> QED BY ONLY <1>12, <1>13 DEF SameOuts

LEMMA ElementAll ==
  ASSUME NEW h, NEW st, All(h, st, {}, {}, {}), NEW k \in DOMAIN h.combs, NEW idx, NEW ok \in BOOLEAN, NEW v \in Value,
         ok => v \in Final, NEW g, g = Element(h, k, idx, ok, v)
  PROVE  g \in Heap /\ All(g, st, {}, {}, {})
<1> DEFINE c == h.combs[k]
           left == c.left - 1
           h1 == [h EXCEPT !.combs[k].results[idx] = v, !.combs[k].left = left]
<1>0. h \in Heap BY DEF All, Core
<1>1. c \in CombinatorRec /\ k \in Nat /\ k > 0 BY <1>0, Parts
<1>2. c.left \in Int /\ left \in Int BY <1>1 DEF CombinatorRec
<1>3. c.out \in Promise(h) /\ Free(h, st, c.out) /\ OutOK(h, st, c.out) BY CombOut, OutIsFree
<1> HIDE DEF left
<1>d. h1 = [h EXCEPT !.combs[k].results[idx] = v, !.combs[k].left = left] OBVIOUS
<1> HIDE DEF h1
<1>e. h1 \in Heap /\ SameOuts(h, h1)
  BY ONLY <1>0, <1>2, <1>d, k \in DOMAIN h.combs, v \in Value, ElementSet
<1>4. /\ h1 \in Heap /\ h1.prom = h.prom /\ h1.ags = h.ags /\ h1.gen = h.gen /\ h1.queue = h.queue
      /\ DOMAIN h1.combs = DOMAIN h.combs /\ \A l \in DOMAIN h.combs : h1.combs[l].out = h.combs[l].out
  BY <1>e DEF SameOuts
<1>5. \A l \in DOMAIN h1.combs : OutOK(h, st, h1.combs[l].out) BY <1>4, CombOut
<1>6. All(h1, st, {}, {}, {}) /\ Promise(h1) = Promise(h) BY ONLY <1>4, <1>5, All(h, st, {}, {}, {}), CombsAll
<1>7. h1.combs[k].out = c.out BY <1>4
<1>8. c.out \in Promise(h1) /\ Free(h1, st, c.out) BY <1>4, <1>6, <1>7, CombOut, OutIsFree
<1>9. -k \in Final
  <2>1. -k \in Int /\ -k \notin Nat BY <1>1
  <2> QED BY <2>1, ValuesAssumption DEF Final, Value
<1>10. g = (CASE c.name = "race" /\ ~ok -> promSettle(h, c.out, "rejected", v)
              [] c.name = "all" /\ ~ok -> promSettle(h, c.out, "rejected", v)
              [] c.name \in {"race", "any"} /\ ok -> promResolve(h, c.out, v)
              [] OTHER -> IF left # 0 THEN h1
                          ELSE IF c.name = "any" THEN promSettle(h1, c.out, "rejected", AggregateError)
                          ELSE promResolve(h1, c.out, Results(k)))
  BY DEF Element, h1, left
<1> DEFINE o == c.out
<1> HIDE DEF o
<1>11. \/ g = promSettle(h, o, "rejected", v)
       \/ ok /\ g = promResolve(h, o, v)
       \/ g = h1
       \/ g = promSettle(h1, o, "rejected", AggregateError)
       \/ g = promResolve(h1, o, -k)
  BY <1>10 DEF o, Results
<1>12. o \in Promise(h) /\ Free(h, st, o) /\ o \in Promise(h1) /\ Free(h1, st, o) BY <1>3, <1>8 DEF o
<1> HIDE DEF c
<1>13. CASE g = promSettle(h, o, "rejected", v) BY <1>12, <1>13, RejectAll
<1>14. CASE ok /\ g = promResolve(h, o, v) BY <1>12, <1>14, ResolveAll
<1>15. CASE g = h1 BY <1>4, <1>6, <1>15
<1>16. CASE g = promSettle(h1, o, "rejected", AggregateError)
  <2>1. AggregateError \in Value BY DEF Value
  <2> QED BY <1>6, <1>12, <1>16, <2>1, RejectAll
<1>17. CASE g = promResolve(h1, o, -k)
  <2>1. -k \in Final \cup Promise(h1) \cup Thenable BY <1>9
  <2> QED BY <1>6, <1>9, <1>12, <1>17, <2>1, ResolveAll
<1> QED BY <1>11, <1>13, <1>14, <1>15, <1>16, <1>17

LEMMA ElsSet ==
  ASSUME NEW h \in Heap, NEW k \in DOMAIN h.combs, NEW q \in Nat, NEW g, g = [h EXCEPT !.combs[k].els = Append(@, q)]
  PROVE  g \in Heap /\ SameOuts(h, g)
<1> DEFINE c == h.combs[k]
           e == Append(c.els, q)
           c1 == [c EXCEPT !.els = e]
<1>1. c \in CombinatorRec BY Parts
<1>2. c.els \in Seq(Nat) BY <1>1 DEF CombinatorRec
<1>3. e \in Seq(Nat) BY <1>2, Appended
<1> HIDE DEF e
<1>4. c1 \in CombinatorRec /\ c1.out = c.out BY <1>1, <1>3 DEF CombinatorRec
<1>5. g = [h EXCEPT !.combs = [h.combs EXCEPT ![k] = c1]] BY DEF e
<1>6. c1.out = h.combs[k].out BY <1>4
<1> HIDE DEF c1, c
<1> QED BY ONLY h \in Heap, k \in DOMAIN h.combs, <1>4, <1>5, <1>6, CombSet

LEMMA SameOutsAll ==
  ASSUME NEW h, NEW st, NEW P, NEW G, NEW X, All(h, st, P, G, X), NEW g \in Heap, SameOuts(h, g)
  PROVE  All(g, st, P, G, X) /\ Promise(g) = Promise(h)
<1>1. \A k \in DOMAIN g.combs : OutOK(h, st, g.combs[k].out) BY CombOut DEF SameOuts
<1>2. g.prom = h.prom /\ g.ags = h.ags /\ g.gen = h.gen /\ g.queue = h.queue /\ DOMAIN h.combs \subseteq DOMAIN g.combs
  BY DEF SameOuts
<1> QED BY <1>1, <1>2, CombsAll

\* A reaction of the runtime's own, on no promise's behalf.
LEMMA PromElementAll ==
  ASSUME NEW h, NEW st, All(h, st, {}, {}, {}), NEW k \in DOMAIN h.combs, NEW x \in Final \cup Promise(h) \cup Thenable,
         NEW g, g = promElement(h, k, x)
  PROVE  g \in Heap /\ All(g, st, {}, {}, {}) /\ k \in DOMAIN g.combs /\ \A q \in Promise(h) : q \in Promise(g)
<1> DEFINE h1 == promResolveValue(h, x)
           q == Resolved(h, x)
           n == Len(h.combs[k].els) + 1
           r == Reaction("element", TRUE, TRUE, k, n)
           h2 == promThen(h1, q, r)
<1>0. h \in Heap BY DEF All, Core
<1>1. h.combs[k] \in CombinatorRec /\ k \in Nat BY <1>0, Parts
<1>2. n \in Nat BY <1>1 DEF CombinatorRec
<1>3. h1 \in Heap /\ All(h1, st, {}, {}, {}) /\ Carries(h, h1, st, {}) /\ q \in Promise(h1) BY ResolveValueAll
<1>4. g = [h2 EXCEPT !.combs[k].els = Append(@, q)] BY DEF promElement
<1>h. h2 = promThen(h1, q, r) OBVIOUS
<1> HIDE DEF h1, q, n, h2
<1>5. k \in DOMAIN h1.combs /\ h1.combs = h.combs BY <1>3 DEF Carries
<1>6. r \in ReactionRec /\ r.kind = "element" /\ r.to = k BY <1>1, <1>2 DEF Reaction, ReactionRec
<1> HIDE DEF r
<1>7. MayGoOn(h1, st, q, r)
  BY <1>3, <1>5, <1>6 DEF MayGoOn, ReactionOK, OfPromise, OfGen
<1>8. h2 \in Heap /\ All(h2, st, {}, {}, {}) /\ ThenKeeps(h1, h2, q) BY ONLY <1>3, <1>7, <1>h, ThenAll
<1>9. h2.combs = h1.combs /\ Promise(h2) = Promise(h1) BY <1>8 DEF ThenKeeps, OthersKept
<1>10. q \in Nat BY <1>3, Parts
<1>11. g \in Heap /\ SameOuts(h2, g) BY ONLY <1>4, <1>5, <1>8, <1>9, <1>10, ElsSet
<1>12. All(g, st, {}, {}, {}) /\ Promise(g) = Promise(h2) BY ONLY <1>8, <1>11, SameOutsAll
<1>13. k \in DOMAIN g.combs BY <1>5, <1>9, <1>11 DEF SameOuts
<1>14. \A p \in Promise(h) : p \in Promise(g) BY <1>3, <1>9, <1>12 DEF Carries
<1> QED BY <1>11, <1>12, <1>13, <1>14

\* A combinator is added, as number k.
Combines(h, g, k, c) ==
  /\ g.prom = h.prom /\ g.ags = h.ags /\ g.gen = h.gen /\ g.queue = h.queue
  /\ DOMAIN h.combs \subseteq DOMAIN g.combs /\ k \in DOMAIN g.combs /\ k \in Nat /\ k > 0 /\ g.combs[k] = c
  /\ \A l \in DOMAIN g.combs : l # k => l \in DOMAIN h.combs /\ g.combs[l] = h.combs[l]

LEMMA CombAdd ==
  ASSUME NEW h \in Heap, NEW c \in CombinatorRec, NEW g, g = [h EXCEPT !.combs = Append(@, c)], NEW k, k = Len(h.combs) + 1
  PROVE  g \in Heap /\ Combines(h, g, k, c)
<1>1. h.combs \in Seq(CombinatorRec) /\ Len(h.combs) \in Nat /\ DOMAIN h.combs = 1 .. Len(h.combs) BY Parts
<1> DEFINE cs == Append(h.combs, c)
           n == Len(h.combs)
<1>2. /\ cs \in Seq(CombinatorRec) /\ DOMAIN cs = 1 .. n + 1 /\ cs[n + 1] = c /\ \A l \in 1 .. n : cs[l] = h.combs[l]
  BY ONLY <1>1, c \in CombinatorRec, Appended
<1>n. k = n + 1 /\ n \in Nat /\ DOMAIN h.combs = 1 .. n BY <1>1
<1>3. /\ g.combs = cs /\ g.prom = h.prom /\ g.queue = h.queue /\ g.ags = h.ags /\ g.gen = h.gen
      /\ g = [prom |-> g.prom, combs |-> g.combs, ags |-> g.ags, queue |-> g.queue, gen |-> g.gen]
  BY DEF Heap
<1> HIDE DEF cs, n
<1>4. g \in Heap BY ONLY <1>2, <1>3, h \in Heap DEF Heap
<1>5. \A l \in 1 .. n + 1 : l # n + 1 => l \in 1 .. n BY <1>n
<1>6. 1 .. n \subseteq 1 .. n + 1 /\ n + 1 \in 1 .. n + 1 BY <1>n
<1> QED BY ONLY <1>n, <1>2, <1>3, <1>4, <1>5, <1>6 DEF Combines

LEMMA CombineAll ==
  ASSUME NEW h, NEW st, All(h, st, {}, {}, {}), NEW name \in CombinatorNames, NEW n \in Nat,
         NEW g, g = promCombine(h, name, n), NEW k, k = Len(h.combs) + 1
  PROVE  g \in Heap /\ All(g, st, {}, {}, {}) /\ k \in DOMAIN g.combs /\ k \in Nat /\ \A q \in Promise(h) : q \in Promise(g)
<1> DEFINE o == Len(h.prom) + 1
           res == [i \in 1 .. n |-> Undef]
           c == [name |-> name, els |-> <<>>, left |-> n, out |-> o, results |-> res]
           h0 == [h EXCEPT !.prom = Append(@, NewPromise)]
           h1 == [h0 EXCEPT !.combs = Append(@, c)]
<1>0. h \in Heap BY DEF All, Core
<1>1. /\ h0 \in Heap /\ All(h0, st, {}, {}, {}) /\ Carries(h, h0, st, {}) /\ o \in Promise(h0) /\ h0.prom[o] = NewPromise
      /\ NoPlace(h0, st, OfPromise, o) /\ ~IsRequest(h0, o) /\ Promise(h0) = Promise(h) \cup {o}
  BY MakeAll
<1>2. res \in Seq(Value)
  <2>1. Undef \in Value BY DEF Value
  <2>2. res \in [1 .. n -> Value] BY <2>1
  <2> QED BY <2>2, Built
<1>g. \/ g = h1
      \/ g = promSettle(h1, o, "rejected", AggregateError)
      \/ g = promResolve(h1, o, -k)
  <2>0. n > 0 \/ n = 0 OBVIOUS
  <2> HIDE DEF h1
  <2>1. g = (CASE n > 0 \/ name = "race" -> h1
        [] n = 0 /\ name = "any" -> promSettle(h1, o, "rejected", AggregateError)
        [] n = 0 /\ name \in {"all", "allSettled"} -> promResolve(h1, o, -k))
    BY DEF promCombine, h1, promNew, Last1, Results
  <2>2. CASE n > 0 \/ name = "race" BY <2>1, <2>2
  <2>3. CASE n = 0 /\ name = "any" BY <2>1, <2>3
  <2>4. CASE n = 0 /\ name \in {"all", "allSettled"} BY <2>1, <2>4
  <2> QED BY <2>0, <2>2, <2>3, <2>4 DEF CombinatorNames
<1> HIDE DEF res
<1>3. o \in Nat BY <1>1, Parts
<1>4. c \in CombinatorRec /\ c.out = o
  <2>1. <<>> \in Seq(Nat) /\ n \in Int OBVIOUS
  <2> QED BY <1>2, <1>3, <2>1 DEF CombinatorRec
<1>5. h0.combs = h.combs BY <1>1 DEF Carries
<1> HIDE DEF h0, o, c
<1>k. h1 = [h0 EXCEPT !.combs = Append(@, c)] /\ k = Len(h0.combs) + 1 BY <1>5
<1> HIDE DEF h1
<1>z. h1 \in Heap /\ Combines(h0, h1, k, c) BY ONLY <1>1, <1>4, <1>k, CombAdd
<1>6. /\ h1 \in Heap /\ h1.prom = h0.prom /\ h1.ags = h0.ags /\ h1.gen = h0.gen /\ h1.queue = h0.queue
      /\ DOMAIN h0.combs \subseteq DOMAIN h1.combs /\ k \in DOMAIN h1.combs /\ k \in Nat /\ k > 0 /\ h1.combs[k] = c
      /\ \A l \in DOMAIN h1.combs : l # k => l \in DOMAIN h0.combs /\ h1.combs[l] = h0.combs[l]
  BY <1>z DEF Combines
<1>7. OutOK(h0, st, o) BY <1>1, NewParts DEF OutOK, NewPromise
<1>8. \A l \in DOMAIN h1.combs : OutOK(h0, st, h1.combs[l].out) BY <1>1, <1>4, <1>6, <1>7, CombOut
<1>9. All(h1, st, {}, {}, {}) /\ Promise(h1) = Promise(h0) BY ONLY <1>1, <1>6, <1>8, CombsAll
<1>10. OutOK(h1, st, o) BY <1>4, <1>6, <1>9, CombOut
<1>11. o \in Promise(h1) /\ Free(h1, st, o) BY <1>10, OutIsFree
<1>12. -k \in Final
  <2>1. -k \in Int /\ -k \notin Nat BY <1>6
  <2> QED BY <2>1, ValuesAssumption DEF Final, Value
<1>13. \A q \in Promise(h) : q \in Promise(h1) BY <1>1, <1>9
<1>14. CASE g = h1 BY <1>6, <1>9, <1>13, <1>14
<1>15. CASE g # h1
  <2>1. g \in Heap /\ All(g, st, {}, {}, {}) /\ Carries(h1, g, st, {o})
    <3>1. AggregateError \in Value /\ -k \in Final \cup Promise(h1) \cup Thenable BY <1>12 DEF Value
    <3>2. CASE g = promSettle(h1, o, "rejected", AggregateError) BY ONLY <1>9, <1>11, <3>1, <3>2, RejectAll
    <3>3. CASE g = promResolve(h1, o, -k) BY ONLY <1>9, <1>11, <1>12, <3>1, <3>3, ResolveAll
    <3> QED BY <1>g, <1>15, <3>2, <3>3
  <2> QED BY <1>6, <1>13, <2>1 DEF Carries
<1> QED BY <1>14, <1>15

-----------------------------------------------------------------------------
(* Async generators.                                                       *)

\* What GenOK says of the generator's own record.
Told(h, a) ==
  /\ a.run => a.q # <<>>
  /\ a.lost => a.run
  /\ a.reqs = [i \in DOMAIN a.said |-> a.said[i].p] \o [i \in DOMAIN a.q |-> a.q[i].p]
  /\ \A i \in DOMAIN a.said : a.said[i].p \in Promise(h)
  /\ \A i \in DOMAIN a.said : a.said[i].how # "yield" => a.done
  /\ \A i, j \in DOMAIN a.said : i < j /\ a.said[i].how # "yield" => a.said[j].how # "yield"

\* Promise p is the request of generator k in place i, and of no other.
Asked(h, g, st, k, i) ==
  LET p == g.ags[k].q[i].p IN
  /\ Owned(h, p) /\ NoPlace(h, st, OfPromise, p) /\ ~IsOut(h, p)
  /\ \A l \in DOMAIN g.ags : \A j \in DOMAIN g.ags[l].q : g.ags[l].q[j].p = p => l = k /\ j = i

\* It is served, and if it is not lost its body is somewhere.
ServesOne(h, st, k, a) ==
  /\ a.q # <<>> => a.run
  /\ a.run /\ ~a.lost => ~NoPlace(h, st, OfGen, k)

LEMMA GensAll ==
  ASSUME NEW h, NEW st, NEW P, NEW G, NEW X, All(h, st, P, G, X), NEW g \in Heap,
         g.prom = h.prom, g.combs = h.combs, g.gen = h.gen, g.queue = h.queue, DOMAIN h.ags \subseteq DOMAIN g.ags,
         \A k \in DOMAIN h.ags : KeptGen(h, g, k) \/ NoPlace(h, st, OfGen, k),
         \A k \in DOMAIN g.ags : Told(h, g.ags[k]),
         \A k \in DOMAIN g.ags : \A i \in DOMAIN g.ags[k].q : Asked(h, g, st, k, i),
         NEW H, \A k \in DOMAIN g.ags : k \notin H => ServesOne(h, st, k, g.ags[k]),
         NEW Y, Answers(g, Y)
  PROVE  All(g, st, P, H, Y) /\ Promise(g) = Promise(h) /\ \A K, x : NoPlace(g, st, K, x) <=> NoPlace(h, st, K, x)
<1>0. /\ h \in Heap /\ Core(h, st) /\ Follows(h, P) /\ Served(h, st, G) /\ Answers(h, X)
      /\ PromisesOK(h, st) /\ CombsOK(h, st) /\ GensOK(h, st) /\ RequestsOK(h, st)
  BY DEF All, Core
<1>1. Promise(g) = Promise(h) BY DEF Promise
<1>2. Quiet(h, g) BY <1>1 DEF Quiet, StateKept, FateKept
<1>3. \A K, x : NoPlace(g, st, K, x) <=> NoPlace(h, st, K, x) BY <1>0, <1>2, QuietPlaces
<1>4. \A K, x : OnePlace(h, st, K, x) => OnePlace(g, st, K, x) BY <1>0, <1>2, QuietPlaces
<1>5. \A q : Owned(h, q) <=> Owned(g, q) BY <1>1 DEF Owned
<1>6. Undisturbed(h, st, g)
  <2>1. h.gen \in Nat BY <1>0, Parts
  <2>2. World(h, g) BY <1>1, <2>1 DEF World, StateKept
  <2>3. \A q \in Promise(h) : Kept(h, g, q) BY <1>5 DEF Kept, FateKept
  <2> QED BY <2>2, <2>3 DEF Undisturbed
<1>7. \A q \in Promise(h) : RightsKept(h.prom[q], g.prom[q]) BY DEF RightsKept
<1>8. CombsOK(g, st)
  <2> SUFFICES ASSUME NEW k \in DOMAIN h.combs PROVE CombOK(g, st, k) BY DEF CombsOK
  <2>1. CombOK(h, st, k) BY <1>0 DEF CombsOK
  <2>2. ~IsRequest(g, h.combs[k].out) BY DEF IsRequest, IsOut, Asked
  <2>3. NoPlace(g, st, OfPromise, h.combs[k].out) BY <1>3, <2>1 DEF CombOK
  <2>4. g.combs = h.combs /\ g.prom = h.prom OBVIOUS
  <2> QED BY ONLY <1>1, <2>1, <2>2, <2>3, <2>4 DEF CombOK
<1>9. GensOK(g, st)
  <2> SUFFICES ASSUME NEW k \in DOMAIN g.ags PROVE GenOK(g, st, k) BY DEF GensOK
  <2>1. Told(g, g.ags[k]) BY <1>1, Zenon DEF Told
  <2>2. OnePlace(g, st, OfGen, k)
    <3>1. CASE k \in DOMAIN h.ags BY <1>0, <1>4, <3>1, Zenon DEF GensOK, GenOK
    <3>2. CASE k \notin DOMAIN h.ags
      <4>1. NoPlace(h, st, OfGen, k) BY <1>0, <3>2, NotServing DEF Serving
      <4>2. NoPlace(g, st, OfGen, k) BY <1>3, <4>1
      <4> QED BY <4>2 DEF NoPlace, OnePlace, NoneRuns, NoneQueued, NoneWaits, OneRuns, OneQueued, OneWaits
    <3> QED BY <3>1, <3>2
  <2> QED BY ONLY <2>1, <2>2, Zenon DEF GenOK, Told
<1>10. RequestsOK(g, st)
  <2> SUFFICES ASSUME NEW k \in DOMAIN g.ags, NEW i \in DOMAIN g.ags[k].q
               PROVE  /\ Owned(g, g.ags[k].q[i].p) /\ NoPlace(g, st, OfPromise, g.ags[k].q[i].p)
                      /\ \A l \in DOMAIN g.ags : \A j \in DOMAIN g.ags[l].q :
                           g.ags[l].q[j].p = g.ags[k].q[i].p => l = k /\ j = i
    BY DEF RequestsOK
  <2>1. Asked(h, g, st, k, i) OBVIOUS
  <2> QED BY ONLY <1>3, <1>5, <2>1 DEF Asked
<1>11. Served(g, st, H)
  <2> SUFFICES ASSUME NEW k \in DOMAIN g.ags, k \notin H
               PROVE  /\ g.ags[k].q # <<>> => g.ags[k].run
                      /\ g.ags[k].run /\ ~g.ags[k].lost => ~NoPlace(g, st, OfGen, k)
    BY DEF Served
  <2>1. ServesOne(h, st, k, g.ags[k]) OBVIOUS
  <2> QED BY ONLY <1>3, <2>1 DEF ServesOne
<1>12. All(g, st, P, H, Y) BY <1>2, <1>6, <1>7, <1>8, <1>9, <1>10, <1>11, QuietAll
<1> QED BY <1>1, <1>3, <1>12

\* The generators but k are as they were.
GenChanges(h, g, k, a) ==
  /\ g.prom = h.prom /\ g.combs = h.combs /\ g.gen = h.gen /\ g.queue = h.queue
  /\ DOMAIN g.ags = DOMAIN h.ags /\ g.ags[k] = a /\ \A l \in DOMAIN h.ags : l # k => g.ags[l] = h.ags[l]

LEMMA GenSet ==
  ASSUME NEW h \in Heap, NEW k \in DOMAIN h.ags, NEW a \in AsyncGenRec, NEW g, g = [h EXCEPT !.ags = [h.ags EXCEPT ![k] = a]]
  PROVE  g \in Heap /\ GenChanges(h, g, k, a)
<1>1. h.ags \in Seq(AsyncGenRec) /\ DOMAIN h.ags = 1 .. Len(h.ags) /\ k \in 1 .. Len(h.ags) BY Parts
<1> DEFINE cs == [h.ags EXCEPT ![k] = a]
<1>2. /\ cs \in Seq(AsyncGenRec) /\ Len(cs) = Len(h.ags) /\ DOMAIN cs = DOMAIN h.ags
      /\ cs[k] = a /\ \A l \in DOMAIN h.ags : l # k => cs[l] = h.ags[l]
  BY ONLY <1>1, a \in AsyncGenRec, Replaced
<1> HIDE DEF cs
<1>3. /\ g.ags = cs /\ g.prom = h.prom /\ g.queue = h.queue /\ g.combs = h.combs /\ g.gen = h.gen
      /\ g = [prom |-> g.prom, combs |-> g.combs, ags |-> g.ags, queue |-> g.queue, gen |-> g.gen]
  BY DEF cs, Heap
<1>4. g \in Heap BY ONLY <1>2, <1>3, h \in Heap DEF Heap
<1> QED BY <1>2, <1>3, <1>4 DEF GenChanges

\* What was told and asked of the others holds still.
LEMMA GenTold ==
  ASSUME NEW h, NEW st, NEW P, NEW G, NEW X, All(h, st, P, G, X)
  PROVE  \A k \in DOMAIN h.ags : Told(h, h.ags[k])
BY DEF All, Core, GensOK, GenOK, Told

LEMMA GenAsked ==
  ASSUME NEW h, NEW st, NEW P, NEW G, NEW X, All(h, st, P, G, X)
  PROVE  \A k \in DOMAIN h.ags : \A i \in DOMAIN h.ags[k].q : Asked(h, h, st, k, i)
<1>1. CombsOK(h, st) /\ RequestsOK(h, st) BY DEF All, Core
<1> SUFFICES ASSUME NEW k \in DOMAIN h.ags, NEW i \in DOMAIN h.ags[k].q PROVE Asked(h, h, st, k, i) OBVIOUS
<1>2. ~IsOut(h, h.ags[k].q[i].p) BY <1>1 DEF CombsOK, CombOK, IsOut, IsRequest
<1> QED BY <1>1, <1>2 DEF RequestsOK, Asked

LEMMA GenServes ==
  ASSUME NEW h, NEW st, NEW P, NEW G, NEW X, All(h, st, P, G, X), NEW k \in DOMAIN h.ags, k \notin G
  PROVE  ServesOne(h, st, k, h.ags[k])
BY DEF All, Served, ServesOne

Promised(s) == [i \in DOMAIN s |-> s[i].p]

LEMMA PromisedSeq ==
  ASSUME NEW S, NEW s \in Seq(S), \A e \in S : e.p \in Nat
  PROVE  /\ Promised(s) \in Seq(Nat) /\ Len(Promised(s)) = Len(s)
         /\ \A i \in 1 .. Len(s) : Promised(s)[i] = s[i].p
<1>1. DOMAIN s = 1 .. Len(s) /\ Len(s) \in Nat /\ \A i \in 1 .. Len(s) : s[i] \in S BY Indices
<1>2. Promised(s) \in [1 .. Len(s) -> Nat] BY <1>1 DEF Promised
<1>3. Promised(s) \in Seq(Nat) /\ Len(Promised(s)) = Len(s) BY <1>1, <1>2, Built
<1> QED BY <1>1, <1>3 DEF Promised

LEMMA PromisedAppend ==
  ASSUME NEW S, NEW s \in Seq(S), NEW e \in S, \A d \in S : d.p \in Nat
  PROVE  Promised(Append(s, e)) = Append(Promised(s), e.p)
<1> DEFINE t == Append(s, e)
           l == Promised(t)
           r == Append(Promised(s), e.p)
           n == Len(s)
<1>1. t \in Seq(S) /\ Len(t) = n + 1 /\ t[n + 1] = e /\ (\A i \in 1 .. n : t[i] = s[i]) /\ n \in Nat BY Appended
<1> HIDE DEF t
<1>2. l \in Seq(Nat) /\ Len(l) = n + 1 /\ \A i \in 1 .. n + 1 : l[i] = t[i].p BY <1>1, PromisedSeq
<1>3. Promised(s) \in Seq(Nat) /\ Len(Promised(s)) = n /\ \A i \in 1 .. n : Promised(s)[i] = s[i].p BY PromisedSeq
<1> DEFINE ps == Promised(s)
<1> HIDE DEF ps, n, l
<1>4. r \in Seq(Nat) /\ Len(r) = n + 1 /\ r[n + 1] = e.p /\ \A i \in 1 .. n : r[i] = ps[i]
  BY <1>3, Appended DEF ps
<1> HIDE DEF r
<1>5. \A i \in 1 .. n + 1 : i \in 1 .. n \/ i = n + 1 BY <1>1
<1>6. \A i \in 1 .. Len(l) : l[i] = r[i] BY ONLY <1>1, <1>2, <1>3, <1>4, <1>5 DEF ps
<1>7. l = r BY <1>2, <1>4, <1>6, SameSeq
<1> QED BY <1>7 DEF l, r, t, ps

LEMMA PromisedTail ==
  ASSUME NEW S, NEW s \in Seq(S), s # <<>>, \A d \in S : d.p \in Nat
  PROVE  Promised(Tail(s)) = Tail(Promised(s)) /\ Promised(s) # <<>> /\ Head(Promised(s)) = Head(s).p
<1> DEFINE t == Tail(s)
           ps == Promised(s)
           l == Promised(t)
           n == Len(s)
           r == Tail(ps)
<1>1. t \in Seq(S) /\ n >= 1 /\ Head(s) = s[1] /\ Len(t) = n - 1 /\ (\A i \in 1 .. n - 1 : t[i] = s[i + 1]) /\ n \in Nat
  BY Tailed
<1> HIDE DEF t
<1>2. l \in Seq(Nat) /\ Len(l) = n - 1 /\ \A i \in 1 .. n - 1 : l[i] = t[i].p BY <1>1, PromisedSeq
<1>3. ps \in Seq(Nat) /\ Len(ps) = n /\ \A i \in 1 .. n : ps[i] = s[i].p BY PromisedSeq
<1> HIDE DEF ps, n, l
<1>4. ps # <<>> BY <1>1, <1>3
<1>5. r \in Seq(Nat) /\ Len(r) = n - 1 /\ Head(ps) = ps[1] /\ \A i \in 1 .. n - 1 : r[i] = ps[i + 1]
  BY <1>3, <1>4, Tailed
<1> HIDE DEF r
<1>6. \A i \in 1 .. n - 1 : i + 1 \in 1 .. n BY <1>1
<1>7. \A i \in 1 .. Len(l) : l[i] = r[i]
  <2> SUFFICES ASSUME NEW i \in 1 .. n - 1 PROVE l[i] = r[i] BY <1>2
  <2>1. l[i] = t[i].p /\ t[i] = s[i + 1] BY ONLY <1>1, <1>2, i \in 1 .. n - 1
  <2>2. r[i] = ps[i + 1] /\ i + 1 \in 1 .. n BY ONLY <1>5, <1>6, i \in 1 .. n - 1
  <2>3. ps[i + 1] = s[i + 1].p BY ONLY <1>3, <2>2
  <2> QED BY ONLY <2>1, <2>2, <2>3
<1>8. l = r BY <1>2, <1>5, <1>7, SameSeq
<1>9. 1 \in 1 .. n BY <1>1
<1>10. Head(ps) = Head(s).p BY <1>1, <1>3, <1>5, <1>9
<1> QED BY <1>4, <1>8, <1>10 DEF l, r, t, ps

LEMMA LaterAppend ==
  ASSUME NEW s \in Seq(Nat), NEW t \in Seq(Nat), NEW e \in Nat
  PROVE  s \o Append(t, e) = Append(s \o t, e)
OBVIOUS

LEMMA MovedHead ==
  ASSUME NEW s \in Seq(Nat), NEW t \in Seq(Nat), t # <<>>
  PROVE  Append(s, Head(t)) \o Tail(t) = s \o t
<1> DEFINE n == Len(s)
           m == Len(t)
           a == Append(s, Head(t))
           b == Tail(t)
           l == a \o b
           r == s \o t
<1>1. n \in Nat /\ m \in Nat /\ m >= 1 /\ Head(t) = t[1] /\ Head(t) \in Nat BY Tailed
<1>2. a \in Seq(Nat) /\ Len(a) = n + 1 /\ a[n + 1] = t[1] /\ \A i \in 1 .. n : a[i] = s[i] BY <1>1, Appended
<1>3. b \in Seq(Nat) /\ Len(b) = m - 1 /\ \A i \in 1 .. m - 1 : b[i] = t[i + 1] BY Tailed
<1>4. r \in Seq(Nat) /\ Len(r) = n + m /\ (\A i \in 1 .. n : r[i] = s[i]) /\ \A i \in 1 .. m : r[n + i] = t[i] BY Joined
<1> HIDE DEF a, b
<1>5. /\ l \in Seq(Nat) /\ Len(l) = (n + 1) + (m - 1) /\ (\A i \in 1 .. n + 1 : l[i] = a[i])
      /\ \A i \in 1 .. m - 1 : l[(n + 1) + i] = b[i]
  <2>1. a \in Seq(Nat) /\ b \in Seq(Nat) BY <1>2, <1>3
  <2>2. /\ a \o b \in Seq(Nat) /\ Len(a \o b) = Len(a) + Len(b) /\ (\A i \in 1 .. Len(a) : (a \o b)[i] = a[i])
        /\ \A i \in 1 .. Len(b) : (a \o b)[Len(a) + i] = b[i]
    BY ONLY <2>1, Joined
  <2>3. Len(a) = n + 1 /\ Len(b) = m - 1 BY <1>2, <1>3
  <2> HIDE DEF n, m
  <2> QED BY ONLY <2>2, <2>3 DEF l
<1> HIDE DEF l, r, n, m
<1>6. Len(l) = n + m BY <1>1, <1>5
<1>7. ASSUME NEW i \in 1 .. n + m PROVE l[i] = r[i]
  <2>1. CASE i \in 1 .. n
    <3>1. i \in 1 .. n + 1 BY <1>1, <2>1
    <3> QED BY <1>2, <1>4, <1>5, <2>1, <3>1
  <2>2. CASE i = n + 1
    <3>1. n + 1 \in 1 .. n + 1 /\ 1 \in 1 .. m BY <1>1
    <3>2. r[n + 1] = t[1] BY <1>4, <3>1
    <3> QED BY <1>2, <1>5, <2>2, <3>1, <3>2
  <2>3. CASE i > n + 1
    <3> DEFINE j == i - (n + 1)
    <3>1. j \in 1 .. m - 1 /\ i = (n + 1) + j /\ j + 1 \in 1 .. m /\ i = n + (j + 1) BY <1>1, <2>3
    <3> HIDE DEF j
    <3>2. l[i] = b[j] /\ b[j] = t[j + 1] BY <1>3, <1>5, <3>1
    <3>3. r[i] = t[j + 1] BY <1>4, <3>1
    <3> QED BY <3>2, <3>3
  <2> QED BY <1>1, <2>1, <2>2, <2>3
<1>8. l = r BY <1>4, <1>5, <1>6, <1>7, SameSeq
<1> QED BY <1>8 DEF l, r, a, b

LEMMA GenParts ==
  ASSUME NEW a \in AsyncGenRec
  PROVE  /\ a.run \in BOOLEAN /\ a.done \in BOOLEAN /\ a.started \in BOOLEAN /\ a.lost \in BOOLEAN
         /\ a.q \in Seq([kind: {"next", "return", "throw"}, arg: Value, p: Nat])
         /\ a.said \in Seq([p: Nat, how: {"yield", "end", "fail"}, x: Value]) /\ a.reqs \in Seq(Nat)
         /\ Promised(a.q) \in Seq(Nat) /\ Promised(a.said) \in Seq(Nat)
<1>1. /\ a.q \in Seq([kind: {"next", "return", "throw"}, arg: Value, p: Nat])
      /\ a.said \in Seq([p: Nat, how: {"yield", "end", "fail"}, x: Value])
  BY DEF AsyncGenRec
<1> DEFINE Q == [kind: {"next", "return", "throw"}, arg: Value, p: Nat]
           S == [p: Nat, how: {"yield", "end", "fail"}, x: Value]
<1>a. (\A d \in Q : d.p \in Nat) /\ \A d \in S : d.p \in Nat OBVIOUS
<1>b. a.q \in Seq(Q) /\ a.said \in Seq(S) BY <1>1
<1> HIDE DEF Q, S
<1>2. Promised(a.q) \in Seq(Nat) /\ Promised(a.said) \in Seq(Nat) BY <1>a, <1>b, PromisedSeq
<1> QED BY <1>1, <1>2 DEF AsyncGenRec

\* A generator that has asked and been told the same.
LEMMA FlagsAll ==
  ASSUME NEW h, NEW st, NEW P, NEW G, NEW X, All(h, st, P, G, X), NEW k \in DOMAIN h.ags, NEW b, b = h.ags[k],
         NEW a, a.q = b.q, a.said = b.said, a.reqs = b.reqs, a.run => a.q # <<>>, a.lost => a.run, b.done => a.done,
         NEW g \in Heap, GenChanges(h, g, k, a), KeptGen(h, g, k) \/ NoPlace(h, st, OfGen, k),
         NEW H, k \notin H => ServesOne(h, st, k, a), \A l \in DOMAIN h.ags : l # k /\ l \notin H => l \notin G
  PROVE  All(g, st, P, H, X) /\ Promise(g) = Promise(h) /\ \A K, x : NoPlace(g, st, K, x) <=> NoPlace(h, st, K, x)
<1>1. /\ g.prom = h.prom /\ g.combs = h.combs /\ g.gen = h.gen /\ g.queue = h.queue
      /\ DOMAIN g.ags = DOMAIN h.ags /\ g.ags[k] = a /\ \A l \in DOMAIN h.ags : l # k => g.ags[l] = h.ags[l]
  BY DEF GenChanges
<1>2. \A l \in DOMAIN h.ags : KeptGen(h, g, l) \/ NoPlace(h, st, OfGen, l) BY <1>1 DEF KeptGen, Serving
<1>3. \A l \in DOMAIN g.ags : Told(h, g.ags[l])
  <2>1. Told(h, b) BY GenTold, Zenon
  <2>2. Told(h, a) BY <2>1, Zenon DEF Told
  <2> QED BY <1>1, <2>2, GenTold
<1>4. \A l \in DOMAIN g.ags : g.ags[l].q = h.ags[l].q /\ g.ags[l].said = h.ags[l].said BY <1>1
<1>5. \A l \in DOMAIN g.ags : \A i \in DOMAIN g.ags[l].q : Asked(h, g, st, l, i)
  <2>1. \A l \in DOMAIN h.ags : \A i \in DOMAIN h.ags[l].q : Asked(h, h, st, l, i) BY GenAsked
  <2> QED BY ONLY <1>1, <1>4, <2>1 DEF Asked
<1>6. \A l \in DOMAIN g.ags : l \notin H => ServesOne(h, st, l, g.ags[l]) BY <1>1, GenServes
<1>7. Answers(h, X) BY DEF All
<1>8. Answers(g, X) BY ONLY <1>1, <1>4, <1>7 DEF Answers
<1>9. DOMAIN h.ags \subseteq DOMAIN g.ags BY <1>1
<1> QED BY ONLY All(h, st, P, G, X), g \in Heap, <1>1, <1>2, <1>3, <1>5, <1>6, <1>8, <1>9, GensAll

SaidRec == [p: Nat, how: {"yield", "end", "fail"}, x: Value]

\* The step in one word.
Shifts(b, a, e, p, n) ==
  /\ b.q # <<>> /\ ~b.lost /\ p = Head(b.q).p /\ e \in SaidRec /\ e.p = p /\ (e.how = "yield" <=> ~b.done)
  /\ a.q = Tail(b.q) /\ ~a.run /\ ~a.lost /\ a.done = b.done /\ a.reqs = b.reqs /\ a.said = Append(b.said, e)
  /\ n = Len(b.said) + 1
ShiftedTo(g, st, G, k, n, p) ==
  /\ All(g, st, {}, G, {<<k, n>>}) /\ NoPlace(g, st, OfGen, k)
  /\ p \in Promise(g) /\ Owned(g, p) /\ Free(g, st, p)

\* agShift: the first request is answered next.
LEMMA ShiftAll ==
  ASSUME NEW h, NEW st, NEW G, All(h, st, {}, G, {}), NEW k \in DOMAIN h.ags, k \in G, NoPlace(h, st, OfGen, k),
         NEW a, NEW e, NEW p, NEW n, Shifts(h.ags[k], a, e, p, n), NEW g \in Heap, GenChanges(h, g, k, a)
  PROVE  ShiftedTo(g, st, G, k, n, p)
<1>b. PICK b : b = h.ags[k] OBVIOUS
<1> b = h.ags[k] BY <1>b
<1> /\ b.q # <<>> /\ ~b.lost /\ p = Head(b.q).p /\ e \in SaidRec /\ e.p = p /\ (e.how = "yield" <=> ~b.done)
    /\ a.q = Tail(b.q) /\ ~a.run /\ ~a.lost /\ a.done = b.done /\ a.reqs = b.reqs /\ a.said = Append(b.said, e)
    /\ n = Len(b.said) + 1
  BY DEF Shifts
<1>0. /\ h \in Heap /\ Core(h, st) /\ RequestsOK(h, st) BY DEF All, Core
<1>1. /\ g.prom = h.prom /\ g.combs = h.combs /\ g.gen = h.gen /\ g.queue = h.queue
      /\ DOMAIN g.ags = DOMAIN h.ags /\ g.ags[k] = a /\ \A l \in DOMAIN h.ags : l # k => g.ags[l] = h.ags[l]
  BY DEF GenChanges
<1>2. \A l \in DOMAIN h.ags : KeptGen(h, g, l) \/ NoPlace(h, st, OfGen, l) BY <1>1 DEF KeptGen, Serving
<1> DEFINE Q == [kind: {"next", "return", "throw"}, arg: Value, p: Nat]
           S == [p: Nat, how: {"yield", "end", "fail"}, x: Value]
<1>3. b.q \in Seq(Q) /\ b.said \in Seq(S) /\ b.done \in BOOLEAN /\ Promised(b.q) \in Seq(Nat) /\ Promised(b.said) \in Seq(Nat)
  <2>1. b \in AsyncGenRec BY <1>0, Parts
  <2> QED BY <2>1, GenParts
<1>q. (\A d \in Q : d.p \in Nat) /\ (\A d \in S : d.p \in Nat) OBVIOUS
<1> DEFINE c == Len(b.q)
<1>4. /\ c \in Nat /\ DOMAIN b.q = 1 .. c /\ c >= 1 /\ Head(b.q) = b.q[1] /\ Head(b.q) \in Q
      /\ DOMAIN a.q = 1 .. c - 1 /\ \A i \in 1 .. c - 1 : a.q[i] = b.q[i + 1]
  <2>1. b.q \in Seq(Q) /\ b.q # <<>> /\ a.q = Tail(b.q) BY <1>3
  <2> HIDE DEF Q
  <2>2. c \in Nat /\ DOMAIN b.q = 1 .. c BY ONLY <2>1, Indices
  <2>3. c >= 1 /\ Head(b.q) = b.q[1] /\ Head(b.q) \in Q BY ONLY <2>1, Tailed
  <2>4. DOMAIN a.q = 1 .. c - 1 /\ \A i \in 1 .. c - 1 : a.q[i] = b.q[i + 1] BY ONLY <2>1, Tailed
  <2> QED BY ONLY <2>2, <2>3, <2>4
<1>5. p \in Nat /\ e \in S /\ e.p = p BY <1>4 DEF SaidRec
<1> HIDE DEF Q, S
<1>n. n \in Nat BY <1>3, Indices
<1>6. /\ DOMAIN a.said = 1 .. n /\ a.said[n] = e /\ (\A i \in 1 .. n - 1 : a.said[i] = b.said[i])
      /\ DOMAIN b.said = 1 .. n - 1
  <2> DEFINE m == Len(b.said)
  <2>1. m \in Nat /\ n = m + 1 /\ m = n - 1 BY <1>3, Indices
  <2>2. /\ DOMAIN a.said = 1 .. m + 1 /\ a.said[m + 1] = e /\ (\A i \in 1 .. m : a.said[i] = b.said[i])
        /\ DOMAIN b.said = 1 .. m
    BY <1>3, <1>5, Appended, Indices
  <2> HIDE DEF m
  <2> QED BY ONLY <2>1, <2>2
<1>7. Promised(a.said) \o Promised(a.q) = Promised(b.said) \o Promised(b.q)
  <2>1. Promised(a.said) = Append(Promised(b.said), e.p) BY <1>3, <1>5, <1>q, PromisedAppend
  <2>2. Promised(a.q) = Tail(Promised(b.q)) /\ Promised(b.q) # <<>> /\ Head(Promised(b.q)) = Head(b.q).p
    BY <1>3, <1>q, PromisedTail
  <2> DEFINE s == Promised(b.said)
             u == Promised(b.q)
  <2>3. Promised(a.said) = Append(s, Head(u)) /\ Promised(a.q) = Tail(u) BY <1>5, <2>1, <2>2
  <2>4. s \in Seq(Nat) /\ u \in Seq(Nat) /\ u # <<>> BY <1>3, <2>2
  <2> HIDE DEF s, u
  <2>5. Append(s, Head(u)) \o Tail(u) = s \o u BY <2>4, MovedHead
  <2> QED BY <2>3, <2>5, Zenon DEF s, u
<1>8. Asked(h, h, st, k, 1) /\ 1 \in DOMAIN b.q /\ b.q[1].p = p BY <1>4, GenAsked
<1>9. Owned(h, p) /\ p \in Promise(h) BY <1>8, ZenonT(60) DEF Asked, Owned
<1>10. Told(h, a)
  <2>1. Told(h, b) BY GenTold, Zenon
  <2>2. a.reqs = Promised(a.said) \o Promised(a.q) BY <1>7, <2>1, Zenon DEF Told, Promised
  <2>i. \A i \in 1 .. n : i = n \/ i \in 1 .. n - 1 BY ONLY <1>n
  <2>3. \A i \in DOMAIN a.said : a.said[i].p \in Promise(h) BY ONLY <1>5, <1>6, <1>9, <2>1, <2>i, ZenonT(60) DEF Told
  <2>4. ASSUME NEW i \in DOMAIN a.said, a.said[i].how # "yield" PROVE a.done
    <3>1. CASE i = n
      <4>1. e.how # "yield" BY <1>6, <2>4, <3>1
      <4>2. b.done BY <4>1
      <4> QED BY <4>2
    <3>2. CASE i # n
      <4>1. i \in 1 .. n - 1 BY <1>6, <2>i, <3>2
      <4>2. b.said[i].how # "yield" /\ i \in DOMAIN b.said BY <1>6, <2>4, <4>1, Zenon
      <4>3. b.done BY <2>1, <4>2, Zenon DEF Told
      <4> QED BY <4>3
    <3> QED BY <3>1, <3>2
  <2>5. ASSUME NEW i \in DOMAIN a.said, NEW j \in DOMAIN a.said, i < j, a.said[i].how # "yield" PROVE a.said[j].how # "yield"
    <3>1. i \in 1 .. n - 1 BY ONLY <1>6, <1>n, <2>5
    <3>2. b.said[i].how # "yield" /\ b.done BY <1>6, <2>1, <2>5, <3>1, Zenon DEF Told
    <3>3. CASE j = n BY <1>6, <3>2, <3>3, Zenon
    <3>4. CASE j # n
      <4>1. j \in 1 .. n - 1 BY <1>6, <2>i, <3>4
      <4> QED BY ONLY <1>6, <2>1, <2>5, <3>1, <3>2, <4>1, Zenon DEF Told
    <3> QED BY <3>3, <3>4
  <2> QED BY <2>2, <2>3, <2>4, <2>5, Zenon DEF Told, Promised
<1>11. \A l \in DOMAIN g.ags : Told(h, g.ags[l]) BY <1>1, <1>10, GenTold
<1>12. ASSUME NEW l \in DOMAIN g.ags, NEW i \in DOMAIN g.ags[l].q
       PROVE  \E j \in DOMAIN h.ags[l].q : /\ g.ags[l].q[i] = h.ags[l].q[j] /\ (l # k => j = i) /\ (l = k => j = i + 1 /\ i \in Int)
  <2>1. CASE l # k BY <1>1, <1>12, <2>1
  <2>2. CASE l = k
    <3>0. g.ags[l] = a /\ h.ags[l] = b BY <1>1, <2>2
    <3>1. i \in 1 .. c - 1 /\ i + 1 \in 1 .. c /\ i \in Int BY ONLY <1>4, <1>12, <3>0
    <3>2. i + 1 \in DOMAIN h.ags[l].q /\ g.ags[l].q[i] = h.ags[l].q[i + 1] BY ONLY <1>4, <3>0, <3>1
    <3> QED BY ONLY <2>2, <3>1, <3>2
  <2> QED BY <2>1, <2>2
<1>13. \A l \in DOMAIN g.ags : \A i \in DOMAIN g.ags[l].q : Asked(h, g, st, l, i)
  <2> SUFFICES ASSUME NEW l \in DOMAIN g.ags, NEW i \in DOMAIN g.ags[l].q PROVE Asked(h, g, st, l, i) OBVIOUS
  <2>1. PICK j \in DOMAIN h.ags[l].q : g.ags[l].q[i] = h.ags[l].q[j] /\ (l # k => j = i) /\ (l = k => j = i + 1 /\ i \in Int)
    BY <1>12
  <2>2. Asked(h, h, st, l, j) BY <1>1, GenAsked
  <2>3. ASSUME NEW m \in DOMAIN g.ags, NEW i2 \in DOMAIN g.ags[m].q, g.ags[m].q[i2].p = g.ags[l].q[i].p PROVE m = l /\ i2 = i
    <3>1. PICK j2 \in DOMAIN h.ags[m].q : g.ags[m].q[i2] = h.ags[m].q[j2] /\ (m # k => j2 = i2) /\ (m = k => j2 = i2 + 1 /\ i2 \in Int)
      BY <1>12
    <3>2. h.ags[m].q[j2].p = h.ags[l].q[j].p BY ONLY <2>1, <2>3, <3>1
    <3>3. m = l /\ j2 = j BY <1>1, <2>2, <3>2 DEF Asked
    <3> QED BY <2>1, <3>1, <3>3
  <2> QED BY <2>1, <2>2, <2>3 DEF Asked
<1>14. \A l \in DOMAIN g.ags : l \notin G => ServesOne(h, st, l, g.ags[l]) BY <1>1, GenServes
<1>15. Answers(h, {}) BY DEF All
<1>16. Answers(g, {<<k, n>>})
  <2> SUFFICES ASSUME NEW l \in DOMAIN h.ags, NEW i \in DOMAIN g.ags[l].said, <<l, i>> # <<k, n>>
               PROVE  h.prom[g.ags[l].said[i].p].state = (IF g.ags[l].said[i].how = "fail" THEN "rejected" ELSE "fulfilled")
    BY <1>1 DEF Answers
  <2>1. i \in DOMAIN h.ags[l].said /\ g.ags[l].said[i] = h.ags[l].said[i]
    <3>1. CASE l # k BY <1>1, <3>1
    <3>2. CASE l = k
      <4>1. i \in 1 .. n - 1 BY <1>1, <1>6, <1>n, <3>2
      <4> QED BY <1>1, <1>6, <3>2, <4>1
    <3> QED BY <3>1, <3>2
  <2> QED BY ONLY <1>15, <2>1 DEF Answers
<1>17. DOMAIN h.ags \subseteq DOMAIN g.ags BY <1>1
<1>18. All(g, st, {}, G, {<<k, n>>}) /\ Promise(g) = Promise(h) /\ \A K, x : NoPlace(g, st, K, x) <=> NoPlace(h, st, K, x)
  BY ONLY All(h, st, {}, G, {}), g \in Heap, <1>1, <1>2, <1>11, <1>13, <1>14, <1>16, <1>17, GensAll
<1>19. ~IsRequest(g, p)
  <2> SUFFICES ASSUME NEW l \in DOMAIN g.ags, NEW i \in DOMAIN g.ags[l].q, g.ags[l].q[i].p = p PROVE FALSE BY DEF IsRequest
  <2>1. PICK j \in DOMAIN h.ags[l].q : g.ags[l].q[i] = h.ags[l].q[j] /\ (l # k => j = i) /\ (l = k => j = i + 1 /\ i \in Int)
    BY <1>12
  <2>2. l = k /\ j = 1 BY <1>1, <1>8, <2>1 DEF Asked
  <2>3. i \in 1 .. c - 1 BY <1>1, <1>4, <2>2
  <2> QED BY <1>4, <2>1, <2>2, <2>3
<1>20. NoPlace(h, st, OfPromise, p) BY <1>8, Zenon DEF Asked
<1>21. Owned(g, p) BY <1>1, <1>9, <1>18, Zenon DEF Owned
<1>22. Free(g, st, p) BY <1>9, <1>18, <1>19, <1>20, <1>21, Zenon DEF Free, Owned
<1> QED BY <1>9, <1>18, <1>21, <1>22, Zenon DEF ShiftedTo

\* A change of one part of a generator leaves a generator.
LEMMA GenRecs ==
  ASSUME NEW a \in AsyncGenRec
  PROVE  /\ \A x \in BOOLEAN : /\ [a EXCEPT !.run = x] \in AsyncGenRec /\ [a EXCEPT !.done = x] \in AsyncGenRec
                               /\ [a EXCEPT !.started = x] \in AsyncGenRec /\ [a EXCEPT !.lost = x] \in AsyncGenRec
         /\ \A x \in Seq([kind: {"next", "return", "throw"}, arg: Value, p: Nat]) : [a EXCEPT !.q = x] \in AsyncGenRec
         /\ \A x \in Seq([p: Nat, how: {"yield", "end", "fail"}, x: Value]) : [a EXCEPT !.said = x] \in AsyncGenRec
         /\ \A x \in Seq(Nat) : [a EXCEPT !.reqs = x] \in AsyncGenRec
<1>1. \A x \in BOOLEAN : [a EXCEPT !.run = x] \in AsyncGenRec BY DEF AsyncGenRec
<1>2. \A x \in BOOLEAN : [a EXCEPT !.done = x] \in AsyncGenRec BY DEF AsyncGenRec
<1>3. \A x \in BOOLEAN : [a EXCEPT !.started = x] \in AsyncGenRec BY DEF AsyncGenRec
<1>4. \A x \in BOOLEAN : [a EXCEPT !.lost = x] \in AsyncGenRec BY DEF AsyncGenRec
<1>5. \A x \in Seq([kind: {"next", "return", "throw"}, arg: Value, p: Nat]) : [a EXCEPT !.q = x] \in AsyncGenRec
  BY DEF AsyncGenRec
<1>6. \A x \in Seq([p: Nat, how: {"yield", "end", "fail"}, x: Value]) : [a EXCEPT !.said = x] \in AsyncGenRec
  BY DEF AsyncGenRec
<1>7. \A x \in Seq(Nat) : [a EXCEPT !.reqs = x] \in AsyncGenRec BY DEF AsyncGenRec
<1> QED BY <1>1, <1>2, <1>3, <1>4, <1>5, <1>6, <1>7

AnsweredBy(b, e) == [b EXCEPT !.q = Tail(@), !.run = FALSE, !.said = Append(@, e)]

LEMMA ShiftedRec ==
  ASSUME NEW b \in AsyncGenRec, b.q # <<>>, NEW e \in SaidRec,
         NEW a, a = AnsweredBy(b, e)
  PROVE  /\ a \in AsyncGenRec /\ a.q = Tail(b.q) /\ a.run = FALSE /\ a.lost = b.lost /\ a.done = b.done /\ a.started = b.started
         /\ a.reqs = b.reqs /\ a.said = Append(b.said, e)
<1> DEFINE q == Tail(b.q)
           s == Append(b.said, e)
           b1 == [b EXCEPT !.q = q]
           b2 == [b1 EXCEPT !.run = FALSE]
           b3 == [b2 EXCEPT !.said = s]
<1>1. a = b3 BY DEF AnsweredBy
<1>2. /\ b.q \in Seq([kind: {"next", "return", "throw"}, arg: Value, p: Nat])
      /\ b.said \in Seq([p: Nat, how: {"yield", "end", "fail"}, x: Value])
  BY GenParts
<1>3. q \in Seq([kind: {"next", "return", "throw"}, arg: Value, p: Nat]) BY <1>2, Tailed
<1>4. s \in Seq([p: Nat, how: {"yield", "end", "fail"}, x: Value]) BY <1>2, Appended DEF SaidRec
<1> HIDE DEF q, s
<1>5. a.q = q /\ a.run = FALSE /\ a.lost = b.lost /\ a.done = b.done /\ a.started = b.started /\ a.reqs = b.reqs /\ a.said = s
  BY <1>1 DEF AsyncGenRec
<1>6. b1 \in AsyncGenRec BY <1>3, GenRecs
<1> HIDE DEF b1
<1>7. b2 \in AsyncGenRec BY <1>6, GenRecs
<1> HIDE DEF b2
<1>8. b3 \in AsyncGenRec BY <1>4, <1>7, GenRecs
<1> QED BY <1>1, <1>5, <1>8 DEF q, s

\* Generator k is idle and its first request is gone.
Shifted(h, g, k) ==
  /\ DOMAIN g.ags = DOMAIN h.ags
  /\ g.ags[k].q = Tail(h.ags[k].q) /\ ~g.ags[k].run /\ ~g.ags[k].lost /\ g.ags[k].done = h.ags[k].done

LEMMA AnswerOne ==
  ASSUME NEW h, NEW st, NEW G, All(h, st, {}, G, {}), NEW k \in DOMAIN h.ags, k \in G, h.ags[k].q # <<>>,
         ~h.ags[k].lost, NoPlace(h, st, OfGen, k), NEW how \in {"yield", "end", "fail"}, NEW x \in Value,
         how = "yield" <=> ~h.ags[k].done, NEW g, g = Answer(h, k, how, x)
  PROVE  g \in Heap /\ All(g, st, {}, G, {}) /\ NoPlace(g, st, OfGen, k) /\ Shifted(h, g, k)
<1> DEFINE b == h.ags[k]
           p == Head(b.q).p
           e == [p |-> p, how |-> how, x |-> x]
           a == AnsweredBy(b, e)
           h1 == [h EXCEPT !.ags = [h.ags EXCEPT ![k] = a]]
           n == Len(b.said) + 1
           how1 == IF how = "fail" THEN "rejected" ELSE "fulfilled"
           v == IF how = "fail" THEN x ELSE Record
<1>0. h \in Heap BY DEF All, Core
<1>1. g = promSettle(h1, p, how1, v) BY DEF Answer, AnsweredBy
<1>2. b \in AsyncGenRec BY <1>0, Parts
<1>3. b.q \in Seq([kind: {"next", "return", "throw"}, arg: Value, p: Nat]) BY <1>2, GenParts
<1>4. Head(b.q) \in [kind: {"next", "return", "throw"}, arg: Value, p: Nat] BY <1>3, Tailed
<1>5. p \in Nat BY <1>4
<1>6. e \in SaidRec /\ e.p = p /\ e.how = how BY <1>5 DEF SaidRec
<1>a. a = AnsweredBy(b, e) /\ b = h.ags[k] /\ p = Head(b.q).p
      /\ n = Len(b.said) + 1 /\ h1 = [h EXCEPT !.ags = [h.ags EXCEPT ![k] = a]]
  OBVIOUS
<1>b. /\ b.q # <<>> /\ ~b.lost /\ (e.how = "yield" <=> ~b.done) OBVIOUS
<1> HIDE DEF a, b, e, p, h1, n
<1>7. /\ a \in AsyncGenRec /\ a.q = Tail(b.q) /\ a.run = FALSE /\ a.lost = b.lost /\ a.done = b.done
      /\ a.reqs = b.reqs /\ a.said = Append(b.said, e)
  BY ONLY <1>2, <1>6, <1>a, <1>b, ShiftedRec, Zenon
<1>8. h1 \in Heap /\ GenChanges(h, h1, k, a) BY ONLY <1>0, <1>7, <1>a, k \in DOMAIN h.ags, GenSet
<1>9. ShiftedTo(h1, st, G, k, n, p)
  <2>1. Shifts(b, a, e, p, n) BY ONLY <1>6, <1>7, <1>a, <1>b DEF Shifts
  <2> QED BY ONLY All(h, st, {}, G, {}), k \in DOMAIN h.ags, k \in G, NoPlace(h, st, OfGen, k), <1>8, <1>a, <2>1, ShiftAll
<1>s. /\ All(h1, st, {}, G, {<<k, n>>}) /\ NoPlace(h1, st, OfGen, k)
      /\ p \in Promise(h1) /\ Owned(h1, p) /\ Free(h1, st, p)
  BY <1>9 DEF ShiftedTo
<1>10. how1 \in {"fulfilled", "rejected"} /\ v \in Value /\ (how1 = "fulfilled" => v \in Final)
  <2>1. Record \in Value /\ Record \notin Thenable /\ Record \notin Nat BY ValuesAssumption DEF Value
  <2> QED BY <2>1 DEF Final
<1>11. h1.prom[p].state = "pending" BY <1>s DEF Owned
<1> HIDE DEF v
<1>12. MayFinish(h1, st, p, how1, v) BY <1>8, <1>s, <1>10, <1>11, FreeMayFinish
<1> HIDE DEF how1
<1>13. /\ g \in Heap /\ All(g, st, {} \ {p}, G, {<<k, n>>}) /\ Carries(h1, g, st, {p}) /\ Settles(h1, g, p, how1, v)
  BY ONLY <1>1, <1>s, <1>11, <1>12, SettleAll
<1>14. {} \ {p} = {} OBVIOUS
<1>15. g.ags = h1.ags /\ g.prom[p].state = how1 BY <1>13 DEF Settles
<1>16. DOMAIN h1.ags = DOMAIN h.ags /\ h1.ags[k] = a BY <1>8 DEF GenChanges
<1>17. a.said[n] = e /\ n \in DOMAIN a.said
  <2>1. b.said \in Seq(SaidRec) BY <1>2, GenParts DEF SaidRec
  <2> QED BY <1>6, <1>7, <2>1, <1>a, Appended
<1>18. e.p = p /\ e.how = how BY <1>6
<1>19. Answers(g, {})
  <2>1. Answers(g, {<<k, n>>}) BY <1>13 DEF All
  <2>2. g.ags[k].said[n] = e BY <1>15, <1>16, <1>17
  <2>3. g.prom[e.p].state = (IF e.how = "fail" THEN "rejected" ELSE "fulfilled") BY <1>15, <1>18 DEF how1
  <2> SUFFICES ASSUME NEW l \in DOMAIN g.ags, NEW i \in DOMAIN g.ags[l].said
               PROVE  g.prom[g.ags[l].said[i].p].state = (IF g.ags[l].said[i].how = "fail" THEN "rejected" ELSE "fulfilled")
    BY DEF Answers
  <2>4. CASE <<l, i>> = <<k, n>> BY <2>2, <2>3, <2>4
  <2>5. CASE <<l, i>> # <<k, n>> BY <2>1, <2>5 DEF Answers
  <2> QED BY <2>4, <2>5
<1>20. All(g, st, {}, G, {}) BY <1>13, <1>14, <1>19 DEF All
<1>21. NoPlace(g, st, OfGen, k) BY <1>s, <1>13 DEF Carries
<1>22. Shifted(h, g, k) BY <1>7, <1>15, <1>16, <1>a, <1>b DEF Shifted
<1> QED BY <1>13, <1>20, <1>21, <1>22

-----------------------------------------------------------------------------
(* Induction over the natural numbers, for a set instead of a predicate.   *)

LEMMA Induction ==
  ASSUME NEW S, 0 \in S, \A n \in Nat : n \in S => n + 1 \in S
  PROVE  Nat \subseteq S
<1> DEFINE R == OpToRel(<, Nat)
           T == Nat \ S
<1>1. IsWellFoundedOn(R, Nat) BY NatLessThanWellFounded
<1>2. \A x, y \in Nat : <<y, x>> \in R <=> y < x BY DEF OpToRel
<1> HIDE DEF R
<1>3. SUFFICES ASSUME T # {} PROVE FALSE OBVIOUS
<1>4. PICK x \in T : \A y \in T : ~(<<y, x>> \in R) BY <1>1, <1>3, WFMin
<1>5. x # 0 /\ x \in Nat BY <1>4
<1>6. x - 1 \in Nat /\ x - 1 < x /\ x = (x - 1) + 1 BY <1>5
<1>7. x - 1 \in T BY <1>4, <1>6
<1> QED BY <1>2, <1>4, <1>5, <1>6, <1>7

\* The heaps that Answering goes through, with q the requests at its start.
ClosedHeap(h, k) == [h EXCEPT !.ags[k].done = TRUE]
AnswerThis(b, k, r) ==
  Answer(b, k, IF r.kind = "throw" THEN "fail" ELSE "end", IF r.kind = "next" THEN Undef ELSE r.arg)
Goes0(f, h, k, q) ==
  f = [n \in 0 .. Len(q) |-> IF n = 0 THEN ClosedHeap(h, k) ELSE AnswerThis(f[n - 1], k, q[n])]

LEMMA AnsweringExists ==
  ASSUME NEW h, NEW k, NEW q, NEW L \in Nat, L = Len(q)
  PROVE  \E f : Goes0(f, h, k, q)
<1> DEFINE Upto(f, m) ==
             \A n \in 0 .. L : n <= m => f[n] = (IF n = 0 THEN ClosedHeap(h, k) ELSE AnswerThis(f[n - 1], k, q[n]))
           S == {m \in Nat : \E f : f = [n \in 0 .. L |-> f[n]] /\ Upto(f, m)}
<1>1. 0 \in S
  <2> DEFINE f == [n \in 0 .. L |-> ClosedHeap(h, k)]
  <2>1. f = [n \in 0 .. L |-> f[n]] /\ Upto(f, 0) OBVIOUS
  <2> QED BY <2>1
<1>2. ASSUME NEW m \in Nat, m \in S PROVE m + 1 \in S
  <2>1. PICK f : f = [n \in 0 .. L |-> f[n]] /\ Upto(f, m) BY <1>2
  <2> DEFINE g == [n \in 0 .. L |-> IF n = m + 1 THEN AnswerThis(f[m], k, q[m + 1]) ELSE f[n]]
  <2>2. g = [n \in 0 .. L |-> g[n]] OBVIOUS
  <2>3. Upto(g, m + 1)
    <3> SUFFICES ASSUME NEW n \in 0 .. L, n <= m + 1
                 PROVE  g[n] = (IF n = 0 THEN ClosedHeap(h, k) ELSE AnswerThis(g[n - 1], k, q[n]))
      OBVIOUS
    <3>1. CASE n = m + 1
      <4>1. n # 0 /\ n - 1 = m /\ m \in 0 .. L /\ m # m + 1 BY <3>1
      <4>2. g[n - 1] = f[m] /\ g[n] = AnswerThis(f[m], k, q[m + 1]) BY <3>1, <4>1
      <4> QED BY <3>1, <4>1, <4>2
    <3>2. CASE n # m + 1
      <4>1. n <= m /\ g[n] = f[n] BY <3>2
      <4>2. n # 0 => n - 1 \in 0 .. L /\ n - 1 # m + 1 BY <4>1
      <4>3. n # 0 => g[n - 1] = f[n - 1] BY <4>2
      <4> QED BY <2>1, <4>1, <4>3
    <3> QED BY <3>1, <3>2
  <2> HIDE DEF g, Upto
  <2> QED BY <2>2, <2>3
<1> HIDE DEF S
<1>3. Nat \subseteq S BY <1>1, <1>2, Induction
<1>4. PICK f : f = [n \in 0 .. L |-> f[n]] /\ Upto(f, L) BY <1>3 DEF S
<1>5. \A n \in 0 .. L : f[n] = (IF n = 0 THEN ClosedHeap(h, k) ELSE AnswerThis(f[n - 1], k, q[n])) BY <1>4
<1>6. f = [n \in 0 .. L |-> IF n = 0 THEN ClosedHeap(h, k) ELSE AnswerThis(f[n - 1], k, q[n])] BY <1>4, <1>5
<1> QED BY <1>6 DEF Goes0

LEMMA AnsweringUnfolds ==
  ASSUME NEW h, NEW k, NEW q, q = h.ags[k].q, Len(q) \in Nat, NEW f, f = Answering(h, k)
  PROVE  Goes0(f, h, k, q)
<1>1. f = CHOOSE g : Goes0(g, h, k, q) BY DEF Answering, Goes0, ClosedHeap, AnswerThis
<1>2. \E g : Goes0(g, h, k, q) BY AnsweringExists
<1> QED BY <1>1, <1>2

\* A generator that is done, with l requests to answer.
Answerer(h, st, k, l) ==
  /\ h \in Heap /\ All(h, st, {}, {k}, {}) /\ NoPlace(h, st, OfGen, k) /\ k \in DOMAIN h.ags
  /\ ~h.ags[k].run /\ ~h.ags[k].lost /\ h.ags[k].done /\ Len(h.ags[k].q) = l

LEMMA AnswererGoesOn ==
  ASSUME NEW h, NEW st, NEW k, NEW l \in Nat, l # 0, Answerer(h, st, k, l),
         NEW r \in [kind: {"next", "return", "throw"}, arg: Value, p: Nat], NEW g, g = AnswerThis(h, k, r)
  PROVE  Answerer(g, st, k, l - 1)
<1> DEFINE how == IF r.kind = "throw" THEN "fail" ELSE "end"
           x == IF r.kind = "next" THEN Undef ELSE r.arg
           q == h.ags[k].q
<1>1. how \in {"yield", "end", "fail"} /\ how # "yield" /\ x \in Value BY DEF Value
<1>2. g = Answer(h, k, how, x) BY DEF AnswerThis
<1> HIDE DEF how, x
<1>3. /\ h \in Heap /\ All(h, st, {}, {k}, {}) /\ NoPlace(h, st, OfGen, k) /\ k \in DOMAIN h.ags
      /\ ~h.ags[k].run /\ ~h.ags[k].lost /\ h.ags[k].done /\ Len(q) = l
  BY DEF Answerer
<1>4. q \in Seq([kind: {"next", "return", "throw"}, arg: Value, p: Nat])
  <2>1. h.ags[k] \in AsyncGenRec BY <1>3, Parts
  <2> QED BY <2>1, GenParts
<1>5. q # <<>> /\ Len(Tail(q)) = l - 1
  <2>1. q # <<>> BY <1>3, <1>4, Indices
  <2> QED BY <1>3, <1>4, <2>1, Tailed
<1>6. how = "yield" <=> ~h.ags[k].done BY <1>1, <1>3
<1>7. k \in {k} OBVIOUS
<1>8. g \in Heap /\ All(g, st, {}, {k}, {}) /\ NoPlace(g, st, OfGen, k) /\ Shifted(h, g, k)
  BY <1>1, <1>2, <1>3, <1>5, <1>6, <1>7, AnswerOne
<1> QED BY <1>3, <1>5, <1>8 DEF Answerer, Shifted

\* Nothing is owed a generator that has no requests.
LEMMA NothingToServe ==
  ASSUME NEW h, NEW st, NEW k, All(h, st, {}, {k}, {}), ServesOne(h, st, k, h.ags[k])
  PROVE  All(h, st, {}, {}, {})
<1>1. Served(h, st, {})
  <2> SUFFICES ASSUME NEW l \in DOMAIN h.ags PROVE ServesOne(h, st, l, h.ags[l]) BY DEF Served, ServesOne
  <2>1. CASE l = k BY <2>1
  <2>2. CASE l # k BY <2>2 DEF All, Served, ServesOne
  <2> QED BY <2>1, <2>2
<1> QED BY <1>1 DEF All

LEMMA AnswerAllAll ==
  ASSUME NEW h, NEW st, NEW k \in DOMAIN h.ags, All(h, st, {}, {k}, {}), NoPlace(h, st, OfGen, k), ~h.ags[k].run,
         NEW g, g = AnswerAll(h, k)
  PROVE  g \in Heap /\ All(g, st, {}, {}, {})
<1> DEFINE b == h.ags[k]
           q == b.q
           L == Len(q)
           f == Answering(h, k)
<1>0. h \in Heap BY DEF All, Core
<1>1. b \in AsyncGenRec BY <1>0, Parts
<1>2. q \in Seq([kind: {"next", "return", "throw"}, arg: Value, p: Nat]) BY <1>1, GenParts
<1>3. L \in Nat /\ DOMAIN q = 1 .. L /\ \A i \in 1 .. L : q[i] \in [kind: {"next", "return", "throw"}, arg: Value, p: Nat]
  BY <1>2, Indices
<1>4. Goes0(f, h, k, q) BY <1>3, AnsweringUnfolds
<1>5. g = f[L] BY DEF AnswerAll
<1> HIDE DEF f
<1>6. Answerer(f[0], st, k, L)
  <2> DEFINE c == ClosedHeap(h, k)
             a == [b EXCEPT !.done = TRUE]
  <2>1. f[0] = c BY <1>3, <1>4 DEF Goes0
  <2>2. a \in AsyncGenRec BY <1>1, GenRecs
  <2>3. /\ a.q = q /\ a.said = b.said /\ a.reqs = b.reqs /\ a.run = b.run /\ a.lost = b.lost /\ a.done = TRUE
    BY <1>1 DEF AsyncGenRec
  <2>4. c = [h EXCEPT !.ags = [h.ags EXCEPT ![k] = a]] BY DEF ClosedHeap
  <2> HIDE DEF c, a
  <2>5. c \in Heap /\ GenChanges(h, c, k, a) BY <1>0, <2>2, <2>4, GenSet
  <2>6. Told(h, b) BY GenTold
  <2>7. ~b.run /\ ~b.lost BY <2>6 DEF Told
  <2>8. /\ a.run => a.q # <<>>
        /\ a.lost => a.run
        /\ b.done => a.done
    BY <2>3, <2>7
  <2>9. /\ k \notin {k} => ServesOne(h, st, k, a)
        /\ \A l \in DOMAIN h.ags : l # k /\ l \notin {k} => l \notin {k}
    OBVIOUS
  <2>10. All(c, st, {}, {k}, {}) /\ \A K, x : NoPlace(c, st, K, x) <=> NoPlace(h, st, K, x)
    BY ONLY All(h, st, {}, {k}, {}), k \in DOMAIN h.ags, NoPlace(h, st, OfGen, k), <2>3, <2>5, <2>8, <2>9, FlagsAll
  <2>11. DOMAIN c.ags = DOMAIN h.ags /\ c.ags[k] = a BY <2>5 DEF GenChanges
  <2>12. ~a.run /\ ~a.lost /\ a.done /\ Len(a.q) = L BY <2>3, <2>7
  <2> HIDE DEF L
  <2> QED BY <2>1, <2>5, <2>10, <2>11, <2>12 DEF Answerer
<1> DEFINE S == {n \in Nat : n <= L => Answerer(f[n], st, k, L - n)}
<1>7. 0 \in S BY <1>3, <1>6
<1>8. ASSUME NEW n \in Nat, n \in S PROVE n + 1 \in S
  <2> SUFFICES ASSUME n + 1 <= L PROVE Answerer(f[n + 1], st, k, L - (n + 1)) OBVIOUS
  <2> DEFINE m == n + 1
             l == L - n
  <2>1. m \in 0 .. L /\ m # 0 /\ m - 1 = n /\ m \in 1 .. L /\ l \in Nat /\ l # 0 /\ L - m = l - 1 BY <1>3
  <2>2. Answerer(f[n], st, k, l) BY <1>3, <1>8
  <2> HIDE DEF m, l
  <2>3. f[m] = AnswerThis(f[n], k, q[m]) BY <1>4, <2>1 DEF Goes0
  <2>4. Answerer(f[m], st, k, l - 1) BY <1>3, <2>1, <2>2, <2>3, AnswererGoesOn
  <2> QED BY <2>1, <2>4 DEF m
<1> HIDE DEF S
<1>9. Nat \subseteq S BY <1>7, <1>8, Induction
<1>10. Answerer(f[L], st, k, L - L) BY ONLY <1>3, <1>9 DEF S
<1>11. L - L = 0 BY <1>3
<1>12. /\ g \in Heap /\ All(g, st, {}, {k}, {}) /\ k \in DOMAIN g.ags /\ ~g.ags[k].run /\ Len(g.ags[k].q) = 0
  BY ONLY <1>5, <1>10, <1>11, Zenon DEF Answerer
<1>13. g.ags[k].q = <<>>
  <2>1. g.ags[k] \in AsyncGenRec BY <1>12, Parts
  <2>2. g.ags[k].q \in Seq([kind: {"next", "return", "throw"}, arg: Value, p: Nat]) BY <2>1, GenParts
  <2> QED BY <1>12, <2>2, Indices
<1>14. ServesOne(g, st, k, g.ags[k]) BY <1>12, <1>13 DEF ServesOne
<1> QED BY <1>12, <1>14, NothingToServe

-----------------------------------------------------------------------------
(* What serves the requests.                                               *)

LEMMA Joins1 ==
  ASSUME NEW S, NEW st \in Seq(S)
  PROVE  st \o <<>> = st /\ \A f \in S : st \o <<f>> = Append(st, f)
<1>1. st \o <<>> = st
  <2> DEFINE t == st \o <<>>
  <2>0. <<>> \in Seq(S) /\ Len(<<>>) = 0 OBVIOUS
  <2>1. t \in Seq(S) /\ Len(t) = Len(st) + 0 /\ \A i \in 1 .. Len(st) : t[i] = st[i] BY <2>0, Joined
  <2>2. Len(st) \in Nat BY Indices
  <2> HIDE DEF t
  <2>3. \A i \in 1 .. Len(t) : t[i] = st[i] BY <2>1, <2>2
  <2>4. t = st BY <2>1, <2>2, <2>3, SameSeq
  <2> QED BY <2>4 DEF t
<1>2. ASSUME NEW f \in S PROVE st \o <<f>> = Append(st, f)
  <2> DEFINE t == st \o <<f>>
             u == Append(st, f)
             n == Len(st)
  <2>0. <<f>> \in Seq(S) /\ Len(<<f>>) = 1 /\ <<f>>[1] = f OBVIOUS
  <2>1. /\ t \in Seq(S) /\ Len(t) = n + 1 /\ (\A i \in 1 .. n : t[i] = st[i])
        /\ \A i \in 1 .. 1 : t[n + i] = <<f>>[i]
    BY <2>0, Joined
  <2>2. u \in Seq(S) /\ Len(u) = n + 1 /\ (\A i \in 1 .. n : u[i] = st[i]) /\ u[n + 1] = f BY Appended
  <2>3. n \in Nat BY Indices
  <2>4. t[n + 1] = f BY <2>0, <2>1
  <2> HIDE DEF t, u, n
  <2>5. \A i \in 1 .. Len(t) : i = n + 1 \/ i \in 1 .. n BY <2>1, <2>3
  <2>6. \A i \in 1 .. Len(t) : t[i] = u[i] BY <2>1, <2>2, <2>4, <2>5
  <2>7. t = u BY <2>1, <2>2, <2>6, SameSeq
  <2> QED BY <2>7 DEF t, u
<1> QED BY <1>1, <1>2

\* The generator begins to serve its first request, by kind of code.
ServedRec(b, a, kind) ==
  /\ a \in AsyncGenRec /\ a.q = b.q /\ a.said = b.said /\ a.reqs = b.reqs /\ a.run = TRUE /\ a.lost = b.lost
  /\ a.done = (kind = "agclose")

ServingFrame(f, k) ==
  /\ f = Frame(f.kind, f.p, f.ok, f.arg) /\ f.kind \in {"agen", "agclose"} /\ f.p = k /\ f.ok \in BOOLEAN /\ f.arg \in Value

LEMMA ServeAll ==
  ASSUME NEW h, NEW st \in Seq(FrameRec), NEW k \in DOMAIN h.ags, All(h, st, {}, {k}, {}),
         ~h.ags[k].run, h.ags[k].q # <<>>, ~h.ags[k].done,
         NEW f, ServingFrame(f, k), NEW a, ServedRec(h.ags[k], a, f.kind), NEW g, g = [h EXCEPT !.ags = [h.ags EXCEPT ![k] = a]]
  PROVE  /\ g \in Heap /\ All(g, Append(st, f), {}, {}, {}) /\ Append(st, f) \in Seq(FrameRec)
         /\ st \o <<f>> = Append(st, f)
<1> DEFINE b == h.ags[k]
<1>0. h \in Heap /\ Core(h, st) BY DEF All, Core
<1>1. /\ a \in AsyncGenRec /\ a.q = b.q /\ a.said = b.said /\ a.reqs = b.reqs /\ a.run = TRUE /\ a.lost = b.lost
      /\ a.done = (f.kind = "agclose")
  BY DEF ServedRec
<1>2. g \in Heap /\ GenChanges(h, g, k, a) BY <1>0, <1>1, GenSet
<1>3. NoPlace(h, st, OfGen, k) BY <1>0, NotServing DEF Serving
<1>4. Told(h, b) BY GenTold
<1>5. /\ a.run => a.q # <<>>
      /\ a.lost => a.run
      /\ b.done => a.done
  BY <1>1
<1>6. /\ k \notin {k} => ServesOne(h, st, k, a)
      /\ \A l \in DOMAIN h.ags : l # k /\ l \notin {k} => l \notin {k}
  OBVIOUS
<1>7. All(g, st, {}, {k}, {}) /\ \A K, x : NoPlace(g, st, K, x) <=> NoPlace(h, st, K, x)
  BY ONLY All(h, st, {}, {k}, {}), k \in DOMAIN h.ags, <1>1, <1>2, <1>3, <1>5, <1>6, FlagsAll
<1>8. k \in DOMAIN g.ags /\ g.ags[k] = a BY <1>2, Zenon DEF GenChanges
<1>9. ~a.lost BY <1>1, <1>4, Zenon DEF Told
<1>10. Serving(g, k) BY <1>1, <1>8, <1>9 DEF Serving
<1>11. /\ f = Frame(f.kind, f.p, f.ok, f.arg) /\ f.kind \in {"agen", "agclose"} /\ f.p = k /\ f.ok \in BOOLEAN
       /\ f.arg \in Value
  BY DEF ServingFrame
<1>12. k \in Nat
  <2>1. h.ags \in Seq(AsyncGenRec) BY <1>0, Parts
  <2> QED BY <2>1, Indices
<1>13. f \in FrameRec BY <1>11, <1>12 DEF Frame, FrameRec
<1>14. FrameIsTyped(g, f) BY <1>8, <1>11 DEF FrameIsTyped
<1>15. FrameOK(g, f) BY <1>1, <1>8, <1>10, <1>11, <1>14 DEF FrameOK
<1>16. f.kind \in OfPromise => NoPlace(g, st, OfPromise, f.p) /\ ~IsRequest(g, f.p) /\ ~IsOut(g, f.p)
  BY <1>11 DEF OfPromise
<1>17. f.kind \in OfGen => NoPlace(g, st, OfGen, f.p) BY <1>3, <1>7, <1>11
<1>h. PICK G, H : G = {k} /\ H = {} OBVIOUS
<1>18. \A l \in G : l \notin H => f.kind \in OfGen /\ f.p = l BY <1>11, <1>h DEF OfGen
<1>t. All(g, st, {}, G, {}) BY <1>7, <1>h
<1>s. PICK s : s = Append(st, f) OBVIOUS
<1>19. All(g, s, {}, H, {}) /\ s \in Seq(FrameRec)
  BY ONLY <1>t, <1>13, <1>15, <1>16, <1>17, <1>18, <1>s, st \in Seq(FrameRec), PushAll
<1>20. st \o <<f>> = Append(st, f) BY <1>13, Joins1
<1> QED BY <1>2, <1>19, <1>20, <1>s, <1>h

\* What a function of the generators gives.
Given(st, r) ==
  /\ r.heap \in Heap /\ st \o r.frames \in Seq(FrameRec) /\ All(r.heap, st \o r.frames, {}, {}, {})

LEMMA CallsParts ==
  ASSUME NEW h, NEW frames, NEW r, r = Calls(h, frames)
  PROVE  r.heap = h /\ r.frames = frames
BY DEF Calls

\* agPump: whoever waits is served.
LEMMA PumpAll ==
  ASSUME NEW h, NEW st \in Seq(FrameRec), NEW k \in DOMAIN h.ags, All(h, st, {}, {k}, {}),
         h.ags[k].run /\ ~h.ags[k].lost => ~NoPlace(h, st, OfGen, k), NEW r, r = agPump(h, k)
  PROVE  Given(st, r)
<1> DEFINE b == h.ags[k]
           req == Head(b.q)
           serves == [h EXCEPT !.ags[k].run = TRUE]
           waits == b.q # <<>> /\ ~b.run
<1>0. h \in Heap /\ Core(h, st) BY DEF All, Core
<1>1. b \in AsyncGenRec BY <1>0, Parts
<1>2. b.q \in Seq([kind: {"next", "return", "throw"}, arg: Value, p: Nat]) /\ b.done \in BOOLEAN /\ b.started \in BOOLEAN
      /\ b.run \in BOOLEAN
  BY <1>1, GenParts
<1>3. b.q # <<>> => req \in [kind: {"next", "return", "throw"}, arg: Value, p: Nat] BY <1>2, Tailed
<1>4. st \o <<>> = st BY Joins1
<1>5. CASE ~waits
  <2>1. r = Calls(h, <<>>) BY <1>5 DEF agPump
  <2>2. r.heap = h /\ r.frames = <<>> BY <2>1 DEF Calls
  <2>3. ServesOne(h, st, k, h.ags[k]) BY <1>5 DEF ServesOne
  <2>4. All(h, st, {}, {}, {}) BY <2>3, NothingToServe
  <2> QED BY <1>0, <1>4, <2>2, <2>4 DEF Given
<1>6. CASE waits /\ (b.done \/ (~b.started /\ req.kind # "next"))
  <2>1. r = Calls(AnswerAll(h, k), <<>>) BY <1>6 DEF agPump
  <2>2. r.heap = AnswerAll(h, k) /\ r.frames = <<>> BY <2>1 DEF Calls
  <2>3. NoPlace(h, st, OfGen, k) BY <1>0, <1>6, NotServing DEF Serving
  <2>4. r.heap \in Heap /\ All(r.heap, st, {}, {}, {}) BY <1>6, <2>2, <2>3, AnswerAllAll
  <2> QED BY <1>4, <2>2, <2>4 DEF Given
<1>7. CASE waits /\ ~b.done /\ b.started /\ req.kind = "return"
  <2>1. r = Calls([serves EXCEPT !.ags[k].done = TRUE], <<Frame("agclose", k, TRUE, Undef)>>) BY <1>7 DEF agPump
  <2>h. PICK h1, fs : h1 = [serves EXCEPT !.ags[k].done = TRUE] /\ fs = <<Frame("agclose", k, TRUE, Undef)>> OBVIOUS
  <2>c. r = Calls(h1, fs) BY <2>1, <2>h
  <2>e. r.heap = h1 /\ r.frames = fs BY ONLY <2>c, CallsParts
  <2>2. r.heap = [serves EXCEPT !.ags[k].done = TRUE] /\ r.frames = <<Frame("agclose", k, TRUE, Undef)>>
    BY ONLY <2>h, <2>e
  <2> DEFINE a1 == [b EXCEPT !.run = TRUE]
             a == [a1 EXCEPT !.done = TRUE]
             g == [h EXCEPT !.ags = [h.ags EXCEPT ![k] = a]]
             f == Frame("agclose", k, TRUE, Undef)
  <2>3. r.heap = g BY <1>0, <2>2 DEF Heap
  <2>4. a1 \in AsyncGenRec BY <1>1, GenRecs
  <2>5. a \in AsyncGenRec BY <2>4, GenRecs
  <2>6. a.q = b.q /\ a.said = b.said /\ a.reqs = b.reqs /\ a.run = TRUE /\ a.lost = b.lost /\ a.done = TRUE
    BY <1>1 DEF AsyncGenRec
  <2>v. Undef \in Value /\ TRUE \in BOOLEAN /\ "agclose" \in {"agen", "agclose"} BY DEF Value
  <2>a. PICK c : c = a OBVIOUS
  <2>g. PICK g1 : g1 = g OBVIOUS
  <2>f. PICK f1 : f1 = f OBVIOUS
  <2>d. ServingFrame(f1, k) /\ f1.kind = "agclose" BY <2>f, <2>v DEF Frame, ServingFrame
  <2>7. ServedRec(b, c, f1.kind) BY <2>5, <2>6, <2>a, <2>d DEF ServedRec
  <2>8. ~b.run /\ b.q # <<>> /\ ~b.done BY <1>7
  <2>9. g1 = [h EXCEPT !.ags = [h.ags EXCEPT ![k] = c]] BY <2>a, <2>g
  <2>r. r.frames = <<f1>> BY ONLY <2>2, <2>f
  <2> HIDE DEF a1, a, g, f
  <2>10. /\ g1 \in Heap /\ All(g1, Append(st, f1), {}, {}, {}) /\ Append(st, f1) \in Seq(FrameRec)
         /\ st \o <<f1>> = Append(st, f1)
    BY ONLY <2>7, <2>d, <2>8, <2>9, st \in Seq(FrameRec), k \in DOMAIN h.ags, All(h, st, {}, {k}, {}), ServeAll
  <2> QED BY <2>r, <2>3, <2>10, <2>g DEF Given
<1>8. CASE waits /\ ~b.done /\ ~(b.started /\ req.kind = "return") /\ ~(~b.started /\ req.kind # "next")
  <2>0. /\ ~(~waits) /\ ~(waits /\ (b.done \/ (~b.started /\ req.kind # "next")))
        /\ ~(waits /\ ~b.done /\ b.started /\ req.kind = "return")
    BY <1>8
  <2>1. r = Calls([serves EXCEPT !.ags[k].started = TRUE], <<Frame("agen", k, req.kind = "next", req.arg)>>)
    BY <2>0 DEF agPump
  <2>2. r.heap = [serves EXCEPT !.ags[k].started = TRUE] /\ r.frames = <<Frame("agen", k, req.kind = "next", req.arg)>>
    BY ONLY <2>1, CallsParts
  <2>o. PICK ok \in BOOLEAN, arg \in Value : ok = (req.kind = "next") /\ arg = req.arg BY <1>3, <1>8
  <2> DEFINE a1 == [b EXCEPT !.run = TRUE]
             a == [a1 EXCEPT !.started = TRUE]
             g == [h EXCEPT !.ags = [h.ags EXCEPT ![k] = a]]
             f == Frame("agen", k, ok, arg)
  <2>3. r.heap = g BY <1>0, <2>2 DEF Heap
  <2>4. a1 \in AsyncGenRec BY <1>1, GenRecs
  <2>5. a \in AsyncGenRec BY <2>4, GenRecs
  <2>6. a.q = b.q /\ a.said = b.said /\ a.reqs = b.reqs /\ a.run = TRUE /\ a.lost = b.lost /\ a.done = FALSE
    BY <1>1, <1>2, <1>8 DEF AsyncGenRec
  <2>v. "agen" \in {"agen", "agclose"} OBVIOUS
  <2>a. PICK c : c = a OBVIOUS
  <2>g. PICK g1 : g1 = g OBVIOUS
  <2>f. PICK f1 : f1 = f OBVIOUS
  <2>d. ServingFrame(f1, k) /\ f1.kind = "agen" BY <2>f, <2>v DEF Frame, ServingFrame
  <2>7. ServedRec(b, c, f1.kind) BY <2>5, <2>6, <2>a, <2>d DEF ServedRec
  <2>8. ~b.run /\ b.q # <<>> /\ ~b.done BY <1>8
  <2>9. g1 = [h EXCEPT !.ags = [h.ags EXCEPT ![k] = c]] BY <2>a, <2>g
  <2>r. r.frames = <<f1>> BY <2>2, <2>f, <2>o
  <2> HIDE DEF a1, a, g, f
  <2>10. /\ g1 \in Heap /\ All(g1, Append(st, f1), {}, {}, {}) /\ Append(st, f1) \in Seq(FrameRec)
         /\ st \o <<f1>> = Append(st, f1)
    BY ONLY <2>7, <2>d, <2>8, <2>9, st \in Seq(FrameRec), k \in DOMAIN h.ags, All(h, st, {}, {k}, {}), ServeAll
  <2> QED BY <2>r, <2>3, <2>10, <2>g DEF Given
<1> HIDE DEF b, req, serves
<1> QED BY <1>5, <1>6, <1>7, <1>8

\* A generator that is made has nothing to serve.
LEMMA NewGenAll ==
  ASSUME NEW h, NEW st, All(h, st, {}, {}, {}), NEW g, g = [h EXCEPT !.ags = Append(@, NewAsyncGen)]
  PROVE  g \in Heap /\ All(g, st, {}, {}, {})
<1>0. h \in Heap BY DEF All, Core
<1> DEFINE a == NewAsyncGen
           n == Len(h.ags)
           s == Append(h.ags, a)
           Q == [kind: {"next", "return", "throw"}, arg: Value, p: Nat]
           S == [p: Nat, how: {"yield", "end", "fail"}, x: Value]
<1>1. a \in AsyncGenRec
  <2>1. <<>> \in Seq(Q) /\ <<>> \in Seq(S) /\ <<>> \in Seq(Nat) OBVIOUS
  <2> HIDE DEF Q, S
  <2>2. a = [q |-> <<>>, run |-> FALSE, done |-> FALSE, started |-> FALSE, reqs |-> <<>>, said |-> <<>>, lost |-> FALSE]
    BY DEF NewAsyncGen
  <2>3. AsyncGenRec = [q: Seq(Q), run: BOOLEAN, done: BOOLEAN, started: BOOLEAN, reqs: Seq(Nat), said: Seq(S), lost: BOOLEAN]
    BY DEF AsyncGenRec, Q, S
  <2> HIDE DEF a
  <2> QED BY ONLY <2>1, <2>2, <2>3
<1>2. a.q = <<>> /\ a.run = FALSE /\ a.lost = FALSE /\ a.said = <<>> /\ a.reqs = <<>> BY DEF NewAsyncGen
<1> HIDE DEF a
<1>3. /\ s \in Seq(AsyncGenRec) /\ n \in Nat /\ DOMAIN h.ags = 1 .. n /\ DOMAIN s = 1 .. n + 1 /\ s[n + 1] = a
      /\ \A i \in 1 .. n : s[i] = h.ags[i]
  <2>1. h.ags \in Seq(AsyncGenRec) BY <1>0, Parts
  <2> QED BY <1>1, <2>1, Appended, Indices
<1> HIDE DEF s, n
<1>4. /\ g.ags = s /\ g.prom = h.prom /\ g.queue = h.queue /\ g.combs = h.combs /\ g.gen = h.gen
      /\ g = [prom |-> g.prom, combs |-> g.combs, ags |-> g.ags, queue |-> g.queue, gen |-> g.gen]
  BY <1>0 DEF s, a, Heap
<1>5. g \in Heap BY ONLY <1>0, <1>3, <1>4 DEF Heap
<1>6. /\ DOMAIN h.ags \subseteq DOMAIN g.ags /\ (\A k \in DOMAIN h.ags : g.ags[k] = h.ags[k])
      /\ \A k \in DOMAIN g.ags : k \in DOMAIN h.ags \/ g.ags[k] = a
  BY <1>3, <1>4
<1>7. \A k \in DOMAIN h.ags : KeptGen(h, g, k) \/ NoPlace(h, st, OfGen, k) BY <1>6 DEF KeptGen, Serving
<1>8. \A k \in DOMAIN g.ags : Told(h, g.ags[k])
  <2>1. \A i \in DOMAIN <<>> : FALSE OBVIOUS
  <2>2. a.reqs = [i \in DOMAIN a.said |-> a.said[i].p] \o [i \in DOMAIN a.q |-> a.q[i].p]
    <3>1. [i \in DOMAIN a.said |-> a.said[i].p] = <<>> /\ [i \in DOMAIN a.q |-> a.q[i].p] = <<>> BY <1>2
    <3> QED BY <1>2, <3>1
  <2>3. Told(h, a) BY <1>2, <2>1, <2>2 DEF Told
  <2>4. \A k \in DOMAIN h.ags : Told(h, h.ags[k]) BY GenTold
  <2> QED BY <1>6, <2>3, <2>4
<1>9. \A k \in DOMAIN g.ags : \A i \in DOMAIN g.ags[k].q : Asked(h, g, st, k, i)
  <2>1. \A k \in DOMAIN h.ags : \A i \in DOMAIN h.ags[k].q : Asked(h, h, st, k, i) BY GenAsked
  <2>2. \A k \in DOMAIN g.ags : \A i \in DOMAIN g.ags[k].q : k \in DOMAIN h.ags /\ i \in DOMAIN h.ags[k].q /\ g.ags[k].q = h.ags[k].q
    BY <1>2, <1>6
  <2> QED BY ONLY <1>6, <2>1, <2>2 DEF Asked
<1>10. \A k \in DOMAIN g.ags : k \notin {} => ServesOne(h, st, k, g.ags[k])
  <2>1. \A k \in DOMAIN h.ags : ServesOne(h, st, k, h.ags[k]) BY GenServes
  <2>2. \A k : ServesOne(h, st, k, a) BY <1>2 DEF ServesOne
  <2> QED BY <1>6, <2>1, <2>2
<1>11. Answers(g, {})
  <2>1. Answers(h, {}) BY DEF All
  <2>2. \A k \in DOMAIN g.ags : \A i \in DOMAIN g.ags[k].said : k \in DOMAIN h.ags /\ i \in DOMAIN h.ags[k].said /\ g.ags[k].said = h.ags[k].said
    BY <1>2, <1>6
  <2> QED BY ONLY <1>4, <2>1, <2>2 DEF Answers
<1>12. g.prom = h.prom /\ g.combs = h.combs /\ g.gen = h.gen /\ g.queue = h.queue /\ DOMAIN h.ags \subseteq DOMAIN g.ags
  BY <1>4, <1>6
<1>h. PICK H : H = {} OBVIOUS
<1>13. \A k \in DOMAIN g.ags : k \notin H => ServesOne(h, st, k, g.ags[k]) BY <1>10, <1>h
<1>14. All(g, st, {}, H, {})
  BY ONLY All(h, st, {}, {}, {}), <1>5, <1>7, <1>8, <1>9, <1>11, <1>12, <1>13, GensAll
<1> QED BY <1>5, <1>14, <1>h

\* A request joins the end of the queue.
AskedRec(b, a, r) ==
  /\ a \in AsyncGenRec /\ a.q = Append(b.q, r) /\ a.reqs = Append(b.reqs, r.p) /\ a.said = b.said
  /\ a.run = b.run /\ a.lost = b.lost /\ a.done = b.done

LEMMA AskAll ==
  ASSUME NEW h, NEW st, All(h, st, {}, {}, {}), NEW k \in DOMAIN h.ags,
         NEW r \in [kind: {"next", "return", "throw"}, arg: Value, p: Nat],
         Owned(h, r.p), NoPlace(h, st, OfPromise, r.p), ~IsOut(h, r.p), ~IsRequest(h, r.p),
         NEW a, AskedRec(h.ags[k], a, r), NEW g \in Heap, GenChanges(h, g, k, a)
  PROVE  All(g, st, {}, {k}, {}) /\ \A K, x : NoPlace(g, st, K, x) <=> NoPlace(h, st, K, x)
<1> DEFINE b == h.ags[k]
           Q == [kind: {"next", "return", "throw"}, arg: Value, p: Nat]
           c == Len(b.q)
<1>0. h \in Heap BY DEF All, Core
<1>1. /\ g.prom = h.prom /\ g.combs = h.combs /\ g.gen = h.gen /\ g.queue = h.queue
      /\ DOMAIN g.ags = DOMAIN h.ags /\ g.ags[k] = a /\ \A l \in DOMAIN h.ags : l # k => g.ags[l] = h.ags[l]
  BY DEF GenChanges
<1>2. /\ a.q = Append(b.q, r) /\ a.reqs = Append(b.reqs, r.p) /\ a.said = b.said
      /\ a.run = b.run /\ a.lost = b.lost /\ a.done = b.done
  BY DEF AskedRec
<1>3. /\ b.q \in Seq(Q) /\ Promised(b.q) \in Seq(Nat) /\ Promised(b.said) \in Seq(Nat)
  <2>1. b \in AsyncGenRec BY <1>0, Parts
  <2> QED BY <2>1, GenParts
<1>4. /\ c \in Nat /\ DOMAIN b.q = 1 .. c /\ DOMAIN a.q = 1 .. c + 1 /\ a.q[c + 1] = r
      /\ (\A i \in 1 .. c : a.q[i] = b.q[i]) /\ r.p \in Nat /\ (\A d \in Q : d.p \in Nat) /\ r \in Q
  <2>1. r \in Q /\ r.p \in Nat /\ (\A d \in Q : d.p \in Nat) OBVIOUS
  <2> HIDE DEF Q
  <2> QED BY ONLY <1>2, <1>3, <2>1, Appended, Indices
<1> HIDE DEF Q, c
<1>5. /\ \A i \in DOMAIN a.q : (a.q[i] = r /\ i = c + 1) \/ (i \in DOMAIN b.q /\ a.q[i] = b.q[i])
      /\ a.q # <<>>
  <2>1. \A i \in 1 .. c + 1 : i = c + 1 \/ i \in 1 .. c BY <1>4
  <2>2. c + 1 \in DOMAIN a.q BY <1>4
  <2>3. a.q # <<>> BY <2>2
  <2> QED BY ONLY <1>4, <2>1, <2>3
<1>6. KeptGen(h, g, k) \/ NoPlace(h, st, OfGen, k)
  <2>1. CASE Serving(h, k) BY <1>1, <1>2, <1>5, <2>1 DEF KeptGen, Serving
  <2>2. CASE ~Serving(h, k)
    <3>1. Core(h, st) BY DEF All
    <3> QED BY <2>2, <3>1, NotServing
  <2> QED BY <2>1, <2>2
<1>7. \A l \in DOMAIN h.ags : KeptGen(h, g, l) \/ NoPlace(h, st, OfGen, l) BY <1>1, <1>6 DEF KeptGen, Serving
<1>8. \A l \in DOMAIN g.ags : Told(h, g.ags[l])
  <2>1. \A l \in DOMAIN h.ags : Told(h, h.ags[l]) BY GenTold
  <2>2. Promised(a.q) = Append(Promised(b.q), r.p) BY <1>2, <1>3, <1>4, PromisedAppend
  <2>3. Promised(b.said) \o Promised(a.q) = Append(Promised(b.said) \o Promised(b.q), r.p)
    BY ONLY <1>3, <1>4, <2>2, LaterAppend
  <2>4. Told(h, b) BY <2>1
  <2>5. a.reqs = [i \in DOMAIN a.said |-> a.said[i].p] \o [i \in DOMAIN a.q |-> a.q[i].p]
    <3>1. b.reqs = Promised(b.said) \o Promised(b.q) BY ONLY <2>4, Zenon DEF Told, Promised
    <3>2. a.reqs = Promised(a.said) \o Promised(a.q) BY ONLY <1>2, <2>3, <3>1, Zenon
    <3> QED BY <3>2 DEF Promised
  <2>6. Told(h, a) BY ONLY <1>2, <1>5, <2>4, <2>5, ZenonT(60) DEF Told
  <2> QED BY <1>1, <2>1, <2>6
<1>9. \A l \in DOMAIN g.ags : \A i \in DOMAIN g.ags[l].q : Asked(h, g, st, l, i)
  <2>1. \A l \in DOMAIN h.ags : \A i \in DOMAIN h.ags[l].q : Asked(h, h, st, l, i) BY GenAsked
  <2>2. \A l \in DOMAIN h.ags : \A i \in DOMAIN h.ags[l].q : h.ags[l].q[i].p # r.p BY DEF IsRequest
  <2>3. \A l \in DOMAIN g.ags : \A i \in DOMAIN g.ags[l].q :
          \/ (l = k /\ i = c + 1 /\ g.ags[l].q[i] = r)
          \/ (i \in DOMAIN h.ags[l].q /\ g.ags[l].q[i] = h.ags[l].q[i])
    BY <1>1, <1>5
  <2> SUFFICES ASSUME NEW l \in DOMAIN g.ags, NEW i \in DOMAIN g.ags[l].q PROVE Asked(h, g, st, l, i) OBVIOUS
  <2>4. CASE l = k /\ i = c + 1 /\ g.ags[l].q[i] = r
    <3>1. \A m \in DOMAIN g.ags : \A j \in DOMAIN g.ags[m].q : g.ags[m].q[j].p = r.p => m = k /\ j = c + 1
      BY <1>1, <2>2, <2>3
    <3> QED BY <2>4, <3>1 DEF Asked
  <2>5. CASE i \in DOMAIN h.ags[l].q /\ g.ags[l].q[i] = h.ags[l].q[i]
    <3>1. Asked(h, h, st, l, i) /\ h.ags[l].q[i].p # r.p BY <1>1, <2>1, <2>2, <2>5
    <3>2. \A m \in DOMAIN g.ags : \A j \in DOMAIN g.ags[m].q : g.ags[m].q[j].p = g.ags[l].q[i].p => m = l /\ j = i
      BY ONLY <1>1, <2>3, <2>5, <3>1 DEF Asked
    <3> QED BY ONLY <2>5, <3>1, <3>2 DEF Asked
  <2> QED BY <2>3, <2>4, <2>5
<1>h. PICK H : H = {k} OBVIOUS
<1>10. \A l \in DOMAIN g.ags : l \notin H => ServesOne(h, st, l, g.ags[l])
  <2>1. \A l \in DOMAIN h.ags : ServesOne(h, st, l, h.ags[l]) BY GenServes
  <2> QED BY <1>1, <1>h, <2>1
<1>11. Answers(g, {})
  <2>1. Answers(h, {}) BY DEF All
  <2>2. \A l \in DOMAIN g.ags : g.ags[l].said = h.ags[l].said BY <1>1, <1>2
  <2> QED BY ONLY <1>1, <2>1, <2>2 DEF Answers
<1>12. DOMAIN h.ags \subseteq DOMAIN g.ags BY <1>1
<1>13. All(g, st, {}, H, {}) /\ \A K, x : NoPlace(g, st, K, x) <=> NoPlace(h, st, K, x)
  BY ONLY All(h, st, {}, {}, {}), g \in Heap, <1>1, <1>7, <1>8, <1>9, <1>10, <1>11, <1>12, GensAll
<1> QED BY <1>13, <1>h

\* next(x), return(x) and throw(x).
LEMMA RequestAll ==
  ASSUME NEW h, NEW st \in Seq(FrameRec), All(h, st, {}, {}, {}), NEW k \in DOMAIN h.ags,
         NEW kind \in {"next", "return", "throw"}, NEW x \in Value, NEW res, res = agReq(h, k, kind, x)
  PROVE  Given(st, res)
<1> DEFINE h1 == promNew(h)
           p == Len(h1.prom)
           b == h1.ags[k]
           r == [kind |-> kind, arg |-> x, p |-> p]
           a == [[b EXCEPT !.q = Append(@, r)] EXCEPT !.reqs = Append(@, p)]
           g == [h1 EXCEPT !.ags = [h1.ags EXCEPT ![k] = a]]
<1>0. h \in Heap BY DEF All, Core
<1>1. PICK n, s : n = Len(h.prom) + 1 /\ s = NewPromise OBVIOUS
<1>2. h1 = [h EXCEPT !.prom = Append(@, s)] BY <1>1 DEF promNew
<1>3. /\ h1 \in Heap /\ Makes(h, h1, s) /\ All(h1, st, {}, {}, {})
      /\ n \in Promise(h1) /\ h1.prom[n] = s /\ n = Len(h1.prom)
      /\ NoPlace(h1, st, OfPromise, n) /\ ~IsRequest(h1, n) /\ ~IsOut(h1, n)
  <2>1. s = NewPromise \/ s = [NewPromise EXCEPT !.cap = TRUE] BY <1>1
  <2>m. PICK m : m = h1 OBVIOUS
  <2>2. m = [h EXCEPT !.prom = Append(@, s)] BY <1>2, <2>m
  <2> HIDE DEF h1
  <2>3. /\ m \in Heap /\ Makes(h, m, s) /\ All(m, st, {}, {}, {})
        /\ n \in Promise(m) /\ m.prom[n] = s /\ n = Len(m.prom)
        /\ NoPlace(m, st, OfPromise, n) /\ ~IsRequest(m, n) /\ ~IsOut(m, n)
    BY <1>1, <2>1, <2>2, MakeAll
  <2> QED BY <2>3, <2>m
<1>4. h1.ags = h.ags BY <1>0, <1>2 DEF Heap
<1>5. p = n BY <1>3
<1>6. res = agPump(g, k)
  <2>1. agReq(h, k, kind, x) = agPump([h1 EXCEPT !.ags[k].q = Append(@, r), !.ags[k].reqs = Append(@, p)], k)
    BY DEF agReq, Last1
  <2>2. g = [h1 EXCEPT !.ags[k].q = Append(@, r), !.ags[k].reqs = Append(@, p)]
    <3> HIDE DEF h1, p
    <3>1. h1.ags \in Seq(AsyncGenRec) BY <1>3, Parts
    <3>2. b \in AsyncGenRec BY <1>3, <1>4, Parts
    <3> QED BY <1>3, <1>4, <3>1, <3>2 DEF Heap, AsyncGenRec
  <2> QED BY <2>1, <2>2
<1> HIDE DEF h1, p
<1>7. n \in Nat
  <2>1. h1.prom \in Seq(PromiseRec) BY <1>3, Parts
  <2> QED BY <1>3, <2>1, Indices
<1>8. b \in AsyncGenRec BY <1>3, <1>4, Parts
<1>9. r \in [kind: {"next", "return", "throw"}, arg: Value, p: Nat] /\ r.p = n BY <1>5, <1>7
<1>10. AskedRec(b, a, r)
  <2> DEFINE b1 == [b EXCEPT !.q = Append(@, r)]
  <2>1. /\ b.q \in Seq([kind: {"next", "return", "throw"}, arg: Value, p: Nat]) /\ b.reqs \in Seq(Nat) BY <1>8, GenParts
  <2>2. Append(b.q, r) \in Seq([kind: {"next", "return", "throw"}, arg: Value, p: Nat]) BY <1>9, <2>1, Appended
  <2>3. Append(b.reqs, p) \in Seq(Nat) BY <1>5, <1>7, <2>1, Appended
  <2>p. r.p = p OBVIOUS
  <2> HIDE DEF r
  <2>4. b1 \in AsyncGenRec BY <1>8, <2>2, GenRecs
  <2>5. b1.reqs = b.reqs /\ a.q = Append(b.q, r) /\ a.reqs = Append(b.reqs, p) /\ a.said = b.said /\ a.run = b.run
        /\ a.lost = b.lost /\ a.done = b.done
    BY <1>8 DEF AsyncGenRec
  <2>6. a = [b1 EXCEPT !.reqs = Append(b.reqs, p)] BY <2>5
  <2> HIDE DEF b1
  <2>7. [b1 EXCEPT !.reqs = Append(b.reqs, p)] \in AsyncGenRec BY <2>3, <2>4, GenRecs
  <2> QED BY <2>5, <2>6, <2>7, <2>p DEF AskedRec
<1>11. Owned(h1, n) BY <1>1, <1>3 DEF Owned, NewPromise
<1>12. PICK r1, a1, g1 : r1 = r /\ a1 = a /\ g1 = g OBVIOUS
<1>13. g1 = [h1 EXCEPT !.ags = [h1.ags EXCEPT ![k] = a1]] BY <1>12
<1>14. /\ r1 \in [kind: {"next", "return", "throw"}, arg: Value, p: Nat] /\ r1.p = n /\ AskedRec(b, a1, r1) /\ a1 \in AsyncGenRec
  BY <1>9, <1>10, <1>12 DEF AskedRec
<1>15. res = agPump(g1, k) BY <1>6, <1>12
<1> HIDE DEF r, a, g
<1>16. g1 \in Heap /\ GenChanges(h1, g1, k, a1) BY ONLY <1>3, <1>4, <1>13, <1>14, k \in DOMAIN h.ags, GenSet
<1>k. k \in DOMAIN h1.ags BY <1>4
<1>17. All(g1, st, {}, {k}, {}) /\ \A K, y : NoPlace(g1, st, K, y) <=> NoPlace(h1, st, K, y)
  <2>1. Owned(h1, r1.p) /\ NoPlace(h1, st, OfPromise, r1.p) /\ ~IsOut(h1, r1.p) /\ ~IsRequest(h1, r1.p)
    BY <1>3, <1>11, <1>14
  <2> QED BY ONLY <1>3, <1>14, <1>16, <1>k, <2>1, AskAll
<1>18. k \in DOMAIN g1.ags /\ g1.ags[k] = a1 BY <1>16, <1>k DEF GenChanges
<1>19. g1.ags[k].run /\ ~g1.ags[k].lost => ~NoPlace(g1, st, OfGen, k)
  <2>1. ServesOne(h1, st, k, b) BY <1>3, <1>k, GenServes
  <2> QED BY <1>14, <1>17, <1>18, <2>1 DEF ServesOne, AskedRec
<1> QED BY <1>15, <1>17, <1>18, <1>19, PumpAll

\* agComplete and agFail.
LEMMA CompleteAll ==
  ASSUME NEW h, NEW st \in Seq(FrameRec), NEW k \in DOMAIN h.ags, All(h, st, {}, {k}, {}), NoPlace(h, st, OfGen, k),
         Serving(h, k), NEW how \in {"yield", "end", "fail"}, how = "yield" => ~h.ags[k].done, NEW x \in Value,
         NEW res, res = agComplete(h, k, how, x)
  PROVE  Given(st, res)
<1> DEFINE b == h.ags[k]
           d == b.done \/ how # "yield"
           a == [b EXCEPT !.done = d]
           h1 == [h EXCEPT !.ags = [h.ags EXCEPT ![k] = a]]
<1>0. h \in Heap BY DEF All, Core
<1>1. b \in AsyncGenRec BY <1>0, Parts
<1>2. b.run /\ b.q # <<>> /\ ~b.lost BY DEF Serving
<1>3. PICK d1 \in BOOLEAN : d1 = d OBVIOUS
<1>4. PICK a1, g1 : a1 = [b EXCEPT !.done = d1] /\ g1 = [h EXCEPT !.ags = [h.ags EXCEPT ![k] = a1]] OBVIOUS
<1>5. /\ a1 \in AsyncGenRec /\ a1.q = b.q /\ a1.said = b.said /\ a1.reqs = b.reqs /\ a1.run = b.run /\ a1.lost = b.lost
      /\ a1.done = d1
  <2>1. a1 \in AsyncGenRec BY <1>1, <1>4, GenRecs
  <2> QED BY <1>1, <1>4, <2>1 DEF AsyncGenRec
<1>6. res = agPump(Answer(g1, k, how, x), k)
  <2>1. g1 = [h EXCEPT !.ags[k].done = @ \/ how # "yield"] BY <1>0, <1>3, <1>4 DEF Heap
  <2> QED BY <2>1 DEF agComplete
<1>7. b.done => d1 BY <1>3
<1>8. (how = "yield") <=> ~d1 BY <1>3
<1> HIDE DEF a, h1, d
<1>9. g1 \in Heap /\ GenChanges(h, g1, k, a1) BY <1>0, <1>4, <1>5, GenSet
<1>b. PICK c : c = b OBVIOUS
<1>10. /\ c = h.ags[k] /\ a1.q = c.q /\ a1.said = c.said /\ a1.reqs = c.reqs
       /\ a1.run => a1.q # <<>>
       /\ a1.lost => a1.run
       /\ c.done => a1.done
  BY <1>b, <1>2, <1>5, <1>7
<1>h. PICK G : G = {k} OBVIOUS
<1>11. /\ k \notin G => ServesOne(h, st, k, a1)
       /\ \A l \in DOMAIN h.ags : l # k /\ l \notin G => l \notin G
       /\ All(h, st, {}, G, {})
  BY <1>h
<1>12. All(g1, st, {}, G, {}) /\ \A K, y : NoPlace(g1, st, K, y) <=> NoPlace(h, st, K, y)
  BY ONLY k \in DOMAIN h.ags, NoPlace(h, st, OfGen, k), <1>9, <1>10, <1>11, FlagsAll
<1>13. k \in DOMAIN g1.ags /\ g1.ags[k] = a1 BY <1>9 DEF GenChanges
<1>g. PICK g : g = Answer(g1, k, how, x) OBVIOUS
<1>14. g1.ags[k].q # <<>> /\ ~g1.ags[k].lost /\ ((how = "yield") <=> ~g1.ags[k].done) BY <1>2, <1>5, <1>8, <1>13
<1>15. g \in Heap /\ All(g, st, {}, G, {}) /\ NoPlace(g, st, OfGen, k) /\ Shifted(g1, g, k)
  <2>1. k \in G /\ NoPlace(g1, st, OfGen, k) BY <1>12, <1>h
  <2> QED BY ONLY <1>12, <1>13, <1>14, <1>g, <2>1, how \in {"yield", "end", "fail"}, x \in Value, AnswerOne
<1>16. k \in DOMAIN g.ags /\ ~g.ags[k].run BY <1>13, <1>15 DEF Shifted
<1>17. res = agPump(g, k) BY <1>6, <1>g
<1>18. All(g, st, {}, {k}, {}) BY <1>15, <1>h
<1>19. g.ags[k].run /\ ~g.ags[k].lost => ~NoPlace(g, st, OfGen, k) BY <1>16
<1> QED BY ONLY <1>16, <1>17, <1>18, <1>19, st \in Seq(FrameRec), PumpAll

\* An exception of the finally clauses loses the generator.
LEMMA LostAll ==
  ASSUME NEW h, NEW st, NEW k \in DOMAIN h.ags, All(h, st, {}, {k}, {}), NoPlace(h, st, OfGen, k), Serving(h, k),
         NEW g, g = [h EXCEPT !.ags[k].lost = TRUE]
  PROVE  g \in Heap /\ All(g, st, {}, {}, {})
<1> DEFINE b == h.ags[k]
<1>0. h \in Heap BY DEF All, Core
<1>1. b \in AsyncGenRec BY <1>0, Parts
<1>2. b.run /\ b.q # <<>> BY DEF Serving
<1>4. PICK a1 : a1 = [b EXCEPT !.lost = TRUE] OBVIOUS
<1>c. g = [h EXCEPT !.ags = [h.ags EXCEPT ![k] = a1]] BY <1>0, <1>4 DEF Heap
<1>5. /\ a1 \in AsyncGenRec /\ a1.q = b.q /\ a1.said = b.said /\ a1.reqs = b.reqs /\ a1.run = b.run /\ a1.lost = TRUE
      /\ a1.done = b.done
  <2>1. a1 \in AsyncGenRec BY <1>1, <1>4, GenRecs
  <2> QED BY <1>1, <1>4, <2>1 DEF AsyncGenRec
<1>9. g \in Heap /\ GenChanges(h, g, k, a1) BY ONLY <1>0, <1>c, <1>5, k \in DOMAIN h.ags, GenSet
<1>b. PICK c : c = b OBVIOUS
<1>10. /\ c = h.ags[k] /\ a1.q = c.q /\ a1.said = c.said /\ a1.reqs = c.reqs
       /\ a1.run => a1.q # <<>>
       /\ a1.lost => a1.run
       /\ c.done => a1.done
  BY <1>b, <1>2, <1>5
<1>h. PICK G, H : G = {k} /\ H = {} OBVIOUS
<1>11. /\ k \notin H => ServesOne(h, st, k, a1)
       /\ \A l \in DOMAIN h.ags : l # k /\ l \notin H => l \notin G
       /\ All(h, st, {}, G, {})
  BY <1>h, <1>2, <1>5 DEF ServesOne
<1>12. All(g, st, {}, H, {})
  BY ONLY k \in DOMAIN h.ags, NoPlace(h, st, OfGen, k), <1>9, <1>10, <1>11, FlagsAll
<1> QED BY <1>9, <1>12, <1>h

-----------------------------------------------------------------------------
(* The invariant.                                                          *)

\* Between two steps nothing is owed.
Good(h, st) == st \in Seq(FrameRec) /\ All(h, st, {}, {}, {})

MenuOK ==
  /\ menu = [values |-> menu.values, times |-> menu.times]
  /\ menu.values \subseteq Plain \cup Thenable
  /\ DOMAIN menu.times \subseteq Ops
  /\ menu.times \in [DOMAIN menu.times -> Nat]

\* Every promise, every reaction, every job, every frame and every generator is
\* as it should be, and nothing is owed.
PInv == MenuOK /\ over \in BOOLEAN /\ Good(heap, stack)

Sound(h) == Final \cup Promise(h) \cup Thenable

LEMMA PlainIsFinal ==
  /\ Plain \subseteq Final /\ Plain \subseteq Value /\ Thenable \subseteq Value /\ Reason \subseteq Value
  /\ Undef \in Value /\ Final \subseteq Value
BY ValuesAssumption DEF Value, Final

LEMMA AnythingIsSound ==
  ASSUME PInv, NEW x \in Anything
  PROVE  x \in Sound(heap) /\ x \in Value
<1>1. \A q \in Promise(heap) : q \in Int BY Parts DEF PInv, Good, All, Core
<1> QED BY <1>1, PlainIsFinal DEF PInv, MenuOK, Anything, Sound, Value

LEMMA MenuKept ==
  ASSUME PInv, NEW op, Does(op)
  PROVE  MenuOK' /\ over' \in BOOLEAN
<1>1. over' \in BOOLEAN BY DEF PInv, Does
<1> DEFINE t == [menu.times EXCEPT ![op] = menu.times[op] - 1]
<1>2. MenuOK BY DEF PInv
<1>3. /\ op \in DOMAIN menu.times /\ menu.times[op] > 0 /\ menu' = [menu EXCEPT !.times[op] = @ - 1] BY DEF Does
<1>4. menu.times[op] - 1 \in Nat BY <1>2, <1>3 DEF MenuOK
<1>5. t \in [DOMAIN menu.times -> Nat] BY <1>2, <1>3, <1>4 DEF MenuOK
<1>6. menu' = [values |-> menu.values, times |-> t] BY <1>2, <1>3 DEF MenuOK
<1> HIDE DEF t
<1>7. menu'.values = menu.values /\ menu'.times = t /\ DOMAIN t = DOMAIN menu.times BY <1>5, <1>6
<1>8. MenuOK' BY <1>2, <1>5, <1>6, <1>7 DEF MenuOK
<1> QED BY <1>1, <1>8

\* Whom the running code goes on for is nobody's request and nobody's result.
LEMMA PopFacts ==
  ASSUME NEW h, NEW st, Good(h, st), st # <<>>, NEW f, f = Last(st)
  PROVE  /\ h \in Heap /\ Front(st) \in Seq(FrameRec) /\ f \in FrameRec /\ FrameOK(h, f)
         /\ All(h, Front(st), {}, Ended(f), {})
         /\ f.kind \in OfPromise => ~IsRequest(h, f.p) /\ ~IsOut(h, f.p)
         /\ f.kind \in {"async", "handler", "finally"} =>
              f.p \in Promise(h) /\ Owned(h, f.p) /\ NoPlace(h, Front(st), OfPromise, f.p) /\ Free(h, Front(st), f.p)
         /\ f.kind \in OfGen => f.p \in DOMAIN h.ags /\ All(h, Front(st), {}, {f.p}, {}) /\ Serving(h, f.p)
                                /\ NoPlace(h, Front(st), OfGen, f.p) /\ h.ags[f.p].done = (f.kind = "agclose")
         /\ f.kind \notin OfGen => All(h, Front(st), {}, {}, {}) /\ Good(h, Front(st))
<1>0. st \in Seq(FrameRec) /\ All(h, st, {}, {}, {}) BY DEF Good
<1>1. h \in Heap /\ RequestsOK(h, st) /\ CombsOK(h, st) BY <1>0 DEF All, Core
<1>2. /\ All(h, Front(st), {}, Ended(f), {}) /\ Front(st) \in Seq(FrameRec) /\ FrameOK(h, f) /\ f \in FrameRec
      /\ f.kind \in OfPromise /\ ~h.prom[f.p].again => NoPlace(h, Front(st), OfPromise, f.p)
      /\ f.kind \in OfGen => NoPlace(h, Front(st), OfGen, f.p)
      /\ f.kind \notin OfGen => All(h, Front(st), {}, {}, {})
  BY <1>0, PopAll
<1>3. f.kind \in OfPromise => ~NoPlace(h, st, OfPromise, f.p)
  <2>1. PICK n : n = Len(st) OBVIOUS
  <2>2. n \in DOMAIN st /\ f = st[n] BY <1>0, <2>1, Fronted
  <2> QED BY <2>2 DEF NoPlace, NoneRuns, FrameGoes
<1>4. f.kind \in OfPromise => ~IsRequest(h, f.p) /\ ~IsOut(h, f.p)
  BY <1>1, <1>3 DEF RequestsOK, CombsOK, CombOK, IsRequest, IsOut
<1>5. ASSUME f.kind \in {"async", "handler", "finally"}
      PROVE  f.p \in Promise(h) /\ Owned(h, f.p) /\ NoPlace(h, Front(st), OfPromise, f.p) /\ Free(h, Front(st), f.p)
  <2>1. f.kind \in OfPromise BY <1>5 DEF OfPromise
  <2>2. Owned(h, f.p) BY <1>2, <1>5 DEF FrameOK
  <2> QED BY <1>2, <1>4, <2>1, <2>2 DEF Owned, Free
<1>6. ASSUME f.kind \in OfGen
      PROVE  f.p \in DOMAIN h.ags /\ All(h, Front(st), {}, {f.p}, {}) /\ Serving(h, f.p)
             /\ NoPlace(h, Front(st), OfGen, f.p) /\ h.ags[f.p].done = (f.kind = "agclose")
  <2>1. f.kind \in {"agen", "agclose"} BY <1>2, <1>6 DEF FrameOK, FrameIsTyped, OfGen
  <2>2. Serving(h, f.p) /\ h.ags[f.p].done = (f.kind = "agclose") BY <1>2, <2>1 DEF FrameOK
  <2>3. Ended(f) = {f.p} BY <1>6 DEF Ended
  <2> QED BY <1>2, <1>6, <2>2, <2>3 DEF Serving
<1> QED BY <1>1, <1>2, <1>4, <1>5, <1>6 DEF Good

-----------------------------------------------------------------------------
(* The steps of the program.                                               *)

Keeps == Good(heap', stack')

LEMMA PInvParts ==
  ASSUME PInv
  PROVE  Good(heap, stack) /\ stack \in Seq(FrameRec) /\ All(heap, stack, {}, {}, {}) /\ heap \in Heap
BY DEF PInv, Good, All, Core

\* A frame for a promise that was just made.
LEMMA NewFrame ==
  ASSUME NEW h, NEW n \in Promise(h), h \in Heap, NEW f, f.p = n, f.ok = TRUE, f.arg = Undef,
         f = Frame(f.kind, f.p, f.ok, f.arg), f.kind \in {"executor", "async", "thenable"},
         f.kind # "async" => h.prom[n].cap, f.kind = "async" => Owned(h, n)
  PROVE  f \in FrameRec /\ FrameOK(h, f)
<1>1. n \in Nat
  <2>1. h.prom \in Seq(PromiseRec) BY Parts
  <2> QED BY <2>1, Indices DEF Promise
<1>2. Undef \in Value BY PlainIsFinal
<1>3. FrameIsTyped(h, f) BY <1>2 DEF FrameIsTyped
<1>4. FrameOK(h, f) BY <1>3 DEF FrameOK
<1>5. f \in FrameRec BY <1>1, <1>2 DEF Frame, FrameRec
<1> QED BY <1>4, <1>5

LEMMA NewKeeps ==
  ASSUME PInv, New
  PROVE  Keeps
<1>1. PICK n, s : n = Len(heap.prom) + 1 /\ s = [NewPromise EXCEPT !.cap = TRUE] OBVIOUS
<1>2. heap' = [heap EXCEPT !.prom = Append(@, s)] BY <1>1 DEF New
<1>3. /\ heap' \in Heap /\ All(heap', stack, {}, {}, {}) /\ n \in Promise(heap') /\ heap'.prom[n] = s
  BY <1>1, <1>2, PInvParts, MakeAll
<1>4. PICK f : f = Frame("executor", n, TRUE, Undef) OBVIOUS
<1>5. stack' = Append(stack, f) BY <1>1, <1>4 DEF New, Last1
<1>6. f.kind = "executor" /\ f.p = n /\ f.ok = TRUE /\ f.arg = Undef /\ f = Frame(f.kind, f.p, f.ok, f.arg) BY <1>4 DEF Frame
<1>7. s.cap BY <1>1 DEF NewPromise
<1>8. f \in FrameRec /\ FrameOK(heap', f) BY <1>3, <1>6, <1>7, NewFrame
<1>9. f.kind \notin OfPromise /\ f.kind \notin OfGen BY <1>6 DEF OfPromise, OfGen
<1>s. PICK h, st : h = heap' /\ st = stack' OBVIOUS
<1>h. PICK G : G = {} OBVIOUS
<1>10. /\ All(h, stack, {}, G, {}) /\ FrameOK(h, f) /\ st = Append(stack, f) /\ stack \in Seq(FrameRec)
       /\ f.kind \in OfPromise => NoPlace(h, stack, OfPromise, f.p) /\ ~IsRequest(h, f.p) /\ ~IsOut(h, f.p)
       /\ f.kind \in OfGen => NoPlace(h, stack, OfGen, f.p)
       /\ \A k \in G : k \notin G => f.kind \in OfGen /\ f.p = k
  BY <1>3, <1>5, <1>8, <1>9, <1>s, <1>h, PInvParts
<1>11. All(h, st, {}, G, {}) /\ st \in Seq(FrameRec) BY ONLY <1>8, <1>10, PushAll
<1> QED BY <1>11, <1>s, <1>h DEF Keeps, Good

LEMMA CallAsyncKeeps ==
  ASSUME PInv, CallAsync
  PROVE  Keeps
<1>1. PICK n, s : n = Len(heap.prom) + 1 /\ s = NewPromise OBVIOUS
<1>2. heap' = [heap EXCEPT !.prom = Append(@, s)] BY <1>1 DEF CallAsync, promNew
<1>3. /\ heap' \in Heap /\ All(heap', stack, {}, {}, {}) /\ n \in Promise(heap') /\ heap'.prom[n] = s
      /\ NoPlace(heap', stack, OfPromise, n) /\ ~IsRequest(heap', n) /\ ~IsOut(heap', n)
  BY <1>1, <1>2, PInvParts, MakeAll
<1>4. PICK f : f = Frame("async", n, TRUE, Undef) OBVIOUS
<1>5. stack' = Append(stack, f) BY <1>1, <1>4 DEF CallAsync, Last1
<1>6. f.kind = "async" /\ f.p = n /\ f.ok = TRUE /\ f.arg = Undef /\ f = Frame(f.kind, f.p, f.ok, f.arg) BY <1>4 DEF Frame
<1>7. Owned(heap', n) BY <1>1, <1>3 DEF Owned, NewPromise
<1>8. f \in FrameRec /\ FrameOK(heap', f) BY <1>3, <1>6, <1>7, NewFrame
<1>9. f.kind \notin OfGen BY <1>6 DEF OfGen
<1>s. PICK h, st : h = heap' /\ st = stack' OBVIOUS
<1>h. PICK G : G = {} OBVIOUS
<1>10. /\ All(h, stack, {}, G, {}) /\ FrameOK(h, f) /\ st = Append(stack, f) /\ stack \in Seq(FrameRec)
       /\ f.kind \in OfPromise => NoPlace(h, stack, OfPromise, f.p) /\ ~IsRequest(h, f.p) /\ ~IsOut(h, f.p)
       /\ f.kind \in OfGen => NoPlace(h, stack, OfGen, f.p)
       /\ \A k \in G : k \notin G => f.kind \in OfGen /\ f.p = k
  BY <1>3, <1>5, <1>6, <1>8, <1>9, <1>s, <1>h, PInvParts
<1>11. All(h, st, {}, G, {}) /\ st \in Seq(FrameRec) BY ONLY <1>8, <1>10, PushAll
<1> QED BY <1>11, <1>s, <1>h DEF Keeps, Good

LEMMA ResolveKeeps ==
  ASSUME PInv, NEW p \in Promise(heap), NEW x \in Anything, Resolve(p, x)
  PROVE  Keeps
<1>1. PICK h : h = Again(heap, p) OBVIOUS
<1>2. h \in Heap /\ All(h, stack, {}, {}, {}) /\ Promise(h) = Promise(heap) /\ Free(h, stack, p) /\ ~IsOut(h, p)
  BY <1>1, PInvParts, MarkAll DEF Resolve
<1>3. x \in Final \cup Promise(h) \cup Thenable BY <1>2, AnythingIsSound DEF Sound
<1>g. PICK g : g = promResolve(h, p, x) OBVIOUS
<1>4. g \in Heap /\ All(g, stack, {}, {}, {}) BY <1>2, <1>3, <1>g, ResolveAll
<1>5. heap' = g /\ stack' = stack BY <1>1, <1>g DEF Resolve
<1> QED BY <1>4, <1>5, PInvParts DEF Keeps, Good

LEMMA RejectKeeps ==
  ASSUME PInv, NEW p \in Promise(heap), NEW v \in Reason, Reject(p, v)
  PROVE  Keeps
<1>1. PICK h : h = Again(heap, p) OBVIOUS
<1>2. h \in Heap /\ All(h, stack, {}, {}, {}) /\ Promise(h) = Promise(heap) /\ Free(h, stack, p)
  BY <1>1, PInvParts, MarkAll DEF Reject
<1>3. v \in Value BY PlainIsFinal
<1>g. PICK g : g = promSettle(h, p, "rejected", v) OBVIOUS
<1>4. g \in Heap /\ All(g, stack, {}, {}, {}) BY <1>2, <1>3, <1>g, RejectAll
<1>5. heap' = g /\ stack' = stack BY <1>1, <1>g DEF Reject
<1> QED BY <1>4, <1>5, PInvParts DEF Keeps, Good

\* Derive: the new promise goes on when p has settled.
LEMMA DeriveAll ==
  ASSUME NEW h, NEW st, All(h, st, {}, {}, {}), NEW p \in Promise(h), NEW kind \in {"then", "finally"},
         NEW f \in BOOLEAN, NEW r \in BOOLEAN, NEW g, g = Derive(h, p, kind, f, r)
  PROVE  g \in Heap /\ All(g, st, {}, {}, {})
<1>1. PICK n, s, h1 : n = Len(h.prom) + 1 /\ s = NewPromise /\ h1 = promNew(h) OBVIOUS
<1>2. h1 = [h EXCEPT !.prom = Append(@, s)] BY <1>1 DEF promNew
<1>3. /\ h1 \in Heap /\ All(h1, st, {}, {}, {}) /\ n \in Promise(h1) /\ h1.prom[n] = s /\ n = Len(h1.prom)
      /\ Promise(h1) = Promise(h) \cup {n}
      /\ NoPlace(h1, st, OfPromise, n) /\ ~IsRequest(h1, n) /\ ~IsOut(h1, n)
  BY <1>1, <1>2, MakeAll
<1>4. PICK c : c = Reaction(kind, f, r, n, 0) OBVIOUS
<1>5. g = promThen(h1, p, c) BY <1>1, <1>3, <1>4 DEF Derive, Last1
<1>6. n \in Nat
  <2>1. h1.prom \in Seq(PromiseRec) BY <1>3, Parts
  <2> QED BY <1>3, <2>1, Indices
<1>7. c \in ReactionRec /\ c.kind = kind /\ c.to = n BY <1>4, <1>6 DEF Reaction, ReactionRec
<1>8. Owned(h1, n) BY <1>1, <1>3 DEF Owned, NewPromise
<1>9. ReactionOK(h1, p, c) BY <1>7, <1>8 DEF ReactionOK
<1>10. MayGoOn(h1, st, p, c) BY <1>3, <1>7, <1>9 DEF MayGoOn, OfGen
<1>h. PICK G : G = {} OBVIOUS
<1>11. /\ All(h1, st, G, G, {})
       /\ \A q \in G : q \notin G => c.kind = "settle" /\ c.to = q /\ h1.prom[q].fate = p
       /\ \A k \in G : k \notin G => c.kind \in OfGen /\ c.to = k
  BY <1>3, <1>h
<1>12. g \in Heap /\ All(g, st, G, G, {}) BY ONLY <1>5, <1>10, <1>11, ThenAll
<1> QED BY <1>12, <1>h

LEMMA ThenKeepsAll ==
  ASSUME PInv, NEW p \in Promise(heap), NEW f \in BOOLEAN, NEW r \in BOOLEAN, Then(p, f, r) \/ Finally(p)
  PROVE  Keeps
<1>1. PICK kind \in {"then", "finally"}, f1 \in BOOLEAN, r1 \in BOOLEAN : heap' = Derive(heap, p, kind, f1, r1)
  BY DEF Then, Finally
<1>g. PICK g : g = Derive(heap, p, kind, f1, r1) OBVIOUS
<1>2. g \in Heap /\ All(g, stack, {}, {}, {}) BY <1>g, PInvParts, DeriveAll
<1>3. heap' = g /\ stack' = stack BY <1>1, <1>g DEF Then, Finally
<1> QED BY <1>2, <1>3, PInvParts DEF Keeps, Good

LEMMA StaticResolveKeeps ==
  ASSUME PInv, NEW x \in Anything, StaticResolve(x)
  PROVE  Keeps
<1>1. x \in Final \cup Promise(heap) \cup Thenable BY AnythingIsSound DEF Sound
<1>g. PICK g : g = promResolveValue(heap, x) OBVIOUS
<1>2. g \in Heap /\ All(g, stack, {}, {}, {}) BY <1>1, <1>g, PInvParts, ResolveValueAll
<1>3. heap' = g /\ stack' = stack BY <1>g DEF StaticResolve
<1> QED BY <1>2, <1>3, PInvParts DEF Keeps, Good

LEMMA StaticRejectKeeps ==
  ASSUME PInv, NEW v \in Reason, StaticReject(v)
  PROVE  Keeps
<1>1. PICK n, s, h : n = Len(heap.prom) + 1 /\ s = NewPromise /\ h = promNew(heap) OBVIOUS
<1>2. h = [heap EXCEPT !.prom = Append(@, s)] BY <1>1 DEF promNew
<1>3. /\ h \in Heap /\ All(h, stack, {}, {}, {}) /\ n \in Promise(h) /\ h.prom[n] = s
      /\ NoPlace(h, stack, OfPromise, n) /\ ~IsRequest(h, n)
  BY <1>1, <1>2, PInvParts, MakeAll
<1>4. Free(h, stack, n) BY <1>1, <1>3 DEF Free, NewPromise
<1>5. v \in Value BY PlainIsFinal
<1>g. PICK g : g = promSettle(h, n, "rejected", v) OBVIOUS
<1>6. g \in Heap /\ All(g, stack, {}, {}, {}) BY <1>3, <1>4, <1>5, <1>g, RejectAll
<1>7. heap' = g /\ stack' = stack BY <1>1, <1>g DEF StaticReject, Last1
<1> QED BY <1>6, <1>7, PInvParts DEF Keeps, Good

\* The frame of a combinator's loop.
LEMMA LoopFrame ==
  ASSUME NEW h \in Heap, NEW k \in DOMAIN h.combs, NEW els \in Seq(Value),
         \A i \in DOMAIN els : els[i] \in Plain \cup Thenable \cup Promise(h),
         NEW ok \in BOOLEAN, NEW f, f = Frame("combine", k, ok, els)
  PROVE  f \in FrameRec /\ FrameOK(h, f) /\ f.kind = "combine" /\ f.p = k /\ f.arg = els
<1>1. k \in Nat
  <2>1. h.combs \in Seq(CombinatorRec) BY Parts
  <2> QED BY <2>1, Indices
<1>2. f.kind = "combine" /\ f.p = k /\ f.ok = ok /\ f.arg = els /\ f = Frame(f.kind, f.p, f.ok, f.arg) BY DEF Frame
<1>3. f \in FrameRec BY <1>1, <1>2 DEF Frame, FrameRec
<1>4. FrameIsTyped(h, f) BY <1>2 DEF FrameIsTyped
<1>5. FrameOK(h, f) BY <1>2, <1>4 DEF FrameOK
<1> QED BY <1>2, <1>3, <1>5

LEMMA PushLoop ==
  ASSUME NEW h, NEW st \in Seq(FrameRec), All(h, st, {}, {}, {}), NEW f \in FrameRec, FrameOK(h, f), f.kind = "combine",
         NEW s, s = Append(st, f)
  PROVE  All(h, s, {}, {}, {}) /\ s \in Seq(FrameRec)
<1>h. PICK G : G = {} OBVIOUS
<1>1. /\ All(h, st, {}, G, {})
      /\ f.kind \in OfPromise => NoPlace(h, st, OfPromise, f.p) /\ ~IsRequest(h, f.p) /\ ~IsOut(h, f.p)
      /\ f.kind \in OfGen => NoPlace(h, st, OfGen, f.p)
      /\ \A k \in G : k \notin G => f.kind \in OfGen /\ f.p = k
  BY <1>h DEF OfPromise, OfGen
<1>2. All(h, s, {}, G, {}) /\ s \in Seq(FrameRec)
  BY ONLY <1>1, st \in Seq(FrameRec), f \in FrameRec, FrameOK(h, f), s = Append(st, f), PushAll
<1> QED BY <1>2, <1>h

LEMMA BoundedIsSeq ==
  ASSUME NEW S, NEW n \in Nat, NEW els \in BoundedSeq(S, n)
  PROVE  els \in Seq(S)
BY DEF BoundedSeq, SeqOf

LEMMA CombineKeeps ==
  ASSUME PInv, NEW name \in Names, NEW els \in BoundedSeq(Anything, MaxElements), Combine(name, els)
  PROVE  Keeps
<1>1. els \in Seq(Anything) BY MenusAssumption, BoundedIsSeq
<1>2. PICK n, k, g : n = Len(els) /\ k = Len(heap.combs) + 1 /\ g = promCombine(heap, name, n) OBVIOUS
<1>3. n \in Nat /\ DOMAIN els = 1 .. n /\ \A i \in 1 .. n : els[i] \in Anything BY <1>1, <1>2, Indices
<1>4. name \in CombinatorNames BY MenusAssumption
<1>5. g \in Heap /\ All(g, stack, {}, {}, {}) /\ k \in DOMAIN g.combs /\ \A q \in Promise(heap) : q \in Promise(g)
  BY <1>2, <1>3, <1>4, PInvParts, CombineAll
<1>6. PICK f : f = Frame("combine", k, TRUE, els) OBVIOUS
<1>7. heap' = g /\ stack' = Append(stack, f) BY <1>2, <1>6 DEF Combine
<1>8. \A i \in DOMAIN els : els[i] \in Plain \cup Thenable \cup Promise(g)
  BY <1>3, <1>5 DEF Anything, PInv, MenuOK
<1>9. els \in Seq(Value)
  <2>1. \A x \in Anything : x \in Value BY AnythingIsSound
  <2> QED BY <1>1, <2>1
<1>10. PICK ok \in BOOLEAN : f = Frame("combine", k, ok, els) BY <1>6
<1>11. f \in FrameRec /\ FrameOK(g, f) /\ f.kind = "combine" BY <1>5, <1>8, <1>9, <1>10, LoopFrame
<1>s. PICK st : st = stack' OBVIOUS
<1>12. All(g, st, {}, {}, {}) /\ st \in Seq(FrameRec) BY <1>5, <1>7, <1>11, <1>s, PInvParts, PushLoop
<1> QED BY <1>7, <1>12, <1>s DEF Keeps, Good

LEMMA RegisterKeeps ==
  ASSUME PInv, Register
  PROVE  Keeps
<1>f. PICK f, s : f = Last(stack) /\ s = Front(stack) OBVIOUS
<1>0. stack # <<>> /\ f.kind = "combine" BY <1>f DEF Register, Top
<1>1. f.kind \notin OfGen BY <1>0 DEF OfGen
<1>2. /\ heap \in Heap /\ s \in Seq(FrameRec) /\ f \in FrameRec /\ FrameOK(heap, f) /\ All(heap, s, {}, {}, {}) /\ Good(heap, s)
  BY <1>0, <1>1, <1>f, PInvParts, PopFacts
<1>3. CASE f.arg = <<>>
  <2>1. heap' = heap /\ stack' = s BY <1>3, <1>f DEF Register, Top, Pop
  <2> QED BY <1>2, <2>1 DEF Keeps
<1>4. CASE f.arg # <<>>
  <2> DEFINE x == Head(f.arg)
             els == Tail(f.arg)
  <2>1. f.arg \in Seq(Value) /\ f.p \in DOMAIN heap.combs /\ f = Frame(f.kind, f.p, f.ok, f.arg) /\ f.ok \in BOOLEAN
        /\ \A i \in DOMAIN f.arg : f.arg[i] \in Plain \cup Thenable \cup Promise(heap)
    BY <1>0, <1>2 DEF FrameOK, FrameIsTyped
  <2>t. PICK n : n = Len(f.arg) OBVIOUS
  <2>2. /\ els \in Seq(Value) /\ n \in Nat /\ n >= 1 /\ x = f.arg[1] /\ DOMAIN f.arg = 1 .. n /\ DOMAIN els = 1 .. n - 1
        /\ \A i \in 1 .. n - 1 : els[i] = f.arg[i + 1]
    BY <1>4, <2>1, <2>t, Tailed, Indices
  <2> HIDE DEF x, els
  <2>3. 1 \in 1 .. n /\ \A i \in 1 .. n - 1 : i + 1 \in 1 .. n BY <2>2
  <2>4. x \in Final \cup Promise(heap) \cup Thenable BY <2>1, <2>2, <2>3, PlainIsFinal
  <2>g. PICK g : g = promElement(heap, f.p, x) OBVIOUS
  <2>5. g \in Heap /\ All(g, s, {}, {}, {}) /\ f.p \in DOMAIN g.combs /\ \A q \in Promise(heap) : q \in Promise(g)
    BY <1>2, <2>1, <2>4, <2>g, PromElementAll
  <2>6. PICK c : c = [f EXCEPT !.arg = els] OBVIOUS
  <2>7. heap' = g /\ stack' = Append(s, c) BY <1>4, <1>f, <2>g, <2>6 DEF Register, Top, Pop, x, els
  <2>k. PICK ok \in BOOLEAN, k \in DOMAIN g.combs : ok = f.ok /\ k = f.p BY <2>1, <2>5
  <2>8. c = Frame("combine", k, ok, els) BY <1>0, <2>1, <2>6, <2>k DEF Frame
  <2>9. \A i \in DOMAIN els : els[i] \in Plain \cup Thenable \cup Promise(g) BY <2>1, <2>2, <2>3, <2>5
  <2>10. c \in FrameRec /\ FrameOK(g, c) /\ c.kind = "combine" BY <2>2, <2>5, <2>8, <2>9, LoopFrame
  <2>s. PICK st : st = stack' OBVIOUS
  <2>11. All(g, st, {}, {}, {}) /\ st \in Seq(FrameRec) BY <1>2, <2>5, <2>7, <2>10, <2>s, PushLoop
  <2> QED BY <2>7, <2>11, <2>s DEF Keeps, Good
<1> QED BY <1>3, <1>4

\* What an async body awaits or an async generator hands over: it goes on when
\* that has settled.
LEMMA WaitsAll ==
  ASSUME NEW h, NEW st, NEW x \in Sound(h), NEW G, All(h, st, {}, G, {}), NEW c \in ReactionRec,
         \/ /\ c.kind = "await" /\ G = {}
            /\ Owned(h, c.to) /\ NoPlace(h, st, OfPromise, c.to) /\ ~IsRequest(h, c.to) /\ ~IsOut(h, c.to)
         \/ /\ c.kind \in {"agawait", "agyield"} /\ G = {c.to}
            /\ Serving(h, c.to) /\ ~h.ags[c.to].done /\ NoPlace(h, st, OfGen, c.to),
         NEW g, g = promThen(promResolveValue(h, x), Resolved(h, x), c)
  PROVE  g \in Heap /\ All(g, st, {}, {}, {})
<1>1. PICK h1, p : h1 = promResolveValue(h, x) /\ p = Resolved(h, x) OBVIOUS
<1>2. h1 \in Heap /\ All(h1, st, {}, G, {}) /\ Carries(h, h1, st, {}) /\ p \in Promise(h1)
  BY <1>1, ResolveValueAll DEF Sound
<1>3. /\ h1.ags = h.ags /\ h1.combs = h.combs
      /\ \A q \in Promise(h) :
           /\ q \in Promise(h1) /\ FateKept(h.prom[q], h1.prom[q]) /\ RightsKept(h.prom[q], h1.prom[q])
           /\ h.prom[q].state = "pending" => h1.prom[q].state = "pending"
           /\ NoPlace(h, st, OfPromise, q) => NoPlace(h1, st, OfPromise, q)
      /\ \A k : NoPlace(h, st, OfGen, k) => NoPlace(h1, st, OfGen, k)
  BY <1>2 DEF Carries
<1>4. MayGoOn(h1, st, p, c)
  <2>1. CASE c.kind = "await" /\ G = {}
    <3>0. Owned(h, c.to) /\ NoPlace(h, st, OfPromise, c.to) /\ ~IsRequest(h, c.to) /\ ~IsOut(h, c.to) BY <2>1
    <3>1. c.to \in Promise(h) BY <3>0 DEF Owned
    <3>2. Owned(h1, c.to) BY <1>3, <3>0, <3>1 DEF Owned, FateKept, RightsKept
    <3>3. NoPlace(h1, st, OfPromise, c.to) /\ ~IsRequest(h1, c.to) /\ ~IsOut(h1, c.to)
      BY <1>3, <3>0, <3>1 DEF IsRequest, IsOut
    <3>4. ReactionOK(h1, p, c) BY <2>1, <3>2 DEF ReactionOK
    <3> QED BY <1>2, <2>1, <3>3, <3>4 DEF MayGoOn, OfGen
  <2>2. CASE c.kind \in {"agawait", "agyield"} /\ G = {c.to}
    <3>1. Serving(h, c.to) /\ ~h.ags[c.to].done /\ NoPlace(h, st, OfGen, c.to) BY <2>2
    <3>2. Serving(h1, c.to) /\ ~h1.ags[c.to].done /\ NoPlace(h1, st, OfGen, c.to) BY <1>3, <3>1 DEF Serving
    <3>3. ReactionOK(h1, p, c) BY <2>2, <3>2 DEF ReactionOK
    <3> QED BY <1>2, <2>2, <3>2, <3>3 DEF MayGoOn, OfPromise
  <2> QED BY <2>1, <2>2
<1>5. g = promThen(h1, p, c) BY <1>1
<1>h. PICK H : H = {} OBVIOUS
<1>6. /\ All(h1, st, H, G, {})
      /\ \A q \in H : q \notin H => c.kind = "settle" /\ c.to = q /\ h1.prom[q].fate = p
      /\ \A k \in G : k \notin H => c.kind \in OfGen /\ c.to = k
  BY <1>2, <1>h DEF OfGen
<1>7. g \in Heap /\ All(g, st, H, H, {}) BY ONLY <1>4, <1>5, <1>6, ThenAll
<1> QED BY <1>7, <1>h

LEMMA AwaitKeeps ==
  ASSUME PInv, NEW x \in Anything, Await(x)
  PROVE  Keeps
<1>f. PICK f, s : f = Last(stack) /\ s = Front(stack) OBVIOUS
<1>0. stack # <<>> /\ f.kind = "async" BY <1>f DEF Await, Does, Running, Top
<1>1. f.kind \notin OfGen /\ f.kind \in OfPromise /\ f.kind \in {"async", "handler", "finally"} BY <1>0 DEF OfGen, OfPromise
<1>2. /\ heap \in Heap /\ s \in Seq(FrameRec) /\ f \in FrameRec /\ All(heap, s, {}, {}, {})
      /\ Owned(heap, f.p) /\ NoPlace(heap, s, OfPromise, f.p) /\ ~IsRequest(heap, f.p) /\ ~IsOut(heap, f.p)
  BY <1>0, <1>1, <1>f, PInvParts, PopFacts
<1>3. x \in Sound(heap) BY AnythingIsSound
<1>4. PICK c, g : c = Reaction("await", TRUE, TRUE, f.p, 0) /\ g = promThen(promResolveValue(heap, x), Resolved(heap, x), c)
  OBVIOUS
<1>5. c \in ReactionRec /\ c.kind = "await" /\ c.to = f.p
  <2>1. f.p \in Nat BY <1>2 DEF FrameRec
  <2> QED BY <1>4, <2>1 DEF Reaction, ReactionRec
<1>6. g \in Heap /\ All(g, s, {}, {}, {}) BY <1>2, <1>3, <1>4, <1>5, WaitsAll
<1>7. heap' = g /\ stack' = s BY <1>4, <1>f DEF Await, Top, Pop
<1> QED BY <1>2, <1>6, <1>7 DEF Keeps, Good

LEMMA SuspendsKeeps ==
  ASSUME PInv, NEW x \in Anything, AgAwait(x) \/ Yield(x)
  PROVE  Keeps
<1>f. PICK f, s : f = Last(stack) /\ s = Front(stack) OBVIOUS
<1>k. PICK kind \in {"agawait", "agyield"} : Suspends(kind, x) BY DEF AgAwait, Yield
<1>0. stack # <<>> /\ f.kind = "agen" BY <1>f, <1>k DEF AgAwait, Yield, Suspends, Does, Running, Top
<1>1. f.kind \in OfGen BY <1>0 DEF OfGen
<1>2. /\ heap \in Heap /\ s \in Seq(FrameRec) /\ f \in FrameRec /\ All(heap, s, {}, {f.p}, {})
      /\ Serving(heap, f.p) /\ NoPlace(heap, s, OfGen, f.p) /\ ~heap.ags[f.p].done
  BY <1>0, <1>1, <1>f, PInvParts, PopFacts
<1>3. x \in Sound(heap) BY AnythingIsSound
<1>4. PICK c, g : c = Reaction(kind, TRUE, TRUE, f.p, 0) /\ g = promThen(promResolveValue(heap, x), Resolved(heap, x), c)
  OBVIOUS
<1>5. c \in ReactionRec /\ c.kind \in {"agawait", "agyield"} /\ c.to = f.p
  <2>1. f.p \in Nat BY <1>2 DEF FrameRec
  <2> QED BY <1>4, <2>1 DEF Reaction, ReactionRec
<1>6. g \in Heap /\ All(g, s, {}, {}, {})
  <2>1. PICK G : G = {c.to} OBVIOUS
  <2>2. All(heap, s, {}, G, {}) BY <1>2, <1>5, <2>1
  <2> QED BY <1>2, <1>3, <1>4, <1>5, <2>1, <2>2, WaitsAll
<1>7. heap' = g /\ stack' = s BY <1>4, <1>f, <1>k DEF Suspends, Top, Pop
<1> QED BY <1>2, <1>6, <1>7 DEF Keeps, Good

LEMMA AsyncGenKeeps ==
  ASSUME PInv, AsyncGen
  PROVE  Keeps
<1>1. PICK g : g = [heap EXCEPT !.ags = Append(@, NewAsyncGen)] OBVIOUS
<1>2. g \in Heap /\ All(g, stack, {}, {}, {}) BY <1>1, PInvParts, NewGenAll
<1>3. heap' = g /\ stack' = stack BY <1>1 DEF AsyncGen
<1> QED BY <1>2, <1>3, PInvParts DEF Keeps, Good

LEMMA RequestKeeps ==
  ASSUME PInv, NEW k \in DOMAIN heap.ags, NEW kind \in {"next", "return", "throw"}, NEW x \in Value, Request(k, kind, x)
  PROVE  Keeps
<1>1. PICK r : r = agReq(heap, k, kind, x) OBVIOUS
<1>2. Given(stack, r) BY <1>1, PInvParts, RequestAll
<1>3. heap' = r.heap /\ stack' = stack \o r.frames BY <1>1 DEF Request, Goes
<1> QED BY <1>2, <1>3 DEF Keeps, Good, Given

\* The body ends, returns or throws.
LEMMA EndsAll ==
  ASSUME PInv, NEW f, NEW s, f = Last(stack), s = Front(stack), stack # <<>>, f.kind \in {"agen", "agclose"},
         NEW how \in {"end", "fail"}, NEW x \in Value, NEW r, r = agComplete(heap, f.p, how, x)
  PROVE  Given(s, r)
<1>1. f.kind \in OfGen BY DEF OfGen
<1>2. /\ s \in Seq(FrameRec) /\ f.p \in DOMAIN heap.ags /\ All(heap, s, {}, {f.p}, {})
      /\ Serving(heap, f.p) /\ NoPlace(heap, s, OfGen, f.p)
  BY <1>1, PInvParts, PopFacts
<1>k. PICK k \in DOMAIN heap.ags : k = f.p BY <1>2
<1>3. /\ s \in Seq(FrameRec) /\ All(heap, s, {}, {k}, {}) /\ Serving(heap, k) /\ NoPlace(heap, s, OfGen, k)
      /\ r = agComplete(heap, k, how, x)
      /\ how = "yield" => ~heap.ags[k].done
      /\ how \in {"yield", "end", "fail"}
  BY <1>2, <1>k
<1> QED BY ONLY <1>3, k \in DOMAIN heap.ags, x \in Value, CompleteAll

LEMMA AgReturnKeeps ==
  ASSUME PInv, NEW x \in Value, AgReturn(x) \/ AgThrow(x)
  PROVE  Keeps
<1>f. PICK f, s : f = Last(stack) /\ s = Front(stack) OBVIOUS
<1>0. stack # <<>> /\ f.kind = "agen" BY <1>f DEF AgReturn, AgThrow, Running, Top
<1>1. PICK how, r : how \in {"end", "fail"} /\ r = agComplete(heap, f.p, how, x) /\ Goes(s, r)
  BY <1>f DEF AgReturn, AgThrow, Top, Pop
<1>2. Given(s, r) BY <1>0, <1>1, <1>f, EndsAll
<1>3. heap' = r.heap /\ stack' = s \o r.frames BY <1>1 DEF Goes
<1> QED BY <1>2, <1>3 DEF Keeps, Good, Given

LEMMA ClosedKeeps ==
  ASSUME PInv, Closed
  PROVE  Keeps
<1>f. PICK f, s : f = Last(stack) /\ s = Front(stack) OBVIOUS
<1>0. stack # <<>> /\ f.kind = "agclose" BY <1>f DEF Closed, Running, Top
<1>1. f.kind \in OfGen BY <1>0 DEF OfGen
<1>2. f.p \in DOMAIN heap.ags /\ Serving(heap, f.p) /\ heap \in Heap BY <1>0, <1>1, <1>f, PInvParts, PopFacts
<1> DEFINE x == Head(heap.ags[f.p].q).arg
<1>3. x \in Value
  <2>1. heap.ags[f.p] \in AsyncGenRec BY <1>2, Parts
  <2>2. heap.ags[f.p].q \in Seq([kind: {"next", "return", "throw"}, arg: Value, p: Nat]) BY <2>1, GenParts
  <2>3. heap.ags[f.p].q # <<>> BY <1>2 DEF Serving
  <2>4. Head(heap.ags[f.p].q) \in [kind: {"next", "return", "throw"}, arg: Value, p: Nat] BY <2>2, <2>3, Tailed
  <2> QED BY <2>4
<1>4. PICK r : r = agComplete(heap, f.p, "end", x) /\ Goes(s, r) BY <1>f DEF Closed, Top, Pop
<1> HIDE DEF x
<1>5. Given(s, r) BY <1>0, <1>3, <1>4, <1>f, EndsAll
<1>6. heap' = r.heap /\ stack' = s \o r.frames BY <1>4 DEF Goes
<1> QED BY <1>5, <1>6 DEF Keeps, Good, Given

LEMMA AgCloseThrowsKeeps ==
  ASSUME PInv, AgCloseThrows
  PROVE  Keeps
<1>f. PICK f, s : f = Last(stack) /\ s = Front(stack) OBVIOUS
<1>0. stack # <<>> /\ f.kind = "agclose" BY <1>f DEF AgCloseThrows, Running, Top
<1>1. f.kind \in OfGen BY <1>0 DEF OfGen
<1>2. /\ s \in Seq(FrameRec) /\ f.p \in DOMAIN heap.ags /\ All(heap, s, {}, {f.p}, {})
      /\ Serving(heap, f.p) /\ NoPlace(heap, s, OfGen, f.p)
  BY <1>0, <1>1, <1>f, PInvParts, PopFacts
<1>k. PICK k, g : k \in DOMAIN heap.ags /\ k = f.p /\ g = [heap EXCEPT !.ags[k].lost = TRUE] BY <1>2
<1>3. All(heap, s, {}, {k}, {}) /\ NoPlace(heap, s, OfGen, k) /\ Serving(heap, k) /\ g = [heap EXCEPT !.ags[k].lost = TRUE]
  BY <1>2, <1>k
<1>4. g \in Heap /\ All(g, s, {}, {}, {}) BY ONLY <1>3, <1>k, LostAll
<1>5. heap' = g /\ stack' = s BY <1>f, <1>k DEF AgCloseThrows, Top, Pop
<1> QED BY <1>2, <1>4, <1>5 DEF Keeps, Good

LEMMA ReturnKeeps ==
  ASSUME PInv, NEW x \in Anything, Return(x)
  PROVE  Keeps
<1>f. PICK f, s : f = Last(stack) /\ s = Front(stack) OBVIOUS
<1>0. stack # <<>> /\ f.kind \notin {"combine", "agen", "agclose"} BY <1>f DEF Return, Running, IsGenerator, Top
<1>1. f.kind \notin OfGen
  <2>1. FrameOK(heap, f) BY <1>0, <1>f, PInvParts, PopFacts
  <2> QED BY <1>0, <2>1 DEF OfGen, FrameOK, FrameIsTyped
<1>2. /\ heap \in Heap /\ s \in Seq(FrameRec) /\ f \in FrameRec /\ FrameOK(heap, f) /\ All(heap, s, {}, {}, {})
      /\ f.kind \in OfPromise => ~IsRequest(heap, f.p) /\ ~IsOut(heap, f.p)
      /\ f.kind \in {"async", "handler", "finally"} => f.p \in Promise(heap) /\ Free(heap, s, f.p)
  BY <1>0, <1>1, <1>f, PInvParts, PopFacts
<1>3. stack' = s BY <1>f DEF Return, Pop
<1>4. CASE f.kind \in {"script", "executor", "thenable"}
  <2>1. heap' = heap BY <1>4, <1>f DEF Return, Top
  <2> QED BY <1>2, <1>3, <2>1 DEF Keeps, Good
<1>5. ASSUME f.kind \in {"async", "handler", "finally"}, NEW y \in Final \cup Promise(heap) \cup Thenable,
             heap' = promResolve(heap, f.p, y)
      PROVE  Keeps
  <2>1. f.kind \in OfPromise BY <1>5 DEF OfPromise
  <2>2. PICK p, g : p \in Promise(heap) /\ p = f.p /\ g = promResolve(heap, p, y) BY <1>2, <1>5
  <2>3. Free(heap, s, p) /\ ~IsOut(heap, p) BY <1>2, <1>5, <2>1, <2>2
  <2>4. g \in Heap /\ All(g, s, {}, {}, {}) BY <1>2, <2>2, <2>3, ResolveAll
  <2> QED BY <1>2, <1>3, <1>5, <2>2, <2>4 DEF Keeps, Good
<1>6. CASE f.kind \in {"handler", "async"}
  <2>1. heap' = promResolve(heap, f.p, x) BY <1>6, <1>f DEF Return, Top
  <2>2. x \in Final \cup Promise(heap) \cup Thenable BY AnythingIsSound DEF Sound
  <2> QED BY <1>5, <1>6, <2>1, <2>2
<1>7. CASE f.kind = "finally" /\ f.ok
  <2>1. heap' = promResolve(heap, f.p, f.arg) BY <1>7, <1>f DEF Return, Top
  <2>2. f.arg \in Final \cup Promise(heap) \cup Thenable BY <1>2, <1>7 DEF FrameOK
  <2> QED BY <1>5, <1>7, <2>1, <2>2
<1>8. CASE f.kind = "finally" /\ ~f.ok
  <2>v. f.arg \in Value BY <1>2, <1>8 DEF FrameOK, FrameIsTyped
  <2>1. PICK p, v, g : p \in Promise(heap) /\ v \in Value /\ p = f.p /\ v = f.arg /\ g = promSettle(heap, p, "rejected", v)
    BY <1>2, <1>8, <2>v
  <2>2. heap' = g BY <1>8, <1>f, <2>1 DEF Return, Top
  <2>3. Free(heap, s, p) BY <1>2, <1>8, <2>1
  <2>4. g \in Heap /\ All(g, s, {}, {}, {}) BY <1>2, <2>1, <2>3, RejectAll
  <2> QED BY <1>2, <1>3, <2>2, <2>4 DEF Keeps, Good
<1>9. f.kind \in {"script", "executor", "thenable"} \/ f.kind \in {"handler", "async"} \/ f.kind = "finally"
  BY <1>0, <1>2 DEF FrameRec
<1> QED BY <1>4, <1>6, <1>7, <1>8, <1>9

LEMMA ThrowKeeps ==
  ASSUME PInv, NEW v \in Reason, Throw(v)
  PROVE  Keeps
<1>f. PICK f, s : f = Last(stack) /\ s = Front(stack) OBVIOUS
<1>0. stack # <<>> /\ f.kind \notin {"combine", "agen", "agclose"} BY <1>f DEF Throw, Running, IsGenerator, Top
<1>1. f.kind \notin OfGen
  <2>1. FrameOK(heap, f) BY <1>0, <1>f, PInvParts, PopFacts
  <2> QED BY <1>0, <2>1 DEF OfGen, FrameOK, FrameIsTyped
<1>2. /\ heap \in Heap /\ s \in Seq(FrameRec) /\ f \in FrameRec /\ FrameOK(heap, f) /\ All(heap, s, {}, {}, {})
      /\ f.kind \in {"async", "handler", "finally"} => f.p \in Promise(heap) /\ Free(heap, s, f.p)
  BY <1>0, <1>1, <1>f, PInvParts, PopFacts
<1>3. stack' = s /\ v \in Value BY <1>f, PlainIsFinal DEF Throw, Pop
<1>4. CASE f.kind = "script"
  <2>1. heap' = heap BY <1>4, <1>f DEF Throw, Top
  <2> QED BY <1>2, <1>3, <2>1 DEF Keeps, Good
<1>5. CASE f.kind \in {"executor", "thenable"}
  <2>1. PICK p, h, g : p \in Promise(heap) /\ p = f.p /\ h = Again(heap, p) /\ g = promSettle(h, p, "rejected", v)
    BY <1>2, <1>5 DEF FrameOK, FrameIsTyped
  <2>2. heap' = g BY <1>5, <1>f, <2>1 DEF Throw, Top
  <2>3. heap.prom[p].cap BY <1>2, <1>5, <2>1 DEF FrameOK
  <2>4. h \in Heap /\ All(h, s, {}, {}, {}) /\ Promise(h) = Promise(heap) /\ Free(h, s, p) BY <1>2, <2>1, <2>3, MarkAll
  <2>5. g \in Heap /\ All(g, s, {}, {}, {}) BY <1>3, <2>1, <2>4, RejectAll
  <2> QED BY <1>2, <1>3, <2>2, <2>5 DEF Keeps, Good
<1>6. CASE f.kind \in {"async", "handler", "finally"}
  <2>1. PICK p, g : p \in Promise(heap) /\ p = f.p /\ g = promSettle(heap, p, "rejected", v) BY <1>2, <1>6
  <2>2. heap' = g BY <1>6, <1>f, <2>1 DEF Throw, Top
  <2>3. Free(heap, s, p) BY <1>2, <1>6, <2>1
  <2>4. g \in Heap /\ All(g, s, {}, {}, {}) BY <1>2, <1>3, <2>1, <2>3, RejectAll
  <2> QED BY <1>2, <1>3, <2>2, <2>4 DEF Keeps, Good
<1>7. f.kind = "script" \/ f.kind \in {"executor", "thenable"} \/ f.kind \in {"async", "handler", "finally"}
  BY <1>0, <1>2 DEF FrameRec
<1> QED BY <1>4, <1>5, <1>6, <1>7

-----------------------------------------------------------------------------
(* The jobs.                                                               *)

\* What holds when drainMicrotasks has taken job j.
TakenFor(g, j) ==
  /\ g \in Heap /\ j \in JobRec /\ JobOK(g, j) /\ g.gen = j.gen /\ All(g, <<>>, OwesP(g, j), OwesG(g, j), {})
  /\ \A p \in Promise(g) : JobGoes(j, OfPromise, p) =>
       /\ g.prom[p].again \/ NoPlace(g, <<>>, OfPromise, p)
       /\ ~IsRequest(g, p) /\ ~IsOut(g, p)
  /\ \A k \in DOMAIN g.ags : JobGoes(j, OfGen, k) => NoPlace(g, <<>>, OfGen, k)

LEMMA TakenAll ==
  ASSUME PInv, NEW kind, Dequeue(kind), NEW g, g = Taken, NEW j, j = Job
  PROVE  TakenFor(g, j) /\ stack = <<>> /\ j.kind = kind
<1>0. /\ stack = <<>> /\ heap.queue # <<>> /\ j.kind = kind /\ j = Head(heap.queue) BY DEF Dequeue, Job
<1>1. All(heap, <<>>, {}, {}, {}) /\ heap \in Heap BY <1>0, PInvParts
<1>2. JobsOK(heap) /\ RequestsOK(heap, <<>>) /\ CombsOK(heap, <<>>) /\ PromisesOK(heap, <<>>) BY <1>1 DEF All, Core
<1>3. heap.queue \in Seq(JobRec) BY <1>1, Parts
<1>4. j = heap.queue[1] /\ 1 \in DOMAIN heap.queue
  <2>1. PICK n : n = Len(heap.queue) OBVIOUS
  <2>2. j = heap.queue[1] /\ n >= 1 /\ n \in Nat /\ DOMAIN heap.queue = 1 .. n BY <1>0, <1>3, <2>1, Tailed, Indices
  <2> QED BY <2>2
<1>5. j.p \in Promise(heap) BY <1>2, <1>4 DEF JobsOK, JobOK
<1>6. g = [heap EXCEPT !.queue = Tail(@), !.gen = j.gen, !.prom[j.p].ran = IF j.kind = "adopt" THEN @ ELSE @ + 1]
  BY DEF Taken
<1>7. g \in Heap /\ j \in JobRec /\ \E n : Takes(heap, g, j, n) BY ONLY <1>0, <1>1, <1>5, <1>6, TakeEffect, Zenon
<1>8. PICK n : Takes(heap, g, j, n) BY <1>7
<1>9. /\ All(g, <<>>, OwesP(heap, j), OwesG(heap, j), {})
      /\ JobOK(g, j)
      /\ \A p \in Promise(heap) : JobGoes(j, OfPromise, p) /\ ~heap.prom[p].again => NoPlace(g, <<>>, OfPromise, p)
      /\ \A k \in DOMAIN heap.ags : JobGoes(j, OfGen, k) => NoPlace(g, <<>>, OfGen, k)
  BY <1>1, <1>7, <1>8, TakeAll
<1>10. /\ g.combs = heap.combs /\ g.ags = heap.ags /\ g.gen = j.gen /\ Promise(g) = Promise(heap)
       /\ \A q \in Promise(heap) : FateKept(heap.prom[q], g.prom[q]) /\ RightsKept(heap.prom[q], g.prom[q])
  BY <1>8 DEF Takes
<1>11. OwesP(g, j) = OwesP(heap, j) /\ OwesG(g, j) = OwesG(heap, j)
  <2>1. \A q \in Promise(heap) : g.prom[q].fate = heap.prom[q].fate BY <1>10 DEF FateKept
  <2>2. DOMAIN g.prom = Promise(heap) BY <1>10 DEF Promise
  <2>3. OwesP(g, j) = OwesP(heap, j)
    <3>1. j.kind = "adopt" => j.p \in Promise(heap) BY <1>5
    <3>2. \A p : JobGoes(j, {"adopt", "settle"}, p) => p \in Promise(heap) \/ p \notin Promise(heap) OBVIOUS
    <3> QED BY <1>10, <2>1 DEF OwesP
  <2> QED BY <1>10, <2>3 DEF OwesG
<1>12. ASSUME NEW p \in Promise(g), JobGoes(j, OfPromise, p)
       PROVE  /\ g.prom[p].again \/ NoPlace(g, <<>>, OfPromise, p)
              /\ ~IsRequest(g, p) /\ ~IsOut(g, p)
  <2>1. ~NoPlace(heap, <<>>, OfPromise, p) BY <1>4, <1>12 DEF NoPlace, NoneQueued
  <2>2. ~IsRequest(heap, p) /\ ~IsOut(heap, p) BY <1>2, <2>1 DEF RequestsOK, CombsOK, CombOK, IsRequest, IsOut
  <2>3. ~IsRequest(g, p) /\ ~IsOut(g, p) BY <1>10, <2>2 DEF IsRequest, IsOut
  <2>4. g.prom[p].again \/ NoPlace(g, <<>>, OfPromise, p) BY <1>9, <1>10, <1>12 DEF RightsKept
  <2> QED BY <2>3, <2>4
<1>13. \A k \in DOMAIN g.ags : JobGoes(j, OfGen, k) => NoPlace(g, <<>>, OfGen, k) BY <1>9, <1>10
<1> QED BY <1>0, <1>7, <1>9, <1>10, <1>11, <1>12, <1>13 DEF TakenFor

LEMMA EmptyStack == <<>> \in Seq(FrameRec)
OBVIOUS

\* A reaction that is no adoption and no generator's owes nobody.
LEMMA OwesNobody ==
  ASSUME NEW g, NEW j, TakenFor(g, j), j.kind = "reaction", j.r.kind \notin {"settle", "agawait", "agyield"}
  PROVE  All(g, <<>>, {}, {}, {}) /\ g \in Heap
<1>1. OwesP(g, j) = {}
  <2>1. j.r \in ReactionRec BY DEF TakenFor, JobOK, ReactionOK
  <2>2. j.r.kind \notin {"adopt", "settle"} BY <2>1 DEF ReactionRec
  <2> QED BY <2>2 DEF OwesP, JobGoes, GoesOn
<1>2. OwesG(g, j) = {}
  <2>1. j.r \in ReactionRec BY DEF TakenFor, JobOK, ReactionOK
  <2>2. j.r.kind \notin OfGen BY <2>1 DEF ReactionRec, OfGen
  <2> QED BY <2>2 DEF OwesG, JobGoes, GoesOn
<1> QED BY <1>1, <1>2 DEF TakenFor

\* The value of a promise that was fulfilled is final.
LEMMA JobValue ==
  ASSUME NEW g, NEW j, TakenFor(g, j), j.kind = "reaction"
  PROVE  /\ j.ok \in BOOLEAN /\ j.x \in Value /\ (j.ok => j.x \in Final) /\ j.p \in Promise(g) /\ ReactionOK(g, j.p, j.r)
         /\ g.prom[j.p].state = (IF j.ok THEN "fulfilled" ELSE "rejected") /\ g.prom[j.p].value = j.x
<1>1. j \in JobRec /\ JobOK(g, j) /\ PromisesOK(g, <<>>) BY DEF TakenFor, All, Core
<1>2. /\ j.p \in Promise(g) /\ ReactionOK(g, j.p, j.r)
      /\ g.prom[j.p].state = (IF j.ok THEN "fulfilled" ELSE "rejected") /\ g.prom[j.p].value = j.x
  BY <1>1 DEF JobOK
<1>3. j.ok => j.x \in Final BY <1>1, <1>2 DEF PromisesOK, PromOK
<1>4. j.ok \in BOOLEAN /\ j.x \in Value BY <1>1 DEF JobRec
<1> QED BY <1>2, <1>3, <1>4

\* A frame on the empty stack.
LEMMA StartAll ==
  ASSUME NEW h, NEW G, All(h, <<>>, {}, G, {}), NEW f \in FrameRec, FrameOK(h, f),
         f.kind \in OfPromise => NoPlace(h, <<>>, OfPromise, f.p) /\ ~IsRequest(h, f.p) /\ ~IsOut(h, f.p),
         f.kind \in OfGen => NoPlace(h, <<>>, OfGen, f.p),
         \A k \in G : f.kind \in OfGen /\ f.p = k, NEW s, s = <<f>>
  PROVE  Good(h, s)
<1>1. PICK st, H : st = <<>> /\ H = {} OBVIOUS
<1>2. s = Append(st, f) /\ st \in Seq(FrameRec) BY <1>1
<1>3. /\ All(h, st, {}, G, {})
      /\ f.kind \in OfPromise => NoPlace(h, st, OfPromise, f.p) /\ ~IsRequest(h, f.p) /\ ~IsOut(h, f.p)
      /\ f.kind \in OfGen => NoPlace(h, st, OfGen, f.p)
      /\ \A k \in G : k \notin H => f.kind \in OfGen /\ f.p = k
  BY <1>1
<1>4. All(h, s, {}, H, {}) /\ s \in Seq(FrameRec) BY ONLY <1>2, <1>3, f \in FrameRec, FrameOK(h, f), PushAll
<1> QED BY <1>1, <1>4 DEF Good

\* A body or a handler goes on.
LEMMA GoesOnAll ==
  ASSUME NEW g, NEW j, TakenFor(g, j), j.kind = "reaction", j.r.kind \in {"then", "finally", "await"},
         NEW kind \in {"handler", "finally", "async"},
         NEW f, f = Frame(kind, j.r.to, j.ok, j.x), NEW s, s = <<f>>
  PROVE  Good(g, s)
<1>1. All(g, <<>>, {}, {}, {}) /\ g \in Heap BY OwesNobody
<1>2. j.ok \in BOOLEAN /\ j.x \in Value /\ (j.ok => j.x \in Final) /\ ReactionOK(g, j.p, j.r) BY JobValue
<1>3. Owned(g, j.r.to) BY <1>2 DEF ReactionOK
<1>4. j.r.to \in Promise(g) BY <1>3 DEF Owned
<1>5. NoPlace(g, <<>>, OfPromise, j.r.to) /\ ~IsRequest(g, j.r.to) /\ ~IsOut(g, j.r.to)
  <2>1. JobGoes(j, OfPromise, j.r.to) BY DEF JobGoes, GoesOn, OfPromise
  <2> QED BY <1>3, <1>4, <2>1 DEF TakenFor, Owned
<1>6. f.kind = kind /\ f.p = j.r.to /\ f.ok = j.ok /\ f.arg = j.x /\ f = Frame(f.kind, f.p, f.ok, f.arg) BY DEF Frame
<1>7. j.r.to \in Nat BY <1>2 DEF ReactionOK, ReactionRec
<1>8. f \in FrameRec BY <1>2, <1>6, <1>7 DEF Frame, FrameRec
<1>9. FrameIsTyped(g, f) BY <1>2, <1>4, <1>6 DEF FrameIsTyped
<1>10. FrameOK(g, f) BY <1>2, <1>3, <1>6, <1>9 DEF FrameOK
<1>11. f.kind \notin OfGen BY <1>6 DEF OfGen
<1>h. PICK G : G = {} OBVIOUS
<1>12. /\ All(g, <<>>, {}, G, {})
       /\ f.kind \in OfPromise => NoPlace(g, <<>>, OfPromise, f.p) /\ ~IsRequest(g, f.p) /\ ~IsOut(g, f.p)
       /\ f.kind \in OfGen => NoPlace(g, <<>>, OfGen, f.p)
       /\ \A k \in G : f.kind \in OfGen /\ f.p = k
  BY <1>1, <1>5, <1>6, <1>11, <1>h
<1> QED BY ONLY <1>8, <1>10, <1>12, s = <<f>>, StartAll

LEMMA RunHandlerKeeps ==
  ASSUME PInv, RunHandler \/ RunAwait
  PROVE  Keeps
<1>1. PICK g, j : g = Taken /\ j = Job OBVIOUS
<1>2. TakenFor(g, j) /\ stack = <<>> /\ j.kind = "reaction" BY <1>1, TakenAll DEF RunHandler, RunAwait
<1>3. j.r.kind \in {"then", "finally", "await"} BY <1>1 DEF RunHandler, RunAwait
<1>4. PICK kind, f : kind \in {"handler", "finally", "async"} /\ f = Frame(kind, j.r.to, j.ok, j.x) /\ stack' = <<f>>
  BY <1>1 DEF RunHandler, RunAwait
<1>5. heap' = g BY <1>1 DEF RunHandler, RunAwait
<1>6. Good(g, stack') BY <1>2, <1>3, <1>4, GoesOnAll
<1> QED BY <1>5, <1>6 DEF Keeps

LEMMA RunPassOnKeeps ==
  ASSUME PInv, RunPassOn
  PROVE  Keeps
<1>1. PICK g, j : g = Taken /\ j = Job OBVIOUS
<1>2. TakenFor(g, j) /\ stack = <<>> /\ j.kind = "reaction" BY <1>1, TakenAll DEF RunPassOn
<1>3. j.r.kind = "then" BY <1>1 DEF RunPassOn
<1>4. All(g, <<>>, {}, {}, {}) /\ g \in Heap BY <1>2, <1>3, OwesNobody
<1>5. j.ok \in BOOLEAN /\ j.x \in Value /\ (j.ok => j.x \in Final) /\ ReactionOK(g, j.p, j.r) BY <1>2, JobValue
<1>6. Owned(g, j.r.to) BY <1>3, <1>5 DEF ReactionOK
<1>7. PICK p \in Promise(g) : p = j.r.to BY <1>6 DEF Owned
<1>8. NoPlace(g, <<>>, OfPromise, p) /\ ~IsRequest(g, p) /\ ~IsOut(g, p)
  <2>1. JobGoes(j, OfPromise, p) BY <1>2, <1>3, <1>7 DEF JobGoes, GoesOn, OfPromise
  <2> QED BY <1>2, <1>6, <1>7, <2>1 DEF TakenFor, Owned
<1>9. Free(g, <<>>, p) BY <1>6, <1>7, <1>8 DEF Free, Owned
<1>10. PICK h : h = heap' OBVIOUS
<1>11. h \in Heap /\ All(h, <<>>, {}, {}, {})
  <2>1. CASE j.ok
    <3>1. h = promResolve(g, p, j.x) BY <1>1, <1>7, <1>10, <2>1 DEF RunPassOn
    <3>2. j.x \in Final \cup Promise(g) \cup Thenable BY <1>5, <2>1
    <3> QED BY <1>4, <1>8, <1>9, <3>1, <3>2, ResolveAll
  <2>2. CASE ~j.ok
    <3>1. h = promSettle(g, p, "rejected", j.x) BY <1>1, <1>7, <1>10, <2>2 DEF RunPassOn
    <3> QED BY <1>4, <1>5, <1>9, <3>1, RejectAll
  <2> QED BY <2>1, <2>2
<1>12. stack' = <<>> BY <1>2 DEF RunPassOn
<1> QED BY <1>10, <1>11, <1>12, EmptyStack DEF Keeps, Good

\* A generator's body goes on.
LEMMA GenJob ==
  ASSUME NEW g, NEW j, TakenFor(g, j), j.kind = "reaction", j.r.kind \in {"agawait", "agyield"}
  PROVE  /\ j.r.to \in DOMAIN g.ags /\ Serving(g, j.r.to) /\ ~g.ags[j.r.to].done /\ NoPlace(g, <<>>, OfGen, j.r.to)
         /\ All(g, <<>>, {}, {j.r.to}, {}) /\ j.r.to \in Nat
<1>1. j.r.kind \in OfGen BY DEF OfGen
<1>2. ReactionOK(g, j.p, j.r) BY JobValue
<1>3. Serving(g, j.r.to) /\ ~g.ags[j.r.to].done BY <1>2 DEF ReactionOK
<1>4. j.r.to \in DOMAIN g.ags BY <1>3 DEF Serving
<1>5. OwesP(g, j) = {} BY DEF OwesP, JobGoes, GoesOn
<1>6. OwesG(g, j) = {j.r.to} BY <1>1, <1>4 DEF OwesG, JobGoes, GoesOn
<1>7. NoPlace(g, <<>>, OfGen, j.r.to) BY <1>1, <1>4 DEF TakenFor, JobGoes, GoesOn
<1>8. j.r.to \in Nat BY <1>2 DEF ReactionOK, ReactionRec
<1> QED BY <1>3, <1>4, <1>5, <1>6, <1>7, <1>8 DEF TakenFor

LEMMA RunAgAwaitKeeps ==
  ASSUME PInv, RunAgAwait
  PROVE  Keeps
<1>1. PICK g, j : g = Taken /\ j = Job OBVIOUS
<1>2. TakenFor(g, j) /\ stack = <<>> /\ j.kind = "reaction" BY <1>1, TakenAll DEF RunAgAwait
<1>3. j.r.kind \in {"agawait", "agyield"} BY <1>1 DEF RunAgAwait
<1>4. /\ j.r.to \in DOMAIN g.ags /\ Serving(g, j.r.to) /\ ~g.ags[j.r.to].done /\ NoPlace(g, <<>>, OfGen, j.r.to)
      /\ All(g, <<>>, {}, {j.r.to}, {}) /\ j.r.to \in Nat
  BY <1>2, <1>3, GenJob
<1>5. j.ok \in BOOLEAN /\ j.x \in Value BY <1>2, JobValue
<1>6. PICK f : f = Frame("agen", j.r.to, j.ok, j.x) OBVIOUS
<1>7. heap' = g /\ stack' = <<f>> BY <1>1, <1>6 DEF RunAgAwait
<1>8. f.kind = "agen" /\ f.p = j.r.to /\ f.ok = j.ok /\ f.arg = j.x /\ f = Frame(f.kind, f.p, f.ok, f.arg) BY <1>6 DEF Frame
<1>9. f \in FrameRec BY <1>4, <1>5, <1>8 DEF Frame, FrameRec
<1>10. FrameIsTyped(g, f) BY <1>4, <1>5, <1>8 DEF FrameIsTyped
<1>d. g.ags[j.r.to].done \in BOOLEAN
  <2>1. g \in Heap BY <1>2 DEF TakenFor
  <2>2. g.ags[j.r.to] \in AsyncGenRec BY <1>4, <2>1, Parts
  <2> QED BY <2>2, GenParts
<1>11. FrameOK(g, f) BY <1>4, <1>d, <1>8, <1>10 DEF FrameOK
<1>h. PICK G : G = {j.r.to} OBVIOUS
<1>12. /\ All(g, <<>>, {}, G, {})
       /\ f.kind \in OfPromise => NoPlace(g, <<>>, OfPromise, f.p) /\ ~IsRequest(g, f.p) /\ ~IsOut(g, f.p)
       /\ f.kind \in OfGen => NoPlace(g, <<>>, OfGen, f.p)
       /\ \A k \in G : f.kind \in OfGen /\ f.p = k
  BY <1>4, <1>8, <1>h DEF OfPromise, OfGen
<1>s. PICK s : s = <<f>> OBVIOUS
<1>13. Good(g, s) BY ONLY <1>9, <1>11, <1>12, <1>s, StartAll
<1> QED BY <1>7, <1>13, <1>s DEF Keeps

LEMMA RunAgYieldKeeps ==
  ASSUME PInv, RunAgYield
  PROVE  Keeps
<1>1. PICK g, j : g = Taken /\ j = Job OBVIOUS
<1>2. TakenFor(g, j) /\ stack = <<>> /\ j.kind = "reaction" BY <1>1, TakenAll DEF RunAgYield
<1>3. j.r.kind \in {"agawait", "agyield"} BY <1>1 DEF RunAgYield
<1>4. /\ j.r.to \in DOMAIN g.ags /\ Serving(g, j.r.to) /\ ~g.ags[j.r.to].done /\ NoPlace(g, <<>>, OfGen, j.r.to)
      /\ All(g, <<>>, {}, {j.r.to}, {})
  BY <1>2, <1>3, GenJob
<1>5. PICK how \in {"yield", "end", "fail"}, x \in Value : Goes(<<>>, agComplete(g, j.r.to, how, x))
  <2>1. j.x \in Value BY <1>2, JobValue
  <2> QED BY <1>1, <2>1 DEF RunAgYield
<1>6. PICK k, r, st : k \in DOMAIN g.ags /\ k = j.r.to /\ r = agComplete(g, k, how, x) /\ st = <<>> BY <1>4
<1>7. /\ st \in Seq(FrameRec) /\ All(g, st, {}, {k}, {}) /\ NoPlace(g, st, OfGen, k) /\ Serving(g, k)
      /\ how = "yield" => ~g.ags[k].done
  BY <1>4, <1>6, EmptyStack
<1>8. Given(st, r) BY ONLY <1>6, <1>7, how \in {"yield", "end", "fail"}, x \in Value, CompleteAll
<1>9. heap' = r.heap /\ stack' = st \o r.frames BY <1>5, <1>6 DEF Goes
<1> QED BY <1>8, <1>9 DEF Keeps, Good, Given

\* The promise that takes over the state of another settles with it, two ticks
\* after it was resolved or one after the other settled.
LEMMA SettleJob ==
  ASSUME NEW g, NEW j, TakenFor(g, j), j.kind = "reaction", j.r.kind = "settle", NEW how, how = (IF j.ok THEN "fulfilled" ELSE "rejected"),
         NEW h, h = promSettle(g, j.r.to, how, j.x)
  PROVE  h \in Heap /\ All(h, <<>>, {}, {}, {})
<1>1. /\ j.ok \in BOOLEAN /\ j.x \in Value /\ (j.ok => j.x \in Final) /\ j.p \in Promise(g) /\ ReactionOK(g, j.p, j.r)
      /\ g.prom[j.p].state = how /\ g.prom[j.p].value = j.x
  BY JobValue
<1>2. PICK p \in Promise(g) : p = j.r.to BY <1>1 DEF ReactionOK
<1>3. ~g.prom[p].again => /\ g.prom[p].fate = j.p
                          /\ j.gen = Later(g.prom[p].fateAt + 1, g.prom[j.p].at) + 1
  BY <1>1, <1>2 DEF ReactionOK, TakenFor, JobOK
<1>4. /\ g.prom[p].again \/ NoPlace(g, <<>>, OfPromise, p)
      /\ ~IsRequest(g, p)
  <2>1. JobGoes(j, OfPromise, p) BY <1>2 DEF JobGoes, GoesOn, OfPromise
  <2> QED BY <2>1 DEF TakenFor
<1>5. ASSUME g.prom[p].state = "pending" PROVE MayFinish(g, <<>>, p, how, j.x)
  <2>1. how \in {"fulfilled", "rejected"} /\ (how = "fulfilled" => j.x \in Final) BY <1>1
  <2>2. g.gen = j.gen BY DEF TakenFor
  <2> QED BY <1>1, <1>3, <1>4, <1>5, <2>1, <2>2 DEF MayFinish
<1>6. PICK P, G, X, st : P = OwesP(g, j) /\ G = {} /\ X = {} /\ st = <<>> OBVIOUS
<1>7. OwesG(g, j) = {} BY DEF OwesG, JobGoes, GoesOn, OfGen
<1>8. All(g, st, P, G, X) BY <1>6, <1>7 DEF TakenFor
<1>9. h = promSettle(g, p, how, j.x) BY <1>2
<1>10. g.prom[p].state = "pending" => MayFinish(g, st, p, how, j.x) BY <1>5, <1>6
<1>v. PICK v : v = j.x OBVIOUS
<1>11. h = promSettle(g, p, how, v) /\ (g.prom[p].state = "pending" => MayFinish(g, st, p, how, v)) BY <1>9, <1>10, <1>v
<1>12. h \in Heap /\ All(h, st, P \ {p}, G, X) BY ONLY <1>8, <1>11, p \in Promise(g), SettleAll
<1>13. P \ {p} = {} BY <1>2, <1>6 DEF OwesP, JobGoes, GoesOn
<1> QED BY <1>6, <1>12, <1>13

LEMMA RunOwnKeeps ==
  ASSUME PInv, RunOwn
  PROVE  Keeps
<1>1. PICK g, j, h : g = Taken /\ j = Job /\ h = heap' OBVIOUS
<1>2. TakenFor(g, j) /\ stack = <<>> /\ j.kind = "reaction" BY <1>1, TakenAll DEF RunOwn
<1>3. j.ok \in BOOLEAN /\ j.x \in Value /\ (j.ok => j.x \in Final) /\ ReactionOK(g, j.p, j.r) /\ g \in Heap
  BY <1>2, JobValue DEF TakenFor
<1>4. h \in Heap /\ All(h, <<>>, {}, {}, {})
  <2>1. CASE j.r.kind = "element"
    <3>1. All(g, <<>>, {}, {}, {}) BY <1>2, <2>1, OwesNobody
    <3>2. PICK k \in DOMAIN g.combs : k = j.r.to BY <1>3, <2>1 DEF ReactionOK
    <3>4. h = Element(g, k, j.r.idx, j.ok, j.x) BY <1>1, <2>1, <3>2 DEF RunOwn
    <3> QED BY <1>3, <3>1, <3>4, ElementAll
  <2>2. CASE j.r.kind = "settle" /\ j.ok
    <3>1. h = promResolve(g, j.r.to, j.x) BY <1>1, <2>2 DEF RunOwn
    <3>2. j.r.to \in Promise(g) BY <1>3, <2>2 DEF ReactionOK
    <3>3. PICK how : how = "fulfilled" OBVIOUS
    <3>4. h = promSettle(g, j.r.to, how, j.x) BY <1>3, <2>2, <3>1, <3>2, <3>3, ResolveFinal
    <3> QED BY <1>2, <2>2, <3>3, <3>4, SettleJob
  <2>3. CASE j.r.kind = "settle" /\ ~j.ok
    <3>1. PICK how : how = "rejected" OBVIOUS
    <3>2. h = promSettle(g, j.r.to, how, j.x) BY <1>1, <2>3, <3>1 DEF RunOwn
    <3> QED BY <1>2, <2>3, <3>1, <3>2, SettleJob
  <2>4. j.r.kind \in {"settle", "element"} BY <1>1 DEF RunOwn
  <2> QED BY <1>3, <2>1, <2>2, <2>3, <2>4
<1>5. stack' = <<>> BY <1>2 DEF RunOwn
<1> QED BY <1>1, <1>4, <1>5, EmptyStack DEF Keeps, Good

\* A promise is adopted by a reaction on it.
LEMMA AdoptsAll ==
  ASSUME NEW g, NEW j, TakenFor(g, j), j.kind = "adopt", j.x \in Promise(g), NEW h, h = promThen(g, j.x, Settle(j.p))
  PROVE  h \in Heap /\ All(h, <<>>, {}, {}, {})
<1>1. /\ g \in Heap /\ j.p \in Promise(g) /\ g.gen = j.gen
      /\ ~g.prom[j.p].again => /\ g.prom[j.p].state = "pending" /\ g.prom[j.p].fate = j.x
                               /\ j.gen = g.prom[j.p].fateAt + 1
  BY DEF TakenFor, JobOK
<1>2. g.prom[j.p].fateAt \in Nat /\ j.p \in Nat BY <1>1, Parts, PromiseParts
<1>3. PICK r : r = Settle(j.p) OBVIOUS
<1>4. r.kind = "settle" /\ r.to = j.p /\ r \in ReactionRec BY <1>2, <1>3 DEF Settle, Reaction, ReactionRec
<1>5. ReactionOK(g, j.x, r)
  <2>1. ~g.prom[j.p].again => g.prom[j.p].fateAt < g.gen BY <1>1, <1>2
  <2> QED BY <1>1, <1>4, <2>1 DEF ReactionOK
<1>6. PICK P, G, X, st, p : P = OwesP(g, j) /\ G = {} /\ X = {} /\ st = <<>> /\ p = j.x OBVIOUS
<1>7. MayGoOn(g, st, p, r)
  <2>1. JobGoes(j, OfPromise, j.p) BY DEF JobGoes, OfPromise
  <2>2. /\ g.prom[j.p].again \/ NoPlace(g, st, OfPromise, j.p)
        /\ ~IsRequest(g, j.p) /\ ~IsOut(g, j.p)
    BY <1>1, <1>6, <2>1 DEF TakenFor
  <2>3. ~g.prom[j.p].again => g.gen = g.prom[j.p].fateAt + 1 BY <1>1
  <2>4. r.kind \notin OfGen BY <1>4 DEF OfGen
  <2> QED BY <1>4, <1>5, <1>6, <2>2, <2>3, <2>4 DEF MayGoOn
<1>8. All(g, st, P, G, X)
  <2>1. OwesG(g, j) = {} BY DEF OwesG, JobGoes, GoesOn, OfGen
  <2> QED BY <1>6, <2>1 DEF TakenFor
<1>9. PICK Q, H : Q = {} /\ H = {} OBVIOUS
<1>10. /\ \A q \in P : q \notin Q => r.kind = "settle" /\ r.to = q /\ g.prom[q].fate = p
       /\ \A k \in G : k \notin H => r.kind \in OfGen /\ r.to = k
  <2>1. \A q \in OwesP(g, j) : q = j.p /\ g.prom[q].fate = j.x BY DEF OwesP, JobGoes
  <2> QED BY <1>4, <1>6, <2>1
<1>11. h = promThen(g, p, r) BY <1>3, <1>6
<1>12. h \in Heap /\ All(h, st, Q, H, X) BY ONLY <1>7, <1>8, <1>10, <1>11, ThenAll
<1> QED BY <1>6, <1>9, <1>12

\* The then() of a thenable runs, with the two functions of the promise.
LEMMA ThenableAll ==
  ASSUME NEW g, NEW j, TakenFor(g, j), j.kind = "adopt", j.x \notin Promise(g), NEW h, h = [g EXCEPT !.prom[j.p].cap = TRUE],
         NEW f, f = Frame("thenable", j.p, TRUE, Undef), NEW s, s = <<f>>
  PROVE  h \in Heap /\ Good(h, s)
<1>1. /\ g \in Heap /\ j.p \in Promise(g)
      /\ j.x \in Thenable
      /\ ~g.prom[j.p].again => g.prom[j.p].fate = j.x
  BY DEF TakenFor, JobOK
<1>2. j.x # Undef /\ j.x \notin Promise(g)
  BY <1>1, ValuesAssumption
<1>3. PICK p \in Promise(g) : p = j.p BY <1>1
<1>4. g.prom[p].fate # Undef
  <2>1. PromOK(g, <<>>, p) BY <1>3 DEF TakenFor, All, Core, PromisesOK
  <2>2. g.prom[p].again => g.prom[p].fate # Undef BY <2>1 DEF PromOK
  <2> QED BY <1>1, <1>2, <1>3, <2>2
<1>5. PICK P, G, X, st : P = {} /\ G = {} /\ X = {} /\ st = <<>> OBVIOUS
<1>6. All(g, st, P, G, X)
  <2>1. OwesG(g, j) = {} BY DEF OwesG, JobGoes, GoesOn, OfGen
  <2>2. All(g, <<>>, OwesP(g, j), {}, {}) BY <2>1 DEF TakenFor
  <2>3. Follows(g, {})
    <3>1. \A q \in OwesP(g, j) : g.prom[q].fate \notin Promise(g) BY <1>2 DEF OwesP
    <3>2. Follows(g, OwesP(g, j)) BY <2>2 DEF All
    <3> QED BY <3>1, <3>2 DEF Follows
  <2> QED BY <1>5, <2>2, <2>3 DEF All
<1>7. h = [g EXCEPT !.prom[p].cap = TRUE] BY <1>3
<1>a. h \in Heap /\ All(h, st, P, G, X) /\ Promise(h) = Promise(g)
  BY ONLY <1>4, <1>6, <1>7, p \in Promise(g), CapAll
<1>b. h.prom[p].cap BY ONLY <1>4, <1>6, <1>7, p \in Promise(g), CapAll
<1>8. h \in Heap /\ All(h, st, P, G, X) /\ Promise(h) = Promise(g) /\ h.prom[p].cap BY <1>a, <1>b
<1>9. f.kind = "thenable" /\ f.p = p /\ f.ok = TRUE /\ f.arg = Undef /\ f = Frame(f.kind, f.p, f.ok, f.arg) BY <1>3 DEF Frame
<1>10. f \in FrameRec /\ FrameOK(h, f) BY <1>8, <1>9, NewFrame
<1>11. f.kind \notin OfPromise /\ f.kind \notin OfGen BY <1>9 DEF OfPromise, OfGen
<1>12. /\ All(h, <<>>, {}, G, {})
       /\ f.kind \in OfPromise => NoPlace(h, <<>>, OfPromise, f.p) /\ ~IsRequest(h, f.p) /\ ~IsOut(h, f.p)
       /\ f.kind \in OfGen => NoPlace(h, <<>>, OfGen, f.p)
       /\ \A k \in G : f.kind \in OfGen /\ f.p = k
  BY <1>5, <1>8, <1>11
<1>13. Good(h, s) BY ONLY <1>10, <1>12, s = <<f>>, StartAll
<1> QED BY <1>8, <1>13

LEMMA RunAdoptionKeeps ==
  ASSUME PInv, RunAdoption
  PROVE  Keeps
<1>1. PICK g, j, h : g = Taken /\ j = Job /\ h = heap' OBVIOUS
<1>2. TakenFor(g, j) /\ stack = <<>> /\ j.kind = "adopt" BY <1>1, TakenAll DEF RunAdoption
<1>3. Promise(g) = Promise(heap)
  <2>1. Promise(Taken) = Promise(heap) BY DEF Taken, Promise
  <2> QED BY <1>1, <2>1
<1>4. CASE j.x \in Promise(g)
  <2>1. h = promThen(g, j.x, Settle(j.p)) /\ stack' = <<>> BY <1>1, <1>2, <1>3, <1>4 DEF RunAdoption
  <2>2. h \in Heap /\ All(h, <<>>, {}, {}, {}) BY <1>2, <1>4, <2>1, AdoptsAll
  <2> QED BY <1>1, <2>1, <2>2, EmptyStack DEF Keeps, Good
<1>5. CASE j.x \notin Promise(g)
  <2>1. PICK f : f = Frame("thenable", j.p, TRUE, Undef) OBVIOUS
  <2>2. h = [g EXCEPT !.prom[j.p].cap = TRUE] /\ stack' = <<f>> BY <1>1, <1>3, <1>5, <2>1 DEF RunAdoption
  <2>3. PICK s : s = <<f>> OBVIOUS
  <2>4. Good(h, s) BY <1>2, <1>5, <2>1, <2>2, <2>3, ThenableAll
  <2> QED BY <1>1, <2>2, <2>3, <2>4 DEF Keeps
<1> QED BY <1>4, <1>5

-----------------------------------------------------------------------------
(* The invariant holds throughout.                                         *)

LEMMA EmptyAll ==
  ASSUME NEW h, h = [prom |-> <<>>, combs |-> <<>>, ags |-> <<>>, queue |-> <<>>, gen |-> 0]
  PROVE  h \in Heap /\ All(h, <<>>, {}, {}, {})
<1>1. h \in Heap
  <2>1. <<>> \in Seq(PromiseRec) /\ <<>> \in Seq(CombinatorRec) /\ <<>> \in Seq(AsyncGenRec) /\ <<>> \in Seq(JobRec) OBVIOUS
  <2> QED BY <2>1 DEF Heap
<1>2. /\ DOMAIN h.prom = {} /\ DOMAIN h.combs = {} /\ DOMAIN h.ags = {} /\ DOMAIN h.queue = {} /\ Promise(h) = {}
  BY DEF Promise
<1>3. FramesOK(h, <<>>) BY DEF FramesOK
<1>4. JobsOK(h) /\ WaitOK(h) /\ PromisesOK(h, <<>>) /\ InOrderAll(h)
  BY <1>2 DEF JobsOK, WaitOK, PromisesOK, InOrderAll
<1>5. CombsOK(h, <<>>) /\ GensOK(h, <<>>) /\ RequestsOK(h, <<>>) /\ Gens(h)
  BY <1>2 DEF CombsOK, GensOK, RequestsOK, Gens
<1>6. Follows(h, {}) /\ Served(h, <<>>, {}) /\ Answers(h, {}) BY <1>2 DEF Follows, Served, Answers
<1> QED BY <1>1, <1>3, <1>4, <1>5, <1>6 DEF All, Core

LEMMA InitHolds == Init => PInv
<1> SUFFICES ASSUME Init PROVE PInv OBVIOUS
<1>1. MenuOK BY MenusAssumption DEF Init, MenuOK
<1>2. over \in BOOLEAN BY DEF Init
<1>3. PICK f : f = Frame("script", 0, TRUE, Undef) OBVIOUS
<1>4. f.kind = "script" /\ f.p = 0 /\ f.ok = TRUE /\ f.arg = Undef /\ f = Frame(f.kind, f.p, f.ok, f.arg) BY <1>3 DEF Frame
<1>5. f \in FrameRec BY <1>3, PlainIsFinal DEF Frame, FrameRec
<1>6. FrameIsTyped(heap, f) BY <1>4, PlainIsFinal DEF FrameIsTyped
<1>7. FrameOK(heap, f) BY <1>4, <1>6 DEF FrameOK
<1>8. f.kind \notin OfPromise /\ f.kind \notin OfGen BY <1>4 DEF OfPromise, OfGen
<1>9. PICK G, h, s : G = {} /\ h = heap /\ s = stack OBVIOUS
<1>10. All(heap, <<>>, {}, {}, {})
  <2>1. heap = [prom |-> <<>>, combs |-> <<>>, ags |-> <<>>, queue |-> <<>>, gen |-> 0] BY DEF Init
  <2> QED BY <2>1, EmptyAll
<1>11. /\ All(h, <<>>, {}, G, {}) /\ FrameOK(h, f)
       /\ f.kind \in OfPromise => NoPlace(h, <<>>, OfPromise, f.p) /\ ~IsRequest(h, f.p) /\ ~IsOut(h, f.p)
       /\ f.kind \in OfGen => NoPlace(h, <<>>, OfGen, f.p)
       /\ \A k \in G : f.kind \in OfGen /\ f.p = k
  BY <1>7, <1>8, <1>9, <1>10
<1>12. s = <<f>> BY <1>3, <1>9 DEF Init
<1>13. Good(h, s) BY ONLY <1>5, <1>11, <1>12, StartAll
<1> QED BY <1>1, <1>2, <1>9, <1>13 DEF PInv

LEMMA MenuSame == ASSUME PInv, UNCHANGED <<menu, over>> PROVE MenuOK' /\ over' \in BOOLEAN
<1>1. MenuOK /\ over \in BOOLEAN BY DEF PInv
<1>2. menu' = menu /\ over' = over OBVIOUS
<1> QED BY <1>1, <1>2 DEF MenuOK

LEMMA MenuStays ==
  ASSUME PInv, Next
  PROVE  MenuOK' /\ over' \in BOOLEAN
<1>1. CASE \E op : Does(op) BY <1>1, MenuKept
<1>2. CASE UNCHANGED <<menu, over>> BY <1>2, MenuSame
<1>3. CASE \E v \in Reason : Throw(v)
  <2>1. menu' = menu /\ over' \in BOOLEAN BY <1>3 DEF Throw
  <2>2. MenuOK BY DEF PInv
  <2> QED BY <2>1, <2>2 DEF MenuOK
<1>4. (\E op : Does(op)) \/ (UNCHANGED <<menu, over>>) \/ (\E v \in Reason : Throw(v))
  <2>1. New \/ CallAsync \/ AsyncGen \/ AgAbandoned => \E op : Does(op)
    BY DEF New, CallAsync, AsyncGen, AgAbandoned
  <2>2. Register \/ AgClosed \/ AgCloseThrows => UNCHANGED <<menu, over>>
    BY DEF Register, AgClosed, AgCloseThrows
  <2>3. RunAgAwait \/ RunAgYield \/ RunAdoption \/ RunOwn \/ RunHandler \/ RunPassOn \/ RunAwait => UNCHANGED <<menu, over>>
    BY DEF RunAgAwait, RunAgYield, RunAdoption, RunOwn, RunHandler, RunPassOn, RunAwait, Dequeue
  <2>4. (\E x \in Anything : StaticResolve(x) \/ Await(x) \/ AgAwait(x) \/ Yield(x)) => \E op : Does(op)
    BY DEF StaticResolve, Await, AgAwait, Yield
  <2>5. (\E x \in Anything : Return(x) \/ AgReturn(x)) => UNCHANGED <<menu, over>>
    BY DEF Return, AgReturn
  <2>6. (\E v \in Reason : StaticReject(v)) => \E op : Does(op) BY DEF StaticReject
  <2>7. (\E v \in Reason : AgThrow(v)) => UNCHANGED <<menu, over>> BY DEF AgThrow
  <2>8. (\E p \in Promise(heap) :
          \/ Finally(p)
          \/ \E x \in Anything : Resolve(p, x)
          \/ \E v \in Reason : Reject(p, v)
          \/ \E f, r \in BOOLEAN : Then(p, f, r)) => \E op : Does(op)
    BY DEF Finally, Resolve, Reject, Then
  <2>9. (\E k \in DOMAIN heap.ags :
          \/ \E x \in menu.values, kind \in {"next", "return"} : Request(k, kind, x)
          \/ \E v \in Reason : Request(k, "throw", v)) => \E op : Does(op)
    BY DEF Request
  <2>10. (\E name \in Names, els \in BoundedSeq(Anything, MaxElements) : Combine(name, els)) => \E op : Does(op)
    BY DEF Combine
  <2> QED BY <2>1, <2>2, <2>3, <2>4, <2>5, <2>6, <2>7, <2>8, <2>9, <2>10 DEF Next
<1> QED BY <1>1, <1>2, <1>3, <1>4

LEMMA NextHolds == PInv /\ Next => PInv'
<1> SUFFICES ASSUME PInv, Next PROVE PInv' OBVIOUS
<1>1. MenuOK' /\ over' \in BOOLEAN BY MenuStays
<1>2. Keeps
  <2>1. ASSUME New \/ CallAsync \/ Register \/ AsyncGen PROVE Keeps
    BY <2>1, NewKeeps, CallAsyncKeeps, RegisterKeeps, AsyncGenKeeps
  <2>2. ASSUME AgClosed \/ AgAbandoned \/ AgCloseThrows PROVE Keeps
    BY <2>2, ClosedKeeps, AgCloseThrowsKeeps DEF AgClosed, AgAbandoned
  <2>3. ASSUME RunAgAwait \/ RunAgYield \/ RunAdoption \/ RunOwn \/ RunHandler \/ RunPassOn \/ RunAwait PROVE Keeps
    BY <2>3, RunAgAwaitKeeps, RunAgYieldKeeps, RunAdoptionKeeps, RunOwnKeeps, RunHandlerKeeps, RunPassOnKeeps
  <2>4. ASSUME NEW x \in Anything,
               StaticResolve(x) \/ Await(x) \/ Return(x) \/ AgAwait(x) \/ Yield(x) \/ AgReturn(x)
        PROVE  Keeps
    <3>1. x \in Value BY AnythingIsSound
    <3> QED BY <2>4, <3>1, StaticResolveKeeps, AwaitKeeps, ReturnKeeps, SuspendsKeeps, AgReturnKeeps
  <2>5. ASSUME NEW v \in Reason, StaticReject(v) \/ Throw(v) \/ AgThrow(v) PROVE Keeps
    <3>1. v \in Value BY PlainIsFinal
    <3> QED BY <2>5, <3>1, StaticRejectKeeps, ThrowKeeps, AgReturnKeeps
  <2>6. ASSUME NEW p \in Promise(heap), Finally(p) PROVE Keeps
    <3>1. PICK f \in BOOLEAN : TRUE OBVIOUS
    <3> QED BY <2>6, <3>1, ThenKeepsAll
  <2>7. ASSUME NEW p \in Promise(heap), \E x \in Anything : Resolve(p, x) PROVE Keeps BY <2>7, ResolveKeeps
  <2>8. ASSUME NEW p \in Promise(heap), \E v \in Reason : Reject(p, v) PROVE Keeps BY <2>8, RejectKeeps
  <2>9. ASSUME NEW p \in Promise(heap), \E f, r \in BOOLEAN : Then(p, f, r) PROVE Keeps BY <2>9, ThenKeepsAll
  <2>10. ASSUME NEW k \in DOMAIN heap.ags, NEW x \in menu.values, NEW kind \in {"next", "return"}, Request(k, kind, x)
         PROVE  Keeps
    <3>1. x \in Value BY PlainIsFinal DEF PInv, MenuOK
    <3>2. kind \in {"next", "return", "throw"} OBVIOUS
    <3> QED BY <2>10, <3>1, <3>2, RequestKeeps
  <2>11. ASSUME NEW k \in DOMAIN heap.ags, NEW v \in Reason, Request(k, "throw", v) PROVE Keeps
    <3>1. v \in Value BY PlainIsFinal
    <3>2. PICK kind \in {"next", "return", "throw"} : kind = "throw" OBVIOUS
    <3> QED BY <2>11, <3>1, <3>2, RequestKeeps
  <2>12. ASSUME NEW name \in Names, NEW els \in BoundedSeq(Anything, MaxElements), Combine(name, els) PROVE Keeps
    BY <2>12, CombineKeeps
  <2> QED BY <2>1, <2>2, <2>3, <2>4, <2>5, <2>6, <2>7, <2>8, <2>9, <2>10, <2>11, <2>12 DEF Next
<1>3. Good(heap, stack)' BY <1>2 DEF Keeps
<1>4. (MenuOK /\ over \in BOOLEAN /\ Good(heap, stack))' BY <1>1, <1>3
<1> QED BY <1>4 DEF PInv

LEMMA StutterHolds == PInv /\ UNCHANGED vars => PInv'
<1> SUFFICES ASSUME PInv, UNCHANGED vars PROVE PInv' OBVIOUS
<1>1. heap' = heap /\ stack' = stack /\ menu' = menu /\ over' = over BY DEF vars
<1>2. MenuOK' /\ over' \in BOOLEAN BY <1>1, MenuSame
<1>3. Good(heap', stack') BY <1>1 DEF PInv
<1> QED BY <1>2, <1>3 DEF PInv

\* The inductive invariant: the heap and the code that runs are sound, and
\* nothing is owed between two steps (PromisesProof, All).
THEOREM Invariance == Spec => []PInv
<1>1. PInv /\ [Next]_vars => PInv' BY NextHolds, StutterHolds
<1> QED BY <1>1, InitHolds, PTL DEF Spec

-----------------------------------------------------------------------------
(* What follows from it.                                                   *)

LEMMA InPlace == PInv => JobsAreInTheirPlace
<1> SUFFICES ASSUME PInv PROVE JobsAreInTheirPlace OBVIOUS
<1>1. All(heap, stack, {}, {}, {}) /\ heap \in Heap BY PInvParts
<1>2. /\ FramesOK(heap, stack) /\ PromisesOK(heap, stack) /\ InOrderAll(heap) /\ Gens(heap) /\ Follows(heap, {})
  BY <1>1 DEF All, Core
<1>3. TypeOK
  <2>1. \A op \in DOMAIN menu.times : menu.times[op] \in Nat BY DEF PInv, MenuOK
  <2>2. over \in BOOLEAN BY DEF PInv
  <2>3. \A i \in DOMAIN stack : FrameIsTyped(heap, stack[i]) BY <1>2 DEF FramesOK, FrameOK
  <2> QED BY <1>1, <2>1, <2>2, <2>3 DEF TypeOK
<1>4. JobsRunInOrder
  BY <1>2 DEF JobsRunInOrder, ReactionsRunInOrder, GenerationsInOrder, InOrderAll, Gens
<1>5. AdoptionTakesTwoTicks
  <2>1. ASSUME NEW p \in Promise(heap), heap.prom[p].fate \in Promise(heap), heap.prom[p].state # "pending", ~heap.prom[p].again
        PROVE  /\ heap.prom[heap.prom[p].fate].state = heap.prom[p].state
               /\ heap.prom[heap.prom[p].fate].value = heap.prom[p].value
               /\ heap.prom[p].at = Later(heap.prom[p].fateAt + 1, heap.prom[heap.prom[p].fate].at) + 1
    <3>1. PromOK(heap, stack, p) BY <1>2 DEF PromisesOK
    <3> QED BY <2>1, <3>1 DEF PromOK
  <2> QED BY <2>1 DEF AdoptionTakesTwoTicks
<1>6. NoAdoptionIsLost
  <2>1. ASSUME Finished, NEW p \in Promise(heap), heap.prom[p].fate \in Promise(heap), Pending(p),
               ~Pending(heap.prom[p].fate)
        PROVE  FALSE
    <3>1. PICK q \in Promise(heap) : q = heap.prom[p].fate BY <2>1
    <3>2. Followed(heap, p, q) BY <1>2, <2>1, <3>1 DEF Follows, Pending
    <3>3. PromOK(heap, stack, q) BY <1>2 DEF PromisesOK
    <3>4. heap.prom[q].cbs = <<>> BY <2>1, <3>1, <3>3, Zenon DEF Pending, PromOK
    <3>5. heap.queue = <<>> BY <2>1 DEF Finished
    <3> QED BY <3>2, <3>4, <3>5 DEF Followed
  <2> QED BY <2>1 DEF NoAdoptionIsLost
<1> QED BY <1>3, <1>4, <1>5, <1>6 DEF JobsAreInTheirPlace, AdoptionIsTimely

\* The places of Places(K, p), each in its own terms.
LEMMA APlace ==
  ASSUME NEW K, NEW p, NEW a \in Places(K, p)
  PROVE  \/ \E i \in DOMAIN stack : FrameGoes(stack[i], K, p) /\ a = <<"runs", i>>
         \/ \E i \in DOMAIN heap.queue : heap.queue[i].kind = "reaction" /\ GoesOn(heap.queue[i].r, K, p) /\ a = <<"queued", i>>
         \/ \E q \in Promise(heap) : \E i \in DOMAIN heap.prom[q].cbs :
              GoesOn(heap.prom[q].cbs[i], K, p) /\ a = <<"waits", q, i>>
BY DEF Places, FrameGoes

LEMMA AllPlaces ==
  ASSUME NEW K, NEW p
  PROVE  /\ \A i \in DOMAIN stack : FrameGoes(stack[i], K, p) => Places(K, p) # {}
         /\ \A i \in DOMAIN heap.queue : heap.queue[i].kind = "reaction" /\ GoesOn(heap.queue[i].r, K, p) => Places(K, p) # {}
         /\ \A q \in Promise(heap) : \A i \in DOMAIN heap.prom[q].cbs :
              GoesOn(heap.prom[q].cbs[i], K, p) => Places(K, p) # {}
<1>1. \A i \in DOMAIN stack : FrameGoes(stack[i], K, p) => <<"runs", i>> \in Places(K, p) BY DEF Places, FrameGoes
<1>2. \A i \in DOMAIN heap.queue : heap.queue[i].kind = "reaction" /\ GoesOn(heap.queue[i].r, K, p) => <<"queued", i>> \in Places(K, p)
  BY DEF Places
<1>3. ASSUME NEW q \in Promise(heap), NEW i \in DOMAIN heap.prom[q].cbs, GoesOn(heap.prom[q].cbs[i], K, p)
      PROVE  <<"waits", q, i>> \in Places(K, p)
  BY <1>3 DEF Places
<1> QED BY <1>1, <1>2, <1>3

\* What goes on at one place is at one place.
LEMMA OneAtATime ==
  ASSUME NEW K, NEW L, K \subseteq L, NEW p, OnePlace(heap, stack, L, p)
  PROVE  AtMostOne(Places(K, p))
<1> SUFFICES ASSUME NEW a \in Places(K, p), NEW b \in Places(K, p) PROVE a = b BY DEF AtMostOne
<1> DEFINE Runs(c, i) == i \in DOMAIN stack /\ FrameGoes(stack[i], L, p) /\ c = <<"runs", i>>
           Queued(c, i) == i \in DOMAIN heap.queue /\ JobGoes(heap.queue[i], L, p) /\ c = <<"queued", i>>
           Waiting(c, q, i) == /\ q \in DOMAIN heap.prom /\ i \in DOMAIN heap.prom[q].cbs
                               /\ GoesOn(heap.prom[q].cbs[i], L, p) /\ c = <<"waits", q, i>>
<1>1. ASSUME NEW c \in Places(K, p)
      PROVE  (\E i : Runs(c, i)) \/ (\E i : Queued(c, i)) \/ (\E q, i : Waiting(c, q, i))
  <2>1. \/ \E i \in DOMAIN stack : FrameGoes(stack[i], K, p) /\ c = <<"runs", i>>
        \/ \E i \in DOMAIN heap.queue : heap.queue[i].kind = "reaction" /\ GoesOn(heap.queue[i].r, K, p) /\ c = <<"queued", i>>
        \/ \E q \in Promise(heap) : \E i \in DOMAIN heap.prom[q].cbs :
             GoesOn(heap.prom[q].cbs[i], K, p) /\ c = <<"waits", q, i>>
    BY APlace
  <2> QED BY <2>1 DEF FrameGoes, GoesOn, JobGoes, Promise
<1>2. ASSUME NEW i, NEW j, Runs(a, i), Runs(b, j) PROVE a = b
  <2>1. i = j BY <1>2 DEF OnePlace, OneRuns
  <2> QED BY <1>2, <2>1
<1>3. ASSUME NEW i, NEW j, Queued(a, i), Queued(b, j) PROVE a = b
  <2>1. i = j BY <1>3 DEF OnePlace, OneQueued
  <2> QED BY <1>3, <2>1
<1>4. ASSUME NEW q, NEW r, NEW i, NEW j, Waiting(a, q, i), Waiting(b, r, j) PROVE a = b
  <2>1. q = r /\ i = j BY <1>4 DEF OnePlace, OneWaits
  <2> QED BY <1>4, <2>1
<1>5. (\E c, i : Runs(c, i)) => ~NoneRuns(stack, L, p) BY DEF NoneRuns
<1>6. (\E c, i : Queued(c, i)) => ~NoneQueued(heap, L, p) BY DEF NoneQueued
<1>7. (\E c, q, i : Waiting(c, q, i)) => ~NoneWaits(heap, L, p) BY DEF NoneWaits
<1>8. /\ NoneRuns(stack, L, p) \/ NoneQueued(heap, L, p)
      /\ NoneRuns(stack, L, p) \/ NoneWaits(heap, L, p)
      /\ NoneQueued(heap, L, p) \/ NoneWaits(heap, L, p)
  BY DEF OnePlace
<1> HIDE DEF Runs, Queued, Waiting
<1> QED BY <1>1, <1>2, <1>3, <1>4, <1>5, <1>6, <1>7, <1>8

LEMMA FunctionsOnce == PInv => AsyncFunctionsAreResumedOnce
<1> SUFFICES ASSUME PInv, NEW p \in Promise(heap), NEW K, K = {"async", "await"}
             PROVE  AtMostOne(Places(K, p)) /\ (Places(K, p) # {} => Pending(p) /\ heap.prom[p].fate = Undef)
  BY DEF AsyncFunctionsAreResumedOnce
<1>1. /\ FramesOK(heap, stack) /\ JobsOK(heap) /\ WaitOK(heap) /\ PromisesOK(heap, stack)
  BY PInvParts DEF All, Core
<1>2. ASSUME NEW a \in Places(K, p) PROVE Owned(heap, p)
  <2>1. ASSUME NEW r, NEW q, ReactionOK(heap, q, r), GoesOn(r, K, p) PROVE Owned(heap, p)
    <3>1. r.kind = "await" /\ r.to = p BY <2>1 DEF ReactionOK, ReactionRec, GoesOn
    <3> QED BY <2>1, <3>1 DEF ReactionOK
  <2>2. ASSUME NEW i \in DOMAIN stack, FrameGoes(stack[i], K, p) PROVE Owned(heap, p)
    <3>1. FrameOK(heap, stack[i]) /\ stack[i].p = p /\ stack[i].kind \in {"async", "await"} BY <1>1, <2>2 DEF FramesOK, FrameGoes
    <3>2. stack[i].kind # "await" BY <3>1 DEF FrameOK, FrameIsTyped
    <3> QED BY <3>1, <3>2 DEF FrameOK
  <2>3. ASSUME NEW i \in DOMAIN heap.queue, heap.queue[i].kind = "reaction", GoesOn(heap.queue[i].r, K, p) PROVE Owned(heap, p)
    <3>1. ReactionOK(heap, heap.queue[i].p, heap.queue[i].r) BY <1>1, <2>3, Zenon DEF JobsOK, JobOK
    <3> QED BY <2>1, <2>3, <3>1
  <2>4. ASSUME NEW q \in Promise(heap), NEW i \in DOMAIN heap.prom[q].cbs, GoesOn(heap.prom[q].cbs[i], K, p) PROVE Owned(heap, p)
    <3>1. ReactionOK(heap, q, heap.prom[q].cbs[i]) BY <1>1 DEF WaitOK
    <3> QED BY <2>1, <2>4, <3>1
  <2> QED BY <2>2, <2>3, <2>4, APlace
<1>3. ASSUME NEW a \in Places(K, p) PROVE AtMostOne(Places(K, p)) /\ Pending(p) /\ heap.prom[p].fate = Undef
  <2>1. Owned(heap, p) BY <1>2
  <2>2. OnePlace(heap, stack, OfPromise, p) BY <1>1, <2>1 DEF PromisesOK, PromOK, Owned
  <2>3. K \subseteq OfPromise BY DEF OfPromise
  <2> QED BY <2>1, <2>2, <2>3, OneAtATime DEF Owned, Pending
<1> QED BY <1>3 DEF AtMostOne

LEMMA GeneratorsInOrder == PInv => AsyncGeneratorsServeInOrder
<1> SUFFICES ASSUME PInv PROVE AsyncGeneratorsServeInOrder OBVIOUS
<1>1. /\ All(heap, stack, {}, {}, {}) /\ Core(heap, stack) /\ heap \in Heap /\ GensOK(heap, stack) /\ RequestsOK(heap, stack)
      /\ Served(heap, stack, {}) /\ Answers(heap, {})
  BY PInvParts DEF All, Core
<1>2. ASSUME NEW k \in DOMAIN heap.ags, NEW a, a = heap.ags[k], ~a.lost, NEW K, K = {"agen", "agclose", "agawait", "agyield"}
      PROVE  /\ AtMostOne(Places(K, k))
             /\ (Places(K, k) # {}) = a.run
             /\ a.q # <<>> => a.run
             /\ a.reqs = [i \in DOMAIN a.said |-> a.said[i].p] \o [i \in DOMAIN a.q |-> a.q[i].p]
             /\ \A i \in DOMAIN a.said : ~Pending(a.said[i].p) /\ (a.said[i].how = "fail") = (heap.prom[a.said[i].p].state = "rejected")
             /\ \A i \in DOMAIN a.q : Pending(a.q[i].p)
             /\ \A i, j \in DOMAIN a.said : i < j /\ a.said[i].how # "yield" => a.said[j].how # "yield" /\ a.done
  <2>1. GenOK(heap, stack, k) BY <1>1 DEF GensOK
  <2>2. K = OfGen BY <1>2 DEF OfGen
  <2>3. AtMostOne(Places(K, k))
    <3>1. OnePlace(heap, stack, K, k) /\ K \subseteq K BY <2>1, <2>2, Zenon DEF GenOK
    <3> QED BY <3>1, OneAtATime
  <2>4. Places(K, k) # {} <=> a.run
    <3>1. ASSUME a.run PROVE Places(K, k) # {}
      <4>1. ~NoPlace(heap, stack, OfGen, k) BY <1>1, <1>2, <3>1 DEF Served
      <4>2. \A i \in DOMAIN heap.queue : JobGoes(heap.queue[i], OfGen, k) =>
              heap.queue[i].kind = "reaction" /\ GoesOn(heap.queue[i].r, OfGen, k)
        BY DEF JobGoes, OfGen
      <4>3. \/ \E i \in DOMAIN stack : FrameGoes(stack[i], K, k)
            \/ \E i \in DOMAIN heap.queue : heap.queue[i].kind = "reaction" /\ GoesOn(heap.queue[i].r, K, k)
            \/ \E q \in Promise(heap) : \E i \in DOMAIN heap.prom[q].cbs : GoesOn(heap.prom[q].cbs[i], K, k)
        BY <2>2, <4>1, <4>2 DEF NoPlace, NoneRuns, NoneQueued, NoneWaits, Promise
      <4> QED BY <4>3, AllPlaces
    <3>2. ASSUME NEW c \in Places(K, k) PROVE a.run
      <4>1. \/ \E i \in DOMAIN stack : FrameGoes(stack[i], OfGen, k)
            \/ \E i \in DOMAIN heap.queue : heap.queue[i].kind = "reaction" /\ GoesOn(heap.queue[i].r, OfGen, k)
            \/ \E q \in Promise(heap) : \E i \in DOMAIN heap.prom[q].cbs : GoesOn(heap.prom[q].cbs[i], OfGen, k)
        BY <2>2, APlace
      <4>2. ~NoPlace(heap, stack, OfGen, k) BY <4>1 DEF NoPlace, NoneRuns, NoneQueued, NoneWaits, JobGoes, Promise
      <4>3. Serving(heap, k) BY <1>1, <4>2, NotServing
      <4> QED BY <1>2, <4>3 DEF Serving
    <3> QED BY <3>1, <3>2
  <2>5. a \in AsyncGenRec BY <1>1, <1>2, Parts
  <2>6. a.run \in BOOLEAN BY <2>5, GenParts
  <2>7. (Places(K, k) # {}) = a.run BY <2>4, <2>6
  <2>8. a.q # <<>> => a.run BY <1>1, <1>2 DEF Served
  <2>9. a.reqs = [i \in DOMAIN a.said |-> a.said[i].p] \o [i \in DOMAIN a.q |-> a.q[i].p] BY <1>2, <2>1, Zenon DEF GenOK
  <2>10. ASSUME NEW i \in DOMAIN a.said
         PROVE  ~Pending(a.said[i].p) /\ (a.said[i].how = "fail") = (heap.prom[a.said[i].p].state = "rejected")
    <3>1. heap.prom[a.said[i].p].state = (IF a.said[i].how = "fail" THEN "rejected" ELSE "fulfilled")
      BY <1>1, <1>2 DEF Answers
    <3> QED BY <3>1 DEF Pending
  <2>11. \A i \in DOMAIN a.q : Pending(a.q[i].p) BY <1>1, <1>2, Zenon DEF RequestsOK, Owned, Pending
  <2>12. \A i, j \in DOMAIN a.said : i < j /\ a.said[i].how # "yield" => a.said[j].how # "yield" /\ a.done
    BY <1>2, <2>1, Zenon DEF GenOK
  <2> QED BY <2>3, <2>7, <2>8, <2>9, <2>10, <2>11, <2>12
<1> QED BY <1>2, Zenon DEF AsyncGeneratorsServeInOrder

\* Every variable keeps its type, every reaction of a promise runs once and in
\* the order of registration, no job overtakes one of an earlier tick, and a
\* promise that adopts another settles with it exactly when it should
\* (promThen, promSettle, promResolve, enqueue, drainMicrotasks).
THEOREM JobsInPlace == Spec => []JobsAreInTheirPlace
BY Invariance, InPlace, PTL

\* No await resumes an async function twice, and an async generator serves its
\* requests one at a time and in the order they were made (asyncStep, agPump,
\* agStep, agComplete, agFail).
THEOREM BodiesResumedOnce == Spec => []AsyncBodiesAreResumedOnce
<1>1. PInv => AsyncBodiesAreResumedOnce BY FunctionsOnce, GeneratorsInOrder DEF AsyncBodiesAreResumedOnce
<1> QED BY <1>1, Invariance, PTL
=============================================================================
