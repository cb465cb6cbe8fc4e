------------------------------- MODULE Regex -------------------------------
(***************************************************************************)
(* The shared regular-expression engine of abnf/jsrtregex.go: the emitter, *)
(* the backtracking machine, and Ruby's scans, replacements and splits,    *)
(* which other languages share in part (RegexMethods has the rest).        *)
(*                                                                         *)
(* Each call runs one pattern on one text.  Text positions   *)
(* count from 0 as in the code, instructions from 1.  `frames' is the Go   *)
(* stack of run: an entry is the caller that waits at a SPLIT or a LOOK,   *)
(* or one that has written captures or marks and undoes that on a failure. *)
(***************************************************************************)
EXTENDS RegexSyntax

CONSTANTS
  Calls,      \* the calls to look at: RegexMethods
  StepLimit   \* rxSteps

VARIABLES
  call,       \* the call: its text in character codes, its `use' of the engine, its template
  re,         \* the compiled pattern: ok, prog, ngroups, nmarks, names, flags
  phase,      \* "ready", "run", "return" (from run), "found", "failed", "exhausted", "done", "error"
  pc, sp, caps, marks, ret, frames,
  steps, over,
  at,         \* where the attempt began
  last,       \* how far a replacement or split has copied the text
  out         \* its result so far

engineVars == <<call, re, phase, pc, sp, caps, marks, ret, frames, steps, over, at, last, out>>
machine == <<pc, sp, caps, marks, ret, frames, steps, over>>
drive == <<call, re, at, last, out>>

-----------------------------------------------------------------------------
(* The emitter.                                                            *)

Ins(op, a, b) == [op |-> op, a |-> a, b |-> b, set |-> {}, neg |-> FALSE, holds |-> ""]
Add(pg, ins) == [pg EXCEPT !.ops = Append(@, ins)]
Here(pg) == Len(pg.ops) + 1
\* The split at n prefers what follows it, if greedy.
Aim(pg, n, greedy, exit) ==
  [pg EXCEPT !.ops[n].a = IF greedy THEN n + 1 ELSE exit, !.ops[n].b = IF greedy THEN exit ELSE n + 1]

\* loG and hiG: the numbers of the groups of a tree.
RECURSIVE GroupsOf(_)
GroupsOf(node) ==
  (IF node.t = "group" /\ node.gidx >= 0 THEN {node.gidx} ELSE {})
  \cup UNION {GroupsOf(node.items[k]) : k \in DOMAIN node.items}

\* Mutant: an iteration keeps what the last one captured.
EmitNoClear(pg, body) == pg

EmitClear(pg, body) ==
  LET gs == GroupsOf(body)
  IN  IF pg.jsrep /\ gs # {} THEN Add(pg, Ins("clear", Min(gs), Max(gs))) ELSE pg

RECURSIVE Emit(_, _), EmitAll(_, _), EmitAlt(_, _), Copies(_, _, _), Options(_, _, _)
EmitAll(pg, items) == IF items = <<>> THEN pg ELSE EmitAll(Emit(pg, Head(items)), Tail(items))
Copies(pg, body, n) == IF n = 0 THEN pg ELSE Copies(Emit(EmitClear(pg, body), body), body, n - 1)

\* The jumps out of the branches all lead to the end.
EmitAlt(pg, items) ==
  IF Len(items) = 1 THEN Emit(pg, items[1])
  ELSE LET s == Here(pg)
           branch == Emit(Add(pg, Ins("split", 0, 0)), Head(items))
           j == Here(branch)
           all == EmitAlt(Aim(Add(branch, Ins("jmp", 0, 0)), s, TRUE, j + 1), Tail(items))
       IN  [all EXCEPT !.ops[j].a = Here(all)]

\* The optional iterations of a bounded repetition: each may leave for its end.
Options(pg, node, n) ==
  IF n = 0 THEN pg
  ELSE LET s == Here(pg)
           one == Emit(EmitClear(Add(pg, Ins("split", 0, 0)), node.items[1]), node.items[1])
           all == Options(one, node, n - 1)
       IN  Aim(all, s, node.greedy, Here(all))

EmitLoop(pg, node) ==
  LET s == Here(pg)
      mark == pg.nmarks + 1
      entered == Add(Add([pg EXCEPT !.nmarks = mark], Ins("split", 0, 0)), Ins("mark", mark, 0))
      body == Emit(EmitClear(entered, node.items[1]), node.items[1])
      exit == Here(body) + 2
  IN  Aim(Add(Add(body, Ins("prog", mark, exit)), Ins("jmp", s, 0)), s, node.greedy, exit)

Emit(pg, node) ==
  CASE node.t = "cls" -> Add(pg, [Ins("class", 0, 0) EXCEPT !.set = node.set, !.neg = node.neg])
    [] node.t = "assert" -> Add(pg, [Ins("assert", 0, 0) EXCEPT !.holds = node.holds])
    [] node.t = "bref" -> Add(pg, Ins("bref", node.gidx, 0))
    [] node.t = "cat" -> EmitAll(pg, node.items)
    [] node.t = "alt" -> EmitAlt(pg, node.items)
    [] node.t = "group" ->
         IF node.gidx < 0 THEN EmitAll(pg, node.items)
         ELSE Add(EmitAll(Add(pg, Ins("save", 2 * node.gidx, 0)), node.items), Ins("save", 2 * node.gidx + 1, 0))
    [] node.t = "look" ->
         LET l == Here(pg)
             body == Add(EmitAll(Add(pg, [Ins("look", 0, 0) EXCEPT !.neg = node.neg]), node.items), Ins("lookend", 0, 0))
         IN  [body EXCEPT !.ops[l].a = Here(body)]
    [] node.t = "rep" ->
         LET least == Copies(pg, node.items[1], node.min)
         IN  IF node.max < 0 THEN EmitLoop(least, node) ELSE Options(least, node, node.max - node.min)
    [] OTHER -> pg

\* rxCompile.
Program(r, fl) ==
  LET start == [ops |-> <<Ins("save", 0, 0)>>, nmarks |-> 0, jsrep |-> {"j", "e"} \cap fl # {}]
      pg == Add(Add(Emit(start, r.node), Ins("save", 1, 0)), Ins("match", 0, 0))
  IN  IF ~r.ok THEN [ok |-> FALSE]
      ELSE [ok |-> TRUE, prog |-> pg.ops, ngroups |-> r.ngroups, nmarks |-> pg.nmarks, names |-> r.names,
            icase |-> "i" \in fl, multi |-> "m" \in fl, jsrep |-> pg.jsrep]
Compile(pattern, fl) == Program(Parse(pattern, fl), fl)

-----------------------------------------------------------------------------
(* What is looked up in the text.                                          *)

Fold(c) == IF c \in Upper THEN c + 32 ELSE IF c \in Lower THEN c - 32 ELSE -1

\* rxCls.match: the case is folded first, the negation comes last.
ClassHits(ins, c, icase) == (c \in ins.set \/ (icase /\ Fold(c) \in ins.set)) # ins.neg

\* assertOK.
AssertOK(kind, text, p, multi) ==
  LET n == Len(text)
      wordAt(i) == i \in 1 .. n /\ text[i] \in Word
  IN  CASE kind = "BOS" -> p = 0
        [] kind = "EOS" -> p = n
        [] kind = "EOSNL" -> p = n \/ (p = n - 1 /\ text[n] = 10)
        [] kind = "BOL" -> p = 0 \/ (multi /\ text[p] = 10)
        [] kind = "EOL" -> p = n \/ (multi /\ text[p + 1] = 10)
        [] kind = "WordB" -> wordAt(p) # wordAt(p + 1)
        [] kind = "NWordB" -> wordAt(p) = wordAt(p + 1)

\* Whether what stands between from and to stands at p again.
Repeats(text, from, to, p, icase) ==
  /\ p + to - from <= Len(text)
  /\ \A i \in 1 .. to - from :
       LET l == text[from + i]
           r == text[p + i]
       IN  l = r \/ (icase /\ Fold(r) = l)

-----------------------------------------------------------------------------
(* The machine.                                                            *)

Unset(n) == [i \in 0 .. n |-> -1]

\* An attempt: fresh registers and a fresh count of steps.
Attempts(p) ==
  /\ phase' = "run" /\ at' = p /\ pc' = 1 /\ sp' = p
  /\ caps' = Unset(2 * re.ngroups + 1) /\ marks' = Unset(re.nmarks)
  /\ ret' = -1 /\ frames' = <<>> /\ steps' = 0 /\ over' = FALSE

EngineInit ==
  /\ call \in Calls /\ re = call.re
  /\ phase = "ready" /\ pc = 1 /\ sp = 0 /\ at = 0 /\ ret = -1 /\ frames = <<>>
  /\ caps = Unset(1) /\ marks = Unset(0) /\ steps = 0 /\ over = FALSE
  /\ last = 0 /\ out = <<>>

Text == call.text
Instr == re.prog[pc]
Runs(op) ==
  /\ phase = "run" /\ steps < StepLimit /\ Instr.op = op
  /\ steps' = steps + 1 /\ UNCHANGED <<drive, over>>
Return(r) == phase' = "return" /\ ret' = r
GoOn(p, s) == pc' = p /\ sp' = s
Go(p, s) == GoOn(p, s) /\ UNCHANGED <<phase, ret>>
Push(f) == frames' = Append(frames, f)
Waits(p) == [k |-> "split", pc |-> p, sp |-> sp]
Undo(oldCaps, oldMarks) == [k |-> "undo", caps |-> oldCaps, marks |-> oldMarks]
Keeps == UNCHANGED <<caps, marks, frames>>
Stays == UNCHANGED <<pc, sp>>

OverLimit ==
  /\ phase = "run" /\ steps = StepLimit
  /\ over' = TRUE /\ Return(-1)
  /\ UNCHANGED <<drive, pc, sp, caps, marks, frames, steps>>

ClassStep ==
  /\ Runs("class") /\ Keeps
  /\ IF sp < Len(Text) /\ ClassHits(Instr, Text[sp + 1], re.icase) THEN Go(pc + 1, sp + 1)
     ELSE Return(-1) /\ Stays

Jmp == Runs("jmp") /\ Keeps /\ Go(Instr.a, sp)

Split ==
  /\ Runs("split") /\ Push(Waits(Instr.b)) /\ Go(Instr.a, sp)
  /\ UNCHANGED <<caps, marks>>

Save ==
  /\ Runs("save") /\ Push(Undo(Instr.a :> caps[Instr.a], <<>>)) /\ Go(pc + 1, sp)
  /\ caps' = [caps EXCEPT ![Instr.a] = sp] /\ UNCHANGED marks

Clear ==
  LET slots == 2 * Instr.a .. 2 * Instr.b + 1 IN
  /\ Runs("clear") /\ Push(Undo([i \in slots |-> caps[i]], <<>>)) /\ Go(pc + 1, sp)
  /\ caps' = [i \in DOMAIN caps |-> IF i \in slots THEN -1 ELSE caps[i]] /\ UNCHANGED marks

Mark ==
  /\ Runs("mark") /\ Push(Undo(<<>>, Instr.a :> marks[Instr.a])) /\ Go(pc + 1, sp)
  /\ marks' = [marks EXCEPT ![Instr.a] = sp] /\ UNCHANGED caps

\* Mutant: only the first iteration may be empty.
EmptyAtFirst == marks[Instr.a] = sp /\ sp = at

\* A loop is left after an empty iteration, or (j) that iteration fails.
Empty == marks[Instr.a] = sp

Prog ==
  /\ Runs("prog") /\ Keeps
  /\ IF ~Empty THEN Go(pc + 1, sp)
     ELSE IF re.jsrep THEN Return(-1) /\ Stays ELSE Go(Instr.b, sp)

AssertStep ==
  /\ Runs("assert") /\ Keeps
  /\ IF AssertOK(Instr.holds, Text, sp, re.multi) THEN Go(pc + 1, sp) ELSE Return(-1) /\ Stays

LookStep ==
  /\ Runs("look") /\ Push([k |-> "look", pc |-> Instr.a, sp |-> sp, neg |-> Instr.neg]) /\ Go(pc + 1, sp)
  /\ UNCHANGED <<caps, marks>>

LookEnd == Runs("lookend") /\ Keeps /\ Return(sp) /\ Stays

\* A group that has not taken part, or that there is none of, is empty.
Group2(g) == IF 2 * g + 1 \in DOMAIN caps THEN <<caps[2 * g], caps[2 * g + 1]>> ELSE <<-1, -1>>
BrefStep ==
  LET from == Group2(Instr.a)[1]
      to == Group2(Instr.a)[2]
  IN  /\ Runs("bref") /\ Keeps
      /\ IF from < 0 \/ to < 0 THEN Go(pc + 1, sp)
         ELSE IF Repeats(Text, from, to, sp, re.icase) THEN Go(pc + 1, sp + to - from)
         ELSE Return(-1) /\ Stays

\* matchWhole: a match that ends earlier is none.
MatchStep ==
  /\ Runs("match") /\ Keeps /\ Stays
  /\ Return(IF call.use = "whole" /\ sp # Len(Text) THEN -1 ELSE sp)

-----------------------------------------------------------------------------
(* The returns of run.                                                     *)

Top == frames[Len(frames)]
Returns(k) ==
  /\ phase = "return" /\ frames # <<>> /\ Top.k = k
  /\ frames' = SubSeq(frames, 1, Len(frames) - 1)
  /\ UNCHANGED <<drive, steps, over>>
ReturnsOn == UNCHANGED <<phase, ret, pc, sp>>
Resumes == phase' = "run" /\ GoOn(Top.pc, Top.sp) /\ UNCHANGED ret

BackAtSplit ==
  /\ Returns("split") /\ UNCHANGED <<caps, marks>>
  /\ IF ret >= 0 \/ over THEN ReturnsOn ELSE Resumes

\* Mutant: the registers keep what was written last.
NotUndone(old, now) == now

\* What was written is undone when nothing came of it.
Undone(old, now) == [i \in DOMAIN now |-> IF i \in DOMAIN old /\ ret < 0 THEN old[i] ELSE now[i]]

BackAtWrite ==
  /\ Returns("undo") /\ ReturnsOn
  /\ caps' = Undone(Top.caps, caps) /\ marks' = Undone(Top.marks, marks)

BackAtLook ==
  /\ Returns("look") /\ UNCHANGED <<caps, marks>>
  /\ IF ~over /\ (ret >= 0) # Top.neg THEN Resumes
     ELSE phase' = phase /\ ret' = -1 /\ Stays

AttemptEnds ==
  /\ phase = "return" /\ frames = <<>>
  /\ phase' = IF ret >= 0 THEN "found" ELSE IF over THEN "error" ELSE "failed"
  /\ UNCHANGED <<drive, machine>>

-----------------------------------------------------------------------------
(* The callers.                                                            *)

Piece(from, to) == SubSeq(Text, from + 1, to)
Spans == [i \in 0 .. re.ngroups |-> <<caps[2 * i], caps[2 * i + 1]>>]
Begin == caps[0]
End == caps[1]
TextOf(g) == IF g \in 0 .. re.ngroups /\ caps[2 * g] >= 0 /\ caps[2 * g + 1] >= 0
               THEN Piece(caps[2 * g], caps[2 * g + 1]) ELSE <<>>

\* expand: \0 to \9 and \k<name> in a replacement.
RECURSIVE Expand(_, _)
Expand(r, i) ==
  LET d == At(r, i + 1)
      close == SelectInSeq(SubSeq(r, i + 3, Len(r)), LAMBDA c : c = ">")
      end == IF close = 0 THEN Len(r) + 1 ELSE i + 2 + close
      named == GroupNamed(re.names, SubSeq(r, i + 3, end - 1))
  IN  IF i > Len(r) THEN <<>>
      ELSE IF r[i] # "\\" \/ d = None THEN <<Code(r[i])>> \o Expand(r, i + 1)
      ELSE IF IsDigit(d) THEN TextOf(HexVal(d)) \o Expand(r, i + 2)
      ELSE IF d = "k" /\ At(r, i + 2) = "<"
           THEN (IF named = 0 THEN <<>> ELSE TextOf(re.names[named][2])) \o Expand(r, end + 1)
      ELSE <<Code(d)>> \o Expand(r, i + 2)

Done(result) == phase' = "done" /\ out' = result /\ UNCHANGED <<call, re, at, last, machine>>

\* The search for the next match goes on at p, if the text does.
Continues(p, copied, result) ==
  /\ last' = copied /\ out' = result /\ UNCHANGED <<call, re>>
  /\ IF p <= Len(Text) THEN Attempts(p)
     ELSE phase' = "exhausted" /\ UNCHANGED <<machine, at>>

\* matchAt and matchWhole try one position.
Anchored == call.use \in {"at", "whole"}

\* search: the next position.
TryNext ==
  /\ phase = "failed"
  /\ IF Anchored THEN Done(<<>>) ELSE Continues(at + 1, last, out)

FoundOne == phase = "found" /\ (Anchored \/ call.use = "search") /\ Done(<<Spans>>)

\* An empty match makes the next search begin one further.
After == IF End = Begin THEN End + 1 ELSE End

Collects == Continues(After, last, Append(out, Spans))
Scanned == phase = "found" /\ call.use = "scan" /\ Collects

\* The character behind an empty match is copied.
ReplacesBy(w, isLast) ==
  LET done == out \o Piece(last, Begin) \o w
      kept == IF End = Begin THEN Piece(End, Min({End + 1, Len(Text)})) ELSE <<>>
  IN  IF isLast THEN Done(done \o kept \o Piece(After, Len(Text)))
      ELSE Continues(After, After, done \o kept)
Replaced ==
  /\ phase = "found" /\ call.use \in {"gsub", "sub"}
  /\ ReplacesBy(Expand(call.template, 1), call.use = "sub")

SplitHere ==
  /\ phase = "found" /\ call.use = "split"
  /\ IF End > Begin THEN Continues(End, End, Append(out, Piece(last, Begin)))
     ELSE IF Begin >= Len(Text) THEN Done(Append(out, Piece(last, Len(Text))))
     ELSE Continues(Begin + 1, Begin + 1, Append(out, Piece(last, Begin + 1)))

EngineNext ==
  \/ OverLimit \/ ClassStep \/ Jmp \/ Split \/ Save \/ Clear \/ Mark \/ Prog \/ AssertStep
  \/ LookStep \/ LookEnd \/ BrefStep \/ MatchStep
  \/ BackAtSplit \/ BackAtWrite \/ BackAtLook \/ AttemptEnds
  \/ TryNext \/ FoundOne \/ Scanned \/ Replaced \/ SplitHere
=============================================================================
