--------------------------------- MODULE Walk --------------------------------
(***************************************************************************)
(* The compiler's walk over the graph that a parse has made, and the tag   *)
(* scripts it runs (abnf/compiler.go; compilerscript.go and frozen.go:     *)
(* HandleTagCode, RunTagCode; commonscript.go: Run).                       *)
(*                                                                         *)
(* A script is any sequence of accesses to `up', of push() and pop(), and  *)
(* of nested c.compile() calls; what it computes, the global stack and its *)
(* own variables are not here, and it leaves `ltr' alone.  A text is a     *)
(* sequence of characters; of the keys there is one of each kind.          *)
(***************************************************************************)
EXTENDS Naturals, SequencesExt, FiniteSets

CONSTANTS
  Parsed,      \* graphs that a script may get from c.parse() with another grammar
  Vals,        \* what scripts push and assign
  MaxOps       \* accesses and nested compiles in all scripts together

VARIABLES
  asg,         \* c.asg
  calls,       \* the calls of compile, compileRule and the scripts, the innermost last
  maps,        \* the upstream maps of the scripts that run, by nesting
  up,          \* curUp, and `up': which of them
  ret,         \* the map that a call has returned, or Pending
  seen,        \* ltr.in
  codeCache,   \* the compiled programs by UID
  localAsg,    \* c.localAsg
  ops

walkVars == <<asg, calls, maps, up, ret, seen, codeCache, localAsg, ops>>

TextKeys == {"in", "strs"}
ArrayKeys == {"stack", "arrs"}
UpKeys == TextKeys \cup ArrayKeys \cup {"other"}

Text(s) == [kind |-> "text", of |-> s]
Array(s) == [kind |-> "array", of |-> s]
Object(v) == [kind |-> "object", of |-> <<v>>]
Pending == [pending |-> TRUE]
Empty == [k \in {} |-> Text(<<>>)]
OnlyText(s) == [k \in {"in"} |-> Text(s)]
Put(m, k, v) == [j \in DOMAIN m \cup {k} |-> IF j = k THEN v ELSE m[j]]
Without(m, k) == [j \in DOMAIN m \ {k} |-> m[j]]

\* Mutant: the position that a tag has found in its map goes up with it.
WithPos(m) == m

\* What a tag hands up.
WithoutPos(m) == Without(m, "pos")

Top == calls[Len(calls)]

-----------------------------------------------------------------------------
(* The merge of the maps of siblings.                                      *)

\* appendUpValue
Elements(v) == IF v.kind = "array" THEN v.of ELSE <<v>>

\* Mutant: a sibling's value takes the place of those before it.
MergedLast(k, old, v) ==
  CASE k \in TextKeys -> Text(v.of)
    [] k \in ArrayKeys -> Array(Elements(v))
    [] OTHER -> Array(<<v>>)

\* A key's value from the siblings so far, old, and from the next one.
MergedValue(k, old, v) ==
  CASE k \in TextKeys -> Text(old \o v.of)
    [] k \in ArrayKeys -> Array(old \o Elements(v))
    [] OTHER -> Array(Append(old, v))

Merge(acc, m) ==
  [k \in DOMAIN acc \cup DOMAIN m |->
     IF k \notin DOMAIN m THEN acc[k] ELSE MergedValue(k, IF k \in DOMAIN acc THEN acc[k].of ELSE <<>>, m[k])]

Textless(m) == \E k \in DOMAIN m \cap TextKeys : m[k].kind # "text"

\* up.in and up.stack are always there.
Complete(acc) ==
  [k \in DOMAIN acc \cup {"in", "stack"} |->
     IF k \in DOMAIN acc THEN acc[k] ELSE IF k = "in" THEN Text(<<>>) ELSE Array(<<>>)]

-----------------------------------------------------------------------------
(* The calls.                                                              *)

Rules(list, slot) == [call |-> "rules", list |-> list, at |-> 1, slot |-> slot, acc |-> Empty]
TagCall(rule, slot) == [call |-> "tag", rule |-> rule, slot |-> slot]
Script(rule, code, prog, saved, level) ==
  [call |-> "script", rule |-> rule, code |-> code, prog |-> prog, saved |-> saved, level |-> level, waits |-> FALSE]

\* compile: a list that is empty returns at once.
CompileList(under, list, slot) ==
  IF list = <<>> THEN calls' = under /\ ret' = OnlyText(<<>>)
  ELSE calls' = Append(under, Rules(list, slot)) /\ ret' = Pending

StartScript == [op |-> "tag", text |-> <<>>, kids |-> <<>>, codes |-> <<"start">>, uid |-> 0]

\* The start script has the graph that the parser hands over.
Begins(graph) ==
  /\ asg = graph /\ localAsg = graph
  /\ calls = <<Script(StartScript, "start", "start", 0, 1)>>
  /\ maps = <<OnlyText(<<>>)>> /\ up = 1 /\ ret = Pending /\ seen = <<>> /\ codeCache = <<>> /\ ops = 0

InRules(op) == calls # <<>> /\ Top.call = "rules" /\ ret = Pending /\ Top.list[Top.at].op = op
ThisRule == Top.list[Top.at]

\* compileRule, a token: its text goes both ways.
WalkToken ==
  /\ InRules("token")
  /\ seen' = seen \o ThisRule.text /\ ret' = [in |-> Text(ThisRule.text), stack |-> Array(<<>>)]
  /\ UNCHANGED <<asg, calls, maps, up, codeCache, localAsg, ops>>

\* compileRule, a tag: first what is below it.
WalkTag ==
  /\ InRules("tag")
  /\ CompileList(Append(calls, TagCall(ThisRule, Top.slot)), ThisRule.kids, Top.slot)
  /\ UNCHANGED <<asg, maps, up, seen, codeCache, localAsg, ops>>

\* compileRule, anything else.
WalkOther ==
  /\ InRules("group") /\ CompileList(calls, ThisRule.kids, Top.slot)
  /\ UNCHANGED <<asg, maps, up, seen, codeCache, localAsg, ops>>

\* compile: the only rule's map is the list's, the maps of several are merged.
Collect ==
  /\ calls # <<>> /\ Top.call = "rules" /\ ret # Pending
  /\ UNCHANGED <<asg, maps, up, seen, codeCache, localAsg, ops>>
  /\ LET acc == Merge(Top.acc, ret)
     IN  \/ Len(Top.list) = 1 /\ calls' = Front(calls) /\ UNCHANGED ret
         \/ Len(Top.list) > 1 /\ Textless(ret) /\ calls' = <<>> /\ ret' = Pending
         \/ /\ Len(Top.list) > 1 /\ ~Textless(ret)
            /\ IF Top.at = Len(Top.list) THEN calls' = Front(calls) /\ ret' = Complete(acc)
               ELSE calls' = [calls EXCEPT ![Len(calls)].at = @ + 1, ![Len(calls)].acc = acc] /\ ret' = Pending

\* Run: a cached program counts if it was made of the same source.
Cached(uid, code) == uid \in DOMAIN codeCache /\ codeCache[uid] = code

\* RunTagCode: the children's map becomes `up', with the position in it.
RunTagCode ==
  /\ calls # <<>> /\ Top.call = "tag" /\ ret # Pending
  /\ UNCHANGED <<asg, seen, ops>>
  /\ IF Top.slot >= Len(Top.rule.codes)
     THEN calls' = Front(calls) /\ ret' = WithoutPos(ret) /\ UNCHANGED <<maps, up, codeCache, localAsg>>
     ELSE LET code == Top.rule.codes[Top.slot + 1]
              uid == Top.rule.uid
              level == 1 + Cardinality({c \in DOMAIN calls : calls[c].call = "script"})
              prog == IF Cached(uid, code) THEN codeCache[uid] ELSE code
          IN  /\ calls' = Append(Front(calls), Script(Top.rule, code, prog, up, level))
              /\ maps' = Append(SubSeq(maps, 1, level - 1), Put(ret, "pos", Object("pos"))) /\ up' = level
              /\ ret' = Pending /\ localAsg' = <<Top.rule>>
              /\ codeCache' = Put(codeCache, uid, code)

-----------------------------------------------------------------------------
(* What scripts do.                                                        *)

Runs == calls # <<>> /\ Top.call = "script" /\ ~Top.waits
Does ==
  /\ Runs /\ ops < MaxOps /\ ops' = ops + 1
  /\ UNCHANGED <<asg, calls, up, ret, seen, codeCache, localAsg>>
Stack == IF "stack" \in DOMAIN maps[up] /\ maps[up]["stack"].kind = "array" THEN maps[up]["stack"].of ELSE <<>>
\* Mutant: every script writes to the first one's map.
SetFirst(k, v) == maps' = [maps EXCEPT ![1] = Put(@, k, v)]

SetUp(k, v) == maps' = [maps EXCEPT ![up] = Put(@, k, v)]

Push(v) == Does /\ SetUp("stack", Array(Append(Stack, Object(v))))

Pop == Does /\ Stack # <<>> /\ SetUp("stack", Array(Front(Stack)))

Assign(k, v) == Does /\ SetUp(k, v)

Delete(k) == Does /\ k \in DOMAIN maps[up] /\ maps' = [maps EXCEPT ![up] = Without(@, k)]

\* c.compile()
Nested(list, slot) ==
  /\ Runs /\ ops < MaxOps /\ ops' = ops + 1
  /\ CompileList([calls EXCEPT ![Len(calls)].waits = TRUE], list, slot)
  /\ UNCHANGED <<asg, maps, up, seen, codeCache, localAsg>>

GetsResult ==
  /\ calls # <<>> /\ Top.call = "script" /\ Top.waits /\ ret # Pending
  /\ calls' = [calls EXCEPT ![Len(calls)].waits = FALSE] /\ ret' = Pending
  /\ UNCHANGED <<asg, maps, up, seen, codeCache, localAsg, ops>>

\* Mutant: the outer script's `up' is not put back.
KeepUp == UNCHANGED up

RestoreUp == up' = Top.saved

\* The script ends: what is in its map goes up, the position excepted.
End ==
  /\ Runs /\ RestoreUp
  /\ calls' = Front(calls) /\ ret' = IF Len(calls) = 1 THEN Pending ELSE WithoutPos(maps[Top.level])
  /\ UNCHANGED <<asg, maps, seen, codeCache, localAsg, ops>>

\* A panic cannot be caught by a script.
Throw ==
  /\ Runs /\ ops < MaxOps /\ ops' = ops + 1
  /\ calls' = <<>> /\ ret' = Pending
  /\ UNCHANGED <<asg, maps, up, seen, codeCache, localAsg>>

Values(k) == UNION {{Object(v), IF k \in TextKeys THEN Text(<<v>>) ELSE Array(<<Object(v)>>)} : v \in Vals}

WalkNext ==
  \/ WalkToken \/ WalkTag \/ WalkOther \/ Collect \/ RunTagCode
  \/ Pop \/ GetsResult \/ End \/ Throw
  \/ \E v \in Vals : Push(v)
  \/ \E k \in UpKeys \ {"stack"} : Delete(k) \/ \E v \in Values(k) : Assign(k, v)
  \/ \E slot \in 0 .. 1 : Nested(localAsg, slot) \/ (\E list \in Parsed \cup {asg} : Nested(list, slot))
       \/ (localAsg # <<>> /\ Nested(localAsg[1].kids, slot))

WalkFrom(graph) == Begins(graph) /\ [][WalkNext]_walkVars

-----------------------------------------------------------------------------
(* What a script relies on.                                                *)

WalkTypeOK ==
  /\ up \in 0 .. Len(maps) /\ ops \in Nat
  /\ ret = Pending \/ DOMAIN ret \subseteq UpKeys
  /\ \A c \in DOMAIN maps : DOMAIN maps[c] \subseteq UpKeys \cup {"pos"}
  /\ \A c \in DOMAIN calls : calls[c].call \in {"rules", "tag", "script"}

\* What is handed about is of its type.  A script runs the code of its slot.  `up', push() and
\* pop() are its own again when a nested compile has run other scripts, and what it has in `up'
\* stays while it waits for them, whatever they do with theirs and how deep they nest.
OwnCodeAndUp ==
  /\ WalkTypeOK
  /\ \A c \in DOMAIN calls :
       calls[c].call = "script" =>
         /\ calls[c].prog = calls[c].code
         /\ c = Len(calls) => up = calls[c].level
WaitingKeepTheirs ==
  \A c \in DOMAIN calls :
    calls[c].call = "script" /\ c < Len(calls) => maps'[calls[c].level] = maps[calls[c].level]
ScriptsRunAsWritten == []OwnCodeAndUp /\ [][WaitingKeepTheirs]_walkVars
=============================================================================
