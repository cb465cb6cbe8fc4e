----------------------------- MODULE ParserProps -----------------------------
(***************************************************************************)
(* What must hold of the parser's stack, position and lists, whatever the  *)
(* grammar means.                                                          *)
(***************************************************************************)
EXTENDS Parser

Phase == {"enter", "spaces", "skipping", "params", "count", "body", "kid"}
\* The phases of an application that waits for one it has called.
Calling == {"skipping", "count", "kid"}

TypeOK ==
  /\ \E c \in Cases : gram = c.grammar /\ given \in c.inputs /\ opts \in c.options
  /\ pureCache \subseteq DOMAIN gram.prods
  /\ Src \in {given, gram.other} /\ Sdx \in 0 .. Len(Src)
  /\ \A k \in DOMAIN stack :
       /\ stack[k].skip \in BOOLEAN /\ stack[k].phase \in Phase /\ stack[k].i \in Nat
       /\ stack[k].was \in Int /\ stack[k].at \in Int
  /\ answer \in {"none", "match", "fail"}
  /\ stat \in {"parsing", "trailing", "accepted", "rejected", "error", "overflow"}

\* Only the innermost application is not waiting for another one, and a
\* caller is where its callee began.
Chained ==
  \A k \in 1 .. Len(stack) - 1 :
    stack[k].phase \in Calling /\ stack[k].at = stack[k + 1].was

\* A rule that fails gives the position back: the callers rely on it (the
\* alternatives of an Or, and an Optional, do not restore it themselves).
FailureGivesBack == answer = "fail" /\ stack # <<>> => Sdx = Top.at

Entered(k) == Listed(stack[k]) /\ stack[k].phase # "enter"

\* The block list is exactly the applications that run: an early exit leaves
\* the entry of the application it was blocked by, and a regular one removes
\* its own (ruleEnter, ruleExit).
BlockListIsTheStack ==
  blockList = IF opts.lb THEN {Key(stack[k]) : k \in {j \in DOMAIN stack : Entered(j)}} ELSE {}

\* With -lb no production is applied below itself at one position.
NoRuleIsItsOwnParent ==
  opts.lb => \A k, l \in DOMAIN stack :
               k # l /\ Entered(k) /\ Entered(l) => Key(stack[k]) # Key(stack[l])

\* Both: an entry of the list is one application that runs.
BlockListIsExact == BlockListIsTheStack /\ NoRuleIsItsOwnParent

\* Go's stack only overflows on a production that is applied below itself in
\* the same place, and with -lb not even then: neither a whitespace rule nor a
\* :script() leads to a descent without end.
OwnAncestor(k, l) ==
  k # l /\ stack[k].rule.op = "Identifier" /\ stack[l].rule.op = "Identifier"
  /\ Key(stack[k]) = Key(stack[l])
OverflowsOnlyOnLeftRecursion ==
  stat = "overflow" => ~opts.lb /\ \E k, l \in DOMAIN stack : OwnAncestor(k, l)

\* Every parse comes to a verdict: no repetition goes on without consuming, and
\* no descent is without end.
Terminates == <>(stat \notin {"parsing", "trailing"}) /\ []OverflowsOnlyOnLeftRecursion
=============================================================================
