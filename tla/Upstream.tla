----------------------------- MODULE Upstream -----------------------------
(***************************************************************************)
(* What the upstream variables promise to the scripts of a grammar: every  *)
(* key is one list, in the order of the text.  A script owns the end of    *)
(* the list that the rules below it have added; what it leaves there goes  *)
(* up.  A compile that a script starts works behind everything else, and   *)
(* its part is taken off when the script has it.                           *)
(***************************************************************************)
EXTENDS Naturals, Sequences

CONSTANTS Keys, Texts, Items

VARIABLES
  lists,     \* by key: what was added and not taken off
  marks,     \* where the parts begin, the innermost last: lengths by key
  seen       \* ltr.in: the text of every token so far

vars == <<lists, marks, seen>>

Lengths == [k \in Keys |-> Len(lists[k])]
Nothing == [k \in Keys |-> 0]
UpTo(m) == [k \in Keys |-> SubSeq(lists[k], 1, m[k])]
Innermost == marks[Len(marks)]
Outer == SubSeq(marks, 1, Len(marks) - 1)

Init == lists = [k \in Keys |-> <<>>] /\ marks = <<Nothing>> /\ seen = <<>>

Read(t) == lists' = [lists EXCEPT !["in"] = @ \o t] /\ seen' = seen \o t /\ UNCHANGED marks

Open == marks' = Append(marks, Lengths) /\ UNCHANGED <<lists, seen>>

Close == Len(marks) > 1 /\ marks' = Outer /\ UNCHANGED <<lists, seen>>

Take == marks # <<>> /\ marks' = Outer /\ lists' = UpTo(Innermost) /\ UNCHANGED seen

Push(v) == lists' = [lists EXCEPT !["stack"] = Append(@, v)] /\ UNCHANGED <<marks, seen>>

Pop ==
  /\ marks # <<>> /\ Len(lists["stack"]) > Innermost["stack"]
  /\ lists' = [lists EXCEPT !["stack"] = SubSeq(@, 1, Len(@) - 1)] /\ UNCHANGED <<marks, seen>>

\* An assignment to up.k, or its deletion.
Assign(k, w) ==
  /\ marks # <<>> /\ lists' = [lists EXCEPT ![k] = UpTo(Innermost)[k] \o w] /\ UNCHANGED <<marks, seen>>

\* A script throws, or leaves something that is no text where text belongs.
Abort == marks' = <<>> /\ lists' = [k \in Keys |-> <<>>] /\ UNCHANGED seen

Next ==
  \/ \E t \in Texts : Read(t)
  \/ Open \/ Close \/ Take \/ Pop \/ Abort
  \/ \E v \in Items : Push(v)
  \/ \E k \in Keys \ {"stack"} : Assign(k, <<>>) \/ \E v \in Items : Assign(k, <<v>>)

Spec == Init /\ [][Next]_vars
=============================================================================
