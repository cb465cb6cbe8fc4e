----------------------------- MODULE ManagedHeap -----------------------------
(***************************************************************************)
(* What the collector of the C floor promises the program: a block it can  *)
(* still get at, from its stack and from block to block, stays as it is;   *)
(* what is reclaimed is out of the program's reach, whenever that happens. *)
(***************************************************************************)
CONSTANTS Block,  \* the blocks of the heap
          Stack   \* the place of the words the program works with

VARIABLES objs,   \* the blocks in use
          refs    \* place -> the handles the program keeps there

vars == <<objs, refs>>

\* The blocks that the program can get at: the least set with the roots that is
\* closed under following handles.
Reach ==
  {b \in Block : \A S \in SUBSET Block :
     refs[Stack] \subseteq S /\ (\A x \in S : refs[x] \subseteq S) => b \in S}

Init == objs = {} /\ refs = [p \in Block \cup {Stack} |-> {}]

\* A new block is nobody's: nothing the program can get at is lost for it.
New(b) ==
  /\ b \notin objs
  /\ objs' = objs \cup {b}
  /\ refs' = [refs EXCEPT ![b] = {}, ![Stack] = @ \cup {b}]

Load(x, y) ==
  /\ x \in refs[Stack] /\ y \in refs[x]
  /\ refs' = [refs EXCEPT ![Stack] = @ \cup {y}]
  /\ UNCHANGED objs

Write(x, ys) ==
  /\ x \in refs[Stack] /\ ys \subseteq refs[Stack] \cup refs[x]
  /\ refs' = [refs EXCEPT ![x] = ys]
  /\ UNCHANGED objs

Drop(y) ==
  /\ refs' = [refs EXCEPT ![Stack] = @ \ {y}]
  /\ UNCHANGED objs

Reclaim(b) ==
  /\ b \in objs \ Reach
  /\ objs' = objs \ {b}
  /\ refs' = [refs EXCEPT ![b] = {}]

Next ==
  \/ \E b \in Block : New(b) \/ Drop(b) \/ Reclaim(b)
  \/ \E x, y \in Block : Load(x, y)
  \/ \E x \in Block, ys \in SUBSET Block : Write(x, ys)

Spec == Init /\ [][Next]_vars
=============================================================================
