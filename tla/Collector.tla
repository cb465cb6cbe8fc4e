------------------------------ MODULE Collector ------------------------------
(***************************************************************************)
(* The mark/sweep collector of the C floor (languages/lib/runtime.c, "the  *)
(* collector"): ar_alloc_k and ar_block, gc_collect with gc_try, gc_mark,  *)
(* gc_trace, gc_drain and gc_sweep.                                        *)
(*                                                                         *)
(* A block is a slot of a partition (one size class and one kind, cells or *)
(* raw buffers); a chunk is a range of slots.  A word counts as what       *)
(* gc_try makes of it: the block it points into, or nothing.  refs are the *)
(* handles the program keeps in a place, junk the other words that are     *)
(* found there: dead ones on the C stack, old contents of a raw buffer.    *)
(* What is on the stacks that are scanned is module GenFloor's subject;    *)
(* here they are one place, CStack, together with the registers and the    *)
(* globals of gc_roots.                                                    *)
(***************************************************************************)
EXTENDS Integers, FiniteSets, Sequences, Functions

CONSTANTS Cells, Raws,   \* the slots of the two partitions
          CStack,        \* the roots
          Modes,         \* the values of MEC_GC to look at
          MinThresh,     \* the least threshold (1 MB)
          StackWords,    \* words of the stack: handles at hand, and dead ones
          BlockWords     \* words of a block that may hold handles

ASSUME SlotsAssumption ==
  /\ Cells \subseteq Nat /\ Raws \subseteq Nat /\ IsFiniteSet(Cells) /\ IsFiniteSet(Raws)
  /\ Cells \cap Raws = {} /\ CStack \notin Cells \cup Raws
ASSUME ThresholdAssumption == MinThresh \in Nat
ASSUME ModesAssumption == Modes \subseteq {"auto", "off", "stress", "poison"}

VARIABLES GC_MODE,
          bumped,      \* the slots the bump pointers have passed
          alloc, mark, \* the two bitmaps
          free,        \* the free list of a partition
          tag,         \* what the program made of a block
          refs, junk,  \* place -> the words in it
          phase,       \* "run", or where the allocation under way is
          want,        \* the tag asked of it ("text" when there is none)
          GC_MSTACK,   \* the blocks still to trace
          todo,        \* the slots still to sweep
          GC_ALLOCED, GC_THRESH, GC_LIVE   \* all three in blocks

memory == <<tag, refs, junk>>
bits == <<bumped, alloc, free>>
counts == <<GC_ALLOCED, GC_THRESH, GC_LIVE>>
marking == <<mark, GC_MSTACK, todo>>
collectorVars == <<GC_MODE, memory, bits, counts, marking, phase, want>>

Block == Cells \cup Raws
Place == Block \cup {CStack}
Partition(b) == IF b \in Cells THEN "cell" ELSE "raw"
Slots(k) == IF k = "cell" THEN Cells ELSE Raws
IsFirst(b, S) == b \in S /\ \A c \in S : b <= c

\* A string refers to its text, any other cell and a buffer of words to more.
CellTags == {"string", "object"}
RawTags == {"text", "words"}
Tags == CellTags \cup RawTags
KindOf(t) == IF t \in CellTags THEN "cell" ELSE "raw"
MayHold(t) ==
  CASE t = "string" -> {"text"}
    [] t = "object" -> {"object", "string", "words"}
    [] t = "words" -> CellTags
    [] t = "text" -> {}

CollectorInit ==
  /\ GC_MODE \in Modes
  /\ bumped = {} /\ alloc = {} /\ mark = {}
  /\ free = [k \in {"cell", "raw"} |-> <<>>]
  /\ tag = [b \in Block |-> "text"]
  /\ refs = [p \in Place |-> {}] /\ junk = [p \in Place |-> {}]
  /\ phase = "run" /\ want = "text"
  /\ GC_MSTACK = {} /\ todo = {}
  /\ GC_ALLOCED = 0 /\ GC_THRESH = MinThresh /\ GC_LIVE = 0

-----------------------------------------------------------------------------
(* The program.                                                            *)

Load(x, y) ==
  /\ phase = "run"
  /\ x \in refs[CStack] /\ y \in refs[x] \ refs[CStack]
  /\ Cardinality(refs[CStack] \cup junk[CStack]) < StackWords
  /\ refs' = [refs EXCEPT ![CStack] = @ \cup {y}]
  /\ UNCHANGED <<GC_MODE, tag, junk, bits, counts, marking, phase, want>>

\* The program overwrites what it keeps in a block.
Write(x, ys, old) ==
  /\ phase = "run"
  /\ x \in refs[CStack] /\ ys # refs[x] /\ ys \subseteq refs[CStack] \cup refs[x]
  /\ \A y \in ys : tag[y] \in MayHold(tag[x])
  /\ old \subseteq junk[x] /\ Cardinality(ys) + Cardinality(old) <= BlockWords
  /\ refs' = [refs EXCEPT ![x] = ys]
  /\ junk' = [junk EXCEPT ![x] = old]
  /\ UNCHANGED <<GC_MODE, tag, bits, counts, marking, phase, want>>

\* It is done with a handle: the word is overwritten, or stays where it was.
Drop(y, stays) ==
  /\ phase = "run" /\ y \in refs[CStack]
  /\ refs' = [refs EXCEPT ![CStack] = @ \ {y}]
  /\ junk' = [junk EXCEPT ![CStack] = IF stays THEN @ \cup {y} ELSE @]
  /\ UNCHANGED <<GC_MODE, tag, bits, counts, marking, phase, want>>

\* Dead words of the stack are overwritten.
Overwrite ==
  /\ phase = "run" /\ junk[CStack] # {}
  /\ junk' = [junk EXCEPT ![CStack] = {}]
  /\ UNCHANGED <<GC_MODE, tag, refs, bits, counts, marking, phase, want>>

-----------------------------------------------------------------------------
(* Allocation.                                                             *)

\* ar_alloc_k collects first, if it is time to.
Due ==
  \/ GC_MODE = "stress"
  \/ GC_MODE \in {"auto", "poison"} /\ GC_ALLOCED > GC_THRESH

Request(t) ==
  /\ phase = "run" /\ Cardinality(refs[CStack] \cup junk[CStack]) < StackWords
  /\ want' = t
  /\ phase' = IF Due THEN "roots" ELSE "carve"
  /\ UNCHANGED <<GC_MODE, memory, bits, counts, marking>>

\* The block belongs to the program now.  cell_new clears a cell; of a raw buffer
\* the text is not cleared, nor is the padding behind the handles (buf_new).
HandOut(b) ==
  /\ alloc' = alloc \cup {b}
  /\ tag' = [tag EXCEPT ![b] = want]
  /\ refs' = [refs EXCEPT ![CStack] = @ \cup {b}]
  /\ junk' = [junk EXCEPT ![b] = IF b \in Cells THEN {} ELSE @]
  /\ GC_ALLOCED' = GC_ALLOCED + 1
  /\ phase' = "run" /\ want' = "text"

\* ar_block: the free list of the partition first, then the bump pointer.
CarveFree ==
  LET k == KindOf(want) IN
  /\ phase = "carve" /\ free[k] # <<>>
  /\ HandOut(Head(free[k]))
  /\ free' = [free EXCEPT ![k] = Tail(@)]
  /\ UNCHANGED <<GC_MODE, bumped, GC_THRESH, GC_LIVE, marking>>

CarveFresh(b) ==
  LET k == KindOf(want) IN
  /\ phase = "carve" /\ free[k] = <<>> /\ IsFirst(b, Slots(k) \ bumped)
  /\ HandOut(b)
  /\ bumped' = bumped \cup {b}
  /\ UNCHANGED <<GC_MODE, free, GC_THRESH, GC_LIVE, marking>>

-----------------------------------------------------------------------------
(* A collection.  It runs inside of an allocation.                         *)

\* Mutants: a word may point to a block that is not allocated; what is marked
\* is looked at again.
AnyTarget(words) == words \ mark
MarkedAgain(words) == words \cap alloc

\* gc_try and gc_mark: the words that mark a block.
Unmarked(words) == (words \cap alloc) \ mark

\* Mutant: the marks of the last collection are still there.
KeepMarks == mark

\* gc_clear_marks.
ClearMarks == {}

\* gc_roots, the registers and the stack scan.
Roots ==
  LET found == (refs[CStack] \cup junk[CStack]) \cap alloc IN
  /\ phase = "roots"
  /\ mark' = ClearMarks \cup found
  /\ GC_MSTACK' = found \ ClearMarks
  /\ GC_LIVE' = Cardinality(mark')
  /\ phase' = "drain"
  /\ UNCHANGED <<GC_MODE, memory, bits, GC_ALLOCED, GC_THRESH, todo, want>>

\* Mutant: a raw buffer is a leaf wherever it is reached from.
FollowsCells(b) == IF tag[b] = "object" THEN refs[b] ELSE {}

\* gc_trace: the words of a block whose blocks are traced in turn, and those
\* that are only marked.
Follows(b) ==
  CASE tag[b] = "object" -> refs[b]
    [] tag[b] \in RawTags -> refs[b] \cup junk[b]
    [] tag[b] = "string" -> {}
MarksOnly(b) == IF tag[b] = "string" THEN refs[b] ELSE {}

\* gc_drain.
Trace(b) ==
  LET found == Unmarked(Follows(b) \cup MarksOnly(b)) IN
  /\ phase = "drain" /\ b \in GC_MSTACK
  /\ mark' = mark \cup found
  /\ GC_MSTACK' = (GC_MSTACK \ {b}) \cup (found \cap Follows(b))
  /\ GC_LIVE' = Cardinality(mark')
  /\ UNCHANGED <<GC_MODE, memory, bits, GC_ALLOCED, GC_THRESH, todo, phase, want>>

Drained ==
  /\ phase = "drain" /\ GC_MSTACK = {}
  /\ phase' = "sweep" /\ todo' = bumped
  /\ UNCHANGED <<GC_MODE, memory, bits, counts, mark, GC_MSTACK, want>>

\* The block goes on the front of its free list.  The link to the next one takes
\* the place of its first word; the others stay, and are the program's no more.
Link(b) ==
  LET k == Partition(b)
      next == IF free[k] = <<>> THEN {} ELSE {Head(free[k])}
      words == refs[b] \cup junk[b]
  IN
  /\ free' = [free EXCEPT ![k] = <<b>> \o @]
  /\ \E rest \in SUBSET words :
       /\ Cardinality(words \ rest) <= 1 /\ Cardinality(rest) < BlockWords
       /\ junk' = [junk EXCEPT ![b] = rest \cup next]
  /\ refs' = [refs EXCEPT ![b] = {}]

\* Mutant: a block is retired in no mode.
Recycle(b) == Link(b)

\* Poison mode retires a swept block: it is filled with a value that is no
\* handle and goes on no free list.
Retire(b) ==
  IF GC_MODE = "poison"
  THEN /\ refs' = [refs EXCEPT ![b] = {}] /\ junk' = [junk EXCEPT ![b] = {}]
       /\ UNCHANGED free
  ELSE Link(b)

\* Either way the word that held the tag is gone.
SweepFree(b) ==
  /\ phase = "sweep" /\ IsFirst(b, todo) /\ b \in alloc \ mark
  /\ alloc' = alloc \ {b} /\ Retire(b)
  /\ tag' = [tag EXCEPT ![b] = "text"]
  /\ todo' = todo \ {b}
  /\ UNCHANGED <<GC_MODE, bumped, counts, mark, GC_MSTACK, phase, want>>

SweepPast(b) ==
  /\ phase = "sweep" /\ IsFirst(b, todo) /\ b \notin alloc \ mark
  /\ todo' = todo \ {b}
  /\ UNCHANGED <<GC_MODE, memory, bits, counts, mark, GC_MSTACK, phase, want>>

Swept ==
  /\ phase = "sweep" /\ todo = {}
  /\ GC_ALLOCED' = 0
  /\ GC_THRESH' = IF GC_LIVE < MinThresh THEN MinThresh ELSE GC_LIVE
  /\ phase' = "carve"
  /\ UNCHANGED <<GC_MODE, memory, bits, GC_LIVE, marking, want>>

-----------------------------------------------------------------------------
Program ==
  \/ \E x, y \in Block : Load(x, y)
  \/ \E x \in Block, ys \in SUBSET Block : \E old \in SUBSET junk[x] : Write(x, ys, old)
  \/ \E y \in Block, stays \in BOOLEAN : Drop(y, stays)
  \/ Overwrite
  \/ \E t \in Tags : Request(t)

Collection ==
  \/ Roots \/ Drained \/ Swept
  \/ \E b \in Block : Trace(b) \/ SweepFree(b) \/ SweepPast(b)

CollectorNext == Program \/ CarveFree \/ (\E b \in Block : CarveFresh(b)) \/ Collection

CollectorSpec == CollectorInit /\ [][CollectorNext]_collectorVars

\* gc_collect runs to its end: nothing else runs meanwhile.
FairCollectorSpec == CollectorSpec /\ WF_collectorVars(Collection)

-----------------------------------------------------------------------------
(* What must hold of the heap of the C floor.                              *)

HeapTypeOK ==
  /\ GC_MODE \in Modes
  /\ bumped \subseteq Block /\ alloc \subseteq bumped /\ mark \subseteq alloc
  /\ free \in [{"cell", "raw"} -> Seq(Block)]
  /\ tag \in [Block -> Tags]
  /\ refs \in [Place -> SUBSET Block] /\ junk \in [Place -> SUBSET Block]
  /\ phase \in {"run", "roots", "drain", "sweep", "carve"} /\ want \in Tags
  /\ GC_MSTACK \subseteq mark /\ todo \subseteq bumped
  /\ GC_ALLOCED \in Nat /\ GC_THRESH \in Nat /\ GC_LIVE \in Nat

\* The places that the program may still read: a sweep takes away what the
\* marking has not reached.
Readable == {CStack} \cup (IF phase = "sweep" THEN mark ELSE alloc)

\* No handle dangles: where the program can read, there are only handles of
\* allocated blocks, also in the middle of a sweep (gc_mark, gc_trace, gc_sweep).
NoDangling == \A p \in Readable : refs[p] \subseteq alloc

\* A slot is free or allocated, and free once: the free lists of a partition
\* hold its swept slots, each once, and no others; in poison mode none ever
\* comes back (ar_block, gc_sweep).
FreeListsAreExact ==
  \A k \in {"cell", "raw"} :
    /\ IsInjective(free[k])
    /\ Range(free[k]) = IF GC_MODE = "poison" THEN {} ELSE (bumped \cap Slots(k)) \ alloc

\* Nothing in use is free: handles are those of allocated blocks, and a slot
\* is handed out again only after it was swept, to one owner; what is marked is allocated.
SlotsAreSound == HeapTypeOK /\ NoDangling /\ FreeListsAreExact

\* What a collection leaves can be found from the roots: garbage, cycles
\* included, does not survive it unless a stray word points to it.
Words(b) == refs[b] \cup junk[b]
Findable ==
  {b \in Block : \A S \in SUBSET Block :
     Words(CStack) \subseteq S /\ (\A x \in S : Words(x) \subseteq S) => b \in S}
SweepsAllGarbage == [][phase = "sweep" /\ phase' = "carve" => alloc \subseteq Findable]_collectorVars

\* An allocation that collects comes to its end: the marking of a cyclic heap
\* stops (gc_mark pushes a block once).
CollectionsEnd == phase = "roots" ~> phase = "carve"

\* The collector implements the heap the program relies on.
Heap == INSTANCE ManagedHeap WITH
  objs <- alloc,
  Stack <- CStack, refs <- [p \in Place |-> IF p = CStack \/ p \in alloc THEN refs[p] ELSE {}]
ImplementsHeap == Heap!Spec
=============================================================================
