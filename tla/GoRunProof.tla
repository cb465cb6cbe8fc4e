------------------------------ MODULE GoRunProof ------------------------------
(***************************************************************************)
(* The theorems of GoRun: the goroutines and channels are exact, and the   *)
(* panic stack fits the host stack, for every menu of operations, every    *)
(* number of channels and panics, and stacks of every depth.               *)
(***************************************************************************)
EXTENDS GoRun, FiniteSetTheorems, SequenceTheorems, WellFoundedInduction, TLAPS

(***************************************************************************)
(* The inductive invariant.                                                *)
(***************************************************************************)

\* The entry function is at the bottom and catches nothing itself; what runs
\* above a deferring frame is the function it deferred, and a drain was begun
\* by an operation on a channel, or by a select without one.
Shape ==
  /\ goStack # <<>> /\ goStack[1].role = "top" /\ goStack[1].phase = "body"
  /\ \A k \in 2 .. Depth : goStack[k].role # "top"
  /\ \A k \in 1 .. Depth - 1 : k \in Deferring <=> goStack[k + 1].role = "deferred"
  /\ \A k \in 1 .. Depth : goStack[k].role = "drain" => goStack[k].op = "drain" \/ goStack[k].chan \in Chan

\* A body that runs has no panic of its own, and a program that is over none at all.
Unwinding ==
  /\ \A k \in Frames : goStack[k].phase = "body" => goStack[k].pan = None
  /\ goOver # None => exc = None

\* Above the entry a deferring frame names there is one for each function
\* above that frame, and perhaps some that panics of deferred functions left.
Slack ==
  goOver = None =>
    \A k \in Deferring :
      goDeferAt[Place(Deferring, k)] + Cardinality(Frames) - Place(Frames, k) <= Len(goPanics)

\* Every goroutine still to be made has its counter, and nothing is received
\* that was not sent.
Counts ==
  /\ Len(goQueue) <= born /\ born + goMenu.steps <= Len(runs)
  /\ \A c \in Chan : got[c] <= sent[c]

PanicInv == Shape /\ Unwinding /\ PanicStackSuffices /\ Slack /\ PanicsBelongToFrames

IInv == GoTypeOK /\ PanicInv /\ DrainsAreExact /\ Counts

\* What the host stack and the two stacks of the panics say of each other.
Fits == PanicStackSuffices /\ Slack /\ PanicsBelongToFrames

-----------------------------------------------------------------------------
(* Places.                                                                 *)

LEMMA PlaceFacts ==
  ASSUME NEW n \in Nat, NEW S \in SUBSET (1 .. n)
  PROVE  /\ IsFiniteSet(S) /\ Cardinality(S) \in Nat
         /\ \A k \in Nat : Place(S, k) \in Nat /\ Place(S, k) <= Cardinality(S)
         /\ \A k \in Nat : k >= n => Place(S, k) = Cardinality(S)
         /\ \A j, k \in Nat : j <= k => Place(S, j) <= Place(S, k)
         /\ \A j \in Nat, k \in S : j < k => Place(S, j) + 1 <= Place(S, k)
<1>1. IsFiniteSet(S) /\ Cardinality(S) \in Nat
  <2>1. IsFiniteSet(1 .. n)
    BY FS_Interval
  <2>2. IsFiniteSet(S)
    BY <2>1, FS_Subset
  <2> QED BY <2>2, FS_CardinalityType
<1>2. ASSUME NEW k \in Nat PROVE IsFiniteSet(S \cap (1 .. k)) /\ Place(S, k) \in Nat /\ Place(S, k) <= Cardinality(S)
  <2>1. S \cap (1 .. k) \in SUBSET S
    OBVIOUS
  <2> QED BY <1>1, <2>1, FS_Subset, FS_CardinalityType DEF Place
<1>3. ASSUME NEW k \in Nat, k >= n PROVE Place(S, k) = Cardinality(S)
  <2>1. \A x \in S : x \in 1 .. k
    BY <1>3
  <2>2. S \cap (1 .. k) = S
    BY <2>1
  <2> QED BY <2>2 DEF Place
<1>4. ASSUME NEW j \in Nat, NEW k \in Nat, j <= k PROVE Place(S, j) <= Place(S, k)
  <2>1. S \cap (1 .. j) \in SUBSET (S \cap (1 .. k))
    BY <1>4
  <2> QED BY <1>2, <2>1, FS_Subset DEF Place
<1>5. ASSUME NEW j \in Nat, NEW k \in S, j < k PROVE Place(S, j) + 1 <= Place(S, k)
  <2>1. k \in Nat /\ k \in S \cap (1 .. k) /\ k \notin S \cap (1 .. j)
    BY <1>5
  <2>2. (S \cap (1 .. j)) \cup {k} \in SUBSET (S \cap (1 .. k))
    BY <1>5, <2>1
  <2>3. Cardinality((S \cap (1 .. j)) \cup {k}) = Place(S, j) + 1
    BY <1>2, <2>1, FS_AddElement DEF Place
  <2> QED BY <1>2, <2>1, <2>2, <2>3, FS_Subset DEF Place
<1> QED BY <1>1, <1>2, <1>3, <1>4, <1>5

LEMMA PlaceAdd ==
  ASSUME NEW n \in Nat, NEW S \in SUBSET (1 .. n)
  PROVE  /\ Cardinality(S \cup {n + 1}) = Cardinality(S) + 1
         /\ \A k \in 0 .. n : Place(S \cup {n + 1}, k) = Place(S, k)
         /\ Place(S \cup {n + 1}, n + 1) = Cardinality(S) + 1
<1>1. Cardinality(S \cup {n + 1}) = Cardinality(S) + 1
  <2>1. IsFiniteSet(S) /\ n + 1 \notin S
    BY PlaceFacts
  <2> QED BY <2>1, FS_AddElement
<1>2. ASSUME NEW k \in 0 .. n PROVE Place(S \cup {n + 1}, k) = Place(S, k)
  <2>1. (S \cup {n + 1}) \cap (1 .. k) = S \cap (1 .. k)
    OBVIOUS
  <2> QED BY <2>1 DEF Place
<1>3. Place(S \cup {n + 1}, n + 1) = Cardinality(S) + 1
  <2>1. \A x \in S \cup {n + 1} : x \in 1 .. n + 1
    OBVIOUS
  <2>2. (S \cup {n + 1}) \cap (1 .. n + 1) = S \cup {n + 1}
    BY <2>1, Zenon
  <2> QED BY <1>1, <2>2 DEF Place
<1> QED BY <1>1, <1>2, <1>3

(* All members of a set are counted at its bound. *)
LEMMA PlaceAtBound ==
  ASSUME NEW n \in Nat, NEW S \in SUBSET (1 .. n)
  PROVE  Place(S, n) = Cardinality(S)
BY PlaceFacts

LEMMA PlaceRemove ==
  ASSUME NEW n \in Nat, NEW S \in SUBSET (1 .. n), n \in S
  PROVE  /\ Cardinality(S \ {n}) = Cardinality(S) - 1
         /\ \A k \in 0 .. n - 1 : Place(S \ {n}, k) = Place(S, k)
         /\ Place(S, n) = Cardinality(S)
<1>1. Cardinality(S \ {n}) = Cardinality(S) - 1
  <2>1. IsFiniteSet(S)
    BY PlaceFacts
  <2> QED BY <2>1, FS_RemoveElement
<1>2. ASSUME NEW k \in 0 .. n - 1 PROVE Place(S \ {n}, k) = Place(S, k)
  <2>1. (S \ {n}) \cap (1 .. k) = S \cap (1 .. k)
    OBVIOUS
  <2> QED BY <2>1 DEF Place
<1> QED BY <1>1, <1>2, PlaceFacts

-----------------------------------------------------------------------------
(* The stacks of the panics, by what a step does to the functions on the   *)
(* host stack.                                                             *)

LEMMA StackSets ==
  ASSUME GoTypeOK
  PROVE  /\ Depth \in Nat /\ Frames \in SUBSET (1 .. Depth) /\ Deferring \in SUBSET (1 .. Depth)
         /\ Deferring \subseteq Frames
         /\ Len(goPanics) \in Nat /\ Len(goDeferAt) \in Nat
         /\ \A i \in 1 .. Len(goDeferAt) : goDeferAt[i] \in Nat
BY DEF GoTypeOK, Depth, Frames, Deferring

\* The place of a deferring frame is one of goDeferAt's.
LEMMA PlaceOfDeferring ==
  ASSUME GoTypeOK, PanicStackSuffices, goOver = None, NEW k \in Deferring
  PROVE  /\ k \in Nat /\ k \in Frames /\ k <= Depth
         /\ Place(Deferring, k) \in 1 .. Len(goDeferAt)
         /\ Place(Frames, k) \in 1 .. Cardinality(Frames)
         /\ goDeferAt[Place(Deferring, k)] \in Nat
<1>1. k \in Nat /\ k \in Frames /\ k <= Depth /\ 0 < k
  BY StackSets
<1>2. Place(Deferring, k) \in Nat /\ Place(Deferring, k) <= Cardinality(Deferring) /\ Place(Deferring, 0) \in Nat
      /\ Place(Deferring, 0) + 1 <= Place(Deferring, k)
  BY <1>1, StackSets, PlaceFacts
<1>3. Place(Frames, k) \in Nat /\ Place(Frames, k) <= Cardinality(Frames) /\ Place(Frames, 0) \in Nat
      /\ Place(Frames, 0) + 1 <= Place(Frames, k) /\ Cardinality(Frames) \in Nat
  BY <1>1, StackSets, PlaceFacts
<1>4. Place(Deferring, k) \in 1 .. Len(goDeferAt)
  BY <1>2, StackSets DEF PanicStackSuffices
<1> QED BY <1>1, <1>3, <1>4, StackSets

\* So is the place of every frame one of goPanics'.
LEMMA FramePlace ==
  ASSUME GoTypeOK, NEW k \in Frames
  PROVE  k \in Nat /\ Place(Frames, k) \in 1 .. Cardinality(Frames)
<1>1. k \in Nat /\ 0 < k
  BY StackSets
<1>2. Place(Frames, k) \in Nat /\ Place(Frames, k) <= Cardinality(Frames) /\ Place(Frames, 0) \in Nat
      /\ Place(Frames, 0) + 1 <= Place(Frames, k) /\ Cardinality(Frames) \in Nat
  BY <1>1, StackSets, PlaceFacts
<1> QED BY <1>1, <1>2

LEMMA Sizes ==
  ASSUME GoTypeOK, Fits, goOver = None
  PROVE  /\ Len(goPanics) \in Nat /\ Cardinality(Frames) \in Nat /\ Cardinality(Frames) <= Len(goPanics)
         /\ Cardinality(Deferring) \in Nat /\ Len(goDeferAt) = Cardinality(Deferring)
         /\ Depth \in Nat /\ Place(Frames, Depth) = Cardinality(Frames)
<1>1. Depth \in Nat /\ Len(goPanics) \in Nat /\ Frames \in SUBSET (1 .. Depth) /\ Deferring \in SUBSET (1 .. Depth)
  BY StackSets
<1>2. Cardinality(Frames) \in Nat /\ Place(Frames, Depth) = Cardinality(Frames)
  BY <1>1, PlaceFacts
<1>3. Cardinality(Deferring) \in Nat
  BY <1>1, PlaceFacts
<1>4. Cardinality(Frames) <= Len(goPanics) /\ Len(goDeferAt) = Cardinality(Deferring)
  BY <1>1, <1>2 DEF Fits, PanicStackSuffices
<1> QED BY <1>1, <1>2, <1>3, <1>4

\* As long as no deferred function has panicked, all is in its place.
LEMMA InPlace ==
  ASSUME Fits, goOver = None, Aligned
  PROVE  /\ \A k \in Deferring : goDeferAt[Place(Deferring, k)] = Place(Frames, k)
         /\ \A k \in Frames : goPanics[Place(Frames, k)] = goStack[k].pan
<1>1. PanicsBelongToFrames
  BY DEF Fits
<1> QED BY <1>1, Zenon DEF PanicsBelongToFrames

\* A function is entered, with an entry of its own.
LEMMA EnterFits ==
  ASSUME GoTypeOK, Fits, goOver = None,
         Frames' = Frames \cup {Depth + 1}, Deferring' = Deferring, goDeferAt' = goDeferAt,
         Len(goPanics') = Len(goPanics) + 1,
         \A i \in 1 .. Len(goPanics) : goPanics'[i] = goPanics[i],
         goPanics'[Len(goPanics) + 1] = goStack'[Depth + 1].pan,
         \A k \in Frames : goStack'[k].pan = goStack[k].pan
  PROVE  Fits'
<1> DEFINE n == Len(goPanics)
<1>1. n \in Nat /\ Depth \in Nat /\ Cardinality(Frames) \in Nat /\ Cardinality(Frames) <= n
  BY Sizes
<1>2. /\ Cardinality(Frames') = Cardinality(Frames) + 1
      /\ \A k \in 0 .. Depth : Place(Frames', k) = Place(Frames, k)
      /\ Place(Frames', Depth + 1) = Cardinality(Frames) + 1
  BY StackSets, PlaceAdd
<1>3. ASSUME NEW k \in Deferring
      PROVE  /\ k \in 0 .. Depth /\ Place(Frames', k) = Place(Frames, k)
             /\ Place(Frames, k) \in Nat /\ goDeferAt[Place(Deferring, k)] \in Nat
             /\ goDeferAt[Place(Deferring, k)] \in Place(Frames, k) .. n
             /\ goDeferAt[Place(Deferring, k)] + Cardinality(Frames) - Place(Frames, k) <= n
  <2>1. k \in 0 .. Depth /\ Place(Frames, k) \in Nat /\ goDeferAt[Place(Deferring, k)] \in Nat
    BY PlaceOfDeferring, StackSets DEF Fits
  <2> QED BY <1>2, <2>1 DEF Fits, PanicStackSuffices, Slack
<1>4. PanicStackSuffices'
  <2>1. Len(goPanics') >= Cardinality(Frames') /\ Len(goDeferAt') = Cardinality(Deferring')
    BY <1>1, <1>2 DEF Fits, PanicStackSuffices
  <2>2. ASSUME NEW k \in Deferring' PROVE goDeferAt'[Place(Deferring', k)] \in Place(Frames', k) .. Len(goPanics')
    <3>1. k \in Deferring
      OBVIOUS
    <3> DEFINE a == goDeferAt[Place(Deferring, k)]
               p == Place(Frames, k)
    <3>2. goDeferAt'[Place(Deferring', k)] = a /\ Place(Frames', k) = p /\ p \in Nat /\ a \in Nat /\ a \in p .. n
      BY <1>3, <3>1
    <3> HIDE DEF a, p
    <3> QED BY <1>1, <3>2
  <2> QED BY <2>1, <2>2 DEF PanicStackSuffices
<1>5. Slack'
  <2>1. ASSUME NEW k \in Deferring'
        PROVE  goDeferAt'[Place(Deferring', k)] + Cardinality(Frames') - Place(Frames', k) <= Len(goPanics')
    <3>1. k \in Deferring
      OBVIOUS
    <3> DEFINE a == goDeferAt[Place(Deferring, k)]
               p == Place(Frames, k)
    <3>2. goDeferAt'[Place(Deferring', k)] = a /\ Place(Frames', k) = p /\ p \in Nat /\ a \in Nat
          /\ a + Cardinality(Frames) - p <= n
      BY <1>3, <3>1
    <3> HIDE DEF a, p
    <3> QED BY <1>1, <1>2, <3>2
  <2> QED BY <2>1 DEF Slack
<1>6. ASSUME Aligned' PROVE Aligned /\ PanicsBelongToFrames'
  <2>1. Aligned
    BY <1>1, <1>2, <1>6 DEF Aligned
  <2>2. /\ \A k \in Deferring : goDeferAt[Place(Deferring, k)] = Place(Frames, k)
        /\ \A k \in Frames : goPanics[Place(Frames, k)] = goStack[k].pan
    BY <2>1, InPlace
  <2>3. ASSUME NEW k \in Frames PROVE goPanics'[Place(Frames', k)] = goStack'[k].pan
    <3>0. k \in 0 .. Depth
      BY StackSets
    <3>1. Place(Frames', k) = Place(Frames, k)
      BY <1>2, <3>0, Zenon
    <3>2. Place(Frames, k) \in 1 .. n
      BY <1>1, StackSets, FramePlace
    <3> QED BY <2>2, <3>1, <3>2
  <2>4. goPanics'[Place(Frames', Depth + 1)] = goStack'[Depth + 1].pan
    BY <1>2, <2>1 DEF Aligned
  <2>5. \A k \in Frames' : goPanics'[Place(Frames', k)] = goStack'[k].pan
    BY <2>3, <2>4
  <2>6. \A k \in Deferring' : goDeferAt'[Place(Deferring', k)] = Place(Frames', k)
    BY <1>3, <2>2
  <2> QED BY <2>1, <2>5, <2>6 DEF PanicsBelongToFrames
<1> QED BY <1>4, <1>5, <1>6 DEF Fits, PanicsBelongToFrames

\* The function on top goes over to its deferred functions.
LEMMA LeaveFits ==
  ASSUME GoTypeOK, Fits, goOver = None, Depth \in Frames, Depth \notin Deferring,
         Frames' = Frames, Deferring' = Deferring \cup {Depth},
         goDeferAt' = Append(goDeferAt, Len(goPanics)), Len(goPanics') = Len(goPanics),
         \A i \in 1 .. Len(goPanics) - 1 : goPanics'[i] = goPanics[i],
         Aligned => goPanics'[Len(goPanics)] = goStack'[Depth].pan,
         \A k \in Frames \ {Depth} : goStack'[k].pan = goStack[k].pan
  PROVE  Fits'
<1> DEFINE n == Len(goPanics)
<1>1. /\ n \in Nat /\ Depth \in Nat /\ Depth > 0 /\ Cardinality(Frames) \in Nat /\ Cardinality(Frames) <= n
      /\ Cardinality(Deferring) \in Nat /\ Len(goDeferAt) = Cardinality(Deferring)
      /\ Place(Frames, Depth) = Cardinality(Frames)
  BY StackSets, Sizes
<1>2. /\ Cardinality(Deferring') = Cardinality(Deferring) + 1
      /\ \A k \in 0 .. Depth - 1 : Place(Deferring', k) = Place(Deferring, k)
      /\ Place(Deferring', Depth) = Cardinality(Deferring) + 1
  <2>1. Deferring \in SUBSET (1 .. Depth - 1) /\ Depth - 1 \in Nat /\ Depth = (Depth - 1) + 1
    BY <1>1, StackSets
  <2> HIDE DEF n
  <2> QED BY <2>1, PlaceAdd
<1>3. /\ Len(goDeferAt') = Cardinality(Deferring')
      /\ goDeferAt'[Place(Deferring', Depth)] = n
      /\ \A i \in 1 .. Len(goDeferAt) : goDeferAt'[i] = goDeferAt[i]
  <2> HIDE DEF n
  <2>1. goDeferAt \in Seq(Nat)
    BY DEF GoTypeOK
  <2>2. /\ Len(Append(goDeferAt, n)) = Len(goDeferAt) + 1
        /\ \A i \in 1 .. Len(goDeferAt) : Append(goDeferAt, n)[i] = goDeferAt[i]
        /\ Append(goDeferAt, n)[Len(goDeferAt) + 1] = n
    BY <1>1, <2>1, AppendProperties
  <2>3. goDeferAt' = Append(goDeferAt, n)
    BY DEF n
  <2> QED BY <1>1, <1>2, <2>2, <2>3
<1>4. ASSUME NEW k \in Deferring
      PROVE  /\ k \in 0 .. Depth - 1 /\ goDeferAt'[Place(Deferring', k)] = goDeferAt[Place(Deferring, k)]
             /\ Place(Frames, k) \in Nat /\ goDeferAt[Place(Deferring, k)] \in Nat
             /\ goDeferAt[Place(Deferring, k)] \in Place(Frames, k) .. n
             /\ goDeferAt[Place(Deferring, k)] + Cardinality(Frames) - Place(Frames, k) <= n
  <2>1. k \in 0 .. Depth - 1 /\ Place(Frames, k) \in Nat /\ goDeferAt[Place(Deferring, k)] \in Nat
        /\ Place(Deferring, k) \in 1 .. Len(goDeferAt)
    BY PlaceOfDeferring, StackSets DEF Fits
  <2> QED BY <1>2, <1>3, <2>1 DEF Fits, PanicStackSuffices, Slack
<1>5. PanicStackSuffices' /\ Slack'
  <2>1. Len(goPanics') >= Cardinality(Frames') /\ Len(goDeferAt') = Cardinality(Deferring')
    BY <1>1, <1>3
  <2>2. ASSUME NEW k \in Deferring'
        PROVE  /\ goDeferAt'[Place(Deferring', k)] \in Place(Frames', k) .. Len(goPanics')
               /\ goDeferAt'[Place(Deferring', k)] + Cardinality(Frames') - Place(Frames', k) <= Len(goPanics')
    <3>1. CASE k = Depth
      <4>1. goDeferAt'[Place(Deferring', k)] = n /\ Place(Frames', k) = Cardinality(Frames)
        BY <1>1, <1>3, <3>1
      <4> QED BY <1>1, <4>1
    <3>2. CASE k \in Deferring
      <4> DEFINE a == goDeferAt[Place(Deferring, k)]
                 p == Place(Frames, k)
      <4>1. /\ goDeferAt'[Place(Deferring', k)] = a /\ Place(Frames', k) = p /\ p \in Nat /\ a \in Nat
            /\ a \in p .. n /\ a + Cardinality(Frames) - p <= n
        BY <1>4, <3>2
      <4> HIDE DEF a, p
      <4> QED BY <1>1, <4>1
    <3> QED BY <3>1, <3>2
  <2> QED BY <2>1, <2>2 DEF PanicStackSuffices, Slack
<1>7. ASSUME Aligned' PROVE PanicsBelongToFrames'
  <2>1. Aligned /\ n = Cardinality(Frames)
    BY <1>1, <1>7 DEF Aligned
  <2>2. /\ \A k \in Deferring : goDeferAt[Place(Deferring, k)] = Place(Frames, k)
        /\ \A k \in Frames : goPanics[Place(Frames, k)] = goStack[k].pan
    BY <2>1, InPlace
  <2>3. ASSUME NEW k \in Frames \ {Depth} PROVE goPanics'[Place(Frames', k)] = goStack'[k].pan
    <3>1. k \in Nat /\ k < Depth
      BY StackSets
    <3>2. Place(Frames, k) \in 1 .. Cardinality(Frames) /\ Place(Frames, k) + 1 <= Place(Frames, Depth)
      BY <3>1, StackSets, FramePlace, PlaceFacts
    <3>3. Place(Frames, k) \in 1 .. n - 1
      BY <1>1, <2>1, <3>2
    <3> QED BY <2>2, <3>3
  <2>4. goPanics'[Place(Frames', Depth)] = goStack'[Depth].pan
    BY <1>1, <2>1
  <2>5. \A k \in Deferring' : goDeferAt'[Place(Deferring', k)] = Place(Frames', k)
    BY <1>1, <1>3, <1>4, <2>1, <2>2
  <2> QED BY <2>3, <2>4, <2>5 DEF PanicsBelongToFrames
<1> QED BY <1>5, <1>7 DEF Fits, PanicsBelongToFrames

\* The function on top, its deferred functions run, is left, with its entry
\* (js_gorepanic) or without it (the panic of a deferred function).
LEMMA GoneFits ==
  ASSUME GoTypeOK, Fits, goOver = None, Depth \in Deferring,
         Frames' = Frames \ {Depth}, Deferring' = Deferring \ {Depth},
         Len(goDeferAt') = Len(goDeferAt) - 1,
         \A i \in 1 .. Len(goDeferAt) - 1 : goDeferAt'[i] = goDeferAt[i],
         Len(goPanics') \in {Len(goPanics), Len(goPanics) - 1},
         \A i \in 1 .. Len(goPanics') : goPanics'[i] = goPanics[i],
         \A k \in Frames \ {Depth} : goStack'[k].pan = goStack[k].pan
  PROVE  Fits'
<1> DEFINE n == Len(goPanics)
<1>1. /\ n \in Nat /\ Depth \in Nat /\ Depth > 0 /\ Cardinality(Frames) \in Nat /\ Cardinality(Frames) <= n
      /\ Cardinality(Deferring) \in Nat /\ Len(goDeferAt) = Cardinality(Deferring)
      /\ Depth \in Frames
  BY StackSets, Sizes
<1>2. /\ Cardinality(Frames') = Cardinality(Frames) - 1
      /\ \A k \in 0 .. Depth - 1 : Place(Frames', k) = Place(Frames, k)
      /\ Place(Frames, Depth) = Cardinality(Frames)
  BY <1>1, StackSets, PlaceRemove
<1>3. /\ Cardinality(Deferring') = Cardinality(Deferring) - 1
      /\ \A k \in 0 .. Depth - 1 : Place(Deferring', k) = Place(Deferring, k)
      /\ Place(Deferring, Depth) = Cardinality(Deferring)
  BY <1>1, StackSets, PlaceRemove
<1>4. ASSUME NEW k \in Frames \ {Depth}
      PROVE  /\ k \in 0 .. Depth - 1 /\ Place(Frames', k) = Place(Frames, k)
             /\ Place(Frames, k) \in 1 .. Cardinality(Frames) - 1
  <2>1. k \in Nat /\ k \in 0 .. Depth - 1 /\ k < Depth
    BY <1>1, StackSets
  <2>2. Place(Frames, k) \in 1 .. Cardinality(Frames) /\ Place(Frames, k) + 1 <= Place(Frames, Depth)
    <3>1. Place(Frames, k) + 1 <= Place(Frames, Depth)
      BY <1>1, <2>1, StackSets, PlaceFacts
    <3>2. k \in Frames
      OBVIOUS
    <3> QED BY <3>1, <3>2, FramePlace
  <2>3. Place(Frames', k) = Place(Frames, k)
    BY <1>2, <2>1, Zenon
  <2>4. Place(Frames, k) \in 1 .. Cardinality(Frames) - 1
    <3> DEFINE p == Place(Frames, k)
    <3>1. p \in 1 .. Cardinality(Frames) /\ p + 1 <= Cardinality(Frames)
      BY <1>2, <2>2
    <3> HIDE DEF p
    <3>2. p \in 1 .. Cardinality(Frames) - 1
      BY <1>1, <3>1
    <3> QED BY <3>2 DEF p
  <2> QED BY <2>1, <2>3, <2>4
<1>5. ASSUME NEW k \in Deferring \ {Depth}
      PROVE  /\ goDeferAt'[Place(Deferring', k)] = goDeferAt[Place(Deferring, k)]
             /\ Place(Frames, k) \in Nat /\ goDeferAt[Place(Deferring, k)] \in Nat
             /\ goDeferAt[Place(Deferring, k)] \in Place(Frames, k) .. n
             /\ goDeferAt[Place(Deferring, k)] + Cardinality(Frames) - Place(Frames, k) <= n
  <2>1. /\ k \in 0 .. Depth - 1 /\ k \in Nat /\ k < Depth
        /\ Place(Frames, k) \in Nat /\ goDeferAt[Place(Deferring, k)] \in Nat
        /\ Place(Deferring, k) \in 1 .. Len(goDeferAt)
    BY PlaceOfDeferring, StackSets DEF Fits
  <2>2. Place(Deferring, k) + 1 <= Place(Deferring, Depth)
    BY <1>1, <2>1, StackSets, PlaceFacts
  <2>3. Place(Deferring, k) \in 1 .. Len(goDeferAt) - 1
    BY <1>1, <1>3, <2>1, <2>2
  <2> QED BY <1>3, <2>1, <2>3 DEF Fits, PanicStackSuffices, Slack
<1>6. \A k \in Deferring \ {Depth} : k \in Frames \ {Depth}
  BY StackSets
<1>7. PanicStackSuffices' /\ Slack'
  <2>1. Len(goPanics') >= Cardinality(Frames')
    BY <1>1, <1>2
  <2>2. Len(goDeferAt') = Cardinality(Deferring')
    BY <1>1, <1>3
  <2>3. ASSUME NEW k \in Deferring'
        PROVE  /\ goDeferAt'[Place(Deferring', k)] \in Place(Frames', k) .. Len(goPanics')
               /\ goDeferAt'[Place(Deferring', k)] + Cardinality(Frames') - Place(Frames', k) <= Len(goPanics')
    <3>1. k \in Deferring \ {Depth} /\ k \in Frames \ {Depth}
      BY <1>6
    <3> DEFINE a == goDeferAt[Place(Deferring, k)]
               p == Place(Frames, k)
    <3>2. /\ goDeferAt'[Place(Deferring', k)] = a /\ Place(Frames', k) = p /\ a \in Nat
          /\ p \in 1 .. Cardinality(Frames) - 1 /\ a \in p .. n /\ a + Cardinality(Frames) - p <= n
      BY <1>4, <1>5, <3>1
    <3> HIDE DEF a, p
    <3> QED BY <1>1, <1>2, <3>2
  <2> QED BY <2>1, <2>2, <2>3 DEF PanicStackSuffices, Slack
<1>9. ASSUME Aligned' PROVE PanicsBelongToFrames'
  <2>1. Aligned /\ Len(goPanics') = Cardinality(Frames) - 1
    BY <1>1, <1>2, <1>9 DEF Aligned
  <2>2. /\ \A k \in Deferring : goDeferAt[Place(Deferring, k)] = Place(Frames, k)
        /\ \A k \in Frames : goPanics[Place(Frames, k)] = goStack[k].pan
    BY <2>1, InPlace
  <2>3. \A k \in Frames' : goPanics'[Place(Frames', k)] = goStack'[k].pan
    BY <1>4, <2>1, <2>2
  <2>4. \A k \in Deferring' : goDeferAt'[Place(Deferring', k)] = Place(Frames', k)
    BY <1>4, <1>5, <1>6, <2>2
  <2> QED BY <2>3, <2>4 DEF PanicsBelongToFrames
<1> QED BY <1>7, <1>9 DEF Fits, PanicsBelongToFrames

\* Only drains come and go, or what is read of the frames does not change.
LEMMA SameFits ==
  ASSUME Fits, goOver = None, Frames' = Frames, Deferring' = Deferring,
         goPanics' = goPanics, goDeferAt' = goDeferAt,
         \A k \in Frames : goStack'[k].pan = goStack[k].pan
  PROVE  Fits'
<1>1. PanicStackSuffices' /\ Slack'
  BY DEF Fits, PanicStackSuffices, Slack
<1>2. PanicsBelongToFrames'
  BY DEF Fits, PanicsBelongToFrames, Aligned
<1> QED BY <1>1, <1>2 DEF Fits

-----------------------------------------------------------------------------
(* Sequences.                                                              *)

LEMMA Appended ==
  ASSUME NEW S, NEW q \in Seq(S), NEW x \in S
  PROVE  /\ Append(q, x) \in Seq(S) /\ Len(Append(q, x)) = Len(q) + 1
         /\ \A i \in 1 .. Len(q) : Append(q, x)[i] = q[i]
         /\ Append(q, x)[Len(q) + 1] = x
BY AppendProperties

LEMMA Fronts ==
  ASSUME NEW S, NEW q \in Seq(S), Len(q) > 0
  PROVE  /\ Front(q) \in Seq(S) /\ Len(Front(q)) = Len(q) - 1
         /\ \A i \in 1 .. Len(q) - 1 : Front(q)[i] = q[i]
         /\ Last(q) = q[Len(q)] /\ Last(q) \in S
<1>1. Len(q) \in Nat /\ \A i \in 1 .. Len(q) - 1 : q[i] \in S
  OBVIOUS
<1>2. SubSeq(q, 1, Len(q) - 1) \in Seq(S) /\ Len(SubSeq(q, 1, Len(q) - 1)) = Len(q) - 1
      /\ \A i \in 1 .. Len(q) - 1 : SubSeq(q, 1, Len(q) - 1)[i] = q[i]
  <2> DEFINE n == Len(q) - 1
  <2>1. n \in Nat /\ \A i \in 1 .. n : q[i] \in S
    BY <1>1
  <2> HIDE DEF n
  <2>2. /\ SubSeq(q, 1, n) \in Seq(S) /\ Len(SubSeq(q, 1, n)) = IF 1 <= n THEN n - 1 + 1 ELSE 0
        /\ \A i \in 1 .. n - 1 + 1 : SubSeq(q, 1, n)[i] = q[1 + i - 1]
    BY <2>1, SubSeqProperties
  <2>3. Len(SubSeq(q, 1, n)) = n /\ \A i \in 1 .. n : SubSeq(q, 1, n)[i] = q[i]
    BY <2>1, <2>2
  <2> QED BY <2>2, <2>3 DEF n
<1> QED BY <1>1, <1>2 DEF Front, Last

LEMMA Changed ==
  ASSUME NEW S, NEW q \in Seq(S), NEW j \in 1 .. Len(q), NEW x \in S
  PROVE  /\ [q EXCEPT ![j] = x] \in Seq(S) /\ Len([q EXCEPT ![j] = x]) = Len(q)
         /\ \A i \in 1 .. Len(q) : i # j => [q EXCEPT ![j] = x][i] = q[i]
         /\ [q EXCEPT ![j] = x][j] = x
BY ExceptSeq

-----------------------------------------------------------------------------
(* The host stack, by what a step does to it.                              *)

Activation == FrameSet \cup DrainSet

\* t has the activations of the stack, but for the deferred functions that wait.
Alike(t) ==
  /\ t \in Seq(Activation) /\ Len(t) = Depth
  /\ \A k \in 1 .. Depth :
       /\ t[k].role = goStack[k].role
       /\ IsFunction(goStack[k]) => t[k].phase = goStack[k].phase /\ t[k].pan = goStack[k].pan
       /\ ~IsFunction(goStack[k]) => t[k].op = goStack[k].op /\ t[k].chan = goStack[k].chan

Outer == Shape /\ Unwinding

LEMMA Activations ==
  ASSUME GoTypeOK, Shape
  PROVE  /\ Depth \in Nat /\ Depth > 0 /\ goStack \in Seq(Activation) /\ GoTop \in Activation
         /\ \A k \in 1 .. Depth : goStack[k] \in Activation
         /\ \A k \in 1 .. Depth : IsFunction(goStack[k]) => goStack[k] \in FrameSet
         /\ 1 \in Frames /\ 1 \notin Deferring
         /\ \A k : k \in Frames <=> k \in 1 .. Depth /\ IsFunction(goStack[k])
         /\ \A k : k \in Deferring <=> k \in Frames /\ goStack[k].phase = "defers"
<1>1. Depth \in Nat /\ Depth > 0 /\ goStack \in Seq(Activation)
  BY DEF GoTypeOK, Shape, Depth, Activation
<1>2. \A k \in 1 .. Depth : goStack[k] \in Activation
  BY <1>1 DEF Depth
<1>3. \A k \in 1 .. Depth : IsFunction(goStack[k]) => goStack[k] \in FrameSet
  BY <1>2 DEF Activation, DrainSet, IsFunction
<1>4. 1 \in Frames /\ 1 \notin Deferring
  BY <1>1 DEF Shape, Frames, Deferring, IsFunction
<1> QED BY <1>1, <1>2, <1>3, <1>4 DEF GoTop, Frames, Deferring

LEMMA Itself == ASSUME GoTypeOK, Shape PROVE Alike(goStack)
BY Activations DEF Alike, Depth

LEMMA Steady ==
  ASSUME GoTypeOK, Outer, Alike(goStack'), goOver' # None => exc' = None
  PROVE  /\ Outer' /\ Frames' = Frames /\ Deferring' = Deferring /\ Depth' = Depth
         /\ \A k \in Frames : goStack'[k].pan = goStack[k].pan
<1> DEFINE n == Depth
<1>1. /\ n \in Nat /\ n > 0 /\ Depth' = n /\ goStack' \in Seq(Activation)
      /\ \A k \in 1 .. n :
           /\ goStack'[k].role = goStack[k].role
           /\ IsFunction(goStack[k]) => goStack'[k].phase = goStack[k].phase /\ goStack'[k].pan = goStack[k].pan
           /\ ~IsFunction(goStack[k]) => goStack'[k].op = goStack[k].op /\ goStack'[k].chan = goStack[k].chan
  BY Activations DEF Alike, Depth, Outer
<1>2. Frames' = Frames
  BY <1>1 DEF Frames, IsFunction
<1>3. Deferring' = Deferring
  BY <1>1, <1>2 DEF Deferring, Frames
<1>4. \A k \in Frames : goStack'[k].pan = goStack[k].pan
  BY <1>1 DEF Frames
<1>5. Shape'
  <2>1. goStack' # <<>> /\ goStack'[1].role = "top" /\ goStack'[1].phase = "body"
    BY <1>1 DEF Outer, Shape, IsFunction, Depth
  <2>2. \A k \in 2 .. Depth' : goStack'[k].role # "top"
    BY <1>1 DEF Outer, Shape
  <2>3. \A k \in 1 .. Depth' - 1 : k \in Deferring' <=> goStack'[k + 1].role = "deferred"
    BY <1>1, <1>3 DEF Outer, Shape
  <2>4. \A k \in 1 .. Depth' : goStack'[k].role = "drain" => goStack'[k].op = "drain" \/ goStack'[k].chan \in Chan
    BY <1>1 DEF Outer, Shape, IsFunction
  <2> QED BY <2>1, <2>2, <2>3, <2>4 DEF Shape
<1>6. Unwinding'
  BY <1>1, <1>2, <1>4 DEF Outer, Unwinding, Frames
<1> QED BY <1>1, <1>2, <1>3, <1>4, <1>5, <1>6 DEF Outer

LEMMA Pushing ==
  ASSUME GoTypeOK, Outer, NEW t, Alike(t), NEW a \in Activation, goStack' = Append(t, a),
         a.role # "top", Depth \in Deferring <=> a.role = "deferred",
         a.role = "drain" => a.op = "drain" \/ a.chan \in Chan,
         a.role # "drain" => a.phase = "body" /\ a.pan = None,
         goOver' # None => exc' = None
  PROVE  /\ Outer' /\ goStack' \in Seq(Activation) /\ Deferring' = Deferring
         /\ Frames' = IF a.role = "drain" THEN Frames ELSE Frames \cup {Depth + 1}
         /\ \A k \in Frames : goStack'[k].pan = goStack[k].pan
         /\ goStack'[Depth + 1] = a
<1> DEFINE n == Depth
<1>1. /\ n \in Nat /\ n > 0 /\ Depth' = n + 1 /\ goStack' \in Seq(Activation)
      /\ goStack'[n + 1] = a
      /\ \A k \in 1 .. n :
           /\ goStack'[k].role = goStack[k].role
           /\ IsFunction(goStack[k]) => goStack'[k].phase = goStack[k].phase /\ goStack'[k].pan = goStack[k].pan
           /\ ~IsFunction(goStack[k]) => goStack'[k].op = goStack[k].op /\ goStack'[k].chan = goStack[k].chan
  <2>1. n \in Nat /\ n > 0 /\ Len(t) = n /\ t \in Seq(Activation)
    BY Activations DEF Alike, Outer
  <2>2. /\ Append(t, a) \in Seq(Activation) /\ Len(Append(t, a)) = n + 1
        /\ \A i \in 1 .. n : Append(t, a)[i] = t[i]
        /\ Append(t, a)[n + 1] = a
    BY <2>1, Appended
  <2>3. \A k \in 1 .. n : goStack'[k] = t[k]
    BY <2>2
  <2> QED BY <2>1, <2>2, <2>3 DEF Alike, Depth
<1> HIDE DEF n
<1>0. \A k : k \in 1 .. n + 1 <=> k \in 1 .. n \/ k = n + 1
  BY <1>1
<1>2. Frames' = IF a.role = "drain" THEN Frames ELSE Frames \cup {n + 1}
  <2>1. Frames' = {k \in 1 .. n + 1 : IsFunction(goStack'[k])} /\ Frames = {k \in 1 .. n : IsFunction(goStack[k])}
    BY <1>1 DEF Frames, n
  <2>2. \A k \in 1 .. n : IsFunction(goStack'[k]) <=> IsFunction(goStack[k])
    BY <1>1 DEF IsFunction
  <2>3. IsFunction(goStack'[n + 1]) <=> a.role # "drain"
    BY <1>1 DEF IsFunction
  <2>4. \A k : k \in Frames' <=> k \in Frames \/ (k = n + 1 /\ a.role # "drain")
    BY <1>0, <2>1, <2>2, <2>3
  <2> QED BY <2>4
<1>3. Deferring' = Deferring
  BY <1>1, <1>2 DEF Deferring, Frames, IsFunction, n
<1>4. \A k \in Frames : goStack'[k].pan = goStack[k].pan
  BY <1>1 DEF Frames, n
<1>5. Shape'
  <2>1. goStack' # <<>> /\ goStack'[1].role = "top" /\ goStack'[1].phase = "body"
    BY <1>1 DEF Outer, Shape, IsFunction, Depth
  <2>2. ASSUME NEW k \in 2 .. Depth' PROVE goStack'[k].role # "top"
    <3>1. CASE k = n + 1
      BY <1>1, <3>1
    <3>2. CASE k # n + 1
      <4>1. k \in 1 .. n /\ k \in 2 .. n
        BY <1>1, <3>2
      <4> QED BY <1>1, <4>1 DEF Outer, Shape, n
    <3> QED BY <3>1, <3>2
  <2>3. ASSUME NEW k \in 1 .. Depth' - 1 PROVE k \in Deferring' <=> goStack'[k + 1].role = "deferred"
    <3>1. CASE k = n
      BY <1>1, <1>3, <3>1 DEF n
    <3>2. CASE k # n
      <4>1. k \in 1 .. n - 1 /\ k + 1 \in 1 .. n
        BY <1>1, <3>2
      <4> QED BY <1>1, <1>3, <4>1 DEF Outer, Shape, n
    <3> QED BY <3>1, <3>2
  <2>4. ASSUME NEW k \in 1 .. Depth', goStack'[k].role = "drain"
        PROVE  goStack'[k].op = "drain" \/ goStack'[k].chan \in Chan
    <3>1. CASE k = n + 1
      BY <1>1, <2>4, <3>1
    <3>2. CASE k \in 1 .. n
      BY <1>1, <2>4, <3>2 DEF Outer, Shape, IsFunction, n
    <3> QED BY <1>0, <1>1, <3>1, <3>2
  <2> QED BY <2>1, <2>2, <2>3, <2>4 DEF Shape
<1>6. Unwinding'
  <2>1. ASSUME NEW k \in Frames', goStack'[k].phase = "body" PROVE goStack'[k].pan = None
    <3>1. CASE k \in Frames
      BY <1>1, <1>4, <2>1, <3>1 DEF Outer, Unwinding, Frames, n
    <3>2. CASE k = n + 1 /\ a.role # "drain"
      BY <1>1, <3>2
    <3> QED BY <1>2, <3>1, <3>2
  <2> QED BY <2>1 DEF Unwinding
<1> QED BY <1>1, <1>2, <1>3, <1>4, <1>5, <1>6 DEF Outer, n

LEMMA Leaving ==
  ASSUME GoTypeOK, Outer, IsFunction(GoTop), GoTop.phase = "body", GoTop.role # "top",
         NEW p \in PanicValue \cup {None},
         goStack' = SetTop(goStack, [GoTop EXCEPT !.phase = "defers", !.pan = p]),
         goOver' # None => exc' = None
  PROVE  /\ Outer' /\ goStack' \in Seq(Activation) /\ Depth \in Frames /\ Depth \notin Deferring
         /\ Frames' = Frames /\ Deferring' = Deferring \cup {Depth}
         /\ \A k \in Frames \ {Depth} : goStack'[k].pan = goStack[k].pan
         /\ goStack'[Depth].pan = p
<1> DEFINE n == Depth
           x == [GoTop EXCEPT !.phase = "defers", !.pan = p]
<1>1. /\ n \in Nat /\ n > 0 /\ goStack \in Seq(Activation) /\ GoTop = goStack[n] /\ GoTop \in FrameSet
      /\ n \in Frames /\ n \notin Deferring /\ Len(goStack) = n
  BY Activations DEF Outer, GoTop, Depth
<1>2. x \in FrameSet /\ x \in Activation /\ x.role = GoTop.role /\ x.phase = "defers" /\ x.pan = p
  BY <1>1 DEF FrameSet, Activation
<1>3. /\ Depth' = n /\ goStack' \in Seq(Activation) /\ goStack'[n] = x
      /\ \A k \in 1 .. n : k # n => goStack'[k] = goStack[k]
  <2> HIDE DEF x
  <2>1. /\ [goStack EXCEPT ![n] = x] \in Seq(Activation) /\ Len([goStack EXCEPT ![n] = x]) = Len(goStack)
        /\ \A i \in 1 .. n : i # n => [goStack EXCEPT ![n] = x][i] = goStack[i]
        /\ [goStack EXCEPT ![n] = x][n] = x
    BY <1>1, <1>2, Changed
  <2>2. goStack' = [goStack EXCEPT ![n] = x]
    BY DEF SetTop, Depth, x
  <2> QED BY <1>1, <2>1, <2>2 DEF Depth
<1> HIDE DEF x
<1>4. Frames' = Frames
  BY <1>1, <1>2, <1>3 DEF Frames, IsFunction
<1>5. Deferring' = Deferring \cup {n}
  BY <1>1, <1>2, <1>3, <1>4 DEF Deferring, Frames
<1>6. \A k \in Frames \ {n} : goStack'[k].pan = goStack[k].pan
  BY <1>3 DEF Frames
<1>7. Shape'
  <2>1. goStack' # <<>> /\ goStack'[1].role = "top" /\ goStack'[1].phase = "body"
    <3>1. n # 1 /\ goStack'[1] = goStack[1]
      BY <1>1, <1>3 DEF Outer, Shape
    <3> QED BY <1>1, <1>3, <3>1 DEF Outer, Shape, Depth
  <2>2. \A k \in 2 .. Depth' : goStack'[k].role # "top"
    BY <1>1, <1>2, <1>3 DEF Outer, Shape
  <2>3. ASSUME NEW k \in 1 .. Depth' - 1 PROVE k \in Deferring' <=> goStack'[k + 1].role = "deferred"
    <3>1. k \in 1 .. n - 1 /\ k + 1 \in 1 .. n /\ k # n
      BY <1>1, <1>3
    <3>2. goStack'[k + 1].role = goStack[k + 1].role
      BY <1>1, <1>2, <1>3, <3>1
    <3> QED BY <1>5, <3>1, <3>2 DEF Outer, Shape
  <2>4. \A k \in 1 .. Depth' : goStack'[k].role = "drain" => goStack'[k].op = "drain" \/ goStack'[k].chan \in Chan
    BY <1>1, <1>2, <1>3 DEF Outer, Shape, IsFunction
  <2> QED BY <2>1, <2>2, <2>3, <2>4 DEF Shape
<1>8. Unwinding'
  BY <1>1, <1>2, <1>3, <1>4 DEF Outer, Unwinding, Frames
<1> QED BY <1>1, <1>2, <1>3, <1>4, <1>5, <1>6, <1>7, <1>8 DEF Outer

LEMMA Popping ==
  ASSUME GoTypeOK, Outer, GoTop.role # "top", goStack' = GoPop(goStack), goOver' # None => exc' = None
  PROVE  /\ Outer' /\ goStack' \in Seq(Activation)
         /\ Frames' = Frames \ {Depth} /\ Deferring' = Deferring \ {Depth}
         /\ \A k \in Frames \ {Depth} : goStack'[k].pan = goStack[k].pan
<1> DEFINE n == Depth
<1>1. n \in Nat /\ n > 0 /\ goStack \in Seq(Activation) /\ GoTop = goStack[n] /\ Len(goStack) = n
  BY Activations DEF Outer, GoTop, Depth
<1>2. n > 1
  BY <1>1 DEF Outer, Shape
<1>3. /\ Depth' = n - 1 /\ goStack' \in Seq(Activation)
      /\ \A k \in 1 .. n - 1 : goStack'[k] = goStack[k]
  BY <1>1, Fronts DEF GoPop, Depth
<1>4. Frames' = Frames \ {n}
  BY <1>1, <1>3 DEF Frames
<1>5. Deferring' = Deferring \ {n}
  BY <1>1, <1>3, <1>4 DEF Deferring, Frames
<1>6. \A k \in Frames \ {n} : goStack'[k].pan = goStack[k].pan
  BY <1>1, <1>3 DEF Frames
<1>7. Shape'
  <2>1. goStack' # <<>> /\ goStack'[1].role = "top" /\ goStack'[1].phase = "body"
    <3>1. goStack'[1] = goStack[1] /\ Len(goStack') > 0
      BY <1>1, <1>2, <1>3 DEF Depth
    <3> QED BY <1>3, <3>1 DEF Outer, Shape
  <2>2. \A k \in 2 .. Depth' : goStack'[k].role # "top"
    BY <1>1, <1>3 DEF Outer, Shape
  <2>3. \A k \in 1 .. Depth' - 1 : k \in Deferring' <=> goStack'[k + 1].role = "deferred"
    BY <1>1, <1>3, <1>5 DEF Outer, Shape
  <2>4. \A k \in 1 .. Depth' : goStack'[k].role = "drain" => goStack'[k].op = "drain" \/ goStack'[k].chan \in Chan
    BY <1>1, <1>3 DEF Outer, Shape
  <2> QED BY <2>1, <2>2, <2>3, <2>4 DEF Shape
<1>8. Unwinding'
  BY <1>1, <1>3, <1>4 DEF Outer, Unwinding, Frames
<1> QED BY <1>3, <1>4, <1>5, <1>6, <1>7, <1>8 DEF Outer

-----------------------------------------------------------------------------
(* Goroutines and channels.                                                *)

LEMMA Counted ==
  ASSUME IInv
  PROVE  /\ born \in Nat /\ goMenu.steps \in Nat /\ Len(runs) \in Nat /\ runs \in Seq(Nat)
         /\ goQueue \in Seq(Nat) /\ Len(goQueue) \in 0 .. born /\ born + goMenu.steps <= Len(runs)
         /\ DOMAIN runs = 1 .. Len(runs)
         /\ \A i \in 1 .. Len(goQueue) : goQueue[i] = born - Len(goQueue) + i
         /\ \A g \in 1 .. Len(runs) :
              runs[g] = IF g <= born /\ ~Contains(goQueue, g) THEN 1 ELSE 0
<1>1. /\ born \in Nat /\ goMenu.steps \in Nat /\ Len(runs) \in Nat /\ runs \in Seq(Nat)
      /\ goQueue \in Seq(Nat) /\ DOMAIN runs = 1 .. Len(runs) /\ Len(goQueue) \in Nat
  BY DEF IInv, GoTypeOK
<1>2. Len(goQueue) \in 0 .. born /\ born + goMenu.steps <= Len(runs)
  BY <1>1 DEF IInv, Counts
<1>3. GoroutinesRunOnce
  BY DEF IInv, DrainsAreExact
<1>4. goQueue = [i \in 1 .. Len(goQueue) |-> born - Len(goQueue) + i]
  BY <1>3 DEF GoroutinesRunOnce
<1>5. \A i \in 1 .. Len(goQueue) : goQueue[i] = born - Len(goQueue) + i
  BY <1>4
<1> QED BY <1>1, <1>2, <1>3, <1>5 DEF GoroutinesRunOnce

\* The goroutines that wait are the last ones made.
LEMMA Waiting ==
  ASSUME IInv, NEW g \in Nat
  PROVE  Contains(goQueue, g) <=> born - Len(goQueue) < g /\ g <= born
<1>1. ASSUME Contains(goQueue, g) PROVE born - Len(goQueue) < g /\ g <= born
  <2>1. PICK i \in 1 .. Len(goQueue) : goQueue[i] = g
    BY <1>1 DEF Contains
  <2> QED BY <2>1, Counted
<1>2. ASSUME born - Len(goQueue) < g, g <= born PROVE Contains(goQueue, g)
  <2> DEFINE i == g - (born - Len(goQueue))
  <2>1. i \in 1 .. Len(goQueue) /\ born - Len(goQueue) + i = g
    BY <1>2, Counted
  <2> HIDE DEF i
  <2>2. goQueue[i] = g
    BY <2>1, Counted
  <2> QED BY <2>1, <2>2 DEF Contains
<1> QED BY <1>1, <1>2

\* The queue and the counters, stated of any queue.
LEMMA QueueExact ==
  ASSUME NEW q, NEW b \in Nat, NEW r \in Seq(Nat), q \in Seq(Nat), Len(q) <= b,
         \A i \in 1 .. Len(q) : q[i] = b - Len(q) + i,
         \A g \in 1 .. Len(r) : r[g] = IF g <= b - Len(q) THEN 1 ELSE 0
  PROVE  /\ \A g \in DOMAIN r : r[g] = IF g <= b /\ ~Contains(q, g) THEN 1 ELSE 0
         /\ q = [i \in 1 .. Len(q) |-> b - Len(q) + i]
<1>1. Len(q) \in Nat /\ DOMAIN r = 1 .. Len(r) /\ Len(r) \in Nat
  OBVIOUS
<1>2. ASSUME NEW g \in 1 .. Len(r) PROVE r[g] = IF g <= b /\ ~Contains(q, g) THEN 1 ELSE 0
  <2>1. CASE g <= b - Len(q)
    <3>1. ~Contains(q, g)
      BY <1>1, <2>1 DEF Contains
    <3> QED BY <1>1, <2>1, <3>1
  <2>2. CASE g > b
    BY <1>1, <2>2
  <2>3. CASE b - Len(q) < g /\ g <= b
    <3> DEFINE i == g - (b - Len(q))
    <3>1. i \in 1 .. Len(q) /\ b - Len(q) + i = g
      BY <1>1, <2>3
    <3> HIDE DEF i
    <3>2. Contains(q, g)
      BY <3>1 DEF Contains
    <3> QED BY <1>1, <2>3, <3>2
  <2> QED BY <1>1, <2>1, <2>2, <2>3
<1>3. q = [i \in 1 .. Len(q) |-> b - Len(q) + i]
  OBVIOUS
<1> QED BY <1>1, <1>2, <1>3

LEMMA RunsOf ==
  ASSUME IInv, NEW g \in 1 .. Len(runs)
  PROVE  runs[g] = IF g <= born - Len(goQueue) THEN 1 ELSE 0
<1>1. g \in Nat /\ g \in 1 .. Len(runs)
  BY Counted
<1>2. runs[g] = IF g <= born /\ ~Contains(goQueue, g) THEN 1 ELSE 0
  BY <1>1, Counted
<1>3. Contains(goQueue, g) <=> born - Len(goQueue) < g /\ g <= born
  BY <1>1, Waiting
<1> QED BY <1>1, <1>2, <1>3, Counted

\* A channel's queue holds what is sent and not received.
LEMMA Buffer ==
  ASSUME IInv, NEW c \in Chan
  PROVE  /\ sent[c] \in Nat /\ got[c] \in Nat /\ got[c] <= sent[c] /\ chans[c].buf \in Seq(Nat)
         /\ Len(chans[c].buf) = sent[c] - got[c]
         /\ \A i \in 1 .. Len(chans[c].buf) : chans[c].buf[i] = got[c] + i
<1>1. sent[c] \in Nat /\ got[c] \in Nat /\ chans[c].buf \in Seq(Nat) /\ got[c] <= sent[c]
  BY DEF IInv, GoTypeOK, Counts
<1>2. chans[c].buf = [i \in 1 .. sent[c] - got[c] |-> got[c] + i]
  BY DEF IInv, DrainsAreExact, ChannelsAreFifo
<1>3. DOMAIN chans[c].buf = 1 .. sent[c] - got[c] /\ sent[c] - got[c] \in Nat
  BY <1>1, <1>2
<1>4. Len(chans[c].buf) = sent[c] - got[c]
  BY <1>1, <1>3
<1> QED BY <1>1, <1>2, <1>4

\* A channel that nothing happens to stays exact, and so does one that is sent to
\* or received from.
Exact(c) ==
  /\ got[c] <= sent[c]
  /\ chans[c].buf = [i \in 1 .. sent[c] - got[c] |-> got[c] + i]

LEMMA TakeIsExact ==
  ASSUME IInv, NEW op, NEW c \in Chan, Take(op, c), op = "range" \/ ~Empty(c), sent' = sent
  PROVE  /\ chans' \in [Chan -> [buf : Seq(Nat), closed : BOOLEAN]] /\ got' \in [Chan -> Nat]
         /\ \A d \in Chan : Exact(d)'
<1> DEFINE n == IF op = "range" THEN Len(chans[c].buf) ELSE 1
           b == chans[c].buf
           m == Len(b)
<1>1. /\ sent[c] \in Nat /\ got[c] \in Nat /\ got[c] <= sent[c] /\ b \in Seq(Nat) /\ m = sent[c] - got[c]
      /\ \A i \in 1 .. m : b[i] = got[c] + i
  BY Buffer
<1>2. m \in Nat /\ n \in 0 .. m
  BY <1>1 DEF Empty
<1>3. /\ got' = [got EXCEPT ![c] = got[c] + n]
      /\ chans' = [chans EXCEPT ![c].buf = SubSeq(b, n + 1, m)]
  BY DEF Take
<1>4. chans \in [Chan -> [buf : Seq(Nat), closed : BOOLEAN]] /\ got \in [Chan -> Nat] /\ sent \in [Chan -> Nat]
  BY DEF IInv, GoTypeOK
<1> DEFINE rest == SubSeq(b, n + 1, m)
<1> HIDE DEF n, m, b
<1>5. /\ rest \in Seq(Nat) /\ Len(rest) = m - n
      /\ \A i \in 1 .. m - n : rest[i] = b[n + i]
  <2>1. n + 1 \in Int /\ m \in Int /\ \A i \in n + 1 .. m : b[i] \in Nat
    BY <1>1, <1>2
  <2>2. /\ rest \in Seq(Nat) /\ Len(rest) = IF n + 1 <= m THEN m - (n + 1) + 1 ELSE 0
        /\ \A i \in 1 .. m - (n + 1) + 1 : rest[i] = b[n + 1 + i - 1]
    BY <2>1, SubSeqProperties
  <2> QED BY <1>2, <2>2
<1> HIDE DEF rest
<1>6. chans' = [chans EXCEPT ![c].buf = rest]
  BY <1>3 DEF rest
<1>7. /\ chans' \in [Chan -> [buf : Seq(Nat), closed : BOOLEAN]]
      /\ chans'[c].buf = rest /\ \A d \in Chan : d # c => chans'[d] = chans[d]
  BY <1>4, <1>5, <1>6
<1>8. /\ got' \in [Chan -> Nat] /\ got'[c] = got[c] + n /\ \A d \in Chan : d # c => got'[d] = got[d]
  BY <1>1, <1>2, <1>3, <1>4
<1>9. ASSUME NEW d \in Chan PROVE Exact(d)'
  <2>1. CASE d # c
    <3>1. Exact(d)
      BY DEF IInv, DrainsAreExact, ChannelsAreFifo, Counts, Exact
    <3> QED BY <1>7, <1>8, <2>1, <3>1 DEF Exact
  <2>2. CASE d = c
    <3> DEFINE f == [i \in 1 .. sent[c] - (got[c] + n) |-> got[c] + n + i]
    <3>1. rest = f
      <4>1. Len(rest) = sent[c] - (got[c] + n) /\ \A i \in 1 .. Len(rest) : rest[i] = got[c] + n + i
        <5>1. Len(rest) = m - n /\ m = sent[c] - got[c] /\ n \in Nat
          BY <1>1, <1>2, <1>5
        <5>2. ASSUME NEW i \in 1 .. m - n PROVE rest[i] = got[c] + n + i
          <6>1. n + i \in 1 .. m
            BY <1>2
          <6>2. rest[i] = b[n + i] /\ b[n + i] = got[c] + (n + i)
            BY <1>1, <1>5, <6>1
          <6> QED BY <1>1, <1>2, <6>2
        <5> QED BY <1>1, <1>2, <5>1, <5>2
      <4>2. rest = [i \in 1 .. Len(rest) |-> rest[i]]
        BY <1>5
      <4>3. rest = [i \in 1 .. Len(rest) |-> got[c] + n + i]
        BY <4>1, <4>2
      <4> QED BY <4>1, <4>3
    <3>2. got[c] + n <= sent[c]
      BY <1>1, <1>2 DEF m
    <3> QED BY <1>7, <1>8, <2>2, <3>1, <3>2 DEF Exact
  <2> QED BY <2>1, <2>2
<1> QED BY <1>7, <1>8, <1>9

-----------------------------------------------------------------------------
(* The steps, for the goroutines and channels.                             *)

ProgramType ==
  /\ goMenu \in [ops : SUBSET GoOps, steps : Nat] /\ goQueue \in Seq(Nat)
  /\ chans \in [Chan -> [buf : Seq(Nat), closed : BOOLEAN]]
  /\ born \in Nat /\ runs \in Seq(Nat)
  /\ sent \in [Chan -> Nat] /\ got \in [Chan -> Nat]

ProgramInv == ProgramType /\ DrainsAreExact /\ Counts

\* The parts of it that are about goroutines, and about channels.
Goroutines ==
  /\ goMenu \in [ops : SUBSET GoOps, steps : Nat] /\ goQueue \in Seq(Nat) /\ born \in Nat /\ runs \in Seq(Nat)
  /\ GoroutinesRunOnce /\ Len(goQueue) <= born /\ born + goMenu.steps <= Len(runs)

Channels ==
  /\ chans \in [Chan -> [buf : Seq(Nat), closed : BOOLEAN]]
  /\ sent \in [Chan -> Nat] /\ got \in [Chan -> Nat]
  /\ \A c \in Chan : Exact(c)

LEMMA Halves == ProgramInv <=> Goroutines /\ Channels
BY DEF ProgramInv, ProgramType, Goroutines, Channels, Exact, DrainsAreExact, ChannelsAreFifo, Counts

LEMMA HalvesLater == ProgramInv' <=> Goroutines' /\ Channels'
BY DEF ProgramInv, ProgramType, Goroutines, Channels, Exact, DrainsAreExact, ChannelsAreFifo, Counts

LEMMA Program == ASSUME IInv PROVE Goroutines /\ Channels
<1>1. ProgramInv
  BY DEF ProgramInv, ProgramType, IInv, GoTypeOK
<1> QED BY <1>1, Halves

LEMMA MenuStep ==
  ASSUME IInv, NEW op, GoDoes(op)
  PROVE  /\ goMenu' \in [ops : SUBSET GoOps, steps : Nat] /\ goMenu.steps \in Nat
         /\ goMenu'.steps = goMenu.steps - 1 /\ goMenu'.ops = goMenu.ops
<1>1. goMenu \in [ops : SUBSET GoOps, steps : Nat] /\ goMenu.steps > 0 /\ goMenu' = [goMenu EXCEPT !.steps = goMenu.steps - 1]
  BY DEF GoDoes, IInv, GoTypeOK
<1>2. goMenu.steps \in Nat /\ goMenu.steps - 1 \in Nat
  BY <1>1
<1> QED BY <1>1, <1>2

LEMMA GoroutinesSame ==
  ASSUME Goroutines, UNCHANGED <<goQueue, born, runs>>,
         goMenu' \in [ops : SUBSET GoOps, steps : Nat], goMenu'.steps <= goMenu.steps
  PROVE  Goroutines'
<1>1. goMenu.steps \in Nat /\ goMenu'.steps \in Nat /\ Len(runs) \in Nat /\ born \in Nat
  BY DEF Goroutines
<1>2. born' + goMenu'.steps <= Len(runs')
  BY <1>1 DEF Goroutines
<1> QED BY <1>2 DEF Goroutines, GoroutinesRunOnce

LEMMA ChannelsSame == ASSUME Channels, UNCHANGED <<chans, sent, got>> PROVE Channels'
BY DEF Channels, Exact

LEMMA NothingRuns ==
  ASSUME IInv, UNCHANGED <<goQueue, born, runs, chans, sent, got>>,
         UNCHANGED goMenu \/ \E op \in GoOps : GoDoes(op)
  PROVE  ProgramInv'
<1>1. goMenu' \in [ops : SUBSET GoOps, steps : Nat] /\ goMenu'.steps <= goMenu.steps
  <2>1. CASE UNCHANGED goMenu
    BY <2>1 DEF IInv, GoTypeOK
  <2>2. ASSUME NEW op \in GoOps, GoDoes(op) PROVE goMenu' \in [ops : SUBSET GoOps, steps : Nat] /\ goMenu'.steps <= goMenu.steps
    <3>1. /\ goMenu' \in [ops : SUBSET GoOps, steps : Nat] /\ goMenu.steps \in Nat
          /\ goMenu'.steps = goMenu.steps - 1
      BY <2>2, MenuStep
    <3> QED BY <3>1
  <2> QED BY <2>1, <2>2
<1>2. Goroutines' /\ Channels'
  BY <1>1, Program, GoroutinesSame, ChannelsSame
<1> QED BY <1>2, HalvesLater

LEMMA SpawnRuns == ASSUME IInv, js_gospawn PROVE ProgramInv'
<1>1. /\ GoDoes("spawn") /\ born' = born + 1 /\ goQueue' = Append(goQueue, born + 1)
      /\ UNCHANGED <<chans, runs, sent, got>>
  BY DEF js_gospawn
<1>2. /\ goMenu' \in [ops : SUBSET GoOps, steps : Nat] /\ goMenu.steps \in Nat /\ goMenu'.steps = goMenu.steps - 1
  BY <1>1, MenuStep
<1>3. /\ born \in Nat /\ Len(runs) \in Nat /\ runs \in Seq(Nat) /\ goQueue \in Seq(Nat)
      /\ Len(goQueue) \in 0 .. born /\ born + goMenu.steps <= Len(runs)
      /\ \A i \in 1 .. Len(goQueue) : goQueue[i] = born - Len(goQueue) + i
  BY Counted
<1> DEFINE q == Append(goQueue, born + 1)
           b == born + 1
<1>4. /\ q \in Seq(Nat) /\ Len(q) = Len(goQueue) + 1 /\ q[Len(goQueue) + 1] = born + 1
      /\ \A i \in 1 .. Len(goQueue) : q[i] = goQueue[i]
  BY <1>3, Appended
<1>5. b \in Nat /\ Len(q) <= b /\ b - Len(q) = born - Len(goQueue)
  BY <1>3, <1>4
<1>6. \A i \in 1 .. Len(q) : q[i] = b - Len(q) + i
  <2> HIDE DEF q
  <2>1. ASSUME NEW i \in 1 .. Len(q) PROVE q[i] = b - Len(q) + i
    <3>1. CASE i = Len(goQueue) + 1
      BY <1>3, <1>4, <3>1
    <3>2. CASE i \in 1 .. Len(goQueue)
      BY <1>3, <1>4, <1>5, <3>2
    <3> QED BY <1>3, <1>4, <3>1, <3>2
  <2> QED BY <2>1
<1>7. \A g \in 1 .. Len(runs) : runs[g] = IF g <= b - Len(q) THEN 1 ELSE 0
  BY <1>5, RunsOf
<1> HIDE DEF q, b
<1>8. /\ \A g \in DOMAIN runs : runs[g] = IF g <= b /\ ~Contains(q, g) THEN 1 ELSE 0
      /\ q = [i \in 1 .. Len(q) |-> b - Len(q) + i]
  BY <1>3, <1>4, <1>5, <1>6, <1>7, QueueExact
<1>9. goQueue' = q /\ born' = b /\ runs' = runs
  BY <1>1 DEF q, b
<1>10. b + goMenu'.steps <= Len(runs)
  BY <1>2, <1>3 DEF b
<1>11. Goroutines'
  BY <1>2, <1>3, <1>4, <1>5, <1>8, <1>9, <1>10 DEF Goroutines, GoroutinesRunOnce
<1>12. Channels'
  BY <1>1, Program, ChannelsSame
<1> QED BY <1>11, <1>12, HalvesLater

LEMMA DrainRuns == ASSUME IInv, goDrain PROVE ProgramInv'
<1>1. /\ goQueue # <<>> /\ goQueue' = Tail(goQueue)
      /\ runs' = [runs EXCEPT ![Head(goQueue)] = @ + 1]
      /\ UNCHANGED <<goMenu, born, chans, sent, got>>
  BY DEF goDrain
<1>3. /\ born \in Nat /\ Len(runs) \in Nat /\ runs \in Seq(Nat) /\ goQueue \in Seq(Nat)
      /\ Len(goQueue) \in 0 .. born /\ born + goMenu.steps <= Len(runs) /\ goMenu.steps \in Nat
      /\ \A i \in 1 .. Len(goQueue) : goQueue[i] = born - Len(goQueue) + i
  BY Counted
<1> DEFINE q == Tail(goQueue)
           h == Head(goQueue)
           r == [runs EXCEPT ![h] = 1]
<1>4. /\ Len(goQueue) \in Nat /\ Len(goQueue) > 0
      /\ q \in Seq(Nat) /\ Len(q) = Len(goQueue) - 1
      /\ \A i \in 1 .. Len(q) : q[i] = goQueue[i + 1]
  BY <1>1, <1>3, HeadTailProperties
<1>5. h = goQueue[1] /\ h = born - Len(goQueue) + 1 /\ h \in 1 .. Len(runs)
  BY <1>3, <1>4
<1>6. runs[h] = 0
  BY <1>3, <1>5, RunsOf
<1>7. r \in Seq(Nat) /\ Len(r) = Len(runs) /\ r[h] = 1 /\ \A g \in 1 .. Len(runs) : g # h => r[g] = runs[g]
  <2> HIDE DEF h
  <2> QED BY <1>3, <1>5, Changed
<1> HIDE DEF q, h, r
<1>8. runs' = r
  BY <1>1, <1>6 DEF h, r
<1>9. \A i \in 1 .. Len(q) : q[i] = born - Len(q) + i
  <2>1. ASSUME NEW i \in 1 .. Len(q) PROVE q[i] = born - Len(q) + i
    <3>1. i + 1 \in 1 .. Len(goQueue)
      BY <1>4
    <3>2. q[i] = born - Len(goQueue) + (i + 1)
      BY <1>3, <1>4, <3>1
    <3> QED BY <1>3, <1>4, <3>2
  <2> QED BY <2>1
<1>10. \A g \in 1 .. Len(r) : r[g] = IF g <= born - Len(q) THEN 1 ELSE 0
  <2>1. ASSUME NEW g \in 1 .. Len(runs) PROVE r[g] = IF g <= born - Len(q) THEN 1 ELSE 0
    <3>1. CASE g = h
      BY <1>3, <1>4, <1>5, <1>7, <3>1
    <3>2. CASE g # h
      <4>1. r[g] = IF g <= born - Len(goQueue) THEN 1 ELSE 0
        BY <1>7, <3>2, RunsOf
      <4>2. g \in Nat /\ (g <= born - Len(goQueue) <=> g <= born - Len(q))
        <5>1. g \in Nat /\ born \in Nat /\ Len(goQueue) \in Nat /\ Len(q) = Len(goQueue) - 1
              /\ h = born - Len(goQueue) + 1 /\ g # h
          BY <1>3, <1>4, <1>5, <3>2
        <5> QED BY <5>1
      <4> QED BY <4>1, <4>2
    <3> QED BY <3>1, <3>2
  <2> QED BY <1>7, <2>1
<1>11. Len(q) <= born
  BY <1>3, <1>4
<1>12. /\ \A g \in DOMAIN r : r[g] = IF g <= born /\ ~Contains(q, g) THEN 1 ELSE 0
       /\ q = [i \in 1 .. Len(q) |-> born - Len(q) + i]
  BY <1>3, <1>4, <1>7, <1>9, <1>10, <1>11, QueueExact
<1>13. Goroutines'
  <2>1. goQueue' = q /\ born' = born /\ runs' = r /\ goMenu' = goMenu /\ goMenu \in [ops : SUBSET GoOps, steps : Nat]
    BY <1>1, <1>8 DEF q, IInv, GoTypeOK
  <2> QED BY <1>3, <1>4, <1>7, <1>11, <1>12, <2>1 DEF Goroutines, GoroutinesRunOnce
<1>14. Channels'
  BY <1>1, Program, ChannelsSame
<1> QED BY <1>13, <1>14, HalvesLater

LEMMA SendRuns == ASSUME IInv, NEW c \in Chan, js_gochan_send(c) PROVE ProgramInv'
<1>1. GoDoes("send") /\ UNCHANGED <<goQueue, born, runs, got>>
  BY DEF js_gochan_send
<1>2. /\ goMenu' \in [ops : SUBSET GoOps, steps : Nat] /\ goMenu.steps \in Nat /\ goMenu'.steps = goMenu.steps - 1
  BY <1>1, MenuStep
<1>3. Goroutines'
  <2>1. goMenu'.steps <= goMenu.steps
    BY <1>2
  <2> QED BY <1>1, <1>2, <2>1, Program, GoroutinesSame
<1>4. Channels'
  <2>1. CASE chans[c].closed
    BY <1>1, <2>1, Program, ChannelsSame DEF js_gochan_send
  <2>2. CASE ~chans[c].closed
    <3> DEFINE b == chans[c].buf
               a == Append(b, sent[c] + 1)
    <3>1. /\ sent[c] \in Nat /\ got[c] \in Nat /\ got[c] <= sent[c] /\ b \in Seq(Nat) /\ Len(b) = sent[c] - got[c]
          /\ \A i \in 1 .. Len(b) : b[i] = got[c] + i
      BY Buffer
    <3>2. chans \in [Chan -> [buf : Seq(Nat), closed : BOOLEAN]] /\ got \in [Chan -> Nat] /\ sent \in [Chan -> Nat]
      BY DEF IInv, GoTypeOK
    <3>3. /\ sent' = [sent EXCEPT ![c] = sent[c] + 1] /\ chans' = [chans EXCEPT ![c].buf = Append(b, sent'[c])]
      BY <2>2 DEF js_gochan_send
    <3>4. sent' \in [Chan -> Nat] /\ sent'[c] = sent[c] + 1 /\ \A d \in Chan : d # c => sent'[d] = sent[d]
      BY <3>1, <3>2, <3>3
    <3>5. /\ a \in Seq(Nat) /\ Len(a) = Len(b) + 1 /\ a[Len(b) + 1] = sent[c] + 1
          /\ \A i \in 1 .. Len(b) : a[i] = b[i]
      BY <3>1, Appended
    <3>6. chans' = [chans EXCEPT ![c].buf = a]
      BY <3>3, <3>4
    <3> HIDE DEF a, b
    <3>7. /\ chans' \in [Chan -> [buf : Seq(Nat), closed : BOOLEAN]]
          /\ chans'[c].buf = a /\ \A d \in Chan : d # c => chans'[d] = chans[d]
      BY <3>2, <3>5, <3>6
    <3>8. ASSUME NEW d \in Chan PROVE Exact(d)'
      <4>1. CASE d # c
        <5>1. Exact(d)
          BY Program DEF Channels
        <5> QED BY <1>1, <3>4, <3>7, <4>1, <5>1 DEF Exact
      <4>2. CASE d = c
        <5>1. Len(a) = (sent[c] + 1) - got[c] /\ \A i \in 1 .. Len(a) : a[i] = got[c] + i
          <6>1. Len(a) = (sent[c] + 1) - got[c] /\ Len(b) \in Nat
            BY <3>1, <3>5
          <6>2. ASSUME NEW i \in 1 .. Len(a) PROVE a[i] = got[c] + i
            <7>1. CASE i = Len(b) + 1
              BY <3>1, <3>5, <7>1
            <7>2. CASE i \in 1 .. Len(b)
              BY <3>1, <3>5, <7>2
            <7> QED BY <3>5, <6>1, <7>1, <7>2
          <6> QED BY <6>1, <6>2
        <5>2. a = [i \in 1 .. Len(a) |-> a[i]]
          BY <3>5
        <5>3. a = [i \in 1 .. Len(a) |-> got[c] + i]
          BY <5>1, <5>2
        <5>4. a = [i \in 1 .. (sent[c] + 1) - got[c] |-> got[c] + i]
          BY <5>1, <5>3
        <5>5. got[c] <= sent[c] + 1
          BY <3>1
        <5> QED BY <1>1, <3>4, <3>7, <4>2, <5>4, <5>5 DEF Exact
      <4> QED BY <4>1, <4>2
    <3> QED BY <1>1, <3>2, <3>4, <3>7, <3>8 DEF Channels
  <2> QED BY <2>1, <2>2
<1> QED BY <1>3, <1>4, HalvesLater

LEMMA CloseRuns == ASSUME IInv, NEW c \in Chan, js_gochan_close(c) PROVE ProgramInv'
<1>1. /\ GoDoes("close") /\ UNCHANGED <<goQueue, born, runs, sent, got>>
      /\ chans' = [chans EXCEPT ![c].closed = TRUE]
  BY DEF js_gochan_close
<1>2. /\ goMenu' \in [ops : SUBSET GoOps, steps : Nat] /\ goMenu.steps \in Nat /\ goMenu'.steps = goMenu.steps - 1
  BY <1>1, MenuStep
<1>3. Goroutines'
  <2>1. goMenu'.steps <= goMenu.steps
    BY <1>2
  <2> QED BY <1>1, <1>2, <2>1, Program, GoroutinesSame
<1>4. Channels'
  <2>1. chans \in [Chan -> [buf : Seq(Nat), closed : BOOLEAN]] /\ Channels
    BY Program DEF Channels
  <2>2. /\ chans' \in [Chan -> [buf : Seq(Nat), closed : BOOLEAN]]
        /\ \A d \in Chan : chans'[d].buf = chans[d].buf
    BY <1>1, <2>1
  <2> QED BY <1>1, <2>1, <2>2 DEF Channels, Exact
<1> QED BY <1>3, <1>4, HalvesLater

\* A receive, or a range, that takes what is there, before a drain or after it.
LEMMA TakeRuns ==
  ASSUME IInv, NEW op, NEW c \in Chan, Take(op, c), op = "range" \/ ~Empty(c),
         UNCHANGED <<sent, goQueue, born, runs>>, UNCHANGED goMenu \/ \E o \in GoOps : GoDoes(o)
  PROVE  ProgramInv'
<1>1. goMenu' \in [ops : SUBSET GoOps, steps : Nat] /\ goMenu'.steps <= goMenu.steps
  <2>1. CASE UNCHANGED goMenu
    BY <2>1 DEF IInv, GoTypeOK
  <2>2. ASSUME NEW o \in GoOps, GoDoes(o) PROVE goMenu' \in [ops : SUBSET GoOps, steps : Nat] /\ goMenu'.steps <= goMenu.steps
    <3>1. /\ goMenu' \in [ops : SUBSET GoOps, steps : Nat] /\ goMenu.steps \in Nat
          /\ goMenu'.steps = goMenu.steps - 1
      BY <2>2, MenuStep
    <3> QED BY <3>1
  <2> QED BY <2>1, <2>2
<1>2. Goroutines'
  BY <1>1, Program, GoroutinesSame
<1>3. sent' \in [Chan -> Nat]
  BY DEF IInv, GoTypeOK
<1>4. Channels'
  BY <1>3, TakeIsExact DEF Channels
<1> QED BY <1>2, <1>4, HalvesLater

-----------------------------------------------------------------------------
(* The steps, for the host stack and the panics.                           *)

Panics == PanicValue \cup {None}

StackType ==
  /\ goStack \in Seq(Activation) /\ exc \in Panics /\ goOver \in Panics \cup {"exit"}
  /\ goPanics \in Seq(Panics) /\ goDeferAt \in Seq(Nat)

StackInv == StackType /\ Outer /\ Fits

LEMMA Stacks == ASSUME IInv PROVE StackInv /\ GoTypeOK /\ Shape
<1>1. StackType
  BY DEF StackType, IInv, GoTypeOK, Panics, Activation
<1>2. Outer /\ Fits
  BY DEF Outer, Fits, IInv, PanicInv
<1> QED BY <1>1, <1>2 DEF StackInv, IInv, Outer

LEMMA Frame ==
  ASSUME NEW role \in Roles
  PROVE  /\ Function(role) \in Activation /\ Function(role).role = role /\ role # "drain"
         /\ Function(role).phase = "body" /\ Function(role).pan = None
BY DEF Function, Activation, FrameSet, Roles

\* What runs, or is left, is in progress.
LEMMA InProgress == ASSUME IInv, exc # None PROVE goOver = None
BY Stacks DEF StackInv, Outer, Unwinding

LEMMA NotDeferring == ASSUME IInv, GoRunning PROVE Depth \notin Deferring /\ Depth \in Frames
<1>1. Depth \in Nat /\ Depth > 0 /\ GoTop = goStack[Depth]
  BY Stacks, Activations DEF GoTop
<1> QED BY <1>1 DEF GoRunning, Deferring, Frames

LEMMA EntryThere == ASSUME IInv, goOver = None PROVE Len(goPanics) > 0 /\ Len(goPanics) \in Nat
<1>1. 1 \in Frames
  BY Stacks, Activations
<1>2. Place(Frames, 1) \in 1 .. Cardinality(Frames)
  BY <1>1, Stacks, FramePlace
<1>3. Len(goPanics) \in Nat /\ Cardinality(Frames) \in Nat /\ Cardinality(Frames) <= Len(goPanics)
  BY Stacks, Sizes DEF StackInv
<1> QED BY <1>2, <1>3

LEMMA DeferThere == ASSUME IInv, goOver = None, Depth \in Deferring PROVE Len(goDeferAt) > 0 /\ Len(goDeferAt) \in Nat
<1>1. Place(Deferring, Depth) \in 1 .. Len(goDeferAt)
  BY Stacks, PlaceOfDeferring DEF StackInv, Fits
<1>2. Len(goDeferAt) \in Nat
  BY Stacks, StackSets
<1> QED BY <1>1, <1>2

\* No activation comes or goes.
LEMMA StaysInv ==
  ASSUME IInv, goOver = None, UNCHANGED <<goPanics, goDeferAt, goOver>>, Alike(goStack'), exc' \in Panics
  PROVE  StackInv'
<1>1. GoTypeOK /\ Outer /\ Fits /\ StackType
  BY Stacks DEF StackInv
<1>2. /\ Outer' /\ Frames' = Frames /\ Deferring' = Deferring /\ goStack' \in Seq(Activation)
      /\ \A k \in Frames : goStack'[k].pan = goStack[k].pan
  BY <1>1, Steady DEF Alike
<1>3. Fits'
  BY <1>1, <1>2, SameFits
<1>4. StackType'
  BY <1>1, <1>2 DEF StackType
<1> QED BY <1>2, <1>3, <1>4 DEF StackInv

LEMMA CallsSame == ASSUME IInv, goOver = None, UNCHANGED calls, exc' \in Panics PROVE StackInv'
<1>1. UNCHANGED <<goPanics, goDeferAt, goOver>> /\ goStack' = goStack
  BY DEF calls
<1>2. Alike(goStack)
  BY Stacks, Itself
<1>3. Alike(goStack')
  BY <1>1, <1>2
<1> QED BY <1>1, <1>3, StaysInv

LEMMA EnterInv ==
  ASSUME IInv, goOver = None, UNCHANGED <<exc, goDeferAt, goOver>>, NEW t, Alike(t),
         NEW role \in Roles, role # "top", Depth \in Deferring <=> role = "deferred",
         goStack' = Append(t, Function(role)), goPanics' = Append(goPanics, None)
  PROVE  StackInv'
<1>1. GoTypeOK /\ Outer /\ Fits /\ StackType
  BY Stacks DEF StackInv
<1> DEFINE a == Function(role)
<1>3. /\ a \in Activation /\ a.role = role /\ role # "drain" /\ a.phase = "body" /\ a.pan = None
  BY Frame
<1> HIDE DEF a
<1>4. goStack' = Append(t, a) /\ (goOver' # None => exc' = None)
  BY <1>1 DEF a, Outer, Unwinding
<1>5. /\ Outer' /\ goStack' \in Seq(Activation) /\ Deferring' = Deferring
      /\ Frames' = Frames \cup {Depth + 1}
      /\ \A k \in Frames : goStack'[k].pan = goStack[k].pan
      /\ goStack'[Depth + 1] = a
  BY <1>1, <1>3, <1>4, Pushing
<1>6. /\ goPanics' \in Seq(Panics) /\ Len(goPanics') = Len(goPanics) + 1
      /\ \A i \in 1 .. Len(goPanics) : goPanics'[i] = goPanics[i]
      /\ goPanics'[Len(goPanics) + 1] = None
  <2>1. goPanics \in Seq(Panics) /\ None \in Panics
    BY <1>1 DEF StackType, Panics
  <2> QED BY <2>1, Appended
<1>7. Fits'
  BY <1>1, <1>3, <1>5, <1>6, EnterFits
<1>8. StackType'
  BY <1>1, <1>5, <1>6 DEF StackType
<1> QED BY <1>5, <1>7, <1>8 DEF StackInv

LEMMA LeaveInv ==
  ASSUME IInv, goOver = None, UNCHANGED goOver, exc' = None,
         IsFunction(GoTop), GoTop.phase = "body", GoTop.role # "top",
         NEW p \in Panics, NEW panics \in Seq(Panics), Leave(p, panics), Len(panics) = Len(goPanics),
         \A i \in 1 .. Len(goPanics) - 1 : panics[i] = goPanics[i],
         Aligned => panics[Len(goPanics)] = p
  PROVE  StackInv'
<1>1. GoTypeOK /\ Outer /\ Fits /\ StackType
  BY Stacks DEF StackInv
<1>2. /\ goStack' = SetTop(goStack, [GoTop EXCEPT !.phase = "defers", !.pan = p])
      /\ goPanics' = panics /\ goDeferAt' = Append(goDeferAt, Len(goPanics))
  BY DEF Leave
<1>3. /\ Outer' /\ goStack' \in Seq(Activation) /\ Depth \in Frames /\ Depth \notin Deferring
      /\ Frames' = Frames /\ Deferring' = Deferring \cup {Depth}
      /\ \A k \in Frames \ {Depth} : goStack'[k].pan = goStack[k].pan
      /\ goStack'[Depth].pan = p
  <2>1. p \in PanicValue \cup {None}
    BY DEF Panics
  <2> QED BY <1>1, <1>2, <2>1, Leaving
<1>4. Fits'
  BY <1>1, <1>2, <1>3, LeaveFits
<1>5. StackType'
  <2>1. goDeferAt \in Seq(Nat) /\ Len(goPanics) \in Nat
    BY <1>1 DEF StackType
  <2>2. goDeferAt' \in Seq(Nat)
    BY <1>2, <2>1, Appended
  <2>3. exc' \in Panics
    BY DEF Panics
  <2> QED BY <1>1, <1>2, <1>3, <2>2, <2>3 DEF StackType
<1> QED BY <1>3, <1>4, <1>5 DEF StackInv

\* A frame whose deferred functions ran, or one of them panicked, is left.
LEMMA GoneInv ==
  ASSUME IInv, InDefers, UNCHANGED goOver, exc' \in Panics, goStack' = GoPop(goStack), goDeferAt' = GoPop(goDeferAt),
         goPanics' \in {goPanics, GoPop(goPanics)}
  PROVE  StackInv'
<1>1. GoTypeOK /\ Outer /\ Fits /\ StackType /\ goOver = None
  BY Stacks DEF StackInv, InDefers
<1>2. Depth \in Deferring /\ GoTop.role # "top"
  <2>1. Depth \in Nat /\ Depth > 0 /\ GoTop = goStack[Depth]
    BY Stacks, Activations DEF GoTop
  <2>2. Depth \in Deferring
    BY <2>1 DEF InDefers, Frames, Deferring
  <2>3. Depth # 1
    BY <2>2, Stacks, Activations
  <2> QED BY <1>1, <2>1, <2>2, <2>3 DEF Outer, Shape
<1>3. goOver' # None => exc' = None
  BY <1>1
<1>4. /\ Outer' /\ goStack' \in Seq(Activation)
      /\ Frames' = Frames \ {Depth} /\ Deferring' = Deferring \ {Depth}
      /\ \A k \in Frames \ {Depth} : goStack'[k].pan = goStack[k].pan
  BY <1>1, <1>2, <1>3, Popping
<1>5. /\ goDeferAt' \in Seq(Nat) /\ Len(goDeferAt') = Len(goDeferAt) - 1
      /\ \A i \in 1 .. Len(goDeferAt) - 1 : goDeferAt'[i] = goDeferAt[i]
  BY <1>1, <1>2, DeferThere, Fronts DEF StackType, GoPop
<1>6. /\ goPanics' \in Seq(Panics) /\ Len(goPanics') \in {Len(goPanics), Len(goPanics) - 1}
      /\ \A i \in 1 .. Len(goPanics') : goPanics'[i] = goPanics[i]
  <2>1. goPanics \in Seq(Panics) /\ Len(goPanics) > 0
    BY <1>1, EntryThere DEF StackType
  <2>2. /\ GoPop(goPanics) \in Seq(Panics) /\ Len(GoPop(goPanics)) = Len(goPanics) - 1
        /\ \A i \in 1 .. Len(goPanics) - 1 : GoPop(goPanics)[i] = goPanics[i]
    BY <2>1, Fronts DEF GoPop
  <2> QED BY <2>1, <2>2
<1>7. Fits'
  BY <1>1, <1>2, <1>4, <1>5, <1>6, GoneFits
<1>8. StackType'
  BY <1>1, <1>4, <1>5, <1>6 DEF StackType
<1> QED BY <1>4, <1>7, <1>8 DEF StackInv

LEMMA DrainGoneInv ==
  ASSUME IInv, goOver = None, UNCHANGED <<goOver, goPanics, goDeferAt>>, exc' \in Panics,
         GoTop.role = "drain", goStack' = GoPop(goStack)
  PROVE  StackInv'
<1>1. GoTypeOK /\ Outer /\ Fits /\ StackType
  BY Stacks DEF StackInv
<1>2. Depth \notin Frames /\ Depth \notin Deferring
  BY DEF Frames, Deferring, IsFunction, GoTop
<1>3. /\ Outer' /\ goStack' \in Seq(Activation)
      /\ Frames' = Frames \ {Depth} /\ Deferring' = Deferring \ {Depth}
      /\ \A k \in Frames \ {Depth} : goStack'[k].pan = goStack[k].pan
  BY <1>1, Popping
<1>4. Frames' = Frames /\ Deferring' = Deferring /\ \A k \in Frames : goStack'[k].pan = goStack[k].pan
  BY <1>2, <1>3
<1>5. Fits'
  BY <1>1, <1>4, SameFits
<1>6. StackType'
  BY <1>1, <1>3 DEF StackType
<1> QED BY <1>3, <1>5, <1>6 DEF StackInv

-----------------------------------------------------------------------------
(* recover().                                                              *)

\* A set of numbers up to n that is not empty has a last one.
LEMMA LastOf ==
  ASSUME NEW n \in Nat, NEW S \in SUBSET (1 .. n), S # {}
  PROVE  \E k \in S : \A j \in S : j <= k
<1> DEFINE R == OpToRel(<, Nat)
           T == {n - k : k \in S}
<1>1. T \subseteq Nat /\ T # {}
  <2>1. PICK k \in S : TRUE
    OBVIOUS
  <2>2. n - k \in T
    BY <2>1
  <2>3. \A j \in S : j \in 1 .. n /\ n - j \in Nat
    OBVIOUS
  <2> QED BY <2>2, <2>3
<1>2. IsWellFoundedOn(R, Nat)
  BY NatLessThanWellFounded
<1>3. \A x, y \in Nat : y < x => <<y, x>> \in R
  BY DEF OpToRel
<1> HIDE DEF R, T
<1>4. PICK x \in T : \A y \in T : ~(<<y, x>> \in R)
  BY <1>1, <1>2, WFMin, Zenon
<1>5. \A y \in T : ~(y < x)
  BY <1>1, <1>3, <1>4
<1>6. PICK k \in S : x = n - k
  BY <1>4 DEF T
<1>7. ASSUME NEW j \in S PROVE j <= k
  <2>1. n - j \in T
    BY DEF T
  <2>2. ~(n - j < n - k)
    BY <1>5, <1>6, <2>1
  <2> QED BY <2>2
<1> QED BY <1>7

\* The function that a deferring frame deferred, and it alone, is one entry above it.
LEMMA DeferredAbove ==
  ASSUME IInv, GoRunning, Aligned, GoTop.role = "deferred"
  PROVE  /\ Depth - 1 \in Deferring /\ Depth - 1 \in Frames /\ goDeferAt # <<>>
         /\ Last(goDeferAt) = Place(Frames, Depth - 1)
         /\ Len(goPanics) = Place(Frames, Depth - 1) + 1
         /\ Place(Frames, Depth - 1) \in 1 .. Len(goPanics)
<1> DEFINE n == Depth
<1>1. GoTypeOK /\ Outer /\ Fits /\ goOver = None
  BY Stacks DEF StackInv, GoRunning
<1>2. n \in Nat /\ n > 0 /\ n \in Frames /\ n \notin Deferring /\ GoTop = goStack[n]
  BY Stacks, Activations, NotDeferring DEF GoTop
<1>3. n > 1
  BY <1>1, <1>2 DEF Outer, Shape
<1>4. n - 1 \in Deferring /\ n - 1 \in Frames /\ n - 1 \in Nat
  <2>1. n - 1 \in 1 .. n - 1 /\ goStack[(n - 1) + 1].role = "deferred"
    BY <1>2, <1>3
  <2> QED BY <1>1, <2>1 DEF Outer, Shape, Deferring
<1>5. Frames \in SUBSET (1 .. n) /\ Deferring \in SUBSET (1 .. n - 1) /\ Frames \ {n} \in SUBSET (1 .. n - 1)
  BY <1>1, <1>2, StackSets
<1>6. Len(goDeferAt) = Cardinality(Deferring) /\ Len(goPanics) = Cardinality(Frames) /\ Cardinality(Frames) \in Nat
  BY <1>1, Sizes DEF Aligned
<1> HIDE DEF n
<1>7. Place(Deferring, n - 1) = Cardinality(Deferring)
  BY <1>4, <1>5, PlaceAtBound
<1>8. Cardinality(Frames \ {n}) = Cardinality(Frames) - 1 /\ Place(Frames \ {n}, n - 1) = Place(Frames, n - 1)
  <2>1. n - 1 \in 0 .. n - 1
    BY <1>4
  <2> QED BY <1>2, <1>5, <2>1, PlaceRemove
<1>9. Place(Frames \ {n}, n - 1) = Cardinality(Frames \ {n})
  BY <1>4, <1>5, PlaceAtBound
<1>10. /\ goDeferAt[Place(Deferring, n - 1)] = Place(Frames, n - 1)
       /\ Place(Deferring, n - 1) \in 1 .. Len(goDeferAt)
  BY <1>1, <1>4, InPlace, PlaceOfDeferring DEF Fits
<1>11. goDeferAt # <<>> /\ Last(goDeferAt) = Place(Frames, n - 1)
  BY <1>6, <1>7, <1>10 DEF Last
<1>12. Place(Frames, n - 1) \in 1 .. Cardinality(Frames)
  BY <1>1, <1>4, FramePlace
<1> QED BY <1>4, <1>6, <1>8, <1>9, <1>11, <1>12 DEF n

LEMMA RecoverIsThere ==
  ASSUME IInv, goOver = None, RecoverAt # 0
  PROVE  RecoverAt \in 1 .. Len(goPanics) /\ goDeferAt # <<>> /\ RecoverAt = Last(goDeferAt)
         /\ Len(goPanics) <= RecoverAt + 1
<1>1. goDeferAt # <<>> /\ RecoverAt = Last(goDeferAt) /\ ~(RecoverAt > Len(goPanics))
      /\ ~(Len(goPanics) > RecoverAt + 1)
  BY DEF RecoverAt
<1>2. goDeferAt \in Seq(Nat) /\ Len(goPanics) \in Nat
  BY Stacks, StackSets DEF StackInv, StackType
<1>3. Last(goDeferAt) \in Nat
  BY <1>1, <1>2, Fronts
<1> QED BY <1>1, <1>2, <1>3

\* As long as no deferred function has panicked, only a deferred function recovers.
LEMMA RecoversBelow ==
  ASSUME IInv, GoRunning, Aligned, RecoverAt # 0
  PROVE  GoTop.role = "deferred"
<1> DEFINE n == Depth
<1>1. GoTypeOK /\ Outer /\ Fits /\ goOver = None
  BY Stacks DEF StackInv, GoRunning
<1>2. n \in Nat /\ n > 0 /\ n \in Frames /\ n \notin Deferring /\ GoTop = goStack[n]
  BY Stacks, Activations, NotDeferring DEF GoTop
<1>3. /\ RecoverAt \in 1 .. Len(goPanics) /\ goDeferAt # <<>> /\ RecoverAt = Last(goDeferAt)
      /\ Len(goPanics) <= RecoverAt + 1
  BY <1>1, RecoverIsThere
<1>4. /\ Len(goDeferAt) = Cardinality(Deferring) /\ Len(goPanics) = Cardinality(Frames)
      /\ Cardinality(Frames) \in Nat /\ Place(Frames, n) = Cardinality(Frames)
  BY <1>1, Sizes DEF Aligned
<1>5. Deferring # {}
  <2>1. Len(goDeferAt) # 0
    BY <1>1, <1>3 DEF GoTypeOK
  <2> QED BY <1>4, <2>1, FS_EmptySet
<1>6. PICK k \in Deferring : \A j \in Deferring : j <= k
  BY <1>1, <1>5, StackSets, LastOf
<1>7. k \in Nat /\ k \in Frames /\ k < n /\ k > 0
  BY <1>1, <1>2, <1>6, StackSets
<1>8. Place(Deferring, k) = Cardinality(Deferring)
  <2>1. Deferring \in SUBSET (1 .. k)
    BY <1>1, <1>6, <1>7, StackSets
  <2> QED BY <1>7, <2>1, PlaceFacts
<1>9. RecoverAt = Place(Frames, k)
  <2>1. goDeferAt[Place(Deferring, k)] = Place(Frames, k)
    BY <1>1, <1>6, InPlace
  <2> QED BY <1>3, <1>4, <1>8, <2>1 DEF Last
<1>10. goStack[k + 1].role = "deferred" /\ k + 1 \in Frames
  <2>1. k \in 1 .. n - 1 /\ k + 1 \in 1 .. n
    BY <1>2, <1>7
  <2>2. goStack[k + 1].role = "deferred"
    BY <1>1, <1>6, <2>1 DEF Outer, Shape
  <2> QED BY <2>1, <2>2 DEF Frames, IsFunction
<1>11. CASE k + 1 = n
  BY <1>2, <1>10, <1>11
<1>12. CASE k + 1 < n
  <2>1. Place(Frames, k) + 1 <= Place(Frames, k + 1) /\ Place(Frames, k) \in Nat /\ Place(Frames, k + 1) \in Nat
    <3> HIDE DEF n
    <3>1. k \in Nat /\ k + 1 \in Nat /\ k < k + 1
      BY <1>7
    <3>2. Place(Frames, k) + 1 <= Place(Frames, k + 1)
      BY <1>1, <1>10, <3>1, StackSets, PlaceFacts
    <3>3. Place(Frames, k) \in Nat /\ Place(Frames, k + 1) \in Nat
      BY <1>1, <3>1, StackSets, PlaceFacts
    <3> QED BY <3>2, <3>3
  <2>2. Place(Frames, k + 1) + 1 <= Place(Frames, n)
    <3>1. k + 1 \in Nat /\ k + 1 < n /\ n \in Frames
      BY <1>2, <1>7, <1>12
    <3> HIDE DEF n
    <3> QED BY <1>1, <3>1, StackSets, PlaceFacts
  <2> QED BY <1>3, <1>4, <1>9, <2>1, <2>2
<1> QED BY <1>2, <1>7, <1>11, <1>12

\* The panic of a frame and its entry go together.
LEMMA RecoverInv == ASSUME IInv, js_gorecover PROVE StackInv'
<1> DEFINE n == Depth
<1>1. /\ GoRunning /\ UNCHANGED <<exc, goDeferAt, goOver>>
      /\ goPanics' = IF RecoverAt = 0 THEN goPanics ELSE [goPanics EXCEPT ![RecoverAt] = None]
      /\ goStack' = IF RecoverAt = 0 \/ GoTop.role # "deferred" THEN goStack
                  ELSE [goStack EXCEPT ![n - 1].pan = None]
  BY DEF js_gorecover, GoDoes
<1>2. GoTypeOK /\ Outer /\ Fits /\ goOver = None /\ StackType
  BY <1>1, Stacks DEF StackInv, GoRunning
<1>3. CASE RecoverAt = 0
  <2>1. goStack' = goStack /\ goPanics' = goPanics /\ exc' \in Panics
    BY <1>1, <1>2, <1>3 DEF StackType
  <2> QED BY <1>1, <1>2, <2>1, CallsSame DEF calls
<1>4. CASE RecoverAt # 0
  <2>1. RecoverAt \in 1 .. Len(goPanics)
    BY <1>2, <1>4, RecoverIsThere
  <2>2. /\ goPanics' \in Seq(Panics) /\ Len(goPanics') = Len(goPanics) /\ goPanics'[RecoverAt] = None
        /\ \A i \in 1 .. Len(goPanics) : i # RecoverAt => goPanics'[i] = goPanics[i]
    <3>1. goPanics \in Seq(Panics) /\ None \in Panics
      BY <1>2 DEF StackType, Panics
    <3> QED BY <1>1, <1>4, <2>1, <3>1, Changed
  <2>3. /\ n \in Nat /\ n > 0 /\ goStack \in Seq(Activation) /\ Len(goStack) = n /\ n \in Frames /\ n \notin Deferring
        /\ GoTop = goStack[n]
    BY <1>1, Stacks, Activations, NotDeferring DEF GoTop, Depth
  <2>4. GoTop.role = "deferred" => n - 1 \in Deferring /\ n - 1 \in Frames /\ n - 1 \in 1 .. n /\ goStack[n - 1] \in FrameSet
    <3>1. ASSUME GoTop.role = "deferred" PROVE n - 1 \in Deferring
      <4>1. n # 1
        BY <1>2, <2>3, <3>1 DEF Outer, Shape
      <4>2. n - 1 \in 1 .. n - 1 /\ goStack[(n - 1) + 1].role = "deferred"
        BY <2>3, <3>1, <4>1
      <4> QED BY <1>2, <4>2 DEF Outer, Shape
    <3> QED BY <3>1, Stacks, Activations DEF Deferring
  <2>5. /\ goStack' \in Seq(Activation) /\ Len(goStack') = n
        /\ \A k \in 1 .. n : k # n - 1 => goStack'[k] = goStack[k]
        /\ \A k \in 1 .. n : /\ goStack'[k].role = goStack[k].role
                             /\ IsFunction(goStack[k]) => goStack'[k].phase = goStack[k].phase
                             /\ ~IsFunction(goStack[k]) => goStack'[k] = goStack[k]
        /\ GoTop.role = "deferred" => goStack'[n - 1].pan = None
        /\ GoTop.role # "deferred" => goStack' = goStack
    <3>1. CASE GoTop.role # "deferred"
      BY <1>1, <2>3, <3>1
    <3>2. CASE GoTop.role = "deferred"
      <4> DEFINE x == [goStack[n - 1] EXCEPT !.pan = None]
      <4>1. x \in FrameSet /\ x.pan = None /\ x.role = goStack[n - 1].role /\ x.phase = goStack[n - 1].phase
        BY <2>4, <3>2 DEF FrameSet
      <4>2. goStack' = [goStack EXCEPT ![n - 1] = x] /\ x \in Activation
        BY <1>1, <1>4, <3>2, <4>1 DEF Activation
      <4>3. n - 1 \in 1 .. n /\ IsFunction(goStack[n - 1])
        BY <2>4, <3>2 DEF Frames
      <4> HIDE DEF x, n
      <4>4. /\ goStack' \in Seq(Activation) /\ Len(goStack') = n /\ goStack'[n - 1] = x
            /\ \A i \in 1 .. n : i # n - 1 => goStack'[i] = goStack[i]
        BY <2>3, <4>2, <4>3, Changed
      <4> QED BY <3>2, <4>1, <4>3, <4>4
    <3> QED BY <3>1, <3>2
  <2>6. Depth' = n
    BY <2>5 DEF Depth
  <2> HIDE DEF n
  <2>7. Frames' = Frames
    BY <2>3, <2>5, <2>6 DEF Frames, IsFunction, n
  <2>8. Deferring' = Deferring
    BY <2>3, <2>5, <2>7 DEF Deferring, Frames, n
  <2>9. Outer'
    <3>1. goStack' # <<>> /\ goStack'[1].role = "top" /\ goStack'[1].phase = "body"
      BY <1>2, <2>3, <2>5 DEF Outer, Shape, IsFunction
    <3>2. \A k \in 2 .. Depth' : goStack'[k].role # "top"
      BY <1>2, <2>3, <2>5, <2>6 DEF Outer, Shape, n
    <3>3. ASSUME NEW k \in 1 .. Depth' - 1 PROVE k \in Deferring' <=> goStack'[k + 1].role = "deferred"
      <4>1. k \in 1 .. n - 1 /\ k + 1 \in 1 .. n
        BY <2>3, <2>6
      <4> QED BY <1>2, <2>5, <2>8, <4>1 DEF Outer, Shape, n
    <3>4. \A k \in 1 .. Depth' : goStack'[k].role = "drain" => goStack'[k].op = "drain" \/ goStack'[k].chan \in Chan
      BY <1>2, <2>3, <2>5, <2>6 DEF Outer, Shape, n, IsFunction
    <3>5. ASSUME NEW k \in Frames', goStack'[k].phase = "body" PROVE goStack'[k].pan = None
      <4>1. k \in Frames /\ k \in 1 .. n
        BY <2>7 DEF Frames, n
      <4>2. CASE k = n - 1 /\ GoTop.role = "deferred"
        BY <2>5, <4>2
      <4>3. CASE k # n - 1 \/ GoTop.role # "deferred"
        BY <1>2, <2>5, <3>5, <4>1, <4>3 DEF Outer, Unwinding
      <4> QED BY <4>2, <4>3
    <3>6. goOver' # None => exc' = None
      BY <1>1, <1>2
    <3> QED BY <3>1, <3>2, <3>3, <3>4, <3>5, <3>6 DEF Outer, Shape, Unwinding
  <2>10. PanicStackSuffices' /\ Slack'
    BY <1>1, <1>2, <2>2, <2>7, <2>8 DEF Fits, PanicStackSuffices, Slack
  <2>11. ASSUME Aligned' PROVE PanicsBelongToFrames'
    <3>1. Aligned
      BY <2>2, <2>7, <2>11 DEF Aligned
    <3>2. GoTop.role = "deferred"
      BY <1>1, <1>4, <3>1, RecoversBelow
    <3>3. /\ n - 1 \in Frames /\ RecoverAt = Place(Frames, n - 1)
      BY <1>1, <1>2, <1>4, <3>1, <3>2, DeferredAbove, RecoverIsThere DEF n
    <3>4. /\ \A k \in Deferring : goDeferAt[Place(Deferring, k)] = Place(Frames, k)
          /\ \A k \in Frames : goPanics[Place(Frames, k)] = goStack[k].pan
      BY <1>2, <3>1, InPlace
    <3>5. ASSUME NEW k \in Frames PROVE goPanics'[Place(Frames, k)] = goStack'[k].pan
      <4>1. CASE k = n - 1
        BY <2>2, <2>5, <3>2, <3>3, <4>1
      <4>2. CASE k # n - 1
        <5>1. k \in 1 .. n /\ k \in Nat /\ n - 1 \in Nat
          BY <1>2, <3>3, StackSets DEF n
        <5>2. Place(Frames, k) # Place(Frames, n - 1)
          <6>1. /\ k < n - 1 => Place(Frames, k) + 1 <= Place(Frames, n - 1)
                /\ n - 1 < k => Place(Frames, n - 1) + 1 <= Place(Frames, k)
            BY <1>2, <3>3, <5>1, StackSets, PlaceFacts
          <6>2. Place(Frames, k) \in Nat /\ Place(Frames, n - 1) \in Nat
            BY <1>2, <5>1, StackSets, PlaceFacts
          <6> QED BY <4>2, <5>1, <6>1, <6>2
        <5>3. Place(Frames, k) \in 1 .. Len(goPanics)
          BY <1>2, <3>1, FramePlace DEF Aligned
        <5> QED BY <2>2, <2>5, <3>3, <3>4, <4>2, <5>1, <5>2, <5>3
      <4> QED BY <4>1, <4>2
    <3> QED BY <1>1, <2>7, <2>8, <3>4, <3>5 DEF PanicsBelongToFrames
  <2>12. Fits'
    BY <2>10, <2>11 DEF Fits, PanicsBelongToFrames
  <2> QED BY <1>1, <1>2, <2>2, <2>5, <2>9, <2>12 DEF StackInv, StackType
<1> QED BY <1>3, <1>4

-----------------------------------------------------------------------------
(* The steps.                                                              *)

LEMMA Calling == ASSUME IInv, GoRunning PROVE goOver = None /\ exc = None /\ exc \in Panics
BY Stacks DEF GoRunning, StackInv, StackType

\* An operation of the program that leaves the frames alone.
LEMMA OperationInv == ASSUME IInv, NEW op, GoDoes(op), UNCHANGED calls, exc' \in Panics PROVE StackInv'
BY Calling, CallsSame DEF GoDoes

LEMMA CallInv == ASSUME IInv, Call PROVE StackInv'
<1>1. /\ GoRunning /\ UNCHANGED <<exc, goDeferAt, goOver>>
      /\ goStack' = Append(goStack, Function("call")) /\ goPanics' = Append(goPanics, None)
  BY DEF Call, GoDoes, Enter, Push
<1>2. goOver = None /\ Alike(goStack) /\ Depth \notin Deferring
  BY <1>1, Calling, Stacks, Itself, NotDeferring
<1>3. "call" \in Roles /\ "call" # "top" /\ "call" # "deferred"
  BY DEF Roles
<1> QED BY <1>1, <1>2, <1>3, EnterInv

\* Setting how many deferred functions wait changes nothing else of a frame.
LEMMA Waits ==
  ASSUME IInv, IsFunction(GoTop), NEW d \in Nat
  PROVE  Alike(SetTop(goStack, [GoTop EXCEPT !.defs = d]))
<1> DEFINE n == Depth
           x == [GoTop EXCEPT !.defs = d]
<1>1. n \in Nat /\ n > 0 /\ goStack \in Seq(Activation) /\ Len(goStack) = n /\ GoTop = goStack[n] /\ GoTop \in FrameSet
  BY Stacks, Activations DEF GoTop, Depth
<1>2. x \in Activation /\ x.role = GoTop.role /\ x.phase = GoTop.phase /\ x.pan = GoTop.pan
  BY <1>1 DEF FrameSet, Activation
<1>3. SetTop(goStack, x) = [goStack EXCEPT ![n] = x]
  BY DEF SetTop, Depth
<1> HIDE DEF x
<1>4. /\ [goStack EXCEPT ![n] = x] \in Seq(Activation) /\ Len([goStack EXCEPT ![n] = x]) = n
      /\ \A i \in 1 .. n : i # n => [goStack EXCEPT ![n] = x][i] = goStack[i]
      /\ [goStack EXCEPT ![n] = x][n] = x
  BY <1>1, <1>2, Changed
<1>5. Alike(SetTop(goStack, x))
  BY <1>1, <1>2, <1>3, <1>4 DEF Alike
<1> QED BY <1>5 DEF x

LEMMA DeferInv == ASSUME IInv, Defer PROVE StackInv'
<1>1. /\ GoRunning /\ UNCHANGED <<exc, goPanics, goDeferAt, goOver>>
      /\ goStack' = SetTop(goStack, [GoTop EXCEPT !.defs = @ + 1])
  BY DEF Defer, GoDoes
<1>2. goOver = None /\ exc \in Panics /\ IsFunction(GoTop)
  BY <1>1, Calling DEF GoRunning
<1>3. GoTop \in FrameSet
  BY <1>2, Stacks, Activations DEF GoTop
<1>4. GoTop.defs + 1 \in Nat
  BY <1>3 DEF FrameSet
<1>5. Alike(SetTop(goStack, [GoTop EXCEPT !.defs = GoTop.defs + 1]))
  BY <1>2, <1>4, Waits
<1> QED BY <1>1, <1>2, <1>5, StaysInv

LEMMA ReturnInv == ASSUME IInv, GoReturn PROVE StackInv'
<1>1. GoRunning /\ Leave(None, goPanics) /\ UNCHANGED <<exc, goOver>>
  BY DEF GoReturn
<1>2. goOver = None /\ exc = None /\ IsFunction(GoTop) /\ GoTop.phase = "body" /\ GoTop.role # "top"
  BY <1>1 DEF GoRunning
<1>3. None \in Panics /\ goPanics \in Seq(Panics)
  BY Stacks DEF Panics, StackInv, StackType
<1>4. ASSUME Aligned PROVE goPanics[Len(goPanics)] = None
  <2>1. Depth \in Frames /\ GoTop = goStack[Depth]
    BY <1>1, NotDeferring DEF GoTop
  <2>2. Place(Frames, Depth) = Len(goPanics)
    BY <1>2, <1>4, Stacks, Sizes DEF StackInv, Aligned
  <2>3. goStack[Depth].pan = None
    BY <1>2, <2>1, Stacks DEF StackInv, Outer, Unwinding
  <2>4. goPanics[Place(Frames, Depth)] = goStack[Depth].pan
    BY <1>2, <1>4, <2>1, Stacks, InPlace DEF StackInv
  <2> QED BY <2>2, <2>3, <2>4
<1> QED BY <1>1, <1>2, <1>3, <1>4, LeaveInv

LEMMA CaughtInv == ASSUME IInv, Caught PROVE StackInv'
<1>1. /\ exc # None /\ IsFunction(GoTop) /\ GoTop.phase = "body" /\ GoTop.role # "top"
      /\ Leave(exc, SetTop(goPanics, exc)) /\ exc' = None /\ UNCHANGED goOver
  BY DEF Caught
<1>2. goOver = None /\ exc \in Panics /\ goPanics \in Seq(Panics)
  BY <1>1, InProgress, Stacks DEF StackInv, StackType
<1>3. Len(goPanics) > 0 /\ Len(goPanics) \in Nat
  BY <1>2, EntryThere
<1>4. /\ SetTop(goPanics, exc) \in Seq(Panics) /\ Len(SetTop(goPanics, exc)) = Len(goPanics)
      /\ \A i \in 1 .. Len(goPanics) - 1 : SetTop(goPanics, exc)[i] = goPanics[i]
      /\ SetTop(goPanics, exc)[Len(goPanics)] = exc
  BY <1>2, <1>3, Changed DEF SetTop
<1> QED BY <1>1, <1>2, <1>4, LeaveInv

LEMMA RunDeferInv == ASSUME IInv, RunDefer PROVE StackInv'
<1> DEFINE t == SetTop(goStack, [GoTop EXCEPT !.defs = GoTop.defs - 1])
<1>1. /\ InDefers /\ GoTop.defs > 0 /\ UNCHANGED <<exc, goDeferAt, goOver>>
      /\ goStack' = Append(t, Function("deferred")) /\ goPanics' = Append(goPanics, None)
  BY DEF RunDefer
<1>2. goOver = None /\ IsFunction(GoTop) /\ GoTop.phase = "defers"
  BY <1>1 DEF InDefers
<1>3. Depth \in Nat /\ Depth > 0 /\ GoTop = goStack[Depth] /\ GoTop \in FrameSet
  BY <1>2, Stacks, Activations DEF GoTop
<1>4. GoTop.defs - 1 \in Nat
  BY <1>1, <1>3 DEF FrameSet
<1>5. Alike(t)
  BY <1>2, <1>4, Waits
<1>6. Depth \in Deferring
  BY <1>2, <1>3 DEF Deferring, Frames
<1>7. "deferred" \in Roles /\ "deferred" # "top"
  BY DEF Roles
<1> HIDE DEF t
<1> QED BY <1>1, <1>2, <1>5, <1>6, <1>7, EnterInv

LEMMA RepanicInv == ASSUME IInv, js_gorepanic PROVE StackInv'
<1>1. /\ InDefers /\ UNCHANGED goOver /\ goStack' = GoPop(goStack) /\ goDeferAt' = GoPop(goDeferAt)
      /\ goPanics' = GoPop(goPanics) /\ exc' = Last(goPanics)
  BY DEF js_gorepanic
<1>2. goPanics \in Seq(Panics) /\ Len(goPanics) > 0
  BY <1>1, Stacks, EntryThere DEF StackInv, StackType, InDefers
<1>3. exc' \in Panics
  BY <1>1, <1>2, Fronts
<1> QED BY <1>1, <1>3, GoneInv

LEMMA DeferPanicsInv == ASSUME IInv, DeferPanics PROVE StackInv'
<1>1. /\ InDefers /\ UNCHANGED <<exc, goPanics, goOver>> /\ goStack' = GoPop(goStack) /\ goDeferAt' = GoPop(goDeferAt)
  BY DEF DeferPanics
<1>2. exc' \in Panics
  BY <1>1, Stacks DEF StackInv, StackType
<1> QED BY <1>1, <1>2, GoneInv

LEMMA TopInv == ASSUME IInv, js_gotop PROVE StackInv'
<1> DEFINE panics == IF exc = None THEN goPanics ELSE SetTop(goPanics, exc)
<1>1. /\ goOver = None /\ goOver' = IF Last(panics) = None THEN "exit" ELSE Last(panics)
      /\ goPanics' = GoPop(panics) /\ exc' = None /\ UNCHANGED <<goStack, goDeferAt>>
  BY DEF js_gotop
<1>2. goPanics \in Seq(Panics) /\ exc \in Panics /\ Len(goPanics) > 0 /\ Len(goPanics) \in Nat
  BY <1>1, Stacks, EntryThere DEF StackInv, StackType
<1>3. panics \in Seq(Panics) /\ Len(panics) > 0
  BY <1>2, Changed DEF SetTop
<1> HIDE DEF panics
<1>4. GoPop(panics) \in Seq(Panics) /\ Last(panics) \in Panics
  BY <1>3, Fronts DEF GoPop
<1>5. goOver' # None /\ goOver' \in Panics \cup {"exit"}
  BY <1>1, <1>4, NilAssumption
<1>6. Alike(goStack')
  BY <1>1, Stacks, Itself
<1>7. Outer'
  BY <1>1, <1>6, Stacks, Steady DEF StackInv
<1>8. Fits'
  BY <1>5 DEF Fits, PanicStackSuffices, Slack, PanicsBelongToFrames
<1>9. StackType'
  BY <1>1, <1>4, <1>5, Stacks DEF StackInv, StackType, Panics
<1> QED BY <1>7, <1>8, <1>9 DEF StackInv

LEMMA BeginDrainInv ==
  ASSUME IInv, NEW op \in {"recv", "range", "select", "drain"}, NEW c, c \in Chan \/ (op = "drain" /\ c = NoChan),
         BeginDrain(op, c)
  PROVE  StackInv'
<1> DEFINE a == Drain(op, c)
<1>1. /\ GoRunning /\ UNCHANGED <<exc, goPanics, goDeferAt, goOver>> /\ goStack' = Append(goStack, a)
  BY DEF BeginDrain, GoDoes, Push
<1>2. /\ a \in Activation /\ a.role = "drain" /\ a.op = op /\ a.chan = c
  BY DEF Drain, Activation, DrainSet
<1>3. GoTypeOK /\ Outer /\ Fits /\ StackType /\ Alike(goStack) /\ Depth \notin Deferring /\ goOver = None
  BY <1>1, Stacks, Itself, NotDeferring, Calling DEF StackInv
<1> HIDE DEF a
<1>4. /\ a.role # "top" /\ a.role # "deferred" /\ (a.op = "drain" \/ a.chan \in Chan)
      /\ (goOver' # None => exc' = None)
  BY <1>1, <1>2, <1>3
<1>5. /\ Outer' /\ goStack' \in Seq(Activation) /\ Deferring' = Deferring /\ Frames' = Frames
      /\ \A k \in Frames : goStack'[k].pan = goStack[k].pan
  BY <1>1, <1>2, <1>3, <1>4, Pushing
<1>6. Fits'
  BY <1>1, <1>3, <1>5, SameFits
<1>7. StackType'
  BY <1>1, <1>3, <1>5 DEF StackType
<1> QED BY <1>5, <1>6, <1>7 DEF StackInv

LEMMA GoDrainInv == ASSUME IInv, goDrain PROVE StackInv'
<1>1. /\ InDrain /\ UNCHANGED <<exc, goDeferAt, goOver>>
      /\ goStack' = Append(goStack, Function("go")) /\ goPanics' = Append(goPanics, None)
  BY DEF goDrain, Enter, Push
<1>2. goOver = None /\ Alike(goStack) /\ Depth \notin Deferring
  BY <1>1, Stacks, Itself DEF InDrain, Deferring, Frames, IsFunction, GoTop
<1>3. "go" \in Roles /\ "go" # "top" /\ "go" # "deferred"
  BY DEF Roles
<1> QED BY <1>1, <1>2, <1>3, EnterInv

LEMMA EndDrainInv == ASSUME IInv, EndDrain PROVE StackInv'
<1>1. /\ goOver = None /\ GoTop.role = "drain" /\ UNCHANGED <<goPanics, goDeferAt, goOver>> /\ goStack' = GoPop(goStack)
      /\ exc' \in {"deadlock", None}
  BY DEF EndDrain, InDrain
<1>2. exc' \in Panics
  BY <1>1 DEF Panics, PanicValue, Failure
<1> QED BY <1>1, <1>2, DrainGoneInv

LEMMA DrainPanicsInv == ASSUME IInv, DrainPanics PROVE StackInv'
<1>1. /\ goOver = None /\ GoTop.role = "drain" /\ UNCHANGED <<exc, goPanics, goDeferAt, goOver>> /\ goStack' = GoPop(goStack)
  BY DEF DrainPanics
<1>2. exc' \in Panics
  BY <1>1, Stacks DEF StackInv, StackType
<1> QED BY <1>1, <1>2, DrainGoneInv

\* What the operation of a drain takes when the queue is empty.
LEMMA EndDrainRuns == ASSUME IInv, EndDrain PROVE ProgramInv'
<1>1. /\ GoTop.role = "drain" /\ UNCHANGED <<goMenu, goQueue, born, runs, sent>>
      /\ IF GoTop.op = "drain" \/ (GoTop.op # "range" /\ Empty(GoTop.chan))
         THEN UNCHANGED <<chans, got>> ELSE Take(GoTop.op, GoTop.chan)
  BY DEF EndDrain, InDrain
<1>2. GoTop.op = "drain" \/ GoTop.chan \in Chan
  BY <1>1, Stacks, Activations DEF Shape, GoTop
<1>3. CASE GoTop.op = "drain" \/ (GoTop.op # "range" /\ Empty(GoTop.chan))
  BY <1>1, <1>3, NothingRuns
<1>4. CASE ~(GoTop.op = "drain" \/ (GoTop.op # "range" /\ Empty(GoTop.chan)))
  <2>1. GoTop.chan \in Chan /\ Take(GoTop.op, GoTop.chan) /\ (GoTop.op = "range" \/ ~Empty(GoTop.chan))
    BY <1>1, <1>2, <1>4
  <2> QED BY <1>1, <2>1, TakeRuns
<1> QED BY <1>3, <1>4

LEMMA BeginDrainRuns ==
  ASSUME IInv, NEW op \in {"recv", "range", "select", "drain"}, NEW c, c \in Chan \/ (op = "drain" /\ c = NoChan),
         BeginDrain(op, c)
  PROVE  ProgramInv'
<1>1. GoDoes(op) /\ op \in GoOps
  BY DEF BeginDrain, GoOps
<1>2. CASE op = "range"
  <2>1. Take(op, c) /\ UNCHANGED <<goQueue, born, runs, sent>> /\ c \in Chan
    BY <1>2 DEF BeginDrain
  <2> QED BY <1>1, <1>2, <2>1, TakeRuns
<1>3. CASE op # "range"
  <2>1. UNCHANGED program
    BY <1>3 DEF BeginDrain
  <2> QED BY <1>1, <2>1, NothingRuns DEF program
<1> QED BY <1>2, <1>3

-----------------------------------------------------------------------------
(* The theorems.                                                           *)

LEMMA InvOfHalves == ASSUME StackInv', ProgramInv' PROVE IInv'
<1>1. GoTypeOK'
  BY DEF StackInv, StackType, ProgramInv, ProgramType, GoTypeOK, Panics, Activation
<1>2. PanicInv'
  BY DEF StackInv, Outer, Fits, PanicInv
<1> QED BY <1>1, <1>2 DEF IInv, ProgramInv

LEMMA NextInv == ASSUME IInv, GoNext PROVE IInv'
<1>1. CASE Call
  <2>1. GoDoes("call") /\ "call" \in GoOps /\ UNCHANGED program
    BY <1>1 DEF Call, GoOps
  <2> QED BY <1>1, <2>1, CallInv, NothingRuns, InvOfHalves DEF program
<1>2. CASE Defer
  <2>1. GoDoes("defer") /\ "defer" \in GoOps /\ UNCHANGED program
    BY <1>2 DEF Defer, GoOps
  <2> QED BY <1>2, <2>1, DeferInv, NothingRuns, InvOfHalves DEF program
<1>3. CASE js_gorecover
  <2>1. GoDoes("recover") /\ "recover" \in GoOps /\ UNCHANGED program
    BY <1>3 DEF js_gorecover, GoOps
  <2> QED BY <1>3, <2>1, RecoverInv, NothingRuns, InvOfHalves DEF program
<1>4. CASE GoReturn
  <2>1. UNCHANGED goMenu /\ UNCHANGED program
    BY <1>4 DEF GoReturn
  <2> QED BY <1>4, <2>1, ReturnInv, NothingRuns, InvOfHalves DEF program
<1>5. CASE Caught
  <2>1. UNCHANGED goMenu /\ UNCHANGED program
    BY <1>5 DEF Caught
  <2> QED BY <1>5, <2>1, CaughtInv, NothingRuns, InvOfHalves DEF program
<1>6. CASE RunDefer
  <2>1. UNCHANGED goMenu /\ UNCHANGED program
    BY <1>6 DEF RunDefer
  <2> QED BY <1>6, <2>1, RunDeferInv, NothingRuns, InvOfHalves DEF program
<1>7. CASE js_gorepanic
  <2>1. UNCHANGED goMenu /\ UNCHANGED program
    BY <1>7 DEF js_gorepanic
  <2> QED BY <1>7, <2>1, RepanicInv, NothingRuns, InvOfHalves DEF program
<1>8. CASE DeferPanics
  <2>1. UNCHANGED goMenu /\ UNCHANGED program
    BY <1>8 DEF DeferPanics
  <2> QED BY <1>8, <2>1, DeferPanicsInv, NothingRuns, InvOfHalves DEF program
<1>9. CASE js_gotop
  <2>1. UNCHANGED goMenu /\ UNCHANGED program
    BY <1>9 DEF js_gotop
  <2> QED BY <1>9, <2>1, TopInv, NothingRuns, InvOfHalves DEF program
<1>10. CASE js_gospawn
  <2>1. GoDoes("spawn") /\ UNCHANGED calls /\ exc' = exc /\ exc \in Panics
    BY <1>10, Stacks DEF js_gospawn, StackInv, StackType
  <2> QED BY <1>10, <2>1, OperationInv, SpawnRuns, InvOfHalves
<1>11. CASE goDrain
  BY <1>11, GoDrainInv, DrainRuns, InvOfHalves
<1>12. CASE EndDrain
  BY <1>12, EndDrainInv, EndDrainRuns, InvOfHalves
<1>13. CASE DrainPanics
  <2>1. UNCHANGED goMenu /\ UNCHANGED program
    BY <1>13 DEF DrainPanics
  <2> QED BY <1>13, <2>1, DrainPanicsInv, NothingRuns, InvOfHalves DEF program
<1>14. ASSUME NEW v \in Panic, js_gopanic(v) PROVE IInv'
  <2>1. GoDoes("panic") /\ "panic" \in GoOps /\ UNCHANGED program /\ UNCHANGED calls /\ exc' \in Panics
    BY <1>14 DEF js_gopanic, GoOps, calls, Panics, PanicValue
  <2> QED BY <2>1, OperationInv, NothingRuns, InvOfHalves DEF program
<1>15. ASSUME NEW c \in Chan, js_gochan_send(c) PROVE IInv'
  <2>1. GoDoes("send") /\ UNCHANGED calls /\ exc' \in {exc, "send on closed channel"}
    BY <1>15 DEF js_gochan_send
  <2>2. exc' \in Panics
    BY <2>1, Stacks DEF StackInv, StackType, Panics, PanicValue, Failure
  <2> QED BY <1>15, <2>1, <2>2, OperationInv, SendRuns, InvOfHalves
<1>16. ASSUME NEW c \in Chan, js_gochan_close(c) PROVE IInv'
  <2>1. GoDoes("close") /\ UNCHANGED calls /\ exc' = exc /\ exc \in Panics
    BY <1>16, Stacks DEF js_gochan_close, StackInv, StackType
  <2> QED BY <1>16, <2>1, OperationInv, CloseRuns, InvOfHalves
<1>17. ASSUME NEW c \in Chan, NEW op \in {"recv", "select"}, RecvAtOnce(op, c) PROVE IInv'
  <2>1. /\ GoDoes(op) /\ op \in GoOps /\ UNCHANGED calls /\ exc' = exc /\ exc \in Panics
        /\ Take(op, c) /\ ~Empty(c) /\ UNCHANGED <<sent, goQueue, born, runs>>
    BY <1>17, Stacks DEF RecvAtOnce, StackInv, StackType, GoOps
  <2>2. ProgramInv'
    BY <2>1, TakeRuns
  <2> QED BY <2>1, <2>2, OperationInv, InvOfHalves
<1>18. ASSUME NEW c \in Chan, NEW op \in {"recv", "range", "select"}, BeginDrain(op, c) PROVE IInv'
  <2>1. op \in {"recv", "range", "select", "drain"}
    OBVIOUS
  <2> QED BY <1>18, <2>1, BeginDrainInv, BeginDrainRuns, InvOfHalves
<1>19. CASE BeginDrain("drain", NoChan)
  BY <1>19, BeginDrainInv, BeginDrainRuns, InvOfHalves
<1> QED BY <1>1, <1>2, <1>3, <1>4, <1>5, <1>6, <1>7, <1>8, <1>9, <1>10, <1>11, <1>12, <1>13, <1>14,
           <1>15, <1>16, <1>17, <1>18, <1>19 DEF GoNext

LEMMA InitInv == ASSUME GoInit PROVE IInv
<1>1. /\ goMenu \in [ops : SUBSET GoOps, steps : Nat] /\ goMenu.steps \in Nat
      /\ goStack = <<Function("top"), Function("main")>> /\ exc = None /\ goOver = None
      /\ goPanics = <<None, None>> /\ goDeferAt = <<>> /\ goQueue = <<>>
      /\ chans = [c \in Chan |-> [buf |-> <<>>, closed |-> FALSE]]
      /\ born = 0 /\ runs = [g \in 1 .. goMenu.steps |-> 0]
      /\ sent = [c \in Chan |-> 0] /\ got = [c \in Chan |-> 0]
  BY GoMenusAssumption DEF GoInit
<1>2. /\ Function("top") \in Activation /\ Function("top").role = "top" /\ Function("top").phase = "body"
      /\ Function("top").pan = None
      /\ Function("main") \in Activation /\ Function("main").role = "main" /\ Function("main").phase = "body"
      /\ Function("main").pan = None
  BY Frame DEF Roles
<1>3. /\ Depth = 2 /\ goStack[1] = Function("top") /\ goStack[2] = Function("main")
      /\ goStack \in Seq(Activation)
  BY <1>1, <1>2 DEF Depth
<1>4. Frames = {1, 2} /\ Deferring = {}
  <2>1. Frames = {1, 2}
    BY <1>2, <1>3 DEF Frames, IsFunction
  <2> QED BY <1>2, <1>3, <2>1 DEF Deferring
<1>5. GoTypeOK
  <2>1. runs \in Seq(Nat)
    BY <1>1
  <2>2. goPanics \in Seq(PanicValue \cup {None}) /\ goDeferAt \in Seq(Nat) /\ goQueue \in Seq(Nat)
    BY <1>1
  <2>3. chans \in [Chan -> [buf : Seq(Nat), closed : BOOLEAN]]
    BY <1>1
  <2> QED BY <1>1, <1>3, <2>1, <2>2, <2>3 DEF GoTypeOK, Activation
<1>6. Shape /\ Unwinding
  BY <1>1, <1>2, <1>3, <1>4 DEF Shape, Unwinding
<1>7. Cardinality(Frames) = 2 /\ Cardinality(Deferring) = 0
  <2>1. IsFiniteSet({1}) /\ Cardinality({1}) = 1
    BY FS_Singleton
  <2>2. Cardinality({1} \cup {2}) = 2
    BY <2>1, FS_AddElement
  <2>3. {1} \cup {2} = Frames
    BY <1>4
  <2> QED BY <1>4, <2>2, <2>3, FS_EmptySet
<1>8. PanicStackSuffices /\ Slack
  BY <1>1, <1>4, <1>7 DEF PanicStackSuffices, Slack
<1>9. PanicsBelongToFrames
  <2>1. Place(Frames, 1) \in 1 .. 2 /\ Place(Frames, 2) \in 1 .. 2
    BY <1>4, <1>5, <1>7, FramePlace
  <2>2. \A k \in Frames : goPanics[Place(Frames, k)] = None /\ goStack[k].pan = None
    BY <1>1, <1>2, <1>3, <1>4, <2>1
  <2> QED BY <1>4, <2>2 DEF PanicsBelongToFrames
<1>10. Counts
  BY <1>1 DEF Counts
<1>11. GoroutinesRunOnce
  <2>1. \A g \in DOMAIN runs : runs[g] = 0 /\ g > 0
    BY <1>1
  <2>2. goQueue = [i \in 1 .. Len(goQueue) |-> born - Len(goQueue) + i]
    BY <1>1
  <2> QED BY <1>1, <2>1, <2>2 DEF GoroutinesRunOnce
<1>12. ChannelsAreFifo
  BY <1>1 DEF ChannelsAreFifo
<1> QED BY <1>5, <1>6, <1>8, <1>9, <1>10, <1>11, <1>12 DEF IInv, PanicInv, DrainsAreExact

LEMMA Stuttering == ASSUME IInv, UNCHANGED goVars PROVE IInv'
<1>1. UNCHANGED <<goMenu, goQueue, born, runs, chans, sent, got>> /\ goStack' = goStack
      /\ UNCHANGED <<exc, goPanics, goDeferAt, goOver>>
  BY DEF goVars
<1>2. ProgramInv'
  BY <1>1, NothingRuns
<1>3. /\ Frames' = Frames /\ Deferring' = Deferring /\ Depth' = Depth
  BY <1>1 DEF Frames, Deferring, Depth
<1>4. StackInv'
  BY <1>1, <1>3, Stacks DEF StackInv, StackType, Outer, Shape, Unwinding, Fits, PanicStackSuffices, Slack,
     PanicsBelongToFrames, Aligned
<1> QED BY <1>2, <1>4, InvOfHalves

\* The invariant is inductive.
THEOREM Invariance == GoSpec => []IInv
<1>1. GoInit => IInv
  BY InitInv
<1>2. IInv /\ [GoNext]_goVars => IInv'
  <2>1. ASSUME IInv, UNCHANGED goVars PROVE IInv'
    BY <2>1, Stuttering
  <2> QED BY <2>1, NextInv
<1> QED BY <1>1, <1>2, PTL DEF GoSpec

\* Whatever drains within drains do, every goroutine is called once at most and in the order of
\* the go statements, and every channel hands its values out in the order of the sends.
THEOREM DrainsExact == GoSpec => []DrainsAreExact
<1>1. IInv => DrainsAreExact
  BY DEF IInv
<1> QED BY <1>1, Invariance, PTL

LEMMA RecoversAsGo == ASSUME IInv PROVE RecoverIsGos
<1> SUFFICES ASSUME Aligned, GoRunning
             PROVE  GoRecovers = IF RecoverAt = 0 THEN None ELSE goPanics[RecoverAt]
  BY DEF RecoverIsGos
<1>1. GoTypeOK /\ Outer /\ Fits /\ goOver = None
  BY Stacks DEF StackInv, GoRunning
<1>2. CASE GoTop.role = "deferred"
  <2> DEFINE at == Place(Frames, Depth - 1)
  <2>1. /\ Depth - 1 \in Frames /\ goDeferAt # <<>> /\ Last(goDeferAt) = at /\ Len(goPanics) = at + 1
        /\ at \in 1 .. Len(goPanics)
    BY <1>2, DeferredAbove
  <2>2. goPanics[at] = goStack[Depth - 1].pan
    BY <1>1, <2>1, InPlace
  <2>3. GoRecovers = goStack[Depth - 1].pan
    BY <1>2 DEF GoRecovers
  <2>4. RecoverAt = IF goPanics[at] = None THEN 0 ELSE at
    <3> HIDE DEF at
    <3>1. at \in Nat /\ at # 0 /\ ~(at > Len(goPanics)) /\ ~(Len(goPanics) > at + 1)
      BY <2>1
    <3> QED BY <2>1, <3>1 DEF RecoverAt
  <2> HIDE DEF at
  <2>5. at # 0
    BY <2>1
  <2> QED BY <2>2, <2>3, <2>4, <2>5
<1>3. CASE GoTop.role # "deferred"
  BY <1>3, RecoversBelow DEF GoRecovers
<1> QED BY <1>2, <1>3

\* Panics reach the frames they belong to: the panic stack never runs out, every frame finds its
\* own panic in its entry and recover() takes the one it should, as long as no deferred function
\* has panicked itself.
THEOREM PanicsExact == GoSpec => []PanicsAreGos
<1>1. IInv => PanicsAreGos
  BY RecoversAsGo DEF IInv, PanicInv, PanicsAreGos, PanicStackFits
<1> QED BY <1>1, Invariance, PTL
=============================================================================
