--------------------------- MODULE IntoIter_proofs ---------------------------
(***************************************************************************)
(* For every length, every set of iterators and every argument of nth: an  *)
(* IntoIter releases each element at most once, reads no uninitialized     *)
(* slot and leaks nothing, whatever panics, and it is a deque.             *)
(***************************************************************************)
EXTENDS IntoIterDeque, SequenceTheorems, TLAPS

\* What the assumptions on the constants say, unfolded once for all.
LEMMA Constants ==
    /\ N \in Nat
    /\ None \notin Elems /\ None \notin Iters /\ None \notin Slots
    /\ Roots \subseteq Iters
    /\ MaxSkip \in Nat
BY NAssumption, MaxSkipAssumption, NoneAssumption, RootsAssumption DEF Slots, Elems

\* The frame of a range that is in bounds is that range.
LEMMA DropRangeInBounds ==
    ASSUME NEW op \in Ops, NEW n \in 0 .. MaxSkip,
           NEW lo \in 0 .. N, NEW hi \in 0 .. N, lo <= hi,
           NEW ret \in Answers, NEW held \in Elems \cup {None}
    PROVE  LET f == DropRange(op, n, lo, hi, ret, held) IN
           /\ f \in Frames
           /\ f.op = op /\ f.n = n /\ f.lo = lo /\ f.at = lo /\ f.hi = hi
           /\ f.ret = ret /\ f.held = held /\ f.src = None
<1>1. lo <= hi /\ hi <= N
  BY NAssumption
<1>2. DropRange(op, n, lo, hi, ret, held) =
        [op |-> op, n |-> n, lo |-> lo, at |-> lo, hi |-> hi,
         ret |-> ret, held |-> held, src |-> None]
  BY <1>1 DEF DropRange
<1>3. DropRange(op, n, lo, hi, ret, held) \in Frames
  BY <1>2 DEF Frames
<1> QED BY <1>2, <1>3

\* The frame of an iterator on which no call runs.
LEMMA NoFrameType ==
    /\ NoFrame \in Frames
    /\ NoFrame.held = None
BY NAssumption, MaxSkipAssumption DEF NoFrame, Frames, Ops, Answers

\* What the calls answer is an answer.
LEMMA AnswerTypes ==
    /\ \A v \in Slots : Some(v) \in Answers
    /\ \A n \in 0 .. N : Counted(n) \in Answers
    /\ Empty \in Answers /\ Unit \in Answers /\ Panic \in Answers
BY DEF Answers

\* A call that answers says which call it is.
LEMMA OutTypes ==
    /\ NoAnswer \in Outs
    /\ \A i \in Iters, op \in Ops, n \in 0 .. MaxSkip, r \in Answers : Answered(i, op, n, r) \in Outs
    /\ \A i \in Iters, op \in Ops, r \in Answers : Answered(i, op, 0, r) \in Outs
BY MaxSkipAssumption DEF Outs, Answered

-----------------------------------------------------------------------------
(***************************************************************************)
(* What a step on one iterator may do to the ownership of its elements.    *)
(***************************************************************************)

\* The types of one iterator's fields, as the provers need them.
LEMMA Typed ==
    ASSUME TypeOK, NEW i \in Iters
    PROVE  /\ alive[i].start \in 0 .. N /\ alive[i].end \in 0 .. N
           /\ alive[i] \in [start : 0 .. N, end : 0 .. N]
           /\ frame[i] \in Frames
           /\ frame[i].at \in 0 .. N /\ frame[i].lo \in 0 .. N /\ frame[i].hi \in 0 .. N
           /\ frame[i].op \in Ops /\ frame[i].n \in 0 .. MaxSkip /\ frame[i].ret \in Answers
           /\ frame[i].held \in Elems \cup {None} /\ frame[i].src \in Iters \cup {None}
           /\ ElemsOf(i) \subseteq Elems
           /\ None \notin ElemsOf(i)
           /\ data[i] \in [Slots -> Elems \cup {None}]
BY Constants DEF TypeOK, Frames, ElemsOf, Elems

\* An iterator owns slots of its own storage only.
LEMMA OwnedAreSlots ==
    ASSUME TypeOK, NEW i \in Iters
    PROVE  OwnedSlots(i) \subseteq Slots
BY Typed, Constants DEF OwnedSlots, AliveSlots, DyingSlots, Slots

\* A step changes iterator i and its elements only.
OnlyChanges(i) ==
    /\ \A j \in Iters \ {i} : /\ data'[j] = data[j] /\ alive'[j] = alive[j]
                              /\ pc'[j] = pc[j] /\ frame'[j] = frame[j]
    /\ \A e \in Elems \ ElemsOf(i) : val'[e] = val[e] /\ released'[e] = released[e]
    /\ lost \subseteq lost'

\* Then it preserves what holds of every other iterator, unless another one is
\* being cloned from i.
LEMMA Others ==
    ASSUME IInv, NEW i \in Iters, OnlyChanges(i), ~Borrowed(i) \/ pc[i] # "idle",
           NEW j \in Iters, j # i
    PROVE  IterInv(j)'
<1>1. /\ data'[j] = data[j] /\ alive'[j] = alive[j] /\ pc'[j] = pc[j] /\ frame'[j] = frame[j]
      /\ IterInv(j)
  BY DEF OnlyChanges, IInv
<1>2. \A e \in ElemsOf(j) : val'[e] = val[e] /\ released'[e] = released[e]
  <2>1. \A e \in ElemsOf(j) : e \in Elems \ ElemsOf(i)
    BY DEF ElemsOf, Elems
  <2> QED BY <2>1 DEF OnlyChanges
<1>3. lost \subseteq lost'
  BY DEF OnlyChanges
<1>4. OwnedSlots(j)' = OwnedSlots(j)
  BY <1>1 DEF OwnedSlots, AliveSlots, DyingSlots
<1>5. Ranges(j)'
  BY <1>1 DEF IterInv, Ranges
<1>6. Holding(j)'
  BY <1>1, <1>2 DEF IterInv, Holding, Exists
<1>7. Owning(j)'
  BY <1>1, <1>2, <1>4 DEF IterInv, Owning, Exists
<1>8. Accounted(j)'
  BY <1>1, <1>2, <1>3, <1>4 DEF IterInv, Accounted, Exists
<1>9. Unwritten(j)'
  <2>1. \A k \in Slots : <<j, k>> \in ElemsOf(j)
    BY DEF ElemsOf
  <2> QED BY <1>1, <1>2, <2>1 DEF IterInv, Unwritten, Exists
<1>10. CloningFrom(j)'
  <2> SUFFICES ASSUME pc[j] = "cloning" PROVE CloningFrom(j)'
    BY <1>1 DEF CloningFrom
  <2>1. frame[j].src \in Iters /\ pc[frame[j].src] = "idle" /\ frame[j].src # i
    BY <1>1 DEF IterInv, CloningFrom, Borrowed
  <2>2. pc'[frame[j].src] = pc[frame[j].src] /\ alive'[frame[j].src] = alive[frame[j].src]
    BY <2>1 DEF OnlyChanges
  <2> QED BY <1>1, <2>1, <2>2 DEF IterInv, CloningFrom
<1> QED BY <1>5, <1>6, <1>7, <1>8, <1>9, <1>10 DEF IterInv

\* A step that moves the boundaries between alive and dying slots.
LEMMA SameOwned ==
    ASSUME NEW i \in Iters, Owning(i), Accounted(i),
           OwnedSlots(i)' = OwnedSlots(i), frame'[i].held = frame[i].held,
           data'[i] = data[i], val' = val, released' = released, lost' = lost
    PROVE  Owning(i)' /\ Accounted(i)'
BY DEF Owning, Accounted, Exists

\* A step that releases the element in one owned slot, and disowns the slot.
LEMMA OneReleased ==
    ASSUME TypeOK, NEW i \in Iters, Owning(i), Accounted(i), Holding(i),
           NEW k \in OwnedSlots(i), OwnedSlots(i)' = OwnedSlots(i) \ {k},
           frame'[i].held = frame[i].held, data'[i] = data[i], val' = val, lost' = lost,
           released' = [released EXCEPT ![data[i][k]] = @ + 1]
    PROVE  /\ Owning(i)' /\ Accounted(i)'
           /\ \A e \in Elems \ ElemsOf(i) : released'[e] = released[e]
           /\ released'[None] = released[None]
           /\ frame[i].held # None => released'[frame[i].held] = released[frame[i].held]
           /\ released' \in [Elems \cup {None} -> Nat]
<1> DEFINE x == data[i][k]
<1>1. x \in ElemsOf(i) /\ x # frame[i].held /\ released[x] = 0 /\ Exists(x)
  BY DEF Owning
<1>2. x \in Elems /\ x # None
  BY <1>1, Typed
<1>3. released \in [Elems \cup {None} -> Nat]
  BY DEF TypeOK
<1>4. /\ released'[x] = 1
      /\ \A e \in Elems \cup {None} : e # x => released'[e] = released[e]
      /\ released' \in [Elems \cup {None} -> Nat]
  BY <1>1, <1>2, <1>3
<1>5. Owning(i)'
  <2>1. \A l \in OwnedSlots(i) \ {k} : data[i][l] \in ElemsOf(i) /\ data[i][l] # x
    BY DEF Owning
  <2>2. \A l \in OwnedSlots(i) \ {k} : released'[data[i][l]] = released[data[i][l]]
    BY <2>1, <1>4, Typed
  <2> QED BY <2>2 DEF Owning, Exists
<1>6. Accounted(i)'
  <2> SUFFICES ASSUME NEW e \in ElemsOf(i)
               PROVE  /\ released'[e] <= 1
                      /\ ~Exists(e) => released'[e] = 0
                      /\ Exists(e) =>
                            \/ released'[e] = 1 \/ e \in lost \/ e = frame[i].held
                            \/ \E l \in OwnedSlots(i) \ {k} : data[i][l] = e
    BY DEF Accounted, Exists
  <2>1. CASE e = x
    BY <2>1, <1>1, <1>4
  <2>2. CASE e # x
    <3>1. released'[e] = released[e]
      BY <2>2, <1>4, Typed
    <3> QED BY <2>2, <3>1 DEF Accounted
  <2> QED BY <2>1, <2>2
<1>7. \A e \in Elems \ ElemsOf(i) : released'[e] = released[e]
  BY <1>1, <1>4
<1>8. frame[i].held # None => released'[frame[i].held] = released[frame[i].held]
  BY <1>1, <1>4, Typed
<1> QED BY <1>2, <1>4, <1>5, <1>6, <1>7, <1>8

\* A step on i that keeps i's part of the invariant keeps the invariant.
LEMMA Assemble ==
    ASSUME IInv, NEW i \in Iters, OnlyChanges(i), ~Borrowed(i) \/ pc[i] # "idle",
           TypeOK', released'[None] = 0, IterInv(i)'
    PROVE  IInv'
<1>1. \A j \in Iters : IterInv(j)'
  BY Others
<1> QED BY <1>1 DEF IInv

\* alive.next() and alive.next_back() when no slot of i is being dropped.
LEMMA Take ==
    ASSUME IInv, NEW i \in Iters, NEW op \in Ops, NEW n \in 0 .. MaxSkip,
           TakeFront(i, op, n) \/ TakeBack(i, op, n),
           DyingSlots(i) = {}, DyingSlots(i)' = {},
           frame'[i].held = frame[i].held, data' = data, val' = val, lost' = lost
    PROVE  /\ Owning(i)' /\ Accounted(i)'
           /\ alive' \in [Iters -> [start : 0 .. N, end : 0 .. N]]
           /\ alive'[i].start <= alive'[i].end
           /\ \A j \in Iters \ {i} : alive'[j] = alive[j]
           /\ released' \in [Elems \cup {None} -> Nat]
           /\ released'[None] = 0
           /\ \A e \in Elems \ ElemsOf(i) : released'[e] = released[e]
           /\ out' \in Outs
<1> USE Constants
<1>1. /\ TypeOK /\ released[None] = 0
      /\ Ranges(i) /\ Holding(i) /\ Owning(i) /\ Accounted(i)
  BY DEF IInv, IterInv
<1>2. /\ alive[i].start \in 0 .. N /\ alive[i].end \in 0 .. N
      /\ alive[i].start <= alive[i].end
      /\ alive \in [Iters -> [start : 0 .. N, end : 0 .. N]]
  BY <1>1, Typed DEF Ranges, TypeOK
<1>3. OwnedSlots(i) = AliveSlots(i) /\ OwnedSlots(i)' = AliveSlots(i)'
  BY DEF OwnedSlots
<1>4. out \in Outs /\ released \in [Elems \cup {None} -> Nat]
  BY <1>1 DEF TypeOK
<1>5. CASE AliveLen(i) > 0
  <2> DEFINE k == IF TakeFront(i, op, n) THEN alive[i].start ELSE alive[i].end - 1
  <2>1. k \in OwnedSlots(i)
    BY <1>2, <1>3, <1>5 DEF AliveLen, AliveSlots
  <2>2. /\ alive' \in [Iters -> [start : 0 .. N, end : 0 .. N]]
        /\ alive'[i].start <= alive'[i].end
        /\ AliveSlots(i)' = AliveSlots(i) \ {k}
    <3>1. CASE TakeFront(i, op, n)
      <4>1. alive' = [alive EXCEPT ![i].start = @ + 1]
        BY <3>1, <1>5 DEF TakeFront
      <4>2. alive'[i].start = alive[i].start + 1 /\ alive'[i].end = alive[i].end
        BY <4>1, <1>2
      <4>3. alive[i].start + 1 \in 0 .. N
        BY <1>2, <1>5 DEF AliveLen
      <4> QED BY <4>1, <4>2, <4>3, <1>2, <1>5, <3>1 DEF AliveLen, AliveSlots
    <3>2. CASE ~TakeFront(i, op, n)
      <4>1. alive' = [alive EXCEPT ![i].end = @ - 1]
        BY <3>2, <1>5 DEF TakeBack
      <4>2. alive'[i].end = alive[i].end - 1 /\ alive'[i].start = alive[i].start
        BY <4>1, <1>2
      <4>3. alive[i].end - 1 \in 0 .. N
        BY <1>2, <1>5 DEF AliveLen
      <4> QED BY <4>1, <4>2, <4>3, <1>2, <1>5, <3>2 DEF AliveLen, AliveSlots
    <3> QED BY <3>1, <3>2
  <2>3. /\ released' = [released EXCEPT ![data[i][k]] = @ + 1]
        /\ out' = Answered(i, op, n, Some(val[data[i][k]]))
        /\ \A j \in Iters \ {i} : alive'[j] = alive[j]
    <3>1. CASE TakeFront(i, op, n)
      <4>1. k = alive[i].start
        BY <3>1
      <4> HIDE DEF k
      <4> QED BY <1>5, <1>2, <3>1, <4>1 DEF TakeFront
    <3>2. CASE ~TakeFront(i, op, n)
      <4>1. k = alive[i].end - 1 /\ TakeBack(i, op, n)
        BY <3>2
      <4> HIDE DEF k
      <4> QED BY <1>5, <1>2, <4>1 DEF TakeBack
    <3> QED BY <3>1, <3>2
  <2>4. Some(val[data[i][k]]) \in Answers
    <3>1. data[i][k] \in Elems /\ Exists(data[i][k])
      BY <2>1, <1>1, Typed DEF Owning
    <3>2. val[data[i][k]] \in Slots
      BY <3>1, <1>1 DEF Exists, TypeOK
    <3> QED BY <3>2, AnswerTypes
  <2>5. out' \in Outs
    BY <2>3, <2>4, OutTypes
  <2>6. OwnedSlots(i)' = OwnedSlots(i) \ {k}
    BY <2>2, <1>3
  <2> HIDE DEF k
  <2> QED BY <1>1, <2>1, <2>2, <2>3, <2>5, <2>6, OneReleased
<1>6. CASE ~(AliveLen(i) > 0)
  <2>1. alive' = alive /\ released' = released /\ out' = Answered(i, op, n, Empty)
    BY <1>6 DEF TakeFront, TakeBack
  <2>2. AliveSlots(i)' = AliveSlots(i)
    BY <2>1 DEF AliveSlots
  <2>3. Owning(i)' /\ Accounted(i)'
    BY <2>1, <2>2, <1>1, <1>3, SameOwned
  <2>4. out' \in Outs
    BY <2>1, AnswerTypes, OutTypes
  <2> QED BY <2>1, <2>3, <2>4, <1>1, <1>2, <1>4
<1> QED BY <1>5, <1>6

-----------------------------------------------------------------------------
\* One lemma for each call and each step.

\* The iterators made by into_iter own all their slots, the others nothing.
LEMMA InitInv == Init => IInv
<1> SUFFICES ASSUME Init PROVE IInv
  OBVIOUS
<1> USE Constants
<1>1. TypeOK
  <2>1. frame \in [Iters -> Frames] /\ out \in Outs
    BY NoFrameType, OutTypes DEF Init
  <2>2. alive \in [Iters -> [start : 0 .. N, end : 0 .. N]]
    BY DEF Init
  <2>3. val \in [Elems -> Slots \cup {None}]
    BY DEF Init, Elems
  <2>4. data \in [Iters -> [Slots -> Elems \cup {None}]]
    BY DEF Init, Elems
  <2> QED BY <2>1, <2>2, <2>3, <2>4 DEF Init, TypeOK
<1>2. ASSUME NEW i \in Iters PROVE IterInv(i)
  <2>1. /\ frame[i] = NoFrame /\ frame[i].held = None
        /\ pc[i] = IF i \in Roots THEN "idle" ELSE "absent"
        /\ alive[i] = [start |-> 0, end |-> IF i \in Roots THEN N ELSE 0]
    BY NoFrameType DEF Init
  <2>2. OwnedSlots(i) = IF i \in Roots THEN Slots ELSE {}
    BY <2>1 DEF OwnedSlots, AliveSlots, DyingSlots, Slots
  <2>3. \A k \in Slots : <<i, k>> \in Elems /\ <<i, k>> \in ElemsOf(i)
    BY DEF Elems, ElemsOf
  <2>4. \A k \in Slots : /\ val[<<i, k>>] = IF i \in Roots THEN k ELSE None
                         /\ data[i][k] = IF i \in Roots THEN <<i, k>> ELSE None
                         /\ released[<<i, k>>] = 0
    BY <2>3 DEF Init
  <2>5. Ranges(i) /\ Holding(i) /\ CloningFrom(i)
    BY <2>1 DEF Ranges, Holding, CloningFrom
  <2>6. Owning(i)
    <3>1. CASE i \in Roots
      <4>1. \A k \in Slots : /\ data[i][k] = <<i, k>>
                             /\ data[i][k] \in ElemsOf(i) /\ data[i][k] # None
                             /\ Exists(data[i][k]) /\ released[data[i][k]] = 0
        <5> SUFFICES ASSUME NEW k \in Slots
                     PROVE  /\ data[i][k] = <<i, k>>
                            /\ data[i][k] \in ElemsOf(i) /\ data[i][k] # None
                            /\ Exists(data[i][k]) /\ released[data[i][k]] = 0
          OBVIOUS
        <5>1. data[i][k] = <<i, k>> /\ val[<<i, k>>] = k /\ released[<<i, k>>] = 0
          BY <3>1, <2>4
        <5>2. <<i, k>> \in ElemsOf(i) /\ <<i, k>> \in Elems
          BY <2>3
        <5>3. k # None /\ <<i, k>> # None
          BY <5>2
        <5> QED BY <5>1, <5>2, <5>3 DEF Exists
      <4>2. \A k, l \in Slots : data[i][k] = data[i][l] => k = l
        BY <4>1
      <4> QED BY <3>1, <2>1, <2>2, <4>1, <4>2 DEF Owning
    <3>2. CASE i \notin Roots
      BY <3>2, <2>2 DEF Owning
    <3> QED BY <3>1, <3>2
  <2>7. Accounted(i)
    <3> SUFFICES ASSUME NEW k \in Slots
                 PROVE  /\ released[<<i, k>>] <= 1
                        /\ ~Exists(<<i, k>>) => released[<<i, k>>] = 0
                        /\ Exists(<<i, k>>) => \E l \in OwnedSlots(i) : data[i][l] = <<i, k>>
      BY DEF Accounted, ElemsOf
    <3> QED BY <2>2, <2>4 DEF Exists
  <2>8. Unwritten(i)
    BY <2>1, <2>4 DEF Unwritten, Exists
  <2> QED BY <2>5, <2>6, <2>7, <2>8 DEF IterInv
<1>3. released[None] = 0
  BY DEF Init
<1> QED BY <1>1, <1>2, <1>3 DEF IInv

\* Drop::drop hands the slots lo .. hi - 1 to drop_in_place.
LEMMA StartDropEffect ==
    ASSUME IInv, NEW i \in Iters, NEW op \in Ops \ {"nth", "nth_back"},
           NEW lo \in 0 .. N, NEW hi \in 0 .. N, lo <= hi,
           NEW ret \in Answers, NEW held \in Elems \cup {None},
           StartDrop(i, op, lo, hi, ret, held)
    PROVE  /\ alive' \in [Iters -> [start : 0 .. N, end : 0 .. N]]
           /\ frame' \in [Iters -> Frames]
           /\ pc' \in [Iters -> {"absent", "cloning", "idle", "dropping", "gone"}]
           /\ \A j \in Iters \ {i} : /\ alive'[j] = alive[j] /\ pc'[j] = pc[j]
                                     /\ frame'[j] = frame[j]
           /\ frame'[i].held = held /\ frame'[i].op = op /\ pc'[i] = "dropping"
           /\ OwnedSlots(i)' = lo .. hi - 1
           /\ Ranges(i)' /\ Unwritten(i)' /\ CloningFrom(i)'
<1> USE Constants
<1>1. /\ alive \in [Iters -> [start : 0 .. N, end : 0 .. N]]
      /\ frame \in [Iters -> Frames]
      /\ pc \in [Iters -> {"absent", "cloning", "idle", "dropping", "gone"}]
  BY DEF IInv, TypeOK
<1>2. /\ alive' = [alive EXCEPT ![i] = [start |-> 0, end |-> 0]]
      /\ frame' = [frame EXCEPT ![i] = DropRange(op, 0, lo, hi, ret, held)]
      /\ pc' = [pc EXCEPT ![i] = "dropping"]
  BY DEF StartDrop
<1>3. /\ DropRange(op, 0, lo, hi, ret, held) \in Frames
      /\ frame'[i].held = held /\ frame'[i].op = op
      /\ frame'[i].at = lo /\ frame'[i].hi = hi
  BY <1>1, <1>2, DropRangeInBounds
<1>4. alive'[i] = [start |-> 0, end |-> 0] /\ pc'[i] = "dropping"
  BY <1>1, <1>2
<1>5. OwnedSlots(i)' = lo .. hi - 1
  BY <1>3, <1>4 DEF OwnedSlots, AliveSlots, DyingSlots
<1>6. Ranges(i)'
  BY <1>3, <1>4 DEF Ranges
<1>7. Unwritten(i)' /\ CloningFrom(i)'
  BY <1>4 DEF Unwritten, CloningFrom
<1>8. alive' \in [Iters -> [start : 0 .. N, end : 0 .. N]]
  BY <1>1, <1>2
<1>9. frame' \in [Iters -> Frames] /\ pc' \in [Iters -> {"absent", "cloning", "idle", "dropping", "gone"}]
  BY <1>1, <1>2, <1>3
<1> QED BY <1>1, <1>2, <1>3, <1>4, <1>5, <1>6, <1>7, <1>8, <1>9

\* Facts about an iterator that the client can call.
LEMMA ReadyFacts ==
    ASSUME IInv, NEW i \in Iters, pc[i] = "idle"
    PROVE  /\ TypeOK /\ Owning(i) /\ Accounted(i) /\ Unwritten(i) /\ Holding(i) /\ Ranges(i)
           /\ frame[i].held = None /\ DyingSlots(i) = {} /\ OwnedSlots(i) = AliveSlots(i)
           /\ alive[i].start \in 0 .. N /\ alive[i].end \in 0 .. N
           /\ alive[i].start <= alive[i].end
           /\ AliveLen(i) \in 0 .. N
<1>1. TypeOK /\ IterInv(i)
  BY DEF IInv
<1>2. DyingSlots(i) = {} /\ OwnedSlots(i) = AliveSlots(i)
  BY DEF DyingSlots, OwnedSlots
<1>3. frame[i].held = None
  BY <1>1 DEF IterInv, Holding
<1>4. /\ alive[i].start \in 0 .. N /\ alive[i].end \in 0 .. N
      /\ alive[i].start <= alive[i].end
  BY <1>1, Typed DEF IterInv, Ranges
<1>5. AliveLen(i) \in 0 .. N
  BY <1>4, Constants DEF AliveLen
<1> QED BY <1>1, <1>2, <1>3, <1>4, <1>5 DEF IterInv

\* next and next_back hand out one alive slot.
LEMMA NextInv == ASSUME IInv, NEW i \in Iters, NextItem(i) \/ NextBack(i) PROVE IInv'
<1>1. /\ \E op \in Ops, n \in 0 .. MaxSkip : TakeFront(i, op, n) \/ TakeBack(i, op, n)
      /\ Ready(i) /\ UNCHANGED <<data, pc, frame, unwinding, val, lost, aborted>>
  BY Constants DEF NextItem, NextBack, Ops
<1>2. pc[i] = "idle" /\ ~Borrowed(i)
  BY <1>1 DEF Ready
<1>3. DyingSlots(i) = {} /\ DyingSlots(i)' = {}
  BY <1>1, <1>2 DEF DyingSlots
<1>4. /\ Owning(i)' /\ Accounted(i)'
      /\ alive' \in [Iters -> [start : 0 .. N, end : 0 .. N]]
      /\ alive'[i].start <= alive'[i].end
      /\ \A j \in Iters \ {i} : alive'[j] = alive[j]
      /\ released' \in [Elems \cup {None} -> Nat]
      /\ released'[None] = 0
      /\ \A e \in Elems \ ElemsOf(i) : released'[e] = released[e]
      /\ out' \in Outs
  BY <1>1, <1>3, Take
<1>5. TypeOK'
  BY <1>1, <1>4 DEF IInv, TypeOK
<1>6. OnlyChanges(i)
  BY <1>1, <1>4 DEF OnlyChanges
<1>7. IterInv(i)'
  <2>1. Ranges(i)' /\ CloningFrom(i)' /\ Unwritten(i)'
    BY <1>1, <1>2, <1>4 DEF Ranges, CloningFrom, Unwritten
  <2>2. Holding(i)'
    BY <1>1, <1>2, ReadyFacts DEF Holding
  <2> QED BY <1>4, <2>1, <2>2 DEF IterInv
<1> QED BY <1>2, <1>4, <1>5, <1>6, <1>7, Assemble

\* nth and nth_back take the skipped slots out of `alive`, and own them still.
LEMMA NthInv ==
    ASSUME IInv, NEW i \in Iters, NEW n \in 0 .. MaxSkip, Nth(i, n) \/ NthBack(i, n)
    PROVE  IInv'
<1> USE Constants
<1>1. /\ pc[i] = "idle" /\ ~Borrowed(i)
      /\ pc' = [pc EXCEPT ![i] = "dropping"]
      /\ UNCHANGED <<data, unwinding, val, released, lost, aborted>> /\ out' \in Outs
  BY OutTypes DEF Nth, NthBack, Ready
<1>2. /\ TypeOK /\ Owning(i) /\ Accounted(i) /\ Unwritten(i) /\ Holding(i) /\ Ranges(i)
      /\ frame[i].held = None /\ OwnedSlots(i) = AliveSlots(i)
      /\ alive[i].start \in 0 .. N /\ alive[i].end \in 0 .. N
      /\ alive[i].start <= alive[i].end
  BY <1>1, ReadyFacts
<1>3. /\ alive \in [Iters -> [start : 0 .. N, end : 0 .. N]]
      /\ frame \in [Iters -> Frames]
      /\ pc \in [Iters -> {"absent", "cloning", "idle", "dropping", "gone"}]
  BY <1>2 DEF TypeOK
<1> DEFINE s == Skipped(i, n)
<1>4. s \in 0 .. N /\ s <= alive[i].end - alive[i].start
  BY <1>2 DEF Skipped, AliveLen
<1> HIDE DEF s
<1>5. /\ alive' \in [Iters -> [start : 0 .. N, end : 0 .. N]]
      /\ frame' \in [Iters -> Frames]
      /\ \A j \in Iters \ {i} : alive'[j] = alive[j] /\ frame'[j] = frame[j]
      /\ frame'[i].held = None /\ Ranges(i)'
      /\ OwnedSlots(i)' = OwnedSlots(i)
  <2>1. CASE Nth(i, n)
    <3>1. /\ alive' = [alive EXCEPT ![i].start = @ + s]
          /\ frame' = [frame EXCEPT ![i] =
                         DropRange("nth", n, alive[i].start, alive[i].start + s, Unit, None)]
      BY <2>1 DEF Nth, s
    <3>2. alive[i].start + s \in 0 .. N
      BY <1>2, <1>4
    <3>3. /\ frame'[i] \in Frames /\ frame'[i].held = None /\ frame'[i].op = "nth"
          /\ frame'[i].at = alive[i].start /\ frame'[i].hi = alive[i].start + s
      <4> DEFINE m == alive[i].start + s
      <4>1. frame'[i] = DropRange("nth", n, alive[i].start, m, Unit, None)
        BY <3>1, <1>3
      <4>2. /\ "nth" \in Ops /\ Unit \in Answers /\ m \in 0 .. N /\ alive[i].start <= m
            /\ m = alive[i].start + s
        BY <3>2, <1>2, <1>4, AnswerTypes DEF Ops
      <4> HIDE DEF m
      <4> QED BY <4>1, <4>2, <1>2, DropRangeInBounds
    <3>4. alive'[i].start = alive[i].start + s /\ alive'[i].end = alive[i].end
      BY <3>1, <1>3
    <3>5. pc'[i] = "dropping"
      BY <1>1, <1>3
    <3>6. Ranges(i)'
      BY <3>3, <3>4, <3>5, <1>2, <1>4 DEF Ranges
    <3>7. OwnedSlots(i)' = OwnedSlots(i)
      BY <3>3, <3>4, <3>5, <1>2, <1>4 DEF OwnedSlots, AliveSlots, DyingSlots
    <3>8. alive' \in [Iters -> [start : 0 .. N, end : 0 .. N]]
      BY <3>1, <3>2, <1>3
    <3>9. frame' \in [Iters -> Frames]
      BY <3>1, <3>3, <1>3
    <3> QED BY <3>1, <3>3, <3>6, <3>7, <3>8, <3>9, <1>3
  <2>2. CASE NthBack(i, n)
    <3>1. /\ alive' = [alive EXCEPT ![i].end = @ - s]
          /\ frame' = [frame EXCEPT ![i] =
                         DropRange("nth_back", n, alive[i].end - s, alive[i].end, Unit, None)]
      BY <2>2 DEF NthBack, s
    <3>2. alive[i].end - s \in 0 .. N
      BY <1>2, <1>4
    <3>3. /\ frame'[i] \in Frames /\ frame'[i].held = None /\ frame'[i].op = "nth_back"
          /\ frame'[i].at = alive[i].end - s /\ frame'[i].hi = alive[i].end
      <4> DEFINE m == alive[i].end - s
      <4>1. frame'[i] = DropRange("nth_back", n, m, alive[i].end, Unit, None)
        BY <3>1, <1>3
      <4>2. /\ "nth_back" \in Ops /\ Unit \in Answers /\ m \in 0 .. N /\ m <= alive[i].end
            /\ m = alive[i].end - s
        BY <3>2, <1>2, <1>4, AnswerTypes DEF Ops
      <4> HIDE DEF m
      <4> QED BY <4>1, <4>2, <1>2, DropRangeInBounds
    <3>4. alive'[i].end = alive[i].end - s /\ alive'[i].start = alive[i].start
      BY <3>1, <1>3
    <3>5. pc'[i] = "dropping"
      BY <1>1, <1>3
    <3>6. Ranges(i)'
      BY <3>3, <3>4, <3>5, <1>2, <1>4 DEF Ranges
    <3>7. OwnedSlots(i)' = OwnedSlots(i)
      BY <3>3, <3>4, <3>5, <1>2, <1>4 DEF OwnedSlots, AliveSlots, DyingSlots
    <3>8. alive' \in [Iters -> [start : 0 .. N, end : 0 .. N]]
      BY <3>1, <3>2, <1>3
    <3>9. frame' \in [Iters -> Frames]
      BY <3>1, <3>3, <1>3
    <3> QED BY <3>1, <3>3, <3>6, <3>7, <3>8, <3>9, <1>3
  <2> QED BY <2>1, <2>2
<1>6. TypeOK'
  BY <1>1, <1>2, <1>5 DEF TypeOK
<1>7. OnlyChanges(i)
  BY <1>1, <1>3, <1>5 DEF OnlyChanges
<1>8. IterInv(i)'
  <2>1. Owning(i)' /\ Accounted(i)'
    BY <1>1, <1>2, <1>5, SameOwned
  <2>2. Holding(i)' /\ Unwritten(i)' /\ CloningFrom(i)'
    BY <1>1, <1>3, <1>5 DEF Holding, Unwritten, CloningFrom
  <2> QED BY <1>5, <2>1, <2>2 DEF IterInv
<1>9. released'[None] = 0
  BY <1>1 DEF IInv
<1> QED BY <1>1, <1>6, <1>7, <1>8, <1>9, Assemble

\* count, drop and the drop of an iterator whose owner unwinds: the alive slots
\* become the slots to drop.
LEMMA DropAllInv ==
    ASSUME IInv, NEW i \in Iters, NEW op \in Ops \ {"nth", "nth_back"}, NEW ret \in Answers,
           StartDrop(i, op, alive[i].start, alive[i].end, ret, None),
           OwnedSlots(i) = AliveSlots(i), frame[i].held = None,
           ~Borrowed(i) \/ pc[i] # "idle",
           data' = data, val' = val, released' = released, lost' = lost,
           unwinding' \in [Iters -> BOOLEAN], out' \in Outs, aborted' \in BOOLEAN
    PROVE  IInv'
<1>1. TypeOK /\ IterInv(i) /\ released[None] = 0
  BY DEF IInv
<1>2. /\ alive[i].start \in 0 .. N /\ alive[i].end \in 0 .. N
      /\ alive[i].start <= alive[i].end
  BY <1>1, Typed DEF IterInv, Ranges
<1>3. /\ alive' \in [Iters -> [start : 0 .. N, end : 0 .. N]]
      /\ frame' \in [Iters -> Frames]
      /\ pc' \in [Iters -> {"absent", "cloning", "idle", "dropping", "gone"}]
      /\ \A j \in Iters \ {i} : alive'[j] = alive[j] /\ pc'[j] = pc[j] /\ frame'[j] = frame[j]
      /\ frame'[i].held = None
      /\ OwnedSlots(i)' = AliveSlots(i)
      /\ Ranges(i)' /\ Unwritten(i)' /\ CloningFrom(i)'
  BY <1>2, StartDropEffect DEF AliveSlots
<1>4. Owning(i)' /\ Accounted(i)'
  BY <1>1, <1>3, SameOwned DEF IterInv
<1>5. Holding(i)'
  BY <1>3 DEF Holding
<1>6. TypeOK'
  BY <1>1, <1>3 DEF TypeOK
<1>7. OnlyChanges(i)
  BY <1>3 DEF OnlyChanges
<1> QED BY <1>1, <1>3, <1>4, <1>5, <1>6, <1>7, Assemble DEF IterInv

\* count and the drop of an iterator drop every alive slot.
LEMMA CountDropInv == ASSUME IInv, NEW i \in Iters, Count(i) \/ Drop(i) PROVE IInv'
<1>1. pc[i] = "idle" /\ ~Borrowed(i)
  BY DEF Count, Drop, Ready
<1>2. /\ TypeOK /\ frame[i].held = None /\ OwnedSlots(i) = AliveSlots(i)
      /\ AliveLen(i) \in 0 .. N
  BY <1>1, ReadyFacts
<1>3. unwinding \in [Iters -> BOOLEAN] /\ aborted \in BOOLEAN /\ out' \in Outs
  BY <1>2, OutTypes DEF TypeOK, Count, Drop
<1>4. CASE Count(i)
  BY <1>1, <1>2, <1>3, <1>4, AnswerTypes, DropAllInv DEF Count, Ops
<1>5. CASE Drop(i)
  <2>1. unwinding' \in [Iters -> BOOLEAN]
    BY <1>3, <1>5 DEF Drop
  <2> QED BY <1>1, <1>2, <1>3, <1>5, <2>1, AnswerTypes, DropAllInv DEF Drop, Ops
<1> QED BY <1>4, <1>5

\* `last` takes one element out of the slots, and drops the others.
LEMMA LastInv == ASSUME IInv, NEW i \in Iters, Last(i) PROVE IInv'
<1> USE Constants
<1>1. /\ pc[i] = "idle" /\ ~Borrowed(i)
      /\ UNCHANGED <<data, unwinding, val, released, lost, aborted>> /\ out' \in Outs
  BY OutTypes DEF Last, Ready
<1>2. /\ TypeOK /\ Owning(i) /\ Accounted(i) /\ frame[i].held = None
      /\ OwnedSlots(i) = AliveSlots(i)
      /\ alive[i].start \in 0 .. N /\ alive[i].end \in 0 .. N
      /\ alive[i].start <= alive[i].end
  BY <1>1, ReadyFacts
<1>3. CASE ~(AliveLen(i) > 0)
  <2>1. StartDrop(i, "last", alive[i].start, alive[i].end, Empty, None)
    BY <1>3 DEF Last
  <2>2. "last" \in Ops \ {"nth", "nth_back"} /\ Empty \in Answers
    BY AnswerTypes DEF Ops
  <2>3. /\ unwinding' \in [Iters -> BOOLEAN] /\ out' \in Outs
        /\ aborted' \in BOOLEAN
    BY <1>1, <1>2 DEF TypeOK
  <2> QED BY <1>1, <1>2, <2>1, <2>2, <2>3, DropAllInv
<1>4. CASE AliveLen(i) > 0
  <2> DEFINE k == alive[i].end - 1
             e == data[i][k]
  <2>1. StartDrop(i, "last", alive[i].start, k, Some(val[e]), e)
    BY <1>4 DEF Last
  <2>2. k \in 0 .. N /\ alive[i].start <= k /\ k \in OwnedSlots(i)
    <3>1. k \in 0 .. N /\ alive[i].start <= k /\ k \in alive[i].start .. alive[i].end - 1
      BY <1>2, <1>4 DEF AliveLen
    <3> HIDE DEF k
    <3> QED BY <1>2, <3>1 DEF AliveSlots
  <2>3. e \in ElemsOf(i) /\ e \in Elems /\ e # None /\ Exists(e) /\ released[e] = 0
    BY <1>2, <2>2, Typed DEF Owning
  <2>4. Some(val[e]) \in Answers
    <3>1. val[e] \in Slots
      BY <2>3, <1>2 DEF TypeOK, Exists
    <3> QED BY <3>1, AnswerTypes
  <2>5. /\ alive' \in [Iters -> [start : 0 .. N, end : 0 .. N]]
        /\ frame' \in [Iters -> Frames]
        /\ pc' \in [Iters -> {"absent", "cloning", "idle", "dropping", "gone"}]
        /\ \A j \in Iters \ {i} : alive'[j] = alive[j] /\ pc'[j] = pc[j] /\ frame'[j] = frame[j]
        /\ frame'[i].held = e /\ frame'[i].op = "last" /\ pc'[i] = "dropping"
        /\ OwnedSlots(i)' = alive[i].start .. k - 1
        /\ Ranges(i)' /\ Unwritten(i)' /\ CloningFrom(i)'
    <3>1. "last" \in Ops \ {"nth", "nth_back"}
      BY DEF Ops
    <3> HIDE DEF k, e
    <3> QED BY <1>2, <2>1, <2>2, <2>3, <2>4, <3>1, StartDropEffect
  <2>6. OwnedSlots(i)' = OwnedSlots(i) \ {k}
    BY <2>5, <1>2 DEF AliveSlots
  <2>7. Owning(i)'
    <3>1. \A l \in OwnedSlots(i) \ {k} : data[i][l] # e
      BY <1>2, <2>2 DEF Owning
    <3> QED BY <1>1, <1>2, <2>5, <2>6, <3>1 DEF Owning, Exists
  <2>8. Accounted(i)'
    <3> SUFFICES ASSUME NEW x \in ElemsOf(i)
                 PROVE  /\ released[x] <= 1
                        /\ ~Exists(x) => released[x] = 0
                        /\ Exists(x) =>
                              \/ released[x] = 1 \/ x \in lost \/ x = e
                              \/ \E l \in OwnedSlots(i) \ {k} : data[i][l] = x
      BY <1>1, <2>5, <2>6 DEF Accounted, Exists
    <3>1. x # None
      BY <1>2, Typed
    <3>2. x \in Elems
      BY <1>2, Typed
    <3> QED BY <1>2, <3>1, <3>2 DEF Accounted
  <2>9. Holding(i)'
    BY <1>1, <2>3, <2>5 DEF Holding, Exists
  <2>10. TypeOK'
    BY <1>1, <1>2, <2>5 DEF TypeOK
  <2>11. OnlyChanges(i)
    BY <1>1, <2>5 DEF OnlyChanges
  <2>12. released'[None] = 0
    BY <1>1 DEF IInv
  <2> QED BY <1>1, <2>5, <2>7, <2>8, <2>9, <2>10, <2>11, <2>12, Assemble DEF IterInv
<1> QED BY <1>3, <1>4

\* A client that swaps elements through as_mut_slice moves no ownership.
LEMMA SwapInv == ASSUME IInv, NEW i \in Iters, Swap(i) PROVE IInv'
<1> USE Constants
<1>1. /\ pc[i] = "idle" /\ ~Borrowed(i)
      /\ UNCHANGED <<alive, pc, frame, unwinding, val, released, lost, out, aborted>>
  BY DEF Swap, Ready
<1>2. /\ TypeOK /\ Owning(i) /\ Accounted(i) /\ IterInv(i)
      /\ frame[i].held = None /\ OwnedSlots(i) = AliveSlots(i)
  BY <1>1, ReadyFacts DEF IInv
<1>3. PICK k \in AliveSlots(i), l \in AliveSlots(i) :
        k < l /\ data' = [data EXCEPT ![i][k] = data[i][l], ![i][l] = data[i][k]]
  BY DEF Swap
<1>4. k \in Slots /\ l \in Slots /\ OwnedSlots(i) \subseteq Slots
  BY <1>2, OwnedAreSlots
<1>5. data[i] \in [Slots -> Elems \cup {None}] /\ data \in [Iters -> [Slots -> Elems \cup {None}]]
  BY <1>2, Typed DEF TypeOK
<1>6. /\ data'[i][k] = data[i][l] /\ data'[i][l] = data[i][k]
      /\ \A m \in Slots \ {k, l} : data'[i][m] = data[i][m]
      /\ \A j \in Iters \ {i} : data'[j] = data[j]
      /\ data' \in [Iters -> [Slots -> Elems \cup {None}]]
  BY <1>3, <1>4, <1>5
<1>7. OwnedSlots(i)' = OwnedSlots(i)
  BY <1>1 DEF OwnedSlots, AliveSlots, DyingSlots
<1> DEFINE Other(m) == IF m = k THEN l ELSE IF m = l THEN k ELSE m
<1>8. \A m \in OwnedSlots(i) : Other(m) \in OwnedSlots(i) /\ data'[i][m] = data[i][Other(m)]
                              /\ data'[i][Other(m)] = data[i][m]
  BY <1>2, <1>4, <1>6
<1>9. \A m, n \in OwnedSlots(i) : Other(m) = Other(n) => m = n
  OBVIOUS
<1> HIDE DEF Other
<1>10. Owning(i)'
  BY <1>1, <1>2, <1>7, <1>8, <1>9 DEF Owning, Exists
<1>11. Accounted(i)'
  BY <1>1, <1>2, <1>7, <1>8 DEF Accounted, Exists
<1>12. Ranges(i)' /\ Holding(i)' /\ Unwritten(i)' /\ CloningFrom(i)'
  BY <1>1, <1>2 DEF IterInv, Ranges, Holding, Unwritten, CloningFrom, Exists
<1>13. TypeOK'
  BY <1>1, <1>2, <1>6 DEF TypeOK
<1>14. OnlyChanges(i)
  BY <1>1, <1>6 DEF OnlyChanges
<1>15. released'[None] = 0
  BY <1>1 DEF IInv
<1> QED BY <1>1, <1>10, <1>11, <1>12, <1>13, <1>14, <1>15, Assemble DEF IterInv

\* A destructor that runs, and one that panics, releases one dying slot.
LEMMA DropElementInv == ASSUME IInv, NEW i \in Iters, DropElement(i) \/ DropPanics(i) PROVE IInv'
<1> USE Constants
<1>1. /\ pc[i] = "dropping" /\ frame[i].at < frame[i].hi
      /\ released' = [released EXCEPT ![data[i][frame[i].at]] = @ + 1]
      /\ frame' = [frame EXCEPT ![i].at = @ + 1]
      /\ UNCHANGED <<data, alive, pc, val, lost, out>>
  BY DEF DropElement, DropPanics, Dropping, Released
<1>2. TypeOK /\ IterInv(i) /\ released[None] = 0
  BY DEF IInv
<1>3. /\ unwinding' \in [Iters -> BOOLEAN] /\ aborted' \in BOOLEAN
  BY <1>2 DEF TypeOK, DropElement, DropPanics
<1>4. /\ frame \in [Iters -> Frames] /\ frame[i] \in Frames
      /\ frame[i].at \in 0 .. N /\ frame[i].hi \in 0 .. N
      /\ alive[i].start \in 0 .. N /\ alive[i].end \in 0 .. N
  BY <1>2, Typed DEF TypeOK
<1>5. /\ frame'[i].at = frame[i].at + 1 /\ frame'[i].hi = frame[i].hi
      /\ frame'[i].op = frame[i].op /\ frame'[i].held = frame[i].held
      /\ frame'[i] \in Frames /\ frame' \in [Iters -> Frames]
      /\ \A j \in Iters \ {i} : frame'[j] = frame[j]
  <2>1. frame'[i] = [frame[i] EXCEPT !.at = @ + 1]
    BY <1>1, <1>4
  <2>2. frame[i].at + 1 \in 0 .. N
    BY <1>1, <1>4
  <2>3. frame'[i] \in Frames
    BY <2>1, <2>2, <1>4 DEF Frames
  <2> QED BY <1>1, <1>4, <2>1, <2>3 DEF Frames
<1>6. frame[i].at \in OwnedSlots(i) /\ OwnedSlots(i)' = OwnedSlots(i) \ {frame[i].at}
  <2>1. frame[i].at \notin AliveSlots(i)
    BY <1>1, <1>2, <1>4 DEF IterInv, Ranges, AliveSlots
  <2>2. AliveSlots(i)' = AliveSlots(i)
    BY <1>1 DEF AliveSlots
  <2>3. /\ frame[i].at \in DyingSlots(i)
        /\ DyingSlots(i)' = DyingSlots(i) \ {frame[i].at}
    BY <1>1, <1>4, <1>5 DEF DyingSlots
  <2> QED BY <2>1, <2>2, <2>3 DEF OwnedSlots
<1>7. /\ Owning(i)' /\ Accounted(i)'
      /\ \A e \in Elems \ ElemsOf(i) : released'[e] = released[e]
      /\ released'[None] = released[None]
      /\ frame[i].held # None => released'[frame[i].held] = released[frame[i].held]
      /\ released' \in [Elems \cup {None} -> Nat]
  BY <1>1, <1>2, <1>5, <1>6, OneReleased DEF IterInv
<1>8. Holding(i)'
  BY <1>1, <1>2, <1>5, <1>7 DEF IterInv, Holding, Exists
<1>9. Ranges(i)'
  BY <1>1, <1>2, <1>4, <1>5 DEF IterInv, Ranges
<1>10. Unwritten(i)' /\ CloningFrom(i)'
  BY <1>1 DEF Unwritten, CloningFrom
<1>11. TypeOK'
  BY <1>1, <1>2, <1>3, <1>5, <1>7 DEF TypeOK
<1>12. OnlyChanges(i)
  BY <1>1, <1>5, <1>7 DEF OnlyChanges
<1> QED BY <1>1, <1>2, <1>7, <1>8, <1>9, <1>10, <1>11, <1>12, Assemble DEF IterInv

\* Facts about an iterator whose range has been dropped.
LEMMA DroppedFacts ==
    ASSUME IInv, NEW i \in Iters, NEW ops, RangeDropped(i, ops)
    PROVE  /\ TypeOK /\ IterInv(i) /\ released[None] = 0
           /\ pc[i] = "dropping" /\ frame[i].op \in ops
           /\ DyingSlots(i) = {} /\ OwnedSlots(i) = AliveSlots(i)
           /\ frame[i].op # "last" => frame[i].held = None
<1>1. TypeOK /\ IterInv(i) /\ released[None] = 0
  BY DEF IInv
<1>2. pc[i] = "dropping" /\ frame[i].at = frame[i].hi /\ frame[i].op \in ops
  BY DEF RangeDropped
<1>3. DyingSlots(i) = {}
  BY <1>1, <1>2, Typed, Constants DEF DyingSlots
<1> QED BY <1>1, <1>2, <1>3 DEF OwnedSlots, IterInv, Holding

\* nth and nth_back end by taking one element.
LEMMA NthReturnsInv == ASSUME IInv, NEW i \in Iters, NthReturns(i) PROVE IInv'
<1>1. /\ RangeDropped(i, {"nth", "nth_back"})
      /\ LET n == frame[i].n IN TakeFront(i, "nth", n) \/ TakeBack(i, "nth_back", n)
      /\ pc' = [pc EXCEPT ![i] = "idle"] /\ frame' = [frame EXCEPT ![i] = NoFrame]
      /\ UNCHANGED <<data, unwinding, val, lost, aborted>>
  BY DEF NthReturns
<1>2. /\ TypeOK /\ IterInv(i) /\ pc[i] = "dropping"
      /\ DyingSlots(i) = {} /\ frame[i].held = None
      /\ frame[i].n \in 0 .. MaxSkip /\ "nth" \in Ops /\ "nth_back" \in Ops
  BY <1>1, DroppedFacts, Typed DEF Ops
<1>3. /\ pc'[i] = "idle" /\ frame'[i] = NoFrame /\ frame'[i].held = None
      /\ pc' \in [Iters -> {"absent", "cloning", "idle", "dropping", "gone"}]
      /\ frame' \in [Iters -> Frames]
      /\ \A j \in Iters \ {i} : pc'[j] = pc[j] /\ frame'[j] = frame[j]
  BY <1>1, <1>2, NoFrameType DEF TypeOK
<1>4. DyingSlots(i)' = {}
  BY <1>3 DEF DyingSlots
<1>5. /\ Owning(i)' /\ Accounted(i)'
      /\ alive' \in [Iters -> [start : 0 .. N, end : 0 .. N]]
      /\ alive'[i].start <= alive'[i].end
      /\ \A j \in Iters \ {i} : alive'[j] = alive[j]
      /\ released' \in [Elems \cup {None} -> Nat]
      /\ released'[None] = 0
      /\ \A e \in Elems \ ElemsOf(i) : released'[e] = released[e]
      /\ out' \in Outs
  BY <1>1, <1>2, <1>3, <1>4, Take
<1>6. TypeOK'
  BY <1>1, <1>2, <1>3, <1>5 DEF TypeOK
<1>7. OnlyChanges(i)
  BY <1>1, <1>3, <1>5 DEF OnlyChanges
<1>8. Ranges(i)' /\ Holding(i)' /\ Unwritten(i)' /\ CloningFrom(i)'
  BY <1>3, <1>5 DEF Ranges, Holding, Unwritten, CloningFrom
<1> QED BY <1>2, <1>5, <1>6, <1>7, <1>8, Assemble DEF IterInv

\* The steps that only end a call: nth that panicked and was caught, a clone
\* that is complete, and an iterator that is gone.
LEMMA EndInv ==
    ASSUME IInv, NEW i \in Iters, DyingSlots(i) = {}, pc[i] # "idle",
           NEW p \in {"idle", "gone"}, p = "gone" => alive[i].start = alive[i].end,
           frame[i].held = None,
           pc' = [pc EXCEPT ![i] = p], frame' = [frame EXCEPT ![i] = NoFrame],
           unwinding' \in [Iters -> BOOLEAN], out' \in Outs,
           UNCHANGED <<data, alive, val, released, lost, aborted>>
    PROVE  IInv'
<1>1. TypeOK /\ IterInv(i) /\ released[None] = 0
  BY DEF IInv
<1>2. /\ pc'[i] = p /\ frame'[i] = NoFrame /\ frame'[i].held = None
      /\ pc' \in [Iters -> {"absent", "cloning", "idle", "dropping", "gone"}]
      /\ frame' \in [Iters -> Frames]
      /\ \A j \in Iters \ {i} : pc'[j] = pc[j] /\ frame'[j] = frame[j]
  BY <1>1, NoFrameType DEF TypeOK
<1>3. OwnedSlots(i)' = OwnedSlots(i)
  BY <1>2 DEF OwnedSlots, AliveSlots, DyingSlots
<1>4. Owning(i)' /\ Accounted(i)'
  BY <1>1, <1>2, <1>3, SameOwned DEF IterInv
<1>5. Ranges(i)' /\ Holding(i)' /\ Unwritten(i)' /\ CloningFrom(i)'
  BY <1>1, <1>2 DEF IterInv, Ranges, Holding, Unwritten, CloningFrom
<1>6. TypeOK'
  BY <1>1, <1>2 DEF TypeOK
<1>7. OnlyChanges(i)
  BY <1>2 DEF OnlyChanges
<1> QED BY <1>1, <1>4, <1>5, <1>6, <1>7, Assemble DEF IterInv

\* A client that catches a panic of nth keeps a usable iterator.
LEMMA CaughtInv == ASSUME IInv, NEW i \in Iters, NthCaught(i) PROVE IInv'
<1>1. /\ RangeDropped(i, {"nth", "nth_back"})
      /\ unwinding' = [unwinding EXCEPT ![i] = FALSE]
      /\ pc' = [pc EXCEPT ![i] = "idle"] /\ frame' = [frame EXCEPT ![i] = NoFrame]
      /\ out' = Answered(i, frame[i].op, frame[i].n, Panic)
      /\ UNCHANGED <<data, alive, val, released, lost, aborted>>
  BY DEF NthCaught
<1>2. TypeOK /\ pc[i] = "dropping" /\ DyingSlots(i) = {} /\ frame[i].held = None
  BY <1>1, DroppedFacts
<1>3. unwinding' \in [Iters -> BOOLEAN] /\ out' \in Outs
  BY <1>1, <1>2, Typed, AnswerTypes, OutTypes DEF TypeOK
<1> QED BY <1>1, <1>2, <1>3, EndInv

\* The owner that unwinds drops what nth had not skipped.
LEMMA UnwindsInv == ASSUME IInv, NEW i \in Iters, NthUnwinds(i) PROVE IInv'
<1>1. /\ RangeDropped(i, {"nth", "nth_back"})
      /\ StartDrop(i, "drop", alive[i].start, alive[i].end, Unit, None)
      /\ out' = Answered(i, frame[i].op, frame[i].n, Panic)
      /\ UNCHANGED <<data, unwinding, val, released, lost, aborted>>
  BY DEF NthUnwinds
<1>2. /\ TypeOK /\ pc[i] = "dropping" /\ OwnedSlots(i) = AliveSlots(i)
      /\ frame[i].held = None
  BY <1>1, DroppedFacts
<1>3. out' \in Outs /\ unwinding' \in [Iters -> BOOLEAN] /\ aborted' \in BOOLEAN
  BY <1>1, <1>2, Typed, AnswerTypes, OutTypes DEF TypeOK
<1>4. "drop" \in Ops \ {"nth", "nth_back"} /\ Unit \in Answers
  BY AnswerTypes DEF Ops
<1> QED BY <1>1, <1>2, <1>3, <1>4, DropAllInv

\* An iterator whose elements are all dropped is gone.
LEMMA ConsumedInv == ASSUME IInv, NEW i \in Iters, Consumed(i) PROVE IInv'
<1>1. /\ RangeDropped(i, {"count", "drop", "clone"})
      /\ pc' = [pc EXCEPT ![i] = "gone"] /\ frame' = [frame EXCEPT ![i] = NoFrame]
      /\ unwinding' = [unwinding EXCEPT ![i] = FALSE]
      /\ out' = Answered(i, frame[i].op, 0, IF unwinding[i] THEN Panic ELSE frame[i].ret)
      /\ UNCHANGED <<data, alive, val, released, lost, aborted>>
  BY DEF Consumed, Gone
<1>2. /\ TypeOK /\ pc[i] = "dropping" /\ DyingSlots(i) = {} /\ IterInv(i)
      /\ frame[i].op \in {"count", "drop", "clone"} /\ frame[i].held = None
  BY <1>1, DroppedFacts
<1>3. alive[i].start = alive[i].end
  BY <1>2 DEF IterInv, Ranges
<1>4. unwinding' \in [Iters -> BOOLEAN] /\ out' \in Outs
  BY <1>1, <1>2, Typed, AnswerTypes, OutTypes DEF TypeOK
<1> QED BY <1>1, <1>2, <1>3, <1>4, EndInv

\* `last` ends after self was dropped.  The element in its answer, if any, is
\* handed over, dropped or left behind: it is the last one i accounts for.
LEMMA LastEndsInv ==
    ASSUME IInv, NEW i \in Iters, LastReturns(i) \/ LastUnwinds(i)
    PROVE  IInv'
<1> USE Constants
<1> DEFINE h == frame[i].held
<1>1. /\ RangeDropped(i, {"last"})
      /\ pc' = [pc EXCEPT ![i] = "gone"] /\ frame' = [frame EXCEPT ![i] = NoFrame]
      /\ UNCHANGED <<data, alive, val>>
  BY DEF LastReturns, LastUnwinds, Gone
<1>2. /\ TypeOK /\ pc[i] = "dropping" /\ frame[i].op = "last"
      /\ OwnedSlots(i) = AliveSlots(i) /\ IterInv(i) /\ released[None] = 0
  BY <1>1, DroppedFacts
<1>3. /\ pc'[i] = "gone" /\ frame'[i] = NoFrame /\ frame'[i].held = None
      /\ pc' \in [Iters -> {"absent", "cloning", "idle", "dropping", "gone"}]
      /\ frame' \in [Iters -> Frames]
      /\ \A j \in Iters \ {i} : pc'[j] = pc[j] /\ frame'[j] = frame[j]
  BY <1>1, <1>2, NoFrameType DEF TypeOK
<1>4. /\ alive[i].start \in 0 .. N /\ alive[i].end \in 0 .. N /\ alive[i].start = alive[i].end
      /\ frame[i].ret \in Answers /\ frame[i].op \in Ops
  BY <1>2, Typed DEF IterInv, Ranges
<1>5. AliveSlots(i) = {} /\ OwnedSlots(i) = {} /\ OwnedSlots(i)' = {}
  BY <1>1, <1>2, <1>3, <1>4 DEF OwnedSlots, AliveSlots, DyingSlots
<1>6. /\ unwinding' \in [Iters -> BOOLEAN] /\ out' \in Outs
      /\ aborted' \in BOOLEAN
  <2>1. /\ unwinding \in [Iters -> BOOLEAN]
        /\ aborted \in BOOLEAN
    BY <1>2 DEF TypeOK
  <2>2. /\ unwinding' = [unwinding EXCEPT ![i] = FALSE]
        /\ \/ out' = Answered(i, frame[i].op, 0, frame[i].ret)
           \/ out' = Answered(i, frame[i].op, 0, Panic)
    BY DEF LastReturns, LastUnwinds, Gone
  <2>3. aborted' \in BOOLEAN
    BY <2>1, Zenon DEF LastReturns, LastUnwinds
  <2>4. out' \in Outs
    BY <2>2, <1>4, AnswerTypes, OutTypes
  <2>5. unwinding' \in [Iters -> BOOLEAN]
    BY <2>1, <2>2
  <2> QED BY <2>3, <2>4, <2>5
<1>7. h # None => h \in ElemsOf(i) /\ h \in Elems /\ Exists(h) /\ released[h] = 0
  BY <1>2, Typed DEF IterInv, Holding
<1>8. released \in [Elems \cup {None} -> Nat] /\ lost \in SUBSET Elems
  BY <1>2 DEF TypeOK
<1>9. \/ h = None /\ released' = released /\ lost' = lost
      \/ h # None /\ released' = [released EXCEPT ![h] = @ + 1] /\ lost' = lost
      \/ h # None /\ lost' = lost \cup {h} /\ released' = released
  BY DEF LastReturns, LastUnwinds
<1> HIDE DEF h
<1>10. /\ released' \in [Elems \cup {None} -> Nat] /\ lost' \in SUBSET Elems
       /\ lost \subseteq lost' /\ released'[None] = 0
       /\ \A e \in Elems : e # h => released'[e] = released[e]
       /\ h # None => \/ released'[h] = 1
                      \/ released'[h] = 0 /\ h \in lost'
  BY <1>2, <1>7, <1>8, <1>9
<1>11. Accounted(i)'
  <2> SUFFICES ASSUME NEW e \in ElemsOf(i)
               PROVE  /\ released'[e] <= 1
                      /\ ~Exists(e) => released'[e] = 0
                      /\ Exists(e) => released'[e] = 1 \/ e \in lost'
    BY <1>1 DEF Accounted, Exists
  <2>1. e \in Elems /\ e # None
    BY <1>2, Typed
  <2>2. /\ released[e] <= 1
        /\ ~Exists(e) => released[e] = 0
        /\ Exists(e) => released[e] = 1 \/ e \in lost \/ e = h
    BY <1>2, <1>5 DEF IterInv, Accounted, h
  <2>3. CASE e = h
    BY <2>1, <2>3, <1>7, <1>10
  <2>4. CASE e # h
    <3>1. released'[e] = released[e] /\ (e \in lost => e \in lost')
      BY <2>1, <2>4, <1>10
    <3> QED BY <2>2, <2>4, <3>1 DEF Exists
  <2> QED BY <2>3, <2>4
<1>12. Owning(i)'
  BY <1>5 DEF Owning
<1>13. Ranges(i)' /\ Holding(i)' /\ Unwritten(i)' /\ CloningFrom(i)'
  BY <1>1, <1>3, <1>4 DEF Ranges, Holding, Unwritten, CloningFrom
<1>14. TypeOK'
  BY <1>1, <1>2, <1>3, <1>6, <1>10 DEF TypeOK
<1>15. OnlyChanges(i)
  BY <1>1, <1>3, <1>7, <1>10 DEF OnlyChanges
<1> QED BY <1>2, <1>10, <1>11, <1>12, <1>13, <1>14, <1>15, Assemble DEF IterInv

\* A clone starts with an empty range, at the source's first alive slot.
LEMMA CloneInv ==
    ASSUME IInv, NEW i \in Iters, NEW d \in Iters, Clone(i, d)
    PROVE  IInv'
<1> USE Constants
<1> DEFINE start == alive[i].start
<1>1. /\ pc[i] = "idle" /\ pc[d] = "absent" /\ i # d
      /\ alive' = [alive EXCEPT ![d] = [start |-> start, end |-> start]]
      /\ frame' = [frame EXCEPT ![d] =
             [op |-> "clone", n |-> 0, lo |-> start, at |-> start, hi |-> alive[i].end,
              ret |-> Unit, held |-> None, src |-> i]]
      /\ pc' = [pc EXCEPT ![d] = "cloning"]
      /\ UNCHANGED <<data, unwinding, val, released, lost, aborted>> /\ out' \in Outs
  BY OutTypes DEF Clone
<1>2. /\ TypeOK /\ IterInv(i) /\ IterInv(d) /\ released[None] = 0
  BY DEF IInv
<1>3. /\ start \in 0 .. N /\ alive[i].end \in 0 .. N /\ start <= alive[i].end
      /\ alive[d].start \in 0 .. N /\ alive[d].end = alive[d].start
      /\ frame[d].held = None
  BY <1>1, <1>2, Typed DEF IterInv, Ranges, Holding
<1>4. /\ frame'[d].held = None /\ frame'[d].src = i /\ frame'[d].at = start
      /\ frame'[d].hi = alive[i].end
      /\ frame' \in [Iters -> Frames]
      /\ \A j \in Iters \ {d} : frame'[j] = frame[j]
  <2>1. [op |-> "clone", n |-> 0, lo |-> start, at |-> start, hi |-> alive[i].end,
         ret |-> Unit, held |-> None, src |-> i] \in Frames
    BY <1>3, AnswerTypes DEF Frames, Ops
  <2> QED BY <1>1, <1>2, <2>1 DEF TypeOK
<1>5. /\ alive'[d].start = start /\ alive'[d].end = start
      /\ alive' \in [Iters -> [start : 0 .. N, end : 0 .. N]]
      /\ \A j \in Iters \ {d} : alive'[j] = alive[j]
  BY <1>1, <1>2, <1>3 DEF TypeOK
<1>6. /\ pc'[d] = "cloning"
      /\ pc' \in [Iters -> {"absent", "cloning", "idle", "dropping", "gone"}]
      /\ \A j \in Iters \ {d} : pc'[j] = pc[j]
  BY <1>1, <1>2 DEF TypeOK
<1> HIDE DEF start
<1>7. OwnedSlots(d) = {} /\ OwnedSlots(d)' = {}
  BY <1>1, <1>3, <1>5, <1>6 DEF OwnedSlots, AliveSlots, DyingSlots
<1>8. Owning(d)' /\ Accounted(d)'
  BY <1>1, <1>2, <1>3, <1>4, <1>7, SameOwned DEF IterInv
<1>9. CloningFrom(d)'
  BY <1>1, <1>3, <1>4, <1>5, <1>6 DEF CloningFrom, start
<1>10. Ranges(d)' /\ Holding(d)'
  BY <1>3, <1>4, <1>5, <1>6 DEF Ranges, Holding
<1>11. Unwritten(d)'
  BY <1>1, <1>2 DEF IterInv, Unwritten, Exists
<1>12. TypeOK'
  BY <1>1, <1>2, <1>4, <1>5, <1>6 DEF TypeOK
<1>13. OnlyChanges(d)
  BY <1>1, <1>4, <1>5, <1>6 DEF OnlyChanges
<1> QED BY <1>1, <1>2, <1>8, <1>9, <1>10, <1>11, <1>12, <1>13, Assemble DEF IterInv

\* One clone is written to the slot at alive.end, which nothing occupies yet.
LEMMA CloneElementInv ==
    ASSUME IInv, NEW d \in Iters, CloneElement(d)
    PROVE  IInv'
<1> USE Constants
<1> DEFINE end == alive[d].end
           s == frame[d].src
           at == frame[d].at
           x == data[s][at]
           e == <<d, end>>
<1>1. /\ pc[d] = "cloning" /\ at < frame[d].hi /\ end \in Slots
      /\ data' = [data EXCEPT ![d][end] = e] /\ val' = [val EXCEPT ![e] = val[x]]
      /\ alive' = [alive EXCEPT ![d].end = @ + 1]
      /\ frame' = [frame EXCEPT ![d].at = @ + 1]
      /\ UNCHANGED <<pc, unwinding, released, lost, out, aborted>>
  BY DEF CloneElement, Cloning
<1>2. TypeOK /\ IterInv(d) /\ released[None] = 0
  BY DEF IInv
<1>3. /\ alive[d].start \in 0 .. N /\ end \in 0 .. N /\ alive[d].start <= end
      /\ at \in 0 .. N /\ frame[d].hi \in 0 .. N
      /\ alive[d] \in [start : 0 .. N, end : 0 .. N] /\ frame[d] \in Frames
  BY <1>2, Typed DEF IterInv, Ranges
<1>4. /\ s \in Iters /\ pc[s] = "idle" /\ s # d /\ at = end
      /\ alive[s].start <= at /\ frame[d].hi = alive[s].end
  BY <1>1, <1>2 DEF IterInv, CloningFrom
<1>5. x \in Elems /\ Exists(x)
  <2>1. IterInv(s) /\ alive[s].start \in 0 .. N /\ alive[s].end \in 0 .. N
    BY <1>2, <1>4, Typed DEF IInv
  <2>2. at \in OwnedSlots(s)
    BY <1>1, <1>3, <1>4, <2>1 DEF OwnedSlots, AliveSlots
  <2>3. ElemsOf(s) \subseteq Elems
    BY <1>4 DEF ElemsOf, Elems
  <2> QED BY <2>1, <2>2, <2>3 DEF IterInv, Owning
<1>6. e \in Elems /\ e \in ElemsOf(d)
  BY <1>1 DEF Elems, ElemsOf
<1>7. ~Exists(e) /\ released[e] = 0
  <2>1. ~Exists(e)
    BY <1>1, <1>2, <1>3 DEF IterInv, Unwritten
  <2> QED BY <1>2, <1>6, <2>1 DEF IterInv, Accounted
<1>8. /\ val \in [Elems -> Slots \cup {None}] /\ val[x] \in Slots
      /\ data \in [Iters -> [Slots -> Elems \cup {None}]]
      /\ alive \in [Iters -> [start : 0 .. N, end : 0 .. N]]
      /\ frame \in [Iters -> Frames]
  BY <1>2, <1>5 DEF TypeOK, Exists
<1>9. /\ val' \in [Elems -> Slots \cup {None}] /\ val'[e] = val[x] /\ val'[e] # None
      /\ \A f \in Elems : f # e => val'[f] = val[f]
  BY <1>1, <1>5, <1>6, <1>8 DEF Exists
<1>10. /\ data' \in [Iters -> [Slots -> Elems \cup {None}]] /\ data'[d][end] = e
       /\ \A k \in Slots : k # end => data'[d][k] = data[d][k]
       /\ \A j \in Iters \ {d} : data'[j] = data[j]
  BY <1>1, <1>6, <1>8
<1>11. /\ alive' \in [Iters -> [start : 0 .. N, end : 0 .. N]]
       /\ alive'[d].start = alive[d].start /\ alive'[d].end = end + 1
       /\ \A j \in Iters \ {d} : alive'[j] = alive[j]
  <2>1. end + 1 \in 0 .. N
    BY <1>1 DEF Slots
  <2>2. alive'[d] = [alive[d] EXCEPT !.end = @ + 1]
    BY <1>1, <1>8
  <2> QED BY <1>1, <1>3, <1>8, <2>1, <2>2
<1>12. /\ frame' \in [Iters -> Frames]
       /\ frame'[d].at = at + 1 /\ frame'[d].hi = frame[d].hi
       /\ frame'[d].src = s /\ frame'[d].held = frame[d].held
       /\ \A j \in Iters \ {d} : frame'[j] = frame[j]
  <2>1. frame'[d] = [frame[d] EXCEPT !.at = @ + 1]
    BY <1>1, <1>8
  <2>2. at + 1 \in 0 .. N
    BY <1>1, <1>3
  <2>3. frame'[d] \in Frames
    BY <1>3, <2>1, <2>2 DEF Frames
  <2> QED BY <1>1, <1>3, <1>8, <2>1, <2>3 DEF Frames
<1> HIDE DEF end, s, at, x, e
<1>13. frame[d].held = None
  BY <1>1, <1>2 DEF IterInv, Holding
<1>14. /\ OwnedSlots(d)' = OwnedSlots(d) \cup {end} /\ end \notin OwnedSlots(d)
       /\ OwnedSlots(d) \subseteq Slots
  <2>1. OwnedSlots(d) = alive[d].start .. end - 1
    BY <1>1 DEF OwnedSlots, AliveSlots, DyingSlots, end
  <2>2. OwnedSlots(d)' = alive[d].start .. end
    BY <1>1, <1>3, <1>11 DEF OwnedSlots, AliveSlots, DyingSlots
  <2> QED BY <1>1, <1>2, <1>3, <2>1, <2>2, OwnedAreSlots
<1>15. \A k \in OwnedSlots(d) :
          /\ data'[d][k] = data[d][k] /\ data[d][k] \in ElemsOf(d)
          /\ data[d][k] # e /\ val'[data[d][k]] # None /\ released[data[d][k]] = 0
  <2> SUFFICES ASSUME NEW k \in OwnedSlots(d)
               PROVE  /\ data'[d][k] = data[d][k] /\ data[d][k] \in ElemsOf(d)
                      /\ data[d][k] # e /\ val'[data[d][k]] # None
                      /\ released[data[d][k]] = 0
    OBVIOUS
  <2>1. /\ data[d][k] \in ElemsOf(d) /\ Exists(data[d][k]) /\ released[data[d][k]] = 0
    BY <1>2 DEF IterInv, Owning
  <2>2. data[d][k] \in Elems /\ data[d][k] # e
    BY <1>2, <1>7, <2>1, Typed
  <2>3. data'[d][k] = data[d][k]
    BY <1>10, <1>14
  <2> QED BY <1>9, <2>1, <2>2, <2>3 DEF Exists
<1>16. Owning(d)'
  <2>1. e # None
    BY <1>6
  <2>2. \A k \in OwnedSlots(d) : data[d][k] # None
    BY <1>2, <1>15, Typed
  <2>3. \A k, l \in OwnedSlots(d) : data[d][k] = data[d][l] => k = l
    BY <1>2 DEF IterInv, Owning
  <2>4. \A k \in OwnedSlots(d)' :
           /\ data'[d][k] \in ElemsOf(d) /\ data'[d][k] # frame'[d].held
           /\ Exists(data[d][k])' /\ released'[data'[d][k]] = 0
    <3> SUFFICES ASSUME NEW k \in OwnedSlots(d)'
                 PROVE  /\ data'[d][k] \in ElemsOf(d) /\ data'[d][k] # None
                        /\ val'[data'[d][k]] # None /\ released[data'[d][k]] = 0
      BY <1>1, <1>12, <1>13 DEF Exists
    <3>1. CASE k = end
      BY <3>1, <2>1, <1>6, <1>7, <1>9, <1>10
    <3>2. CASE k # end
      BY <3>2, <2>2, <1>14, <1>15
    <3> QED BY <3>1, <3>2
  <2>5. \A k, l \in OwnedSlots(d)' : data'[d][k] = data'[d][l] => k = l
    BY <2>3, <1>10, <1>14, <1>15
  <2> QED BY <2>4, <2>5 DEF Owning
<1>17. Accounted(d)'
  <2> SUFFICES ASSUME NEW f \in ElemsOf(d)
               PROVE  /\ released[f] <= 1
                      /\ val'[f] = None => released[f] = 0
                      /\ val'[f] # None =>
                            \/ released[f] = 1 \/ f \in lost
                            \/ \E k \in OwnedSlots(d)' : data'[d][k] = f
    BY <1>1 DEF Accounted, Exists
  <2>1. CASE f = e
    BY <2>1, <1>7, <1>10, <1>14
  <2>2. CASE f # e
    <3>1. val'[f] = val[f] /\ f # None
      BY <2>2, <1>2, <1>9, Typed
    <3>2. \A k \in OwnedSlots(d) : k \in OwnedSlots(d)' /\ data'[d][k] = data[d][k]
      BY <1>14, <1>15
    <3>3. /\ released[f] <= 1
          /\ val[f] = None => released[f] = 0
          /\ val[f] # None => \/ released[f] = 1 \/ f \in lost \/ f = frame[d].held
                              \/ \E k \in OwnedSlots(d) : data[d][k] = f
      BY <1>2 DEF IterInv, Accounted, Exists
    <3> QED BY <3>1, <3>2, <3>3, <1>13
  <2> QED BY <2>1, <2>2
<1>18. Unwritten(d)'
  <2> SUFFICES ASSUME NEW k \in Slots, k >= end + 1 PROVE val'[<<d, k>>] = None
    BY <1>1, <1>11 DEF Unwritten, Exists
  <2>1. k \in Nat /\ end \in Nat /\ k # end /\ k >= end
    BY <1>3 DEF Slots
  <2>2. <<d, k>> # e /\ <<d, k>> \in Elems
    BY <2>1 DEF e, Elems
  <2>3. ~Exists(<<d, k>>)
    BY <2>1, <1>1, <1>2 DEF IterInv, Unwritten, end
  <2> QED BY <2>2, <2>3, <1>9 DEF Exists
<1>19. CloningFrom(d)'
  <2>1. pc'[s] = "idle" /\ alive'[s] = alive[s]
    BY <1>1, <1>4, <1>11
  <2>2. alive[s].start \in 0 .. N /\ alive[s].end \in 0 .. N
    BY <1>2, <1>4, Typed
  <2> QED BY <2>1, <2>2, <1>1, <1>3, <1>4, <1>11, <1>12 DEF CloningFrom
<1>20. Ranges(d)' /\ Holding(d)'
  BY <1>1, <1>3, <1>11, <1>12, <1>13 DEF Ranges, Holding
<1>21. TypeOK'
  BY <1>1, <1>2, <1>9, <1>10, <1>11, <1>12 DEF TypeOK
<1>22. OnlyChanges(d)
  BY <1>1, <1>6, <1>9, <1>10, <1>11, <1>12 DEF OnlyChanges
<1> QED BY <1>1, <1>2, <1>16, <1>17, <1>18, <1>19, <1>20, <1>21, <1>22, Assemble DEF IterInv

\* A clone that panics drops what it has written, like any other iterator.
LEMMA ClonePanicsInv == ASSUME IInv, NEW d \in Iters, ClonePanics(d) PROVE IInv'
<1>1. /\ pc[d] = "cloning"
      /\ StartDrop(d, "clone", alive[d].start, alive[d].end, Unit, None)
      /\ unwinding' = [unwinding EXCEPT ![d] = TRUE]
      /\ UNCHANGED <<data, val, released, lost, out, aborted>>
  BY DEF ClonePanics, Cloning
<1>2. TypeOK /\ IterInv(d)
  BY DEF IInv
<1>3. OwnedSlots(d) = AliveSlots(d) /\ frame[d].held = None
  BY <1>1, <1>2 DEF OwnedSlots, DyingSlots, IterInv, Holding
<1>4. unwinding' \in [Iters -> BOOLEAN] /\ out' \in Outs /\ aborted' \in BOOLEAN
  BY <1>1, <1>2 DEF TypeOK
<1>5. "clone" \in Ops \ {"nth", "nth_back"} /\ Unit \in Answers
  BY AnswerTypes DEF Ops
<1> QED BY <1>1, <1>3, <1>4, <1>5, DropAllInv

\* A complete clone becomes an iterator of the client.
LEMMA CloneReturnsInv == ASSUME IInv, NEW d \in Iters, CloneReturns(d) PROVE IInv'
<1>1. /\ pc[d] = "cloning"
      /\ pc' = [pc EXCEPT ![d] = "idle"] /\ frame' = [frame EXCEPT ![d] = NoFrame]
      /\ UNCHANGED <<data, alive, unwinding, val, released, lost, out, aborted>>
  BY DEF CloneReturns, Cloning
<1>2. TypeOK /\ IterInv(d)
  BY DEF IInv
<1>3. DyingSlots(d) = {} /\ frame[d].held = None
  BY <1>1, <1>2 DEF DyingSlots, IterInv, Holding
<1>4. unwinding' \in [Iters -> BOOLEAN] /\ out' \in Outs
  BY <1>1, <1>2 DEF TypeOK
<1> QED BY <1>1, <1>3, <1>4, EndInv

-----------------------------------------------------------------------------

\* Every step of every call, finished or unwinding, preserves the invariant.
LEMMA StepInv == IInv /\ [Next]_vars => IInv'
<1> SUFFICES ASSUME IInv, [Next]_vars PROVE IInv'
  OBVIOUS
<1>1. ASSUME NEW i \in Iters, Call(i) PROVE IInv'
  <2>1. CASE NextItem(i) \/ NextBack(i)
    BY <2>1, NextInv
  <2>2. CASE Count(i) \/ Drop(i)
    BY <2>2, CountDropInv
  <2>3. CASE Last(i)
    BY <2>3, LastInv
  <2>4. CASE Swap(i)
    BY <2>4, SwapInv
  <2>5. CASE \E n \in 0 .. MaxSkip : Nth(i, n) \/ NthBack(i, n)
    BY <2>5, NthInv
  <2>6. CASE \E d \in Iters : Clone(i, d)
    BY <2>6, CloneInv
  <2> QED BY <1>1, <2>1, <2>2, <2>3, <2>4, <2>5, <2>6 DEF Call
<1>2. ASSUME NEW i \in Iters, Run(i) PROVE IInv'
  <2>1. CASE DropElement(i) \/ DropPanics(i)
    BY <2>1, DropElementInv
  <2>2. CASE NthReturns(i)
    BY <2>2, NthReturnsInv
  <2>3. CASE NthCaught(i)
    BY <2>3, CaughtInv
  <2>4. CASE NthUnwinds(i)
    BY <2>4, UnwindsInv
  <2>5. CASE Consumed(i)
    BY <2>5, ConsumedInv
  <2>6. CASE LastReturns(i) \/ LastUnwinds(i)
    BY <2>6, LastEndsInv
  <2>7. CASE CloneElement(i)
    BY <2>7, CloneElementInv
  <2>8. CASE ClonePanics(i)
    BY <2>8, ClonePanicsInv
  <2>9. CASE CloneReturns(i)
    BY <2>9, CloneReturnsInv
  <2> QED BY <1>2, <2>1, <2>2, <2>3, <2>4, <2>5, <2>6, <2>7, <2>8, <2>9 DEF Run
<1>3. CASE UNCHANGED vars
  BY <1>3 DEF vars, IInv, TypeOK, IterInv, Ranges, Holding, Owning, Accounted, Unwritten,
     CloningFrom, Exists, OwnedSlots, AliveSlots, DyingSlots
<1> QED BY <1>1, <1>2, <1>3 DEF Next, Ended

\* Whatever the client calls and whatever panics, an iterator owns distinct,
\* initialized, unreleased elements and accounts for all it ever held.
THEOREM Invariance == Spec => []IInv
<1> QED BY InitInv, StepInv, PTL DEF Spec

\* No element of an IntoIter is moved out or dropped twice, and no
\* uninitialized slot is read or dropped, for every N and every client.
THEOREM EachElementReleasedOnce == Spec => []ReleasedOnce
<1>1. IInv => ReleasedOnce
  <2> SUFFICES ASSUME IInv, NEW i \in Iters, NEW k \in Slots
               PROVE  released[None] = 0 /\ released[<<i, k>>] <= 1
    BY DEF ReleasedOnce, Elems, IInv
  <2> QED BY DEF IInv, IterInv, Accounted, ElemsOf
<1> QED BY <1>1, Invariance, PTL

\* The slots in `alive` are initialized and owned by one iterator alone: what
\* as_slice lends and next reads is always an element.
THEOREM AliveSlotsAreOwned == Spec => []AliveOwned
<1>1. IInv => AliveOwned
  <2> SUFFICES ASSUME IInv PROVE AliveOwned
    OBVIOUS
  <2>1. ASSUME NEW i \in Iters, NEW k \in AliveSlots(i)
        PROVE  /\ data[i][k] \in ElemsOf(i) /\ data[i][k] # None
               /\ val[data[i][k]] # None /\ released[data[i][k]] = 0
    <3>1. k \in OwnedSlots(i)
      BY <2>1 DEF OwnedSlots
    <3>2. TypeOK /\ Owning(i)
      BY DEF IInv, IterInv
    <3> QED BY <3>1, <3>2, Typed DEF Owning, Exists
  <2>2. ASSUME NEW i \in Iters, NEW j \in Iters, NEW k \in AliveSlots(i), NEW l \in AliveSlots(j),
               data[i][k] = data[j][l]
        PROVE  i = j /\ k = l
    <3>1. i = j
      BY <2>1, <2>2 DEF ElemsOf
    <3> QED BY <2>2, <3>1 DEF IInv, IterInv, Owning, OwnedSlots
  <2> QED BY <2>1, <2>2 DEF AliveOwned
<1> QED BY <1>1, Invariance, PTL

\* When an iterator is gone, each element it ever held was handed to the client
\* or dropped, or is an answer of `last` that the unwinding left behind.
THEOREM NothingLeaks == Spec => []NoLeak
<1>1. IInv => NoLeak
  <2> SUFFICES ASSUME IInv, NEW i \in Iters, NEW k \in Slots,
                      pc[i] = "gone", val[<<i, k>>] # None
               PROVE  released[<<i, k>>] = 1 \/ <<i, k>> \in lost
    BY DEF NoLeak, Elems
  <2>1. TypeOK /\ IterInv(i) /\ <<i, k>> \in ElemsOf(i)
    BY DEF IInv, ElemsOf
  <2>2. OwnedSlots(i) = {}
    BY <2>1, Typed, Constants DEF IterInv, Ranges, OwnedSlots, AliveSlots, DyingSlots
  <2>3. frame[i].held = None /\ <<i, k>> # None
    BY <2>1, Typed DEF IterInv, Holding
  <2> QED BY <2>1, <2>2, <2>3 DEF IterInv, Accounted, Exists
<1> QED BY <1>1, Invariance, PTL

-----------------------------------------------------------------------------
(***************************************************************************)
(* An IntoIter is a deque (OwnedDeque), for every length and any number of *)
(* iterators.  What the invariant above lacks: the range that a call in    *)
(* progress has taken out of `alive`, also where its elements are dropped  *)
(* already, still shows what the client will see the call do.              *)
(***************************************************************************)

\* The slots First(i) .. Beyond(i) - 1 hold the values that i still has.
First(i) ==
    IF pc[i] = "idle" \/ frame[i].op = "nth_back" THEN alive[i].start ELSE frame[i].lo
Beyond(i) ==
    IF pc[i] = "idle" \/ frame[i].op = "nth" THEN alive[i].end ELSE frame[i].hi

\* What a call is asked to skip, as far as there is something left.
Upto(n, len) == IF n < len THEN n ELSE len

Shows(i) ==
    LifeOf(i) = "live" =>
        /\ First(i) <= Beyond(i)
        /\ \A k \in First(i) .. Beyond(i) - 1 : data[i][k] \in Elems /\ Exists(data[i][k])

\* What a call in progress is about to answer, and the range it skips: exactly
\* its argument, or all that is left.
InCall(i) ==
    pc[i] = "dropping" =>
        LET f == frame[i] IN
        /\ f.lo <= f.at
        /\ f.op = "nth" => f.hi = alive[i].start
        /\ f.op = "nth_back" => f.lo = alive[i].end
        /\ f.op \in {"nth", "nth_back"} =>
              /\ f.hi - f.lo = Upto(f.n, Beyond(i) - First(i))
              /\ unwinding[i] => f.lo < f.hi
        /\ f.op = "count" => f.ret = Counted(f.hi - f.lo)
        /\ f.op = "drop" => f.ret = Unit
        /\ f.op = "last" => IF f.held = None THEN f.ret = Empty /\ f.lo = f.hi
                                              ELSE f.ret = Some(val[f.held])
        /\ f.op = "clone" => unwinding[i]

\* A clone has the values that it has read so far.
Copies(d) ==
    pc[d] = "cloning" =>
        LET s == frame[d].src IN
        /\ alive[d].start = alive[s].start
        /\ \A k \in AliveSlots(d) : val[data[d][k]] = val[data[s][k]]

Calm(i) == pc[i] \in {"absent", "cloning", "idle"} => ~unwinding[i]

\* Nothing comes from nothing.
Rooted(i) ==
    /\ i \in Roots => LifeOf(i) # "absent"
    /\ pc[i] # "absent" => Roots # {}

DequeInv(i) == Shows(i) /\ InCall(i) /\ Copies(i) /\ Calm(i) /\ Rooted(i)

DInv == \A i \in Iters : DequeInv(i)

-----------------------------------------------------------------------------
\* Sequences of the values v of the elements d in the slots lo .. hi - 1.

ValuesIn(v, d, lo, hi) == [k \in 1 .. hi - lo |-> v[d[lo + k - 1]]]

HasValues(v, d, lo, hi) == \A k \in lo .. hi - 1 : v[d[k]] \in Slots

IsValues(s, v, d, lo, hi) ==
    /\ s \in Seq(Slots) /\ Len(s) = hi - lo
    /\ \A k \in 1 .. hi - lo : s[k] = v[d[lo + k - 1]]

LEMMA ValuesAre ==
    ASSUME NEW v, NEW d, NEW lo \in Nat, NEW hi \in Nat, lo <= hi, HasValues(v, d, lo, hi)
    PROVE  IsValues(ValuesIn(v, d, lo, hi), v, d, lo, hi)
<1> DEFINE s == ValuesIn(v, d, lo, hi)
<1>1. hi - lo \in Nat /\ \A k \in 1 .. hi - lo : lo + k - 1 \in lo .. hi - 1
  OBVIOUS
<1>2. s \in [1 .. hi - lo -> Slots]
  BY <1>1 DEF ValuesIn, HasValues
<1>3. \A k \in 1 .. hi - lo : s[k] = v[d[lo + k - 1]]
  BY DEF ValuesIn
<1> HIDE DEF s
<1>4. s \in Seq(Slots) /\ Len(s) = hi - lo
  BY <1>1, <1>2
<1> QED BY <1>3, <1>4 DEF s, IsValues

LEMMA SameSequence ==
    ASSUME NEW S, NEW s \in Seq(S), NEW t \in Seq(S), Len(s) = Len(t),
           \A k \in 1 .. Len(s) : s[k] = t[k]
    PROVE  s = t
BY SeqEqual

LEMMA NoValues ==
    ASSUME NEW v, NEW d, NEW lo \in Nat
    PROVE  ValuesIn(v, d, lo, lo) = <<>>
<1>1. lo - lo = 0
  OBVIOUS
<1> QED BY <1>1 DEF ValuesIn

LEMMA SomeValues ==
    ASSUME NEW v, NEW d, NEW lo \in Nat, NEW hi \in Nat, lo < hi, HasValues(v, d, lo, hi)
    PROVE  ValuesIn(v, d, lo, hi) # <<>>
<1> DEFINE s == ValuesIn(v, d, lo, hi)
<1>1. IsValues(s, v, d, lo, hi)
  BY ValuesAre
<1> HIDE DEF s
<1>2. Len(s) # 0
  BY <1>1 DEF IsValues
<1> QED BY <1>2, EmptySeq DEF s

Agree(v, d, w, e, lo, hi) == \A k \in lo .. hi - 1 : v[d[k]] = w[e[k]]

LEMMA SameValues ==
    ASSUME NEW v, NEW w, NEW d, NEW e, NEW lo \in Nat, NEW hi \in Nat, Agree(v, d, w, e, lo, hi)
    PROVE  ValuesIn(v, d, lo, hi) = ValuesIn(w, e, lo, hi)
<1>1. \A k \in 1 .. hi - lo : lo + k - 1 \in lo .. hi - 1
  OBVIOUS
<1> QED BY <1>1 DEF ValuesIn, Agree

\* The first n values are skipped.
LEMMA WithoutFirstValues ==
    ASSUME NEW v, NEW d, NEW lo \in Nat, NEW hi \in Nat, NEW mid \in lo .. hi,
           HasValues(v, d, lo, hi)
    PROVE  Deque!WithoutFirst(ValuesIn(v, d, lo, hi), mid - lo) = ValuesIn(v, d, mid, hi)
<1> DEFINE s == ValuesIn(v, d, lo, hi)
           t == ValuesIn(v, d, mid, hi)
           n == mid - lo
<1>0. IsValues(s, v, d, lo, hi)
  BY ValuesAre
<1>1. /\ s \in Seq(Slots) /\ Len(s) = hi - lo
      /\ \A k \in 1 .. hi - lo : s[k] = v[d[lo + k - 1]]
  <2> HIDE DEF s
  <2> QED BY <1>0 DEF IsValues
<1>2. HasValues(v, d, mid, hi)
  BY DEF HasValues
<1>3. /\ t \in Seq(Slots) /\ Len(t) = hi - mid
      /\ \A k \in 1 .. hi - mid : t[k] = v[d[mid + k - 1]]
  <2>1. IsValues(t, v, d, mid, hi)
    BY <1>2, ValuesAre
  <2> HIDE DEF t
  <2> QED BY <2>1 DEF IsValues
<1>4. CASE mid < hi
  <2> HIDE DEF s, t
  <2>1. n \in Nat /\ n < Len(s) /\ n + 1 \in 1 .. Len(s) + 1 /\ Len(s) \in 0 .. Len(s)
    BY <1>1, <1>4
  <2> DEFINE u == SubSeq(s, n + 1, Len(s))
  <2>2. /\ u \in Seq(Slots)
        /\ Len(u) = hi - mid
        /\ \A k \in 1 .. hi - mid : u[k] = s[n + k]
    BY <1>1, <1>4, <2>1, SubSeqProperties
  <2>3. \A k \in 1 .. hi - mid : u[k] = t[k]
    <3> SUFFICES ASSUME NEW k \in 1 .. hi - mid PROVE u[k] = t[k]
      OBVIOUS
    <3>1. n + k \in 1 .. hi - lo /\ lo + (n + k) - 1 = mid + k - 1
      OBVIOUS
    <3> QED BY <1>1, <1>3, <2>2, <3>1
  <2> HIDE DEF u
  <2>4. u = t
    BY <1>3, <2>2, <2>3, SameSequence
  <2> QED BY <2>1, <2>4 DEF Deque!WithoutFirst, u, s, t
<1>5. CASE mid = hi
  <2>1. t = <<>>
    BY <1>5, NoValues
  <2>2. ~(n < Len(s))
    BY <1>1, <1>5
  <2> HIDE DEF s, t, n
  <2> QED BY <2>1, <2>2 DEF Deque!WithoutFirst, s, t, n
<1> QED BY <1>4, <1>5

\* The last n values are skipped.
LEMMA WithoutLastValues ==
    ASSUME NEW v, NEW d, NEW lo \in Nat, NEW hi \in Nat, NEW mid \in lo .. hi,
           HasValues(v, d, lo, hi)
    PROVE  Deque!WithoutLast(ValuesIn(v, d, lo, hi), hi - mid) = ValuesIn(v, d, lo, mid)
<1> DEFINE s == ValuesIn(v, d, lo, hi)
           t == ValuesIn(v, d, lo, mid)
           n == hi - mid
<1>0. IsValues(s, v, d, lo, hi)
  BY ValuesAre
<1>1. /\ s \in Seq(Slots) /\ Len(s) = hi - lo
      /\ \A k \in 1 .. hi - lo : s[k] = v[d[lo + k - 1]]
  <2> HIDE DEF s
  <2> QED BY <1>0 DEF IsValues
<1>2. HasValues(v, d, lo, mid)
  BY DEF HasValues
<1>3. /\ t \in Seq(Slots) /\ Len(t) = mid - lo
      /\ \A k \in 1 .. mid - lo : t[k] = v[d[lo + k - 1]]
  <2>1. IsValues(t, v, d, lo, mid)
    BY <1>2, ValuesAre
  <2> HIDE DEF t
  <2> QED BY <2>1 DEF IsValues
<1>4. CASE lo < mid
  <2> HIDE DEF s, t
  <2>1. n \in Nat /\ n < Len(s) /\ Len(s) - n = mid - lo /\ mid - lo \in 0 .. Len(s)
    BY <1>1, <1>4
  <2> DEFINE u == SubSeq(s, 1, Len(s) - n)
  <2>2. /\ u \in Seq(Slots)
        /\ Len(u) = mid - lo
        /\ \A k \in 1 .. mid - lo : u[k] = s[k]
    BY <1>1, <1>4, <2>1, SubSeqProperties
  <2>3. \A k \in 1 .. mid - lo : u[k] = t[k]
    BY <1>1, <1>3, <2>2
  <2> HIDE DEF u
  <2>4. u = t
    BY <1>3, <2>2, <2>3, SameSequence
  <2> QED BY <2>1, <2>4 DEF Deque!WithoutLast, u, s, t
<1>5. CASE lo = mid
  <2>1. t = <<>>
    BY <1>5, NoValues
  <2>2. ~(n < Len(s))
    BY <1>1, <1>5
  <2> HIDE DEF s, t, n
  <2> QED BY <2>1, <2>2 DEF Deque!WithoutLast, s, t, n
<1> QED BY <1>4, <1>5

\* Skipping more than there is skips all.
LEMMA WithoutUpto ==
    ASSUME NEW s \in Seq(Slots), NEW n \in Nat
    PROVE  /\ Deque!WithoutFirst(s, Upto(n, Len(s))) = Deque!WithoutFirst(s, n)
           /\ Deque!WithoutLast(s, Upto(n, Len(s))) = Deque!WithoutLast(s, n)
BY DEF Deque!WithoutFirst, Deque!WithoutLast, Upto

\* The first value and the rest.
Begins(s, v, d, lo, hi) == Head(s) = v[d[lo]] /\ Tail(s) = ValuesIn(v, d, lo + 1, hi)

LEMMA HeadOfValues ==
    ASSUME NEW v, NEW d, NEW lo \in Nat, NEW hi \in Nat, lo < hi, HasValues(v, d, lo, hi)
    PROVE  Begins(ValuesIn(v, d, lo, hi), v, d, lo, hi)
<1> DEFINE s == ValuesIn(v, d, lo, hi)
           t == ValuesIn(v, d, lo + 1, hi)
<1>0. IsValues(s, v, d, lo, hi) /\ s # <<>>
  BY ValuesAre, SomeValues
<1>1. /\ s \in Seq(Slots) /\ Len(s) = hi - lo /\ s # <<>>
      /\ \A k \in 1 .. hi - lo : s[k] = v[d[lo + k - 1]]
  <2> HIDE DEF s
  <2> QED BY <1>0 DEF IsValues
<1>2. HasValues(v, d, lo + 1, hi)
  BY DEF HasValues
<1>3. /\ t \in Seq(Slots) /\ Len(t) = hi - (lo + 1)
      /\ \A k \in 1 .. hi - (lo + 1) : t[k] = v[d[lo + 1 + k - 1]]
  <2>1. IsValues(t, v, d, lo + 1, hi)
    BY <1>2, ValuesAre
  <2> HIDE DEF t
  <2> QED BY <2>1 DEF IsValues
<1> HIDE DEF s, t
<1>4. /\ Head(s) = s[1] /\ Tail(s) \in Seq(Slots) /\ Len(Tail(s)) = Len(s) - 1
      /\ \A k \in 1 .. Len(Tail(s)) : Tail(s)[k] = s[k + 1]
  BY <1>1, HeadTailProperties
<1>5. s[1] = v[d[lo]]
  BY <1>1
<1>6. \A k \in 1 .. Len(Tail(s)) : Tail(s)[k] = t[k]
  <2> SUFFICES ASSUME NEW k \in 1 .. Len(Tail(s)) PROVE s[k + 1] = t[k]
    BY <1>4
  <2>1. k + 1 \in 1 .. hi - lo /\ k \in 1 .. hi - (lo + 1) /\ lo + (k + 1) - 1 = lo + 1 + k - 1
    BY <1>1, <1>4
  <2> QED BY <1>1, <1>3, <2>1
<1>7. Tail(s) = t
  BY <1>1, <1>3, <1>4, <1>6, SameSequence
<1>8. Begins(s, v, d, lo, hi)
  BY <1>4, <1>5, <1>7 DEF Begins, t
<1> QED BY <1>8 DEF s

\* The last value and those before it.
FinishedBy(s, v, d, lo, hi) ==
    s[Len(s)] = v[d[hi - 1]] /\ Deque!WithoutLast(s, 1) = ValuesIn(v, d, lo, hi - 1)

LEMMA LastOfValues ==
    ASSUME NEW v, NEW d, NEW lo \in Nat, NEW hi \in Nat, lo < hi, HasValues(v, d, lo, hi)
    PROVE  FinishedBy(ValuesIn(v, d, lo, hi), v, d, lo, hi)
<1> DEFINE s == ValuesIn(v, d, lo, hi)
<1>0. IsValues(s, v, d, lo, hi)
  BY ValuesAre
<1>1. /\ Len(s) = hi - lo /\ hi - lo \in 1 .. hi - lo
      /\ \A k \in 1 .. hi - lo : s[k] = v[d[lo + k - 1]]
  <2> HIDE DEF s
  <2> QED BY <1>0 DEF IsValues
<1>2. s[Len(s)] = v[d[hi - 1]]
  <2>1. lo + (hi - lo) - 1 = hi - 1
    OBVIOUS
  <2> QED BY <1>1, <2>1
<1>3. hi - 1 \in lo .. hi /\ hi - (hi - 1) = 1
  OBVIOUS
<1>4. Deque!WithoutLast(s, hi - (hi - 1)) = ValuesIn(v, d, lo, hi - 1)
  BY <1>3, WithoutLastValues
<1> HIDE DEF s
<1>5. FinishedBy(s, v, d, lo, hi)
  BY <1>2, <1>3, <1>4 DEF FinishedBy
<1> QED BY <1>5 DEF s

\* A value that was taken from the end, put back.
LEMMA AppendValue ==
    ASSUME NEW v, NEW d, NEW lo \in Nat, NEW hi \in Nat, lo <= hi, HasValues(v, d, lo, hi + 1)
    PROVE  Append(ValuesIn(v, d, lo, hi), v[d[hi]]) = ValuesIn(v, d, lo, hi + 1)
<1> DEFINE s == ValuesIn(v, d, lo, hi)
           t == ValuesIn(v, d, lo, hi + 1)
           u == Append(s, v[d[hi]])
<1>1. HasValues(v, d, lo, hi) /\ v[d[hi]] \in Slots
  BY DEF HasValues
<1>2. /\ s \in Seq(Slots) /\ Len(s) = hi - lo
      /\ \A k \in 1 .. hi - lo : s[k] = v[d[lo + k - 1]]
  <2>1. IsValues(s, v, d, lo, hi)
    BY <1>1, ValuesAre
  <2> HIDE DEF s
  <2> QED BY <2>1 DEF IsValues
<1>3. /\ t \in Seq(Slots) /\ Len(t) = hi + 1 - lo
      /\ \A k \in 1 .. hi + 1 - lo : t[k] = v[d[lo + k - 1]]
  <2>1. IsValues(t, v, d, lo, hi + 1)
    BY ValuesAre
  <2> HIDE DEF t
  <2> QED BY <2>1 DEF IsValues
<1> HIDE DEF s, t
<1>4. /\ u \in Seq(Slots) /\ Len(u) = Len(s) + 1
      /\ \A k \in 1 .. Len(s) : u[k] = s[k]
      /\ u[Len(s) + 1] = v[d[hi]]
  <2> DEFINE x == v[d[hi]]
  <2>1. x \in Slots
    BY <1>1
  <2> HIDE DEF x
  <2>2. /\ Append(s, x) \in Seq(Slots) /\ Len(Append(s, x)) = Len(s) + 1
        /\ \A k \in 1 .. Len(s) : Append(s, x)[k] = s[k]
        /\ Append(s, x)[Len(s) + 1] = x
    BY <1>2, <2>1, AppendProperties
  <2> QED BY <2>2 DEF x
<1> HIDE DEF u
<1>5. \A k \in 1 .. Len(u) : u[k] = t[k]
  <2> SUFFICES ASSUME NEW k \in 1 .. Len(u) PROVE u[k] = t[k]
    OBVIOUS
  <2>1. CASE k \in 1 .. Len(s)
    <3>1. k \in 1 .. hi - lo /\ k \in 1 .. hi + 1 - lo
      BY <1>2, <2>1
    <3> QED BY <1>2, <1>3, <1>4, <2>1, <3>1
  <2>2. CASE k = Len(s) + 1
    <3>1. k \in 1 .. hi + 1 - lo /\ lo + k - 1 = hi
      BY <1>2, <2>2
    <3> QED BY <1>3, <1>4, <2>2, <3>1
  <2> QED BY <1>2, <1>4, <2>1, <2>2
<1>6. Len(u) = Len(t)
  BY <1>2, <1>3, <1>4
<1> QED BY <1>3, <1>4, <1>5, <1>6, SameSequence DEF s, t, u

-----------------------------------------------------------------------------
\* The deque that an iterator shows, in terms of these sequences.

\* The values that i still has, but for one in the answer of `last`.
Kept(i) == ValuesIn(val, data[i], First(i), Beyond(i))

Returned(i) == pc[i] # "idle" /\ frame[i].op = "last" /\ frame[i].held # None

LEMMA RestIs ==
    ASSUME NEW i \in Iters
    PROVE  RestOf(i) = IF LifeOf(i) # "live" THEN <<>>
                       ELSE IF Returned(i) THEN Append(Kept(i), val[frame[i].held]) ELSE Kept(i)
BY DEF RestOf, Contents, Kept, ValuesIn, First, Beyond, Returned

LEMMA RestIsNext ==
    ASSUME NEW i \in Iters
    PROVE  RestOf(i)' = IF LifeOf(i)' # "live" THEN <<>>
                        ELSE IF Returned(i)' THEN Append(Kept(i)', val'[frame'[i].held]) ELSE Kept(i)'
BY DEF RestOf, Contents, Kept, ValuesIn, First, Beyond, Returned

LEMMA Bounds ==
    ASSUME TypeOK, NEW i \in Iters
    PROVE  First(i) \in 0 .. N /\ Beyond(i) \in 0 .. N
BY Typed DEF First, Beyond

LEMMA ValueTypes ==
    ASSUME TypeOK, NEW e \in Elems, Exists(e)
    PROVE  val[e] \in Slots
BY DEF TypeOK, Exists

LEMMA KeptHasValues ==
    ASSUME TypeOK, NEW i \in Iters, Shows(i), LifeOf(i) = "live"
    PROVE  HasValues(val, data[i], First(i), Beyond(i))
BY ValueTypes DEF Shows, HasValues

-----------------------------------------------------------------------------
\* What a step on one iterator leaves alone.

OnlyAt(i) ==
    \A j \in Iters \ {i} :
        /\ data'[j] = data[j] /\ alive'[j] = alive[j] /\ pc'[j] = pc[j]
        /\ frame'[j] = frame[j] /\ unwinding'[j] = unwinding[j]

KeepsValues == \A e \in Elems : Exists(e) => val'[e] = val[e]

Looks(i) == LifeOf(i)' = LifeOf(i) /\ RestOf(i)' = RestOf(i)

LEMMA ElsewhereLooks ==
    ASSUME IInv, DInv, NEW i \in Iters, OnlyAt(i), KeepsValues, NEW j \in Iters \ {i}
    PROVE  Looks(j)
<1>1. /\ data'[j] = data[j] /\ alive'[j] = alive[j] /\ pc'[j] = pc[j] /\ frame'[j] = frame[j]
      /\ TypeOK /\ Shows(j) /\ Holding(j)
  BY DEF OnlyAt, IInv, IterInv, DInv, DequeInv
<1>2. /\ LifeOf(j)' = LifeOf(j) /\ First(j)' = First(j) /\ Beyond(j)' = Beyond(j)
      /\ Returned(j)' = Returned(j)
  BY <1>1 DEF LifeOf, First, Beyond, Returned
<1>3. CASE LifeOf(j) = "live"
  <2>1. \A k \in First(j) .. Beyond(j) - 1 : val'[data[j][k]] = val[data[j][k]]
    BY <1>1, <1>3 DEF Shows, KeepsValues
  <2>2. First(j) \in Nat /\ Beyond(j) \in Nat
    BY <1>1, Bounds, Constants
  <2>3. ValuesIn(val', data[j], First(j), Beyond(j)) = ValuesIn(val, data[j], First(j), Beyond(j))
    <3>1. Agree(val', data[j], val, data[j], First(j), Beyond(j))
      BY <2>1 DEF Agree
    <3> QED BY <2>2, <3>1, SameValues
  <2>4. Kept(j)' = Kept(j)
    BY <1>1, <1>2, <2>3 DEF Kept
  <2>5. Returned(j) => val'[frame[j].held] = val[frame[j].held]
    BY <1>1, Typed DEF Returned, Holding, KeepsValues
  <2> QED BY <1>1, <1>2, <2>4, <2>5, RestIs, RestIsNext DEF Looks
<1>4. CASE LifeOf(j) # "live"
  BY <1>2, <1>4, RestIs, RestIsNext DEF Looks
<1> QED BY <1>3, <1>4

\* A clone's source keeps still.
LEMMA ElsewhereCopies ==
    ASSUME IInv, DInv, NEW i \in Iters, OnlyAt(i), KeepsValues, ~Borrowed(i) \/ pc[i] # "idle",
           NEW j \in Iters \ {i}
    PROVE  Copies(j)'
<1> SUFFICES ASSUME pc'[j] = "cloning" PROVE Copies(j)'
  BY DEF Copies
<1> DEFINE s == frame[j].src
<1>1. /\ data'[j] = data[j] /\ alive'[j] = alive[j] /\ pc'[j] = pc[j] /\ frame'[j] = frame[j]
      /\ TypeOK /\ Owning(j) /\ CloningFrom(j) /\ Copies(j)
  BY DEF OnlyAt, IInv, IterInv, DInv, DequeInv
<1>2. /\ s \in Iters /\ pc[s] = "idle" /\ s # i
      /\ alive[s].start = alive[j].start /\ alive[j].end <= alive[s].end
      /\ \A k \in AliveSlots(j) : val[data[j][k]] = val[data[s][k]]
  BY <1>1 DEF CloningFrom, Copies, Borrowed
<1>3. data'[s] = data[s] /\ alive'[s] = alive[s]
  BY <1>2 DEF OnlyAt
<1>4. Owning(s) /\ alive[j].end \in 0 .. N /\ alive[j].start \in 0 .. N /\ alive[s].end \in 0 .. N
  BY <1>1, <1>2, Typed DEF IInv, IterInv
<1>5. \A k \in AliveSlots(j) : k \in AliveSlots(s)
  BY <1>2, <1>4, Constants DEF AliveSlots
<1>6. \A k \in AliveSlots(j) : /\ data[j][k] \in Elems /\ Exists(data[j][k])
                               /\ data[s][k] \in Elems /\ Exists(data[s][k])
  BY <1>1, <1>2, <1>4, <1>5, Typed DEF Owning, OwnedSlots
<1>7. \A k \in AliveSlots(j) : val'[data[j][k]] = val'[data[s][k]]
  BY <1>2, <1>6 DEF KeepsValues
<1>8. AliveSlots(j)' = AliveSlots(j)
  BY <1>1 DEF AliveSlots
<1> QED BY <1>1, <1>2, <1>3, <1>7, <1>8 DEF Copies

LEMMA ElsewhereInv ==
    ASSUME IInv, DInv, NEW i \in Iters, OnlyAt(i), KeepsValues, ~Borrowed(i) \/ pc[i] # "idle",
           NEW j \in Iters \ {i}
    PROVE  DequeInv(j)'
<1>1. /\ data'[j] = data[j] /\ alive'[j] = alive[j] /\ pc'[j] = pc[j] /\ frame'[j] = frame[j]
      /\ unwinding'[j] = unwinding[j]
      /\ TypeOK /\ Holding(j) /\ DequeInv(j)
  BY DEF OnlyAt, IInv, IterInv, DInv
<1>2. LifeOf(j)' = LifeOf(j) /\ First(j)' = First(j) /\ Beyond(j)' = Beyond(j)
  BY <1>1 DEF LifeOf, First, Beyond
<1>3. Shows(j)'
  <2>1. \A e \in Elems : Exists(e) => Exists(e)'
    BY DEF KeepsValues, Exists
  <2> QED BY <1>1, <1>2, <2>1 DEF DequeInv, Shows
<1>4. InCall(j)'
  <2>1. pc[j] = "dropping" /\ frame[j].op = "last" /\ frame[j].held # None
           => val'[frame[j].held] = val[frame[j].held]
    BY <1>1, Typed DEF Holding, KeepsValues
  <2> QED BY <1>1, <1>2, <2>1 DEF DequeInv, InCall, Upto
<1>5. Calm(j)' /\ Rooted(j)'
  BY <1>1, <1>2 DEF DequeInv, Calm, Rooted
<1> QED BY <1>3, <1>4, <1>5, ElsewhereCopies DEF DequeInv

-----------------------------------------------------------------------------
\* Steps of the deque.

OthersLook(i) == \A j \in Iters \ {i} : Looks(j)

LEMMA AnswerStep ==
    ASSUME NEW i \in Iters, OthersLook(i), LifeOf(i) = "live", LifeOf(i)' = "live",
           NEW s, RestOf(i)' = s, NEW r, out' = r
    PROVE  Deque!Answer(i, s, r)
BY DEF Deque!Answer, OthersLook, Looks

LEMMA ConsumeStep ==
    ASSUME NEW i \in Iters, OthersLook(i), LifeOf(i) = "live", LifeOf(i)' = "gone",
           NEW r, out' = r
    PROVE  Deque!Consume(i, r)
<1>1. RestOf(i)' = <<>>
  BY RestIsNext
<1> QED BY <1>1 DEF Deque!Consume, OthersLook, Looks

LEMMA StutterStep ==
    ASSUME NEW i \in Iters, OthersLook(i), Looks(i), out' = out \/ out' = NoAnswer
    PROVE  Deque!Forget \/ UNCHANGED Deque!vars
BY DEF Deque!vars, Deque!Forget, OthersLook, Looks, NoAnswer

LEMMA EndsAre ==
    ASSUME NEW i \in Iters, NEW op, NEW n
    PROVE  /\ Deque!Front(i, op, n) =
                LET s == Deque!WithoutFirst(RestOf(i), n) IN
                IF s = <<>> THEN Deque!Answer(i, <<>>, Answered(i, op, n, Empty))
                            ELSE Deque!Answer(i, Tail(s), Answered(i, op, n, Some(Head(s))))
           /\ Deque!Back(i, op, n) =
                LET s == Deque!WithoutLast(RestOf(i), n) IN
                IF s = <<>> THEN Deque!Answer(i, <<>>, Answered(i, op, n, Empty))
                            ELSE Deque!Answer(i, Deque!WithoutLast(s, 1),
                                              Answered(i, op, n, Some(s[Len(s)])))
BY DEF Deque!Front, Deque!Back, Answered, Empty, Some

\* The values of an iterator on which no call runs.
IdleValues(i) == ValuesIn(val, data[i], alive[i].start, alive[i].end)

LEMMA IdleRest ==
    ASSUME NEW i \in Iters, pc'[i] = "idle"
    PROVE  /\ LifeOf(i)' = "live" /\ RestOf(i)' = IdleValues(i)'
           /\ First(i)' = alive'[i].start /\ Beyond(i)' = alive'[i].end
<1>1. LifeOf(i)' = "live" /\ ~Returned(i)'
  BY DEF LifeOf, Returned
<1>2. First(i)' = alive'[i].start /\ Beyond(i)' = alive'[i].end
  BY DEF First, Beyond
<1>3. Kept(i)' = IdleValues(i)'
  BY <1>2 DEF Kept, IdleValues
<1> QED BY <1>1, <1>2, <1>3, RestIsNext

\* The values of an iterator that a call is about to answer from one end.
Yields(i) ==
    /\ LifeOf(i) = "live" /\ ~Returned(i) /\ Shows(i)
    /\ First(i) <= alive[i].start /\ alive[i].start <= alive[i].end /\ alive[i].end <= Beyond(i)

\* What a call has skipped at the front is not in the answer; next() skips nothing.
LEMMA FrontStep ==
    ASSUME IInv, NEW i \in Iters, Yields(i), Beyond(i) = alive[i].end,
           NEW op, NEW n \in Nat, TakeFront(i, op, n),
           alive[i].start - First(i) = Upto(n, Beyond(i) - First(i)),
           data' = data, val' = val, pc'[i] = "idle"
    PROVE  Shows(i)' /\ (OthersLook(i) => Deque!Front(i, op, n))
<1> DEFINE f == First(i)
           m == alive[i].start
           b == alive[i].end
           t == ValuesIn(val, data[i], m, b)
<1>1. /\ TypeOK /\ f \in Nat /\ m \in Nat /\ b \in Nat /\ f <= m /\ m <= b
      /\ alive \in [Iters -> [start : 0 .. N, end : 0 .. N]]
      /\ m \in f .. b
  <2>1. TypeOK /\ f \in 0 .. N /\ m \in 0 .. N /\ b \in 0 .. N
    BY Bounds, Typed DEF IInv
  <2> QED BY <2>1, Constants DEF Yields, TypeOK
<1>2. HasValues(val, data[i], f, b) /\ RestOf(i) = ValuesIn(val, data[i], f, b)
  BY <1>1, KeptHasValues, RestIs DEF Yields, Kept
<1>3. Deque!WithoutFirst(RestOf(i), n) = t
  <2>1. Deque!WithoutFirst(ValuesIn(val, data[i], f, b), m - f) = ValuesIn(val, data[i], m, b)
    <3> HIDE DEF f, m, b
    <3> QED BY <1>1, <1>2, WithoutFirstValues
  <2>2. m - f = Upto(n, b - f)
    OBVIOUS
  <2>3. RestOf(i) \in Seq(Slots) /\ Len(RestOf(i)) = b - f
    <3> HIDE DEF f, b
    <3>1. IsValues(RestOf(i), val, data[i], f, b)
      BY <1>1, <1>2, ValuesAre
    <3> QED BY <3>1 DEF IsValues
  <2> HIDE DEF t, f, m, b
  <2>4. Deque!WithoutFirst(RestOf(i), Upto(n, b - f)) = Deque!WithoutFirst(RestOf(i), n)
    BY <2>3, WithoutUpto
  <2> QED BY <1>2, <2>1, <2>2, <2>4 DEF t
<1>4. /\ \A k \in f .. b - 1 : data[i][k] \in Elems /\ Exists(data[i][k])
      /\ \A k \in f .. b - 1 : Exists(data[i][k])'
  BY DEF Yields, Shows, Exists
<1>5. /\ LifeOf(i)' = "live" /\ RestOf(i)' = IdleValues(i)'
      /\ First(i)' = alive'[i].start /\ Beyond(i)' = alive'[i].end
  BY IdleRest
<1>6. CASE m < b
  <2>1. /\ alive' = [alive EXCEPT ![i].start = @ + 1]
        /\ out' = Answered(i, op, n, Some(val[data[i][m]]))
    BY <1>1, <1>6 DEF TakeFront, AliveLen
  <2>2. alive'[i].start = m + 1 /\ alive'[i].end = b
    BY <1>1, <2>1
  <2>3. HasValues(val, data[i], m, b)
    <3>1. \A k \in m .. b - 1 : k \in f .. b - 1
      BY <1>1
    <3> HIDE DEF f, m, b
    <3> QED BY <1>2, <3>1 DEF HasValues
  <2>4. t # <<>> /\ Head(t) = val[data[i][m]] /\ Tail(t) = ValuesIn(val, data[i], m + 1, b)
    <3> HIDE DEF m, b
    <3>1. t # <<>>
      BY <1>1, <1>6, <2>3, SomeValues
    <3>2. Begins(t, val, data[i], m, b)
      BY <1>1, <1>6, <2>3, HeadOfValues
    <3> HIDE DEF t
    <3> QED BY <3>1, <3>2 DEF Begins
  <2>5. RestOf(i)' = Tail(t)
    BY <1>5, <2>2, <2>4 DEF IdleValues
  <2>6. Shows(i)'
    BY <1>1, <1>4, <1>5, <1>6, <2>2 DEF Shows
  <2> HIDE DEF t
  <2>7. OthersLook(i) => Deque!Answer(i, Tail(t), Answered(i, op, n, Some(Head(t))))
    BY <1>5, <2>1, <2>4, <2>5, AnswerStep DEF Yields
  <2> QED BY <1>3, <2>4, <2>6, <2>7, EndsAre
<1>7. CASE m = b
  <2>1. alive' = alive /\ out' = Answered(i, op, n, Empty)
    BY <1>1, <1>7 DEF TakeFront, AliveLen
  <2>2. t = <<>>
    BY <1>1, <1>7, NoValues
  <2>3. RestOf(i)' = <<>>
    BY <1>5, <2>1, <2>2 DEF IdleValues
  <2>4. Shows(i)'
    BY <1>1, <1>4, <1>5, <1>7, <2>1 DEF Shows
  <2> HIDE DEF t
  <2>5. OthersLook(i) => Deque!Answer(i, <<>>, Answered(i, op, n, Empty))
    BY <1>5, <2>1, <2>3, AnswerStep DEF Yields
  <2> QED BY <1>3, <2>2, <2>4, <2>5, EndsAre
<1> QED BY <1>1, <1>6, <1>7

LEMMA BackStep ==
    ASSUME IInv, NEW i \in Iters, Yields(i), First(i) = alive[i].start,
           NEW op, NEW n \in Nat, TakeBack(i, op, n),
           Beyond(i) - alive[i].end = Upto(n, Beyond(i) - First(i)),
           data' = data, val' = val, pc'[i] = "idle"
    PROVE  Shows(i)' /\ (OthersLook(i) => Deque!Back(i, op, n))
<1> DEFINE f == alive[i].start
           m == alive[i].end
           b == Beyond(i)
           t == ValuesIn(val, data[i], f, m)
<1>1. /\ TypeOK /\ f \in Nat /\ m \in Nat /\ b \in Nat /\ f <= m /\ m <= b
      /\ alive \in [Iters -> [start : 0 .. N, end : 0 .. N]]
      /\ m \in f .. b
  <2>1. TypeOK /\ f \in 0 .. N /\ m \in 0 .. N /\ b \in 0 .. N
    BY Bounds, Typed DEF IInv
  <2> QED BY <2>1, Constants DEF Yields, TypeOK
<1>2. HasValues(val, data[i], f, b) /\ RestOf(i) = ValuesIn(val, data[i], f, b)
  BY <1>1, KeptHasValues, RestIs DEF Yields, Kept
<1>3. Deque!WithoutLast(RestOf(i), n) = t
  <2>1. Deque!WithoutLast(ValuesIn(val, data[i], f, b), b - m) = ValuesIn(val, data[i], f, m)
    <3> HIDE DEF f, m, b
    <3> QED BY <1>1, <1>2, WithoutLastValues
  <2>2. b - m = Upto(n, b - f)
    OBVIOUS
  <2>3. RestOf(i) \in Seq(Slots) /\ Len(RestOf(i)) = b - f
    <3> HIDE DEF f, b
    <3>1. IsValues(RestOf(i), val, data[i], f, b)
      BY <1>1, <1>2, ValuesAre
    <3> QED BY <3>1 DEF IsValues
  <2> HIDE DEF t, f, m, b
  <2>4. Deque!WithoutLast(RestOf(i), Upto(n, b - f)) = Deque!WithoutLast(RestOf(i), n)
    BY <2>3, WithoutUpto
  <2> QED BY <1>2, <2>1, <2>2, <2>4 DEF t
<1>4. /\ \A k \in f .. b - 1 : data[i][k] \in Elems /\ Exists(data[i][k])
      /\ \A k \in f .. b - 1 : Exists(data[i][k])'
  BY DEF Yields, Shows, Exists
<1>5. /\ LifeOf(i)' = "live" /\ RestOf(i)' = IdleValues(i)'
      /\ First(i)' = alive'[i].start /\ Beyond(i)' = alive'[i].end
  BY IdleRest
<1>6. CASE f < m
  <2>1. /\ alive' = [alive EXCEPT ![i].end = @ - 1]
        /\ out' = Answered(i, op, n, Some(val[data[i][m - 1]]))
    BY <1>1, <1>6 DEF TakeBack, AliveLen
  <2>2. alive'[i].start = f /\ alive'[i].end = m - 1
    BY <1>1, <2>1
  <2>3. HasValues(val, data[i], f, m)
    <3>1. \A k \in f .. m - 1 : k \in f .. b - 1
      BY <1>1
    <3> HIDE DEF f, m, b
    <3> QED BY <1>2, <3>1 DEF HasValues
  <2>4. /\ t # <<>> /\ t[Len(t)] = val[data[i][m - 1]]
        /\ Deque!WithoutLast(t, 1) = ValuesIn(val, data[i], f, m - 1)
    <3> HIDE DEF f, m
    <3>1. t # <<>>
      BY <1>1, <1>6, <2>3, SomeValues
    <3>2. FinishedBy(t, val, data[i], f, m)
      BY <1>1, <1>6, <2>3, LastOfValues
    <3> HIDE DEF t
    <3> QED BY <3>1, <3>2 DEF FinishedBy
  <2>5. RestOf(i)' = Deque!WithoutLast(t, 1)
    BY <1>5, <2>2, <2>4 DEF IdleValues
  <2>6. Shows(i)'
    BY <1>1, <1>4, <1>5, <1>6, <2>2 DEF Shows
  <2> HIDE DEF t
  <2>7. OthersLook(i) =>
            Deque!Answer(i, Deque!WithoutLast(t, 1), Answered(i, op, n, Some(t[Len(t)])))
    BY <1>5, <2>1, <2>4, <2>5, AnswerStep DEF Yields
  <2> QED BY <1>3, <2>4, <2>6, <2>7, EndsAre
<1>7. CASE f = m
  <2>1. alive' = alive /\ out' = Answered(i, op, n, Empty)
    BY <1>1, <1>7 DEF TakeBack, AliveLen
  <2>2. t = <<>>
    BY <1>1, <1>7, NoValues
  <2>3. RestOf(i)' = <<>>
    BY <1>5, <2>1, <2>2 DEF IdleValues
  <2>4. Shows(i)'
    BY <1>1, <1>4, <1>5, <1>7, <2>1 DEF Shows
  <2> HIDE DEF t
  <2>5. OthersLook(i) => Deque!Answer(i, <<>>, Answered(i, op, n, Empty))
    BY <1>5, <2>1, <2>3, AnswerStep DEF Yields
  <2> QED BY <1>3, <2>2, <2>4, <2>5, EndsAre
<1> QED BY <1>1, <1>6, <1>7

-----------------------------------------------------------------------------
\* The steps touch one iterator and no value.

Touches(i) == OnlyAt(i) /\ KeepsValues /\ (~Borrowed(i) \/ pc[i] # "idle")

LEMMA CallTouches ==
    ASSUME IInv, NEW i \in Iters,
           \/ NextItem(i) \/ NextBack(i) \/ Count(i) \/ Last(i) \/ Drop(i) \/ Swap(i)
           \/ \E n \in 0 .. MaxSkip : Nth(i, n) \/ NthBack(i, n)
    PROVE  Touches(i)
<1>1. ~Borrowed(i) /\ val' = val
  BY DEF NextItem, NextBack, Count, Last, Drop, Swap, Nth, NthBack, Ready
<1>2. KeepsValues
  BY <1>1 DEF KeepsValues
<1>3. OnlyAt(i)
  <2>1. TypeOK
    BY DEF IInv
  <2>2. CASE NextItem(i) \/ NextBack(i)
    BY <2>1, <2>2 DEF TypeOK, OnlyAt, NextItem, NextBack, TakeFront, TakeBack
  <2>3. CASE Count(i) \/ Last(i) \/ Drop(i)
    BY <2>1, <2>3 DEF TypeOK, OnlyAt, Count, Last, Drop, StartDrop
  <2>4. CASE Swap(i)
    BY <2>1, <2>4 DEF TypeOK, OnlyAt, Swap
  <2>5. CASE \E n \in 0 .. MaxSkip : Nth(i, n) \/ NthBack(i, n)
    BY <2>1, <2>5 DEF TypeOK, OnlyAt, Nth, NthBack
  <2> QED BY <2>2, <2>3, <2>4, <2>5
<1> QED BY <1>1, <1>2, <1>3 DEF Touches

LEMMA CloneTouches ==
    ASSUME IInv, NEW i \in Iters, NEW d \in Iters, Clone(i, d)
    PROVE  Touches(d)
<1>1. TypeOK
  BY DEF IInv
<1> QED BY <1>1 DEF TypeOK, Clone, Touches, OnlyAt, KeepsValues

LEMMA RunTouches ==
    ASSUME IInv, NEW i \in Iters, Run(i)
    PROVE  Touches(i)
<1>1. TypeOK /\ Unwritten(i)
  BY DEF IInv, IterInv
<1>2. CASE DropElement(i) \/ DropPanics(i)
  BY <1>1, <1>2 DEF TypeOK, Touches, OnlyAt, KeepsValues, DropElement, DropPanics, Dropping
<1>3. CASE NthReturns(i)
  BY <1>1, <1>3 DEF TypeOK, Touches, OnlyAt, KeepsValues, NthReturns, RangeDropped, TakeFront, TakeBack
<1>4. CASE NthCaught(i) \/ NthUnwinds(i)
  BY <1>1, <1>4 DEF TypeOK, Touches, OnlyAt, KeepsValues, NthCaught, NthUnwinds, RangeDropped, StartDrop
<1>5. CASE Consumed(i) \/ LastReturns(i) \/ LastUnwinds(i)
  BY <1>1, <1>5 DEF TypeOK, Touches, OnlyAt, KeepsValues, Consumed, LastReturns, LastUnwinds,
                    RangeDropped, Gone
<1>6. CASE CloneElement(i)
  <2>1. /\ pc[i] = "cloning" /\ alive[i].end \in Slots
        /\ \E x : val' = [val EXCEPT ![<<i, alive[i].end>>] = val[x]]
    BY <1>6 DEF CloneElement, Cloning
  <2>2. ~Exists(<<i, alive[i].end>>)
    BY <1>1, <2>1, Constants DEF Unwritten, Slots
  <2>3. KeepsValues
    BY <1>1, <2>1, <2>2 DEF TypeOK, KeepsValues, Exists
  <2>4. OnlyAt(i)
    BY <1>1, <1>6 DEF TypeOK, OnlyAt, CloneElement
  <2> QED BY <2>1, <2>3, <2>4 DEF Touches
<1>7. CASE ClonePanics(i) \/ CloneReturns(i)
  BY <1>1, <1>7 DEF TypeOK, Touches, OnlyAt, KeepsValues, ClonePanics, CloneReturns, Cloning, StartDrop
<1> QED BY <1>2, <1>3, <1>4, <1>5, <1>6, <1>7 DEF Run

\* A step that touches i only has to be looked at there.
LEMMA TouchesOnly ==
    ASSUME IInv, DInv, NEW i \in Iters, Touches(i), DequeInv(i)'
    PROVE  DInv' /\ OthersLook(i)
<1>1. \A j \in Iters \ {i} : DequeInv(j)'
  BY ElsewhereInv DEF Touches
<1>2. OthersLook(i)
  BY ElsewhereLooks DEF Touches, OthersLook
<1> QED BY <1>1, <1>2 DEF DInv

-----------------------------------------------------------------------------
\* What is left to show of an iterator after a step, by where the step leaves it.

LEMMA IdleInv ==
    ASSUME NEW i \in Iters, DequeInv(i), pc[i] # "absent",
           pc'[i] = "idle", ~unwinding'[i], Shows(i)'
    PROVE  DequeInv(i)'
<1>1. LifeOf(i)' = "live"
  BY DEF LifeOf
<1> QED BY <1>1 DEF DequeInv, InCall, Copies, Calm, Rooted

LEMMA GoneInv ==
    ASSUME NEW i \in Iters, DequeInv(i), pc[i] # "absent", pc'[i] = "gone"
    PROVE  DequeInv(i)' /\ LifeOf(i)' = "gone"
<1>1. LifeOf(i)' = "gone"
  BY DEF LifeOf
<1> QED BY <1>1 DEF DequeInv, Shows, InCall, Copies, Calm, Rooted

LEMMA DroppingInv ==
    ASSUME NEW i \in Iters, DequeInv(i), pc[i] # "absent", pc'[i] = "dropping",
           LifeOf(i) = "absent" \/ frame'[i].op # "clone", Shows(i)', InCall(i)'
    PROVE  DequeInv(i)'
<1>1. frame'[i].op # "clone" => LifeOf(i)' = "live"
  BY DEF LifeOf
<1> QED BY <1>1 DEF DequeInv, Copies, Calm, Rooted

LEMMA DropStarts ==
    ASSUME TypeOK, NEW i \in Iters, NEW op \in Ops,
           NEW lo \in 0 .. N, NEW hi \in 0 .. N, lo <= hi,
           NEW ret \in Answers, NEW held \in Elems \cup {None},
           StartDrop(i, op, lo, hi, ret, held)
    PROVE  /\ pc'[i] = "dropping" /\ frame'[i].op = op
           /\ frame'[i].lo = lo /\ frame'[i].at = lo /\ frame'[i].hi = hi
           /\ frame'[i].ret = ret /\ frame'[i].held = held
           /\ alive'[i].start = 0 /\ alive'[i].end = 0
<1>1. frame'[i] = DropRange(op, 0, lo, hi, ret, held) /\ 0 \in 0 .. MaxSkip
  BY MaxSkipAssumption DEF TypeOK, StartDrop
<1>2. pc'[i] = "dropping" /\ alive'[i] = [start |-> 0, end |-> 0]
  BY DEF TypeOK, StartDrop
<1> QED BY <1>1, <1>2, DropRangeInBounds

-----------------------------------------------------------------------------
\* One lemma for each call and each step, as for the invariant.

Refines(i) == OthersLook(i) => Deque!Next \/ UNCHANGED Deque!vars

Simulates(i) == DequeInv(i)' /\ Refines(i)

LEMMA Stutters ==
    ASSUME NEW i \in Iters, DequeInv(i)', Looks(i), out' = out \/ out' = NoAnswer
    PROVE  Simulates(i)
BY StutterStep DEF Simulates, Refines, Deque!Next

\* An iterator on which no call runs yields its alive slots from both ends.
LEMMA IdleYields ==
    ASSUME IInv, DInv, NEW i \in Iters, pc[i] = "idle"
    PROVE  /\ Yields(i) /\ DequeInv(i) /\ ~unwinding[i] /\ TypeOK
           /\ First(i) = alive[i].start /\ Beyond(i) = alive[i].end
           /\ LifeOf(i) = "live" /\ RestOf(i) = IdleValues(i)
           /\ alive[i].start \in 0 .. N /\ alive[i].end \in 0 .. N /\ alive[i].start <= alive[i].end
           /\ \A k \in AliveSlots(i) : data[i][k] \in Elems /\ Exists(data[i][k])
           /\ HasValues(val, data[i], alive[i].start, alive[i].end)
<1>1. /\ DequeInv(i) /\ TypeOK
      /\ alive[i].start \in 0 .. N /\ alive[i].end \in 0 .. N /\ alive[i].start <= alive[i].end
  BY ReadyFacts DEF DInv
<1>2. LifeOf(i) = "live" /\ ~Returned(i) /\ First(i) = alive[i].start /\ Beyond(i) = alive[i].end
  BY DEF LifeOf, Returned, First, Beyond
<1>3. ~unwinding[i] /\ Shows(i)
  BY <1>1 DEF DequeInv, Calm
<1>4. HasValues(val, data[i], First(i), Beyond(i))
  BY <1>1, <1>2, <1>3, KeptHasValues
<1>5. RestOf(i) = IdleValues(i)
  BY <1>2, RestIs DEF Kept, IdleValues
<1>6. Yields(i)
  BY <1>1, <1>2, <1>3, Constants DEF Yields
<1>7. \A k \in AliveSlots(i) : data[i][k] \in Elems /\ Exists(data[i][k])
  BY <1>2, <1>3 DEF Shows, AliveSlots
<1> QED BY <1>1, <1>2, <1>3, <1>4, <1>5, <1>6, <1>7

\* next() and next_back() skip nothing.
LEMMA NextSimulates ==
    ASSUME IInv, DInv, NEW i \in Iters, NextItem(i) \/ NextBack(i)
    PROVE  Simulates(i)
<1>1. /\ pc[i] = "idle" /\ UNCHANGED <<data, pc, frame, unwinding, val, lost, aborted>>
      /\ TakeFront(i, "next", 0) \/ TakeBack(i, "next_back", 0)
  BY DEF NextItem, NextBack, Ready
<1>2. /\ Yields(i) /\ DequeInv(i) /\ ~unwinding[i]
      /\ First(i) = alive[i].start /\ Beyond(i) = alive[i].end
      /\ alive[i].start \in Nat /\ alive[i].end \in Nat /\ alive[i].start <= alive[i].end
  BY <1>1, IdleYields, Constants
<1>3. /\ alive[i].start - First(i) = Upto(0, Beyond(i) - First(i))
      /\ Beyond(i) - alive[i].end = Upto(0, Beyond(i) - First(i))
  BY <1>2 DEF Upto
<1>4. Shows(i)' /\ (OthersLook(i) => Deque!Next)
  <2>1. CASE TakeFront(i, "next", 0)
    <3>1. Shows(i)' /\ (OthersLook(i) => Deque!Front(i, "next", 0))
      BY <1>1, <1>2, <1>3, <2>1, FrontStep
    <3> QED BY <3>1 DEF Deque!Next, Deque!NextItem
  <2>2. CASE TakeBack(i, "next_back", 0)
    <3>1. Shows(i)' /\ (OthersLook(i) => Deque!Back(i, "next_back", 0))
      BY <1>1, <1>2, <1>3, <2>2, BackStep
    <3> QED BY <3>1 DEF Deque!Next, Deque!NextBack
  <2> QED BY <1>1, <2>1, <2>2
<1>5. DequeInv(i)'
  BY <1>1, <1>2, <1>4, IdleInv
<1> QED BY <1>4, <1>5 DEF Simulates, Refines

\* A call that starts to drop what it takes out of `alive` shows what it did before.
LEMMA StartsDropping ==
    ASSUME IInv, DInv, NEW i \in Iters, pc[i] = "idle", pc'[i] = "dropping",
           data' = data, val' = val, out' = NoAnswer, frame'[i].op # "clone",
           frame'[i].op = "last" => frame'[i].held = None,
           First(i)' = First(i), Beyond(i)' = Beyond(i), InCall(i)'
    PROVE  Simulates(i)
<1>1. /\ DequeInv(i) /\ LifeOf(i) = "live" /\ RestOf(i) = IdleValues(i) /\ TypeOK
      /\ First(i) = alive[i].start /\ Beyond(i) = alive[i].end
  BY IdleYields
<1>2. LifeOf(i)' = "live" /\ ~Returned(i)'
  BY DEF LifeOf, Returned
<1>3. Kept(i)' = IdleValues(i)
  BY <1>1 DEF Kept, IdleValues
<1>4. Looks(i)
  BY <1>1, <1>2, <1>3, RestIsNext DEF Looks
<1>5. Shows(i)'
  BY <1>1, <1>2 DEF DequeInv, Shows, Exists
<1>6. DequeInv(i)'
  BY <1>1, <1>2, <1>5, DroppingInv
<1> QED BY <1>4, <1>6, Stutters

\* nth has taken out of `alive` exactly what it was asked for, or all.
LEMMA NthSimulates ==
    ASSUME IInv, DInv, NEW i \in Iters, NEW n \in 0 .. MaxSkip, Nth(i, n) \/ NthBack(i, n)
    PROVE  Simulates(i)
<1> USE Constants
<1>1. /\ pc[i] = "idle" /\ pc' = [pc EXCEPT ![i] = "dropping"] /\ out' = NoAnswer
      /\ UNCHANGED <<data, unwinding, val, released, lost, aborted>>
  BY DEF Nth, NthBack, Ready
<1>2. /\ TypeOK /\ ~unwinding[i]
      /\ First(i) = alive[i].start /\ Beyond(i) = alive[i].end
      /\ alive[i].start \in 0 .. N /\ alive[i].end \in 0 .. N /\ alive[i].start <= alive[i].end
      /\ alive \in [Iters -> [start : 0 .. N, end : 0 .. N]]
      /\ frame \in [Iters -> Frames]
  BY <1>1, IdleYields DEF TypeOK
<1>3. pc'[i] = "dropping"
  BY <1>1, <1>2 DEF TypeOK
<1> DEFINE s == Skipped(i, n)
<1>4. /\ s \in 0 .. N /\ s <= alive[i].end - alive[i].start
      /\ s = Upto(n, alive[i].end - alive[i].start)
  BY <1>2 DEF Skipped, AliveLen, Upto
<1> HIDE DEF s
<1>5. CASE Nth(i, n)
  <2> DEFINE m == alive[i].start + s
  <2>1. /\ alive' = [alive EXCEPT ![i].start = @ + s]
        /\ frame' = [frame EXCEPT ![i] = DropRange("nth", n, alive[i].start, m, Unit, None)]
    BY <1>5 DEF Nth, s
  <2>2. /\ frame'[i].held = None /\ frame'[i].op = "nth" /\ frame'[i].n = n
        /\ frame'[i].lo = alive[i].start /\ frame'[i].at = alive[i].start /\ frame'[i].hi = m
    <3>1. frame'[i] = DropRange("nth", n, alive[i].start, m, Unit, None)
      BY <2>1, <1>2
    <3>2. m \in 0 .. N /\ alive[i].start <= m /\ Unit \in Answers /\ "nth" \in Ops
      BY <1>2, <1>4, AnswerTypes DEF Ops
    <3> HIDE DEF m
    <3> QED BY <3>1, <3>2, <1>2, DropRangeInBounds
  <2>3. alive'[i].start = m /\ alive'[i].end = alive[i].end
    BY <2>1, <1>2
  <2>4. First(i)' = First(i) /\ Beyond(i)' = Beyond(i)
    BY <1>2, <1>3, <2>2, <2>3 DEF First, Beyond
  <2>5. InCall(i)'
    <3>1. m - alive[i].start = Upto(n, Beyond(i) - First(i))
      BY <1>2, <1>4
    <3> HIDE DEF m
    <3>2. Upto(frame'[i].n, Beyond(i)' - First(i)') = Upto(n, Beyond(i) - First(i))
      BY <2>2, <2>4
    <3> QED BY <1>1, <1>2, <2>2, <2>3, <3>1, <3>2 DEF InCall
  <2> QED BY <1>1, <1>3, <2>2, <2>4, <2>5, StartsDropping
<1>6. CASE NthBack(i, n)
  <2> DEFINE m == alive[i].end - s
  <2>1. /\ alive' = [alive EXCEPT ![i].end = @ - s]
        /\ frame' = [frame EXCEPT ![i] = DropRange("nth_back", n, m, alive[i].end, Unit, None)]
    BY <1>6 DEF NthBack, s
  <2>2. /\ frame'[i].held = None /\ frame'[i].op = "nth_back" /\ frame'[i].n = n
        /\ frame'[i].lo = m /\ frame'[i].at = m /\ frame'[i].hi = alive[i].end
    <3>1. frame'[i] = DropRange("nth_back", n, m, alive[i].end, Unit, None)
      BY <2>1, <1>2
    <3>2. m \in 0 .. N /\ m <= alive[i].end /\ Unit \in Answers /\ "nth_back" \in Ops
      BY <1>2, <1>4, AnswerTypes DEF Ops
    <3> HIDE DEF m
    <3> QED BY <3>1, <3>2, <1>2, DropRangeInBounds
  <2>3. alive'[i].end = m /\ alive'[i].start = alive[i].start
    BY <2>1, <1>2
  <2>4. First(i)' = First(i) /\ Beyond(i)' = Beyond(i)
    BY <1>2, <1>3, <2>2, <2>3 DEF First, Beyond
  <2>5. InCall(i)'
    <3>1. alive[i].end - m = Upto(n, Beyond(i) - First(i)) /\ m \in 0 .. N
      BY <1>2, <1>4
    <3> HIDE DEF m
    <3>2. Upto(frame'[i].n, Beyond(i)' - First(i)') = Upto(n, Beyond(i) - First(i))
      BY <2>2, <2>4
    <3> QED BY <1>1, <1>2, <2>2, <2>3, <3>1, <3>2 DEF InCall
  <2> QED BY <1>1, <1>3, <2>2, <2>4, <2>5, StartsDropping
<1> QED BY <1>5, <1>6

\* count reads the length before self is dropped.
LEMMA CountDropSimulates ==
    ASSUME IInv, DInv, NEW i \in Iters, Count(i) \/ Drop(i)
    PROVE  Simulates(i)
<1> USE Constants
<1> DEFINE op == IF Count(i) THEN "count" ELSE "drop"
           ret == IF Count(i) THEN Counted(AliveLen(i)) ELSE Unit
<1>1. /\ pc[i] = "idle" /\ StartDrop(i, op, alive[i].start, alive[i].end, ret, None)
      /\ out' = NoAnswer
      /\ UNCHANGED <<data, val, released, lost, aborted>>
  BY DEF Count, Drop, Ready
<1>2. /\ TypeOK /\ AliveLen(i) \in 0 .. N
      /\ First(i) = alive[i].start /\ Beyond(i) = alive[i].end
      /\ alive[i].start \in 0 .. N /\ alive[i].end \in 0 .. N /\ alive[i].start <= alive[i].end
  BY <1>1, IdleYields, ReadyFacts
<1>3. op \in Ops /\ ret \in Answers
  BY <1>2, AnswerTypes DEF Ops
<1>4. op \in {"count", "drop"}
  OBVIOUS
<1>5. (op = "count" => ret = Counted(AliveLen(i))) /\ (op = "drop" => ret = Unit)
  OBVIOUS
<1> HIDE DEF op, ret
<1>6. /\ pc'[i] = "dropping" /\ frame'[i].op = op
      /\ frame'[i].lo = alive[i].start /\ frame'[i].at = alive[i].start
      /\ frame'[i].hi = alive[i].end /\ frame'[i].ret = ret
  BY <1>1, <1>2, <1>3, DropStarts
<1>7. First(i)' = First(i) /\ Beyond(i)' = Beyond(i)
  BY <1>2, <1>4, <1>6 DEF First, Beyond
<1>8. InCall(i)'
  BY <1>2, <1>4, <1>5, <1>6 DEF InCall, AliveLen
<1> QED BY <1>1, <1>4, <1>6, <1>7, <1>8, StartsDropping

\* last moves one value into its answer, and shows it still.
LEMMA LastSimulates ==
    ASSUME IInv, DInv, NEW i \in Iters, Last(i)
    PROVE  Simulates(i)
<1> USE Constants
<1>1. /\ pc[i] = "idle" /\ out' = NoAnswer
      /\ UNCHANGED <<data, unwinding, val, released, lost, aborted>>
  BY DEF Last, Ready
<1>2. /\ TypeOK /\ DequeInv(i) /\ LifeOf(i) = "live" /\ RestOf(i) = IdleValues(i)
      /\ First(i) = alive[i].start /\ Beyond(i) = alive[i].end
      /\ alive[i].start \in 0 .. N /\ alive[i].end \in 0 .. N /\ alive[i].start <= alive[i].end
      /\ \A k \in AliveSlots(i) : data[i][k] \in Elems /\ Exists(data[i][k])
      /\ HasValues(val, data[i], alive[i].start, alive[i].end)
  BY <1>1, IdleYields
<1>3. CASE AliveLen(i) > 0
  <2> DEFINE e == data[i][alive[i].end - 1]
             hi == alive[i].end - 1
  <2>1. StartDrop(i, "last", alive[i].start, hi, Some(val[e]), e)
    BY <1>3 DEF Last
  <2>2. hi \in 0 .. N /\ alive[i].start <= hi /\ hi \in AliveSlots(i)
    BY <1>2, <1>3 DEF AliveLen, AliveSlots
  <2>3. e \in Elems /\ Exists(e) /\ val[e] \in Slots /\ e # None
    BY <1>2, <2>2, ValueTypes
  <2>4. "last" \in Ops /\ Some(val[e]) \in Answers
    BY <2>3, AnswerTypes DEF Ops
  <2> HIDE DEF e
  <2>5. /\ pc'[i] = "dropping" /\ frame'[i].op = "last"
        /\ frame'[i].lo = alive[i].start /\ frame'[i].at = alive[i].start
        /\ frame'[i].hi = hi /\ frame'[i].ret = Some(val[e]) /\ frame'[i].held = e
    BY <1>2, <2>1, <2>2, <2>3, <2>4, DropStarts
  <2>6. First(i)' = alive[i].start /\ Beyond(i)' = hi
    BY <2>5 DEF First, Beyond
  <2>7. LifeOf(i)' = "live" /\ Returned(i)'
    BY <2>3, <2>5 DEF LifeOf, Returned
  <2>8. RestOf(i)' = RestOf(i)
    <3>1. Kept(i)' = ValuesIn(val, data[i], alive[i].start, hi)
      BY <1>1, <2>6 DEF Kept
    <3>2. hi + 1 = alive[i].end /\ hi \in Nat /\ alive[i].start \in Nat
      BY <1>2, <2>2
    <3>3. HasValues(val, data[i], alive[i].start, hi + 1)
      BY <1>2, <3>2
    <3> HIDE DEF hi
    <3>4. Append(ValuesIn(val, data[i], alive[i].start, hi), val[data[i][hi]])
            = ValuesIn(val, data[i], alive[i].start, hi + 1)
      BY <2>2, <3>2, <3>3, AppendValue
    <3>5. val'[frame'[i].held] = val[data[i][hi]]
      BY <1>1, <2>5 DEF e, hi
    <3> QED BY <1>2, <2>7, <3>1, <3>2, <3>4, <3>5, RestIsNext DEF IdleValues
  <2>9. Shows(i)'
    <3>1. \A k \in alive[i].start .. hi - 1 : k \in AliveSlots(i)
      BY <1>2 DEF AliveSlots
    <3> QED BY <1>1, <1>2, <2>2, <2>6, <3>1 DEF Shows, Exists
  <2>10. InCall(i)'
    BY <1>1, <1>2, <2>3, <2>5 DEF InCall
  <2>11. DequeInv(i)'
    BY <1>1, <1>2, <2>5, <2>9, <2>10, DroppingInv
  <2> QED BY <1>1, <1>2, <2>7, <2>8, <2>11, Stutters DEF Looks
<1>4. CASE ~(AliveLen(i) > 0)
  <2>1. StartDrop(i, "last", alive[i].start, alive[i].end, Empty, None)
    BY <1>4 DEF Last
  <2>2. "last" \in Ops /\ Empty \in Answers
    BY AnswerTypes DEF Ops
  <2>3. /\ pc'[i] = "dropping" /\ frame'[i].op = "last"
        /\ frame'[i].lo = alive[i].start /\ frame'[i].at = alive[i].start
        /\ frame'[i].hi = alive[i].end /\ frame'[i].ret = Empty /\ frame'[i].held = None
    BY <1>2, <2>1, <2>2, DropStarts
  <2>4. First(i)' = First(i) /\ Beyond(i)' = Beyond(i)
    BY <1>2, <2>3 DEF First, Beyond
  <2>5. InCall(i)'
    BY <1>2, <1>4, <2>3 DEF InCall, AliveLen
  <2> QED BY <1>1, <2>3, <2>4, <2>5, StartsDropping
<1> QED BY <1>3, <1>4

\* as_mut_slice lends the alive values, and the client swaps two of them.
LEMMA SwapSimulates ==
    ASSUME IInv, DInv, NEW i \in Iters, Swap(i)
    PROVE  Simulates(i)
<1> USE Constants
<1>1. /\ pc[i] = "idle"
      /\ UNCHANGED <<alive, pc, frame, unwinding, val, released, lost, out, aborted>>
  BY DEF Swap, Ready
<1>2. /\ TypeOK /\ DequeInv(i) /\ LifeOf(i) = "live" /\ RestOf(i) = IdleValues(i)
      /\ First(i) = alive[i].start /\ Beyond(i) = alive[i].end /\ ~unwinding[i]
      /\ alive[i].start \in 0 .. N /\ alive[i].end \in 0 .. N /\ alive[i].start <= alive[i].end
      /\ \A k \in AliveSlots(i) : data[i][k] \in Elems /\ Exists(data[i][k])
      /\ HasValues(val, data[i], alive[i].start, alive[i].end)
  BY <1>1, IdleYields
<1>3. PICK k \in AliveSlots(i), l \in AliveSlots(i) :
         /\ k < l
         /\ data' = [data EXCEPT ![i][k] = data[i][l], ![i][l] = data[i][k]]
  BY DEF Swap
<1> DEFINE a == alive[i].start
           b == alive[i].end
           p == k - a + 1
           q == l - a + 1
           s == RestOf(i)
           t == [s EXCEPT ![p] = s[q], ![q] = s[p]]
<1>4. /\ a \in Nat /\ b \in Nat /\ k \in a .. b - 1 /\ l \in a .. b - 1
      /\ k \in Slots /\ l \in Slots
  BY <1>2 DEF AliveSlots, Slots
<1>5. \A m \in Slots : data'[i][m] = IF m = l THEN data[i][k]
                                     ELSE IF m = k THEN data[i][l] ELSE data[i][m]
  BY <1>2, <1>3, <1>4 DEF TypeOK
<1>6. \A m \in a .. b - 1 : m \in Slots /\ m \in AliveSlots(i)
  BY <1>2 DEF Slots, AliveSlots
<1>7. /\ LifeOf(i)' = "live" /\ RestOf(i)' = IdleValues(i)'
      /\ First(i)' = a /\ Beyond(i)' = b
  BY <1>1, IdleRest
<1>8. Shows(i)'
  <2>1. ASSUME NEW m \in a .. b - 1 PROVE data'[i][m] \in Elems /\ val[data'[i][m]] # None
    <3>1. m \in Slots /\ m \in AliveSlots(i)
      BY <1>6
    <3>2. data'[i][m] \in {data[i][k], data[i][l], data[i][m]}
      BY <1>5, <3>1
    <3> HIDE DEF a, b
    <3> QED BY <1>2, <1>3, <3>1, <3>2 DEF Exists
  <2>2. Shows(i)' <=> (LifeOf(i)' = "live" => /\ a <= b
                          /\ \A m \in a .. b - 1 : data'[i][m] \in Elems /\ val'[data'[i][m]] # None)
    <3> HIDE DEF a, b
    <3> QED BY <1>7 DEF Shows, Exists
  <2> QED BY <1>1, <1>2, <2>1, <2>2
<1>9. DequeInv(i)'
  BY <1>1, <1>2, <1>8, IdleInv
<1>10. DOMAIN s = 1 .. b - a /\ p \in DOMAIN s /\ q \in DOMAIN s
  <2>1. DOMAIN s = 1 .. b - a
    BY <1>2 DEF IdleValues, ValuesIn
  <2>2. p \in 1 .. b - a /\ q \in 1 .. b - a
    <3> HIDE DEF a, b
    <3> QED BY <1>4
  <2> HIDE DEF a, b, p, q, s
  <2> QED BY <2>1, <2>2
<1>11. \A m \in 1 .. b - a : s[m] = val[data[i][a + m - 1]]
  BY <1>2 DEF IdleValues, ValuesIn
<1>12. RestOf(i)' = t
  <2>1. RestOf(i)' = [m \in 1 .. b - a |-> val[data'[i][a + m - 1]]]
    BY <1>1, <1>7 DEF IdleValues, ValuesIn
  <2>2. t = [m \in 1 .. b - a |-> IF m = q THEN s[p] ELSE IF m = p THEN s[q] ELSE s[m]]
    <3> HIDE DEF s, p, q
    <3> QED BY <1>10
  <2>3. ASSUME NEW m \in 1 .. b - a
        PROVE  val[data'[i][a + m - 1]] = IF m = q THEN s[p] ELSE IF m = p THEN s[q] ELSE s[m]
    <3>1. a + m - 1 \in a .. b - 1 /\ a + m - 1 \in Slots
      BY <1>4, <1>6
    <3>2. (a + m - 1 = l <=> m = q) /\ (a + m - 1 = k <=> m = p)
      BY <1>4
    <3>3. s[p] = val[data[i][k]] /\ s[q] = val[data[i][l]]
      <4>1. p \in 1 .. b - a /\ a + p - 1 = k /\ q \in 1 .. b - a /\ a + q - 1 = l
        BY <1>4
      <4> HIDE DEF s, p, q
      <4> QED BY <1>11, <4>1
    <3>4. s[m] = val[data[i][a + m - 1]]
      BY <1>11
    <3> HIDE DEF s, p, q
    <3> QED BY <1>5, <3>1, <3>2, <3>3, <3>4
  <2> HIDE DEF t, s, p, q
  <2> QED BY <2>1, <2>2, <2>3
<1>13. OthersLook(i) => Deque!Next
  <2> HIDE DEF t, s, p, q
  <2>1. OthersLook(i) => Deque!Answer(i, t, out)
    BY <1>1, <1>2, <1>7, <1>12, AnswerStep
  <2>2. OthersLook(i) => Deque!Swap(i)
    BY <1>10, <2>1 DEF Deque!Swap, t, s
  <2> QED BY <2>2 DEF Deque!Next
<1> QED BY <1>9, <1>13 DEF Simulates, Refines

\* The elements of a range are dropped one by one: nothing that i shows.
LEMMA DropElementSimulates ==
    ASSUME IInv, DInv, NEW i \in Iters, DropElement(i) \/ DropPanics(i)
    PROVE  Simulates(i)
<1> USE Constants
<1>1. /\ pc[i] = "dropping" /\ frame[i].at < frame[i].hi
      /\ frame' = [frame EXCEPT ![i].at = @ + 1]
      /\ unwinding' = unwinding \/ unwinding' = [unwinding EXCEPT ![i] = TRUE]
      /\ UNCHANGED <<data, alive, pc, val, lost, out>>
  BY DEF DropElement, DropPanics, Dropping
<1>2. TypeOK /\ DequeInv(i) /\ frame[i] \in Frames
  BY Typed DEF IInv, DInv
<1>3. /\ frame'[i].op = frame[i].op /\ frame'[i].lo = frame[i].lo /\ frame'[i].hi = frame[i].hi
      /\ frame'[i].at = frame[i].at + 1 /\ frame'[i].held = frame[i].held
      /\ frame'[i].ret = frame[i].ret /\ frame'[i].n = frame[i].n
      /\ frame[i].lo \in Nat /\ frame[i].at \in Nat /\ frame[i].hi \in Nat
  <2>1. frame'[i] = [frame[i] EXCEPT !.at = @ + 1]
    BY <1>1, <1>2 DEF TypeOK
  <2> QED BY <1>2, <2>1 DEF Frames
<1>4. /\ LifeOf(i)' = LifeOf(i) /\ First(i)' = First(i) /\ Beyond(i)' = Beyond(i)
      /\ Returned(i)' = Returned(i)
  BY <1>1, <1>3 DEF LifeOf, First, Beyond, Returned
<1>5. Kept(i)' = Kept(i)
  BY <1>1, <1>4 DEF Kept
<1>6. Looks(i)
  BY <1>1, <1>3, <1>4, <1>5, RestIs, RestIsNext DEF Looks
<1>7. Shows(i)'
  BY <1>1, <1>2, <1>4 DEF DequeInv, Shows, Exists
<1>8. unwinding[i] => unwinding'[i]
  BY <1>1, <1>2 DEF TypeOK
<1>9. InCall(i)'
  BY <1>1, <1>2, <1>3, <1>4, <1>8 DEF DequeInv, InCall, Upto
<1>10. LifeOf(i) = "absent" \/ frame'[i].op # "clone"
  BY <1>1, <1>3 DEF LifeOf
<1>11. DequeInv(i)'
  BY <1>1, <1>2, <1>7, <1>9, <1>10, DroppingInv
<1> QED BY <1>1, <1>6, <1>11, Stutters

\* What a call shows whose range is dropped.
LEMMA DroppedShows ==
    ASSUME IInv, DInv, NEW i \in Iters, NEW ops, RangeDropped(i, ops)
    PROVE  /\ TypeOK /\ DequeInv(i) /\ pc[i] = "dropping" /\ frame[i].op \in ops
           /\ frame[i].lo \in Nat /\ frame[i].hi \in Nat
           /\ frame[i].lo <= frame[i].hi
           /\ alive[i].start \in Nat /\ alive[i].end \in Nat /\ alive[i].start <= alive[i].end
           /\ frame[i].op # "clone" => LifeOf(i) = "live" /\ Shows(i)
           /\ frame[i].op # "clone" => HasValues(val, data[i], First(i), Beyond(i))
           /\ frame[i].op = "nth" => /\ First(i) = frame[i].lo /\ Beyond(i) = alive[i].end
                                      /\ alive[i].start = frame[i].hi
           /\ frame[i].op = "nth_back" => /\ First(i) = alive[i].start /\ Beyond(i) = frame[i].hi
                                           /\ alive[i].end = frame[i].lo
           /\ frame[i].op \notin {"nth", "nth_back"} =>
                                      First(i) = frame[i].lo /\ Beyond(i) = frame[i].hi
           /\ frame[i].op \in {"nth", "nth_back"} =>
                 /\ frame[i].hi - frame[i].lo = Upto(frame[i].n, Beyond(i) - First(i))
                 /\ unwinding[i] => frame[i].lo < frame[i].hi
           /\ frame[i].n \in 0 .. MaxSkip /\ frame[i].n \in Nat
<1> USE Constants
<1>1. /\ TypeOK /\ DequeInv(i) /\ Ranges(i) /\ pc[i] = "dropping" /\ frame[i].op \in ops
      /\ frame[i].at = frame[i].hi
  BY DroppedFacts DEF DInv, IterInv, RangeDropped
<1>2. /\ frame[i].lo \in Nat /\ frame[i].hi \in Nat
      /\ alive[i].start \in Nat /\ alive[i].end \in Nat /\ alive[i].start <= alive[i].end
  BY <1>1, Typed DEF Ranges
<1>3. /\ frame[i].lo <= frame[i].hi
      /\ frame[i].op = "nth" => alive[i].start = frame[i].hi
      /\ frame[i].op = "nth_back" => alive[i].end = frame[i].lo
  BY <1>1 DEF DequeInv, InCall
<1>4. frame[i].op # "clone" => LifeOf(i) = "live" /\ Shows(i)
  BY <1>1 DEF DequeInv, LifeOf
<1>5. frame[i].op # "clone" => HasValues(val, data[i], First(i), Beyond(i))
  BY <1>1, <1>4, KeptHasValues
<1>6. /\ frame[i].op = "nth" => First(i) = frame[i].lo /\ Beyond(i) = alive[i].end
      /\ frame[i].op = "nth_back" => First(i) = alive[i].start /\ Beyond(i) = frame[i].hi
      /\ frame[i].op \notin {"nth", "nth_back"} =>
            First(i) = frame[i].lo /\ Beyond(i) = frame[i].hi
  BY <1>1 DEF First, Beyond
<1>7. /\ frame[i].op \in {"nth", "nth_back"} =>
            /\ frame[i].hi - frame[i].lo = Upto(frame[i].n, Beyond(i) - First(i))
            /\ unwinding[i] => frame[i].lo < frame[i].hi
      /\ frame[i].n \in 0 .. MaxSkip /\ frame[i].n \in Nat
  BY <1>1, Typed DEF DequeInv, InCall
<1> QED BY <1>1, <1>2, <1>3, <1>4, <1>5, <1>6, <1>7

\* nth and nth_back answer what is next after the skipped values.
LEMMA NthReturnsSimulates ==
    ASSUME IInv, DInv, NEW i \in Iters, NthReturns(i)
    PROVE  Simulates(i)
<1> USE Constants
<1> DEFINE n == frame[i].n
<1>1. /\ RangeDropped(i, {"nth", "nth_back"}) /\ ~unwinding[i]
      /\ IF frame[i].op = "nth" THEN TakeFront(i, "nth", n) ELSE TakeBack(i, "nth_back", n)
      /\ pc' = [pc EXCEPT ![i] = "idle"]
      /\ UNCHANGED <<data, unwinding, val, lost, aborted>>
  BY DEF NthReturns
<1>2. /\ TypeOK /\ DequeInv(i) /\ pc[i] = "dropping" /\ frame[i].op \in {"nth", "nth_back"}
      /\ frame[i].lo \in Nat /\ frame[i].hi \in Nat
      /\ frame[i].lo <= frame[i].hi
      /\ alive[i].start \in Nat /\ alive[i].end \in Nat /\ alive[i].start <= alive[i].end
      /\ LifeOf(i) = "live" /\ Shows(i)
      /\ frame[i].op = "nth" => /\ First(i) = frame[i].lo /\ Beyond(i) = alive[i].end
                                /\ alive[i].start = frame[i].hi
      /\ frame[i].op = "nth_back" => /\ First(i) = alive[i].start /\ Beyond(i) = frame[i].hi
                                     /\ alive[i].end = frame[i].lo
      /\ frame[i].hi - frame[i].lo = Upto(n, Beyond(i) - First(i))
      /\ n \in 0 .. MaxSkip /\ n \in Nat
  BY <1>1, DroppedShows
<1> HIDE DEF n
<1>3. Yields(i)
  <2>1. ~Returned(i)
    BY <1>2 DEF Returned
  <2> QED BY <1>2, <2>1 DEF Yields
<1>4. pc'[i] = "idle" /\ ~unwinding'[i]
  BY <1>1, <1>2 DEF TypeOK
<1>5. Shows(i)' /\ (OthersLook(i) => Deque!Next)
  <2>1. CASE frame[i].op = "nth"
    <3>1. Shows(i)' /\ (OthersLook(i) => Deque!Front(i, "nth", n))
      BY <1>1, <1>2, <1>3, <1>4, <2>1, FrontStep
    <3> QED BY <1>2, <3>1 DEF Deque!Next, Deque!Nth
  <2>2. CASE frame[i].op = "nth_back"
    <3>1. Shows(i)' /\ (OthersLook(i) => Deque!Back(i, "nth_back", n))
      BY <1>1, <1>2, <1>3, <1>4, <2>2, BackStep
    <3> QED BY <1>2, <3>1 DEF Deque!Next, Deque!NthBack
  <2> QED BY <1>2, <2>1, <2>2
<1>6. DequeInv(i)'
  BY <1>2, <1>4, <1>5, IdleInv
<1> QED BY <1>5, <1>6 DEF Simulates, Refines

\* A panic in nth or nth_back loses exactly what the call was to skip.
LEMMA PanicStep ==
    ASSUME IInv, DInv, NEW i \in Iters, RangeDropped(i, {"nth", "nth_back"}), unwinding[i],
           OthersLook(i), LifeOf(i)' = "live", RestOf(i)' = IdleValues(i),
           out' = Answered(i, frame[i].op, frame[i].n, Panic)
    PROVE  Deque!Next
<1> DEFINE n == frame[i].n
           m == frame[i].hi - frame[i].lo
           a == alive[i].start
           b == alive[i].end
           op == frame[i].op
           s == RestOf(i)
<1>1. /\ TypeOK /\ DequeInv(i) /\ pc[i] = "dropping" /\ op \in {"nth", "nth_back"}
      /\ frame[i].lo \in Nat /\ frame[i].hi \in Nat
      /\ a \in Nat /\ b \in Nat /\ a <= b
      /\ LifeOf(i) = "live" /\ Shows(i)
      /\ HasValues(val, data[i], First(i), Beyond(i))
      /\ op = "nth" => First(i) = frame[i].lo /\ Beyond(i) = b /\ a = frame[i].hi
      /\ op = "nth_back" => First(i) = a /\ Beyond(i) = frame[i].hi /\ b = frame[i].lo
      /\ m = Upto(n, Beyond(i) - First(i)) /\ frame[i].lo < frame[i].hi
      /\ n \in 0 .. MaxSkip /\ n \in Nat
  BY DroppedShows
<1>2. s = ValuesIn(val, data[i], First(i), Beyond(i))
  <2>1. ~Returned(i)
    BY <1>1 DEF Returned
  <2> QED BY <1>1, <2>1, RestIs DEF Kept
<1>3. First(i) \in Nat /\ Beyond(i) \in Nat /\ First(i) < Beyond(i)
  BY <1>1
<1>4. n > 0
  BY <1>1, <1>3 DEF Upto
<1>5. s # <<>> /\ s \in Seq(Slots) /\ Len(s) = Beyond(i) - First(i)
  <2>1. IsValues(ValuesIn(val, data[i], First(i), Beyond(i)), val, data[i], First(i), Beyond(i))
    BY <1>1, <1>3, ValuesAre
  <2>2. ValuesIn(val, data[i], First(i), Beyond(i)) # <<>>
    BY <1>1, <1>3, SomeValues
  <2> HIDE DEF s
  <2> QED BY <1>2, <2>1, <2>2 DEF IsValues
<1>6. /\ Deque!WithoutFirst(s, m) = Deque!WithoutFirst(s, n)
      /\ Deque!WithoutLast(s, m) = Deque!WithoutLast(s, n)
  <2>1. m = Upto(n, Len(s))
    BY <1>1, <1>5
  <2> HIDE DEF s, m, n
  <2> QED BY <1>1, <1>5, <2>1, WithoutUpto
<1>7. Deque!Answer(i, IdleValues(i), Answered(i, op, n, Panic))
  BY <1>1, AnswerStep
<1>8. CASE op = "nth"
  <2>1. a \in First(i) .. Beyond(i) /\ a - First(i) = m
    BY <1>1, <1>8
  <2>2. Deque!WithoutFirst(ValuesIn(val, data[i], First(i), Beyond(i)), a - First(i))
          = ValuesIn(val, data[i], a, Beyond(i))
    <3> HIDE DEF a
    <3> QED BY <1>1, <1>3, <2>1, WithoutFirstValues
  <2>3. IdleValues(i) = Deque!WithoutFirst(s, n)
    BY <1>1, <1>2, <1>6, <1>8, <2>1, <2>2 DEF IdleValues
  <2> HIDE DEF n, op, s
  <2>4. Deque!Answer(i, Deque!WithoutFirst(s, n), Answered(i, "nth", n, Panic))
    BY <1>7, <1>8, <2>3
  <2>5. Deque!NthPanics(i, n)
    BY <1>4, <1>5, <2>4 DEF Deque!NthPanics, Panic, Answered, s
  <2> QED BY <1>1, <2>5 DEF Deque!Next
<1>9. CASE op = "nth_back"
  <2>1. b \in First(i) .. Beyond(i) /\ Beyond(i) - b = m
    BY <1>1, <1>9
  <2>2. Deque!WithoutLast(ValuesIn(val, data[i], First(i), Beyond(i)), Beyond(i) - b)
          = ValuesIn(val, data[i], First(i), b)
    <3> HIDE DEF b
    <3> QED BY <1>1, <1>3, <2>1, WithoutLastValues
  <2>3. IdleValues(i) = Deque!WithoutLast(s, n)
    BY <1>1, <1>2, <1>6, <1>9, <2>1, <2>2 DEF IdleValues
  <2> HIDE DEF n, op, s
  <2>4. Deque!Answer(i, Deque!WithoutLast(s, n), Answered(i, "nth_back", n, Panic))
    BY <1>7, <1>9, <2>3
  <2>5. Deque!NthBackPanics(i, n)
    BY <1>4, <1>5, <2>4 DEF Deque!NthBackPanics, Panic, Answered, s
  <2> QED BY <1>1, <2>5 DEF Deque!Next
<1> QED BY <1>1, <1>8, <1>9

LEMMA NthPanicSimulates ==
    ASSUME IInv, DInv, NEW i \in Iters, NthCaught(i) \/ NthUnwinds(i)
    PROVE  Simulates(i)
<1> USE Constants
<1>1. /\ RangeDropped(i, {"nth", "nth_back"}) /\ unwinding[i]
      /\ out' = Answered(i, frame[i].op, frame[i].n, Panic)
      /\ UNCHANGED <<data, val>>
  BY DEF NthCaught, NthUnwinds
<1>2. /\ TypeOK /\ DequeInv(i) /\ pc[i] = "dropping" /\ frame[i].op \in {"nth", "nth_back"}
      /\ alive[i].start \in 0 .. N /\ alive[i].end \in 0 .. N
      /\ frame[i].lo \in Nat /\ frame[i].hi \in Nat /\ frame[i].lo <= frame[i].hi
      /\ alive[i].start <= alive[i].end
      /\ LifeOf(i) = "live" /\ Shows(i)
      /\ frame[i].op = "nth" => /\ First(i) = frame[i].lo /\ Beyond(i) = alive[i].end
                                 /\ alive[i].start = frame[i].hi
      /\ frame[i].op = "nth_back" => /\ First(i) = alive[i].start /\ Beyond(i) = frame[i].hi
                                      /\ alive[i].end = frame[i].lo
  BY <1>1, DroppedShows, Typed
<1>3. \A k \in alive[i].start .. alive[i].end - 1 : data[i][k] \in Elems /\ Exists(data[i][k])
  <2>1. \A k \in alive[i].start .. alive[i].end - 1 : k \in First(i) .. Beyond(i) - 1
    BY <1>2
  <2> QED BY <1>2, <2>1 DEF Shows
<1>4. /\ LifeOf(i)' = "live" /\ RestOf(i)' = IdleValues(i) /\ DequeInv(i)'
  <2>1. CASE NthCaught(i)
    <3>1. pc'[i] = "idle" /\ ~unwinding'[i] /\ alive' = alive
      BY <1>2, <2>1 DEF TypeOK, NthCaught
    <3>2. /\ LifeOf(i)' = "live" /\ RestOf(i)' = IdleValues(i)
          /\ First(i)' = alive[i].start /\ Beyond(i)' = alive[i].end
      BY <1>1, <3>1, IdleRest DEF IdleValues
    <3>3. Shows(i)'
      BY <1>1, <1>2, <1>3, <3>2 DEF Shows, Exists
    <3> QED BY <1>2, <3>1, <3>2, <3>3, IdleInv
  <2>2. CASE NthUnwinds(i)
    <3>1. StartDrop(i, "drop", alive[i].start, alive[i].end, Unit, None)
      BY <2>2 DEF NthUnwinds
    <3>2. "drop" \in Ops /\ Unit \in Answers
      BY AnswerTypes DEF Ops
    <3>3. /\ pc'[i] = "dropping" /\ frame'[i].op = "drop"
          /\ frame'[i].lo = alive[i].start /\ frame'[i].at = alive[i].start
          /\ frame'[i].hi = alive[i].end /\ frame'[i].ret = Unit
      BY <1>2, <3>1, <3>2, DropStarts
    <3>4. /\ LifeOf(i)' = "live" /\ ~Returned(i)'
          /\ First(i)' = alive[i].start /\ Beyond(i)' = alive[i].end
      BY <3>3 DEF LifeOf, Returned, First, Beyond
    <3>5. RestOf(i)' = IdleValues(i)
      BY <1>1, <3>4, RestIsNext DEF Kept, IdleValues
    <3>6. Shows(i)'
      BY <1>1, <1>2, <1>3, <3>4 DEF Shows, Exists
    <3>7. InCall(i)'
      BY <1>2, <3>3 DEF InCall
    <3> QED BY <1>2, <3>3, <3>4, <3>5, <3>6, <3>7, DroppingInv
  <2> QED BY <2>1, <2>2
<1>5. OthersLook(i) => Deque!Next
  BY <1>1, <1>4, PanicStep
<1> QED BY <1>4, <1>5 DEF Simulates, Refines

\* count answers how many values there were; a clone that panicked was none.
LEMMA ConsumedSimulates ==
    ASSUME IInv, DInv, NEW i \in Iters, Consumed(i)
    PROVE  Simulates(i)
<1> USE Constants
<1> DEFINE r == IF unwinding[i] THEN Panic ELSE frame[i].ret
<1>1. /\ RangeDropped(i, {"count", "drop", "clone"}) /\ Gone(i, r)
      /\ UNCHANGED <<data, alive, val, released, lost, aborted>>
  BY DEF Consumed
<1>2. /\ TypeOK /\ DequeInv(i) /\ pc[i] = "dropping" /\ frame[i].op \in {"count", "drop", "clone"}
      /\ frame[i].lo \in Nat /\ frame[i].hi \in Nat /\ frame[i].lo <= frame[i].hi
      /\ First(i) = frame[i].lo /\ Beyond(i) = frame[i].hi
      /\ frame[i].op # "clone" => LifeOf(i) = "live" /\ HasValues(val, data[i], First(i), Beyond(i))
  BY <1>1, DroppedShows
<1>3. pc'[i] = "gone" /\ out' = Answered(i, frame[i].op, 0, r)
  BY <1>1, <1>2 DEF Gone, TypeOK
<1>4. DequeInv(i)' /\ LifeOf(i)' = "gone"
  BY <1>2, <1>3, GoneInv
<1>5. CASE frame[i].op # "clone"
  <2>1. OthersLook(i) => Deque!Consume(i, <<i, frame[i].op, 0, r>>)
    BY <1>2, <1>3, <1>4, <1>5, ConsumeStep DEF Answered
  <2>2. frame[i].op = "count" => frame[i].ret = <<"count", Len(RestOf(i))>>
    <3> SUFFICES ASSUME frame[i].op = "count" PROVE frame[i].ret = <<"count", Len(RestOf(i))>>
      OBVIOUS
    <3>1. RestOf(i) = ValuesIn(val, data[i], frame[i].lo, frame[i].hi)
      <4>1. ~Returned(i)
        BY DEF Returned
      <4> QED BY <1>2, <1>5, <4>1, RestIs DEF Kept
    <3>2. IsValues(RestOf(i), val, data[i], frame[i].lo, frame[i].hi)
      BY <1>2, <1>5, <3>1, ValuesAre
    <3>3. frame[i].ret = Counted(frame[i].hi - frame[i].lo)
      BY <1>2 DEF DequeInv, InCall
    <3> QED BY <3>2, <3>3 DEF IsValues, Counted
  <2>3. frame[i].op = "drop" => frame[i].ret = <<"unit">>
    BY <1>2 DEF DequeInv, InCall, Unit
  <2>4. OthersLook(i) => Deque!ConsumePanics(i) \/ Deque!Count(i) \/ Deque!Drop(i)
    <3>1. CASE unwinding[i]
      <4>1. frame[i].op \in {"count", "last", "drop"} /\ r = <<"panic">>
        BY <1>2, <1>5, <3>1 DEF Panic
      <4> QED BY <2>1, <4>1 DEF Deque!ConsumePanics
    <3>2. CASE ~unwinding[i] /\ frame[i].op = "count"
      BY <2>1, <2>2, <3>2 DEF Deque!Count
    <3>3. CASE ~unwinding[i] /\ frame[i].op = "drop"
      BY <2>1, <2>3, <3>3 DEF Deque!Drop
    <3> QED BY <1>2, <1>5, <3>1, <3>2, <3>3
  <2> QED BY <1>4, <2>4 DEF Deque!Next, Simulates, Refines
<1>6. CASE frame[i].op = "clone"
  <2>1. LifeOf(i) = "absent" /\ r = Panic /\ Roots # {}
    BY <1>2, <1>6 DEF LifeOf, DequeInv, InCall, Rooted
  <2>2. PICK j \in Roots : TRUE
    BY <2>1
  <2>3. j \in Iters /\ LifeOf(j) # "absent"
    BY RootsAssumption DEF DInv, DequeInv, Rooted
  <2>4. RestOf(i)' = RestOf(i)
    BY <1>4, <2>1, RestIs, RestIsNext
  <2>5. OthersLook(i) => Deque!ClonePanics(j, i)
    BY <1>3, <1>4, <1>6, <2>1, <2>3, <2>4
       DEF Deque!ClonePanics, OthersLook, Looks, Panic, Answered
  <2> QED BY <1>4, <2>3, <2>5 DEF Deque!Next, Simulates, Refines
<1> QED BY <1>5, <1>6

\* last answers the last value, and a panic on the way loses it.
LEMMA LastEndsSimulates ==
    ASSUME IInv, DInv, NEW i \in Iters, LastReturns(i) \/ LastUnwinds(i)
    PROVE  Simulates(i)
<1> USE Constants
<1> DEFINE r == IF unwinding[i] THEN Panic ELSE frame[i].ret
           v == val[frame[i].held]
<1>1. /\ RangeDropped(i, {"last"}) /\ Gone(i, r)
      /\ UNCHANGED <<data, alive, val>>
  BY DEF LastReturns, LastUnwinds
<1>2. /\ TypeOK /\ DequeInv(i) /\ pc[i] = "dropping" /\ frame[i].op = "last"
      /\ frame[i].lo \in Nat /\ frame[i].hi \in Nat /\ frame[i].lo <= frame[i].hi
      /\ First(i) = frame[i].lo /\ Beyond(i) = frame[i].hi
      /\ LifeOf(i) = "live" /\ HasValues(val, data[i], First(i), Beyond(i))
  BY <1>1, DroppedShows
<1>3. pc'[i] = "gone" /\ out' = Answered(i, frame[i].op, 0, r)
  BY <1>1, <1>2 DEF Gone, TypeOK
<1>4. DequeInv(i)' /\ LifeOf(i)' = "gone"
  BY <1>2, <1>3, GoneInv
<1>5. OthersLook(i) => Deque!Consume(i, <<i, frame[i].op, 0, r>>)
  BY <1>2, <1>3, <1>4, ConsumeStep DEF Answered
<1>6. CASE unwinding[i]
  <2>1. frame[i].op \in {"count", "last", "drop"} /\ r = <<"panic">>
    BY <1>2, <1>6 DEF Panic
  <2>2. OthersLook(i) => Deque!ConsumePanics(i)
    BY <1>5, <2>1 DEF Deque!ConsumePanics
  <2> QED BY <1>4, <2>2 DEF Deque!Next, Simulates, Refines
<1>7. CASE ~unwinding[i]
  <2>1. frame[i].ret = IF RestOf(i) = <<>> THEN <<"none">>
                       ELSE <<"some", RestOf(i)[Len(RestOf(i))]>>
    <3>1. CASE frame[i].held = None
      <4>1. frame[i].ret = <<"none">> /\ frame[i].lo = frame[i].hi
        BY <1>2, <3>1 DEF DequeInv, InCall, Empty
      <4>2. RestOf(i) = ValuesIn(val, data[i], frame[i].lo, frame[i].lo)
        BY <1>2, <3>1, <4>1, RestIs DEF Kept, Returned
      <4> QED BY <1>2, <4>1, <4>2, NoValues
    <3>2. CASE frame[i].held # None
      <4> DEFINE s == ValuesIn(val, data[i], frame[i].lo, frame[i].hi)
      <4>1. frame[i].ret = Some(v)
        BY <1>2, <3>2 DEF DequeInv, InCall
      <4>2. RestOf(i) = Append(s, v)
        BY <1>2, <3>2, RestIs DEF Kept, Returned
      <4>3. IsValues(s, val, data[i], frame[i].lo, frame[i].hi)
        BY <1>2, ValuesAre
      <4>4. v \in Slots
        <5>1. Holding(i) /\ ElemsOf(i) \subseteq Elems
          BY <1>2, Typed DEF IInv, IterInv
        <5> QED BY <1>2, <3>2, <5>1, ValueTypes DEF Holding
      <4> HIDE DEF s, v
      <4>5. s \in Seq(Slots)
        BY <4>3 DEF IsValues
      <4>6. /\ Append(s, v) \in Seq(Slots) /\ Len(Append(s, v)) = Len(s) + 1
            /\ Append(s, v)[Len(s) + 1] = v /\ Append(s, v) # <<>>
        BY <4>4, <4>5, AppendProperties
      <4> QED BY <4>1, <4>2, <4>6 DEF Some
    <3> QED BY <3>1, <3>2
  <2>2. OthersLook(i) => Deque!Last(i)
    BY <1>2, <1>5, <1>7, <2>1 DEF Deque!Last
  <2> QED BY <1>4, <2>2 DEF Deque!Next, Simulates, Refines
<1> QED BY <1>6, <1>7

\* A clone in progress is no iterator yet.
LEMMA CloneSimulates ==
    ASSUME IInv, DInv, NEW i \in Iters, NEW d \in Iters, Clone(i, d)
    PROVE  Simulates(d)
<1> USE Constants
<1> DEFINE start == alive[i].start
<1>1. /\ pc[i] = "idle" /\ pc[d] = "absent" /\ i # d
      /\ alive' = [alive EXCEPT ![d] = [start |-> start, end |-> start]]
      /\ frame' = [frame EXCEPT ![d] =
             [op |-> "clone", n |-> 0, lo |-> start, at |-> start, hi |-> alive[i].end,
              ret |-> Unit, held |-> None, src |-> i]]
      /\ pc' = [pc EXCEPT ![d] = "cloning"] /\ out' = NoAnswer
      /\ UNCHANGED <<data, unwinding, val, released, lost, aborted>>
  BY DEF Clone
<1>2. TypeOK /\ DequeInv(d) /\ DequeInv(i)
  BY DEF IInv, DInv
<1>3. /\ pc'[d] = "cloning" /\ frame'[d].src = i
      /\ alive'[d].start = start /\ alive'[d].end = start /\ alive'[i] = alive[i]
  BY <1>1, <1>2 DEF TypeOK
<1>4. LifeOf(d) = "absent" /\ LifeOf(d)' = "absent"
  BY <1>1, <1>3 DEF LifeOf
<1>5. Looks(d)
  BY <1>4, RestIs, RestIsNext DEF Looks
<1>6. Copies(d)'
  <2>1. AliveSlots(d)' = {}
    <3>1. start \in Nat
      BY <1>2, Typed
    <3> QED BY <1>3, <3>1 DEF AliveSlots
  <2> QED BY <1>3, <2>1 DEF Copies
<1>7. Shows(d)' /\ InCall(d)'
  BY <1>3, <1>4 DEF Shows, InCall
<1>8. Calm(d)' /\ Rooted(d)'
  BY <1>1, <1>2, <1>4 DEF DequeInv, Calm, Rooted
<1>9. DequeInv(d)'
  BY <1>6, <1>7, <1>8 DEF DequeInv
<1> QED BY <1>1, <1>5, <1>9, Stutters

\* Each element that is written has the value of the one it was cloned from.
LEMMA CloneElementSimulates ==
    ASSUME IInv, DInv, NEW d \in Iters, CloneElement(d)
    PROVE  Simulates(d)
<1> USE Constants
<1> DEFINE end == alive[d].end
           s == frame[d].src
           x == data[s][end]
           e == <<d, end>>
<1>1. /\ TypeOK /\ DequeInv(d) /\ CloningFrom(d) /\ Owning(d) /\ Unwritten(d) /\ Ranges(d)
      /\ frame[d] \in Frames
  BY Typed DEF IInv, IterInv, DInv
<1>2. /\ pc[d] = "cloning" /\ frame[d].at < frame[d].hi /\ end \in Slots
      /\ frame[d].at = end /\ s \in Iters /\ pc[s] = "idle" /\ s # d
      /\ alive[s].start <= end /\ frame[d].hi = alive[s].end
  BY <1>1 DEF CloneElement, Cloning, CloningFrom
<1>3. /\ data' = [data EXCEPT ![d][end] = e] /\ val' = [val EXCEPT ![e] = val[x]]
      /\ alive' = [alive EXCEPT ![d].end = @ + 1]
      /\ frame' = [frame EXCEPT ![d].at = @ + 1]
      /\ UNCHANGED <<pc, unwinding, released, lost, out, aborted>>
  BY <1>2 DEF CloneElement
<1>4. /\ alive[s].start \in 0 .. N /\ alive[s].end \in 0 .. N
      /\ alive[d].start \in 0 .. N /\ end \in 0 .. N /\ alive[d].start <= end
      /\ alive[d].start = alive[s].start
      /\ \A k \in AliveSlots(d) : val[data[d][k]] = val[data[s][k]]
  BY <1>1, <1>2, Typed DEF Ranges, DequeInv, Copies
<1>5. /\ alive'[d].start = alive[d].start /\ alive'[d].end = end + 1 /\ alive'[s] = alive[s]
  <2>1. alive'[d] = [alive[d] EXCEPT !.end = @ + 1] /\ alive'[s] = alive[s]
    BY <1>1, <1>2, <1>3 DEF TypeOK
  <2>2. alive[d] \in [start : 0 .. N, end : 0 .. N]
    BY <1>1, Typed
  <2> QED BY <2>1, <2>2
<1>6. frame'[d].src = s /\ frame'[d].op = frame[d].op
  <2>1. frame'[d] = [frame[d] EXCEPT !.at = @ + 1]
    BY <1>1, <1>3 DEF TypeOK
  <2> QED BY <1>1, <2>1 DEF Frames
<1>7. \A k \in alive[s].start .. alive[s].end - 1 :
         k \in Slots /\ data[s][k] \in Elems /\ Exists(data[s][k])
  <2>1. \A k \in AliveSlots(s) : data[s][k] \in Elems /\ Exists(data[s][k])
    BY <1>2, IdleYields
  <2> QED BY <1>4, <2>1 DEF AliveSlots, Slots
<1>8. \A k \in alive[d].start .. end - 1 : k \in Slots /\ data[d][k] \in Elems /\ Exists(data[d][k])
  <2>1. \A k \in alive[d].start .. end - 1 : k \in Slots /\ k \in OwnedSlots(d)
    BY <1>4 DEF OwnedSlots, AliveSlots, Slots
  <2> QED BY <1>1, <2>1, Typed DEF Owning
<1>9. ~Exists(e) /\ e \in Elems
  <2>1. end \in Nat /\ end >= end
    BY <1>4
  <2> QED BY <1>1, <1>2, <2>1 DEF Unwritten, Elems
<1>10. /\ \A f \in Elems : f # e => val'[f] = val[f]
       /\ val'[e] = val[x]
  BY <1>1, <1>3, <1>9 DEF TypeOK
<1>11. /\ data'[s] = data[s] /\ data'[d][end] = e
       /\ \A k \in Slots : k # end => data'[d][k] = data[d][k]
  BY <1>1, <1>2, <1>3 DEF TypeOK
<1>12. LifeOf(d) = "absent" /\ LifeOf(d)' = "absent"
  BY <1>2, <1>3 DEF LifeOf
<1>13. Looks(d)
  BY <1>12, RestIs, RestIsNext DEF Looks
<1>14. Copies(d)'
  <2>1. ASSUME NEW k \in alive[d].start .. end
        PROVE  val'[data'[d][k]] = val'[data'[s][k]]
    <3>1. k \in alive[s].start .. alive[s].end - 1
      BY <1>2, <1>4
    <3>2. data[s][k] \in Elems /\ Exists(data[s][k]) /\ data'[s][k] = data[s][k] /\ k \in Slots
      BY <1>7, <1>11, <3>1
    <3>3. val'[data'[s][k]] = val[data[s][k]]
      BY <1>9, <1>10, <3>2
    <3>4. CASE k = end
      BY <1>10, <1>11, <3>3, <3>4
    <3>5. CASE k # end
      <4>1. k \in alive[d].start .. end - 1 /\ k \in AliveSlots(d)
        BY <1>4, <3>5 DEF AliveSlots
      <4>2. val'[data'[d][k]] = val[data[d][k]]
        BY <1>8, <1>9, <1>10, <1>11, <3>5, <4>1
      <4> QED BY <1>4, <3>3, <4>1, <4>2
    <3> QED BY <3>4, <3>5
  <2>2. AliveSlots(d)' = alive[d].start .. end
    BY <1>4, <1>5 DEF AliveSlots
  <2> QED BY <1>4, <1>5, <1>6, <2>1, <2>2 DEF Copies
<1>15. Shows(d)' /\ InCall(d)'
  BY <1>2, <1>3, <1>12 DEF Shows, InCall
<1>16. Calm(d)' /\ Rooted(d)'
  BY <1>1, <1>2, <1>3, <1>12 DEF DequeInv, Calm, Rooted
<1>17. DequeInv(d)'
  BY <1>14, <1>15, <1>16 DEF DequeInv
<1> QED BY <1>3, <1>13, <1>17, Stutters

LEMMA ClonePanicsSimulates ==
    ASSUME IInv, DInv, NEW d \in Iters, ClonePanics(d)
    PROVE  Simulates(d)
<1> USE Constants
<1>1. /\ pc[d] = "cloning" /\ StartDrop(d, "clone", alive[d].start, alive[d].end, Unit, None)
      /\ unwinding' = [unwinding EXCEPT ![d] = TRUE]
      /\ UNCHANGED <<data, val, released, lost, out, aborted>>
  BY DEF ClonePanics, Cloning
<1>2. /\ TypeOK /\ DequeInv(d)
      /\ alive[d].start \in 0 .. N /\ alive[d].end \in 0 .. N /\ alive[d].start <= alive[d].end
  BY Typed DEF IInv, IterInv, DInv, Ranges
<1>3. "clone" \in Ops /\ Unit \in Answers
  BY AnswerTypes DEF Ops
<1>4. /\ pc'[d] = "dropping" /\ frame'[d].op = "clone"
      /\ frame'[d].lo = alive[d].start /\ frame'[d].at = alive[d].start
  BY <1>1, <1>2, <1>3, DropStarts
<1>5. unwinding'[d]
  BY <1>1, <1>2 DEF TypeOK
<1>6. LifeOf(d) = "absent" /\ LifeOf(d)' = "absent"
  BY <1>1, <1>4 DEF LifeOf
<1>7. Looks(d)
  BY <1>6, RestIs, RestIsNext DEF Looks
<1>8. Shows(d)' /\ InCall(d)'
  BY <1>2, <1>4, <1>5, <1>6 DEF Shows, InCall
<1>9. DequeInv(d)'
  BY <1>1, <1>2, <1>4, <1>6, <1>8, DroppingInv
<1> QED BY <1>1, <1>7, <1>9, Stutters

\* A finished clone has the values of its source.
LEMMA CloneReturnsSimulates ==
    ASSUME IInv, DInv, NEW d \in Iters, CloneReturns(d)
    PROVE  Simulates(d)
<1> USE Constants
<1> DEFINE s == frame[d].src
<1>1. /\ pc[d] = "cloning" /\ frame[d].at = frame[d].hi
      /\ pc' = [pc EXCEPT ![d] = "idle"]
      /\ UNCHANGED <<data, alive, unwinding, val, released, lost, out, aborted>>
  BY DEF CloneReturns, Cloning
<1>2. /\ TypeOK /\ DequeInv(d) /\ Owning(d)
      /\ alive[d].start \in 0 .. N /\ alive[d].end \in 0 .. N /\ alive[d].start <= alive[d].end
      /\ CloningFrom(d)
  BY Typed DEF IInv, IterInv, DInv, Ranges
<1>3. /\ s \in Iters /\ pc[s] = "idle" /\ s # d
      /\ alive[s].start = alive[d].start /\ alive[s].end = alive[d].end
      /\ \A k \in AliveSlots(d) : val[data[d][k]] = val[data[s][k]]
      /\ ~unwinding[d]
  BY <1>1, <1>2 DEF CloningFrom, DequeInv, Copies, Calm
<1>4. pc'[d] = "idle"
  BY <1>1, <1>2 DEF TypeOK
<1>5. /\ LifeOf(d)' = "live" /\ RestOf(d)' = IdleValues(d)
      /\ First(d)' = alive[d].start /\ Beyond(d)' = alive[d].end
  BY <1>1, <1>4, IdleRest DEF IdleValues
<1>6. LifeOf(d) = "absent"
  BY <1>1 DEF LifeOf
<1>7. LifeOf(s) = "live" /\ RestOf(s) = IdleValues(s)
  BY <1>3, IdleYields
<1>8. IdleValues(d) = IdleValues(s)
  <2>1. Agree(val, data[d], val, data[s], alive[d].start, alive[d].end)
    BY <1>3 DEF Agree, AliveSlots
  <2>2. ValuesIn(val, data[d], alive[d].start, alive[d].end)
          = ValuesIn(val, data[s], alive[d].start, alive[d].end)
    BY <1>2, <2>1, SameValues
  <2> QED BY <1>3, <2>2 DEF IdleValues
<1>9. Shows(d)'
  <2>1. \A k \in alive[d].start .. alive[d].end - 1 : k \in OwnedSlots(d)
    BY DEF OwnedSlots, AliveSlots
  <2>2. \A k \in alive[d].start .. alive[d].end - 1 : data[d][k] \in Elems /\ Exists(data[d][k])
    BY <1>2, <2>1, Typed DEF Owning
  <2> QED BY <1>1, <1>2, <1>5, <2>2 DEF Shows, Exists
<1>10. DequeInv(d)'
  BY <1>1, <1>2, <1>3, <1>4, <1>9, IdleInv
<1>11. OthersLook(d) => Deque!Clone(s, d)
  <2> SUFFICES ASSUME OthersLook(d) PROVE Deque!Clone(s, d)
    OBVIOUS
  <2> HIDE DEF s
  <2>1. [j \in Iters |-> LifeOf(j)]' = [[j \in Iters |-> LifeOf(j)] EXCEPT ![d] = "live"]
    BY <1>5 DEF OthersLook, Looks
  <2>2. [j \in Iters |-> RestOf(j)]' = [[j \in Iters |-> RestOf(j)] EXCEPT ![d] = RestOf(s)]
    BY <1>5, <1>7, <1>8 DEF OthersLook, Looks
  <2> QED BY <1>1, <1>3, <1>6, <1>7, <2>1, <2>2 DEF Deque!Clone
<1> QED BY <1>3, <1>10, <1>11 DEF Deque!Next, Simulates, Refines

-----------------------------------------------------------------------------

LEMMA InitShows == Init => DInv /\ Deque!Init
<1> SUFFICES ASSUME Init PROVE DInv /\ Deque!Init
  OBVIOUS
<1> USE Constants
<1>1. ASSUME NEW i \in Iters
      PROVE  /\ pc[i] = IF i \in Roots THEN "idle" ELSE "absent"
             /\ alive[i].start = 0 /\ alive[i].end = (IF i \in Roots THEN N ELSE 0)
             /\ ~unwinding[i]
  BY DEF Init
<1>2. ASSUME NEW i \in Roots, NEW k \in Slots
      PROVE  data[i][k] = <<i, k>> /\ <<i, k>> \in Elems /\ val[<<i, k>>] = k /\ k # None
  BY DEF Init, Elems
<1>3. ASSUME NEW i \in Iters
      PROVE  LifeOf(i) = (IF i \in Roots THEN "live" ELSE "absent") /\ ~Returned(i)
  BY <1>1 DEF LifeOf, Returned, Init, NoFrame
<1>4. ASSUME NEW i \in Roots
      PROVE  First(i) = 0 /\ Beyond(i) = N /\ RestOf(i) = [k \in 1 .. N |-> k - 1]
  <2>1. i \in Iters /\ First(i) = 0 /\ Beyond(i) = N
    BY <1>1, <1>4 DEF First, Beyond
  <2>2. RestOf(i) = ValuesIn(val, data[i], 0, N)
    BY <1>3, <1>4, <2>1, RestIs DEF Kept
  <2>3. \A k \in 1 .. N : val[data[i][0 + k - 1]] = k - 1
    <3> SUFFICES ASSUME NEW k \in 1 .. N PROVE val[data[i][0 + k - 1]] = k - 1
      OBVIOUS
    <3>1. k - 1 \in Slots /\ 0 + k - 1 = k - 1
      BY DEF Slots
    <3> QED BY <1>2, <1>4, <3>1
  <2>4. 1 .. N - 0 = 1 .. N
    OBVIOUS
  <2> QED BY <2>1, <2>2, <2>3, <2>4 DEF ValuesIn
<1>5. DInv
  <2> SUFFICES ASSUME NEW i \in Iters PROVE DequeInv(i)
    BY DEF DInv
  <2>1. Shows(i)
    <3>1. CASE i \in Roots
      <4>1. First(i) = 0 /\ Beyond(i) = N
        BY <1>4, <3>1
      <4>2. \A k \in 0 .. N - 1 : data[i][k] \in Elems /\ Exists(data[i][k])
        <5> SUFFICES ASSUME NEW k \in Slots PROVE data[i][k] \in Elems /\ Exists(data[i][k])
          BY DEF Slots
        <5> QED BY <1>2, <3>1 DEF Exists
      <4> QED BY <4>1, <4>2 DEF Shows
    <3>2. CASE i \notin Roots
      BY <1>3, <3>2 DEF Shows
    <3> QED BY <3>1, <3>2
  <2>2. InCall(i) /\ Copies(i) /\ Calm(i)
    BY <1>1 DEF InCall, Copies, Calm
  <2>3. Rooted(i)
    BY <1>1, <1>3 DEF Rooted
  <2> QED BY <2>1, <2>2, <2>3 DEF DequeInv
<1>6. Deque!Init
  <2>1. [i \in Iters |-> LifeOf(i)] = [i \in Iters |-> IF i \in Roots THEN "live" ELSE "absent"]
    BY <1>3
  <2>2. [i \in Iters |-> RestOf(i)]
          = [i \in Iters |-> IF i \in Roots THEN [k \in 1 .. N |-> k - 1] ELSE <<>>]
    <3>1. \A i \in Iters : RestOf(i) = IF i \in Roots THEN [k \in 1 .. N |-> k - 1] ELSE <<>>
      BY <1>3, <1>4, RestIs
    <3> QED BY <3>1
  <2>3. out = <<>>
    BY DEF Init, NoAnswer
  <2> QED BY <2>1, <2>2, <2>3 DEF Deque!Init
<1> QED BY <1>5, <1>6

\* Every step of a call is a step of the deque, or none.
LEMMA StepRefines == IInv /\ DInv /\ [Next]_vars => DInv' /\ [Deque!Next]_(Deque!vars)
<1> SUFFICES ASSUME IInv, DInv, [Next]_vars
             PROVE  DInv' /\ (Deque!Next \/ UNCHANGED Deque!vars)
  OBVIOUS
<1>1. ASSUME NEW i \in Iters, Touches(i), Simulates(i)
      PROVE  DInv' /\ (Deque!Next \/ UNCHANGED Deque!vars)
  BY <1>1, TouchesOnly DEF Simulates, Refines
<1>2. ASSUME NEW i \in Iters, Call(i)
      PROVE  DInv' /\ (Deque!Next \/ UNCHANGED Deque!vars)
  <2>1. CASE NextItem(i) \/ NextBack(i)
    BY <2>1, <1>1, CallTouches, NextSimulates
  <2>2. CASE Count(i) \/ Drop(i)
    BY <2>2, <1>1, CallTouches, CountDropSimulates
  <2>3. CASE Last(i)
    BY <2>3, <1>1, CallTouches, LastSimulates
  <2>4. CASE Swap(i)
    BY <2>4, <1>1, CallTouches, SwapSimulates
  <2>5. CASE \E n \in 0 .. MaxSkip : Nth(i, n) \/ NthBack(i, n)
    BY <2>5, <1>1, CallTouches, NthSimulates
  <2>6. CASE \E d \in Iters : Clone(i, d)
    BY <2>6, <1>1, CloneTouches, CloneSimulates
  <2> QED BY <1>2, <2>1, <2>2, <2>3, <2>4, <2>5, <2>6 DEF Call
<1>3. ASSUME NEW i \in Iters, Run(i)
      PROVE  DInv' /\ (Deque!Next \/ UNCHANGED Deque!vars)
  <2>0. Touches(i)
    BY <1>3, RunTouches
  <2>1. CASE DropElement(i) \/ DropPanics(i)
    BY <2>0, <2>1, <1>1, DropElementSimulates
  <2>2. CASE NthReturns(i)
    BY <2>0, <2>2, <1>1, NthReturnsSimulates
  <2>3. CASE NthCaught(i) \/ NthUnwinds(i)
    BY <2>0, <2>3, <1>1, NthPanicSimulates
  <2>4. CASE Consumed(i)
    BY <2>0, <2>4, <1>1, ConsumedSimulates
  <2>5. CASE LastReturns(i) \/ LastUnwinds(i)
    BY <2>0, <2>5, <1>1, LastEndsSimulates
  <2>6. CASE CloneElement(i)
    BY <2>0, <2>6, <1>1, CloneElementSimulates
  <2>7. CASE ClonePanics(i)
    BY <2>0, <2>7, <1>1, ClonePanicsSimulates
  <2>8. CASE CloneReturns(i)
    BY <2>0, <2>8, <1>1, CloneReturnsSimulates
  <2> QED BY <1>3, <2>1, <2>2, <2>3, <2>4, <2>5, <2>6, <2>7, <2>8 DEF Run
<1>4. CASE UNCHANGED vars
  <2>1. /\ data' = data /\ alive' = alive /\ pc' = pc /\ frame' = frame
        /\ unwinding' = unwinding /\ val' = val /\ out' = out
    BY <1>4 DEF vars
  <2>2. \A i \in Iters : LifeOf(i)' = LifeOf(i) /\ RestOf(i)' = RestOf(i)
    BY <2>1 DEF LifeOf, RestOf, Contents
  <2>3. UNCHANGED Deque!vars
    BY <2>1, <2>2 DEF Deque!vars
  <2>4. DInv'
    BY <2>1 DEF DInv, DequeInv, Shows, InCall, Copies, Calm, Rooted, LifeOf, First, Beyond,
       Exists, AliveSlots, Upto
  <2> QED BY <2>3, <2>4
<1> QED BY <1>2, <1>3, <1>4 DEF Next, Ended

\* For every length, any number of iterators and clones, and whatever panics, an
\* IntoIter does what Iterator, DoubleEndedIterator, ExactSizeIterator and
\* Clone promise: it is a deque of the array's values, in atomic steps.  An
\* answer of nth(n) or nth_back(n) is the one after exactly n values at that
\* end, none when no more than n are left, and a panic of nth(n) or nth_back(n)
\* loses exactly those n, or all that are left.
THEOREM IteratorIsADeque == Spec => ImplementsDeque
<1>1. IInv /\ [Next]_vars => IInv'
  BY StepInv
<1> QED BY InitInv, InitShows, <1>1, StepRefines, PTL DEF Spec, ImplementsDeque, Deque!Spec

=============================================================================
