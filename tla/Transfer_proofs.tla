-------------------------- MODULE Transfer_proofs --------------------------
(***************************************************************************)
(* The constructors that run try_build with a closure are correct for      *)
(* every length of the array and of the source, whatever panics.  What     *)
(* try_build does is taken from TryBuild_proofs.                           *)
(***************************************************************************)
EXTENDS Transfer, TLAPS

Proved == INSTANCE TryBuild_proofs

Elems == 0 .. N - 1

Ops == {"map", "zip", "pad_from", "try_from_iter", "try_from_fn", "map_ref", "each_mut"}

Chosen == op \in Ops /\ len \in Lengths(op)

\* The items before `next` have left the source, once each.
Sourced ==
    /\ next \in 0 .. len /\ nexts \in Nat
    /\ used \in [Items -> Nat]
    /\ \A k \in Items : used[k] = IF k < next THEN 1 ELSE 0

\* In zip the two arrays keep in step; otherwise there is only one source.
Matched ==
    /\ otherLen \in OtherLengths(op)
    /\ otherNext = IF op = "zip" THEN next ELSE 0
    /\ otherUsed \in [Items -> Nat]
    /\ \A k \in Items : otherUsed[k] = IF k < otherNext THEN 1 ELSE 0

Originated == origin \in [Elems -> From] /\ InOrder

\* Until try_build fails, the source keeps up with it.
Paced ==
    stage \in {"build", "extra"} /\ pc \in {"loop", "ok"} =>
        /\ op \in {"map", "zip", "try_from_iter"} => next = made
        /\ op = "pad_from" => next = IF made < len THEN made ELSE len
        /\ op = "try_from_iter" => nexts = next

\* What try_from_iter knows about the length of the iterator.
Iterated ==
    op = "try_from_iter" =>
        /\ nexts <= N + 1 /\ nexts <= next + 1
        /\ error # "none" => len < N
        /\ result = "ok" => len = N
        /\ result = "err" => len # N

\* zip never fails.
Zipped ==
    op = "zip" =>
        /\ ~panicking /\ pc \in {"loop", "ok"}
        /\ stage # "build" =>
              next = len /\ result = "ok" /\ stage \in {"source", "client", "end", "done"}

\* What became of the array and the source, by where the constructor is.
Ending ==
    /\ stage \in {"build", "extra", "array", "source", "client", "end", "done", "leaked", "aborted"}
    /\ panicking \in BOOLEAN /\ dropped \in 0 .. N
    /\ result \in {"none", "ok", "err", "panicked"}
    /\ stage \in {"build", "extra"} => dropped = 0 /\ result = "none"
    /\ stage \in {"extra", "array"} => op = "try_from_iter" /\ pc = "ok"
    /\ stage = "array" => result # "ok"
    /\ stage \in {"source", "client", "end", "done"} =>
          dropped = IF pc = "ok" /\ result # "ok" THEN N ELSE 0
    /\ stage \in {"client", "end", "done", "leaked"} => next = len
    /\ result = "ok" => dropped = 0 /\ pc = "ok"

IInv ==
    /\ Proved!IInv
    /\ Chosen /\ Sourced /\ Originated /\ Paced /\ Iterated /\ Zipped /\ Ending
    /\ Matched

-----------------------------------------------------------------------------
\* The steps of try_build.

\* What the proofs of try_build say about its state.
LEMMA BuildState ==
    ASSUME Proved!IInv
    PROVE  /\ made \in 0 .. N
           /\ pc = "loop" => i = made
           /\ pc = "ok" => made = N
           /\ pc = "err" => error # "none"
BY DEF Proved!IInv, Proved!TypeOK, Proved!Counted, Proved!Placed, Proved!Errors

\* Two instances of one module: the one of Transfer, and the one that is proved.
LEMMA SameSteps ==
    /\ Build!FReturnsOk = Proved!FReturnsOk /\ Build!FReturnsErr = Proved!FReturnsErr
    /\ Build!FPanics = Proved!FPanics
    /\ Build!GuardDrops = Proved!GuardDrops /\ Build!GuardDropPanics = Proved!GuardDropPanics
    /\ Build!ReturnErr = Proved!ReturnErr /\ Build!Unwind = Proved!Unwind
    /\ Build!ReturnOk = Proved!ReturnOk
    /\ Build!Init = Proved!Init /\ Build!TypeOK = Proved!TypeOK
BY DEF Build!FReturnsOk, Proved!FReturnsOk, Build!FReturnsErr, Proved!FReturnsErr,
       Build!FPanics, Proved!FPanics, Build!Looping, Proved!Looping,
       Build!GuardDrops, Proved!GuardDrops, Build!GuardDropPanics, Proved!GuardDropPanics,
       Build!Dropping, Proved!Dropping, Build!GuardDropped, Proved!GuardDropped,
       Build!ReturnErr, Proved!ReturnErr, Build!Unwind, Proved!Unwind,
       Build!ReturnOk, Proved!ReturnOk, Build!Init, Proved!Init, Build!TypeOK, Proved!TypeOK,
       Build!Slots, Proved!Slots, Build!Elems, Proved!Elems

\* Its steps keep its invariant.
BuildSteps ==
    \/ Build!FReturnsOk \/ Build!FReturnsErr \/ Build!FPanics
    \/ Build!GuardDrops \/ Build!GuardDropPanics
    \/ Build!ReturnErr \/ Build!Unwind \/ Build!ReturnOk

LEMMA BuildStep == ASSUME Proved!IInv, BuildSteps \/ UNCHANGED buildVars PROVE Proved!IInv'
<1>1. Proved!IInv /\ [Proved!Next]_(Proved!vars) => Proved!IInv'
  BY LenAssumption, UninitAssumption, Proved!StepInv DEF Proved!Elems
<1>2. UNCHANGED buildVars => UNCHANGED Proved!vars
  BY DEF buildVars, Proved!vars
<1>3. BuildSteps => Proved!Next
  BY SameSteps DEF BuildSteps, Proved!Next
<1> QED BY <1>1, <1>2, <1>3

LEMMA BuildStarts == Init => Proved!IInv
<1>1. Proved!Init => Proved!IInv
  BY LenAssumption, UninitAssumption, Proved!InitInv DEF Proved!Elems
<1> QED BY <1>1, SameSteps DEF Init

\* The closure answers at index `made`.
LEMMA ReturnsStep ==
    ASSUME IInv, NEW from \in From, Returns(from)
    PROVE  /\ Proved!IInv'
           /\ pc = "loop" /\ pc' = "loop" /\ error' = error
           /\ made \in 0 .. N - 1 /\ i = made /\ made' = made + 1
           /\ origin' \in [Elems -> From]
           /\ \A e \in Elems : origin'[e] = IF e = made THEN from ELSE origin[e]
<1>1. /\ Build!FReturnsOk /\ origin' = [origin EXCEPT ![made] = from]
      /\ origin \in [Elems -> From]
  BY DEF Returns, IInv, Originated
<1>2. Proved!IInv'
  BY <1>1, BuildStep DEF BuildSteps, IInv
<1>3. /\ pc = "loop" /\ pc' = "loop" /\ error' = error /\ i < N /\ made' = made + 1
  BY <1>1 DEF Build!FReturnsOk, Build!Looping
<1>4. made \in 0 .. N - 1 /\ i = made
  BY <1>3, BuildState, LenAssumption DEF IInv
<1> QED BY <1>1, <1>2, <1>3, <1>4 DEF Elems

LEMMA FailsStep ==
    ASSUME IInv, Fails \/ Panics
    PROVE  /\ Proved!IInv'
           /\ pc = "loop" /\ pc' = "guard" /\ UNCHANGED <<origin, made>>
           /\ made \in 0 .. N - 1 /\ i = made
           /\ Panics => error' = error
<1>1. UNCHANGED origin /\ (Build!FReturnsErr \/ Build!FPanics)
  BY DEF Fails, Panics
<1>2. Proved!IInv'
  BY <1>1, BuildStep DEF BuildSteps, IInv
<1>3. pc = "loop" /\ pc' = "guard" /\ i < N /\ made' = made
  BY <1>1 DEF Build!FReturnsErr, Build!FPanics, Build!Looping
<1>4. made \in 0 .. N - 1 /\ i = made
  BY <1>3, BuildState, LenAssumption DEF IInv
<1>5. Panics => error' = error
  BY DEF Panics, Build!FPanics
<1> QED BY <1>1, <1>2, <1>3, <1>4, <1>5

\* try_build goes on without the closure.
LEMMA OnwardStep ==
    ASSUME IInv, BuildGoesOn
    PROVE  /\ Proved!IInv' /\ UNCHANGED made
           /\ \/ pc = "loop" /\ pc' = "ok" /\ error' = error
              \/ pc = "guard" /\ pc' \notin {"loop", "ok"}
           /\ error' # "none" => error # "none"
<1>1. \/ Build!GuardDrops \/ Build!GuardDropPanics
      \/ Build!ReturnErr \/ Build!Unwind \/ Build!ReturnOk
  BY DEF BuildGoesOn
<1>2. Proved!IInv'
  BY <1>1, BuildStep DEF BuildSteps, IInv
<1>3. pc = "guard" /\ error = "none" => unwinding
  BY DEF IInv, Proved!IInv, Proved!Errors
<1> QED BY <1>1, <1>2, <1>3
  DEF Build!GuardDrops, Build!GuardDropPanics, Build!Dropping, Build!ReturnErr, Build!Unwind,
      Build!GuardDropped, Build!ReturnOk

-----------------------------------------------------------------------------
\* The source.

LEMMA LengthOf ==
    ASSUME Chosen
    PROVE  /\ len \in 0 .. N + 2
           /\ op \in {"map", "zip"} => len = N
           /\ op = "pad_from" => len \in 0 .. N
           /\ op \notin {"map", "zip", "pad_from", "try_from_iter"} => len = 0
<1> USE LenAssumption
<1>1. CASE op \in {"map", "zip"}
  BY <1>1 DEF Chosen, Lengths
<1>2. CASE op = "pad_from"
  BY <1>2 DEF Chosen, Lengths
<1>3. CASE op = "try_from_iter"
  BY <1>3 DEF Chosen, Lengths
<1>4. CASE op \notin {"map", "zip", "pad_from", "try_from_iter"}
  BY <1>4 DEF Chosen, Lengths
<1> QED BY <1>1, <1>2, <1>3, <1>4

\* next() yields an item, which leaves the source.
LEMMA YieldsStep ==
    ASSUME IInv, Yields, UNCHANGED len
    PROVE  /\ next < len /\ next \in Items /\ next' = next + 1 /\ next' \in 0 .. len'
           /\ used' \in [Items -> Nat]
           /\ \A k \in Items : used'[k] = IF k < next' THEN 1 ELSE 0
<1>1. /\ next < len /\ next' = next + 1 /\ used' = [used EXCEPT ![next] = used[next] + 1]
  BY DEF Yields
<1>2. /\ next \in 0 .. len /\ len \in 0 .. N + 2 /\ used \in [Items -> Nat]
      /\ \A k \in Items : used[k] = IF k < next THEN 1 ELSE 0
  BY LengthOf DEF IInv, Sourced
<1>3. next \in Items /\ next' \in 0 .. len'
  BY <1>1, <1>2, LenAssumption DEF Items
<1>4. used[next] = 0
  BY <1>2, <1>3
<1>5. \A k \in Items : used'[k] = IF k = next THEN 1 ELSE used[k]
  BY <1>1, <1>2, <1>3, <1>4
<1>6. \A k \in Items : used'[k] = IF k < next' THEN 1 ELSE 0
  BY <1>1, <1>2, <1>5 DEF Items
<1>7. used' \in [Items -> Nat]
  <2>1. used' = [k \in Items |-> used'[k]]
    BY <1>1, <1>2
  <2> QED BY <1>2, <1>5, <2>1
<1> QED BY <1>1, <1>3, <1>6, <1>7

LEMMA OtherLengthOf ==
    ASSUME Matched
    PROVE  otherLen = IF op = "zip" THEN N ELSE 0
BY DEF Matched, OtherLengths

\* next() of the other iterator in zip yields an item.
LEMMA OtherYieldsStep ==
    ASSUME IInv, OtherYields, UNCHANGED op, op = "zip", next' = next + 1
    PROVE  otherNext \in Items /\ otherNext = next /\ Matched'
<1>1. /\ otherNext < otherLen /\ otherNext' = otherNext + 1 /\ otherLen' = otherLen
      /\ otherUsed' = [otherUsed EXCEPT ![otherNext] = otherUsed[otherNext] + 1]
  BY DEF OtherYields
<1>2. /\ otherNext = next /\ next \in Nat /\ otherLen = N
      /\ otherLen \in OtherLengths(op) /\ otherUsed \in [Items -> Nat]
      /\ \A k \in Items : otherUsed[k] = IF k < otherNext THEN 1 ELSE 0
  BY OtherLengthOf, LengthOf, LenAssumption DEF IInv, Matched, Sourced
<1>3. otherNext \in Items
  BY <1>1, <1>2, LenAssumption DEF Items
<1>4. otherUsed[otherNext] = 0
  BY <1>2, <1>3
<1>5. \A k \in Items : otherUsed'[k] = IF k = otherNext THEN 1 ELSE otherUsed[k]
  BY <1>1, <1>2, <1>3, <1>4
<1>6. \A k \in Items : otherUsed'[k] = IF k < otherNext' THEN 1 ELSE 0
  BY <1>1, <1>2, <1>5 DEF Items
<1>7. otherUsed' \in [Items -> Nat]
  <2>1. otherUsed' = [k \in Items |-> otherUsed'[k]]
    BY <1>1, <1>2
  <2> QED BY <1>2, <1>5, <2>1
<1>8. otherLen' \in OtherLengths(op')
  BY <1>1, <1>2 DEF OtherLengths
<1> QED BY <1>1, <1>2, <1>3, <1>6, <1>7, <1>8 DEF Matched

\* A step without the other iterator.
LEMMA MatchedKept ==
    ASSUME IInv, UNCHANGED <<otherVars, op>>, op = "zip" => next' = next
    PROVE  Matched'
BY DEF IInv, Matched, OtherLengths, otherVars

-----------------------------------------------------------------------------
\* The closures keep the invariant.

\* Parts of the invariant that a call of the closure has to establish.
ClosureParts ==
    Proved!IInv' /\ Sourced' /\ Originated' /\ Paced' /\ Iterated' /\ Zipped'

LEMMA ClosureInv ==
    ASSUME IInv, stage = "build", ClosureParts, Matched',
           UNCHANGED <<op, len, stage, panicking, dropped, result>>
    PROVE  IInv'
<1>1. Chosen'
  BY DEF IInv, Chosen, Lengths
<1>2. Ending'
  BY DEF IInv, Ending
<1> QED BY <1>1, <1>2 DEF ClosureParts, IInv

\* An element made from the right item keeps the order.
LEMMA OriginKept ==
    ASSUME IInv, NEW from \in From, Returns(from), UNCHANGED <<op, len>>,
           from = MadeFrom(made)
    PROVE  Originated'
<1>1. /\ made \in 0 .. N - 1 /\ made' = made + 1
      /\ origin' \in [Elems -> From]
      /\ \A e \in Elems : origin'[e] = IF e = made THEN from ELSE origin[e]
  BY ReturnsStep
<1>2. \A e \in Elems : e < made => origin[e] = MadeFrom(e)
  BY DEF IInv, Originated, InOrder, Elems, Build!Elems
<1>3. ASSUME NEW e \in Elems, e < made'
      PROVE  origin'[e] = MadeFrom(e)
  <2>1. CASE e = made
    BY <1>1, <2>1
  <2>2. CASE e # made
    <3>1. e < made
      BY <1>1, <1>3, <2>2, LenAssumption DEF Elems
    <3> QED BY <1>1, <1>2, <2>2, <3>1
  <2> QED BY <2>1, <2>2
<1>4. \A e \in Elems : MadeFrom(e)' = MadeFrom(e)
  BY DEF MadeFrom
<1> QED BY <1>1, <1>3, <1>4 DEF Originated, InOrder, Elems, Build!Elems

LEMMA OriginFails == ASSUME IInv, Fails \/ Panics, UNCHANGED <<op, len>> PROVE Originated'
<1>1. UNCHANGED <<origin, made>>
  BY FailsStep
<1> QED BY <1>1 DEF IInv, Originated, InOrder, MadeFrom, Build!Elems, Elems

LEMMA FromTypes ==
    /\ <<Fill>> \in From
    /\ \A k \in Items : <<k>> \in From
    /\ \A k, l \in Items : <<k, l>> \in From
BY DEF From

\* The pace of the source when the closure is called.
LEMMA InStep ==
    ASSUME IInv, stage = "build", pc = "loop"
    PROVE  /\ op \in {"map", "zip", "try_from_iter"} => next = made
           /\ op = "pad_from" => next = IF made < len THEN made ELSE len
           /\ op = "try_from_iter" => nexts = next
           /\ result = "none" /\ ~(op = "zip" /\ panicking)
           /\ made \in 0 .. N /\ len \in 0 .. N + 2 /\ next \in 0 .. len /\ nexts \in Nat
BY BuildState, LengthOf DEF IInv, Paced, Ending, Zipped, Sourced

\* The closures of map and zip: an item for each index.
LEMMA MapInv ==
    ASSUME IInv, stage = "build", MapClosure \/ ZipClosure,
           UNCHANGED <<op, len, stage, panicking, dropped, result>>
    PROVE  ClosureParts
<1> USE LenAssumption
<1>1. op \in {"map", "zip"} /\ len = N /\ CallsNext
  BY LengthOf DEF MapClosure, ZipClosure, IInv
<1> DEFINE from == IF op = "map" THEN <<next>> ELSE <<next, otherNext>>
<1>2. CASE Yields /\ Returns(from)
  <2>1. /\ next \in Items /\ next' = next + 1 /\ Sourced'
    BY <1>1, <1>2, YieldsStep DEF CallsNext, IInv, Sourced
  <2>2. from \in From /\ (op = "zip" => otherNext = next)
    BY <1>1, <2>1, FromTypes DEF IInv, Matched
  <2>3. /\ Proved!IInv' /\ pc = "loop" /\ pc' = "loop" /\ made' = made + 1
    <3> HIDE DEF from
    <3> QED BY <1>2, <2>2, ReturnsStep
  <2>4. next = made /\ made \in 0 .. N
    BY <1>1, <2>3, InStep
  <2>5. Originated'
    <3>1. from = MadeFrom(made)
      BY <1>1, <2>2, <2>4 DEF MadeFrom
    <3> HIDE DEF from
    <3> QED BY <1>2, <2>2, <3>1, OriginKept
  <2>6. Paced' /\ Iterated' /\ Zipped'
    BY <1>1, <2>1, <2>3, <2>4 DEF Paced, Iterated, Zipped, IInv
  <2> QED BY <2>1, <2>3, <2>5, <2>6 DEF ClosureParts
<1>3. CASE Yields /\ Panics /\ op = "map"
  <2>1. Sourced'
    BY <1>1, <1>3, YieldsStep DEF CallsNext, IInv, Sourced
  <2>2. Proved!IInv' /\ pc' = "guard" /\ Originated'
    BY <1>3, FailsStep, OriginFails
  <2>3. Paced' /\ Iterated' /\ Zipped'
    BY <1>3, <2>2 DEF Paced, Iterated, Zipped
  <2> QED BY <2>1, <2>2, <2>3 DEF ClosureParts
<1>4. CASE Exhausted /\ Panics
  <2>1. next = len
    BY <1>4 DEF Exhausted
  <2>2. pc = "loop" /\ made \in 0 .. N - 1
    BY <1>4, FailsStep
  <2>3. next = made
    BY <1>1, <2>2, InStep
  <2> QED BY <1>1, <2>1, <2>2, <2>3
<1>5. CASE op = "zip" /\ Yields /\ OtherExhausted
  <2>1. next < len /\ otherNext = otherLen
    BY <1>5 DEF Yields, OtherExhausted
  <2>2. otherNext = next /\ otherLen = N /\ next \in Nat
    BY <1>1, <1>5, OtherLengthOf DEF IInv, Matched, Sourced
  <2>3. next < N /\ next = N
    BY <1>1, <2>1, <2>2
  <2> QED BY <2>3
<1>6. CASE MapClosure
  <2>1. \/ Yields /\ (Returns(<<next>>) \/ Panics)
        \/ Exhausted /\ Panics
    BY <1>6 DEF MapClosure
  <2>2. op = "map"
    BY <1>6 DEF MapClosure
  <2> QED BY <1>2, <1>3, <1>4, <2>1, <2>2
<1>7. CASE ZipClosure
  <2>1. \/ Yields /\ Returns(<<next, otherNext>>)
        \/ Yields /\ OtherExhausted
        \/ Exhausted /\ Panics
    BY <1>7 DEF ZipClosure
  <2>2. op = "zip"
    BY <1>7 DEF ZipClosure
  <2> QED BY <1>2, <1>4, <1>5, <2>1, <2>2
<1> QED BY <1>6, <1>7

\* pad_from: the items first, then clones of the fill.
LEMMA PadInv ==
    ASSUME IInv, stage = "build", PadClosure,
           UNCHANGED <<op, len, stage, panicking, dropped, result>>
    PROVE  ClosureParts
<1> USE LenAssumption
<1>1. op = "pad_from" /\ len \in 0 .. N /\ CallsNext
  BY LengthOf DEF PadClosure, IInv
<1>2. Iterated' /\ Zipped'
  BY <1>1 DEF Iterated, Zipped
<1>3. CASE Yields /\ Returns(<<next>>)
  <2>1. /\ next \in Items /\ next < len /\ next' = next + 1 /\ Sourced'
    BY <1>1, <1>3, YieldsStep DEF CallsNext, IInv, Sourced
  <2>2. /\ Proved!IInv' /\ pc = "loop" /\ pc' = "loop" /\ made' = made + 1
    BY <1>3, <2>1, FromTypes, ReturnsStep
  <2>3. next = made /\ made \in 0 .. N
    BY <1>1, <2>1, <2>2, InStep
  <2>4. Originated'
    <3>1. <<next>> = MadeFrom(made) /\ <<next>> \in From
      BY <1>1, <2>1, <2>3, FromTypes DEF MadeFrom
    <3> QED BY <1>3, <3>1, OriginKept
  <2>5. Paced'
    BY <1>1, <2>1, <2>2, <2>3 DEF Paced
  <2> QED BY <1>2, <2>1, <2>2, <2>4, <2>5 DEF ClosureParts
<1>4. CASE Exhausted /\ Returns(<<Fill>>)
  <2>1. next = len /\ next' = len /\ Sourced'
    BY <1>1, <1>4 DEF CallsNext, Exhausted, IInv, Sourced
  <2>2. /\ Proved!IInv' /\ pc = "loop" /\ pc' = "loop" /\ made' = made + 1
    BY <1>4, FromTypes, ReturnsStep
  <2>3. made >= len /\ made \in 0 .. N
    BY <1>1, <2>1, <2>2, InStep
  <2>4. Originated'
    <3>1. <<Fill>> = MadeFrom(made) /\ <<Fill>> \in From
      BY <1>1, <2>3, FromTypes DEF MadeFrom
    <3> QED BY <1>4, <3>1, OriginKept
  <2>5. Paced'
    BY <1>1, <2>1, <2>2, <2>3 DEF Paced
  <2> QED BY <1>2, <2>1, <2>2, <2>4, <2>5 DEF ClosureParts
<1>5. CASE Exhausted /\ Panics
  <2>1. Sourced'
    BY <1>1, <1>5 DEF CallsNext, Exhausted, IInv, Sourced
  <2>2. Proved!IInv' /\ pc' = "guard" /\ Originated'
    BY <1>5, FailsStep, OriginFails
  <2>3. Paced'
    BY <2>2 DEF Paced
  <2> QED BY <1>2, <2>1, <2>2, <2>3 DEF ClosureParts
<1> QED BY <1>3, <1>4, <1>5 DEF PadClosure

\* try_from_iter: the iterator ends only before the array is complete.
LEMMA IterInv ==
    ASSUME IInv, stage = "build", IterClosure,
           UNCHANGED <<op, len, stage, panicking, dropped, result>>
    PROVE  ClosureParts
<1> USE LenAssumption
<1>1. op = "try_from_iter" /\ nexts' = nexts + 1
  BY DEF IterClosure, CallsNext
<1>2. Zipped'
  BY <1>1 DEF Zipped
<1>3. ASSUME pc = "loop"
      PROVE  /\ next = made /\ nexts = made /\ result = "none" /\ result' = "none"
             /\ made \in 0 .. N /\ len \in 0 .. N + 2 /\ next \in 0 .. len
  BY <1>1, <1>3, InStep
<1>4. error # "none" => len < N
  BY <1>1 DEF IInv, Iterated
<1>5. CASE Yields /\ Returns(<<next>>)
  <2>1. /\ next \in Items /\ next' = next + 1 /\ Sourced'
    BY <1>1, <1>5, YieldsStep DEF IInv, Sourced
  <2>2. /\ Proved!IInv' /\ pc = "loop" /\ pc' = "loop" /\ made' = made + 1
        /\ made \in 0 .. N - 1 /\ error' = error
    BY <1>5, <2>1, FromTypes, ReturnsStep
  <2>3. Originated'
    <3>1. <<next>> = MadeFrom(made) /\ <<next>> \in From
      BY <1>1, <1>3, <2>1, <2>2, FromTypes DEF MadeFrom
    <3> QED BY <1>5, <3>1, OriginKept
  <2>4. Paced' /\ Iterated'
    BY <1>1, <1>3, <1>4, <2>1, <2>2 DEF Paced, Iterated
  <2> QED BY <1>2, <2>1, <2>2, <2>3, <2>4 DEF ClosureParts
<1>6. CASE Exhausted /\ Fails
  <2>1. next = len /\ next' = len /\ Sourced'
    BY <1>1, <1>6 DEF Exhausted, IInv, Sourced
  <2>2. Proved!IInv' /\ pc = "loop" /\ pc' = "guard" /\ Originated' /\ made \in 0 .. N - 1
    BY <1>6, FailsStep, OriginFails
  <2>3. Paced' /\ Iterated'
    BY <1>1, <1>3, <2>1, <2>2 DEF Paced, Iterated
  <2> QED BY <1>2, <2>1, <2>2, <2>3 DEF ClosureParts
<1>7. CASE UNCHANGED <<next, used>> /\ Panics
  <2>1. Sourced'
    BY <1>1, <1>7 DEF IInv, Sourced
  <2>2. /\ Proved!IInv' /\ pc = "loop" /\ pc' = "guard" /\ Originated'
        /\ made \in 0 .. N - 1 /\ error' = error
    BY <1>7, FailsStep, OriginFails
  <2>3. Paced' /\ Iterated'
    BY <1>1, <1>3, <1>4, <1>7, <2>2 DEF Paced, Iterated
  <2> QED BY <1>2, <2>1, <2>2, <2>3 DEF ClosureParts
<1> QED BY <1>5, <1>6, <1>7 DEF IterClosure

\* try_from_fn, map_ref and each_mut: the element at an index is made from it.
LEMMA IndexInv ==
    ASSUME IInv, stage = "build", IndexClosure,
           UNCHANGED <<op, len, stage, panicking, dropped, result>>
    PROVE  ClosureParts
<1> USE LenAssumption
<1>1. op \in {"try_from_fn", "map_ref", "each_mut"} /\ UNCHANGED <<next, nexts, used>>
  BY DEF IndexClosure
<1>2. Sourced' /\ Paced' /\ Iterated' /\ Zipped'
  BY <1>1 DEF IInv, Sourced, Paced, Iterated, Zipped
<1>3. CASE Returns(<<i>>)
  <2>1. i = made /\ i \in Items
    <3>1. Build!FReturnsOk
      BY <1>3 DEF Returns
    <3>2. pc = "loop" /\ i < N
      BY <3>1 DEF Build!FReturnsOk, Build!Looping
    <3> QED BY <3>2, BuildState DEF IInv, Items
  <2>2. Proved!IInv'
    BY <1>3, <2>1, FromTypes, ReturnsStep
  <2>3. Originated'
    <3>1. <<i>> = MadeFrom(made) /\ <<i>> \in From
      BY <1>1, <2>1, FromTypes DEF MadeFrom
    <3> QED BY <1>3, <3>1, OriginKept
  <2> QED BY <1>2, <2>2, <2>3 DEF ClosureParts
<1>4. CASE Fails \/ Panics
  BY <1>2, <1>4, FailsStep, OriginFails DEF ClosureParts
<1> QED BY <1>3, <1>4 DEF IndexClosure

\* Each pair takes one item of either array.
LEMMA MatchedInv == ASSUME IInv, CallClosure PROVE Matched'
<1> USE LenAssumption
<1>1. UNCHANGED op
  BY DEF CallClosure
<1>2. CASE UNCHANGED otherVars /\ ~ZipClosure
  <2>1. MapClosure \/ PadClosure \/ IterClosure \/ IndexClosure
    BY <1>2 DEF CallClosure
  <2>2. op # "zip"
    BY <2>1 DEF MapClosure, PadClosure, IterClosure, IndexClosure
  <2> QED BY <1>1, <1>2, <2>2, MatchedKept
<1>3. CASE ZipClosure
  <2>1. op = "zip" /\ otherNext = next /\ otherLen = N /\ len = N /\ next \in Nat
    BY <1>3, OtherLengthOf, LengthOf DEF ZipClosure, IInv, Matched, Sourced
  <2>2. CASE Yields /\ OtherYields
    BY <1>1, <2>1, <2>2, OtherYieldsStep DEF Yields
  <2>3. CASE Yields /\ OtherExhausted
    <3>1. next < len /\ otherNext = otherLen
      BY <2>3 DEF Yields, OtherExhausted
    <3> QED BY <2>1, <3>1
  <2>4. CASE Exhausted /\ UNCHANGED otherVars
    BY <1>1, <2>4, MatchedKept DEF Exhausted
  <2> QED BY <1>3, <2>2, <2>3, <2>4 DEF ZipClosure
<1> QED BY <1>2, <1>3 DEF CallClosure

LEMMA CallClosureInv == ASSUME IInv, CallClosure PROVE IInv'
<1>1. stage = "build" /\ UNCHANGED <<op, len, stage, panicking, dropped, result>>
  BY DEF CallClosure
<1>2. ClosureParts
  BY <1>1, MapInv, PadInv, IterInv, IndexInv DEF CallClosure
<1> QED BY <1>1, <1>2, MatchedInv, ClosureInv

-----------------------------------------------------------------------------
\* The steps without the closure keep the invariant.

LEMMA BuildGoesOnInv == ASSUME IInv, BuildGoesOn PROVE IInv'
<1>1. /\ stage = "build" /\ UNCHANGED <<sourceVars, op, stage, panicking, dropped, result>>
  BY DEF BuildGoesOn
<1>2. /\ Proved!IInv' /\ made' = made
      /\ \/ pc = "loop" /\ pc' = "ok" /\ error' = error
         \/ pc = "guard" /\ pc' \notin {"loop", "ok"}
      /\ error' # "none" => error # "none"
  BY OnwardStep
<1>3. Chosen' /\ Sourced'
  BY <1>1 DEF IInv, Chosen, Lengths, Sourced, sourceVars
<1>4. Originated'
  BY <1>1, <1>2 DEF IInv, Originated, InOrder, MadeFrom, Build!Elems, Elems, sourceVars
<1>5. Paced' /\ Iterated' /\ Zipped' /\ Ending'
  BY <1>1, <1>2 DEF IInv, Paced, Iterated, Zipped, Ending, sourceVars
<1>6. Matched'
  BY <1>1, MatchedKept DEF sourceVars
<1> QED BY <1>2, <1>3, <1>4, <1>5, <1>6 DEF IInv

\* Steps of the constructor's own code.
LEMMA OwnStep ==
    ASSUME IInv, UNCHANGED <<buildVars, op, len, origin, otherVars>>,
           op = "zip" => next' = next
    PROVE  /\ Proved!IInv' /\ Chosen' /\ Originated' /\ Matched'
           /\ UNCHANGED <<pc, made, error>>
<1>1. Proved!IInv' /\ UNCHANGED <<pc, made, error>>
  BY BuildStep DEF IInv, buildVars
<1>2. Chosen' /\ Originated'
  BY <1>1 DEF IInv, Chosen, Lengths, Originated, InOrder, MadeFrom, Build!Elems, Elems
<1> QED BY <1>1, <1>2, MatchedKept

LEMMA SourceKept ==
    ASSUME IInv, UNCHANGED <<len, next, used>>, nexts' \in Nat
    PROVE  Sourced'
BY DEF IInv, Sourced

LEMMA BuiltInv == ASSUME IInv, Built PROVE IInv'
<1>1. /\ stage = "build" /\ pc \in {"ok", "err", "panicked"}
      /\ UNCHANGED <<buildVars, sourceVars, op, dropped>>
      /\ panicking' = (pc = "panicked")
      /\ \/ op = "try_from_iter" /\ pc = "ok" /\ stage' = "extra" /\ result' = result
         \/ ~(op = "try_from_iter" /\ pc = "ok") /\ stage' = "source" /\ result' = pc
  BY DEF Built
<1>2. Proved!IInv' /\ Chosen' /\ Originated' /\ Matched' /\ UNCHANGED <<pc, made, error>>
  BY <1>1, OwnStep DEF sourceVars
<1>3. Sourced'
  BY <1>1 DEF IInv, Sourced, sourceVars
<1>4. UNCHANGED <<len, next, nexts>>
  BY <1>1 DEF sourceVars
<1>5. Paced'
  BY <1>1, <1>2, <1>4 DEF IInv, Paced
<1>6. Iterated'
  <2>1. pc = "err" => error # "none"
    BY BuildState DEF IInv
  <2>2. len \in 0 .. N + 2
    BY LengthOf DEF IInv
  <2>3. Iterated /\ (stage = "build" => result = "none")
    BY DEF IInv, Ending
  <2> QED BY <1>1, <1>2, <1>4, <2>1, <2>2, <2>3, LenAssumption DEF Iterated
<1>7. Zipped'
  <2> SUFFICES ASSUME op = "zip" PROVE Zipped'
    BY <1>1 DEF Zipped
  <2>1. pc = "ok" /\ stage' = "source" /\ result' = "ok" /\ ~panicking'
    BY <1>1 DEF IInv, Zipped
  <2>2. next = len
    <3>1. next = made /\ made = N /\ len = N
      BY <1>1, <2>1, BuildState, LengthOf DEF IInv, Paced
    <3> QED BY <3>1
  <2> QED BY <1>2, <1>4, <2>1, <2>2 DEF Zipped
<1>8. Ending'
  BY <1>1, <1>2, LenAssumption DEF IInv, Ending
<1> QED BY <1>2, <1>3, <1>5, <1>6, <1>7, <1>8 DEF IInv

\* The last call of next().
LEMMA ExtraInv == ASSUME IInv, NothingExtra \/ SomeExtra \/ ExtraPanics PROVE IInv'
<1> USE LenAssumption
<1>1. /\ stage = "extra" /\ nexts' = nexts + 1
      /\ UNCHANGED <<buildVars, op, len, otherVars, origin, dropped>>
      /\ \/ Exhausted /\ stage' = "source" /\ result' = "ok" /\ panicking' = panicking
         \/ Yields /\ stage' = "array" /\ result' = "err" /\ panicking' \in BOOLEAN
         \/ /\ UNCHANGED <<next, used>> /\ stage' = "array" /\ panicking' = TRUE
            /\ result' = result
  BY DEF NothingExtra, SomeExtra, ExtraPanics, CallsNext
<1>2. Proved!IInv' /\ Chosen' /\ Originated' /\ Matched' /\ UNCHANGED <<pc, made, error>>
  <2>1. op # "zip"
    BY <1>1 DEF IInv, Ending
  <2> QED BY <1>1, <2>1, OwnStep
<1>3. /\ op = "try_from_iter" /\ pc = "ok" /\ result = "none" /\ dropped = 0
      /\ next = made /\ nexts = next /\ made = N /\ nexts \in Nat
      /\ panicking \in BOOLEAN
  BY <1>1, BuildState DEF IInv, Ending, Paced, Sourced
<1>4. len \in 0 .. N + 2
  BY LengthOf DEF IInv
<1>5. Sourced'
  <2>1. CASE UNCHANGED <<next, used>>
    BY <1>1, <1>3, <2>1, SourceKept
  <2>2. CASE Yields
    BY <1>1, <1>3, <2>2, YieldsStep DEF Sourced
  <2> QED BY <1>1, <2>1, <2>2 DEF Exhausted
<1>6. Paced' /\ Zipped'
  BY <1>1, <1>3 DEF Paced, Zipped
<1>7. Iterated' /\ Ending'
  <2>1. error # "none" => len < N
    BY <1>3 DEF IInv, Iterated
  <2>2. CASE Exhausted /\ stage' = "source" /\ result' = "ok" /\ panicking' = panicking
    BY <1>1, <1>2, <1>3, <1>4, <2>1, <2>2 DEF Exhausted, Iterated, Ending
  <2>3. CASE Yields /\ stage' = "array" /\ result' = "err" /\ panicking' \in BOOLEAN
    BY <1>1, <1>2, <1>3, <1>4, <2>1, <2>3 DEF Yields, Iterated, Ending
  <2>4. CASE UNCHANGED <<next, used>> /\ stage' = "array" /\ panicking' = TRUE /\ result' = result
    BY <1>1, <1>2, <1>3, <1>4, <2>1, <2>4 DEF Iterated, Ending
  <2> QED BY <1>1, <2>2, <2>3, <2>4
<1> QED BY <1>2, <1>5, <1>6, <1>7 DEF IInv

\* The locals are dropped.
LEMMA Destroyed ==
    ASSUME IInv, NEW s, Destructor(s)
    PROVE  stage' \in {s, "aborted"} /\ panicking' \in BOOLEAN
<1>1. panicking \in BOOLEAN
  BY DEF IInv, Ending
<1>2. CASE stage' = s /\ UNCHANGED panicking
  BY <1>1, <1>2
<1>3. CASE stage' = (IF panicking THEN "aborted" ELSE s) /\ panicking' = TRUE
  BY <1>1, <1>3
<1> QED BY <1>2, <1>3 DEF Destructor

LEMMA DropArrayInv == ASSUME IInv, DropArray PROVE IInv'
<1> USE LenAssumption
<1>1. /\ stage = "array" /\ UNCHANGED <<buildVars, sourceVars, op, result>>
      /\ \/ dropped < N /\ dropped' = dropped + 1 /\ stage' \in {"array", "aborted"}
         \/ dropped >= N /\ dropped' = dropped /\ stage' = "source"
      /\ panicking' \in BOOLEAN
  <2>1. dropped \in 0 .. N /\ panicking \in BOOLEAN
    BY DEF IInv, Ending
  <2>2. CASE dropped < N
    BY <2>2, Destroyed DEF DropArray
  <2>3. CASE ~(dropped < N)
    BY <2>1, <2>3 DEF DropArray
  <2> QED BY <2>2, <2>3
<1>2. Proved!IInv' /\ Chosen' /\ Originated' /\ Matched' /\ UNCHANGED <<pc, made, error>>
  BY <1>1, OwnStep DEF sourceVars
<1>3. Sourced'
  BY <1>1 DEF IInv, Sourced, sourceVars
<1>4. op = "try_from_iter" /\ pc = "ok" /\ result # "ok" /\ dropped \in 0 .. N
  BY <1>1 DEF IInv, Ending
<1>5. Paced' /\ Zipped'
  BY <1>1, <1>4 DEF Paced, Zipped
<1>6. Iterated' /\ Ending'
  BY <1>1, <1>2, <1>4 DEF IInv, Iterated, Ending, sourceVars
<1> QED BY <1>2, <1>3, <1>5, <1>6 DEF IInv

LEMMA DropSourceInv == ASSUME IInv, DropSource PROVE IInv'
<1> USE LenAssumption
<1>0. /\ stage = "source"
      /\ UNCHANGED <<buildVars, op, len, nexts, origin, dropped, result>>
      /\ \/ Yields /\ UNCHANGED otherVars
            /\ stage' \in {"source", "aborted"} /\ panicking' \in BOOLEAN
         \/ Exhausted /\ OtherYields
         \/ Exhausted /\ OtherExhausted /\ stage' = "client" /\ panicking' = panicking
  BY DEF DropSource, Destructor, IInv, Ending
<1>00. ~(Exhausted /\ OtherYields) /\ (op = "zip" => next = len)
  <2>1. op = "zip" => next = len /\ len = N
    BY <1>0, LengthOf DEF IInv, Zipped
  <2>2. otherNext = (IF op = "zip" THEN next ELSE 0) /\ otherLen = IF op = "zip" THEN N ELSE 0
    BY OtherLengthOf DEF IInv, Matched
  <2> QED BY <2>1, <2>2 DEF OtherYields
<1>1. /\ stage = "source"
      /\ UNCHANGED <<buildVars, op, len, nexts, otherVars, origin, dropped, result>>
      /\ \/ Yields /\ stage' \in {"source", "aborted"} /\ panicking' \in BOOLEAN
         \/ Exhausted /\ stage' = "client" /\ panicking' = panicking
      /\ op = "zip" => next' = next
  BY <1>0, <1>00 DEF OtherExhausted, Exhausted, Yields, IInv, Sourced
<1>2. Proved!IInv' /\ Chosen' /\ Originated' /\ Matched' /\ UNCHANGED <<pc, made, error>>
  BY <1>1, OwnStep
<1>3. nexts \in Nat /\ next \in 0 .. len /\ len \in 0 .. N + 2
  BY LengthOf DEF IInv, Sourced
<1>4. Paced'
  BY <1>1 DEF Paced
<1>5. CASE Yields /\ stage' \in {"source", "aborted"} /\ panicking' \in BOOLEAN
  <2>1. next < len /\ next' = next + 1 /\ Sourced'
    BY <1>1, <1>3, <1>5, YieldsStep DEF Sourced
  <2>2. Iterated' /\ Ending'
    BY <1>1, <1>2, <1>3, <1>5, <2>1 DEF IInv, Iterated, Ending
  <2>3. Zipped'
    BY <1>1, <1>3, <2>1 DEF IInv, Zipped
  <2> QED BY <1>2, <1>4, <2>1, <2>2, <2>3 DEF IInv
<1>6. CASE Exhausted /\ stage' = "client" /\ panicking' = panicking
  <2>1. next = len /\ next' = next /\ Sourced'
    BY <1>1, <1>6 DEF Exhausted, IInv, Sourced
  <2>2. Iterated' /\ Ending'
    BY <1>1, <1>2, <1>6, <2>1 DEF IInv, Iterated, Ending
  <2>3. Zipped'
    BY <1>1, <1>2, <1>6, <2>1 DEF IInv, Zipped
  <2> QED BY <1>2, <1>4, <2>1, <2>2, <2>3 DEF IInv
<1> QED BY <1>1, <1>5, <1>6

LEMMA DropClientInv == ASSUME IInv, DropClient PROVE IInv'
<1>1. /\ stage = "client" /\ UNCHANGED <<buildVars, sourceVars, op, dropped, result>>
      /\ \/ stage' = "end" /\ panicking' = panicking
         \/ op # "zip" /\ stage' \in {"end", "aborted"} /\ panicking' \in BOOLEAN
  BY DEF DropClient, Destructor, IInv, Ending
<1>2. Proved!IInv' /\ Chosen' /\ Originated' /\ Matched' /\ UNCHANGED <<pc, made, error>>
  BY <1>1, OwnStep DEF sourceVars
<1>3. Sourced'
  BY <1>1 DEF IInv, Sourced, sourceVars
<1>4. Paced'
  BY <1>1 DEF Paced
<1>5. Iterated' /\ Zipped' /\ Ending'
  BY <1>1, <1>2 DEF IInv, Iterated, Zipped, Ending, sourceVars
<1> QED BY <1>2, <1>3, <1>4, <1>5 DEF IInv

LEMMA ReturnInv == ASSUME IInv, Return PROVE IInv'
<1> USE LenAssumption
<1>1. /\ stage = "end" /\ UNCHANGED <<buildVars, sourceVars, op, panicking>>
      /\ \/ ~panicking /\ stage' = "done" /\ UNCHANGED <<dropped, result>>
         \/ /\ panicking /\ result' = "panicked"
            /\ \/ stage' = "done" /\ dropped' = IF result = "ok" THEN N ELSE dropped
               \/ stage' \in {"aborted", "leaked"} /\ dropped' = dropped
  BY DEF Return
<1>2. Proved!IInv' /\ Chosen' /\ Originated' /\ Matched' /\ UNCHANGED <<pc, made, error>>
  BY <1>1, OwnStep DEF sourceVars
<1>3. Sourced'
  BY <1>1 DEF IInv, Sourced, sourceVars
<1>4. Paced'
  BY <1>1 DEF Paced
<1>5. Iterated' /\ Zipped'
  BY <1>1, <1>2 DEF IInv, Iterated, Zipped, sourceVars
<1>6. Ending'
  BY <1>1, <1>2 DEF IInv, Ending, sourceVars
<1> QED BY <1>2, <1>3, <1>4, <1>5, <1>6 DEF IInv

LEMMA StepInv == IInv /\ [Next]_vars => IInv'
<1>1. ASSUME IInv, UNCHANGED vars PROVE IInv'
  <2>1. /\ UNCHANGED <<buildVars, op, len, origin, otherVars>>
        /\ UNCHANGED <<next, nexts, used, stage, panicking, dropped, result>>
    BY <1>1 DEF vars, sourceVars
  <2>2. Proved!IInv' /\ Chosen' /\ Originated' /\ Matched' /\ UNCHANGED <<pc, made, error>>
    BY <1>1, <2>1, OwnStep
  <2>3. Sourced' /\ Paced' /\ Iterated' /\ Zipped' /\ Ending'
    BY <1>1, <2>1, <2>2 DEF IInv, Sourced, Paced, Iterated, Zipped, Ending
  <2> QED BY <2>2, <2>3 DEF IInv
<1> QED BY <1>1, CallClosureInv, BuildGoesOnInv, BuiltInv, ExtraInv, DropArrayInv, DropSourceInv,
           DropClientInv, ReturnInv
        DEF Next

LEMMA InitInv == Init => IInv
<1> SUFFICES ASSUME Init PROVE IInv
  OBVIOUS
<1> USE LenAssumption
<1>1. Proved!IInv
  BY BuildStarts
<1>2. /\ pc = "loop" /\ made = 0 /\ error = "none"
  BY DEF Init, Build!Init
<1>3. Chosen
  BY DEF Init, Chosen, Ops
<1>4. len \in 0 .. N + 2 /\ next = 0 /\ nexts = 0
  BY <1>3, LengthOf DEF Init
<1>5. Sourced
  BY <1>4 DEF Init, Sourced, Items
<1>6. Originated
  BY <1>2 DEF Init, Originated, InOrder, From, Build!Elems, Elems
<1>7. stage = "build" /\ panicking = FALSE /\ dropped = 0 /\ result = "none"
  BY DEF Init
<1>8. Paced /\ Iterated /\ Zipped
  BY <1>2, <1>4, <1>7 DEF Paced, Iterated, Zipped
<1>9. Ending
  <2>1. panicking \in BOOLEAN
    BY <1>7, Zenon
  <2>2. dropped \in 0 .. N
    BY <1>7
  <2> QED BY <1>7, <2>1, <2>2 DEF Ending
<1>10. Matched
  BY <1>4, <1>5 DEF Init, Matched, Items
<1> QED BY <1>1, <1>3, <1>5, <1>6, <1>8, <1>9, <1>10 DEF IInv

-----------------------------------------------------------------------------

\* Where the source, the array and try_build are, for every constructor.
THEOREM Invariance == Spec => []IInv
BY InitInv, StepInv, PTL DEF Spec

\* The state has the types that it is given.
THEOREM TypesAreKept == Spec => []TypeOK
<1>1. IInv => TypeOK
  <2> SUFFICES ASSUME IInv PROVE TypeOK
    OBVIOUS
  <2>1. Build!TypeOK
    BY SameSteps DEF IInv, Proved!IInv
  <2>2. otherLen \in {0, N} /\ otherNext \in 0 .. otherLen /\ otherUsed \in [Items -> Nat]
    BY OtherLengthOf, LengthOf, LenAssumption DEF IInv, Matched, Sourced
  <2> QED BY <2>1, <2>2, LengthOf
      DEF IInv, TypeOK, Sourced, Originated, Ending, Elems, Build!Elems
<1> QED BY <1>1, Invariance, PTL

\* Each item of a source ends in the array, in f or in a destructor, once.
THEOREM EachItemUsedOnce == Spec => []ItemsUsedOnce
<1>1. IInv => ItemsUsedOnce
  <2> SUFFICES ASSUME IInv PROVE ItemsUsedOnce
    OBVIOUS
  <2>1. next \in 0 .. len /\ len \in 0 .. N + 2 /\ Items = 0 .. N + 1
    BY LengthOf DEF IInv, Sourced, Items
  <2>2. \A k \in Items : used[k] = IF k < next THEN 1 ELSE 0
    BY DEF IInv, Sourced
  <2>3. \A k \in Items : otherUsed[k] = IF k < otherNext THEN 1 ELSE 0
    BY DEF IInv, Matched
  <2>4. Finished => next = len
    BY DEF IInv, Ending, Finished
  <2>5. /\ otherNext = (IF op = "zip" THEN next ELSE 0)
        /\ otherLen = (IF op = "zip" THEN N ELSE 0)
        /\ op = "zip" => len = N
    BY OtherLengthOf, LengthOf DEF IInv, Matched
  <2> QED BY <2>1, <2>2, <2>3, <2>4, <2>5, LenAssumption DEF ItemsUsedOnce
<1> QED BY <1>1, Invariance, PTL

\* An array that was built is the answer, or all its elements are dropped.
THEOREM ArrayIsKeptOrDropped == Spec => []ArrayKeptOrDropped
<1>1. IInv => ArrayKeptOrDropped
  BY DEF IInv, Ending, ArrayKeptOrDropped
<1> QED BY <1>1, Invariance, PTL

\* Element k is made from item k, and the fill comes after the prefix.
THEOREM ElementsInOrder == Spec => []InOrder
<1>1. IInv => InOrder
  BY DEF IInv, Originated
<1> QED BY <1>1, Invariance, PTL

\* try_from_iter succeeds on iterators of the exact length only, and returns
\* its error only for other lengths.
THEOREM LengthIsExact == Spec => []ExactLength
<1>1. IInv => ExactLength
  BY DEF IInv, Iterated, ExactLength
<1> QED BY <1>1, Invariance, PTL

\* It advances an iterator at most once more than the array is long, and never
\* after the iterator has ended.
THEOREM IteratorIsLeftAlone == Spec => []AdvancedAtMost
<1>1. IInv => AdvancedAtMost
  BY DEF IInv, Iterated, AdvancedAtMost
<1> QED BY <1>1, Invariance, PTL

\* zip cannot fail: neither expect of from_exact_iter is reached.
THEOREM ZipAlwaysReturns == Spec => []ZipReturns
<1>1. IInv => ZipReturns
  BY DEF IInv, Zipped, ZipReturns, Finished
<1> QED BY <1>1, Invariance, PTL

=============================================================================
