-------------------------- MODULE TryBuild_proofs --------------------------
(***************************************************************************)
(* Construction in place is correct for every length of the array,         *)
(* wherever f fails or panics and whichever destructors panic.             *)
(***************************************************************************)
EXTENDS TryBuild, TLAPS

\* The guard counts the elements that f has made, and each lies in its slot.
Counted ==
    /\ init = made /\ at <= init
    /\ \A k \in Slots : k < init => slots[k] = k

\* Where the loop and the guard are; the loop has not failed before.
Placed ==
    /\ pc \in {"loop", "ok"} => i = init /\ at = 0 /\ ~unwinding /\ error = "none"
    /\ pc = "ok" => init = N
    /\ pc \in {"err", "panicked"} => at = init

\* What has left: everything, or what the guard has dropped.
Left ==
    /\ released[None] = 0
    /\ \A e \in Elems : released[e] = IF pc = "ok" \/ e < at THEN 1 ELSE 0

\* f was called for the elements made, and once more if it failed.
Called ==
    /\ \A k \in 1 .. Len(calls) : calls[k] = k - 1
    /\ Len(calls) = IF pc \in {"loop", "ok"} THEN made ELSE made + 1

Errors ==
    /\ pc = "err" <=> error = "returned"
    /\ pc = "guard" => error \in {"none", "held"} /\ (error = "none" => unwinding)

IInv == TypeOK /\ Counted /\ Placed /\ Left /\ Called /\ Errors

\* Construction starts with nothing made and nothing released.
LEMMA InitInv == Init => IInv
<1> SUFFICES ASSUME Init PROVE IInv
  OBVIOUS
<1>1. calls \in Seq(Slots) /\ Len(calls) = 0
  BY DEF Init
<1>2. TypeOK
  <2>1. slots \in [Slots -> Elems \cup {None}] /\ released \in [Elems \cup {None} -> Nat]
    BY DEF Init
  <2>2. unwinding \in BOOLEAN
    BY DEF Init
  <2>3. /\ pc = "loop" /\ error = "none"
        /\ i \in 0 .. N /\ init \in 0 .. N /\ at \in 0 .. N /\ made \in 0 .. N
    BY LenAssumption DEF Init
  <2> QED BY <1>1, <2>1, <2>2, <2>3 DEF TypeOK
<1>3. Counted /\ Placed /\ Errors
  BY LenAssumption DEF Init, Counted, Placed, Errors, Slots
<1>4. Left /\ Called
  BY <1>1, LenAssumption DEF Init, Left, Called, Elems
<1> QED BY <1>2, <1>3, <1>4 DEF IInv

\* A further call of f is recorded in order.
LEMMA CallRecorded ==
    ASSUME IInv, Looping, calls' = Append(calls, i)
    PROVE  /\ calls' \in Seq(Slots)
           /\ Len(calls') = made + 1
           /\ \A k \in 1 .. Len(calls') : calls'[k] = k - 1
<1>1. i \in Slots /\ i = made /\ Len(calls) = made /\ calls \in Seq(Slots)
  BY LenAssumption DEF IInv, TypeOK, Counted, Placed, Called, Looping, Slots
<1>2. calls' \in Seq(Slots) /\ Len(calls') = made + 1
  BY <1>1
<1>3. ASSUME NEW k \in 1 .. Len(calls') PROVE calls'[k] = k - 1
  <2>1. CASE k = made + 1
    BY <1>1, <2>1
  <2>2. CASE k # made + 1
    <3>1. made \in Nat
      BY DEF IInv, TypeOK
    <3>2. k \in 1 .. Len(calls)
      BY <1>1, <1>2, <2>2, <3>1
    <3>3. calls'[k] = calls[k]
      BY <1>1, <3>2
    <3> QED BY <3>2, <3>3 DEF IInv, Called
  <2> QED BY <2>1, <2>2
<1> QED BY <1>2, <1>3

\* f returns an element: it is written and counted.
LEMMA OkInv == IInv /\ FReturnsOk => IInv'
<1> SUFFICES ASSUME IInv, FReturnsOk PROVE IInv'
  OBVIOUS
<1> USE LenAssumption, UninitAssumption DEF Slots, Elems
<1>1. /\ i \in 0 .. N - 1 /\ i = init /\ init = made /\ pc = "loop" /\ pc' = "loop"
      /\ at = 0 /\ at' = 0 /\ init' = i + 1 /\ i' = i + 1 /\ made' = made + 1
      /\ slots' = [slots EXCEPT ![i] = made]
  BY DEF IInv, TypeOK, Counted, Placed, FReturnsOk, Looping
<1>2. TypeOK'
  BY <1>1, CallRecorded DEF IInv, TypeOK, FReturnsOk
<1>3. Counted'
  BY <1>1 DEF IInv, TypeOK, Counted
<1>4. Placed' /\ Left' /\ Errors'
  BY <1>1 DEF IInv, Placed, Left, Errors, FReturnsOk
<1>5. Called'
  BY <1>1, CallRecorded DEF Called, FReturnsOk
<1> QED BY <1>2, <1>3, <1>4, <1>5 DEF IInv

\* f fails or panics: the guard is dropped next.
LEMMA FailInv == IInv /\ (FReturnsErr \/ FPanics) => IInv'
<1> SUFFICES ASSUME IInv, FReturnsErr \/ FPanics PROVE IInv'
  OBVIOUS
<1> USE LenAssumption, UninitAssumption DEF Slots, Elems
<1>1. /\ Looping /\ pc' = "guard" /\ calls' = Append(calls, i)
      /\ UNCHANGED <<i, slots, init, at, made, released>>
  BY DEF FReturnsErr, FPanics
<1>2. TypeOK'
  BY <1>1, CallRecorded DEF IInv, TypeOK, FReturnsErr, FPanics
<1>3. Counted' /\ Placed' /\ Left'
  BY <1>1 DEF IInv, TypeOK, Counted, Placed, Left, Looping
<1>4. Called'
  BY <1>1, CallRecorded DEF Called
<1>5. Errors'
  BY <1>1 DEF IInv, Placed, Errors, Looping, FReturnsErr, FPanics
<1> QED BY <1>2, <1>3, <1>4, <1>5 DEF IInv

\* The guard drops one element, with or without a panic.
LEMMA GuardInv == IInv /\ (GuardDrops \/ GuardDropPanics) => IInv'
<1> SUFFICES ASSUME IInv, GuardDrops \/ GuardDropPanics PROVE IInv'
  OBVIOUS
<1> USE LenAssumption, UninitAssumption DEF Slots, Elems
<1>1. /\ pc = "guard" /\ pc' \in {"guard", "aborted"} /\ at' = at + 1
      /\ at \in 0 .. N - 1 /\ at < init /\ slots[at] = at
      /\ released' = [released EXCEPT ![at] = @ + 1]
      /\ UNCHANGED <<i, slots, init, calls, made, error>>
  BY DEF IInv, TypeOK, Counted, Dropping, GuardDrops, GuardDropPanics
<1>2. TypeOK'
  <2>1. unwinding' \in BOOLEAN
    BY DEF IInv, TypeOK, GuardDrops, GuardDropPanics
  <2>2. released' \in [Elems \cup {None} -> Nat] /\ at' \in 0 .. N
    BY <1>1 DEF IInv, TypeOK
  <2> QED BY <1>1, <2>1, <2>2 DEF IInv, TypeOK
<1>3. Counted' /\ Placed' /\ Called'
  BY <1>1 DEF IInv, TypeOK, Counted, Placed, Called
<1>4. Left'
  BY <1>1 DEF IInv, TypeOK, Left
<1>5. Errors'
  BY <1>1 DEF IInv, Errors, GuardDrops, GuardDropPanics
<1> QED BY <1>2, <1>3, <1>4, <1>5 DEF IInv

\* The guard is done, and try_build returns the error or unwinds.
LEMMA GuardEndsInv == IInv /\ (ReturnErr \/ Unwind) => IInv'
<1> SUFFICES ASSUME IInv, ReturnErr \/ Unwind PROVE IInv'
  OBVIOUS
<1>1. /\ pc = "guard" /\ at = init
      /\ \/ pc' = "err" /\ error' = "returned"
         \/ pc' \in {"panicked", "aborted"} /\ error' \in {"none", "dropped", "leaked"}
      /\ UNCHANGED <<i, slots, init, at, unwinding, calls, made, released>>
  BY DEF ReturnErr, Unwind, GuardDropped
<1> QED BY <1>1 DEF IInv, TypeOK, Counted, Placed, Left, Called, Errors

\* The array is returned, with one element in each slot.
LEMMA ReturnInv == IInv /\ ReturnOk => IInv'
<1> SUFFICES ASSUME IInv, ReturnOk PROVE IInv'
  OBVIOUS
<1> USE LenAssumption, UninitAssumption DEF Slots, Elems
<1>1. /\ pc = "loop" /\ pc' = "ok" /\ i = N /\ init = N /\ at = 0
      /\ \A k \in Slots : slots[k] = k
      /\ UNCHANGED <<i, slots, init, at, unwinding, calls, made, error>>
  BY DEF IInv, TypeOK, Counted, Placed, ReturnOk
<1>2. /\ released' \in [Elems \cup {None} -> Nat] /\ released'[None] = 0
      /\ \A e \in Elems : released'[e] = 1
  <2>1. \A e \in Elems : released[e] = 0
    BY <1>1 DEF IInv, Left
  <2>2. released' = [e \in Elems \cup {None} |->
                       IF \E k \in Slots : slots[k] = e THEN released[e] + 1 ELSE released[e]]
    BY DEF ReturnOk
  <2>3. ~ \E k \in Slots : slots[k] = None
    BY <1>1
  <2> QED BY <1>1, <2>1, <2>2, <2>3 DEF IInv, TypeOK, Left
<1> QED BY <1>1, <1>2 DEF IInv, TypeOK, Counted, Placed, Left, Called, Errors

LEMMA StepInv == IInv /\ [Next]_vars => IInv'
<1>1. IInv /\ UNCHANGED vars => IInv'
  BY DEF vars, IInv, TypeOK, Counted, Placed, Left, Called, Errors
<1> QED BY <1>1, OkInv, FailInv, GuardInv, GuardEndsInv, ReturnInv DEF Next

\* For an array of any length, the guard owns exactly what was written and not
\* dropped, at every point at which f or a destructor may panic.
THEOREM Invariance == Spec => []IInv
  BY InitInv, StepInv, PTL DEF Spec

\* No element is dropped or given to the caller twice, and no uninitialized
\* storage is dropped or returned.
THEOREM EachElementReleasedOnce == Spec => []ReleasedOnce
<1>1. IInv => ReleasedOnce
  BY DEF IInv, Left, ReleasedOnce
<1> QED BY <1>1, Invariance, PTL

\* The caller gets every element in order, or all that f made were dropped.
THEOREM AllElementsOrNone == Spec => []AllOrNothing
<1>1. IInv => AllOrNothing
  BY LenAssumption
  DEF IInv, TypeOK, Counted, Placed, Left, Errors, AllOrNothing, Slots, Elems
<1> QED BY <1>1, Invariance, PTL

\* f is called for each index in order, and never after it failed.
THEOREM FCalledInOrder == Spec => []CallsInOrder
<1>1. IInv => CallsInOrder
  <2> SUFFICES ASSUME IInv PROVE CallsInOrder
    OBVIOUS
  <2>1. calls \in Seq(Slots) /\ \A k \in 1 .. Len(calls) : calls[k] = k - 1
    BY DEF IInv, TypeOK, Called
  <2>2. calls = [k \in 1 .. Len(calls) |-> k - 1]
    BY <2>1
  <2> QED BY <2>2 DEF IInv, TypeOK, Counted, Placed, Called, CallsInOrder
<1> QED BY <1>1, Invariance, PTL

=============================================================================
