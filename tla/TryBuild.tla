------------------------------ MODULE TryBuild ------------------------------
(***************************************************************************)
(* The construction of an array in place, try_build of src/size.rs, on     *)
(* which from_fn, try_from_fn, clone, map_ref and zip_with rest: the       *)
(* client's f is called for each index and its result is written into      *)
(* uninitialized storage; a Guard owns the elements written so far and     *)
(* drops them when f fails or panics.                                      *)
(*                                                                         *)
(* f and the destructors of elements are client code: each call returns,   *)
(* fails or panics, in a step of its own.                                  *)
(***************************************************************************)
EXTENDS Integers, Sequences

CONSTANTS
    N,      \* A::LEN, the length of the array
    None    \* uninitialized storage

ASSUME LenAssumption == N \in Nat

Slots == 0 .. N - 1
Elems == 0 .. N - 1     \* the elements, numbered in the order f makes them

ASSUME UninitAssumption == None \notin Elems

VARIABLES
    pc,         \* where try_build is
    i,          \* the index of the loop
    slots,      \* slots[k]: the element whose bits are in slot k, or None
    init,       \* guard.init
    at,         \* how many elements the drop of the guard has dropped
    unwinding,  \* try_build is unwinding from a panic
    calls,      \* the indices f was called with
    made,       \* the number of elements f has returned
    released,   \* how often each element was moved to the client or dropped
    error       \* what became of the error of f

vars == <<pc, i, slots, init, at, unwinding, calls, made, released, error>>

Init ==
    /\ pc = "loop" /\ i = 0 /\ init = 0 /\ at = 0
    /\ slots = [k \in Slots |-> None]
    /\ unwinding = FALSE
    /\ calls = <<>> /\ made = 0
    /\ released = [e \in Elems \cup {None} |-> 0]
    /\ error = "none"

Looping == pc = "loop" /\ i < N

\* f(i) returns Ok(x): x is written at i, and only then does the guard own it.
FReturnsOk ==
    /\ Looping
    /\ calls' = Append(calls, i)
    /\ made' = made + 1
    /\ slots' = [slots EXCEPT ![i] = made]
    /\ init' = i + 1
    /\ i' = i + 1
    /\ UNCHANGED <<pc, at, unwinding, released, error>>

\* A bug: an error of f does not leave the loop.
FReturnsErrGoesOn ==
    /\ Looping
    /\ calls' = Append(calls, i)
    /\ error' = "held"
    /\ i' = i + 1
    /\ UNCHANGED <<pc, slots, init, at, unwinding, made, released>>

\* f(i) returns Err(e): e becomes the return value and the guard is dropped.
FReturnsErr ==
    /\ Looping
    /\ calls' = Append(calls, i)
    /\ error' = "held"
    /\ pc' = "guard"
    /\ UNCHANGED <<i, slots, init, at, unwinding, made, released>>

FPanics ==
    /\ Looping
    /\ calls' = Append(calls, i)
    /\ unwinding' = TRUE
    /\ pc' = "guard"
    /\ UNCHANGED <<i, slots, init, at, made, released, error>>

-----------------------------------------------------------------------------
\* Guard::drop: drop_in_place on the first `init` elements.

\* A bug: the guard drops elements[..=init].
DroppingInclusive == pc = "guard" /\ at <= init /\ at < N

Dropping == pc = "guard" /\ at < init

GuardDrops ==
    /\ Dropping
    /\ released' = [released EXCEPT ![slots[at]] = @ + 1]
    /\ at' = at + 1
    /\ UNCHANGED <<pc, i, slots, init, unwinding, calls, made, error>>

\* A destructor panics: the others still run, and a second panic aborts.
GuardDropPanics ==
    /\ Dropping
    /\ released' = [released EXCEPT ![slots[at]] = @ + 1]
    /\ at' = at + 1
    /\ unwinding' = TRUE
    /\ pc' = IF unwinding THEN "aborted" ELSE pc
    /\ UNCHANGED <<i, slots, init, calls, made, error>>

\* A bug: the guard may be forgotten on the error path too.
GuardForgotten == pc = "guard"

GuardDropped == pc = "guard" /\ at = init

ReturnErr ==
    /\ GuardDropped /\ ~unwinding
    /\ pc' = "err"
    /\ error' = "returned"
    /\ UNCHANGED <<i, slots, init, at, unwinding, calls, made, released>>

\* The panic goes on to the caller.  If it started in the guard, the error
\* was already the return value: the compiler drops it (which may abort) or
\* leaks it.
Unwind ==
    /\ GuardDropped /\ unwinding
    /\ \/ error = "none" /\ pc' = "panicked" /\ UNCHANGED error
       \/ error = "held" /\ pc' \in {"panicked", "aborted"} /\ error' = "dropped"
       \/ error = "held" /\ pc' = "panicked" /\ error' = "leaked"
    /\ UNCHANGED <<i, slots, init, at, unwinding, calls, made, released>>

-----------------------------------------------------------------------------

\* mem::forget(guard), and the array is assumed initialized and returned: the
\* caller now owns whatever is in each slot.
ReturnOk ==
    /\ pc = "loop" /\ i = N
    /\ released' = [e \in Elems \cup {None} |->
                      IF \E k \in Slots : slots[k] = e THEN released[e] + 1 ELSE released[e]]
    /\ pc' = "ok"
    /\ UNCHANGED <<i, slots, init, at, unwinding, calls, made, error>>

Ended == pc \in {"ok", "err", "panicked", "aborted"}

Next ==
    \/ FReturnsOk \/ FReturnsErr \/ FPanics
    \/ GuardDrops \/ GuardDropPanics \/ ReturnErr \/ Unwind
    \/ ReturnOk

Spec == Init /\ [][Next]_vars

-----------------------------------------------------------------------------

TypeOK ==
    /\ pc \in {"loop", "guard", "ok", "err", "panicked", "aborted"}
    /\ i \in 0 .. N /\ init \in 0 .. N /\ at \in 0 .. N /\ made \in 0 .. N
    /\ slots \in [Slots -> Elems \cup {None}]
    /\ unwinding \in BOOLEAN
    /\ calls \in Seq(Slots)
    /\ released \in [Elems \cup {None} -> Nat]
    /\ error \in {"none", "held", "returned", "dropped", "leaked"}

\* No element is dropped or given to the caller twice, and uninitialized
\* storage is neither dropped nor returned, wherever f or a destructor panics.
ReleasedOnce ==
    /\ released[None] = 0
    /\ \A e \in Elems : released[e] <= 1

\* "It stops at the first error of f, drops the elements built so far and
\* returns the error": in the end the caller has all the elements, in the order
\* of their indices, or every element that f made has been dropped.
AllOrNothing ==
    /\ pc = "ok" => \A k \in Slots : slots[k] = k /\ released[k] = 1
    /\ pc \in {"err", "panicked"} => \A e \in Elems : e < made <=> released[e] = 1
    /\ pc = "err" <=> error = "returned"

\* "calling f exactly once for each index, in order", and not once more after
\* it has failed.
CallsInOrder ==
    /\ calls = [k \in 1 .. Len(calls) |-> k - 1]
    /\ pc = "ok" => Len(calls) = N
    /\ pc # "loop" /\ pc # "ok" => Len(calls) = made + 1

=============================================================================
