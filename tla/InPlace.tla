------------------------------- MODULE InPlace -------------------------------
(***************************************************************************)
(* Updates of an array in place from a borrowed array of the same size:    *)
(* zip_mut_with and clone_from of src/array.rs.  Both hand each element,   *)
(* with its counterpart, to client code: f, and T::clone_from, which       *)
(* assigns a clone by default.  That code may change the element, or       *)
(* replace it, whose destructor then runs; and it may panic at any point.  *)
(* The client catches the panic, tries again, and drops the array at last. *)
(***************************************************************************)
EXTENDS Integers

CONSTANTS
    N,          \* S::USIZE
    MaxCalls    \* bound: how often the client updates the array

ASSUME LenAssumption == N \in Nat
ASSUME MaxCallsAssumption == MaxCalls \in Nat

Slots == 0 .. N - 1

VARIABLES
    pc,         \* "idle", "update", "drop", or how the array ended
    calls,      \* the number of updates started
    i,          \* the index the loop is at
    slots,      \* slots[k]: the element in slot k
    from,       \* from[k]: the call, and the index of the counterpart, that slot k
                \* was last updated with
    made,       \* how many elements were made; they are numbered in that order
    released,   \* how often each was dropped
    completed,  \* the last update that returned
    panicking   \* the array is dropped while a panic unwinds

vars == <<pc, calls, i, slots, from, made, released, completed, panicking>>

Elems == 0 .. made - 1

Init ==
    /\ pc = "idle" /\ calls = 0 /\ i = 0 /\ completed = 0
    /\ slots = [k \in Slots |-> k] /\ made = N
    /\ from = [k \in Slots |-> <<0, k>>]
    /\ released = [e \in Elems |-> 0]
    /\ panicking = FALSE

Call ==
    /\ pc = "idle" /\ calls < MaxCalls
    /\ pc' = "update" /\ calls' = calls + 1 /\ i' = 0
    /\ UNCHANGED <<slots, from, made, released, completed, panicking>>

\* self.iter_mut().zip(other.iter()) yields the pair of index i.
AtElement == pc = "update" /\ i < N

Updated == from' = [from EXCEPT ![i] = <<calls, i>>]

\* A bug: ptr::write, without dropping the old element.
Overwrite ==
    /\ slots' = [slots EXCEPT ![i] = made]
    /\ made' = made + 1
    /\ released' = [e \in 0 .. made |-> IF e = made THEN 0 ELSE released[e]]

\* The element is replaced, and the old one is dropped.  The new one is in
\* place also if that panics.
Replace ==
    /\ slots' = [slots EXCEPT ![i] = made]
    /\ made' = made + 1
    /\ released' = [e \in 0 .. made |->
                      IF e = made THEN 0
                      ELSE IF e = slots[i] THEN released[e] + 1 ELSE released[e]]

Keep == UNCHANGED <<slots, made, released>>

\* The client code returns.
Updates ==
    /\ AtElement
    /\ Updated /\ (Keep \/ Replace)
    /\ i' = i + 1
    /\ UNCHANGED <<pc, calls, completed, panicking>>

\* It panics, before or after it has updated the element.  The rest of the
\* array is not touched.
Panics ==
    /\ AtElement
    /\ (Keep /\ UNCHANGED from) \/ (Updated /\ (Keep \/ Replace))
    /\ pc' = "idle"
    /\ UNCHANGED <<calls, i, completed, panicking>>

\* A bug: the end of the loop is seen one element early.
ReturnsEarly ==
    /\ pc = "update" /\ i >= N - 1
    /\ pc' = "idle" /\ completed' = calls
    /\ UNCHANGED <<calls, i, slots, from, made, released, panicking>>

Returns ==
    /\ pc = "update" /\ i = N
    /\ pc' = "idle" /\ completed' = calls
    /\ UNCHANGED <<calls, i, slots, from, made, released, panicking>>

\* The array goes out of scope, possibly while the client unwinds.
Drop ==
    /\ pc = "idle"
    /\ pc' = "drop" /\ i' = 0
    /\ panicking' \in BOOLEAN
    /\ UNCHANGED <<calls, slots, from, made, released, completed>>

\* A destructor returns, or panics: then the others still run, and a second
\* panic aborts.
DropElement ==
    /\ pc = "drop" /\ i < N
    /\ released' = [released EXCEPT ![slots[i]] = @ + 1]
    /\ i' = i + 1
    /\ \/ UNCHANGED <<pc, panicking>>
       \/ panicking' = TRUE /\ pc' = IF panicking THEN "aborted" ELSE pc
    /\ UNCHANGED <<calls, slots, from, made, completed>>

Dropped ==
    /\ pc = "drop" /\ i = N
    /\ pc' = "dropped"
    /\ UNCHANGED <<calls, i, slots, from, made, released, completed, panicking>>

Next == Call \/ Updates \/ Panics \/ Returns \/ Drop \/ DropElement \/ Dropped

Spec == Init /\ [][Next]_vars

-----------------------------------------------------------------------------

Owned(e) == \E k \in Slots : slots[k] = e /\ ~(pc = "dropped" \/ (pc = "drop" /\ k < i))

\* However many updates panic and wherever, the array owns an element in each
\* slot, none twice, and every other element was dropped, once.
OwnsItsElements ==
    /\ \A j, k \in Slots : j # k => slots[j] # slots[k]
    /\ pc # "aborted" =>
          \A e \in Elems : released[e] = IF Owned(e) THEN 0 ELSE 1

\* "This cannot silently skip elements": an update that returns has updated
\* every element, and one that panics the elements of a prefix; after any
\* number of them, later slots are never from later calls, and each is from
\* its counterpart.
UpdatesPrefix ==
    /\ \A k \in Slots : from[k][2] = k /\ from[k][1] >= completed
    /\ \A j, k \in Slots : j < k => from[j][1] >= from[k][1]

=============================================================================
