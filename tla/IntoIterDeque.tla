--------------------------- MODULE IntoIterDeque ---------------------------
(***************************************************************************)
(* IntoIter implements OwnedDeque.  The values an iterator still has are   *)
(* those of its alive slots, and of the slots that a call in progress has  *)
(* taken out of `alive` on behalf of an answer not given yet.              *)
(***************************************************************************)
EXTENDS IntoIter, Sequences

\* The values in slots lo .. hi - 1 of i.
Contents(i, lo, hi) == [k \in 1 .. hi - lo |-> val[data[i][lo + k - 1]]]

\* An unfinished clone is not an iterator yet, also while it is being dropped.
LifeOf(i) ==
    IF pc[i] \in {"absent", "cloning"} \/ (pc[i] = "dropping" /\ frame[i].op = "clone")
    THEN "absent"
    ELSE IF pc[i] = "gone" THEN "gone" ELSE "live"

RestOf(i) ==
    IF LifeOf(i) # "live" THEN <<>>
    ELSE IF pc[i] = "idle" THEN Contents(i, alive[i].start, alive[i].end)
    ELSE CASE frame[i].op = "nth" -> Contents(i, frame[i].lo, alive[i].end)
           [] frame[i].op = "nth_back" -> Contents(i, alive[i].start, frame[i].hi)
           [] frame[i].op = "last" /\ frame[i].held # None ->
                Append(Contents(i, frame[i].lo, frame[i].hi), val[frame[i].held])
           [] OTHER -> Contents(i, frame[i].lo, frame[i].hi)

Deque == INSTANCE OwnedDeque WITH
            life <- [i \in Iters |-> LifeOf(i)],
            rest <- [i \in Iters |-> RestOf(i)]

\* IntoIter is a deque of the array's elements: values come out in order from
\* either end, nth(n) and nth_back(n) skip exactly n values at their end, or all
\* that are left, and lose exactly those when one of them panics, a clone has
\* the values its source had, and an exhausted iterator stays so.
ImplementsDeque == Deque!Spec

=============================================================================
