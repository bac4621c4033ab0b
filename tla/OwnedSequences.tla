-------------------------- MODULE OwnedSequences --------------------------
(***************************************************************************)
(* What the conversions between owned arrays promise: the client holds     *)
(* sequences of elements, which it joins, cuts in two, shortens and drops. *)
(* Sizes and storage are of no account, and a destructor that panics only  *)
(* means that the sequence it belongs to is gone.                          *)
(***************************************************************************)
EXTENDS Integers, Sequences

CONSTANTS
    Handles,    \* the names that the client has for sequences
    Lengths,    \* the lengths of the sequence that it may start with
    None        \* no sequence

VARIABLE pool   \* pool[h]: the sequence that the client calls h, or None

Init == \E n \in Lengths, h \in Handles :
            pool = [g \in Handles |-> IF g = h THEN [k \in 1 .. n |-> k] ELSE None]

First(s, n) == SubSeq(s, 1, n)
Rest(s, n) == SubSeq(s, n + 1, Len(s))

Join(h, g) ==
    /\ h # g /\ pool[h] # None /\ pool[g] # None
    /\ pool' = [pool EXCEPT ![h] = pool[h] \o pool[g], ![g] = None]

Cut(h, g, n) ==
    /\ pool[h] # None /\ pool[g] = None
    /\ pool' = [pool EXCEPT ![h] = First(pool[h], n), ![g] = Rest(pool[h], n)]

Shorten(h, n) ==
    /\ pool[h] # None
    /\ pool' = [pool EXCEPT ![h] = First(pool[h], n)]

Drop(h) ==
    /\ pool[h] # None
    /\ pool' = [pool EXCEPT ![h] = None]

Next ==
    \E h \in Handles :
        \/ Drop(h)
        \/ pool[h] # None /\ \E n \in 0 .. Len(pool[h]) : Shorten(h, n)
        \/ \E g \in Handles :
              \/ Join(h, g)
              \/ pool[h] # None /\ \E n \in 0 .. Len(pool[h]) : Cut(h, g, n)

Spec == Init /\ [][Next]_pool

=============================================================================
