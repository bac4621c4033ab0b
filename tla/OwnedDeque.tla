----------------------------- MODULE OwnedDeque -----------------------------
(***************************************************************************)
(* What a by-value, double-ended, fused and clonable iterator promises to  *)
(* its client (Iterator, DoubleEndedIterator, ExactSizeIterator,           *)
(* FusedIterator and Clone, as IntoIter of src/iter.rs implements them):   *)
(* a sequence of values that is consumed from both ends, in atomic steps.  *)
(* A call in which an element's destructor or clone panics has the effect  *)
(* described by its ...Panics action, and no other.                        *)
(* An answer comes with its method and its argument (0 when it has none),  *)
(* so that a call is held to what that method promises for that argument.  *)
(***************************************************************************)
EXTENDS Integers, Sequences

CONSTANTS Iters, Roots, N, MaxSkip

VARIABLES
    life,   \* life[i]: "absent", "live" or "gone"
    rest,   \* rest[i]: the values that i has not yielded yet, in order
    out     \* the last answer, if any: <<iterator, method, argument, result>>

vars == <<life, rest, out>>

Init ==
    /\ life = [i \in Iters |-> IF i \in Roots THEN "live" ELSE "absent"]
    /\ rest = [i \in Iters |-> IF i \in Roots THEN [k \in 1 .. N |-> k - 1] ELSE <<>>]
    /\ out = <<>>

WithoutFirst(s, n) == IF n < Len(s) THEN SubSeq(s, n + 1, Len(s)) ELSE <<>>
WithoutLast(s, n) == IF n < Len(s) THEN SubSeq(s, 1, Len(s) - n) ELSE <<>>

\* The call on i leaves the sequence s and answers r.
Answer(i, s, r) ==
    /\ life[i] = "live"
    /\ rest' = [rest EXCEPT ![i] = s]
    /\ out' = r
    /\ UNCHANGED life

\* The call consumes i and answers r.
Consume(i, r) ==
    /\ life[i] = "live"
    /\ life' = [life EXCEPT ![i] = "gone"]
    /\ rest' = [rest EXCEPT ![i] = <<>>]
    /\ out' = r

\* op(n) drops the first n values and yields the next one.
Front(i, op, n) ==
    LET s == WithoutFirst(rest[i], n) IN
    IF s = <<>> THEN Answer(i, <<>>, <<i, op, n, <<"none">>>>)
                ELSE Answer(i, Tail(s), <<i, op, n, <<"some", Head(s)>>>>)

Back(i, op, n) ==
    LET s == WithoutLast(rest[i], n) IN
    IF s = <<>> THEN Answer(i, <<>>, <<i, op, n, <<"none">>>>)
                ELSE Answer(i, WithoutLast(s, 1), <<i, op, n, <<"some", s[Len(s)]>>>>)

NextItem(i) == Front(i, "next", 0)
NextBack(i) == Back(i, "next_back", 0)

Nth(i, n) == Front(i, "nth", n)
NthBack(i, n) == Back(i, "nth_back", n)

\* A destructor of a skipped element panics: exactly the values that the call
\* was to skip are gone, none is yielded, and i stays usable.
NthPanics(i, n) ==
    /\ n > 0 /\ rest[i] # <<>>
    /\ Answer(i, WithoutFirst(rest[i], n), <<i, "nth", n, <<"panic">>>>)

NthBackPanics(i, n) ==
    /\ n > 0 /\ rest[i] # <<>>
    /\ Answer(i, WithoutLast(rest[i], n), <<i, "nth_back", n, <<"panic">>>>)

Count(i) == Consume(i, <<i, "count", 0, <<"count", Len(rest[i])>>>>)

Last(i) == Consume(i, <<i, "last", 0, IF rest[i] = <<>> THEN <<"none">>
                                      ELSE <<"some", rest[i][Len(rest[i])]>>>>)

Drop(i) == Consume(i, <<i, "drop", 0, <<"unit">>>>)

\* A destructor panics in count, last or drop, or the drop runs while unwinding.
ConsumePanics(i) == \E op \in {"count", "last", "drop"} : Consume(i, <<i, op, 0, <<"panic">>>>)

Swap(i) ==
    \E k, l \in DOMAIN rest[i] :
        Answer(i, [rest[i] EXCEPT ![k] = rest[i][l], ![l] = rest[i][k]], out)

Clone(i, d) ==
    /\ life[i] = "live" /\ life[d] = "absent"
    /\ life' = [life EXCEPT ![d] = "live"]
    /\ rest' = [rest EXCEPT ![d] = rest[i]]
    /\ UNCHANGED out

ClonePanics(i, d) ==
    /\ life[i] # "absent" /\ life[d] = "absent"
    /\ life' = [life EXCEPT ![d] = "gone"]
    /\ out' = <<d, "clone", 0, <<"panic">>>>
    /\ UNCHANGED rest

\* The client has used the last answer and makes another call.
Forget == out' = <<>> /\ UNCHANGED <<life, rest>>

Next ==
    \/ Forget
    \/ \E i \in Iters :
        \/ NextItem(i) \/ NextBack(i)
        \/ \E n \in 0 .. MaxSkip : \/ Nth(i, n) \/ NthBack(i, n)
                                  \/ NthPanics(i, n) \/ NthBackPanics(i, n)
        \/ Count(i) \/ Last(i) \/ Drop(i) \/ ConsumePanics(i) \/ Swap(i)
        \/ \E d \in Iters : Clone(i, d) \/ ClonePanics(i, d)

Spec == Init /\ [][Next]_vars

=============================================================================
