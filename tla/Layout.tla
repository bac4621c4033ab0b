------------------------------- MODULE Layout -------------------------------
(***************************************************************************)
(* The storage of arrays, src/size.rs: the plain array [T; N] for Len<N>,  *)
(* Concat for Sum and Repeat for Prod.  The compiler lays these types out  *)
(* one by one; the unsafe code of the crate relies on each of them being   *)
(* laid out as [T; LEN], for every T.                                      *)
(***************************************************************************)
EXTENDS Sizes, Sequences, FiniteSets

CONSTANTS
    Values,     \* the types T of values, by size and alignment
    Lengths,    \* the N of plain arrays
    MaxFormed   \* bound: how many storage types a program mentions

\* The size of a type is a multiple of its alignment.
ASSUME ValuesAssumption ==
    \A t \in Values : /\ t.bytes \in Nat /\ t.align \in Nat \ {0}
                      /\ \E c \in 0 .. t.bytes : t.bytes = c * t.align

ASSUME LengthsAssumption == Lengths \subseteq usize
ASSUME MaxFormedAssumption == MaxFormed \in Nat
ASSUME OverflowIsRejected == ~Wrapping

VARIABLE formed     \* the storage types that the compiler has laid out

\* A: ArrayType<of>, for the length `size`.  Its items are at the offsets `at`.
Storage(of, size, len, bytes, align, at) ==
    [of |-> of, size |-> size, LEN |-> len, bytes |-> bytes, align |-> align, at |-> at]

LayoutInit == formed = {}

\* A type larger than isize::MAX bytes does not compile.
Form(a) ==
    /\ 2 * a.bytes < Modulus
    /\ Cardinality(formed \cup {a}) <= MaxFormed
    /\ formed' = formed \cup {a}

\* Where n items of that many bytes are, without gaps.
Offsets(n, bytes) == [k \in 1 .. n |-> (k - 1) * bytes]

\* [t; n]
PlainArray(t, n) ==
    Storage(t, LenN(n), n, n * t.bytes, t.align, Offsets(n, t.bytes))

Shift(at, by) == [k \in DOMAIN at |-> by + at[k]]

RoundUp(n, align) == IF n % align = 0 THEN n ELSE n + align - (n % align)

\* A bug: LEN is A::LEN + A::LEN.
ConcatFirstTwice(a, b) ==
    LET second == RoundUp(a.bytes, b.align)
        align == IF a.align < b.align THEN b.align ELSE a.align
    IN  Storage(a.of, Sum(a.size, b.size), Evaluate(a.LEN, a.LEN, a.LEN + a.LEN),
                RoundUp(second + b.bytes, align), align,
                a.at \o Shift(b.at, second))

\* Concat<A, B>, repr(C): each field is placed at the next multiple of its
\* alignment, and the whole is padded to its own.
Concat(a, b) ==
    LET second == RoundUp(a.bytes, b.align)
        align == IF a.align < b.align THEN b.align ELSE a.align
    IN  Storage(a.of, Sum(a.size, b.size), Evaluate(a.LEN, b.LEN, a.LEN + b.LEN),
                RoundUp(second + b.bytes, align), align,
                a.at \o Shift(b.at, second))

\* A bug: flat items are taken across the items of O.
NestedAcross(outer, inner) ==
    [k \in 1 .. Len(outer) * Len(inner) |->
        outer[((k - 1) % Len(outer)) + 1] + inner[((k - 1) \div Len(outer)) + 1]]

\* Items of items: k is an inner item of one of the outer items.
Nested(outer, inner) ==
    [k \in 1 .. Len(outer) * Len(inner) |->
        outer[((k - 1) \div Len(inner)) + 1] + inner[((k - 1) % Len(inner)) + 1]]

\* A bug: the bytes of a Repeat are checked for overflow, and its LEN is not.
RepeatUnchecked(i, o) ==
    Storage(i.of, Prod(o.size, i.size), (i.LEN * o.LEN) % Modulus, o.bytes, o.align,
            Nested(o.at, i.at))

\* Repeat<I, O>, repr(transparent) over O: ArrayType<I>.
Repeat(i, o) ==
    Storage(i.of, Prod(o.size, i.size), Evaluate(i.LEN, o.LEN, i.LEN * o.LEN),
            o.bytes, o.align,
            Nested(o.at, i.at))

LayoutNext ==
    \/ \E t \in Values \cup formed, n \in Lengths : Form(PlainArray(t, n))
    \/ \E a, b \in formed : a.of = b.of /\ Form(Concat(a, b))
    \/ \E i, o \in formed : o.of = i /\ Form(Repeat(i, o))

LayoutSpec == LayoutInit /\ [][LayoutNext]_formed

-----------------------------------------------------------------------------

\* The invariant of ArrayType, which as_slice and all other unsafe code rest
\* on: the storage is laid out as [T; n] for the n that its size stands for.
\* There is no padding before, between or after items, and item k has index k.
IsLaidOut(a) ==
    /\ a.align = a.of.align
    /\ a.bytes = a.size.math * a.of.bytes
    /\ a.at = Offsets(a.size.math, a.of.bytes)

LaidOut == \A a \in formed : IsLaidOut(a)

\* LAYOUT_OK of src/array.rs: the assertions hold wherever they compile, "the
\* traits are sealed, so this only fails if this crate has a bug".
LayoutOK ==
    \A a \in formed : Compiles(a.size) =>
        /\ a.LEN = a.size.USIZE
        /\ a.align = a.of.align
        /\ a.bytes = a.of.bytes * a.size.USIZE

\* A length overflows only if there are arrays of items without bytes, as in
\* Sum<Len<usize::MAX>, Len<1>> of (), from which an overflow can spread to empty
\* arrays of other items.  For all others, the compiler would have rejected the
\* type itself as too large.  No LEN is ever computed wrongly.
OnlyEmptyOverflows ==
    \A a \in formed :
        /\ a.LEN = Overflow => \E b \in formed : b.LEN = Overflow /\ b.of.bytes = 0
        /\ a.LEN # Overflow => a.LEN = Len(a.at)

=============================================================================
