------------------------------- MODULE Views -------------------------------
(***************************************************************************)
(* The mutable views of src/array.rs: references to an array or to a part  *)
(* of it, obtained from each other by splitting, casting and chunking.     *)
(* The client starts with a reference to an array of `whole` elements and  *)
(* calls these methods in any order on what it has got so far.             *)
(*                                                                         *)
(* A view covers the elements lo .. hi - 1 of that array.  For a slice     *)
(* these are its pointer and length; for a reference to arrays, the end    *)
(* follows from its type, whatever memory there really is.                 *)
(*                                                                         *)
(* The proofs that the methods take are sound if `trusted` (LenProofs      *)
(* shows that they are).  Otherwise any may be wrong: "a length that is    *)
(* wrong, e.g. due to a bug in a proof, results in a panic rather than     *)
(* undefined behavior".                                                    *)
(***************************************************************************)
EXTENDS Sizes, FiniteSets

CONSTANTS
    Universe,   \* the sizes that the client mentions, all of which compile
    MaxViews,   \* bound on the views it has when it splits one,
    MaxDoubted, \* and on those of a client whose proofs may be wrong
    None        \* no size; no view

ASSUME MaxViewsAssumption == MaxViews \in Nat /\ MaxDoubted \in Nat
ASSUME UniverseAssumption ==
    ~Wrapping /\ \A s \in Universe :
        /\ IsSize(s) /\ s.USIZE \in usize
        /\ s.kind \in {"Len", "Sum", "Prod"}
        /\ s.kind = "Sum" => \E a, b \in Universe : s = Sum(a, b)
        /\ s.kind = "Prod" => \E a, b \in Universe : s = Prod(a, b)
ASSUME NoViewAssumption == None \notin Universe

VARIABLES
    trusted,    \* every AtMost and SameLen of the client is true; it never changes
    whole,      \* the number of elements of the array
    views,      \* the views that the client can use
    hidden,     \* the parts it gave up with prefix_mut and suffix_mut
    panicked    \* a method panicked

vars == <<trusted, whole, views, hidden, panicked>>

\* &mut [T], &mut [Array<T, s>] with n arrays, and &mut Array<T, s>.
Slice(lo, hi) == [kind |-> "slice", size |-> None, lo |-> lo, hi |-> hi]
Arrays(s, n, lo) == [kind |-> "arrays", size |-> s, lo |-> lo, hi |-> lo + n * s.USIZE]
OneArray(s, lo) == [kind |-> "array", size |-> s, lo |-> lo, hi |-> lo + s.USIZE]

Covers(v) == v.lo .. v.hi - 1

Init ==
    /\ trusted \in BOOLEAN
    /\ \E s \in Universe : whole = s.USIZE /\ views = {OneArray(s, 0)}
    /\ hidden = {}
    /\ panicked = FALSE

-----------------------------------------------------------------------------

\* The client has v, of this kind.
Has(v, kind) == ~panicked /\ v \in views /\ v.kind = kind

Splits == Cardinality(views) < IF trusted THEN MaxViews ELSE MaxDoubted

\* v is mutably borrowed by ws, of which the client keeps some.
Lends(v, ws, kept) ==
    /\ views' = (views \ {v}) \cup kept
    /\ hidden' = hidden \cup (ws \ kept)
    /\ UNCHANGED <<trusted, whole, panicked>>

Panics == panicked' = TRUE /\ UNCHANGED <<trusted, whole, views, hidden>>

\* A proof exists, or a wrong one does.
AtMost(p, s) == trusted => p.USIZE <= s.USIZE
SameLen(s, t) == trusted => s.USIZE = t.USIZE

AsMutSlice(v) == Slice(v.lo, v.lo + v.size.USIZE)

\* A bug: the length is not compared.
FitsAlways(v, s, n) == n * s.USIZE < Modulus

\* slice_as_arrays_mut answers Some: n.checked_mul(S::USIZE) is the length.
Fits(v, s, n) == n * s.USIZE < Modulus /\ n * s.USIZE = v.hi - v.lo

\* split_at_mut(mid) of core panics if mid is beyond the slice.
CanSplitAt(v, mid) == mid <= v.hi - v.lo
Before(v, mid) == Slice(v.lo, v.lo + mid)
After(v, mid) == Slice(v.lo + mid, v.hi)

-----------------------------------------------------------------------------

\* split_prefix_mut, and prefix_mut, which keeps only the array.
SplitPrefix(v, p) ==
    /\ Has(v, "array") /\ Splits
    /\ AtMost(p, v.size)
    /\ LET slice == AsMutSlice(v)
           prefix == OneArray(p, v.lo)
           rest == After(slice, p.USIZE)
       IN IF CanSplitAt(slice, p.USIZE) /\ Fits(Before(slice, p.USIZE), p, 1)
          THEN Lends(v, {prefix, rest}, {prefix, rest}) \/ Lends(v, {prefix, rest}, {prefix})
          ELSE Panics

\* The suffix begins after the first `mid` elements.
SplitSuffixAt(v, p, mid) ==
    LET slice == AsMutSlice(v)
        rest == Before(slice, mid)
        suffix == OneArray(p, v.lo + mid)
    IN IF CanSplitAt(slice, mid) /\ Fits(After(slice, mid), p, 1)
       THEN Lends(v, {rest, suffix}, {rest, suffix}) \/ Lends(v, {rest, suffix}, {suffix})
       ELSE Panics

\* A bug: the slice is split where the prefix would end.
SplitSuffixAtPrefix(v, p) ==
    /\ Has(v, "array") /\ Splits
    /\ AtMost(p, v.size)
    /\ SplitSuffixAt(v, p, p.USIZE)

\* split_suffix_mut and suffix_mut.  S::USIZE - P::USIZE, with a wrong proof,
\* panics in a build with overflow checks and wraps around in one without.
SplitSuffix(v, p) ==
    /\ Has(v, "array") /\ Splits
    /\ AtMost(p, v.size)
    /\ \/ SplitSuffixAt(v, p, (v.size.USIZE - p.USIZE) % Modulus)
       \/ v.size.USIZE < p.USIZE /\ Panics

\* A bug: the second part is lent from where the first begins.
SplitMutSamePlace(v) ==
    /\ Has(v, "array") /\ Splits
    /\ v.size.kind = "Sum"
    /\ LET a == OneArray(v.size.parts[1], v.lo)
           b == OneArray(v.size.parts[2], v.lo)
       IN Lends(v, {a, b}, {a, b})

\* split_mut of a Sum: the fields of Concat, each wrapped by wrap_mut.
SplitMut(v) ==
    /\ Has(v, "array") /\ Splits
    /\ v.size.kind = "Sum"
    /\ LET a == OneArray(v.size.parts[1], v.lo)
           b == OneArray(v.size.parts[2], v.lo + v.size.parts[1].USIZE)
       IN IF Fits(AsMutSlice(a), a.size, 1) /\ Fits(AsMutSlice(b), b.size, 1)
          THEN Lends(v, {a, b}, {a, b})
          ELSE Panics

\* as_chunks_mut of a Prod, an array of parts[1].USIZE chunks: the elements must
\* be n chunks, and then the slice of n chunks must be one array.
AsChunksMut(v) ==
    /\ Has(v, "array")
    /\ v.size.kind = "Prod"
    /\ LET count == v.size.parts[1]
           n == count.USIZE
           chunk == v.size.parts[2]
           chunks == Arrays(chunk, n, v.lo)
       IN IF Fits(AsMutSlice(v), chunk, n) /\ Fits(Slice(0, n), count, 1)
          THEN Lends(v, {chunks}, {chunks})
          ELSE Panics

CastMut(v, s) ==
    /\ Has(v, "array")
    /\ SameLen(v.size, s)
    /\ IF Fits(AsMutSlice(v), s, 1)
       THEN Lends(v, {OneArray(s, v.lo)}, {OneArray(s, v.lo)})
       ELSE Panics

\* The array is used as a slice (DerefMut).
DerefMut(v) ==
    /\ Has(v, "array")
    /\ Lends(v, {AsMutSlice(v)}, {AsMutSlice(v)})

-----------------------------------------------------------------------------

\* slice_as_chunks_mut does not compile for a size of length 0.
SliceAsChunks(v, s) ==
    /\ Has(v, "slice") /\ Splits
    /\ s.USIZE # 0
    /\ LET n == (v.hi - v.lo) \div s.USIZE
           mid == n * s.USIZE
           chunks == Arrays(s, n, v.lo)
           rest == After(v, mid)
       IN IF CanSplitAt(v, mid) /\ Fits(Before(v, mid), s, n)
          THEN Lends(v, {chunks, rest}, {chunks, rest})
          ELSE Panics

\* TryFrom<&mut [T]>; when it answers TryFromSliceError, the client has v again.
TryFromSlice(v, s) ==
    /\ Has(v, "slice")
    /\ Fits(v, s, 1)
    /\ Lends(v, {OneArray(s, v.lo)}, {OneArray(s, v.lo)})

\* Methods of core on slices: split_at_mut, and split_first_mut on arrays.
SplitSlice(v, mid) ==
    /\ Has(v, "slice") /\ Splits
    /\ CanSplitAt(v, mid)
    /\ Lends(v, {Before(v, mid), After(v, mid)}, {Before(v, mid), After(v, mid)})

SplitFirst(v) ==
    /\ Has(v, "arrays") /\ Splits
    /\ v.lo < v.hi
    /\ LET first == OneArray(v.size, v.lo)
           rest == [v EXCEPT !.lo = @ + v.size.USIZE]
       IN Lends(v, {first, rest}, {first, rest})

Next ==
    \E v \in views :
        \/ SplitMut(v) \/ AsChunksMut(v) \/ DerefMut(v) \/ SplitFirst(v)
        \/ \E s \in Universe : \/ SplitPrefix(v, s) \/ SplitSuffix(v, s) \/ CastMut(v, s)
                               \/ SliceAsChunks(v, s) \/ TryFromSlice(v, s)
        \/ \E mid \in 0 .. whole : SplitSlice(v, mid)

Spec == Init /\ [][Next]_vars

-----------------------------------------------------------------------------

\* A reference has the extent that its type says.
IsView(v) ==
    \/ /\ v.lo \in Nat /\ v.hi \in Nat
       /\ v = Slice(v.lo, v.hi)
    \/ /\ v.lo \in Nat /\ v.size \in Universe
       /\ v = OneArray(v.size, v.lo)
    \/ /\ v.lo \in Nat /\ v.size \in Universe
       /\ \E n \in Nat : v = Arrays(v.size, n, v.lo)

TypeOK ==
    /\ trusted \in BOOLEAN /\ whole \in usize /\ panicked \in BOOLEAN
    /\ \A v \in views \cup hidden : IsView(v)

\* Safe code turns slices into arrays, so no view reaches beyond the array,
\* even if a proof is wrong.
InBounds == \A v \in views \cup hidden : v.lo <= v.hi /\ v.hi <= whole

\* No two mutable views alias, and a split loses no element: each element is
\* in exactly one view, even if a proof is wrong.
LentOnce ==
    /\ \A v, w \in views \cup hidden : v # w => Covers(v) \cap Covers(w) = {}
    /\ \A v \in views \cap hidden : Covers(v) = {}
    /\ \A e \in 0 .. whole - 1 : \E v \in views \cup hidden : e \in Covers(v)

\* The comments "so this doesn't panic" at the unwraps, which rely on the
\* proofs, on the layout of sums and products and on exact divisions.
NeverPanics == trusted => ~panicked

=============================================================================
