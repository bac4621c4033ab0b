---------------------------- MODULE Memory_proofs ----------------------------
(***************************************************************************)
(* Where arrays are: the mutable views of an array never alias, reach      *)
(* beyond it or lose an element, for every array, every set of sizes and   *)
(* every client, also when the proofs it was handed are wrong; and every   *)
(* storage type is laid out as a plain array, for all types of values, all *)
(* lengths and any nesting of Concat and Repeat.                           *)
(***************************************************************************)
EXTENDS Views, Layout, SequenceTheorems, TLAPS

IInv == TypeOK /\ InBounds /\ LentOnce

-----------------------------------------------------------------------------
(***************************************************************************)
(* What the types of views say.                                            *)
(***************************************************************************)

\* The lengths of the universe are numbers that fit usize.
LEMMA LengthsFit == ASSUME NEW s \in Universe PROVE s.USIZE \in Nat /\ s.USIZE < Modulus
BY UniverseAssumption, ModulusAssumption DEF usize

\* A product of naturals is a natural.
LEMMA Products == ASSUME NEW n \in Nat, NEW u \in Nat PROVE n * u \in Nat
OBVIOUS

\* A view is where its constructor says.
LEMMA Constructed ==
    /\ \A lo, hi : Slice(lo, hi).lo = lo /\ Slice(lo, hi).hi = hi /\ Slice(lo, hi).kind = "slice"
    /\ \A s, lo : /\ OneArray(s, lo).lo = lo /\ OneArray(s, lo).hi = lo + s.USIZE
                  /\ OneArray(s, lo).kind = "array" /\ OneArray(s, lo).size = s
    /\ \A s, n, lo : /\ Arrays(s, n, lo).lo = lo /\ Arrays(s, n, lo).hi = lo + n * s.USIZE
                     /\ Arrays(s, n, lo).kind = "arrays" /\ Arrays(s, n, lo).size = s
BY DEF Slice, OneArray, Arrays

\* The constructors give views.
LEMMA ConstructedViews ==
    /\ \A lo, hi \in Nat : IsView(Slice(lo, hi))
    /\ \A s \in Universe : \A lo \in Nat : IsView(OneArray(s, lo))
    /\ \A s \in Universe : \A n, lo \in Nat : IsView(Arrays(s, n, lo))
<1>1. ASSUME NEW lo \in Nat, NEW hi \in Nat PROVE IsView(Slice(lo, hi))
  BY Constructed DEF IsView
<1>2. ASSUME NEW s \in Universe, NEW lo \in Nat PROVE IsView(OneArray(s, lo))
  BY Constructed DEF IsView
<1>3. ASSUME NEW s \in Universe, NEW n \in Nat, NEW lo \in Nat PROVE IsView(Arrays(s, n, lo))
  BY Constructed DEF IsView
<1> QED BY <1>1, <1>2, <1>3

\* The ends of a view are numbers, and its kind tells how it was constructed.
LEMMA ViewFacts ==
    ASSUME NEW v, IsView(v)
    PROVE  /\ v.lo \in Nat /\ v.hi \in Nat
           /\ v.kind = "array" => v.size \in Universe /\ v.hi = v.lo + v.size.USIZE
           /\ v.kind = "arrays" =>
                 v.size \in Universe /\ \E n \in Nat : v = Arrays(v.size, n, v.lo)
<1>1. CASE v.lo \in Nat /\ v.hi \in Nat /\ v = Slice(v.lo, v.hi)
  <2>1. v.kind = "slice"
    BY <1>1, Constructed
  <2> QED BY <1>1, <2>1
<1>2. CASE v.lo \in Nat /\ v.size \in Universe /\ v = OneArray(v.size, v.lo)
  <2>1. v.kind = "array" /\ v.hi = v.lo + v.size.USIZE
    BY <1>2, Constructed
  <2> QED BY <1>2, <2>1, LengthsFit
<1>3. CASE v.lo \in Nat /\ v.size \in Universe /\ \E n \in Nat : v = Arrays(v.size, n, v.lo)
  <2>1. PICK n \in Nat : v = Arrays(v.size, n, v.lo)
    BY <1>3
  <2>2. v.kind = "arrays" /\ v.hi = v.lo + n * v.size.USIZE
    BY <2>1, Constructed
  <2>3. n * v.size.USIZE \in Nat
    BY <1>3, LengthsFit, Products
  <2> QED BY <1>3, <2>2, <2>3
<1> QED BY <1>1, <1>2, <1>3 DEF IsView

-----------------------------------------------------------------------------
(***************************************************************************)
(* Lending a view to others that divide it up keeps the invariant.         *)
(***************************************************************************)

\* ws divide v up: they lie in it, cover it and do not overlap.
Divides(ws, v) ==
    /\ \A w \in ws : IsView(w) /\ v.lo <= w.lo /\ w.lo <= w.hi /\ w.hi <= v.hi
    /\ \A e : e \in Covers(v) <=> \E w \in ws : e \in Covers(w)
    /\ \A w, x \in ws : w # x => Covers(w) \cap Covers(x) = {}

\* Views that divide v up take its place, whichever the client keeps.
LEMMA LendsInv ==
    ASSUME IInv, NEW v \in views, NEW ws, NEW kept \in SUBSET ws,
           Divides(ws, v), Lends(v, ws, kept)
    PROVE  IInv'
<1>1. /\ views' = (views \ {v}) \cup kept /\ hidden' = hidden \cup (ws \ kept)
      /\ trusted' = trusted /\ whole' = whole /\ panicked' = panicked
  BY DEF Lends
<1>2. \A w \in views' \cup hidden' : w \in ws \/ w \in views \cup hidden
  BY <1>1
<1>3. TypeOK'
  <2>1. \A w \in views' \cup hidden' : IsView(w)
    BY <1>2 DEF IInv, TypeOK, Divides
  <2> QED BY <2>1, <1>1 DEF IInv, TypeOK
<1>4. InBounds'
  <2>1. \A w \in views \cup hidden : w.lo <= w.hi /\ w.hi <= whole /\ w.lo \in Nat /\ w.hi \in Nat
    BY ViewFacts DEF IInv, InBounds, TypeOK
  <2>2. \A w \in ws : w.lo <= w.hi /\ w.hi <= whole
    <3> SUFFICES ASSUME NEW w \in ws PROVE w.lo <= w.hi /\ w.hi <= whole
      OBVIOUS
    <3>1. IsView(w) /\ v.lo <= w.lo /\ w.lo <= w.hi /\ w.hi <= v.hi
      BY DEF Divides
    <3>2. v.hi <= whole /\ v.hi \in Nat /\ w.hi \in Nat /\ whole \in Nat
      BY <2>1, <3>1, ViewFacts, ModulusAssumption DEF IInv, TypeOK, usize
    <3> QED BY <3>1, <3>2
  <2> QED BY <1>1, <1>2, <2>1, <2>2 DEF InBounds
<1>5. LentOnce'
  <2> DEFINE Apart(x, y) == Covers(x) \cap Covers(y) = {}
  <2>1. /\ \A x, y \in views \cup hidden : x # y => Apart(x, y)
        /\ \A x \in views \cap hidden : Covers(x) = {}
        /\ \A e \in 0 .. whole - 1 : \E x \in views \cup hidden : e \in Covers(x)
    BY DEF IInv, LentOnce
  <2>2. /\ \A e : e \in Covers(v) <=> \E w \in ws : e \in Covers(w)
        /\ \A w, x \in ws : w # x => Apart(w, x)
    BY DEF Divides
  <2> HIDE DEF Apart
  <2>3. \A x \in ws : \A y \in views \cup hidden : y # v => Apart(x, y)
    BY <2>1, <2>2 DEF Apart
  <2>4. \A x \in ws : v \in hidden => Covers(x) = {}
    BY <2>1, <2>2
  <2>5. \A x, y \in views' \cup hidden' : x # y => Apart(x, y)
    <3> SUFFICES ASSUME NEW x \in views' \cup hidden', NEW y \in views' \cup hidden', x # y
                 PROVE  Apart(x, y)
      OBVIOUS
    <3>1. CASE x \in ws /\ y \in ws
      BY <3>1, <2>2
    <3>2. CASE x \in ws /\ y \notin ws
      <4>1. y \in views \cup hidden /\ (y = v => v \in hidden)
        BY <3>2, <1>1
      <4> QED BY <3>2, <4>1, <2>3, <2>4 DEF Apart
    <3>3. CASE x \notin ws /\ y \in ws
      <4>1. x \in views \cup hidden /\ (x = v => v \in hidden)
        BY <3>3, <1>1
      <4> QED BY <3>3, <4>1, <2>3, <2>4 DEF Apart
    <3>4. CASE x \notin ws /\ y \notin ws
      BY <3>4, <1>2, <2>1
    <3> QED BY <3>1, <3>2, <3>3, <3>4
  <2>6. \A x \in views' \cap hidden' : Covers(x) = {}
    <3> SUFFICES ASSUME NEW x \in views', x \in hidden' PROVE Covers(x) = {}
      OBVIOUS
    <3>1. CASE x \notin ws
      BY <3>1, <1>1, <2>1
    <3>2. CASE x \in ws
      <4>1. x \in views \cup hidden /\ (x = v => v \in hidden)
        BY <3>2, <1>1
      <4>2. x # v => Apart(x, x)
        BY <3>2, <4>1, <2>3
      <4> QED BY <3>2, <4>1, <4>2, <2>4 DEF Apart
    <3> QED BY <3>1, <3>2
  <2>7. \A e \in 0 .. whole - 1 : \E x \in views' \cup hidden' : e \in Covers(x)
    BY <1>1, <2>1, <2>2
  <2> QED BY <1>1, <2>5, <2>6, <2>7 DEF LentOnce, Apart, Covers
<1> QED BY <1>3, <1>4, <1>5 DEF IInv

\* Two views that meet in the middle divide v up.
LEMMA TwoParts ==
    ASSUME NEW v, NEW w, NEW x, IsView(v), IsView(w), IsView(x),
           w.lo = v.lo, x.lo = w.hi, x.hi = v.hi, w.lo <= w.hi, x.lo <= x.hi
    PROVE  Divides({w, x}, v)
<1>1. /\ v.lo \in Nat /\ v.hi \in Nat /\ w.lo \in Nat /\ w.hi \in Nat
      /\ x.lo \in Nat /\ x.hi \in Nat
  BY ViewFacts
<1>2. \A y \in {w, x} : IsView(y) /\ v.lo <= y.lo /\ y.lo <= y.hi /\ y.hi <= v.hi
  BY <1>1
<1>3. \A e : e \in Covers(v) <=> e \in Covers(w) \/ e \in Covers(x)
  BY <1>1 DEF Covers
<1>4. Covers(w) \cap Covers(x) = {}
  BY <1>1 DEF Covers
<1> QED BY <1>2, <1>3, <1>4 DEF Divides

\* A view of the same extent divides v up.
LEMMA OnePart ==
    ASSUME NEW v, NEW w, IsView(v), IsView(w), w.lo = v.lo, w.hi = v.hi, v.lo <= v.hi
    PROVE  Divides({w}, v)
<1>1. v.lo \in Nat /\ v.hi \in Nat
  BY ViewFacts
<1> QED BY <1>1 DEF Divides, Covers

-----------------------------------------------------------------------------
\* One lemma for each method.

\* What holds of a view that the client calls a method on.
LEMMA HasFacts ==
    ASSUME IInv, NEW v \in views
    PROVE  /\ IsView(v) /\ v.lo \in Nat /\ v.hi \in Nat
           /\ v.lo <= v.hi /\ v.hi <= whole /\ whole \in Nat /\ whole < Modulus
<1>1. IsView(v) /\ v.lo <= v.hi /\ v.hi <= whole /\ whole \in usize
  BY DEF IInv, TypeOK, InBounds
<1> QED BY <1>1, ViewFacts, ModulusAssumption DEF usize

\* The same of an array.
LEMMA ArrayFacts ==
    ASSUME IInv, NEW v \in views, v.kind = "array"
    PROVE  /\ v.size \in Universe /\ v.size.USIZE \in Nat /\ v.size.USIZE < Modulus
           /\ v.hi = v.lo + v.size.USIZE
           /\ AsMutSlice(v) = Slice(v.lo, v.hi)
<1>1. v.size \in Universe /\ v.hi = v.lo + v.size.USIZE
  BY HasFacts, ViewFacts
<1> QED BY <1>1, LengthsFit DEF AsMutSlice

\* A panic moves no view.
LEMMA PanicsInv == ASSUME IInv, Panics PROVE IInv'
BY DEF IInv, Panics, TypeOK, InBounds, LentOnce

\* split_prefix_mut and prefix_mut, also with a proof that is wrong.
LEMMA SplitPrefixInv ==
    ASSUME IInv, NEW v \in views, NEW p \in Universe, SplitPrefix(v, p)
    PROVE  IInv'
<1>1. v.kind = "array"
  BY DEF SplitPrefix, Has
<1>2. /\ IsView(v) /\ v.lo \in Nat /\ v.hi \in Nat /\ v.lo <= v.hi
      /\ AsMutSlice(v) = Slice(v.lo, v.hi) /\ p.USIZE \in Nat
  BY <1>1, HasFacts, ArrayFacts, LengthsFit
<1> DEFINE prefix == OneArray(p, v.lo)
           rest == Slice(v.lo + p.USIZE, v.hi)
<1>3. After(AsMutSlice(v), p.USIZE) = rest
  BY <1>2, Constructed DEF After
<1>4. CASE /\ p.USIZE <= v.hi - v.lo
           /\ Lends(v, {prefix, rest}, {prefix, rest}) \/ Lends(v, {prefix, rest}, {prefix})
  <2>1. IsView(prefix) /\ IsView(rest)
    BY <1>2, ConstructedViews
  <2>2. /\ prefix.lo = v.lo /\ prefix.hi = v.lo + p.USIZE
        /\ rest.lo = v.lo + p.USIZE /\ rest.hi = v.hi
    BY Constructed
  <2> HIDE DEF prefix, rest
  <2>3. Divides({prefix, rest}, v)
    BY <1>2, <1>4, <2>1, <2>2, TwoParts
  <2> QED BY <1>4, <2>3, LendsInv
<1>5. CASE Panics
  BY <1>5, PanicsInv
<1>6. Slice(v.lo, v.hi).lo = v.lo /\ Slice(v.lo, v.hi).hi = v.hi
  BY Constructed
<1> QED BY <1>2, <1>3, <1>4, <1>5, <1>6 DEF SplitPrefix, CanSplitAt


\* A split in two parts that meet at v.lo + mid, of which a panic is the only
\* alternative.
LEMMA SplitInv ==
    ASSUME IInv, NEW v \in views, NEW w, NEW x, IsView(w), IsView(x),
           w.lo = v.lo, x.lo = w.hi, x.hi = v.hi, w.lo <= w.hi, x.lo <= x.hi,
           NEW kept \in SUBSET {w, x}, Lends(v, {w, x}, kept)
    PROVE  IInv'
<1>1. Divides({w, x}, v)
  BY HasFacts, TwoParts
<1> QED BY <1>1, LendsInv

\* A view of the same extent takes the place of v.
LEMMA ReplaceInv ==
    ASSUME IInv, NEW v \in views, NEW w, IsView(w), w.lo = v.lo, w.hi = v.hi,
           Lends(v, {w}, {w})
    PROVE  IInv'
<1>1. Divides({w}, v)
  BY HasFacts, OnePart
<1> QED BY <1>1, LendsInv

\* split_suffix_mut and suffix_mut wherever the suffix is said to begin: what
\* the code checks is that its length is that of the array.
LEMMA SplitSuffixAtInv ==
    ASSUME IInv, NEW v \in views, NEW p \in Universe, NEW mid \in Nat,
           v.kind = "array", SplitSuffixAt(v, p, mid)
    PROVE  IInv'
<1>1. /\ IsView(v) /\ v.lo \in Nat /\ v.hi \in Nat /\ v.lo <= v.hi
      /\ AsMutSlice(v) = Slice(v.lo, v.hi) /\ p.USIZE \in Nat
  BY HasFacts, ArrayFacts, LengthsFit
<1> DEFINE rest == Slice(v.lo, v.lo + mid)
           suffix == OneArray(p, v.lo + mid)
<1>2. /\ Before(AsMutSlice(v), mid) = rest
      /\ After(AsMutSlice(v), mid) = Slice(v.lo + mid, v.hi)
  BY <1>1, Constructed DEF Before, After
<1>3. Slice(v.lo + mid, v.hi).lo = v.lo + mid /\ Slice(v.lo + mid, v.hi).hi = v.hi
  BY Constructed
<1>4. CASE /\ p.USIZE = v.hi - (v.lo + mid)
           /\ Lends(v, {rest, suffix}, {rest, suffix}) \/ Lends(v, {rest, suffix}, {suffix})
  <2>1. IsView(rest) /\ IsView(suffix)
    BY <1>1, ConstructedViews
  <2>2. /\ rest.lo = v.lo /\ rest.hi = v.lo + mid
        /\ suffix.lo = v.lo + mid /\ suffix.hi = v.lo + mid + p.USIZE
    BY Constructed
  <2> HIDE DEF rest, suffix
  <2> QED BY <1>1, <1>4, <2>1, <2>2, SplitInv
<1>5. CASE Panics
  BY <1>5, PanicsInv
<1> QED BY <1>1, <1>2, <1>3, <1>4, <1>5 DEF SplitSuffixAt, Fits

\* The subtraction of the lengths may wrap around.
LEMMA SplitSuffixInv ==
    ASSUME IInv, NEW v \in views, NEW p \in Universe, SplitSuffix(v, p)
    PROVE  IInv'
<1>1. v.kind = "array" /\ v.size.USIZE \in Nat /\ p.USIZE \in Nat
  BY ArrayFacts, LengthsFit DEF SplitSuffix, Has
<1>2. (v.size.USIZE - p.USIZE) % Modulus \in Nat
  BY <1>1, ModulusAssumption
<1> QED BY <1>1, <1>2, SplitSuffixAtInv, PanicsInv DEF SplitSuffix

\* The parts of a sum and of a product are in the universe, and their lengths
\* add up or multiply to that of the whole.
LEMMA PartsFacts ==
    ASSUME NEW s \in Universe
    PROVE  /\ s.kind = "Sum" => /\ s.parts[1] \in Universe /\ s.parts[2] \in Universe
                                /\ s.USIZE = s.parts[1].USIZE + s.parts[2].USIZE
           /\ s.kind = "Prod" => /\ s.parts[1] \in Universe /\ s.parts[2] \in Universe
                                 /\ s.USIZE = s.parts[1].USIZE * s.parts[2].USIZE
<1>1. \A a \in Universe : a.USIZE \in Nat /\ a.USIZE = a.math
  BY UniverseAssumption, OverflowAssumption, ModulusAssumption DEF IsSize, Compiles, usize
<1>2. CASE s.kind = "Sum"
  <2>1. PICK a \in Universe, b \in Universe : s = Sum(a, b)
    BY <1>2, UniverseAssumption
  <2>2. s.parts[1] = a /\ s.parts[2] = b /\ s.math = a.math + b.math
    BY <2>1 DEF Sum, Size
  <2> QED BY <1>1, <1>2, <2>2
<1>3. CASE s.kind = "Prod"
  <2>1. PICK a \in Universe, b \in Universe : s = Prod(a, b)
    BY <1>3, UniverseAssumption
  <2>2. s.parts[1] = a /\ s.parts[2] = b /\ s.math = a.math * b.math
    BY <2>1 DEF Prod, Size
  <2> QED BY <1>1, <1>3, <2>2
<1> QED BY <1>2, <1>3

\* split_mut.
LEMMA SplitMutInv == ASSUME IInv, NEW v \in views, SplitMut(v) PROVE IInv'
<1>1. v.kind = "array" /\ v.size.kind = "Sum"
  BY DEF SplitMut, Has
<1>2. /\ IsView(v) /\ v.lo \in Nat /\ v.hi \in Nat /\ v.lo <= v.hi
      /\ v.size \in Universe /\ v.hi = v.lo + v.size.USIZE
  BY <1>1, HasFacts, ArrayFacts
<1> DEFINE p == v.size.parts[1]
           q == v.size.parts[2]
           a == OneArray(p, v.lo)
           b == OneArray(q, v.lo + p.USIZE)
<1>3. /\ p \in Universe /\ q \in Universe /\ p.USIZE \in Nat /\ q.USIZE \in Nat
      /\ v.size.USIZE = p.USIZE + q.USIZE
  BY <1>1, <1>2, PartsFacts, LengthsFit
<1>4. IsView(a) /\ IsView(b)
  BY <1>2, <1>3, ConstructedViews
<1>5. a.lo = v.lo /\ a.hi = v.lo + p.USIZE /\ b.lo = v.lo + p.USIZE /\ b.hi = v.hi
  <2>1. b.hi = v.lo + p.USIZE + q.USIZE
    BY Constructed
  <2> QED BY <2>1, <1>2, <1>3, Constructed
<1>6. Lends(v, {a, b}, {a, b}) \/ Panics
  BY DEF SplitMut
<1> HIDE DEF a, b
<1>7. a.lo <= a.hi /\ b.lo <= b.hi /\ b.lo = a.hi
  <2> HIDE DEF p, q
  <2> QED BY <1>2, <1>3, <1>5
<1> QED BY <1>4, <1>5, <1>6, <1>7, SplitInv, PanicsInv

\* as_chunks_mut.
LEMMA AsChunksMutInv == ASSUME IInv, NEW v \in views, AsChunksMut(v) PROVE IInv'
<1>1. v.kind = "array" /\ v.size.kind = "Prod"
  BY DEF AsChunksMut, Has
<1>2. /\ v.lo \in Nat /\ v.size \in Universe /\ v.hi = v.lo + v.size.USIZE
  BY <1>1, HasFacts, ArrayFacts
<1> DEFINE n == v.size.parts[1].USIZE
           q == v.size.parts[2]
           chunks == Arrays(q, n, v.lo)
<1>3. q \in Universe /\ n \in Nat /\ v.size.USIZE = n * q.USIZE
  BY <1>1, <1>2, PartsFacts, LengthsFit
<1>4. IsView(chunks)
  BY <1>2, <1>3, ConstructedViews
<1>5. chunks.lo = v.lo /\ chunks.hi = v.hi
  <2>1. chunks.lo = v.lo /\ chunks.hi = v.lo + n * q.USIZE
    BY Constructed
  <2> QED BY <2>1, <1>2, <1>3
<1>6. Lends(v, {chunks}, {chunks}) \/ Panics
  BY DEF AsChunksMut
<1> HIDE DEF chunks
<1> QED BY <1>4, <1>5, <1>6, ReplaceInv, PanicsInv

\* cast_mut, also with a proof that is wrong.
LEMMA CastMutInv ==
    ASSUME IInv, NEW v \in views, NEW s \in Universe, CastMut(v, s)
    PROVE  IInv'
<1>1. v.kind = "array"
  BY DEF CastMut, Has
<1>2. /\ v.lo \in Nat /\ v.hi \in Nat /\ AsMutSlice(v) = Slice(v.lo, v.hi) /\ s.USIZE \in Nat
  BY <1>1, HasFacts, ArrayFacts, LengthsFit
<1> DEFINE w == OneArray(s, v.lo)
<1>3. Slice(v.lo, v.hi).lo = v.lo /\ Slice(v.lo, v.hi).hi = v.hi
  BY Constructed
<1>4. IsView(w) /\ w.lo = v.lo /\ w.hi = v.lo + s.USIZE
  <2>1. IsView(w)
    BY <1>2, ConstructedViews
  <2> QED BY <2>1, Constructed
<1>5. (Lends(v, {w}, {w}) /\ s.USIZE = v.hi - v.lo) \/ Panics
  BY <1>2, <1>3 DEF CastMut, Fits
<1> HIDE DEF w
<1> QED BY <1>2, <1>4, <1>5, ReplaceInv, PanicsInv

\* DerefMut.
LEMMA DerefMutInv == ASSUME IInv, NEW v \in views, DerefMut(v) PROVE IInv'
<1>1. v.kind = "array" /\ Lends(v, {AsMutSlice(v)}, {AsMutSlice(v)})
  BY DEF DerefMut, Has
<1>2. v.lo \in Nat /\ v.hi \in Nat /\ AsMutSlice(v) = Slice(v.lo, v.hi)
  BY <1>1, HasFacts, ArrayFacts
<1>3. /\ IsView(AsMutSlice(v)) /\ AsMutSlice(v).lo = v.lo /\ AsMutSlice(v).hi = v.hi
  BY <1>2, ConstructedViews, Constructed
<1> QED BY <1>1, <1>3, ReplaceInv

\* TryFrom<&mut [T]>.
LEMMA TryFromSliceInv ==
    ASSUME IInv, NEW v \in views, NEW s \in Universe, TryFromSlice(v, s)
    PROVE  IInv'
<1>1. v.lo \in Nat /\ v.hi \in Nat /\ s.USIZE \in Nat
  BY HasFacts, LengthsFit
<1> DEFINE w == OneArray(s, v.lo)
<1>2. IsView(w) /\ w.lo = v.lo /\ w.hi = v.lo + s.USIZE
  <2>1. IsView(w)
    BY <1>1, ConstructedViews
  <2> QED BY <2>1, Constructed
<1>3. Lends(v, {w}, {w}) /\ s.USIZE = v.hi - v.lo
  BY <1>1 DEF TryFromSlice, Fits
<1> HIDE DEF w
<1> QED BY <1>1, <1>2, <1>3, ReplaceInv

\* slice_as_chunks_mut.
LEMMA SliceAsChunksInv ==
    ASSUME IInv, NEW v \in views, NEW s \in Universe, SliceAsChunks(v, s)
    PROVE  IInv'
<1>1. /\ v.lo \in Nat /\ v.hi \in Nat /\ v.lo <= v.hi /\ s.USIZE \in Nat /\ s.USIZE # 0
  BY HasFacts, LengthsFit DEF SliceAsChunks
<1> DEFINE n == (v.hi - v.lo) \div s.USIZE
           mid == n * s.USIZE
           chunks == Arrays(s, n, v.lo)
           rest == Slice(v.lo + mid, v.hi)
<1>2. n \in Nat /\ mid \in Nat
  BY <1>1
<1>3. (Lends(v, {chunks, rest}, {chunks, rest}) /\ mid <= v.hi - v.lo) \/ Panics
  BY DEF SliceAsChunks, CanSplitAt, After
<1>4. IsView(chunks) /\ IsView(rest)
  BY <1>1, <1>2, ConstructedViews
<1>5. chunks.lo = v.lo /\ chunks.hi = v.lo + mid /\ rest.lo = v.lo + mid /\ rest.hi = v.hi
  BY Constructed
<1> HIDE DEF chunks, rest, mid, n
<1> QED BY <1>1, <1>2, <1>3, <1>4, <1>5, SplitInv, PanicsInv

\* split_at_mut of core.
LEMMA SplitSliceInv ==
    ASSUME IInv, NEW v \in views, NEW mid \in 0 .. whole, SplitSlice(v, mid)
    PROVE  IInv'
<1>1. v.lo \in Nat /\ v.hi \in Nat /\ mid \in Nat
  BY HasFacts
<1> DEFINE w == Slice(v.lo, v.lo + mid)
           x == Slice(v.lo + mid, v.hi)
<1>2. Lends(v, {w, x}, {w, x}) /\ mid <= v.hi - v.lo
  BY DEF SplitSlice, CanSplitAt, Before, After
<1>3. /\ IsView(w) /\ IsView(x)
      /\ w.lo = v.lo /\ w.hi = v.lo + mid /\ x.lo = v.lo + mid /\ x.hi = v.hi
  BY <1>1, <1>2, ConstructedViews, Constructed
<1> HIDE DEF w, x
<1> QED BY <1>1, <1>2, <1>3, SplitInv

\* split_first_mut of core on a slice of arrays.
LEMMA SplitFirstInv == ASSUME IInv, NEW v \in views, SplitFirst(v) PROVE IInv'
<1>1. v.kind = "arrays" /\ v.lo < v.hi
  BY DEF SplitFirst, Has
<1> DEFINE u == v.size.USIZE
           first == OneArray(v.size, v.lo)
           rest == [v EXCEPT !.lo = @ + u]
<1>2. v.lo \in Nat /\ v.hi \in Nat /\ v.size \in Universe /\ u \in Nat
  BY <1>1, HasFacts, ViewFacts, LengthsFit
<1>3. PICK n \in Nat : v = Arrays(v.size, n, v.lo)
  BY <1>1, HasFacts, ViewFacts
<1>4. v.hi = v.lo + n * u
  BY <1>3, Constructed
<1>5. n # 0
  BY <1>1, <1>2, <1>4
<1>6. n - 1 \in Nat /\ (n - 1) * u \in Nat /\ n * u = u + (n - 1) * u
  BY <1>2, <1>5
<1>7. v = [kind |-> "arrays", size |-> v.size, lo |-> v.lo, hi |-> v.lo + n * u]
  BY <1>3 DEF Arrays
<1>8. rest = [kind |-> "arrays", size |-> v.size, lo |-> v.lo + u, hi |-> v.hi]
  BY <1>7
<1>9. rest = Arrays(v.size, n - 1, v.lo + u)
  BY <1>8, <1>4, <1>6, <1>2 DEF Arrays
<1>10. IsView(rest) /\ IsView(first)
  BY <1>2, <1>6, <1>9, ConstructedViews
<1>11. first.lo = v.lo /\ first.hi = v.lo + u /\ rest.lo = v.lo + u /\ rest.hi = v.hi
  BY <1>8, Constructed
<1>12. v.lo + u <= v.hi
  BY <1>2, <1>4, <1>6
<1>13. Lends(v, {first, rest}, {first, rest})
  BY DEF SplitFirst
<1> HIDE DEF first, rest, u
<1> QED BY <1>2, <1>10, <1>11, <1>12, <1>13, SplitInv

-----------------------------------------------------------------------------

\* A view of a whole array covers it.
LEMMA InitInv == Init => IInv
<1> SUFFICES ASSUME Init PROVE IInv
  OBVIOUS
<1>1. PICK s \in Universe : whole = s.USIZE /\ views = {OneArray(s, 0)}
  BY DEF Init
<1>2. /\ whole \in usize /\ whole \in Nat /\ hidden = {} /\ panicked = FALSE /\ trusted \in BOOLEAN
  BY <1>1, UniverseAssumption, ModulusAssumption DEF Init, usize
<1> DEFINE v == OneArray(s, 0)
<1>3. IsView(v) /\ v.lo = 0 /\ v.hi = whole
  BY <1>1, <1>2, ConstructedViews, Constructed
<1>4. views = {v}
  BY <1>1
<1> HIDE DEF v
<1>5. \A w \in views \cup hidden : w = v
  BY <1>2, <1>4
<1>7. TypeOK
  BY <1>2, <1>3, <1>5 DEF TypeOK
<1>8. InBounds
  BY <1>2, <1>3, <1>5 DEF InBounds
<1>6. LentOnce
  BY <1>2, <1>3, <1>4 DEF LentOnce, Covers
<1> QED BY <1>6, <1>7, <1>8 DEF IInv

\* Every call keeps the invariant.
LEMMA StepInv == IInv /\ [Next]_vars => IInv'
<1> SUFFICES ASSUME IInv, [Next]_vars PROVE IInv'
  OBVIOUS
<1>1. CASE UNCHANGED vars
  BY <1>1 DEF vars, IInv, TypeOK, InBounds, LentOnce
<1>2. CASE Next
  <2>1. PICK v \in views :
          \/ SplitMut(v) \/ AsChunksMut(v) \/ DerefMut(v) \/ SplitFirst(v)
          \/ \E s \in Universe : \/ SplitPrefix(v, s) \/ SplitSuffix(v, s) \/ CastMut(v, s)
                                 \/ SliceAsChunks(v, s) \/ TryFromSlice(v, s)
          \/ \E mid \in 0 .. whole : SplitSlice(v, mid)
    BY <1>2 DEF Next
  <2>2. CASE SplitMut(v) \/ AsChunksMut(v) \/ DerefMut(v) \/ SplitFirst(v)
    BY <2>2, SplitMutInv, AsChunksMutInv, DerefMutInv, SplitFirstInv
  <2>3. ASSUME NEW s \in Universe, SplitPrefix(v, s) \/ SplitSuffix(v, s) \/ CastMut(v, s)
        PROVE  IInv'
    BY <2>3, SplitPrefixInv, SplitSuffixInv, CastMutInv
  <2>4. ASSUME NEW s \in Universe, SliceAsChunks(v, s) \/ TryFromSlice(v, s)
        PROVE  IInv'
    BY <2>4, SliceAsChunksInv, TryFromSliceInv
  <2>5. ASSUME NEW mid \in 0 .. whole, SplitSlice(v, mid)
        PROVE  IInv'
    BY <2>5, SplitSliceInv
  <2> QED BY <2>1, <2>2, <2>3, <2>4, <2>5
<1> QED BY <1>1, <1>2

\* Every view is of its type's extent, and the views divide the array up.
THEOREM Invariance == Spec => []IInv
<1> QED BY InitInv, StepInv, PTL DEF Spec

\* No view reaches beyond the array, whatever proofs the client was handed.
THEOREM ViewsInBounds == Spec => []InBounds
<1>1. IInv => InBounds
  BY DEF IInv
<1> QED BY <1>1, Invariance, PTL

\* No two mutable views share an element, and each element is in one.
THEOREM ElementsLentOnce == Spec => []LentOnce
<1>1. IInv => LentOnce
  BY DEF IInv
<1> QED BY <1>1, Invariance, PTL


-----------------------------------------------------------------------------
(***************************************************************************)
(* With proofs that are true, no unwrap and no split of a slice panics.    *)
(***************************************************************************)

\* The condition of a method that takes a true proof, for the array v whose
\* slice is lo .. hi - 1 with hi = lo + v.size.USIZE.
LEMMA SlicesFit ==
    ASSUME NEW lo \in Nat, NEW hi \in Nat, NEW s \in Universe, hi = lo + s.USIZE
    PROVE  Fits(Slice(lo, hi), s, 1)
<1>1. s.USIZE \in Nat /\ s.USIZE < Modulus
  BY LengthsFit
<1>2. Slice(lo, hi).lo = lo /\ Slice(lo, hi).hi = hi
  BY Constructed
<1> QED BY <1>1, <1>2 DEF Fits

\* Half of a slice is a slice.
LEMMA Halves ==
    ASSUME NEW lo \in Nat, NEW hi \in Nat, NEW mid \in Nat, lo + mid <= hi
    PROVE  /\ CanSplitAt(Slice(lo, hi), mid)
           /\ Before(Slice(lo, hi), mid) = Slice(lo, lo + mid)
           /\ After(Slice(lo, hi), mid) = Slice(lo + mid, hi)
<1>1. Slice(lo, hi).lo = lo /\ Slice(lo, hi).hi = hi
  BY Constructed
<1> QED BY <1>1 DEF CanSplitAt, Before, After

\* A view that is lent panics nowhere.
LEMMA LendsNoPanic ==
    ASSUME NEW v, NEW ws, NEW kept, Lends(v, ws, kept) PROVE panicked' = panicked
BY DEF Lends

\* split_prefix_mut: a prefix that is not longer than the array.
LEMMA SplitPrefixNoPanic ==
    ASSUME IInv, trusted, NEW v \in views, NEW p \in Universe, SplitPrefix(v, p)
    PROVE  panicked' = panicked
<1>1. v.kind = "array" /\ p.USIZE <= v.size.USIZE
  BY DEF SplitPrefix, Has, AtMost
<1>2. /\ v.lo \in Nat /\ v.hi \in Nat /\ p.USIZE \in Nat /\ v.size.USIZE \in Nat
      /\ v.hi = v.lo + v.size.USIZE /\ AsMutSlice(v) = Slice(v.lo, v.hi)
  BY <1>1, HasFacts, ArrayFacts, LengthsFit
<1>3. v.lo + p.USIZE \in Nat /\ v.lo + p.USIZE <= v.hi
  BY <1>1, <1>2
<1>4. /\ CanSplitAt(AsMutSlice(v), p.USIZE)
      /\ Before(AsMutSlice(v), p.USIZE) = Slice(v.lo, v.lo + p.USIZE)
  BY <1>2, <1>3, Halves
<1>5. Fits(Before(AsMutSlice(v), p.USIZE), p, 1)
  BY <1>2, <1>3, <1>4, SlicesFit
<1> QED BY <1>4, <1>5, LendsNoPanic DEF SplitPrefix

\* A number that fits is not changed by the width.
LEMMA Small == ASSUME NEW n \in Nat, NEW m \in Nat, n < m PROVE n % m = n
OBVIOUS

\* split_suffix_mut: the subtraction does not wrap around.
LEMMA SplitSuffixNoPanic ==
    ASSUME IInv, trusted, NEW v \in views, NEW p \in Universe, SplitSuffix(v, p)
    PROVE  panicked' = panicked
<1>1. v.kind = "array" /\ p.USIZE <= v.size.USIZE
  BY DEF SplitSuffix, Has, AtMost
<1>2. /\ v.lo \in Nat /\ v.hi \in Nat /\ p.USIZE \in Nat
      /\ v.size.USIZE \in Nat /\ v.size.USIZE < Modulus
      /\ v.hi = v.lo + v.size.USIZE /\ AsMutSlice(v) = Slice(v.lo, v.hi)
  BY <1>1, HasFacts, ArrayFacts, LengthsFit
<1> DEFINE mid == v.size.USIZE - p.USIZE
<1>3. /\ mid \in Nat /\ mid < Modulus /\ ~(v.size.USIZE < p.USIZE)
      /\ v.lo + mid \in Nat /\ v.lo + mid <= v.hi /\ v.hi = v.lo + mid + p.USIZE
  BY <1>1, <1>2, ModulusAssumption
<1>4. mid % Modulus = mid
  <2> HIDE DEF mid
  <2>1. mid \in Nat /\ Modulus \in Nat /\ mid < Modulus
    BY <1>3, ModulusAssumption
  <2> QED BY <2>1, Small
<1>5. SplitSuffixAt(v, p, mid)
  BY <1>3, <1>4 DEF SplitSuffix
<1> HIDE DEF mid
<1>6. /\ CanSplitAt(AsMutSlice(v), mid)
      /\ After(AsMutSlice(v), mid) = Slice(v.lo + mid, v.hi)
  BY <1>2, <1>3, Halves
<1>7. Fits(After(AsMutSlice(v), mid), p, 1)
  BY <1>2, <1>3, <1>6, SlicesFit
<1> QED BY <1>5, <1>6, <1>7, LendsNoPanic DEF SplitSuffixAt

\* split_mut: both fields have the length of their type.
LEMMA SplitMutNoPanic ==
    ASSUME IInv, NEW v \in views, SplitMut(v) PROVE panicked' = panicked
<1>1. v.kind = "array" /\ v.size.kind = "Sum"
  BY DEF SplitMut, Has
<1> DEFINE p == v.size.parts[1]
           q == v.size.parts[2]
           a == OneArray(p, v.lo)
           b == OneArray(q, v.lo + p.USIZE)
<1>2. v.lo \in Nat /\ p \in Universe /\ q \in Universe /\ p.USIZE \in Nat /\ q.USIZE \in Nat
  BY <1>1, HasFacts, ArrayFacts, PartsFacts, LengthsFit
<1>3. /\ AsMutSlice(a) = Slice(v.lo, v.lo + p.USIZE) /\ a.size = p
      /\ AsMutSlice(b) = Slice(v.lo + p.USIZE, v.lo + p.USIZE + q.USIZE) /\ b.size = q
  <2>1. a.lo = v.lo /\ a.size = p
    BY Constructed
  <2>2. b.lo = v.lo + p.USIZE /\ b.size = q
    BY Constructed
  <2> HIDE DEF a, b
  <2> QED BY <2>1, <2>2 DEF AsMutSlice
<1>4. Fits(AsMutSlice(a), a.size, 1) /\ Fits(AsMutSlice(b), b.size, 1)
  <2> HIDE DEF a, b, p, q
  <2> QED BY <1>2, <1>3, SlicesFit
<1> QED BY <1>4, LendsNoPanic DEF SplitMut

\* as_chunks_mut: the product of the lengths is the length of the product.
LEMMA AsChunksMutNoPanic ==
    ASSUME IInv, NEW v \in views, AsChunksMut(v) PROVE panicked' = panicked
<1>1. v.kind = "array" /\ v.size.kind = "Prod"
  BY DEF AsChunksMut, Has
<1> DEFINE p == v.size.parts[1]
           n == p.USIZE
           q == v.size.parts[2]
<1>2. /\ v.lo \in Nat /\ v.hi \in Nat /\ v.size.USIZE \in Nat /\ v.size.USIZE < Modulus
      /\ v.hi = v.lo + v.size.USIZE /\ AsMutSlice(v) = Slice(v.lo, v.hi)
      /\ v.size.USIZE = n * q.USIZE
      /\ p \in Universe /\ n \in Nat
  BY <1>1, HasFacts, ArrayFacts, PartsFacts, LengthsFit
<1>3. Slice(v.lo, v.hi).lo = v.lo /\ Slice(v.lo, v.hi).hi = v.hi
  BY Constructed
<1>4. Fits(AsMutSlice(v), q, n)
  BY <1>2, <1>3 DEF Fits
<1>5. Fits(Slice(0, n), p, 1)
  <2> HIDE DEF p
  <2>1. Slice(0, 0 + p.USIZE) = Slice(0, n)
    BY <1>2
  <2> QED BY <2>1, <1>2, SlicesFit
<1> QED BY <1>4, <1>5, LendsNoPanic DEF AsChunksMut

\* cast_mut between sizes of the same length.
LEMMA CastMutNoPanic ==
    ASSUME IInv, trusted, NEW v \in views, NEW s \in Universe, CastMut(v, s)
    PROVE  panicked' = panicked
<1>1. v.kind = "array" /\ v.size.USIZE = s.USIZE
  BY DEF CastMut, Has, SameLen
<1>2. Fits(AsMutSlice(v), s, 1)
  BY <1>1, HasFacts, ArrayFacts, SlicesFit
<1> QED BY <1>2, LendsNoPanic DEF CastMut

\* The elements in whole chunks are not more than all elements.
LEMMA WholeChunks ==
    ASSUME NEW l \in Nat, NEW u \in Nat, u # 0
    PROVE  l \div u \in Nat /\ (l \div u) * u \in Nat /\ (l \div u) * u <= l
<1>1. l \div u \in Nat
  OBVIOUS
<1>2. (l \div u) * u <= l
  BY SMTT(20)
<1> QED BY <1>1, <1>2

\* slice_as_chunks_mut: the quotient times the divisor is at most the length.
LEMMA SliceAsChunksNoPanic ==
    ASSUME IInv, NEW v \in views, NEW s \in Universe, SliceAsChunks(v, s)
    PROVE  panicked' = panicked
<1>1. /\ v.kind = "slice" /\ s.USIZE # 0 /\ s.USIZE \in Nat
      /\ v.lo \in Nat /\ v.hi \in Nat /\ v.lo <= v.hi /\ v.hi < Modulus
  <2>1. v.lo \in Nat /\ v.hi \in Nat /\ v.lo <= v.hi /\ v.hi <= whole /\ whole \in Nat /\ whole < Modulus
    BY HasFacts
  <2>2. v.hi < Modulus
    BY <2>1, ModulusAssumption
  <2> QED BY <2>1, <2>2, LengthsFit DEF SliceAsChunks, Has
<1> DEFINE n == (v.hi - v.lo) \div s.USIZE
           mid == n * s.USIZE
<1>2. n \in Nat /\ mid \in Nat /\ mid <= v.hi - v.lo
  <2>1. v.hi - v.lo \in Nat
    BY <1>1
  <2> QED BY <1>1, <2>1, WholeChunks
<1>3. Before(v, mid).lo = v.lo /\ Before(v, mid).hi = v.lo + mid
  BY Constructed DEF Before
<1>4. CanSplitAt(v, mid)
  BY <1>2 DEF CanSplitAt
<1>5. Fits(Before(v, mid), s, n)
  <2>1. mid < Modulus /\ mid = Before(v, mid).hi - Before(v, mid).lo
    <3> HIDE DEF mid
    <3> QED BY <1>1, <1>2, <1>3, ModulusAssumption
  <2> HIDE DEF n
  <2> QED BY <2>1 DEF Fits
<1> QED BY <1>4, <1>5, LendsNoPanic DEF SliceAsChunks

\* Whether the proofs can be trusted does not change.
LEMMA TrustKept == [Next]_vars => trusted' = trusted
<1> SUFFICES ASSUME Next PROVE trusted' = trusted
  BY DEF vars
<1>1. PICK v \in views :
        \/ SplitMut(v) \/ AsChunksMut(v) \/ DerefMut(v) \/ SplitFirst(v)
        \/ \E s \in Universe : \/ SplitPrefix(v, s) \/ SplitSuffix(v, s) \/ CastMut(v, s)
                               \/ SliceAsChunks(v, s) \/ TryFromSlice(v, s)
        \/ \E mid \in 0 .. whole : SplitSlice(v, mid)
  BY DEF Next
<1>2. \A ws, kept : Lends(v, ws, kept) => trusted' = trusted
  BY DEF Lends
<1>3. Panics => trusted' = trusted
  BY DEF Panics
<1>4. CASE SplitMut(v) \/ AsChunksMut(v) \/ DerefMut(v) \/ SplitFirst(v)
  BY <1>2, <1>3, <1>4 DEF SplitMut, AsChunksMut, DerefMut, SplitFirst
<1>5. ASSUME NEW s \in Universe, SplitPrefix(v, s) \/ SplitSuffix(v, s) \/ CastMut(v, s)
      PROVE  trusted' = trusted
  BY <1>2, <1>3, <1>5 DEF SplitPrefix, SplitSuffix, SplitSuffixAt, CastMut
<1>6. ASSUME NEW s \in Universe, SliceAsChunks(v, s) \/ TryFromSlice(v, s)
      PROVE  trusted' = trusted
  BY <1>2, <1>3, <1>6 DEF SliceAsChunks, TryFromSlice
<1>7. ASSUME NEW mid \in 0 .. whole, SplitSlice(v, mid)
      PROVE  trusted' = trusted
  BY <1>2, <1>7 DEF SplitSlice
<1> QED BY <1>1, <1>4, <1>5, <1>6, <1>7

\* No step panics.
LEMMA StepNoPanic == IInv /\ NeverPanics /\ [Next]_vars => NeverPanics'
<1> SUFFICES ASSUME IInv, trusted, [Next]_vars PROVE panicked' = panicked
  BY TrustKept DEF NeverPanics
<1>1. CASE UNCHANGED vars
  BY <1>1 DEF vars
<1>2. CASE Next
  <2>1. PICK v \in views :
          \/ SplitMut(v) \/ AsChunksMut(v) \/ DerefMut(v) \/ SplitFirst(v)
          \/ \E s \in Universe : \/ SplitPrefix(v, s) \/ SplitSuffix(v, s) \/ CastMut(v, s)
                                 \/ SliceAsChunks(v, s) \/ TryFromSlice(v, s)
          \/ \E mid \in 0 .. whole : SplitSlice(v, mid)
    BY <1>2 DEF Next
  <2>2. CASE SplitMut(v) \/ AsChunksMut(v)
    BY <2>2, SplitMutNoPanic, AsChunksMutNoPanic
  <2>3. CASE DerefMut(v) \/ SplitFirst(v)
    BY <2>3, LendsNoPanic DEF DerefMut, SplitFirst
  <2>4. ASSUME NEW s \in Universe, SplitPrefix(v, s) \/ SplitSuffix(v, s) \/ CastMut(v, s)
        PROVE  panicked' = panicked
    BY <2>4, SplitPrefixNoPanic, SplitSuffixNoPanic, CastMutNoPanic
  <2>5. ASSUME NEW s \in Universe, SliceAsChunks(v, s) \/ TryFromSlice(v, s)
        PROVE  panicked' = panicked
    BY <2>5, SliceAsChunksNoPanic, LendsNoPanic DEF TryFromSlice
  <2>6. ASSUME NEW mid \in 0 .. whole, SplitSlice(v, mid)
        PROVE  panicked' = panicked
    BY <2>6, LendsNoPanic DEF SplitSlice
  <2> QED BY <2>1, <2>2, <2>3, <2>4, <2>5, <2>6
<1> QED BY <1>1, <1>2

\* With sound proofs, the unwraps and splits that the source says do not panic
\* never do, for any sizes and in any order of calls.
THEOREM UnwrapsNeverPanic == Spec => []NeverPanics
<1>1. Init => NeverPanics
  BY DEF Init, NeverPanics
<1> QED BY <1>1, Invariance, StepNoPanic, PTL DEF Spec

-----------------------------------------------------------------------------
(***************************************************************************)
(* The layout of storage types.                                            *)
(***************************************************************************)

Multiple(n, a) == \E c \in Nat : n = c * a

\* A type of items: its size is a multiple of its alignment.
IsItem(t) == t.bytes \in Nat /\ t.align \in Nat \ {0} /\ Multiple(t.bytes, t.align)

\* LEN and USIZE are computed alike, and stop at the same overflow.
Counted(a) ==
    /\ a.size.math \in Nat
    /\ a.LEN = a.size.USIZE
    /\ Compiles(a.size) => a.LEN = a.size.math

IsStorage(a) ==
    /\ a = Storage(a.of, a.size, a.LEN, a.bytes, a.align, a.at)
    /\ IsItem(a.of) /\ IsItem(a)
    /\ IsLaidOut(a) /\ Counted(a) /\ 2 * a.bytes < Modulus

LayoutInv == \A a \in formed : IsStorage(a)

-----------------------------------------------------------------------------

LEMMA MultipleOfMultiple ==
    ASSUME NEW n \in Nat, NEW m \in Nat, NEW a \in Nat, Multiple(n, a)
    PROVE  Multiple(m * n, a)
<1>1. PICK c \in Nat : n = c * a
  BY DEF Multiple
<1>2. m * n = (m * c) * a /\ m * c \in Nat
  BY <1>1
<1> QED BY <1>2 DEF Multiple

LEMMA MultipleRemainder ==
    ASSUME NEW n \in Nat, NEW a \in Nat \ {0}, Multiple(n, a)
    PROVE  n % a = 0
<1>1. PICK c \in Nat : n = c * a
  BY DEF Multiple
<1> DEFINE d == n \div a
           r == n % a
<1>2. d \in Int /\ r \in 0 .. a - 1 /\ n = a * d + r
  OBVIOUS
<1>3. r = a * (c - d)
  BY <1>1, <1>2
<1> HIDE DEF d, r
<1>4. c - d \in Int
  BY <1>2
<1>5. CASE c - d <= 0
  <2>1. a * (c - d) <= 0
    BY <1>4, <1>5
  <2> QED BY <1>2, <1>3, <2>1 DEF r
<1>6. CASE c - d >= 1
  <2>1. a * (c - d) >= a
    BY <1>4, <1>6
  <2> QED BY <1>2, <1>3, <2>1
<1> QED BY <1>4, <1>5, <1>6

\* Fields and the whole of a Concat need no padding.
LEMMA NoPadding ==
    ASSUME NEW n \in Nat, NEW a \in Nat \ {0}, Multiple(n, a)
    PROVE  RoundUp(n, a) = n
BY MultipleRemainder DEF RoundUp

LEMMA Distributes ==
    ASSUME NEW m \in Nat, NEW n \in Nat, NEW s \in Nat
    PROVE  m * s + n * s = (m + n) * s
OBVIOUS

LEMMA NaturalProducts == \A m, n \in Nat : m * n \in Nat
  OBVIOUS

LEMMA FunctionIsSequence ==
    ASSUME NEW S, NEW n \in Nat, NEW f \in [1 .. n -> S]
    PROVE  f \in Seq(S) /\ Len(f) = n /\ DOMAIN f = 1 .. n
OBVIOUS

LEMMA Joined ==
    ASSUME NEW m \in Nat, NEW n \in Nat, NEW f \in [1 .. m -> Nat], NEW g \in [1 .. n -> Nat]
    PROVE  /\ DOMAIN (f \o g) = 1 .. m + n
           /\ f \o g = [k \in DOMAIN (f \o g) |-> (f \o g)[k]]
           /\ \A k \in 1 .. m + n : (f \o g)[k] = IF k <= m THEN f[k] ELSE g[k - m]
<1>1. f \in Seq(Nat) /\ Len(f) = m /\ g \in Seq(Nat) /\ Len(g) = n
  BY FunctionIsSequence
<1>2. /\ f \o g \in Seq(Nat) /\ Len(f \o g) = m + n
      /\ \A k \in 1 .. m + n : (f \o g)[k] = IF k <= m THEN f[k] ELSE g[k - m]
  BY <1>1, ConcatProperties
<1>3. DOMAIN (f \o g) = 1 .. m + n /\ f \o g = [k \in DOMAIN (f \o g) |-> (f \o g)[k]]
  <2> DEFINE h == f \o g
  <2>1. h \in Seq(Nat) /\ Len(h) = m + n
    BY <1>2
  <2> HIDE DEF h
  <2>2. DOMAIN h = 1 .. m + n /\ h = [k \in DOMAIN h |-> h[k]]
    BY <2>1
  <2> QED BY <2>2 DEF h
<1> QED BY <1>2, <1>3

LEMMA OffsetsAre ==
    ASSUME NEW m \in Nat, NEW s \in Nat
    PROVE  /\ Offsets(m, s) \in [1 .. m -> Nat]
           /\ \A k \in 1 .. m : Offsets(m, s)[k] = (k - 1) * s
<1>1. \A k \in 1 .. m : k - 1 \in Nat /\ (k - 1) * s \in Nat
  <2>1. \A k \in 1 .. m : k - 1 \in Nat
    OBVIOUS
  <2> QED BY <2>1, NaturalProducts
<1> QED BY <1>1 DEF Offsets

LEMMA OffsetsLength ==
    ASSUME NEW m \in Nat, NEW s \in Nat
    PROVE  Len(Offsets(m, s)) = m
<1>1. Offsets(m, s) \in [1 .. m -> Nat]
  BY OffsetsAre
<1> QED BY <1>1, FunctionIsSequence, Zenon

\* The offsets of n items after those of m items.
LEMMA OffsetsJoin ==
    ASSUME NEW m \in Nat, NEW n \in Nat, NEW s \in Nat
    PROVE  Offsets(m, s) \o Shift(Offsets(n, s), m * s) = Offsets(m + n, s)
<1> DEFINE f == Offsets(m, s)
           g == Shift(Offsets(n, s), m * s)
<1>1. f \in [1 .. m -> Nat] /\ \A k \in 1 .. m : f[k] = (k - 1) * s
  BY OffsetsAre
<1>2. g \in [1 .. n -> Nat] /\ \A k \in 1 .. n : g[k] = (m + (k - 1)) * s
  <2>1. \A k \in 1 .. n : k - 1 \in Nat /\ m + (k - 1) \in Nat
    OBVIOUS
  <2>2. \A k \in 1 .. n : g[k] = m * s + (k - 1) * s
    BY OffsetsAre DEF Shift
  <2>3. DOMAIN g = 1 .. n /\ g = [k \in DOMAIN g |-> g[k]]
    BY OffsetsAre DEF Shift
  <2> HIDE DEF g
  <2>4. \A k \in 1 .. n : g[k] = (m + (k - 1)) * s
    BY <2>1, <2>2, Distributes
  <2>5. \A k \in 1 .. n : g[k] \in Nat
    BY <2>1, <2>4, NaturalProducts
  <2> QED BY <2>3, <2>4, <2>5
<1> HIDE DEF f, g
<1>3. /\ DOMAIN (f \o g) = 1 .. m + n
      /\ f \o g = [k \in DOMAIN (f \o g) |-> (f \o g)[k]]
      /\ \A k \in 1 .. m + n : (f \o g)[k] = IF k <= m THEN f[k] ELSE g[k - m]
  BY <1>1, <1>2, Joined
<1>4. ASSUME NEW k \in 1 .. m + n PROVE (f \o g)[k] = (k - 1) * s
  <2>1. CASE k <= m
    BY <1>1, <1>3, <2>1
  <2>2. CASE k > m
    <3>1. k - m \in 1 .. n /\ m + ((k - m) - 1) = k - 1
      BY <2>2
    <3>2. (f \o g)[k] = g[k - m]
      BY <1>3, <2>2
    <3>3. g[k - m] = (m + ((k - m) - 1)) * s
      BY <1>2, <3>1
    <3>4. (f \o g)[k] = (m + ((k - m) - 1)) * s
      BY <3>2, <3>3, Zenon
    <3> QED BY <3>1, <3>4, Zenon
  <2>3. k <= m \/ k > m
    OBVIOUS
  <2> QED BY <2>1, <2>2, <2>3, Zenon
<1>5. f \o g = Offsets(m + n, s)
  BY <1>3, <1>4 DEF Offsets
<1> QED BY <1>5 DEF f, g

-----------------------------------------------------------------------------

\* [t; n]
LEMMA PlainArrayIsStorage ==
    ASSUME NEW t, IsItem(t), NEW n \in Nat, 2 * PlainArray(t, n).bytes < Modulus
    PROVE  IsStorage(PlainArray(t, n))
<1> DEFINE a == PlainArray(t, n)
<1>1. /\ a.of = t /\ a.size = LenN(n) /\ a.LEN = n /\ a.bytes = n * t.bytes
      /\ a.align = t.align /\ a.at = Offsets(n, t.bytes)
      /\ a = Storage(a.of, a.size, a.LEN, a.bytes, a.align, a.at)
  BY DEF PlainArray, Storage
<1>2. a.size.math = n /\ a.size.USIZE = n
  BY <1>1 DEF LenN, Size
<1>3. IsItem(a)
  <2>1. a.bytes \in Nat
    BY <1>1 DEF IsItem
  <2>2. Multiple(a.bytes, a.align)
    BY <1>1, MultipleOfMultiple DEF IsItem
  <2> QED BY <1>1, <2>1, <2>2 DEF IsItem
<1>4. IsLaidOut(a) /\ Counted(a)
  BY <1>1, <1>2 DEF IsLaidOut, Counted
<1> QED BY <1>1, <1>3, <1>4 DEF IsStorage

\* Two storages of the same items, one after the other.
LEMMA ConcatIsStorage ==
    ASSUME NEW a, IsStorage(a), NEW b, IsStorage(b), a.of = b.of,
           2 * Concat(a, b).bytes < Modulus
    PROVE  IsStorage(Concat(a, b))
<1> DEFINE c == Concat(a, b)
           s == a.of.bytes
           m == a.size.math
           n == b.size.math
<1>0. \A j, k, l \in Nat : j * l \in Nat /\ k * l \in Nat /\ j * l + k * l = (j + k) * l
  BY Distributes
<1>1. /\ s \in Nat /\ m \in Nat /\ n \in Nat
      /\ a.bytes = m * s /\ b.bytes = n * s
      /\ a.align = a.of.align /\ b.align = a.of.align /\ a.of.align \in Nat \ {0}
      /\ a.at = Offsets(m, s) /\ b.at = Offsets(n, s)
  BY DEF IsStorage, IsItem, IsLaidOut, Counted
<1>2. Multiple(s, a.of.align)
  BY DEF IsStorage, IsItem
<1>3. /\ m * s \in Nat /\ n * s \in Nat /\ m + n \in Nat /\ (m + n) * s \in Nat
      /\ m * s + n * s = (m + n) * s
  <2> HIDE DEF s, m, n
  <2> QED BY <1>0, <1>1
<1>4. Multiple((m + n) * s, a.of.align) /\ Multiple(m * s, a.of.align)
  BY <1>1, <1>2, <1>3, MultipleOfMultiple
<1>5. /\ RoundUp(a.bytes, b.align) = m * s
      /\ RoundUp(m * s + b.bytes, a.of.align) = (m + n) * s
  BY <1>1, <1>3, <1>4, NoPadding
<1>6. /\ c.of = a.of /\ c.size = Sum(a.size, b.size) /\ c.bytes = (m + n) * s
      /\ c.align = a.of.align
      /\ c.at = a.at \o Shift(b.at, m * s)
      /\ c.LEN = Evaluate(a.LEN, b.LEN, a.LEN + b.LEN)
      /\ c = Storage(c.of, c.size, c.LEN, c.bytes, c.align, c.at)
  BY <1>1, <1>5 DEF Concat, Storage
<1>7. c.size.math = m + n /\ c.size.USIZE = Evaluate(a.size.USIZE, b.size.USIZE, m + n)
  <2>1. c.size = Size("Sum", <<a.size, b.size>>, Evaluate(a.size.USIZE, b.size.USIZE, m + n), m + n)
    BY <1>6 DEF Sum
  <2> HIDE DEF c, m, n
  <2> QED BY <2>1 DEF Size
<1>8. IsItem(c)
  BY <1>1, <1>3, <1>4, <1>6 DEF IsItem
<1>9. c.at = Offsets(m + n, s)
  <2> HIDE DEF c, s, m, n
  <2>1. c.at = Offsets(m, s) \o Shift(Offsets(n, s), m * s)
    BY <1>1, <1>6, Zenon
  <2> QED BY <1>1, <2>1, OffsetsJoin, Zenon
<1>10. Counted(c)
  <2>1. a.LEN = a.size.USIZE /\ b.LEN = b.size.USIZE
    BY DEF IsStorage, Counted
  <2>2. CASE a.LEN # Overflow /\ b.LEN # Overflow
    <3>1. a.LEN = m /\ b.LEN = n
      BY <2>1, <2>2 DEF IsStorage, Counted, Compiles
    <3> QED BY <1>1, <1>3, <1>6, <1>7, <2>1, <3>1, OverflowIsRejected, OverflowAssumption
            DEF Counted, Compiles, Evaluate
  <2>3. CASE a.LEN = Overflow \/ b.LEN = Overflow
    BY <1>3, <1>6, <1>7, <2>1, <2>3, OverflowIsRejected DEF Counted, Compiles, Evaluate
  <2> QED BY <2>2, <2>3
<1> QED BY <1>6, <1>7, <1>8, <1>9, <1>10 DEF IsStorage, IsLaidOut

LEMMA DivMod ==
    ASSUME NEW m \in Nat, NEW n \in Nat, NEW j \in 0 .. n * m - 1
    PROVE  /\ m > 0
           /\ j \div m \in 0 .. n - 1 /\ j % m \in 0 .. m - 1
           /\ j = (j \div m) * m + (j % m)
<1>1. m > 0
  <2>1. CASE m = 0
    <3>1. n * m = 0
      BY <2>1
    <3> QED BY <3>1
  <2> QED BY <2>1
<1> DEFINE q == j \div m
           r == j % m
<1>2. q \in Int /\ r \in 0 .. m - 1 /\ j = q * m + r
  BY <1>1
<1> HIDE DEF q, r
<1>3. q >= 0
  <2> SUFFICES ASSUME q <= -1 PROVE FALSE
    BY <1>2
  <2>1. q * m <= -m
    BY <1>1, <1>2
  <2> QED BY <1>2, <2>1
<1>4. q < n
  <2> SUFFICES ASSUME q >= n PROVE FALSE
    BY <1>2
  <2>1. q * m >= n * m
    BY <1>1, <1>2
  <2> QED BY <1>2, <2>1, NaturalProducts
<1> QED BY <1>1, <1>2, <1>3, <1>4 DEF q, r

LEMMA Associates ==
    ASSUME NEW q \in Nat, NEW r \in Nat, NEW m \in Nat, NEW s \in Nat
    PROVE  q * (m * s) + r * s = (q * m + r) * s
<1>1. q * (m * s) = (q * m) * s /\ q * m \in Nat
  OBVIOUS
<1> QED BY <1>1, Distributes

\* n times m items, without gaps.
LEMMA OffsetsNest ==
    ASSUME NEW n \in Nat, NEW m \in Nat, NEW s \in Nat
    PROVE  Nested(Offsets(n, m * s), Offsets(m, s)) = Offsets(n * m, s)
<1> DEFINE outer == Offsets(n, m * s)
           inner == Offsets(m, s)
<1>1. m * s \in Nat /\ n * m \in Nat
  BY NaturalProducts
<1>2. /\ Len(outer) = n /\ \A k \in 1 .. n : outer[k] = (k - 1) * (m * s)
      /\ Len(inner) = m /\ \A k \in 1 .. m : inner[k] = (k - 1) * s
  <2>1. outer \in [1 .. n -> Nat] /\ inner \in [1 .. m -> Nat]
    BY <1>1, OffsetsAre
  <2> QED BY <1>1, <2>1, OffsetsAre, FunctionIsSequence
<1> HIDE DEF outer, inner
<1>3. ASSUME NEW k \in 1 .. n * m
      PROVE  outer[((k - 1) \div m) + 1] + inner[((k - 1) % m) + 1] = (k - 1) * s
  <2> DEFINE q == (k - 1) \div m
             r == (k - 1) % m
  <2>1. k - 1 \in 0 .. n * m - 1
    BY <1>1
  <2>2. q \in 0 .. n - 1 /\ r \in 0 .. m - 1 /\ k - 1 = q * m + r
    BY <2>1, DivMod
  <2> HIDE DEF q, r
  <2>3. q + 1 \in 1 .. n /\ (q + 1) - 1 = q /\ r + 1 \in 1 .. m /\ (r + 1) - 1 = r
    BY <2>2
  <2>4. outer[q + 1] = q * (m * s) /\ inner[r + 1] = r * s
    BY <1>2, <2>3
  <2>5. q * (m * s) + r * s = (q * m + r) * s
    BY <2>2, Associates
  <2>6. outer[q + 1] + inner[r + 1] = (k - 1) * s
    BY <2>2, <2>4, <2>5
  <2> QED BY <2>6 DEF q, r
<1>4. Nested(outer, inner) = Offsets(n * m, s)
  BY <1>2, <1>3 DEF Nested, Offsets
<1> QED BY <1>4 DEF outer, inner

\* A storage of storages, flattened.
LEMMA RepeatIsStorage ==
    ASSUME NEW i, IsStorage(i), NEW o, IsStorage(o), o.of = i
    PROVE  IsStorage(Repeat(i, o))
<1> DEFINE c == Repeat(i, o)
           s == i.of.bytes
           m == i.size.math
           n == o.size.math
<1>1. /\ s \in Nat /\ m \in Nat /\ n \in Nat
      /\ i.bytes = m * s /\ o.bytes = n * i.bytes /\ i.align = i.of.align /\ o.align = i.align
      /\ i.at = Offsets(m, s) /\ o.at = Offsets(n, m * s)
      /\ IsItem(i.of) /\ IsItem(o) /\ 2 * o.bytes < Modulus
  BY DEF IsStorage, IsItem, IsLaidOut, Counted
<1>2. /\ c.of = i.of /\ c.size = Prod(o.size, i.size) /\ c.bytes = o.bytes
      /\ c.align = o.align /\ c.at = Nested(o.at, i.at)
      /\ c.LEN = Evaluate(i.LEN, o.LEN, i.LEN * o.LEN)
      /\ c = Storage(c.of, c.size, c.LEN, c.bytes, c.align, c.at)
  BY DEF Repeat, Storage
<1>3. c.size.math = n * m /\ c.size.USIZE = Evaluate(o.size.USIZE, i.size.USIZE, n * m)
  <2>1. c.size = Size("Prod", <<o.size, i.size>>, Evaluate(o.size.USIZE, i.size.USIZE, n * m), n * m)
    BY <1>2 DEF Prod
  <2> HIDE DEF c, m, n
  <2> QED BY <2>1 DEF Size
<1>4. n * (m * s) = (n * m) * s /\ n * m \in Nat /\ m * n = n * m
  <2> HIDE DEF s, m, n
  <2> QED BY <1>1
<1>5. IsItem(c) /\ IsItem(c.of)
  BY <1>1, <1>2 DEF IsItem
<1>6. IsLaidOut(c)
  <2> HIDE DEF c, s, m, n
  <2>1. c.at = Offsets(n * m, s)
    BY <1>1, <1>2, OffsetsNest
  <2>2. c.bytes = (n * m) * s
    BY <1>1, <1>2, <1>4
  <2> QED BY <1>1, <1>2, <1>3, <2>1, <2>2 DEF IsLaidOut, s
<1>7. Counted(c)
  <2>1. i.LEN = i.size.USIZE /\ o.LEN = o.size.USIZE
    BY DEF IsStorage, Counted
  <2>2. CASE i.LEN # Overflow /\ o.LEN # Overflow
    <3>1. i.LEN = m /\ o.LEN = n
      BY <2>1, <2>2 DEF IsStorage, Counted, Compiles
    <3> HIDE DEF c, s, m, n
    <3> QED BY <1>1, <1>2, <1>3, <1>4, <2>1, <3>1, OverflowIsRejected, OverflowAssumption
            DEF Counted, Compiles, Evaluate
  <2>3. CASE i.LEN = Overflow \/ o.LEN = Overflow
    <3> HIDE DEF c, s, m, n
    <3> QED BY <1>2, <1>3, <1>4, <2>1, <2>3, OverflowIsRejected DEF Counted, Compiles, Evaluate
  <2> QED BY <2>2, <2>3
<1> QED BY <1>1, <1>2, <1>5, <1>6, <1>7 DEF IsStorage

-----------------------------------------------------------------------------

LEMMA LayoutStep == LayoutInv /\ [LayoutNext]_formed => LayoutInv'
<1> SUFFICES ASSUME LayoutInv, LayoutNext PROVE LayoutInv'
  BY DEF LayoutInv
<1>1. ASSUME NEW a, Form(a), IsStorage(a) PROVE LayoutInv'
  BY <1>1 DEF LayoutInv, Form
<1>2. ASSUME NEW t \in Values \cup formed, NEW n \in Lengths, Form(PlainArray(t, n))
      PROVE  LayoutInv'
  <2>1. IsItem(t)
    BY ValuesAssumption DEF LayoutInv, IsStorage, IsItem, Multiple
  <2>2. n \in Nat
    BY LengthsAssumption, ModulusAssumption DEF usize
  <2>3. IsStorage(PlainArray(t, n))
    BY <1>2, <2>1, <2>2, PlainArrayIsStorage DEF Form
  <2> QED BY <1>1, <1>2, <2>3
<1>3. ASSUME NEW a \in formed, NEW b \in formed, a.of = b.of, Form(Concat(a, b))
      PROVE  LayoutInv'
  <2>1. IsStorage(Concat(a, b))
    BY <1>3, ConcatIsStorage DEF LayoutInv, Form
  <2> QED BY <1>1, <1>3, <2>1
<1>4. ASSUME NEW i \in formed, NEW o \in formed, o.of = i, Form(Repeat(i, o))
      PROVE  LayoutInv'
  <2>1. IsStorage(Repeat(i, o))
    BY <1>4, RepeatIsStorage DEF LayoutInv
  <2> QED BY <1>1, <1>4, <2>1
<1> QED BY <1>2, <1>3, <1>4 DEF LayoutNext

\* Whatever storage types a program mentions, each is laid out as an array.
THEOREM LayoutInvariance == LayoutSpec => []LayoutInv
<1>1. LayoutInit => LayoutInv
  BY DEF LayoutInit, LayoutInv
<1> QED BY <1>1, LayoutStep, PTL DEF LayoutSpec

\* No padding anywhere, and item k at index k.
THEOREM StorageIsLaidOut == LayoutSpec => []LaidOut
<1>1. LayoutInv => LaidOut
  BY DEF LayoutInv, IsStorage, LaidOut
<1> QED BY <1>1, LayoutInvariance, PTL

\* The sanity check of the crate never fails to compile on its own account.
THEOREM LayoutAssertionsHold == LayoutSpec => []LayoutOK
<1>1. LayoutInv => LayoutOK
  <2> SUFFICES ASSUME LayoutInv, NEW a \in formed, Compiles(a.size)
               PROVE  /\ a.LEN = a.size.USIZE /\ a.align = a.of.align
                      /\ a.bytes = a.of.bytes * a.size.USIZE
    BY DEF LayoutOK
  <2>1. a.of.bytes \in Nat /\ a.size.math \in Nat
    BY DEF LayoutInv, IsStorage, IsItem, Counted
  <2>2. a.size.math * a.of.bytes = a.of.bytes * a.size.math
    BY <2>1
  <2> QED BY <2>2 DEF LayoutInv, IsStorage, IsLaidOut, Counted
<1> QED BY <1>1, LayoutInvariance, PTL

\* Two arrays of the same items whose lengths are equal have the same layout,
\* whatever their shapes: what every cast between sizes relies on.
THEOREM SameLengthSameLayout ==
    LayoutSpec => [](\A a, b \in formed :
        a.of = b.of /\ Compiles(a.size) /\ Compiles(b.size) /\ a.size.USIZE = b.size.USIZE
            => a.bytes = b.bytes /\ a.align = b.align /\ a.at = b.at)
<1>1. LayoutInv => \A a, b \in formed :
        a.of = b.of /\ Compiles(a.size) /\ Compiles(b.size) /\ a.size.USIZE = b.size.USIZE
            => a.bytes = b.bytes /\ a.align = b.align /\ a.at = b.at
  BY DEF LayoutInv, IsStorage, IsLaidOut, Counted
<1> QED BY <1>1, LayoutInvariance, PTL

-----------------------------------------------------------------------------
(***************************************************************************)
(* Lengths that overflow.                                                  *)
(***************************************************************************)

Overflows(a) == a.LEN = Overflow

\* Items without bytes, in as many numbers as do not fit into usize.
Root(a) == Overflows(a) /\ a.of.bytes = 0

\* Otherwise the type itself would be too large.
LEMMA TooManyAreEmpty ==
    ASSUME NEW c, IsStorage(c), c.size.math >= Modulus
    PROVE  c.of.bytes = 0
<1>1. /\ c.size.math \in Nat /\ c.of.bytes \in Nat /\ c.bytes = c.size.math * c.of.bytes
      /\ 2 * c.bytes < Modulus
  BY DEF IsStorage, IsItem, IsLaidOut, Counted
<1>2. ASSUME NEW n \in Nat, NEW s \in Nat, s # 0 PROVE n * s >= n
  BY <1>2
<1> QED BY <1>1, <1>2, ModulusAssumption

LEMMA ConcatOverflows ==
    ASSUME NEW a, IsStorage(a), NEW b, IsStorage(b), IsStorage(Concat(a, b)),
           Overflows(Concat(a, b)), ~Overflows(a), ~Overflows(b)
    PROVE  Root(Concat(a, b))
<1> DEFINE c == Concat(a, b)
<1>1. /\ a.LEN = a.size.math /\ b.LEN = b.size.math
      /\ a.size.math \in Nat /\ b.size.math \in Nat
  BY DEF IsStorage, Counted, Compiles, Overflows
<1>2. c.LEN = Evaluate(a.LEN, b.LEN, a.LEN + b.LEN) /\ c.size = Sum(a.size, b.size)
  BY DEF Concat, Storage
<1>3. c.size.math = a.size.math + b.size.math
  BY <1>2 DEF Sum, Size
<1>4. c.size.math >= Modulus
  <2>1. ~(a.size.math + b.size.math < Modulus)
    BY <1>1, <1>2, OverflowIsRejected, OverflowAssumption DEF Overflows, Evaluate
  <2> QED BY <1>1, <1>3, <2>1, ModulusAssumption
<1> QED BY <1>4, TooManyAreEmpty DEF Root

LEMMA RepeatOverflows ==
    ASSUME NEW i, IsStorage(i), NEW o, IsStorage(o), IsStorage(Repeat(i, o)),
           Overflows(Repeat(i, o)), ~Overflows(i), ~Overflows(o)
    PROVE  Root(Repeat(i, o))
<1> DEFINE c == Repeat(i, o)
           m == i.size.math
           n == o.size.math
<1>1. i.LEN = m /\ o.LEN = n /\ m \in Nat /\ n \in Nat
  BY DEF IsStorage, Counted, Compiles, Overflows
<1>2. c.LEN = Evaluate(i.LEN, o.LEN, i.LEN * o.LEN) /\ c.size = Prod(o.size, i.size)
  BY DEF Repeat, Storage
<1>3. c.size.math = n * m
  BY <1>2 DEF Prod, Size
<1>4. c.size.math >= Modulus
  <2> HIDE DEF m, n
  <2>1. n * m \in Nat /\ m * n = n * m
    BY <1>1
  <2>2. ~(n * m < Modulus)
    BY <1>1, <1>2, <2>1, OverflowIsRejected, OverflowAssumption DEF Overflows, Evaluate
  <2> QED BY <1>3, <2>1, <2>2, ModulusAssumption
<1> QED BY <1>4, TooManyAreEmpty DEF Root

\* The length of a plain array never overflows.
LEMMA PlainFits ==
    ASSUME NEW t, NEW n \in Lengths
    PROVE  ~Overflows(PlainArray(t, n))
BY LengthsAssumption, ModulusAssumption, OverflowAssumption
   DEF PlainArray, Storage, Overflows, usize

Rooted == \A a \in formed : Overflows(a) => \E b \in formed : Root(b)

LEMMA RootedStep == LayoutInv /\ Rooted /\ [LayoutNext]_formed => Rooted'
<1> SUFFICES ASSUME LayoutInv, Rooted, LayoutNext PROVE Rooted'
  BY DEF Rooted, Root, Overflows
<1>1. \A a \in formed' : IsStorage(a)
  BY LayoutStep DEF LayoutInv
<1>2. ASSUME NEW c, Form(c), Overflows(c) => Root(c) \/ \E b \in formed : Overflows(b)
      PROVE  Rooted'
  <2>1. formed' = formed \cup {c}
    BY <1>2 DEF Form
  <2> QED BY <1>2, <2>1 DEF Rooted
<1>3. ASSUME NEW t \in Values \cup formed, NEW n \in Lengths, Form(PlainArray(t, n))
      PROVE  Rooted'
  BY <1>2, <1>3, PlainFits
<1>4. ASSUME NEW a \in formed, NEW b \in formed, a.of = b.of, Form(Concat(a, b))
      PROVE  Rooted'
  <2>1. IsStorage(Concat(a, b)) /\ IsStorage(a) /\ IsStorage(b)
    BY <1>1, <1>4 DEF LayoutInv, Form
  <2> QED BY <1>2, <1>4, <2>1, ConcatOverflows
<1>5. ASSUME NEW i \in formed, NEW o \in formed, o.of = i, Form(Repeat(i, o))
      PROVE  Rooted'
  <2>1. IsStorage(Repeat(i, o)) /\ IsStorage(i) /\ IsStorage(o)
    BY <1>1, <1>5 DEF LayoutInv, Form
  <2> QED BY <1>2, <1>5, <2>1, RepeatOverflows
<1> QED BY <1>3, <1>4, <1>5 DEF LayoutNext

\* A LEN is the number of items, or there is none; and where there is none, the
\* program has an array of more items without bytes than usize can count.
THEOREM OverflowStartsEmpty == LayoutSpec => []OnlyEmptyOverflows
<1>1. LayoutInit => Rooted
  BY DEF LayoutInit, Rooted
<1>2. LayoutInv /\ Rooted => OnlyEmptyOverflows
  <2> SUFFICES ASSUME LayoutInv, Rooted, NEW a \in formed, a.LEN # Overflow PROVE a.LEN = Len(a.at)
    BY DEF OnlyEmptyOverflows, Rooted, Root, Overflows
  <2>1. /\ a.LEN = a.size.math /\ a.size.math \in Nat
        /\ a.at = Offsets(a.size.math, a.of.bytes) /\ a.of.bytes \in Nat
    BY DEF LayoutInv, IsStorage, IsItem, IsLaidOut, Counted, Compiles
  <2>2. Len(Offsets(a.size.math, a.of.bytes)) = a.size.math
    BY <2>1, OffsetsLength
  <2> QED BY <2>1, <2>2
<1> QED BY <1>1, <1>2, RootedStep, LayoutInvariance, PTL DEF LayoutSpec

=============================================================================
