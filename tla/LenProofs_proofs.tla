-------------------------- MODULE LenProofs_proofs --------------------------
(***************************************************************************)
(* A SameLen or AtMost never lies, for every width of usize, every set of  *)
(* sizes a program mentions and every way it composes proofs.              *)
(***************************************************************************)
EXTENDS LenProofs, TLAPS

IInv == TypeOK /\ ProofsOfMath

\* A size in the universe has a mathematical length.
LEMMA MathLength == ASSUME NEW s \in Universe PROVE s.math \in Nat
BY UniverseAssumption DEF IsSize

\* The constructors of sizes compute the mathematical length that they claim.
LEMMA MathOfSum == \A a, b : Sum(a, b).math = a.math + b.math
BY DEF Sum, Size

\* A product has the product of the lengths.
LEMMA MathOfProd == \A a, b : Prod(a, b).math = a.math * b.math
BY DEF Prod, Size

\* The length of Len<N> is N.
LEMMA MathOfLen == \A n : LenN(n).math = n
BY DEF LenN, Size

\* Sum, Prod and Len are sizes whenever their operands are: the evaluated
\* length, where there is one, is the mathematical length and fits usize.
LEMMA ConstructorsAreSizes ==
    ASSUME ~Wrapping, NEW a, NEW b, IsSize(a), IsSize(b), NEW n \in usize
    PROVE  IsSize(Sum(a, b)) /\ IsSize(Prod(a, b)) /\ IsSize(LenN(n))
<1> USE ModulusAssumption
<1>1. a.math \in Nat /\ b.math \in Nat
  BY DEF IsSize
<1>2. a.math + b.math \in Nat /\ a.math * b.math \in Nat
  BY <1>1
<1>3. IsSize(Sum(a, b))
  BY <1>2, OverflowAssumption DEF IsSize, Sum, Size, Evaluate, Compiles
<1>4. IsSize(Prod(a, b))
  BY <1>2, OverflowAssumption DEF IsSize, Prod, Size, Evaluate, Compiles
<1>5. IsSize(LenN(n))
  BY DEF IsSize, LenN, Size, Compiles, usize
<1> QED BY <1>3, <1>4, <1>5

\* Products of lengths respect the order of their factors.
LEMMA ProdMonotone ==
    ASSUME NEW a \in Nat, NEW b \in Nat, NEW c \in Nat, NEW d \in Nat, a <= b, c <= d
    PROVE  a * c <= b * d
<1>1. PICK k \in Nat : b = a + k
  <2>1. b - a \in Nat /\ b = a + (b - a)
    OBVIOUS
  <2> QED BY <2>1
<1>2. PICK l \in Nat : d = c + l
  <2>1. d - c \in Nat /\ d = c + (d - c)
    OBVIOUS
  <2> QED BY <2>1
<1>3. b * d = a * c + a * l + k * c + k * l
  BY <1>1, <1>2
<1>4. a * l \in Nat /\ k * c \in Nat /\ k * l \in Nat /\ a * c \in Nat
  BY <1>1, <1>2
<1> QED BY <1>3, <1>4

\* Comparing two evaluated lengths compares the mathematical ones.
LEMMA ComparisonsOfMath ==
    ASSUME ~Wrapping, NEW a \in Universe, NEW b \in Universe
    PROVE  /\ CompareSame(a, b) => a.math = b.math
           /\ CompareAtMost(a, b) => a.math <= b.math
BY UniverseAssumption DEF CompareSame, CompareAtMost, IsSize, Compiles

\* Every SameLen lemma relates sizes of the same mathematical length.
LEMMA SumLemmasOfMath == \A p \in SumLemmas : p[1].math = p[2].math
<1> SUFFICES ASSUME NEW p \in SumLemmas PROVE p[1].math = p[2].math
  OBVIOUS
<1> USE MathOfSum, MathOfLen
<1>1. Operands \subseteq Universe
  BY DEF Operands
<1>2. ASSUME NEW a \in Universe, p \in {Refl(a), SumZeroLeft(a), SumZeroRight(a)}
      PROVE  p[1].math = p[2].math
  <2>1. a.math \in Nat
    BY MathLength
  <2> QED BY <1>2, <2>1 DEF Refl, SumZeroLeft, SumZeroRight
<1>3. ASSUME NEW a \in Operands, NEW b \in Operands, p = SumComm(a, b)
      PROVE  p[1].math = p[2].math
  <2>1. a.math \in Nat /\ b.math \in Nat
    BY <1>1, MathLength
  <2> QED BY <1>3, <2>1 DEF SumComm
<1>4. ASSUME NEW a \in Operands, NEW b \in Operands, NEW c \in Operands, p = SumAssoc(a, b, c)
      PROVE  p[1].math = p[2].math
  <2>1. a.math \in Nat /\ b.math \in Nat /\ c.math \in Nat
    BY <1>1, MathLength
  <2> QED BY <1>4, <2>1 DEF SumAssoc
<1> QED BY <1>2, <1>3, <1>4 DEF SumLemmas

\* So do the lemmas about products.
LEMMA ProdLemmasOfMath == \A p \in ProdLemmas : p[1].math = p[2].math
<1> SUFFICES ASSUME NEW p \in ProdLemmas PROVE p[1].math = p[2].math
  OBVIOUS
<1> USE MathOfSum, MathOfProd, MathOfLen
<1>1. Operands \subseteq Universe
  BY DEF Operands
<1>2. ASSUME NEW a \in Universe, p \in {ProdOneLeft(a), ProdOneRight(a)}
      PROVE  p[1].math = p[2].math
  <2>1. a.math \in Nat
    BY MathLength
  <2> QED BY <1>2, <2>1 DEF ProdOneLeft, ProdOneRight
<1>3. ASSUME NEW a \in Operands, NEW b \in Operands, p = ProdComm(a, b)
      PROVE  p[1].math = p[2].math
  <2>1. a.math \in Nat /\ b.math \in Nat
    BY <1>1, MathLength
  <2> QED BY <1>3, <2>1 DEF ProdComm
<1>4. ASSUME NEW a \in Operands, NEW b \in Operands, NEW c \in Operands,
             p \in {ProdAssoc(a, b, c), DistribLeft(a, b, c), DistribRight(a, b, c)}
      PROVE  p[1].math = p[2].math
  <2>1. a.math \in Nat /\ b.math \in Nat /\ c.math \in Nat
    BY <1>1, MathLength
  <2>2. /\ (a.math * b.math) * c.math = a.math * (b.math * c.math)
        /\ a.math * (b.math + c.math) = a.math * b.math + a.math * c.math
        /\ (a.math + b.math) * c.math = a.math * c.math + b.math * c.math
    BY <2>1
  <2> QED BY <1>4, <2>2 DEF ProdAssoc, DistribLeft, DistribRight
<1> QED BY <1>2, <1>3, <1>4 DEF ProdLemmas

\* Every AtMost lemma relates a size to one that is mathematically as long.
LEMMA AtMostLemmasOfMath == \A p \in AtMostLemmas : p[1].math <= p[2].math
<1> SUFFICES ASSUME NEW p \in AtMostLemmas PROVE p[1].math <= p[2].math
  OBVIOUS
<1> USE MathOfSum, MathOfLen
<1>1. Operands \subseteq Universe
  BY DEF Operands
<1>2. ASSUME NEW a \in Universe, p \in {Refl(a), Zero(a)}
      PROVE  p[1].math <= p[2].math
  <2>1. a.math \in Nat
    BY MathLength
  <2> QED BY <1>2, <2>1 DEF Refl, Zero
<1>3. ASSUME NEW a \in Operands, NEW b \in Operands, p \in {PrefixOfSum(a, b), SuffixOfSum(a, b)}
      PROVE  p[1].math <= p[2].math
  <2>1. a.math \in Nat /\ b.math \in Nat
    BY <1>1, MathLength
  <2> QED BY <1>3, <2>1 DEF PrefixOfSum, SuffixOfSum
<1> QED BY <1>2, <1>3 DEF AtMostLemmas

-----------------------------------------------------------------------------

\* A program starts with no proofs.
LEMMA InitInv == Init => IInv
BY DEF Init, IInv, TypeOK, ProofsOfMath

\* A new proof of a mathematical fact keeps the invariant.
LEMMA NewSameInv ==
    ASSUME IInv, NEW a, NEW b, NewSame(a, b), a.math = b.math
    PROVE  IInv'
BY DEF IInv, TypeOK, ProofsOfMath, NewSame

\* The same for an AtMost.
LEMMA NewAtMostInv ==
    ASSUME IInv, NEW a, NEW b, NewAtMost(a, b), a.math <= b.math
    PROVE  IInv'
BY DEF IInv, TypeOK, ProofsOfMath, NewAtMost

\* Composition keeps it: the facts compose as equations and inequations do.
LEMMA ComposeInv == IInv /\ Compose => IInv'
<1> SUFFICES ASSUME IInv, Compose PROVE IInv'
  OBVIOUS
<1>1. \A p \in same \cup atMost : p[1].math \in Nat /\ p[2].math \in Nat
  BY MathLength DEF IInv, TypeOK
<1>2. ASSUME NEW p \in same, Symm(p) \/ AtMostOfSame(p) PROVE IInv'
  BY <1>1, <1>2, NewSameInv, NewAtMostInv DEF IInv, ProofsOfMath, Symm, AtMostOfSame
<1>3. ASSUME NEW p \in same, NEW q \in same, Trans(p, q) \/ SameSum(p, q) \/ SameProd(p, q)
      PROVE  IInv'
  <2>1. p[1].math = p[2].math /\ q[1].math = q[2].math
    BY DEF IInv, ProofsOfMath
  <2> QED BY <1>3, <2>1, NewSameInv, MathOfSum, MathOfProd, MathOfLen DEF Trans, SameSum, SameProd
<1>4. ASSUME NEW p \in atMost, NEW q \in atMost
      PROVE  AtMostTrans(p, q) \/ AtMostSum(p, q) \/ AtMostProd(p, q) \/ Antisymm(p, q) => IInv'
  <2>1. p[1].math <= p[2].math /\ q[1].math <= q[2].math
    BY DEF IInv, ProofsOfMath
  <2>2. /\ p[1].math \in Nat /\ p[2].math \in Nat
        /\ q[1].math \in Nat /\ q[2].math \in Nat
    BY <1>1
  <2>3. AtMostTrans(p, q) => IInv'
    BY <2>1, <2>2, NewAtMostInv DEF AtMostTrans
  <2>4. AtMostSum(p, q) => IInv'
    BY <2>1, <2>2, NewAtMostInv, MathOfSum, MathOfProd, MathOfLen DEF AtMostSum
  <2>5. AtMostProd(p, q) => IInv'
    <3>1. p[1].math * q[1].math <= p[2].math * q[2].math
      BY <2>1, <2>2, ProdMonotone
    <3> QED BY <3>1, NewAtMostInv, MathOfSum, MathOfProd, MathOfLen DEF AtMostProd
  <2>6. Antisymm(p, q) => IInv'
    BY <2>1, <2>2, NewSameInv DEF Antisymm
  <2> QED BY <2>3, <2>4, <2>5, <2>6
<1> QED BY <1>2, <1>3, <1>4 DEF Compose

\* No step of a program makes a proof of a false fact.
LEMMA StepInv == ~Wrapping /\ IInv /\ [Next]_vars => IInv'
<1> SUFFICES ASSUME ~Wrapping, IInv, [Next]_vars PROVE IInv'
  OBVIOUS
<1>1. CASE Compare
  <2>1. PICK a \in Universe, b \in Universe : SameTryNew(a, b) \/ AtMostTryNew(a, b)
    BY <1>1 DEF Compare
  <2> QED BY <2>1, ComparisonsOfMath, NewSameInv, NewAtMostInv DEF SameTryNew, AtMostTryNew
<1>2. CASE Lemma
  BY <1>2, SumLemmasOfMath, ProdLemmasOfMath, AtMostLemmasOfMath, NewSameInv, NewAtMostInv
     DEF Lemma, SameLemmas, LemmasAtMost
<1>3. CASE Compose
  BY <1>3, ComposeInv
<1>4. CASE UNCHANGED vars
  BY <1>4 DEF vars, IInv, TypeOK, ProofsOfMath
<1> QED BY <1>1, <1>2, <1>3, <1>4 DEF Next

\* The mathematical fact is the fact about the lengths that the code uses.
LEMMA MathIsEnough == ~Wrapping /\ IInv => SameLenSound /\ AtMostSound
BY UniverseAssumption DEF IInv, TypeOK, ProofsOfMath, SameLenSound, AtMostSound, IsSize

\* Every proof value holds of the mathematical lengths, also of sizes whose
\* own length overflows.
THEOREM ProofsHoldOfMath == ASSUME ~Wrapping PROVE Spec => []ProofsOfMath
<1>1. IInv => ProofsOfMath
  BY DEF IInv
<1> QED BY <1>1, InitInv, StepInv, PTL DEF Spec

\* The invariant at SameLen, which the unsafe code of array.rs relies on: a
\* SameLen<A, B> exists only for equal lengths.
THEOREM SameLenIsSound == ASSUME ~Wrapping PROVE Spec => []SameLenSound
BY InitInv, StepInv, MathIsEnough, PTL DEF Spec

\* The invariant at AtMost: an AtMost<A, B> exists only if A is not longer.
THEOREM AtMostIsSound == ASSUME ~Wrapping PROVE Spec => []AtMostSound
BY InitInv, StepInv, MathIsEnough, PTL DEF Spec

-----------------------------------------------------------------------------
(***************************************************************************)
(* With a compiler that wraps around, a length is only known modulo 2^w.   *)
(* Congruences compose as equations do, but inequations do not: the        *)
(* SameLen lemmas survive, as long as no AtMost is involved.               *)
(***************************************************************************)

\* Division with remainder.
LEMMA ModSplit ==
    ASSUME NEW m \in Nat
    PROVE  m \div Modulus \in Nat /\ m % Modulus \in usize /\ m = (m \div Modulus) * Modulus + (m % Modulus)
<1> USE ModulusAssumption
<1>1. m % Modulus \in usize /\ m \div Modulus \in Nat
  BY DEF usize
<1>2. m = Modulus * (m \div Modulus) + (m % Modulus)
  OBVIOUS
<1> QED BY <1>1, <1>2

\* The remainder is unique.
LEMMA ModUnique ==
    ASSUME NEW q \in Nat, NEW r \in usize
    PROVE  (q * Modulus + r) % Modulus = r
<1> USE ModulusAssumption
<1> DEFINE n == q * Modulus + r
           d == n \div Modulus
           e == n % Modulus
<1>1. n \in Nat /\ r \in Nat /\ r < Modulus
  BY DEF usize
<1>2. d \in Nat /\ e \in 0 .. Modulus - 1 /\ n = d * Modulus + e
  <2> HIDE DEF n
  <2> QED BY <1>1, ModSplit DEF usize
<1>3. (d - q) * Modulus = r - e
  <2>1. d * Modulus + e = q * Modulus + r
    BY <1>2
  <2>2. (d - q) * Modulus = d * Modulus - q * Modulus
    <3> HIDE DEF d
    <3> QED BY <1>2
  <2>3. d * Modulus \in Nat /\ q * Modulus \in Nat
    <3> HIDE DEF d
    <3> QED BY <1>2
  <2> HIDE DEF d, e
  <2> QED BY <2>1, <2>2, <2>3, <1>1, <1>2
<1>4. d = q
  <2> HIDE DEF d, e
  <2>1. CASE d - q >= 1
    <3>1. (d - q) * Modulus >= Modulus
      BY <2>1, <1>2
    <3> QED BY <3>1, <1>1, <1>2, <1>3
  <2>2. CASE d - q <= -1
    <3>1. (d - q) * Modulus <= -Modulus
      BY <2>2, <1>2
    <3> QED BY <3>1, <1>1, <1>2, <1>3
  <2> QED BY <2>1, <2>2, <1>2
<1>5. r - e = 0
  <2> HIDE DEF d, e
  <2> QED BY <1>3, <1>4
<1>6. e = r
  <2> HIDE DEF e
  <2> QED BY <1>5, <1>1, <1>2
<1> QED BY <1>6

\* Multiples of 2^w wrap around to nothing.
LEMMA ModShift ==
    ASSUME NEW q \in Nat, NEW t \in Nat
    PROVE  (q * Modulus + t) % Modulus = t % Modulus
<1> USE ModulusAssumption
<1>1. PICK p \in Nat, u \in usize : t = p * Modulus + u /\ u = t % Modulus
  BY ModSplit
<1>2. q * Modulus + t = (q + p) * Modulus + u
  BY <1>1 DEF usize
<1>3. q + p \in Nat
  OBVIOUS
<1>4. ((q + p) * Modulus + u) % Modulus = u
  BY <1>3, ModUnique
<1> QED BY <1>1, <1>2, <1>4, Zenon

\* Two lengths that are the same to a machine that wraps around.
Congruent(m, n) == m % Modulus = n % Modulus

\* They may be exchanged in sums and products.
LEMMA CongruentSums ==
    ASSUME NEW a \in Nat, NEW b \in Nat, NEW c \in Nat, NEW d \in Nat,
           Congruent(a, b), Congruent(c, d)
    PROVE  Congruent(a + c, b + d) /\ Congruent(a * c, b * d)
<1> USE ModulusAssumption
<1> DEFINE r == a % Modulus
           s == c % Modulus
<1>0. r \in Nat /\ s \in Nat
  OBVIOUS
<1>1. ASSUME NEW x \in Nat, NEW y \in Nat, x % Modulus = r, y % Modulus = s
      PROVE  (x + y) % Modulus = (r + s) % Modulus /\ (x * y) % Modulus = (r * s) % Modulus
  <2> HIDE DEF r, s
  <2>1. PICK p \in Nat : x = p * Modulus + r
    BY <1>1, ModSplit
  <2>2. PICK q \in Nat : y = q * Modulus + s
    BY <1>1, ModSplit
  <2>3. x + y = (p + q) * Modulus + (r + s)
    BY <2>1, <2>2, <1>0
  <2>4. x * y = (p * q * Modulus + p * s + r * q) * Modulus + r * s
    <3>1. x * y = (p * Modulus + r) * (q * Modulus + s)
      BY <2>1, <2>2
    <3>2. (p * Modulus + r) * (q * Modulus + s)
            = (p * Modulus) * (q * Modulus) + (p * Modulus) * s + r * (q * Modulus) + r * s
      BY <1>0
    <3>3. /\ (p * Modulus) * (q * Modulus) = (p * q * Modulus) * Modulus
          /\ (p * Modulus) * s = (p * s) * Modulus
          /\ r * (q * Modulus) = (r * q) * Modulus
      BY <1>0
    <3>4. (p * q * Modulus + p * s + r * q) * Modulus
            = (p * q * Modulus) * Modulus + (p * s) * Modulus + (r * q) * Modulus
      BY <1>0
    <3> QED BY <3>1, <3>2, <3>3, <3>4
  <2>5. p * q * Modulus + p * s + r * q \in Nat /\ p + q \in Nat /\ r + s \in Nat /\ r * s \in Nat
    BY <1>0
  <2>6. \A t, u \in Nat : (t * Modulus + u) % Modulus = u % Modulus
    BY ModShift
  <2>7. (x + y) % Modulus = (r + s) % Modulus
    <3>1. ((p + q) * Modulus + (r + s)) % Modulus = (r + s) % Modulus
      BY <2>5, <2>6
    <3> QED BY <2>3, <3>1, Zenon
  <2>8. (x * y) % Modulus = (r * s) % Modulus
    <3>1. ((p * q * Modulus + p * s + r * q) * Modulus + r * s) % Modulus = (r * s) % Modulus
      BY <2>5, <2>6, Zenon
    <3> QED BY <2>4, <3>1, Zenon
  <2> QED BY <2>7, <2>8
<1>2. b % Modulus = r /\ d % Modulus = s
  BY DEF Congruent
<1> HIDE DEF r, s
<1>3. a % Modulus = r /\ c % Modulus = s
  BY DEF r, s
<1> QED BY <1>1, <1>2, <1>3 DEF Congruent

\* Until an AtMost exists, what a SameLen relates is the same to this machine.
WrapInv == TypeOK /\ (atMost = {} => \A p \in same : Congruent(p[1].math, p[2].math))

\* A new SameLen of congruent lengths keeps this, and a new AtMost does always.
LEMMA NewProofWraps ==
    ASSUME WrapInv, NEW a, NEW b
    PROVE  /\ NewAtMost(a, b) => WrapInv'
           /\ NewSame(a, b) /\ (atMost = {} => Congruent(a.math, b.math)) => WrapInv'
<1>1. ASSUME NewAtMost(a, b) PROVE WrapInv'
  <2>1. TypeOK'
    BY <1>1 DEF WrapInv, TypeOK, NewAtMost
  <2>2. <<a, b>> \in atMost'
    BY <1>1 DEF NewAtMost
  <2> QED BY <2>1, <2>2 DEF WrapInv
<1>2. ASSUME NewSame(a, b), atMost = {} => Congruent(a.math, b.math) PROVE WrapInv'
  <2>1. TypeOK' /\ atMost' = atMost /\ same' = same \cup {<<a, b>>}
    BY <1>2 DEF WrapInv, TypeOK, NewSame
  <2> QED BY <1>2, <2>1 DEF WrapInv, Congruent
<1> QED BY <1>1, <1>2

\* Comparing lengths that have wrapped around gives congruences.
LEMMA ComparisonsWrap ==
    ASSUME Wrapping, NEW a \in Universe, NEW b \in Universe, CompareSame(a, b)
    PROVE  Congruent(a.math, b.math)
BY UniverseAssumption DEF CompareSame, IsSize, Congruent

\* Composition keeps it.
LEMMA ComposeWraps == WrapInv /\ Compose => WrapInv'
<1> SUFFICES ASSUME WrapInv, Compose PROVE WrapInv'
  OBVIOUS
<1>1. \A p \in same : p[1].math \in Nat /\ p[2].math \in Nat
  BY MathLength DEF WrapInv, TypeOK
<1>2. ASSUME NEW p \in same, Symm(p) \/ AtMostOfSame(p) PROVE WrapInv'
  <2>1. atMost = {} => Congruent(p[2].math, p[1].math)
    BY DEF WrapInv, Congruent
  <2> QED BY <1>2, <2>1, NewProofWraps DEF Symm, AtMostOfSame
<1>3. ASSUME NEW p \in same, NEW q \in same, Trans(p, q) \/ SameSum(p, q) \/ SameProd(p, q)
      PROVE  WrapInv'
  <2>1. atMost = {} => Congruent(p[1].math, p[2].math) /\ Congruent(q[1].math, q[2].math)
    BY DEF WrapInv
  <2>2. Trans(p, q) => WrapInv'
    BY <2>1, NewProofWraps DEF Trans, Congruent
  <2>3. atMost = {} => /\ Congruent(p[1].math + q[1].math, p[2].math + q[2].math)
                       /\ Congruent(p[1].math * q[1].math, p[2].math * q[2].math)
    BY <1>1, <2>1, CongruentSums
  <2>4. SameSum(p, q) => WrapInv'
    BY <2>3, NewProofWraps, MathOfSum DEF SameSum
  <2>5. SameProd(p, q) => WrapInv'
    BY <2>3, NewProofWraps, MathOfProd DEF SameProd
  <2> QED BY <1>3, <2>2, <2>4, <2>5
<1>4. ASSUME NEW p \in atMost, NEW q \in atMost,
             AtMostTrans(p, q) \/ AtMostSum(p, q) \/ AtMostProd(p, q) \/ Antisymm(p, q)
      PROVE  WrapInv'
  BY <1>4, NewProofWraps DEF AtMostTrans, AtMostSum, AtMostProd, Antisymm
<1> QED BY <1>2, <1>3, <1>4 DEF Compose

\* "The SameLen lemmas also hold for wrapping arithmetic": for every width of
\* usize, a program without an AtMost has no SameLen of different lengths.
THEOREM SameLenSurvivesWrapping == ASSUME Wrapping PROVE Spec => []SameLenSoundAlone
<1>1. Init => WrapInv
  BY DEF Init, WrapInv, TypeOK
<1>2. WrapInv /\ [Next]_vars => WrapInv'
  <2> SUFFICES ASSUME WrapInv, [Next]_vars PROVE WrapInv'
    OBVIOUS
  <2>1. CASE Compare
    <3>1. PICK a \in Universe, b \in Universe : SameTryNew(a, b) \/ AtMostTryNew(a, b)
      BY <2>1 DEF Compare
    <3> QED BY <3>1, ComparisonsWrap, NewProofWraps DEF SameTryNew, AtMostTryNew
  <2>2. CASE Lemma
    <3>1. ASSUME NEW p \in SameLemmas, NewSame(p[1], p[2]) PROVE WrapInv'
      <4>1. p[1].math = p[2].math
        BY SumLemmasOfMath, ProdLemmasOfMath DEF SameLemmas
      <4> QED BY <3>1, <4>1, NewProofWraps DEF Congruent
    <3>2. ASSUME NEW p \in LemmasAtMost, NewAtMost(p[1], p[2]) PROVE WrapInv'
      BY <3>2, NewProofWraps
    <3> QED BY <2>2, <3>1, <3>2 DEF Lemma
  <2>3. CASE Compose
    BY <2>3, ComposeWraps
  <2>4. CASE UNCHANGED vars
    BY <2>4 DEF vars, WrapInv, TypeOK
  <2> QED BY <2>1, <2>2, <2>3, <2>4 DEF Next
<1>3. WrapInv => SameLenSoundAlone
  BY UniverseAssumption DEF WrapInv, TypeOK, SameLenSoundAlone, SameLenSound, IsSize, Congruent
<1> QED BY <1>1, <1>2, <1>3, PTL DEF Spec

==================================================
