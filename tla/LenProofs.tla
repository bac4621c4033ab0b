----------------------------- MODULE LenProofs -----------------------------
(***************************************************************************)
(* The proof values SameLen<A, B> and AtMost<A, B> of src/same_len.rs and  *)
(* src/at_most.rs.  They hold no data, so all they say is that they exist: *)
(* unsafe code reinterprets memory because it was handed one.  A program   *)
(* obtains them by comparing two lengths and by the lemmas, in any order   *)
(* and number; most lemmas check nothing and evaluate no length.           *)
(***************************************************************************)
EXTENDS Sizes, FiniteSets, Functions

CONSTANTS
    Universe,   \* the sizes a program mentions
    MaxBasic,   \* bound on the proofs it holds when it compares or cites a lemma
    MaxProofs   \* bound on the proofs it holds when it composes two

ASSUME UniverseAssumption ==
    \A s \in Universe : IsSize(s) /\ Range(s.parts) \subseteq Universe
ASSUME BoundsAssumption == MaxBasic \in Nat /\ MaxProofs \in Nat

VARIABLES
    same,       \* the pairs <<A, B>> for which a SameLen<A, B> exists
    atMost      \* the pairs <<A, B>> for which an AtMost<A, B> exists

vars == <<same, atMost>>

Init == same = {} /\ atMost = {}

\* The program obtains a SameLen<a, b>, an AtMost<a, b>.
NewSame(a, b) ==
    /\ a \in Universe /\ b \in Universe
    /\ same' = same \cup {<<a, b>>}
    /\ UNCHANGED atMost

NewAtMost(a, b) ==
    /\ a \in Universe /\ b \in Universe
    /\ atMost' = atMost \cup {<<a, b>>}
    /\ UNCHANGED same

\* The lengths are compared: by try_new at run time, where the answer may be
\* None, and by checked, same_len! and at_most! when the program is compiled.
CompareSame(a, b) == Compiles(a) /\ Compiles(b) /\ a.USIZE = b.USIZE
\* A bug: the comparison is the wrong way round.
CompareAtLeast(a, b) == Compiles(a) /\ Compiles(b) /\ a.USIZE >= b.USIZE

CompareAtMost(a, b) == Compiles(a) /\ Compiles(b) /\ a.USIZE <= b.USIZE

SameTryNew(a, b) == CompareSame(a, b) /\ NewSame(a, b)
AtMostTryNew(a, b) == CompareAtMost(a, b) /\ NewAtMost(a, b)

-----------------------------------------------------------------------------
\* Proofs from proofs.

Symm(p) == NewSame(p[2], p[1])
\* A bug: `_other` may start at any size instead of B.
TransFromAny(p, q) == NewSame(p[1], q[2])

Trans(p, q) == p[2] = q[1] /\ NewSame(p[1], q[2])
SameSum(p, q) == NewSame(Sum(p[1], q[1]), Sum(p[2], q[2]))
SameProd(p, q) == NewSame(Prod(p[1], q[1]), Prod(p[2], q[2]))

AtMostTrans(p, q) == p[2] = q[1] /\ NewAtMost(p[1], q[2])
AtMostSum(p, q) == NewAtMost(Sum(p[1], q[1]), Sum(p[2], q[2]))
AtMostProd(p, q) == NewAtMost(Prod(p[1], q[1]), Prod(p[2], q[2]))

\* SameLen::at_most and AtMost::antisymm lead from one relation to the other.
AtMostOfSame(p) == NewAtMost(p[1], p[2])
\* A bug: the second proof need not end where the first begins.
AntisymmOneSided(p, q) == p[2] = q[1] /\ NewSame(p[1], p[2])

Antisymm(p, q) == p[1] = q[2] /\ p[2] = q[1] /\ NewSame(p[1], p[2])

-----------------------------------------------------------------------------
\* The lemmas about every size: the pairs of sizes they relate.

Refl(a) == <<a, a>>
SumComm(a, b) == <<Sum(a, b), Sum(b, a)>>

\* A bug: sum_assoc for (A + B) + C and B + C.
SumAssocDropsFirst(a, b, c) == <<Sum(Sum(a, b), c), Sum(b, c)>>

SumAssoc(a, b, c) == <<Sum(Sum(a, b), c), Sum(a, Sum(b, c))>>
SumZeroLeft(a) == <<Sum(LenN(0), a), a>>
SumZeroRight(a) == <<Sum(a, LenN(0)), a>>
ProdComm(a, b) == <<Prod(a, b), Prod(b, a)>>
ProdAssoc(a, b, c) == <<Prod(Prod(a, b), c), Prod(a, Prod(b, c))>>
ProdOneLeft(a) == <<Prod(LenN(1), a), a>>
ProdOneRight(a) == <<Prod(a, LenN(1)), a>>
DistribLeft(a, b, c) == <<Prod(a, Sum(b, c)), Sum(Prod(a, b), Prod(a, c))>>
DistribRight(a, b, c) == <<Prod(Sum(a, b), c), Sum(Prod(a, c), Prod(b, c))>>

PrefixOfSum(a, b) == <<a, Sum(a, b)>>
SuffixOfSum(a, b) == <<b, Sum(a, b)>>
Zero(a) == <<LenN(0), a>>

\* The lemmas relate sums and products that the program mentions, so it is
\* enough to apply them to the operands of those.
Operands == {s \in Universe : \E t \in Universe : s \in Range(t.parts)}

SumLemmas ==
    {Refl(a) : a \in Universe}
    \cup {SumZeroLeft(a) : a \in Universe} \cup {SumZeroRight(a) : a \in Universe}
    \cup {SumComm(a, b) : a, b \in Operands}
    \cup {SumAssoc(a, b, c) : a, b, c \in Operands}

ProdLemmas ==
    {ProdOneLeft(a) : a \in Universe} \cup {ProdOneRight(a) : a \in Universe}
    \cup {ProdComm(a, b) : a, b \in Operands}
    \cup {ProdAssoc(a, b, c) : a, b, c \in Operands}
    \cup {DistribLeft(a, b, c) : a, b, c \in Operands}
    \cup {DistribRight(a, b, c) : a, b, c \in Operands}

AtMostLemmas ==
    {Refl(a) : a \in Universe} \cup {Zero(a) : a \in Universe}
    \cup {PrefixOfSum(a, b) : a, b \in Operands}
    \cup {SuffixOfSum(a, b) : a, b \in Operands}

Pairs == Universe \X Universe
SameLemmas == Pairs \cap (SumLemmas \cup ProdLemmas)
LemmasAtMost == Pairs \cap AtMostLemmas

-----------------------------------------------------------------------------

Compare == \E a, b \in Universe : SameTryNew(a, b) \/ AtMostTryNew(a, b)

Compose ==
    \/ \E p \in same : Symm(p) \/ AtMostOfSame(p)
    \/ \E p, q \in same : Trans(p, q) \/ SameSum(p, q) \/ SameProd(p, q)
    \/ \E p, q \in atMost :
          AtMostTrans(p, q) \/ AtMostSum(p, q) \/ AtMostProd(p, q) \/ Antisymm(p, q)

Lemma ==
    \/ \E p \in SameLemmas : NewSame(p[1], p[2])
    \/ \E p \in LemmasAtMost : NewAtMost(p[1], p[2])

Fewer(n) == Cardinality(same) + Cardinality(atMost) < n

Next ==
    \/ Fewer(MaxBasic) /\ (Compare \/ Lemma)
    \/ Fewer(MaxProofs) /\ Compose

Spec == Init /\ [][Next]_vars

-----------------------------------------------------------------------------

TypeOK ==
    /\ same \subseteq Universe \X Universe
    /\ atMost \subseteq Universe \X Universe

\* The invariant written at SameLen: a SameLen<A, B> exists only if A::USIZE
\* equals B::USIZE.  Code that relies on it evaluates both lengths, so it
\* need not hold of sizes that do not compile.
SameLenSound ==
    \A p \in same : Compiles(p[1]) /\ Compiles(p[2]) => p[1].USIZE = p[2].USIZE

\* "The SameLen lemmas also hold for wrapping arithmetic": as long as no AtMost
\* was involved, a length that wraps around makes no SameLen false.
SameLenSoundAlone == atMost = {} => SameLenSound

\* The invariant written at AtMost: an AtMost<A, B> exists only if A::USIZE is
\* at most B::USIZE.
AtMostSound ==
    \A p \in atMost : Compiles(p[1]) /\ Compiles(p[2]) => p[1].USIZE <= p[2].USIZE

\* What makes the two inductive: a chain of lemmas may lead through a size that
\* does not compile, of which the evaluated lengths say nothing.
ProofsOfMath ==
    /\ \A p \in same : p[1].math = p[2].math
    /\ \A p \in atMost : p[1].math <= p[2].math

=============================================================================
