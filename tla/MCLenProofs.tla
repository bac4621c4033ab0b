---------------------------- MODULE MCLenProofs ----------------------------
(***************************************************************************)
(* A program that mentions three lengths and every size that a lemma       *)
(* builds from them in one step.                                           *)
(***************************************************************************)
EXTENDS LenProofs

CONSTANTS X, Y, Z   \* the three lengths

MCUniverse ==
    LET a == LenN(X)  b == LenN(Y)  c == LenN(Z) IN
    {a, b, c, LenN(0), LenN(1),
     Sum(a, b), Sum(b, a), Sum(b, c), Sum(Sum(a, b), c), Sum(a, Sum(b, c)),
     Sum(LenN(0), a), Sum(a, LenN(0)),
     Prod(a, b), Prod(b, a), Prod(b, c), Prod(a, c),
     Prod(Prod(a, b), c), Prod(a, Prod(b, c)),
     Prod(LenN(1), a), Prod(a, LenN(1)),
     Prod(a, Sum(b, c)), Sum(Prod(a, b), Prod(a, c)),
     Prod(Sum(a, b), c), Sum(Prod(a, c), Prod(b, c))}

=============================================================================
