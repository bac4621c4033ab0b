------------------------------ MODULE MCMoves ------------------------------
(***************************************************************************)
(* A client that mentions lengths up to four, also as nested sums and      *)
(* products, of which several have the same length in different shapes.    *)
(* Its variables are interchangeable.                                      *)
(***************************************************************************)
EXTENDS Moves, TLC

MCUniverse ==
    LET zero == LenN(0)  one == LenN(1)  two == LenN(2)  three == LenN(3) IN
    {zero, one, two, three,
     Sum(one, two), Sum(zero, two), Sum(one, one),
     Prod(two, two), Prod(three, one),
     Sum(Sum(one, two), one), Prod(Sum(one, one), two)}

MCSymmetry == Permutations(Handles)

=============================================================================
