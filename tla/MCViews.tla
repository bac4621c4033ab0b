------------------------------ MODULE MCViews ------------------------------
(***************************************************************************)
(* A client that mentions three plain lengths, and sums and products of     *)
(* them that fit usize, also nested ones and ones of length 0.             *)
(***************************************************************************)
EXTENDS Views

MCUniverse ==
    LET zero == LenN(0)  one == LenN(1)  two == LenN(2) IN
    {zero, one, two, Sum(one, two), Sum(Sum(one, two), one),
     Prod(two, two), Prod(zero, two)}

=============================================================================
