------------------------------- MODULE Sizes -------------------------------
(***************************************************************************)
(* The array lengths of src/size.rs: Len<N>, Sum<A, B> and Prod<A, B>.     *)
(* They are types, and USIZE is a constant that the compiler evaluates.    *)
(* A size is a record of its shape, its USIZE, and `math`, the length      *)
(* it would have in unbounded arithmetic, which no code ever computes.     *)
(*                                                                         *)
(* Constant evaluation rejects a sum or product that does not fit usize,   *)
(* and every size that contains one; USIZE is then Overflow, and no code   *)
(* that evaluates it compiles.  With Wrapping, the evaluation wraps        *)
(* around instead, as it would without the overflow check.                 *)
(***************************************************************************)
EXTENDS Integers

CONSTANTS
    Modulus,    \* usize::MAX + 1
    Wrapping,   \* TRUE for the hypothetical compiler that wraps around
    Overflow    \* the USIZE of a size that does not compile

ASSUME ModulusAssumption == Modulus \in Nat /\ Modulus > 1
ASSUME WrappingAssumption == Wrapping \in BOOLEAN
ASSUME OverflowAssumption == Overflow \notin Nat

usize == 0 .. Modulus - 1

\* A constant expression whose operands are x and y and whose value is n.
Evaluate(x, y, n) ==
    IF Wrapping THEN n % Modulus
    ELSE IF x # Overflow /\ y # Overflow /\ n < Modulus THEN n
    ELSE Overflow

Size(kind, parts, n, m) == [kind |-> kind, parts |-> parts, USIZE |-> n, math |-> m]

LenN(n) == Size("Len", <<>>, n, n)

Sum(a, b) ==
    Size("Sum", <<a, b>>, Evaluate(a.USIZE, b.USIZE, a.math + b.math), a.math + b.math)

Prod(a, b) ==
    Size("Prod", <<a, b>>, Evaluate(a.USIZE, b.USIZE, a.math * b.math), a.math * b.math)

\* Code that evaluates the length of s compiles.
Compiles(s) == s.USIZE # Overflow

\* What every size satisfies: the evaluated length is the mathematical one, or
\* there is none, or it is the mathematical one modulo 2^w.
IsSize(s) ==
    /\ s.math \in Nat
    /\ IF Wrapping THEN s.USIZE = s.math % Modulus
                   ELSE Compiles(s) => s.USIZE = s.math /\ s.math < Modulus

=============================================================================
