------------------------------ MODULE MCLayout ------------------------------
(***************************************************************************)
(* Elements without bytes (aligned or not), of one byte, of two bytes with *)
(* either alignment; plain lengths 0, 2, 3 and 8 on a machine whose usize  *)
(* is 4 bits wide.                                                         *)
(***************************************************************************)
EXTENDS Layout

T(b, a) == [bytes |-> b, align |-> a]

MCValues == {T(0, 1), T(0, 2), T(1, 1), T(2, 1), T(2, 2)}

=============================================================================
