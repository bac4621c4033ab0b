----------------------------- MODULE MCChannel -----------------------------
(***************************************************************************)
(* Bytes of one bit, and an iv that flips all of them.                     *)
(***************************************************************************)
EXTENDS Channel

MCXor(a, b) == (a + b) % 2

=============================================================================
