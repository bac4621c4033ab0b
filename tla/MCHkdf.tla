------------------------------- MODULE MCHkdf -------------------------------
(***************************************************************************)
(* Digests without output, with one byte, two, and the 32 of FakeSha256;   *)
(* lengths around a block, around two, and on both sides of each limit.    *)
(***************************************************************************)
EXTENDS Hkdf

MCOutputs == {0, 1, 2, 32}
MCRequests == {0, 1, 2, 3, 31, 32, 33, 65, 254, 255, 256, 509, 510, 511}

=============================================================================
