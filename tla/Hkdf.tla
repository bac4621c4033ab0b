-------------------------------- MODULE Hkdf --------------------------------
(***************************************************************************)
(* HKDF-Expand of examples/hkdf.rs, and the key schedule that splits its   *)
(* output: one block of the digest after the other is copied into the      *)
(* output, each made from the block before it and a counter of one byte.   *)
(*                                                                         *)
(* HMAC is ideal: a block is its two inputs that change, the block before  *)
(* it and the counter, and a byte of the output is a byte of a block.      *)
(***************************************************************************)
EXTENDS Sizes, Sequences, Functions

Seqs == INSTANCE SequencesExt

CONSTANTS
    Outputs,    \* the D::OutputSize::USIZE of the digests considered
    Requests    \* the lengths of the outputs asked for

ASSUME OutputsAssumption == Outputs \subseteq Nat
ASSUME RequestsAssumption == Requests \subseteq Nat

AesKey == LenN(16)
Iv == LenN(12)
Direction == Sum(AesKey, Iv)
SessionKeys == Sum(Direction, Direction)
EpochKeys == Prod(LenN(4), SessionKeys)

\* The example compiles.
ASSUME CompilesAssumption == ~Wrapping /\ Compiles(EpochKeys)

VARIABLES
    pc,
    output,     \* D::OutputSize::USIZE
    i,          \* the chunks written
    prev,       \* the counter of the block before, or None
    okm,        \* the output
    keys        \* what the key schedule has split it into

hkdfVars == <<pc, output, i, prev, okm, keys>>

None == 0
Zero == <<>>

HkdfInit ==
    /\ pc = "start" /\ i = 0 /\ prev = None /\ keys = <<>>
    /\ output \in Outputs
    /\ \E n \in Requests \cup {SessionKeys.USIZE, EpochKeys.USIZE} :
          okm = [k \in 1 .. n |-> Zero]

\* A bug: the limit is the number of values of a byte.
TooLong256 == Len(okm) > 256 * output

TooLong == Len(okm) > 255 * output

\* okm.chunks_mut(0) panics, for a digest without output.
Start ==
    /\ pc = "start"
    /\ pc' = IF TooLong THEN "err" ELSE IF output = 0 THEN "panicked" ELSE "loop"
    /\ UNCHANGED <<output, i, prev, okm, keys>>

More == i * output < Len(okm)

\* i as u8 + 1, where the cast wraps and the sum must not.
Counter == (i % 256) + 1

\* A bug: the blocks are not chained.
BlockUnchained == [n |-> Counter, after |-> None]

Block == [n |-> Counter, after |-> prev]

\* The indices of chunk i, of which the last may be short.
Chunk == {k \in DOMAIN okm : i * output < k /\ k <= (i + 1) * output}

Expand ==
    /\ pc = "loop" /\ More
    /\ IF Counter = 256
       THEN pc' = "panicked" /\ UNCHANGED <<i, prev, okm>>
       ELSE /\ okm' = [k \in DOMAIN okm |->
                         IF k \in Chunk THEN <<Block, k - i * output>> ELSE okm[k]]
            /\ prev' = Counter
            /\ i' = i + 1
            /\ UNCHANGED pc
    /\ UNCHANGED <<output, keys>>

Return ==
    /\ pc = "loop" /\ ~More
    /\ pc' = "ok"
    /\ UNCHANGED <<output, i, prev, okm, keys>>

\* A bug: the first part is left in the second.
PartsOverlap(bytes, a) == <<SubSeq(bytes, 1, a.USIZE), SubSeq(bytes, a.USIZE, Len(bytes) - 1)>>

\* Array::parts of a Sum whose first part is an a.
Parts(bytes, a) == <<SubSeq(bytes, 1, a.USIZE), SubSeq(bytes, a.USIZE + 1, Len(bytes))>>

Split(session) ==
    LET directions == Parts(session, Direction)
    IN  Parts(directions[1], AesKey) \o Parts(directions[2], AesKey)

\* session_keys, and epoch_keys, whose caller splits each chunk.
TakeKeys ==
    /\ pc = "ok" /\ keys = <<>>
    /\ \/ Len(okm) = SessionKeys.USIZE /\ keys' = Split(okm)
       \/ /\ Len(okm) = EpochKeys.USIZE
          /\ keys' = Seqs!FlattenSeq([e \in 1 .. 4 |->
                        Split(SubSeq(okm, (e - 1) * SessionKeys.USIZE + 1, e * SessionKeys.USIZE))])
    /\ UNCHANGED <<pc, output, i, prev, okm>>

HkdfNext == Start \/ Expand \/ Return \/ TakeKeys

HkdfSpec == HkdfInit /\ [][HkdfNext]_hkdfVars

-----------------------------------------------------------------------------

\* RFC 5869: T(n) = HMAC(prk, T(n-1) | info | n) for n = 1, 2, ..., and the output
\* is the first bytes of T(1) | T(2) | ...
T(n) == [n |-> n, after |-> n - 1]
MatchesRfc ==
    pc = "ok" => okm = [k \in DOMAIN okm |-> <<T(((k - 1) \div output) + 1), ((k - 1) % output) + 1>>]

\* "The requested output is longer than 255 * D::OutputSize::USIZE", which is
\* also where the counter would overflow: an output of exactly this length is
\* written in full, a longer one is refused and left alone, and nothing else
\* happens unless the digest has no output.
RefusesTooLong ==
    /\ pc = "panicked" => output = 0
    /\ pc \in {"loop", "ok"} => Len(okm) <= 255 * output
    /\ pc = "err" => Len(okm) > 255 * output /\ \A k \in DOMAIN okm : okm[k] = Zero

\* The keys of all directions and epochs have their lengths, and no two share a
\* byte: together they are the output, and no byte of it occurs twice.
KeysDisjoint ==
    keys # <<>> =>
        /\ \A k \in DOMAIN keys : Len(keys[k]) = IF k % 2 = 1 THEN AesKey.USIZE ELSE Iv.USIZE
        /\ Seqs!FlattenSeq(keys) = okm
        /\ IsInjective(okm)

=============================================================================
