------------------------------- MODULE Channel -------------------------------
(***************************************************************************)
(* The record layer of examples/aead.rs: two ends of a Channel that share  *)
(* a key and an iv, one of which only sends and one only receives, over    *)
(* the AEAD EncryptThenMac.  Each record, or each record of a batch, takes *)
(* the next nonce, iv XOR counter.                                         *)
(*                                                                         *)
(* The network may lose, repeat, reorder and alter records: the receiver   *)
(* is handed any ciphertext with any tag that was ever made.  The cipher   *)
(* and the MAC are ideal.  How many values a byte has, and how many bytes  *)
(* a u64, are parameters, so that a small counter can reach its end.       *)
(***************************************************************************)
EXTENDS Integers, Sequences

CONSTANTS
    ByteValues,     \* how many values a byte has, 256 in the code
    Xor(_, _),      \* XOR of two bytes
    CounterBytes,   \* the bytes of the counter, 8 in the code
    NonceSizes,     \* the A::NonceSize::USIZE of the AEADs considered
    IvBytes,        \* the bytes that the ivs considered are made of
    MaxBatch        \* bound: the most records in a batch

ASSUME ByteAssumption == ByteValues \in Nat /\ ByteValues > 1

Byte == 0 .. ByteValues - 1

\* What is XORed with a known byte can be recovered.
ASSUME XorAssumption == \A a, b, c \in Byte : Xor(a, b) = Xor(a, c) => b = c
ASSUME IvAssumption == IvBytes \subseteq Byte
ASSUME CounterBytesAssumption == CounterBytes \in Nat \ {0}
ASSUME NonceSizesAssumption == NonceSizes \subseteq Nat
ASSUME MaxBatchAssumption == MaxBatch \in Nat \ {0}

VARIABLES
    len,        \* A::NonceSize::USIZE
    iv,
    sender,     \* the counter of the sending end
    receiver,   \* the counter of the receiving end
    used,       \* the nonces the sender has encrypted with
    sent,       \* the records it has handed to the network
    refused,    \* it has answered Err
    delivered,  \* the messages the receiver has answered
    inOrder     \* the network has handed over every record in its turn

vars == <<len, iv, sender, receiver, used, sent, refused, delivered, inOrder>>

\* The number of values that n bytes have.
Values[n \in Nat] == IF n = 0 THEN 1 ELSE ByteValues * Values[n - 1]

u64Max == Values[CounterBytes] - 1

Init ==
    /\ len \in NonceSizes
    /\ iv \in [0 .. len - 1 -> IvBytes]
    /\ sender = 0 /\ receiver = 0
    /\ used = <<>> /\ sent = <<>> /\ refused = FALSE
    /\ delivered = <<>> /\ inOrder = TRUE

-----------------------------------------------------------------------------
\* next_nonce

\* Byte j of counter.to_be_bytes().
BigEndian(counter, j) == (counter \div Values[CounterBytes - 1 - j]) % ByteValues

\* The counter, aligned to the end of the nonce.
Padded(counter, i) ==
    LET fromEnd == len - 1 - i IN
    IF fromEnd < CounterBytes THEN BigEndian(counter, CounterBytes - 1 - fromEnd) ELSE 0

NonceOf(counter) == [i \in 0 .. len - 1 |-> Xor(iv[i], Padded(counter, i))]

\* A bug: one more record than fits is allowed.
HasNonceOneMore(counter) == len < CounterBytes => counter \div Values[len] <= 1

\* It answers Ok: the counter fits into the nonce, and checked_add succeeds.
HasNonce(counter) ==
    /\ len < CounterBytes => counter \div Values[len] = 0
    /\ counter # u64Max

\* n calls in a row, of which only the first k succeed.
Succeed(counter, k, n) ==
    /\ \A j \in 0 .. k - 1 : HasNonce(counter + j)
    /\ k < n => ~HasNonce(counter + k)

-----------------------------------------------------------------------------
\* EncryptThenMac

Encrypt(nonce, message) == [under |-> nonce, message |-> message]

\* A bug: the nonce is not authenticated.
TagOfCiphertext(nonce, ciphertext) == <<ciphertext.message>>

\* It depends on all of the nonce and the ciphertext.
Tag(nonce, ciphertext) == <<nonce, ciphertext>>

Seal(nonce, message) ==
    LET ciphertext == Encrypt(nonce, message)
    IN  [ciphertext |-> ciphertext, tag |-> Tag(nonce, ciphertext)]

Opens(nonce, record) == record.tag = Tag(nonce, record.ciphertext)

\* Decryption with another nonce gives noise, which no test for equality with
\* a message that was sent can pass.
Decrypt(nonce, ciphertext) == IF ciphertext.under = nonce THEN ciphertext.message ELSE -1

-----------------------------------------------------------------------------

\* The messages are numbered.
NextMessage == Len(sent) + 1

\* A bug: a batch that fails leaves the counter where it was.
SendRecordsRollsBack(n) ==
    \E k \in 0 .. n :
        /\ Succeed(sender, k, n)
        /\ used' = used \o [j \in 1 .. k |-> NonceOf(sender + j - 1)]
        /\ IF k = n
           THEN /\ sent' = sent \o [j \in 1 .. n |-> Seal(NonceOf(sender + j - 1), NextMessage + j - 1)]
                /\ sender' = sender + n
                /\ UNCHANGED refused
           ELSE refused' = TRUE /\ UNCHANGED <<sent, sender>>
        /\ UNCHANGED <<len, iv, receiver, delivered, inOrder>>

\* send_records, and send as the batch of one record.  When the nonces run out
\* within a batch, the records sealed so far are dropped, and not sent.
SendRecords(n) ==
    \E k \in 0 .. n :
        /\ Succeed(sender, k, n)
        /\ sender' = sender + k
        /\ used' = used \o [j \in 1 .. k |-> NonceOf(sender + j - 1)]
        /\ IF k = n
           THEN /\ sent' = sent \o [j \in 1 .. n |-> Seal(NonceOf(sender + j - 1), NextMessage + j - 1)]
                /\ UNCHANGED refused
           ELSE refused' = TRUE /\ UNCHANGED sent
        /\ UNCHANGED <<len, iv, receiver, delivered, inOrder>>

\* What the network may hand over: sent ciphertexts with sent tags.
Network ==
    {[ciphertext |-> sent[j].ciphertext, tag |-> sent[k].tag] : j, k \in DOMAIN sent}

\* The first k of the records open.
Open(records, k) ==
    \A j \in 1 .. k :
        HasNonce(receiver + j - 1) /\ Opens(NonceOf(receiver + j - 1), records[j])

Messages(records) ==
    [j \in DOMAIN records |-> Decrypt(NonceOf(receiver + j - 1), records[j].ciphertext)]

\* A bug: all records of a batch are opened with the same nonce.
ReceiveOneNonce(records) ==
    LET nonce == NonceOf(receiver) IN
    /\ HasNonce(receiver)
    /\ receiver' = receiver + 1
    /\ delivered' = IF \A j \in DOMAIN records : Opens(nonce, records[j])
                    THEN delivered \o [j \in DOMAIN records |-> Decrypt(nonce, records[j].ciphertext)]
                    ELSE delivered
    /\ UNCHANGED <<len, iv, sender, used, sent, refused>>

\* receive_records, and receive as the batch of one record.  The nonce is used
\* up before the record is opened.  One record that does not open, or one
\* nonce too few, fails the whole batch, and the records after it are not
\* looked at.
ReceiveRecords(records) ==
    LET n == Len(records) IN
    /\ \/ /\ Open(records, n)
          /\ receiver' = receiver + n
          /\ delivered' = delivered \o Messages(records)
       \/ \E k \in 0 .. n - 1 :
             /\ Open(records, k) /\ ~Open(records, k + 1)
             /\ receiver' = receiver + k + (IF HasNonce(receiver + k) THEN 1 ELSE 0)
             /\ UNCHANGED delivered
    /\ UNCHANGED <<len, iv, sender, used, sent, refused>>

\* inOrder remembers whether these are the next records, unaltered.
HandOver(records) ==
    inOrder' = (/\ inOrder /\ receiver + Len(records) <= Len(sent)
                /\ records = SubSeq(sent, receiver + 1, receiver + Len(records)))

Next ==
    \E n \in 1 .. MaxBatch :
        \/ SendRecords(n)
        \/ \E records \in [1 .. n -> Network] : ReceiveRecords(records) /\ HandOver(records)

Spec == Init /\ [][Next]_vars

-----------------------------------------------------------------------------

\* "Truncating the counter instead would reuse nonces": no nonce encrypts two
\* records, those of a batch that failed halfway and were never sent included.
NoncesFresh == \A j, k \in DOMAIN used : j # k => used[j] # used[k]

\* "Fails after 2^(8 * n) records for an n < 8 byte nonce, and after 2^64 - 1
\* records otherwise": the sender gives up exactly there, and it stays so.
Limit == IF len < CounterBytes THEN Values[len] ELSE Values[CounterBytes] - 1

RefusesAtLimit == Len(used) <= Limit /\ (refused => Len(used) = Limit)

\* Whatever the network does, the receiver reads messages that were sent, in
\* the order in which they were sent, none twice, and batches whole.
Stream == INSTANCE RecordStream WITH written <- Len(sent), read <- delivered
ReadsWhatWasSent == Stream!Spec

\* A network that keeps the order loses nothing: the ends agree on the number of
\* each record, however the records are cut into batches on either side, and
\* no batch that the sender gave up leaves a gap.
InStep == inOrder => delivered = [k \in 1 .. receiver |-> k]

=============================================================================
