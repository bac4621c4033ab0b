---------------------------- MODULE RecordStream ----------------------------
(***************************************************************************)
(* What a channel of records promises: the receiver reads what the sender  *)
(* wrote, in the order of writing and each record at most once.  It may    *)
(* miss records, but never one in the middle of a batch that it reads.     *)
(***************************************************************************)
EXTENDS Naturals, Sequences

VARIABLES
    written,    \* how many records the sender has written
    read        \* the numbers of the records that the receiver has read

Init == written = 0 /\ read = <<>>

\* One record, or a batch.
Write == written' > written /\ UNCHANGED read

\* The records first .. last are read; all records read before are older.
Read(first, last) ==
    /\ \A k \in DOMAIN read : read[k] < first
    /\ read' = read \o [k \in 1 .. last - first + 1 |-> first + k - 1]
    /\ UNCHANGED written

Next ==
    \/ Write
    \/ \E first \in 1 .. written : \E last \in first .. written : Read(first, last)

Spec == Init /\ [][Next]_<<written, read>>

=============================================================================
