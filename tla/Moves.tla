------------------------------- MODULE Moves -------------------------------
(***************************************************************************)
(* The conversions of src/array.rs that take an array by value: cast,      *)
(* try_cast, truncate, concat, parts, into_chunks, from_chunks, new and    *)
(* into_array.  They move bits from a value whose destructor must not run  *)
(* (ManuallyDrop) to values that own the elements from then on.            *)
(*                                                                         *)
(* Only truncate, and the client when it drops an array, run destructors,  *)
(* one element at a time.  Each may panic; a second panic while the first  *)
(* one unwinds aborts the process.                                         *)
(***************************************************************************)
EXTENDS Sizes, Sequences

CONSTANTS
    Handles,    \* the client's variables
    Universe,   \* the sizes it mentions, all of which compile
    None        \* no array, no chunk size, no call

ASSUME UniverseAssumption ==
    ~Wrapping /\ \A s \in Universe :
        /\ IsSize(s) /\ s.USIZE \in usize
        /\ s.kind = "Sum" => \E a, b \in Universe : s = Sum(a, b)
        /\ s.kind = "Prod" => \E a, b \in Universe : s = Prod(a, b)

VARIABLES
    arrays,     \* arrays[h]: the array in variable h, or None
    whole,      \* the number of elements that the client starts with
    call,       \* the drop or truncate that runs, or None
    unwinding,  \* it is unwinding from a panic
    released,   \* released[e]: how often element e was dropped
    aborted

vars == <<arrays, whole, call, unwinding, released, aborted>>

Lengths == {s.USIZE : s \in Universe}
Elems == UNION {1 .. n : n \in Lengths}

\* Array<T, size>, or Array<Array<T, of>, size>, or [T; N] if plain, and the
\* elements that its storage holds in order.
ArrayOf(size, of, plain, elems) ==
    [size |-> size, of |-> of, plain |-> plain, elems |-> elems]

ArrayType ==
    [size : Universe, of : Universe \cup {None}, plain : BOOLEAN, elems : Seq(Nat)]
CallType ==
    [h : Handles, all : Seq(Nat), prefix : ArrayType \cup {None}, rest : Seq(Nat)]

ASSUME NoneAssumption ==
    None \notin Universe /\ None \notin Seq(Nat) /\ None \notin ArrayType /\ None \notin CallType
ASSUME HandlesAssumption == {"rest", "prefix"} \cap Handles = {}

\* The number of elements of T in each item of the array, and in n of them.
Width(a) == IF a.of = None THEN 1 ELSE a.of.USIZE
Span(a, n) == n * Width(a)

Init ==
    /\ \E s \in Universe, h \in Handles :
          /\ whole = s.USIZE
          /\ arrays = [g \in Handles |->
                          IF g = h THEN ArrayOf(s, None, FALSE, [k \in 1 .. s.USIZE |-> k])
                                   ELSE None]
    /\ call = None /\ unwinding = FALSE
    /\ released = [e \in Elems |-> 0]
    /\ aborted = FALSE

-----------------------------------------------------------------------------

Idle == call = None /\ ~aborted

\* The client passes the array in h by value.
Takes(h) == Idle /\ arrays[h] # None /\ ~arrays[h].plain

\* A bug: the value whose bits were moved is dropped when it goes out of scope.
MovedOutDrops(bits) ==
    released' = [e \in Elems |-> IF \E k \in DOMAIN bits : bits[k] = e
                                 THEN released[e] + 1 ELSE released[e]]

\* The value whose bits were moved is a ManuallyDrop.
MovedOut(bits) == UNCHANGED released

\* transmute_layout from the array in h to a value of another type.
Transmute(h, size, of, plain) ==
    /\ arrays' = [arrays EXCEPT ![h] = ArrayOf(size, of, plain, @.elems)]
    /\ MovedOut(arrays[h].elems)
    /\ UNCHANGED <<whole, call, unwinding, aborted>>

\* cast and cast_checked take a proof or do not compile.
Cast(h, s) ==
    /\ Takes(h)
    /\ arrays[h].size.USIZE = s.USIZE
    /\ Transmute(h, s, arrays[h].of, FALSE)

\* try_cast; the array comes back unchanged in the error.
TryCast(h, s) ==
    /\ Takes(h)
    /\ IF arrays[h].size.USIZE = s.USIZE
       THEN Transmute(h, s, arrays[h].of, FALSE)
       ELSE UNCHANGED vars

\* The items become chunks; chunks of chunks are left out.
IntoChunks(h) ==
    /\ Takes(h)
    /\ arrays[h].size.kind = "Prod" /\ arrays[h].of = None
    /\ Transmute(h, arrays[h].size.parts[1], arrays[h].size.parts[2], FALSE)

FromChunks(h) ==
    /\ Takes(h)
    /\ arrays[h].of # None
    /\ Prod(arrays[h].size, arrays[h].of) \in Universe
    /\ Transmute(h, Prod(arrays[h].size, arrays[h].of), None, FALSE)

IntoArray(h) ==
    /\ Takes(h)
    /\ arrays[h].size.kind = "Len"
    /\ Transmute(h, arrays[h].size, arrays[h].of, TRUE)

\* Array::new wraps the plain array.
New(h) ==
    /\ Idle /\ arrays[h] # None /\ arrays[h].plain
    /\ arrays' = [arrays EXCEPT ![h].plain = FALSE]
    /\ UNCHANGED <<whole, call, unwinding, released, aborted>>

\* A bug: the fields of Concat are the wrong way round.
JoinedSwapped(a, b) == ArrayOf(Sum(a.size, b.size), a.of, FALSE, b.elems \o a.elems)

\* Concat(self, other): the second array directly after the first.
Joined(a, b) == ArrayOf(Sum(a.size, b.size), a.of, FALSE, a.elems \o b.elems)

ConcatArrays(h, g) ==
    /\ Takes(h) /\ Takes(g) /\ h # g
    /\ arrays[h].of = arrays[g].of
    /\ Sum(arrays[h].size, arrays[g].size) \in Universe
    /\ arrays' = [arrays EXCEPT ![h] = Joined(arrays[h], arrays[g]), ![g] = None]
    /\ MovedOut(arrays[h].elems \o arrays[g].elems)
    /\ UNCHANGED <<whole, call, unwinding, aborted>>

\* A bug: the fields are read as if the shorter one came first.
FieldSecondLength(a, n) ==
    LET cut == Span(a, a.size.parts[2].USIZE) IN
    ArrayOf(a.size.parts[n], a.of, FALSE,
            IF n = 1 THEN SubSeq(a.elems, 1, cut) ELSE SubSeq(a.elems, cut + 1, Len(a.elems)))

\* The fields of the Concat that a is stored as.
Field(a, n) ==
    LET cut == Span(a, a.size.parts[1].USIZE) IN
    ArrayOf(a.size.parts[n], a.of, FALSE,
            IF n = 1 THEN SubSeq(a.elems, 1, cut) ELSE SubSeq(a.elems, cut + 1, Len(a.elems)))

Parts(h, g) ==
    /\ Takes(h) /\ arrays[g] = None
    /\ arrays[h].size.kind = "Sum"
    /\ arrays' = [arrays EXCEPT ![h] = Field(arrays[h], 1), ![g] = Field(arrays[h], 2)]
    /\ MovedOut(arrays[h].elems)
    /\ UNCHANGED <<whole, call, unwinding, aborted>>

-----------------------------------------------------------------------------
\* Destructors: the array in h is consumed, its elements `rest` are dropped
\* one by one, and the call has its first part in the local `prefix`.

Starts(h, prefix, rest) ==
    /\ call' = [h |-> h, all |-> arrays[h].elems, prefix |-> prefix, rest |-> rest]
    /\ arrays' = [arrays EXCEPT ![h] = None]
    /\ UNCHANGED <<whole, unwinding, released, aborted>>

\* truncate with AtMost<p, size>: the prefix is read out of the storage, and
\* the elements after it are dropped in place.
Truncate(h, p) ==
    /\ Takes(h)
    /\ p.USIZE <= arrays[h].size.USIZE
    /\ LET a == arrays[h]
           cut == Span(a, p.USIZE)
       IN Starts(h, ArrayOf(p, a.of, FALSE, SubSeq(a.elems, 1, cut)),
                 SubSeq(a.elems, cut + 1, Len(a.elems)))

\* The client drops an array.
Drop(h) ==
    /\ Idle /\ arrays[h] # None
    /\ Starts(h, None, arrays[h].elems)

Dropping == ~aborted /\ call # None /\ call.rest # <<>>

Dropped ==
    /\ released' = [released EXCEPT ![Head(call.rest)] = @ + 1]
    /\ call' = [call EXCEPT !.rest = Tail(@)]

DropElement ==
    /\ Dropping
    /\ Dropped
    /\ UNCHANGED <<arrays, whole, unwinding, aborted>>

DropPanics ==
    /\ Dropping
    /\ Dropped
    /\ unwinding' = TRUE
    /\ aborted' = unwinding
    /\ UNCHANGED <<arrays, whole>>

Ends == ~aborted /\ call # None /\ call.rest = <<>>

\* truncate returns the prefix; the drop of an array returns nothing.
Return ==
    /\ Ends /\ ~unwinding
    /\ arrays' = [arrays EXCEPT ![call.h] = call.prefix]
    /\ call' = None
    /\ UNCHANGED <<whole, unwinding, released, aborted>>

\* A bug: the prefix is a ManuallyDrop as well, and forgotten.
UnwindForgets ==
    /\ Ends /\ unwinding
    /\ call.prefix # None
    /\ call' = [call EXCEPT !.prefix = None]
    /\ UNCHANGED <<arrays, whole, unwinding, released, aborted>>

\* A panic leaves truncate, and its local `prefix` is dropped.
UnwindPrefix ==
    /\ Ends /\ unwinding
    /\ call.prefix # None
    /\ call' = [call EXCEPT !.prefix = None, !.rest = call.prefix.elems]
    /\ UNCHANGED <<arrays, whole, unwinding, released, aborted>>

\* The client catches the panic and goes on with its other arrays.
Caught ==
    /\ Ends /\ unwinding
    /\ call.prefix = None
    /\ unwinding' = FALSE
    /\ call' = None
    /\ UNCHANGED <<arrays, whole, released, aborted>>

-----------------------------------------------------------------------------

Convert(h) ==
    \/ IntoChunks(h) \/ FromChunks(h) \/ IntoArray(h) \/ New(h) \/ Drop(h)
    \/ \E s \in Universe : Cast(h, s) \/ TryCast(h, s) \/ Truncate(h, s)
    \/ \E g \in Handles : ConcatArrays(h, g) \/ Parts(h, g)

Next ==
    \/ \E h \in Handles : Convert(h)
    \/ DropElement \/ DropPanics \/ Return \/ UnwindPrefix \/ Caught

Spec == Init /\ [][Next]_vars

-----------------------------------------------------------------------------

\* The places where elements are owned, and the elements that each owns: the
\* client's variables, the locals of the call and what it still has to drop.
Places == Handles \cup {"rest", "prefix"}

Held(p) ==
    IF p \in Handles THEN (IF arrays[p] = None THEN <<>> ELSE arrays[p].elems)
    ELSE IF call = None THEN <<>>
    ELSE IF p = "rest" THEN call.rest
    ELSE IF call.prefix = None THEN <<>> ELSE call.prefix.elems

Bags == [p \in Places |-> Held(p)]

\* No element is in two places, or twice in one.
OneOwner(B) ==
    \A p, q \in Places : \A j \in DOMAIN B[p], k \in DOMAIN B[q] :
        B[p][j] = B[q][k] => p = q /\ j = k

Owned(B, e) == \E p \in Places : \E k \in DOMAIN B[p] : B[p][k] = e

\* After any sequence of conversions, and in the middle of a truncate that
\* panics, each element has one owner, or was dropped once.
OwnedOnce ==
    /\ OneOwner(Bags)
    /\ \A e \in 1 .. whole : released[e] = IF Owned(Bags, e) THEN 0 ELSE 1

\* The invariant of ArrayType, on which all unsafe code relies: the storage of
\* an array holds as many elements as its type says.
Sized ==
    \A h \in Handles :
        arrays[h] # None => Len(arrays[h].elems) = Span(arrays[h], arrays[h].size.USIZE)

\* A sequence that a call consumes is gone, or replaced, when the call ends.
PoolOf(h) ==
    IF call # None /\ call.h = h THEN call.all
    ELSE IF arrays[h] = None THEN None ELSE arrays[h].elems

Promise == INSTANCE OwnedSequences WITH pool <- [h \in Handles |-> PoolOf(h)]

\* concat and parts are inverse to each other, truncate keeps the first
\* elements, and no conversion changes the order of elements.
KeepsOrder == Promise!Spec

=============================================================================
