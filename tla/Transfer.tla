------------------------------ MODULE Transfer ------------------------------
(***************************************************************************)
(* The constructors of src/array.rs that run try_build with a closure over *)
(* elements that they own or borrow: map, zip, pad_from, try_from_iter,    *)
(* try_from_fn, map_ref and each_mut.  What the closure does at an index   *)
(* is joined with the step of TryBuild it causes; then the constructor's   *)
(* own code runs, and its locals are dropped.                              *)
(*                                                                         *)
(* f, fill.clone(), the client's iterator and every destructor may panic.  *)
(* A panic while another one unwinds aborts the process.                   *)
(***************************************************************************)
EXTENDS Integers

CONSTANTS N, None,
    Fill    \* where a clone of pad_from's `fill` comes from

ASSUME LenAssumption == N \in Nat
ASSUME UninitAssumption == None \notin 0 .. N - 1
ASSUME FillAssumption == Fill \notin Nat /\ Fill # None

\* The state of try_build.
VARIABLES pc, i, slots, init, at, unwinding, calls, made, released, error

VARIABLES
    op,         \* the constructor that runs
    len,        \* the number of items its source yields: S::USIZE for map and
                \* zip, P::USIZE for pad_from, any number for try_from_iter
    next,       \* the first item still in the source
    nexts,      \* how often the source's next() was called
    used,       \* how often each item was moved out of the source or dropped
    otherLen,   \* the same of the other array of zip
    otherNext,
    otherUsed,
    origin,     \* origin[e]: the items or the index that element e was made from
    stage,      \* where the constructor is
    panicking,  \* it unwinds from a panic
    dropped,    \* how many elements of the finished array were dropped
    result      \* what it answers

buildVars == <<pc, i, slots, init, at, unwinding, calls, made, released, error>>
otherVars == <<otherLen, otherNext, otherUsed>>
sourceVars == <<len, next, nexts, used, origin, otherVars>>
vars == <<buildVars, sourceVars, op, stage, panicking, dropped, result>>

Build == INSTANCE TryBuild

Items == 0 .. N + 1

\* What an element can be made from: nothing yet, a clone of the fill, an item
\* or an index, or a pair of items.
From == {<<>>, <<Fill>>} \cup {<<k>> : k \in Items} \cup (Items \X Items)

Lengths(o) ==
    CASE o \in {"map", "zip"} -> {N}
      [] o = "pad_from" -> 0 .. N       \* AtMost<P, S> proves P::USIZE <= S::USIZE
      [] o = "try_from_iter" -> 0 .. N + 2
      [] OTHER -> {0}

\* A bug: zip takes an array of another length.
OtherLengthsUnequal(o) == IF o = "zip" THEN 0 .. N ELSE {0}

OtherLengths(o) == IF o = "zip" THEN {N} ELSE {0}

Init ==
    /\ Build!Init
    /\ op \in {"map", "zip", "pad_from", "try_from_iter", "try_from_fn", "map_ref", "each_mut"}
    /\ len \in Lengths(op) /\ otherLen \in OtherLengths(op)
    /\ next = 0 /\ nexts = 0 /\ otherNext = 0
    /\ used = [k \in Items |-> 0] /\ otherUsed = used
    /\ origin = [e \in Build!Elems |-> <<>>]
    /\ stage = "build" /\ panicking = FALSE /\ dropped = 0 /\ result = "none"

-----------------------------------------------------------------------------
\* The closure at index i: its answer is the step of try_build.

Returns(from) ==
    /\ Build!FReturnsOk
    /\ origin' = [origin EXCEPT ![made] = from]

Fails == Build!FReturnsErr /\ UNCHANGED origin

Panics == Build!FPanics /\ UNCHANGED origin

\* next() of the source is called; if it yields, the item is moved out.
CallsNext == nexts' = nexts + 1

\* A bug: the item is read, and the source still has it.
YieldsACopy ==
    /\ next < len
    /\ used' = [used EXCEPT ![next] = @ + 1]
    /\ UNCHANGED next

Yields ==
    /\ next < len
    /\ next' = next + 1
    /\ used' = [used EXCEPT ![next] = @ + 1]

\* A bug: the source reports its end only after N items.
ExhaustedAtN == next = N /\ UNCHANGED <<next, used>>

Exhausted == next = len /\ UNCHANGED <<next, used>>

\* next() of the other array's iterator in zip.
OtherYields ==
    /\ otherNext < otherLen
    /\ otherNext' = otherNext + 1
    /\ otherUsed' = [otherUsed EXCEPT ![otherNext] = @ + 1]
    /\ UNCHANGED otherLen

OtherExhausted == otherNext = otherLen /\ UNCHANGED otherVars

\* from_exact_iter over into_iter().map(f): f owns the item, also if it panics.
MapClosure ==
    /\ op = "map"
    /\ CallsNext
    /\ \/ Yields /\ (Returns(<<next>>) \/ Panics)
       \/ Exhausted /\ Panics               \* unreachable!

\* from_exact_iter over two IntoIters; an item is a pair, and no client code runs.
\* The iterator of self is asked first: what it yields is dropped when the other
\* one has ended, and the other one is not asked when it has ended itself.
ZipClosure ==
    /\ op = "zip"
    /\ CallsNext
    /\ \/ Yields /\ OtherYields /\ Returns(<<next, otherNext>>)
       \/ Yields /\ OtherExhausted /\ Panics             \* unreachable!
       \/ Exhausted /\ UNCHANGED otherVars /\ Panics     \* unreachable!

\* A bug: the fill comes first.
PadClosureFillsFirst ==
    /\ op = "pad_from"
    /\ IF i < N - len
       THEN UNCHANGED <<next, nexts, used>> /\ (Returns(<<Fill>>) \/ Panics)
       ELSE CallsNext /\ Yields /\ Returns(<<next>>)

\* prefix.next().unwrap_or_else(|| fill.clone())
PadClosure ==
    /\ op = "pad_from"
    /\ CallsNext
    /\ \/ Yields /\ Returns(<<next>>)
       \/ Exhausted /\ (Returns(<<Fill>>) \/ Panics)

\* iter.next().ok_or(TryFromIterError(())), where next() is client code.
IterClosure ==
    /\ op = "try_from_iter"
    /\ CallsNext
    /\ \/ Yields /\ Returns(<<next>>)
       \/ Exhausted /\ Fails
       \/ UNCHANGED <<next, used>> /\ Panics

\* Client code that is given the index, and borrows what it works on.
IndexClosure ==
    /\ \/ op = "try_from_fn" /\ (Returns(<<i>>) \/ Fails \/ Panics)
       \/ op = "map_ref" /\ (Returns(<<i>>) \/ Panics)
       \/ op = "each_mut" /\ Returns(<<i>>)
    /\ UNCHANGED <<next, nexts, used>>

CallClosure ==
    /\ stage = "build"
    /\ \/ ZipClosure
       \/ (MapClosure \/ PadClosure \/ IterClosure \/ IndexClosure) /\ UNCHANGED otherVars
    /\ UNCHANGED <<op, len, stage, panicking, dropped, result>>

\* The steps of try_build that do not call the closure.
BuildGoesOn ==
    /\ stage = "build"
    /\ \/ Build!GuardDrops \/ Build!GuardDropPanics
       \/ Build!ReturnErr \/ Build!Unwind \/ Build!ReturnOk
    /\ UNCHANGED <<sourceVars, op, stage, panicking, dropped, result>>

-----------------------------------------------------------------------------

\* Bugs: a complete array is returned at once, and the iterator is asked for an
\* extra item also after it has ended.
BuiltAtOnce ==
    /\ stage = "build" /\ pc \in {"ok", "err", "panicked"}
    /\ stage' = "source" /\ result' = pc
    /\ panicking' = (pc = "panicked")
    /\ UNCHANGED <<buildVars, sourceVars, op, dropped>>

BuiltThenExtra ==
    /\ stage = "build" /\ pc \in {"ok", "err", "panicked"}
    /\ IF op = "try_from_iter" /\ pc # "panicked"
       THEN stage' = "extra" /\ UNCHANGED result
       ELSE stage' = "source" /\ result' = pc
    /\ panicking' = (pc = "panicked")
    /\ UNCHANGED <<buildVars, sourceVars, op, dropped>>

\* try_build returned or unwinds.  Only try_from_iter has more to do than to
\* drop its locals: an array it has built is not its answer yet.
Built ==
    /\ stage = "build" /\ pc \in {"ok", "err", "panicked"}
    /\ IF op = "try_from_iter" /\ pc = "ok"
       THEN stage' = "extra" /\ UNCHANGED result
       ELSE stage' = "source" /\ result' = pc
    /\ panicking' = (pc = "panicked")
    /\ UNCHANGED <<buildVars, sourceVars, op, dropped>>

\* match iter.next() after the array is complete: nothing more may come.
NothingExtra ==
    /\ stage = "extra"
    /\ CallsNext /\ Exhausted
    /\ stage' = "source" /\ result' = "ok"
    /\ UNCHANGED <<buildVars, op, len, otherVars, origin, panicking, dropped>>

\* An extra item is dropped, which may panic, and then the array.
SomeExtra ==
    /\ stage = "extra"
    /\ CallsNext /\ Yields
    /\ stage' = "array" /\ result' = "err"
    /\ panicking' \in BOOLEAN
    /\ UNCHANGED <<buildVars, op, len, otherVars, origin, dropped>>

\* A bug: the array is forgotten when the last next() panics.
ExtraPanicsForgets ==
    /\ stage = "extra"
    /\ CallsNext /\ UNCHANGED <<next, used>>
    /\ stage' = "source" /\ panicking' = TRUE
    /\ UNCHANGED <<buildVars, op, len, otherVars, origin, dropped, result>>

ExtraPanics ==
    /\ stage = "extra"
    /\ CallsNext /\ UNCHANGED <<next, used>>
    /\ stage' = "array" /\ panicking' = TRUE
    /\ UNCHANGED <<buildVars, op, len, otherVars, origin, dropped, result>>

-----------------------------------------------------------------------------
\* The locals are dropped: the array unless it is the answer, then what is left
\* in the source and in the other array of zip, then the client's f, iterator or
\* `fill`.

\* A destructor returns, or panics: then the others still run, and a second
\* panic aborts.
Destructor(s) ==
    \/ stage' = s /\ UNCHANGED panicking
    \/ stage' = (IF panicking THEN "aborted" ELSE s) /\ panicking' = TRUE

\* A bug: one element too many is dropped.
DropArrayPastEnd ==
    /\ stage = "array"
    /\ IF dropped <= N
       THEN dropped' = dropped + 1 /\ Destructor("array")
       ELSE stage' = "source" /\ UNCHANGED <<dropped, panicking>>
    /\ UNCHANGED <<buildVars, sourceVars, op, result>>

DropArray ==
    /\ stage = "array"
    /\ IF dropped < N
       THEN dropped' = dropped + 1 /\ Destructor("array")
       ELSE stage' = "source" /\ UNCHANGED <<dropped, panicking>>
    /\ UNCHANGED <<buildVars, sourceVars, op, result>>

DropSource ==
    /\ stage = "source"
    /\ \/ Yields /\ Destructor("source") /\ UNCHANGED otherVars
       \/ Exhausted /\ OtherYields /\ Destructor("source")
       \/ Exhausted /\ OtherExhausted /\ stage' = "client" /\ UNCHANGED panicking
    /\ UNCHANGED <<buildVars, op, len, nexts, origin, dropped, result>>

DropClient ==
    /\ stage = "client"
    /\ IF op \in {"zip", "each_mut"} THEN stage' = "end" /\ UNCHANGED panicking
                                     ELSE Destructor("end")
    /\ UNCHANGED <<buildVars, sourceVars, op, dropped, result>>

\* A panic replaces the answer.  An array that was the answer already is
\* dropped while unwinding, or leaked, whichever the compiler does.
Return ==
    /\ stage = "end"
    /\ \/ ~panicking /\ stage' = "done" /\ UNCHANGED <<dropped, result>>
       \/ /\ panicking /\ result' = "panicked"
          /\ \/ stage' = "done" /\ dropped' = IF result = "ok" THEN N ELSE dropped
             \/ result = "ok" /\ stage' = "aborted" /\ UNCHANGED dropped
             \/ result = "ok" /\ stage' = "leaked" /\ UNCHANGED dropped
    /\ UNCHANGED <<buildVars, sourceVars, op, panicking>>

Next ==
    \/ CallClosure \/ BuildGoesOn \/ Built
    \/ NothingExtra \/ SomeExtra \/ ExtraPanics
    \/ DropArray \/ DropSource \/ DropClient \/ Return

\* The closure, the iterator and the destructors return or panic.
Spec == Init /\ [][Next]_vars /\ WF_vars(Next)

Finished == stage \in {"done", "leaked"}

-----------------------------------------------------------------------------

TypeOK ==
    /\ Build!TypeOK
    /\ len \in 0 .. N + 2 /\ next \in 0 .. len /\ nexts \in Nat
    /\ used \in [Items -> Nat]
    /\ otherLen \in {0, N} /\ otherNext \in 0 .. otherLen
    /\ otherUsed \in [Items -> Nat]
    /\ origin \in [Build!Elems -> From]
    /\ stage \in {"build", "extra", "array", "source", "client", "end", "done", "leaked", "aborted"}
    /\ panicking \in BOOLEAN /\ dropped \in 0 .. N
    /\ result \in {"none", "ok", "err", "panicked"}

\* Every item of a source ends in one place: an element of the array, f, or a
\* destructor.  It is neither used twice nor forgotten when f panics at some
\* index, when the iterator yields too much, when the array is discarded, or
\* when zip stops half-way.
ItemsUsedOnce ==
    \A k \in Items :
        /\ used[k] <= IF k < len THEN 1 ELSE 0
        /\ otherUsed[k] <= IF k < otherLen THEN 1 ELSE 0
        /\ Finished /\ k < len => used[k] = 1
        /\ Finished /\ k < otherLen => otherUsed[k] = 1

\* The elements of an array that the caller does not get are all dropped, once,
\* and those of an array that it gets are not.
ArrayKeptOrDropped ==
    /\ stage = "done" => dropped = IF pc = "ok" /\ result # "ok" THEN N ELSE 0
    /\ result = "ok" => dropped = 0 /\ pc = "ok"

MadeFrom(e) ==
    CASE op = "zip" -> <<e, e>>
      [] op = "pad_from" /\ e >= len -> <<Fill>>
      [] OTHER -> <<e>>

\* Element k is made from item k, in zip from item k of both arrays: map and zip
\* keep the order, pad_from puts the whole prefix first and fills up, and
\* each_mut lends no index twice.
InOrder == \A e \in Build!Elems : e < made => origin[e] = MadeFrom(e)

\* "If it yields fewer or more elements, TryFromIterError is returned": success
\* means an iterator of the exact length, and an error means another length.
ExactLength ==
    op = "try_from_iter" /\ Finished =>
        /\ result = "ok" => len = N
        /\ result = "err" => len # N

\* "The iterator is advanced at most S::USIZE + 1 times", and it is left alone
\* once it has answered None, as it need not be fused.
AdvancedAtMost ==
    op = "try_from_iter" => nexts <= N + 1 /\ nexts <= next + 1

\* "Both iterators have the length of the array, so this doesn't panic": the two
\* keep in step until both have ended, so that no item is left without its
\* counterpart, and zip, which runs no client code, returns an array.
ZipReturns == op = "zip" /\ Finished => result = "ok"

\* A constructor ends, whatever its closure and the destructors do.
Ends == <>(Finished \/ stage = "aborted" \/ pc = "aborted")

=============================================================================
