------------------------------ MODULE IntoIter ------------------------------
(***************************************************************************)
(* The by-value iterator of src/iter.rs: storage of MaybeUninit slots and  *)
(* the range `alive` of the slots that the iterator still owns.            *)
(*                                                                         *)
(* Iterators live in different variables (or threads) of the client, so    *)
(* calls on different iterators interleave; one iterator has one mutable   *)
(* borrow at a time.  A call runs client code only when it drops or clones *)
(* an element, and that code may panic: each such point is a step.         *)
(*                                                                         *)
(* A moved-out or dropped slot keeps its bits, as in memory.  Ownership    *)
(* that leaves an iterator is counted in `released`, so a second release   *)
(* or a release of an uninitialized slot is recorded, not prevented.       *)
(***************************************************************************)
EXTENDS Integers, FiniteSets

CONSTANTS
    Iters,      \* the iterators of one client
    Roots,      \* those made by Array::into_iter; the others are clones
    N,          \* S::USIZE
    MaxSkip,    \* bound on the argument of nth and nth_back
    None        \* absence: an uninitialized slot, no element, no iterator

ASSUME RootsAssumption == Roots \subseteq Iters
ASSUME NAssumption == N \in Nat
ASSUME MaxSkipAssumption == MaxSkip \in Nat

Slots == 0 .. N - 1
Elems == Iters \X Slots        \* <<i, k>>: the element first written to slot k of i

ASSUME NoneAssumption == None \notin Iters \cup Elems \cup Slots

VARIABLES
    data,       \* data[i][k]: the element whose bits are in slot k, or None
    alive,      \* alive[i]: the slots alive[i].start .. alive[i].end - 1
    pc,         \* pc[i]: where the iterator is in its life
    frame,      \* frame[i]: locals of the call that runs on i
    unwinding,  \* unwinding[i]: that call is unwinding from a panic
    val,        \* val[e]: the value of element e, None before e exists
    released,   \* released[e]: how often e was moved out to the client or dropped
    lost,       \* return values that an unwinding `last` left behind
    out,        \* the last answer, until the next call: iterator, method, argument, result
    aborted     \* a panic during unwinding has aborted the process

vars == <<data, alive, pc, frame, unwinding, val, released, lost, out, aborted>>

Ops == {"next", "next_back", "nth", "nth_back", "count", "last", "drop", "clone"}

AliveLen(i) == alive[i].end - alive[i].start

AliveSlots(i) == alive[i].start .. alive[i].end - 1

\* The slots that drop_range took out of `alive` and has not dropped yet.
DyingSlots(i) == IF pc[i] = "dropping" THEN frame[i].at .. frame[i].hi - 1 ELSE {}

Some(v) == <<"some", v>>
Empty == <<"none">>
Counted(n) == <<"count", n>>
Unit == <<"unit">>
Panic == <<"panic">>

Answers == {Some(v) : v \in Slots} \cup {Counted(n) : n \in 0 .. N} \cup {Empty, Unit, Panic}

\* The client called i.op(n), with n = 0 if op takes no argument, and got r.
Answered(i, op, n, r) == <<i, op, n, r>>
NoAnswer == <<>>
Outs == {NoAnswer} \cup (Iters \X Ops \X (0 .. MaxSkip) \X Answers)

\* The locals of a call: its argument, the range it drops or clones and the
\* position in it, its answer, an element held in the answer, and the source
\* of a clone.
Frames == [op : Ops, n : 0 .. MaxSkip, lo : 0 .. N, at : 0 .. N, hi : 0 .. N,
           ret : Answers, held : Elems \cup {None}, src : Iters \cup {None}]

NoFrame == [op |-> "drop", n |-> 0, lo |-> 0, at |-> 0, hi |-> 0,
            ret |-> Unit, held |-> None, src |-> None]

-----------------------------------------------------------------------------

Init ==
    /\ data = [i \in Iters |-> [k \in Slots |-> IF i \in Roots THEN <<i, k>> ELSE None]]
    /\ alive = [i \in Iters |-> [start |-> 0, end |-> IF i \in Roots THEN N ELSE 0]]
    /\ pc = [i \in Iters |-> IF i \in Roots THEN "idle" ELSE "absent"]
    /\ frame = [i \in Iters |-> NoFrame]
    /\ unwinding = [i \in Iters |-> FALSE]
    /\ val = [e \in Elems |-> IF e[1] \in Roots THEN e[2] ELSE None]
    /\ released = [e \in Elems \cup {None} |-> 0]
    /\ lost = {}
    /\ out = NoAnswer
    /\ aborted = FALSE

\* A clone in progress holds a shared borrow of its source.
Borrowed(i) == \E d \in Iters : pc[d] = "cloning" /\ frame[d].src = i

\* The client may call a method of i that takes &mut self or self.
Ready(i) == ~aborted /\ pc[i] = "idle" /\ ~Borrowed(i)

\* alive.next() / alive.next_back(), then the element is read out for the client
\* that called op with the argument n.
TakeFront(i, op, n) ==
    IF AliveLen(i) > 0
    THEN LET e == data[i][alive[i].start] IN
         /\ alive' = [alive EXCEPT ![i].start = @ + 1]
         /\ released' = [released EXCEPT ![e] = @ + 1]
         /\ out' = Answered(i, op, n, Some(val[e]))
    ELSE /\ out' = Answered(i, op, n, Empty)
         /\ UNCHANGED <<alive, released>>

\* A bug: the last slot is read without alive.next_back().
TakeBackKeepsEnd(i, op, n) ==
    IF AliveLen(i) > 0
    THEN LET e == data[i][alive[i].end - 1] IN
         /\ released' = [released EXCEPT ![e] = @ + 1]
         /\ out' = Answered(i, op, n, Some(val[e]))
         /\ UNCHANGED alive
    ELSE /\ out' = Answered(i, op, n, Empty)
         /\ UNCHANGED <<alive, released>>

TakeBack(i, op, n) ==
    IF AliveLen(i) > 0
    THEN LET e == data[i][alive[i].end - 1] IN
         /\ alive' = [alive EXCEPT ![i].end = @ - 1]
         /\ released' = [released EXCEPT ![e] = @ + 1]
         /\ out' = Answered(i, op, n, Some(val[e]))
    ELSE /\ out' = Answered(i, op, n, Empty)
         /\ UNCHANGED <<alive, released>>

\* A bug: a bounds check that rejects hi = N.
DropRangeBeforeEnd(op, n, lo, hi, ret, held) ==
    LET found == lo <= hi /\ hi < N
        from == IF found THEN lo ELSE 0
    IN [op |-> op, n |-> n, lo |-> from, at |-> from, hi |-> IF found THEN hi ELSE 0,
        ret |-> ret, held |-> held, src |-> None]

\* drop_range(lo..hi) in a call of op(n): `get_mut` gives nothing when the range
\* is not in bounds, and then nothing is dropped.
DropRange(op, n, lo, hi, ret, held) ==
    LET found == lo <= hi /\ hi <= N
        from == IF found THEN lo ELSE 0
    IN [op |-> op, n |-> n, lo |-> from, at |-> from, hi |-> IF found THEN hi ELSE 0,
        ret |-> ret, held |-> held, src |-> None]

\* Drop::drop of i, run for op: `alive` is emptied before the elements are dropped.
StartDrop(i, op, lo, hi, ret, held) ==
    /\ alive' = [alive EXCEPT ![i] = [start |-> 0, end |-> 0]]
    /\ frame' = [frame EXCEPT ![i] = DropRange(op, 0, lo, hi, ret, held)]
    /\ pc' = [pc EXCEPT ![i] = "dropping"]

-----------------------------------------------------------------------------

NextItem(i) ==
    /\ Ready(i)
    /\ TakeFront(i, "next", 0)
    /\ UNCHANGED <<data, pc, frame, unwinding, val, lost, aborted>>

NextBack(i) ==
    /\ Ready(i)
    /\ TakeBack(i, "next_back", 0)
    /\ UNCHANGED <<data, pc, frame, unwinding, val, lost, aborted>>

\* A bug: the argument of nth is not limited to the length.
SkippedUnlimited(i, n) == n

\* Bugs: an element is kept back for the next() that ends nth, or skipped
\* before it.
SkippedKeepsOne(i, n) ==
    CASE n < AliveLen(i) -> n
      [] AliveLen(i) = 0 -> 0
      [] OTHER -> AliveLen(i) - 1

SkippedOneMore(i, n) == IF n + 1 < AliveLen(i) THEN n + 1 ELSE AliveLen(i)

Skipped(i, n) == IF n < AliveLen(i) THEN n ELSE AliveLen(i)

\* nth(n) up to drop_range: the skipped slots leave `alive` first.
Nth(i, n) ==
    /\ Ready(i)
    /\ LET start == alive[i].start
           skipped == Skipped(i, n)
       IN /\ alive' = [alive EXCEPT ![i].start = @ + skipped]
          /\ frame' = [frame EXCEPT ![i] = DropRange("nth", n, start, start + skipped, Unit, None)]
    /\ pc' = [pc EXCEPT ![i] = "dropping"]
    /\ out' = NoAnswer
    /\ UNCHANGED <<data, unwinding, val, released, lost, aborted>>

NthBack(i, n) ==
    /\ Ready(i)
    /\ LET end == alive[i].end
           skipped == Skipped(i, n)
       IN /\ alive' = [alive EXCEPT ![i].end = @ - skipped]
          /\ frame' = [frame EXCEPT ![i] = DropRange("nth_back", n, end - skipped, end, Unit, None)]
    /\ pc' = [pc EXCEPT ![i] = "dropping"]
    /\ out' = NoAnswer
    /\ UNCHANGED <<data, unwinding, val, released, lost, aborted>>

\* count(self) reads the length, then self is dropped.
Count(i) ==
    /\ Ready(i)
    /\ StartDrop(i, "count", alive[i].start, alive[i].end, Counted(AliveLen(i)), None)
    /\ out' = NoAnswer
    /\ UNCHANGED <<data, unwinding, val, released, lost, aborted>>

\* last(self) holds next_back() as its return value while self is dropped.
Last(i) ==
    /\ Ready(i)
    /\ IF AliveLen(i) > 0
       THEN LET e == data[i][alive[i].end - 1] IN
            StartDrop(i, "last", alive[i].start, alive[i].end - 1, Some(val[e]), e)
       ELSE StartDrop(i, "last", alive[i].start, alive[i].end, Empty, None)
    /\ out' = NoAnswer
    /\ UNCHANGED <<data, unwinding, val, released, lost, aborted>>

\* The drop may itself run while the client unwinds from a panic of its own.
Drop(i) ==
    /\ Ready(i)
    /\ StartDrop(i, "drop", alive[i].start, alive[i].end, Unit, None)
    /\ \E u \in BOOLEAN : unwinding' = [unwinding EXCEPT ![i] = u]
    /\ out' = NoAnswer
    /\ UNCHANGED <<data, val, released, lost, aborted>>

\* as_mut_slice lends the alive slots, and the client swaps two of them.
Swap(i) ==
    /\ Ready(i)
    /\ \E k, l \in AliveSlots(i) :
          /\ k < l
          /\ data' = [data EXCEPT ![i][k] = data[i][l], ![i][l] = data[i][k]]
    /\ UNCHANGED <<alive, pc, frame, unwinding, val, released, lost, out, aborted>>

-----------------------------------------------------------------------------
\* drop_in_place on the slice that drop_range found, one element at a time.

Dropping(i) == ~aborted /\ pc[i] = "dropping" /\ frame[i].at < frame[i].hi

Released(i) == released' = [released EXCEPT ![data[i][frame[i].at]] = @ + 1]

DropElement(i) ==
    /\ Dropping(i)
    /\ Released(i)
    /\ frame' = [frame EXCEPT ![i].at = @ + 1]
    /\ UNCHANGED <<data, alive, pc, unwinding, val, lost, out, aborted>>

\* The element's destructor panics: the elements after it are dropped while
\* unwinding, where a further panic aborts the process.
DropPanics(i) ==
    /\ Dropping(i)
    /\ Released(i)
    /\ frame' = [frame EXCEPT ![i].at = @ + 1]
    /\ unwinding' = [unwinding EXCEPT ![i] = TRUE]
    /\ aborted' = unwinding[i]
    /\ UNCHANGED <<data, alive, pc, val, lost, out>>

-----------------------------------------------------------------------------
\* After drop_range.

RangeDropped(i, ops) ==
    /\ ~aborted /\ pc[i] = "dropping"
    /\ frame[i].at = frame[i].hi
    /\ frame[i].op \in ops

\* A bug: nth_back ends with next().
NthReturnsNext(i) ==
    /\ RangeDropped(i, {"nth", "nth_back"})
    /\ ~unwinding[i]
    /\ TakeFront(i, frame[i].op, frame[i].n)
    /\ pc' = [pc EXCEPT ![i] = "idle"]
    /\ frame' = [frame EXCEPT ![i] = NoFrame]
    /\ UNCHANGED <<data, unwinding, val, lost, aborted>>

\* nth and nth_back end with next() and next_back().
NthReturns(i) ==
    /\ RangeDropped(i, {"nth", "nth_back"})
    /\ ~unwinding[i]
    /\ LET n == frame[i].n IN
       IF frame[i].op = "nth" THEN TakeFront(i, "nth", n) ELSE TakeBack(i, "nth_back", n)
    /\ pc' = [pc EXCEPT ![i] = "idle"]
    /\ frame' = [frame EXCEPT ![i] = NoFrame]
    /\ UNCHANGED <<data, unwinding, val, lost, aborted>>

\* A panic leaves nth before next(), and the client catches it and keeps i.
NthCaught(i) ==
    /\ RangeDropped(i, {"nth", "nth_back"})
    /\ unwinding[i]
    /\ unwinding' = [unwinding EXCEPT ![i] = FALSE]
    /\ pc' = [pc EXCEPT ![i] = "idle"]
    /\ frame' = [frame EXCEPT ![i] = NoFrame]
    /\ out' = Answered(i, frame[i].op, frame[i].n, Panic)
    /\ UNCHANGED <<data, alive, val, released, lost, aborted>>

\* The panic unwinds through the owner of i, which drops it.
NthUnwinds(i) ==
    /\ RangeDropped(i, {"nth", "nth_back"})
    /\ unwinding[i]
    /\ StartDrop(i, "drop", alive[i].start, alive[i].end, Unit, None)
    /\ out' = Answered(i, frame[i].op, frame[i].n, Panic)
    /\ UNCHANGED <<data, unwinding, val, released, lost, aborted>>

\* i no longer exists, and the call that consumed it gave the answer r.
Gone(i, r) ==
    /\ pc' = [pc EXCEPT ![i] = "gone"]
    /\ frame' = [frame EXCEPT ![i] = NoFrame]
    /\ unwinding' = [unwinding EXCEPT ![i] = FALSE]
    /\ out' = Answered(i, frame[i].op, 0, r)

Consumed(i) ==
    /\ RangeDropped(i, {"count", "drop", "clone"})
    /\ Gone(i, IF unwinding[i] THEN Panic ELSE frame[i].ret)
    /\ UNCHANGED <<data, alive, val, released, lost, aborted>>

LastReturns(i) ==
    /\ RangeDropped(i, {"last"})
    /\ ~unwinding[i]
    /\ Gone(i, frame[i].ret)
    /\ IF frame[i].held = None
       THEN UNCHANGED released
       ELSE released' = [released EXCEPT ![frame[i].held] = @ + 1]
    /\ UNCHANGED <<data, alive, val, lost, aborted>>

\* A destructor of self panicked after the return value was written.  The
\* compiler either drops that value while unwinding or leaks it.
LastUnwinds(i) ==
    /\ RangeDropped(i, {"last"})
    /\ unwinding[i]
    /\ Gone(i, Panic)
    /\ \/ /\ frame[i].held = None
          /\ UNCHANGED <<released, lost, aborted>>
       \/ /\ frame[i].held # None
          /\ released' = [released EXCEPT ![frame[i].held] = @ + 1]
          /\ aborted' \in BOOLEAN
          /\ UNCHANGED lost
       \/ /\ frame[i].held # None
          /\ lost' = lost \cup {frame[i].held}
          /\ UNCHANGED <<released, aborted>>
    /\ UNCHANGED <<data, alive, val>>

-----------------------------------------------------------------------------
\* A bug: `alive` is set to the source's range before the clones are written.
CloneAliveFirst(i, d) ==
    /\ ~aborted /\ pc[i] = "idle" /\ pc[d] = "absent"
    /\ LET start == alive[i].start
           f == [op |-> "clone", n |-> 0, lo |-> start, at |-> start, hi |-> alive[i].end,
                 ret |-> Unit, held |-> None, src |-> i]
       IN /\ alive' = [alive EXCEPT ![d] = alive[i]]
          /\ frame' = [frame EXCEPT ![d] = f]
    /\ pc' = [pc EXCEPT ![d] = "cloning"]
    /\ out' = NoAnswer
    /\ UNCHANGED <<data, unwinding, val, released, lost, aborted>>

\* Clone::clone: d is built from the alive elements of i.
Clone(i, d) ==
    /\ ~aborted /\ pc[i] = "idle" /\ pc[d] = "absent"
    /\ LET start == alive[i].start
           f == [op |-> "clone", n |-> 0, lo |-> start, at |-> start, hi |-> alive[i].end,
                 ret |-> Unit, held |-> None, src |-> i]
       IN /\ alive' = [alive EXCEPT ![d] = [start |-> start, end |-> start]]
          /\ frame' = [frame EXCEPT ![d] = f]
    /\ pc' = [pc EXCEPT ![d] = "cloning"]
    /\ out' = NoAnswer
    /\ UNCHANGED <<data, unwinding, val, released, lost, aborted>>

Cloning(d) == ~aborted /\ pc[d] = "cloning"

\* x.clone() returns, and the clone is written at alive.end, which then grows.
CloneElement(d) ==
    /\ Cloning(d)
    /\ frame[d].at < frame[d].hi
    /\ alive[d].end \in Slots
    /\ LET x == data[frame[d].src][frame[d].at]
           e == <<d, alive[d].end>>
       IN /\ data' = [data EXCEPT ![d][alive[d].end] = e]
          /\ val' = [val EXCEPT ![e] = val[x]]
    /\ alive' = [alive EXCEPT ![d].end = @ + 1]
    /\ frame' = [frame EXCEPT ![d].at = @ + 1]
    /\ UNCHANGED <<pc, unwinding, released, lost, out, aborted>>

\* x.clone() panics (or the slot index would be out of bounds): the unfinished
\* iterator is dropped while unwinding.
ClonePanics(d) ==
    /\ Cloning(d)
    /\ frame[d].at < frame[d].hi
    /\ StartDrop(d, "clone", alive[d].start, alive[d].end, Unit, None)
    /\ unwinding' = [unwinding EXCEPT ![d] = TRUE]
    /\ UNCHANGED <<data, val, released, lost, out, aborted>>

\* A bug: the loop waits until all N slots are cloned.
CloneReturnsFull(d) ==
    /\ Cloning(d)
    /\ frame[d].at = N
    /\ pc' = [pc EXCEPT ![d] = "idle"]
    /\ frame' = [frame EXCEPT ![d] = NoFrame]
    /\ UNCHANGED <<data, alive, unwinding, val, released, lost, out, aborted>>

CloneReturns(d) ==
    /\ Cloning(d)
    /\ frame[d].at = frame[d].hi
    /\ pc' = [pc EXCEPT ![d] = "idle"]
    /\ frame' = [frame EXCEPT ![d] = NoFrame]
    /\ UNCHANGED <<data, alive, unwinding, val, released, lost, out, aborted>>

-----------------------------------------------------------------------------

\* The client's choice of the next call.
Call(i) ==
    \/ NextItem(i) \/ NextBack(i) \/ Count(i) \/ Last(i) \/ Drop(i) \/ Swap(i)
    \/ \E n \in 0 .. MaxSkip : Nth(i, n) \/ NthBack(i, n)
    \/ \E d \in Iters : Clone(i, d)

\* The rest of a call that has started.
Run(i) ==
    \/ DropElement(i) \/ DropPanics(i)
    \/ NthReturns(i) \/ NthCaught(i) \/ NthUnwinds(i)
    \/ Consumed(i) \/ LastReturns(i) \/ LastUnwinds(i)
    \/ CloneElement(i) \/ ClonePanics(i) \/ CloneReturns(i)

\* The program has ended: no iterator is left, or the process was aborted.
Ended ==
    /\ aborted \/ \A i \in Iters : pc[i] \in {"absent", "gone"}
    /\ UNCHANGED vars

Next == (\E i \in Iters : Call(i) \/ Run(i)) \/ Ended

\* A call that has started goes on: the thread that runs it is scheduled, and
\* destructors and clones of elements return or panic.
Fairness == \A i \in Iters : WF_vars(Run(i))

Spec == Init /\ [][Next]_vars /\ Fairness

-----------------------------------------------------------------------------

TypeOK ==
    /\ data \in [Iters -> [Slots -> Elems \cup {None}]]
    /\ alive \in [Iters -> [start : 0 .. N, end : 0 .. N]]
    /\ pc \in [Iters -> {"absent", "cloning", "idle", "dropping", "gone"}]
    /\ frame \in [Iters -> Frames]
    /\ unwinding \in [Iters -> BOOLEAN]
    /\ val \in [Elems -> Slots \cup {None}]
    /\ released \in [Elems \cup {None} -> Nat]
    /\ lost \in SUBSET Elems
    /\ out \in Outs
    /\ aborted \in BOOLEAN

\* No element is moved out or dropped twice, and no uninitialized slot is read
\* or dropped, whatever panics: the ownership of an element leaves through
\* exactly one of next, next_back, nth, nth_back, last, Drop or unwinding.
ReleasedOnce ==
    /\ released[None] = 0
    /\ \A e \in Elems : released[e] <= 1

\* The invariant written at the field IntoIter::alive: the slots in `alive` are
\* initialized and owned by this iterator alone.
AliveOwned ==
    \A i \in Iters :
        /\ \A k \in AliveSlots(i) : /\ data[i][k] # None
                                    /\ val[data[i][k]] # None
                                    /\ released[data[i][k]] = 0
        /\ \A j \in Iters : \A k \in AliveSlots(i), l \in AliveSlots(j) :
              data[i][k] = data[j][l] => i = j /\ k = l

\* Nothing leaks silently: when an iterator is gone, each element it ever held
\* was handed to the client or dropped.  A panicking destructor does not make
\* drop_range skip the others, and drop_range never takes its early return.
NoLeak ==
    \A e \in Elems :
        (pc[e[1]] = "gone" /\ val[e] # None /\ ~aborted) => released[e] = 1 \/ e \in lost

-----------------------------------------------------------------------------
(***************************************************************************)
(* The inductive invariant behind the three.  An iterator owns the alive   *)
(* slots and those a call in progress has still to drop; what it owns is   *)
(* initialized, distinct and unreleased; what it ever held is accounted    *)
(* for.                                                                    *)
(***************************************************************************)

ElemsOf(i) == {i} \X Slots

OwnedSlots(i) == AliveSlots(i) \cup DyingSlots(i)

Exists(e) == val[e] # None

\* The dying slots lie on the side of the alive ones that the call skips.
Ranges(i) ==
    /\ alive[i].start <= alive[i].end
    /\ pc[i] \in {"absent", "gone"} => alive[i].start = alive[i].end
    /\ pc[i] = "dropping" =>
          /\ frame[i].at <= frame[i].hi
          /\ CASE frame[i].op = "nth" -> frame[i].hi <= alive[i].start
               [] frame[i].op = "nth_back" -> alive[i].end <= frame[i].at
               [] OTHER -> alive[i].start = alive[i].end

\* An element moved into the answer of `last` is in no slot that i owns.
Holding(i) ==
    frame[i].held # None =>
        /\ pc[i] = "dropping" /\ frame[i].op = "last"
        /\ frame[i].held \in ElemsOf(i)
        /\ Exists(frame[i].held) /\ released[frame[i].held] = 0

Owning(i) ==
    /\ \A k \in OwnedSlots(i) :
          /\ data[i][k] \in ElemsOf(i) /\ data[i][k] # frame[i].held
          /\ Exists(data[i][k]) /\ released[data[i][k]] = 0
    /\ \A k, l \in OwnedSlots(i) : data[i][k] = data[i][l] => k = l

Accounted(i) ==
    \A e \in ElemsOf(i) :
        /\ released[e] <= 1
        /\ ~Exists(e) => released[e] = 0
        /\ Exists(e) => \/ released[e] = 1 \/ e \in lost \/ e = frame[i].held
                        \/ \E k \in OwnedSlots(i) : data[i][k] = e

\* The slots that a clone in progress has not written yet hold nothing.
Unwritten(i) ==
    \A k \in Slots :
        pc[i] = "absent" \/ (pc[i] = "cloning" /\ k >= alive[i].end) => ~Exists(<<i, k>>)

\* A clone in progress has written as many elements as it has read.
CloningFrom(d) ==
    pc[d] = "cloning" =>
        LET s == frame[d].src IN
        /\ s \in Iters /\ pc[s] = "idle"
        /\ frame[d].at = alive[d].end
        /\ alive[s].start <= frame[d].at /\ frame[d].at <= frame[d].hi
        /\ frame[d].hi = alive[s].end

IterInv(i) ==
    /\ Ranges(i) /\ Holding(i) /\ Owning(i)
    /\ Accounted(i) /\ Unwritten(i) /\ CloningFrom(i)

IInv ==
    /\ TypeOK
    /\ released[None] = 0
    /\ \A i \in Iters : IterInv(i)

-----------------------------------------------------------------------------

\* A call that has started ends, normally or by a panic, or the process aborts.
CallsEnd ==
    \A i \in Iters :
        (pc[i] \in {"cloning", "dropping"}) ~> (aborted \/ pc[i] \in {"idle", "gone"})

=============================================================================
