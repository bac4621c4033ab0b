# A specification of const-array

`const-array` is a Rust crate of arrays whose length is a type: `Len<N>`,
`Sum<A, B>` or `Prod<A, B>`. Its public interface is safe; behind it, unsafe code
moves bits between types of equal layout, builds arrays in uninitialized
storage, hands out elements one by one, and trusts values of two proof types,
`SameLen` and `AtMost`. What can go wrong is therefore a matter of ownership
(an element dropped twice, or never), of bounds and aliasing (a view that is
too long, two mutable views of one element), and of soundness (a proof value for
something false). None of it depends on threads. Most of it depends on client
code, which runs in the middle of the crate's functions (closures, destructors,
`clone`, iterators) and may panic at any of those points, and on long sequences
of legal calls. Tests under Miri follow single paths through that space; the
modules here enumerate it for small instances, and prove every safety property
that is checked there for every instance.

Paths like `array.rs` are relative to `src/src/`, those like `examples/aead.rs` to
`src/`.

## The system

| Component | State | Operations | Correct if |
|---|---|---|---|
| `IntoIter` (`iter.rs`) | storage of `MaybeUninit` slots, the range `alive` | `next`, `next_back`, `nth`, `nth_back`, `count`, `last`, `clone`, `as_mut_slice`, `Drop` | it behaves as a deque; each element leaves once, through one exit, whatever panics |
| In-place construction (`size.rs`: `build`, `try_build`) | uninitialized storage, the loop index, the `Guard` | the loop; the guard's `Drop` | the caller gets all elements in order, or those made are dropped |
| Element-wise constructors (`array.rs`: `map`, `zip`, `pad_from`, `try_from_iter`, `try_from_fn`, `map_ref`, `zip_with`, `each_ref`, `each_mut`) | a source that the closure owns or borrows, a finished array not yet returned | the closure at an index; the check for an extra item; dropping locals | each item ends in one place; order is kept; only the exact length succeeds |
| Sizes (`size.rs`: `Len`, `Sum`, `Prod`) | none: constants | `USIZE` | an overflow never becomes a length |
| Length proofs (`same_len.rs`, `at_most.rs`) | none at run time: the proof values a program can make | `try_new`, `checked`, the macros, some 20 lemmas | a proof exists only if it is true |
| Moves (`array.rs`: `cast`, `try_cast`, `truncate`, `concat`, `parts`, `into_chunks`, `from_chunks`, `new`, `into_array`) | the arrays a client holds | each consumes arrays and makes others of the same bits | one owner per element; type and storage agree; order is kept |
| Views (`array.rs`, `impls.rs`: prefixes, suffixes, `split_mut`, `as_chunks_mut`, `cast_mut`, slices as arrays) | the references a client holds | each replaces a view by others | in bounds, disjoint, nothing lost, no panic if the proofs are true |
| Updates in place (`array.rs`: `zip_mut_with`, `clone_from`) | an array that the client keeps, half-way updated after a panic | client code on each element and its counterpart | one owner per element; no element is skipped |
| Storage layout (`size.rs`: `ArrayType`, `Concat`, `Repeat`; `array.rs`: `LAYOUT_OK`) | the types the compiler has laid out | `[T; N]`, `Concat`, `Repeat` | each is laid out as `[T; n]`: length, bytes, alignment, order |
| Standard traits (`impls.rs`) | none | comparison, hashing, formatting, borrowing through the slice | agree with the slice |
| Record channel (`examples/aead.rs`) | key, iv and counter at each end | `send`, `receive` and their batches over Encrypt-then-MAC | fresh nonces; what is read was sent, in order |
| HKDF (`examples/hkdf.rs`) | the block before, the index | `expand_into`, the key schedules | RFC 5869; keys do not overlap |
| Other examples | none | stateless functions on arrays | sizes agree by type |

How they interact: every constructor runs `try_build` with a closure, and
some closures own an `IntoIter`; so a panic of the closure unwinds through the
guard and then through the iterator, and the two must share the elements
exactly. Moves and views take proof values and rely on them; owned casts
trust them blindly, views check the lengths again. Everything relies on
`USIZE` being the length of the storage, and on the storage being laid out as
`[T; USIZE]`, which no line of code enforces but for the assertions of
`LAYOUT_OK`. The examples are clients: their key schedules cut arrays with
`parts` and `into_chunks`, and their nonces and blocks are arrays of a size that
is a type parameter.

The hard behaviours are
 * a panic at any call of client code, and a second one while the first unwinds
   (which aborts the process);
 * the order of two statements around such a call: `alive` shrinks before the
   skipped elements are dropped, the guard counts an element after it is
   written, a clone's `alive` grows after the write;
 * values in flight: the answer of `last` while `self` is dropped, an error
   while the guard is dropped, a complete array while the iterator is asked
   for more, the prefix while `truncate` drops the rest;
 * arithmetic at its limits: `nth` beyond the end, empty ranges at `N`, lengths
   that overflow `usize`, products with 0, differences with a wrong proof;
 * chains: proofs composed through sizes that do not compile, views of views,
   arrays cast between sums that cut the same elements at other places;
 * updates that panic half-way and are tried again on the same array;
 * in the examples, counters at their last value, batches that fail in the
   middle, and records that a network loses, repeats and reorders.

`PROJECT.json` lists each hazard at its line with the properties that cover it.

## Modules

    Sizes ─────────┬── LenProofs ── LenProofs_proofs
                   ├── Layout ───┬─ Memory_proofs
                   ├── Views ────┘
                   ├── Moves ──(implements)── OwnedSequences
                   │     └───────── Moves_proofs
                   └── Hkdf ─────┬─ Examples_proofs
    Channel ─────────────────────┘
       └──(implements)── RecordStream
    IntoIter ── IntoIterDeque ──(implements)── OwnedDeque
        └────── IntoIter_proofs
    TryBuild ── Transfer ── Transfer_proofs
        └────── TryBuild_proofs ──┘
    InPlace ─── InPlace_proofs

`MC*` modules fix the sizes that a run uses. `Layout` and `Hkdf` name their
specifications `LayoutSpec` and `HkdfSpec`, because each shares a proof module with
another component.

### How panics are modelled

A destructor, a clone, a closure or a foreign iterator is one step that
succeeds or panics. `ptr::drop_in_place` on a slice goes on with the elements
after a destructor that panicked; a panic during that unwinding aborts, after
which nothing is required and nothing happens. When a function has written its
return value and then a destructor of one of its locals panics, the compiler
drops the value while unwinding or leaks it, depending on version and
optimization: the modules allow both, and record a leak so that the properties
can tell it from an element that the code forgot.

### IntoIter

`data`, `alive` are the fields. `pc`, `frame` and `unwinding` are the call that
runs on an iterator: which method the client called with which argument, the range that
`drop_range` still has to drop, the answer. `out` is the last answer with its iterator, method
and argument, until the client begins another call. A slot that was moved out keeps its
bits, as in memory; `released` counts how often each element left an iterator,
and `released[None]` how often an uninitialized slot was used, so errors are
recorded and not prevented by the model. Methods that run no client code
(`next`, `next_back`, `as_mut_slice`) are single actions; the others are a first
action up to `drop_range` (`Nth`, `NthBack`, `Count`, `Last`, `Drop`), one
`DropElement` or `DropPanics` per element, and an action for the rest
(`NthReturns`, `LastReturns`, ...). After a panic in `nth` the client may catch it and
go on (`NthCaught`) or let it drop the iterator (`NthUnwinds`). `Clone` writes
one element per step and holds a shared borrow of its source, which can still
be cloned but not changed. Default methods of `Iterator` (`fold`, `collect`, ...) are
sequences of these.

`OwnedDeque` is what the traits promise: a sequence of values per iterator,
consumed from both ends in atomic steps. `IntoIterDeque` maps the state to it;
a call in progress still has the values it has taken out of `alive` until it
answers. An answer carries the method and the argument of the call, and the step that gives it must be
what the deque does for these: `nth(n)` drops the first n values, or all that are left, and answers
with the next one or `None`; if it panics, exactly those are gone, at that end, and
it cannot panic where it has nothing to drop. So an `nth` that skips one value more or less than its argument,
takes from the other end or loses more in a panic than it skipped is not a step of the deque. An
answer of an earlier call may be forgotten (`Forget`), which is all a call does for the
deque when it begins.

### TryBuild and Transfer

`TryBuild` is `try_build` with the guard: `FReturnsOk`, `FReturnsErr` and
`FPanics` are the outcomes of `f(i)` with the code up to the next call. `Transfer`
INSTANCEs it and joins each outcome with what the constructor's closure did to
get it (`MapClosure`, `ZipClosure`, ...), then runs the code after `try_build`
(`Built`, `NothingExtra`, `SomeExtra`) and drops the locals in order. The sources of `map`,
`zip` and `pad_from` are `IntoIter`s, of which only `next` and `Drop` are used. `zip` has two (`next` and
`otherNext`, ...), which core's `Zip` asks in turn: `ZipClosure` has a case for both
yielding, one for the second having ended when the first has yielded, whose item is dropped, and one for
the first having ended; only the lengths keep the latter two, which panic, from happening.
`try_from_iter`'s is client code, which may yield any number of items up to two
too many and panic at any call. `zip_with` and `each_ref` are `map_ref` and
`each_mut` with other references; `from_fn` and `clone` are `TryBuild` with an `f`
that never fails.

### InPlace

An array that the client keeps while it calls `zip_mut_with` or `clone_from`
several times. Client code gets the element of index `i` and its counterpart; it
may change the element (`Keep`) or assign a new one to it, whose old value is
dropped (`Replace`), and it may panic before or after (`Panics`). `from` remembers, for each
slot, which call updated it last and with which counterpart. At last the
array is dropped, possibly while the client unwinds.

### Sizes and LenProofs

A size is a record of its shape, its `USIZE`, and `math`, the length in
unbounded arithmetic, which only properties and proofs mention. `USIZE` is
`Overflow` if constant evaluation rejects it. With `Wrapping`, evaluation wraps
around: a compiler that does not exist, but which comments in `same_len.rs` and
`at_most.rs` argue about. `LenProofs` is a program that makes proof values:
`same` and `atMost` are those it has, an action is a constructor (`SameTryNew`,
which compares the lengths, if they compile), a combinator (`Trans`, `SameSum`, ...) or a
lemma. A lemma is a pair of sizes.

### Layout

The compiler lays out the storage types that a program mentions, one after
the other; `formed` are those it has accepted. A storage type has the field `LEN` that `size.rs`
computes for it, and bytes, alignment and the offset of each item as the language
defines them: `PlainArray` for `[T; N]`, `Concat` for a `repr(C)` struct of two fields, `Repeat` for
a transparent wrapper. Items may be storage themselves, so any nesting is
reached. A type of more than `isize::MAX` bytes is rejected (`Form`). `LayoutOK` is the
assertions of `LAYOUT_OK`; `LaidOut` is what the unsafe code needs and what they
only test for one type at a time.

### Views

A client starts with a mutable reference to an array and calls methods on the
views it has. A view is a range of that array with its type; a reference to an
array has the extent that its type says, which is what the hardware would
access, not what was checked. `Fits` is `slice_as_arrays_mut`, with its
`checked_mul`; each unwrap panics if it does not fit, both of `as_chunks_mut` included. `hidden` are the parts that
`prefix_mut` and `suffix_mut` throw away. If `trusted` is FALSE, which is fixed at the start, any
two sizes have a proof; the doc comment of `slice_as_arrays` says that this must
not be worse than a panic.

### Moves and OwnedSequences

`arrays[h]` is the value in a variable of the client, with its type and the
elements that its storage holds in order. `Transmute` is `transmute_layout`:
the elements stay, the type changes. `Joined` and `Field` are `Concat`. `truncate`
and the client's drops run destructors one by one, with the prefix as a local of
`truncate` that a panic drops in turn. Arrays of arrays (`of`) come from
`into_chunks`, and all conversions except chunking again apply to them too. `OwnedSequences` has no types and
no steps in between: sequences are joined, cut, shortened and dropped.

### Channel and RecordStream

Both ends of a `Channel` of `examples/aead.rs`, one sending and one receiving.
`NonceOf` is `next_nonce` byte by byte, for nonces shorter and longer than the counter; `HasNonce`
its two ways to fail. `SendRecords` seals a batch and gives it up in the middle if nonces
run out; `ReceiveRecords` opens records until one fails, whose nonce is used up. The network
hands over any ciphertext that was ever sent with any tag, in any order and
number (`Network`); `inOrder` remembers whether it has been honest. The cipher and
the MAC are ideal. How many values a byte has, how many bytes the counter, and the XOR of two
bytes are parameters; of XOR the module assumes only that what was XORed with a known
byte can be recovered. The iv is any sequence of bytes of `IvBytes`. `Values` counts the values
of n bytes, `Values[CounterBytes] - 1` is `u64::MAX`. In the run a byte has one bit, so that a counter
of three bytes ends after seven records. `RecordStream` is what a reader of the channel
expects: numbers of messages that grow, and batches without gaps.

### Hkdf

`expand_into` of `examples/hkdf.rs`: the test of the length, then one chunk per `Expand`, with
`i as u8 + 1` as it is computed, where the cast wraps and the sum panics. HMAC is
ideal: a block is what distinguishes its input. The module assumes that the example compiles
(`CompilesAssumption`: a `usize` that does not wrap and holds 224). `TakeKeys` are `session_keys` and `epoch_keys`,
whose sizes come from `Sizes`. They are 56 and 224 bytes; the messages of the
`expect`s at `examples/hkdf.rs:99` and `:117` say 44 and 176, the sizes of keys with one iv
for both directions, which no code depends on.

## Runs

| Run | Instance | Shows |
|---|---|---|
| `into_iter_one` | one iterator, N = 4, `nth` up to 5 | the inductive invariant, and that it is a deque which skips what `nth` is asked to |
| `into_iter_clone` | an iterator and its clone, N = 2, `nth` up to 1 | the three ownership properties and the deque when calls on both interleave and a clone panics half-way; each call that started ends |
| `try_build` | N = 8 | failure at every index: all or nothing, order |
| `transfer` | N = 5, seven constructors | where each item and element ends, exact length, at most N + 1 calls of `next`, an end |
| `in_place` | N = 3, up to three updates | one owner per element, nothing skipped, whatever panics |
| `len_proofs` | 2-bit `usize`, 24 sizes, up to 4 proofs | no false proof, although several sizes overflow |
| `len_proofs_wrapping` | the same, wrapping, up to 3 proofs | `SameLen` alone stays sound, as claimed |
| `layout` | 4-bit `usize`, plain lengths 0, 2, 3 and 8, five kinds of items of 0, 1 and 2 bytes, up to 5 types | every storage is laid out as a plain array, and a length overflows only if there are arrays of items without bytes |
| `views` | `usize` up to 4, 7 sizes; 3 views with true proofs, 2 with any | in bounds, disjoint and complete; no panic if the proofs are true |
| `moves` | 3 variables, 11 sizes of length up to 4 | one owner, storage fits the type, order |
| `channel` | a counter of 3 one-bit bytes, nonces of 0 to 4 bytes, batches of up to 2 | fresh nonces, the exact limit, what is read was sent, both ends in step |
| `hkdf` | digests of 0, 1, 2 and 32 bytes; lengths around one and two blocks and around each limit; both key schedules | RFC 5869's output, the exact limit, disjoint keys |

Why the bounds are enough: four elements allow a call that skips some, one that
takes one from each end and a rest; with N = 2 a clone can start at 0, 1 or 2, have
written none, one or both elements when it panics, and its source can go on. In `into_iter_one` `nth` is
called with every argument below the length, with it and beyond it; in `into_iter_clone`, which is about two
iterators, it skips one element or none. Constructions and updates behave the same at each
index, so that 3, 5 or 8 elements show the first, an inner and the last. A `usize` of
two bits makes sums and products of 2 and 3 overflow; `MaxBasic` bounds how many
proofs come from comparisons and lemmas (two is what each combinator takes) and
`MaxProofs` all proofs. `MaxFormed` = 5 types include a `Concat` of a `Repeat` and a `Repeat` of `Concat`s, with
items whose alignment is smaller than, and equal to, their size. Three views are needed for a conflict between a view
and one made from its neighbour; `MaxViews` and `MaxDoubted` bound splits only. The sizes of
`moves` include different shapes of equal length (casts), nested sums (cuts at other places)
and a product of a sum (chunks).
Variables of `moves` are symmetric: no action or property names one.
In `channel` the counter runs out in each of the nonce sizes, also in the middle of a batch; no
other bound is needed. In `hkdf` the limit of 255 blocks is the real one.

`CHECK_DEADLOCK FALSE` is set where the modelled function returns, the client may
run out of things to do, or a bound ends its program. In `into_iter_one` and `into_iter_clone` deadlock is checked:
the only state without a call in progress or a possible one is `Ended`. So it is
in `channel`, whose ends may go on to answer `Err`.

## Fairness

`IntoIter` assumes weak fairness of `Run(i)` for each iterator: a call
that has started is executed by a thread which is scheduled, and destructors
and clones return or panic. No call has to be made. `Transfer` is a single
call, with weak fairness of `Next` under the same assumption on
client code. Without it nothing can be said: a closure may loop. The other modules
state safety only: their clients need not call anything, and a single call
of theirs is a bounded loop.

## Proofs

`IntoIter_proofs`: for any set of iterators, any N and any `MaxSkip`, `Spec` implies `[]IInv`, and from it
`ReleasedOnce`, `AliveOwned` and `NoLeak`. None of these is inductive: that an
element has not been released says nothing about slots outside `alive` which a call in
progress will drop, and a leak only shows when the iterator is gone. `IInv` says, for each
iterator: the range being dropped is disjoint from the alive one, on
the side the call skips from (`Ranges`); the answer that `last` holds exists and is in no owned slot
(`Holding`); owned slots hold existing, unreleased, pairwise distinct elements that were
first written by this iterator (`Owning`); every element that exists is
released, held, lost with a return value, or in an owned slot (`Accounted`); a clone has
written as many as it read and nothing beyond (`Unwritten`, `CloningFrom`). Elements
belong to one iterator, so a step on one leaves the others' parts alone (`Others`), and each action is
one lemma. The deque refinement `ImplementsDeque` is proved on top of it. What `IInv` lacks is
what a call in progress shows its client: the range it has taken out of `alive`, also
where its elements are dropped already, until it answers. `DInv` says that this range still has the values
(`Shows`), that a call answers for exactly that range (`InCall`: the range of `nth(n)` has n slots, or
is all that was left, `count` has its length, `last` the value that follows it), and that a clone has
copied what it has read (`Copies`). Lemmas about sequences of slots
(`WithoutFirstValues`, `LastOfValues`, ...) say what skipping, taking and putting back does to
them; each action is then one lemma (`...Simulates`), a step of the deque or a stutter. All this assumes only that `Roots` are iterators, N and MaxSkip are natural and
`None` is not an element.

`TryBuild_proofs`: for any N, `ReleasedOnce`, `AllOrNothing` and `CallsInOrder`. The
invariant says that the guard counts exactly the elements made, that each lies in its
slot (`Counted`), that what has left is what the guard has dropped, or everything
once the array is returned (`Left`), that `f` was called for the elements made and
once more if it failed (`Called`), and whether the error is still held (`Errors`). It
assumes that N is a natural number and `None` no element.

`Transfer_proofs`: for any N, any length of the source and all seven constructors,
the seven safety properties of the run. It cites the invariance of `TryBuild_proofs`
through an INSTANCE, as `Transfer` uses `TryBuild`: each closure is one of its
steps (`BuildStep`), and what happens before and after leaves it alone. On top of that,
items before `next` have left the source once (`Sourced`), the source keeps pace with the loop
index as long as nothing failed (`Paced`), which differs for `pad_from`, and what
`try_from_iter` knows about the iterator's length follows its counters (`Iterated`). Of the two arrays of
`zip`, the invariant says that they are equally long and that their iterators always stand at the same
item (`Matched`): so neither is ever short. It assumes that N is a natural number, and that `None` and `Fill` are no elements or items.

`InPlace_proofs`: for any N and any number of calls, `OwnsItsElements` and `UpdatesPrefix`. The second
needs one fact more: during a call, the slots before `i` are from this call (`InCall`).

`LenProofs_proofs`: assuming `~Wrapping`, for every `Modulus` and universe of sizes,
every `SameLen` and `AtMost` is true. The invariant of the code,
that `USIZE`s are equal or ordered, is not inductive: `trans` may lead through a size whose
`USIZE` does not exist. That the `math` lengths are (`ProofsOfMath`) is inductive,
and implies it where both sides compile. For this a universe must contain only sizes
whose `USIZE` is their `math` length or `Overflow` (`ConstructorsAreSizes` shows it of the
constructors). The assumption is needed: with wrapping, `prefix_of_sum` is false.
`SameLenSurvivesWrapping` assumes `Wrapping` instead: the `USIZE`s of all sizes are then numbers, and
the rules of `SameLen` are congruences of addition and multiplication modulo
`Modulus`, as long as no `AtMost` is turned into a `SameLen`.

`Memory_proofs`, of `Layout`: for all items, lengths and nestings, `LaidOut` and `LayoutOK`. The invariant
(`IsStorage`) adds that the bytes are a multiple of the alignment, which makes `Concat`
free of padding, and that `LEN` and `USIZE` overflow together. `OnlyEmptyOverflows` is proved on top of it: the first
length to overflow is one of items without bytes, since any other array of so many items would have
been rejected for its bytes; from there the overflow may spread, through a `Repeat` of empty arrays, to other items. `SameLengthSameLayout`
follows: two storage types of the same items and length are the same layout, which is
what every cast relies on. It assumes `~Wrapping`, and of items what the language
says: the size is a multiple of the alignment.

`Memory_proofs`, of `Views`: for any universe of sizes and any number of views, `InBounds` and
`LentOnce`, `trusted` or not, and `NeverPanics`, which speaks of true proofs. Each method replaces a view by
one or two that cover it exactly (`OnePart`, `TwoParts`), or panics; that needs no proof value, because `Fits` compares
lengths again. That it does not panic follows from true proofs, from the
lengths of sums and products, and from `(l \div u) * u <= l` for `slice_as_chunks`.

`Moves_proofs`: for any universe of sizes and any variables, `OwnedOnce`, `Sized` and the refinement
`KeepsOrder`. Elements are in places: a variable, the prefix that `truncate` holds, the rest that it
drops. `Bags` maps the state to sequences per place, each conversion to a merge, a split or a
renaming of them (`Merges`), and lemmas about these alone show that `OneOwner` and the owned elements
stay the same (`Equivalent`). The call in progress is described by `CallOK`: the variable is free and the
prefix has the length of its type. The refinement is proved step by step: a conversion
is a step of `OwnedSequences` or a stutter. It assumes that the universe holds the parts of its
sums and products, that lengths compile, and that `None` is no size or variable.

`Examples_proofs`, of `Channel`: for bytes of any width, a counter and nonces of any number of
bytes, any iv and batches of any size, `NoncesFresh`, `RefusesAtLimit`, `InStep` and the refinement
`ReadsWhatWasSent`. Their core is `NoncesDiffer`: two counters below `Limit` give different
nonces, whether the nonce is shorter or longer than the counter. It needs that the digits of a
number determine it (`DigitsDetermine`), by induction over the number of digits. Induction
is available here only for a set and not for an operator: `Induction` derives it from the
well-foundedness of `<`, and `Recursion` unfolds a recursive function (`Values`, and
`FlattenSeq` of the community modules), which the definition alone does not allow since it is a
CHOOSE.

The properties are not inductive. `NoncesFresh` says nothing of the nonces to come, nor
`InStep` of a network that is out of order. `ChannelInv` adds that the nonces used are
those of the counters below `sender` (`Used`), also where a batch was given up; that the k-th record
that was sent is the message k sealed with the k-th nonce (`Sealed`), so no batch has left a gap; that
the counter and the number of records part only when it has reached its last value
(`Refusal`); and that the receiver has read nothing with a number beyond its counter (`Behind`),
so that a record which comes again is not read again. On the receiver's side all
follows from `OnlyTheNextOpens`: of the ciphertexts and tags that were ever sent, in any
combination, only the record of number `receiver + 1` opens, because every other one was sealed with
another nonce. The refinement is then proved step by step: a batch that opens is the messages
`receiver + 1, ..., receiver + n`, which have been sent and are above all that were read. The assumptions are
those of the module: XOR can be cancelled (`XorAssumption`), a byte has at least two values, the counter has
a byte, the iv consists of bytes.

`Examples_proofs`, of `Hkdf`: for digests of any size and outputs of any length, `MatchesRfc`,
`RefusesTooLong` and `KeysDisjoint`. `HkdfInv` says that the first `i * output` bytes are RFC 5869's and the
others are not written, that `prev` is the block `i`, and that `i` is at most 255, so
that the cast has not wrapped and the sum will not (`Written`); that a refused output is as the caller gave it
(`Untouched`); and how the keys were cut (`Cut`). That `i` stays in its range is where
the test of the length is needed: a further chunk begins within 255 blocks. For the
keys, `KeysUpTo` cuts a sequence at the ends of the keys, 16 bytes and 12 in turn (`KeyEnd`); both
schedules, with their nested `parts`, are such a cut (`SplitIsKeys`, `SessionsAreKeys`), and what is cut
at rising places joins again (`Pieces`). No byte occurs twice as the block and the place in it
determine the index (`DoneIsInjective`). It assumes that lengths are natural and the example compiles.

Every safety property that a run checks, and every refinement, is a theorem. Model-checked only is
liveness: `CallsEnd` of `IntoIter` and `Ends` of `Transfer`, since fairness is out of the prover's reach.

## Not modelled

 * Shared views: they compute the same indices and may alias. Views of an array
   as a plain array (`as_mut_array`, `from_mut`): they neither split nor compare.
 * `map_ref` over a source changed through interior mutability: the closure
   borrows, so no element changes owner.
 * Variance, `Send`, `Sync`, `Copy` and what else only the type checker sees.
 * Comparison, hashing and formatting, which delegate to slices.
 * The other examples (signatures, hybrid key exchange, truncated digests, HMAC):
   functions without state that cut and join arrays with the methods that `Moves` and
   `Views` model, over primitives that are stand-ins.
 * A channel whose both ends send. The example sends in one direction only, and so does the model: a `Channel` has
   one counter for both directions, and its other end the same key and iv.
 * Values leaked by the client (`mem::forget`), which are safe and free nothing.

## Plan

What would come next: `Moves` and `Views` with elements of storage offsets,
composed with `Layout`, so that a cast is proved from the layout of both types.
