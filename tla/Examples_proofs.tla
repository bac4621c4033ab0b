--------------------------- MODULE Examples_proofs ---------------------------
(***************************************************************************)
(* The record channel and the key derivation of the examples are correct   *)
(* for every width of a byte and of the counter, every length of the nonce *)
(* and every iv, every size of the digest and every length of its output.  *)
(***************************************************************************)
EXTENDS Channel, Hkdf, WellFoundedInduction, SequenceTheorems, TLAPS

\* Induction over the numbers, from the well-foundedness of <.

\* Induction over a set of numbers.
LEMMA Induction ==
    ASSUME NEW S, 0 \in S, \A n \in Nat : n \in S => n + 1 \in S
    PROVE  Nat \subseteq S
<1> DEFINE Rest == Nat \ S
           R == {p \in Nat \X Nat : p[1] < p[2]}
<1>1. SUFFICES ASSUME Rest # {} PROVE FALSE
  OBVIOUS
<1>2. PICK x \in Rest : \A y \in Rest : <<y, x>> \notin R
  <2>1. IsWellFoundedOn(R, Nat)
    BY NatLessThanWellFounded DEF OpToRel
  <2>2. Rest \subseteq Nat
    OBVIOUS
  <2> HIDE DEF R, Rest
  <2>3. QED
    BY <1>1, <2>1, <2>2, WFMin
<1>3. x - 1 \in Rest /\ x \in Nat /\ x - 1 \in Nat
  OBVIOUS
<1>4. <<x - 1, x>> \in R
  BY <1>3
<1>5. QED
  BY <1>2, <1>3, <1>4

\* f is a sequence of values, each made of its index and the one before it.
IsRun(f, V, first, step) ==
    /\ f \in [Nat -> V]
    /\ f[0] = first
    /\ \A n \in Nat : f[n + 1] = step[n][f[n]]

\* A recursive definition over the numbers has a value: there is a run of every
\* step.
LEMMA Recursion ==
    ASSUME NEW V, NEW first \in V, NEW step \in [Nat -> [V -> V]]
    PROVE  \E f : IsRun(f, V, first, step)
<1> DEFINE Runs(n) == {f \in [0 .. n -> V] :
                          f[0] = first /\ \A k \in 0 .. n - 1 : f[k + 1] = step[k][f[k]]}
           S == {n \in Nat : \E f \in Runs(n) : TRUE}
<1>1. \A n \in Nat : n \in S
  <2>1. 0 \in S
    <3>1. [k \in 0 .. 0 |-> first] \in Runs(0)
      OBVIOUS
    <3>2. QED
      BY <3>1
  <2>2. ASSUME NEW n \in Nat, n \in S PROVE n + 1 \in S
    <3>1. PICK f \in Runs(n) : TRUE
      BY <2>2
    <3>2. [k \in 0 .. n + 1 |-> IF k = n + 1 THEN step[n][f[n]] ELSE f[k]] \in Runs(n + 1)
      OBVIOUS
    <3> HIDE DEF Runs
    <3>3. QED
      BY <3>2
  <2> HIDE DEF S
  <2>3. QED
    BY <2>1, <2>2, Induction
<1>2. \A m \in Nat : \A n \in Nat : \A f \in Runs(m), g \in Runs(n) : n <= m => f[n] = g[n]
  <2>1. SUFFICES ASSUME NEW m \in Nat, NEW f \in Runs(m)
                 PROVE  \A n \in Nat : \A g \in Runs(n) : n <= m => f[n] = g[n]
    OBVIOUS
  <2> DEFINE A == {n \in Nat : \A g \in Runs(n) : n <= m => f[n] = g[n]}
  <2>2. 0 \in A
    OBVIOUS
  <2>3. ASSUME NEW n \in Nat, n \in A PROVE n + 1 \in A
    <3>1. SUFFICES ASSUME NEW g \in Runs(n + 1), n + 1 <= m PROVE f[n + 1] = g[n + 1]
      OBVIOUS
    <3> DEFINE cut == [k \in 0 .. n |-> g[k]]
    <3>2. cut \in Runs(n) /\ cut[n] = g[n]
      OBVIOUS
    <3>3. f[n] = g[n]
      <4> HIDE DEF cut, Runs
      <4>1. QED
        BY <2>3, <3>1, <3>2
    <3>4. f[n + 1] = step[n][f[n]] /\ g[n + 1] = step[n][g[n]]
      <4>1. n \in 0 .. m - 1 /\ n \in 0 .. (n + 1) - 1
        BY <3>1
      <4>2. QED
        BY <4>1
    <3>5. QED
      BY <3>3, <3>4
  <2>4. Nat \subseteq A
    <3> HIDE DEF A
    <3>1. QED
      BY <2>2, <2>3, Induction
  <2>5. QED
    BY <2>4
<1> DEFINE run == [n \in Nat |-> CHOOSE f \in Runs(n) : TRUE]
           h == [n \in Nat |-> run[n][n]]
<1>3. \A n \in Nat : run[n] \in Runs(n)
  BY <1>1
<1>4. \A n \in Nat : h[n] = run[n][n]
  OBVIOUS
<1> HIDE DEF run, h
<1>5. \A n \in Nat : h[n] \in V
  BY <1>3, <1>4
<1>6. h[0] = first
  BY <1>3, <1>4
<1>7. ASSUME NEW n \in Nat PROVE h[n + 1] = step[n][h[n]]
  <2>1. run[n + 1] \in Runs(n + 1) /\ run[n] \in Runs(n)
    BY <1>3
  <2>2. run[n + 1][n + 1] = step[n][run[n + 1][n]]
    <3>1. n \in 0 .. (n + 1) - 1
      OBVIOUS
    <3>2. QED
      BY <2>1, <3>1
  <2>3. run[n + 1][n] = run[n][n]
    <3> HIDE DEF Runs
    <3>1. QED
      BY <1>2, <2>1
  <2>4. QED
    BY <1>4, <2>2, <2>3
<1>8. h \in [Nat -> V]
  <2>1. [n \in Nat |-> h[n]] = h
    BY DEF h
  <2>2. QED
    BY <1>5, <2>1
<1>9. QED
  BY <1>6, <1>7, <1>8 DEF IsRun

\* The recursive definition of Values holds.
LEMMA ValuesDef ==
    /\ Values \in [Nat -> Nat]
    /\ Values[0] = 1
    /\ \A n \in Nat : Values[n + 1] = ByteValues * Values[n]
<1>1. PICK f \in [Nat -> Nat] : f[0] = 1 /\ \A n \in Nat : f[n + 1] = ByteValues * f[n]
  <2>1. [n \in Nat |-> [v \in Nat |-> ByteValues * v]] \in [Nat -> [Nat -> Nat]]
    BY ByteAssumption
  <2> DEFINE V == Nat
             first == 1
             step == [n \in Nat |-> [v \in Nat |-> ByteValues * v]]
  <2>2. first \in V /\ step \in [Nat -> [V -> V]]
    BY <2>1
  <2>3. PICK f : IsRun(f, V, first, step)
    <3> HIDE DEF V, first, step
    <3>1. QED
      BY <2>2, Recursion
  <2>4. QED
    BY <2>3 DEF IsRun
<1>2. f = [n \in Nat |-> IF n = 0 THEN 1 ELSE ByteValues * f[n - 1]]
  <2>1. \A n \in Nat : n # 0 => f[n] = ByteValues * f[n - 1]
    <3>1. ASSUME NEW n \in Nat, n # 0 PROVE f[n] = ByteValues * f[n - 1]
      <4>1. n - 1 \in Nat /\ (n - 1) + 1 = n
        BY <3>1
      <4>2. QED
        BY <1>1, <4>1
    <3>2. QED
      BY <3>1
  <2>2. QED
    BY <1>1, <2>1
<1>3. Values = [n \in Nat |-> IF n = 0 THEN 1 ELSE ByteValues * Values[n - 1]]
  BY <1>2 DEF Values
<1>4. Values[0] = 1
  BY <1>3
<1>5. ASSUME NEW n \in Nat PROVE Values[n + 1] = ByteValues * Values[n]
  <2>1. n + 1 \in Nat /\ n + 1 # 0 /\ (n + 1) - 1 = n
    OBVIOUS
  <2>2. QED
    BY <1>3, <2>1
<1> DEFINE S == {n \in Nat : Values[n] \in Nat}
<1>6. Nat \subseteq S
  <2>1. 0 \in S
    BY <1>4
  <2>2. ASSUME NEW n \in Nat, n \in S PROVE n + 1 \in S
    BY <1>5, <2>2, ByteAssumption
  <2> HIDE DEF S
  <2>3. QED
    BY <2>1, <2>2, Induction
<1>7. Values \in [Nat -> Nat]
  BY <1>3, <1>6
<1>8. QED
  BY <1>4, <1>5, <1>7

-----------------------------------------------------------------------------
\* Bytes: a number is determined by its digits.

\* Products of numbers are numbers, ordered as their factors are.
LEMMA Products ==
    ASSUME NEW a \in Nat, NEW b \in Nat, NEW c \in Nat
    PROVE  a * c \in Nat /\ (a <= b => a * c <= b * c)
OBVIOUS

\* What makes q the quotient.
LEMMA Quotient ==
    ASSUME NEW a \in Nat, NEW p \in Nat, p > 0, NEW q \in Nat,
           q * p <= a, a < (q + 1) * p
    PROVE  a \div p = q
OBVIOUS

\* And that the quotient is one.
LEMMA QuotientBounds ==
    ASSUME NEW a \in Nat, NEW p \in Nat, p > 0
    PROVE  /\ a \div p \in Nat
           /\ (a \div p) * p <= a
           /\ a < ((a \div p) + 1) * p
OBVIOUS

\* Two divisions in a row are one.
LEMMA DivDiv ==
    ASSUME NEW c \in Nat, NEW p \in Nat, p > 0, NEW b \in Nat, b > 0
    PROVE  c \div (b * p) = (c \div p) \div b
<1> DEFINE q == c \div p
           h == q \div b
<1>1. q \in Nat /\ q * p <= c /\ c < (q + 1) * p
  BY QuotientBounds
<1> HIDE DEF q
<1>2. h \in Nat /\ h * b <= q /\ q + 1 <= (h + 1) * b
  BY <1>1, QuotientBounds
<1> HIDE DEF h
<1>3. (h * b) * p <= q * p /\ (q + 1) * p <= ((h + 1) * b) * p
  BY <1>1, <1>2, Products
<1>4. b * p \in Nat /\ b * p > 0 /\ (h * b) * p = h * (b * p) /\ ((h + 1) * b) * p = (h + 1) * (b * p)
  BY <1>2
<1>5. h * (b * p) <= c /\ c < (h + 1) * (b * p)
  <2> DEFINE l == h * (b * p)
             u == (h + 1) * (b * p)
  <2>1. l \in Int /\ u \in Int /\ q * p \in Int /\ (q + 1) * p \in Int
    BY <1>1, <1>2
  <2>2. l <= q * p /\ (q + 1) * p <= u
    BY <1>3, <1>4
  <2> HIDE DEF l, u
  <2>3. l <= c /\ c < u
    BY <1>1, <2>1, <2>2
  <2>4. QED
    BY <2>3 DEF l, u
<1>6. c \div (b * p) = h
  <2> DEFINE P == b * p
  <2>1. P \in Nat /\ P > 0 /\ h * P <= c /\ c < (h + 1) * P
    BY <1>4, <1>5
  <2> HIDE DEF P
  <2>2. c \div P = h
    BY <1>2, <2>1, Quotient
  <2>3. QED
    BY <2>2 DEF P
<1>7. QED
  BY <1>6 DEF h, q

\* More bytes have more values.
LEMMA ValuesGrow ==
    /\ \A n \in Nat : Values[n] \in Nat /\ Values[n] > 0
    /\ \A n, m \in Nat : n < m => Values[n] < Values[m]
<1>1. \A n \in Nat : Values[n] \in Nat
  BY ValuesDef
<1> DEFINE S == {n \in Nat : Values[n] > 0}
<1>2. Nat \subseteq S
  <2>1. 0 \in S
    BY ValuesDef
  <2>2. ASSUME NEW n \in Nat, n \in S PROVE n + 1 \in S
    <3> DEFINE v == Values[n]
    <3>1. v \in Nat /\ v > 0 /\ Values[n + 1] = ByteValues * v
      BY <2>2, ValuesDef
    <3> HIDE DEF v
    <3>2. ByteValues * v > 0
      BY <3>1, ByteAssumption
    <3>3. QED
      BY <3>1, <3>2
  <2> HIDE DEF S
  <2>3. QED
    BY <2>1, <2>2, Induction
<1>3. \A n \in Nat : Values[n] < Values[n + 1]
  <2>1. ASSUME NEW n \in Nat PROVE Values[n] < Values[n + 1]
    <3> DEFINE v == Values[n]
    <3>1. v \in Nat /\ v > 0 /\ Values[n + 1] = ByteValues * v
      BY <1>2, ValuesDef
    <3> HIDE DEF v
    <3>2. v < ByteValues * v
      BY <3>1, ByteAssumption
    <3>3. QED
      BY <3>1, <3>2 DEF v
  <2>2. QED
    BY <2>1
<1>4. ASSUME NEW n \in Nat PROVE \A m \in Nat : n < m => Values[n] < Values[m]
  <2> DEFINE M == {m \in Nat : n < m => Values[n] < Values[m]}
  <2>1. 0 \in M
    OBVIOUS
  <2>2. ASSUME NEW m \in Nat, m \in M PROVE m + 1 \in M
    <3>1. Values[n] \in Nat /\ Values[m] \in Nat /\ Values[m + 1] \in Nat /\ Values[m] < Values[m + 1]
      BY <1>1, <1>3
    <3>2. m < n \/ n = m \/ n < m
      OBVIOUS
    <3>3. n < m + 1 => n = m \/ n < m
      OBVIOUS
    <3>4. n < m + 1 => Values[n] < Values[m + 1]
      BY <2>2, <3>1, <3>3
    <3>5. QED
      BY <3>4
  <2> HIDE DEF M
  <2>3. Nat \subseteq M
    BY <2>1, <2>2, Induction
  <2>4. QED
    BY <2>3 DEF M
<1>5. QED
  BY <1>1, <1>2, <1>4

\* Digit e, counted from the end.
Digit(c, e) == (c \div Values[e]) % ByteValues

\* A number of n digits is determined by them.
LEMMA DigitsDetermine ==
    ASSUME NEW n \in Nat, NEW c \in Nat, NEW d \in Nat,
           c < Values[n], d < Values[n],
           \A e \in 0 .. n - 1 : Digit(c, e) = Digit(d, e)
    PROVE  c = d
<1> DEFINE S == {k \in Nat : k <= n => c \div Values[n - k] = d \div Values[n - k]}
<1>1. 0 \in S
  <2>1. c \div Values[n] = 0 /\ d \div Values[n] = 0
    <3> DEFINE p == Values[n]
    <3>1. p \in Nat /\ p > 0 /\ c < p /\ d < p /\ 0 * p = 0 /\ (0 + 1) * p = p
      BY ValuesGrow
    <3> HIDE DEF p
    <3>2. c \div p = 0 /\ d \div p = 0
      BY <3>1, Quotient
    <3>3. QED
      BY <3>2 DEF p
  <2>2. QED
    BY <2>1
<1>2. ASSUME NEW k \in Nat, k \in S PROVE k + 1 \in S
  <2>1. SUFFICES ASSUME k + 1 <= n
                 PROVE  c \div Values[n - (k + 1)] = d \div Values[n - (k + 1)]
    OBVIOUS
  <2> DEFINE e == n - (k + 1)
             p == Values[e]
  <2>2. e \in 0 .. n - 1 /\ e \in Nat /\ n - k = e + 1 /\ k <= n
    BY <2>1
  <2>3. p \in Nat /\ p > 0 /\ Values[n - k] = ByteValues * p
    BY <2>2, ValuesDef, ValuesGrow
  <2>4. c \div (ByteValues * p) = d \div (ByteValues * p)
    BY <1>2, <2>2, <2>3
  <2>5. (c \div p) % ByteValues = (d \div p) % ByteValues
    BY <2>2 DEF Digit
  <2> HIDE DEF e, p
  <2>6. (c \div p) \div ByteValues = (d \div p) \div ByteValues
    BY <2>3, <2>4, DivDiv, ByteAssumption
  <2>7. \A a, b \in Nat : a \div ByteValues = b \div ByteValues /\ a % ByteValues = b % ByteValues => a = b
    <3>1. \A a \in Nat : a = ByteValues * (a \div ByteValues) + (a % ByteValues)
      BY ByteAssumption
    <3>2. QED
      BY <3>1
  <2>8. c \div p \in Nat /\ d \div p \in Nat
    BY <2>3, QuotientBounds
  <2>9. c \div p = d \div p
    BY <2>5, <2>6, <2>7, <2>8
  <2>10. QED
    BY <2>9 DEF p, e
<1>3. n \in S
  <2> HIDE DEF S
  <2>1. QED
    BY <1>1, <1>2, Induction
<1>4. c \div 1 = d \div 1
  BY <1>3, ValuesDef
<1>5. QED
  BY <1>4

-----------------------------------------------------------------------------
\* next_nonce

\* The limit is one of two, and never past the end of the counter.
LEMMA LimitFacts ==
    ASSUME len \in Nat
    PROVE  /\ u64Max \in Nat
           /\ Limit \in Nat
           /\ Limit <= u64Max
           /\ len < CounterBytes => Limit = Values[len]
           /\ len >= CounterBytes => Limit = u64Max
<1>1. CounterBytes \in Nat /\ CounterBytes > 0
  BY CounterBytesAssumption
<1>2. /\ Values[CounterBytes] \in Nat /\ Values[CounterBytes] > 0
      /\ Values[len] \in Nat
      /\ len < CounterBytes => Values[len] < Values[CounterBytes]
  BY <1>1, ValuesGrow
<1>3. QED
  BY <1>1, <1>2 DEF u64Max, Limit

\* The sender has a nonce exactly below the limit.
LEMMA HasNonceBelowLimit ==
    ASSUME len \in Nat, NEW c \in Nat, c <= Limit
    PROVE  HasNonce(c) <=> c < Limit
<1>1. CASE len < CounterBytes
  <2> DEFINE p == Values[len]
  <2>2. p \in Nat /\ p > 0 /\ Limit = p
    BY <1>1, LimitFacts, ValuesGrow
  <2>3. HasNonce(c) <=> c \div p = 0 /\ c # u64Max
    BY <1>1 DEF HasNonce
  <2>4. p <= u64Max /\ u64Max \in Nat
    BY <2>2, LimitFacts
  <2> HIDE DEF p
  <2>5. c < p => c \div p = 0
    <3>1. 0 * p = 0 /\ (0 + 1) * p = p
      BY <2>2
    <3>2. QED
      BY <2>2, <3>1, Quotient
  <2>6. c = p => c \div p # 0
    BY <2>2
  <2>7. QED
    BY <2>2, <2>3, <2>4, <2>5, <2>6
<1>2. CASE len >= CounterBytes
  BY <1>2, LimitFacts, CounterBytesAssumption DEF HasNonce
<1>3. QED
  BY <1>1, <1>2, CounterBytesAssumption

\* A nonce of any length, with any iv.
NonceType == len \in Nat /\ iv \in [0 .. len - 1 -> Byte]

\* No two counters below the limit have the same nonce.
LEMMA NoncesDiffer ==
    ASSUME NonceType, NEW c \in Nat, NEW d \in Nat, c < Limit, d < Limit,
           NonceOf(c) = NonceOf(d)
    PROVE  c = d
<1>1. CounterBytes \in Nat /\ CounterBytes > 0 /\ len \in Nat
  BY CounterBytesAssumption DEF NonceType
<1>2. ASSUME NEW e \in Nat, e < len, e < CounterBytes
      PROVE  Digit(c, e) = Digit(d, e)
  <2> DEFINE place == len - 1 - e
  <2>1. place \in 0 .. len - 1 /\ len - 1 - place = e
    BY <1>1, <1>2
  <2>2. Xor(iv[place], Padded(c, place)) = Xor(iv[place], Padded(d, place))
    <3> HIDE DEF place
    <3>1. NonceOf(c)[place] = NonceOf(d)[place]
      OBVIOUS
    <3>2. QED
      BY <2>1, <3>1 DEF NonceOf
  <2>3. CounterBytes - 1 - (CounterBytes - 1 - e) = e
    BY <1>1
  <2>4. Padded(c, place) = Digit(c, e) /\ Padded(d, place) = Digit(d, e)
    BY <1>2, <2>1, <2>3 DEF Padded, BigEndian, Digit
  <2>5. Digit(c, e) \in Byte /\ Digit(d, e) \in Byte
    BY ValuesGrow, QuotientBounds, ByteAssumption DEF Digit, Byte
  <2>6. iv[place] \in Byte
    BY <2>1 DEF NonceType
  <2>7. QED
    BY <2>2, <2>4, <2>5, <2>6, XorAssumption
<1> DEFINE n == IF len < CounterBytes THEN len ELSE CounterBytes
<1>3. n \in Nat /\ n <= len /\ n <= CounterBytes
  BY <1>1
<1>4. c < Values[n] /\ d < Values[n]
  BY <1>1, LimitFacts, ValuesGrow DEF u64Max
<1> HIDE DEF n
<1>5. \A e \in 0 .. n - 1 : Digit(c, e) = Digit(d, e)
  BY <1>2, <1>3, <1>1
<1>6. QED
  BY <1>3, <1>4, <1>5, DigitsDetermine

-----------------------------------------------------------------------------
\* The channel: the invariant, and the sender.

\* Two sequences that list a function, one after the other.
LEMMA Listed ==
    ASSUME NEW f, NEW a \in Nat, NEW b \in Nat
    PROVE  [j \in 1 .. a |-> f[j]] \o [j \in 1 .. b |-> f[a + j]] = [j \in 1 .. a + b |-> f[j]]
OBVIOUS

\* A sequence that is listed by its indices has as many elements.
LEMMA Lengths ==
    ASSUME NEW f, NEW a \in Nat
    PROVE  Len([j \in 1 .. a |-> f[j]]) = a
OBVIOUS

\* The types, and that neither counter passes the limit.
Typed ==
    /\ NonceType
    /\ sender \in 0 .. Limit /\ receiver \in 0 .. Limit
    /\ refused \in BOOLEAN /\ inOrder \in BOOLEAN

\* The nonces used are those of the counters so far.
Used == used = [j \in 1 .. sender |-> NonceOf(j - 1)]

\* Each record that was sent was sealed with the nonce of its number.
Sealed ==
    /\ Len(sent) \in Nat /\ Len(sent) <= sender
    /\ sent = [j \in 1 .. Len(sent) |-> Seal(NonceOf(j - 1), j)]

\* Only a batch that runs into the limit uses nonces for records that are not sent.
Refusal == IF refused THEN sender = Limit ELSE Len(sent) = sender

\* The messages read so far are older than the receiver's counter, and up to
\* it if the network has kept the order.
Behind ==
    /\ delivered \in Seq(Nat)
    /\ \A k \in DOMAIN delivered : delivered[k] <= receiver

\* The inductive invariant.  InStep is part of it: it is what makes the next
\* record the one that opens.
ChannelInv == Typed /\ Used /\ Sealed /\ Refusal /\ Behind /\ InStep

\* It holds before the first record.
LEMMA InitInv == Init => ChannelInv
<1> SUFFICES ASSUME Init PROVE ChannelInv
  OBVIOUS
<1>1. NonceType
  BY NonceSizesAssumption, IvAssumption DEF Init, NonceType
<1>2. Typed
  <2>1. Limit \in Nat
    BY <1>1, LimitFacts DEF NonceType
  <2>2. 0 \in 0 .. Limit
    BY <2>1
  <2>3. QED
    BY <1>1, <2>2 DEF Init, Typed
<1>3. Used /\ Sealed /\ Refusal
  BY DEF Init, Used, Sealed, Refusal
<1>4. Behind /\ InStep
  BY DEF Init, Behind, InStep
<1>5. QED
  BY <1>2, <1>3, <1>4 DEF ChannelInv

\* A run of calls of next_nonce that starts below the limit ends there at last.
LEMMA RunOfNonces ==
    ASSUME len \in Nat, NEW c \in Nat, c <= Limit, NEW k \in Nat,
           \A j \in 0 .. k - 1 : HasNonce(c + j)
    PROVE  c + k <= Limit
<1>1. Limit \in Nat
  BY LimitFacts
<1>2. ~HasNonce(Limit)
  BY <1>1, HasNonceBelowLimit
<1>3. SUFFICES ASSUME c + k > Limit PROVE FALSE
  BY <1>1
<1>4. Limit - c \in 0 .. k - 1 /\ c + (Limit - c) = Limit
  BY <1>1, <1>3
<1>5. QED
  BY <1>2, <1>4

\* The nonces and the limit depend on what no step changes.
LEMMA SameNonces ==
    ASSUME UNCHANGED <<len, iv>>
    PROVE  /\ \A c : NonceOf(c)' = NonceOf(c)
           /\ Limit' = Limit
           /\ NonceType' = NonceType
BY DEF NonceOf, Padded, Limit, NonceType

\* Sending keeps the invariant, and the records sent only ever get more.
LEMMA SendRecordsInv ==
    ASSUME ChannelInv, NEW n \in 1 .. MaxBatch, SendRecords(n)
    PROVE  ChannelInv' /\ (sent' # sent => Len(sent') > Len(sent)) /\ Len(sent') \in Nat
<1>1. PICK k \in 0 .. n :
        /\ Succeed(sender, k, n)
        /\ sender' = sender + k
        /\ used' = used \o [j \in 1 .. k |-> NonceOf(sender + j - 1)]
        /\ IF k = n
           THEN /\ sent' = sent \o [j \in 1 .. n |-> Seal(NonceOf(sender + j - 1), NextMessage + j - 1)]
                /\ UNCHANGED refused
           ELSE refused' = TRUE /\ UNCHANGED sent
        /\ UNCHANGED <<len, iv, receiver, delivered, inOrder>>
  BY DEF SendRecords
<1>2. n \in Nat /\ n > 0 /\ k \in Nat
  BY MaxBatchAssumption
<1>3. /\ len \in Nat /\ Limit \in Nat /\ sender \in Nat /\ sender <= Limit
      /\ receiver \in 0 .. Limit /\ refused \in BOOLEAN /\ inOrder \in BOOLEAN /\ NonceType
  BY LimitFacts DEF ChannelInv, Typed, NonceType
<1>4. sender + k <= Limit
  BY <1>1, <1>2, <1>3, RunOfNonces DEF Succeed
<1>5. Typed'
  <2>1. refused' \in BOOLEAN
    BY <1>1, <1>3
  <2>2. QED
    BY <1>1, <1>2, <1>3, <1>4, <2>1, SameNonces DEF Typed
<1>6. Used'
  <2> DEFINE f == [j \in 1 .. sender + k |-> NonceOf(j - 1)]
  <2>1. used = [j \in 1 .. sender |-> f[j]]
    BY <1>2, <1>3 DEF ChannelInv, Used
  <2>2. [j \in 1 .. k |-> NonceOf(sender + j - 1)] = [j \in 1 .. k |-> f[sender + j]]
    BY <1>2, <1>3
  <2>3. [j \in 1 .. sender + k |-> f[j]] = f
    OBVIOUS
  <2> HIDE DEF f
  <2>4. used' = f
    <3>1. used' = [j \in 1 .. sender |-> f[j]] \o [j \in 1 .. k |-> f[sender + j]]
      BY <1>1, <2>1, <2>2
    <3>2. QED
      BY <1>2, <1>3, <2>3, <3>1, Listed
  <2>5. f = [j \in 1 .. sender' |-> NonceOf(j - 1)']
    BY <1>1, SameNonces DEF f
  <2>6. QED
    BY <2>4, <2>5 DEF Used
<1>7. Behind' /\ InStep'
  BY <1>1 DEF ChannelInv, Behind, InStep
<1>8. CASE k = n
  <2>1. sender < Limit
    <3>1. HasNonce(sender)
      BY <1>1, <1>2, <1>3, <1>8 DEF Succeed
    <3>2. QED
      BY <1>3, <3>1, HasNonceBelowLimit
  <2>2. ~refused /\ Len(sent) = sender
    BY <2>1, <1>3 DEF ChannelInv, Refusal
  <2> DEFINE f == [j \in 1 .. sender + n |-> Seal(NonceOf(j - 1), j)]
  <2>3. sent = [j \in 1 .. sender |-> f[j]]
    BY <1>2, <1>3, <2>2 DEF ChannelInv, Sealed
  <2>4. [j \in 1 .. n |-> Seal(NonceOf(sender + j - 1), NextMessage + j - 1)]
          = [j \in 1 .. n |-> f[sender + j]]
    <3>1. ASSUME NEW j \in 1 .. n
          PROVE  Seal(NonceOf(sender + j - 1), NextMessage + j - 1) = f[sender + j]
      <4>1. /\ NextMessage + j - 1 = sender + j
            /\ sender + j - 1 = (sender + j) - 1
            /\ sender + j \in 1 .. sender + n
        BY <1>2, <1>3, <2>2 DEF NextMessage
      <4>2. QED
        BY <4>1
    <3>2. QED
      BY <3>1
  <2>5. [j \in 1 .. sender + n |-> f[j]] = f
    OBVIOUS
  <2> HIDE DEF f
  <2>6. sent' = f
    <3>1. sent' = [j \in 1 .. sender |-> f[j]] \o [j \in 1 .. n |-> f[sender + j]]
      BY <1>1, <1>8, <2>3, <2>4
    <3>2. QED
      BY <1>2, <1>3, <2>5, <3>1, Listed
  <2>7. Len(f) = sender + n
    BY <1>2, <1>3, <2>5, Lengths
  <2>8. f = [j \in 1 .. Len(sent') |-> Seal(NonceOf(j - 1)', j)]
    <3>1. f = [j \in 1 .. Len(sent') |-> Seal(NonceOf(j - 1), j)]
      BY <2>6, <2>7 DEF f
    <3>2. QED
      BY <1>1, <3>1, SameNonces
  <2>9. Sealed'
    <3>1. \A j : Seal(NonceOf(j - 1), j)' = Seal(NonceOf(j - 1)', j)
      BY DEF Seal, Tag, Encrypt
    <3>2. QED
      BY <1>1, <1>2, <1>3, <1>8, <2>6, <2>7, <2>8, <3>1 DEF Sealed
  <2>10. Refusal'
    BY <1>1, <1>8, <2>2, <2>6, <2>7 DEF Refusal
  <2>11. Len(sent') > Len(sent) /\ Len(sent') \in Nat
    BY <1>2, <1>3, <2>2, <2>6, <2>7
  <2>12. QED
    BY <1>5, <1>6, <1>7, <2>9, <2>10, <2>11 DEF ChannelInv
<1>9. CASE k # n
  <2>1. sender + k = Limit
    <3>1. ~HasNonce(sender + k)
      BY <1>1, <1>2, <1>9 DEF Succeed
    <3>2. QED
      BY <1>2, <1>3, <1>4, <3>1, HasNonceBelowLimit
  <2>2. Refusal'
    BY <1>1, <1>9, <2>1, SameNonces DEF Refusal
  <2>3. Sealed'
    <3>1. \A j : Seal(NonceOf(j - 1), j)' = Seal(NonceOf(j - 1), j)
      BY <1>1, SameNonces DEF Seal, Tag, Encrypt
    <3>2. Len(sent) \in Nat /\ Len(sent) <= sender + k
      BY <1>2, <1>3 DEF ChannelInv, Sealed
    <3>3. sent' = [j \in 1 .. Len(sent') |-> Seal(NonceOf(j - 1), j)']
      BY <1>1, <1>9, <3>1 DEF ChannelInv, Sealed
    <3>4. QED
      BY <1>1, <1>9, <3>2, <3>3 DEF Sealed
  <2>4. QED
    BY <1>1, <1>5, <1>6, <1>7, <1>9, <2>2, <2>3 DEF ChannelInv, Sealed
<1>10. QED
  BY <1>8, <1>9

-----------------------------------------------------------------------------
\* The receiver: only the next record opens.

\* Only the record of the receiver's counter opens, unaltered, and yields its message.
LEMMA OnlyTheNextOpens ==
    ASSUME ChannelInv, NEW r \in Nat, r < Limit, NEW record \in Network,
           Opens(NonceOf(r), record)
    PROVE  /\ r + 1 <= Len(sent)
           /\ Decrypt(NonceOf(r), record.ciphertext) = r + 1
<1>1. PICK j \in DOMAIN sent, k \in DOMAIN sent :
        record = [ciphertext |-> sent[j].ciphertext, tag |-> sent[k].tag]
  BY DEF Network
<1>2. /\ DOMAIN sent = 1 .. Len(sent) /\ Len(sent) \in Nat /\ Len(sent) <= Limit
      /\ Limit \in Nat /\ NonceType
      /\ \A h \in DOMAIN sent : sent[h] = Seal(NonceOf(h - 1), h)
  <2>1. sender \in Nat /\ Limit \in Nat /\ sender <= Limit
    BY LimitFacts DEF ChannelInv, Typed, NonceType
  <2>2. QED
    BY <2>1 DEF ChannelInv, Typed, Sealed
<1>3. j \in Nat /\ k \in Nat /\ j >= 1 /\ k >= 1 /\ j <= Len(sent) /\ k <= Len(sent)
  BY <1>2
<1>4. /\ sent[j].ciphertext = Encrypt(NonceOf(j - 1), j)
      /\ sent[k].tag = <<NonceOf(k - 1), Encrypt(NonceOf(k - 1), k)>>
  BY <1>2 DEF Seal, Tag
<1>5. <<NonceOf(k - 1), Encrypt(NonceOf(k - 1), k)>> = <<NonceOf(r), Encrypt(NonceOf(j - 1), j)>>
  BY <1>1, <1>4 DEF Opens, Tag
<1>6. NonceOf(k - 1) = NonceOf(r) /\ Encrypt(NonceOf(k - 1), k) = Encrypt(NonceOf(j - 1), j)
  BY <1>5
<1>7. k = j
  BY <1>6 DEF Encrypt
<1>8. k - 1 = r
  <2>1. k - 1 \in Nat /\ k - 1 < Limit
    BY <1>2, <1>3
  <2>2. QED
    BY <1>2, <1>6, <2>1, NoncesDiffer
<1>9. Decrypt(NonceOf(r), record.ciphertext) = r + 1
  <2>1. record.ciphertext = Encrypt(NonceOf(r), r + 1)
    BY <1>1, <1>3, <1>4, <1>7, <1>8
  <2>2. QED
    BY <2>1 DEF Decrypt, Encrypt
<1>10. QED
  BY <1>3, <1>8, <1>9

\* What a whole batch yields that opens.
LEMMA BatchOpens ==
    ASSUME ChannelInv, NEW n \in Nat, n > 0, NEW records \in [1 .. n -> Network], Open(records, n)
    PROVE  /\ receiver + n <= Limit
           /\ receiver + n <= Len(sent)
           /\ Messages(records) = [j \in 1 .. n |-> receiver + j]
<1>1. /\ len \in Nat /\ Limit \in Nat /\ receiver \in Nat /\ receiver <= Limit
  BY LimitFacts DEF ChannelInv, Typed, NonceType
<1>2. \A j \in 0 .. n - 1 : HasNonce(receiver + j)
  <2>1. ASSUME NEW j \in 0 .. n - 1 PROVE HasNonce(receiver + j)
    <3>1. j + 1 \in 1 .. n /\ receiver + (j + 1) - 1 = receiver + j
      BY <1>1
    <3>2. HasNonce(receiver + (j + 1) - 1)
      BY <3>1 DEF Open
    <3>3. QED
      BY <3>1, <3>2
  <2>2. QED
    BY <2>1
<1>3. receiver + n <= Limit
  BY <1>1, <1>2, RunOfNonces
<1>4. ASSUME NEW j \in 1 .. n
      PROVE  /\ receiver + j <= Len(sent)
             /\ Decrypt(NonceOf(receiver + j - 1), records[j].ciphertext) = receiver + j
  <2> DEFINE r == receiver + j - 1
  <2>1. r \in Nat /\ r < Limit /\ r + 1 = receiver + j
    BY <1>1, <1>3
  <2>2. Opens(NonceOf(r), records[j])
    BY DEF Open
  <2> HIDE DEF r
  <2>3. r + 1 <= Len(sent) /\ Decrypt(NonceOf(r), records[j].ciphertext) = r + 1
    BY <2>1, <2>2, OnlyTheNextOpens
  <2>4. QED
    BY <2>1, <2>3 DEF r
<1>5. receiver + n <= Len(sent)
  BY <1>4
<1>6. Messages(records) = [j \in 1 .. n |-> receiver + j]
  BY <1>4 DEF Messages
<1>7. QED
  BY <1>3, <1>5, <1>6

\* What a receiver's step leaves alone.
ReceiverOnly == UNCHANGED <<len, iv, sender, used, sent, refused>>

\* A receiver's step keeps what is said of the sender.
LEMMA SenderKept ==
    ASSUME ChannelInv, ReceiverOnly
    PROVE  Used' /\ Sealed' /\ Refusal'
<1>1. \A j : Seal(NonceOf(j - 1), j)' = Seal(NonceOf(j - 1), j) /\ NonceOf(j - 1)' = NonceOf(j - 1)
  BY SameNonces DEF Seal, Tag, Encrypt, ReceiverOnly
<1>2. Sealed' /\ Used'
  BY <1>1 DEF ChannelInv, Sealed, Used, ReceiverOnly
<1>3. Refusal'
  BY SameNonces DEF ChannelInv, Refusal, ReceiverOnly
<1>4. QED
  BY <1>2, <1>3

\* A batch that opens reads the next records.  One that does not reads none,
\* and then it was not the next records, unaltered.
LEMMA ReceiveEffect ==
    ASSUME ChannelInv, NEW n \in 1 .. MaxBatch, NEW records \in [1 .. n -> Network],
           ReceiveRecords(records), HandOver(records)
    PROVE  /\ n \in Nat /\ n > 0 /\ Len(records) = n
           /\ ReceiverOnly
           /\ receiver' \in receiver .. Limit
           /\ \/ /\ receiver' = receiver + n
                 /\ receiver + n <= Len(sent)
                 /\ delivered' = delivered \o [j \in 1 .. n |-> receiver + j]
              \/ /\ UNCHANGED delivered
                 /\ ~inOrder'
<1>1. n \in Nat /\ n > 0 /\ Len(records) = n
  BY MaxBatchAssumption
<1>2. ReceiverOnly
  BY DEF ReceiveRecords, ReceiverOnly
<1>3. /\ len \in Nat /\ Limit \in Nat /\ receiver \in Nat /\ receiver <= Limit
  BY LimitFacts DEF ChannelInv, Typed, NonceType
<1>4. CASE /\ Open(records, n)
           /\ receiver' = receiver + n
           /\ delivered' = delivered \o Messages(records)
  <2>1. /\ receiver + n <= Limit
        /\ receiver + n <= Len(sent)
        /\ Messages(records) = [j \in 1 .. n |-> receiver + j]
    BY <1>1, <1>4, BatchOpens
  <2>2. receiver' \in receiver .. Limit
    BY <1>1, <1>3, <1>4, <2>1
  <2>3. QED
    BY <1>1, <1>2, <1>4, <2>1, <2>2
<1>5. CASE \E k \in 0 .. n - 1 :
             /\ Open(records, k) /\ ~Open(records, k + 1)
             /\ receiver' = receiver + k + (IF HasNonce(receiver + k) THEN 1 ELSE 0)
             /\ UNCHANGED delivered
  <2>1. PICK k \in 0 .. n - 1 :
             /\ Open(records, k) /\ ~Open(records, k + 1)
             /\ receiver' = receiver + k + (IF HasNonce(receiver + k) THEN 1 ELSE 0)
             /\ UNCHANGED delivered
    BY <1>5
  <2>2. \A j \in 0 .. k - 1 : HasNonce(receiver + j)
    <3>1. ASSUME NEW j \in 0 .. k - 1 PROVE HasNonce(receiver + j)
      <4>1. j + 1 \in 1 .. k /\ receiver + (j + 1) - 1 = receiver + j
        BY <1>1, <1>3
      <4>2. HasNonce(receiver + (j + 1) - 1)
        BY <2>1, <4>1 DEF Open
      <4>3. QED
        BY <4>1, <4>2
    <3>2. QED
      BY <3>1
  <2>3. k \in Nat /\ receiver + k \in Nat /\ receiver + k <= Limit
    <3>1. k \in Nat /\ receiver + k \in Nat
      BY <1>1, <1>3
    <3>2. QED
      BY <1>3, <2>2, <3>1, RunOfNonces
  <2>4. HasNonce(receiver + k) => receiver + k < Limit
    BY <1>3, <2>3, HasNonceBelowLimit
  <2>5. receiver' \in receiver .. Limit
    BY <1>3, <2>1, <2>3, <2>4
  <2>6. ASSUME inOrder' PROVE FALSE
    <3>1. receiver + n <= Len(sent) /\ records = SubSeq(sent, receiver + 1, receiver + n)
      BY <1>1, <2>6 DEF HandOver
    <3>2. PICK j \in 1 .. k + 1 :
            ~(HasNonce(receiver + j - 1) /\ Opens(NonceOf(receiver + j - 1), records[j]))
      BY <2>1 DEF Open
    <3>3. /\ Len(sent) \in Nat /\ Len(sent) <= Limit
          /\ \A h \in 1 .. Len(sent) : sent[h] = Seal(NonceOf(h - 1), h)
      BY <1>3 DEF ChannelInv, Typed, Sealed
    <3>4. /\ j \in 1 .. n /\ receiver + j \in 1 .. Len(sent)
          /\ receiver + j - 1 \in Nat /\ receiver + j - 1 < Limit /\ (receiver + j) - 1 = receiver + j - 1
      BY <1>1, <1>3, <3>1, <3>3
    <3>5. HasNonce(receiver + j - 1)
      BY <1>3, <3>4, HasNonceBelowLimit
    <3>6. records[j] = sent[receiver + j]
      BY <1>1, <1>3, <3>1, <3>3, <3>4
    <3>7. records[j] = Seal(NonceOf(receiver + j - 1), receiver + j)
      BY <3>3, <3>4, <3>6
    <3>8. Opens(NonceOf(receiver + j - 1), records[j])
      BY <3>7 DEF Opens, Seal, Tag
    <3>9. QED
      BY <3>2, <3>5, <3>8
  <2>7. QED
    BY <1>1, <1>2, <2>1, <2>5, <2>6
<1>6. QED
  BY <1>1, <1>4, <1>5 DEF ReceiveRecords

-----------------------------------------------------------------------------
\* What follows for the channel.

\* The types of the counters, as the proofs below cite them.
LEMMA Ranges ==
    ASSUME ChannelInv
    PROVE  /\ NonceType /\ Limit \in Nat
           /\ sender \in Nat /\ sender <= Limit
           /\ receiver \in Nat /\ receiver <= Limit
<1>1. NonceType /\ sender \in 0 .. Limit /\ receiver \in 0 .. Limit
  BY DEF ChannelInv, Typed
<1>2. Limit \in Nat
  BY <1>1, LimitFacts DEF NonceType
<1>3. QED
  BY <1>1, <1>2

\* Messages r + 1 .. r + n after messages up to r.
LEMMA Appended ==
    ASSUME NEW s \in Seq(Nat), NEW r \in Nat, NEW n \in Nat
    PROVE  /\ s \o [j \in 1 .. n |-> r + j] \in Seq(Nat)
           /\ (\A k \in DOMAIN s : s[k] <= r)
                => \A k \in DOMAIN (s \o [j \in 1 .. n |-> r + j]) :
                      (s \o [j \in 1 .. n |-> r + j])[k] <= r + n
           /\ s = [k \in 1 .. r |-> k]
                => s \o [j \in 1 .. n |-> r + j] = [k \in 1 .. r + n |-> k]
<1> DEFINE t == [j \in 1 .. n |-> r + j]
<1>1. t \in Seq(Nat) /\ Len(t) = n /\ \A j \in 1 .. n : t[j] = r + j
  OBVIOUS
<1>2. s = [k \in 1 .. r |-> k] => s \o t = [k \in 1 .. r + n |-> k]
  OBVIOUS
<1> HIDE DEF t
<1>3. s \o t \in Seq(Nat) /\ Len(s \o t) = Len(s) + n
  BY <1>1
<1>4. ASSUME \A k \in DOMAIN s : s[k] <= r, NEW k \in DOMAIN (s \o t)
      PROVE  (s \o t)[k] <= r + n
  BY <1>1, <1>3, <1>4
<1>5. QED
  BY <1>2, <1>3, <1>4 DEF t

\* Receiving keeps the invariant, whatever the network hands over.
LEMMA ReceiveRecordsInv ==
    ASSUME ChannelInv, NEW n \in 1 .. MaxBatch, NEW records \in [1 .. n -> Network],
           ReceiveRecords(records), HandOver(records)
    PROVE  ChannelInv'
<1>1. Used' /\ Sealed' /\ Refusal'
  BY ReceiveEffect, SenderKept
<1>2. /\ receiver \in Nat /\ Limit' = Limit /\ receiver' \in 0 .. Limit /\ receiver' \in Nat /\ receiver <= receiver'
      /\ inOrder \in BOOLEAN /\ inOrder' \in BOOLEAN /\ n \in Nat
  <2>1. receiver \in Nat /\ Limit \in Nat
    BY LimitFacts DEF ChannelInv, Typed, NonceType
  <2>2. receiver' \in receiver .. Limit /\ n \in Nat
    BY ReceiveEffect
  <2>3. Limit' = Limit
    BY ReceiveEffect, SameNonces DEF ReceiverOnly
  <2>4. inOrder \in BOOLEAN /\ inOrder' \in BOOLEAN
    BY DEF ChannelInv, Typed, HandOver
  <2>5. QED
    BY <2>1, <2>2, <2>3, <2>4
<1>3. Typed'
  <2>1. NonceType' = NonceType /\ UNCHANGED <<sender, refused>>
    BY ReceiveEffect, SameNonces DEF ReceiverOnly
  <2>2. QED
    BY <1>2, <2>1 DEF ChannelInv, Typed
<1>4. inOrder' => inOrder
  BY DEF HandOver
<1>5. CASE receiver' = receiver + n /\ delivered' = delivered \o [j \in 1 .. n |-> receiver + j]
  <2>1. delivered \in Seq(Nat) /\ \A k \in DOMAIN delivered : delivered[k] <= receiver
    BY DEF ChannelInv, Behind
  <2>2. Behind'
    BY <1>2, <1>5, <2>1, Appended DEF Behind
  <2>3. InStep'
    BY <1>2, <1>4, <1>5, <2>1, Appended DEF ChannelInv, InStep
  <2>4. QED
    BY <1>1, <1>3, <2>2, <2>3 DEF ChannelInv
<1>6. CASE UNCHANGED delivered /\ ~inOrder'
  <2>1. Behind'
    BY <1>2, <1>6 DEF ChannelInv, Behind
  <2>2. InStep'
    BY <1>6 DEF InStep
  <2>3. QED
    BY <1>1, <1>3, <2>1, <2>2 DEF ChannelInv
<1>7. QED
  BY <1>5, <1>6, ReceiveEffect

\* Every step keeps the invariant.
LEMMA StepInv == ChannelInv /\ [Next]_vars => ChannelInv'
<1> SUFFICES ASSUME ChannelInv, [Next]_vars PROVE ChannelInv'
  OBVIOUS
<1>1. CASE Next
  <2>1. PICK n \in 1 .. MaxBatch :
          \/ SendRecords(n)
          \/ \E records \in [1 .. n -> Network] : ReceiveRecords(records) /\ HandOver(records)
    BY <1>1 DEF Next
  <2>2. QED
    BY <2>1, SendRecordsInv, ReceiveRecordsInv
<1>2. CASE UNCHANGED vars
  <2>1. UNCHANGED <<len, iv, receiver, delivered, inOrder, sender, used, sent, refused>>
    BY <1>2 DEF vars
  <2>2. ReceiverOnly
    BY <2>1 DEF ReceiverOnly
  <2>3. Used' /\ Sealed' /\ Refusal'
    BY <2>2, SenderKept
  <2>4. Typed'
    BY <2>1, SameNonces DEF ChannelInv, Typed
  <2>5. Behind' /\ InStep'
    BY <2>1 DEF ChannelInv, Behind, InStep
  <2>6. QED
    BY <2>3, <2>4, <2>5 DEF ChannelInv
<1>3. QED
  BY <1>1, <1>2

\* The invariant holds for all lengths of nonces and counters.
THEOREM Invariance == Spec => []ChannelInv
  BY InitInv, StepInv, PTL DEF Spec

\* next_nonce: no nonce encrypts two records, for every length of the nonce, every
\* width of the counter and every iv; a batch that failed halfway used its own.
THEOREM NoncesNeverReused == Spec => []NoncesFresh
<1>1. ChannelInv => NoncesFresh
  <2> SUFFICES ASSUME ChannelInv, NEW j \in DOMAIN used, NEW k \in DOMAIN used, used[j] = used[k]
               PROVE  j = k
    BY DEF NoncesFresh
  <2>2. Limit \in Nat /\ sender \in Nat /\ sender <= Limit /\ NonceType
    BY Ranges
  <2>3. /\ j \in 1 .. sender /\ k \in 1 .. sender
        /\ NonceOf(j - 1) = NonceOf(k - 1)
    BY <2>2 DEF ChannelInv, Used
  <2>4. /\ j - 1 \in Nat /\ k - 1 \in Nat /\ j - 1 < Limit /\ k - 1 < Limit
    BY <2>2, <2>3
  <2>5. j - 1 = k - 1
    BY <2>2, <2>3, <2>4, NoncesDiffer
  <2>6. QED
    BY <2>3, <2>5
<1>2. QED
  BY <1>1, Invariance, PTL

\* next_nonce: the sender seals exactly as many records as its documentation says,
\* and answers Err only then.
THEOREM SenderStopsAtLimit == Spec => []RefusesAtLimit
<1>1. ChannelInv => RefusesAtLimit
  <2> SUFFICES ASSUME ChannelInv PROVE RefusesAtLimit
    OBVIOUS
  <2>2. Limit \in Nat /\ sender \in Nat /\ sender <= Limit
    BY Ranges
  <2>3. Len(used) = sender
    <3> DEFINE f == [j \in 1 .. sender |-> NonceOf(j - 1)]
    <3>1. used = [j \in 1 .. sender |-> f[j]]
      BY DEF ChannelInv, Used
    <3> HIDE DEF f
    <3>2. QED
      BY <2>2, <3>1, Lengths
  <2>4. refused => sender = Limit
    BY DEF ChannelInv, Refusal
  <2>5. QED
    BY <2>2, <2>3, <2>4 DEF RefusesAtLimit
<1>2. QED
  BY <1>1, Invariance, PTL

\* send_records, receive_records: a network that keeps the order loses nothing,
\* however the records are cut into batches.
THEOREM EndsStayInStep == Spec => []InStep
<1>1. ChannelInv => InStep
  BY DEF ChannelInv
<1>2. QED
  BY <1>1, Invariance, PTL

\* Refinement: the two ends begin as an empty stream.
LEMMA InitStream == Init => Stream!Init
BY DEF Init, Stream!Init

\* Refinement: sending writes, a batch that opens reads what comes next, and every
\* other step of either end is a stutter.
LEMMA StepStream == ChannelInv /\ [Next]_vars => [Stream!Next]_<<Len(sent), delivered>>
<1> SUFFICES ASSUME ChannelInv, Next
             PROVE  Stream!Next \/ UNCHANGED <<Len(sent), delivered>>
  BY DEF vars
<1>1. PICK n \in 1 .. MaxBatch :
        \/ SendRecords(n)
        \/ \E records \in [1 .. n -> Network] : ReceiveRecords(records) /\ HandOver(records)
  BY DEF Next
<1>2. CASE SendRecords(n)
  <2>1. UNCHANGED delivered
    BY <1>2 DEF SendRecords
  <2>2. sent' # sent => Len(sent') > Len(sent)
    BY <1>2, SendRecordsInv
  <2>3. QED
    BY <2>1, <2>2 DEF Stream!Next, Stream!Write
<1>3. ASSUME NEW records \in [1 .. n -> Network], ReceiveRecords(records), HandOver(records)
      PROVE  Stream!Next \/ UNCHANGED <<Len(sent), delivered>>
  <2>1. CASE UNCHANGED delivered
    BY <1>3, <2>1, ReceiveEffect DEF ReceiverOnly
  <2>2. CASE /\ receiver + n <= Len(sent)
             /\ delivered' = delivered \o [j \in 1 .. n |-> receiver + j]
    <3> DEFINE first == receiver + 1
               last == receiver + n
    <3>1. receiver \in Nat /\ n \in Nat /\ n > 0 /\ Len(sent) \in Nat
      BY <1>3, ReceiveEffect, LimitFacts DEF ChannelInv, Typed, NonceType, Sealed
    <3>2. first \in 1 .. Len(sent) /\ last \in first .. Len(sent)
      BY <2>2, <3>1
    <3>3. \A k \in DOMAIN delivered : delivered[k] < first
      <4>1. ASSUME NEW k \in DOMAIN delivered PROVE delivered[k] < first
        <5>1. delivered[k] \in Nat /\ delivered[k] <= receiver
          BY DEF ChannelInv, Behind
        <5>2. QED
          BY <3>1, <5>1
      <4>2. QED
        BY <4>1
    <3>4. [j \in 1 .. n |-> receiver + j] = [k \in 1 .. last - first + 1 |-> first + k - 1]
      <4>1. last - first + 1 = n /\ \A k \in 1 .. n : first + k - 1 = receiver + k
        BY <3>1
      <4>2. QED
        BY <4>1
    <3>5. UNCHANGED Len(sent)
      BY <1>3, ReceiveEffect DEF ReceiverOnly
    <3> HIDE DEF first, last
    <3>6. Stream!Read(first, last)
      BY <2>2, <3>3, <3>4, <3>5 DEF Stream!Read
    <3>7. QED
      BY <3>2, <3>6 DEF Stream!Next
  <2>3. QED
    BY <1>3, <2>1, <2>2, ReceiveEffect
<1>4. QED
  BY <1>1, <1>2, <1>3

\* receive_records: whatever the network loses, repeats, reorders or alters, the
\* receiver reads messages that were sent, in order, none twice and batches whole.
THEOREM ChannelIsAStream == Spec => ReadsWhatWasSent
  BY InitStream, StepStream, Invariance, PTL DEF Spec, ReadsWhatWasSent, Stream!Spec

-----------------------------------------------------------------------------
\* expand_into

\* The sizes of the keys, which the types of the key schedule add up.
LEMMA KeySizes ==
    /\ AesKey.USIZE = 16 /\ Iv.USIZE = 12
    /\ Direction.USIZE = 28 /\ SessionKeys.USIZE = 56 /\ EpochKeys.USIZE = 224
<1>1. ~Wrapping /\ EpochKeys.USIZE # Overflow /\ Modulus \in Nat
  BY CompilesAssumption, ModulusAssumption DEF Compiles
<1>2. AesKey.USIZE = 16 /\ AesKey.math = 16 /\ Iv.USIZE = 12 /\ Iv.math = 12
  BY DEF AesKey, Iv, LenN, Size
<1>3. 16 # Overflow /\ 12 # Overflow /\ 28 # Overflow /\ 56 # Overflow /\ 4 # Overflow
  BY OverflowAssumption
<1>4. /\ Direction.math = 28
      /\ Direction.USIZE = IF 28 < Modulus THEN 28 ELSE Overflow
  BY <1>1, <1>2, <1>3 DEF Direction, Sum, Size, Evaluate
<1>5. /\ SessionKeys.math = 56
      /\ SessionKeys.USIZE = IF Direction.USIZE # Overflow /\ 56 < Modulus THEN 56 ELSE Overflow
  BY <1>1, <1>4 DEF SessionKeys, Sum, Size, Evaluate
<1>6. EpochKeys.USIZE = IF SessionKeys.USIZE # Overflow /\ 224 < Modulus THEN 224 ELSE Overflow
  BY <1>1, <1>3, <1>5 DEF EpochKeys, Prod, LenN, Size, Evaluate
<1>7. QED
  BY <1>1, <1>2, <1>3, <1>4, <1>5, <1>6

\* Byte k of the output that RFC 5869 defines.
Rfc(k) == <<T(((k - 1) \div output) + 1), ((k - 1) % output) + 1>>

\* The output is as long as it was asked for.
Requested ==
    /\ output \in Nat
    /\ Len(okm) \in Nat /\ DOMAIN okm = 1 .. Len(okm)
    /\ okm = [k \in DOMAIN okm |-> okm[k]]

\* What has been written so far is RFC 5869's, and no counter of one byte ends.
Written ==
    pc \in {"loop", "ok"} =>
        /\ output > 0 /\ Len(okm) <= 255 * output
        /\ i \in 0 .. 255 /\ prev = i
        /\ \A k \in DOMAIN okm : okm[k] = IF k <= i * output THEN Rfc(k) ELSE Zero
        /\ pc = "ok" => Len(okm) <= i * output

\* Nothing is written before the loop, or when the length is refused.
Untouched ==
    /\ pc \in {"start", "err"} => i = 0 /\ prev = None /\ \A k \in DOMAIN okm : okm[k] = Zero
    /\ pc = "err" => Len(okm) > 255 * output
    /\ pc = "panicked" => output = 0

\* The keys are those that TakeKeys cut out of the output.
Cut ==
    keys # <<>> =>
        /\ pc = "ok"
        /\ \/ Len(okm) = SessionKeys.USIZE /\ keys = Split(okm)
           \/ /\ Len(okm) = EpochKeys.USIZE
              /\ keys = Seqs!FlattenSeq([e \in 1 .. 4 |->
                          Split(SubSeq(okm, (e - 1) * SessionKeys.USIZE + 1, e * SessionKeys.USIZE))])

\* The inductive invariant.
HkdfInv ==
    /\ pc \in {"start", "loop", "ok", "err", "panicked"}
    /\ Requested /\ Written /\ Untouched /\ Cut

\* It holds before the first chunk.
LEMMA HkdfInitInv == HkdfInit => HkdfInv
<1> SUFFICES ASSUME HkdfInit PROVE HkdfInv
  OBVIOUS
<1>1. PICK n \in Requests \cup {SessionKeys.USIZE, EpochKeys.USIZE} : okm = [k \in 1 .. n |-> Zero]
  BY DEF HkdfInit
<1>2. n \in Nat
  BY RequestsAssumption, KeySizes
<1>3. Len(okm) = n /\ DOMAIN okm = 1 .. n
  BY <1>1, <1>2
<1>4. output \in Nat
  BY OutputsAssumption DEF HkdfInit
<1>5. okm = [k \in DOMAIN okm |-> okm[k]]
  BY <1>1
<1>6. QED
  BY <1>1, <1>2, <1>3, <1>4, <1>5 DEF HkdfInit, HkdfInv, Requested, Written, Untouched, Cut, Zero

\* The check of the length keeps it.
LEMMA StartInv == ASSUME HkdfInv, Start PROVE HkdfInv'
<1>1. output \in Nat /\ Len(okm) \in Nat /\ UNCHANGED <<output, i, prev, okm, keys>> /\ pc = "start"
  BY DEF HkdfInv, Requested, Start
<1>2. Requested' /\ Cut'
  BY <1>1 DEF HkdfInv, Requested, Cut
<1>3. i = 0 /\ prev = 0 /\ \A k \in DOMAIN okm : okm[k] = Zero /\ k \in Nat /\ k >= 1
  BY <1>1 DEF HkdfInv, Untouched, None, Requested
<1>4. CASE TooLong /\ pc' = "err"
  BY <1>1, <1>2, <1>3, <1>4 DEF HkdfInv, TooLong, Untouched, Written, None
<1>5. CASE output = 0 /\ pc' = "panicked"
  BY <1>1, <1>2, <1>5 DEF HkdfInv, Untouched, Written
<1>6. CASE ~TooLong /\ output # 0 /\ pc' = "loop"
  <2>1. output > 0 /\ Len(okm) <= 255 * output
    BY <1>1, <1>6 DEF TooLong
  <2>2. \A k \in DOMAIN okm : okm[k] = IF k <= 0 * output THEN Rfc(k) ELSE Zero
    BY <1>1, <1>3
  <2>3. Written'
    BY <1>1, <1>3, <1>6, <2>1, <2>2 DEF Written, Rfc
  <2>4. QED
    BY <1>1, <1>2, <1>6, <2>3 DEF HkdfInv, Untouched
<1>7. QED
  BY <1>4, <1>5, <1>6 DEF Start

\* Byte k of the output lies in block (k - 1) \div p.
LEMMA ByteOfBlock ==
    ASSUME NEW p \in Nat, p > 0, NEW j \in Nat, NEW k \in Nat, j * p < k, k <= (j + 1) * p
    PROVE  (k - 1) \div p = j /\ (k - 1) % p = k - 1 - j * p
<1>1. k - 1 \in Nat /\ j * p <= k - 1 /\ k - 1 < (j + 1) * p
  OBVIOUS
<1>2. (k - 1) \div p = j
  BY <1>1, Quotient
<1>3. \A a \in Nat : a = p * (a \div p) + (a % p)
  OBVIOUS
<1>4. k - 1 = p * j + ((k - 1) % p)
  BY <1>1, <1>2, <1>3
<1>5. (k - 1) % p \in Nat
  BY <1>1
<1>6. QED
  BY <1>2, <1>4, <1>5

\* A turn of the loop keeps it: the counter is the number of the block, and the
\* chunk takes the bytes of RFC 5869.
LEMMA ExpandInv == ASSUME HkdfInv, Expand PROVE HkdfInv'
<1>1. /\ output \in Nat /\ output > 0 /\ Len(okm) \in Nat /\ Len(okm) <= 255 * output
      /\ i \in Nat /\ i <= 255 /\ prev = i /\ pc = "loop" /\ DOMAIN okm = 1 .. Len(okm)
      /\ i * output < Len(okm)
      /\ UNCHANGED <<output, keys>>
  <2>1. pc = "loop" /\ More /\ UNCHANGED <<output, keys>>
    BY DEF Expand
  <2>2. /\ output \in Nat /\ output > 0 /\ Len(okm) \in Nat /\ Len(okm) <= 255 * output
        /\ i \in 0 .. 255 /\ prev = i /\ DOMAIN okm = 1 .. Len(okm)
    BY <2>1 DEF HkdfInv, Requested, Written
  <2>3. QED
    BY <2>1, <2>2 DEF More
<1>2. i < 255
  <2>1. SUFFICES ASSUME i = 255 PROVE FALSE
    BY <1>1
  <2>2. QED
    BY <1>1, <2>1
<1>3. Counter = i + 1 /\ Counter # 256
  BY <1>1, <1>2 DEF Counter
<1>4. /\ okm' = [k \in DOMAIN okm |-> IF k \in Chunk THEN <<Block, k - i * output>> ELSE okm[k]]
      /\ prev' = i + 1 /\ i' = i + 1 /\ pc' = "loop"
  BY <1>1, <1>3 DEF Expand
<1>5. Len(okm') = Len(okm) /\ DOMAIN okm' = DOMAIN okm /\ okm' = [k \in DOMAIN okm' |-> okm'[k]]
  BY <1>1, <1>4
<1>6. Requested'
  BY <1>1, <1>5 DEF Requested
<1>7. ASSUME NEW k \in DOMAIN okm
      PROVE  okm'[k] = IF k <= (i + 1) * output THEN Rfc(k) ELSE Zero
  <2>1. k \in Nat /\ k >= 1
    BY <1>1
  <2>2. CASE k <= i * output
    <3>1. k \notin Chunk /\ k <= (i + 1) * output
      BY <1>1, <2>1, <2>2 DEF Chunk
    <3>2. okm[k] = Rfc(k)
      BY <1>1, <2>2 DEF HkdfInv, Written
    <3>3. QED
      BY <1>4, <3>1, <3>2
  <2>3. CASE i * output < k /\ k <= (i + 1) * output
    <3>1. k \in Chunk
      BY <2>3 DEF Chunk
    <3>2. (k - 1) \div output = i /\ (k - 1) % output = k - 1 - i * output
      BY <1>1, <2>1, <2>3, ByteOfBlock
    <3>3. Block = T(i + 1)
      BY <1>1, <1>3 DEF Block, T
    <3>4. Rfc(k) = <<T(i + 1), k - i * output>>
      <4>1. k - 1 - i * output + 1 = k - i * output
        BY <1>1, <2>1
      <4>2. QED
        BY <3>2, <4>1 DEF Rfc
    <3>5. QED
      BY <1>4, <2>3, <3>1, <3>3, <3>4
  <2>4. CASE k > (i + 1) * output
    <3>1. k \notin Chunk /\ ~(k <= i * output) /\ ~(k <= (i + 1) * output)
      BY <1>1, <2>1, <2>4 DEF Chunk
    <3>2. okm[k] = Zero
      BY <1>1, <3>1 DEF HkdfInv, Written
    <3>3. QED
      BY <1>4, <3>1, <3>2
  <2>5. QED
    BY <1>1, <2>1, <2>2, <2>3, <2>4
<1>8. Written'
  <2>1. \A k : Rfc(k)' = Rfc(k)
    BY <1>1 DEF Rfc, T
  <2>2. i + 1 \in 0 .. 255
    BY <1>1, <1>2
  <2>3. \A k \in DOMAIN okm' : okm'[k] = IF k <= (i + 1) * output THEN Rfc(k)' ELSE Zero
    BY <1>5, <1>7, <2>1
  <2>4. QED
    BY <1>1, <1>4, <1>5, <2>2, <2>3 DEF Written, Zero
<1>9. Untouched' /\ Cut'
  BY <1>1, <1>4 DEF Untouched, Cut, HkdfInv
<1>10. QED
  BY <1>4, <1>6, <1>8, <1>9 DEF HkdfInv

\* The end of the loop keeps it: all chunks are written.
LEMMA ReturnInv == ASSUME HkdfInv, Return PROVE HkdfInv'
<1>1. UNCHANGED <<output, i, prev, okm, keys>> /\ pc = "loop" /\ pc' = "ok"
  BY DEF Return
<1>2. Requested'
  BY <1>1 DEF HkdfInv, Requested
<1>3. Len(okm) <= i * output
  <2>1. Len(okm) \in Nat /\ output \in Nat /\ i \in 0 .. 255
    BY <1>1 DEF HkdfInv, Requested, Written
  <2>2. i * output \in Nat
    BY <2>1
  <2>3. QED
    BY <2>1, <2>2 DEF Return, More
<1>4. Written'
  BY <1>1, <1>3 DEF HkdfInv, Written, Rfc, Zero
<1>5. Untouched' /\ Cut'
  BY <1>1 DEF HkdfInv, Untouched, Cut
<1>6. QED
  BY <1>1, <1>2, <1>4, <1>5 DEF HkdfInv

\* The key schedule keeps it.
LEMMA TakeKeysInv == ASSUME HkdfInv, TakeKeys PROVE HkdfInv'
<1>1. UNCHANGED <<pc, output, i, prev, okm>> /\ pc = "ok"
  BY DEF TakeKeys
<1>2. Requested' /\ Untouched'
  BY <1>1 DEF HkdfInv, Requested, Untouched
<1>3. Written'
  BY <1>1 DEF HkdfInv, Written, Rfc, Zero
<1>4. Cut'
  BY <1>1 DEF TakeKeys, Cut, Split, Parts
<1>5. QED
  BY <1>1, <1>2, <1>3, <1>4 DEF HkdfInv

\* Every step keeps the invariant.
LEMMA HkdfStepInv == HkdfInv /\ [HkdfNext]_hkdfVars => HkdfInv'
<1> SUFFICES ASSUME HkdfInv, [HkdfNext]_hkdfVars PROVE HkdfInv'
  OBVIOUS
<1>1. CASE HkdfNext
  BY <1>1, StartInv, ExpandInv, ReturnInv, TakeKeysInv DEF HkdfNext
<1>2. CASE UNCHANGED hkdfVars
  <2>1. UNCHANGED <<pc, output, i, prev, okm, keys>>
    BY <1>2 DEF hkdfVars
  <2>2. Requested' /\ Untouched'
    BY <2>1 DEF HkdfInv, Requested, Untouched
  <2>3. Written'
    BY <2>1 DEF HkdfInv, Written, Rfc, Zero
  <2>4. Cut'
    BY <2>1 DEF HkdfInv, Cut, Split, Parts
  <2>5. QED
    BY <2>1, <2>2, <2>3, <2>4 DEF HkdfInv
<1>3. QED
  BY <1>1, <1>2

\* The invariant holds for all digests and all lengths of the output.
THEOREM HkdfInvariance == HkdfSpec => []HkdfInv
  BY HkdfInitInv, HkdfStepInv, PTL DEF HkdfSpec

-----------------------------------------------------------------------------
\* What follows for the output.

\* What expand_into has returned is the output of RFC 5869.
LEMMA DoneIsRfc ==
    ASSUME HkdfInv, pc = "ok"
    PROVE  output \in Nat /\ output > 0 /\ \A k \in DOMAIN okm : k \in Nat /\ k >= 1 /\ okm[k] = Rfc(k)
<1>1. /\ output \in Nat /\ output > 0 /\ DOMAIN okm = 1 .. Len(okm) /\ Len(okm) \in Nat
      /\ i \in Nat /\ Len(okm) <= i * output
      /\ \A k \in DOMAIN okm : okm[k] = IF k <= i * output THEN Rfc(k) ELSE Zero
  <2>1. output \in Nat /\ DOMAIN okm = 1 .. Len(okm) /\ Len(okm) \in Nat
    BY DEF HkdfInv, Requested
  <2>2. /\ output > 0 /\ i \in 0 .. 255 /\ Len(okm) <= i * output
        /\ \A k \in DOMAIN okm : okm[k] = IF k <= i * output THEN Rfc(k) ELSE Zero
    BY DEF HkdfInv, Written
  <2>3. QED
    BY <2>1, <2>2
<1>2. i * output \in Nat
  BY <1>1
<1>3. ASSUME NEW k \in DOMAIN okm PROVE k \in Nat /\ k >= 1 /\ k <= i * output
  BY <1>1, <1>2
<1>4. QED
  BY <1>1, <1>3

\* expand_into: the output is RFC 5869's, for every size of the digest and every
\* length, a short last chunk included.
THEOREM OutputMatchesRfc == HkdfSpec => []MatchesRfc
<1>1. HkdfInv => MatchesRfc
  <2> SUFFICES ASSUME HkdfInv, pc = "ok"
               PROVE  okm = [k \in DOMAIN okm |-> <<T(((k - 1) \div output) + 1), ((k - 1) % output) + 1>>]
    BY DEF MatchesRfc
  <2>1. okm = [k \in DOMAIN okm |-> okm[k]]
    BY DEF HkdfInv, Requested
  <2>2. QED
    BY <2>1, DoneIsRfc DEF Rfc
<1>2. QED
  BY <1>1, HkdfInvariance, PTL

\* expand_into: exactly the outputs of more than 255 blocks are refused, and the
\* u8 that counts the blocks never overflows.
THEOREM OnlyTooLongIsRefused == HkdfSpec => []RefusesTooLong
<1>1. HkdfInv => RefusesTooLong
  BY DEF HkdfInv, RefusesTooLong, Written, Untouched
<1>2. QED
  BY <1>1, HkdfInvariance, PTL

\* FlattenSeq joins one sequence after the other.
LEMMA Flattened ==
    ASSUME NEW V, NEW ss \in Seq(Seq(V)), Len(ss) > 0
    PROVE  \E f \in [1 .. Len(ss) -> Seq(V)] :
              /\ f[1] = ss[1]
              /\ \A j \in 2 .. Len(ss) : f[j] = f[j - 1] \o ss[j]
              /\ Seqs!FlattenSeq(ss) = f[Len(ss)]
<1> DEFINE n == Len(ss)
           W == Seq(V)
           first == ss[1]
           step == [j \in Nat |-> [s \in W |-> IF j + 2 <= n THEN s \o ss[j + 2] ELSE s]]
<1>1. n \in Nat /\ n > 0 /\ \A j \in 1 .. n : ss[j] \in W
  OBVIOUS
<1>2. first \in W
  BY <1>1
<1>3. step \in [Nat -> [W -> W]]
  <2>1. ASSUME NEW j \in Nat, NEW s \in W
        PROVE  (IF j + 2 <= n THEN s \o ss[j + 2] ELSE s) \in W
    <3>1. j + 2 <= n => ss[j + 2] \in W
      BY <1>1
    <3>2. QED
      BY <3>1
  <2>2. QED
    BY <2>1
<1>4. PICK g \in [Nat -> W] : g[0] = first /\ \A j \in Nat : g[j + 1] = step[j][g[j]]
  <2>1. PICK g : IsRun(g, W, first, step)
    <3> HIDE DEF W, first, step
    <3>1. QED
      BY <1>2, <1>3, Recursion
  <2>2. QED
    BY <2>1 DEF IsRun
<1> DEFINE F(h) == [j \in 1 .. n |-> IF j = 1 THEN ss[j] ELSE h[j - 1] \o ss[j]]
           f == CHOOSE h : h = F(h)
<1>5. \E h : h = F(h)
  <2> DEFINE h == [j \in 1 .. n |-> g[j - 1]]
  <2>1. ASSUME NEW j \in 1 .. n PROVE h[j] = IF j = 1 THEN ss[j] ELSE h[j - 1] \o ss[j]
    <3>1. CASE j = 1
      BY <1>1, <1>4, <3>1
    <3>2. CASE j # 1
      <4>1. j - 2 \in Nat /\ (j - 2) + 1 = j - 1 /\ (j - 2) + 2 = j /\ j - 1 \in 1 .. n /\ (j - 1) - 1 = j - 2
        BY <3>2
      <4>2. g[j - 1] = step[j - 2][g[j - 2]] /\ g[j - 2] \in W
        BY <1>4, <4>1
      <4>3. step[j - 2][g[j - 2]] = g[j - 2] \o ss[j]
        <5>1. \A s \in W : step[j - 2][s] = s \o ss[j]
          <6> HIDE DEF W, n
          <6>1. step[j - 2] = [s \in W |-> IF (j - 2) + 2 <= n THEN s \o ss[(j - 2) + 2] ELSE s]
            BY <4>1
          <6>2. j <= n
            BY <1>1
          <6> HIDE DEF step
          <6>3. QED
            BY <4>1, <6>1, <6>2
        <5> HIDE DEF step
        <5>2. QED
          BY <4>2, <5>1
      <4>4. QED
        BY <3>2, <4>1, <4>2, <4>3
    <3>3. QED
      BY <3>1, <3>2
  <2>2. h = F(h)
    BY <2>1
  <2>3. QED
    BY <2>2
<1>6. f = F(f)
  <2> HIDE DEF F
  <2>1. QED
    BY <1>5
<1>7. Seqs!FlattenSeq(ss) = f[n]
  BY <1>1 DEF Seqs!FlattenSeq
<1> HIDE DEF f
<1>8. /\ f[1] = ss[1]
      /\ \A j \in 2 .. n : f[j] = f[j - 1] \o ss[j]
  <2>1. \A j \in 1 .. n : f[j] = IF j = 1 THEN ss[j] ELSE f[j - 1] \o ss[j]
    BY <1>6
  <2> HIDE DEF F, n
  <2>2. 1 \in 1 .. n /\ \A j \in 2 .. n : j \in 1 .. n /\ j # 1
    BY <1>1
  <2>3. QED
    BY <2>1, <2>2
<1> DEFINE S == {j \in Nat : j + 1 <= n => f[j + 1] \in W}
<1>9. Nat \subseteq S
  <2>1. 0 \in S
    <3>1. 0 + 1 = 1 /\ 1 \in 1 .. n /\ 0 \in Nat
      BY <1>1
    <3>2. f[0 + 1] = ss[1] /\ ss[1] \in W
      BY <1>1, <1>8, <3>1
    <3>3. QED
      BY <3>1, <3>2
  <2>2. ASSUME NEW j \in Nat, j \in S PROVE j + 1 \in S
    <3>1. SUFFICES ASSUME (j + 1) + 1 <= n PROVE f[(j + 1) + 1] \in W
      OBVIOUS
    <3>2. (j + 1) + 1 \in 2 .. n /\ j + 1 <= n /\ ((j + 1) + 1) - 1 = j + 1 /\ (j + 1) + 1 \in 1 .. n
      BY <1>1, <3>1
    <3>3. f[(j + 1) + 1] = f[j + 1] \o ss[(j + 1) + 1]
      BY <1>8, <3>2
    <3>4. f[j + 1] \in W /\ ss[(j + 1) + 1] \in W
      BY <1>1, <2>2, <3>2
    <3>5. QED
      BY <3>3, <3>4
  <2> HIDE DEF S
  <2>3. QED
    BY <2>1, <2>2, Induction
<1>10. f \in [1 .. n -> W]
  <2>1. ASSUME NEW j \in 1 .. n PROVE f[j] \in W
    <3>1. j - 1 \in Nat /\ (j - 1) + 1 = j
      BY <1>1
    <3>2. j - 1 \in S
      BY <1>9, <3>1
    <3>3. QED
      BY <3>1, <3>2
  <2>2. f = [j \in 1 .. n |-> f[j]]
    BY <1>6
  <2>3. QED
    BY <2>1, <2>2
<1>11. QED
  BY <1>7, <1>8, <1>10

-----------------------------------------------------------------------------
\* FlattenSeq, and where the keys are cut.

\* The pieces that a sequence is cut into at rising places make it up again.
LEMMA Pieces ==
    ASSUME NEW V, NEW s \in Seq(V), NEW n \in Nat, n > 0,
           NEW cut \in [0 .. n -> Nat], cut[0] = 0, cut[n] = Len(s),
           \A j \in 1 .. n : cut[j - 1] <= cut[j] /\ cut[j] <= Len(s)
    PROVE  Seqs!FlattenSeq([j \in 1 .. n |-> SubSeq(s, cut[j - 1] + 1, cut[j])]) = s
<1> DEFINE ss == [j \in 1 .. n |-> SubSeq(s, cut[j - 1] + 1, cut[j])]
<1>1. ASSUME NEW j \in 1 .. n PROVE SubSeq(s, cut[j - 1] + 1, cut[j]) \in Seq(V)
  <2>1. cut[j - 1] \in Nat /\ cut[j] \in Nat /\ cut[j] <= Len(s)
    OBVIOUS
  <2>2. \A k \in cut[j - 1] + 1 .. cut[j] : s[k] \in V
    BY <2>1
  <2>3. QED
    BY <2>1, <2>2, SubSeqProperties
<1>2. ss \in Seq(Seq(V)) /\ Len(ss) = n
  BY <1>1
<1>3. \A j \in 1 .. n : ss[j] = SubSeq(s, cut[j - 1] + 1, cut[j])
  OBVIOUS
<1> HIDE DEF ss
<1>4. PICK f \in [1 .. n -> Seq(V)] :
        /\ f[1] = ss[1]
        /\ \A j \in 2 .. n : f[j] = f[j - 1] \o ss[j]
        /\ Seqs!FlattenSeq(ss) = f[n]
  BY <1>2, Flattened
<1> DEFINE S == {j \in Nat : j + 1 <= n => f[j + 1] = SubSeq(s, 1, cut[j + 1])}
<1>5. 0 \in S
  <2>1. 1 \in 1 .. n /\ 1 - 1 = 0 /\ 0 + 1 = 1 /\ cut[1 - 1] + 1 = 1
    OBVIOUS
  <2>2. ss[1] = SubSeq(s, cut[1 - 1] + 1, cut[1])
    BY <1>3, <2>1
  <2>3. f[1] = SubSeq(s, 1, cut[1])
    BY <1>4, <2>1, <2>2
  <2>4. f[0 + 1] = SubSeq(s, 1, cut[0 + 1])
    BY <2>1, <2>3
  <2>5. QED
    BY <2>4
<1>6. ASSUME NEW j \in Nat, j \in S PROVE j + 1 \in S
  <2>1. SUFFICES ASSUME (j + 1) + 1 <= n PROVE f[(j + 1) + 1] = SubSeq(s, 1, cut[(j + 1) + 1])
    OBVIOUS
  <2> DEFINE a == cut[j + 1]
             b == cut[(j + 1) + 1]
  <2>2. (j + 1) + 1 \in 2 .. n /\ (j + 1) + 1 \in 1 .. n /\ j + 1 \in 1 .. n /\ ((j + 1) + 1) - 1 = j + 1
    BY <2>1
  <2>3. a \in Nat /\ b \in Nat /\ a <= b /\ b <= Len(s)
    BY <2>2
  <2>4. f[j + 1] = SubSeq(s, 1, a) /\ ss[(j + 1) + 1] = SubSeq(s, a + 1, b)
    <3>1. ss[(j + 1) + 1] = SubSeq(s, cut[((j + 1) + 1) - 1] + 1, cut[(j + 1) + 1])
      BY <1>3, <2>2
    <3>2. j + 1 <= n => f[j + 1] = SubSeq(s, 1, cut[j + 1])
      BY <1>6
    <3>3. j + 1 <= n
      BY <2>2
    <3>4. QED
      BY <2>2, <3>1, <3>2, <3>3
  <2>5. f[(j + 1) + 1] = f[j + 1] \o ss[(j + 1) + 1]
    BY <1>4, <2>2
  <2> HIDE DEF a, b
  <2>6. SubSeq(s, 1, a) \o SubSeq(s, a + 1, b) = SubSeq(s, 1, b)
    <3>1. 1 \in 1 .. Len(s) + 1 /\ a \in 1 - 1 .. Len(s) /\ b \in a .. Len(s)
      BY <2>3
    <3>2. QED
      BY <3>1, ConcatAdjacentSubSeq
  <2>7. f[(j + 1) + 1] = SubSeq(s, 1, b)
    BY <2>4, <2>5, <2>6
  <2>8. QED
    BY <2>7 DEF b
<1>7. Nat \subseteq S
  <2> HIDE DEF S
  <2>1. QED
    BY <1>5, <1>6, Induction
<1>8. f[n] = SubSeq(s, 1, Len(s))
  <2>1. n - 1 \in Nat /\ (n - 1) + 1 = n
    OBVIOUS
  <2>2. n - 1 \in S
    <3> HIDE DEF S
    <3>1. QED
      BY <1>7, <2>1
  <2>3. (n - 1) + 1 <= n => f[(n - 1) + 1] = SubSeq(s, 1, cut[(n - 1) + 1])
    BY <2>2
  <2>4. QED
    BY <2>1, <2>3
<1>9. QED
  BY <1>4, <1>8, SubSeqFull DEF ss

\* Where key k ends: a session has four, of 16, 12, 16 and 12 bytes.
KeyEnd(k) == 28 * (k \div 2) + 16 * (k % 2)

\* The first n keys.
KeysUpTo(s, n) == [k \in 1 .. n |-> SubSeq(s, KeyEnd(k - 1) + 1, KeyEnd(k))]

\* The keys end one after the other, and every fourth ends a session.
LEMMA KeyEnds ==
    /\ KeyEnd(0) = 0
    /\ \A k \in Nat : KeyEnd(k) \in Nat
    /\ \A k \in Nat \ {0} : KeyEnd(k) = KeyEnd(k - 1) + IF k % 2 = 1 THEN 16 ELSE 12
    /\ \A e \in Nat : KeyEnd(4 * e) = 56 * e
    /\ \A j, k \in Nat : j <= k => KeyEnd(j) <= KeyEnd(k)
BY DEF KeyEnd

\* Together the keys are the bytes they are cut from.
LEMMA KeysJoin ==
    ASSUME NEW V, NEW s \in Seq(V), NEW n \in Nat, n > 0, KeyEnd(n) = Len(s)
    PROVE  Seqs!FlattenSeq(KeysUpTo(s, n)) = s
<1> DEFINE cut == [k \in 0 .. n |-> KeyEnd(k)]
<1>1. n \in Nat /\ n > 0 /\ KeyEnd(n) = Len(s)
  OBVIOUS
<1>2. cut \in [0 .. n -> Nat] /\ cut[0] = 0 /\ cut[n] = Len(s)
  <2>1. 0 \in 0 .. n /\ n \in 0 .. n /\ 0 .. n \subseteq Nat
    BY <1>1
  <2>2. QED
    BY <1>1, <2>1, KeyEnds
<1>3. ASSUME NEW k \in 1 .. n
      PROVE  k \in 0 .. n /\ k - 1 \in 0 .. n /\ KeyEnd(k - 1) <= KeyEnd(k) /\ KeyEnd(k) <= KeyEnd(n)
  <2>1. k \in Nat /\ k - 1 \in Nat /\ k - 1 <= k /\ k <= n /\ k - 1 \in 0 .. n /\ k \in 0 .. n
    BY <1>1
  <2>2. QED
    BY <1>1, <2>1, KeyEnds
<1>4. \A k \in 1 .. n : cut[k - 1] = KeyEnd(k - 1) /\ cut[k] = KeyEnd(k)
  BY <1>3
<1>5. \A k \in 1 .. n : cut[k - 1] <= cut[k] /\ cut[k] <= Len(s)
  BY <1>1, <1>3, <1>4
<1>6. KeysUpTo(s, n) = [k \in 1 .. n |-> SubSeq(s, cut[k - 1] + 1, cut[k])]
  BY <1>4 DEF KeysUpTo
<1> HIDE DEF cut
<1>7. Seqs!FlattenSeq([k \in 1 .. n |-> SubSeq(s, cut[k - 1] + 1, cut[k])]) = s
  BY <1>1, <1>2, <1>5, Pieces
<1>8. QED
  BY <1>6, <1>7

-----------------------------------------------------------------------------
\* The key schedule.

\* A part of a sequence.
LEMMA Part ==
    ASSUME NEW V, NEW s \in Seq(V), NEW a \in Nat, NEW b \in Nat, a >= 1, b <= Len(s), a <= b
    PROVE  SubSeq(s, a, b) \in Seq(V) /\ Len(SubSeq(s, a, b)) = (b - a) + 1
<1>1. \A k \in a .. b : k \in 1 .. Len(s)
  OBVIOUS
<1>2. \A k \in a .. b : s[k] \in V
  BY <1>1, ElementOfSeq
<1>3. QED
  BY <1>2, SubSeqProperties

\* A part of a part.
LEMMA PartOfPart ==
    ASSUME NEW V, NEW s \in Seq(V), NEW a \in Nat, NEW b \in Nat, a >= 1, b <= Len(s),
           NEW m \in Nat, NEW n \in Nat, m >= 1, m <= n, n <= (b - a) + 1,
           NEW c \in Nat, NEW d \in Nat, c = (a + m) - 1, d = (a + n) - 1
    PROVE  SubSeq(SubSeq(s, a, b), m, n) = SubSeq(s, c, d)
<1>1. a \in 1 .. Len(s) /\ b \in 1 .. Len(s) /\ m \in 1 .. (b - a) + 1 /\ n \in 1 .. (b - a) + 1
  OBVIOUS
<1>2. SubSeq(SubSeq(s, a, b), m, n) = SubSeq(s, a + (m - 1), a + (n - 1))
  BY <1>1, SubSeqOfSubSeq
<1>3. c = a + (m - 1) /\ d = a + (n - 1)
  OBVIOUS
<1>4. QED
  BY <1>2, <1>3

\* Each key has its length.
LEMMA KeyLengths ==
    ASSUME NEW V, NEW s \in Seq(V), NEW n \in Nat, n > 0, KeyEnd(n) = Len(s)
    PROVE  /\ Len(KeysUpTo(s, n)) = n /\ DOMAIN KeysUpTo(s, n) = 1 .. n
           /\ \A k \in 1 .. n :
                /\ KeysUpTo(s, n)[k] = SubSeq(s, KeyEnd(k - 1) + 1, KeyEnd(k))
                /\ KeysUpTo(s, n)[k] \in Seq(V)
                /\ Len(KeysUpTo(s, n)[k]) = IF k % 2 = 1 THEN 16 ELSE 12
<1>1. Len(s) \in Nat
  OBVIOUS
<1>2. Len(KeysUpTo(s, n)) = n /\ DOMAIN KeysUpTo(s, n) = 1 .. n
  BY <1>1 DEF KeysUpTo
<1>3. ASSUME NEW k \in 1 .. n
      PROVE  /\ KeysUpTo(s, n)[k] = SubSeq(s, KeyEnd(k - 1) + 1, KeyEnd(k))
             /\ KeysUpTo(s, n)[k] \in Seq(V)
             /\ Len(KeysUpTo(s, n)[k]) = IF k % 2 = 1 THEN 16 ELSE 12
  <2> DEFINE a == KeyEnd(k - 1) + 1
             b == KeyEnd(k)
             size == IF k % 2 = 1 THEN 16 ELSE 12
  <2>1. KeysUpTo(s, n)[k] = SubSeq(s, a, b)
    BY DEF KeysUpTo
  <2>2. k \in Nat \ {0} /\ k - 1 \in Nat /\ k <= n
    BY <1>1
  <2>3. KeyEnd(k - 1) \in Nat /\ b \in Nat /\ b = KeyEnd(k - 1) + size /\ b <= Len(s)
    BY <1>1, <2>2, KeyEnds
  <2>4. a \in Nat /\ a >= 1 /\ size \in Nat /\ size > 0 /\ b - a + 1 = size /\ a <= b
    BY <2>3
  <2> HIDE DEF a, b, size
  <2>5. SubSeq(s, a, b) \in Seq(V) /\ Len(SubSeq(s, a, b)) = size
    BY <2>3, <2>4, Part
  <2>6. QED
    BY <2>1, <2>5 DEF a, b, size
<1>4. QED
  BY <1>2, <1>3

\* A part from the start.
LEMMA Prefix ==
    ASSUME NEW V, NEW s \in Seq(V), NEW d \in Nat, 1 <= d, d <= Len(s)
    PROVE  SubSeq(s, 1, d) \in Seq(V) /\ Len(SubSeq(s, 1, d)) = d
<1>1. SubSeq(s, 1, d) \in Seq(V)
  BY Part
<1>2. Len(SubSeq(s, 1, d)) = d
  BY Part
<1>3. QED
  BY <1>1, <1>2

\* Two pairs one after the other.
LEMMA Join == ASSUME NEW p, NEW q, NEW u, NEW v PROVE <<p, q>> \o <<u, v>> = <<p, q, u, v>>
<1> DEFINE V == {p, q, u, v}
           x == <<p, q>>
           y == <<u, v>>
           z == <<p, q, u, v>>
<1>1. x \in Seq(V) /\ Len(x) = 2 /\ x[1] = p /\ x[2] = q /\ y \in Seq(V) /\ Len(y) = 2 /\ y[1] = u /\ y[2] = v
  OBVIOUS
<1>2. z \in Seq(V) /\ Len(z) = 4 /\ z[1] = p /\ z[2] = q /\ z[3] = u /\ z[4] = v
  OBVIOUS
<1> HIDE DEF V, x, y, z
<1>3. x \o y \in Seq(V) /\ Len(x \o y) = 4 /\ \A k \in 1 .. 4 : (x \o y)[k] = IF k <= 2 THEN x[k] ELSE y[k - 2]
  <2>1. /\ x \o y \in Seq(V) /\ Len(x \o y) = Len(x) + Len(y)
        /\ \A k \in 1 .. Len(x) + Len(y) : (x \o y)[k] = IF k <= Len(x) THEN x[k] ELSE y[k - Len(x)]
    BY <1>1, ConcatProperties
  <2>2. Len(x) + Len(y) = 4
    BY <1>1
  <2>3. QED
    BY <1>1, <2>1, <2>2
<1>4. \A k \in 1 .. 4 : (x \o y)[k] = z[k]
  <2>1. (x \o y)[1] = x[1] /\ (x \o y)[2] = x[2]
    BY <1>3
  <2>2. (x \o y)[3] = y[1] /\ (x \o y)[4] = y[2]
    BY <1>3
  <2>3. \A k \in 1 .. 4 : k = 1 \/ k = 2 \/ k = 3 \/ k = 4
    OBVIOUS
  <2>4. (x \o y)[1] = z[1] /\ (x \o y)[2] = z[2] /\ (x \o y)[3] = z[3] /\ (x \o y)[4] = z[4]
    BY <1>1, <1>2, <2>1, <2>2
  <2>5. QED
    BY <2>3, <2>4
<1>5. x \o y = z
  BY <1>2, <1>3, <1>4, SeqEqual
<1>6. QED
  BY <1>5 DEF x, y, z

\* Both halves of a session, each split in turn.
LEMMA SplitParts ==
    ASSUME NEW V, NEW s \in Seq(V), NEW a \in Nat, NEW d \in Nat, NEW n \in Nat,
           1 <= a, a < d, n = d + d, Len(s) = n,
           \A bytes : Parts(bytes, AesKey) = <<SubSeq(bytes, 1, a), SubSeq(bytes, a + 1, Len(bytes))>>,
           \A bytes : Parts(bytes, Direction) = <<SubSeq(bytes, 1, d), SubSeq(bytes, d + 1, Len(bytes))>>
    PROVE  Split(s) = <<SubSeq(s, 1, a), SubSeq(s, a + 1, d), SubSeq(s, d + 1, d + a), SubSeq(s, (d + a) + 1, n)>>
<1> DEFINE x == SubSeq(s, 1, d)
           y == SubSeq(s, d + 1, n)
<1>1. x \in Seq(V) /\ Len(x) = d /\ y \in Seq(V) /\ Len(y) = d
  <2>1. /\ d + 1 \in Nat /\ 1 >= 1 /\ d + 1 >= 1 /\ 1 <= d /\ d <= Len(s) /\ n <= Len(s) /\ d + 1 <= n
        /\ (d - 1) + 1 = d /\ (n - (d + 1)) + 1 = d
    OBVIOUS
  <2>2. x \in Seq(V) /\ Len(x) = d
    BY <2>1, Prefix
  <2>3. y \in Seq(V) /\ Len(y) = d
    BY <2>1, Part
  <2>4. QED
    BY <2>2, <2>3
<1>2. Parts(s, Direction) = <<x, y>>
  OBVIOUS
<1>3. /\ SubSeq(x, 1, a) = SubSeq(s, 1, a) /\ SubSeq(x, a + 1, d) = SubSeq(s, a + 1, d)
      /\ SubSeq(y, 1, a) = SubSeq(s, d + 1, d + a) /\ SubSeq(y, a + 1, d) = SubSeq(s, (d + a) + 1, n)
  <2>1. SubSeq(x, 1, a) = SubSeq(s, 1, a) /\ SubSeq(x, a + 1, d) = SubSeq(s, a + 1, d)
    <3>1. /\ 1 \in Nat /\ 1 >= 1 /\ d <= Len(s) /\ 1 <= a /\ a <= (d - 1) + 1 /\ (1 + 1) - 1 = 1 /\ (1 + a) - 1 = a
          /\ a + 1 \in Nat /\ a + 1 >= 1 /\ a + 1 <= d /\ d <= (d - 1) + 1 /\ (1 + (a + 1)) - 1 = a + 1 /\ (1 + d) - 1 = d
      OBVIOUS
    <3>2. SubSeq(x, 1, a) = SubSeq(s, 1, a)
      BY <3>1, PartOfPart
    <3>3. SubSeq(x, a + 1, d) = SubSeq(s, a + 1, d)
      BY <3>1, PartOfPart
    <3>4. QED
      BY <3>2, <3>3
  <2>2. SubSeq(y, 1, a) = SubSeq(s, d + 1, d + a)
    <3>1. d + 1 \in Nat /\ d + 1 >= 1 /\ n <= Len(s) /\ 1 <= a /\ a <= (n - (d + 1)) + 1 /\ (d + 1) + 1 = (d + 1) + 1
          /\ ((d + 1) + 1) - 1 = d + 1 /\ ((d + 1) + a) - 1 = d + a
      OBVIOUS
    <3>2. QED
      BY <3>1, PartOfPart
  <2>3. SubSeq(y, a + 1, d) = SubSeq(s, (d + a) + 1, n)
    <3>1. d + 1 \in Nat /\ d + 1 >= 1 /\ n <= Len(s) /\ a + 1 \in Nat /\ a + 1 >= 1 /\ a + 1 <= d /\ d <= (n - (d + 1)) + 1
          /\ ((d + 1) + (a + 1)) - 1 = (d + a) + 1 /\ ((d + 1) + d) - 1 = n
      OBVIOUS
    <3>2. QED
      BY <3>1, PartOfPart
  <2> HIDE DEF x, y
  <2>4. QED
    BY <2>1, <2>2, <2>3
<1> HIDE DEF x, y
<1>4. Parts(x, AesKey) = <<SubSeq(x, 1, a), SubSeq(x, a + 1, d)>>
  BY <1>1
<1>5. Parts(y, AesKey) = <<SubSeq(y, 1, a), SubSeq(y, a + 1, d)>>
  BY <1>1
<1>6. Split(s) = Parts(x, AesKey) \o Parts(y, AesKey)
  <2>1. Parts(s, Direction)[1] = x /\ Parts(s, Direction)[2] = y
    BY <1>2
  <2>2. Split(s) = Parts(Parts(s, Direction)[1], AesKey) \o Parts(Parts(s, Direction)[2], AesKey)
    BY DEF Split
  <2>3. QED
    BY <2>1, <2>2
<1>7. <<SubSeq(x, 1, a), SubSeq(x, a + 1, d)>> \o <<SubSeq(y, 1, a), SubSeq(y, a + 1, d)>>
        = <<SubSeq(x, 1, a), SubSeq(x, a + 1, d), SubSeq(y, 1, a), SubSeq(y, a + 1, d)>>
  BY Join
<1>8. QED
  BY <1>3, <1>4, <1>5, <1>6, <1>7

\* session_keys: a session is split into four keys.
LEMMA SplitIsKeys ==
    ASSUME NEW V, NEW s \in Seq(V), Len(s) = 56
    PROVE  Split(s) = KeysUpTo(s, 4)
<1> DEFINE a == AesKey.USIZE
           d == Direction.USIZE
           n == SessionKeys.USIZE
           q == <<SubSeq(s, 1, a), SubSeq(s, a + 1, d), SubSeq(s, d + 1, d + a), SubSeq(s, (d + a) + 1, n)>>
<1>1. a \in Nat /\ d \in Nat /\ n \in Nat /\ 1 <= a /\ a < d /\ n = d + d /\ Len(s) = n
  BY KeySizes
<1>2. KeyEnd(0) = 0 /\ KeyEnd(1) = a /\ KeyEnd(2) = d /\ KeyEnd(3) = d + a /\ KeyEnd(4) = n
  BY KeySizes DEF KeyEnd
<1>3. /\ \A bytes : Parts(bytes, AesKey) = <<SubSeq(bytes, 1, a), SubSeq(bytes, a + 1, Len(bytes))>>
      /\ \A bytes : Parts(bytes, Direction) = <<SubSeq(bytes, 1, d), SubSeq(bytes, d + 1, Len(bytes))>>
  BY DEF Parts
<1> HIDE DEF a, d, n
<1>4. Split(s) = q
  BY <1>1, <1>3, SplitParts
<1>5. ASSUME NEW k \in 1 .. 4 PROVE SubSeq(s, KeyEnd(k - 1) + 1, KeyEnd(k)) = q[k]
  <2>1. CASE k = 1
    <3>1. KeyEnd(k - 1) + 1 = 1 /\ KeyEnd(k) = a
      BY <1>2, <2>1
    <3>2. QED
      BY <2>1, <3>1
  <2>2. CASE k = 2
    <3>1. KeyEnd(k - 1) + 1 = a + 1 /\ KeyEnd(k) = d
      BY <1>2, <2>2
    <3>2. QED
      BY <2>2, <3>1
  <2>3. CASE k = 3
    <3>1. KeyEnd(k - 1) + 1 = d + 1 /\ KeyEnd(k) = d + a
      BY <1>2, <2>3
    <3>2. QED
      BY <2>3, <3>1
  <2>4. CASE k = 4
    <3>1. KeyEnd(k - 1) + 1 = (d + a) + 1 /\ KeyEnd(k) = n
      BY <1>2, <2>4
    <3>2. QED
      BY <2>4, <3>1
  <2>5. k = 1 \/ k = 2 \/ k = 3 \/ k = 4
    OBVIOUS
  <2>6. QED
    BY <2>1, <2>2, <2>3, <2>4, <2>5
<1>6. q = [k \in 1 .. 4 |-> q[k]]
  OBVIOUS
<1> HIDE DEF q
<1>7. QED
  BY <1>4, <1>5, <1>6 DEF KeysUpTo

\* The keys are sequences of bytes.
LEMMA KeysType ==
    ASSUME NEW V, NEW s \in Seq(V), NEW n \in Nat, n > 0, KeyEnd(n) = Len(s)
    PROVE  /\ KeysUpTo(s, n) \in Seq(Seq(V)) /\ Len(KeysUpTo(s, n)) = n /\ DOMAIN KeysUpTo(s, n) = 1 .. n
           /\ \A k \in 1 .. n : KeysUpTo(s, n)[k] = SubSeq(s, KeyEnd(k - 1) + 1, KeyEnd(k))
<1> DEFINE all == KeysUpTo(s, n)
<1>1. /\ Len(all) = n /\ DOMAIN all = 1 .. n
      /\ \A k \in 1 .. n : all[k] = SubSeq(s, KeyEnd(k - 1) + 1, KeyEnd(k)) /\ all[k] \in Seq(V)
  BY KeyLengths
<1>2. all = [k \in 1 .. n |-> all[k]]
  BY DEF KeysUpTo
<1> HIDE DEF all
<1>3. \A W : (\A k \in 1 .. n : all[k] \in W) => all \in Seq(W)
  BY <1>1, <1>2
<1>4. all \in Seq(Seq(V))
  BY <1>1, <1>3
<1>5. QED
  BY <1>1, <1>4 DEF all

\* The keys of a session end where those of the first do, shifted.
LEMMA EndsInSession ==
    ASSUME NEW c \in Nat, c % 4 = 0, NEW k \in 0 .. 4
    PROVE  /\ KeyEnd(c + k) = KeyEnd(c) + KeyEnd(k)
           /\ KeyEnd(k) \in Nat /\ KeyEnd(k) <= 56 /\ KeyEnd(4) = 56
           /\ k > 0 => KeyEnd(k - 1) < KeyEnd(k)
BY DEF KeyEnd

\* The keys of the session that begins after key c.
LEMMA KeysOfSession ==
    ASSUME NEW V, NEW s \in Seq(V), NEW m \in Nat, KeyEnd(m) = Len(s),
           NEW c \in Nat, c % 4 = 0, c + 4 <= m
    PROVE  Split(SubSeq(s, KeyEnd(c) + 1, KeyEnd(c + 4))) = SubSeq(KeysUpTo(s, m), c + 1, c + 4)
<1> DEFINE a == KeyEnd(c) + 1
           b == KeyEnd(c + 4)
           t == SubSeq(s, a, b)
           all == KeysUpTo(s, m)
<1>1. ASSUME NEW k \in 0 .. 4
      PROVE  /\ KeyEnd(c + k) = KeyEnd(c) + KeyEnd(k)
             /\ KeyEnd(k) \in Nat /\ KeyEnd(k) <= 56 /\ KeyEnd(4) = 56
             /\ k > 0 => KeyEnd(k - 1) < KeyEnd(k)
  BY EndsInSession
<1>2. /\ a \in Nat /\ b \in Nat /\ a >= 1 /\ b <= Len(s) /\ (b - a) + 1 = 56 /\ a <= b
      /\ c + 4 \in Nat /\ m > 0
  <2>1. KeyEnd(c) \in Nat /\ KeyEnd(c + 4) <= KeyEnd(m) /\ c + 4 \in Nat /\ m > 0
    <3>1. c + 4 \in Nat /\ m > 0
      OBVIOUS
    <3>2. KeyEnd(c + 4) <= KeyEnd(m)
      BY <3>1, KeyEnds
    <3>3. QED
      BY <3>1, <3>2, KeyEnds
  <2>2. KeyEnd(c + 4) = KeyEnd(c) + 56
    BY <1>1
  <2>3. QED
    BY <2>1, <2>2
<1>3. /\ all \in Seq(Seq(V)) /\ Len(all) = m
      /\ \A k \in 1 .. m : all[k] = SubSeq(s, KeyEnd(k - 1) + 1, KeyEnd(k))
  BY <1>2, KeysType
<1> HIDE DEF a, b, all
<1>4. t \in Seq(V) /\ Len(t) = 56
  <2>1. SubSeq(s, a, b) \in Seq(V)
    BY <1>2, Part
  <2>2. Len(SubSeq(s, a, b)) = (b - a) + 1
    BY <1>2, Part
  <2>3. QED
    BY <1>2, <2>1, <2>2
<1> HIDE DEF t
<1>5. Split(t) = KeysUpTo(t, 4)
  BY <1>4, SplitIsKeys
<1>6. ASSUME NEW k \in 1 .. 4 PROVE KeysUpTo(t, 4)[k] = all[c + k]
  <2> DEFINE p == KeyEnd(k - 1)
             q == KeyEnd(k)
  <2>1. KeysUpTo(t, 4)[k] = SubSeq(t, p + 1, q)
    BY DEF KeysUpTo
  <2>2. k \in 0 .. 4 /\ k - 1 \in 0 .. 4 /\ k > 0 /\ (c + k) - 1 = c + (k - 1)
    OBVIOUS
  <2>3. p \in Nat /\ q \in Nat /\ q <= 56 /\ p < q
    BY <1>1, <2>2
  <2>4. KeyEnd(c + k) = (a + q) - 1 /\ KeyEnd((c + k) - 1) = (a + p) - 1
    <3>1. KeyEnd(c + k) = KeyEnd(c) + q /\ KeyEnd((c + k) - 1) = KeyEnd(c) + p /\ KeyEnd(c) \in Nat
      BY <1>1, <2>2, KeyEnds
    <3> HIDE DEF p, q
    <3>2. QED
      BY <2>3, <3>1 DEF a
  <2>5. all[c + k] = SubSeq(s, KeyEnd((c + k) - 1) + 1, KeyEnd(c + k))
    <3>1. c + k \in 1 .. m
      OBVIOUS
    <3>2. QED
      BY <1>3, <3>1
  <2> HIDE DEF p, q
  <2>6. ((a + p) - 1) + 1 = (a + (p + 1)) - 1
    BY <1>2, <2>3
  <2>7. SubSeq(t, p + 1, q) = SubSeq(s, (a + (p + 1)) - 1, (a + q) - 1)
    <3>1. /\ p + 1 \in Nat /\ p + 1 >= 1 /\ p + 1 <= q /\ q <= (b - a) + 1
          /\ (a + (p + 1)) - 1 \in Nat /\ (a + q) - 1 \in Nat
      BY <1>2, <2>3
    <3>2. QED
      BY <1>2, <2>3, <3>1, PartOfPart DEF t
  <2>8. QED
    BY <2>1, <2>4, <2>5, <2>6, <2>7
<1>7. SubSeq(all, c + 1, c + 4) = [k \in 1 .. 4 |-> all[c + k]]
  BY <1>3
<1>8. KeysUpTo(t, 4) = [k \in 1 .. 4 |-> all[c + k]]
  <2>1. KeysUpTo(t, 4) = [k \in 1 .. 4 |-> KeysUpTo(t, 4)[k]]
    BY DEF KeysUpTo
  <2>2. QED
    BY <1>6, <2>1
<1>9. QED
  BY <1>5, <1>7, <1>8 DEF a, b, t, all

\* epoch_keys: the keys of all sessions are cut from the output in a row.
LEMMA SessionsAreKeys ==
    ASSUME NEW V, NEW s \in Seq(V), NEW n \in Nat, n > 0, Len(s) = 56 * n
    PROVE  Seqs!FlattenSeq([e \in 1 .. n |-> Split(SubSeq(s, (e - 1) * 56 + 1, e * 56))]) = KeysUpTo(s, 4 * n)
<1> DEFINE m == 4 * n
           all == KeysUpTo(s, m)
           cut == [e \in 0 .. n |-> 4 * e]
<1>1. m \in Nat /\ m > 0 /\ KeyEnd(m) = Len(s)
  BY KeyEnds
<1>2. /\ all \in Seq(Seq(V)) /\ Len(all) = m
      /\ \A k \in 1 .. m : all[k] = SubSeq(s, KeyEnd(k - 1) + 1, KeyEnd(k))
  <2> HIDE DEF m
  <2>1. QED
    BY <1>1, KeysType
<1>3. cut \in [0 .. n -> Nat] /\ cut[0] = 0 /\ cut[n] = m
  OBVIOUS
<1>4. ASSUME NEW e \in 1 .. n
      PROVE  cut[e - 1] = 4 * (e - 1) /\ cut[e] = 4 * e /\ 4 * (e - 1) <= 4 * e /\ 4 * e <= m
  <2>1. e \in 0 .. n /\ e - 1 \in 0 .. n /\ 4 * (e - 1) <= 4 * e /\ 4 * e <= 4 * n
    OBVIOUS
  <2>2. QED
    BY <2>1
<1>5. ASSUME NEW e \in 1 .. n
      PROVE  Split(SubSeq(s, (e - 1) * 56 + 1, e * 56)) = SubSeq(all, cut[e - 1] + 1, cut[e])
  <2> DEFINE c == 4 * (e - 1)
  <2>1. c \in Nat /\ c % 4 = 0 /\ c + 4 = 4 * e /\ c + 4 <= m
    OBVIOUS
  <2>2. KeyEnd(c) = (e - 1) * 56 /\ KeyEnd(c + 4) = e * 56
    <3>1. e \in Nat /\ e - 1 \in Nat
      OBVIOUS
    <3>2. KeyEnd(4 * (e - 1)) = 56 * (e - 1) /\ KeyEnd(4 * e) = 56 * e
      BY <3>1, KeyEnds
    <3>3. QED
      BY <2>1, <3>2
  <2>3. cut[e - 1] = c /\ cut[e] = c + 4
    BY <1>4, <2>1
  <2> HIDE DEF c, m, cut
  <2>4. Split(SubSeq(s, KeyEnd(c) + 1, KeyEnd(c + 4))) = SubSeq(all, c + 1, c + 4)
    BY <1>1, <2>1, KeysOfSession
  <2> HIDE DEF all
  <2>5. QED
    BY <2>2, <2>3, <2>4
<1> HIDE DEF all, cut, m
<1>6. \A j \in 1 .. n : cut[j - 1] <= cut[j] /\ cut[j] <= Len(all)
  BY <1>2, <1>4
<1> DEFINE W == Seq(V)
<1>7. all \in Seq(W) /\ cut[n] = Len(all)
  BY <1>2, <1>3
<1> HIDE DEF W
<1>8. Seqs!FlattenSeq([e \in 1 .. n |-> SubSeq(all, cut[e - 1] + 1, cut[e])]) = all
  BY <1>3, <1>6, <1>7, Pieces
<1>9. [e \in 1 .. n |-> Split(SubSeq(s, (e - 1) * 56 + 1, e * 56))] = [e \in 1 .. n |-> SubSeq(all, cut[e - 1] + 1, cut[e])]
  BY <1>5
<1>10. QED
  BY <1>8, <1>9 DEF all, m

\* No byte of the output occurs twice.
LEMMA DoneIsInjective == ASSUME HkdfInv, pc = "ok" PROVE IsInjective(okm)
<1>1. SUFFICES ASSUME NEW a \in DOMAIN okm, NEW b \in DOMAIN okm, okm[a] = okm[b] PROVE a = b
  BY DEF IsInjective
<1>2. output \in Nat /\ output > 0 /\ a \in Nat /\ a >= 1 /\ b \in Nat /\ b >= 1 /\ Rfc(a) = Rfc(b)
  BY <1>1, DoneIsRfc
<1>3. /\ ((a - 1) \div output) + 1 = ((b - 1) \div output) + 1
      /\ ((a - 1) % output) + 1 = ((b - 1) % output) + 1
  BY <1>2 DEF Rfc, T
<1>4. \A x \in Nat : x = output * (x \div output) + (x % output) /\ x \div output \in Nat /\ x % output \in Nat
  BY <1>2
<1>5. a - 1 \in Nat /\ b - 1 \in Nat
  BY <1>2
<1>6. (a - 1) \div output = (b - 1) \div output /\ (a - 1) % output = (b - 1) % output
  BY <1>3, <1>4, <1>5
<1>7. a - 1 = b - 1
  BY <1>4, <1>5, <1>6
<1>8. QED
  BY <1>2, <1>7

\* session_keys, epoch_keys: the keys have their lengths, make up the output and
\* share no byte, for every digest.
THEOREM KeysPartition == HkdfSpec => []KeysDisjoint
<1>1. HkdfInv => KeysDisjoint
  <2> SUFFICES ASSUME HkdfInv, keys # <<>> PROVE KeysDisjoint
    BY DEF KeysDisjoint
  <2> DEFINE V == {okm[k] : k \in DOMAIN okm}
  <2>1. okm \in Seq(V)
    <3>1. Len(okm) \in Nat /\ DOMAIN okm = 1 .. Len(okm) /\ okm = [k \in DOMAIN okm |-> okm[k]]
      BY DEF HkdfInv, Requested
    <3>2. QED
      BY <3>1
  <2> HIDE DEF V
  <2>2. pc = "ok" /\ IsInjective(okm)
    BY DoneIsInjective DEF HkdfInv, Cut
  <2>3. PICK n \in Nat : n > 0 /\ KeyEnd(n) = Len(okm) /\ keys = KeysUpTo(okm, n)
    <3>1. CASE Len(okm) = SessionKeys.USIZE /\ keys = Split(okm)
      <4>1. Len(okm) = 56
        BY <3>1, KeySizes
      <4>2. keys = KeysUpTo(okm, 4)
        BY <2>1, <3>1, <4>1, SplitIsKeys
      <4>3. KeyEnd(4) = 56 /\ 4 \in Nat /\ 4 > 0
        BY DEF KeyEnd
      <4>4. QED
        BY <4>1, <4>2, <4>3
    <3>2. CASE /\ Len(okm) = EpochKeys.USIZE
               /\ keys = Seqs!FlattenSeq([e \in 1 .. 4 |->
                           Split(SubSeq(okm, (e - 1) * SessionKeys.USIZE + 1, e * SessionKeys.USIZE))])
      <4>1. Len(okm) = 224 /\ SessionKeys.USIZE = 56
        BY <3>2, KeySizes
      <4>2. keys = KeysUpTo(okm, 16)
        <5> DEFINE n == 4
        <5>1. n \in Nat /\ n > 0 /\ Len(okm) = 56 * n /\ 4 * n = 16
          BY <4>1
        <5>2. keys = Seqs!FlattenSeq([e \in 1 .. n |-> Split(SubSeq(okm, (e - 1) * 56 + 1, e * 56))])
          BY <3>2, <4>1
        <5> HIDE DEF n
        <5>3. keys = KeysUpTo(okm, 4 * n)
          BY <2>1, <5>1, <5>2, SessionsAreKeys
        <5>4. QED
          BY <5>1, <5>3
      <4>3. KeyEnd(16) = 224 /\ 16 \in Nat /\ 16 > 0
        BY DEF KeyEnd
      <4>4. QED
        BY <4>1, <4>2, <4>3
    <3>3. QED
      BY <3>1, <3>2 DEF HkdfInv, Cut
  <2>4. Seqs!FlattenSeq(keys) = okm
    BY <2>1, <2>3, KeysJoin
  <2>5. \A k \in DOMAIN keys : Len(keys[k]) = IF k % 2 = 1 THEN 16 ELSE 12
    <3>1. /\ DOMAIN KeysUpTo(okm, n) = 1 .. n
          /\ \A k \in 1 .. n : Len(KeysUpTo(okm, n)[k]) = IF k % 2 = 1 THEN 16 ELSE 12
      BY <2>1, <2>3, KeyLengths
    <3>2. QED
      BY <2>3, <3>1
  <2>6. QED
    BY <2>2, <2>4, <2>5, KeySizes DEF KeysDisjoint
<1>2. QED
  BY <1>1, HkdfInvariance, PTL

=============================================================================
