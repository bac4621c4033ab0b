---------------------------- MODULE Moves_proofs ----------------------------
(***************************************************************************)
(* The conversions that take arrays by value never lose or share an        *)
(* element, whatever panics: for every set of sizes and of variables, and  *)
(* every order of calls.                                                   *)
(***************************************************************************)
EXTENDS Moves, SequenceTheorems, TLAPS

-----------------------------------------------------------------------------
(***************************************************************************)
(* Bags: which place owns which elements.                                  *)
(***************************************************************************)

IsBags(B) == \A p \in Places : B[p] \in Seq(Nat)

\* The place h of C owns what h and g own in B; nothing else has changed.
Merges(B, C, h, g) ==
    /\ h \in Places /\ g \in Places /\ h # g
    /\ C[h] = B[h] \o B[g] /\ C[g] = <<>>
    /\ \A p \in Places : p # h /\ p # g => C[p] = B[p]

SameBags(B, C) == \A p \in Places : C[p] = B[p]

\* They own the same elements, and if those of one are owned once, so are the
\* other's.
Equivalent(B, C) ==
    /\ OneOwner(B) <=> OneOwner(C)
    /\ \A e : Owned(B, e) <=> Owned(C, e)

\* A position of a bag is a number.
LEMMA Positions ==
    ASSUME NEW B, IsBags(B), NEW p \in Places
    PROVE  /\ Len(B[p]) \in Nat /\ DOMAIN B[p] = 1 .. Len(B[p])
BY LenProperties DEF IsBags

\* Positions of B and of the merged C correspond to each other.
Placed(B, C, h, g) ==
    /\ DOMAIN C[h] = 1 .. Len(B[h]) + Len(B[g]) /\ DOMAIN C[g] = {}
    /\ \A k \in 1 .. Len(B[h]) : C[h][k] = B[h][k]
    /\ \A k \in 1 .. Len(B[g]) : C[h][Len(B[h]) + k] = B[g][k]
    /\ \A k \in DOMAIN C[h] : k \in 1 .. Len(B[h]) \/ k - Len(B[h]) \in 1 .. Len(B[g])

\* So they do.
LEMMA MergePositions ==
    ASSUME NEW B, IsBags(B), NEW C, NEW h, NEW g, Merges(B, C, h, g)
    PROVE  Placed(B, C, h, g)
<1> DEFINE s == B[h]
           t == B[g]
<1>1. s \in Seq(Nat) /\ t \in Seq(Nat) /\ C[h] = s \o t /\ C[g] = <<>>
  BY DEF IsBags, Merges
<1> HIDE DEF s, t
<1>2. Len(s) \in Nat /\ Len(t) \in Nat
  BY <1>1, LenProperties
<1>3. /\ s \o t \in Seq(Nat) /\ Len(s \o t) = Len(s) + Len(t)
      /\ \A i \in 1 .. Len(s) + Len(t) : (s \o t)[i] = IF i <= Len(s) THEN s[i] ELSE t[i - Len(s)]
  BY <1>1, ConcatProperties
<1>4. DOMAIN (s \o t) = 1 .. Len(s) + Len(t)
  BY <1>3, LenProperties
<1>5. DOMAIN C[g] = {}
  BY <1>1
<1>6. \A k \in 1 .. Len(s) : C[h][k] = s[k]
  BY <1>1, <1>2, <1>3
<1>7. \A k \in 1 .. Len(t) : C[h][Len(s) + k] = t[k]
  BY <1>1, <1>2, <1>3
<1>8. \A k \in 1 .. Len(s) + Len(t) : k \in 1 .. Len(s) \/ k - Len(s) \in 1 .. Len(t)
  BY <1>2
<1> QED BY <1>1, <1>4, <1>5, <1>6, <1>7, <1>8 DEF s, t, Placed

\* What merges is owned as before.
LEMMA MergeOwned ==
    ASSUME NEW B, IsBags(B), NEW C, NEW h, NEW g, Merges(B, C, h, g), NEW e
    PROVE  Owned(B, e) <=> Owned(C, e)
<1> DEFINE m == Len(B[h])
           n == Len(B[g])
<1>1. /\ DOMAIN C[h] = 1 .. m + n /\ DOMAIN C[g] = {}
      /\ \A k \in 1 .. m : C[h][k] = B[h][k]
      /\ \A k \in 1 .. n : C[h][m + k] = B[g][k]
      /\ \A k \in DOMAIN C[h] : k \in 1 .. m \/ k - m \in 1 .. n
  BY MergePositions DEF Placed
<1>2. /\ h \in Places /\ g \in Places
      /\ \A p \in Places : p # h /\ p # g => C[p] = B[p]
  BY DEF Merges
<1>3. m \in Nat /\ n \in Nat /\ DOMAIN B[h] = 1 .. m /\ DOMAIN B[g] = 1 .. n
  BY <1>2, Positions
<1> HIDE DEF m, n
<1>4. ASSUME NEW p \in Places, NEW k \in DOMAIN B[p], B[p][k] = e PROVE Owned(C, e)
  <2>1. CASE p = h
    <3>1. k \in DOMAIN C[h] /\ C[h][k] = e
      BY <1>1, <1>3, <1>4, <2>1
    <3> QED BY <3>1, <1>2 DEF Owned
  <2>2. CASE p = g
    <3>1. m + k \in DOMAIN C[h] /\ C[h][m + k] = e
      BY <1>1, <1>3, <1>4, <2>2
    <3> QED BY <3>1, <1>2 DEF Owned
  <2>3. CASE p # h /\ p # g
    BY <1>2, <1>4, <2>3 DEF Owned
  <2> QED BY <2>1, <2>2, <2>3
<1>5. ASSUME NEW p \in Places, NEW k \in DOMAIN C[p], C[p][k] = e PROVE Owned(B, e)
  <2>1. CASE p = h /\ k \in 1 .. m
    BY <1>1, <1>2, <1>3, <1>5, <2>1 DEF Owned
  <2>2. CASE p = h /\ k - m \in 1 .. n
    <3>1. m + (k - m) = k
      BY <1>1, <1>3, <2>2
    <3>2. k - m \in DOMAIN B[g] /\ B[g][k - m] = e
      BY <1>1, <1>3, <1>5, <2>2, <3>1
    <3> QED BY <3>2, <1>2 DEF Owned
  <2>3. CASE p # h /\ p # g
    BY <1>2, <1>5, <2>3 DEF Owned
  <2> QED BY <1>1, <1>5, <2>1, <2>2, <2>3
<1> QED BY <1>4, <1>5 DEF Owned

\* If elements have one owner before a merge, they have one after.
LEMMA MergeKeepsOwners ==
    ASSUME NEW B, IsBags(B), NEW C, NEW h, NEW g, Merges(B, C, h, g), OneOwner(B)
    PROVE  OneOwner(C)
<1> DEFINE m == Len(B[h])
           n == Len(B[g])
           place(p, k) == IF p = h /\ k \notin 1 .. m THEN g ELSE p
           index(p, k) == IF p = h /\ k \notin 1 .. m THEN k - m ELSE k
<1>1. /\ DOMAIN C[h] = 1 .. m + n /\ DOMAIN C[g] = {}
      /\ \A k \in 1 .. m : C[h][k] = B[h][k]
      /\ \A k \in 1 .. n : C[h][m + k] = B[g][k]
      /\ \A k \in DOMAIN C[h] : k \in 1 .. m \/ k - m \in 1 .. n
  BY MergePositions DEF Placed
<1>2. /\ h \in Places /\ g \in Places /\ h # g
      /\ \A p \in Places : p # h /\ p # g => C[p] = B[p]
  BY DEF Merges
<1>3. m \in Nat /\ n \in Nat /\ DOMAIN B[h] = 1 .. m /\ DOMAIN B[g] = 1 .. n
  BY <1>2, Positions
<1> HIDE DEF m, n
<1>4. ASSUME NEW p \in Places, NEW k \in DOMAIN C[p]
      PROVE  /\ place(p, k) \in Places /\ index(p, k) \in DOMAIN B[place(p, k)]
             /\ B[place(p, k)][index(p, k)] = C[p][k]
  <2>1. CASE p = h /\ k \in 1 .. m
    BY <1>1, <1>2, <1>3, <2>1
  <2>2. CASE p = h /\ k \notin 1 .. m
    <3>1. k \in 1 .. m + n /\ k - m \in 1 .. n /\ m + (k - m) = k
      BY <1>1, <1>3, <2>2
    <3>2. B[g][k - m] = C[h][k]
      BY <1>1, <3>1
    <3> QED BY <1>2, <1>3, <2>2, <3>1, <3>2
  <2>3. CASE p # h
    BY <1>1, <1>2, <2>3
  <2> QED BY <2>1, <2>2, <2>3
<1>5. ASSUME NEW p \in Places, NEW q \in Places, NEW j \in DOMAIN C[p], NEW k \in DOMAIN C[q],
             place(p, j) = place(q, k), index(p, j) = index(q, k)
      PROVE  p = q /\ j = k
  <2>1. p # g /\ q # g
    BY <1>1
  <2>2. CASE p = h /\ q = h
    <3>1. j \in 1 .. m + n /\ k \in 1 .. m + n
      BY <1>1, <2>2
    <3> QED BY <1>2, <1>3, <1>5, <2>2, <3>1
  <2>3. CASE p # h \/ q # h
    BY <1>2, <1>5, <2>1, <2>3
  <2> QED BY <2>2, <2>3
<1> HIDE DEF place, index
<1>6. ASSUME NEW p \in Places, NEW q \in Places, NEW j \in DOMAIN C[p], NEW k \in DOMAIN C[q],
             C[p][j] = C[q][k]
      PROVE  p = q /\ j = k
  <2>1. place(p, j) = place(q, k) /\ index(p, j) = index(q, k)
    BY <1>4, <1>6 DEF OneOwner
  <2> QED BY <2>1, <1>5
<1> QED BY <1>6 DEF OneOwner

\* And the other way round.
LEMMA SplitKeepsOwners ==
    ASSUME NEW B, IsBags(B), NEW C, NEW h, NEW g, Merges(B, C, h, g), OneOwner(C)
    PROVE  OneOwner(B)
<1> DEFINE m == Len(B[h])
           n == Len(B[g])
           place(p) == IF p = g THEN h ELSE p
           index(p, k) == IF p = g THEN m + k ELSE k
<1>0. Placed(B, C, h, g)
  BY MergePositions
<1>1. /\ DOMAIN C[h] = 1 .. m + n
      /\ \A k \in 1 .. m : C[h][k] = B[h][k]
      /\ \A k \in 1 .. n : C[h][m + k] = B[g][k]
  BY <1>0 DEF Placed
<1>2. /\ h \in Places /\ g \in Places /\ h # g
      /\ \A p \in Places : p # h /\ p # g => C[p] = B[p]
  BY DEF Merges
<1>3. m \in Nat /\ n \in Nat /\ DOMAIN B[h] = 1 .. m /\ DOMAIN B[g] = 1 .. n
  BY <1>2, Positions
<1> HIDE DEF m, n
<1>4. ASSUME NEW p \in Places, NEW k \in DOMAIN B[p]
      PROVE  /\ place(p) \in Places /\ index(p, k) \in DOMAIN C[place(p)]
             /\ C[place(p)][index(p, k)] = B[p][k]
  <2>1. CASE p = g
    <3>1. k \in 1 .. n /\ m + k \in 1 .. m + n
      BY <1>3, <2>1
    <3>2. C[h][m + k] = B[g][k]
      BY <1>1, <3>1
    <3> QED BY <1>1, <1>2, <2>1, <3>1, <3>2
  <2>2. CASE p = h
    <3>1. k \in 1 .. m /\ k \in 1 .. m + n
      BY <1>3, <2>2
    <3> QED BY <1>1, <1>2, <2>2, <3>1
  <2>3. CASE p # g /\ p # h
    BY <1>2, <2>3
  <2> QED BY <2>1, <2>2, <2>3
<1>5. ASSUME NEW p \in Places, NEW q \in Places, NEW j \in DOMAIN B[p], NEW k \in DOMAIN B[q],
             place(p) = place(q), index(p, j) = index(q, k)
      PROVE  p = q /\ j = k
  <2>1. CASE p = g /\ q = g
    <3>1. j \in 1 .. n /\ k \in 1 .. n
      BY <1>3, <2>1
    <3> QED BY <1>3, <1>5, <2>1, <3>1
  <2>2. CASE p = g /\ q = h
    <3>1. j \in 1 .. n /\ k \in 1 .. m
      BY <1>3, <2>2
    <3> QED BY <1>2, <1>3, <1>5, <2>2, <3>1
  <2>3. CASE p = h /\ q = g
    <3>1. j \in 1 .. m /\ k \in 1 .. n
      BY <1>3, <2>3
    <3> QED BY <1>2, <1>3, <1>5, <2>3, <3>1
  <2>4. CASE (p # g /\ q # g) \/ (p = g /\ q # g /\ q # h) \/ (q = g /\ p # g /\ p # h)
    BY <1>2, <1>5, <2>4
  <2> QED BY <2>1, <2>2, <2>3, <2>4
<1> HIDE DEF place, index
<1>6. ASSUME NEW p \in Places, NEW q \in Places, NEW j \in DOMAIN B[p], NEW k \in DOMAIN B[q],
             B[p][j] = B[q][k]
      PROVE  p = q /\ j = k
  <2>1. place(p) = place(q) /\ index(p, j) = index(q, k)
    BY <1>4, <1>6 DEF OneOwner
  <2> QED BY <2>1, <1>5
<1> QED BY <1>6 DEF OneOwner

\* Merging two places, or splitting one, makes no difference to ownership.
LEMMA MergeEquivalent ==
    ASSUME NEW B, IsBags(B), NEW C, NEW h, NEW g, Merges(B, C, h, g)
    PROVE  Equivalent(B, C)
BY MergeOwned, MergeKeepsOwners, SplitKeepsOwners DEF Equivalent

\* Dropping the first of the elements of r takes it, and only it, away.
LEMMA DropFirst ==
    ASSUME NEW B, IsBags(B), NEW C, NEW r \in Places, B[r] # <<>>, C[r] = Tail(B[r]),
           \A p \in Places : p # r => C[p] = B[p],
           OneOwner(B)
    PROVE  /\ OneOwner(C)
           /\ Owned(B, Head(B[r])) /\ ~Owned(C, Head(B[r]))
           /\ \A e : e # Head(B[r]) => (Owned(C, e) <=> Owned(B, e))
<1> DEFINE s == B[r]
           n == Len(s)
           index(p, k) == IF p = r THEN k + 1 ELSE k
<1>1. /\ s \in Seq(Nat) /\ s # <<>>
  BY DEF IsBags
<1> HIDE DEF s
<1>2. /\ Len(s) \in Nat /\ Len(s) # 0 /\ DOMAIN s = 1 .. Len(s)
      /\ Tail(s) \in Seq(Nat) /\ Len(Tail(s)) = Len(s) - 1
      /\ \A i \in 1 .. Len(Tail(s)) : Tail(s)[i] = s[i + 1]
  BY <1>1, LenProperties, HeadTailProperties, EmptySeq
<1>3. DOMAIN Tail(s) = 1 .. Len(Tail(s))
  BY <1>2, LenProperties
<1>4. Head(s) = s[1]
  BY <1>1
<1>5. n \in Nat /\ n >= 1 /\ DOMAIN s = 1 .. n /\ DOMAIN C[r] = 1 .. n - 1
      /\ \A k \in 1 .. n - 1 : C[r][k] = s[k + 1]
  BY <1>2, <1>3 DEF s
<1> HIDE DEF n
<1>6. ASSUME NEW p \in Places, NEW k \in DOMAIN C[p]
      PROVE  /\ index(p, k) \in DOMAIN B[p] /\ B[p][index(p, k)] = C[p][k]
             /\ p = r => index(p, k) # 1
  <2>1. CASE p = r
    <3>0. k \in 1 .. n - 1
      BY <1>5, <2>1
    <3>1. k \in 1 .. n - 1 /\ k + 1 \in 1 .. n /\ k + 1 # 1
      BY <3>0, <1>5
    <3>2. C[r][k] = B[r][k + 1] /\ k + 1 \in DOMAIN B[r]
      BY <1>5, <3>1 DEF s
    <3> QED BY <2>1, <3>1, <3>2
  <2>2. CASE p # r
    BY <2>2
  <2> QED BY <2>1, <2>2
<1>7. ASSUME NEW p \in Places, NEW q \in Places, NEW j \in DOMAIN C[p], NEW k \in DOMAIN C[q],
             C[p][j] = C[q][k]
      PROVE  p = q /\ j = k
  <2>1. p = q /\ index(p, j) = index(q, k)
    <3> HIDE DEF index
    <3> QED BY <1>6, <1>7 DEF OneOwner
  <2>2. CASE p = r
    <3>1. j \in 1 .. n - 1 /\ k \in 1 .. n - 1
      BY <1>5, <2>1, <2>2
    <3> QED BY <1>5, <2>1, <2>2, <3>1
  <2>3. CASE p # r
    BY <2>1, <2>3
  <2> QED BY <2>1, <2>2, <2>3
<1>8. 1 \in DOMAIN B[r] /\ B[r][1] = Head(B[r])
  BY <1>4, <1>5 DEF s
<1>9. ASSUME Owned(C, Head(B[r])) PROVE FALSE
  <2>0. PICK p \in Places : \E k \in DOMAIN C[p] : C[p][k] = Head(B[r])
    BY <1>9 DEF Owned
  <2>1. PICK k \in DOMAIN C[p] : C[p][k] = Head(B[r])
    BY <2>0
  <2>2. index(p, k) \in DOMAIN B[p] /\ B[p][index(p, k)] = B[r][1] /\ (p = r => index(p, k) # 1)
    BY <1>6, <1>8, <2>1
  <2> HIDE DEF index
  <2> QED BY <1>8, <2>2 DEF OneOwner
<1>10. ASSUME NEW e, e # Head(B[r]), Owned(B, e) PROVE Owned(C, e)
  <2>0. PICK p \in Places : \E k \in DOMAIN B[p] : B[p][k] = e
    BY <1>10 DEF Owned
  <2>1. PICK k \in DOMAIN B[p] : B[p][k] = e
    BY <2>0
  <2>2. CASE p = r
    <3>1. k \in 1 .. n /\ k # 1
      BY <1>5, <1>8, <1>10, <2>1, <2>2 DEF s
    <3>2. k - 1 \in 1 .. n - 1 /\ (k - 1) + 1 = k
      BY <1>5, <3>1
    <3>3. C[r][k - 1] = e /\ k - 1 \in DOMAIN C[r]
      BY <1>5, <2>1, <2>2, <3>2 DEF s
    <3> QED BY <3>3 DEF Owned
  <2>3. CASE p # r
    BY <2>1, <2>3 DEF Owned
  <2> QED BY <2>2, <2>3
<1>11. ASSUME NEW e, Owned(C, e) PROVE Owned(B, e)
  <2>0. PICK p \in Places : \E k \in DOMAIN C[p] : C[p][k] = e
    BY <1>11 DEF Owned
  <2>1. PICK k \in DOMAIN C[p] : C[p][k] = e
    BY <2>0
  <2> HIDE DEF index
  <2> QED BY <1>6, <2>1 DEF Owned
<1>12. OneOwner(C)
  BY <1>7 DEF OneOwner
<1>13. Owned(B, Head(B[r]))
  BY <1>8 DEF Owned
<1> QED BY <1>9, <1>10, <1>11, <1>12, <1>13

-----------------------------------------------------------------------------
(***************************************************************************)
(* The inductive invariant.                                                *)
(***************************************************************************)

TypeOK ==
    /\ arrays \in [Handles -> ArrayType \cup {None}]
    /\ call \in CallType \cup {None}
    /\ whole \in Lengths
    /\ released \in [Elems -> Nat]
    /\ unwinding \in BOOLEAN /\ aborted \in BOOLEAN

IsSized(a) == Len(a.elems) = Span(a, a.size.USIZE)

\* A call has consumed its array, and its prefix is as long as its type says,
\* and the beginning of that array.
CallOK ==
    call # None =>
        /\ arrays[call.h] = None
        /\ call.prefix # None =>
              /\ IsSized(call.prefix)
              /\ \E n \in 0 .. Len(call.all) : call.prefix.elems = SubSeq(call.all, 1, n)

IInv == TypeOK /\ OwnedOnce /\ Sized /\ CallOK

\* The fields of arrays and calls.
LEMMA ArrayFields ==
    ASSUME NEW a \in ArrayType
    PROVE  /\ a # None /\ a.size \in Universe /\ a.of \in Universe \cup {None}
           /\ a.plain \in BOOLEAN /\ a.elems \in Seq(Nat) /\ Len(a.elems) \in Nat
BY NoneAssumption, LenProperties DEF ArrayType

LEMMA CallFields ==
    ASSUME NEW c \in CallType
    PROVE  /\ c # None /\ c.h \in Handles /\ c.all \in Seq(Nat) /\ c.rest \in Seq(Nat)
           /\ c.prefix \in ArrayType \cup {None}
BY NoneAssumption DEF CallType

Builds(a, size, of, plain, elems) ==
    /\ a \in ArrayType /\ a # None
    /\ a.size = size /\ a.of = of /\ a.plain = plain /\ a.elems = elems

LEMMA Constructed ==
    ASSUME NEW size \in Universe, NEW of \in Universe \cup {None}, NEW plain \in BOOLEAN,
           NEW elems \in Seq(Nat)
    PROVE  Builds(ArrayOf(size, of, plain, elems), size, of, plain, elems)
<1> DEFINE a == [size |-> size, of |-> of, plain |-> plain, elems |-> elems]
<1>1. a \in ArrayType /\ a.size = size /\ a.of = of /\ a.plain = plain /\ a.elems = elems
  BY DEF ArrayType
<1>2. a # None
  BY <1>1, NoneAssumption
<1>3. ArrayOf(size, of, plain, elems) = a
  BY DEF ArrayOf
<1> HIDE DEF a
<1> QED BY <1>1, <1>2, <1>3 DEF Builds

\* What each place owns.
AreBags(B, as, c) ==
    /\ \A h \in Handles : B[h] = IF as[h] = None THEN <<>> ELSE as[h].elems
    /\ B["rest"] = IF c = None THEN <<>> ELSE c.rest
    /\ B["prefix"] = IF c = None THEN <<>> ELSE IF c.prefix = None THEN <<>> ELSE c.prefix.elems

LEMMA BagsNow == AreBags(Bags, arrays, call)
BY HandlesAssumption DEF AreBags, Bags, Held, Places

LEMMA BagsNext == AreBags(Bags', arrays', call')
BY HandlesAssumption DEF AreBags, Bags, Held, Places

LEMMA PlacesAre ==
    /\ Handles \subseteq Places /\ "rest" \in Places /\ "prefix" \in Places
    /\ "rest" # "prefix" /\ \A h \in Handles : h # "rest" /\ h # "prefix"
    /\ \A p \in Places : p \in Handles \/ p = "rest" \/ p = "prefix"
BY HandlesAssumption DEF Places

LEMMA BagsTyped == TypeOK => IsBags(Bags)
<1> SUFFICES ASSUME TypeOK, NEW p \in Places PROVE Bags[p] \in Seq(Nat)
  BY DEF IsBags
<1>1. <<>> \in Seq(Nat)
  BY EmptySeq
<1>2. CASE p \in Handles
  <2>1. arrays[p] # None => arrays[p].elems \in Seq(Nat)
    BY <1>2, ArrayFields DEF TypeOK
  <2> QED BY <1>1, <1>2, <2>1, BagsNow DEF AreBags
<1>3. CASE p = "rest"
  <2>1. call # None => call.rest \in Seq(Nat)
    BY CallFields DEF TypeOK
  <2> QED BY <1>1, <1>3, <2>1, BagsNow DEF AreBags
<1>4. CASE p = "prefix"
  <2>1. call # None /\ call.prefix # None => call.prefix.elems \in Seq(Nat)
    BY CallFields, ArrayFields DEF TypeOK
  <2> QED BY <1>1, <1>4, <2>1, BagsNow DEF AreBags
<1> QED BY <1>2, <1>3, <1>4, PlacesAre

LEMMA SameEquivalent == ASSUME NEW B, NEW C, SameBags(B, C) PROVE Equivalent(B, C)
BY DEF SameBags, Equivalent, OneOwner, Owned

\* Moving elements keeps them owned once, as long as none is dropped.
LEMMA OwnedKept ==
    ASSUME OwnedOnce, Equivalent(Bags, Bags'), whole' = whole, released' = released
    PROVE  OwnedOnce'
BY DEF OwnedOnce, Equivalent

-----------------------------------------------------------------------------
(***************************************************************************)
(* Lengths.                                                                *)
(***************************************************************************)

LEMMA LengthFacts == \A s \in Universe : s.USIZE \in Nat /\ s.USIZE = s.math
BY UniverseAssumption, ModulusAssumption, OverflowAssumption DEF IsSize, usize, Compiles

\* The length of a sum that compiles is the sum of the lengths.
LEMMA SumLength ==
    ASSUME NEW a \in Universe, NEW b \in Universe, Sum(a, b) \in Universe
    PROVE  Sum(a, b).USIZE = a.USIZE + b.USIZE
<1>1. Sum(a, b).math = a.math + b.math
  BY DEF Sum, Size
<1> QED BY <1>1, LengthFacts

LEMMA ProdLength ==
    ASSUME NEW a \in Universe, NEW b \in Universe, Prod(a, b) \in Universe
    PROVE  Prod(a, b).USIZE = a.USIZE * b.USIZE
<1>1. Prod(a, b).math = a.math * b.math
  BY DEF Prod, Size
<1> QED BY <1>1, LengthFacts

LEMMA PartsOf ==
    ASSUME NEW s \in Universe
    PROVE  /\ s.kind = "Sum" => /\ s.parts[1] \in Universe /\ s.parts[2] \in Universe
                                /\ s.USIZE = s.parts[1].USIZE + s.parts[2].USIZE
           /\ s.kind = "Prod" => /\ s.parts[1] \in Universe /\ s.parts[2] \in Universe
                                 /\ s.USIZE = s.parts[1].USIZE * s.parts[2].USIZE
<1>1. ASSUME s.kind = "Sum"
      PROVE  /\ s.parts[1] \in Universe /\ s.parts[2] \in Universe
             /\ s.USIZE = s.parts[1].USIZE + s.parts[2].USIZE
  <2>1. PICK a \in Universe, b \in Universe : s = Sum(a, b)
    BY <1>1, UniverseAssumption
  <2>2. s.parts[1] = a /\ s.parts[2] = b
    BY <2>1 DEF Sum, Size
  <2> QED BY <2>1, <2>2, SumLength
<1>2. ASSUME s.kind = "Prod"
      PROVE  /\ s.parts[1] \in Universe /\ s.parts[2] \in Universe
             /\ s.USIZE = s.parts[1].USIZE * s.parts[2].USIZE
  <2>1. PICK a \in Universe, b \in Universe : s = Prod(a, b)
    BY <1>2, UniverseAssumption
  <2>2. s.parts[1] = a /\ s.parts[2] = b
    BY <2>1 DEF Prod, Size
  <2> QED BY <2>1, <2>2, ProdLength
<1> QED BY <1>1, <1>2

\* The number of elements of each item.
LEMMA Widths ==
    ASSUME NEW a \in ArrayType
    PROVE  /\ Width(a) \in Nat
           /\ a.of = None => Width(a) = 1
           /\ a.of # None => Width(a) = a.of.USIZE
BY ArrayFields, LengthFacts DEF Width

\* Spans of items add up, and grow with the number of items.
LEMMA Spans ==
    ASSUME NEW w \in Nat, NEW m \in Nat, NEW n \in Nat
    PROVE  /\ m * w \in Nat /\ n * w \in Nat /\ (m + n) * w = m * w + n * w
OBVIOUS

LEMMA SpansGrow ==
    ASSUME NEW w \in Nat, NEW m \in Nat, NEW n \in Nat, m <= n
    PROVE  m * w <= n * w
<1>1. n - m \in Nat /\ n = m + (n - m)
  OBVIOUS
<1>2. \A k \in Nat : (m + k) * w = m * w + k * w /\ k * w \in Nat /\ m * w \in Nat
  BY Spans
<1> QED BY <1>1, <1>2

\* A sequence cut in two.
LEMMA CutAt ==
    ASSUME NEW s \in Seq(Nat), NEW n \in 0 .. Len(s)
    PROVE  /\ SubSeq(s, 1, n) \in Seq(Nat) /\ Len(SubSeq(s, 1, n)) = n
           /\ SubSeq(s, n + 1, Len(s)) \in Seq(Nat)
           /\ Len(SubSeq(s, n + 1, Len(s))) = Len(s) - n
           /\ SubSeq(s, 1, n) \o SubSeq(s, n + 1, Len(s)) = s
<1>1. Len(s) \in Nat /\ \A i \in 1 .. Len(s) : s[i] \in Nat
  BY LenProperties, ElementOfSeq
<1>2. SubSeq(s, 1, n) \in Seq(Nat) /\ Len(SubSeq(s, 1, n)) = IF 1 <= n THEN n - 1 + 1 ELSE 0
  <2>1. \A i \in 1 .. n : s[i] \in Nat
    BY <1>1
  <2> QED BY <2>1, SubSeqProperties
<1>3. /\ SubSeq(s, n + 1, Len(s)) \in Seq(Nat)
      /\ Len(SubSeq(s, n + 1, Len(s)))
            = IF n + 1 <= Len(s) THEN Len(s) - (n + 1) + 1 ELSE 0
  <2>1. /\ n + 1 \in Int /\ Len(s) \in Int
        /\ \A i \in n + 1 .. Len(s) : s[i] \in Nat
    BY <1>1
  <2> QED BY <2>1, SubSeqProperties
<1>4. SubSeq(s, 1, n) \o SubSeq(s, n + 1, Len(s)) = SubSeq(s, 1, Len(s))
  <2>1. 1 \in 1 .. Len(s) + 1 /\ n \in 1 - 1 .. Len(s) /\ Len(s) \in n .. Len(s)
    BY <1>1
  <2> QED BY <2>1, ConcatAdjacentSubSeq
<1>5. SubSeq(s, 1, Len(s)) = s
  BY SubSeqFull
<1>6. Len(SubSeq(s, 1, n)) = n
  BY <1>1, <1>2
<1>7. Len(SubSeq(s, n + 1, Len(s))) = Len(s) - n
  BY <1>1, <1>3
<1>8. SubSeq(s, 1, n) \o SubSeq(s, n + 1, Len(s)) = s
  BY <1>4, <1>5
<1> QED BY <1>2, <1>3, <1>6, <1>7, <1>8

-----------------------------------------------------------------------------
(***************************************************************************)
(* Conversions keep the invariant.                                         *)
(***************************************************************************)

\* The array in h gets another type, of the same length in elements.
LEMMA RetypeInv ==
    ASSUME IInv, NEW h \in Handles, Idle, arrays[h] # None,
           NEW a \in ArrayType, a.elems = arrays[h].elems, IsSized(a),
           arrays' = [arrays EXCEPT ![h] = a],
           UNCHANGED <<whole, call, unwinding, released, aborted>>
    PROVE  IInv'
<1>1. call = None /\ call' = None
  BY DEF Idle
<1>2. a # None
  BY ArrayFields
<1>3. /\ arrays' \in [Handles -> ArrayType \cup {None}]
      /\ \A x \in Handles : arrays'[x] = IF x = h THEN a ELSE arrays[x]
  BY <1>2 DEF IInv, TypeOK
<1>5. TypeOK'
  BY <1>3 DEF IInv, TypeOK
<1>6. Sized'
  BY <1>3 DEF IInv, Sized, IsSized
<1>7. CallOK'
  BY <1>1 DEF CallOK
<1>8. SameBags(Bags, Bags')
  <2>1. \A x \in Handles : Bags'[x] = Bags[x]
    BY <1>2, <1>3, BagsNow, BagsNext DEF AreBags
  <2>2. Bags'["rest"] = Bags["rest"] /\ Bags'["prefix"] = Bags["prefix"]
    BY <1>1, BagsNow, BagsNext DEF AreBags
  <2> QED BY <2>1, <2>2, PlacesAre DEF SameBags
<1>9. OwnedOnce'
  BY <1>8, SameEquivalent, OwnedKept DEF IInv
<1> QED BY <1>5, <1>6, <1>7, <1>9 DEF IInv

\* What Takes means in terms of the invariant.
LEMMA Taken ==
    ASSUME IInv, NEW h \in Handles, Takes(h)
    PROVE  /\ Idle /\ call = None /\ arrays[h] # None /\ arrays[h] \in ArrayType
           /\ arrays[h].size \in Universe /\ arrays[h].of \in Universe \cup {None}
           /\ arrays[h].elems \in Seq(Nat) /\ Len(arrays[h].elems) \in Nat
           /\ Len(arrays[h].elems) = arrays[h].size.USIZE * Width(arrays[h])
<1>1. Idle /\ call = None /\ arrays[h] # None /\ arrays[h] \in ArrayType
  BY DEF Takes, Idle, IInv, TypeOK
<1>2. Len(arrays[h].elems) = arrays[h].size.USIZE * Width(arrays[h])
  BY <1>1 DEF IInv, Sized, Span
<1> QED BY <1>1, <1>2, ArrayFields

\* The number of elements in an item that is an element, or a chunk of that size.
PerItem(of) == IF of = None THEN 1 ELSE of.USIZE

\* transmute_layout to a type of the same length.
LEMMA TransmuteInv ==
    ASSUME IInv, NEW h \in Handles, Takes(h),
           NEW size \in Universe, NEW of \in Universe \cup {None}, NEW plain \in BOOLEAN,
           Transmute(h, size, of, plain),
           Len(arrays[h].elems) = size.USIZE * PerItem(of)
    PROVE  IInv'
<1> DEFINE a == ArrayOf(size, of, plain, arrays[h].elems)
<1>1. a \in ArrayType /\ a.size = size /\ a.of = of /\ a.elems = arrays[h].elems
  <2>1. Builds(a, size, of, plain, arrays[h].elems)
    BY Taken, Constructed, Zenon
  <2> HIDE DEF a
  <2> QED BY <2>1 DEF Builds
<1>2. IsSized(a)
  <2> HIDE DEF a
  <2> QED BY <1>1 DEF IsSized, Span, Width, PerItem
<1>3. /\ arrays' = [arrays EXCEPT ![h] = a]
      /\ UNCHANGED <<whole, call, unwinding, released, aborted>>
  BY DEF Transmute, MovedOut
<1> HIDE DEF a
<1> QED BY <1>1, <1>2, <1>3, Taken, RetypeInv

\* cast and try_cast.
LEMMA CastInv ==
    ASSUME IInv, NEW h \in Handles, NEW s \in Universe, Cast(h, s) \/ TryCast(h, s)
    PROVE  IInv'
<1>1. CASE UNCHANGED vars
  BY <1>1 DEF vars, IInv, TypeOK, OwnedOnce, OneOwner, Owned, Bags, Held, Sized, Span, Width,
              CallOK, IsSized
<1>2. CASE Takes(h) /\ arrays[h].size.USIZE = s.USIZE /\ Transmute(h, s, arrays[h].of, FALSE)
  <2>1. Len(arrays[h].elems) = s.USIZE * PerItem(arrays[h].of)
    BY <1>2, Taken DEF Width, PerItem
  <2> QED BY <1>2, <2>1, Taken, TransmuteInv
<1> QED BY <1>1, <1>2 DEF Cast, TryCast

\* into_chunks.
LEMMA IntoChunksInv == ASSUME IInv, NEW h \in Handles, IntoChunks(h) PROVE IInv'
<1> DEFINE s == arrays[h].size
<1>1. /\ Takes(h) /\ s.kind = "Prod" /\ arrays[h].of = None
      /\ Transmute(h, s.parts[1], s.parts[2], FALSE)
  BY DEF IntoChunks
<1>2. /\ s \in Universe /\ Len(arrays[h].elems) = s.USIZE * 1
  BY <1>1, Taken DEF Width
<1> HIDE DEF s
<1>3. /\ s.parts[1] \in Universe /\ s.parts[2] \in Universe /\ s.parts[2] # None
      /\ s.USIZE = s.parts[1].USIZE * s.parts[2].USIZE /\ s.USIZE \in Nat
  BY <1>1, <1>2, PartsOf, NoneAssumption, LengthFacts
<1>4. Len(arrays[h].elems) = s.parts[1].USIZE * PerItem(s.parts[2])
  BY <1>2, <1>3 DEF PerItem
<1> QED BY <1>1, <1>3, <1>4, TransmuteInv

\* from_chunks.
LEMMA FromChunksInv == ASSUME IInv, NEW h \in Handles, FromChunks(h) PROVE IInv'
<1> DEFINE s == arrays[h].size
           of == arrays[h].of
           p == Prod(s, of)
<1>1. Takes(h) /\ of # None /\ p \in Universe /\ Transmute(h, p, None, FALSE)
  BY DEF FromChunks
<1>2. s \in Universe /\ of \in Universe /\ Len(arrays[h].elems) = s.USIZE * of.USIZE
  BY <1>1, Taken DEF Width
<1>3. p.USIZE = s.USIZE * of.USIZE
  <2> HIDE DEF s, of
  <2> QED BY <1>1, <1>2, ProdLength
<1>4. p.USIZE \in Nat
  <2> HIDE DEF p
  <2> QED BY <1>1, LengthFacts
<1> HIDE DEF p
<1>5. Len(arrays[h].elems) = p.USIZE * PerItem(None)
  BY <1>2, <1>3, <1>4 DEF PerItem
<1> QED BY <1>1, <1>5, TransmuteInv

\* into_array, and new, which wraps it again.
LEMMA IntoArrayInv == ASSUME IInv, NEW h \in Handles, IntoArray(h) PROVE IInv'
<1>1. Takes(h) /\ Transmute(h, arrays[h].size, arrays[h].of, TRUE)
  BY DEF IntoArray
<1>2. Len(arrays[h].elems) = arrays[h].size.USIZE * PerItem(arrays[h].of)
  BY <1>1, Taken DEF Width, PerItem
<1> QED BY <1>1, <1>2, Taken, TransmuteInv

LEMMA NewInv == ASSUME IInv, NEW h \in Handles, New(h) PROVE IInv'
<1> DEFINE old == arrays[h]
           a == [old EXCEPT !.plain = FALSE]
<1>1. /\ Idle /\ old # None
      /\ arrays' = [arrays EXCEPT ![h] = a]
      /\ UNCHANGED <<whole, call, unwinding, released, aborted>>
  BY DEF New
<1>2. old \in ArrayType /\ IsSized(old)
  BY <1>1 DEF IInv, TypeOK, Sized, IsSized
<1>3. a \in ArrayType /\ a.size = old.size /\ a.of = old.of /\ a.elems = old.elems
  <2> HIDE DEF old
  <2> QED BY <1>2 DEF ArrayType
<1> HIDE DEF a
<1>4. IsSized(a)
  <2> HIDE DEF old
  <2> QED BY <1>2, <1>3 DEF IsSized, Span, Width
<1> QED BY <1>1, <1>3, <1>4, RetypeInv

\* concat: the second array's elements follow the first one's.
LEMMA ConcatInv ==
    ASSUME IInv, NEW h \in Handles, NEW g \in Handles, ConcatArrays(h, g)
    PROVE  IInv'
<1> DEFINE a == arrays[h]
           b == arrays[g]
           c == Joined(a, b)
           s == Sum(a.size, b.size)
<1>1. /\ Takes(h) /\ Takes(g) /\ h # g /\ a.of = b.of /\ s \in Universe
      /\ arrays' = [arrays EXCEPT ![h] = c, ![g] = None]
      /\ UNCHANGED <<whole, call, unwinding, released, aborted>>
  BY DEF ConcatArrays, MovedOut
<1>2. /\ call = None /\ call' = None
      /\ a \in ArrayType /\ a # None /\ a.size \in Universe /\ a.elems \in Seq(Nat)
      /\ b \in ArrayType /\ b # None /\ b.size \in Universe /\ b.elems \in Seq(Nat)
      /\ a.of \in Universe \cup {None}
      /\ Len(a.elems) = a.size.USIZE * Width(a)
      /\ Len(b.elems) = b.size.USIZE * Width(b)
  BY <1>1, Taken
<1>3. /\ a.elems \o b.elems \in Seq(Nat)
      /\ Len(a.elems \o b.elems) = Len(a.elems) + Len(b.elems)
  BY <1>2, ConcatProperties
<1>4. /\ c \in ArrayType /\ c # None /\ c.size = s /\ c.of = a.of
      /\ c.elems = a.elems \o b.elems
  <2>1. Builds(c, s, a.of, FALSE, a.elems \o b.elems)
    BY <1>1, <1>2, <1>3, Constructed, Zenon DEF Joined
  <2> HIDE DEF a, b, c, s
  <2> QED BY <2>1 DEF Builds
<1>5. s.USIZE = a.size.USIZE + b.size.USIZE
  <2> HIDE DEF a, b
  <2> QED BY <1>1, <1>2, SumLength
<1>6. Width(c) = Width(a) /\ Width(b) = Width(a) /\ Width(a) \in Nat
  <2> HIDE DEF c, a, b
  <2> QED BY <1>1, <1>2, <1>4, Widths DEF Width
<1>7. IsSized(c)
  <2>1. a.size.USIZE \in Nat /\ b.size.USIZE \in Nat
    BY <1>2, LengthFacts
  <2> HIDE DEF c, a, b, s
  <2>2. (a.size.USIZE + b.size.USIZE) * Width(a)
          = a.size.USIZE * Width(a) + b.size.USIZE * Width(a)
    BY <1>6, <2>1, Spans
  <2> QED BY <1>2, <1>3, <1>4, <1>5, <1>6, <2>2 DEF IsSized, Span
<1>8. /\ arrays' \in [Handles -> ArrayType \cup {None}]
      /\ \A x \in Handles :
            arrays'[x] = IF x = h THEN c ELSE IF x = g THEN None ELSE arrays[x]
  <2> HIDE DEF c
  <2> QED BY <1>1, <1>4 DEF IInv, TypeOK
<1> HIDE DEF c, s
<1>9. TypeOK'
  BY <1>1, <1>8 DEF IInv, TypeOK
<1>10. Sized'
  BY <1>7, <1>8 DEF IInv, Sized, IsSized
<1>11. CallOK'
  BY <1>2 DEF CallOK
<1>12. Merges(Bags, Bags', h, g)
  <2>1. /\ Bags[h] = a.elems /\ Bags[g] = b.elems
        /\ Bags'[h] = c.elems /\ Bags'[g] = <<>>
    BY <1>1, <1>2, <1>4, <1>8, BagsNow, BagsNext DEF AreBags
  <2>2. \A x \in Handles : x # h /\ x # g => Bags'[x] = Bags[x]
    BY <1>8, BagsNow, BagsNext DEF AreBags
  <2>3. Bags'["rest"] = Bags["rest"] /\ Bags'["prefix"] = Bags["prefix"]
    BY <1>2, BagsNow, BagsNext DEF AreBags
  <2> QED BY <1>1, <1>4, <2>1, <2>2, <2>3, PlacesAre DEF Merges
<1>13. OwnedOnce'
  BY <1>1, <1>12, BagsTyped, MergeEquivalent, OwnedKept DEF IInv
<1> QED BY <1>9, <1>10, <1>11, <1>13 DEF IInv

\* Two arrays that split one back into its fields are the inverse of a merge.
LEMMA SplitEquivalent ==
    ASSUME NEW B, NEW C, IsBags(C), NEW h, NEW g, Merges(C, B, h, g)
    PROVE  Equivalent(B, C)
BY MergeEquivalent DEF Equivalent

\* parts: the fields of the Concat that the array is stored as.
LEMMA PartsInv ==
    ASSUME IInv, NEW h \in Handles, NEW g \in Handles, Parts(h, g)
    PROVE  IInv'
<1> DEFINE a == arrays[h]
           first == a.size.parts[1]
           second == a.size.parts[2]
           cut == Span(a, first.USIZE)
           front == SubSeq(a.elems, 1, cut)
           back == SubSeq(a.elems, cut + 1, Len(a.elems))
           b == ArrayOf(first, a.of, FALSE, front)
           c == ArrayOf(second, a.of, FALSE, back)
<1>1. /\ Takes(h) /\ arrays[g] = None /\ a.size.kind = "Sum"
      /\ arrays' = [arrays EXCEPT ![h] = b, ![g] = c]
      /\ UNCHANGED <<whole, call, unwinding, released, aborted>>
  BY DEF Parts, MovedOut, Field
<1>2. /\ call = None /\ call' = None /\ h # g
      /\ a \in ArrayType /\ a # None /\ a.size \in Universe /\ a.elems \in Seq(Nat)
      /\ a.of \in Universe \cup {None}
      /\ Len(a.elems) = a.size.USIZE * Width(a)
  BY <1>1, Taken
<1> HIDE DEF a
<1>3. /\ first \in Universe /\ second \in Universe
      /\ a.size.USIZE = first.USIZE + second.USIZE
  BY <1>1, <1>2, PartsOf
<1> HIDE DEF first, second
<1>4. first.USIZE \in Nat /\ second.USIZE \in Nat /\ Width(a) \in Nat
  BY <1>2, <1>3, LengthFacts, Widths
<1>5. /\ cut = first.USIZE * Width(a) /\ cut \in Nat
      /\ second.USIZE * Width(a) \in Nat
      /\ Len(a.elems) = cut + second.USIZE * Width(a)
  <2>1. cut = first.USIZE * Width(a)
    BY DEF Span
  <2> HIDE DEF cut
  <2>2. /\ first.USIZE * Width(a) \in Nat /\ second.USIZE * Width(a) \in Nat
        /\ (first.USIZE + second.USIZE) * Width(a)
              = first.USIZE * Width(a) + second.USIZE * Width(a)
    BY <1>4, Spans
  <2> QED BY <1>2, <1>3, <2>1, <2>2
<1> HIDE DEF cut
<1>6. cut \in 0 .. Len(a.elems)
  BY <1>5
<1>7. /\ front \in Seq(Nat) /\ Len(front) = cut
      /\ back \in Seq(Nat) /\ Len(back) = Len(a.elems) - cut
      /\ front \o back = a.elems
  BY <1>2, <1>6, CutAt
<1> HIDE DEF front, back
<1>8. /\ b \in ArrayType /\ b # None /\ b.size = first /\ b.of = a.of /\ b.elems = front
      /\ c \in ArrayType /\ c # None /\ c.size = second /\ c.of = a.of /\ c.elems = back
  <2>1. Builds(b, first, a.of, FALSE, front) /\ Builds(c, second, a.of, FALSE, back)
    BY <1>2, <1>3, <1>7, Constructed, Zenon
  <2> HIDE DEF b, c
  <2> QED BY <2>1 DEF Builds
<1> HIDE DEF b, c
<1>9. IsSized(b) /\ IsSized(c)
  <2>1. Width(b) = Width(a) /\ Width(c) = Width(a)
    BY <1>8 DEF Width
  <2>2. Len(back) = second.USIZE * Width(a)
    BY <1>5, <1>7
  <2> QED BY <1>5, <1>7, <1>8, <2>1, <2>2 DEF IsSized, Span
<1>10. /\ arrays' \in [Handles -> ArrayType \cup {None}]
       /\ \A x \in Handles :
             arrays'[x] = IF x = h THEN b ELSE IF x = g THEN c ELSE arrays[x]
  BY <1>1, <1>2, <1>8 DEF IInv, TypeOK
<1>11. TypeOK'
  BY <1>1, <1>10 DEF IInv, TypeOK
<1>12. Sized'
  BY <1>9, <1>10 DEF IInv, Sized, IsSized
<1>13. CallOK'
  BY <1>2 DEF CallOK
<1>14. Merges(Bags', Bags, h, g)
  <2>1. /\ Bags'[h] = front /\ Bags'[g] = back
        /\ Bags[h] = a.elems /\ Bags[g] = <<>>
    BY <1>1, <1>2, <1>8, <1>10, BagsNow, BagsNext DEF AreBags, a
  <2>2. \A x \in Handles : x # h /\ x # g => Bags'[x] = Bags[x]
    BY <1>10, BagsNow, BagsNext DEF AreBags
  <2>3. Bags'["rest"] = Bags["rest"] /\ Bags'["prefix"] = Bags["prefix"]
    BY <1>2, BagsNow, BagsNext DEF AreBags
  <2> QED BY <1>2, <1>7, <2>1, <2>2, <2>3, PlacesAre DEF Merges
<1>15. IsBags(Bags')
  <2>1. \A p \in Places : p # h /\ p # g => Bags'[p] = Bags[p]
    BY <1>14 DEF Merges
  <2>2. Bags'[h] = front /\ Bags'[g] = back
    BY <1>2, <1>8, <1>10, BagsNext DEF AreBags
  <2> QED BY <1>7, <2>1, <2>2, BagsTyped DEF IInv, IsBags
<1>16. OwnedOnce'
  BY <1>1, <1>14, <1>15, SplitEquivalent, OwnedKept DEF IInv
<1> QED BY <1>11, <1>12, <1>13, <1>16 DEF IInv

-----------------------------------------------------------------------------
(***************************************************************************)
(* Destructors keep the invariant.                                         *)
(***************************************************************************)

\* A call starts: the array is the call's, either to be dropped or with its
\* first n elements as the prefix and the others to be dropped.
LEMMA StartsInv ==
    ASSUME IInv, NEW h \in Handles, Idle, arrays[h] # None,
           NEW prefix \in ArrayType \cup {None}, NEW rest \in Seq(Nat), Starts(h, prefix, rest),
           \/ prefix = None /\ rest = arrays[h].elems
           \/ /\ prefix # None /\ IsSized(prefix)
              /\ \E n \in 0 .. Len(arrays[h].elems) :
                    /\ prefix.elems = SubSeq(arrays[h].elems, 1, n)
                    /\ rest = SubSeq(arrays[h].elems, n + 1, Len(arrays[h].elems))
    PROVE  IInv'
<1> DEFINE s == arrays[h].elems
           c == [h |-> h, all |-> s, prefix |-> prefix, rest |-> rest]
<1>1. /\ call' = c
      /\ arrays' = [arrays EXCEPT ![h] = None]
      /\ UNCHANGED <<whole, unwinding, released, aborted>>
  BY DEF Starts
<1>2. call = None /\ arrays[h] \in ArrayType /\ s \in Seq(Nat)
  BY ArrayFields DEF Idle, IInv, TypeOK
<1> HIDE DEF s
<1>3. /\ c \in CallType /\ c # None /\ c.h = h /\ c.all = s /\ c.prefix = prefix /\ c.rest = rest
  <2>1. c \in CallType
    BY <1>2 DEF CallType
  <2> QED BY <2>1, CallFields
<1> HIDE DEF c
<1>4. /\ arrays' \in [Handles -> ArrayType \cup {None}]
      /\ \A x \in Handles : arrays'[x] = IF x = h THEN None ELSE arrays[x]
  BY <1>1 DEF IInv, TypeOK
<1>5. TypeOK'
  BY <1>1, <1>3, <1>4 DEF IInv, TypeOK
<1>6. Sized'
  BY <1>4 DEF IInv, Sized
<1>7. CallOK'
  <2>1. prefix # None =>
          IsSized(prefix) /\ \E n \in 0 .. Len(s) : prefix.elems = SubSeq(s, 1, n)
    BY DEF s
  <2> QED BY <1>1, <1>3, <1>4, <2>1 DEF CallOK, IsSized
<1> DEFINE front == IF prefix = None THEN <<>> ELSE prefix.elems
<1>8. front \in Seq(Nat) /\ front \o rest = s
  <2>1. CASE prefix = None
    <3>1. <<>> \o s = s /\ <<>> \in Seq(Nat)
      BY <1>2, ConcatEmptySeq, EmptySeq
    <3>2. rest = s
      BY <2>1 DEF s
    <3> QED BY <2>1, <3>1, <3>2
  <2>2. CASE prefix # None
    <3>1. PICK n \in 0 .. Len(s) :
            prefix.elems = SubSeq(s, 1, n) /\ rest = SubSeq(s, n + 1, Len(s))
      BY <2>2 DEF s
    <3> QED BY <1>2, <2>2, <3>1, CutAt
  <2> QED BY <2>1, <2>2
<1> DEFINE D == [p \in Places |-> IF p = "prefix" THEN s
                                  ELSE IF p = "rest" \/ p = h THEN <<>> ELSE Bags[p]]
<1>9. /\ Bags'["prefix"] = front /\ Bags'["rest"] = rest
      /\ \A x \in Handles : Bags'[x] = IF x = h THEN <<>> ELSE Bags[x]
  BY <1>1, <1>3, <1>4, BagsNow, BagsNext DEF AreBags
<1>10. /\ Bags["prefix"] = <<>> /\ Bags["rest"] = <<>> /\ Bags[h] = s
  BY <1>2, BagsNow DEF AreBags, s
<1>11. /\ D["prefix"] = s /\ D["rest"] = <<>> /\ D[h] = <<>>
       /\ \A x \in Handles : x # h => D[x] = Bags[x]
  BY PlacesAre
<1> HIDE DEF D, front
<1>12. Merges(Bags, D, "prefix", h)
  <2>1. <<>> \o s = s
    BY <1>2, ConcatEmptySeq
  <2> QED BY <2>1, <1>10, <1>11, PlacesAre DEF Merges
<1>13. Merges(Bags', D, "prefix", "rest")
  BY <1>8, <1>9, <1>11, PlacesAre DEF Merges
<1>14. IsBags(Bags) /\ IsBags(Bags')
  <2>1. IsBags(Bags)
    BY BagsTyped DEF IInv
  <2>2. <<>> \in Seq(Nat)
    BY EmptySeq
  <2> QED BY <1>8, <1>9, <2>1, <2>2, PlacesAre DEF IsBags
<1>15. Equivalent(Bags, Bags')
  <2>1. Equivalent(Bags, D) /\ Equivalent(Bags', D)
    BY <1>12, <1>13, <1>14, MergeEquivalent
  <2> QED BY <2>1 DEF Equivalent
<1>16. OwnedOnce'
  BY <1>1, <1>15, OwnedKept DEF IInv
<1> QED BY <1>5, <1>6, <1>7, <1>16 DEF IInv

\* truncate: the prefix is as long as its type says, and the rest is dropped.
LEMMA TruncateStarts ==
    ASSUME IInv, NEW h \in Handles, NEW p \in Universe, Truncate(h, p)
    PROVE  /\ Idle /\ arrays[h] # None
           /\ \E prefix \in ArrayType, rest \in Seq(Nat) :
                /\ Starts(h, prefix, rest) /\ prefix # None /\ IsSized(prefix)
                /\ \E n \in 0 .. Len(arrays[h].elems) :
                      /\ prefix.elems = SubSeq(arrays[h].elems, 1, n)
                      /\ rest = SubSeq(arrays[h].elems, n + 1, Len(arrays[h].elems))
<1> DEFINE a == arrays[h]
           cut == Span(a, p.USIZE)
           front == SubSeq(a.elems, 1, cut)
           prefix == ArrayOf(p, a.of, FALSE, front)
           rest == SubSeq(a.elems, cut + 1, Len(a.elems))
<1>1. Takes(h) /\ p.USIZE <= a.size.USIZE /\ Starts(h, prefix, rest)
  BY DEF Truncate
<1>2. /\ Idle /\ a \in ArrayType /\ a # None /\ a.size \in Universe /\ a.elems \in Seq(Nat)
      /\ a.of \in Universe \cup {None}
      /\ Len(a.elems) = a.size.USIZE * Width(a)
  BY <1>1, Taken
<1> HIDE DEF a
<1>3. p.USIZE \in Nat /\ a.size.USIZE \in Nat /\ Width(a) \in Nat
  BY <1>2, LengthFacts, Widths
<1>4. cut = p.USIZE * Width(a) /\ cut \in 0 .. Len(a.elems)
  <2>1. p.USIZE * Width(a) <= a.size.USIZE * Width(a)
    BY <1>1, <1>3, SpansGrow
  <2>2. p.USIZE * Width(a) \in Nat /\ a.size.USIZE * Width(a) \in Nat
    BY <1>3, Spans
  <2>3. cut = p.USIZE * Width(a)
    BY DEF Span
  <2> HIDE DEF cut
  <2> QED BY <1>2, <2>1, <2>2, <2>3
<1> HIDE DEF cut
<1>5. /\ front \in Seq(Nat) /\ Len(front) = cut /\ rest \in Seq(Nat)
  BY <1>2, <1>4, CutAt
<1>6. \E n \in 0 .. Len(a.elems) :
        front = SubSeq(a.elems, 1, n) /\ rest = SubSeq(a.elems, n + 1, Len(a.elems))
  BY <1>4
<1> HIDE DEF front, rest
<1>7. /\ prefix \in ArrayType /\ prefix # None /\ prefix.size = p /\ prefix.of = a.of
      /\ prefix.elems = front
  <2>1. Builds(prefix, p, a.of, FALSE, front)
    BY <1>2, <1>5, Constructed, Zenon
  <2> HIDE DEF prefix
  <2> QED BY <2>1 DEF Builds
<1> HIDE DEF prefix
<1>8. IsSized(prefix)
  <2>1. Width(prefix) = Width(a)
    BY <1>7 DEF Width
  <2> QED BY <1>4, <1>5, <1>7, <2>1 DEF IsSized, Span
<1> QED BY <1>1, <1>2, <1>5, <1>6, <1>7, <1>8 DEF a

LEMMA TruncateInv ==
    ASSUME IInv, NEW h \in Handles, NEW p \in Universe, Truncate(h, p)
    PROVE  IInv'
BY TruncateStarts, StartsInv

\* The client drops an array.
LEMMA DropInv == ASSUME IInv, NEW h \in Handles, Drop(h) PROVE IInv'
<1>1. Idle /\ arrays[h] # None /\ Starts(h, None, arrays[h].elems)
  BY DEF Drop
<1>2. arrays[h].elems \in Seq(Nat)
  BY <1>1, ArrayFields DEF IInv, TypeOK
<1> QED BY <1>1, <1>2, StartsInv

\* One element is dropped, which is then owned by nobody.
LEMMA DroppedInv ==
    ASSUME IInv, Dropping, Dropped, UNCHANGED <<arrays, whole>>,
           unwinding' \in BOOLEAN, aborted' \in BOOLEAN
    PROVE  IInv'
<1> DEFINE x == Head(call.rest)
<1>1. /\ call \in CallType /\ call # None /\ call.rest \in Seq(Nat) /\ call.rest # <<>>
      /\ call.h \in Handles /\ call.all \in Seq(Nat) /\ call.prefix \in ArrayType \cup {None}
  BY CallFields DEF Dropping, IInv, TypeOK
<1>2. Tail(call.rest) \in Seq(Nat)
  BY <1>1, HeadTailProperties
<1>3. /\ call' \in CallType /\ call' # None /\ call'.rest = Tail(call.rest) /\ call'.h = call.h
      /\ call'.all = call.all /\ call'.prefix = call.prefix
  <2>1. call' = [call EXCEPT !.rest = Tail(call.rest)]
    BY DEF Dropped
  <2>2. call' \in CallType
    BY <1>1, <1>2, <2>1 DEF CallType
  <2>3. /\ call'.rest = Tail(call.rest) /\ call'.h = call.h
        /\ call'.all = call.all /\ call'.prefix = call.prefix
    BY <1>1, <2>1 DEF CallType
  <2> QED BY <2>2, <2>3, CallFields
<1>4. /\ released' \in [Elems -> Nat]
      /\ \A e \in Elems : released'[e] = IF e = x THEN released[e] + 1 ELSE released[e]
  <2>1. /\ released' = [released EXCEPT ![x] = released[x] + 1]
        /\ released \in [Elems -> Nat]
    BY DEF Dropped, IInv, TypeOK
  <2> HIDE DEF x
  <2>2. \A e \in Elems : released'[e] = IF e = x THEN released[e] + 1 ELSE released[e]
    BY <2>1
  <2>3. released' = [e \in Elems |-> released'[e]]
    BY <2>1
  <2>4. \A e \in Elems : released'[e] \in Nat
    BY <2>1, <2>2
  <2> QED BY <2>2, <2>3, <2>4
<1>5. TypeOK'
  BY <1>3, <1>4 DEF IInv, TypeOK
<1>6. Sized'
  BY DEF IInv, Sized, Span, Width
<1>7. CallOK'
  BY <1>1, <1>3 DEF IInv, CallOK, IsSized, Span, Width
<1>8. /\ Bags["rest"] = call.rest /\ Bags'["rest"] = Tail(call.rest)
      /\ \A p \in Places : p # "rest" => Bags'[p] = Bags[p]
  <2>1. /\ Bags["rest"] = call.rest /\ Bags'["rest"] = Tail(call.rest)
        /\ Bags["prefix"] = Bags'["prefix"]
    BY <1>1, <1>3, BagsNow, BagsNext DEF AreBags
  <2>2. \A g \in Handles : Bags'[g] = Bags[g]
    BY BagsNow, BagsNext DEF AreBags
  <2> QED BY <2>1, <2>2, PlacesAre
<1>9. /\ OneOwner(Bags')
      /\ Owned(Bags, x) /\ ~Owned(Bags', x)
      /\ \A e : e # x => (Owned(Bags', e) <=> Owned(Bags, e))
  <2>1. IsBags(Bags) /\ OneOwner(Bags) /\ Bags["rest"] # <<>> /\ "rest" \in Places
        /\ Bags'["rest"] = Tail(Bags["rest"])
    BY <1>1, <1>8, BagsTyped, PlacesAre DEF IInv, OwnedOnce
  <2>2. x = Head(Bags["rest"])
    BY <1>8
  <2> HIDE DEF x
  <2> QED BY <1>8, <2>1, <2>2, DropFirst
<1> HIDE DEF x
<1>10. \A e \in 1 .. whole : e \in Elems
  BY DEF IInv, TypeOK, Elems
<1>11. OwnedOnce'
  <2>1. ASSUME NEW e \in 1 .. whole
        PROVE  released'[e] = IF Owned(Bags', e) THEN 0 ELSE 1
    <3>1. released[e] = IF Owned(Bags, e) THEN 0 ELSE 1
      BY DEF IInv, OwnedOnce
    <3>2. CASE e = x
      BY <1>4, <1>9, <1>10, <3>1, <3>2
    <3>3. CASE e # x
      BY <1>4, <1>9, <1>10, <3>1, <3>3
    <3> QED BY <3>2, <3>3
  <2> QED BY <1>9, <2>1 DEF OwnedOnce
<1> QED BY <1>5, <1>6, <1>7, <1>11 DEF IInv

\* A call that ends has dropped its rest, and its variable is free.
LEMMA Ended ==
    ASSUME IInv, Ends
    PROVE  /\ call \in CallType /\ call # None /\ call.rest = <<>> /\ call.h \in Handles
           /\ call.all \in Seq(Nat) /\ call.prefix \in ArrayType \cup {None}
           /\ arrays[call.h] = None
           /\ call.prefix # None => IsSized(call.prefix) /\ call.prefix.elems \in Seq(Nat)
           /\ Bags["rest"] = <<>> /\ Bags[call.h] = <<>>
<1>1. call \in CallType /\ call # None /\ call.rest = <<>>
  BY DEF Ends, IInv, TypeOK
<1>2. arrays[call.h] = None /\ (call.prefix # None => IsSized(call.prefix))
  BY <1>1 DEF IInv, CallOK
<1>3. call.h \in Handles /\ call.all \in Seq(Nat) /\ call.prefix \in ArrayType \cup {None}
  BY <1>1, CallFields
<1>4. Bags["rest"] = <<>> /\ Bags[call.h] = <<>>
  BY <1>1, <1>2, <1>3, BagsNow DEF AreBags
<1> QED BY <1>1, <1>2, <1>3, <1>4, ArrayFields

\* truncate returns its prefix to the variable, and a drop leaves it free.
LEMMA ReturnInv == ASSUME IInv, Return PROVE IInv'
<1> DEFINE h == call.h
           a == call.prefix
<1>1. /\ Ends /\ arrays' = [arrays EXCEPT ![h] = a] /\ call' = None
      /\ UNCHANGED <<whole, unwinding, released, aborted>>
  BY DEF Return
<1>2. /\ call # None /\ call.rest = <<>> /\ h \in Handles /\ a \in ArrayType \cup {None}
      /\ a # None => IsSized(a) /\ a.elems \in Seq(Nat)
      /\ Bags["rest"] = <<>> /\ Bags[h] = <<>>
  BY <1>1, Ended
<1>3. /\ arrays' \in [Handles -> ArrayType \cup {None}]
      /\ \A x \in Handles : arrays'[x] = IF x = h THEN a ELSE arrays[x]
  <2> HIDE DEF h, a
  <2> QED BY <1>1, <1>2 DEF IInv, TypeOK
<1>4. TypeOK'
  BY <1>1, <1>3 DEF IInv, TypeOK
<1>5. Sized'
  <2> HIDE DEF h, a
  <2> QED BY <1>2, <1>3 DEF IInv, Sized, IsSized
<1>6. CallOK'
  BY <1>1 DEF CallOK
<1>7. Merges(Bags, Bags', h, "prefix")
  <2>1. /\ Bags["prefix"] = IF a = None THEN <<>> ELSE a.elems
        /\ Bags'[h] = IF a = None THEN <<>> ELSE a.elems
        /\ Bags'["prefix"] = <<>> /\ Bags'["rest"] = <<>>
    BY <1>1, <1>2, <1>3, BagsNow, BagsNext DEF AreBags
  <2>2. \A x \in Handles : x # h => Bags'[x] = Bags[x]
    BY <1>3, BagsNow, BagsNext DEF AreBags
  <2>3. Bags["prefix"] \in Seq(Nat)
    BY BagsTyped, PlacesAre DEF IInv, IsBags
  <2>4. Bags[h] \o Bags["prefix"] = Bags["prefix"]
    BY <1>2, <2>3, ConcatEmptySeq
  <2> HIDE DEF h, a
  <2> QED BY <1>2, <2>1, <2>2, <2>4, PlacesAre DEF Merges
<1>8. OwnedOnce'
  BY <1>1, <1>7, BagsTyped, MergeEquivalent, OwnedKept DEF IInv
<1> QED BY <1>4, <1>5, <1>6, <1>8 DEF IInv

\* A panic leaves truncate: the elements of the prefix are to be dropped, too.
LEMMA UnwindPrefixInv == ASSUME IInv, UnwindPrefix PROVE IInv'
<1> DEFINE a == call.prefix
<1>1. /\ Ends /\ a # None
      /\ call' = [call EXCEPT !.prefix = None, !.rest = a.elems]
      /\ UNCHANGED <<arrays, whole, unwinding, released, aborted>>
  BY DEF UnwindPrefix
<1>2. /\ call \in CallType /\ call # None /\ call.rest = <<>> /\ call.h \in Handles
      /\ call.all \in Seq(Nat) /\ arrays[call.h] = None /\ a.elems \in Seq(Nat)
      /\ Bags["rest"] = <<>>
  BY <1>1, Ended
<1> HIDE DEF a
<1>3. /\ call' \in CallType /\ call' # None
      /\ call'.prefix = None /\ call'.rest = a.elems /\ call'.h = call.h
  <2>1. call' \in CallType
    BY <1>1, <1>2 DEF CallType
  <2>2. call'.prefix = None /\ call'.rest = a.elems /\ call'.h = call.h
    BY <1>1, <1>2 DEF CallType
  <2> QED BY <2>1, <2>2, CallFields
<1>4. TypeOK'
  BY <1>1, <1>3 DEF IInv, TypeOK
<1>5. Sized'
  BY <1>1 DEF IInv, Sized, Span, Width
<1>6. CallOK'
  BY <1>1, <1>2, <1>3 DEF CallOK
<1>7. Merges(Bags, Bags', "rest", "prefix")
  <2>1. /\ Bags["prefix"] = a.elems
        /\ Bags'["prefix"] = <<>> /\ Bags'["rest"] = a.elems
    BY <1>1, <1>2, <1>3, BagsNow, BagsNext DEF AreBags, a
  <2>2. \A x \in Handles : Bags'[x] = Bags[x]
    BY <1>1, BagsNow, BagsNext DEF AreBags
  <2>3. <<>> \o a.elems = a.elems
    BY <1>2, ConcatEmptySeq
  <2> QED BY <1>2, <2>1, <2>2, <2>3, PlacesAre DEF Merges
<1>8. OwnedOnce'
  BY <1>1, <1>7, BagsTyped, MergeEquivalent, OwnedKept DEF IInv
<1> QED BY <1>4, <1>5, <1>6, <1>8 DEF IInv

\* The client catches the panic.
LEMMA CaughtInv == ASSUME IInv, Caught PROVE IInv'
<1>1. /\ Ends /\ call.prefix = None /\ call' = None /\ unwinding' = FALSE
      /\ UNCHANGED <<arrays, whole, released, aborted>>
  BY DEF Caught
<1>2. call # None /\ call.rest = <<>>
  BY <1>1, Ended
<1>3. TypeOK'
  BY <1>1 DEF IInv, TypeOK
<1>4. Sized' /\ CallOK'
  BY <1>1 DEF IInv, Sized, Span, Width, CallOK
<1>5. SameBags(Bags, Bags')
  <2>1. /\ Bags["prefix"] = <<>> /\ Bags'["prefix"] = <<>>
        /\ Bags["rest"] = <<>> /\ Bags'["rest"] = <<>>
    BY <1>1, <1>2, BagsNow, BagsNext DEF AreBags
  <2>2. \A x \in Handles : Bags'[x] = Bags[x]
    BY <1>1, BagsNow, BagsNext DEF AreBags
  <2> QED BY <2>1, <2>2, PlacesAre DEF SameBags
<1>6. OwnedOnce'
  BY <1>1, <1>5, SameEquivalent, OwnedKept DEF IInv
<1> QED BY <1>3, <1>4, <1>6 DEF IInv

-----------------------------------------------------------------------------

\* The elements of the array that the client starts with.
LEMMA FirstElements ==
    ASSUME NEW n \in Nat
    PROVE  LET f == [k \in 1 .. n |-> k]
           IN  f \in Seq(Nat) /\ Len(f) = n /\ DOMAIN f = 1 .. n /\ \A k \in 1 .. n : f[k] = k
<1> DEFINE f == [k \in 1 .. n |-> k]
<1>1. f \in [1 .. n -> Nat] /\ \A k \in 1 .. n : f[k] = k
  OBVIOUS
<1> HIDE DEF f
<1>2. f \in Seq(Nat) /\ Len(f) = n /\ DOMAIN f = 1 .. n
  BY <1>1
<1> QED BY <1>1, <1>2 DEF f

\* The client starts with one array, which owns all elements.
LEMMA InitInv == Init => IInv
<1> SUFFICES ASSUME Init PROVE IInv
  OBVIOUS
<1>1. PICK s \in Universe, h \in Handles :
        /\ whole = s.USIZE
        /\ arrays = [g \in Handles |->
                        IF g = h THEN ArrayOf(s, None, FALSE, [k \in 1 .. s.USIZE |-> k])
                                 ELSE None]
  BY DEF Init
<1> DEFINE f == [k \in 1 .. s.USIZE |-> k]
           a == ArrayOf(s, None, FALSE, f)
<1>2. /\ s.USIZE \in Nat /\ f \in Seq(Nat) /\ Len(f) = s.USIZE /\ DOMAIN f = 1 .. s.USIZE
      /\ \A k \in 1 .. s.USIZE : f[k] = k
  BY LengthFacts, FirstElements
<1>3. call = None /\ released = [e \in Elems |-> 0] /\ unwinding = FALSE /\ aborted = FALSE
  BY DEF Init
<1>4. \A g \in Handles : arrays[g] = IF g = h THEN a ELSE None
  BY <1>1
<1> HIDE DEF f
<1>5. a \in ArrayType /\ a # None /\ a.size = s /\ a.of = None /\ a.elems = f
  <2>1. Builds(a, s, None, FALSE, f)
    BY <1>2, Constructed, Zenon
  <2> HIDE DEF a
  <2> QED BY <2>1 DEF Builds
<1>6. arrays \in [Handles -> ArrayType \cup {None}]
  BY <1>1, <1>5 DEF f
<1> HIDE DEF a
<1>7. TypeOK
  BY <1>1, <1>3, <1>6 DEF TypeOK, Lengths
<1>8. Sized
  BY <1>2, <1>4, <1>5 DEF Sized, Span, Width
<1>9. CallOK
  BY <1>3 DEF CallOK
<1>10. /\ \A p \in Places : Bags[p] = IF p = h THEN f ELSE <<>>
       /\ \A p \in Places : DOMAIN Bags[p] = IF p = h THEN 1 .. s.USIZE ELSE {}
  <2>1. \A p \in Places : Bags[p] = IF p = h THEN f ELSE <<>>
    BY <1>3, <1>4, <1>5, BagsNow, PlacesAre DEF AreBags
  <2> QED BY <1>2, <2>1
<1>11. OneOwner(Bags)
  <2>1. ASSUME NEW p \in Places, NEW q \in Places,
               NEW j \in DOMAIN Bags[p], NEW k \in DOMAIN Bags[q], Bags[p][j] = Bags[q][k]
        PROVE  p = q /\ j = k
    <3>1. p = h /\ q = h /\ j \in 1 .. s.USIZE /\ k \in 1 .. s.USIZE
      BY <1>10
    <3> QED BY <1>2, <1>10, <2>1, <3>1
  <2> QED BY <2>1 DEF OneOwner
<1>12. ASSUME NEW e \in 1 .. whole PROVE Owned(Bags, e) /\ released[e] = 0
  <2>1. e \in 1 .. s.USIZE /\ Bags[h][e] = e /\ h \in Places
    BY <1>1, <1>2, <1>10, PlacesAre
  <2>2. Owned(Bags, e)
    BY <1>10, <2>1 DEF Owned
  <2>3. e \in Elems
    BY <1>1, <2>1 DEF Elems, Lengths
  <2> QED BY <1>3, <2>2, <2>3
<1>13. OwnedOnce
  BY <1>11, <1>12 DEF OwnedOnce
<1> QED BY <1>7, <1>8, <1>9, <1>13 DEF IInv

\* Every call, and every step of a call, keeps the invariant.
LEMMA StepInv == IInv /\ [Next]_vars => IInv'
<1> SUFFICES ASSUME IInv, [Next]_vars PROVE IInv'
  OBVIOUS
<1>1. CASE UNCHANGED vars
  BY <1>1 DEF vars, IInv, TypeOK, OwnedOnce, OneOwner, Owned, Bags, Held, Sized, Span, Width,
              CallOK, IsSized
<1>2. ASSUME NEW h \in Handles, Convert(h) PROVE IInv'
  <2>1. CASE IntoChunks(h) \/ FromChunks(h) \/ IntoArray(h) \/ New(h) \/ Drop(h)
    BY <2>1, IntoChunksInv, FromChunksInv, IntoArrayInv, NewInv, DropInv
  <2>2. ASSUME NEW s \in Universe, Cast(h, s) \/ TryCast(h, s) \/ Truncate(h, s)
        PROVE  IInv'
    BY <2>2, CastInv, TruncateInv
  <2>3. ASSUME NEW g \in Handles, ConcatArrays(h, g) \/ Parts(h, g)
        PROVE  IInv'
    BY <2>3, ConcatInv, PartsInv
  <2> QED BY <1>2, <2>1, <2>2, <2>3 DEF Convert
<1>3. CASE DropElement \/ DropPanics
  <2>1. Dropping /\ Dropped /\ UNCHANGED <<arrays, whole>>
    BY <1>3 DEF DropElement, DropPanics
  <2>2. unwinding' \in BOOLEAN /\ aborted' \in BOOLEAN
    BY <1>3 DEF DropElement, DropPanics, IInv, TypeOK
  <2> QED BY <2>1, <2>2, DroppedInv
<1>4. CASE Return \/ UnwindPrefix \/ Caught
  BY <1>4, ReturnInv, UnwindPrefixInv, CaughtInv
<1> QED BY <1>1, <1>2, <1>3, <1>4 DEF Next

\* An array is typed and sized, and so is what a call has in its locals.
THEOREM Invariance == Spec => []IInv
BY InitInv, StepInv, PTL DEF Spec

\* Each element has one owner or was dropped once: after any conversions, and
\* while a destructor that panicked unwinds truncate.
THEOREM ElementsOwnedOnce == Spec => []OwnedOnce
<1>1. IInv => OwnedOnce
  BY DEF IInv
<1> QED BY <1>1, Invariance, PTL

\* The invariant of ArrayType: the storage of an array has as many elements as
\* its type says, through any chain of conversions.
THEOREM ArraysAreSized == Spec => []Sized
<1>1. IInv => Sized
  BY DEF IInv
<1> QED BY <1>1, Invariance, PTL

-----------------------------------------------------------------------------
(***************************************************************************)
(* The conversions implement OwnedSequences.                               *)
(***************************************************************************)

Pool == [h \in Handles |-> PoolOf(h)]

ArePools(P, as, c) ==
    /\ P = [h \in Handles |-> P[h]]
    /\ \A h \in Handles :
          P[h] = IF c # None /\ c.h = h THEN c.all
                 ELSE IF as[h] = None THEN None ELSE as[h].elems

LEMMA PoolNow == ArePools(Pool, arrays, call)
BY DEF ArePools, Pool, PoolOf

LEMMA PoolNext == ArePools(Pool', arrays', call')
BY DEF ArePools, Pool, PoolOf

\* Two pools are the same if they hold the same sequences.
LEMMA PoolsEqual ==
    ASSUME NEW P, NEW Q, P = [h \in Handles |-> P[h]], Q = [h \in Handles |-> Q[h]],
           \A h \in Handles : P[h] = Q[h]
    PROVE  P = Q
OBVIOUS

\* Nothing happens to the sequences.
LEMMA PoolKept ==
    ASSUME \A x \in Handles : Pool'[x] = Pool[x]
    PROVE  Pool' = Pool
BY PoolNow, PoolNext, PoolsEqual DEF ArePools

\* The sequence in h is dropped.
LEMMA PoolDrops ==
    ASSUME NEW h \in Handles, Pool[h] # None,
           \A x \in Handles : Pool'[x] = IF x = h THEN None ELSE Pool[x]
    PROVE  Promise!Drop(h)
<1> DEFINE Q == [Pool EXCEPT ![h] = None]
<1>1. Pool = [x \in Handles |-> Pool[x]] /\ Pool' = [x \in Handles |-> Pool'[x]]
  BY PoolNow, PoolNext DEF ArePools
<1>2. Q = [x \in Handles |-> Q[x]] /\ \A x \in Handles : Q[x] = Pool'[x]
  BY <1>1
<1> HIDE DEF Q
<1>3. Pool' = Q
  BY <1>1, <1>2, PoolsEqual
<1> QED BY <1>3 DEF Promise!Drop, Pool, Q

\* It becomes shorter.
LEMMA PoolShortens ==
    ASSUME NEW h \in Handles, Pool[h] # None, NEW n,
           \A x \in Handles : Pool'[x] = IF x = h THEN SubSeq(Pool[h], 1, n) ELSE Pool[x]
    PROVE  Promise!Shorten(h, n)
<1> DEFINE Q == [Pool EXCEPT ![h] = SubSeq(Pool[h], 1, n)]
<1>1. Pool = [x \in Handles |-> Pool[x]] /\ Pool' = [x \in Handles |-> Pool'[x]]
  BY PoolNow, PoolNext DEF ArePools
<1>2. Q = [x \in Handles |-> Q[x]] /\ \A x \in Handles : Q[x] = Pool'[x]
  BY <1>1
<1> HIDE DEF Q
<1>3. Pool' = Q
  BY <1>1, <1>2, PoolsEqual
<1> QED BY <1>3 DEF Promise!Shorten, Promise!First, Pool, Q

\* Two are joined.
LEMMA PoolJoins ==
    ASSUME NEW h \in Handles, NEW g \in Handles, h # g, Pool[h] # None, Pool[g] # None,
           \A x \in Handles : Pool'[x] = IF x = h THEN Pool[h] \o Pool[g]
                                         ELSE IF x = g THEN None ELSE Pool[x]
    PROVE  Promise!Join(h, g)
<1> DEFINE Q == [Pool EXCEPT ![h] = Pool[h] \o Pool[g], ![g] = None]
<1>1. Pool = [x \in Handles |-> Pool[x]] /\ Pool' = [x \in Handles |-> Pool'[x]]
  BY PoolNow, PoolNext DEF ArePools
<1>2. Q = [x \in Handles |-> Q[x]] /\ \A x \in Handles : Q[x] = Pool'[x]
  BY <1>1
<1> HIDE DEF Q
<1>3. Pool' = Q
  BY <1>1, <1>2, PoolsEqual
<1> QED BY <1>3 DEF Promise!Join, Pool, Q

\* One is cut in two.
LEMMA PoolCuts ==
    ASSUME NEW h \in Handles, NEW g \in Handles, h # g, Pool[h] # None, Pool[g] = None, NEW n,
           \A x \in Handles : Pool'[x] = IF x = h THEN SubSeq(Pool[h], 1, n)
                                         ELSE IF x = g THEN SubSeq(Pool[h], n + 1, Len(Pool[h]))
                                         ELSE Pool[x]
    PROVE  Promise!Cut(h, g, n)
<1> DEFINE Q == [Pool EXCEPT ![h] = SubSeq(Pool[h], 1, n),
                             ![g] = SubSeq(Pool[h], n + 1, Len(Pool[h]))]
<1>1. Pool = [x \in Handles |-> Pool[x]] /\ Pool' = [x \in Handles |-> Pool'[x]]
  BY PoolNow, PoolNext DEF ArePools
<1>2. Q = [x \in Handles |-> Q[x]] /\ \A x \in Handles : Q[x] = Pool'[x]
  BY <1>1
<1> HIDE DEF Q
<1>3. Pool' = Q
  BY <1>1, <1>2, PoolsEqual
<1> QED BY <1>3 DEF Promise!Cut, Promise!First, Promise!Rest, Pool, Q

\* The sequences that the client holds, between calls and during one.
LEMMA PoolIdle ==
    ASSUME IInv, call = None, NEW h \in Handles
    PROVE  /\ Pool[h] = IF arrays[h] = None THEN None ELSE arrays[h].elems
           /\ arrays[h] # None => Pool[h] \in Seq(Nat) /\ Pool[h] # None
<1>1. Pool[h] = IF arrays[h] = None THEN None ELSE arrays[h].elems
  BY PoolNow DEF ArePools
<1>2. arrays[h] # None => arrays[h].elems \in Seq(Nat)
  BY ArrayFields DEF IInv, TypeOK
<1> QED BY <1>1, <1>2, NoneAssumption

LEMMA PoolCalled ==
    ASSUME IInv, call # None
    PROVE  /\ call \in CallType /\ call.h \in Handles /\ call.all \in Seq(Nat)
           /\ Pool[call.h] = call.all /\ Pool[call.h] # None
<1>1. call \in CallType /\ call.h \in Handles /\ call.all \in Seq(Nat)
  BY CallFields DEF IInv, TypeOK
<1>2. Pool[call.h] = call.all
  BY <1>1, PoolNow DEF ArePools
<1> QED BY <1>1, <1>2, NoneAssumption

\* A conversion to another type keeps the elements.
LEMMA RetypePool ==
    ASSUME IInv, NEW h \in Handles, call = None, call' = None, arrays[h] # None,
           NEW a, a # None, a.elems = arrays[h].elems, arrays' = [arrays EXCEPT ![h] = a]
    PROVE  Pool' = Pool
<1>1. \A x \in Handles : arrays'[x] = IF x = h THEN a ELSE arrays[x]
  BY DEF IInv, TypeOK
<1>2. \A x \in Handles : Pool'[x] = Pool[x]
  BY <1>1, PoolNow, PoolNext DEF ArePools
<1> QED BY <1>2, PoolKept

LEMMA TransmutePool ==
    ASSUME IInv, NEW h \in Handles, Takes(h),
           NEW size \in Universe, NEW of \in Universe \cup {None}, NEW plain \in BOOLEAN,
           Transmute(h, size, of, plain)
    PROVE  Pool' = Pool
<1> DEFINE a == ArrayOf(size, of, plain, arrays[h].elems)
<1>1. a.elems = arrays[h].elems /\ a # None
  <2>1. Builds(a, size, of, plain, arrays[h].elems)
    BY Taken, Constructed, Zenon
  <2> HIDE DEF a
  <2> QED BY <2>1 DEF Builds
<1>2. arrays' = [arrays EXCEPT ![h] = a] /\ call' = call
  BY DEF Transmute
<1> HIDE DEF a
<1> QED BY <1>1, <1>2, Taken, RetypePool

LEMMA CastPool ==
    ASSUME IInv, NEW h \in Handles, NEW s \in Universe, Cast(h, s) \/ TryCast(h, s)
    PROVE  Pool' = Pool
<1>1. CASE UNCHANGED vars
  BY <1>1 DEF vars, Pool, PoolOf
<1>2. CASE Takes(h) /\ Transmute(h, s, arrays[h].of, FALSE)
  BY <1>2, Taken, TransmutePool
<1> QED BY <1>1, <1>2 DEF Cast, TryCast

LEMMA ChunksPool ==
    ASSUME IInv, NEW h \in Handles, IntoChunks(h) \/ FromChunks(h) \/ IntoArray(h)
    PROVE  Pool' = Pool
<1>1. CASE IntoChunks(h)
  <2>1. /\ Takes(h) /\ arrays[h].size.kind = "Prod"
        /\ Transmute(h, arrays[h].size.parts[1], arrays[h].size.parts[2], FALSE)
    BY <1>1 DEF IntoChunks
  <2>2. arrays[h].size.parts[1] \in Universe /\ arrays[h].size.parts[2] \in Universe
    BY <2>1, Taken, PartsOf
  <2> QED BY <2>1, <2>2, TransmutePool
<1>2. CASE FromChunks(h)
  <2>1. /\ Takes(h) /\ Prod(arrays[h].size, arrays[h].of) \in Universe
        /\ Transmute(h, Prod(arrays[h].size, arrays[h].of), None, FALSE)
    BY <1>2 DEF FromChunks
  <2> QED BY <2>1, TransmutePool
<1>3. CASE IntoArray(h)
  <2>1. Takes(h) /\ Transmute(h, arrays[h].size, arrays[h].of, TRUE)
    BY <1>3 DEF IntoArray
  <2> QED BY <2>1, Taken, TransmutePool
<1> QED BY <1>1, <1>2, <1>3

LEMMA NewPool == ASSUME IInv, NEW h \in Handles, New(h) PROVE Pool' = Pool
<1> DEFINE old == arrays[h]
           a == [old EXCEPT !.plain = FALSE]
<1>1. /\ call = None /\ call' = None /\ old # None /\ arrays' = [arrays EXCEPT ![h] = a]
  BY DEF New, Idle
<1>2. old \in ArrayType
  BY <1>1 DEF IInv, TypeOK
<1>3. a \in ArrayType /\ a.elems = old.elems
  <2> HIDE DEF old
  <2> QED BY <1>2 DEF ArrayType
<1>4. a # None
  BY <1>3, NoneAssumption
<1> HIDE DEF a
<1> QED BY <1>1, <1>3, <1>4, RetypePool

LEMMA ConcatPool ==
    ASSUME IInv, NEW h \in Handles, NEW g \in Handles, ConcatArrays(h, g)
    PROVE  Promise!Join(h, g)
<1> DEFINE a == arrays[h]
           b == arrays[g]
           s == a.elems \o b.elems
           c == Joined(a, b)
<1>1. /\ Takes(h) /\ Takes(g) /\ h # g /\ Sum(a.size, b.size) \in Universe
      /\ arrays' = [arrays EXCEPT ![h] = c, ![g] = None] /\ call' = call
  BY DEF ConcatArrays
<1>2. /\ call = None /\ a # None /\ b # None /\ a.elems \in Seq(Nat) /\ b.elems \in Seq(Nat)
      /\ a.of \in Universe \cup {None}
  BY <1>1, Taken
<1>3. s \in Seq(Nat)
  BY <1>2, ConcatProperties
<1>4. c # None /\ c.elems = s
  <2>1. Builds(c, Sum(a.size, b.size), a.of, FALSE, s)
    BY <1>1, <1>2, <1>3, Constructed, Zenon DEF Joined
  <2> HIDE DEF c
  <2> QED BY <2>1 DEF Builds
<1> HIDE DEF c
<1>5. \A x \in Handles :
         arrays'[x] = IF x = h THEN c ELSE IF x = g THEN None ELSE arrays[x]
  BY <1>1 DEF IInv, TypeOK
<1>6. Pool[h] = a.elems /\ Pool[g] = b.elems /\ Pool[h] # None /\ Pool[g] # None
  BY <1>2, PoolIdle
<1>7. ASSUME NEW x \in Handles
      PROVE  Pool'[x] = IF x = h THEN Pool[h] \o Pool[g] ELSE IF x = g THEN None ELSE Pool[x]
  <2>1. Pool'[x] = IF arrays'[x] = None THEN None ELSE arrays'[x].elems
    BY <1>1, <1>2, PoolNext DEF ArePools
  <2>2. Pool[x] = IF arrays[x] = None THEN None ELSE arrays[x].elems
    BY <1>2, PoolIdle
  <2> HIDE DEF a, b
  <2>3. c.elems = Pool[h] \o Pool[g]
    BY <1>4, <1>6
  <2> HIDE DEF s
  <2> QED BY <1>4, <1>5, <2>1, <2>2, <2>3
<1> QED BY <1>1, <1>6, <1>7, PoolJoins

LEMMA PartsPool ==
    ASSUME IInv, NEW h \in Handles, NEW g \in Handles, Parts(h, g)
    PROVE  \E n \in 0 .. Len(Pool[h]) : Pool[h] # None /\ Promise!Cut(h, g, n)
<1> DEFINE a == arrays[h]
           first == a.size.parts[1]
           cut == Span(a, first.USIZE)
           b == Field(a, 1)
           c == Field(a, 2)
<1>1. /\ Takes(h) /\ arrays[g] = None /\ a.size.kind = "Sum"
      /\ arrays' = [arrays EXCEPT ![h] = b, ![g] = c] /\ call' = call
  BY DEF Parts
<1>2. /\ call = None /\ a # None /\ a \in ArrayType /\ a.size \in Universe
      /\ a.of \in Universe \cup {None} /\ a.elems \in Seq(Nat)
      /\ Len(a.elems) = a.size.USIZE * Width(a)
  BY <1>1, Taken
<1>3. h # g
  BY <1>1, <1>2
<1> HIDE DEF a
<1>4. /\ first \in Universe /\ a.size.parts[2] \in Universe
      /\ a.size.USIZE = first.USIZE + a.size.parts[2].USIZE
  BY <1>1, <1>2, PartsOf
<1>5. cut = first.USIZE * Width(a) /\ cut \in 0 .. Len(a.elems)
  <2>1. first.USIZE \in Nat /\ a.size.USIZE \in Nat /\ a.size.parts[2].USIZE \in Nat
        /\ Width(a) \in Nat
    BY <1>2, <1>4, LengthFacts, Widths
  <2> HIDE DEF first
  <2>2. first.USIZE * Width(a) <= a.size.USIZE * Width(a)
    BY <1>4, <2>1, SpansGrow
  <2>3. first.USIZE * Width(a) \in Nat /\ a.size.USIZE * Width(a) \in Nat
    BY <2>1, Spans
  <2>4. cut = first.USIZE * Width(a)
    BY DEF Span
  <2> HIDE DEF cut
  <2> QED BY <1>2, <2>2, <2>3, <2>4
<1>6. /\ b = ArrayOf(first, a.of, FALSE, SubSeq(a.elems, 1, cut))
      /\ c = ArrayOf(a.size.parts[2], a.of, FALSE, SubSeq(a.elems, cut + 1, Len(a.elems)))
  BY DEF Field
<1> HIDE DEF cut, first, b, c
<1>7. SubSeq(a.elems, 1, cut) \in Seq(Nat) /\ SubSeq(a.elems, cut + 1, Len(a.elems)) \in Seq(Nat)
  BY <1>2, <1>5, CutAt
<1>8. /\ b # None /\ b.elems = SubSeq(a.elems, 1, cut)
      /\ c # None /\ c.elems = SubSeq(a.elems, cut + 1, Len(a.elems))
  <2>1. /\ Builds(b, first, a.of, FALSE, SubSeq(a.elems, 1, cut))
        /\ Builds(c, a.size.parts[2], a.of, FALSE, SubSeq(a.elems, cut + 1, Len(a.elems)))
    BY <1>2, <1>4, <1>6, <1>7, Constructed, Zenon
  <2> QED BY <2>1 DEF Builds
<1>9. \A x \in Handles : arrays'[x] = IF x = g THEN c ELSE IF x = h THEN b ELSE arrays[x]
  BY <1>1 DEF IInv, TypeOK
<1>10. Pool[h] = a.elems /\ Pool[h] # None /\ Pool[g] = None
  BY <1>1, <1>2, PoolIdle DEF a
<1>11. ASSUME NEW x \in Handles
       PROVE  Pool'[x] = IF x = h THEN SubSeq(Pool[h], 1, cut)
                         ELSE IF x = g THEN SubSeq(Pool[h], cut + 1, Len(Pool[h]))
                         ELSE Pool[x]
  <2>1. Pool'[x] = IF arrays'[x] = None THEN None ELSE arrays'[x].elems
    BY <1>1, <1>2, PoolNext DEF ArePools
  <2>2. Pool[x] = IF arrays[x] = None THEN None ELSE arrays[x].elems
    BY <1>2, PoolIdle
  <2>3. b.elems = SubSeq(Pool[h], 1, cut) /\ c.elems = SubSeq(Pool[h], cut + 1, Len(Pool[h]))
    BY <1>8, <1>10
  <2> QED BY <1>3, <1>8, <1>9, <2>1, <2>2, <2>3
<1>12. Promise!Cut(h, g, cut)
  BY <1>3, <1>10, <1>11, PoolCuts
<1> QED BY <1>5, <1>10, <1>12

\* A call that starts still holds its sequence.
LEMMA StartsPool ==
    ASSUME IInv, NEW h \in Handles, Idle, arrays[h] # None,
           NEW prefix \in ArrayType \cup {None}, NEW rest \in Seq(Nat), Starts(h, prefix, rest)
    PROVE  Pool' = Pool
<1> DEFINE s == arrays[h].elems
           c == [h |-> h, all |-> s, prefix |-> prefix, rest |-> rest]
<1>1. call = None /\ s \in Seq(Nat)
  BY ArrayFields DEF Idle, IInv, TypeOK
<1>2. call' = c
  BY DEF Starts
<1> HIDE DEF s
<1>3. c \in CallType /\ c.h = h /\ c.all = s
  BY <1>1 DEF CallType
<1> HIDE DEF c
<1>4. call' # None
  BY <1>2, <1>3, NoneAssumption
<1>5. \A x \in Handles : arrays'[x] = IF x = h THEN None ELSE arrays[x]
  BY DEF Starts, IInv, TypeOK
<1>6. Pool[h] = s
  BY <1>1, PoolIdle DEF s
<1>7. \A x \in Handles : Pool'[x] = Pool[x]
  BY <1>1, <1>2, <1>3, <1>4, <1>5, <1>6, PoolIdle, PoolNext DEF ArePools
<1> QED BY <1>7, PoolKept

\* It holds it while destructors run.
LEMMA RunningPool ==
    ASSUME IInv, call # None, call' # None, UNCHANGED arrays,
           call'.h = call.h, call'.all = call.all
    PROVE  Pool' = Pool
<1>1. \A x \in Handles : Pool'[x] = Pool[x]
  BY PoolNow, PoolNext DEF ArePools
<1> QED BY <1>1, PoolKept

LEMMA DroppedPool == ASSUME IInv, Dropping, Dropped, UNCHANGED arrays PROVE Pool' = Pool
<1>1. call \in CallType /\ call # None /\ call.rest \in Seq(Nat) /\ call.rest # <<>>
  BY PoolCalled, CallFields DEF Dropping
<1>2. call' = [call EXCEPT !.rest = Tail(call.rest)] /\ Tail(call.rest) \in Seq(Nat)
  BY <1>1, HeadTailProperties DEF Dropped
<1>3. call' \in CallType /\ call'.h = call.h /\ call'.all = call.all
  BY <1>1, <1>2 DEF CallType
<1> QED BY <1>1, <1>3, NoneAssumption, RunningPool

LEMMA UnwindPrefixPool == ASSUME IInv, UnwindPrefix PROVE Pool' = Pool
<1>1. call \in CallType /\ call # None /\ call.prefix \in ArrayType
  BY PoolCalled, CallFields DEF UnwindPrefix, Ends
<1>2. call' = [call EXCEPT !.prefix = None, !.rest = call.prefix.elems] /\ UNCHANGED arrays
  BY DEF UnwindPrefix
<1>3. call.prefix.elems \in Seq(Nat)
  BY <1>1, ArrayFields
<1>4. call' \in CallType /\ call'.h = call.h /\ call'.all = call.all
  BY <1>1, <1>2, <1>3 DEF CallType
<1> QED BY <1>1, <1>2, <1>4, NoneAssumption, RunningPool

\* It loses it, or keeps the first part, when it returns.
LEMMA ReturnPool ==
    ASSUME IInv, Return
    PROVE  \/ Promise!Drop(call.h)
           \/ \E n \in 0 .. Len(Pool[call.h]) : Promise!Shorten(call.h, n)
<1>1. /\ Ends /\ call # None /\ call' = None
      /\ arrays' = [arrays EXCEPT ![call.h] = call.prefix]
  BY DEF Return, Ends
<1>2. call.h \in Handles /\ Pool[call.h] = call.all /\ Pool[call.h] # None
  BY <1>1, PoolCalled
<1>3. \A x \in Handles : arrays'[x] = IF x = call.h THEN call.prefix ELSE arrays[x]
  BY <1>1, <1>2 DEF IInv, TypeOK
<1>4. \A x \in Handles :
         Pool'[x] = IF x = call.h
                    THEN IF call.prefix = None THEN None ELSE call.prefix.elems
                    ELSE Pool[x]
  BY <1>1, <1>3, PoolNow, PoolNext DEF ArePools
<1>5. CASE call.prefix = None
  BY <1>2, <1>4, <1>5, PoolDrops
<1>6. CASE call.prefix # None
  <2>1. PICK n \in 0 .. Len(call.all) : call.prefix.elems = SubSeq(call.all, 1, n)
    BY <1>1, <1>6 DEF IInv, CallOK
  <2>2. Promise!Shorten(call.h, n)
    BY <1>2, <1>4, <1>6, <2>1, PoolShortens
  <2> QED BY <1>2, <2>2
<1> QED BY <1>5, <1>6

LEMMA CaughtPool == ASSUME IInv, Caught PROVE Promise!Drop(call.h)
<1>1. call # None /\ call' = None /\ UNCHANGED arrays
  BY DEF Caught, Ends
<1>2. call.h \in Handles /\ Pool[call.h] # None /\ arrays[call.h] = None
  BY <1>1, PoolCalled DEF IInv, CallOK
<1>3. \A x \in Handles : Pool'[x] = IF x = call.h THEN None ELSE Pool[x]
  BY <1>1, <1>2, PoolNow, PoolNext DEF ArePools
<1> QED BY <1>2, <1>3, PoolDrops

\* Every step is a step of the promise, or none.
LEMMA Simulates == ASSUME IInv, [Next]_vars PROVE [Promise!Next]_Pool
<1>1. CASE UNCHANGED vars
  BY <1>1 DEF vars, Pool, PoolOf
<1>2. ASSUME NEW h \in Handles, Convert(h) PROVE Promise!Next \/ Pool' = Pool
  <2>1. CASE IntoChunks(h) \/ FromChunks(h) \/ IntoArray(h) \/ New(h)
    BY <2>1, ChunksPool, NewPool
  <2>2. CASE Drop(h)
    <3>1. Idle /\ arrays[h] # None /\ Starts(h, None, arrays[h].elems)
      BY <2>2 DEF Drop
    <3>2. arrays[h].elems \in Seq(Nat)
      BY <3>1, ArrayFields DEF IInv, TypeOK
    <3> QED BY <3>1, <3>2, StartsPool
  <2>3. ASSUME NEW s \in Universe, Cast(h, s) \/ TryCast(h, s) PROVE Pool' = Pool
    BY <2>3, CastPool
  <2>4. ASSUME NEW s \in Universe, Truncate(h, s) PROVE Pool' = Pool
    BY <2>4, TruncateStarts, StartsPool
  <2>5. ASSUME NEW g \in Handles, ConcatArrays(h, g) PROVE Promise!Next
    BY <2>5, ConcatPool DEF Promise!Next
  <2>6. ASSUME NEW g \in Handles, Parts(h, g) PROVE Promise!Next
    BY <2>6, PartsPool DEF Promise!Next, Pool
  <2> QED BY <1>2, <2>1, <2>2, <2>3, <2>4, <2>5, <2>6 DEF Convert
<1>3. CASE DropElement \/ DropPanics
  BY <1>3, DroppedPool DEF DropElement, DropPanics
<1>4. CASE UnwindPrefix
  BY <1>4, UnwindPrefixPool
<1>5. CASE Caught
  <2>1. call.h \in Handles
    BY <1>5, PoolCalled DEF Caught, Ends
  <2> QED BY <1>5, <2>1, CaughtPool DEF Promise!Next
<1>6. CASE Return
  <2>1. call.h \in Handles /\ Pool[call.h] # None
    BY <1>6, PoolCalled DEF Return, Ends
  <2> QED BY <1>6, <2>1, ReturnPool DEF Promise!Next, Pool
<1> QED BY <1>1, <1>2, <1>3, <1>4, <1>5, <1>6 DEF Next

LEMMA InitPool == Init => Promise!Init
<1> SUFFICES ASSUME Init PROVE Promise!Init
  OBVIOUS
<1>1. PICK s \in Universe, h \in Handles :
        arrays = [g \in Handles |->
                     IF g = h THEN ArrayOf(s, None, FALSE, [k \in 1 .. s.USIZE |-> k])
                              ELSE None]
  BY DEF Init
<1> DEFINE n == s.USIZE
           f == [k \in 1 .. n |-> k]
           a == ArrayOf(s, None, FALSE, f)
           P == [g \in Handles |-> IF g = h THEN f ELSE None]
<1>2. n \in Lengths /\ f \in Seq(Nat) /\ call = None
  BY LengthFacts, FirstElements DEF Lengths, Init
<1>3. \A g \in Handles : arrays[g] = IF g = h THEN a ELSE None
  BY <1>1
<1>4. a # None /\ a.elems = f
  <2>1. Builds(a, s, None, FALSE, f)
    BY <1>2, Constructed, Zenon
  <2> HIDE DEF a, f
  <2> QED BY <2>1 DEF Builds
<1>5. Pool = P
  <2>1. \A g \in Handles : P[g] = IF g = h THEN f ELSE None
    <3> HIDE DEF f
    <3> QED OBVIOUS
  <2>2. P = [g \in Handles |-> P[g]]
    <3> HIDE DEF f
    <3> QED OBVIOUS
  <2> HIDE DEF P, f, a
  <2>3. \A g \in Handles : Pool[g] = P[g]
    BY <1>2, <1>3, <1>4, <2>1, PoolNow DEF ArePools
  <2> QED BY <2>2, <2>3, PoolNow, PoolsEqual DEF ArePools
<1> QED BY <1>2, <1>5, Zenon DEF Promise!Init, Pool

\* No conversion reorders elements: concat and parts are inverse to each other,
\* truncate keeps the first elements, and a call that unwinds or returns
\* consumes the whole array or the elements behind the prefix.
THEOREM ConversionsKeepOrder == Spec => KeepsOrder
<1>1. IInv /\ [Next]_vars => [Promise!Next]_Pool
  BY Simulates
<1> QED BY <1>1, InitPool, Invariance, PTL DEF Spec, KeepsOrder, Promise!Spec, Pool

=============================================================================
