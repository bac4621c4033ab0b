--------------------------- MODULE InPlace_proofs ---------------------------
(***************************************************************************)
(* An update in place never confuses the ownership of elements, nor does   *)
(* it skip or mix up any, for arrays of every length, any number of calls, *)
(* and wherever client code panics.                                        *)
(***************************************************************************)
EXTENDS InPlace, TLAPS

Numbers ==
    /\ made \in Nat /\ calls \in Nat /\ completed \in 0 .. calls /\ i \in 0 .. N
    /\ slots \in [Slots -> Elems] /\ released \in [Elems -> Nat]
    /\ DOMAIN from = Slots /\ from = [k \in Slots |-> <<from[k][1], k>>]
    /\ \A k \in Slots : from[k][1] \in completed .. calls

\* The elements before i are from the current call.
InCall == pc = "update" => \A k \in Slots : k < i => from[k][1] = calls

IInv == Numbers /\ OwnsItsElements /\ UpdatesPrefix /\ InCall

LEMMA InitInv == Init => IInv
<1> SUFFICES ASSUME Init PROVE IInv
  OBVIOUS
<1> USE LenAssumption DEF Init, Slots, Elems
<1>1. Numbers /\ UpdatesPrefix /\ InCall
  BY DEF Numbers, UpdatesPrefix, InCall
<1>2. OwnsItsElements
  BY DEF OwnsItsElements, Owned
<1> QED BY <1>1, <1>2 DEF IInv

\* What client code does to the slot i: nothing, or all of an update.
LEMMA ElementInv ==
    ASSUME IInv, AtElement, Keep \/ Replace, Updated \/ UNCHANGED from,
           pc' \in {"update", "idle"}
    PROVE  /\ made' \in Nat /\ slots' \in [Slots -> Elems'] /\ released' \in [Elems' -> Nat]
           /\ OwnsItsElements'
<1> USE LenAssumption DEF Slots, Elems
<1>1. pc = "update" /\ i \in Slots /\ made \in Nat /\ slots \in [Slots -> 0 .. made - 1]
      /\ released \in [0 .. made - 1 -> Nat]
  BY DEF IInv, Numbers, AtElement
<1>2. /\ \A j, k \in Slots : j # k => slots[j] # slots[k]
      /\ \A e \in 0 .. made - 1 : released[e] = IF \E k \in Slots : slots[k] = e THEN 0 ELSE 1
  BY <1>1 DEF IInv, OwnsItsElements, Owned
<1>3. CASE Keep
  BY <1>1, <1>2, <1>3 DEF Keep, OwnsItsElements, Owned
<1>4. CASE Replace
  <2>1. /\ made' = made + 1 /\ slots' = [slots EXCEPT ![i] = made]
        /\ released' = [e \in 0 .. made |->
                          IF e = made THEN 0
                          ELSE IF e = slots[i] THEN released[e] + 1 ELSE released[e]]
    BY <1>4 DEF Replace
  <2>2. /\ slots' \in [Slots -> 0 .. made' - 1] /\ released' \in [0 .. made' - 1 -> Nat]
        /\ made' \in Nat /\ made' - 1 = made
    BY <1>1, <2>1
  <2>3. \A j, k \in Slots : j # k => slots'[j] # slots'[k]
    BY <1>1, <1>2, <2>1
  <2>4. ASSUME NEW e \in 0 .. made
        PROVE  released'[e] = IF \E k \in Slots : slots'[k] = e THEN 0 ELSE 1
    <3>1. CASE e = made
      BY <1>1, <2>1, <3>1
    <3>2. CASE e = slots[i]
      <4>1. e # made /\ released[e] = 0
        BY <1>1, <1>2, <3>2
      <4>2. ~ \E k \in Slots : slots'[k] = e
        BY <1>1, <1>2, <2>1, <3>2
      <4> QED BY <2>1, <3>2, <4>1, <4>2
    <3>3. CASE e # made /\ e # slots[i]
      <4>1. e \in 0 .. made - 1 /\ released'[e] = released[e]
        BY <1>1, <2>1, <3>3
      <4>2. (\E k \in Slots : slots'[k] = e) <=> (\E k \in Slots : slots[k] = e)
        BY <1>1, <2>1, <3>3
      <4> QED BY <1>2, <4>1, <4>2
    <3> QED BY <3>1, <3>2, <3>3
  <2> QED BY <2>2, <2>3, <2>4 DEF OwnsItsElements, Owned
<1> QED BY <1>3, <1>4

\* The slot i is from the current call now, and no later slot is newer.
LEMMA UpdatedInv ==
    ASSUME IInv, AtElement, Updated, calls' = calls, completed' = completed
    PROVE  /\ DOMAIN from' = Slots /\ from' = [k \in Slots |-> <<from'[k][1], k>>]
           /\ \A k \in Slots : from'[k][1] \in completed' .. calls'
           /\ UpdatesPrefix'
           /\ \A k \in Slots : k < i + 1 => from'[k][1] = calls
<1> USE LenAssumption DEF Slots
<1>1. /\ i \in Slots /\ calls \in Nat /\ completed \in 0 .. calls
      /\ DOMAIN from = Slots
      /\ \A k \in Slots : from[k][1] \in completed .. calls /\ from[k][2] = k
      /\ \A j, k \in Slots : j < k => from[j][1] >= from[k][1]
      /\ \A k \in Slots : k < i => from[k][1] = calls
  BY DEF IInv, Numbers, AtElement, UpdatesPrefix, InCall
<1>2. /\ DOMAIN from' = Slots /\ from'[i] = <<calls, i>>
      /\ \A k \in Slots : k # i => from'[k] = from[k]
  BY <1>1 DEF Updated
<1>3. from'[i][1] = calls /\ from'[i][2] = i
  BY <1>2
<1>4. \A k \in Slots : from'[k][1] \in completed .. calls /\ from'[k][2] = k
  BY <1>1, <1>2, <1>3
<1>5. \A k \in Slots : k < i + 1 => from'[k][1] = calls
  BY <1>1, <1>2, <1>3
<1>6. \A j, k \in Slots : j < k => from'[j][1] >= from'[k][1]
  BY <1>1, <1>2, <1>3, <1>4, <1>5
<1>7. from' = [k \in Slots |-> <<from'[k][1], k>>]
  <2>1. from' = [from EXCEPT ![i] = <<calls, i>>] /\ from = [k \in Slots |-> <<from[k][1], k>>]
    BY DEF Updated, IInv, Numbers
  <2>2. from' = [k \in Slots |-> from'[k]]
    BY <1>1, <2>1
  <2>3. \A k \in Slots : from'[k] = <<from'[k][1], k>>
    BY <1>1, <1>2, <1>3, <2>1
  <2> QED BY <2>2, <2>3
<1> QED BY <1>2, <1>4, <1>5, <1>6, <1>7 DEF UpdatesPrefix

LEMMA UpdatesInv == IInv /\ Updates => IInv'
<1> SUFFICES ASSUME IInv, Updates PROVE IInv'
  OBVIOUS
<1>1. /\ AtElement /\ Updated /\ (Keep \/ Replace) /\ i' = i + 1 /\ pc = "update" /\ pc' = pc
      /\ UNCHANGED <<calls, completed>> /\ i' \in 0 .. N
  BY LenAssumption DEF Updates, AtElement, IInv, Numbers
<1>2. /\ made' \in Nat /\ slots' \in [Slots -> Elems'] /\ released' \in [Elems' -> Nat]
      /\ OwnsItsElements'
  BY <1>1, ElementInv
<1>3. /\ DOMAIN from' = Slots /\ from' = [k \in Slots |-> <<from'[k][1], k>>]
      /\ \A k \in Slots : from'[k][1] \in completed' .. calls'
      /\ UpdatesPrefix'
      /\ \A k \in Slots : k < i + 1 => from'[k][1] = calls
  BY <1>1, UpdatedInv
<1>4. Numbers'
  BY <1>1, <1>2, <1>3 DEF Numbers, IInv, Slots
<1>5. InCall'
  BY <1>1, <1>3 DEF InCall, Slots
<1> QED BY <1>2, <1>3, <1>4, <1>5 DEF IInv

LEMMA PanicsInv == IInv /\ Panics => IInv'
<1> SUFFICES ASSUME IInv, Panics PROVE IInv'
  OBVIOUS
<1>1. /\ AtElement /\ (Updated \/ UNCHANGED from) /\ (Keep \/ Replace) /\ pc' = "idle"
      /\ UNCHANGED <<calls, i, completed>>
  BY DEF Panics
<1>2. /\ made' \in Nat /\ slots' \in [Slots -> Elems'] /\ released' \in [Elems' -> Nat]
      /\ OwnsItsElements'
  BY <1>1, ElementInv
<1>3. /\ DOMAIN from' = Slots /\ from' = [k \in Slots |-> <<from'[k][1], k>>]
      /\ \A k \in Slots : from'[k][1] \in completed' .. calls'
      /\ UpdatesPrefix'
  <2>1. CASE Updated
    BY <1>1, <2>1, UpdatedInv
  <2>2. CASE UNCHANGED from
    BY <1>1, <2>2 DEF IInv, Numbers, UpdatesPrefix, Slots
  <2> QED BY <1>1, <2>1, <2>2
<1>4. Numbers' /\ InCall'
  BY <1>1, <1>2, <1>3 DEF Numbers, IInv, InCall, Slots
<1> QED BY <1>2, <1>3, <1>4 DEF IInv

LEMMA ReturnsInv == IInv /\ Returns => IInv'
<1> SUFFICES ASSUME IInv, Returns PROVE IInv'
  OBVIOUS
<1> USE LenAssumption DEF Slots, Elems, Returns
<1>1. \A k \in Slots : from[k][1] = calls
  BY DEF IInv, Numbers, InCall
<1>2. Numbers' /\ UpdatesPrefix' /\ InCall'
  BY <1>1 DEF IInv, Numbers, UpdatesPrefix, InCall
<1>3. OwnsItsElements'
  BY DEF IInv, OwnsItsElements, Owned
<1> QED BY <1>2, <1>3 DEF IInv

LEMMA DropElementInv == IInv /\ DropElement => IInv'
<1> SUFFICES ASSUME IInv, DropElement PROVE IInv'
  OBVIOUS
<1> USE LenAssumption DEF Slots, Elems
<1>1. /\ pc = "drop" /\ pc' \in {"drop", "aborted"} /\ i \in Slots /\ i' = i + 1
      /\ released' = [released EXCEPT ![slots[i]] = @ + 1]
      /\ slots[i] \in Elems /\ UNCHANGED <<calls, slots, from, made, completed>>
  BY DEF DropElement, IInv, Numbers
<1>2. Numbers' /\ UpdatesPrefix' /\ InCall'
  BY <1>1 DEF IInv, Numbers, UpdatesPrefix, InCall
<1>3. OwnsItsElements'
  <2>1. \A j, k \in Slots : j # k => slots[j] # slots[k]
    BY DEF IInv, OwnsItsElements
  <2>2. ASSUME NEW e \in Elems, pc' = "drop"
        PROVE  released'[e] = IF \E k \in Slots : slots[k] = e /\ ~(k < i + 1) THEN 0 ELSE 1
    <3>1. released[e] = IF \E k \in Slots : slots[k] = e /\ ~(k < i) THEN 0 ELSE 1
      BY <1>1 DEF IInv, OwnsItsElements, Owned
    <3>2. CASE e = slots[i]
      <4>1. released'[e] = 1
        BY <1>1, <3>1, <3>2 DEF IInv, Numbers
      <4>2. ~ \E k \in Slots : slots[k] = e /\ ~(k < i + 1)
        BY <1>1, <2>1, <3>2
      <4> QED BY <4>1, <4>2
    <3>3. CASE e # slots[i]
      <4>1. released'[e] = released[e]
        BY <1>1, <3>3 DEF IInv, Numbers
      <4>2. \A k \in Slots : slots[k] = e => (k < i <=> k < i + 1)
        BY <1>1, <3>3
      <4> QED BY <3>1, <4>1, <4>2
    <3> QED BY <3>2, <3>3
  <2> QED BY <1>1, <2>1, <2>2 DEF OwnsItsElements, Owned
<1> QED BY <1>2, <1>3 DEF IInv

LEMMA StepInv == IInv /\ [Next]_vars => IInv'
<1> SUFFICES ASSUME IInv, [Next]_vars PROVE IInv'
  OBVIOUS
<1> USE LenAssumption DEF Slots, Elems, IInv, Numbers, UpdatesPrefix, InCall, OwnsItsElements, Owned
<1>1. CASE Call
  BY <1>1 DEF Call
<1>2. CASE Drop
  BY <1>2 DEF Drop
<1>3. CASE Dropped
  BY <1>3 DEF Dropped
<1>4. CASE UNCHANGED vars
  BY <1>4 DEF vars
<1> QED BY <1>1, <1>2, <1>3, <1>4, UpdatesInv, PanicsInv, ReturnsInv, DropElementInv DEF Next

THEOREM Invariance == Spec => []IInv
  BY InitInv, StepInv, PTL DEF Spec

\* No update, and no panic in it, makes the array own an element twice, lose
\* one or keep one that was dropped.
THEOREM UpdatesKeepOwnership == Spec => []OwnsItsElements
<1>1. IInv => OwnsItsElements
  BY DEF IInv
<1> QED BY <1>1, Invariance, PTL

\* After any number of updates and panics, what is left of each is a prefix.
THEOREM NothingSkipped == Spec => []UpdatesPrefix
<1>1. IInv => UpdatesPrefix
  BY DEF IInv
<1> QED BY <1>1, Invariance, PTL

=============================================================================
