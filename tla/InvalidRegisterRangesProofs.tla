---------------------- MODULE InvalidRegisterRangesProofs ----------------------
(***************************************************************************)
(* The list of invalid registers stands for exactly the registers that     *)
(* were added to it, for every set of registers and every order.           *)
(***************************************************************************)
EXTENDS InvalidRegisterRanges, SequenceTheorems, TLAPS

LEMMA InitTyped == Init => TypeOK
  BY DEF Init, TypeOK

LEMMA ElementTyped ==
    ASSUME TypeOK, NEW i \in DOMAIN ranges
    PROVE  /\ ranges[i] \in RegisterRange
           /\ ranges[i].start \in Nat /\ ranges[i].count \in Nat
           /\ ranges[i] = [start |-> ranges[i].start, count |-> ranges[i].count]
<1>1. ranges \in Seq(RegisterRange) /\ DOMAIN ranges = 1 .. Len(ranges)
  BY LenProperties DEF TypeOK
<1>2. ranges[i] \in RegisterRange
  BY <1>1, ElementOfSeq
<1> QED BY <1>2 DEF RegisterRange

LEMMA AddTyped ==
    ASSUME TypeOK, NEW r \in Registers, Add(r)
    PROVE  TypeOK'
<1> USE RegistersAssumption DEF TypeOK, RegisterRange
<1>1. added' \subseteq Registers
  BY DEF Add
<1>2. ranges' \in Seq(RegisterRange)
  <2>1. CASE \E i \in DOMAIN ranges : ranges' = [ranges EXCEPT ![i].count = @ + 1]
    <3>1. PICK i \in DOMAIN ranges : ranges' = [ranges EXCEPT ![i].count = @ + 1]
      BY <2>1
    <3>2. ranges[i] \in RegisterRange
      BY ElementTyped
    <3>3. [ranges[i] EXCEPT !.count = @ + 1] \in RegisterRange
      BY <3>2
    <3> QED BY <3>1, <3>3
  <2>2. CASE UNCHANGED ranges
    BY <2>2
  <2>3. CASE ranges' = Append(ranges, [start |-> r, count |-> 1])
    BY <2>3
  <2> QED BY <2>1, <2>2, <2>3 DEF Add
<1> QED BY <1>1, <1>2

(* The list is well typed.                                                  *)
THEOREM TypeCorrect == Spec => []TypeOK
<1>1. TypeOK /\ [Next]_vars => TypeOK'
  BY AddTyped DEF Next, vars, TypeOK
<1> QED BY InitTyped, <1>1, PTL DEF Spec

-------------------------------------------------------------------------------
(* Growing one range by one adds exactly the register at its end.           *)
LEMMA GrowAddsEnd ==
    ASSUME TypeOK, NEW r \in Registers, NEW i \in DOMAIN ranges,
           AtEnd(r, ranges[i]), ranges' = [ranges EXCEPT ![i].count = @ + 1]
    PROVE  Held' = Held \cup {r}
<1>1. /\ DOMAIN ranges' = DOMAIN ranges
      /\ \A j \in DOMAIN ranges : j # i => ranges'[j] = ranges[j]
      /\ ranges'[i].start = ranges[i].start
      /\ ranges'[i].count = ranges[i].count + 1
  BY ElementTyped DEF TypeOK
<1>2. Listed(ranges'[i]) = Listed(ranges[i]) \cup {r}
  BY <1>1, ElementTyped DEF Listed, AtEnd
<1>3. \A j \in DOMAIN ranges : j # i => Listed(ranges'[j]) = Listed(ranges[j])
  BY <1>1 DEF Listed
<1>4. ASSUME NEW x
      PROVE  x \in Held' <=> x \in Held \/ x = r
  <2>1. x \in Held' <=> \E j \in DOMAIN ranges : x \in Listed(ranges'[j])
    BY <1>1 DEF Held
  <2>2. x \in Held <=> \E j \in DOMAIN ranges : x \in Listed(ranges[j])
    BY DEF Held
  <2> QED BY <2>1, <2>2, <1>2, <1>3
<1> QED BY <1>4

(* A register that no range can take becomes a range of its own.            *)
LEMMA AppendAddsOne ==
    ASSUME TypeOK, NEW r \in Registers,
           ranges' = Append(ranges, [start |-> r, count |-> 1])
    PROVE  Held' = Held \cup {r}
<1> DEFINE n == Len(ranges) + 1
<1>1. /\ DOMAIN ranges' = DOMAIN ranges \cup {n}
      /\ \A j \in DOMAIN ranges : ranges'[j] = ranges[j]
      /\ ranges'[n] = [start |-> r, count |-> 1]
  BY DEF TypeOK
<1>2. Listed(ranges'[n]) = {r}
  BY <1>1, RegistersAssumption DEF Listed
<1>3. \A j \in DOMAIN ranges : Listed(ranges'[j]) = Listed(ranges[j])
  BY <1>1 DEF Listed
<1>4. ASSUME NEW x
      PROVE  x \in Held' <=> x \in Held \/ x = r
  <2>1. x \in Held' <=> \E j \in DOMAIN ranges \cup {n} : x \in Listed(ranges'[j])
    BY <1>1 DEF Held
  <2>2. x \in Held <=> \E j \in DOMAIN ranges : x \in Listed(ranges[j])
    BY DEF Held
  <2> HIDE DEF n
  <2> QED BY <2>1, <2>2, <1>2, <1>3
<1> QED BY <1>4

(* The list holds the registers that were added, and no other.              *)
THEOREM HoldsWhatWasAdded == Spec => []Represents
<1>1. Init => Represents
  BY DEF Init, Represents, Held
<1>2. ASSUME TypeOK, Represents, [Next]_vars
      PROVE  Represents'
  <2>1. ASSUME NEW r \in Registers, Add(r)
        PROVE  Represents'
    <3>1. CASE \E i \in DOMAIN ranges : In(r, ranges[i]) /\ UNCHANGED ranges
      <4>1. r \in Held /\ Held' = Held
        BY <3>1 DEF Held, In
      <4> QED BY <4>1, <1>2, <2>1 DEF Add, Represents
    <3>2. CASE \E i \in DOMAIN ranges :
                 AtEnd(r, ranges[i]) /\ ranges' = [ranges EXCEPT ![i].count = @ + 1]
      BY <3>2, <1>2, <2>1, GrowAddsEnd DEF Add, Represents
    <3>3. CASE ranges' = Append(ranges, [start |-> r, count |-> 1])
      BY <3>3, <1>2, <2>1, AppendAddsOne DEF Add, Represents
    <3> QED BY <2>1, <3>1, <3>2, <3>3 DEF Add
  <2>2. CASE UNCHANGED vars
    BY <1>2, <2>2 DEF vars, Represents, Held
  <2> QED BY <1>2, <2>1, <2>2 DEF Next
<1> QED BY <1>1, <1>2, TypeCorrect, PTL DEF Spec
===============================================================================
