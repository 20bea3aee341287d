--------------------------- MODULE ReadRangesProofs ---------------------------
(***************************************************************************)
(* What holds of the next request of a poll, for every profile, every      *)
(* max_read and every set of registers still wanted.                       *)
(***************************************************************************)
EXTENDS ReadRanges, WellFoundedInduction, TLAPS

(* Every set of addresses has a first one, and a bounded one a last one.    *)
LEMMA HasFirst ==
    ASSUME NEW S \in SUBSET Nat, S # {}
    PROVE  \E a \in S : \A b \in S : a <= b
<1> DEFINE Less == OpToRel(<, Nat)
<1>1. \E a \in S : \A b \in S : <<b, a>> \notin Less
  <2>1. IsWellFoundedOn(Less, Nat)
    BY NatLessThanWellFounded
  <2> HIDE DEF Less
  <2> QED BY <2>1, WFMin
<1>2. \A a, b \in Nat : <<b, a>> \notin Less => a <= b
  BY DEF OpToRel
<1> QED BY <1>1, <1>2

LEMMA HasLast ==
    ASSUME NEW S \in SUBSET Nat, S # {}, NEW n \in Nat, \A a \in S : a <= n
    PROVE  \E a \in S : \A b \in S : b <= a
<1> DEFINE T == {n - a : a \in S}
<1>1. T \in SUBSET Nat /\ T # {}
  <2>1. \A a \in S : n - a \in Nat
    OBVIOUS
  <2>2. PICK a \in S : TRUE
    OBVIOUS
  <2>3. n - a \in T
    OBVIOUS
  <2> QED BY <2>1, <2>3
<1>2. PICK t \in T : \A u \in T : t <= u
  <2> HIDE DEF T
  <2> QED BY <1>1, HasFirst
<1>3. PICK a \in S : t = n - a
  OBVIOUS
<1>4. \A b \in S : n - a <= n - b
  BY <1>2, <1>3
<1> QED BY <1>4

LEMMA FirstOfIsFirst ==
    ASSUME NEW S \in SUBSET Nat, S # {}
    PROVE  FirstOf(S) \in S /\ \A b \in S : FirstOf(S) <= b
BY HasFirst DEF FirstOf

LEMMA LastOfIsLast ==
    ASSUME NEW S \in SUBSET Nat, S # {}, NEW n \in Nat, \A a \in S : a <= n
    PROVE  LastOf(S) \in S /\ \A b \in S : b <= LastOf(S)
BY HasLast DEF LastOf

(* The next request starts and ends at wanted registers, is no longer than  *)
(* the adapter can read, covers no register the profile declares invalid,   *)
(* and reads individual registers on their own.                             *)
THEOREM FirstRequestAdmissible ==
    ASSUME NEW profile, NEW maxRead \in Nat \ {0},
           NEW todo \in SUBSET Nat, todo # {}, todo \cap profile.invalid = {}
    PROVE  AdmissibleRequest(profile, maxRead, todo, FirstRequest(profile, maxRead, todo))
<1> DEFINE s == FirstOf(todo)
           block == Reach(profile, maxRead, todo, s)
           r == FirstRequest(profile, maxRead, todo)
<1>1. s \in todo /\ s \in Nat /\ \A b \in todo : s <= b
  BY FirstOfIsFirst
<1>2. r.first = s
  BY DEF FirstRequest
<1>3. CASE IsIndividualRead(profile, s)
  <2>1. r.last = s
    BY <1>3 DEF FirstRequest
  <2>2. Covered(r) = {s}
    BY <1>1, <1>2, <2>1 DEF Covered
  <2>3. AdmissibleRequest(profile, maxRead, todo, r)
    <3> HIDE DEF r, s
    <3> QED BY <1>1, <1>2, <2>1, <2>2 DEF AdmissibleRequest
  <2> QED BY <2>3
<1>4. CASE ~IsIndividualRead(profile, s)
  <2>1. s \in block
    BY <1>1, <1>4 DEF Reach
  <2>2. block \in SUBSET Nat /\ \A a \in block : a <= s + maxRead
    <3>1. block \subseteq todo /\ \A a \in block : a - s < maxRead
      BY DEF Reach
    <3> HIDE DEF block, s
    <3>2. \A a \in block : a <= s + maxRead
      <4> TAKE a \in block
      <4>1. a \in Nat /\ s \in Nat /\ a - s < maxRead
        BY <1>1, <3>1
      <4> QED BY <4>1
    <3> QED BY <3>1, <3>2
  <2>3. LastOf(block) \in block
    <3>1. s + maxRead \in Nat /\ block # {}
      BY <1>1, <2>1
    <3> HIDE DEF block, s
    <3> QED BY <2>2, <3>1, LastOfIsLast
  <2>4. r.last = LastOf(block)
    BY <1>4 DEF FirstRequest
  <2>5. /\ r.last \in todo /\ r.last - s < maxRead
        /\ r.last <= s + 1 \/ ~OverlapsInvalidRange(profile, s, r.last - 1)
        /\ \A b \in todo : b <= r.last => ~IsIndividualRead(profile, b)
    BY <2>3, <2>4 DEF Reach
  <2>6. \A a \in Covered(r) : a \notin profile.invalid
    <3> SUFFICES ASSUME NEW a \in s .. r.last
                 PROVE  a \notin profile.invalid
      BY <1>2 DEF Covered
    <3> HIDE DEF r, s, block
    <3>1. CASE a = s \/ a = r.last
      BY <3>1, <1>1, <2>5
    <3>2. CASE a # s /\ a # r.last
      <4>0. s \in Nat /\ r.last \in Nat
        BY <1>1, <2>5
      <4>1. a \in Nat /\ s <= a /\ a <= r.last - 1
        BY <4>0, <3>2
      <4>2. ~(r.last <= s + 1)
        BY <4>0, <4>1, <3>2
      <4> QED BY <4>0, <4>1, <4>2, <2>5 DEF OverlapsInvalidRange
    <3> QED BY <3>1, <3>2
  <2>7. \A a \in Covered(r) \cap todo : ~IsIndividualRead(profile, a)
    <3> HIDE DEF r, s, block
    <3> QED BY <1>1, <1>2, <2>5 DEF Covered
  <2>8. s <= r.last
    BY <1>1, <2>5
  <2>9. AdmissibleRequest(profile, maxRead, todo, r)
    <3> HIDE DEF r, s, block
    <3> QED BY <1>1, <1>2, <2>5, <2>6, <2>7, <2>8 DEF AdmissibleRequest
  <2> QED BY <2>9
<1> QED BY <1>3, <1>4
===============================================================================
