-------------------------- MODULE ReadPlanningProofs --------------------------
(***************************************************************************)
(* The plan of a poll is right for every finite set of registers, every    *)
(* profile and every max_read: it reads every wanted register exactly      *)
(* once, in admissible requests, and no plan has fewer of them.            *)
(*                                                                         *)
(* One turn of the loop either stretches the last request of the plan to   *)
(* the visited register, or appends a request for it alone (TurnGrows).    *)
(* The inductive invariant says that the plan covers what was visited, and *)
(* that no request could have been stretched to the start of the next one  *)
(* (Separate): so no admissible request of anyone's serves both starts.    *)
(*                                                                         *)
(* The same loop plans for every inverter that can be configured; that     *)
(* what its entities listen on is a finite set of registers it has is      *)
(* evaluated over the tables (ListenedAssumption).                         *)
(***************************************************************************)
EXTENDS InverterPlanning, ReadRangesProofs, FiniteSetTheorems

Bounds == [first : Nat, last : Nat]

Growing == [start : Nat, size : Nat, out : Seq(Bounds)]

(* No admissible request serves both a and b. *)
Separate(a, b) ==
    \/ IsIndividualRead(profile, a) \/ IsIndividualRead(profile, b)
    \/ b - a >= maxRead
    \/ \E x \in a .. b : x \in profile.invalid

visited == wanted \ todo

(* What the plan is made from. *)
GivenInv ==
    /\ wanted \in SUBSET Nat /\ IsFiniteSet(wanted)
    /\ wanted \cap profile.invalid = {}
    /\ maxRead \in Nat \ {0}

LoopInv ==
    /\ todo \subseteq wanted
    /\ \A v \in visited, a \in todo : v < a
    /\ growing \in Growing

(* The last request of the plan is the one being grown, or is closed. *)
LastInv ==
    LET r == plan[Len(plan)]
    IN  /\ plan = <<>> => visited = {}
        /\ growing.size > 0 =>
             /\ plan # <<>> /\ r = Request(growing.start, growing.size)
             /\ growing.size < maxRead /\ ~IsIndividualRead(profile, r.first)
        /\ growing.size = 0 /\ plan # <<>> =>
             r.last - r.first = maxRead - 1 \/ IsIndividualRead(profile, r.first)
        /\ plan # <<>> => \A v \in visited : v <= r.last

CoverInv == \A v \in visited : \E i \in DOMAIN plan : v \in Covered(plan[i])

RequestsInv == \A i \in DOMAIN plan : AdmissibleRequest(profile, maxRead, visited, plan[i])

OrderInv == \A i, j \in DOMAIN plan : i < j => plan[i].last < plan[j].first

GreedyInv ==
    \A i, j \in DOMAIN plan : j = i + 1 => Separate(plan[i].first, plan[j].first)

IInv == /\ GivenInv /\ LoopInv /\ LastInv
        /\ CoverInv /\ RequestsInv /\ OrderInv /\ GreedyInv

-------------------------------------------------------------------------------
(* One turn of the loop.                                                    *)

LEMMA YieldTyped ==
    ASSUME NEW g \in Growing
    PROVE  /\ Yield(g) \in Growing /\ Yield(g).size = 0
           /\ Yield(g).out \in Seq(Bounds)
           /\ g.size = 0 => Yield(g).out = g.out
           /\ g.size > 0 => Yield(g).out = Append(g.out, Request(g.start, g.size))
<1>1. CASE g.size = 0
  BY <1>1 DEF Yield, Growing
<1>2. CASE g.size > 0
  <2>1. Request(g.start, g.size) \in Bounds
    BY <1>2 DEF Request, Bounds, Growing
  <2>2. Append(g.out, Request(g.start, g.size)) \in Seq(Bounds)
    BY <2>1 DEF Growing
  <2>3. Yield(g) = Grown(0, 0, Append(g.out, Request(g.start, g.size)))
    BY <1>2 DEF Yield
  <2> QED BY <2>2, <2>3, <1>2 DEF Grown, Growing
<1> QED BY <1>1, <1>2 DEF Growing

(* One turn of the loop appends a request for the register alone to the     *)
(* plan, unless the last request is being grown and can be stretched to it. *)
Stretched(g, a) ==
    /\ ~IsIndividualRead(profile, a) /\ g.size > 0
    /\ Extends(profile, maxRead, g, a)

LEMMA VisitTyped ==
    ASSUME maxRead \in Nat \ {0}, NEW g \in Growing, NEW a \in Nat,
           g.size > 0 => a >= g.start + g.size,
           NEW h, h = Visit(profile, maxRead, g, a)
    PROVE  /\ h \in Growing
           /\ IsIndividualRead(profile, a) =>
                h.size = 0 /\ Yield(h).out = Append(Yield(g).out, Request(a, 1))
           /\ Stretched(g, a) =>
                /\ Yield(h).out = Append(g.out, Request(g.start, a - g.start + 1))
                /\ \/ h.size = 0 /\ a - g.start + 1 = maxRead
                   \/ h.size = a - g.start + 1 /\ h.size # maxRead /\ h.start = g.start
           /\ ~IsIndividualRead(profile, a) /\ ~Stretched(g, a) =>
                /\ Yield(h).out = Append(Yield(g).out, Request(a, 1))
                /\ \/ h.size = 0 /\ maxRead = 1
                   \/ h.size = 1 /\ maxRead # 1 /\ h.start = a
<1>0. /\ g.start \in Nat /\ g.size \in Nat /\ g.out \in Seq(Bounds)
      /\ Request(a, 1) \in Bounds /\ Yield(g).out \in Seq(Bounds)
  <2>1. Yield(g).out \in Seq(Bounds)
    BY YieldTyped
  <2> QED BY <2>1 DEF Growing, Request, Bounds
<1>1. CASE IsIndividualRead(profile, a)
  <2> DEFINE k == Grown(0, 0, Append(Yield(g).out, Request(a, 1)))
  <2>1. /\ k \in Growing /\ k.size = 0
        /\ k.out = Append(Yield(g).out, Request(a, 1))
    <3>1. Append(Yield(g).out, Request(a, 1)) \in Seq(Bounds)
      BY <1>0
    <3> QED BY <3>1 DEF Grown, Growing
  <2>2. h = IF k.size = maxRead THEN Yield(k) ELSE k
    BY <1>1 DEF Visit
  <2> HIDE DEF k
  <2>3. h = k
    BY <2>1, <2>2
  <2>4. Yield(k).out = k.out
    BY <2>1, YieldTyped
  <2>5. ~Stretched(g, a)
    BY <1>1 DEF Stretched
  <2> QED BY <1>1, <2>1, <2>3, <2>4, <2>5
<1>2. CASE Stretched(g, a)
  <2> DEFINE size == a - g.start + 1
             k == Grown(g.start, size, g.out)
  <2>1. size \in Nat /\ size > 0 /\ ~IsIndividualRead(profile, a)
    BY <1>0, <1>2 DEF Stretched
  <2>2. h = IF k.size = maxRead THEN Yield(k) ELSE k
    BY <1>0, <1>2 DEF Visit, Stretched
  <2> HIDE DEF size
  <2>3. k \in Growing /\ k.size = size /\ k.start = g.start /\ k.out = g.out
    BY <1>0, <2>1 DEF Grown, Growing
  <2> HIDE DEF k
  <2>4. Yield(k).out = Append(g.out, Request(g.start, size)) /\ Yield(k) \in Growing
        /\ Yield(k).size = 0 /\ Yield(Yield(k)).out = Yield(k).out
    <3>1. k \in Growing /\ k.size > 0
      BY <2>1, <2>3
    <3>2. Yield(k) \in Growing /\ Yield(k).size = 0
      BY <3>1, YieldTyped
    <3>3. Yield(k).out = Append(k.out, Request(k.start, k.size))
      BY <3>1, YieldTyped
    <3>4. PICK y : y = Yield(k)
      OBVIOUS
    <3>5. Yield(y).out = y.out
      BY <3>2, <3>4, YieldTyped
    <3> QED BY <2>3, <3>2, <3>3, <3>4, <3>5
  <2>5. /\ h \in Growing /\ Yield(h).out = Append(g.out, Request(g.start, size))
        /\ \/ h.size = 0 /\ size = maxRead
           \/ h.size = size /\ h.size # maxRead /\ h.start = g.start
    BY <2>2, <2>3, <2>4
  <2> QED BY <1>2, <2>1, <2>5 DEF size
<1>3. CASE ~IsIndividualRead(profile, a) /\ ~Stretched(g, a)
  <2> DEFINE k == Grown(a, 1, Yield(g).out)
  <2>1. h = IF k.size = maxRead THEN Yield(k) ELSE k
    <3>1. CASE g.size = 0
      BY <1>3, <3>1, YieldTyped DEF Visit
    <3>2. CASE g.size > 0
      BY <1>3, <3>2 DEF Visit, Stretched
    <3> QED BY <1>0, <3>1, <3>2
  <2>2. k \in Growing /\ k.size = 1 /\ k.start = a /\ k.out = Yield(g).out
    BY <1>0 DEF Grown, Growing
  <2> HIDE DEF k
  <2>3. Yield(k).out = Append(Yield(g).out, Request(a, 1)) /\ Yield(k) \in Growing
        /\ Yield(k).size = 0 /\ Yield(Yield(k)).out = Yield(k).out
    <3>1. k \in Growing /\ k.size > 0
      BY <2>2
    <3>2. Yield(k) \in Growing /\ Yield(k).size = 0
      BY <3>1, YieldTyped
    <3>3. Yield(k).out = Append(k.out, Request(k.start, k.size))
      BY <3>1, YieldTyped
    <3>4. PICK y : y = Yield(k)
      OBVIOUS
    <3>5. Yield(y).out = y.out
      BY <3>2, <3>4, YieldTyped
    <3> QED BY <2>2, <3>2, <3>3, <3>4, <3>5
  <2>4. /\ h \in Growing /\ Yield(h).out = Append(Yield(g).out, Request(a, 1))
        /\ \/ h.size = 0 /\ maxRead = 1
           \/ h.size = 1 /\ maxRead # 1 /\ h.start = a
    BY <2>1, <2>2, <2>3
  <2> QED BY <1>3, <2>4
<1> QED BY <1>1, <1>2, <1>3 DEF Stretched

-------------------------------------------------------------------------------
(* What the turn does to the plan.                                          *)

Appended(a) ==
    LET n == Len(plan)
    IN  /\ plan' \in Seq(Bounds) /\ Len(plan') = n + 1
        /\ \A i \in 1 .. n : plan'[i] = plan[i]
        /\ plan'[n + 1] = Request(a, 1)
        /\ n > 0 => Separate(plan[n].first, a)
        /\ \/ growing'.size = 0 /\ (maxRead = 1 \/ IsIndividualRead(profile, a))
           \/ /\ growing'.size = 1 /\ growing'.start = a
              /\ 1 < maxRead /\ ~IsIndividualRead(profile, a)

StretchedTo(a) ==
    LET n     == Len(plan)
        first == plan[n].first
    IN  /\ n > 0 /\ plan' \in Seq(Bounds) /\ Len(plan') = n
        /\ \A i \in 1 .. n - 1 : plan'[i] = plan[i]
        /\ plan'[n] = Request(first, a - first + 1)
        /\ ~IsIndividualRead(profile, first) /\ ~IsIndividualRead(profile, a)
        /\ a - first < maxRead
        /\ \A x \in first .. a - 1 : x \notin profile.invalid
        /\ \/ growing'.size = 0 /\ a - first + 1 = maxRead
           \/ /\ growing'.size = a - first + 1 /\ growing'.start = first
              /\ growing'.size < maxRead

LEMMA NextRegister ==
    ASSUME IInv, VisitRegister
    PROVE  LET a == FirstOf(todo)
           IN  /\ a \in todo /\ a \in Nat /\ \A b \in todo : a <= b
               /\ a \in wanted /\ a \notin visited /\ \A v \in visited : v < a
               /\ visited' = visited \cup {a}
               /\ todo' = todo \ {a} /\ wanted' = wanted
               /\ UNCHANGED <<profile, maxRead>>
<1>1. todo \in SUBSET Nat /\ todo # {} /\ todo \subseteq wanted
  BY DEF IInv, GivenInv, LoopInv, VisitRegister
<1>2. FirstOf(todo) \in todo /\ \A b \in todo : FirstOf(todo) <= b
  BY <1>1, FirstOfIsFirst
<1>3. UNCHANGED <<pollType, detected, isInitial, profile, maxRead>>
      /\ todo' = todo \ {FirstOf(todo)}
  BY DEF VisitRegister, controller
<1>4. wanted' = wanted
  BY <1>3 DEF wanted
<1> QED BY <1>1, <1>2, <1>3, <1>4 DEF visited, IInv, LoopInv

LEMMA PlanTyped ==
    ASSUME LoopInv
    PROVE  plan \in Seq(Bounds) /\ Len(plan) \in Nat /\ DOMAIN plan = 1 .. Len(plan)
           /\ (plan = <<>> <=> Len(plan) = 0)
           /\ \A i \in DOMAIN plan : plan[i].first \in Nat /\ plan[i].last \in Nat
<1>1. plan \in Seq(Bounds)
  BY YieldTyped DEF LoopInv, plan
<1> HIDE DEF plan
<1>2. \A i \in DOMAIN plan : plan[i] \in Bounds
  BY <1>1
<1>3. \A r \in Bounds : r.first \in Nat /\ r.last \in Nat
  BY DEF Bounds
<1> QED BY <1>1, <1>2, <1>3

(* The request that is being grown is the last one.                         *)
LEMMA LastRequest ==
    ASSUME IInv, growing.size > 0
    PROVE  LET n == Len(plan)
           IN  /\ n > 0 /\ plan = Append(growing.out, Request(growing.start, growing.size))
               /\ growing.start = plan[n].first /\ growing.start \in visited
               /\ growing.start + growing.size - 1 \in visited
               /\ growing.size < maxRead /\ ~IsIndividualRead(profile, growing.start)
<1>1. plan = Append(growing.out, Request(growing.start, growing.size))
  BY YieldTyped DEF plan, IInv, LoopInv
<1>2. Len(plan) > 0 /\ Len(plan) \in DOMAIN plan
  BY PlanTyped DEF IInv, LastInv
<1>3. /\ plan[Len(plan)] = Request(growing.start, growing.size)
      /\ growing.size < maxRead /\ ~IsIndividualRead(profile, plan[Len(plan)].first)
  BY DEF IInv, LastInv
<1>4. plan[Len(plan)].first \in visited /\ plan[Len(plan)].last \in visited
  BY <1>2 DEF IInv, RequestsInv, AdmissibleRequest
<1>5. /\ Request(growing.start, growing.size).first = growing.start
      /\ Request(growing.start, growing.size).last = growing.start + growing.size - 1
  BY DEF Request
<1> QED BY <1>1, <1>2, <1>3, <1>4, <1>5

LEMMA TurnGrows ==
    ASSUME IInv, VisitRegister
    PROVE  /\ growing' \in Growing
           /\ Appended(FirstOf(todo)) \/ StretchedTo(FirstOf(todo))
<1> DEFINE a == FirstOf(todo)
           n == Len(plan)
<1>1. /\ growing \in Growing /\ growing.start \in Nat /\ growing.size \in Nat
      /\ maxRead \in Nat \ {0}
  BY DEF IInv, GivenInv, LoopInv, Growing
<1>2. /\ a \in Nat /\ a \in wanted /\ wanted' = wanted /\ UNCHANGED <<profile, maxRead>>
      /\ \A v \in visited : v < a
  BY NextRegister
<1>3. growing.size > 0 => a >= growing.start + growing.size
  BY <1>1, <1>2, LastRequest
<1>4. growing' = Visit(profile, maxRead, growing, a)
  BY DEF VisitRegister
<1>5. plan \in Seq(Bounds) /\ n \in Nat /\ (plan = <<>> <=> n = 0)
      /\ (n > 0 => plan[n].first \in Nat /\ plan[n].last \in Nat)
  BY PlanTyped DEF IInv
<1>6. /\ growing' \in Growing
      /\ IsIndividualRead(profile, a) =>
           growing'.size = 0 /\ plan' = Append(plan, Request(a, 1))
      /\ Stretched(growing, a) =>
           /\ plan' = Append(growing.out, Request(growing.start, a - growing.start + 1))
           /\ \/ growing'.size = 0 /\ a - growing.start + 1 = maxRead
              \/ /\ growing'.size = a - growing.start + 1 /\ growing'.size # maxRead
                 /\ growing'.start = growing.start
      /\ ~IsIndividualRead(profile, a) /\ ~Stretched(growing, a) =>
           /\ plan' = Append(plan, Request(a, 1))
           /\ \/ growing'.size = 0 /\ maxRead = 1
              \/ growing'.size = 1 /\ maxRead # 1 /\ growing'.start = a
  BY <1>1, <1>2, <1>3, <1>4, VisitTyped DEF plan
<1>7. plan' = Yield(growing').out
  BY DEF plan
<1>8. Request(a, 1) \in Bounds
  BY <1>2 DEF Request, Bounds
<1> HIDE DEF a
<1>9. CASE ~Stretched(growing, a)
  <2>1. plan' = Append(plan, Request(a, 1))
    BY <1>6, <1>9
  <2>2. /\ plan' \in Seq(Bounds) /\ Len(plan') = n + 1
        /\ \A i \in 1 .. n : plan'[i] = plan[i]
        /\ plan'[n + 1] = Request(a, 1)
    <3> HIDE DEF n
    <3>1. n = Len(plan)
      BY DEF n
    <3>2. \A p \in Seq(Bounds) : plan = p => 
            /\ Append(p, Request(a, 1)) \in Seq(Bounds)
            /\ Len(Append(p, Request(a, 1))) = n + 1
            /\ \A i \in 1 .. n : Append(p, Request(a, 1))[i] = p[i]
            /\ Append(p, Request(a, 1))[n + 1] = Request(a, 1)
      BY <3>1, <1>8
    <3> QED BY <1>5, <2>1, <3>2
  <2>3. n > 0 => Separate(plan[n].first, a)
    <3> SUFFICES ASSUME n > 0 PROVE Separate(plan[n].first, a)
      OBVIOUS
    <3>1. plan[n].first \in visited /\ plan[n].last \in visited /\ plan[n].first \in Nat
      BY PlanTyped, <1>5 DEF IInv, RequestsInv, AdmissibleRequest
    <3>2. CASE growing.size = 0
      <4>1. \/ plan[n].last - plan[n].first = maxRead - 1
            \/ IsIndividualRead(profile, plan[n].first)
        BY <1>5, <3>2 DEF IInv, LastInv
      <4>2. plan[n].last < a
        BY <1>2, <3>1
      <4> QED BY <1>1, <1>2, <1>5, <3>1, <4>1, <4>2 DEF Separate
    <3>3. CASE growing.size > 0
      <4>1. growing.start = plan[n].first
        BY <3>3, LastRequest
      <4>2. IsIndividualRead(profile, a) \/ ~Extends(profile, maxRead, growing, a)
        BY <1>9, <3>3 DEF Stretched
      <4>3. CASE ~Extends(profile, maxRead, growing, a)
        <5>1. \/ ~(a <= growing.start + maxRead - 1)
              \/ \E x \in growing.start .. a - 1 : x \in profile.invalid
          BY <4>3 DEF Extends, OverlapsInvalidRange
        <5>2. \A x \in growing.start .. a - 1 : x \in growing.start .. a
          BY <1>1, <1>2
        <5>3. a - growing.start >= maxRead
              \/ \E x \in growing.start .. a : x \in profile.invalid
          BY <1>1, <1>2, <5>1, <5>2
        <5> QED BY <4>1, <5>3 DEF Separate
      <4> QED BY <4>2, <4>3 DEF Separate
    <3> QED BY <1>1, <3>2, <3>3
  <2>4. \/ growing'.size = 0 /\ (maxRead = 1 \/ IsIndividualRead(profile, a))
        \/ /\ growing'.size = 1 /\ growing'.start = a
           /\ 1 < maxRead /\ ~IsIndividualRead(profile, a)
    BY <1>1, <1>6, <1>9
  <2> QED BY <1>6, <2>2, <2>3, <2>4 DEF Appended, a
<1>10. CASE Stretched(growing, a)
  <2> DEFINE first == plan[n].first
  <2>1. /\ growing.size > 0 /\ ~IsIndividualRead(profile, a)
        /\ Extends(profile, maxRead, growing, a)
    BY <1>10 DEF Stretched
  <2>2. /\ n > 0 /\ plan = Append(growing.out, Request(growing.start, growing.size))
        /\ growing.start = first /\ growing.start \in visited
        /\ growing.size < maxRead /\ ~IsIndividualRead(profile, growing.start)
    BY <2>1, LastRequest
  <2>3. growing.start < a /\ growing.start \notin profile.invalid
    BY <1>2, <2>2 DEF IInv, GivenInv, visited
  <2>4. a - growing.start < maxRead
    BY <1>1, <1>2, <2>1, <2>2 DEF Extends
  <2>5. \A x \in growing.start .. a - 1 : x \notin profile.invalid
    BY <1>1, <1>2, <2>1, <2>3 DEF Extends, OverlapsInvalidRange
  <2> DEFINE r == Request(growing.start, a - growing.start + 1)
             q == Request(growing.start, growing.size)
  <2>6. r \in Bounds /\ q \in Bounds
    BY <1>1, <1>2, <2>1, <2>3 DEF Request, Bounds
  <2>7. plan' = Append(growing.out, r) /\ growing.out \in Seq(Bounds)
    BY <1>1, <1>6, <1>10 DEF Growing
  <2>8. /\ plan' \in Seq(Bounds) /\ Len(plan') = n
        /\ \A i \in 1 .. n - 1 : plan'[i] = plan[i]
        /\ plan'[n] = r
    <3> HIDE DEF n, r, q, first
    <3>1. \A p \in Seq(Bounds) :
            /\ Append(p, r) \in Seq(Bounds)
            /\ Len(Append(p, r)) = Len(Append(p, q))
            /\ \A i \in 1 .. Len(Append(p, q)) - 1 : Append(p, r)[i] = Append(p, q)[i]
            /\ Append(p, r)[Len(Append(p, q))] = r
      BY <2>6
    <3>2. plan = Append(growing.out, q) /\ n = Len(plan)
      BY <2>2 DEF n, q
    <3> QED BY <2>7, <3>1, <3>2
  <2>9. \/ growing'.size = 0 /\ a - growing.start + 1 = maxRead
        \/ /\ growing'.size = a - growing.start + 1 /\ growing'.start = growing.start
           /\ growing'.size < maxRead
    BY <1>1, <1>2, <1>6, <1>10, <2>4
  <2> QED BY <1>6, <2>1, <2>2, <2>4, <2>5, <2>8, <2>9 DEF StretchedTo, a
<1> QED BY <1>9, <1>10 DEF a

-------------------------------------------------------------------------------
(* The invariant.                                                           *)

LEMMA StartInv ==
    ASSUME GivenInv, todo = wanted, growing = NoRequest
    PROVE  IInv
<1>1. NoRequest \in Growing /\ NoRequest.size = 0 /\ NoRequest.out = <<>>
  BY DEF NoRequest, Grown, Growing
<1>2. plan = <<>> /\ growing.size = 0
  BY <1>1 DEF plan, Yield
<1>3. visited = {} /\ LoopInv
  BY <1>1 DEF visited, LoopInv
<1>4. LastInv /\ CoverInv
  BY <1>2, <1>3 DEF LastInv, CoverInv
<1>5. RequestsInv /\ OrderInv /\ GreedyInv
  <2>1. DOMAIN plan = {}
    BY <1>2
  <2> QED BY <2>1 DEF RequestsInv, OrderInv, GreedyInv
<1> QED BY <1>3, <1>4, <1>5 DEF IInv

(* The small controllers: nobody listens on an invalid register.            *)
LEMMA InitInv == Init => IInv
<1> SUFFICES ASSUME Init PROVE IInv
  OBVIOUS
<1>1. PICK kind \in [Registers -> Kinds] :
        LET used(u)    == {a \in Registers : kind[a][1] = u}
            special(s) == {a \in Registers : kind[a][2] = s}
        IN  /\ pollType = [a \in Registers \ used("unused") |->
                             IF a \in used("on_connection") THEN "ON_CONNECTION"
                                                            ELSE "PERIODICALLY"]
            /\ profile = [invalid |-> special("invalid"), individual |-> special("individual")]
            /\ maxRead \in MaxReads
            /\ todo = wanted /\ growing = NoRequest
  BY DEF Init
<1>2. wanted \subseteq Registers
  BY <1>1 DEF wanted, Wanted
<1>3. \A a \in wanted : kind[a][1] # "unused"
  BY <1>1 DEF wanted, Wanted
<1>4. \A k \in Kinds : k[2] = "invalid" => k[1] = "unused"
  BY DEF Kinds
<1>5. wanted \cap profile.invalid = {}
  BY <1>1, <1>2, <1>3, <1>4
<1>6. GivenInv
  BY <1>1, <1>2, <1>5, RegistersAssumption, MaxReadsAssumption, FS_Subset DEF GivenInv
<1> QED BY <1>1, <1>6, StartInv

(* The inverters: what the entities of an inverter ask for are registers    *)
(* that it has (ListenedAssumption), and every adapter reads at least one   *)
(* register at once.                                                        *)
LEMMA AdapterReadsPositive ==
    ASSUME NEW connection
    PROVE  AdapterReads(connection) \subseteq Nat \ {0}
<1>1. \A a \in DOMAIN ADAPTERS : ADAPTERS[a].maxRead \in {8, 20, 100}
  BY DEF ADAPTERS, Direct, Serial, Network, Adapter, DEFAULT_MAX_READ, W610_MAX_READ
<1> QED BY <1>1 DEF AdapterReads

LEMMA InitInverterInv == InitInverter => IInv
<1> SUFFICES ASSUME InitInverter PROVE IInv
  OBVIOUS
<1>1. /\ device \in Devices /\ pollType = Listened[device] /\ profile = device.special
      /\ maxRead \in AdapterReads(device.connection)
      /\ todo = wanted /\ growing = NoRequest
  BY DEF InitInverter
<1>2. wanted \subseteq DOMAIN pollType
  BY DEF wanted, Wanted
<1>3. /\ DOMAIN pollType \subseteq Nat /\ IsFiniteSet(DOMAIN pollType)
      /\ DOMAIN pollType \cap profile.invalid = {}
  BY <1>1, ListenedAssumption
<1>4. maxRead \in Nat \ {0}
  BY <1>1, AdapterReadsPositive
<1>5. GivenInv
  BY <1>2, <1>3, <1>4, FS_Subset DEF GivenInv
<1> QED BY <1>1, <1>5, StartInv

(* Requests stay admissible when they have been left behind.                *)
LEMMA LeftBehind ==
    ASSUME IInv, VisitRegister, NEW i \in DOMAIN plan
    PROVE  AdmissibleRequest(profile, maxRead, visited', plan[i])
<1>1. /\ visited' = visited \cup {FirstOf(todo)} /\ FirstOf(todo) \in Nat
      /\ \A v \in visited : v < FirstOf(todo)
  BY NextRegister
<1>2. AdmissibleRequest(profile, maxRead, visited, plan[i])
  BY DEF IInv, RequestsInv
<1>3. plan[i].first \in Nat /\ plan[i].last \in Nat /\ plan[i].last < FirstOf(todo)
  BY <1>1, <1>2, PlanTyped DEF IInv, AdmissibleRequest
<1>4. FirstOf(todo) \notin Covered(plan[i])
  BY <1>1, <1>3 DEF Covered
<1> QED BY <1>1, <1>2, <1>4 DEF AdmissibleRequest

(* A request for a single register.                                         *)
LEMMA AloneAdmissible ==
    ASSUME NEW a \in Nat, NEW S, a \in S, a \notin profile.invalid, maxRead \in Nat \ {0}
    PROVE  /\ AdmissibleRequest(profile, maxRead, S, Request(a, 1))
           /\ Request(a, 1).first = a /\ Request(a, 1).last = a
           /\ Covered(Request(a, 1)) = {a}
<1>1. Request(a, 1).first = a /\ Request(a, 1).last = a
  BY DEF Request
<1>2. Covered(Request(a, 1)) = {a}
  BY <1>1 DEF Covered
<1> QED BY <1>1, <1>2 DEF AdmissibleRequest

LEMMA AppendedKeeps ==
    ASSUME IInv, VisitRegister, Appended(FirstOf(todo))
    PROVE  LastInv' /\ CoverInv' /\ RequestsInv' /\ OrderInv' /\ GreedyInv'
<1> DEFINE a == FirstOf(todo)
           n == Len(plan)
<1>1. /\ a \in Nat /\ a \in wanted /\ UNCHANGED <<profile, maxRead>>
      /\ visited' = visited \cup {a} /\ \A v \in visited : v < a
  BY NextRegister
<1>2. /\ plan \in Seq(Bounds) /\ n \in Nat /\ DOMAIN plan = 1 .. n
      /\ \A i \in DOMAIN plan : plan[i].first \in Nat /\ plan[i].last \in Nat
  BY PlanTyped DEF IInv
<1>3. /\ plan' \in Seq(Bounds) /\ Len(plan') = n + 1 /\ DOMAIN plan' = 1 .. n + 1
      /\ \A i \in 1 .. n : plan'[i] = plan[i]
      /\ plan'[n + 1] = Request(a, 1)
      /\ n > 0 => Separate(plan[n].first, a)
      /\ \/ growing'.size = 0 /\ (maxRead = 1 \/ IsIndividualRead(profile, a))
         \/ /\ growing'.size = 1 /\ growing'.start = a
            /\ 1 < maxRead /\ ~IsIndividualRead(profile, a)
  BY DEF Appended
<1>4. maxRead \in Nat \ {0} /\ a \notin profile.invalid
  BY <1>1 DEF IInv, GivenInv
<1> HIDE DEF a, n
<1>5. /\ AdmissibleRequest(profile, maxRead, visited', Request(a, 1))
      /\ Request(a, 1).first = a /\ Request(a, 1).last = a
      /\ Covered(Request(a, 1)) = {a}
  BY <1>1, <1>4, AloneAdmissible
<1>6. \A i \in 1 .. n + 1 : i \in 1 .. n \/ i = n + 1
  BY <1>2
<1>7. RequestsInv'
  BY <1>1, <1>2, <1>3, <1>5, <1>6, LeftBehind DEF RequestsInv
<1>8. CoverInv'
  <2>1. ASSUME NEW v \in visited PROVE \E i \in 1 .. n : v \in Covered(plan[i])
    BY <1>2 DEF IInv, CoverInv
  <2>2. 1 .. n \subseteq DOMAIN plan' /\ n + 1 \in DOMAIN plan'
    BY <1>2, <1>3
  <2> QED BY <1>1, <1>3, <1>5, <2>1, <2>2 DEF CoverInv
<1>9. \A i \in 1 .. n : plan[i].last < a
  BY <1>1, <1>2 DEF IInv, RequestsInv, AdmissibleRequest
<1>10. OrderInv'
  <2> SUFFICES ASSUME NEW i \in 1 .. n + 1, NEW j \in 1 .. n + 1, i < j
               PROVE  plan'[i].last < plan'[j].first
    BY <1>3 DEF OrderInv
  <2>1. i \in 1 .. n
    BY <1>2
  <2> QED BY <1>2, <1>3, <1>5, <1>6, <1>9, <2>1 DEF IInv, OrderInv
<1>11. GreedyInv'
  <2> SUFFICES ASSUME NEW i \in 1 .. n + 1, NEW j \in 1 .. n + 1, j = i + 1
               PROVE  Separate(plan'[i].first, plan'[j].first)
    BY <1>1, <1>3 DEF GreedyInv, Separate
  <2>1. i \in 1 .. n
    BY <1>2
  <2>2. CASE j \in 1 .. n
    BY <1>2, <1>3, <2>1, <2>2 DEF IInv, GreedyInv
  <2>3. CASE j = n + 1
    BY <1>2, <1>3, <1>5, <2>1, <2>3
  <2> QED BY <1>6, <2>2, <2>3
<1>12. LastInv'
  <2>1. plan' # <<>> /\ plan'[Len(plan')] = Request(a, 1)
    BY <1>2, <1>3
  <2>2. \A v \in visited' : v <= a
    BY <1>1, <1>4 DEF IInv, GivenInv, visited
  <2>3. \/ growing'.size = 0 /\ (maxRead = 1 \/ IsIndividualRead(profile, a))
        \/ /\ growing'.size = 1 /\ growing'.start = a
           /\ 1 < maxRead /\ ~IsIndividualRead(profile, a)
    BY <1>3
  <2> QED BY <1>1, <1>5, <2>1, <2>2, <2>3 DEF LastInv
<1> QED BY <1>7, <1>8, <1>10, <1>11, <1>12

LEMMA StretchedKeeps ==
    ASSUME IInv, VisitRegister, StretchedTo(FirstOf(todo))
    PROVE  LastInv' /\ CoverInv' /\ RequestsInv' /\ OrderInv' /\ GreedyInv'
<1> DEFINE a == FirstOf(todo)
           n == Len(plan)
           first == plan[n].first
           r == Request(first, a - first + 1)
<1>1. /\ a \in Nat /\ a \in wanted /\ UNCHANGED <<profile, maxRead>>
      /\ visited' = visited \cup {a} /\ \A v \in visited : v < a
  BY NextRegister
<1>2. /\ plan \in Seq(Bounds) /\ n \in Nat /\ DOMAIN plan = 1 .. n
      /\ \A i \in DOMAIN plan : plan[i].first \in Nat /\ plan[i].last \in Nat
  BY PlanTyped DEF IInv
<1>3. /\ n > 0 /\ plan' \in Seq(Bounds) /\ Len(plan') = n /\ DOMAIN plan' = 1 .. n
      /\ \A i \in 1 .. n - 1 : plan'[i] = plan[i]
      /\ plan'[n] = r
      /\ ~IsIndividualRead(profile, first) /\ ~IsIndividualRead(profile, a)
      /\ a - first < maxRead
      /\ \A x \in first .. a - 1 : x \notin profile.invalid
      /\ \/ growing'.size = 0 /\ a - first + 1 = maxRead
         \/ /\ growing'.size = a - first + 1 /\ growing'.start = first
            /\ growing'.size < maxRead
  BY DEF StretchedTo
<1>4. maxRead \in Nat \ {0} /\ a \notin profile.invalid
  BY <1>1 DEF IInv, GivenInv
<1>5. n \in DOMAIN plan /\ AdmissibleRequest(profile, maxRead, visited, plan[n])
  BY <1>2, <1>3 DEF IInv, RequestsInv
<1>6. first \in Nat /\ first \in visited /\ first < a /\ plan[n].last < a
  BY <1>1, <1>2, <1>5 DEF AdmissibleRequest
<1>7. r.first = first /\ r.last = a
  BY <1>1, <1>6 DEF Request
<1> HIDE DEF a, n, first, r
<1>8. \A i \in 1 .. n : i \in 1 .. n - 1 \/ i = n
  BY <1>2
<1>9. first .. a = (first .. a - 1) \cup {a}
  BY <1>1, <1>6
(* The registers visited that the last request now reads. *)
<1>10. \A v \in visited' : v \in first .. a => v = a \/ v \in Covered(plan[n])
  BY <1>1, <1>2, <1>3, <1>5, <1>6 DEF Covered, IInv, LastInv, first, n
<1>11. AdmissibleRequest(profile, maxRead, visited', r)
  <2>1. ASSUME NEW v \in visited', v \in Covered(plan[n]) PROVE ~IsIndividualRead(profile, v)
    <3>1. v \in visited
      BY <1>1, <1>2, <1>5, <1>6, <2>1 DEF Covered
    <3>2. first \in Covered(plan[n])
      BY <1>2, <1>5 DEF Covered, AdmissibleRequest, first
    <3> QED BY <1>3, <1>5, <2>1, <3>1, <3>2 DEF AdmissibleRequest
  <2>2. \A v \in Covered(r) \cap visited' : ~IsIndividualRead(profile, v)
    BY <1>3, <1>7, <1>10, <2>1 DEF Covered
  <2>3. Covered(r) \cap profile.invalid = {}
    BY <1>3, <1>4, <1>7, <1>9 DEF Covered
  <2> QED BY <1>1, <1>3, <1>6, <1>7, <2>2, <2>3 DEF AdmissibleRequest
<1>12. RequestsInv'
  <2>1. \A i \in 1 .. n - 1 : i \in DOMAIN plan
    BY <1>2
  <2> QED BY <1>1, <1>3, <1>8, <1>11, <2>1, LeftBehind DEF RequestsInv
<1>13. CoverInv'
  <2>1. \A x \in Covered(plan[n]) : x \in Covered(r)
    BY <1>1, <1>2, <1>5, <1>6, <1>7 DEF Covered, first
  <2>2. ASSUME NEW v \in visited PROVE \E i \in 1 .. n : v \in Covered(plan'[i])
    <3>1. PICK i \in 1 .. n : v \in Covered(plan[i])
      BY <1>2 DEF IInv, CoverInv
    <3> QED BY <1>3, <1>8, <2>1, <3>1
  <2>3. a \in Covered(r)
    BY <1>1, <1>6, <1>7 DEF Covered
  <2> QED BY <1>1, <1>2, <1>3, <2>2, <2>3 DEF CoverInv
<1>14. OrderInv'
  <2> SUFFICES ASSUME NEW i \in 1 .. n, NEW j \in 1 .. n, i < j
               PROVE  plan'[i].last < plan'[j].first
    BY <1>3 DEF OrderInv
  <2>1. i \in 1 .. n - 1
    BY <1>2
  <2>2. plan'[j].first = plan[j].first
    BY <1>3, <1>7, <1>8 DEF first
  <2> QED BY <1>2, <1>3, <2>1, <2>2 DEF IInv, OrderInv
<1>15. GreedyInv'
  <2> SUFFICES ASSUME NEW i \in 1 .. n, NEW j \in 1 .. n, j = i + 1
               PROVE  Separate(plan'[i].first, plan'[j].first)
    BY <1>1, <1>3 DEF GreedyInv, Separate
  <2>1. plan'[i].first = plan[i].first /\ plan'[j].first = plan[j].first
    BY <1>3, <1>7, <1>8 DEF first
  <2> QED BY <1>2, <2>1 DEF IInv, GreedyInv
<1>16. LastInv'
  <2>1. plan' # <<>> /\ plan'[Len(plan')] = r
    BY <1>2, <1>3
  <2>2. \A v \in visited' : v <= a
    BY <1>1, <1>4 DEF IInv, GivenInv, visited
  <2>3. growing'.size > 0 => r = Request(growing'.start, growing'.size)
    BY <1>1, <1>3, <1>6 DEF r
  <2>4. growing'.size = 0 => r.last - r.first = maxRead - 1
    BY <1>1, <1>3, <1>6, <1>7
  <2>5. growing'.size > 0 => growing'.size < maxRead
    BY <1>1, <1>3, <1>6
  <2> QED BY <1>1, <1>3, <1>7, <2>1, <2>2, <2>3, <2>4, <2>5 DEF LastInv
<1> QED BY <1>12, <1>13, <1>14, <1>15, <1>16

LEMMA NextInv == IInv /\ [Next]_vars => IInv'
<1> SUFFICES ASSUME IInv, [Next]_vars PROVE IInv'
  OBVIOUS
<1>1. CASE VisitRegister
  <2>1. GivenInv' /\ UNCHANGED <<profile, maxRead>>
    BY <1>1, NextRegister DEF IInv, GivenInv
  <2>2. LoopInv'
    <3> DEFINE a == FirstOf(todo)
    <3>1. /\ a \in todo /\ a \in Nat /\ \A b \in todo : a <= b
          /\ \A v \in visited : v < a
          /\ visited' = visited \cup {a} /\ todo' = todo \ {a} /\ wanted' = wanted
      BY <1>1, NextRegister
    <3>2. growing' \in Growing
      BY <1>1, TurnGrows
    <3>3. todo \subseteq wanted /\ wanted \in SUBSET Nat
      BY DEF IInv, GivenInv, LoopInv
    <3>4. visited \in SUBSET Nat
      BY <3>3 DEF visited
    <3> HIDE DEF a
    <3>5. \A t \in todo' : t \in Nat /\ a < t
      BY <3>1, <3>3
    <3>6. \A v \in visited', t \in todo' : v < t
      BY <3>1, <3>4, <3>5
    <3> QED BY <3>1, <3>2, <3>3, <3>6 DEF LoopInv
  <2> QED BY <1>1, <2>1, <2>2, TurnGrows, AppendedKeeps, StretchedKeeps DEF IInv
<1>2. CASE UNCHANGED vars
  <2>1. UNCHANGED <<wanted, visited, plan, todo, growing, profile, maxRead>>
    BY <1>2 DEF vars, controller, wanted, visited, plan
  <2> QED BY <2>1
          DEF IInv, GivenInv, LoopInv, LastInv, CoverInv, RequestsInv, OrderInv, GreedyInv, Separate
<1> QED BY <1>1, <1>2 DEF Next

(* The inductive invariant holds of every plan, also of one under way.      *)
THEOREM Invariant == Spec => []IInv
<1> QED BY InitInv, NextInv, PTL DEF Spec

(* The plans for inverters are made by the same loop.                       *)
THEOREM InverterInvariant == InverterSpec => []IInv
<1>1. InverterInit => IInv
  BY InitInv, InitInverterInv DEF InverterInit
<1>2. [InverterNext]_<<vars, device>> => [Next]_vars
  BY DEF InverterNext, Next
<1> QED BY <1>1, <1>2, NextInv, PTL DEF InverterSpec

-------------------------------------------------------------------------------
(* What the invariant says once the loop has ended.                         *)

LEMMA Finished ==
    ASSUME IInv, planned
    PROVE  LET n == Len(plan)
           IN  /\ visited = wanted /\ wanted \in SUBSET Nat /\ wanted \cap profile.invalid = {}
               /\ maxRead \in Nat \ {0}
               /\ plan \in Seq(Bounds) /\ n \in Nat /\ DOMAIN plan = 1 .. n
               /\ \A i \in 1 .. n : /\ plan[i].first \in Nat /\ plan[i].last \in Nat
                                    /\ plan[i].first \in wanted /\ plan[i].last \in wanted
                                    /\ plan[i].first <= plan[i].last
                                    /\ AdmissibleRequest(profile, maxRead, wanted, plan[i])
                                    /\ plan[i] = [first |-> plan[i].first, last |-> plan[i].last]
               /\ \A i, j \in 1 .. n : i < j => /\ plan[i].last < plan[j].first
                                               /\ plan[i].first < plan[j].first
                                               /\ plan[i].last < plan[j].last
               /\ \A a \in wanted : \E i \in 1 .. n : a \in Covered(plan[i])
               /\ \A a \in wanted : n > 0 /\ a <= plan[n].last
<1> DEFINE n == Len(plan)
<1>1. visited = wanted
  BY DEF planned, visited
<1>2. /\ plan \in Seq(Bounds) /\ n \in Nat /\ DOMAIN plan = 1 .. n
      /\ (plan = <<>> <=> n = 0)
      /\ \A i \in 1 .. n : plan[i].first \in Nat /\ plan[i].last \in Nat
  BY PlanTyped DEF IInv
<1> HIDE DEF n
<1>0. \A i \in 1 .. n : plan[i] = [first |-> plan[i].first, last |-> plan[i].last]
  <2>1. \A i \in 1 .. n : plan[i] \in Bounds
    BY <1>2
  <2>2. \A r \in Bounds : r = [first |-> r.first, last |-> r.last]
    BY DEF Bounds
  <2> QED BY <2>1, <2>2
<1>3. \A i \in 1 .. n : AdmissibleRequest(profile, maxRead, wanted, plan[i])
  BY <1>1, <1>2 DEF IInv, RequestsInv
<1>4. \A i \in 1 .. n : /\ plan[i].first \in wanted /\ plan[i].last \in wanted
                        /\ plan[i].first <= plan[i].last
  BY <1>3 DEF AdmissibleRequest
<1>5. \A i, j \in 1 .. n : i < j => plan[i].last < plan[j].first
  BY <1>2 DEF IInv, OrderInv
<1>6. \A a \in wanted : \E i \in 1 .. n : a \in Covered(plan[i])
  BY <1>1, <1>2 DEF IInv, CoverInv
<1>7. \A a \in wanted : n > 0 /\ a <= plan[n].last
  BY <1>1, <1>2, <1>6 DEF IInv, LastInv, n
<1>8. \A i, j \in 1 .. n : i < j => /\ plan[i].first < plan[j].first
                                  /\ plan[i].last < plan[j].last
  BY <1>2, <1>4, <1>5
<1> QED BY <1>0, <1>1, <1>2, <1>3, <1>4, <1>5, <1>6, <1>7, <1>8 DEF IInv, GivenInv, n

(* Every wanted register is read by exactly one request of a poll, for every *)
(* profile, max_read and set of listeners (_create_read_ranges).             *)
LEMMA ReadsExactlyOnce == IInv => ReadExactlyOnce
<1> SUFFICES ASSUME IInv, planned
             PROVE  /\ \A a \in wanted : Cardinality({r \in requests : a \in Covered(r)}) = 1
                    /\ \A r \in requests : r.first \in wanted /\ r.last \in wanted
  BY DEF ReadExactlyOnce
<1> DEFINE n == Len(plan)
<1>1. /\ n \in Nat /\ wanted \in SUBSET Nat
      /\ \A i \in 1 .. n : /\ plan[i].first \in Nat /\ plan[i].last \in Nat
                            /\ plan[i].first \in wanted /\ plan[i].last \in wanted
      /\ \A i, j \in 1 .. n : i < j => plan[i].last < plan[j].first
      /\ \A a \in wanted : \E i \in 1 .. n : a \in Covered(plan[i])
  BY Finished
<1>2. requests = {plan[i] : i \in 1 .. n}
  BY Finished DEF requests
<1> HIDE DEF n
<1>3. ASSUME NEW a \in wanted
      PROVE  Cardinality({r \in requests : a \in Covered(r)}) = 1
  <2>1. PICK i \in 1 .. n : a \in Covered(plan[i])
    BY <1>1
  <2>2. \A j \in 1 .. n : a \in Covered(plan[j]) => j = i
    <3> SUFFICES ASSUME NEW j \in 1 .. n, a \in Covered(plan[j]), j # i PROVE FALSE
      OBVIOUS
    <3>1. /\ a \in Nat
          /\ plan[i].first <= a /\ a <= plan[i].last
          /\ plan[j].first <= a /\ a <= plan[j].last
      BY <1>1, <2>1 DEF Covered
    <3>2. CASE i < j
      BY <1>1, <3>1, <3>2
    <3>3. CASE j < i
      BY <1>1, <3>1, <3>3
    <3> QED BY <1>1, <3>2, <3>3
  <2>3. {r \in requests : a \in Covered(r)} = {plan[i]}
    BY <1>2, <2>1, <2>2
  <2> QED BY <2>3, FS_Singleton
<1> QED BY <1>1, <1>2, <1>3

(* Every request of a plan is one that the adapter and the inverter take,   *)
(* and the requests go upwards without overlapping (_create_read_ranges).   *)
LEMMA RequestsAdmissible == IInv => AdmissiblePlan
<1> SUFFICES ASSUME IInv, planned
             PROVE  /\ \A r \in requests : AdmissibleRequest(profile, maxRead, wanted, r)
                    /\ \A i, j \in DOMAIN plan : i < j => plan[i].last < plan[j].first
  BY DEF AdmissiblePlan
<1> QED BY Finished DEF requests

-------------------------------------------------------------------------------
(* What the requests before the i-th leave over.                            *)
left(i) == wanted \ UNION {Covered(plan[j]) : j \in 1 .. i}

LEMMA LeftOver ==
    ASSUME IInv, planned
    PROVE  /\ \A i \in 1 .. Len(plan) : left(i - 1) = {a \in wanted : plan[i].first <= a}
           /\ left(Len(plan)) = {}
<1> DEFINE n == Len(plan)
<1>1. /\ n \in Nat /\ wanted \in SUBSET Nat
      /\ \A i \in 1 .. n : plan[i].first \in Nat /\ plan[i].last \in Nat
      /\ \A i, j \in 1 .. n : i < j => /\ plan[i].last < plan[j].first
                                      /\ plan[i].first < plan[j].first
      /\ \A a \in wanted : \E i \in 1 .. n : a \in Covered(plan[i])
  BY Finished
<1>2. left(n) = {}
  BY <1>1 DEF left
<1> HIDE DEF n
<1>3. ASSUME NEW i \in 1 .. n PROVE left(i - 1) = {a \in wanted : plan[i].first <= a}
  <2>0. \A j \in 1 .. i - 1 : j \in 1 .. n /\ j < i
    BY <1>1
  <2>1. ASSUME NEW a \in left(i - 1) PROVE a \in wanted /\ plan[i].first <= a
    <3>1. a \in wanted /\ \A j \in 1 .. i - 1 : a \notin Covered(plan[j])
      BY DEF left
    <3>2. PICK k \in 1 .. n : a \in Covered(plan[k])
      BY <1>1, <3>1
    <3>3. k >= i
      BY <1>1, <3>1, <3>2
    <3>4. plan[k].first <= a /\ a \in Nat
      BY <1>1, <3>1, <3>2 DEF Covered
    <3>5. k = i \/ i < k
      BY <1>1, <3>3
    <3> QED BY <1>1, <3>1, <3>4, <3>5
  <2>2. ASSUME NEW a \in wanted, plan[i].first <= a PROVE a \in left(i - 1)
    <3>1. ASSUME NEW j \in 1 .. i - 1 PROVE a \notin Covered(plan[j])
      BY <1>1, <2>0, <2>2, <3>1 DEF Covered
    <3> QED BY <3>1 DEF left
  <2> QED BY <2>1, <2>2
<1> QED BY <1>2, <1>3 DEF n

(* The last register that the i-th request can reach is the one it ends at. *)
LEMMA ReachesNoFurther ==
    ASSUME IInv, planned, NEW i \in 1 .. Len(plan),
           ~IsIndividualRead(profile, plan[i].first),
           NEW c \in Reach(profile, maxRead, left(i - 1), plan[i].first)
    PROVE  c <= plan[i].last
<1> DEFINE n == Len(plan)
           s == plan[i].first
<1>1. /\ n \in Nat /\ wanted \in SUBSET Nat /\ wanted \cap profile.invalid = {}
      /\ maxRead \in Nat \ {0} /\ DOMAIN plan = 1 .. n
      /\ \A j \in 1 .. n : /\ plan[j].first \in Nat /\ plan[j].last \in Nat
                           /\ plan[j].first \in wanted /\ plan[j].first <= plan[j].last
      /\ \A j, k \in 1 .. n : j < k => /\ plan[j].last < plan[k].first
                                      /\ plan[j].first < plan[k].first
      /\ \A a \in wanted : \E j \in 1 .. n : a \in Covered(plan[j])
  BY Finished
<1>2. left(i - 1) = {a \in wanted : s <= a}
  BY LeftOver
<1>3. /\ c \in left(i - 1) /\ c - s < maxRead
      /\ c <= s + 1 \/ (\A x \in s .. c - 1 : x \notin profile.invalid)
      /\ \A b \in left(i - 1) : b <= c => ~IsIndividualRead(profile, b)
  BY DEF Reach, OverlapsInvalidRange
<1>4. c \in wanted /\ c \in Nat /\ s <= c
  BY <1>1, <1>2, <1>3
<1> HIDE DEF n
<1> SUFFICES ASSUME c > plan[i].last PROVE FALSE
  BY <1>1, <1>4
<1>5. PICK k \in 1 .. n : c \in Covered(plan[k])
  BY <1>1, <1>4
<1>6. plan[k].first <= c /\ c <= plan[k].last
  BY <1>5 DEF Covered
<1>7. i < k
  BY <1>1, <1>4, <1>6 DEF n
<1>8. i \in 1 .. n /\ i + 1 \in 1 .. n /\ (i + 1 = k \/ i + 1 < k)
  BY <1>1, <1>7 DEF n
<1> DEFINE t == plan[i + 1].first
<1>9. t \in Nat /\ t \in wanted /\ s \in Nat /\ s \in wanted /\ s < t /\ t <= c
  <2>1. /\ plan[i].first \in Nat /\ plan[i].first \in wanted
        /\ plan[i + 1].first \in Nat /\ plan[i + 1].first \in wanted
        /\ plan[i + 1].first <= plan[i + 1].last
    BY <1>1, <1>8, Zenon
  <2>2. i < i + 1
    OBVIOUS
  <2>3. plan[i].first < plan[i + 1].first
    BY <1>1, <1>8, <2>2, Zenon
  <2>4. plan[i + 1].first <= c
    <3>1. CASE i + 1 = k
      BY <1>6, <3>1
    <3>2. CASE i + 1 < k
      <4>1. plan[i + 1].last < plan[k].first
        BY <1>1, <1>5, <1>8, <3>2, Zenon
      <4>2. plan[i + 1].last \in Nat /\ plan[k].first \in Nat
        BY <1>1, <1>5, <1>8, Zenon
      <4> QED BY ONLY <1>4, <1>6, <2>1, <4>1, <4>2
    <3> QED BY <1>8, <3>1, <3>2
  <2> QED BY <2>1, <2>3, <2>4, Zenon
<1>10. Separate(s, t)
  BY <1>1, <1>8 DEF IInv, GreedyInv
<1> HIDE DEF s, t
<1>11. ~IsIndividualRead(profile, t) /\ ~IsIndividualRead(profile, s)
  BY <1>2, <1>3, <1>9 DEF s
<1>12. t - s < maxRead
  BY <1>1, <1>3, <1>4, <1>9
<1>13. ASSUME NEW x \in s .. t PROVE x \notin profile.invalid
  <2>1. CASE x = s \/ x = t
    BY <1>1, <1>9, <2>1
  <2>2. CASE x # s /\ x # t
    <3>1. x \in s .. c - 1 /\ ~(c <= s + 1)
      BY <1>4, <1>9, <2>2
    <3> QED BY <1>3, <3>1
  <2> QED BY <2>1, <2>2
<1> QED BY <1>1, <1>9, <1>10, <1>11, <1>12, <1>13 DEF Separate

(* Taking the first request of what is left, until nothing is left, gives   *)
(* what the generator yields: a poll of ModbusController, which takes its   *)
(* requests that way, makes those of _create_read_ranges.                   *)
LEMMA TakenStepwise == IInv => StepwisePlan
<1> SUFFICES ASSUME IInv, planned
             PROVE  /\ \A i \in DOMAIN plan :
                          /\ left(i - 1) # {}
                          /\ plan[i] = FirstRequest(profile, maxRead, left(i - 1))
                    /\ left(Len(plan)) = {}
  BY DEF StepwisePlan, left
<1> DEFINE n == Len(plan)
<1>1. /\ n \in Nat /\ wanted \in SUBSET Nat /\ DOMAIN plan = 1 .. n
      /\ plan \in Seq(Bounds) /\ maxRead \in Nat \ {0}
      /\ \A i \in 1 .. n : /\ plan[i].first \in Nat /\ plan[i].last \in Nat
                            /\ plan[i].first \in wanted /\ plan[i].last \in wanted
                            /\ plan[i].first <= plan[i].last
                            /\ AdmissibleRequest(profile, maxRead, wanted, plan[i])
  BY Finished
<1> SUFFICES ASSUME NEW i \in 1 .. n
             PROVE  /\ left(i - 1) # {}
                    /\ plan[i] = FirstRequest(profile, maxRead, left(i - 1))
  BY <1>1, LeftOver
<1> DEFINE r == plan[i]
           S == left(i - 1)
           block == Reach(profile, maxRead, S, r.first)
<1>2. S = {a \in wanted : r.first <= a}
  BY LeftOver
<1>3. ~IsIndividualRead(profile, r.first) => \A c \in block : c <= r.last
  BY ReachesNoFurther
<1>4. /\ r.first \in Nat /\ r.last \in Nat /\ r.first <= r.last
      /\ r.first \in wanted /\ r.last \in wanted
      /\ AdmissibleRequest(profile, maxRead, wanted, r)
  BY <1>1
<1>5. r = [first |-> r.first, last |-> r.last]
  BY Finished
<1>0. wanted \in SUBSET Nat
  BY <1>1
<1> HIDE DEF r, S
<1>6. S \in SUBSET Nat /\ r.first \in S /\ r.last \in S
  <2>1. \A a : a \in S <=> a \in wanted /\ r.first <= a
    BY <1>2
  <2>2. r.first <= r.first
    BY <1>4
  <2> HIDE DEF block
  <2> QED BY <1>0, <1>4, <2>1, <2>2
<1>7. FirstOf(S) = r.first
  BY <1>2, <1>4, <1>6, FirstOfIsFirst
<1>8. CASE IsIndividualRead(profile, r.first)
  <2>1. r.first \in Covered(r) /\ r.last \in Covered(r)
    BY <1>4 DEF Covered
  <2>2. r.last = r.first
    BY <1>4, <1>8, <2>1 DEF AdmissibleRequest
  <2> QED BY <1>5, <1>6, <1>7, <1>8, <2>2 DEF FirstRequest, r, S
<1>9. CASE ~IsIndividualRead(profile, r.first)
  <2>1. r.last \in block
    <3>1. r.last - r.first < maxRead
      BY <1>4 DEF AdmissibleRequest
    <3>2. ~OverlapsInvalidRange(profile, r.first, r.last - 1)
      BY <1>4 DEF AdmissibleRequest, OverlapsInvalidRange, Covered
    <3>3. ASSUME NEW b \in S, b <= r.last PROVE ~IsIndividualRead(profile, b)
      <4>0. b \in wanted /\ b \in Nat /\ r.first <= b
        BY <1>2, <1>0
      <4>1. b \in Covered(r) /\ r.first \in Covered(r)
        BY <1>4, <3>3, <4>0 DEF Covered
      <4> QED BY <1>4, <1>9, <4>0, <4>1 DEF AdmissibleRequest
    <3> QED BY <1>6, <3>1, <3>2, <3>3 DEF Reach
  <2>2. block \subseteq S
    BY DEF Reach
  <2> HIDE DEF block
  <2>3. LastOf(block) \in block /\ \A c \in block : c <= LastOf(block)
    BY <1>3, <1>4, <1>6, <1>9, <2>1, <2>2, LastOfIsLast
  <2>4. LastOf(block) <= r.last /\ r.last <= LastOf(block)
    BY <1>3, <1>9, <2>1, <2>3 DEF block
  <2>5. LastOf(block) \in Nat
    BY <1>6, <2>2, <2>3
  <2>6. LastOf(block) = r.last
    BY <1>4, <2>4, <2>5
  <2> QED BY <1>5, <1>6, <1>7, <1>9, <2>6 DEF FirstRequest, block, r, S
<1> QED BY <1>8, <1>9

-------------------------------------------------------------------------------
(* An admissible request does not serve two registers that are separate.    *)
LEMMA NotSeparate ==
    ASSUME maxRead \in Nat \ {0}, NEW block \in SUBSET Nat, NEW m \in Nat,
           \A x \in block : x <= m, Admissible(block),
           NEW a \in block, NEW b \in block, a < b
    PROVE  ~Separate(a, b)
<1> DEFINE f == FirstOf(block)
           l == LastOf(block)
<1>1. /\ f \in Nat /\ l \in Nat /\ a \in Nat /\ b \in Nat
      /\ f <= a /\ f <= b /\ a <= l /\ b <= l
  BY FirstOfIsFirst, LastOfIsLast
<1>2. /\ Cardinality(f .. l) <= maxRead
      /\ (f .. l) \cap profile.invalid = {}
      /\ \A x \in block : IsIndividualRead(profile, x) => block = {x}
  BY DEF Admissible
<1> HIDE DEF f, l
<1>3. Cardinality(f .. l) = l - f + 1
  BY <1>1, FS_Interval
<1>4. b - a < maxRead
  BY <1>1, <1>2, <1>3
<1>5. \A x \in a .. b : x \notin profile.invalid
  BY <1>1, <1>2
<1>6. ~IsIndividualRead(profile, a) /\ ~IsIndividualRead(profile, b)
  BY <1>1, <1>2
<1> QED BY <1>1, <1>4, <1>5, <1>6 DEF Separate

(* No way of cutting the wanted registers into admissible requests needs    *)
(* fewer requests than the plan: with fewer, one of them would serve the    *)
(* starts of two requests of the plan, hence of two consecutive ones, which *)
(* are separate.  The comment in _create_read_ranges doubts that a greedy   *)
(* plan is the best.                                                        *)
LEMMA FewestPossible == IInv /\ planned => NoShorterPlan
<1> DEFINE block(starts, s) ==
             {a \in wanted : s <= a /\ \A t \in starts : t > s => a < t}
<1> SUFFICES ASSUME IInv, planned, NEW starts \in SUBSET wanted,
                    \A a \in wanted : \E s \in starts : s <= a,
                    \A s \in starts : Admissible(block(starts, s))
             PROVE  Len(plan) <= Cardinality(starts)
  BY DEF NoShorterPlan
<1> DEFINE n == Len(plan)
<1>1. /\ n \in Nat /\ wanted \in SUBSET Nat /\ DOMAIN plan = 1 .. n
      /\ maxRead \in Nat \ {0}
      /\ \A i \in 1 .. n : plan[i].first \in Nat /\ plan[i].first \in wanted
      /\ \A i, j \in 1 .. n : i < j => plan[i].first < plan[j].first
      /\ \A a \in wanted : n > 0 /\ a <= plan[n].last
      /\ n > 0 => plan[n].last \in Nat
  BY Finished
<1>2. \A i, j \in 1 .. n : j = i + 1 => Separate(plan[i].first, plan[j].first)
  BY <1>1 DEF IInv, GreedyInv
<1>3. IsFiniteSet(starts) /\ Cardinality(starts) \in Nat
  BY FS_Subset, FS_CardinalityType DEF IInv, GivenInv
<1> HIDE DEF n, block
<1> SUFFICES ASSUME Cardinality(starts) < n PROVE FALSE
  BY <1>1, <1>3 DEF n
(* The request of the other plan that serves the start of the i-th. *)
<1> DEFINE upTo(i) == {s \in starts : s <= plan[i].first}
           f == [i \in 1 .. n |-> LastOf(upTo(i))]
<1>4. ASSUME NEW i \in 1 .. n
      PROVE  LastOf(upTo(i)) \in upTo(i) /\ \A s \in upTo(i) : s <= LastOf(upTo(i))
  <2>1. upTo(i) \in SUBSET Nat /\ upTo(i) # {} /\ \A s \in upTo(i) : s <= plan[i].first
    BY <1>1
  <2> HIDE DEF upTo
  <2> QED BY <1>1, <2>1, LastOfIsLast
<1>5. f \in [1 .. n -> starts]
  BY <1>4
<1>6. \A i \in 1 .. n : f[i] \in starts /\ f[i] <= plan[i].first
                        /\ \A s \in starts : s <= plan[i].first => s <= f[i]
  BY <1>4
<1> HIDE DEF f, upTo
<1>7. IsFiniteSet(1 .. n) /\ Cardinality(1 .. n) = n
  BY <1>1, FS_Interval
<1>8. \E i, j \in 1 .. n : i # j /\ f[i] = f[j]
  BY <1>3, <1>5, <1>7, FS_PigeonHole
<1>9. PICK i \in 1 .. n, j \in 1 .. n : i < j /\ f[i] = f[j]
  BY <1>1, <1>8
<1> DEFINE s == f[i]
           a == plan[i].first
           b == plan[i + 1].first
<1>10. i + 1 \in 1 .. n /\ (i + 1 = j \/ i + 1 < j)
  BY <1>1, <1>9
<1>11. a \in Nat /\ a \in wanted /\ b \in Nat /\ b \in wanted
       /\ a < b /\ b <= plan[j].first /\ plan[j].first \in Nat
  <2>1. i < i + 1
    BY <1>1
  <2>2. a < b /\ a \in Nat /\ a \in wanted /\ b \in Nat /\ b \in wanted
    BY <1>1, <1>10, <2>1
  <2>3. plan[j].first \in Nat /\ (b = plan[j].first \/ b < plan[j].first)
    BY <1>1, <1>10
  <2> HIDE DEF a, b
  <2> QED BY <2>2, <2>3
<1>12. s \in Nat /\ s \in starts /\ s <= a
       /\ \A t \in starts : t \in Nat /\ (t > s => plan[j].first < t)
  <2>1. \A t \in starts : t \in Nat
    BY <1>1
  <2>2. s \in starts /\ s <= a /\ \A t \in starts : t <= plan[j].first => t <= s
    BY <1>6, <1>9
  <2> HIDE DEF s, a
  <2> QED BY <1>11, <2>1, <2>2
<1>13. Separate(a, b)
  BY <1>2, <1>10
<1> HIDE DEF s, a, b
<1>14. a \in block(starts, s) /\ b \in block(starts, s)
  BY <1>11, <1>12 DEF block
<1>15. block(starts, s) \in SUBSET Nat
       /\ \A x \in block(starts, s) : x <= plan[n].last /\ plan[n].last \in Nat
  BY <1>1 DEF block
<1>16. Admissible(block(starts, s))
  BY <1>12
<1> QED BY <1>1, <1>11, <1>13, <1>14, <1>15, <1>16, NotSeparate

-------------------------------------------------------------------------------
(* The start of the next request is separate from the start of a request,   *)
(* so nothing admissible reaches from the one to the other.                 *)
LEMMA LargestPossible == IInv => AsLargeAsItCanBe
<1> DEFINE n == Len(plan)
           upToNext(i) == {a \in wanted : plan[i].first <= a /\ a <= plan[i + 1].first}
<1> SUFFICES ASSUME IInv, planned, NEW i \in 1 .. n - 1
             PROVE  ~Admissible(upToNext(i))
  BY DEF AsLargeAsItCanBe
<1>1. /\ n \in Nat /\ wanted \in SUBSET Nat /\ DOMAIN plan = 1 .. n
      /\ maxRead \in Nat \ {0}
      /\ \A j \in 1 .. n : plan[j].first \in Nat /\ plan[j].first \in wanted
      /\ \A j, k \in 1 .. n : j < k => plan[j].first < plan[k].first
  BY Finished
<1>2. i \in 1 .. n /\ i + 1 \in 1 .. n /\ i < i + 1
  BY <1>1
<1> DEFINE a == plan[i].first
           b == plan[i + 1].first
<1>3. a \in Nat /\ a \in wanted /\ b \in Nat /\ b \in wanted /\ a < b
  BY <1>1, <1>2
<1>4. Separate(a, b)
  BY <1>1, <1>2 DEF IInv, GreedyInv
<1>5. \A x : x \in upToNext(i) <=> x \in wanted /\ a <= x /\ x <= b
  OBVIOUS
<1> HIDE DEF n, a, b, upToNext
<1> DEFINE block == upToNext(i)
<1> HIDE DEF block
<1>6. block \subseteq wanted /\ \A x \in block : x <= b
  BY <1>5 DEF block
<1>7. a \in block /\ b \in block
  <2>1. a <= a /\ a <= b /\ b <= b
    BY <1>3
  <2> QED BY <1>3, <1>5, <2>1 DEF block
<1>8. block \in SUBSET Nat
  BY <1>1, <1>6
<1> QED BY <1>1, <1>3, <1>4, <1>6, <1>7, <1>8, NotSeparate DEF block

(* The halves of a number that are read by two requests are the last and    *)
(* the first register of these; what keeps their starts separate can only   *)
(* be max_read.                                                             *)
LEMMA TornWhenFull == IInv => WholeUnlessFull
<1> DEFINE n == Len(plan)
<1> SUFFICES ASSUME IInv, planned, NEW a \in wanted, a + 1 \in wanted,
                    ~IsIndividualRead(profile, a), ~IsIndividualRead(profile, a + 1)
             PROVE  \/ \E r \in requests : {a, a + 1} \subseteq Covered(r)
                    \/ \E r \in requests : r.last = a /\ r.last - r.first + 1 = maxRead
  BY DEF WholeUnlessFull
<1>1. /\ n \in Nat /\ wanted \in SUBSET Nat /\ DOMAIN plan = 1 .. n
      /\ wanted \cap profile.invalid = {} /\ maxRead \in Nat \ {0}
      /\ \A i \in 1 .. n : /\ plan[i].first \in Nat /\ plan[i].last \in Nat
                            /\ plan[i].first \in wanted /\ plan[i].first <= plan[i].last
                            /\ AdmissibleRequest(profile, maxRead, wanted, plan[i])
      /\ \A i, j \in 1 .. n : i < j => /\ plan[i].last < plan[j].first
                                      /\ plan[i].first < plan[j].first
      /\ \A x \in wanted : \E i \in 1 .. n : x \in Covered(plan[i])
  BY Finished
<1>2. \A i \in 1 .. n : plan[i] \in requests
  BY <1>1 DEF requests
<1> HIDE DEF n
<1>3. PICK i \in 1 .. n : a \in Covered(plan[i])
  BY <1>1
<1> DEFINE first == plan[i].first
           last == plan[i].last
<1>4. /\ a \in Nat /\ first \in Nat /\ last \in Nat /\ first \in wanted
      /\ first <= a /\ a <= last
  BY <1>1, <1>3 DEF Covered
<1>5. CASE a + 1 <= last
  <2>1. a + 1 \in Covered(plan[i])
    BY <1>4, <1>5 DEF Covered
  <2> QED BY <1>2, <1>3, <2>1
<1>6. CASE ~(a + 1 <= last)
  <2>1. last = a
    BY <1>4, <1>6
  <2>2. PICK k \in 1 .. n : a + 1 \in Covered(plan[k])
    BY <1>1
  <2> DEFINE next == plan[k].first
  <2>3. next \in Nat /\ next <= a + 1 /\ a + 1 <= plan[k].last /\ plan[k].last \in Nat
    BY <1>1, <2>2 DEF Covered
  <2>4. i < k
    <3>1. k # i
      BY <1>4, <2>1, <2>3
    <3>2. ~(k < i)
      <4> SUFFICES ASSUME k < i PROVE FALSE
        OBVIOUS
      <4>1. plan[k].last < first
        BY <1>1
      <4> HIDE DEF first, last
      <4> QED BY <1>4, <2>1, <2>3, <4>1
    <3>3. k \in Int /\ i \in Int
      BY <1>1
    <3> QED BY <3>1, <3>2, <3>3
  <2>5. a + 1 = next
    BY <1>1, <1>4, <2>1, <2>3, <2>4
  <2>6. k = i + 1
    <3> SUFFICES ASSUME i + 1 < k PROVE FALSE
      BY <2>4
    <3>1. i + 1 \in 1 .. n /\ i < i + 1
      BY <1>1
    <3>2. plan[i].last < plan[i + 1].first /\ plan[i + 1].first < plan[k].first
          /\ plan[i + 1].first \in Nat
      BY <1>1, <3>1
    <3> QED BY <1>4, <2>1, <2>5, <3>2
  <2>7. Separate(first, a + 1)
    BY <1>1, <2>5, <2>6 DEF IInv, GreedyInv
  <2>8. /\ first \in Covered(plan[i]) /\ last - first < maxRead
        /\ Covered(plan[i]) \cap profile.invalid = {}
        /\ IsIndividualRead(profile, first) => Covered(plan[i]) = {first}
    <3>1. AdmissibleRequest(profile, maxRead, wanted, plan[i])
      BY <1>1
    <3>2. first \in Covered(plan[i])
      BY <1>4 DEF Covered
    <3> QED BY <1>4, <3>1, <3>2 DEF AdmissibleRequest
  <2>9. ~IsIndividualRead(profile, first)
    BY <1>3, <2>8
  <2>10. \A x \in first .. a + 1 : x \notin profile.invalid
    <3>1. \A x \in first .. a + 1 : x \in Covered(plan[i]) \/ x = a + 1
      BY <1>4, <2>1 DEF Covered
    <3> QED BY <1>1, <2>8, <3>1
  <2>11. (a + 1) - first >= maxRead
    BY <2>7, <2>9, <2>10 DEF Separate
  <2>12. last - first + 1 = maxRead
    <3>1. maxRead \in Nat
      BY <1>1
    <3>2. last = a /\ last - first < maxRead /\ (a + 1) - first >= maxRead
      BY <2>1, <2>8, <2>11
    <3> HIDE DEF first, last
    <3> QED BY <1>4, <3>1, <3>2
  <2> QED BY <1>2, <2>1, <2>12
<1> QED BY <1>5, <1>6

LEMMA PlansLean == IInv => LeanPlan
BY FewestPossible, LargestPossible, TornWhenFull DEF LeanPlan, FewestRequests

-------------------------------------------------------------------------------
(* What is said of a plan holds of every plan that the loop makes: for every *)
(* finite set of registers, with any poll types, profile and max_read.      *)

(* Every wanted register is read by exactly one request of a poll           *)
(* (_create_read_ranges).                                                   *)
THEOREM PlanReadsExactlyOnce == Spec => []ReadExactlyOnce
<1> QED BY Invariant, ReadsExactlyOnce, PTL

(* Every request of a plan is one that the adapter and the inverter take,   *)
(* and the requests go upwards without overlapping (_create_read_ranges).   *)
THEOREM PlanAdmissible == Spec => []AdmissiblePlan
<1> QED BY Invariant, RequestsAdmissible, PTL

(* Taking the first request of what is left, until nothing is left, gives   *)
(* what the generator yields: a poll of ModbusController, which takes its   *)
(* requests that way, makes those of _create_read_ranges.                   *)
THEOREM PlanStepwise == Spec => []StepwisePlan
<1> QED BY Invariant, TakenStepwise, PTL

(* No way of cutting the wanted registers into admissible requests needs    *)
(* fewer requests than the plan; no request could have reached to the start *)
(* of the next; and a number over two registers is only torn by a request   *)
(* as large as the adapter allows.  The comment in _create_read_ranges      *)
(* doubts that a greedy plan is the best.                                   *)
THEOREM PlanLean == Spec => []LeanPlan
<1> QED BY Invariant, PlansLean, PTL

-------------------------------------------------------------------------------
(* The same of every inverter that can be configured, with the registers    *)
(* that its entities listen on, on every adapter.                           *)

(* Every register that an entity of an inverter listens on, and that this   *)
(* poll is after, is read by exactly one request (_create_read_ranges).     *)
THEOREM InverterReadsExactlyOnce == InverterSpec => []ReadExactlyOnce
<1> QED BY InverterInvariant, ReadsExactlyOnce, PTL

(* No request to an inverter is longer than its adapter takes, reads a      *)
(* register its profile declares invalid, or joins an individually read one *)
(* to others (_create_read_ranges, register_modbus_entity).                 *)
THEOREM InverterAdmissible == InverterSpec => []AdmissiblePlan
<1> QED BY InverterInvariant, RequestsAdmissible, PTL

(* The controller of an inverter steps through the plan that the generator  *)
(* yields (_create_read_ranges, _read_all_registers).                       *)
THEOREM InverterStepwise == InverterSpec => []StepwisePlan
<1> QED BY InverterInvariant, TakenStepwise, PTL

(* No way of cutting what a poll of an inverter is after into admissible    *)
(* requests needs fewer requests than the plan (_create_read_ranges): for   *)
(* the registers of a whole inverter there are too many ways to try.        *)
THEOREM InverterFewest == InverterSpec => [](planned => NoShorterPlan)
<1>1. IInv => (planned => NoShorterPlan)
  BY FewestPossible
<1> QED BY <1>1, InverterInvariant, PTL

(* Nor does a request to an inverter stop short of what it could read, or   *)
(* tear a value that the inverter spreads over two registers without being  *)
(* full (_create_read_ranges).                                              *)
THEOREM InverterLean == InverterSpec => []LeanPlan
<1> QED BY InverterInvariant, PlansLean, PTL

-------------------------------------------------------------------------------
(* The highest of the bounds that are not above one of them is this one:    *)
(* get_inv_for_version finds what the profile lists, whatever it lists.     *)
LEMMA ListedVersionFound ==
    ASSUME NEW versions, DOMAIN versions \subseteq Int, NEW v \in DOMAIN versions
    PROVE  InvForVersion(versions, v) = versions[v]
<1> DEFINE below == {b \in DOMAIN versions : b <= v}
           highest == CHOOSE b \in below : \A c \in below : c <= b
<1>1. v \in below /\ \A c \in below : c <= v
  OBVIOUS
<1>2. highest \in below /\ \A c \in below : c <= highest
  <2> HIDE DEF below
  <2> QED BY <1>1
<1>3. highest \in Int /\ highest <= v /\ v <= highest
  BY <1>1, <1>2
<1>4. highest = v
  <2> HIDE DEF highest
  <2> QED BY <1>3
<1>5. InvForVersion(versions, v) = versions[highest]
  BY <1>1 DEF InvForVersion
<1> QED BY <1>4, <1>5

(* The bounds of every profile are versions.                                *)
LEMMA VersionsAreNumbers ==
    ASSUME NEW model \in Models, NEW connection
    PROVE  DOMAIN ProfileFor(model, connection).versions \subseteq Int
<1>1. \A inv : DOMAIN Only(inv) \subseteq Int
  BY DEF Only, Latest
<1>2. \A bound \in {101, 122, 133, 144, 180} : \A inv, latest :
        DOMAIN UpTo(bound, inv, latest) \subseteq Int
  BY DEF UpTo, Latest
<1>3. \A type, special, versions : Profile(type, special, versions).versions = versions
  BY DEF Profile
<1>4. CASE connection = "LAN" /\ model \in LanModels
  BY <1>1, <1>3, <1>4 DEF ProfileFor
<1>5. CASE ~(connection = "LAN" /\ model \in LanModels)
  <2>1. ProfileFor(model, connection) = AuxProfile(model)
    BY <1>5 DEF ProfileFor
  <2>2. model \in Models
    OBVIOUS
  <2>3. CASE model \in G2Models
    BY <1>2, <1>3, <2>1, <2>3 DEF AuxProfile, G2Models, LanModels, OemH3Models, SmartModels
  <2>4. CASE model \in LanModels \cup {"AIO-AC1"}
    BY <1>1, <1>3, <2>1, <2>4 DEF AuxProfile, G2Models, LanModels, OemH3Models, SmartModels
  <2>5. CASE model \in OemH3Models
    BY <1>1, <1>3, <2>1, <2>5 DEF AuxProfile, G2Models, LanModels, OemH3Models, SmartModels
  <2>6. CASE model \in SmartModels
    BY <1>1, <1>3, <2>1, <2>6 DEF AuxProfile, G2Models, LanModels, OemH3Models, SmartModels
  <2>7. CASE model \in {"KUARA-H3", "EVO"}
    BY <1>1, <1>3, <2>1, <2>7 DEF AuxProfile, G2Models, LanModels, OemH3Models, SmartModels
  <2>8. CASE model \in {"KH", "H3", "AC3", "AIO-H3", "H3_PRO"}
    BY <1>2, <1>3, <2>1, <2>8 DEF AuxProfile, G2Models, LanModels, OemH3Models, SmartModels
  <2> QED BY <2>2, <2>3, <2>4, <2>5, <2>6, <2>7, <2>8 DEF Models
<1> QED BY <1>4, <1>5

LEMMA DeviceHasItsInv ==
    ASSUME NEW d \in Devices
    PROVE  d.inv = d.versions[d.version]
<1>1. PICK model \in Models, connection \in Connections :
        \E v \in DOMAIN ProfileFor(model, connection).versions :
          LET p == ProfileFor(model, connection)
          IN  d = [connection |-> connection, type |-> p.type, special |-> p.special,
                   versions |-> p.versions, version |-> v,
                   inv |-> InvForVersion(p.versions, v)]
  BY DEF Devices
<1> DEFINE versions == ProfileFor(model, connection).versions
<1>2. PICK v \in DOMAIN versions :
        d.versions = versions /\ d.version = v /\ d.inv = InvForVersion(versions, v)
  BY <1>1
<1>3. DOMAIN versions \subseteq Int
  BY VersionsAreNumbers
<1> HIDE DEF versions
<1> QED BY <1>2, <1>3, ListedVersionFound

(* A firmware version chosen from the ones the options offer selects the    *)
(* Inv that the profile lists for it (get_inv_for_version).                 *)
THEOREM VersionsFindTheirInv == InverterSpec => []VersionsRoundTrip
<1> DEFINE Known == device # NoDevice => device \in Devices
<1>1. InverterInit => Known
  BY DEF InverterInit, InitInverter
<1>2. Known /\ [InverterNext]_<<vars, device>> => Known'
  BY DEF InverterNext
<1>3. Known => VersionsRoundTrip
  BY DeviceHasItsInv DEF VersionsRoundTrip, real
<1> QED BY <1>1, <1>2, <1>3, PTL DEF InverterSpec

===============================================================================
