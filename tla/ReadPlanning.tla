----------------------------- MODULE ReadPlanning -----------------------------
(***************************************************************************)
(* Planning one poll, for every small controller: what the entities listen *)
(* on, what the profile says of the registers, which ones were found       *)
(* invalid and how many registers the adapter can read at once.            *)
(*                                                                         *)
(* The properties say what a plan must be, independently of the loop that  *)
(* makes it.                                                               *)
(***************************************************************************)
EXTENDS ReadRanges

CONSTANTS
    Registers,      \* a contiguous set of register addresses
    MaxReads        \* the max_read settings of the adapters (8, 20, ...)

ASSUME RegistersAssumption == Registers \subseteq Nat /\ IsFiniteSet(Registers)
ASSUME MaxReadsAssumption == MaxReads \subseteq Nat \ {0}

VARIABLES
    pollType,       \* _data: the registers listened on, with their poll type
    profile,        \* the inverter's special registers
    detected,       \* registers that answered IllegalAddress on their own
    maxRead,        \* _max_read
    isInitial,      \* the connection state is not CONNECTED
    todo,           \* the wanted registers that the loop has not visited
    growing           \* the request being grown, and those yielded so far

controller == <<pollType, profile, detected, maxRead, isInitial>>
vars == <<controller, todo, growing>>

wanted == Wanted(pollType, detected, isInitial)

(* What a register can be to the entities and to the profile: nobody       *)
(* listens on an invalid register (register_modbus_entity asserts it).     *)
Uses == {"unused", "periodic", "on_connection", "detected"}
Kinds == (Uses \X {"plain", "individual"}) \cup {<<"unused", "invalid">>}

Init ==
    \E kind \in [Registers -> Kinds] :
      LET used(u)    == {a \in Registers : kind[a][1] = u}
          special(s) == {a \in Registers : kind[a][2] = s}
      IN  /\ pollType = [a \in Registers \ used("unused") |->
                           IF a \in used("on_connection") THEN "ON_CONNECTION"
                                                          ELSE "PERIODICALLY"]
          /\ profile = [invalid |-> special("invalid"), individual |-> special("individual")]
          /\ detected = used("detected")
          /\ maxRead \in MaxReads
          /\ isInitial \in BOOLEAN
          /\ todo = wanted /\ growing = NoRequest

(* One turn of the loop, which visits the registers upwards (sorted).      *)
VisitRegister ==
    /\ todo # {}
    /\ LET a == FirstOf(todo)
       IN  growing' = Visit(profile, maxRead, growing, a) /\ todo' = todo \ {a}
    /\ UNCHANGED controller

Next == VisitRegister

Spec == Init /\ [][Next]_vars

-------------------------------------------------------------------------------
planned == todo = {}

(* What the generator has yielded once its loop ends.                       *)
plan == Yield(growing).out

requests == {plan[i] : i \in DOMAIN plan}

(* Every wanted register is read by exactly one request of the poll, and no *)
(* request is made that reads no wanted register.  A register that falls    *)
(* between two requests keeps its old value while the poll counts as        *)
(* successful (_refresh, _create_read_ranges).                              *)
ReadExactlyOnce ==
    planned => /\ \A a \in wanted : Cardinality({r \in requests : a \in Covered(r)}) = 1
               /\ \A r \in requests : r.first \in wanted /\ r.last \in wanted

(* Every request of a plan is one that the adapter and the inverter take,   *)
(* and requests go upwards without overlapping.  max_read is a limit of the *)
(* adapter, which answers longer requests with an error; stretching a       *)
(* request over a gap to save a round trip must not drag in a register that *)
(* the profile declares invalid, since the inverter then rejects all of it; *)
(* and some registers only answer when read alone (_create_read_ranges,     *)
(* overlaps_invalid_range, is_individual_read).                             *)
AdmissiblePlan ==
    planned => /\ \A r \in requests : AdmissibleRequest(profile, maxRead, wanted, r)
               /\ \A i, j \in DOMAIN plan : i < j => plan[i].last < plan[j].first

(* A request for a block of wanted registers.                               *)
Admissible(block) ==
    LET span == FirstOf(block) .. LastOf(block)
    IN  /\ Cardinality(span) <= maxRead
        /\ span \cap profile.invalid = {}
        /\ \A a \in block : IsIndividualRead(profile, a) => block = {a}

(* A way of cutting the wanted registers into requests is given by the      *)
(* first register of each.                                                  *)
NoShorterPlan ==
    \A starts \in SUBSET wanted :
      LET block(s) == {a \in wanted : s <= a /\ \A t \in starts : t > s => a < t}
      IN  (/\ \A a \in wanted : \E s \in starts : s <= a
           /\ \A s \in starts : Admissible(block(s)))
          => Len(plan) <= Cardinality(starts)

(* The greedy plan is as good as any: no way of cutting the wanted          *)
(* registers into admissible requests needs fewer of them.  All ways are    *)
(* tried, so TLC is asked this of the small controllers only.               *)
FewestRequests == planned /\ wanted \subseteq Registers => NoShorterPlan

(* Taking the first request of what is left until nothing is left gives the *)
(* loop's plan: what ModbusController steps through is what the generator   *)
(* of the source yields.                                                    *)
StepwisePlan ==
    planned =>
      LET left(i) == wanted \ UNION {Covered(plan[j]) : j \in 1 .. i}
      IN  /\ \A i \in DOMAIN plan : /\ left(i - 1) # {}
                                    /\ plan[i] = FirstRequest(profile, maxRead, left(i - 1))
          /\ left(Len(plan)) = {}

(* The loop is to make each read as large as it can be: no request could    *)
(* have taken in the register that the next one starts at (the comment in   *)
(* _create_read_ranges).                                                    *)
AsLargeAsItCanBe ==
    planned =>
      \A i \in 1 .. Len(plan) - 1 :
        ~Admissible({a \in wanted : plan[i].first <= a /\ a <= plan[i + 1].first})

(* Two adjacent registers, the halves of one number, are read by the same   *)
(* request unless the request that ends at the first has as many registers  *)
(* as the adapter reads at once: no gap, no invalid register and no         *)
(* individually read neighbour tears a number that max_read would not.      *)
WholeUnlessFull ==
    planned =>
      \A a \in wanted :
        /\ a + 1 \in wanted
        /\ ~IsIndividualRead(profile, a) /\ ~IsIndividualRead(profile, a + 1)
        => \/ \E r \in requests : {a, a + 1} \subseteq Covered(r)
           \/ \E r \in requests : r.last = a /\ r.last - r.first + 1 = maxRead

(* Reads are expensive, registers are cheap, and numbers are spread over    *)
(* two registers: a plan has no request too many, none that stops short of  *)
(* what it could read, and none that tears a number without being full      *)
(* (_create_read_ranges).                                                   *)
LeanPlan == FewestRequests /\ AsLargeAsItCanBe /\ WholeUnlessFull

-------------------------------------------------------------------------------
(* The groupings that the comment in _create_read_ranges asks for.          *)
Plain == [invalid |-> {}, individual |-> {}]
Cut(registers) ==
    LET loop[seen \in SUBSET registers] ==
          IF seen = {} THEN NoRequest
          ELSE Visit(Plain, 5, loop[seen \ {LastOf(seen)}], LastOf(seen))
    IN  Yield(loop[registers]).out

ASSUME CommentExamples ==
    /\ Cut({1, 2, 4, 5}) = <<Request(1, 5)>>
    /\ Cut({1, 2, 5, 6, 7, 8, 9, 10}) = <<Request(1, 5), Request(6, 5)>>
    /\ Cut({1, 2, 3, 5, 6, 7, 9, 10}) = <<Request(1, 5), Request(6, 5)>>
===============================================================================
