------------------------------ MODULE ReadRanges ------------------------------
(***************************************************************************)
(* How a poll is cut into Modbus read requests:                            *)
(* ModbusController._create_read_ranges and the questions it asks of the   *)
(* inverter's profile.                                                     *)
(*                                                                         *)
(* A register is its address.  A profile is a record [invalid, individual] *)
(* of two sets of addresses: the source keeps them as lists of inclusive   *)
(* ranges and only ever tests membership and overlap.  A request is a      *)
(* record [first, last] (the source's start address and read size).        *)
(*                                                                         *)
(* The source is a generator: ReadPlanning lets it visit one register at a *)
(* time.  It is resumed between the reads of a poll, but all it looks at   *)
(* that could change meanwhile is the set of registers found invalid, and  *)
(* a poll only adds registers of the request just yielded to it, which lie *)
(* below every register the generator still has to visit: what it visits   *)
(* is therefore settled when the poll starts.                              *)
(***************************************************************************)
EXTENDS Integers, FiniteSets, Sequences, SequencesExt

PollTypes == {"PERIODICALLY", "ON_CONNECTION"}

Request(first, size) == [first |-> first, last |-> first + size - 1]

(* The registers a request reads. *)
Covered(request) == request.first .. request.last

OverlapsInvalidRange(profile, start, end) == \E a \in start .. end : a \in profile.invalid

(* A slip: a range that never ends. *)
IsIndividualReadFrom(profile, a) == \E b \in profile.individual : b <= a

IsIndividualRead(profile, a) == a \in profile.individual

(* The registers this poll is after: pollType maps the registers that the  *)
(* entities listen on to their poll type.                                  *)
Wanted(pollType, detected, isInitialConnection) ==
    {a \in DOMAIN pollType : /\ a \notin detected
                             /\ pollType[a] = "ON_CONNECTION" => isInitialConnection}

-------------------------------------------------------------------------------
(* The loop.  The request being grown is [start, size], size = 0 when there *)
(* is none (start_address is None); out holds the requests yielded so far.  *)

Grown(start, size, out) == [start |-> start, size |-> size, out |-> out]

NoRequest == Grown(0, 0, <<>>)

Yield(g) ==
    IF g.size = 0 THEN g ELSE Grown(0, 0, Append(g.out, Request(g.start, g.size)))

(* Slips that must not go unnoticed: one register too many, the overlap     *)
(* test looking one register too far.                                       *)
ExtendsOneMore(profile, maxRead, g, a) ==
    a <= g.start + maxRead /\ ~OverlapsInvalidRange(profile, g.start, a - 1)
ExtendsWarily(profile, maxRead, g, a) ==
    a <= g.start + maxRead - 1 /\ ~OverlapsInvalidRange(profile, g.start, a + 1)

Extends(profile, maxRead, g, a) ==
    \/ a = g.start + 1
    \/ /\ a <= g.start + maxRead - 1
       /\ ~OverlapsInvalidRange(profile, g.start, a - 1)

(* A slip: the request being grown is dropped at an individual read. *)
VisitDropping(profile, maxRead, g, a) ==
    LET grown == CASE IsIndividualRead(profile, a) ->
                        Grown(0, 0, Append(g.out, Request(a, 1)))
                   [] ~IsIndividualRead(profile, a) /\ g.size > 0
                      /\ Extends(profile, maxRead, g, a) ->
                        Grown(g.start, a - g.start + 1, g.out)
                   [] OTHER -> Grown(a, 1, Yield(g).out)
    IN  IF grown.size = maxRead THEN Yield(grown) ELSE grown

(* One turn of the loop, for register a. *)
Visit(profile, maxRead, g, a) ==
    LET grown ==
          CASE IsIndividualRead(profile, a) ->
                 Grown(0, 0, Append(Yield(g).out, Request(a, 1)))
            [] ~IsIndividualRead(profile, a) /\ g.size = 0 ->
                 Grown(a, 1, g.out)
            [] ~IsIndividualRead(profile, a) /\ g.size > 0
               /\ Extends(profile, maxRead, g, a) ->
                 Grown(g.start, a - g.start + 1, g.out)
            [] OTHER -> Grown(a, 1, Yield(g).out)
    IN  IF grown.size = maxRead THEN Yield(grown) ELSE grown

-------------------------------------------------------------------------------
(* The same plan one request at a time: the first request of a poll that    *)
(* still wants the registers in todo.  ModbusController steps through a     *)
(* poll with it; that iterating it gives the loop's plan is StepwisePlan.   *)

FirstOf(todo) == CHOOSE a \in todo : \A b \in todo : a <= b
LastOf(todo)  == CHOOSE a \in todo : \A b \in todo : b <= a

(* A slip: one register too many. *)
ReachOneMore(profile, maxRead, todo, start) ==
    {a \in todo : /\ a - start <= maxRead
                  /\ a <= start + 1 \/ ~OverlapsInvalidRange(profile, start, a - 1)
                  /\ \A b \in todo : b <= a => ~IsIndividualRead(profile, b)}

(* The registers of todo that the request starting at start can reach. *)
Reach(profile, maxRead, todo, start) ==
    {a \in todo : /\ a - start < maxRead
                  /\ a <= start + 1 \/ ~OverlapsInvalidRange(profile, start, a - 1)
                  /\ \A b \in todo : b <= a => ~IsIndividualRead(profile, b)}

FirstRequest(profile, maxRead, todo) ==
    LET start == FirstOf(todo)
    IN  [first |-> start,
         last  |-> IF IsIndividualRead(profile, start) THEN start
                   ELSE LastOf(Reach(profile, maxRead, todo, start))]

(* A request that the adapter and the inverter take and that serves todo:   *)
(* no longer than max_read, over no register the profile declares invalid,  *)
(* with individually read registers on their own.                           *)
AdmissibleRequest(profile, maxRead, todo, r) ==
    /\ r.first \in todo /\ r.last \in todo
    /\ r.first <= r.last /\ r.last - r.first < maxRead
    /\ Covered(r) \cap profile.invalid = {}
    /\ \A a \in Covered(r) \cap todo : IsIndividualRead(profile, a) => Covered(r) = {a}

===============================================================================
