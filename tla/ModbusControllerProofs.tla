------------------------ MODULE ModbusControllerProofs ------------------------
(***************************************************************************)
(* The safety of the polling task, for every set of registers, entities,   *)
(* values and profiles, every max_read and every number of tolerated       *)
(* failures.                                                               *)
(*                                                                         *)
(* The invariants are proved together.  What they need beyond themselves   *)
(* is PollInv: while a poll is under way, each periodically polled register*)
(* that has a value is still to be read, being read, or already answered.  *)
(***************************************************************************)
EXTENDS ModbusController, ReadRangesProofs

Answer == Values \cup {None}

Due(a) == data[a].pollType = "PERIODICALLY" /\ data[a].read # None

PollInv ==
    /\ pc = "reading" => todo # {} /\ span = {}
    /\ pc = "single" => span # {}
    /\ todo \cap Profile.invalid = {}
    /\ pc \in {"reading", "single"} =>
         \A a \in DOMAIN data \ detected : Due(a) => a \in todo \cup span \cup DOMAIN got

IInv ==
    /\ TypeOK
    /\ TracksListeners
    /\ ConnectionConsistent
    /\ ShowsAvailability
    /\ SnapshotConsistent
    /\ PollInv

-------------------------------------------------------------------------------
(* Functions.                                                               *)

LEMMA OverrideTyped ==
    ASSUME NEW S, NEW f, f \in [DOMAIN f -> S], NEW g, g \in [DOMAIN g -> S]
    PROVE  /\ DOMAIN Override(f, g) = DOMAIN f \cup DOMAIN g
           /\ Override(f, g) \in [DOMAIN f \cup DOMAIN g -> S]
           /\ \A a \in DOMAIN g : Override(f, g)[a] = g[a]
           /\ \A a \in DOMAIN f \ DOMAIN g : Override(f, g)[a] = f[a]
BY DEF Override

LEMMA EmptyFcnTyped ==
    ASSUME NEW S
    PROVE  DOMAIN EmptyFcn = {} /\ EmptyFcn \in [DOMAIN EmptyFcn -> S]
BY DEF EmptyFcn

(* The registers of a request of the poll are addresses.                    *)
LEMMA CurrentCovers ==
    ASSUME TypeOK, PollInv, pc = "reading"
    PROVE  /\ AdmissibleRequest(Profile, MaxRead, todo, Current)
           /\ Covered(Current) \subseteq Addresses
           /\ Covered(Current) # {}
<1>1. todo \in SUBSET Nat /\ todo # {} /\ todo \cap Profile.invalid = {}
  BY AddressesAssumption DEF TypeOK, PollInv
<1>2. AdmissibleRequest(Profile, MaxRead, todo, Current)
  BY <1>1, MaxReadAssumption, FirstRequestAdmissible DEF Current
<1>3. /\ Current.first \in Addresses /\ Current.last \in Addresses
      /\ Current.first <= Current.last
  BY <1>2 DEF AdmissibleRequest, TypeOK
<1>4. Covered(Current) \subseteq Addresses
  BY <1>3, AddressesAssumption DEF Covered
<1>5. Current.first \in Nat /\ Current.last \in Nat
  BY <1>3, AddressesAssumption
<1>6. Current.first \in Covered(Current)
  BY <1>3, <1>5 DEF Covered
<1> QED BY <1>2, <1>4, <1>6

LEMMA FirstOfSpan ==
    ASSUME TypeOK, PollInv, pc = "single"
    PROVE  FirstOf(span) \in span /\ FirstOf(span) \in Addresses
BY AddressesAssumption, FirstOfIsFirst DEF TypeOK, PollInv

-------------------------------------------------------------------------------
THEOREM InitInv == Init => IInv
<1> SUFFICES ASSUME Init PROVE IInv
  OBVIOUS
<1>0. /\ DOMAIN data = {} /\ data \in [DOMAIN data -> RegisterValue]
      /\ DOMAIN got = {} /\ got \in [DOMAIN got -> Values \cup {None}]
  BY EmptyFcnTyped DEF Init
<1>1. TypeOK
  <2>1. /\ shown \in [Entities -> BOOLEAN]
        /\ holds \in [Addresses -> Values]
        /\ accepted \in [Addresses -> Values \cup {None}]
    BY DEF Init
  <2>2. failed \in Nat /\ budget \in 0 .. MaxChanges
    BY MaxChangesAssumption DEF Init
  <2>3. /\ listeners \subseteq Entities /\ detected = {} /\ fresh = {}
        /\ todo = {} /\ span = {} /\ illegal \subseteq Addresses
        /\ issues \in SUBSET {"connection_error"} /\ leftover = (issues # {})
        /\ error \in BOOLEAN /\ link \in BOOLEAN
        /\ conn = "INITIAL" /\ pc = "idle"
    BY DEF Init
  <2> QED BY <1>0, <2>1, <2>2, <2>3 DEF TypeOK
<1>2. TracksListeners /\ ShowsAvailability /\ SnapshotConsistent /\ PollInv
  BY EmptyFcnTyped DEF Init, TracksListeners, ShowsAvailability, SnapshotConsistent, PollInv
<1>3. ConnectionConsistent
  <2>1. conn = "INITIAL" /\ failed = 0 /\ error = FALSE
    BY DEF Init
  <2>2. "connection_error" \in issues <=> leftover
    <3>1. issues \in SUBSET {"connection_error"} /\ leftover = (issues # {})
      BY DEF Init
    <3> QED BY <3>1
  <2> QED BY <2>1, <2>2, FailedPollsAssumption DEF ConnectionConsistent
<1> QED BY <1>1, <1>2, <1>3 DEF IInv

(* Recording the answers of a poll that read everything it was after.       *)
LEMMA PollSucceedsInv ==
    ASSUME IInv, UNCHANGED <<listeners, link, inverter>>,
           NEW answers, answers \in [DOMAIN answers -> Answer],
           DOMAIN answers \subseteq Addresses,
           NEW found \in SUBSET Addresses,
           \A a \in DOMAIN data \ found : Due(a) => a \in DOMAIN answers,
           PollSucceeds(answers, found)
    PROVE  IInv'
<1> USE DEF IInv
<1>1. /\ DOMAIN data' = DOMAIN data
      /\ \A a \in DOMAIN data :
           data'[a] = IF a \in DOMAIN answers THEN [data[a] EXCEPT !.read = answers[a]]
                                              ELSE data[a]
      /\ data' \in [DOMAIN data -> RegisterValue]
  BY DEF PollSucceeds, TypeOK, RegisterValue, Answer
<1>2. /\ todo' = {} /\ span' = {} /\ got' = EmptyFcn
      /\ pc' \in {"notifying", "idle"}
  BY DEF PollSucceeds, LeavePoll
<1>3. /\ issues' \subseteq {"connection_error", "invalid_ranges"}
      /\ leftover' = leftover /\ leftover' \in BOOLEAN
      /\ "connection_error" \in issues' <=> leftover'
      /\ error' = FALSE
      /\ \A e \in listeners : shown'[e] = TRUE
      /\ shown' \in [Entities -> BOOLEAN]
  BY DEF PollSucceeds, RaiseInvalidRanges, Announce, ConnectionConsistent,
         ShowsAvailability, IsConnected, TypeOK
<1>4. TypeOK'
  <2>1. listeners' = listeners /\ link' = link /\ UNCHANGED inverter
    OBVIOUS
  <2> QED BY <1>1, <1>2, <1>3, <2>1, EmptyFcnTyped DEF TypeOK, PollSucceeds, inverter
<1>5. TracksListeners'
  BY <1>1 DEF TracksListeners
<1>6. ConnectionConsistent'
  BY <1>3, FailedPollsAssumption DEF ConnectionConsistent, PollSucceeds
<1>7. ShowsAvailability'
  BY <1>3 DEF ShowsAvailability, IsConnected, PollSucceeds
<1>8. SnapshotConsistent'
  <2> SUFFICES ASSUME NEW a \in DOMAIN data \ found,
                      data'[a].pollType = "PERIODICALLY", data'[a].read # None
               PROVE  a \in DOMAIN answers
    BY <1>1 DEF SnapshotConsistent, PollSucceeds
  <2>1. CASE a \notin DOMAIN answers
    BY <1>1, <2>1 DEF Due
  <2> QED BY <2>1
<1>9. PollInv'
  BY <1>2 DEF PollInv
<1> QED BY <1>4, <1>5, <1>6, <1>7, <1>8, <1>9

(* Going on with a poll that has rest left to read.                         *)
LEMMA ProceedInv ==
    ASSUME IInv, UNCHANGED <<listeners, link, inverter>>,
           NEW rest \in SUBSET Addresses, rest \cap Profile.invalid = {},
           NEW answers, answers \in [DOMAIN answers -> Answer],
           DOMAIN answers \subseteq Addresses,
           NEW found \in SUBSET Addresses, detected \subseteq found,
           \A a \in DOMAIN data \ found : Due(a) => a \in rest \cup DOMAIN answers,
           Proceed(rest, answers, found)
    PROVE  IInv'
<1>1. CASE rest = {} /\ PollSucceeds(answers, found)
  BY <1>1, PollSucceedsInv
<1>2. CASE /\ rest # {}
           /\ pc' = "reading" /\ todo' = rest /\ span' = {} /\ got' = answers
           /\ detected' = found
           /\ UNCHANGED <<data, stateVars>>
  <2> USE <1>2 DEF IInv, stateVars
  <2>1. TypeOK'
    BY DEF TypeOK, Answer, inverter
  <2>2. TracksListeners' /\ ConnectionConsistent' /\ ShowsAvailability'
    BY DEF TracksListeners, ConnectionConsistent, ShowsAvailability, IsConnected
  <2>3. SnapshotConsistent'
    BY DEF SnapshotConsistent
  <2>4. PollInv'
    BY DEF PollInv, Due
  <2> QED BY <2>1, <2>2, <2>3, <2>4
<1> QED BY <1>1, <1>2 DEF Proceed

-------------------------------------------------------------------------------
(* One lemma per action.                                                    *)

LEMMA RefreshStartInv == IInv /\ RefreshStart => IInv'
<1> SUFFICES ASSUME IInv, RefreshStart PROVE IInv'
  OBVIOUS
<1> DEFINE rest == Wanting(conn # "CONNECTED")
<1>1. rest = {a \in DOMAIN data : /\ a \notin detected
                                  /\ data[a].pollType = "ON_CONNECTION" => conn # "CONNECTED"}
  BY DEF Wanting, Wanted
<1>2. rest \in SUBSET Addresses
  BY <1>1 DEF IInv, TypeOK
<1>3. rest \cap Profile.invalid = {}
  BY <1>1, ListenersAssumption DEF IInv, TypeOK, TracksListeners
<1>4. \A a \in DOMAIN data \ detected : Due(a) => a \in rest \cup DOMAIN EmptyFcn
  BY <1>1 DEF Due
<1>5. /\ Proceed(rest, EmptyFcn, detected)
      /\ UNCHANGED <<listeners, link, inverter>>
      /\ detected \in SUBSET Addresses
  BY DEF RefreshStart, IInv, TypeOK
<1>6. EmptyFcn \in [DOMAIN EmptyFcn -> Answer] /\ DOMAIN EmptyFcn \subseteq Addresses
  BY EmptyFcnTyped
<1> HIDE DEF rest
<1> QED BY <1>2, <1>3, <1>4, <1>5, <1>6, ProceedInv

LEMMA ReadRangeInv == IInv /\ ReadRange => IInv'
<1> SUFFICES ASSUME IInv, ReadRange PROVE IInv'
  OBVIOUS
<1> DEFINE reads   == [a \in Covered(Current) |-> holds[a]]
           answers == Override(got, reads)
           rest    == todo \ Covered(Current)
<1>1. pc = "reading" /\ Covered(Current) \subseteq Addresses
  BY CurrentCovers DEF IInv, ReadRange
<1>2. /\ DOMAIN reads = Covered(Current)
      /\ reads \in [DOMAIN reads -> Answer] /\ got \in [DOMAIN got -> Answer]
  BY <1>1 DEF IInv, TypeOK, Answer
<1>3. /\ DOMAIN answers = DOMAIN got \cup Covered(Current)
      /\ answers \in [DOMAIN answers -> Answer]
  <2> HIDE DEF reads
  <2>1. /\ DOMAIN answers = DOMAIN got \cup DOMAIN reads
        /\ answers \in [DOMAIN got \cup DOMAIN reads -> Answer]
    BY <1>2, OverrideTyped
  <2> HIDE DEF answers
  <2> QED BY <1>2, <2>1
<1>4. DOMAIN answers \subseteq Addresses
  BY <1>1, <1>3 DEF IInv, TypeOK
<1>5. rest \in SUBSET Addresses /\ rest \cap Profile.invalid = {}
  BY DEF IInv, TypeOK, PollInv
<1>6. \A a \in DOMAIN data \ detected : Due(a) => a \in rest \cup DOMAIN answers
  <2> HIDE DEF answers
  <2> QED BY <1>1, <1>3 DEF IInv, PollInv
<1>7. /\ Proceed(rest, answers, detected)
      /\ UNCHANGED <<listeners, link, inverter>>
      /\ detected \in SUBSET Addresses
  BY DEF ReadRange, IInv, TypeOK
<1> HIDE DEF rest, answers
<1> QED BY <1>3, <1>4, <1>5, <1>6, <1>7, ProceedInv

LEMMA ReadRangeIllegalInv == IInv /\ ReadRangeIllegal => IInv'
<1> SUFFICES ASSUME IInv, ReadRangeIllegal PROVE IInv'
  OBVIOUS
<1> USE DEF IInv, stateVars
<1>1. /\ Covered(Current) \subseteq Addresses /\ Covered(Current) # {}
      /\ pc = "reading" /\ pc' = "single"
      /\ span' = Covered(Current) /\ todo' = todo \ Covered(Current)
      /\ UNCHANGED <<listeners, data, detected, stateVars, got, link, inverter>>
  BY CurrentCovers DEF ReadRangeIllegal
<1>2. TypeOK'
  BY <1>1 DEF TypeOK, inverter
<1>3. TracksListeners' /\ ConnectionConsistent' /\ ShowsAvailability' /\ SnapshotConsistent'
  BY <1>1 DEF TracksListeners, ConnectionConsistent, ShowsAvailability, IsConnected,
              SnapshotConsistent
<1>4. PollInv'
  BY <1>1 DEF PollInv, Due
<1> QED BY <1>2, <1>3, <1>4

LEMMA ReadSingleInv == IInv /\ ReadSingle => IInv'
<1> SUFFICES ASSUME IInv, ReadSingle PROVE IInv'
  OBVIOUS
<1> DEFINE a       == FirstOf(span)
           reply   == [x \in {a} |-> IF a \in illegal THEN None ELSE holds[a]]
           answers == Override(got, reply)
           found   == IF a \in illegal THEN detected \cup {a} ELSE detected
<1>1. pc = "single" /\ a \in span /\ a \in Addresses
  BY FirstOfSpan DEF IInv, ReadSingle
<1>2. /\ DOMAIN reply = {a} /\ reply \in [DOMAIN reply -> Answer]
      /\ got \in [DOMAIN got -> Answer]
  BY <1>1 DEF IInv, TypeOK, Answer
<1>3. /\ DOMAIN answers = DOMAIN got \cup {a}
      /\ answers \in [DOMAIN answers -> Answer]
  <2> HIDE DEF reply
  <2>1. /\ DOMAIN answers = DOMAIN got \cup DOMAIN reply
        /\ answers \in [DOMAIN got \cup DOMAIN reply -> Answer]
    BY <1>2, OverrideTyped
  <2> HIDE DEF answers
  <2> QED BY <1>2, <2>1
<1>4. DOMAIN answers \subseteq Addresses
  BY <1>1, <1>3 DEF IInv, TypeOK
<1>5. found \in SUBSET Addresses /\ detected \subseteq found
  BY <1>1 DEF IInv, TypeOK
<1>6. \A x \in DOMAIN data \ found : Due(x) => x \in todo \cup span \cup DOMAIN answers
  <2> HIDE DEF answers, found
  <2> QED BY <1>1, <1>3, <1>5 DEF IInv, PollInv
<1>7. CASE span = {a} /\ Proceed(todo, answers, found)
  <2>1. \A x \in DOMAIN data \ found : Due(x) => x \in todo \cup DOMAIN answers
    <3> HIDE DEF answers, found
    <3> QED BY <1>3, <1>6, <1>7
  <2>2. /\ todo \in SUBSET Addresses /\ todo \cap Profile.invalid = {}
        /\ UNCHANGED <<listeners, link, inverter>>
    BY DEF ReadSingle, IInv, TypeOK, PollInv
  <2> HIDE DEF answers, found, a
  <2> QED BY <1>3, <1>4, <1>5, <1>7, <2>1, <2>2, ProceedInv
<1>8. CASE /\ span # {a}
           /\ span' = span \ {a} /\ got' = answers /\ detected' = found
           /\ UNCHANGED <<data, stateVars, pc, todo>>
  <2> HIDE DEF answers, found, a
  <2> USE <1>8 DEF IInv, stateVars
  <2>1. UNCHANGED <<listeners, link, inverter>>
    BY DEF ReadSingle
  <2>2. TypeOK'
    BY <1>3, <1>4, <1>5, <2>1 DEF TypeOK, Answer, inverter
  <2>3. TracksListeners' /\ ConnectionConsistent' /\ ShowsAvailability' /\ SnapshotConsistent'
    BY <1>5, <2>1 DEF TracksListeners, ConnectionConsistent, ShowsAvailability, IsConnected,
                      SnapshotConsistent
  <2>4. PollInv'
    BY <1>1, <1>3, <1>5, <1>6 DEF PollInv, Due
  <2> QED BY <2>2, <2>3, <2>4
<1> QED BY <1>7, <1>8 DEF ReadSingle

LEMMA RequestFailsInv == IInv /\ RequestFails => IInv'
<1> SUFFICES ASSUME IInv, RequestFails PROVE IInv'
  OBVIOUS
<1> USE DEF IInv
<1>1. /\ pc' = "idle" /\ todo' = {} /\ span' = {} /\ got' = EmptyFcn
      /\ UNCHANGED <<listeners, data, detected, fresh, link, inverter>>
  BY DEF RequestFails, PollFails, LeavePoll
<1>2. /\ failed' \in Nat /\ error' \in BOOLEAN
      /\ conn' \in {"INITIAL", "CONNECTED", "DISCONNECTED"}
      /\ issues' \subseteq {"connection_error", "invalid_ranges"} /\ leftover' \in BOOLEAN
      /\ shown' \in [Entities -> BOOLEAN]
  <2>1. CASE conn = "DISCONNECTED"
    BY <2>1 DEF RequestFails, PollFails, RaiseInvalidRanges, TypeOK
  <2>2. CASE conn # "DISCONNECTED"
    <3>0. failed' = failed + 1
      BY <2>2 DEF RequestFails, PollFails
    <3>1. failed' \in Nat
      BY <3>0 DEF TypeOK
    <3>2. conn' \in {conn, "DISCONNECTED"} /\ error' \in {error, TRUE}
      BY <2>2 DEF RequestFails, PollFails
    <3>3. issues' \subseteq issues \cup {"connection_error", "invalid_ranges"}
      BY <2>2 DEF RequestFails, PollFails
    <3>4. shown' \in {shown, Announce(FALSE)} /\ Announce(FALSE) \in [Entities -> BOOLEAN]
      BY <2>2 DEF RequestFails, PollFails, Announce, TypeOK
    <3>5. leftover' \in BOOLEAN
      BY <2>2 DEF RequestFails, PollFails
    <3> QED BY <3>1, <3>2, <3>3, <3>4, <3>5 DEF TypeOK
  <2> QED BY <2>1, <2>2
<1>3. TypeOK'
  BY <1>1, <1>2, EmptyFcnTyped DEF TypeOK, inverter
<1>4. TracksListeners' /\ SnapshotConsistent' /\ PollInv'
  BY <1>1 DEF TracksListeners, SnapshotConsistent, PollInv
<1>5. ConnectionConsistent' /\ ShowsAvailability'
  <2>1. CASE conn = "DISCONNECTED"
    BY <1>1, <2>1 DEF RequestFails, PollFails, RaiseInvalidRanges, ConnectionConsistent,
                      ShowsAvailability, IsConnected
  <2>2. CASE conn # "DISCONNECTED" /\ failed + 1 >= FailedPollsForDisconnection
    <3>1. failed + 1 = FailedPollsForDisconnection
      BY <2>2, FailedPollsAssumption DEF ConnectionConsistent, TypeOK
    <3>2. conn' = "DISCONNECTED" /\ failed' = failed + 1 /\ error' = TRUE
      BY <2>2 DEF RequestFails, PollFails
    <3>3. "connection_error" \in issues' /\ leftover' = FALSE
      BY <2>2 DEF RequestFails, PollFails
    <3>4. \A e \in listeners' : shown'[e] = FALSE
      <4>1. shown' = Announce(FALSE)
        BY <2>2 DEF RequestFails, PollFails
      <4>2. \A e \in listeners : Announce(FALSE)[e] = FALSE
        BY DEF Announce, TypeOK
      <4> QED BY <1>1, <4>1, <4>2
    <3>5. ShowsAvailability'
      <4>1. IsConnected' = FALSE
        BY <3>2 DEF IsConnected
      <4> QED BY <3>4, <4>1 DEF ShowsAvailability
    <3>6. failed' = FailedPollsForDisconnection /\ failed' <= FailedPollsForDisconnection
      BY <3>1, <3>2, FailedPollsAssumption
    <3>7. ConnectionConsistent'
      BY <3>2, <3>3, <3>6 DEF ConnectionConsistent
    <3> QED BY <3>5, <3>7
  <2>3. CASE conn # "DISCONNECTED" /\ ~(failed + 1 >= FailedPollsForDisconnection)
    <3>1. /\ conn' = conn /\ failed' = failed + 1 /\ error' = error /\ shown' = shown
          /\ leftover' = leftover
          /\ "connection_error" \in issues' <=> "connection_error" \in issues
      BY <2>3 DEF RequestFails, PollFails, TypeOK
    <3> QED BY <1>1, <2>3, <3>1, FailedPollsAssumption
            DEF ConnectionConsistent, ShowsAvailability, IsConnected, TypeOK
  <2> QED BY <2>1, <2>2, <2>3
<1> QED BY <1>3, <1>4, <1>5

LEMMA BecameConnectedReturnsInv == IInv /\ BecameConnectedReturns => IInv'
<1> SUFFICES ASSUME IInv, BecameConnectedReturns PROVE IInv'
  OBVIOUS
<1> USE DEF IInv, BecameConnectedReturns
<1>1. /\ issues' \subseteq {"connection_error", "invalid_ranges"}
      /\ "connection_error" \in issues' <=> "connection_error" \in issues
  BY DEF RaiseInvalidRanges, TypeOK
<1>2. TypeOK'
  BY <1>1 DEF TypeOK, inverter
<1>3. ConnectionConsistent'
  BY <1>1 DEF ConnectionConsistent
<1>4. TracksListeners' /\ ShowsAvailability' /\ SnapshotConsistent' /\ PollInv'
  BY DEF TracksListeners, ShowsAvailability, IsConnected, SnapshotConsistent, PollInv
<1> QED BY <1>2, <1>3, <1>4

LEMMA RegisterEntityInv ==
    ASSUME IInv, NEW e \in Entities, RegisterEntity(e)
    PROVE  IInv'
<1> USE DEF IInv
<1> DEFINE new == [a \in AddressesOf[e] |-> [pollType |-> PollTypeOf[e], read |-> None,
                                             written |-> None, recent |-> FALSE]]
<1>1. /\ UNCHANGED <<detected, conn, failed, error, issues, leftover, fresh, taskVars, link, inverter>>
      /\ listeners' = listeners \cup {e} /\ data' = Override(new, data)
      /\ shown' = [shown EXCEPT ![e] = IsConnected]
  BY DEF RegisterEntity
<1>2. /\ DOMAIN new = AddressesOf[e] /\ AddressesOf[e] \subseteq Addresses
      /\ new \in [DOMAIN new -> RegisterValue]
  BY EntitiesAssumption DEF RegisterValue
<1>3. \A a \in AddressesOf[e] : new[a].read = None
  OBVIOUS
<1> HIDE DEF new
<1>4. /\ DOMAIN data' = DOMAIN new \cup DOMAIN data
      /\ data' \in [DOMAIN data' -> RegisterValue]
      /\ \A a \in DOMAIN data : data'[a] = data[a]
      /\ \A a \in DOMAIN new \ DOMAIN data : data'[a] = new[a]
  <2>1. data \in [DOMAIN data -> RegisterValue]
    BY DEF TypeOK
  <2>2. /\ DOMAIN Override(new, data) = DOMAIN new \cup DOMAIN data
        /\ Override(new, data) \in [DOMAIN new \cup DOMAIN data -> RegisterValue]
        /\ \A a \in DOMAIN data : Override(new, data)[a] = data[a]
        /\ \A a \in DOMAIN new \ DOMAIN data : Override(new, data)[a] = new[a]
    <3> HIDE DEF IInv
    <3> QED BY <1>2, <2>1 DEF Override
  <2> QED BY <1>1, <2>2
<1>5. TypeOK'
  <2>1. shown' \in [Entities -> BOOLEAN] /\ listeners' \subseteq Entities
    BY <1>1 DEF TypeOK, IsConnected
  <2> QED BY <1>1, <1>2, <1>4, <2>1 DEF TypeOK, taskVars, inverter
<1>6. TracksListeners'
  BY <1>1, <1>2, <1>4 DEF TracksListeners
<1>7. ConnectionConsistent'
  BY <1>1 DEF ConnectionConsistent
<1>8. ShowsAvailability'
  BY <1>1 DEF ShowsAvailability, IsConnected, TypeOK
<1>9. \A a \in DOMAIN data' : data'[a].read # None => a \in DOMAIN data /\ data'[a] = data[a]
  BY <1>2, <1>3, <1>4
<1>10. SnapshotConsistent'
  BY <1>1, <1>9 DEF SnapshotConsistent
<1>11. PollInv'
  BY <1>1, <1>9 DEF PollInv, Due, taskVars
<1> QED BY <1>5, <1>6, <1>7, <1>8, <1>10, <1>11

LEMMA RemoveEntityInv ==
    ASSUME IInv, NEW e \in Entities, RemoveEntity(e)
    PROVE  IInv'
<1> USE DEF IInv
<1> DEFINE others == UNION {AddressesOf[f] : f \in listeners'}
<1>1. /\ UNCHANGED <<detected, stateVars, taskVars, link, inverter>>
      /\ e \in listeners /\ listeners' = listeners \ {e}
      /\ data' = [a \in DOMAIN data \ (AddressesOf[e] \ others) |-> data[a]]
  BY DEF RemoveEntity
<1>2. /\ DOMAIN data' = DOMAIN data \ (AddressesOf[e] \ others)
      /\ \A a \in DOMAIN data' : data'[a] = data[a]
  BY <1>1
<1>3. TypeOK'
  BY <1>1, <1>2 DEF TypeOK, stateVars, taskVars, inverter
<1>4. TracksListeners'
  <2>1. UNION {AddressesOf[f] : f \in listeners} = others \cup AddressesOf[e]
    BY <1>1
  <2> HIDE DEF others
  <2>2. DOMAIN data' = others
    BY <1>2, <2>1 DEF TracksListeners
  <2> QED BY <2>2 DEF TracksListeners, others
<1>5. ConnectionConsistent' /\ ShowsAvailability'
  BY <1>1 DEF ConnectionConsistent, ShowsAvailability, IsConnected, stateVars
<1>6. SnapshotConsistent' /\ PollInv'
  BY <1>1, <1>2 DEF SnapshotConsistent, PollInv, Due, stateVars, taskVars
<1> QED BY <1>3, <1>4, <1>5, <1>6

LEMMA RegisterValueUpdated ==
    ASSUME NEW d \in RegisterValue
    PROVE  /\ \A v \in Values :
                LET w == [d EXCEPT !.written = v, !.recent = TRUE]
                IN  w \in RegisterValue /\ w.pollType = d.pollType /\ w.read = d.read
           /\ LET w == [d EXCEPT !.recent = FALSE]
              IN  w \in RegisterValue /\ w.pollType = d.pollType /\ w.read = d.read
BY DEF RegisterValue

(* What a write assigns to the registers from start on.                     *)
LEMMA WrittenTyped ==
    ASSUME NEW start \in Addresses, NEW values \in WriteValues
    PROVE  LET written == [a \in start .. start + Len(values) - 1 |-> values[a - start + 1]]
           IN  written \in [DOMAIN written -> Values]
<1> DEFINE written == [a \in start .. start + Len(values) - 1 |-> values[a - start + 1]]
<1>1. CASE \E v \in Values : values = <<v>>
  BY <1>1, AddressesAssumption
<1>2. CASE values \in Values \X Values
  <2>1. PICK v \in Values, w \in Values : values = <<v, w>>
    BY <1>2
  <2>2. Len(values) = 2 /\ values[1] = v /\ values[2] = w
    BY <2>1
  <2>3. \A a \in start .. start + 1 : a - start + 1 \in {1, 2}
    BY AddressesAssumption
  <2>4. start + Len(values) - 1 = start + 1
    BY <2>2, AddressesAssumption
  <2> QED BY <2>2, <2>3, <2>4
<1> QED BY <1>1, <1>2 DEF WriteValues

LEMMA WriteRegistersInv ==
    ASSUME IInv, NEW start \in Addresses, NEW values \in WriteValues,
           WriteRegisters(start, values)
    PROVE  IInv'
<1> USE DEF IInv
<1> DEFINE written == [a \in start .. start + Len(values) - 1 |-> values[a - start + 1]]
<1>1. /\ UNCHANGED <<listeners, detected, stateVars, taskVars, link, illegal, holds>>
      /\ DOMAIN written \subseteq Addresses
      /\ budget > 0 /\ budget' = budget - 1
      /\ accepted' = Override(accepted, written)
  BY DEF WriteRegisters
<1>2. written \in [DOMAIN written -> Values]
  BY WrittenTyped
<1>3. accepted' \in [Addresses -> Values \cup {None}]
  <2>1. /\ accepted \in [DOMAIN accepted -> Values \cup {None}] /\ DOMAIN accepted = Addresses
        /\ written \in [DOMAIN written -> Values \cup {None}]
    <3> HIDE DEF written
    <3> QED BY <1>2 DEF TypeOK
  <2> HIDE DEF written
  <2>2. Override(accepted, written)
          \in [DOMAIN accepted \cup DOMAIN written -> Values \cup {None}]
    BY <2>1, OverrideTyped
  <2>3. DOMAIN accepted \cup DOMAIN written = Addresses
    BY <1>1, <2>1
  <2> QED BY <1>1, <2>2, <2>3
<1>4. /\ DOMAIN data' = DOMAIN data
      /\ data' \in [DOMAIN data' -> RegisterValue]
      /\ \A a \in DOMAIN data : /\ data'[a].pollType = data[a].pollType
                                /\ data'[a].read = data[a].read
  <2>1. CASE UNCHANGED data
    BY <2>1 DEF TypeOK
  <2>2. CASE data' = [a \in DOMAIN data |->
                        IF a \in DOMAIN written
                        THEN [data[a] EXCEPT !.written = written[a], !.recent = TRUE]
                        ELSE data[a]]
    <3> HIDE DEF written
    <3>1. \A a \in DOMAIN data : data[a] \in RegisterValue
      BY DEF TypeOK
    <3>2. \A a \in DOMAIN data \cap DOMAIN written : written[a] \in Values
      BY <1>2
    <3> QED BY <2>2, <3>1, <3>2, RegisterValueUpdated
  <2> QED BY <2>1, <2>2 DEF WriteRegisters
<1>5. TypeOK'
  <2> HIDE DEF written
  <2>1. budget' \in 0 .. MaxChanges
    BY <1>1, MaxChangesAssumption DEF TypeOK
  <2> QED BY <1>1, <1>3, <1>4, <2>1 DEF TypeOK, stateVars, taskVars
<1> HIDE DEF written
<1>6. TracksListeners' /\ ConnectionConsistent' /\ ShowsAvailability'
  BY <1>1, <1>4 DEF TracksListeners, ConnectionConsistent, ShowsAvailability, IsConnected,
                    stateVars
<1>7. SnapshotConsistent' /\ PollInv'
  BY <1>1, <1>4 DEF SnapshotConsistent, PollInv, Due, stateVars, taskVars
<1> QED BY <1>5, <1>6, <1>7

LEMMA WriteDelayEndsInv ==
    ASSUME IInv, NEW a \in Addresses, WriteDelayEnds(a)
    PROVE  IInv'
<1> USE DEF IInv, WriteDelayEnds
<1>1. /\ DOMAIN data' = DOMAIN data
      /\ data' \in [DOMAIN data' -> RegisterValue]
      /\ \A x \in DOMAIN data : /\ data'[x].pollType = data[x].pollType
                                /\ data'[x].read = data[x].read
  <2>1. \A x \in DOMAIN data : data[x] \in RegisterValue
    BY DEF TypeOK
  <2>2. /\ DOMAIN data' = DOMAIN data
        /\ data'[a] = [data[a] EXCEPT !.recent = FALSE]
        /\ \A x \in DOMAIN data : x # a => data'[x] = data[x]
        /\ data' = [x \in DOMAIN data |-> data'[x]]
    BY DEF TypeOK
  <2> HIDE DEF WriteDelayEnds
  <2>3. \A x \in DOMAIN data : /\ data'[x] \in RegisterValue
                               /\ data'[x].pollType = data[x].pollType
                               /\ data'[x].read = data[x].read
    <3>1. a \in DOMAIN data
      BY DEF WriteDelayEnds
    <3>2. LET w == data'[a]
          IN  w \in RegisterValue /\ w.pollType = data[a].pollType /\ w.read = data[a].read
      BY <2>1, <2>2, <3>1, RegisterValueUpdated
    <3> QED BY <2>1, <2>2, <3>2
  <2> QED BY <2>2, <2>3
<1>2. TypeOK'
  BY <1>1 DEF TypeOK, stateVars, taskVars, inverter
<1>3. TracksListeners' /\ ConnectionConsistent' /\ ShowsAvailability'
  BY <1>1 DEF TracksListeners, ConnectionConsistent, ShowsAvailability, IsConnected, stateVars
<1>4. SnapshotConsistent' /\ PollInv'
  BY <1>1 DEF SnapshotConsistent, PollInv, Due, stateVars, taskVars
<1> QED BY <1>2, <1>3, <1>4

(* The inverter and the link change nothing the invariants speak of.        *)
LEMMA EnvironmentInv ==
    ASSUME IInv, UNCHANGED <<listeners, data, detected, stateVars, taskVars>>,
           TypeOK'
    PROVE  IInv'
BY DEF IInv, TracksListeners, ConnectionConsistent, ShowsAvailability, IsConnected,
       SnapshotConsistent, PollInv, Due, stateVars, taskVars

LEMMA InverterAppliesInv ==
    ASSUME IInv, NEW a \in Addresses, InverterApplies(a)
    PROVE  IInv'
<1>1. TypeOK'
  BY DEF IInv, TypeOK, InverterApplies, stateVars, taskVars
<1> QED BY <1>1, EnvironmentInv DEF InverterApplies

LEMMA InverterChangesInv == IInv /\ InverterChanges => IInv'
<1> SUFFICES ASSUME IInv, InverterChanges PROVE IInv'
  OBVIOUS
<1>1. /\ budget' \in 0 .. MaxChanges
      /\ holds' \in [Addresses -> Values] /\ illegal' \subseteq Addresses
  BY MaxChangesAssumption DEF IInv, TypeOK, InverterChanges
<1>2. TypeOK'
  BY <1>1 DEF IInv, TypeOK, InverterChanges, stateVars, taskVars
<1> QED BY <1>2, EnvironmentInv DEF InverterChanges

LEMMA LinkChangesInv == IInv /\ LinkChanges => IInv'
<1> SUFFICES ASSUME IInv, LinkChanges PROVE IInv'
  OBVIOUS
<1>1. TypeOK'
  BY DEF IInv, TypeOK, LinkChanges, stateVars, taskVars, inverter
<1> QED BY <1>1, EnvironmentInv DEF LinkChanges

-------------------------------------------------------------------------------
LEMMA NextInv == IInv /\ [Next]_vars => IInv'
<1> SUFFICES ASSUME IInv, [Next]_vars PROVE IInv'
  OBVIOUS
<1>1. CASE Refresh
  BY <1>1, RefreshStartInv, ReadRangeInv, ReadRangeIllegalInv, ReadSingleInv,
     RequestFailsInv, BecameConnectedReturnsInv DEF Refresh
<1>2. ASSUME NEW e \in Entities, RegisterEntity(e) \/ RemoveEntity(e)
      PROVE  IInv'
  BY <1>2, RegisterEntityInv, RemoveEntityInv
<1>3. ASSUME NEW a \in Addresses, NEW values \in WriteValues, WriteRegisters(a, values)
      PROVE  IInv'
  BY <1>3, WriteRegistersInv
<1>4. ASSUME NEW a \in Addresses, WriteDelayEnds(a) \/ InverterApplies(a)
      PROVE  IInv'
  BY <1>4, WriteDelayEndsInv, InverterAppliesInv
<1>5. CASE InverterChanges \/ LinkChanges
  BY <1>5, InverterChangesInv, LinkChangesInv
<1>6. CASE UNCHANGED vars
  <2>1. TypeOK'
    BY <1>6 DEF IInv, TypeOK, vars, stateVars, taskVars, inverter
  <2> QED BY <1>6, <2>1, EnvironmentInv DEF vars
<1> QED BY <1>1, <1>2, <1>3, <1>4, <1>5, <1>6 DEF Next

(* The controller keeps its invariants: the values it holds are of one      *)
(* poll, it tracks exactly the registers listened on, and what it says of   *)
(* the connection is consistent and known to every entity.                  *)
THEOREM Invariant == Spec => []IInv
BY InitInv, NextInv, PTL DEF Spec

THEOREM TypeCorrect == Spec => []TypeOK
BY Invariant, PTL DEF IInv

THEOREM Tracking == Spec => []TracksListeners
BY Invariant, PTL DEF IInv

THEOREM ConnectionStory == Spec => []ConnectionConsistent
BY Invariant, PTL DEF IInv

THEOREM AvailabilityShown == Spec => []ShowsAvailability
BY Invariant, PTL DEF IInv

THEOREM Snapshot == Spec => []SnapshotConsistent
BY Invariant, PTL DEF IInv

(* Every request of every poll is admissible.                               *)
THEOREM RequestsAdmissible == Spec => []RequestAdmissible
<1>1. IInv => RequestAdmissible
  BY CurrentCovers DEF IInv, RequestAdmissible
<1> QED BY <1>1, Invariant, PTL

-------------------------------------------------------------------------------
(* The availability the controller reports is the promised one.             *)

LEMMA PromiseKeptByPoll ==
    ASSUME IInv, NEW rest, NEW answers, NEW found,
           Proceed(rest, answers, found)
    PROVE  Promise!PollSucceeded \/ UNCHANGED Promise!vars
<1>1. CASE PollSucceeds(answers, found)
  BY <1>1 DEF PollSucceeds, Promise!PollSucceeded, IsConnected
<1>2. CASE UNCHANGED <<data, stateVars>>
  BY <1>2 DEF stateVars, Promise!vars, IsConnected
<1> QED BY <1>1, <1>2 DEF Proceed

LEMMA PromiseKeptByFailure ==
    ASSUME IInv, PollFails
    PROVE  Promise!PollFailed \/ UNCHANGED Promise!vars
<1>1. CASE conn = "DISCONNECTED"
  BY <1>1 DEF PollFails, Promise!vars, IsConnected
<1>2. CASE conn # "DISCONNECTED"
  <2>1. failed \in Nat /\ failed < FailedPollsForDisconnection /\ failed' = failed + 1
    <3>1. failed' = failed + 1
      BY <1>2 DEF PollFails
    <3>2. failed \in Nat
      BY DEF IInv, TypeOK
    <3>3. failed <= FailedPollsForDisconnection
      BY DEF IInv, ConnectionConsistent
    <3>4. failed # FailedPollsForDisconnection
      BY <1>2 DEF IInv, ConnectionConsistent
    <3> QED BY <3>1, <3>2, <3>3, <3>4, FailedPollsAssumption
  <2>2. conn' = IF failed + 1 >= FailedPollsForDisconnection THEN "DISCONNECTED" ELSE conn
    BY <1>2 DEF PollFails
  <2>3. IsConnected' = (failed' < FailedPollsForDisconnection)
    <3>1. conn \in {"INITIAL", "CONNECTED"}
      BY <1>2 DEF IInv, TypeOK
    <3> QED BY <2>1, <2>2, <3>1, FailedPollsAssumption DEF IsConnected
  <2> QED BY <2>1, <2>3 DEF Promise!PollFailed
<1> QED BY <1>1, <1>2

THEOREM Refinement == Spec => KeepsPromise
<1>1. Init => Promise!Init
  BY DEF Init, Promise!Init, IsConnected
<1>2. IInv /\ [Next]_vars => [Promise!Next]_(Promise!vars)
  <2> SUFFICES ASSUME IInv, [Next]_vars
               PROVE  Promise!Next \/ UNCHANGED Promise!vars
    OBVIOUS
  <2>1. CASE RefreshStart \/ ReadRange
    BY <2>1, PromiseKeptByPoll DEF RefreshStart, ReadRange, Promise!Next
  <2>2. CASE ReadSingle
    <3>1. \/ \E answers, found : Proceed(todo, answers, found)
          \/ UNCHANGED stateVars
      BY <2>2 DEF ReadSingle
    <3>2. CASE UNCHANGED stateVars
      BY <3>2 DEF stateVars, Promise!vars, IsConnected
    <3> QED BY <3>1, <3>2, PromiseKeptByPoll DEF Promise!Next
  <2>3. CASE RequestFails
    BY <2>3, PromiseKeptByFailure DEF RequestFails, Promise!Next
  <2>4. CASE UNCHANGED <<conn, failed>>
    BY <2>4 DEF Promise!vars, IsConnected
  <2>5. CASE ~(RefreshStart \/ ReadRange \/ ReadSingle \/ RequestFails)
    <3>1. UNCHANGED <<conn, failed>>
      BY <2>5 DEF Next, Refresh, ReadRangeIllegal, BecameConnectedReturns, RegisterEntity,
         RemoveEntity, WriteRegisters, WriteDelayEnds, InverterApplies, InverterChanges,
         LinkChanges, vars, stateVars
    <3> QED BY <2>4, <3>1
  <2> QED BY <2>1, <2>2, <2>3, <2>5
<1> QED BY <1>1, <1>2, Invariant, PTL DEF Spec, KeepsPromise, Promise!Spec

-------------------------------------------------------------------------------
(* What was just written is what entities read, whatever the polls bring.   *)

RecentIsWritten ==
    \A a \in DOMAIN data : data[a].recent => data[a].written \in Values

LEMMA DataOfPoll ==
    ASSUME TypeOK, Refresh
    PROVE  /\ DOMAIN data' = DOMAIN data
           /\ \A a \in DOMAIN data : /\ data'[a].recent = data[a].recent
                                     /\ data'[a].written = data[a].written
<1>1. ASSUME NEW rest, NEW answers, NEW found, Proceed(rest, answers, found)
      PROVE  /\ DOMAIN data' = DOMAIN data
             /\ \A a \in DOMAIN data : /\ data'[a].recent = data[a].recent
                                       /\ data'[a].written = data[a].written
  <2>1. CASE UNCHANGED data
    BY <2>1
  <2>2. CASE PollSucceeds(answers, found)
    <3>1. \A a \in DOMAIN data : data[a] \in RegisterValue
      BY DEF TypeOK
    <3>2. \A a \in DOMAIN data :
            data'[a] = IF a \in DOMAIN answers THEN [data[a] EXCEPT !.read = answers[a]]
                                               ELSE data[a]
      BY <2>2 DEF PollSucceeds
    <3>3. DOMAIN data' = DOMAIN data
      BY <2>2 DEF PollSucceeds
    <3> QED BY <3>1, <3>2, <3>3 DEF RegisterValue
  <2> QED BY <1>1, <2>1, <2>2 DEF Proceed
<1>2. CASE RefreshStart \/ ReadRange
  BY <1>1, <1>2 DEF RefreshStart, ReadRange
<1>3. CASE ReadSingle
  BY <1>1, <1>3 DEF ReadSingle
<1>4. CASE ReadRangeIllegal \/ RequestFails \/ BecameConnectedReturns
  BY <1>4 DEF ReadRangeIllegal, RequestFails, PollFails, BecameConnectedReturns
<1> QED BY <1>2, <1>3, <1>4 DEF Refresh

LEMMA RecentInv == TypeOK /\ RecentIsWritten /\ [Next]_vars => RecentIsWritten'
<1> SUFFICES ASSUME TypeOK, RecentIsWritten, [Next]_vars PROVE RecentIsWritten'
  OBVIOUS
<1>1. CASE Refresh
  BY <1>1, DataOfPoll DEF RecentIsWritten
<1>2. ASSUME NEW e \in Entities, RegisterEntity(e)
      PROVE  RecentIsWritten'
  <2>1. \A a \in DOMAIN data' : \/ a \in DOMAIN data /\ data'[a] = data[a]
                                \/ data'[a].recent = FALSE
    BY <1>2 DEF RegisterEntity, Override
  <2> QED BY <2>1 DEF RecentIsWritten
<1>3. ASSUME NEW e \in Entities, RemoveEntity(e)
      PROVE  RecentIsWritten'
  BY <1>3 DEF RemoveEntity, RecentIsWritten
<1>4. ASSUME NEW start \in Addresses, NEW values \in WriteValues, WriteRegisters(start, values)
      PROVE  RecentIsWritten'
  <2> DEFINE written == [a \in start .. start + Len(values) - 1 |-> values[a - start + 1]]
  <2>1. written \in [DOMAIN written -> Values]
    BY WrittenTyped
  <2>2. CASE UNCHANGED data
    BY <2>2 DEF RecentIsWritten
  <2>3. CASE data' = [a \in DOMAIN data |->
                        IF a \in DOMAIN written
                        THEN [data[a] EXCEPT !.written = written[a], !.recent = TRUE]
                        ELSE data[a]]
    <3> HIDE DEF written
    <3>1. \A a \in DOMAIN data : data[a] \in RegisterValue
      BY DEF TypeOK
    <3> QED BY <2>1, <2>3, <3>1 DEF RecentIsWritten, RegisterValue
  <2> QED BY <1>4, <2>2, <2>3 DEF WriteRegisters
<1>5. ASSUME NEW a \in Addresses, WriteDelayEnds(a)
      PROVE  RecentIsWritten'
  <2>1. \A x \in DOMAIN data : data[x] \in RegisterValue
    BY DEF TypeOK
  <2> QED BY <1>5, <2>1 DEF WriteDelayEnds, RecentIsWritten, RegisterValue
<1>6. CASE UNCHANGED data
  BY <1>6 DEF RecentIsWritten
<1>7. (\E a \in Addresses : InverterApplies(a)) \/ InverterChanges \/ LinkChanges
        \/ UNCHANGED vars => UNCHANGED data
  BY DEF InverterApplies, InverterChanges, LinkChanges, vars
<1> QED BY <1>1, <1>2, <1>3, <1>4, <1>5, <1>6, <1>7 DEF Next

THEOREM WritesOutlivePolls == Spec => WriteOutlivesPoll
<1>1. Init => RecentIsWritten
  BY EmptyFcnTyped DEF Init, RecentIsWritten
<1>2. TypeOK /\ RecentIsWritten /\ [Next]_vars
        => [Refresh => \A a \in DOMAIN data : data[a].recent => Read(a)' = Read(a)]_vars
  <2> SUFFICES ASSUME TypeOK, RecentIsWritten, Refresh,
                      NEW a \in DOMAIN data, data[a].recent
               PROVE  Read(a)' = Read(a)
    OBVIOUS
  <2>1. data[a].written # None
    BY ValuesAssumption DEF RecentIsWritten
  <2> QED BY <2>1, DataOfPoll DEF Read
<1> QED BY <1>1, <1>2, RecentInv, TypeCorrect, PTL DEF Spec, WriteOutlivesPoll
===============================================================================
