-------------------------- MODULE EntryLifecycleProofs --------------------------
(***************************************************************************)
(* Proofs about EntryLifecycle, for every number of inverters, requests,   *)
(* setups, changes and calls.                                              *)
(*                                                                         *)
(* Three things make the invariant inductive: an inverter waits for the    *)
(* client's lock at most once, and only with a request to come (QueueOK);  *)
(* behind a client that is closed, or waits to be, nobody else waits       *)
(* (ClosedOK); and as long as nothing overlapped, the only task says where *)
(* the entry stands (CalmInv).                                             *)
(***************************************************************************)
EXTENDS EntryLifecycle, FiniteSetTheorems, SequenceTheorems, TLAPS

Waiters == Inverters \cup {"service", "close"}

TaskRecords ==
    [pc : {"forwarding", "unloading", "closing"}, kind : {"setup", "reload", "unload"},
     gen : 0 .. MaxSetups]

TasksOK(s, n) == s \in Seq(TaskRecords) /\ \A k \in DOMAIN s : s[k].gen <= n

CountsInv ==
    /\ setups \in 0 .. MaxSetups
    /\ current \in 0 .. setups /\ services \in 0 .. setups /\ platforms \in 0 .. setups
    /\ connected \subseteq 1 .. setups /\ listeners \subseteq 1 .. setups
    /\ closed \subseteq 1 .. setups /\ caught \subseteq 1 .. setups

TimersInv  == timers \in [Generations -> SUBSET Inverters]
WaitingInv ==
    /\ refreshes \in [Generations -> [Inverters -> 0 .. Requests]]
    /\ queue \in [Generations -> Seq(Waiters)]

TypeInv == CountsInv /\ TimersInv /\ WaitingInv /\ TasksOK(tasks, setups)

(* Generations to come do nothing yet. *)
FutureInv == \A g \in Generations : g > setups => queue[g] = <<>> /\ timers[g] = {}

(* q: who waits; r: the requests left to each refresh. *)
QueueOK(q, r) ==
    /\ \A k \in DOMAIN q : q[k] \in Inverters => r[q[k]] > 0
    /\ \A k, l \in DOMAIN q : k # l /\ q[k] = q[l] => q[k] \notin Inverters

QueueInv == \A g \in Generations : QueueOK(queue[g], refreshes[g])

AllClose(q) == \A k \in DOMAIN q : q[k] = "close"
ToClose(q)  == \E k \in DOMAIN q : q[k] = "close"

ClosedOK(g) ==
    (g \in closed \/ ToClose(queue[g])) /\ g \notin caught
      => timers[g] = {} /\ AllClose(queue[g])

ClosedInv == (\A g \in Generations : ClosedOK(g)) /\ ClosedStaysClosed

(* The entry is set up with the current generation. *)
Loaded ==
    /\ current # None /\ timers[current] = Inverters
    /\ listeners = {current} /\ services = current

CalmInv ==
    calm =>
      /\ \A g \in Generations : timers[g] # {} => g = current
      /\ listeners \subseteq {current}
      /\ Len(tasks) <= 1
      /\ tasks = <<>> => platforms = current /\ (current # None => Loaded)
      /\ tasks # <<>> =>
           /\ tasks[1].pc = "forwarding" => Loaded /\ platforms = None
           /\ tasks[1].pc = "unloading" => Loaded /\ platforms = current
           /\ tasks[1].pc = "closing" =>
                /\ tasks[1].gen = current /\ current # None /\ platforms = None
                /\ timers[current] = {}

SafeInv == TypeInv /\ FutureInv /\ QueueInv /\ ClosedInv

IInv == SafeInv /\ CalmInv

-------------------------------------------------------------------------------
(* Sequences.                                                               *)

LEMMA Removed ==
    ASSUME NEW S, NEW s \in Seq(S), NEW t \in 1 .. Len(s)
    PROVE  /\ RemoveAt(s, t) \in Seq(S) /\ Len(RemoveAt(s, t)) = Len(s) - 1
           /\ \A k \in DOMAIN RemoveAt(s, t) :
                \E l \in DOMAIN s : RemoveAt(s, t)[k] = s[l]
<1> DEFINE n == Len(s)
           a == SubSeq(s, 1, t - 1)
           b == SubSeq(s, t + 1, n)
           c == RemoveAt(s, t)
<1>1. /\ n \in Nat /\ DOMAIN s = 1 .. n /\ \A k \in 1 .. n : s[k] \in S
      /\ t \in Nat /\ 1 <= t /\ t <= n
  OBVIOUS
<1>2. c = a \o b
  BY DEF RemoveAt
<1> HIDE DEF n, c
<1>3. /\ a \in Seq(S) /\ Len(a) = t - 1
      /\ \A k \in 1 .. t - 1 : a[k] = s[k]
  <2>1. \A k \in 1 .. t - 1 : s[k] \in S
    BY <1>1
  <2>2. /\ a \in Seq(S) /\ Len(a) = IF 1 <= t - 1 THEN t - 1 - 1 + 1 ELSE 0
        /\ \A k \in 1 .. t - 1 - 1 + 1 : a[k] = s[1 + k - 1]
    <3> HIDE DEF a
    <3> QED BY <1>1, <2>1, SubSeqProperties DEF a
  <2> HIDE DEF a
  <2> QED BY <1>1, <2>2
<1>4. /\ b \in Seq(S) /\ Len(b) = n - t
      /\ \A k \in 1 .. n - t : b[k] = s[t + k]
  <2>1. \A k \in t + 1 .. n : s[k] \in S
    BY <1>1
  <2>2. /\ b \in Seq(S)
        /\ Len(b) = IF t + 1 <= n THEN n - (t + 1) + 1 ELSE 0
        /\ \A k \in 1 .. n - (t + 1) + 1 : b[k] = s[t + 1 + k - 1]
    <3> HIDE DEF b
    <3> QED BY <1>1, <2>1, SubSeqProperties DEF b
  <2> HIDE DEF b
  <2>3. Len(b) = n - t
    BY <1>1, <2>2
  <2>4. \A k \in 1 .. n - t : k \in 1 .. n - (t + 1) + 1 /\ t + 1 + k - 1 = t + k
    BY <1>1
  <2> QED BY <2>2, <2>3, <2>4
<1> HIDE DEF a, b
<1>5. /\ c \in Seq(S) /\ Len(c) = (t - 1) + (n - t)
      /\ \A k \in 1 .. (t - 1) + (n - t) :
           c[k] = IF k <= t - 1 THEN a[k] ELSE b[k - (t - 1)]
  BY <1>2, <1>3, <1>4, ConcatProperties
<1>6. Len(c) = n - 1 /\ DOMAIN c = 1 .. n - 1
  <2>1. DOMAIN c = 1 .. Len(c)
    BY <1>5
  <2> QED BY <1>1, <1>5, <2>1
<1>7. ASSUME NEW k \in 1 .. n - 1
      PROVE  \E l \in 1 .. n : c[k] = s[l]
  <2>1. CASE k <= t - 1
    <3>1. k \in 1 .. t - 1 /\ k \in 1 .. n /\ k \in 1 .. (t - 1) + (n - t)
      BY <1>1, <2>1
    <3> QED BY <1>3, <1>5, <2>1, <3>1
  <2>2. CASE ~(k <= t - 1)
    <3> DEFINE l == k - (t - 1)
    <3>1. l \in 1 .. n - t /\ t + l \in 1 .. n /\ k \in 1 .. (t - 1) + (n - t)
      BY <1>1, <2>2
    <3>2. c[k] = b[l]
      BY <1>5, <2>2, <3>1
    <3> HIDE DEF l
    <3>3. c[k] = s[t + l]
      BY <1>4, <3>1, <3>2
    <3> QED BY <3>1, <3>3
  <2> QED BY <2>1, <2>2
<1> QED BY <1>1, <1>5, <1>6, <1>7 DEF n, c

LEMMA TasksRemoved ==
    ASSUME NEW n, NEW s, TasksOK(s, n), NEW t \in DOMAIN s
    PROVE  TasksOK(RemoveAt(s, t), n) /\ (Len(s) <= 1 => RemoveAt(s, t) = <<>>)
<1>1. s \in Seq(TaskRecords) /\ t \in 1 .. Len(s)
  BY DEF TasksOK
<1>2. /\ RemoveAt(s, t) \in Seq(TaskRecords) /\ Len(RemoveAt(s, t)) = Len(s) - 1
      /\ \A k \in DOMAIN RemoveAt(s, t) : \E l \in DOMAIN s : RemoveAt(s, t)[k] = s[l]
  BY <1>1, Removed
<1>3. TasksOK(RemoveAt(s, t), n)
  BY <1>2 DEF TasksOK
<1>4. Len(s) <= 1 => Len(RemoveAt(s, t)) = 0
  BY <1>1, <1>2
<1> QED BY <1>2, <1>3, <1>4

LEMMA TasksSet ==
    ASSUME NEW m \in Nat, NEW n \in Nat, m <= n, NEW s, TasksOK(s, m),
           NEW t \in DOMAIN s, NEW e \in TaskRecords, e.gen <= n
    PROVE  /\ TasksOK([s EXCEPT ![t] = e], n) /\ Len([s EXCEPT ![t] = e]) = Len(s)
           /\ [s EXCEPT ![t] = e][t] = e
<1>1. /\ s \in Seq(TaskRecords) /\ DOMAIN s = 1 .. Len(s) /\ Len(s) \in Nat
      /\ \A k \in 1 .. Len(s) : s[k] \in TaskRecords /\ s[k].gen <= m
  BY DEF TasksOK
<1> DEFINE u == [s EXCEPT ![t] = e]
<1>2. u \in Seq(TaskRecords) /\ Len(u) = Len(s) /\ DOMAIN u = 1 .. Len(s) /\ u[t] = e
      /\ \A k \in 1 .. Len(s) : u[k] = IF k = t THEN e ELSE s[k]
  BY <1>1
<1>3. \A f \in TaskRecords : f.gen \in Nat
  BY DEF TaskRecords
<1> HIDE DEF u
<1>4. \A k \in DOMAIN u : u[k].gen <= n
  BY <1>1, <1>2, <1>3
<1> QED BY <1>2, <1>4 DEF TasksOK, u

LEMMA TasksLater ==
    ASSUME NEW m \in Nat, NEW n \in Nat, m <= n, NEW s, TasksOK(s, m)
    PROVE  TasksOK(s, n)
<1>1. \A k \in DOMAIN s : s[k] \in TaskRecords
  BY DEF TasksOK
<1>2. \A f \in TaskRecords : f.gen \in Nat
  BY DEF TaskRecords
<1> QED BY <1>1, <1>2 DEF TasksOK

LEMMA TaskTyped ==
    ASSUME NEW pc \in {"forwarding", "unloading", "closing"},
           NEW kind \in {"setup", "reload", "unload"}, NEW gen \in 0 .. MaxSetups
    PROVE  /\ Task(pc, kind, gen) \in TaskRecords
           /\ Task(pc, kind, gen).pc = pc /\ Task(pc, kind, gen).gen = gen
BY DEF Task, TaskRecords

LEMMA Joins ==
    ASSUME NEW q \in Seq(Waiters), NEW r, NEW s, QueueOK(q, r), NEW e \in Waiters,
           \A k \in DOMAIN q : q[k] \in Inverters => s[q[k]] > 0,
           e \in Inverters => s[e] > 0 /\ \A k \in DOMAIN q : q[k] # e
    PROVE  Append(q, e) \in Seq(Waiters) /\ QueueOK(Append(q, e), s)
<1> DEFINE n == Len(q)
           p == Append(q, e)
<1>1. /\ n \in Nat /\ DOMAIN q = 1 .. n /\ p \in Seq(Waiters) /\ DOMAIN p = 1 .. n + 1
      /\ \A k \in 1 .. n : p[k] = q[k]
      /\ p[n + 1] = e
  OBVIOUS
<1> HIDE DEF n, p
<1>2. \A k \in 1 .. n + 1 : k \in 1 .. n \/ k = n + 1
  BY <1>1
<1>3. \A k \in DOMAIN p : p[k] \in Inverters => s[p[k]] > 0
  BY <1>1, <1>2
<1>4. \A k, l \in DOMAIN p : k # l /\ p[k] = p[l] => p[k] \notin Inverters
  BY <1>1, <1>2 DEF QueueOK
<1> QED BY <1>1, <1>3, <1>4 DEF QueueOK, p

LEMMA Leaves ==
    ASSUME NEW q \in Seq(Waiters), NEW r, QueueOK(q, r), q # <<>>
    PROVE  /\ Tail(q) \in Seq(Waiters) /\ QueueOK(Tail(q), r)
           /\ Head(q) \in Waiters /\ 1 \in DOMAIN q /\ Head(q) = q[1]
           /\ \A k \in DOMAIN Tail(q) : \E l \in DOMAIN q : Tail(q)[k] = q[l]
           /\ Head(q) \in Inverters =>
                r[Head(q)] > 0 /\ \A k \in DOMAIN Tail(q) : Tail(q)[k] # Head(q)
<1> DEFINE n == Len(q)
           p == Tail(q)
<1>1. /\ n \in Nat /\ n > 0 /\ DOMAIN q = 1 .. n /\ p \in Seq(Waiters)
      /\ DOMAIN p = 1 .. n - 1 /\ \A k \in 1 .. n - 1 : p[k] = q[k + 1]
      /\ Head(q) = q[1] /\ \A k \in 1 .. n : q[k] \in Waiters
  OBVIOUS
<1> HIDE DEF n, p
<1>2. \A k \in 1 .. n - 1 : k + 1 \in 1 .. n /\ k + 1 # 1
  BY <1>1
<1>3. 1 \in 1 .. n
  BY <1>1
<1>4. \A k, l \in 1 .. n - 1 : k # l => k + 1 # l + 1
  BY <1>1
<1>5. QueueOK(p, r)
  BY <1>1, <1>2, <1>4 DEF QueueOK
<1>6. q[1] \in Inverters => r[q[1]] > 0 /\ \A k \in DOMAIN p : p[k] # q[1]
  BY <1>1, <1>2, <1>3 DEF QueueOK
<1> QED BY <1>1, <1>2, <1>3, <1>5, <1>6 DEF p

-------------------------------------------------------------------------------
(* What steps do to the generations, the timers and the tasks.              *)

Moves ==
    /\ setups' \in 0 .. MaxSetups /\ setups <= setups'
    /\ current' \in 0 .. setups' /\ services' \in 0 .. setups'
    /\ listeners' \subseteq 1 .. setups'
    /\ TimersInv' /\ TasksOK(tasks', setups')
    /\ \A g \in Generations : /\ g <= setups => timers'[g] \subseteq timers[g]
                              /\ g > setups' => timers'[g] = {}

LEMMA SetupMakes ==
    ASSUME TypeInv, FutureInv, NEW registered \in SUBSET (1 .. setups), Setup(registered)
    PROVE  /\ setups \in Nat /\ setups' = setups + 1 /\ setups' \in Generations
           /\ setups' \in 0 .. MaxSetups
           /\ current' = setups' /\ services' = setups'
           /\ listeners' = registered \cup {setups'} /\ listeners' \subseteq 1 .. setups'
           /\ TimersInv' /\ timers'[setups'] = Inverters
           /\ \A g \in Generations : g # setups' => timers'[g] = timers[g]
           /\ \A g \in Generations : g > setups' => timers'[g] = {}
<1>1. /\ setups \in Nat /\ MaxSetups \in Nat /\ setups < MaxSetups /\ setups' = setups + 1
      /\ current' = setups' /\ services' = setups' /\ listeners' = registered \cup {setups'}
      /\ timers' = [timers EXCEPT ![setups'] = Inverters]
  BY BoundsAssumption DEF Setup, TypeInv, CountsInv
<1>2. setups' \in Generations /\ setups' \in 0 .. MaxSetups
  BY <1>1 DEF Generations
<1>3. TimersInv' /\ timers'[setups'] = Inverters
      /\ \A g \in Generations : g # setups' => timers'[g] = timers[g]
  BY <1>1, <1>2 DEF TypeInv, TimersInv
<1>4. listeners' \subseteq 1 .. setups'
  BY <1>1
<1>5. ASSUME NEW g \in Generations, g > setups' PROVE timers'[g] = {}
  <2>1. g > setups /\ g # setups'
    BY <1>1, <1>5 DEF Generations
  <2> QED BY <1>3, <2>1 DEF FutureInv
<1> QED BY <1>1, <1>2, <1>3, <1>4, <1>5

LEMMA StaysPut ==
    ASSUME TypeInv, FutureInv, UNCHANGED <<setups, timers, services>>,
           current' \in 0 .. setups, listeners' \subseteq 1 .. setups,
           TasksOK(tasks', setups)
    PROVE  Moves
BY DEF TypeInv, CountsInv, TimersInv, FutureInv, Moves

LEMMA ProceedsMoves ==
    ASSUME TypeInv, FutureInv, NEW t \in DOMAIN tasks,
           NEW registered \in SUBSET (1 .. setups), NEW remaining \in 0 .. setups,
           Proceeds(t, registered, remaining)
    PROVE  Moves
<1>1. CASE /\ Setup(registered)
           /\ tasks' = [tasks EXCEPT ![t] = Task("forwarding", "reload", setups')]
  <2>1. /\ setups \in Nat /\ setups' = setups + 1 /\ setups' \in 0 .. MaxSetups
        /\ current' = setups' /\ services' = setups' /\ listeners' \subseteq 1 .. setups'
        /\ TimersInv'
        /\ \A g \in Generations : g # setups' => timers'[g] = timers[g]
        /\ \A g \in Generations : g > setups' => timers'[g] = {}
    BY <1>1, SetupMakes
  <2> DEFINE e == Task("forwarding", "reload", setups')
  <2>2. e \in TaskRecords /\ e.gen <= setups'
    BY <2>1, TaskTyped
  <2>3. TasksOK(tasks, setups) /\ setups <= setups' /\ setups' \in Nat
    BY <2>1 DEF TypeInv
  <2> HIDE DEF e
  <2>4. TasksOK([tasks EXCEPT ![t] = e], setups')
    BY <2>1, <2>2, <2>3, TasksSet
  <2>5. TasksOK(tasks', setups')
    BY <1>1, <2>4 DEF e
  <2>6. \A g \in Generations : g <= setups => timers'[g] = timers[g]
    BY <2>1 DEF Generations
  <2> QED BY <2>1, <2>3, <2>5, <2>6 DEF Moves
<1>2. CASE /\ tasks' = RemoveAt(tasks, t)
           /\ current' = remaining /\ listeners' = registered
           /\ UNCHANGED <<setups, timers, services>>
  BY <1>2, TasksRemoved, StaysPut DEF TypeInv
<1> QED BY <1>1, <1>2 DEF Proceeds

LEMMA ClosedReturnsMoves ==
    ASSUME TypeInv, FutureInv, NEW t \in DOMAIN tasks, ClosedReturns(t)
    PROVE  Moves
<1>1. /\ current \in 0 .. setups /\ 0 \in 0 .. setups /\ None \in 0 .. setups
      /\ listeners \in SUBSET (1 .. setups)
      /\ listeners \ {current} \in SUBSET (1 .. setups)
  BY DEF TypeInv, CountsInv, None
<1>2. CASE Proceeds(t, listeners \ {current}, None)
  BY <1>1, <1>2, ProceedsMoves
<1>3. CASE /\ tasks' = RemoveAt(tasks, t)
           /\ UNCHANGED <<setups, timers, current, listeners, services>>
  BY <1>1, <1>3, TasksRemoved, StaysPut DEF TypeInv
<1> QED BY <1>2, <1>3 DEF ClosedReturns

(* Steps of Home Assistant that neither make nor unload a generation.       *)
LEMMA TasksBegin ==
    ASSUME TypeInv, FutureInv, OptionsChanged \/ UnloadEntry
    PROVE  Moves /\ Len(tasks') \in Nat
<1> DEFINE one(kind) == Task("unloading", kind, None)
<1>1. /\ one("reload") \in TaskRecords /\ one("reload").gen = 0
      /\ one("unload") \in TaskRecords /\ one("unload").gen = 0
  BY TaskTyped, BoundsAssumption DEF None
<1>2. /\ tasks \in Seq(TaskRecords) /\ setups \in Nat
      /\ \A k \in DOMAIN tasks : tasks[k].gen <= setups
  BY BoundsAssumption DEF TypeInv, TasksOK, CountsInv
<1>3. UNCHANGED <<setups, timers, services, current, listeners>>
  BY DEF OptionsChanged, UnloadEntry, polling, entry
<1> HIDE DEF one
<1>4. CASE OptionsChanged
  <2> DEFINE n == Cardinality(listeners)
             more == [l \in 1 .. n |-> one("reload")]
  <2>1. n \in Nat
    <3>1. IsFiniteSet(1 .. setups)
      BY <1>2, FS_Interval
    <3>2. IsFiniteSet(listeners)
      BY <3>1, FS_Subset DEF TypeInv, CountsInv
    <3> QED BY <3>2, FS_CardinalityType
  <2>2. tasks' = tasks \o more
    BY <1>4 DEF OptionsChanged, one
  <2> HIDE DEF n
  <2>3. more \in Seq(TaskRecords) /\ Len(more) = n /\ \A k \in 1 .. n : more[k] = one("reload")
    BY <1>1, <2>1
  <2> HIDE DEF more
  <2>4. /\ tasks \o more \in Seq(TaskRecords) /\ Len(tasks \o more) = Len(tasks) + n
        /\ \A k \in 1 .. Len(tasks) + n :
             (tasks \o more)[k] = IF k <= Len(tasks) THEN tasks[k] ELSE more[k - Len(tasks)]
    BY <1>2, <2>3, ConcatProperties
  <2>5. /\ tasks' \in Seq(TaskRecords) /\ Len(tasks) \in Nat
        /\ DOMAIN tasks' = 1 .. Len(tasks) + n /\ DOMAIN tasks = 1 .. Len(tasks)
    BY <1>2, <2>2, <2>4
  <2>6. ASSUME NEW k \in 1 .. Len(tasks) + n PROVE tasks'[k].gen <= setups
    <3>1. CASE k <= Len(tasks)
      BY <1>2, <2>1, <2>2, <2>4, <2>5, <3>1
    <3>2. CASE k > Len(tasks)
      <4>1. k - Len(tasks) \in 1 .. n
        BY <2>1, <2>5, <3>2
      <4>2. tasks'[k] = one("reload")
        BY <2>2, <2>3, <2>4, <2>5, <3>2, <4>1
      <4> QED BY <1>1, <1>2, <4>2
    <3> QED BY <2>1, <2>5, <3>1, <3>2
  <2>7. TasksOK(tasks', setups)
    BY <2>5, <2>6 DEF TasksOK
  <2> QED BY <1>3, <2>5, <2>7, StaysPut DEF TypeInv, CountsInv
<1>5. CASE UnloadEntry
  <2>1. tasks' = Append(tasks, one("unload"))
    BY <1>5 DEF UnloadEntry, one
  <2>2. /\ tasks' \in Seq(TaskRecords) /\ Len(tasks) \in Nat
        /\ DOMAIN tasks' = 1 .. Len(tasks) + 1 /\ DOMAIN tasks = 1 .. Len(tasks)
        /\ \A k \in 1 .. Len(tasks) : tasks'[k] = tasks[k]
        /\ tasks'[Len(tasks) + 1] = one("unload")
    BY <1>1, <1>2, <2>1
  <2>3. \A k \in DOMAIN tasks' : tasks'[k].gen <= setups
    <3>1. \A k \in 1 .. Len(tasks) + 1 : k \in 1 .. Len(tasks) \/ k = Len(tasks) + 1
      BY <2>2
    <3> QED BY <1>1, <1>2, <2>2, <3>1
  <2>4. TasksOK(tasks', setups)
    BY <2>2, <2>3 DEF TasksOK
  <2> QED BY <1>3, <2>2, <2>4, StaysPut DEF TypeInv, CountsInv
<1> QED BY <1>4, <1>5

(* A task whose unload begins to close the client.                          *)
LEMMA UnloadMoves ==
    ASSUME TypeInv, FutureInv, NEW t \in DOMAIN tasks, current # None, Unload(t),
           UNCHANGED <<setups, services, current, listeners>>
    PROVE  /\ Moves /\ current \in Generations /\ timers'[current] = {}
           /\ \A g \in Generations : g # current => timers'[g] = timers[g]
           /\ Len(tasks') = Len(tasks)
           /\ tasks'[t].pc = "closing" /\ tasks'[t].gen = current
<1> DEFINE e == Task("closing", tasks[t].kind, current)
<1>1. /\ setups \in 0 .. MaxSetups /\ current \in 0 .. setups /\ current # 0
      /\ listeners \subseteq 1 .. setups /\ services \in 0 .. setups /\ MaxSetups \in Nat
  BY BoundsAssumption DEF TypeInv, CountsInv, None
<1>2. setups \in Nat /\ current \in 0 .. MaxSetups /\ current \in Generations
  BY <1>1 DEF Generations
<1>3. tasks \in Seq(TaskRecords) /\ TasksOK(tasks, setups) /\ tasks[t] \in TaskRecords
  BY DEF TypeInv, TasksOK
<1>4. e \in TaskRecords /\ e.pc = "closing" /\ e.gen = current
  <2>1. tasks[t].kind \in {"setup", "reload", "unload"}
    BY <1>3 DEF TaskRecords
  <2> QED BY <1>2, <2>1, TaskTyped
<1>5. tasks' = [tasks EXCEPT ![t] = e]
  BY DEF Unload
<1> HIDE DEF e
<1>6. /\ TasksOK([tasks EXCEPT ![t] = e], setups)
      /\ Len([tasks EXCEPT ![t] = e]) = Len(tasks) /\ [tasks EXCEPT ![t] = e][t] = e
  <2>1. e.gen <= setups /\ setups <= setups
    BY <1>1, <1>2, <1>4
  <2> QED BY <1>2, <1>3, <1>4, <2>1, TasksSet
<1>7. /\ TimersInv' /\ timers'[current] = {}
      /\ \A g \in Generations : g # current => timers'[g] = timers[g]
  BY <1>2 DEF Unload, TypeInv, TimersInv
<1>8. \A g \in Generations : /\ timers'[g] \subseteq timers[g]
                             /\ g > setups => timers'[g] = {}
  BY <1>7 DEF FutureInv
<1> QED BY <1>1, <1>2, <1>4, <1>5, <1>6, <1>7, <1>8 DEF Moves

-------------------------------------------------------------------------------
(* What follows from the moves for those who wait for the client's lock.    *)

LEMMA FutureKept ==
    ASSUME TypeInv, Moves,
           \A g \in Generations : g > setups => queue'[g] = <<>>
    PROVE  FutureInv'
<1>1. \A g \in Generations : g > setups' => g > setups
  BY DEF TypeInv, CountsInv, Moves, Generations
<1> QED BY <1>1 DEF Moves, FutureInv

(* Nobody who was not waiting joins: what was closed stays so.              *)
LEMMA ClosedKept ==
    ASSUME TypeInv, FutureInv, Moves, NEW g \in Generations, ClosedOK(g),
           caught \subseteq caught', g \in closed' => g \in closed \/ ToClose(queue[g]),
           \A k \in DOMAIN queue'[g] : \E l \in DOMAIN queue[g] : queue'[g][k] = queue[g][l]
    PROVE  ClosedOK(g)'
<1> SUFFICES ASSUME g \in closed' \/ ToClose(queue'[g]), g \notin caught'
             PROVE  timers'[g] = {} /\ AllClose(queue'[g])
  BY DEF ClosedOK
<1>1. g \in closed \/ ToClose(queue[g])
  BY DEF ToClose
<1>2. timers[g] = {} /\ AllClose(queue[g])
  BY <1>1 DEF ClosedOK
<1>3. g <= setups
  <2>1. CASE g \in closed
    BY <2>1 DEF TypeInv, CountsInv
  <2>2. CASE ToClose(queue[g])
    BY <2>2 DEF ToClose, FutureInv, TypeInv, CountsInv, Generations
  <2> QED BY <1>1, <2>1, <2>2
<1> QED BY <1>2, <1>3 DEF Moves, AllClose

(* Steps that leave the clients alone.                                      *)
LEMMA Quiet ==
    ASSUME TypeInv, FutureInv, QueueInv, ClosedInv, Moves,
           UNCHANGED <<refreshes, client, closed, caught>>
    PROVE  WaitingInv' /\ FutureInv' /\ QueueInv' /\ ClosedInv'
<1>1. UNCHANGED <<queue, connected>>
  BY DEF client
<1>2. WaitingInv' /\ QueueInv'
  BY <1>1 DEF TypeInv, WaitingInv, QueueInv
<1>3. FutureInv'
  BY <1>1, FutureKept DEF FutureInv
<1>4. ASSUME NEW g \in Generations PROVE ClosedOK(g)'
  BY <1>1, ClosedKept DEF ClosedInv
<1> QED BY <1>1, <1>2, <1>3, <1>4 DEF ClosedInv, ClosedStaysClosed

LEMMA AppendedQueue ==
    ASSUME NEW q \in Seq(Waiters), NEW e \in Waiters
    PROVE  /\ \A k \in DOMAIN q : k \in DOMAIN Append(q, e) /\ Append(q, e)[k] = q[k]
           /\ \A k \in DOMAIN Append(q, e) :
                Append(q, e)[k] = e \/ \E l \in DOMAIN q : Append(q, e)[k] = q[l]
           /\ q = <<>> => \A k \in DOMAIN Append(q, e) : Append(q, e)[k] = e
<1> DEFINE n == Len(q)
           p == Append(q, e)
<1>1. /\ n \in Nat /\ DOMAIN q = 1 .. n /\ DOMAIN p = 1 .. n + 1
      /\ \A k \in 1 .. n : p[k] = q[k]
      /\ p[n + 1] = e
      /\ q = <<>> => n = 0
  OBVIOUS
<1> HIDE DEF n, p
<1>2. \A k \in 1 .. n + 1 : k \in 1 .. n \/ k = n + 1
  BY <1>1
<1>3. \A k \in 1 .. n : k \in 1 .. n + 1
  BY <1>1
<1> QED BY <1>1, <1>2, <1>3 DEF p

(* A client is closed for its generation: who was waiting, or had a request *)
(* to come, is caught.                                                      *)
LEMMA UnloadedKeeps ==
    ASSUME TypeInv, FutureInv, QueueInv, ClosedInv, Moves,
           current \in Generations, current <= setups, timers'[current] = {},
           queue' = [queue EXCEPT ![current] = Append(@, "close")],
           caught' = caught \cup {g \in {current} \ {None} : Waiting(g)},
           UNCHANGED <<refreshes, connected, closed>>
    PROVE  WaitingInv' /\ FutureInv' /\ QueueInv' /\ ClosedInv'
<1> DEFINE c == current
<1>1. /\ "close" \in Waiters /\ "close" \notin Inverters
      /\ queue \in [Generations -> Seq(Waiters)] /\ queue[c] \in Seq(Waiters)
  BY InvertersAssumption DEF Waiters, TypeInv, WaitingInv
<1>2. /\ queue'[c] = Append(queue[c], "close")
      /\ \A g \in Generations : g # c => queue'[g] = queue[g]
  BY <1>1
<1>3. Append(queue[c], "close") \in Seq(Waiters) /\ QueueOK(Append(queue[c], "close"), refreshes[c])
  <2>1. QueueOK(queue[c], refreshes[c])
    BY DEF QueueInv
  <2>2. \A k \in DOMAIN queue[c] : queue[c][k] \in Inverters => refreshes[c][queue[c][k]] > 0
    BY <2>1 DEF QueueOK
  <2> QED BY <1>1, <2>1, <2>2, Joins
<1>4. WaitingInv'
  BY <1>1, <1>3 DEF TypeInv, WaitingInv
<1>5. QueueInv'
  BY <1>2, <1>3 DEF QueueInv
<1>6. FutureInv'
  <2>1. \A g \in Generations : g > setups => g # c
    BY DEF TypeInv, CountsInv, Generations
  <2> QED BY <1>2, <2>1, FutureKept DEF FutureInv
<1>7. ASSUME NEW g \in Generations PROVE ClosedOK(g)'
  <2>1. CASE g # c
    BY <1>2, <2>1, ClosedKept DEF ClosedInv
  <2>2. CASE g = c /\ g \notin caught'
    <3>1. c # None
      BY DEF Generations, None
    <3>2. queue[c] = <<>>
      BY <2>2, <3>1 DEF Waiting
    <3>3. AllClose(queue'[c])
      BY <1>1, <1>2, <3>2, AppendedQueue DEF AllClose
    <3> QED BY <2>2, <3>3 DEF ClosedOK
  <2> QED BY <2>1, <2>2 DEF ClosedOK
<1>8. ClosedStaysClosed'
  BY DEF ClosedInv, ClosedStaysClosed
<1> QED BY <1>4, <1>5, <1>6, <1>7, <1>8 DEF ClosedInv

(* A refresh begins, or a service is called: a generation that polls has    *)
(* not been closed.                                                         *)
LEMMA JoinsKeeps ==
    ASSUME TypeInv, FutureInv, QueueInv, ClosedInv, Moves,
           NEW g \in Generations, g <= setups, NEW e \in Waiters \ {"close"},
           timers[g] # {} \/ g \in caught',
           queue' = [queue EXCEPT ![g] = Append(@, e)],
           WaitingInv', QueueOK(queue'[g], refreshes'[g]),
           \A h \in Generations : h # g => refreshes'[h] = refreshes[h],
           caught \subseteq caught', UNCHANGED <<connected, closed>>
    PROVE  FutureInv' /\ QueueInv' /\ ClosedInv'
<1>1. queue \in [Generations -> Seq(Waiters)] /\ queue[g] \in Seq(Waiters)
  BY DEF TypeInv, WaitingInv
<1>2. /\ queue'[g] = Append(queue[g], e)
      /\ \A h \in Generations : h # g => queue'[h] = queue[h]
  BY <1>1
<1>3. QueueInv'
  BY <1>2 DEF QueueInv
<1>4. FutureInv'
  <2>1. \A h \in Generations : h > setups => h # g
    BY DEF TypeInv, CountsInv, Generations
  <2> QED BY <1>2, <2>1, FutureKept DEF FutureInv
<1>5. ASSUME NEW h \in Generations PROVE ClosedOK(h)'
  <2>1. CASE h # g
    BY <1>2, <2>1, ClosedKept DEF ClosedInv
  <2>2. CASE h = g /\ g \notin caught'
    <3>1. g \notin closed /\ ~ToClose(queue[g])
      BY <2>2 DEF ClosedInv, ClosedOK
    <3>2. ~ToClose(queue'[g])
      BY <1>1, <1>2, <3>1, AppendedQueue DEF ToClose
    <3> QED BY <2>2, <3>1, <3>2 DEF ClosedOK
  <2> QED BY <2>1, <2>2 DEF ClosedOK
<1>6. ClosedStaysClosed'
  BY DEF ClosedInv, ClosedStaysClosed
<1> QED BY <1>3, <1>4, <1>5, <1>6 DEF ClosedInv

LEMMA RefreshKeeps ==
    ASSUME TypeInv, FutureInv, QueueInv, ClosedInv, Moves,
           NEW g \in Generations, NEW i \in Inverters, Refresh(g, i)
    PROVE  WaitingInv' /\ FutureInv' /\ QueueInv' /\ ClosedInv'
<1>1. /\ i \in timers[g] /\ refreshes[g][i] = 0
      /\ refreshes' = [refreshes EXCEPT ![g] = [refreshes[g] EXCEPT ![i] = Requests]]
      /\ queue' = [queue EXCEPT ![g] = Append(@, i)]
      /\ UNCHANGED <<connected, closed, caught>>
  BY DEF Refresh
<1>2. /\ queue[g] \in Seq(Waiters) /\ refreshes[g] \in [Inverters -> 0 .. Requests]
      /\ i \in Waiters \ {"close"} /\ QueueOK(queue[g], refreshes[g])
      /\ Requests \in Nat /\ Requests > 0 /\ queue \in [Generations -> Seq(Waiters)]
      /\ refreshes \in [Generations -> [Inverters -> 0 .. Requests]]
  BY InvertersAssumption, BoundsAssumption DEF Waiters, TypeInv, WaitingInv, QueueInv
<1> DEFINE r == [refreshes[g] EXCEPT ![i] = Requests]
<1>3. /\ r \in [Inverters -> 0 .. Requests] /\ r[i] = Requests
      /\ \A j \in Inverters : j # i => r[j] = refreshes[g][j]
  BY <1>2
<1>4. refreshes' = [refreshes EXCEPT ![g] = r]
  BY <1>1
<1> HIDE DEF r
<1>5. /\ refreshes' \in [Generations -> [Inverters -> 0 .. Requests]] /\ refreshes'[g] = r
      /\ \A h \in Generations : h # g => refreshes'[h] = refreshes[h]
  BY <1>2, <1>3, <1>4
<1>6. \A k \in DOMAIN queue[g] : queue[g][k] # i
  BY <1>1, <1>2 DEF QueueOK
<1>7. \A k \in DOMAIN queue[g] : queue[g][k] \in Inverters => r[queue[g][k]] > 0
  BY <1>2, <1>3, <1>6 DEF QueueOK
<1>8. Append(queue[g], i) \in Seq(Waiters) /\ QueueOK(Append(queue[g], i), r)
  BY <1>2, <1>3, <1>6, <1>7, Joins
<1>9. queue' \in [Generations -> Seq(Waiters)] /\ queue'[g] = Append(queue[g], i)
  BY <1>1, <1>2, <1>8
<1>10. WaitingInv' /\ QueueOK(queue'[g], refreshes'[g])
  BY <1>5, <1>8, <1>9 DEF WaitingInv
<1>11. g <= setups
  BY <1>1 DEF FutureInv, TypeInv, CountsInv, Generations
<1> QED BY <1>1, <1>2, <1>5, <1>10, <1>11, JoinsKeeps

LEMMA CallKeeps ==
    ASSUME TypeInv, FutureInv, QueueInv, ClosedInv, Moves, CallService
    PROVE  WaitingInv' /\ FutureInv' /\ QueueInv' /\ ClosedInv' /\ caught' \subseteq 1 .. setups
<1> DEFINE g == services
<1>1. g \in Generations /\ g <= setups /\ g \in 1 .. setups /\ caught \subseteq 1 .. setups
  <2>1. /\ g # 0 /\ g \in 0 .. setups /\ setups \in 0 .. MaxSetups
        /\ caught \subseteq 1 .. setups
    BY DEF CallService, TypeInv, CountsInv, None
  <2> HIDE DEF g
  <2> QED BY <2>1, BoundsAssumption DEF Generations
<1>2. /\ queue' = [queue EXCEPT ![g] = Append(@, "service")]
      /\ caught' = IF timers[g] = {} THEN caught \cup {g} ELSE caught
      /\ UNCHANGED <<refreshes, connected, closed>>
  BY DEF CallService, polling
<1> HIDE DEF g
<1>3. /\ queue[g] \in Seq(Waiters) /\ QueueOK(queue[g], refreshes[g])
      /\ "service" \in Waiters \ {"close"} /\ "service" \notin Inverters
      /\ queue \in [Generations -> Seq(Waiters)]
      /\ refreshes \in [Generations -> [Inverters -> 0 .. Requests]]
  BY <1>1, InvertersAssumption DEF Waiters, TypeInv, WaitingInv, QueueInv
<1>4. \A k \in DOMAIN queue[g] : queue[g][k] \in Inverters => refreshes[g][queue[g][k]] > 0
  BY <1>3 DEF QueueOK
<1>5. /\ Append(queue[g], "service") \in Seq(Waiters)
      /\ QueueOK(Append(queue[g], "service"), refreshes[g])
  BY <1>3, <1>4, Joins
<1>6. queue' \in [Generations -> Seq(Waiters)] /\ queue'[g] = Append(queue[g], "service")
  BY <1>1, <1>2, <1>3, <1>5
<1>7. WaitingInv' /\ QueueOK(queue'[g], refreshes'[g])
  BY <1>2, <1>3, <1>5, <1>6 DEF WaitingInv
<1>8. caught \subseteq caught' /\ (timers[g] # {} \/ g \in caught') /\ caught' \subseteq 1 .. setups
  BY <1>1, <1>2
<1> QED BY <1>1, <1>2, <1>3, <1>7, <1>8, JoinsKeeps

(* The one at the head of the queue is done, and may queue again.           *)
LEMMA LeavesKeeps ==
    ASSUME TypeInv, FutureInv, QueueInv, ClosedInv, Moves,
           NEW g \in Generations, queue[g] # <<>>,
           QueueOK(queue'[g], refreshes'[g]),
           \A k \in DOMAIN queue'[g] : \E l \in DOMAIN queue[g] : queue'[g][k] = queue[g][l],
           \A h \in Generations : h # g => queue'[h] = queue[h] /\ refreshes'[h] = refreshes[h],
           g \in closed' => g \in closed \/ ToClose(queue[g]),
           \A h \in Generations : h # g => (h \in closed' <=> h \in closed),
           UNCHANGED caught
    PROVE  FutureInv' /\ QueueInv' /\ \A h \in Generations : ClosedOK(h)'
<1>1. QueueInv'
  BY DEF QueueInv
<1>2. FutureInv'
  BY FutureKept DEF FutureInv
<1>3. ASSUME NEW h \in Generations PROVE ClosedOK(h)'
  <2>1. CASE h = g
    BY <2>1, ClosedKept DEF ClosedInv
  <2>2. CASE h # g
    BY <2>2, ClosedKept DEF ClosedInv
  <2> QED BY <2>1, <2>2
<1> QED BY <1>1, <1>2, <1>3

(* A client that was closed is connected again only for one who was caught. *)
LEMMA ReconnectsCaught ==
    ASSUME TypeInv, FutureInv, ClosedInv, NEW g \in Generations, queue[g] # <<>>,
           Head(queue[g]) # "close", connected' \subseteq connected \cup {g},
           UNCHANGED <<closed, caught, setups>>
    PROVE  ClosedStaysClosed' /\ connected' \subseteq 1 .. setups'
<1>1. /\ queue[g] \in Seq(Waiters) /\ queue[g] # <<>>
  BY DEF TypeInv, WaitingInv
<1>2. 1 \in DOMAIN queue[g] /\ Head(queue[g]) = queue[g][1]
  BY <1>1
<1>3. g \in closed => g \in caught
  BY <1>2 DEF ClosedInv, ClosedOK, AllClose
<1>4. g \in 1 .. setups /\ connected \subseteq 1 .. setups
  BY DEF FutureInv, TypeInv, CountsInv, Generations
<1> QED BY <1>3, <1>4 DEF ClosedInv, ClosedStaysClosed

LEMMA RequestKeeps ==
    ASSUME TypeInv, FutureInv, QueueInv, ClosedInv, Moves,
           NEW g \in Generations, RequestSucceeds(g) \/ RequestFails(g)
    PROVE  WaitingInv' /\ FutureInv' /\ QueueInv' /\ ClosedInv' /\ connected' \subseteq 1 .. setups'
<1> DEFINE i == Head(queue[g])
           rest == Tail(queue[g])
           Left(n) == IF i \in Inverters THEN [refreshes[g] EXCEPT ![i] = n] ELSE refreshes[g]
<1>1. /\ queue[g] # <<>> /\ i # "close" /\ connected' \subseteq connected \cup {g}
      /\ UNCHANGED <<closed, caught, setups>>
  BY DEF RequestSucceeds, RequestFails
<1>2. ClosedStaysClosed' /\ connected' \subseteq 1 .. setups'
  BY <1>1, ReconnectsCaught
<1>3. /\ queue[g] \in Seq(Waiters) /\ refreshes[g] \in [Inverters -> 0 .. Requests]
      /\ refreshes \in [Generations -> [Inverters -> 0 .. Requests]]
      /\ queue \in [Generations -> Seq(Waiters)]
      /\ QueueOK(queue[g], refreshes[g]) /\ Requests \in Nat
  BY BoundsAssumption DEF TypeInv, WaitingInv, QueueInv
<1>4. /\ rest \in Seq(Waiters) /\ QueueOK(rest, refreshes[g])
      /\ i \in Waiters /\ 1 \in DOMAIN queue[g] /\ i = queue[g][1]
      /\ \A k \in DOMAIN rest : \E l \in DOMAIN queue[g] : rest[k] = queue[g][l]
      /\ i \in Inverters => refreshes[g][i] > 0 /\ \A k \in DOMAIN rest : rest[k] # i
  BY <1>1, <1>3, Leaves
<1> HIDE DEF i, rest
<1>5. ASSUME NEW n \in 0 .. Requests
      PROVE  /\ Left(n) \in [Inverters -> 0 .. Requests] /\ QueueOK(rest, Left(n))
             /\ i \in Inverters => Left(n)[i] = n
             /\ \A j \in Inverters : j # i => Left(n)[j] = refreshes[g][j]
  <2>1. /\ Left(n) \in [Inverters -> 0 .. Requests]
        /\ i \in Inverters => Left(n)[i] = n
        /\ \A j \in Inverters : j # i => Left(n)[j] = refreshes[g][j]
    BY <1>3
  <2> HIDE DEF Left
  <2>2. QueueOK(rest, Left(n))
    <3>1. \A k \in DOMAIN rest : rest[k] \in Inverters => Left(n)[rest[k]] > 0
      BY <1>4, <2>1 DEF QueueOK
    <3> QED BY <1>4, <3>1 DEF QueueOK
  <2> QED BY <2>1, <2>2
<1>6. CASE RequestSucceeds(g)
  <2> DEFINE n == IF i \in Inverters THEN refreshes[g][i] - 1 ELSE 0
             q == IF MoreRequests(g, i) THEN Append(rest, i) ELSE rest
  <2>1. n \in 0 .. Requests
    BY <1>3, <1>4
  <2>2. /\ refreshes' = [refreshes EXCEPT ![g] = Left(n)]
        /\ queue' = [queue EXCEPT ![g] = q]
    <3>1. refreshes' = IF i \in Inverters
                       THEN [refreshes EXCEPT ![g] = [refreshes[g] EXCEPT ![i] = refreshes[g][i] - 1]]
                       ELSE refreshes
      BY <1>6 DEF RequestSucceeds, i
    <3>2. refreshes = [refreshes EXCEPT ![g] = refreshes[g]]
      BY <1>3
    <3>3. queue' = [queue EXCEPT ![g] = q]
      BY <1>6 DEF RequestSucceeds, i, rest
    <3> QED BY <3>1, <3>2, <3>3
  <2>3. /\ Left(n) \in [Inverters -> 0 .. Requests] /\ QueueOK(rest, Left(n))
        /\ i \in Inverters => Left(n)[i] = n
    <3> HIDE DEF n, Left
    <3> QED BY <2>1, <1>5
  <2>4. /\ q \in Seq(Waiters) /\ QueueOK(q, Left(n))
        /\ \A k \in DOMAIN q : \E l \in DOMAIN queue[g] : q[k] = queue[g][l]
    <3>1. CASE MoreRequests(g, i)
      <4>1. i \in Inverters /\ refreshes[g][i] > 1
        BY <3>1 DEF MoreRequests
      <4>2. Left(n)[i] > 0
        BY <1>3, <2>3, <4>1
      <4>3. q = Append(rest, i)
        BY <3>1
      <4> HIDE DEF Left, n, q
      <4>4. \A k \in DOMAIN rest : rest[k] \in Inverters => Left(n)[rest[k]] > 0
        BY <2>3 DEF QueueOK
      <4>5. Append(rest, i) \in Seq(Waiters) /\ QueueOK(Append(rest, i), Left(n))
        BY <1>4, <2>3, <4>1, <4>2, <4>4, Joins
      <4>6. \A k \in DOMAIN Append(rest, i) :
               Append(rest, i)[k] = i \/ \E l \in DOMAIN rest : Append(rest, i)[k] = rest[l]
        BY <1>4, AppendedQueue
      <4> QED BY <1>4, <4>3, <4>5, <4>6
    <3>2. CASE ~MoreRequests(g, i)
      BY <1>4, <2>3, <3>2
    <3> QED BY <3>1, <3>2
  <2> HIDE DEF n, q, Left
  <2>5. /\ WaitingInv' /\ queue'[g] = q /\ refreshes'[g] = Left(n)
        /\ \A h \in Generations : h # g => queue'[h] = queue[h] /\ refreshes'[h] = refreshes[h]
    BY <1>3, <2>2, <2>3, <2>4 DEF WaitingInv
  <2>6. FutureInv' /\ QueueInv' /\ \A h \in Generations : ClosedOK(h)'
    BY <1>1, <2>4, <2>5, LeavesKeeps
  <2> QED BY <1>2, <2>5, <2>6 DEF ClosedInv
<1>7. CASE RequestFails(g)
  <2>1. /\ refreshes' = [refreshes EXCEPT ![g] = Left(0)]
        /\ queue' = [queue EXCEPT ![g] = rest]
    <3>1. refreshes' = IF i \in Inverters
                       THEN [refreshes EXCEPT ![g] = [refreshes[g] EXCEPT ![i] = 0]]
                       ELSE refreshes
      BY <1>7 DEF RequestFails, i
    <3>2. refreshes = [refreshes EXCEPT ![g] = refreshes[g]]
      BY <1>3
    <3>3. queue' = [queue EXCEPT ![g] = rest]
      BY <1>7 DEF RequestFails, rest
    <3> QED BY <3>1, <3>2, <3>3
  <2>2. Left(0) \in [Inverters -> 0 .. Requests] /\ QueueOK(rest, Left(0))
    <3>1. 0 \in 0 .. Requests
      BY <1>3
    <3> HIDE DEF Left
    <3> QED BY <3>1, <1>5
  <2> HIDE DEF Left
  <2>3. /\ WaitingInv' /\ queue'[g] = rest /\ refreshes'[g] = Left(0)
        /\ \A h \in Generations : h # g => queue'[h] = queue[h] /\ refreshes'[h] = refreshes[h]
    BY <1>3, <1>4, <2>1, <2>2 DEF WaitingInv
  <2>4. FutureInv' /\ QueueInv' /\ \A h \in Generations : ClosedOK(h)'
    BY <1>1, <1>4, <2>2, <2>3, LeavesKeeps
  <2> QED BY <1>2, <2>3, <2>4 DEF ClosedInv
<1> QED BY <1>6, <1>7

LEMMA CloseKeeps ==
    ASSUME TypeInv, FutureInv, QueueInv, ClosedInv, Moves, NEW g \in Generations, Close(g)
    PROVE  /\ WaitingInv' /\ FutureInv' /\ QueueInv' /\ ClosedInv'
           /\ connected' \subseteq 1 .. setups' /\ closed' \subseteq 1 .. setups'
<1> DEFINE rest == Tail(queue[g])
<1>1. /\ queue[g] # <<>> /\ Head(queue[g]) = "close"
      /\ queue' = [queue EXCEPT ![g] = rest] /\ UNCHANGED <<refreshes, caught>>
      /\ connected' = connected \ {g} /\ closed' = closed \cup {g}
  BY DEF Close
<1>2. /\ queue[g] \in Seq(Waiters) /\ refreshes[g] \in [Inverters -> 0 .. Requests]
      /\ refreshes \in [Generations -> [Inverters -> 0 .. Requests]]
      /\ QueueOK(queue[g], refreshes[g])
      /\ queue \in [Generations -> Seq(Waiters)]
  BY DEF TypeInv, WaitingInv, QueueInv
<1>3. /\ rest \in Seq(Waiters) /\ QueueOK(rest, refreshes[g])
      /\ 1 \in DOMAIN queue[g] /\ queue[g][1] = "close"
      /\ \A k \in DOMAIN rest : \E l \in DOMAIN queue[g] : rest[k] = queue[g][l]
  BY <1>1, <1>2, Leaves
<1>4. ToClose(queue[g])
  BY <1>3 DEF ToClose
<1> HIDE DEF rest
<1>5. /\ WaitingInv' /\ queue'[g] = rest /\ refreshes'[g] = refreshes[g]
      /\ \A h \in Generations : h # g => queue'[h] = queue[h] /\ refreshes'[h] = refreshes[h]
  BY <1>1, <1>2, <1>3 DEF WaitingInv
<1>6. FutureInv' /\ QueueInv' /\ \A h \in Generations : ClosedOK(h)'
  BY <1>1, <1>3, <1>4, <1>5, LeavesKeeps
<1>7. ClosedStaysClosed'
  BY <1>1 DEF ClosedInv, ClosedStaysClosed
<1>8. g \in 1 .. setups /\ connected \subseteq 1 .. setups /\ closed \subseteq 1 .. setups
  BY <1>1 DEF FutureInv, TypeInv, CountsInv, Generations
<1>9. 1 .. setups \subseteq 1 .. setups'
  BY DEF Moves, TypeInv, CountsInv
<1> QED BY <1>1, <1>5, <1>6, <1>7, <1>8, <1>9 DEF ClosedInv

-------------------------------------------------------------------------------
(* The steps, first for what holds also when reloads overlap.               *)

LEMMA SafeKept ==
    ASSUME Moves, platforms' \in 0 .. setups', connected' \subseteq 1 .. setups',
           closed' \subseteq 1 .. setups', caught' \subseteq 1 .. setups',
           WaitingInv', FutureInv', QueueInv', ClosedInv'
    PROVE  SafeInv'
BY DEF Moves, SafeInv, TypeInv, CountsInv

LEMMA QuietKeeps ==
    ASSUME SafeInv, Moves, platforms' \in 0 .. setups',
           UNCHANGED <<refreshes, client, closed, caught>>
    PROVE  SafeInv'
<1>1. WaitingInv' /\ FutureInv' /\ QueueInv' /\ ClosedInv'
  BY Quiet DEF SafeInv
<1>2. 1 .. setups \subseteq 1 .. setups'
  BY DEF Moves, SafeInv, TypeInv, CountsInv
<1>3. /\ connected' \subseteq 1 .. setups' /\ closed' \subseteq 1 .. setups'
      /\ caught' \subseteq 1 .. setups'
  BY <1>2 DEF client, SafeInv, TypeInv, CountsInv
<1> QED BY <1>1, <1>3, SafeKept

LEMMA HomeAssistantSafe ==
    ASSUME SafeInv, SetupEntry \/ OptionsChanged \/ UnloadEntry
    PROVE  SafeInv'
<1>1. CASE SetupEntry
  <2>1. Setup(listeners) /\ listeners \in SUBSET (1 .. setups)
    BY <1>1 DEF SetupEntry, SafeInv, TypeInv, CountsInv
  <2>2. /\ setups \in Nat /\ setups' = setups + 1 /\ setups' \in 0 .. MaxSetups
        /\ current' = setups' /\ services' = setups' /\ listeners' \subseteq 1 .. setups'
        /\ TimersInv'
        /\ \A g \in Generations : g # setups' => timers'[g] = timers[g]
        /\ \A g \in Generations : g > setups' => timers'[g] = {}
    BY <2>1, SetupMakes DEF SafeInv
  <2> DEFINE e == Task("forwarding", "setup", setups')
  <2>3. e \in TaskRecords /\ e.gen <= setups'
    BY <2>2, TaskTyped
  <2>4. tasks' = <<e>>
    BY <1>1 DEF SetupEntry
  <2> HIDE DEF e
  <2>5. TasksOK(tasks', setups')
    BY <2>3, <2>4 DEF TasksOK
  <2>6. \A g \in Generations : g <= setups => timers'[g] = timers[g]
    BY <2>2 DEF Generations
  <2>7. Moves
    BY <2>2, <2>5, <2>6 DEF Moves
  <2>8. platforms' \in 0 .. setups'
    BY <1>1, <2>2 DEF SetupEntry, SafeInv, TypeInv, CountsInv
  <2> QED BY <1>1, <2>7, <2>8, QuietKeeps DEF SetupEntry
<1>2. CASE OptionsChanged \/ UnloadEntry
  <2>1. Moves
    BY <1>2, TasksBegin DEF SafeInv
  <2>2. platforms' \in 0 .. setups' /\ UNCHANGED <<refreshes, client, closed, caught>>
    BY <1>2 DEF OptionsChanged, UnloadEntry, entry, polling, SafeInv, TypeInv, CountsInv
  <2> QED BY <2>1, <2>2, QuietKeeps
<1> QED BY <1>1, <1>2

LEMMA AdvanceSafe ==
    ASSUME SafeInv, NEW t \in DOMAIN tasks, Advance(t)
    PROVE  SafeInv'
<1>0. /\ setups \in 0 .. MaxSetups /\ current \in 0 .. setups /\ platforms \in 0 .. setups
      /\ listeners \in SUBSET (1 .. setups) /\ None \in 0 .. setups
      /\ closed \subseteq 1 .. setups /\ caught \subseteq 1 .. setups
      /\ connected \subseteq 1 .. setups
      /\ TasksOK(RemoveAt(tasks, t), setups)
  BY TasksRemoved DEF SafeInv, TypeInv, CountsInv, None
<1>1. CASE ForwardReturns(t)
  <2>1. /\ UNCHANGED <<setups, timers, services, current, listeners>>
        /\ UNCHANGED <<refreshes, client, closed, caught>>
        /\ tasks' = RemoveAt(tasks, t) /\ platforms' \in 0 .. setups'
    BY <1>0, <1>1 DEF ForwardReturns, polling
  <2>2. Moves
    BY <1>0, <2>1, StaysPut DEF SafeInv
  <2> QED BY <2>1, <2>2, QuietKeeps
<1>2. CASE PlatformsRefuse(t)
  <2>1. Moves
    BY <1>0, <1>2, ProceedsMoves DEF PlatformsRefuse, SafeInv
  <2>2. platforms' \in 0 .. setups'
    BY <1>0, <1>2, <2>1 DEF PlatformsRefuse, Moves
  <2> QED BY <1>2, <2>1, <2>2, QuietKeeps DEF PlatformsRefuse
<1>3. CASE PlatformsUnloaded(t) /\ current = None
  <2>1. /\ UNCHANGED <<setups, timers, services, current, listeners>>
        /\ UNCHANGED <<refreshes, client, closed, caught>>
        /\ tasks' = RemoveAt(tasks, t) /\ platforms' \in 0 .. setups'
    BY <1>0, <1>3 DEF PlatformsUnloaded, client
  <2>2. Moves
    BY <1>0, <2>1, StaysPut DEF SafeInv
  <2> QED BY <2>1, <2>2, QuietKeeps
<1>4. CASE PlatformsUnloaded(t) /\ current # None
  <2>1. /\ Unload(t) /\ UNCHANGED <<setups, services, current, listeners>>
        /\ UNCHANGED <<refreshes, connected, closed>> /\ platforms' = None
        /\ caught' = caught \cup {g \in {current} \ {None} : Waiting(g)}
    BY <1>4 DEF PlatformsUnloaded
  <2>2. Moves /\ current \in Generations /\ timers'[current] = {}
    BY <1>4, <2>1, UnloadMoves DEF SafeInv
  <2>3. queue' = [queue EXCEPT ![current] = Append(@, "close")]
    BY <2>1 DEF Unload
  <2>4. WaitingInv' /\ FutureInv' /\ QueueInv' /\ ClosedInv'
    BY <1>0, <2>1, <2>2, <2>3, UnloadedKeeps DEF SafeInv
  <2>5. caught' \subseteq 1 .. setups
    <3>1. current \in 1 .. setups
      BY <1>0, <2>2 DEF Generations
    <3>2. {g \in {current} \ {None} : Waiting(g)} \subseteq {current}
      OBVIOUS
    <3> QED BY <1>0, <2>1, <3>1, <3>2
  <2> QED BY <1>0, <2>1, <2>2, <2>4, <2>5, SafeKept
<1> QED BY <1>1, <1>2, <1>3, <1>4 DEF Advance

LEMMA ClientSafe ==
    ASSUME SafeInv, \/ \E g \in Generations, i \in Inverters : Refresh(g, i)
                    \/ CallService
                    \/ \E g \in Generations : RequestSucceeds(g) \/ RequestFails(g)
    PROVE  SafeInv'
<1>1. /\ UNCHANGED <<setups, timers, services, current, listeners, tasks, platforms, closed>>
      /\ (UNCHANGED caught \/ CallService)
      /\ (UNCHANGED connected \/ \E g \in Generations : RequestSucceeds(g) \/ RequestFails(g))
  BY DEF Refresh, CallService, RequestSucceeds, RequestFails, entry, polling
<1>2. Moves
  BY <1>1, StaysPut DEF SafeInv, TypeInv, CountsInv
<1>3. /\ platforms' \in 0 .. setups' /\ closed' \subseteq 1 .. setups'
      /\ UNCHANGED connected => connected' \subseteq 1 .. setups'
      /\ UNCHANGED caught => caught' \subseteq 1 .. setups'
  BY <1>1 DEF SafeInv, TypeInv, CountsInv
<1>4. CASE \E g \in Generations, i \in Inverters : Refresh(g, i)
  <2>1. UNCHANGED <<connected, caught>>
    BY <1>4 DEF Refresh
  <2> QED BY <1>2, <1>3, <1>4, <2>1, RefreshKeeps, SafeKept DEF SafeInv
<1>5. CASE CallService
  <2>1. UNCHANGED connected
    BY <1>5 DEF CallService
  <2> QED BY <1>1, <1>2, <1>3, <1>5, <2>1, CallKeeps, SafeKept DEF SafeInv
<1>6. CASE \E g \in Generations : RequestSucceeds(g) \/ RequestFails(g)
  <2>1. UNCHANGED caught
    BY <1>6 DEF RequestSucceeds, RequestFails
  <2> QED BY <1>2, <1>3, <1>6, <2>1, RequestKeeps, SafeKept DEF SafeInv
<1> QED BY <1>4, <1>5, <1>6

LEMMA CloseSafe ==
    ASSUME SafeInv, NEW g \in Generations, Close(g)
    PROVE  SafeInv'
<1>1. PICK t \in DOMAIN tasks : ClosedReturns(t)
  BY DEF Close
<1>2. Moves
  BY <1>1, ClosedReturnsMoves DEF SafeInv
<1>3. /\ WaitingInv' /\ FutureInv' /\ QueueInv' /\ ClosedInv'
      /\ connected' \subseteq 1 .. setups' /\ closed' \subseteq 1 .. setups'
  BY <1>2, CloseKeeps DEF SafeInv
<1>4. platforms' \in 0 .. setups' /\ caught' \subseteq 1 .. setups'
  BY <1>2 DEF Close, Moves, SafeInv, TypeInv, CountsInv
<1> QED BY <1>2, <1>3, <1>4, SafeKept

-------------------------------------------------------------------------------
(* The steps while nothing overlaps.                                        *)

LEMMA SetupLoads ==
    ASSUME SafeInv, Setup({}), \A g \in Generations : timers[g] = {}
    PROVE  Loaded' /\ \A g \in Generations : timers'[g] # {} => g = current'
<1>1. {} \in SUBSET (1 .. setups)
  OBVIOUS
<1>2. /\ setups' \in Generations /\ current' = setups' /\ services' = setups'
      /\ listeners' = {} \cup {setups'} /\ timers'[setups'] = Inverters
      /\ \A g \in Generations : g # setups' => timers'[g] = timers[g]
  BY <1>1, SetupMakes DEF SafeInv
<1>3. setups' # None
  BY <1>2 DEF Generations, None
<1> QED BY <1>2, <1>3 DEF Loaded

LEMMA CalmUnchanged ==
    ASSUME CalmInv, UNCHANGED <<timers, current, listeners, services, platforms, tasks, calm>>
    PROVE  CalmInv'
BY DEF CalmInv, Loaded

LEMMA HomeAssistantCalm ==
    ASSUME SafeInv, CalmInv, SetupEntry \/ OptionsChanged \/ UnloadEntry
    PROVE  CalmInv'
<1> SUFFICES ASSUME calm' PROVE CalmInv'
  BY DEF CalmInv
<1>1. calm /\ tasks = <<>>
  BY DEF SetupEntry, OptionsChanged, UnloadEntry
<1>2. /\ \A g \in Generations : timers[g] # {} => g = current
      /\ listeners \subseteq {current} /\ platforms = current
      /\ current # None => Loaded
      /\ listeners \subseteq 1 .. setups
  BY <1>1 DEF CalmInv, SafeInv, TypeInv, CountsInv
<1>3. CASE SetupEntry
  <2>1. current = None /\ Setup(listeners) /\ platforms' = platforms
        /\ tasks' = <<Task("forwarding", "setup", setups')>>
    BY <1>3 DEF SetupEntry
  <2>2. listeners = {} /\ \A g \in Generations : timers[g] = {}
    BY <1>2, <2>1 DEF None, Generations
  <2>3. Loaded' /\ \A g \in Generations : timers'[g] # {} => g = current'
    BY <2>1, <2>2, SetupLoads
  <2>4. Len(tasks') = 1 /\ tasks' # <<>> /\ tasks'[1].pc = "forwarding"
    BY <2>1 DEF Task
  <2> QED BY <1>2, <2>1, <2>3, <2>4 DEF CalmInv, Loaded
<1>4. CASE OptionsChanged \/ UnloadEntry
  <2>1. UNCHANGED <<timers, listeners, current, services, platforms>>
    BY <1>4 DEF OptionsChanged, UnloadEntry, entry, polling
  <2>2. Loaded /\ Len(tasks') = 1 /\ tasks' # <<>> /\ tasks'[1].pc = "unloading"
    <3>1. CASE OptionsChanged
      <4> DEFINE one == Task("unloading", "reload", None)
                 n == Cardinality(listeners)
                 more == [l \in 1 .. n |-> one]
      <4>1. listeners # {} /\ tasks' = tasks \o more
        BY <3>1 DEF OptionsChanged
      <4>2. current # None /\ listeners = {current}
        <5>1. PICK l \in listeners : TRUE
          BY <4>1
        <5>2. l = current /\ l \in 1 .. setups
          BY <1>2
        <5>3. l # 0
          BY <5>2
        <5> QED BY <1>2, <5>1, <5>2, <5>3 DEF None
      <4>3. n = 1
        BY <4>2, FS_Singleton
      <4>4. one.pc = "unloading"
        BY DEF Task
      <4> HIDE DEF one, n
      <4>5. more \in Seq({one}) /\ Len(more) = 1 /\ more[1] = one
        BY <4>3
      <4> HIDE DEF more
      <4>6. tasks' = more
        BY <1>1, <4>1, <4>5, ConcatEmptySeq
      <4>7. tasks' # <<>>
        BY <4>5, <4>6
      <4> QED BY <1>2, <4>2, <4>4, <4>5, <4>6, <4>7
    <3>2. CASE UnloadEntry
      <4>1. current # None /\ tasks' = Append(tasks, Task("unloading", "unload", None))
        BY <3>2 DEF UnloadEntry
      <4> DEFINE one == Task("unloading", "unload", None)
      <4>2. one.pc = "unloading"
        BY DEF Task
      <4>3. tasks' = Append(<<>>, one)
        BY <1>1, <4>1
      <4> HIDE DEF one
      <4>4. tasks' = <<one>> /\ Len(tasks') = 1 /\ tasks' # <<>> /\ tasks'[1] = one
        BY <4>3
      <4> QED BY <1>2, <4>1, <4>2, <4>4
    <3> QED BY <1>4, <3>1, <3>2
  <2> QED BY <1>2, <2>1, <2>2 DEF CalmInv, Loaded
<1> QED BY <1>3, <1>4

(* The only task is where the entry says it is.                             *)
LEMMA OnlyTask ==
    ASSUME SafeInv, CalmInv, calm, NEW t \in DOMAIN tasks
    PROVE  /\ t = 1 /\ tasks # <<>> /\ Len(tasks) = 1 /\ RemoveAt(tasks, t) = <<>>
           /\ tasks[t].pc = "forwarding" => Loaded /\ platforms = None
           /\ tasks[t].pc = "unloading" => Loaded /\ platforms = current
           /\ tasks[t].pc = "closing" =>
                /\ current # None /\ platforms = None /\ timers[current] = {}
<1>1. /\ tasks \in Seq(TaskRecords) /\ TasksOK(tasks, setups) /\ Len(tasks) <= 1
  BY DEF SafeInv, TypeInv, TasksOK, CalmInv
<1>2. t = 1 /\ tasks # <<>> /\ Len(tasks) = 1
  <2>1. /\ Len(tasks) \in Nat /\ DOMAIN tasks = 1 .. Len(tasks)
        /\ (tasks = <<>> => Len(tasks) = 0)
    BY <1>1
  <2>2. t \in 1 .. Len(tasks) /\ Len(tasks) <= 1
    BY <1>1, <2>1
  <2> QED BY <2>1, <2>2
<1>3. RemoveAt(tasks, t) = <<>>
  BY <1>1, TasksRemoved
<1> QED BY <1>2, <1>3 DEF CalmInv

LEMMA AdvanceCalm ==
    ASSUME SafeInv, CalmInv, NEW t \in DOMAIN tasks, Advance(t)
    PROVE  CalmInv'
<1> SUFFICES ASSUME calm' PROVE CalmInv'
  BY DEF CalmInv
<1>1. calm /\ ~PlatformsRefuse(t)
  BY DEF Advance, ForwardReturns, PlatformsUnloaded, PlatformsRefuse
<1>2. /\ \A g \in Generations : timers[g] # {} => g = current
      /\ listeners \subseteq {current}
  BY <1>1 DEF CalmInv
<1>3. CASE ForwardReturns(t)
  <2>1. /\ UNCHANGED <<timers, current, listeners, services>> /\ tasks' = <<>>
        /\ Loaded /\ platforms' = current
    BY <1>1, <1>3, OnlyTask DEF ForwardReturns, polling
  <2> QED BY <1>2, <2>1 DEF CalmInv, Loaded
<1>4. CASE PlatformsUnloaded(t)
  <2>1. /\ current # None /\ t = 1 /\ Len(tasks) = 1
    BY <1>1, <1>4, OnlyTask DEF PlatformsUnloaded, Loaded
  <2>2. /\ Unload(t) /\ UNCHANGED <<setups, services, current, listeners>>
        /\ platforms' = None
    BY <1>4, <2>1 DEF PlatformsUnloaded
  <2>3. /\ timers'[current] = {} /\ Len(tasks') = Len(tasks)
        /\ \A g \in Generations : g # current => timers'[g] = timers[g]
        /\ tasks'[t].pc = "closing" /\ tasks'[t].gen = current
    BY <2>1, <2>2, UnloadMoves DEF SafeInv
  <2>4. tasks' # <<>>
    BY <2>1, <2>3
  <2> QED BY <1>2, <2>1, <2>2, <2>3, <2>4 DEF CalmInv
<1> QED BY <1>1, <1>3, <1>4 DEF Advance

LEMMA CloseCalm ==
    ASSUME SafeInv, CalmInv, NEW g \in Generations, Close(g)
    PROVE  CalmInv'
<1> SUFFICES ASSUME calm' PROVE CalmInv'
  BY DEF CalmInv
<1>1. calm /\ UNCHANGED platforms
  BY DEF Close, bounds
<1>2. PICK t \in DOMAIN tasks : tasks[t].pc = "closing" /\ ClosedReturns(t)
  BY DEF Close
<1>3. /\ t = 1 /\ Len(tasks) = 1 /\ RemoveAt(tasks, t) = <<>>
      /\ current # None /\ platforms = None /\ timers[current] = {}
  BY <1>1, <1>2, OnlyTask
<1>4. /\ \A h \in Generations : timers[h] = {}
      /\ listeners \ {current} = {}
  BY <1>1, <1>3 DEF CalmInv
<1>5. Proceeds(t, {}, None)
  BY <1>2, <1>3, <1>4 DEF ClosedReturns
<1>6. CASE /\ Setup({})
           /\ tasks' = [tasks EXCEPT ![t] = Task("forwarding", "reload", setups')]
  <2>1. Loaded' /\ \A h \in Generations : timers'[h] # {} => h = current'
    BY <1>4, <1>6, SetupLoads
  <2>2. tasks \in Seq(TaskRecords) /\ t \in DOMAIN tasks
    BY DEF SafeInv, TypeInv, TasksOK
  <2> DEFINE e == Task("forwarding", "reload", setups')
  <2>3. e.pc = "forwarding" /\ tasks' = [tasks EXCEPT ![t] = e]
    BY <1>6 DEF Task
  <2> HIDE DEF e
  <2>4. Len(tasks') = 1 /\ tasks'[1] = e
    BY <1>3, <2>2, <2>3
  <2>5. tasks' # <<>>
    BY <2>4
  <2> QED BY <1>1, <1>3, <2>1, <2>3, <2>4, <2>5 DEF CalmInv, Loaded
<1>7. CASE /\ tasks' = RemoveAt(tasks, t) /\ current' = None /\ listeners' = {}
           /\ UNCHANGED <<setups, timers, services>>
  BY <1>1, <1>3, <1>4, <1>7 DEF CalmInv
<1> QED BY <1>5, <1>6, <1>7 DEF Proceeds

-------------------------------------------------------------------------------
(* The invariant.                                                           *)

LEMMA InitInv == Init => IInv
<1> SUFFICES ASSUME Init PROVE IInv
  OBVIOUS
<1>1. setups = 0 /\ 0 \in 0 .. MaxSetups /\ 0 \in 0 .. Requests
  BY BoundsAssumption DEF Init
<1>2. CountsInv /\ TimersInv /\ WaitingInv /\ TasksOK(tasks, setups)
  BY <1>1 DEF Init, CountsInv, TimersInv, WaitingInv, TasksOK, None
<1>3. FutureInv
  BY DEF Init, FutureInv
<1>4. \A g \in Generations : DOMAIN queue[g] = {}
  BY DEF Init
<1>5. QueueInv
  BY <1>4 DEF QueueInv, QueueOK
<1>6. ClosedInv
  BY <1>4 DEF Init, ClosedInv, ClosedOK, ToClose, ClosedStaysClosed
<1>7. CalmInv
  BY DEF Init, CalmInv
<1> QED BY <1>2, <1>3, <1>5, <1>6, <1>7 DEF IInv, SafeInv, TypeInv

LEMMA NextInv == IInv /\ [Next]_vars => IInv'
<1> SUFFICES ASSUME IInv, [Next]_vars PROVE IInv'
  OBVIOUS
<1>1. CASE SetupEntry \/ OptionsChanged \/ UnloadEntry
  BY <1>1, HomeAssistantSafe, HomeAssistantCalm DEF IInv
<1>2. CASE \E t \in DOMAIN tasks : Advance(t)
  BY <1>2, AdvanceSafe, AdvanceCalm DEF IInv
<1>3. CASE \/ \E g \in Generations, i \in Inverters : Refresh(g, i)
           \/ CallService
           \/ \E g \in Generations : RequestSucceeds(g) \/ RequestFails(g)
  <2>1. UNCHANGED <<timers, current, listeners, services, platforms, tasks, calm>>
    BY <1>3 DEF Refresh, CallService, RequestSucceeds, RequestFails, entry, polling
  <2> QED BY <1>3, <2>1, ClientSafe, CalmUnchanged DEF IInv
<1>4. CASE \E g \in Generations : Close(g)
  BY <1>4, CloseSafe, CloseCalm DEF IInv
<1>5. CASE UNCHANGED vars
  <2>1. UNCHANGED <<setups, timers, refreshes, queue, connected, current, listeners,
                    services, platforms, tasks, calm, closed, caught>>
    BY <1>5 DEF vars, polling, client, entry
  <2>2. Moves
    BY <2>1, StaysPut DEF IInv, SafeInv, TypeInv, CountsInv
  <2>3. SafeInv'
    BY <2>1, <2>2, QuietKeeps DEF IInv, client, SafeInv, TypeInv, CountsInv
  <2> QED BY <2>1, <2>3, CalmUnchanged DEF IInv
<1> QED BY <1>1, <1>2, <1>3, <1>4, <1>5 DEF Next, Answer

(* The inductive invariant holds, whatever overlaps.                        *)
THEOREM Invariant == Spec => []IInv
<1> QED BY InitInv, NextInv, PTL DEF Spec

(* Generations, timers, queues and tasks of an entry stay in range, and the *)
(* generations that poll or listen are ones that were set up                *)
(* (async_setup_entry, async_unload_entry).                                 *)
THEOREM TypeCorrect == Spec => []TypeOK
<1>1. IInv => TypeOK
  <2> SUFFICES ASSUME IInv PROVE TypeOK
    OBVIOUS
  <2>1. TypeInv
    BY DEF IInv, SafeInv
  <2>2. \A g \in Generations : Range(queue[g]) \subseteq Waiters
    BY <2>1 DEF TypeInv, WaitingInv, Range
  <2>3. ASSUME NEW t \in DOMAIN tasks
        PROVE  /\ tasks[t].pc \in {"forwarding", "unloading", "closing"}
               /\ tasks[t].kind \in {"setup", "reload", "unload"}
               /\ tasks[t].gen \in 0 .. setups
    <3>1. /\ tasks[t] \in TaskRecords /\ tasks[t].gen <= setups
          /\ setups \in 0 .. MaxSetups /\ MaxSetups \in Nat
      BY <2>1, BoundsAssumption DEF TypeInv, TasksOK, CountsInv
    <3> QED BY <3>1 DEF TaskRecords
  <2> QED BY <2>1, <2>2, <2>3 DEF TypeInv, CountsInv, TimersInv, WaitingInv, Waiters, TypeOK
<1> QED BY <1>1, Invariant, PTL

(* As long as platforms unload and reloads do not overlap, only the         *)
(* generation that hass.data holds polls and listens for changed options,   *)
(* and entities and services are its own, whatever requests and services    *)
(* are under way (async_setup_entry, async_unload_entry).                   *)
THEOREM OnlyOneGeneration == Spec => []OneGeneration
<1>1. IInv => OneGeneration
  BY DEF IInv, CalmInv, Loaded, OneGeneration
<1> QED BY <1>1, Invariant, PTL

(* No timer that outlives its client connects it again: a closed client     *)
(* that is connected was being used when its generation was unloaded, or a  *)
(* service called it later (async_unload_entry, _async_pymodbus_call).      *)
THEOREM ClosedForGood == Spec => []ClosedStaysClosed
<1>1. IInv => ClosedStaysClosed
  BY DEF IInv, SafeInv, ClosedInv
<1> QED BY <1>1, Invariant, PTL

===============================================================================
