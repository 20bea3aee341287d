-------------------------- MODULE RemoteControlProofs --------------------------
(***************************************************************************)
(* The safety of the remote control manager, for any number of users whose *)
(* calls of set_mode overlap, any readings and any bounds.                 *)
(*                                                                         *)
(* Whatever an update does between two awaits comes down to Advances: the  *)
(* task queues for one more write or ends, raises the flag only on the way *)
(* to enable remote control, and lowers it when it disables it.  What      *)
(* EnabledMeansOn needs beyond itself is EnabledInv: while the flag is up, *)
(* remote control is on with no disabling queued, or its enabling is       *)
(* queued behind every disabling.                                          *)
(***************************************************************************)
EXTENDS RemoteControl, TLAPS

Managers == [prev : Modes, on : BOOLEAN, import : {"zero", "tuned"}, queue : Seq(Tasks)]

WorkModeNamed ==
    \A t \in Tasks : pc[t] \in {"work_mode", "work_mode_off"} => goal[t].fallback \in WorkModes

Enabling  == {"timeout_set", "remote_enable"}
NoDisable == \A j \in DOMAIN queue : pc[queue[j]] # "remote_disable"
EnablesAt(k) ==
    /\ pc[queue[k]] \in Enabling
    /\ \A j \in DOMAIN queue : pc[queue[j]] = "remote_disable" => j < k

EnabledInv ==
    enabled /\ ~disturbed =>
      (remote = "ours" /\ NoDisable) \/ \E k \in DOMAIN queue : EnablesAt(k)

IInv == TypeOK /\ WorkModeNamed /\ EveryUpdateWaits /\ EnabledInv

(* before is the flag as the step found it, q the queue without t.          *)
AdvancesTo(t, before, q, step) ==
    /\ pc' = [pc EXCEPT ![t] = step]
    /\ goal' \in [Tasks -> Goal] /\ \A u \in Tasks \ {t} : goal'[u] = goal[u]
    /\ step \in {"work_mode", "work_mode_off"} => goal'[t].fallback \in WorkModes
    /\ queue' = IF step = "idle" THEN q ELSE Append(q, t)
    /\ prevMode' \in Modes /\ importPower' \in {"zero", "tuned"} /\ enabled' \in BOOLEAN
    /\ enabled' /\ ~before => step = "timeout_set"
    /\ step = "remote_disable" => ~enabled'

Advances(t, before, q) == \E step \in Steps : AdvancesTo(t, before, q, step)

-------------------------------------------------------------------------------
(* Sequences.                                                               *)

LEMMA Appended ==
    ASSUME NEW S, NEW q \in Seq(S), NEW x \in S
    PROVE  /\ Append(q, x) \in Seq(S) /\ DOMAIN q = 1 .. Len(q) /\ Len(q) \in Nat
           /\ DOMAIN Append(q, x) = 1 .. Len(q) + 1
           /\ \A i \in 1 .. Len(q) : Append(q, x)[i] = q[i]
           /\ Append(q, x)[Len(q) + 1] = x
OBVIOUS

LEMMA Tailed ==
    ASSUME NEW S, NEW q \in Seq(S), q # <<>>
    PROVE  /\ Tail(q) \in Seq(S) /\ Len(q) \in Nat \ {0} /\ DOMAIN q = 1 .. Len(q)
           /\ DOMAIN Tail(q) = 1 .. Len(q) - 1
           /\ \A i \in 1 .. Len(q) - 1 : Tail(q)[i] = q[i + 1]
           /\ Head(q) = q[1] /\ 1 \in DOMAIN q
OBVIOUS

(* The members of a queue without repetitions, and what becomes of them.    *)
Members(q)  == {q[i] : i \in DOMAIN q}
Distinct(q) == \A i, j \in DOMAIN q : q[i] = q[j] => i = j

LEMMA AppendDistinct ==
    ASSUME NEW S, NEW q \in Seq(S), NEW x \in S, Distinct(q), x \notin Members(q)
    PROVE  Distinct(Append(q, x)) /\ Members(Append(q, x)) = Members(q) \cup {x}
<1>1. Distinct(Append(q, x))
  BY Appended DEF Distinct, Members
<1>2. Members(Append(q, x)) \subseteq Members(q) \cup {x}
  BY Appended DEF Members
<1>3. \A i \in DOMAIN q : i \in DOMAIN Append(q, x) /\ Append(q, x)[i] = q[i]
  BY Appended
<1>4. Members(q) \subseteq Members(Append(q, x))
  BY <1>3 DEF Members
<1>5. Len(q) + 1 \in DOMAIN Append(q, x) /\ Append(q, x)[Len(q) + 1] = x
  BY Appended
<1>6. x \in Members(Append(q, x))
  BY <1>5 DEF Members
<1> QED BY <1>1, <1>2, <1>4, <1>6

LEMMA TailDistinct ==
    ASSUME NEW S, NEW q \in Seq(S), q # <<>>, Distinct(q)
    PROVE  Distinct(Tail(q)) /\ Members(Tail(q)) = Members(q) \ {Head(q)}
<1>1. Distinct(Tail(q))
  BY Tailed DEF Distinct
<1>2. \A i \in DOMAIN Tail(q) :
        /\ i \in 1 .. Len(q) - 1 /\ i + 1 \in DOMAIN q /\ i + 1 # 1 /\ Tail(q)[i] = q[i + 1]
  BY Tailed
<1>3. Members(Tail(q)) \subseteq Members(q) \ {Head(q)}
  BY <1>2, Tailed DEF Members, Distinct
<1>4. ASSUME NEW i \in DOMAIN q, q[i] # Head(q)
      PROVE  q[i] \in Members(Tail(q))
  <2>1. i - 1 \in DOMAIN Tail(q) /\ Tail(q)[i - 1] = q[i]
    BY <1>4, Tailed
  <2> QED BY <2>1 DEF Members
<1>5. Members(q) \ {Head(q)} \subseteq Members(Tail(q))
  BY <1>4 DEF Members
<1> QED BY <1>1, <1>3, <1>5

-------------------------------------------------------------------------------
(* What an update does advances its task.                                   *)

LEMMA AwaitsAdvances ==
    ASSUME TypeOK, NEW t \in Tasks, NEW step \in Steps, NEW g \in Goal, NEW m \in Managers,
           NEW before, Awaits(t, step, g, m),
           step \in {"work_mode", "work_mode_off"} => g.fallback \in WorkModes,
           m.on /\ ~before => step = "timeout_set",
           step = "remote_disable" => ~m.on
    PROVE  Advances(t, before, m.queue)
<1>1. [fallback |-> "none", power |-> "none"] \in Goal
  BY DEF Goal
<1>2. goal' \in [Tasks -> Goal] /\ \A u \in Tasks \ {t} : goal'[u] = goal[u]
  BY <1>1 DEF Awaits, TypeOK
<1>3. step \in {"work_mode", "work_mode_off"} => goal'[t].fallback \in WorkModes
  BY DEF Awaits, TypeOK
<1>4. pc' = [pc EXCEPT ![t] = step]
  BY DEF Awaits
<1>5. queue' = IF step = "idle" THEN m.queue ELSE Append(m.queue, t)
  BY DEF Awaits
<1>6. /\ prevMode' \in Modes /\ importPower' \in {"zero", "tuned"} /\ enabled' \in BOOLEAN
      /\ enabled' = m.on
  BY DEF Awaits, Managers
<1>7. AdvancesTo(t, before, m.queue, step)
  BY <1>2, <1>3, <1>4, <1>5, <1>6 DEF AdvancesTo
<1> QED BY <1>7 DEF Advances

LEMMA SwitchOnAdvances ==
    ASSUME TypeOK, NEW t \in Tasks, NEW g \in Goal, NEW m \in Managers, SwitchOn(t, g, m)
    PROVE  Advances(t, m.on, m.queue)
<1> DEFINE n == [m EXCEPT !.on = TRUE]
           step == IF m.on THEN "active_power" ELSE "timeout_set"
<1>1. n \in Managers /\ n.queue = m.queue /\ n.on = TRUE
  BY DEF Managers
<1>2. step \in Steps /\ step \notin {"work_mode", "work_mode_off", "remote_disable"}
  BY DEF Steps
<1>3. Awaits(t, step, g, n)
  BY DEF SwitchOn
<1>4. n.on /\ ~m.on => step = "timeout_set"
  OBVIOUS
<1> HIDE DEF n, step
<1>5. Advances(t, m.on, n.queue)
  BY <1>1, <1>2, <1>3, <1>4, AwaitsAdvances
<1> QED BY <1>1, <1>5

(* Steps that leave the flag as it was.                                     *)
LEMMA WritesAdvance ==
    ASSUME TypeOK, NEW t \in Tasks, NEW g \in Goal, NEW m \in Managers,
           NEW step \in Steps \ {"remote_disable"}, Awaits(t, step, g, m),
           step \in {"work_mode", "work_mode_off"} => g.fallback \in WorkModes
    PROVE  Advances(t, m.on, m.queue)
BY AwaitsAdvances

LEMMA EnableAdvances ==
    ASSUME TypeOK, NEW t \in Tasks, NEW g \in Goal, NEW m \in Managers,
           g.fallback \in WorkModes, EnableRemoteControl(t, g, m)
    PROVE  Advances(t, m.on, m.queue)
<1>1. CASE Awaits(t, "work_mode", g, m)
  BY <1>1, WritesAdvance DEF Steps
<1>2. CASE SwitchOn(t, g, m)
  BY <1>2, SwitchOnAdvances
<1> QED BY <1>1, <1>2 DEF EnableRemoteControl

LEMMA FinishAdvances ==
    ASSUME TypeOK, NEW t \in Tasks, NEW m \in Managers, mode' \in Modes, Finish(t, m)
    PROVE  Advances(t, m.on, m.queue)
<1> DEFINE n == [m EXCEPT !.prev = mode']
<1>1. n \in Managers /\ n.queue = m.queue /\ n.on = m.on
  BY DEF Managers
<1>2. Awaits(t, "idle", goal[t], n) /\ goal[t] \in Goal
  BY DEF Finish, TypeOK
<1>3. "idle" \in Steps \ {"remote_disable"}
  BY DEF Steps
<1> HIDE DEF n
<1>4. Advances(t, n.on, n.queue)
  BY <1>1, <1>2, <1>3, WritesAdvance
<1> QED BY <1>1, <1>4

LEMMA SetFallbackAdvances ==
    ASSUME TypeOK, NEW t \in Tasks, NEW g \in Goal, NEW m \in Managers, mode' \in Modes,
           SetFallback(t, g, m)
    PROVE  Advances(t, m.on, m.queue)
<1>1. CASE g.fallback # "none" /\ Awaits(t, "work_mode_off", g, m)
  <2>1. g.fallback \in WorkModes
    BY <1>1 DEF Goal
  <2> QED BY <1>1, <2>1, WritesAdvance DEF Steps
<1>2. CASE Finish(t, m)
  BY <1>2, FinishAdvances
<1> QED BY <1>1, <1>2 DEF SetFallback

LEMMA DisableAdvances ==
    ASSUME TypeOK, NEW t \in Tasks, NEW g \in Goal, NEW m \in Managers, mode' \in Modes,
           DisableRemoteControl(t, g, m)
    PROVE  Advances(t, m.on, m.queue)
<1> DEFINE n == [m EXCEPT !.on = FALSE]
<1>1. n \in Managers /\ n.queue = m.queue /\ n.on = FALSE
  BY DEF Managers
<1>2. CASE Awaits(t, "remote_disable", g, n)
  <2>1. "remote_disable" \in Steps
    BY DEF Steps
  <2> HIDE DEF n
  <2>2. Advances(t, m.on, n.queue)
    BY <1>1, <1>2, <2>1, AwaitsAdvances
  <2> QED BY <1>1, <2>2
<1>3. CASE SetFallback(t, g, m)
  BY <1>3, SetFallbackAdvances
<1> QED BY <1>2, <1>3 DEF DisableRemoteControl

LEMMA ChargeAdvances ==
    ASSUME TypeOK, NEW t \in Tasks, NEW m \in Managers, mode' \in Modes, Charge(t, m)
    PROVE  Advances(t, m.on, m.queue)
<1> DEFINE G(p) == [fallback |-> "BACK_UP", power |-> p]
           N(p) == [m EXCEPT !.import = p]
<1>1. \A p \in {"none", "max", "zero", "tuned"} : G(p) \in Goal /\ G(p).fallback \in WorkModes
  BY DEF Goal, WorkModes
<1>2. \A p \in {"zero", "tuned"} :
        N(p) \in Managers /\ N(p).queue = m.queue /\ N(p).on = m.on
  BY DEF Managers
<1>3. \/ DisableRemoteControl(t, G("none"), m)
      \/ EnableRemoteControl(t, G("max"), m)
      \/ \E p \in {"zero", "tuned"} : EnableRemoteControl(t, G(p), N(p))
  BY DEF Charge
<1> HIDE DEF G, N
<1>4. CASE DisableRemoteControl(t, G("none"), m)
  BY <1>1, <1>4, DisableAdvances
<1>5. CASE EnableRemoteControl(t, G("max"), m)
  BY <1>1, <1>5, EnableAdvances
<1>6. ASSUME NEW p \in {"zero", "tuned"}, EnableRemoteControl(t, G(p), N(p))
      PROVE  Advances(t, m.on, m.queue)
  <2>1. Advances(t, N(p).on, N(p).queue)
    BY <1>1, <1>2, <1>6, EnableAdvances
  <2> QED BY <1>2, <2>1
<1> QED BY <1>3, <1>4, <1>5, <1>6

LEMMA UpdateAdvances ==
    ASSUME TypeOK, NEW t \in Tasks, NEW m \in Managers, mode' \in Modes, Update(t, m)
    PROVE  Advances(t, m.on, m.queue)
<1>1. CASE Awaits(t, "idle", goal[t], [m EXCEPT !.prev = "DISABLE"])
  <2> DEFINE n == [m EXCEPT !.prev = "DISABLE"]
  <2>1. n \in Managers /\ n.queue = m.queue /\ n.on = m.on
    BY DEF Managers, Modes
  <2>2. goal[t] \in Goal /\ "idle" \in Steps \ {"remote_disable"}
    BY DEF TypeOK, Steps
  <2>3. Awaits(t, "idle", goal[t], n)
    BY <1>1
  <2> HIDE DEF n
  <2>4. Advances(t, n.on, n.queue)
    BY <2>1, <2>2, <2>3, WritesAdvance
  <2> QED BY <2>1, <2>4
<1>2. CASE DisableRemoteControl(t, [fallback |-> "none", power |-> "none"], m)
  BY <1>2, DisableAdvances DEF Goal
<1>3. CASE Charge(t, m)
  BY <1>3, ChargeAdvances
<1>4. CASE EnableRemoteControl(t, [fallback |-> "FEED_IN_FIRST", power |-> "export"], m)
  <2>1. /\ [fallback |-> "FEED_IN_FIRST", power |-> "export"] \in Goal
        /\ "FEED_IN_FIRST" \in WorkModes
    BY DEF Goal, WorkModes
  <2> QED BY <1>4, <2>1, EnableAdvances
<1> QED BY <1>1, <1>2, <1>3, <1>4 DEF Update

-------------------------------------------------------------------------------
(* What advancing a task does to the invariant.                             *)

UpdateTyped ==
    /\ prevMode \in Modes /\ enabled \in BOOLEAN /\ importPower \in {"zero", "tuned"}
    /\ pc \in [Tasks -> Steps] /\ goal \in [Tasks -> Goal] /\ queue \in Seq(Tasks)

Waiting == {u \in Tasks : pc[u] # "idle"}

LEMMA WaitsIsDistinct == EveryUpdateWaits <=> Distinct(queue) /\ Members(queue) = Waiting
BY DEF EveryUpdateWaits, Distinct, Members, Waiting

LEMMA AdvancesWaits ==
    ASSUME TypeOK, WorkModeNamed, NEW t \in Tasks, NEW before, NEW q \in Seq(Tasks),
           Distinct(q), Members(q) = Waiting \ {t}, Advances(t, before, q)
    PROVE  UpdateTyped' /\ WorkModeNamed' /\ EveryUpdateWaits'
<1>1. PICK step \in Steps : AdvancesTo(t, before, q, step)
  BY DEF Advances
<1>2. pc \in [Tasks -> Steps] /\ pc' = [pc EXCEPT ![t] = step]
  BY <1>1 DEF AdvancesTo, TypeOK
<1>3. queue' \in Seq(Tasks)
  BY <1>1, Appended DEF AdvancesTo
<1>4. UpdateTyped'
  BY <1>1, <1>2, <1>3 DEF AdvancesTo, UpdateTyped
<1>5. WorkModeNamed'
  BY <1>1, <1>2 DEF AdvancesTo, WorkModeNamed
<1>6. CASE step = "idle"
  <2>1. Waiting' = Waiting \ {t}
    BY <1>2, <1>6 DEF Waiting
  <2>2. queue' = q
    BY <1>1, <1>6 DEF AdvancesTo
  <2>3. Distinct(queue') /\ Members(queue') = Waiting'
    BY <2>1, <2>2
  <2>4. EveryUpdateWaits'
    BY <2>3 DEF EveryUpdateWaits, Distinct, Members, Waiting
  <2> QED BY <1>4, <1>5, <2>4
<1>7. CASE step # "idle"
  <2>1. Waiting' = (Waiting \ {t}) \cup {t}
    BY <1>2, <1>7 DEF Waiting
  <2>2. queue' = Append(q, t)
    BY <1>1, <1>7 DEF AdvancesTo
  <2>3. Distinct(Append(q, t)) /\ Members(Append(q, t)) = Members(q) \cup {t}
    BY AppendDistinct
  <2>4. Distinct(queue') /\ Members(queue') = Waiting'
    BY <2>1, <2>2, <2>3
  <2>5. EveryUpdateWaits'
    BY <2>4 DEF EveryUpdateWaits, Distinct, Members, Waiting
  <2> QED BY <1>4, <1>5, <2>5
<1> QED BY <1>6, <1>7

(* The task of a fresh update is not queued yet.                            *)
LEMMA FreshQueue ==
    ASSUME TypeOK, EveryUpdateWaits, NEW t \in Tasks, pc[t] = "idle"
    PROVE  /\ queue \in Seq(Tasks) /\ Distinct(queue) /\ Members(queue) = Waiting \ {t}
           /\ t \notin Members(queue)
BY WaitsIsDistinct DEF TypeOK, Waiting

LEMMA HeadQueue ==
    ASSUME TypeOK, EveryUpdateWaits, queue # <<>>, NEW t \in Tasks, t = Head(queue)
    PROVE  /\ Tail(queue) \in Seq(Tasks) /\ Distinct(Tail(queue))
           /\ Members(Tail(queue)) = Waiting \ {t} /\ pc[t] # "idle"
<1>1. queue \in Seq(Tasks) /\ Distinct(queue) /\ Members(queue) = Waiting
  BY WaitsIsDistinct DEF TypeOK
<1>2. Tail(queue) \in Seq(Tasks) /\ t = queue[1] /\ 1 \in DOMAIN queue
  BY <1>1, Tailed
<1>3. Distinct(Tail(queue)) /\ Members(Tail(queue)) = Members(queue) \ {t}
  BY <1>1, TailDistinct
<1>4. t \in Waiting
  BY <1>1, <1>2 DEF Members
<1> QED BY <1>1, <1>2, <1>3, <1>4 DEF Waiting

LEMMA FreshEnabled ==
    ASSUME IInv, NEW t \in Tasks, pc[t] = "idle", NEW before, before => enabled,
           Advances(t, before, queue), remote' = remote, disturbed => disturbed',
           disturbed' \in BOOLEAN
    PROVE  EnabledInv'
<1> SUFFICES ASSUME enabled', ~disturbed'
             PROVE  (remote' = "ours" /\ NoDisable') \/ \E k \in DOMAIN queue' : EnablesAt(k)'
  BY DEF EnabledInv
<1>1. PICK step \in Steps : AdvancesTo(t, before, queue, step)
  BY DEF Advances
<1>2. pc \in [Tasks -> Steps] /\ pc' = [pc EXCEPT ![t] = step] /\ step # "remote_disable"
  BY <1>1 DEF AdvancesTo, IInv, TypeOK
<1>3. queue \in Seq(Tasks) /\ \A i \in DOMAIN queue : queue[i] \in Tasks /\ queue[i] # t
  BY FreshQueue DEF IInv, TypeOK, Members
<1>4. queue' = IF step = "idle" THEN queue ELSE Append(queue, t)
  BY <1>1 DEF AdvancesTo
<1>5. /\ DOMAIN queue \subseteq DOMAIN queue'
      /\ \A i \in DOMAIN queue : queue'[i] = queue[i] /\ pc'[queue'[i]] = pc[queue[i]]
      /\ \A i \in DOMAIN queue' \ DOMAIN queue : queue'[i] = t /\ pc'[queue'[i]] = step
  <2>1. CASE step = "idle"
    BY <2>1, <1>2, <1>3, <1>4
  <2>2. CASE step # "idle"
    <3>1. /\ DOMAIN queue = 1 .. Len(queue) /\ DOMAIN queue' = 1 .. Len(queue) + 1
          /\ Len(queue) \in Nat
          /\ \A i \in 1 .. Len(queue) : queue'[i] = queue[i]
          /\ queue'[Len(queue) + 1] = t
      BY <2>2, <1>3, <1>4, Appended
    <3> QED BY <3>1, <1>2, <1>3
  <2> QED BY <2>1, <2>2
<1>6. CASE before
  <2>1. CASE remote = "ours" /\ NoDisable
    <3>1. NoDisable'
      BY <2>1, <1>2, <1>5 DEF NoDisable
    <3> QED BY <2>1, <3>1
  <2>2. ASSUME NEW k \in DOMAIN queue, EnablesAt(k)
        PROVE  EnablesAt(k)' /\ k \in DOMAIN queue'
    BY <2>2, <1>2, <1>5 DEF EnablesAt
  <2> QED BY <1>6, <2>1, <2>2 DEF IInv, EnabledInv
<1>7. CASE ~before
  <2>1. step = "timeout_set"
    BY <1>1, <1>7 DEF AdvancesTo
  <2>2. /\ DOMAIN queue = 1 .. Len(queue) /\ DOMAIN queue' = 1 .. Len(queue) + 1
        /\ Len(queue) \in Nat /\ queue'[Len(queue) + 1] = t
    BY <2>1, <1>3, <1>4, Appended
  <2>3. pc'[t] = "timeout_set"
    BY <2>1, <1>2
  <2> DEFINE last == Len(queue) + 1
  <2>4. \A j \in DOMAIN queue' : pc'[queue'[j]] = "remote_disable" => j < last
    BY <2>2, <2>3
  <2>5. last \in DOMAIN queue' /\ pc'[queue'[last]] \in Enabling
    BY <2>2, <2>3 DEF Enabling
  <2> HIDE DEF last
  <2>6. \E k \in DOMAIN queue' : EnablesAt(k)'
    BY <2>4, <2>5 DEF EnablesAt
  <2> QED BY <2>6
<1> QED BY <1>6, <1>7

(* The write of t is done, and t goes on with step.                         *)
LEMMA HeadEnabled ==
    ASSUME IInv, NEW t \in Tasks, queue # <<>>, t = Head(queue),
           NEW step \in Steps, AdvancesTo(t, enabled, Tail(queue), step),
           pc[t] = "timeout_set" => step = "remote_enable",
           pc[t] = "remote_enable" => remote' = "ours",
           pc[t] \notin {"remote_enable", "remote_disable"} => remote' = remote,
           disturbed' = disturbed
    PROVE  EnabledInv'
<1> SUFFICES ASSUME enabled', ~disturbed'
             PROVE  (remote' = "ours" /\ NoDisable') \/ \E k \in DOMAIN queue' : EnablesAt(k)'
  BY DEF EnabledInv
<1> DEFINE n == Len(queue) - 1
           last == n + 1
<1>1. pc \in [Tasks -> Steps] /\ pc' = [pc EXCEPT ![t] = step] /\ step # "remote_disable"
  BY DEF AdvancesTo, IInv, TypeOK
<1>2. /\ queue \in Seq(Tasks) /\ n \in Nat /\ DOMAIN queue = 1 .. last
      /\ Tail(queue) \in Seq(Tasks) /\ DOMAIN Tail(queue) = 1 .. n /\ Len(Tail(queue)) = n
      /\ \A i \in 1 .. n : Tail(queue)[i] = queue[i + 1]
      /\ queue[1] = t
  BY Tailed DEF IInv, TypeOK
<1>3. \A i \in 1 .. n : queue[i + 1] \in Tasks /\ queue[i + 1] # t
  <2>1. \A i \in 1 .. n : i + 1 \in DOMAIN queue /\ i + 1 # 1 /\ 1 \in DOMAIN queue
    BY <1>2
  <2>2. \A i, j \in DOMAIN queue : queue[i] = queue[j] => i = j
    BY DEF IInv, EveryUpdateWaits
  <2> QED BY <1>2, <2>1, <2>2
<1>4. queue' = IF step = "idle" THEN Tail(queue) ELSE Append(Tail(queue), t)
  BY DEF AdvancesTo
<1>5. DOMAIN queue' = IF step = "idle" THEN 1 .. n ELSE 1 .. last
  BY <1>2, <1>4, Appended
<1>6. /\ \A i \in 1 .. n : queue'[i] = queue[i + 1] /\ pc'[queue'[i]] = pc[queue[i + 1]]
      /\ step # "idle" => queue'[last] = t /\ pc'[queue'[last]] = step
  <2>1. \A i \in 1 .. n : queue'[i] = Tail(queue)[i]
    BY <1>2, <1>4, Appended
  <2>2. step # "idle" => queue'[last] = t
    BY <1>2, <1>4, Appended
  <2> QED BY <1>1, <1>2, <1>3, <2>1, <2>2
<1>7. (\A i \in 1 .. n : pc[queue[i + 1]] # "remote_disable") => NoDisable'
  BY <1>1, <1>2, <1>5, <1>6 DEF NoDisable
<1>8. step \in Enabling => \E k \in DOMAIN queue' : EnablesAt(k)'
  <2> SUFFICES ASSUME step \in Enabling PROVE \E k \in DOMAIN queue' : EnablesAt(k)'
    OBVIOUS
  <2>1. step # "idle" /\ DOMAIN queue' = 1 .. last /\ last \in DOMAIN queue'
    BY <1>2, <1>5 DEF Enabling
  <2>2. pc'[queue'[last]] = step
    BY <1>6, <2>1
  <2>3. \A j \in DOMAIN queue' : pc'[queue'[j]] = "remote_disable" => j < last
    BY <1>1, <1>2, <2>1, <2>2
  <2> HIDE DEF last
  <2> QED BY <2>1, <2>2, <2>3 DEF EnablesAt
<1>9. CASE ~enabled
  <2>1. step \in Enabling
    BY <1>9 DEF AdvancesTo, Enabling
  <2> QED BY <1>8, <2>1
<1>10. CASE enabled /\ remote = "ours" /\ NoDisable
  <2>1. pc[t] # "remote_disable" /\ \A i \in 1 .. n : pc[queue[i + 1]] # "remote_disable"
    BY <1>2, <1>10 DEF NoDisable
  <2> QED BY <1>7, <1>10, <2>1
<1>11. ASSUME NEW k \in DOMAIN queue, EnablesAt(k)
       PROVE  (remote' = "ours" /\ NoDisable') \/ \E i \in DOMAIN queue' : EnablesAt(i)'
  <2>1. CASE k = 1
    <3>1. pc[t] \in Enabling
      BY <1>2, <1>11, <2>1 DEF EnablesAt
    <3>2. \A i \in 1 .. n : pc[queue[i + 1]] # "remote_disable"
      BY <1>2, <1>11, <2>1 DEF EnablesAt
    <3>3. CASE pc[t] = "timeout_set"
      BY <1>8, <3>3 DEF Enabling
    <3>4. CASE pc[t] = "remote_enable"
      BY <1>7, <3>2, <3>4
    <3> QED BY <3>1, <3>3, <3>4 DEF Enabling
  <2>2. CASE k # 1
    <3> DEFINE i == k - 1
    <3>1. i \in 1 .. n /\ i + 1 = k
      BY <1>2, <2>2
    <3>2. i \in DOMAIN queue' /\ pc'[queue'[i]] \in Enabling
      BY <1>2, <1>5, <1>6, <1>11, <3>1 DEF EnablesAt
    <3>3. ASSUME NEW j \in DOMAIN queue', pc'[queue'[j]] = "remote_disable"
          PROVE  j < i
      <4>1. j \in 1 .. n
        BY <1>1, <1>2, <1>5, <1>6, <3>3
      <4>2. j + 1 \in DOMAIN queue /\ pc[queue[j + 1]] = "remote_disable"
        BY <1>2, <1>6, <3>3, <4>1
      <4>3. j + 1 < k
        BY <1>11, <4>2 DEF EnablesAt
      <4> QED BY <1>2, <3>1, <4>1, <4>3
    <3> HIDE DEF i
    <3>4. EnablesAt(i)'
      BY <3>2, <3>3 DEF EnablesAt
    <3> QED BY <3>2, <3>4
  <2> QED BY <2>1, <2>2
<1> QED BY <1>9, <1>10, <1>11 DEF IInv, EnabledInv

-------------------------------------------------------------------------------
(* The actions.                                                             *)

RestTyped ==
    /\ mode \in Modes /\ due \in BOOLEAN
    /\ connected \in BOOLEAN /\ failedPolls \in 0 .. Tolerated
    /\ reading \in Readings /\ seen \in WorkModes \cup {"none"}
    /\ remote \in {"off", "ours", "theirs"} /\ workMode \in WorkModes
    /\ power \in {"max", "zero", "tuned", "export", "none"} /\ starved \in 0 .. 2
    /\ changes \in 0 .. MaxChanges /\ failures \in 0 .. MaxFailures
    /\ disturbed \in BOOLEAN

LEMMA TypesSplit == TypeOK <=> UpdateTyped /\ RestTyped
BY DEF TypeOK, UpdateTyped, RestTyped

LEMMA TypesSplitNext == TypeOK' <=> UpdateTyped' /\ RestTyped'
BY DEF TypeOK, UpdateTyped, RestTyped

LEMMA InitInv == Init => IInv
<1> SUFFICES ASSUME Init PROVE IInv
  OBVIOUS
<1>1. connected = TRUE /\ failedPolls = 0
  BY DEF Init, Connection!Init
<1>2. queue = <<>> /\ queue \in Seq(Tasks) /\ DOMAIN queue = {}
  BY DEF Init
<1>3. pc \in [Tasks -> Steps] /\ goal \in [Tasks -> Goal] /\ \A t \in Tasks : pc[t] = "idle"
  BY DEF Init, Steps, Goal
<1>4. UpdateTyped
  BY <1>2, <1>3 DEF Init, UpdateTyped, Modes
<1>5. RestTyped
  <2>1. failedPolls \in 0 .. Tolerated /\ changes \in 0 .. MaxChanges
        /\ failures \in 0 .. MaxFailures /\ starved \in 0 .. 2
    BY <1>1, BoundsAssumption DEF Init
  <2>2. connected \in BOOLEAN /\ due \in BOOLEAN /\ disturbed \in BOOLEAN
    BY <1>1 DEF Init
  <2>3. mode \in Modes /\ reading \in Readings /\ seen \in WorkModes \cup {"none"}
    BY ReadingsAssumption DEF Init, Modes
  <2>4. /\ remote \in {"off", "ours", "theirs"} /\ workMode \in WorkModes
        /\ power \in {"max", "zero", "tuned", "export", "none"}
    BY DEF Init
  <2> QED BY <2>1, <2>2, <2>3, <2>4 DEF RestTyped
<1>6. WorkModeNamed
  BY <1>3 DEF WorkModeNamed
<1>7. EveryUpdateWaits
  BY <1>2, <1>3 DEF EveryUpdateWaits
<1>8. EnabledInv
  BY DEF Init, EnabledInv
<1> QED BY <1>4, <1>5, <1>6, <1>7, <1>8, TypesSplit DEF IInv

LEMMA ManagerTyped == TypeOK => Manager \in Managers
BY DEF TypeOK, Manager, Managers

(* An update that begins.                                                   *)
LEMMA FreshInv ==
    ASSUME IInv, RestTyped', NEW t \in Tasks, pc[t] = "idle",
           NEW m \in Managers, m.queue = queue, m.on => enabled, Update(t, m),
           remote' = remote, disturbed => disturbed'
    PROVE  IInv'
<1>1. TypeOK /\ WorkModeNamed /\ EveryUpdateWaits
  BY DEF IInv
<1>2. mode' \in Modes /\ disturbed' \in BOOLEAN
  BY DEF RestTyped
<1>3. Advances(t, m.on, queue)
  BY <1>1, <1>2, UpdateAdvances
<1>4. /\ queue \in Seq(Tasks) /\ Distinct(queue) /\ Members(queue) = Waiting \ {t}
  BY <1>1, FreshQueue
<1>5. UpdateTyped' /\ WorkModeNamed' /\ EveryUpdateWaits'
  BY <1>1, <1>3, <1>4, AdvancesWaits
<1>6. EnabledInv'
  BY <1>2, <1>3, FreshEnabled
<1> QED BY <1>5, <1>6, TypesSplitNext DEF IInv

LEMMA SetModeInv ==
    ASSUME IInv, NEW u \in Users, NEW new \in Modes, SetMode(u, new)
    PROVE  IInv'
<1>1. TypeOK /\ RestTyped
  BY TypesSplit DEF IInv
<1>2. RestTyped'
  BY <1>1, BoundsAssumption DEF SetMode, RestTyped, pollVars, inverter
<1>3. Manager \in Managers /\ Manager.queue = queue /\ Manager.on = enabled
  BY <1>1, ManagerTyped DEF Manager
<1>4. /\ u \in Tasks /\ pc[u] = "idle" /\ Update(u, Manager)
      /\ remote' = remote /\ disturbed' = disturbed
  BY DEF SetMode, Tasks, inverter
<1> QED BY <1>2, <1>3, <1>4, FreshInv

LEMMA PollCompleteInv == IInv /\ PollComplete => IInv'
<1> SUFFICES ASSUME IInv, PollComplete PROVE IInv'
  OBVIOUS
<1>1. TypeOK /\ RestTyped
  BY TypesSplit DEF IInv
<1>2. RestTyped'
  BY <1>1 DEF PollComplete, RestTyped, pollVars, inverter
<1>3. Manager \in Managers /\ Manager.queue = queue /\ Manager.on = enabled
  BY <1>1, ManagerTyped DEF Manager
<1>4. /\ "callback" \in Tasks /\ pc["callback"] = "idle" /\ Update("callback", Manager)
      /\ remote' = remote /\ disturbed' = disturbed
  BY DEF PollComplete, Tasks, inverter
<1> QED BY <1>2, <1>3, <1>4, FreshInv

LEMMA PollEndsInv == IInv /\ PollEnds => IInv'
<1> SUFFICES ASSUME IInv, PollEnds PROVE IInv'
  OBVIOUS
<1>1. TypeOK /\ RestTyped
  BY TypesSplit DEF IInv
<1> DEFINE became == ~connected /\ connected'
           m == [Manager EXCEPT !.on = enabled /\ ~became]
<1>2. connected' \in BOOLEAN /\ failedPolls' \in 0 .. Tolerated
  <2>1. CASE Connection!PollSucceeded
    BY <2>1, BoundsAssumption DEF Connection!PollSucceeded
  <2>2. CASE Connection!PollFailed
    BY <1>1, <2>2, BoundsAssumption DEF Connection!PollFailed, RestTyped
  <2> QED BY <2>1, <2>2 DEF PollEnds
<1>3. reading' \in Readings /\ seen' \in WorkModes \cup {"none"}
  BY <1>1 DEF PollEnds, RestTyped
<1>4. due' \in BOOLEAN /\ disturbed' \in BOOLEAN /\ starved' \in 0 .. 2
      /\ (disturbed => disturbed')
  BY <1>1 DEF PollEnds, Starve, RestTyped
<1>5. RestTyped'
  BY <1>1, <1>2, <1>3, <1>4 DEF PollEnds, RestTyped
<1>6. /\ m \in Managers /\ m.queue = queue /\ m.prev = prevMode
      /\ m.on = (enabled /\ ~became)
  BY <1>1 DEF Manager, Managers, TypeOK
<1>7. remote' = remote /\ Callback(m) /\ disturbed' = (disturbed \/ (became /\ enabled))
  BY DEF PollEnds
<1>8. "callback" \in Tasks
  BY DEF Tasks
<1> HIDE DEF m
<1>9. CASE pc["callback"] = "idle" /\ Update("callback", m)
  BY <1>4, <1>5, <1>6, <1>7, <1>8, <1>9, FreshInv
<1>10. CASE /\ prevMode' = m.prev /\ enabled' = m.on
            /\ UNCHANGED <<importPower, pc, goal, queue>>
  <2>1. UpdateTyped'
    BY <1>1, <1>6, <1>10 DEF TypeOK, UpdateTyped
  <2>2. WorkModeNamed' /\ EveryUpdateWaits'
    BY <1>10 DEF IInv, WorkModeNamed, EveryUpdateWaits
  <2>3. EnabledInv'
    BY <1>4, <1>6, <1>7, <1>10 DEF IInv, EnabledInv, NoDisable, EnablesAt
  <2> QED BY <1>5, <2>1, <2>2, <2>3, TypesSplitNext DEF IInv
<1> QED BY <1>7, <1>9, <1>10 DEF Callback

(* The inverter after a write that reached it.                              *)
LEMMA AppliesTyped ==
    ASSUME TypeOK, WorkModeNamed, NEW t \in Tasks, Applies(t)
    PROVE  /\ remote' \in {"off", "ours", "theirs"} /\ workMode' \in WorkModes
           /\ power' \in {"max", "zero", "tuned", "export", "none"} /\ starved' \in 0 .. 2
<1>1. goal[t] \in Goal /\ goal[t].power \in {"max", "zero", "tuned", "export", "none"}
  BY DEF TypeOK, Goal
<1>2. pc[t] \in {"work_mode", "work_mode_off"} => goal[t].fallback \in WorkModes
  BY DEF WorkModeNamed
<1> QED BY <1>1, <1>2 DEF Applies, TypeOK

LEMMA WriteSucceedsInv ==
    ASSUME IInv, NEW t \in Tasks, WriteSucceeds(t)
    PROVE  IInv'
<1> DEFINE m == [Manager EXCEPT !.queue = Tail(queue)]
<1>1. TypeOK /\ WorkModeNamed /\ EveryUpdateWaits /\ RestTyped
  BY TypesSplit DEF IInv
<1>2. queue # <<>> /\ t = Head(queue) /\ Applies(t)
  BY DEF WriteSucceeds
<1>3. /\ Tail(queue) \in Seq(Tasks) /\ Distinct(Tail(queue))
      /\ Members(Tail(queue)) = Waiting \ {t} /\ pc[t] # "idle"
  BY <1>1, <1>2, HeadQueue
<1>4. m \in Managers /\ m.queue = Tail(queue) /\ m.on = enabled
  BY <1>1, <1>3 DEF Manager, Managers, TypeOK
<1>5. goal[t] \in Goal /\ pc[t] \in Steps
  BY <1>1 DEF TypeOK
<1>6. mode' \in Modes /\ disturbed' = disturbed
  BY <1>1 DEF WriteSucceeds, RestTyped
<1>7. seen' \in WorkModes \cup {"none"}
  BY <1>1 DEF WriteSucceeds, RestTyped, WorkModeNamed
<1>8. RestTyped'
  BY <1>1, <1>2, <1>7, AppliesTyped DEF WriteSucceeds, RestTyped
<1>9. /\ pc[t] = "remote_enable" => remote' = "ours"
      /\ pc[t] \notin {"remote_enable", "remote_disable"} => remote' = remote
  BY <1>2 DEF Applies
<1>10. \/ pc[t] = "work_mode" /\ SwitchOn(t, goal[t], m)
       \/ pc[t] = "timeout_set" /\ Awaits(t, "remote_enable", goal[t], m)
       \/ pc[t] = "remote_enable" /\ Awaits(t, "active_power", goal[t], m)
       \/ pc[t] = "remote_disable" /\ SetFallback(t, goal[t], m)
       \/ pc[t] \in {"active_power", "work_mode_off"} /\ Finish(t, m)
  BY DEF WriteSucceeds
<1> HIDE DEF m
<1>11. \E step \in Steps : /\ AdvancesTo(t, enabled, Tail(queue), step)
                           /\ pc[t] = "timeout_set" => step = "remote_enable"
  <2>1. CASE pc[t] = "timeout_set" /\ Awaits(t, "remote_enable", goal[t], m)
    <3>1. "remote_enable" \in Steps \ {"remote_disable"}
      BY DEF Steps
    <3>2. Advances(t, enabled, Tail(queue))
      BY <1>1, <1>4, <1>5, <2>1, <3>1, WritesAdvance
    <3>3. PICK step \in Steps : AdvancesTo(t, enabled, Tail(queue), step)
      BY <3>2 DEF Advances
    <3>4. pc' = [pc EXCEPT ![t] = "remote_enable"] /\ pc' = [pc EXCEPT ![t] = step]
      BY <2>1, <3>3 DEF Awaits, AdvancesTo
    <3>5. step = "remote_enable"
      BY <1>1, <3>4 DEF TypeOK
    <3> QED BY <3>3, <3>5
  <2>2. CASE pc[t] = "remote_enable" /\ Awaits(t, "active_power", goal[t], m)
    <3>1. "active_power" \in Steps \ {"remote_disable"}
      BY DEF Steps
    <3>2. Advances(t, enabled, Tail(queue))
      BY <1>1, <1>4, <1>5, <2>2, <3>1, WritesAdvance
    <3> QED BY <2>2, <3>2 DEF Advances
  <2>3. CASE pc[t] # "timeout_set" /\ Advances(t, enabled, Tail(queue))
    BY <2>3 DEF Advances
  <2>4. CASE pc[t] = "work_mode" /\ SwitchOn(t, goal[t], m)
    BY <1>1, <1>4, <1>5, <2>3, <2>4, SwitchOnAdvances
  <2>5. CASE pc[t] = "remote_disable" /\ SetFallback(t, goal[t], m)
    BY <1>1, <1>4, <1>5, <1>6, <2>3, <2>5, SetFallbackAdvances
  <2>6. CASE pc[t] \in {"active_power", "work_mode_off"} /\ Finish(t, m)
    BY <1>1, <1>4, <1>6, <2>3, <2>6, FinishAdvances
  <2> QED BY <1>10, <2>1, <2>2, <2>4, <2>5, <2>6
<1>12. PICK step \in Steps : /\ AdvancesTo(t, enabled, Tail(queue), step)
                             /\ pc[t] = "timeout_set" => step = "remote_enable"
  BY <1>11
<1>13. Advances(t, enabled, Tail(queue))
  BY <1>12 DEF Advances
<1>15. EnabledInv'
  BY <1>2, <1>6, <1>9, <1>12, HeadEnabled
<1>14. UpdateTyped' /\ WorkModeNamed' /\ EveryUpdateWaits'
  BY <1>1, <1>3, <1>13, AdvancesWaits
<1> QED BY <1>8, <1>14, <1>15, TypesSplitNext DEF IInv

LEMMA WriteFailsInv ==
    ASSUME IInv, NEW t \in Tasks, WriteFails(t)
    PROVE  IInv'
<1> DEFINE m == [Manager EXCEPT !.queue = Tail(queue)]
<1>1. TypeOK /\ WorkModeNamed /\ EveryUpdateWaits /\ RestTyped
  BY TypesSplit DEF IInv
<1>2. queue # <<>> /\ t = Head(queue)
  BY DEF WriteFails
<1>3. /\ Tail(queue) \in Seq(Tasks) /\ Distinct(Tail(queue))
      /\ Members(Tail(queue)) = Waiting \ {t}
  BY <1>1, <1>2, HeadQueue
<1>4. m \in Managers /\ m.queue = Tail(queue) /\ m.on = enabled
  BY <1>1, <1>3 DEF Manager, Managers, TypeOK
<1>5. goal[t] \in Goal /\ "idle" \in Steps \ {"remote_disable"}
  BY <1>1 DEF TypeOK, Steps
<1>6. Awaits(t, "idle", goal[t], m)
  BY DEF WriteFails
<1>7. /\ remote' \in {"off", "ours", "theirs"} /\ workMode' \in WorkModes
      /\ power' \in {"max", "zero", "tuned", "export", "none"} /\ starved' \in 0 .. 2
  <2>1. CASE Applies(t)
    BY <1>1, <2>1, AppliesTyped
  <2>2. CASE UNCHANGED inverter
    BY <1>1, <2>2 DEF RestTyped, inverter
  <2> QED BY <2>1, <2>2 DEF WriteFails
<1>8. RestTyped'
  BY <1>1, <1>7, BoundsAssumption DEF WriteFails, RestTyped, pollVars
<1> HIDE DEF m
<1>9. Advances(t, enabled, Tail(queue))
  BY <1>1, <1>4, <1>5, <1>6, WritesAdvance
<1>10. UpdateTyped' /\ WorkModeNamed' /\ EveryUpdateWaits'
  BY <1>1, <1>3, <1>9, AdvancesWaits
<1>11. EnabledInv'
  BY DEF WriteFails, EnabledInv
<1> QED BY <1>8, <1>10, <1>11, TypesSplitNext DEF IInv

(* What the inverter and the app do while no task moves.                    *)
LEMMA UndisturbedInv ==
    ASSUME IInv, UNCHANGED <<managerVars, taskVars>>, RestTyped',
           disturbed' \/ (disturbed' = disturbed /\ (remote = "ours" => remote' = "ours"))
    PROVE  IInv'
<1>1. TypeOK /\ UpdateTyped
  BY TypesSplit DEF IInv
<1>2. UpdateTyped'
  BY <1>1 DEF UpdateTyped, managerVars, taskVars
<1>3. WorkModeNamed' /\ EveryUpdateWaits'
  BY DEF IInv, WorkModeNamed, EveryUpdateWaits, taskVars
<1>4. EnabledInv'
  BY DEF IInv, EnabledInv, NoDisable, EnablesAt, managerVars, taskVars
<1> QED BY <1>2, <1>3, <1>4, TypesSplitNext DEF IInv

LEMMA WatchdogFiresInv == IInv /\ WatchdogFires => IInv'
<1> SUFFICES ASSUME IInv, WatchdogFires PROVE IInv'
  OBVIOUS
<1>1. RestTyped
  BY TypesSplit DEF IInv
<1>2. RestTyped'
  BY <1>1 DEF WatchdogFires, RestTyped, managerVars, taskVars, pollVars
<1> QED BY <1>2, UndisturbedInv DEF WatchdogFires

LEMMA AppChangesInv == IInv /\ AppChanges => IInv'
<1> SUFFICES ASSUME IInv, AppChanges PROVE IInv'
  OBVIOUS
<1>1. RestTyped
  BY TypesSplit DEF IInv
<1>2. /\ remote' \in {"off", "ours", "theirs"} /\ workMode' \in WorkModes
      /\ changes' \in 0 .. MaxChanges /\ (remote = "ours" => remote' = "ours")
  BY <1>1, BoundsAssumption DEF AppChanges, RestTyped
<1>3. RestTyped'
  BY <1>1, <1>2 DEF AppChanges, RestTyped, managerVars, taskVars, pollVars
<1>4. disturbed' = disturbed /\ UNCHANGED <<managerVars, taskVars>>
  BY DEF AppChanges
<1> QED BY <1>2, <1>3, <1>4, UndisturbedInv

LEMMA NextInv == IInv /\ [Next]_vars => IInv'
<1> SUFFICES ASSUME IInv, [Next]_vars PROVE IInv'
  OBVIOUS
<1>1. ASSUME NEW u \in Users, NEW new \in Modes, SetMode(u, new)
      PROVE  IInv'
  BY <1>1, SetModeInv
<1>2. CASE PollEnds \/ PollComplete
  BY <1>2, PollEndsInv, PollCompleteInv
<1>3. CASE Write
  BY <1>3, WriteSucceedsInv, WriteFailsInv DEF Write
<1>4. CASE WatchdogFires \/ AppChanges
  BY <1>4, WatchdogFiresInv, AppChangesInv
<1>5. CASE UNCHANGED vars
  <2>1. RestTyped /\ UNCHANGED <<managerVars, taskVars>>
    BY <1>5, TypesSplit DEF IInv, vars
  <2>2. RestTyped'
    BY <1>5, <2>1 DEF RestTyped, vars, managerVars, taskVars, pollVars, inverter
  <2> QED BY <1>5, <2>1, <2>2, UndisturbedInv DEF vars, inverter
<1> QED BY <1>1, <1>2, <1>3, <1>4, <1>5 DEF Next

-------------------------------------------------------------------------------
(* The manager keeps its invariants, however calls of set_mode, callbacks,  *)
(* failing writes, reconnections and changes in the app interleave.         *)
THEOREM Invariant == Spec => []IInv
BY InitInv, NextInv, PTL DEF Spec

(* Type correctness of the manager, its tasks and the inverter.             *)
THEOREM TypeCorrect == Spec => []TypeOK
BY Invariant, PTL DEF IInv

(* Every task that runs an update waits in the client's queue, once: no     *)
(* update is forgotten with _is_updating set.                               *)
THEOREM UpdatesWait == Spec => []EveryUpdateWaits
BY Invariant, PTL DEF IInv

(* With no update under way, and no write failed, the flag stands for       *)
(* remote control that is on (_enable_remote_control).                      *)
THEOREM FlagIsTrue == Spec => []EnabledMeansOn
<1>1. IInv => EnabledMeansOn
  <2> SUFFICES ASSUME IInv, Quiet, ~disturbed, enabled PROVE remote = "ours"
    BY DEF EnabledMeansOn
  <2>1. queue \in Seq(Tasks) /\ {queue[i] : i \in DOMAIN queue} = {}
    BY DEF IInv, TypeOK, EveryUpdateWaits, Quiet
  <2>2. DOMAIN queue = {}
    BY <2>1
  <2> QED BY <2>2 DEF IInv, EnabledInv
<1> QED BY <1>1, Invariant, PTL
===============================================================================
