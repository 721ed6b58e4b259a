------------------------- MODULE SosWatcher_proofs -------------------------
(***************************************************************************)
(* Proofs about SosWatcher, for any set of processes, any number of        *)
(* alerts, any window and any banners.                                     *)
(***************************************************************************)
EXTENDS SosWatcher, TLAPS

\* Ages grow by one tick at most, stay in their range and keep their order.
LEMMA OlderAges ==
    /\ \A n \in Ages : Older(n) \in Ages /\ n <= Older(n)
    /\ \A m, n \in Ages : m <= n => Older(m) <= Older(n)
BY CountAssumption DEF Ages, Older

\* What is due is in the table, and its process stamped it long ago.
LEMMA DueIsOld ==
    ASSUME WatchInv, NEW p \in Processes, NEW a \in Due
    PROVE  a \in Alerts /\ status[a] = "PENDING" /\ mine[p][a] > Cooldown
BY CountAssumption DEF WatchInv, TypeOK, MineIsOlder, Due, Ages

LEMMA InitInv == Init => WatchInv
BY CountAssumption
DEF Init, WatchInv, TypeOK, MineIsOlder, SnapshotIsDue, LateIsOver, Ages,
    AlertStatuses, BannerKinds, ThreadSteps, MainSteps

-----------------------------------------------------------------------------
(* The table *)

LEMMA TickKeeps == ASSUME WatchInv, Tick PROVE WatchInv'
<1> USE DEF WatchInv
<1>1. TypeOK'
  BY OlderAges DEF TypeOK, Tick
<1>2. MineIsOlder'
  BY OlderAges DEF TypeOK, MineIsOlder, Tick
<1>3. SnapshotIsDue'
  <2>1. \A p \in Processes, a \in Alerts : mine[p][a] > Cooldown => mine'[p][a] > Cooldown
    BY OlderAges, CountAssumption DEF TypeOK, Tick, Ages
  <2> QED
    BY <2>1 DEF SnapshotIsDue, Tick, TypeOK
<1>4. LateIsOver'
  BY DEF LateIsOver, InHand, Tick
<1> QED
  BY <1>1, <1>2, <1>3, <1>4

\* Neither a new row nor an acknowledgement touches a watcher.
LEMMA RowsKeep ==
    ASSUME WatchInv, NEW a \in Alerts, Create(a) \/ Acknowledge(a)
    PROVE  WatchInv'
<1> USE DEF WatchInv, Create, Acknowledge, history
<1>1. TypeOK'
  BY BannerAssumption DEF TypeOK, AlertStatuses
<1>2. MineIsOlder' /\ SnapshotIsDue'
  BY DEF MineIsOlder, SnapshotIsDue
<1>3. LateIsOver'
  BY DEF LateIsOver, InHand, TypeOK
<1> QED
  BY <1>1, <1>2, <1>3

-----------------------------------------------------------------------------
(* The thread *)

\* A step that leaves the rows and the history alone keeps the invariant if the
\* new snapshot is what is due, what was there, or empty.
LEMMA MoveKeeps ==
    ASSUME WatchInv, NEW p \in Processes, NEW step \in ThreadSteps,
           NEW rest \in SUBSET Alerts, Goto(p, step, rest),
           UNCHANGED <<rows, history>>,
           stop' \in [Processes -> BOOLEAN], main' \in [Processes -> MainSteps],
           rest \subseteq Due
    PROVE  WatchInv'
<1> USE DEF WatchInv, Goto, rows, history
<1>1. TypeOK'
  BY DEF TypeOK
<1>2. MineIsOlder'
  BY DEF MineIsOlder
<1>3. SnapshotIsDue'
  BY DueIsOld DEF SnapshotIsDue, TypeOK
<1>4. LateIsOver'
  <2> SUFFICES ASSUME NEW q \in Processes, NEW a \in Alerts, <<q, a>> \in late
               PROVE  /\ status[a] = "ACKNOWLEDGED"
                      /\ a \in queue'[q] => thread'[q] = "mark" /\ InHand(q, a)'
    BY DEF LateIsOver
  <2>1. status[a] = "ACKNOWLEDGED" /\ (a \in queue[q] => thread[q] = "mark" /\ InHand(q, a))
    BY DEF LateIsOver
  <2>2. CASE q = p
    BY <2>1, <2>2, DueIsOld DEF TypeOK
  <2>3. CASE q # p
    <3>1. queue'[q] = queue[q] /\ thread'[q] = thread[q]
      BY <2>3 DEF TypeOK
    <3> QED
      BY <2>1, <3>1 DEF InHand
  <2> QED
    BY <2>2, <2>3
<1> QED
  BY <1>1, <1>2, <1>3, <1>4

LEMMA NextOfStep == \A rest : NextOf(rest) \in ThreadSteps
BY DEF NextOf, ThreadSteps

LEMMA LoopKeeps ==
    ASSUME WatchInv, NEW p \in Processes,
           \/ TestStop(p) \/ List(p) \/ DbFails(p) \/ Start(p) \/ Exit(p)
           \/ \E a \in Alerts : AlarmRaises(p, a)
    PROVE  WatchInv'
<1> USE DEF WatchInv, TypeOK, ThreadSteps
<1>1. CASE TestStop(p)
  <2>1. UNCHANGED <<rows, stop, main, history>>
    BY <1>1 DEF TestStop, Goto
  <2>2. CASE stop[p]
    <3>1. Goto(p, "ended", {})
      BY <1>1, <2>2 DEF TestStop, Goto
    <3> QED
      BY <2>1, <3>1, MoveKeeps
  <2>3. CASE ~stop[p]
    <3>1. Goto(p, "list", {})
      BY <1>1, <2>3 DEF TestStop, Goto
    <3> QED
      BY <2>1, <3>1, MoveKeeps
  <2> QED
    BY <2>2, <2>3
<1>2. CASE List(p)
  <2>1. Due \in SUBSET Alerts
    BY DEF Due
  <2> QED
    BY <1>2, <2>1, MoveKeeps, NextOfStep DEF List
<1>3. CASE DbFails(p)
  <2>1. Goto(p, "test", {}) /\ UNCHANGED <<rows, stop, main, history>>
    BY <1>3 DEF DbFails, GiveUp
  <2> QED
    BY <2>1, MoveKeeps
<1>4. CASE Start(p)
  <2>1. Goto(p, "test", {}) /\ UNCHANGED <<rows, history>>
    BY <1>4 DEF Start
  <2>2. stop' \in [Processes -> BOOLEAN] /\ main' \in [Processes -> MainSteps]
    BY <1>4 DEF Start, MainSteps
  <2> QED
    BY <2>1, <2>2, MoveKeeps
<1>5. CASE Exit(p)
  <2>1. Goto(p, "off", {}) /\ UNCHANGED <<rows, history>>
    BY <1>5 DEF Exit
  <2>2. stop' \in [Processes -> BOOLEAN] /\ main' \in [Processes -> MainSteps]
    BY <1>5 DEF Exit, MainSteps
  <2> QED
    BY <2>1, <2>2, MoveKeeps
<1>6. ASSUME NEW a \in Alerts, AlarmRaises(p, a) PROVE WatchInv'
  <2>1. UNCHANGED <<rows, stop, main, history>>
    BY <1>6 DEF AlarmRaises, GiveUp
  <2>2. CASE banner[a] = "fatal"
    <3>1. Goto(p, "dead", {})
      BY <1>6, <2>2 DEF AlarmRaises, GiveUp, Goto
    <3> QED
      BY <2>1, <3>1, MoveKeeps
  <2>3. CASE banner[a] # "fatal"
    <3>1. Goto(p, "test", {})
      BY <1>6, <2>3 DEF AlarmRaises, GiveUp, Goto
    <3> QED
      BY <2>1, <3>1, MoveKeeps
  <2> QED
    BY <2>2, <2>3
<1> QED
  BY <1>1, <1>2, <1>3, <1>4, <1>5, <1>6

\* An alarm takes nothing out of the snapshot; if it is late it is in hand.
LEMMA AlarmKeeps ==
    ASSUME WatchInv, NEW p \in Processes, NEW a \in Alerts, Alarm(p, a)
    PROVE  WatchInv'
<1> USE DEF WatchInv, Alarm, Goto, rows
<1>1. TypeOK'
  BY DEF TypeOK, ThreadSteps
<1>2. MineIsOlder' /\ SnapshotIsDue'
  BY DEF MineIsOlder, SnapshotIsDue, TypeOK
<1>3. queue' = queue /\ status' = status
  BY DEF TypeOK
<1>4. LateIsOver'
  <2> SUFFICES ASSUME NEW q \in Processes, NEW b \in Alerts, <<q, b>> \in late'
               PROVE  /\ status[b] = "ACKNOWLEDGED"
                      /\ b \in queue[q] => thread'[q] = "mark" /\ InHand(q, b)
    BY <1>3 DEF LateIsOver, InHand
  <2>1. CASE <<q, b>> \in late
    BY <2>1 DEF LateIsOver, TypeOK, ThreadSteps
  <2>2. CASE <<q, b>> \notin late
    <3>1. q = p /\ b = a /\ status[a] = "ACKNOWLEDGED"
      BY <2>2
    <3> QED
      BY <3>1 DEF TypeOK
  <2> QED
    BY <2>1, <2>2
<1> QED
  BY <1>1, <1>2, <1>4

\* The stamped alert leaves the snapshot; the row is as young for everyone else
\* as for this process, or younger.
LEMMA MarkKeeps ==
    ASSUME WatchInv, NEW p \in Processes, NEW a \in Alerts, Mark(p, a)
    PROVE  WatchInv'
<1> USE DEF WatchInv, Mark, Goto
<1>1. TypeOK'
  BY NextOfStep, CountAssumption DEF TypeOK, Ages
<1>2. MineIsOlder'
  BY CountAssumption DEF MineIsOlder, TypeOK, Ages
<1>3. SnapshotIsDue'
  <2> SUFFICES ASSUME NEW q \in Processes, NEW b \in queue'[q]
               PROVE  mine'[q][b] > Cooldown
    BY DEF SnapshotIsDue
  <2>1. b \in queue[q] /\ (q = p => b # a)
    BY DEF TypeOK
  <2>2. mine'[q][b] = mine[q][b]
    BY <2>1 DEF TypeOK
  <2> QED
    BY <2>1, <2>2 DEF SnapshotIsDue
<1>4. LateIsOver'
  <2> SUFFICES ASSUME NEW q \in Processes, NEW b \in Alerts, <<q, b>> \in late
               PROVE  /\ status[b] = "ACKNOWLEDGED"
                      /\ b \in queue'[q] => thread'[q] = "mark" /\ InHand(q, b)'
    BY DEF LateIsOver
  <2>1. status[b] = "ACKNOWLEDGED" /\ (b \in queue[q] => thread[q] = "mark" /\ InHand(q, b))
    BY DEF LateIsOver
  <2>2. CASE q = p
    <3>1. queue'[p] = queue[p] \ {a}
      BY DEF TypeOK
    <3>2. b \in queue[p] => b = a
      BY <2>1, <2>2, CountAssumption DEF InHand, TypeOK, Alerts
    <3> QED
      BY <2>1, <2>2, <3>1, <3>2
  <2>3. CASE q # p
    <3>1. queue'[q] = queue[q] /\ thread'[q] = thread[q]
      BY <2>3 DEF TypeOK
    <3> QED
      BY <2>1, <3>1 DEF InHand
  <2> QED
    BY <2>2, <2>3
<1> QED
  BY <1>1, <1>2, <1>3, <1>4

-----------------------------------------------------------------------------
(* The process, and every step *)

LEMMA MainKeeps ==
    ASSUME WatchInv, NEW p \in Processes, Stop(p) \/ Join(p) \/ CloseDb(p)
    PROVE  WatchInv'
<1> USE DEF WatchInv, rows, history
<1>1. UNCHANGED <<status, age, banner, thread, queue, mine, late>>
  BY DEF Stop, Join, CloseDb
<1>2. TypeOK'
  BY <1>1 DEF TypeOK, Stop, Join, CloseDb, MainSteps
<1>3. MineIsOlder' /\ SnapshotIsDue' /\ LateIsOver'
  BY <1>1 DEF MineIsOlder, SnapshotIsDue, LateIsOver, InHand
<1> QED
  BY <1>2, <1>3

LEMMA StepKeeps == ASSUME WatchInv, [Next]_vars PROVE WatchInv'
<1>1. CASE UNCHANGED vars
  BY <1>1 DEF vars, WatchInv, TypeOK, MineIsOlder, SnapshotIsDue, LateIsOver, InHand
<1>2. CASE Tick
  BY <1>2, TickKeeps
<1>3. CASE \E a \in Alerts : Create(a) \/ Acknowledge(a)
  BY <1>3, RowsKeep
<1>4. ASSUME NEW p \in Processes, ProcessStep(p) PROVE WatchInv'
  BY <1>4, LoopKeeps, AlarmKeeps, MarkKeeps, MainKeeps DEF ProcessStep, ThreadStep
<1> QED
  BY <1>1, <1>2, <1>3, <1>4 DEF Next

\* The types and the inductive invariant of the watcher.
THEOREM WatcherInvariant == Spec => []WatchInv
BY InitInv, StepKeeps, PTL DEF Spec

-----------------------------------------------------------------------------
(* What a terminal does *)

\* Only an alarm rings, and only the alert in hand: two alerts are not in hand
\* at once.
LEMMA RingIsAlarm ==
    ASSUME WatchInv, [Next]_vars, NEW p \in Processes, NEW a \in Alerts, Rings(p, a)
    PROVE  a \in queue[p] /\ thread[p] # "mark"
BY DEF Rings, InHand

\* No terminal rings an alert twice after it was acknowledged.
THEOREM OneLateRing == Spec => LateRingOnce
<1>1. ASSUME WatchInv, [Next]_vars, NEW p \in Processes, NEW a \in Alerts,
             Rings(p, a), status[a] = "ACKNOWLEDGED"
      PROVE  <<p, a>> \notin late
  BY <1>1, RingIsAlarm DEF WatchInv, LateIsOver
<1>2. ASSUME WatchInv, [Next]_vars
      PROVE  [\A p \in Processes, a \in Alerts :
                Rings(p, a) /\ status[a] = "ACKNOWLEDGED" => <<p, a>> \notin late]_vars
  BY <1>1, <1>2
<1> QED
  BY <1>2, WatcherInvariant, PTL DEF Spec, LateRingOnce

\* No terminal rings an alert again within the window after its own stamp.
THEOREM WindowKept == Spec => OncePerWindow
<1>1. ASSUME WatchInv, [Next]_vars
      PROVE  [\A p \in Processes, a \in Alerts : Rings(p, a) => mine[p][a] > Cooldown]_vars
  BY <1>1, RingIsAlarm DEF WatchInv, SnapshotIsDue
<1> QED
  BY <1>1, WatcherInvariant, PTL DEF Spec, OncePerWindow
=============================================================================
