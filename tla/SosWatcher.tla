----------------------------- MODULE SosWatcher -----------------------------
(***************************************************************************)
(* The console SOS watcher: one daemon thread in every process (the        *)
(* desktop application and the server) that polls sos_alerts and alarms in *)
(* the terminal of its process for every PENDING alert that is due.        *)
(*                                                                         *)
(* The processes share the table and nothing else.  A poll takes a         *)
(* snapshot of the due alerts; the alarm of one alert (banner and beeps)   *)
(* takes seconds, and its row is stamped afterwards, so alerts are         *)
(* acknowledged, created and stamped by the other process meanwhile.       *)
(* main[p] is what the process itself does: its shutdown stops the thread, *)
(* waits for it and closes the database connection the thread uses.        *)
(*                                                                         *)
(* A tick is any amount of time; Cooldown is the re-alarm window in ticks. *)
(* A row that never beeped is due like one whose last beep is too old, so  *)
(* both have the age Cooldown + 1.  sound_played is only displayed and is  *)
(* left out.                                                               *)
(***************************************************************************)
EXTENDS Naturals

CONSTANTS
    Processes,     \* the processes that run a watcher
    NAlerts,       \* alerts are numbered in the order of created_at
    Cooldown,      \* sos_alert.cooldown_seconds
    Banners,       \* the kinds of banner that occur
    ShadowedStop,  \* Python before 3.13: Thread._stop() is what join calls
    Ops            \* the operations that occur

Operations == {"acknowledge", "fault", "stop", "exit"}

\* A banner prints, or printing it raises, or the report of that error raises
\* as well.
BannerKinds == {"plain", "garbled", "fatal"}

Alerts == 1 .. NAlerts

ASSUME CountAssumption == NAlerts \in Nat /\ Cooldown \in Nat
ASSUME BannerAssumption == Banners \subseteq BannerKinds
ASSUME ShadowAssumption == ShadowedStop \in BOOLEAN
ASSUME OpsAssumption == Ops \subseteq Operations

VARIABLES
    status,    \* sos_alerts.acknowledge_status
    age,       \* ticks since last_beep_at, up to Cooldown + 1
    banner,    \* what becomes of the alert's banner: sos_alerts.message
    thread,    \* where the watcher thread of a process is
    queue,     \* the alerts of its snapshot it has not dealt with
    stop,      \* the job's stop event
    main,      \* where the process is
    mine,      \* history: ticks since this process last stamped the alert
    late       \* history: <<p, a>>: p rang a after it was acknowledged

rows == <<status, age, banner>>
history == <<mine, late>>
vars == <<status, age, banner, thread, queue, stop, main, mine, late>>

-----------------------------------------------------------------------------

Ages == 0 .. Cooldown + 1
AlertStatuses == {"absent", "PENDING", "ACKNOWLEDGED"}
ThreadSteps == {"off", "test", "list", "alarm", "mark", "ended", "dead"}
MainSteps == {"down", "up", "joining", "joined", "raised", "closed"}

TypeOK ==
    /\ status \in [Alerts -> AlertStatuses]
    /\ age \in [Alerts -> Ages]
    /\ banner \in [Alerts -> BannerKinds]
    /\ thread \in [Processes -> ThreadSteps]
    /\ queue \in [Processes -> SUBSET Alerts]
    /\ stop \in [Processes -> BOOLEAN]
    /\ main \in [Processes -> MainSteps]
    /\ mine \in [Processes -> [Alerts -> Ages]]
    /\ late \subseteq Processes \X Alerts

Init ==
    /\ status = [a \in Alerts |-> "absent"]
    /\ age = [a \in Alerts |-> Cooldown + 1]
    /\ banner = [a \in Alerts |-> "plain"]
    /\ thread = [p \in Processes |-> "off"]
    /\ queue = [p \in Processes |-> {}]
    /\ stop = [p \in Processes |-> FALSE]
    /\ main = [p \in Processes |-> "down"]
    /\ mine = [p \in Processes |-> [a \in Alerts |-> Cooldown + 1]]
    /\ late = {}

-----------------------------------------------------------------------------
(* The table *)

\* create_sos inserts a PENDING row; names that rules and screens were given
\* are part of its message.
Create(a) ==
    /\ status[a] = "absent"
    /\ \A b \in 1 .. a - 1 : status[b] # "absent"
    /\ status' = [status EXCEPT ![a] = "PENDING"]
    /\ \E kind \in Banners : banner' = [banner EXCEPT ![a] = kind]
    /\ UNCHANGED <<age, thread, queue, stop, main, history>>

\* One UPDATE with the status in its WHERE clause: a second acknowledgement
\* changes nothing and is refused.
Acknowledge(a) ==
    /\ "acknowledge" \in Ops
    /\ status[a] = "PENDING"
    /\ status' = [status EXCEPT ![a] = "ACKNOWLEDGED"]
    /\ UNCHANGED <<age, banner, thread, queue, stop, main, history>>

Older(n) == IF n <= Cooldown THEN n + 1 ELSE n

Tick ==
    /\ age' = [a \in Alerts |-> Older(age[a])]
    /\ mine' = [p \in Processes |-> [a \in Alerts |-> Older(mine[p][a])]]
    /\ age' # age
    /\ UNCHANGED <<status, banner, thread, queue, stop, main, late>>

\* Variants: the status, or the window, is not looked at.
DueAnyStatus == {a \in Alerts : status[a] # "absent" /\ age[a] > Cooldown}
DueAnyAge == {a \in Alerts : status[a] = "PENDING"}

\* list_pending_for_beep
Due == {a \in Alerts : status[a] = "PENDING" /\ age[a] > Cooldown}

-----------------------------------------------------------------------------
(* The thread *)

\* Variant: ORDER BY created_at DESC.
InHandNewestFirst(p, a) == a \in queue[p] /\ \A b \in queue[p] : b <= a

\* The alert the loop over the snapshot has come to: the oldest that is left.
InHand(p, a) == a \in queue[p] /\ \A b \in queue[p] : a <= b

Goto(p, step, rest) ==
    /\ thread' = [thread EXCEPT ![p] = step]
    /\ queue' = [queue EXCEPT ![p] = rest]

\* The loop is over the snapshot; when it ends the thread waits for the poll
\* interval or the stop event and tests the event.
NextOf(rest) == IF rest = {} THEN "test" ELSE "alarm"

\* Variant: while True.
TestNothing(p) ==
    /\ thread[p] = "test"
    /\ Goto(p, "list", {})
    /\ UNCHANGED <<rows, stop, main, history>>

TestStop(p) ==
    /\ thread[p] = "test"
    /\ Goto(p, IF stop[p] THEN "ended" ELSE "list", {})
    /\ UNCHANGED <<rows, stop, main, history>>

List(p) ==
    /\ thread[p] = "list"
    /\ main[p] # "closed"
    /\ Goto(p, NextOf(Due), Due)
    /\ UNCHANGED <<rows, stop, main, history>>

\* Banner and beeps for the alert in hand, whatever its row says by now.
Alarm(p, a) ==
    /\ thread[p] = "alarm"
    /\ InHand(p, a) /\ banner[a] = "plain"
    /\ Goto(p, "mark", queue[p])
    /\ late' = IF status[a] = "ACKNOWLEDGED" THEN late \cup {<<p, a>>} ELSE late
    /\ UNCHANGED <<rows, stop, main, mine>>

\* mark_beeped stamps the row by its id, acknowledged or not.
Mark(p, a) ==
    /\ thread[p] = "mark"
    /\ main[p] # "closed"
    /\ InHand(p, a)
    /\ age' = [age EXCEPT ![a] = 0]
    /\ mine' = [mine EXCEPT ![p][a] = 0]
    /\ Goto(p, NextOf(queue[p] \ {a}), queue[p] \ {a})
    /\ UNCHANGED <<status, banner, stop, main, late>>

\* The handler around the loop: what is left of the snapshot is given up until
\* the next poll.
GiveUp(p, step) ==
    /\ Goto(p, step, {})
    /\ UNCHANGED <<rows, stop, main, history>>

\* A statement fails: the database is locked, or closed by the shutdown.
DbFails(p) ==
    /\ thread[p] \in {"list", "mark"}
    /\ "fault" \in Ops \/ main[p] = "closed"
    /\ GiveUp(p, "test")

\* The banner is printed as rich markup and the error is logged as rich markup
\* too; the text of the error repeats the tag that broke the banner.
AlarmRaises(p, a) ==
    /\ thread[p] = "alarm"
    /\ InHand(p, a) /\ banner[a] # "plain"
    /\ GiveUp(p, IF banner[a] = "fatal" THEN "dead" ELSE "test")

-----------------------------------------------------------------------------
(* The process *)

Start(p) ==
    /\ main[p] = "down"
    /\ main' = [main EXCEPT ![p] = "up"]
    /\ Goto(p, "test", {})
    /\ UNCHANGED <<rows, stop, history>>

\* stop() sets the event and joins.
Stop(p) ==
    /\ "stop" \in Ops
    /\ main[p] = "up"
    /\ stop' = [stop EXCEPT ![p] = TRUE]
    /\ main' = [main EXCEPT ![p] = "joining"]
    /\ UNCHANGED <<rows, thread, queue, history>>

Finished(p) == thread[p] \in {"ended", "dead"}

\* The thread has ended, or the join timed out.  Before Python 3.13 the join of
\* a finished thread calls Thread._stop, which the job's event has replaced.
Join(p) ==
    /\ main[p] = "joining"
    /\ main' = [main EXCEPT ![p] =
                  IF Finished(p) /\ ShadowedStop THEN "raised" ELSE "joined"]
    /\ UNCHANGED <<rows, thread, queue, stop, history>>

CloseDb(p) ==
    /\ main[p] = "joined"
    /\ main' = [main EXCEPT ![p] = "closed"]
    /\ UNCHANGED <<rows, thread, queue, stop, history>>

\* The process ends, in order or not; the thread is a daemon and ends with it,
\* and so does the event.
Exit(p) ==
    /\ \/ main[p] \in {"closed", "raised"}
       \/ "exit" \in Ops /\ main[p] # "down"
    /\ main' = [main EXCEPT ![p] = "down"]
    /\ stop' = [stop EXCEPT ![p] = FALSE]
    /\ Goto(p, "off", {})
    /\ UNCHANGED <<rows, history>>

-----------------------------------------------------------------------------

ThreadStep(p) ==
    \/ TestStop(p) \/ List(p)
    \/ \E a \in Alerts : Alarm(p, a) \/ Mark(p, a) \/ AlarmRaises(p, a)

ProcessStep(p) ==
    \/ ThreadStep(p) \/ DbFails(p)
    \/ Start(p) \/ Stop(p) \/ Join(p) \/ CloseDb(p) \/ Exit(p)

Next ==
    \/ Tick
    \/ \E a \in Alerts : Create(a) \/ Acknowledge(a)
    \/ \E p \in Processes : ProcessStep(p)

Spec == Init /\ [][Next]_vars

\* A thread that runs goes on, and time passes.  Nothing has to be created,
\* acknowledged, started or stopped.
FairSpec ==
    /\ Spec
    /\ WF_vars(Tick)
    /\ \A p \in Processes :
          WF_vars(ThreadStep(p)) /\ WF_vars(main[p] = "closed" /\ DbFails(p))

-----------------------------------------------------------------------------
(* Properties *)

\* p rings a: the step of _alarm that completes.
Rings(p, a) ==
    thread[p] = "alarm" /\ thread'[p] = "mark" /\ InHand(p, a)

\* An acknowledged alert may still be in the snapshot of a watcher, and its
\* alarm then sounds once more; it never sounds twice in one terminal after the
\* acknowledgement, however polls, stamps, failures and restarts interleave.
LateRingOnce ==
    [][\A p \in Processes, a \in Alerts :
         Rings(p, a) /\ status[a] = "ACKNOWLEDGED" => <<p, a>> \notin late]_vars

\* A terminal that rang an alert and stamped its row does not ring it again
\* within the re-alarm window, although the other process stamps the same row
\* and snapshots grow old while alarms sound.
OncePerWindow ==
    [][\A p \in Processes, a \in Alerts : Rings(p, a) => mine[p][a] > Cooldown]_vars

\* Why these hold.  A process's stamps are among those of the row, so what was
\* due in the table was due for the process, and stays so until it stamps it;
\* an alert rung late has left the snapshot, or is about to.
MineIsOlder == \A p \in Processes, a \in Alerts : age[a] <= mine[p][a]
SnapshotIsDue == \A p \in Processes : \A a \in queue[p] : mine[p][a] > Cooldown
LateIsOver ==
    \A p \in Processes, a \in Alerts :
       <<p, a>> \in late =>
          /\ status[a] = "ACKNOWLEDGED"
          /\ a \in queue[p] => thread[p] = "mark" /\ InHand(p, a)

WatchInv == TypeOK /\ MineIsOlder /\ SnapshotIsDue /\ LateIsOver

Watching(p) == main[p] = "up" /\ thread[p] # "dead"

\* Some watcher is left running, and from some point on its statements succeed.
SomeoneWatches ==
    \E p \in Processes : <>[]Watching(p) /\ <>[][~DbFails(p)]_vars

Rung(p, a) == thread[p] = "mark" /\ InHand(p, a)

\* While some watcher is left running, an alert that is due is rung or
\* acknowledged, provided every alert up to it can be printed: it does not wait
\* for ever behind others that keep falling due, nor behind younger ones that
\* end every poll.
DueRings ==
    SomeoneWatches =>
       \A a \in Alerts :
          (a \in Due /\ \A b \in 1 .. a : banner[b] = "plain") ~>
             (status[a] = "ACKNOWLEDGED" \/ \E p \in Processes : Rung(p, a))

\* A job that is told to stop ends its loop, whatever it finds in the table and
\* even when the connection is closed under it (stop, run.py's shutdown).
StopEndsLoop ==
    \A p \in Processes : stop[p] ~> thread[p] \in {"ended", "dead", "off"}

-----------------------------------------------------------------------------
(* What the documents say and the code does not do *)

\* The loop alarms for every PENDING alert that is due (sos_watcher_job.py:4),
\* also for those behind one that cannot be printed.
EveryDueAlertRings ==
    SomeoneWatches =>
       \A a \in Alerts :
          (a \in Due /\ banner[a] = "plain") ~>
             (status[a] = "ACKNOWLEDGED" \/ \E p \in Processes : Rung(p, a))

\* The terminal that launched the application beeps for PENDING incidents
\* (run.py:69): each watching process rings an alert that stays pending.
OwnTerminalRings ==
    \A p \in Processes, a \in Alerts :
       (Watching(p) /\ status[a] = "PENDING") ~>
          (status[a] = "ACKNOWLEDGED" \/ Rung(p, a) \/ ~Watching(p))
=============================================================================
