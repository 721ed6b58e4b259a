----------------------------- MODULE CaptureFlow -----------------------------
(***************************************************************************)
(* A capture: find or launch a browser's window, bring it to the front,    *)
(* grab the screen, store the image, read its text, hand it on; and the    *)
(* Capture tab that starts it on a worker thread and polls a queue for the *)
(* result.                                                                 *)
(*                                                                         *)
(* Captures of the desktop's workers and of the server's requests run at   *)
(* the same time, and so does the person at the screen: they all share one *)
(* foreground window.  What is on the screen when it is grabbed is the     *)
(* foreground of that moment.                                              *)
(*                                                                         *)
(* Rules, mails and events of a capture are Alerting's and ReviewWorkflow's*)
(* (an exception of theirs is swallowed); owners, titles and texts are     *)
(* left out.                                                               *)
(***************************************************************************)
EXTENDS Naturals, Sequences, FiniteSets

CONSTANTS
    Workers,     \* threads that the Capture tab may start
    Servers,     \* threads of the server that capture
    Targets,     \* keys of config.CAPTURE_TARGETS, each with its window
    Invalid,     \* a target that is not configured
    Requests,    \* the lists of targets a server request may name
    Other,       \* any other window
    Attempts,    \* how often a window is pushed to the front (6 in the code)
    MaxRuns,     \* a bound: how many captures are ever started
    Faults,      \* what may go wrong: "focus", "close", "ocr", "disk"
    None

ASSUME CaptureAssumption ==
    /\ Workers \cap Servers = {}
    /\ Attempts \in Nat \ {0} /\ MaxRuns \in Nat
    /\ {Invalid, Other, None} \cap Targets = {}
    /\ Requests \subseteq Seq(Targets \cup {Invalid})
    /\ Faults \subseteq {"focus", "close", "ocr", "disk"}

VARIABLES
    foreground, \* the foreground window
    open,       \* targets that have a window
    rows,       \* screenshots, oldest first
    job,        \* thread -> what it is doing
    tab,        \* the Capture tab: flag, armed polls, worker, queue
    runs        \* captures started (only to bound them)

vars == <<foreground, open, rows, job, tab, runs>>

Threads == Workers \cup Servers
Windows == Targets \cup {Other}

\* A row of screenshots: image is the window the file shows.
Shot == [target : Targets, status : {"success", "failed"}, image : Windows \cup {None},
         text : BOOLEAN]

\* TargetResult: the target, its status, and the row it names (0: none).
Result(target, status, row) == [target |-> target, status |-> status, row |-> row]

Idle     == [at |-> "idle", todo |-> <<>>, tries |-> 0, image |-> None, row |-> 0,
             results |-> <<>>]
FreshTab == [running |-> FALSE, polls |-> 0, worker |-> None, queue |-> <<>>]

Target(t) == Head(job[t].todo)

Goto(t, at) == job' = [job EXCEPT ![t].at = at]

\* The next target, with the result of this one.
NextTarget(t, result) ==
    job' = [job EXCEPT ![t] = [Idle EXCEPT !.at = "find",
                                           !.todo = Tail(job[t].todo),
                                           !.results = Append(job[t].results, result)]]

\* An exception that no handler of the capture catches.
Raise(t) == job' = [job EXCEPT ![t] = [Idle EXCEPT !.at = "raised"]]
-----------------------------------------------------------------------------
(***************************************************************************)
(* Starting.  The session and its audit row are stored before the targets. *)
(***************************************************************************)
Started(targets) == [Idle EXCEPT !.at = "find", !.todo = targets]

\* One run at a time (a mutant: the flag is not looked at).
MayAlwaysRun == TRUE
MayRun == ~tab.running

\* _on_run: one target, a worker, and a first poll.
OnRun(w) ==
    /\ runs < MaxRuns /\ runs' = runs + 1
    /\ MayRun
    /\ job[w].at = "idle"
    /\ \E target \in Targets : job' = [job EXCEPT ![w] = Started(<<target>>)]
    /\ tab' = [tab EXCEPT !.running = TRUE, !.polls = @ + 1,
                          !.worker = w, !.queue = <<>>]
    /\ UNCHANGED <<foreground, open, rows>>

\* POST /api/watcher/executions and the assistant's trigger_capture.
ServerRun(s) ==
    /\ runs < MaxRuns /\ runs' = runs + 1
    /\ job[s].at = "idle"
    /\ \E targets \in Requests : job' = [job EXCEPT ![s] = Started(targets)]
    /\ UNCHANGED <<foreground, open, rows, tab>>
-----------------------------------------------------------------------------
(***************************************************************************)
(* The window.                                                             *)
(***************************************************************************)

\* A target nobody configured.
SkipInvalid(t) ==
    /\ job[t].at = "find" /\ job[t].todo # <<>>
    /\ Target(t) = Invalid
    /\ NextTarget(t, Result(Invalid, "failed", 0))
    /\ UNCHANGED <<foreground, open, rows, tab, runs>>

\* find_window_by_process.
FindWindow(t) ==
    /\ job[t].at = "find" /\ job[t].todo # <<>>
    /\ Target(t) \in open
    /\ Goto(t, "push")
    /\ UNCHANGED <<foreground, open, rows, tab, runs>>

\* No window: with launch the application is started and comes up in time, in
\* front of everything, or not; without, the target fails.
LaunchApp(t) ==
    /\ job[t].at = "find" /\ job[t].todo # <<>>
    /\ Target(t) \in Targets \ open
    /\ \/ /\ open' = open \cup {Target(t)}
          /\ foreground' = Target(t)
          /\ Goto(t, "push")
       \/ /\ Goto(t, "failed")
          /\ UNCHANGED <<foreground, open>>
    /\ UNCHANGED <<rows, tab, runs>>

\* _force_foreground: the window comes up, or something holds the focus.
Push(t) ==
    /\ job[t].at = "push"
    /\ foreground' \in IF Target(t) \in open THEN {foreground, Target(t)} ELSE {foreground}
    /\ job' = [job EXCEPT ![t].at = "look", ![t].tries = @ + 1]
    /\ UNCHANGED <<open, rows, tab, runs>>

\* _bring_to_foreground looks whether it came up, and tries again.
Look(t) ==
    /\ job[t].at = "look"
    /\ Goto(t, IF foreground = Target(t) THEN "settle"
               ELSE IF job[t].tries < Attempts THEN "push" ELSE "failed")
    /\ UNCHANGED <<foreground, open, rows, tab, runs>>

\* Half a second later it must still be in front.
FrontKept(t) == foreground = Target(t)
Settle(t) ==
    /\ job[t].at = "settle"
    /\ Goto(t, IF FrontKept(t) THEN "grab" ELSE "failed")
    /\ UNCHANGED <<foreground, open, rows, tab, runs>>

\* ImageGrab of the window's rectangle shows whatever is in front there, which
\* is the foreground window if it covers the rectangle; a window that was closed
\* has no rectangle.
Grab(t) ==
    /\ job[t].at = "grab"
    /\ IF Target(t) \in open
       THEN \E shown \in {Target(t), foreground} :
                job' = [job EXCEPT ![t].at = "save", ![t].image = shown]
       ELSE Goto(t, "failed")
    /\ UNCHANGED <<foreground, open, rows, tab, runs>>
-----------------------------------------------------------------------------
(***************************************************************************)
(* What is stored.                                                         *)
(***************************************************************************)
FailedRow(target) ==
    [target |-> target, status |-> "failed", image |-> None, text |-> FALSE]

\* A failed capture leaves a row that says why (a mutant: it leaves none).
StoreNoFailure(target) == rows
StoreFailure(target) == Append(rows, FailedRow(target))

FailTarget(t) ==
    /\ job[t].at = "failed"
    /\ rows' = StoreFailure(Target(t))
    /\ NextTarget(t, Result(Target(t), "failed", 0))
    /\ UNCHANGED <<foreground, open, tab, runs>>

\* The PNG; a full or read-only disk raises to the caller of the capture.
SaveImage(t) ==
    /\ job[t].at = "save"
    /\ \/ Goto(t, "store")
       \/ "disk" \in Faults /\ Raise(t)
    /\ UNCHANGED <<foreground, open, rows, tab, runs>>

StoreShot(t) ==
    /\ job[t].at = "store"
    /\ rows' = Append(rows, [FailedRow(Target(t)) EXCEPT !.status = "success",
                                                         !.image = job[t].image])
    /\ job' = [job EXCEPT ![t].at = "ocr", ![t].row = Len(rows) + 1]
    /\ UNCHANGED <<foreground, open, tab, runs>>

\* The screenshot_id the worker goes on with (a mutant: the newest row).
NewestRow(t) == Len(rows)
ScreenshotId(t) == job[t].row

\* ocr_image: no key, a provider's error, an unreadable image: the shot stays a
\* success without text.
ReadText(t) ==
    /\ job[t].at = "ocr"
    /\ \/ Goto(t, "text")
       \/ /\ "ocr" \in Faults
          /\ NextTarget(t, Result(Target(t), "success", ScreenshotId(t)))
    /\ UNCHANGED <<foreground, open, rows, tab, runs>>

StoreText(t) ==
    /\ job[t].at = "text"
    /\ rows' = [rows EXCEPT ![ScreenshotId(t)].text = TRUE]
    /\ Goto(t, "txt")
    /\ UNCHANGED <<foreground, open, tab, runs>>

\* The .txt beside the image may raise too; then rules, mails and the event,
\* which do not.
HandOn(t) ==
    /\ job[t].at = "txt"
    /\ \/ NextTarget(t, Result(Target(t), "success", ScreenshotId(t)))
       \/ "disk" \in Faults /\ Raise(t)
    /\ UNCHANGED <<foreground, open, rows, tab, runs>>
-----------------------------------------------------------------------------
(***************************************************************************)
(* The end of a capture.                                                   *)
(***************************************************************************)
Ended(t) == job[t].at = "raised" \/ (job[t].at = "find" /\ job[t].todo = <<>>)

\* A request answers with its results, or with 500.
ServerAnswer(s) ==
    /\ Ended(s)
    /\ job' = [job EXCEPT ![s] = Idle]
    /\ UNCHANGED <<foreground, open, rows, tab, runs>>

\* (A mutant: a failed target is reported as an error.)
MessageOfShots(w) ==
    IF job[w].at = "raised" \/ \E i \in DOMAIN job[w].results : job[w].results[i].status = "failed"
    THEN "error" ELSE "done"
Message(w) == IF job[w].at = "raised" THEN "error" ELSE "done"

\* _worker puts one message; that of a tab destroyed meanwhile is never read.
Report(w) ==
    /\ Ended(w)
    /\ job' = [job EXCEPT ![w] = Idle]
    /\ tab' = IF tab.worker = w
              THEN [tab EXCEPT !.queue = Append(@, Message(w))] ELSE tab
    /\ UNCHANGED <<foreground, open, rows, runs>>

\* _finish, and no further poll (a mutant: polls on).
FinishAndArm   == [tab EXCEPT !.running = FALSE, !.queue = <<>>]
Finish         == [tab EXCEPT !.running = FALSE, !.polls = @ - 1, !.queue = <<>>]

\* A poll reads the queue until it is empty or holds the results.  An error is
\* logged; neither it nor an empty queue ends the run, and the next poll is armed.
\* (A mutant: an empty queue is the last poll.)
RearmIfMessage == [tab EXCEPT !.queue = <<>>, !.polls = IF tab.queue = <<>> THEN @ - 1 ELSE @]
Rearm          == [tab EXCEPT !.queue = <<>>]

PollQueue ==
    /\ tab.polls > 0
    /\ tab' = IF \E i \in DOMAIN tab.queue : tab.queue[i] = "done" THEN Finish ELSE Rearm
    /\ UNCHANGED <<foreground, open, rows, job, runs>>
-----------------------------------------------------------------------------
(***************************************************************************)
(* The surroundings.                                                       *)
(***************************************************************************)

\* Signing out destroys the tab with its polls; its worker goes on.
SignOut ==
    /\ tab # FreshTab
    /\ tab' = FreshTab
    /\ UNCHANGED <<foreground, open, rows, job, runs>>

\* Somebody, or another program, takes the focus.
TakeFocus ==
    /\ "focus" \in Faults
    /\ \E w \in open \cup {Other} : foreground' = w
    /\ UNCHANGED <<open, rows, job, tab, runs>>

CloseWindow ==
    /\ "close" \in Faults
    /\ \E w \in open : open' = open \ {w} /\ foreground' = Other
    /\ UNCHANGED <<rows, job, tab, runs>>

Init ==
    /\ open \in SUBSET Targets
    /\ foreground = Other
    /\ rows = <<>>
    /\ job = [t \in Threads |-> Idle]
    /\ tab = FreshTab
    /\ runs = 0

Step(t) ==
    \/ SkipInvalid(t) \/ FindWindow(t) \/ LaunchApp(t) \/ Push(t) \/ Look(t)
    \/ Settle(t) \/ Grab(t) \/ FailTarget(t) \/ SaveImage(t) \/ StoreShot(t)
    \/ ReadText(t) \/ StoreText(t) \/ HandOn(t)

Next ==
    \/ \E t \in Threads : Step(t)
    \/ \E w \in Workers : OnRun(w) \/ Report(w)
    \/ \E s \in Servers : ServerRun(s) \/ ServerAnswer(s)
    \/ PollQueue \/ SignOut \/ TakeFocus \/ CloseWindow

\* Threads are scheduled, waits have time limits, and Tk runs its timers.
Fairness ==
    /\ \A w \in Workers : WF_vars(Step(w)) /\ WF_vars(Report(w))
    /\ \A s \in Servers : WF_vars(Step(s)) /\ WF_vars(ServerAnswer(s))
    /\ WF_vars(PollQueue)

Spec == Init /\ [][Next]_vars /\ Fairness
-----------------------------------------------------------------------------
\* Types; and the tab polls exactly while it is disabled: a second Run never
\* leaves two chains of polls, a finished one never leaves a chain behind.
TypeOK ==
    /\ foreground \in Windows /\ open \subseteq Targets
    /\ rows \in Seq(Shot)
    /\ \A t \in Threads :
           /\ job[t].at \in {"idle", "find", "push", "look", "settle", "grab", "failed",
                             "save", "store", "ocr", "text", "txt", "raised"}
           /\ job[t].image \in Windows \cup {None}
    /\ tab.running \in BOOLEAN /\ tab.polls \in 0..1
    /\ tab.queue \in Seq({"done", "error"})
    /\ runs \in 0..MaxRuns
    /\ (tab.polls = 1) <=> tab.running

\* Rows and results agree: the results a capture returns name stored successes
\* of their own targets, two results never the same one, and each row a worker
\* still fills in is the one it stored.
ResultsAreStored ==
    \A t \in Threads :
        LET results == job[t].results
        IN  \A i \in DOMAIN results :
                results[i].status = "success" =>
                    /\ results[i].row \in DOMAIN rows
                    /\ rows[results[i].row].target = results[i].target
                    /\ rows[results[i].row].status = "success"
                    /\ \A u \in Threads : \A j \in DOMAIN job[u].results :
                           job[u].results[j].row = results[i].row => t = u /\ i = j

\* Every capture of a configured target leaves a row, the failed ones too.
EveryTargetStored ==
    \A t \in Threads, target \in Targets :
        LET Of(status) == {i \in DOMAIN job[t].results :
                               job[t].results[i].target = target
                               /\ job[t].results[i].status = status}
            Stored(status) == {i \in DOMAIN rows : rows[i].target = target
                                                   /\ rows[i].status = status}
        IN  \A status \in {"success", "failed"} :
                Cardinality(Of(status)) <= Cardinality(Stored(status))

\* A capture started from the tab gives the tab back, whatever happens to the
\* windows, unless the capture raises (the tab only logs that; see README).
RunEnds ==
    [](\A w \in Workers : job[w].at # "raised") => (tab.running ~> ~tab.running)

\* capture.py cancels a capture "to avoid a wrong shot": no stored image shows
\* another window.
NoWrongShot ==
    \A i \in DOMAIN rows : rows[i].status = "success" => rows[i].image = rows[i].target
=============================================================================
