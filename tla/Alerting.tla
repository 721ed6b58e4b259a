------------------------------ MODULE Alerting ------------------------------
(***************************************************************************)
(* Alert mails and their cooldown.  A capture runs NotificationService over *)
(* the rules of rules.yaml and then the event pipeline, whose _notify mails *)
(* for the rules of rules_db; a re-evaluation of an event runs the second   *)
(* part alone, and a resend repeats one mail.  The two parts have windows   *)
(* and switches of their own and share cooldown_state, which is keyed by    *)
(* the rule id text, so a rule written in both places has one entry.        *)
(*                                                                          *)
(* For one rule a job reads the cooldown, sends, stores the cooldown and    *)
(* stores the notification, one step each; jobs of the desktop              *)
(* application, the server and the chat assistant overlap.  Sending takes   *)
(* any time.  The rule engine's verdict is free: any rules may match, in    *)
(* any order.  A job runs once and is one capture, evaluation or resend.    *)
(***************************************************************************)
EXTENDS Integers

CONSTANTS
    Jobs,           \* captures, evaluations and resends
    YamlRules,      \* rule ids of config/rules.yaml
    DbRules,        \* ids of active normal rules not imported from the file
    NoOwner,        \* rules whose owner group has no address
    YamlWindow,     \* the rule's cooldown_minutes, in ticks; 0 if given as 0
    DefaultWindow,  \* cooldown.default_minutes
    DbWindow,       \* cooldown_seconds of the row; 0 if NULL or 0
    DbDefault,      \* the 300 seconds _notify falls back to
    CooldownOn,     \* cooldown.enabled
    DryRun,         \* not email.enabled
    Ops,            \* the operations that occur
    MaxTime         \* the clock stops here

Rules == YamlRules \cup DbRules
Never == -1
Operations == {"capture", "evaluate", "resend", "raise", "exit"}

ASSUME WindowAssumption == /\ {YamlWindow, DbWindow} \subseteq Nat
                           /\ {DefaultWindow, DbDefault} \subseteq Nat \ {0}
                           /\ MaxTime \in Nat
ASSUME SwitchAssumption == CooldownOn \in BOOLEAN /\ DryRun \in BOOLEAN
ASSUME OpsAssumption == Ops \subseteq Operations

VARIABLES
    now,         \* the clock
    lastSent,    \* cooldown_state.last_sent_at, Never without a row
    notes,       \* notifications
    pc,          \* the step a job takes next
    arg,         \* the locals of a job
    mails,       \* history: what was handed to the mail server, or simulated
    disturbed,   \* history: rules whose sends overlapped or were not recorded
    owed         \* history: what each job set out to tell, but for what was cut off

vars == <<now, lastSent, notes, pc, arg, mails, disturbed, owed>>

-----------------------------------------------------------------------------

Time == 0 .. MaxTime
Stages == {"capture", "event", "resend"}
Outcomes == {"sent", "simulated", "send_failed"}
NoteStatuses == Outcomes \cup {"no_owner", "skipped_cooldown"}

Note == [job : Jobs, stage : Stages, rule : Rules, status : NoteStatuses, at : Time]
Mail == [job : Jobs, stage : Stages, rule : Rules, at : Time]
Debt == [job : Jobs, stage : Stages, rule : Rules]

\* todo: matched rules still to handle; rule, at: the rule in hand and the time
\* its cooldown was read; result: what the mail server said.
Local == [stage : Stages, todo : SUBSET Rules, rule : Rules \cup {"none"},
          at : Time, result : Outcomes]
NoLocal == [stage |-> "capture", todo |-> {}, rule |-> "none", at |-> 0,
            result |-> "send_failed"]

TypeOK ==
    /\ now \in Time
    /\ lastSent \in [Rules -> Time \cup {Never}]
    /\ notes \subseteq Note
    /\ pc \in [Jobs -> {"idle", "next", "send", "save", "trace", "done"}]
    /\ arg \in [Jobs -> Local]
    /\ mails \subseteq Mail
    /\ disturbed \subseteq Rules
    /\ owed \subseteq Debt

Init ==
    /\ now = 0
    /\ lastSent = [r \in Rules |-> Never]
    /\ notes = {}
    /\ pc = [j \in Jobs |-> "idle"]
    /\ arg = [j \in Jobs |-> NoLocal]
    /\ mails = {}
    /\ disturbed = {}
    /\ owed = {}

-----------------------------------------------------------------------------

Goto(j, step, locals) ==
    /\ pc' = [pc EXCEPT ![j] = step]
    /\ arg' = [arg EXCEPT ![j] = locals]

Tick ==
    /\ now < MaxTime
    /\ now' = now + 1
    /\ UNCHANGED <<lastSent, notes, pc, arg, mails, disturbed, owed>>

\* A zero window is falsy in Python, so it means the default.
Window(stage) ==
    CASE stage = "capture" -> IF YamlWindow = 0 THEN DefaultWindow ELSE YamlWindow
      [] stage = "event"   -> IF DbWindow = 0 THEN DbDefault ELSE DbWindow

\* Only the capture part looks at the switch.
InForce(stage) == stage = "event" \/ CooldownOn

Blocked(stage, r) ==
    /\ InForce(stage)
    /\ lastSent[r] # Never
    /\ now - lastSent[r] < Window(stage)

-----------------------------------------------------------------------------
(* Jobs *)

Owes(j, stage, rules) == [job : {j}, stage : {stage}, rule : rules]

\* process: the rules of the file that match the text.
Capture(j) ==
    /\ "capture" \in Ops
    /\ pc[j] = "idle"
    /\ \E matched \in SUBSET YamlRules :
          /\ Goto(j, "next", [NoLocal EXCEPT !.stage = "capture", !.todo = matched])
          /\ owed' = owed \cup Owes(j, "capture", matched)
    /\ UNCHANGED <<now, lastSent, notes, mails, disturbed>>

\* evaluate: the normal rules of the table that match, for an event with a
\* screenshot.
InEvent(matched) == [NoLocal EXCEPT !.stage = "event", !.todo = matched]

Evaluate(j) ==
    /\ "evaluate" \in Ops
    /\ pc[j] = "idle"
    /\ \E matched \in SUBSET DbRules : /\ Goto(j, "next", InEvent(matched))
                                      /\ owed' = owed \cup Owes(j, "event", matched)
    /\ UNCHANGED <<now, lastSent, notes, mails, disturbed>>

Status(r, status, j, at) ==
    [job |-> j, stage |-> arg[j].stage, rule |-> r, status |-> status, at |-> at]

Without(j, r) == [arg[j] EXCEPT !.todo = @ \ {r}]

\* A matched rule nobody is to be told about, or that is in its cooldown, gets
\* its notification row and the next rule's turn comes.
Skip(j, r) ==
    /\ pc[j] = "next"
    /\ r \in arg[j].todo
    /\ r \in NoOwner \/ Blocked(arg[j].stage, r)
    /\ LET why == IF r \in NoOwner THEN "no_owner" ELSE "skipped_cooldown" IN
       notes' = notes \cup {Status(r, why, j, now)}
    /\ Goto(j, "next", Without(j, r))
    /\ UNCHANGED <<now, lastSent, mails, disturbed, owed>>

\* A job holds r between reading its cooldown and storing it.
Holds(j, r) ==
    pc[j] \in {"send", "save"} /\ arg[j].rule = r /\ arg[j].stage # "resend"

PassCooldown(j, r) ==
    /\ pc[j] = "next"
    /\ r \in arg[j].todo \ NoOwner
    /\ ~Blocked(arg[j].stage, r)
    /\ Goto(j, "send", [Without(j, r) EXCEPT !.rule = r, !.at = now])
    /\ disturbed' = IF \E k \in Jobs : Holds(k, r)
                    THEN disturbed \cup {r} ELSE disturbed
    /\ UNCHANGED <<now, lastSent, notes, mails, owed>>

\* resend: an earlier mail that had recipients, whatever its cooldown.
Resend(j) ==
    /\ "resend" \in Ops
    /\ pc[j] = "idle"
    /\ \E n \in notes :
          /\ n.status # "no_owner"
          /\ Goto(j, "send", [NoLocal EXCEPT !.stage = "resend", !.rule = n.rule, !.at = now])
          /\ owed' = owed \cup Owes(j, "resend", {n.rule})
    /\ UNCHANGED <<now, lastSent, notes, mails, disturbed>>

\* Variants: a mail of the event part leaves the cooldown alone; a failed mail
\* starts one.
AfterSendInCapture(stage, result) ==
    IF result = "send_failed" \/ stage # "capture" THEN "trace" ELSE "save"
AfterSendAlways(stage, result) == IF stage = "resend" THEN "trace" ELSE "save"

\* What a job does after the mail server answered.
AfterSend(stage, result) ==
    IF result = "send_failed" \/ stage = "resend" THEN "trace" ELSE "save"

Send(j) ==
    /\ pc[j] = "send"
    /\ \E result \in IF DryRun THEN {"simulated"} ELSE {"sent", "send_failed"} :
          /\ Goto(j, AfterSend(arg[j].stage, result), [arg[j] EXCEPT !.result = result])
          /\ mails' = IF result = "send_failed" THEN mails ELSE mails \cup
                {[job |-> j, stage |-> arg[j].stage, rule |-> arg[j].rule, at |-> arg[j].at]}
    /\ UNCHANGED <<now, lastSent, notes, disturbed, owed>>

\* The row is inserted or, when the rule has one, updated (a variant: ignored).
StoredOnce(r, at) == IF lastSent[r] = Never THEN at ELSE lastSent[r]
Stored(r, at) == at

\* The time stored is the time the cooldown was read, not the time of sending.
SaveCooldown(j) ==
    /\ pc[j] = "save"
    /\ lastSent' = [lastSent EXCEPT ![arg[j].rule] = Stored(arg[j].rule, arg[j].at)]
    /\ Goto(j, "trace", arg[j])
    /\ UNCHANGED <<now, notes, mails, disturbed, owed>>

\* Variant: a mail that failed ends the job.
AfterTraceIfSent(j) ==
    IF arg[j].stage = "resend" \/ arg[j].result = "send_failed" THEN "done" ELSE "next"

AfterTrace(j) == IF arg[j].stage = "resend" THEN "done" ELSE "next"

Trace(j) ==
    /\ pc[j] = "trace"
    /\ notes' = notes \cup {Status(arg[j].rule, arg[j].result, j, arg[j].at)}
    /\ Goto(j, AfterTrace(j), [arg[j] EXCEPT !.rule = "none"])
    /\ UNCHANGED <<now, lastSent, mails, disturbed, owed>>

\* The capture goes on with the event pipeline, whether process returned or
\* raised; the event pipeline is the end.
LeaveStage(j, debts) ==
    IF arg[j].stage = "capture"
    THEN \E matched \in SUBSET DbRules : /\ Goto(j, "next", InEvent(matched))
                                         /\ owed' = debts \cup Owes(j, "event", matched)
    ELSE Goto(j, "done", NoLocal) /\ owed' = debts

StageDone(j) ==
    /\ pc[j] = "next"
    /\ arg[j].todo = {}
    /\ LeaveStage(j, owed)
    /\ UNCHANGED <<now, lastSent, notes, mails, disturbed>>

CutOff(j) == {d \in owed : d.job # j \/ d.stage # arg[j].stage}

LoseHold(j) ==
    disturbed' = IF pc[j] = "save" THEN disturbed \cup {arg[j].rule} ELSE disturbed

\* A database statement or the issue store raises: the callers log it and drop
\* the rest of the stage.
Raise(j) ==
    /\ "raise" \in Ops
    /\ pc[j] \in {"next", "save", "trace"}
    /\ LeaveStage(j, CutOff(j))
    /\ LoseHold(j)
    /\ UNCHANGED <<now, lastSent, notes, mails>>

\* The process exits.
Exit(j) ==
    /\ "exit" \in Ops
    /\ pc[j] \notin {"idle", "done"}
    /\ Goto(j, "done", NoLocal)
    /\ owed' = CutOff(j)
    /\ LoseHold(j)
    /\ UNCHANGED <<now, lastSent, notes, mails>>

-----------------------------------------------------------------------------

Handle(j, r) == Skip(j, r) \/ PassCooldown(j, r)

Step(j) ==
    \/ \E r \in Rules : Handle(j, r)
    \/ Send(j) \/ SaveCooldown(j) \/ Trace(j) \/ StageDone(j)

Next ==
    \/ Tick
    \/ \E j \in Jobs : \/ Capture(j) \/ Evaluate(j) \/ Resend(j)
                       \/ Step(j) \/ Raise(j) \/ Exit(j)

Spec == Init /\ [][Next]_vars

-----------------------------------------------------------------------------
(* Properties *)

Automatic == {m \in mails : m.stage # "resend"}

\* BR04: unless two jobs held the rule at once, or a job was lost between
\* sending and storing, two automatic mails of a rule are at least a window
\* apart, from whichever part they come and whatever was resent.
MailsApart ==
    CooldownOn =>
       \A m1, m2 \in Automatic :
          m1 # m2 /\ m1.rule = m2.rule /\ m1.rule \notin disturbed /\ m1.at <= m2.at
             => m2.at - m1.at >= Window(m2.stage)

\* BR04 and BR06: a rule that is skipped has been mailed within the window; a
\* mail that failed, was never sent or was resent by hand silences nothing.
SkipHasCause ==
    \A n \in notes : n.status = "skipped_cooldown" =>
       \E m \in Automatic :
          m.rule = n.rule /\ m.at <= n.at /\ n.at - m.at < Window(n.stage)

\* The cooldown row of a rule is that of its latest automatic mail, or that mail
\* is about to be stored: whichever part sent it, whatever failed, was resent or
\* was skipped meanwhile.  Only sends that overlapped or were lost before they
\* were stored leave an older mail's time, never a time at which none went out.
CooldownIsLatest ==
    \A r \in Rules :
       /\ lastSent[r] # Never => \E m \in Automatic : m.rule = r /\ m.at = lastSent[r]
       /\ CooldownOn /\ r \notin disturbed =>
             \A m \in Automatic : m.rule = r =>
                \/ m.at <= lastSent[r]
                \/ \E j \in Jobs : /\ Holds(j, r) /\ pc[j] = "save"
                                   /\ arg[j].stage = m.stage /\ arg[j].at = m.at

\* A mail that is on record as sent was sent; and every rule a job matched or
\* was asked to resend is accounted for in the notifications, or in the job's
\* hands, whatever became of the rules before it, unless an exception or an
\* exit cut the job off: the trace shown to the user is what happened.
TraceIsTrue ==
    /\ \A n \in notes : n.status \in {"sent", "simulated"} =>
          [job |-> n.job, stage |-> n.stage, rule |-> n.rule, at |-> n.at] \in mails
    /\ \A d \in owed :
          \/ \E n \in notes : n.job = d.job /\ n.stage = d.stage /\ n.rule = d.rule
          \/ /\ pc[d.job] # "done" /\ arg[d.job].stage = d.stage
             /\ \/ d.rule \in arg[d.job].todo
                \/ pc[d.job] \in {"send", "save", "trace"} /\ arg[d.job].rule = d.rule

-----------------------------------------------------------------------------
(* What the documents say and the code does not do *)

\* A rule that is still in its cooldown is not mailed again (README.md:126).
NotResentInCooldown ==
    \A m1, m2 \in Automatic :
       m1 # m2 /\ m1.rule = m2.rule /\ m1.at <= m2.at
          => m2.at - m1.at >= Window(m2.stage)
=============================================================================
