# Verification of Screen Watcher Pro

This directory holds TLA+ models of Screen Watcher Pro, the TLC runs that check
them and the TLAPS proofs about them. The models are translated from the Python
source under `src/`; the documents (`README.md`, `RUNBOOK-PRD22.md`, the comments)
are used only where a run says that the code departs from them.

## 1. The system

Screen Watcher Pro is a Windows desktop application (Tk) and a FastAPI server.
Both open the same SQLite file, both build the same services
(`app/services/prd22_bootstrap.py`), and both may run at the same time. The desktop
application captures a window, runs OCR, evaluates rules on the text and sends
mail; the server offers a chat assistant, an admin site and the event review
workflow (PRD 2.2). There is no queue, no scheduler and no lock between them:
what they share is the database, where every statement the repositories execute
is committed on its own (`_BaseRepo._exec`, `repository.py:443`).

| component | state | operations | where it is hard |
|---|---|---|---|
| Event review workflow (`event_service`, `ai_review_service`, `rule_management_service`, `prd22_routes`, `admin_routes`) | tables `events`, `rules_db`, `ai_event_reviews`, `user_review_decisions`, `sos_alerts` | ingest, normalize, evaluate, AI review (background thread or request), user decision, rule create / update / status / enable / disable, YAML sync | every operation is a chain of separate commits and any two may overlap; a review takes as long as the language model; decisions are accepted at any time; the process may exit between two commits |
| SOS alerts (`sos_alert_service`, `jobs/sos_watcher_job`) | `sos_alerts.acknowledge_status`, `last_beep_at`, `beep_count` | create, beep, acknowledge | one watcher thread per process beeps from a snapshot; an alarm lasts seconds; an acknowledge may arrive meanwhile |
| Alert mails (`notification_service`, `event_service._notify`, `email_service`) | `cooldown_state`, `notifications`, `rule_evaluations` | process a capture, resend, notify for a DB rule | cooldown is read, mail is sent, cooldown is written; two captures or processes overlap; sending fails |
| Capture (`core/capture`, `ocr_service`, `capture_service`, `ui/capture_tab`) | `screenshots`, `ocr_results`, the tab's `_running` flag and result queue | capture, OCR, store, evaluate | worker thread against the Tk loop; a step of the chain fails after earlier ones are stored |
| Issue memory (`issue_vectorstore`, `chroma_issue_store`) | known issues in SQLite and their vectors in Chroma | classify, remember, backfill | check-then-create duplicates; two stores with no common commit |
| Database (`db/database.py`, migrations) | schema, legacy ids, seeded roles; the connection's implicit transaction | open, migrate, back up, seed, execute | two processes start at once; a crash in the middle of a migration; a failed statement leaves the transaction, and its write lock, open |
| Accounts and API authentication (`services/auth`, `ai/api_auth`, `users_tab`, the admin routes of `chat_server`) | `users`, JWTs, cookies | log in, change password, create / disable / delete user, check token | stateless tokens outlive the account's role; the last admin |
| Voice alert (`voice_alert_service`) | a cached model | alert | none: a sequence of fallbacks |
| Chat (`chat_server`, `chat_agent`, `conversation_store`, `opencode_adapter`, `chatbot_tab`) | `chat_sessions`, `chat_messages`, the tab's open session | chat with tool calls, stream, session CRUD | bounded tool loop, tools run concurrently, sessions created and deleted while a reply streams, clients that leave |
| Rule engine (`core/rule_engine`) | none | evaluate a rule on a text | five rule types, malformed conditions |
| Provider and application configuration, watcher context | none of their own | read files, tables and the environment | none: what they switch is a constant of the modules |
| Mock data | demonstration rows in a file without screenshots | first-run seed | a start that dies halfway through it |
| UI tabs, Jupyter tab, themes, admin templates, workshop material | widgets | display | none that a state machine would show |

How they interact: the capture service stores a screenshot and its OCR text,
calls the notification service, then `EventService.process_screenshot`, which
creates an event, evaluates the rules of `rules_db` and, for a matched incident
rule, creates an SOS alert, for another matched rule sends mail, and without a
match starts an AI review on a thread. The review may insert a draft rule. A
user decides on the review over HTTP or through a chat tool; the decision
activates or rejects the draft and closes event and review. The watcher threads
poll `sos_alerts` and beep until a user acknowledges.

What makes each component correct, in short: an AI-written rule never runs and
never alerts without a person's act (GR22-001, GR22-002), rejected rules are kept
with their reason (GR22-003), a status on an event has its cause on record; a
pending alert keeps beeping and an acknowledged one stops; a rule mails at most
once per cooldown and a failed mail does not start one; an issue is one row; a
database opened twice loses no row; a deleted user stays out; a question and its answer
stay in the session of whoever asked.

## 2. Modules

| module | what it is |
|---|---|
| `RulesDb` | rows of `rules_db`; what a status change writes; what the governance guard admits |
| `RuleApproval` | abstract: who stands behind a rule, and when it may fire and alert |
| `ReviewWorkflow` | the review workflow: every handler as a sequence of committed steps; implements `RuleApproval` |
| `ReviewInvariant` | the inductive invariant of `ReviewWorkflow` |
| `ReviewWorkflow_proofs` | theorems about `ReviewWorkflow`, and the refinement |
| `SosWatcher`, `SosWatcher_proofs` | the watcher thread of each process over the shared `sos_alerts`, and the shutdown of its process |
| `Alerting`, `Alerting_proofs` | alert mails, their cooldown and their trace, from both rule stores |
| `Accounts`, `Accounts_proofs` | `users`, tokens and desktop sessions under the server, the assistant's tools and the Users tab |
| `CaptureFlow`, `CaptureFlow_proofs` | captures of the Capture tab and of the server over one screen, and the tab's worker and polls |
| `Chat`, `Chat_proofs` | turns of the assistant: sessions, tool loop, streams, storing, the Chatbot tab |
| `RuleEngine` | `evaluate_rule` as an operator, and what its header promises |
| `IssueMemory`, `IssueMemory_proofs` | new and known issues: the SQLite table, the Chroma collection, back-fill |
| `DbStart`, `DbStart_proofs` | how a process brings up the database file: schema, id rebuild, migrations, seeds |
| `MC...` | model values, definitions and symmetry for TLC |

`ReviewWorkflow` extends `RulesDb` and is the detailed side of `RuleApproval`; `IssueMemory`
extends `RuleEngine`. The other components meet in
the database only, and each is modelled with the others' effect on it as free
choices: `ReviewWorkflow` raises alerts, `SosWatcher` takes them from anywhere
(`Create`), `Alerting` takes any set of matched rules from either store, `CaptureFlow` hands a
text on (`HandOn`) and swallows what the pipeline raises, and `Chat` lets tools run and finish.

### RuleApproval

Three variables: `standing` (a rule is absent, a draft, imported, or answered for by a person),
`fires` (the rules the evaluator runs) and `alarmed` (the rules that raised an alert). The
refinement mapping in `ReviewWorkflow` is `Standing`, computed from `created_by`, the decisions
on record and the rules an admin wrote to; `ActiveRules`, what `list_active` returns; and the rules
of `sos_alerts`. It is not an invariant in disguise: it forbids a step that silences an
imported rule before a person has answered for it, takes an answer back, or moves two rules at once, all of which an invariant on states
would let pass.

### ReviewWorkflow

`rules`, `events`, `reviews`, `decisions` and `sos` are the tables.
A *handler* is one execution of a request or a job; `pc[h]` is its next commit
and `arg[h]` its Python locals. The rows of `ai_event_reviews` and
`user_review_decisions` are named by the handler that inserts them: a handler
inserts at most one of each. `adminRules` is a history variable (the rules an
admin route has written to), and so is the field `rule` of a decision (the draft
the decision was made about). Each action is one commit together with the reads
and tests since the previous one, so a value read earlier and used later sits in
`arg[h]` while other handlers run:

* `Ingest`, `Normalize`, `BeginEvaluate`, `LoadRules`, `RaiseSos`, `RouteEvent`
  follow `EventService`. The rule engine's verdict is a free choice: any subset
  of the active rules may match. `RouteEvent` continues as the review
  (`review_async` starts the thread as evaluate's last act).
* `BeginReview` to `QueueForUser` follow `AiReviewService.review`. The model's
  reply is free: a failure, a reply without a draft, or any draft columns.
* `Decide` to `CloseReview` follow `apply_user_decision`: the decision row first,
  then the draft, the event, the review. The event and the review are whatever
  ids the caller gives, in whatever status they are; the review may belong to
  another event or be unfinished. An `EDIT` may write any value into the columns
  `update_rule` allows.
* `BeginCreate` to `DisableRule` follow the admin's rule routes (API and admin
  site); `PutRule` writes the status text before `PutStatus` validates it.
* `BeginSync` to `ImportYamlRule` follow `sync_yaml_to_db`.
* `Crash` ends a handler between two commits: the process exits, or an exception
  nobody catches (a draft whose fields have the wrong types, a stored condition
  that is not an object) leaves the function.

Left out: the audit rows, the mail path of a match (`_notify`, which is `Alerting`'s),
`rule_test_results`, names, texts, severities and version counters. A decision's
`reject_reason` is validated before anything is written, so `Decide` takes only
decisions that pass; a refused request changes nothing.

### SosWatcher

`status` and `age` are the columns of `sos_alerts` that matter: the age is the
number of ticks since `last_beep_at`, and since only "older than the window" is
ever asked it stops at `Cooldown + 1`, which is also the age of a row that never
beeped. `thread[p]` is the line of `SosWatcherJob.run` the watcher of process `p`
has come to, `queue[p]` the rows of its snapshot it still has to deal with;
`main[p]` is the process: up, in `stop()`, past it, connection closed. A poll
(`List`) reads the snapshot; `Alarm` and `Mark` of each row are steps of their
own, because an alarm beeps for seconds; `DbFails` and `AlarmRaises` are the
`except` around the loop, which drops the rest of the snapshot. `banner` says
whether an alert's banner prints, raises when it is printed (`garbled`), or raises once more when
that error is reported (`fatal`). `rich` is an optional library and is taken from how the code calls
it; `ShadowedStop` says whether the Python in use is older than 3.13, whose
`Thread.join` and `is_alive` call the attribute `_stop` the job has replaced by
its event. `mine` and `late` are history variables. The pause between polls is not a step:
a tick is any amount of time.

### Alerting

A *job* is a capture (`CaptureService._capture_one`: the file's rules, then the
event pipeline), a re-evaluation of an event, or a resend of one mail. For each
matched rule it reads the cooldown (`Skip` or `PassCooldown`), sends (`Send`), stores
the cooldown (`SaveCooldown`) and stores the notification (`Trace`), each in a
commit of its own. What it carries is the time at which it read the cooldown; that is what
`set_cooldown` stores. `stage` says which of the two code paths a job is in: they have
windows and a switch of their own (`Window`, `InForce`) and share
`cooldown_state`. Rules match in any order and any combination; owners without an
address, dry runs, failing mails, exceptions (`Raise`, after which a capture goes
on with its second stage) and exits are there. `mails` and `disturbed` are history
variables; the clock stops at `MaxTime`. `resend` carries the notification's rule;
that it touches no cooldown is the code's choice. Left out are the rows of
`rule_evaluations`, the wording, the voice alert and the issue memory, whose failure
is `Raise`. `owed` remembers the rules each job matched, less what an exception or an exit cut off.

### Accounts

`users[i]` is the row of an account, `None` before and `Gone` after; `tokens` are the bearer tokens
and cookies that have not expired, with the role they were issued for; `desk[d]` is the session of a
desktop; `act[a]` is what a server thread or a desktop is in the middle of. Every operation is cut
where it commits: `AdminCreate`, `TabAdd` and `ToolCreate` check the name and `Insert` writes it;
`BeginUpdate` looks the account up and `CheckName`, `Rename`, `SetRole`, `SetActive`, `ResetPassword` follow one by one, each
of which may end the request with an error; `ChangeMine` and `ForcedChange` verify (`Verify`) and then
`ChangePassword` writes; `AdminDelete` and `ToolDelete` check and then `SoftDelete`; the Users tab's `TabDelete` removes
the row, unless a foreign key holds it (`Removable`, and `referenced`, the ids other tables name). `expire` drops tokens
at any time. A promotion that falls between `AdminDelete`'s check and `SoftDelete` is lost with the account, as in the
code. Left out: hashing and the rules for passwords, permissions below the role (only `admin`
holds `user.manage`), display names and e-mail addresses.

### CaptureFlow

`foreground` and `open` are the desktop's windows (external: the person may take the focus or close
a window at any time), `rows` is `screenshots`, `job[t]` a capture in progress on a worker of the tab or a thread
of the server, `tab` the Capture tab (its flag, armed polls, its worker, the queue). A capture of one
target finds or launches the window, pushes it to the front until it is there (`Push`, `Look`), waits and
looks once more (`Settle`), and grabs; then it saves the PNG, stores the row, reads the text, stores it,
hands on and writes the `.txt`; a failure at the first half stores a failed row (`StoreFailure`), at the disk it raises. The
worker puts one message into the queue (`Report`), which `PollQueue` takes; signing out (`SignOut`) makes a new
tab while the old worker runs on.

### Chat

`sessions` holds the rows and the messages in the order a transcript lists them; `turn[t]` is the
request on a server thread, or the turn of the Chatbot tab. A turn resolves its session (`Resolve`,
`CreateSession`: two commits), prepares, then asks the model (`Request`) until it answers or the steps are used up;
the calls of a batch run concurrently and finish in any order (`RunBatch`); then question and answer
are stored in one commit (`Store`). A streamed turn may be left by its client between two events (`Leave`, `LeaveEarly`,
`CloseStream`). The tab's buttons (`OpenTab`, `Refresh`, `OnSelectSession`, `NewSession`, `Send`, `FinishResult`) run in between.
`running` is a history variable. `SameMs` says whether the two ids of a turn may come from one millisecond.

### RuleEngine and IssueMemory

`EvaluateRule` translates `evaluate_rule` for the five types over texts and terms of a few words, with
the pattern that does not compile and the rule without keywords. `Agrees` states the promise of the
header independently, in terms of what is in the text. `IssueMemory` uses the engine on every
capture and then classifies: `Search` in the collection or the table, `Touch` and the two-call bump
(`BumpGet`, `BumpPut`), or `Create` and `Add`. `store[a]` is a process's store and how it opened
(`OpenStore`, `ListRows`, `Fill`, `FallBack`). Vectors are counts of hashed words with
cosine compared by cross-multiplication; the real dimension and hash are constants. A call may fail and a process may
die at any step.

### DbStart

`live` and `old` are the tables and those renamed to `__old`, with the type of their ids and the
password column; `app[a]` is a start in progress (`init_schema`, then the first-run demo data for a desktop). One action is what commits as one:
each DDL statement by itself, the inserts of a transaction together. `Stop` is a death or an exception, after which the
process may start again. A demo execution gets an id nobody has (`Unused`), so two desktops that both find the table
empty both add theirs, as the code does. `cut` and `legacy` are history variables. The ten tables are a
constant sequence `Tables`.

### Properties

| property | says | hazard |
|---|---|---|
| `Approves` | every step is one of `RuleApproval` or changes nothing it speaks of | stale drafts, reopened decisions, racing inserts, imports |
| `SosNeedsHuman` | an alert's rule is a user's, or edited by a person | snapshot of active rules |
| `IncidentNeedsHuman` | CONFIRMED_INCIDENT rests on a flag a person had set before that decision | flag read before the edit |
| `DraftIsOwn` | a review's draft is its own insert and nobody else's | rule_id races |
| `OutcomeNeedsDecision` | a final event status has a decision of its kind | interleaved status writes |
| `PendingHasReview` | a waiting event has a completed review, a closed review has its decision | crashes, late writes |
| `RejectionHasReason` | a REJECT decision never leaves a rule without reason | partial updates |
| `DecisionTakesEffect` | a decision under way reaches its last write | overlapping writes |
| `MatchedIncidentAlerts` | every matched incident rule raises its alert | rules disabled meanwhile |
| `LateRingOnce` | a terminal rings an acknowledged alert at most once more | stale snapshot |
| `OncePerWindow` | a terminal that stamped an alert is silent about it for the window | two watchers stamp the same rows |
| `DueRings` | a due alert behind printable ones rings or is acknowledged, if the statements of some watcher succeed from some point on | failures drop a snapshot; older alerts fall due again |
| `StopEndsLoop` | a job told to stop leaves its loop | connection closed under it |
| `MailsApart` | automatic mails of a rule are a window apart, unless its sends overlapped or one was not recorded | check, send, store |
| `SkipHasCause` | a rule skipped for its cooldown was mailed within the window | failed or resent mails, late stores |
| `CooldownIsLatest` | the cooldown row is the time of an automatic mail, and of the latest unless sends overlapped or were lost | sends that end out of order; two code paths over one row |
| `TraceIsTrue` | notifications agree with mails, and every matched rule is accounted for | failures between send and store; one rule's mail fails among several |
| `NamesUnique` | two accounts never share a name | three surfaces check, then insert or rename |
| `TrailKept` | an account that audit rows or screenshots name is never removed | hard delete against soft delete |
| `AdminFromAdmin` | an account becomes an administrator in an administrator's step only | self-registration, stale tokens |
| `LockoutLasts` | a deleted account with no token, session, sign-in or operation left is out for ever | an update that looked it up before the deletion; stale tokens |
| `ForeignPasswordFlagged` | a password set by another is one the owner must change | reset against own change |
| `ResultsAreStored` | results name stored successes of their own targets, none twice | concurrent captures |
| `EveryTargetStored` | every result, failed ones too, has its row | a target fails among several |
| `RunEnds` | a run from the tab gives the tab back, if no capture raises | thread, queue and poll |
| `OwnTurns` | nobody's words come into another's session | one id named by two clients; admins reading |
| `ProviderProtocol` | each batch of calls is followed by its results in order | concurrent tools |
| `DeskTurnsWhereSent` | the tab's turn is stored where it was asked | clicks while it runs |
| `DeletedTurnsWereRunning` | a deleted session is only added to by turns that were at work in it | delete against a running turn |
| `TurnsEnd` | a stream that asks the model is stored or its store fails; the tab is given back | clients that leave |
| `EngineAgrees` | every evaluation is the one the header promises | empty keywords, bad patterns |
| `IndexBehindRecord` | the collection mirrors the table and never counts more | back-fill, lost and repeated calls |
| `DuplicateHasCause` | two near issues overlapped, were cut off, or one was never given to Chroma | check-then-create over two stores |
| `RowsKept` | every legacy row is in its table or the one set aside, and in the backup | deaths and overlaps in the rebuild |
| `StrandedHasCause` | a process that is up finds every legacy row, unless a rebuild is under way or was cut off | the same |
| `IdsFit` | every row, in place or set aside, has an id of its table's type | seeds and demo data of one start beside the rebuild of another |

`Accounts`, `CaptureFlow`, `Chat` and `IssueMemory` have their `TypeOK` in a run; that of `CaptureFlow` also says that there is exactly
one chain of polls while the tab is disabled, that of `Chat` that `message_count` is the number of messages.
`ReviewWorkflow`, `SosWatcher`, `Alerting` and `DbStart` have theirs proved, as are `AiRuleNeedsHuman` and `NoAiRulesWhenOff`.

What some properties do not say: `RejectionHasReason` is about decisions, not about a PUT of the status (`ReviewWorkflow_reject_reason`);
`AdminFromAdmin` counts a stale token as an administrator; `ForeignPasswordFlagged` leaves out the owner's own change, which may
overwrite a reset (`Accounts_reset`); `StopEndsLoop` is about the end of the loop, not about `stop()`, whose join may raise, or the database left open.

`disturbed` in `MailsApart` is not an escape that empties it: a rule enters it only
when two jobs held it at once or a job was lost between sending and storing, and
the run has captures of one rule that do neither, one after another and in both stages. The same holds of the
causes `DuplicateHasCause` and `StrandedHasCause` name.

### Hazards beyond the list

`PROJECT.json` lists the hazards that weigh most. Smaller ones: `enable_rule` reads ACTIVE and writes the flag in
two statements (modelled: `BeginEnable`, `EnableRule`); audit rows are a commit after what they record; slow sends store their start times
out of order (modelled: `SaveCooldown`); a cooldown of 0 means the default (modelled: `Window`); a user update may stop
after some fields (modelled); two captures of one target within a millisecond share a file name; the
capture worker reads the signed-in user when it starts to run.

## 3. Runs

Bounds of `ReviewWorkflow`: a handler runs once, so the size of `Handlers` bounds the number of
requests. Three handlers are the least that make the interesting cases (an event
with its review, and two more that race on the draft or the event). Two rules let a YAML rule
and a draft meet; one event is enough because handlers touch an event only
through its id. `live` has one rule and the operations that race with a decision or an alert, without crashes. The theorems of section 4 hold
for every size.

Bounds of `SosWatcher`: two processes, since a third could only do to the
first what the second does; two alerts, the least with an order in the snapshot;
a window of 0, so that an age is within the window or beyond it, which is all the code asks.
Every alert's banner may be of any kind. The theorems hold for every size and window.

Bounds of `Alerting`: two jobs, a rule that is in both stores and one without owner, and one tick more than
the longest window, for a skip and a mail after the window. The windows of the two stores differ, and that of the file
is its zero case (`cooldown_minutes: 0`). No run has dry runs, which differ from successful mails in the
status text alone, or the switched-off cooldown, under which `MailsApart` is not claimed.

Bounds of `Accounts`: two threads and a desktop, three accounts (the seeded one and two more), two names and
passwords, five requests: enough for an administrator, a victim and a race of two requests about it, with a sign-in before each.
`ConfiguredRole` is `admin`, the setting registration must not follow.

Bounds of `CaptureFlow`: two workers (an old tab's and the new one's) and a server thread that is asked for an
unconfigured target and a real one; two targets; one push to the front, since the six of the code repeat the same step; two captures.

Bounds of `Chat`: two requests of two users naming one id, one turn of an administrator's tab, two steps, batches of two calls
(one call for `transcript`).

Bounds of `IssueMemory`: two processes, two captures at a time, three captures, three issues, rules of each type (a pattern that compiles and one that
does not, keyword rules with and without keywords) and texts of two words that give the same, a near and a distant
vector. Bounds of `DbStart`: three of the ten tables (one with defaults, the users, the
screenshots), two desktops and the server, three starts, two demo executions each with four ids to take from, which two
desktops do not use up; processes and ids are symmetric. The proofs cover any tables and starts.

| run | shows |
|---|---|
| `rules` | all operations of the review workflow, with crashes: it implements `RuleApproval`, and what drafts, alerts, outcomes, waiting events and rejections rest on |
| `live` | decisions against each other and late reviews, evaluations against rule changes: each takes effect |
| `sos_watch` | two watchers with acknowledgements, unprintable alerts, failing statements, shutdowns, exits, restarts |
| `mail` | captures, evaluations, resends with every kind of fault |
| `accounts` | every account operation of the three surfaces, in every order of their commits |
| `capture` | concurrent captures with lost focus, closed windows, failing disk and OCR, signing out |
| `chat` | requests, streams and a tab that share sessions; deletions and clients that leave |
| `issues` | two processes and captures with failures and deaths over SQLite and Chroma |
| `db_start` | overlapping, dying and repeated starts on new and legacy files |
| `wrong_shot` | violated: a capture stores the window of another as a success (`capture.py:274`) |
| `transcript` | violated: an answer may be listed before its question (`repository.py:313`) |
| `admin_unforced` | violated: the rebuild of a legacy file lets the built-in administrator keep its password (`database.py:373`) |

The violated runs state what a document or comment says; each counterexample is a run of
the code. Further departures have a configuration to run by hand
(`tlc -config X.cfg MCModule`), each violated:

| configuration | property | departure |
|---|---|---|
| `ReviewWorkflow_reject_reason` | `RejectedHasReason` | a PUT with status REJECTED is answered 400 and leaves the row REJECTED without reason (`prd22_routes.py:255`; GR22-003, `002_prd22.sql:32`) |
| `ReviewWorkflow_unlisted` | `WaitingIsListed` | a decision on an unfinished review leaves the event in USER_REVIEW_PENDING with no review listed (`rule_management_service.py:207`, `repository.py:620`) |
| `SosWatcher_starved` | `EveryDueAlertRings` | an alert that cannot be printed comes first in every poll and those after it never ring (`sos_watcher_job.py:63`) |
| `SosWatcher_terminal` | `OwnTerminalRings` | the process that polls first silences the terminal of the other (`sos_watcher_job.py:64`, `run.py:69`) |
| `Alerting_twice` | `NotResentInCooldown` | overlapping captures both mail within the cooldown (`notification_service.py:129`; BR04, `README.md:126`) |
| `Accounts_reset` | `ResetHolds` | a reset during the owner's own password change is overwritten, with its flag (`auth.py:98`, `users_tab.py:91`) |

Departures that the models show as well and that have no configuration of their own:

* A decided event goes back into review when a late review, a re-evaluation or a
  normalization writes its status (`ai_review_service.py:167`; flow in `002_prd22.sql:9`).
* Two reviews that draft one `rule_id` at once: the loser's `IntegrityError` is not among the
  errors line 163 of `ai_review_service.py` catches, and its review stays PENDING.
* An alert acknowledged after a watcher's snapshot still sounds, once (`sos_watcher_job.py:63`,
  RUNBOOK-PRD22.md:65); `LateRingOnce` says it is no more than once.
* A banner with a stray closing tag ends the watcher thread, because the error report
  is parsed as markup too (`sos_watcher_job.py:65-67`, "the alarm loop must never die").
* Before Python 3.13 `stop()` raises when it joins the finished thread, since the job's `_stop` event
  hides `Thread._stop` (`sos_watcher_job.py:52`), and `run.py:133` does not close the database.
* A slow send stores its start time over that of a later send
  (`notification_service.py:155`), which moves the end of the window forward.
* `cooldown.enabled: false` does not reach the rules of `rules_db` (`event_service.py:174`).
* Two administrators may demote or disable each other, and none is left (`chat_server.py:531`).
* After a capture that raises, the Capture tab logs the error and stays disabled (`capture_tab.py:176`): why `RunEnds` asks that none does.
* After a rebuild that died in its renames every later start raises at the first name that is taken; after one that
  died behind them the next start sees text ids, seeds a default administrator and never looks at the tables set aside (`database.py:326`).
* A start that runs beside another may take the backup `.pre-prd22.bak` after the migration it is to precede (`database.py:257`).

Deadlock is not checked: handlers and jobs finish, threads end, the clock of
`Alerting` stops, requests, starts and captures are bounded, and nothing has to start another one.

Fairness: a handler of `ReviewWorkflow` that has started takes its next step. A request
or a thread runs to its end unless its process dies, and `Crash` is not among the
operations of `live`; the language model call ends because it has a
timeout. No request has to be made. In `SosWatcher` time passes and a thread
that runs takes its next step (the loop waits with a timeout; the alarm's sleeps end);
statements on a closed connection fail, which is why `DbFails` is fair then and only
then; nothing has to be created, acknowledged, started or stopped. `DueRings` asks
for a process that is watching for ever from some point on, and gets no more from
fairness. In `CaptureFlow` threads are scheduled and Tk runs its timers; nobody has to press a button, move a window or sign out.
In `Chat` a turn goes on because the provider, the CLI, the tools and the database have time limits; nobody has to send, leave or delete.
`Alerting`, `Accounts`, `IssueMemory` and `DbStart` are checked for safety alone and assume no fairness.

## 4. Proofs

`ReviewWorkflow_proofs` proves, for all sets of handlers, events and rules, any
YAML file and both switches, nine theorems `Spec => []P`: `TypeOK`, `AiRuleNeedsHuman`, the six
state properties of the run `rules`, and `NoAiRulesWhenOff` (with drafting switched off
the AI adds no row). None of them is inductive alone. `Core`
(in `ReviewInvariant`) adds what a step says about the locals of its handler
(`LocalsAt`), that a deciding handler still has the decision row it stored
(`DecidingAt`), that an unfinished review has no draft (`ReviewingAt`), and that
no two handlers claim one draft, counting the draft inserted and not saved yet
(`ClaimsOK`). The proof that `Core` is kept splits into what a step leaves alone
of the other handlers (`OthersKept`, `ReviewsKept`, `RulesKept`), and what it does
to its own locals (`EventStepOK` and its siblings). On `Core` rest `RuleChanges` and
`EventChanges`, which list everything a step may do to a rule or an event, and
from these each governance property follows in a few lines. Incident flags need
two more invariants: `IncidentRulesVetted` (a set flag is a person's doing, also in
the snapshots evaluations work from) and `IncidentFlagOK` (for the flag a decision
carries). Assumed: `None` is no id, YAML rules are rules, the switches are Booleans.

The last part of the module proves `ImplementsApproval`, `Spec => Approves`, under the same assumptions. The invariant is `Core`,
`AiRuleNeedsHuman` (so that a draft nobody answered for does not fire, and silencing it is a stutter), `IncidentRulesVetted` (so
that an alert's rule is answered for) and `RowsBehind` (a rule an admin wrote to, or a decision is
about, has its row). `WrittenRow` says that a step writes one row at most and what that row then is (`RowStep`);
`RowMaps` maps it to `Draft`, `Import`, `Answer`, `Switch` or a stutter; `DecideMaps` and `RaiseSosMaps` treat the two steps that write no rule.

`SosWatcher_proofs` proves `WatchInv`, `LateRingOnce` and `OncePerWindow` for any
processes, any number of alerts, any window and any unprintable alerts. `WatchInv`
is inductive. Its parts: the row is at least as young as a process's own last stamp
(`MineIsOlder`; the other process may have stamped since), so what is due in the
table is due for the process and stays so while it is in the snapshot
(`SnapshotIsDue`); and an alert rung late is acknowledged, so no later poll lists it,
and in the current snapshot it is at most the one about to be stamped (`LateIsOver`).
`MoveKeeps` handles every step that only moves the thread. The two action
properties then follow from what `Rings` says of the thread before the step.
Assumed: the number of alerts and the window are naturals.

`DbStart_proofs` proves `TypeOK`, `RowsKept`, `StrandedHasCause` and `IdsFit` for any sequence of tables, any rows, any processes and any
number of starts. The inductive `DbInv` is the types, `RowsKept`, and that every legacy row is in its
table, or a rebuild is under way, or one was cut off. Most steps make the tables cover what they
held (`Covers`, `CoverKeeps`); the rename moves a table into a place that is free (`RenameKeeps`), and the copy drops the tables it has
copied only in the transaction that has inserted all their rows (`CopyKeeps`).
`IdsFit` needs to know where each start is (`IdsInv`, `Progress`): a start past its renames, or past a check that found nothing to rebuild,
leaves no table of integer ids behind it, and no step makes one; what it writes then fits (`WritesFit`).
Assumed: the tables are distinct and have the users and the screenshots among them, no other default row is an administrator's, and the
id of a demo execution is that of no default or legacy row.

`Alerting_proofs` proves all four properties of the run `mail`, for any jobs, rules, windows (the
two code paths may have different ones) and length of the clock. `MailsApart` alone says nothing of a
mail that is sent and not stored, so `AlertInv` adds: a rule nobody disturbed has one
holder (`OneHolder`); every automatic mail of it is covered by the stored cooldown or is the
holder's own, about to be stored (`Covered`); and the holder read the cooldown a window after every mail but its own
(`WindowLater`). `SkipHasCause` rests on `Remembered` (a stored cooldown is an automatic mail's, never a
resend's or a failed one's), `TraceIsTrue` on `SentBefore`, and `CooldownIsLatest` on `Remembered` and `Covered`. `TypeOK` is proved first. Assumed: windows are naturals.

`Accounts_proofs` proves the three state properties and the three action properties of the run `accounts`, for any
threads, desktops, names, passwords and roles, and either policy of registration. `AccountsInv` says what a request has in hand at each of its commits (`Carries`:
an insert has a row, an update its target) and what its caller may do (`MayDo`: only an administrator's request
inserts an administrator or comes to the role, and a password is changed by its owner). `Good` lists what a step may do
to a row (insert under a free name, update, remove), to the trail and to sign-ins; each operation is shown to be `Good`, and
the properties follow from `Good`. `LockoutLasts` rests on two more of its parts: what an actor takes up is a sign-in to a live account
or the request of somebody with a token or a session (`ClaimStep`), and those are of accounts somebody could act for already (`HandsStep`).
Assumed: `None` and `Gone` are no rows, tokens or sessions.

`Chat_proofs` proves the five safety properties of the run `chat`, for any threads, users, administrators and ids, any number of steps, of
calls in a batch and of turns. `ChatInv` adds to the types: a turn at work is in a session of its user
(`Fits`; the owner of a row never changes and a deleted row stays); the transcript of the model has results
for every batch but the one that runs (`Protocol`); the tab's turn is in the session the tab has open (`TabFits`: `busy` keeps it there);
a row counts its messages, all its owner's, and a deleted one has all that work in it among those that ran (`Kept`). Assumed: the desktop is no thread of the server, its user is a user, `None` is no id and no row, and the steps and turns are counted by naturals.

`CaptureFlow_proofs` proves the three state properties of the run `capture`, for any workers, threads, targets and requests,
any number of attempts and runs and any of the faults. `CaptureInv` says that a capture past the save has its own stored success in hand, that
its results name stored successes, each once (`Fits`), that no two captures claim a row, counting
the row in hand (`Apart`), and that its failed results of a target are no more than the target's failed rows (`FailuresCounted`;
the successes are counted through their rows, which tell them apart). `TabOK` is one chain of polls while the tab is disabled and none else.
Assumed: workers and server threads are different, the model values are no targets, and requests are sequences of targets.

`IssueMemory_proofs` proves the four properties of the run `issues`, for any rules, texts and words, any hash, dimension, threshold and
bounds, and any processes and captures. Its first part is about operators alone: a folded comparison finds a term where the words are alike
(`FoundIs`), so the verdict of each kind of rule is the promised one (`EngineIsRight`); and an issue of the best score is near
where any is (`NearestReaches`, by well-foundedness of the sets of better ones, and cross-multiplication). Its second part is
`IssueInv`: an entry is behind its row by the captures that have counted an occurrence in the table and not yet in the collection
(`Behind`; a count read before the write back is behind it too, in `Fits`), what a start listed is no newer than the rows (`Listed`), an
issue answered for by Chroma is in the collection, and a capture about to create is near nothing answered before it began, but for rows of
SQLite. Most steps only need that rows and entries stay (`Grows`, `FitsOn`, `BehindOn`). Assumed: what `IsRule` says of a rule
(a `contains` rule has one value), and that captures are finitely many.

Only model-checked: the liveness properties, `DecisionTakesEffect`, `MatchedIncidentAlerts`, `DueRings`, `StopEndsLoop`, `RunEnds` and
`TurnsEnd`, because liveness under fairness is out of the prover's reach; and the violated ones.

## 5. Not modelled

* Voice alert: fallbacks around audio libraries that keep no state but a cached model.
* Provider and application configuration, watcher context: read files, tables and the environment; what
  they switch is a constant of the modules.
* Audit rows: appended and displayed only.
* Display tabs, admin templates, the Jupyter tab, workshop material, test pages: no state of the program.
* Of the database: the lock of a connection and the transaction a failed statement leaves open
  (`repository.py:23-27` has no rollback, so the connection holds the write lock until its next commit), torn backups, foreign-key
  remapping during the id rebuild, files with mixed id types.
* Of the capture: file names, pixels, minimized windows. Of the chat: prompt texts, titles, the proxy of the widget.

## 6. Plan

1. An abstract specification of the mails (at most one a window for jobs that do not overlap), implemented by `Alerting`.
2. The shared connection with its lock and the transaction a failed statement leaves open, under the actions of `Accounts`.
