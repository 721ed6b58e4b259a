-------------------------------- MODULE Chat --------------------------------
(***************************************************************************)
(* The assistant's conversations: requests of the server (answered at once *)
(* or streamed) and the desktop's Chatbot tab take turns in sessions of    *)
(* the shared database.  A turn finds or creates its session, runs the     *)
(* agent's loop of model requests and batches of concurrent tool calls,    *)
(* and stores the question and the answer.                                 *)
(*                                                                         *)
(* What tools do is in Accounts, ReviewWorkflow and CaptureFlow; here they *)
(* only run and finish.  Texts, titles and the watcher context are left    *)
(* out.                                                                    *)
(***************************************************************************)
EXTENDS Naturals, Sequences, FiniteSets, TLC

CONSTANTS
    Servers,    \* threads of the server, each for one request
    Desk,       \* the thread of the Chatbot tab
    Users,
    Admins,     \* the users with role admin
    DeskUser,   \* the user of the desktop
    Given,      \* ids of sessions that clients name
    Asked,      \* what a request may name: some of Given, or None
    MaxSteps,   \* MAX_TOOL_STEPS (6 in the code)
    Batches,    \* sizes of the batches of tool calls
    MaxSends,   \* a bound: turns of the desktop
    SameMs,     \* whether the two rows of a turn may be made in one millisecond
    None

ASSUME ChatAssumption ==
    /\ Desk \notin Servers
    /\ Admins \subseteq Users /\ DeskUser \in Users
    /\ None \notin Given \cup Users /\ Asked \subseteq Given \cup {None}
    /\ MaxSteps \in Nat \ {0} /\ Batches \subseteq Nat \ {0} /\ MaxSends \in Nat
    /\ SameMs \in BOOLEAN

VARIABLES
    sessions,  \* id -> row of chat_sessions with its messages, or None
    turn,      \* thread -> its turn
    desk       \* the Chatbot tab

vars == <<sessions, turn, desk>>

Threads == Servers \cup {Desk}

\* A generated id is named by the turn it is generated for.
Ids == Given \cup (Threads \X (0..MaxSends))
Uuid7(t) == <<t, IF t = Desk THEN desk.sends ELSE 0>>

\* log is chat_messages in the order a transcript lists them; running is a
\* history variable: who was at work in the session when it was deleted.
MessageRow == [by : Threads, user : Users, role : {"user", "assistant"}]
Row == [owner : Users, deleted : BOOLEAN, count : Nat, log : Seq(MessageRow),
        running : SUBSET Servers]

\* None stands for the absence of a row or an id, and is neither.
ASSUME NoneAssumption == None \notin Ids \cup Row

FreshSession(owner) ==
    [owner |-> owner, deleted |-> FALSE, count |-> 0, log |-> <<>>, running |-> {}]

Message(t, role) == [by |-> t, user |-> turn[t].user, role |-> role]

\* sent is what the model is sent after the question.
Calls(n)  == [kind |-> "calls", n |-> n]
Result(i) == [kind |-> "result", n |-> i]

Idle == [pc |-> "idle", user |-> None, session |-> None, mode |-> "json", step |-> 1,
         calls |-> 0, sent |-> <<>>, stored |-> "no"]

\* A turn that is over, and what became of its rows.
Over(t, stored) == [Idle EXCEPT !.pc = IF t = Desk THEN "finish" ELSE "done", !.stored = stored]

Live == {s \in Ids : sessions[s] # None /\ ~sessions[s].deleted}

\* _load_sessions: an administrator sees everybody's.
Listed == {s \in Live : DeskUser \in Admins \/ sessions[s].owner = DeskUser}

Init ==
    /\ sessions = [s \in Ids |-> None]
    /\ turn = [t \in Threads |-> Idle]
    /\ desk = [opened |-> FALSE, session |-> None, busy |-> FALSE, readonly |-> FALSE,
               listed |-> {}, sends |-> 0]

Goto(t, pc) == turn' = [turn EXCEPT ![t].pc = pc]
-----------------------------------------------------------------------------
(***************************************************************************)
(* Finding the session.                                                    *)
(***************************************************************************)

\* POST /api/chat, with or without stream, with or without a session.
Ask(t) ==
    /\ t \in Servers /\ turn[t] = Idle
    /\ \E u \in Users, s \in Asked, mode \in {"json", "sse"} :
           turn' = [turn EXCEPT ![t] = [Idle EXCEPT !.pc = "resolve", !.user = u,
                                                    !.session = s, !.mode = mode]]
    /\ UNCHANGED <<sessions, desk>>

\* Whose session may be continued (mutants: without the owner, without deleted_at).
OpenToAnyone(s, u)  == ~sessions[s].deleted
OpenIfOwned(s, u)   == sessions[s].owner = u
Accessible(s, u)    == ~sessions[s].deleted /\ sessions[s].owner = u

\* ensure_session reads; an unknown id will be created.  The tab does not ask
\* again about the session it has open.
Resolve(t) ==
    LET s == turn[t].session
    IN  /\ turn[t].pc = "resolve"
        /\ IF s = None \/ sessions[s] = None THEN Goto(t, "create")
           ELSE IF turn[t].mode = "desk" \/ Accessible(s, turn[t].user) THEN Goto(t, "prepare")
           ELSE turn' = [turn EXCEPT ![t] = Over(t, "no")]
        /\ UNCHANGED <<sessions, desk>>

\* The insert; an id created meanwhile by another request is an IntegrityError.
CreateSession(t) ==
    LET s == IF turn[t].session = None THEN Uuid7(t) ELSE turn[t].session
    IN  /\ turn[t].pc = "create"
        /\ IF sessions[s] = None
           THEN /\ sessions' = [sessions EXCEPT ![s] = FreshSession(turn[t].user)]
                /\ turn' = [turn EXCEPT ![t].pc = "prepare", ![t].session = s]
                /\ desk' = IF t = Desk THEN [desk EXCEPT !.session = s] ELSE desk
           ELSE /\ turn' = [turn EXCEPT ![t] = Over(t, "no")]
                /\ UNCHANGED <<sessions, desk>>
-----------------------------------------------------------------------------
(***************************************************************************)
(* The agent's turn.                                                       *)
(***************************************************************************)

\* The loop is over: what is left is to store the turn.
ToStore(t) == turn' = [turn EXCEPT ![t].pc = "store", ![t].step = 1,
                                   ![t].calls = 0, ![t].sent = <<>>]

\* _prepare: the prompt is built.
Prepare(t) ==
    /\ turn[t].pc = "prepare"
    /\ Goto(t, "request")
    /\ UNCHANGED <<sessions, desk>>

\* The mock, a missing key and the OpenCode CLI, which has no tools, answer at once,
\* with a reply or an error that is stored like one.
AnswerAtOnce(t) ==
    /\ turn[t].pc = "prepare"
    /\ ToStore(t)
    /\ UNCHANGED <<sessions, desk>>

\* Reading the watcher context may raise.  A stream comes to the finally that stores
\* it nevertheless; a plain request and the tab do not.
PrepareRaises(t) ==
    /\ turn[t].pc = "prepare"
    /\ IF turn[t].mode = "sse" THEN ToStore(t)
       ELSE turn' = [turn EXCEPT ![t] = Over(t, "no")]
    /\ UNCHANGED <<sessions, desk>>

\* One streamed completion: an error or a final answer ends the loop, a batch of
\* tool calls is put on the list of messages and announced.
Request(t) ==
    /\ turn[t].pc = "request"
    /\ \/ ToStore(t)
       \/ \E n \in Batches :
              turn' = [turn EXCEPT ![t].pc = "batch", ![t].calls = n,
                                   ![t].sent = Append(@, Calls(n))]
    /\ UNCHANGED <<sessions, desk>>

\* ex.map yields the results in the order of the calls, in whatever order they
\* finish (a mutant: as they finish).
ResultsAsFinished(n, finished) == [k \in 1..n |-> Result(finished[k])]
Results(n, finished) == [k \in 1..n |-> Result(k)]

\* The calls of a batch run concurrently, _dispatch makes a result of every failure,
\* and all results go back in one request.  After the last step there is none: the
\* turn ends with an apology.
RunBatch(t) ==
    LET n == turn[t].calls
    IN  /\ turn[t].pc = "batch"
        /\ IF turn[t].step = MaxSteps THEN ToStore(t)
           ELSE \E finished \in Permutations(1..n) :
                    turn' = [turn EXCEPT ![t].pc = "request", ![t].step = @ + 1, ![t].calls = 0,
                                         ![t].sent = @ \o Results(n, finished)]
        /\ UNCHANGED <<sessions, desk>>

\* A client that leaves a stream closes the generator where it yields, and its
\* finally stores what there is (a mutant: it stores nothing).
DropStream(t) == turn' = [turn EXCEPT ![t] = Over(t, "no")]
CloseStream(t) == ToStore(t)

Leave(t) ==
    /\ turn[t].mode = "sse"
    /\ turn[t].pc \in {"request", "batch"}
    /\ CloseStream(t)
    /\ UNCHANGED <<sessions, desk>>

\* One that leaves at the first event, which names the session, leaves before the try.
LeaveEarly(t) ==
    /\ turn[t].mode = "sse" /\ turn[t].pc = "prepare"
    /\ turn' = [turn EXCEPT ![t] = Over(t, "no")]
    /\ UNCHANGED <<sessions, desk>>
-----------------------------------------------------------------------------
(***************************************************************************)
(* Storing the turn.                                                       *)
(***************************************************************************)

\* The tab stores to the session it has open then.
StoresTo(t) == IF t = Desk THEN desk.session ELSE turn[t].session

\* A turn's rows have one timestamp, and their UUIDv7 differ by random bits alone
\* when both are made within a millisecond: a transcript lists them either way.
RowOrders(t) ==
    LET rows == <<Message(t, "user"), Message(t, "assistant")>>
    IN  {rows} \cup IF SameMs THEN {<<rows[2], rows[1]>>} ELSE {}

\* Two more rows (a mutant: counted as one).
CountedOnce(row, rows) == [row EXCEPT !.log = @ \o rows, !.count = @ + 1]
Counted(row, rows) == [row EXCEPT !.log = @ \o rows, !.count = @ + 2]

\* record_chat_turn: two inserts and the counter in one transaction.  It fails as
\* a whole when the database stays locked; the tab and a stream go on then.
Store(t) ==
    LET s == StoresTo(t)
    IN  /\ turn[t].pc = "store"
        /\ \/ /\ s # None
              /\ \E rows \in RowOrders(t) :
                     sessions' = [sessions EXCEPT ![s] = Counted(sessions[s], rows)]
              /\ turn' = [turn EXCEPT ![t] = Over(t, "yes")]
           \/ /\ turn' = [turn EXCEPT ![t] = Over(t, "failed")]
              /\ UNCHANGED sessions
        /\ UNCHANGED desk
-----------------------------------------------------------------------------
(***************************************************************************)
(* Sessions.                                                               *)
(***************************************************************************)

\* POST /api/chat/sessions: its id is one a client will name.
NewChat ==
    /\ \E u \in Users, s \in Given :
           /\ sessions[s] = None /\ \A t \in Threads : turn[t].session # s
           /\ sessions' = [sessions EXCEPT ![s] = FreshSession(u)]
    /\ UNCHANGED <<turn, desk>>

AtWork(s) == {t \in Servers : turn[t].session = s /\ turn[t].pc \in
                                  {"prepare", "request", "batch", "store"}}

\* DELETE /api/chat/sessions/{id}: by the owner or an administrator.
Delete ==
    /\ \E s \in Live :
           /\ \E u \in Users : u \in Admins \/ sessions[s].owner = u
           /\ sessions' = [sessions EXCEPT ![s].deleted = TRUE, ![s].running = AtWork(s)]
    /\ UNCHANGED <<turn, desk>>
-----------------------------------------------------------------------------
(***************************************************************************)
(* The Chatbot tab.                                                        *)
(***************************************************************************)

\* Nothing is selected or begun while a turn runs (a mutant: it may be).
MayAlwaysSelect == desk.opened
MaySelect == desk.opened /\ ~desk.busy

OpenTab ==
    /\ ~desk.opened
    /\ desk' = [desk EXCEPT !.opened = TRUE, !.listed = Listed]
    /\ UNCHANGED <<sessions, turn>>

\* The panel's button loads the list again at any time, also while a turn runs.
Refresh ==
    /\ desk.opened
    /\ desk' = [desk EXCEPT !.listed = Listed]
    /\ UNCHANGED <<sessions, turn>>

\* One's own session is opened to be continued, another's to be read.
OnSelectSession ==
    /\ MaySelect
    /\ \E s \in desk.listed :
           desk' = IF sessions[s].owner = DeskUser
                   THEN [desk EXCEPT !.session = s, !.readonly = FALSE]
                   ELSE [desk EXCEPT !.session = None, !.readonly = TRUE]
    /\ UNCHANGED <<sessions, turn>>

NewSession ==
    /\ MaySelect
    /\ desk' = [desk EXCEPT !.session = None, !.readonly = FALSE]
    /\ UNCHANGED <<sessions, turn>>

Send ==
    /\ MaySelect /\ ~desk.readonly
    /\ desk.sends < MaxSends
    /\ desk' = [desk EXCEPT !.busy = TRUE, !.sends = @ + 1]
    /\ turn' = [turn EXCEPT ![Desk] = [Idle EXCEPT !.pc = "resolve", !.user = DeskUser,
                                                   !.session = desk.session, !.mode = "desk"]]
    /\ UNCHANGED sessions

\* _finish_result: an exception is shown, a result also loads the list again.
FinishResult ==
    /\ turn[Desk].pc = "finish"
    /\ turn' = [turn EXCEPT ![Desk] = Idle]
    /\ desk' = [desk EXCEPT !.busy = FALSE,
                            !.listed = IF turn[Desk].stored = "no" THEN @ ELSE Listed]
    /\ UNCHANGED sessions
-----------------------------------------------------------------------------
Step(t) ==
    \/ Resolve(t) \/ CreateSession(t) \/ Prepare(t) \/ AnswerAtOnce(t)
    \/ PrepareRaises(t) \/ Request(t) \/ RunBatch(t) \/ Store(t)

Next ==
    \/ \E t \in Threads : Ask(t) \/ Step(t) \/ Leave(t) \/ LeaveEarly(t)
    \/ NewChat \/ Delete
    \/ OpenTab \/ Refresh \/ OnSelectSession \/ NewSession \/ Send \/ FinishResult

\* A thread that works goes on: the model, the CLI and the database have timeouts.
Fairness ==
    /\ \A t \in Threads : WF_vars(Step(t))
    /\ WF_vars(FinishResult)

Spec == Init /\ [][Next]_vars /\ Fairness
-----------------------------------------------------------------------------
TypeOK ==
    /\ sessions \in [Ids -> Row \cup {None}]
    /\ \A s \in Ids : sessions[s] # None => sessions[s].count = Len(sessions[s].log)
    /\ \A t \in Threads :
           /\ turn[t].session \in Ids \cup {None} /\ turn[t].user \in Users \cup {None}
           /\ turn[t].step \in 1..MaxSteps
           /\ turn[t].mode \in {"json", "sse", "desk"}
    /\ desk.session \in Ids \cup {None} /\ desk.listed \subseteq Ids

\* Nobody's words ever come into another's session: not by an id two clients use
\* at once, not by an administrator who reads it.
OwnTurns ==
    \A s \in Ids : sessions[s] # None =>
        \A i \in DOMAIN sessions[s].log : sessions[s].log[i].user = sessions[s].owner

\* Whenever the model is asked, each batch of calls it has made is followed by
\* the results of exactly these calls in their order, as its protocol demands,
\* however the calls overtook each other.
ProviderProtocol ==
    \A t \in Threads : turn[t].pc = "request" =>
        \A i \in DOMAIN turn[t].sent :
            turn[t].sent[i].kind = "calls" =>
                \A k \in 1..turn[t].sent[i].n :
                    i + k \in DOMAIN turn[t].sent /\ turn[t].sent[i + k] = Result(k)

\* A turn of the tab is stored where its question was asked, in a session of the
\* person at the desktop, whatever is clicked while it runs.
DeskTurnsWhereSent ==
    turn[Desk].pc \in {"prepare", "request", "batch", "store"} =>
        /\ desk.session = turn[Desk].session
        /\ sessions[desk.session].owner = DeskUser

\* What the server still adds to a deleted session are turns that were at work in
\* it when it was deleted.
DeletedTurnsWereRunning ==
    \A s \in Ids : sessions[s] # None /\ sessions[s].deleted =>
        \A t \in AtWork(s) : t \in sessions[s].running

\* A stream that has come to ask the model is stored, or its store fails, whether
\* or not its client stays; and the tab can be used again after every turn.
TurnsEnd ==
    /\ \A t \in Servers :
           (turn[t].mode = "sse" /\ turn[t].pc = "request") ~> (turn[t].stored # "no")
    /\ desk.busy ~> ~desk.busy

\* repository.py promises a chronological transcript: a question comes before its
\* answer.
QuestionFirst ==
    \A s \in Ids : sessions[s] # None =>
        \A i \in DOMAIN sessions[s].log :
            sessions[s].log[i].role = "user" =>
                /\ i + 1 \in DOMAIN sessions[s].log
                /\ sessions[s].log[i + 1] = [sessions[s].log[i] EXCEPT !.role = "assistant"]
=============================================================================
