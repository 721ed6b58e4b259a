---------------------------- MODULE Chat_proofs ----------------------------
(***************************************************************************)
(* Proofs about Chat, for any threads of the server, users, administrators *)
(* and ids, and any number of steps, of calls in a batch and of turns of   *)
(* the desktop.                                                            *)
(***************************************************************************)
EXTENDS Chat, TLAPS, SequenceTheorems

Inside  == {"prepare", "request", "batch", "store"}
Working == {"resolve", "create"} \cup Inside

Item == [kind : {"calls", "result"}, n : Nat]
Turn == [pc : {"idle", "finish", "done"} \cup Working, user : Users \cup {None},
         session : Ids \cup {None}, mode : {"json", "sse", "desk"}, step : 1 .. MaxSteps,
         calls : Nat, sent : Seq(Item), stored : {"no", "yes", "failed"}]
Tab  == [opened : BOOLEAN, session : Ids \cup {None}, busy : BOOLEAN, readonly : BOOLEAN,
         listed : SUBSET Ids, sends : 0 .. MaxSends]

Types ==
    /\ sessions \in [Ids -> Row \cup {None}]
    /\ turn \in [Threads -> Turn]
    /\ desk \in Tab

Open(s, u) == s \in Ids /\ sessions[s] # None /\ sessions[s].owner = u

\* The results of the batch of calls at i follow it.
Answered(sent, i) ==
    sent[i].kind = "calls" =>
        \A k \in 1 .. sent[i].n : i + k \in DOMAIN sent /\ sent[i + k] = Result(k)

\* What the model has been sent, by where the turn is: only the batch that runs
\* has no results yet, and it is the last thing sent.
Protocol(r) ==
    /\ r.pc \in {"resolve", "create", "prepare"} => r.sent = <<>>
    /\ r.pc = "request" => \A i \in 1 .. Len(r.sent) : Answered(r.sent, i)
    /\ r.pc = "batch" => /\ Len(r.sent) > 0 /\ r.sent[Len(r.sent)] = Calls(r.calls)
                         /\ \A i \in 1 .. Len(r.sent) - 1 : Answered(r.sent, i)

\* A turn that is in a session is its owner's.
Fits(t, r) ==
    /\ t \in Servers => r.mode # "desk"
    /\ r.pc \in Working => r.user \in Users
    /\ r.pc \in Inside => Open(r.session, r.user)
    /\ Protocol(r)

\* The tab lists sessions that are there.
Shown(listed) == \A s \in listed : s \in Ids /\ sessions[s] # None

\* A turn of the tab is the desktop user's, in the session the tab has open.
TabFits ==
    /\ Shown(desk.listed)
    /\ desk.session # None => Open(desk.session, DeskUser)
    /\ turn[Desk].pc # "idle" => desk.busy
    /\ turn[Desk].pc \in Working =>
           /\ turn[Desk].user = DeskUser /\ turn[Desk].mode = "desk"
           /\ turn[Desk].session = desk.session

\* A row counts its messages, all of them its owner's, and remembers who was at
\* work in it when it was deleted.
Kept(row, workers) ==
    row # None =>
        /\ row.count = Len(row.log)
        /\ \A i \in 1 .. Len(row.log) : row.log[i].user = row.owner
        /\ row.deleted => workers \subseteq row.running

ChatInv ==
    /\ Types
    /\ \A t \in Threads : Fits(t, turn[t])
    /\ TabFits
    /\ \A s \in Ids : Kept(sessions[s], AtWork(s))

-----------------------------------------------------------------------------
(* What the updates of a turn make of it *)

\* The record of a turn, in the order of its fields.
Made(pc, user, session, mode, step, calls, sent, stored) ==
    [pc |-> pc, user |-> user, session |-> session, mode |-> mode, step |-> step,
     calls |-> calls, sent |-> sent, stored |-> stored]

LEMMA TurnIsMade ==
    ASSUME NEW r \in Turn
    PROVE  r = Made(r.pc, r.user, r.session, r.mode, r.step, r.calls, r.sent, r.stored)
BY DEF Turn, Made

LEMMA GotoMakes ==
    ASSUME Types, NEW t \in Threads, NEW pc, Goto(t, pc)
    PROVE  LET r == turn[t]
           IN  turn' = [turn EXCEPT ![t] = Made(pc, r.user, r.session, r.mode, r.step,
                                                r.calls, r.sent, r.stored)]
<1>1. PICK r \in Turn : r = turn[t]
  BY DEF Types
<1>2. [r EXCEPT !.pc = pc] = Made(pc, r.user, r.session, r.mode, r.step, r.calls, r.sent,
                                  r.stored)
  BY DEF Turn, Made
<1>3. turn' = [turn EXCEPT ![t] = [r EXCEPT !.pc = pc]]
  BY <1>1 DEF Goto
<1> QED
  BY <1>1, <1>2, <1>3

\* Two updates of one entry are an update by both.
LEMMA TwiceUpdated ==
    ASSUME NEW f, NEW t \in DOMAIN f, NEW r, NEW q
    PROVE  [[f EXCEPT ![t] = r] EXCEPT ![t] = q] = [f EXCEPT ![t] = q]
OBVIOUS

LEMMA ToStoreMakes ==
    ASSUME Types, NEW t \in Threads, ToStore(t)
    PROVE  LET r == turn[t]
           IN  turn' = [turn EXCEPT ![t] = Made("store", r.user, r.session, r.mode, 1, 0,
                                                <<>>, r.stored)]
<1>1. PICK r \in Turn : r = turn[t]
  BY DEF Types
<1> DEFINE r0 == Made(r.pc, r.user, r.session, r.mode, r.step, r.calls, r.sent, r.stored)
           r1 == Made("store", r.user, r.session, r.mode, r.step, r.calls, r.sent, r.stored)
           r2 == Made("store", r.user, r.session, r.mode, 1, r.calls, r.sent, r.stored)
           r3 == Made("store", r.user, r.session, r.mode, 1, 0, r.sent, r.stored)
           r4 == Made("store", r.user, r.session, r.mode, 1, 0, <<>>, r.stored)
           F(q) == [turn EXCEPT ![t] = q]
<1>2. turn[t] = r0
  BY <1>1, TurnIsMade
<1>3. /\ [r0 EXCEPT !.pc = "store"] = r1 /\ [r1 EXCEPT !.step = 1] = r2
      /\ [r2 EXCEPT !.calls = 0] = r3 /\ [r3 EXCEPT !.sent = <<>>] = r4
  BY DEF Made
<1>4. \A q, p : F(q)[t] = q /\ [F(q) EXCEPT ![t] = p] = F(p)
  BY TwiceUpdated DEF Types
<1> HIDE DEF r0, r1, r2, r3, r4
<1>5. [turn EXCEPT ![t].pc = "store"] = F(r1)
  BY <1>2, <1>3
<1> HIDE DEF F
<1>6. [F(r1) EXCEPT ![t].step = 1] = F(r2)
  BY <1>3, <1>4
<1>7. [F(r2) EXCEPT ![t].calls = 0] = F(r3)
  BY <1>3, <1>4
<1>8. [F(r3) EXCEPT ![t].sent = <<>>] = F(r4)
  BY <1>3, <1>4
<1>9. turn' = F(r4)
  BY <1>5, <1>6, <1>7, <1>8, Zenon DEF ToStore
<1> QED
  BY <1>1, <1>9 DEF F, r4

LEMMA CreateMakes ==
    ASSUME Types, NEW t \in Threads, NEW s,
           turn' = [turn EXCEPT ![t].pc = "prepare", ![t].session = s]
    PROVE  LET r == turn[t]
           IN  turn' = [turn EXCEPT ![t] = Made("prepare", r.user, s, r.mode, r.step, r.calls,
                                                r.sent, r.stored)]
<1>1. PICK r \in Turn : r = turn[t]
  BY DEF Types
<1> DEFINE r0 == Made(r.pc, r.user, r.session, r.mode, r.step, r.calls, r.sent, r.stored)
           r1 == Made("prepare", r.user, r.session, r.mode, r.step, r.calls, r.sent, r.stored)
           r2 == Made("prepare", r.user, s, r.mode, r.step, r.calls, r.sent, r.stored)
           F(q) == [turn EXCEPT ![t] = q]
<1>2. turn[t] = r0
  BY <1>1, TurnIsMade
<1>3. [r0 EXCEPT !.pc = "prepare"] = r1 /\ [r1 EXCEPT !.session = s] = r2
  BY DEF Made
<1>4. \A q, p : F(q)[t] = q /\ [F(q) EXCEPT ![t] = p] = F(p)
  BY TwiceUpdated DEF Types
<1> HIDE DEF r0, r1, r2
<1>5. [turn EXCEPT ![t].pc = "prepare"] = F(r1)
  BY <1>2, <1>3
<1> HIDE DEF F
<1>6. [F(r1) EXCEPT ![t].session = s] = F(r2)
  BY <1>3, <1>4
<1>7. turn' = F(r2)
  BY <1>5, <1>6, Zenon
<1> QED
  BY <1>1, <1>7 DEF F, r2

LEMMA RequestMakes ==
    ASSUME Types, NEW t \in Threads, NEW n,
           turn' = [turn EXCEPT ![t].pc = "batch", ![t].calls = n,
                                ![t].sent = Append(@, Calls(n))]
    PROVE  LET r == turn[t]
           IN  turn' = [turn EXCEPT ![t] = Made("batch", r.user, r.session, r.mode, r.step, n,
                                                Append(r.sent, Calls(n)), r.stored)]
<1>1. PICK r \in Turn : r = turn[t]
  BY DEF Types
<1>0. PICK longer : longer = Append(r.sent, Calls(n))
  OBVIOUS
<1> DEFINE r0 == Made(r.pc, r.user, r.session, r.mode, r.step, r.calls, r.sent, r.stored)
           r1 == Made("batch", r.user, r.session, r.mode, r.step, r.calls, r.sent, r.stored)
           r2 == Made("batch", r.user, r.session, r.mode, r.step, n, r.sent, r.stored)
           r3 == Made("batch", r.user, r.session, r.mode, r.step, n, longer, r.stored)
           F(q) == [turn EXCEPT ![t] = q]
<1>2. turn[t] = r0
  BY <1>1, TurnIsMade
<1>3. /\ [r0 EXCEPT !.pc = "batch"] = r1 /\ [r1 EXCEPT !.calls = n] = r2
      /\ [r2 EXCEPT !.sent = longer] = r3
  BY DEF Made
<1>4. \A q, p : F(q)[t] = q /\ [F(q) EXCEPT ![t] = p] = F(p)
  BY TwiceUpdated DEF Types
<1> HIDE DEF r0, r1, r2, r3
<1>5. [turn EXCEPT ![t].pc = "batch"] = F(r1)
  BY <1>2, <1>3
<1> HIDE DEF F
<1>6. [F(r1) EXCEPT ![t].calls = n] = F(r2)
  BY <1>3, <1>4
<1>7. [F(r2) EXCEPT ![t].sent = Append(turn[t].sent, Calls(n))] = F(r3)
  BY <1>0, <1>1, <1>3, <1>4
<1>8. turn' = F(r3)
  BY <1>5, <1>6, <1>7, Zenon
<1> QED
  BY <1>0, <1>1, <1>8 DEF F, r3

LEMMA BatchMakes ==
    ASSUME Types, NEW t \in Threads, NEW results,
           turn' = [turn EXCEPT ![t].pc = "request", ![t].step = @ + 1, ![t].calls = 0,
                                ![t].sent = @ \o results]
    PROVE  LET r == turn[t]
           IN  turn' = [turn EXCEPT ![t] = Made("request", r.user, r.session, r.mode,
                                                r.step + 1, 0, r.sent \o results, r.stored)]
<1>1. PICK r \in Turn : r = turn[t]
  BY DEF Types
<1>2. PICK longer, next : longer = r.sent \o results /\ next = r.step + 1
  OBVIOUS
<1> DEFINE r0 == Made(r.pc, r.user, r.session, r.mode, r.step, r.calls, r.sent, r.stored)
           r1 == Made("request", r.user, r.session, r.mode, r.step, r.calls, r.sent, r.stored)
           r2 == Made("request", r.user, r.session, r.mode, next, r.calls, r.sent, r.stored)
           r3 == Made("request", r.user, r.session, r.mode, next, 0, r.sent, r.stored)
           r4 == Made("request", r.user, r.session, r.mode, next, 0, longer, r.stored)
           F(q) == [turn EXCEPT ![t] = q]
<1>3. turn[t] = r0
  BY <1>1, TurnIsMade
<1>4. /\ [r0 EXCEPT !.pc = "request"] = r1 /\ [r1 EXCEPT !.step = next] = r2
      /\ [r2 EXCEPT !.calls = 0] = r3 /\ [r3 EXCEPT !.sent = longer] = r4
  BY DEF Made
<1>5. \A q, p : F(q)[t] = q /\ [F(q) EXCEPT ![t] = p] = F(p)
  BY TwiceUpdated DEF Types
<1> HIDE DEF r0, r1, r2, r3, r4
<1>6. [turn EXCEPT ![t].pc = "request"] = F(r1)
  BY <1>3, <1>4
<1> HIDE DEF F
<1>7. [F(r1) EXCEPT ![t].step = turn[t].step + 1] = F(r2)
  BY <1>1, <1>2, <1>4, <1>5
<1>8. [F(r2) EXCEPT ![t].calls = 0] = F(r3)
  BY <1>4, <1>5
<1>9. [F(r3) EXCEPT ![t].sent = turn[t].sent \o results] = F(r4)
  BY <1>1, <1>2, <1>4, <1>5
<1>10. turn' = F(r4)
  BY <1>6, <1>7, <1>8, <1>9, Zenon
<1> QED
  BY <1>1, <1>2, <1>10 DEF F, r4

LEMMA OverIs ==
    ASSUME NEW t, NEW stored
    PROVE  Over(t, stored) = Made(IF t = Desk THEN "finish" ELSE "done", None, None, "json", 1,
                                  0, <<>>, stored)
<1>1. PICK pc : pc = IF t = Desk THEN "finish" ELSE "done"
  OBVIOUS
<1> DEFINE r0 == Made("idle", None, None, "json", 1, 0, <<>>, "no")
           r1 == Made(pc, None, None, "json", 1, 0, <<>>, "no")
           r2 == Made(pc, None, None, "json", 1, 0, <<>>, stored)
<1>2. Idle = r0 /\ [r0 EXCEPT !.pc = pc] = r1 /\ [r1 EXCEPT !.stored = stored] = r2
  BY DEF Made, Idle
<1> HIDE DEF r0, r1, r2
<1>3. [Idle EXCEPT !.pc = pc, !.stored = stored] = r2
  BY <1>2, Zenon
<1> QED
  BY <1>1, <1>3 DEF Over, r2

LEMMA AskedIs ==
    ASSUME NEW user, NEW session, NEW mode
    PROVE  [Idle EXCEPT !.pc = "resolve", !.user = user, !.session = session, !.mode = mode] =
               Made("resolve", user, session, mode, 1, 0, <<>>, "no")
<1> DEFINE r0 == Made("idle", None, None, "json", 1, 0, <<>>, "no")
           r1 == Made("resolve", None, None, "json", 1, 0, <<>>, "no")
           r2 == Made("resolve", user, None, "json", 1, 0, <<>>, "no")
           r3 == Made("resolve", user, session, "json", 1, 0, <<>>, "no")
           r4 == Made("resolve", user, session, mode, 1, 0, <<>>, "no")
<1>1. /\ Idle = r0 /\ [r0 EXCEPT !.pc = "resolve"] = r1 /\ [r1 EXCEPT !.user = user] = r2
      /\ [r2 EXCEPT !.session = session] = r3 /\ [r3 EXCEPT !.mode = mode] = r4
  BY DEF Made, Idle
<1> HIDE DEF r0, r1, r2, r3, r4
<1>2. [Idle EXCEPT !.pc = "resolve", !.user = user, !.session = session, !.mode = mode] = r4
  BY <1>1, Zenon
<1> QED
  BY <1>2 DEF r4

\* What a made turn is.
LEMMA MadeIs ==
    ASSUME NEW pc, NEW user, NEW session, NEW mode, NEW step, NEW calls, NEW sent, NEW stored
    PROVE  LET r == Made(pc, user, session, mode, step, calls, sent, stored)
           IN  /\ r.pc = pc /\ r.user = user /\ r.session = session /\ r.mode = mode
               /\ r.step = step /\ r.calls = calls /\ r.sent = sent /\ r.stored = stored
BY DEF Made

LEMMA DeletedIs ==
    ASSUME NEW row \in Row, NEW running \in SUBSET Servers
    PROVE  LET new == [row EXCEPT !.deleted = TRUE, !.running = running]
           IN  /\ new \in Row /\ new.owner = row.owner /\ new.count = row.count
               /\ new.log = row.log /\ new.running = running
<1> DEFINE mid == [row EXCEPT !.deleted = TRUE]
<1>1. mid \in Row /\ mid.owner = row.owner /\ mid.count = row.count /\ mid.log = row.log
  BY DEF Row
<1> HIDE DEF mid
<1>2. LET new == [mid EXCEPT !.running = running]
      IN  /\ new \in Row /\ new.owner = row.owner /\ new.count = row.count
          /\ new.log = row.log /\ new.running = running
  BY <1>1 DEF Row
<1> QED
  BY <1>2 DEF mid

LEMMA CountedIs ==
    ASSUME NEW row \in Row, NEW rows \in Seq(MessageRow)
    PROVE  LET new == Counted(row, rows)
           IN  /\ new \in Row /\ new.owner = row.owner /\ new.count = row.count + 2
               /\ new.deleted = row.deleted
               /\ new.log = row.log \o rows /\ new.running = row.running
<1>1. PICK longer \in Seq(MessageRow) : longer = row.log \o rows
  <2>1. row.log \in Seq(MessageRow)
    BY DEF Row
  <2>2. row.log \o rows \in Seq(MessageRow)
    BY <2>1
  <2> QED
    BY <2>2
<1> DEFINE mid == [row EXCEPT !.log = longer]
<1>2. /\ mid \in Row /\ mid.owner = row.owner /\ mid.count = row.count
      /\ mid.deleted = row.deleted /\ mid.log = longer /\ mid.running = row.running
  BY DEF Row
<1> HIDE DEF mid
<1>3. LET new == [mid EXCEPT !.count = row.count + 2]
      IN  /\ new \in Row /\ new.owner = row.owner /\ new.count = row.count + 2
          /\ new.deleted = row.deleted
          /\ new.log = longer /\ new.running = row.running
  BY <1>2 DEF Row
<1>4. Counted(row, rows) = [mid EXCEPT !.count = row.count + 2]
  BY <1>1, Zenon DEF Counted, mid
<1> QED
  BY <1>1, <1>3, <1>4, Zenon

-----------------------------------------------------------------------------
(* What a step does, in the terms of the properties *)

\* Sessions are created, deleted, or receive the two rows of a turn of their owner.
CreatedStep ==
    \E s \in Ids, u \in Users :
        sessions[s] = None /\ sessions' = [sessions EXCEPT ![s] = FreshSession(u)]
DeletedStep ==
    /\ UNCHANGED turn
    /\ \E s \in Live :
           sessions' = [sessions EXCEPT ![s].deleted = TRUE, ![s].running = AtWork(s)]
StoredStep ==
    \E s \in Ids, u \in Users, rows \in Seq(MessageRow) :
        /\ Open(s, u) /\ Len(rows) = 2 /\ \A i \in 1 .. 2 : rows[i].user = u
        /\ sessions' = [sessions EXCEPT ![s] = Counted(sessions[s], rows)]
SessionStep == UNCHANGED sessions \/ CreatedStep \/ DeletedStep \/ StoredStep

\* One turn at most moves on, and enters only a session that is not deleted.
Admitted(t, r) ==
    t \in Servers /\ r.pc \in Inside =>
        \/ turn[t].pc \in Inside /\ turn[t].session = r.session
        \/ ~sessions'[r.session].deleted
Moves(t, r) == turn' = [turn EXCEPT ![t] = r] /\ Fits(t, r)' /\ Admitted(t, r)
MoveStep == UNCHANGED turn \/ \E t \in Threads, r \in Turn : Moves(t, r)

Good == desk' \in Tab /\ TabFits' /\ SessionStep /\ MoveStep

LEMMA FreshIsRow ==
    ASSUME NEW u \in Users
    PROVE  /\ FreshSession(u) \in Row /\ FreshSession(u).owner = u
           /\ FreshSession(u).deleted = FALSE /\ FreshSession(u).count = 0
           /\ FreshSession(u).log = <<>>
BY DEF FreshSession, Row

\* The update of a deletion is one of a row.
LEMMA DeletedMakes ==
    ASSUME Types, NEW s \in Live,
           sessions' = [sessions EXCEPT ![s].deleted = TRUE, ![s].running = AtWork(s)]
    PROVE  sessions' = [sessions EXCEPT ![s] = [sessions[s] EXCEPT !.deleted = TRUE,
                                                                   !.running = AtWork(s)]]
<1>1. s \in DOMAIN sessions
  BY DEF Types, Live
<1>2. PICK row, running : row = sessions[s] /\ running = AtWork(s)
  OBVIOUS
<1> DEFINE mid == [row EXCEPT !.deleted = TRUE]
           new == [mid EXCEPT !.running = running]
           F(q) == [sessions EXCEPT ![s] = q]
<1>3. \A q, p : F(q)[s] = q /\ [F(q) EXCEPT ![s] = p] = F(p)
  BY <1>1, TwiceUpdated
<1>4. [sessions EXCEPT ![s].deleted = TRUE] = F(mid)
  BY <1>2
<1>5. new = [mid EXCEPT !.running = running]
  OBVIOUS
<1>6. new = [row EXCEPT !.deleted = TRUE, !.running = running]
  BY Zenon
<1> HIDE DEF mid, new, F
<1>7. [F(mid) EXCEPT ![s].running = running] = F(new)
  BY <1>3, <1>5
<1>8. sessions' = F(new)
  BY <1>2, <1>4, <1>7, Zenon
<1>9. F(new) = [sessions EXCEPT ![s] = new]
  BY DEF F
<1> QED
  BY <1>2, <1>6, <1>8, <1>9, Zenon

\* What happens to the rows, one by one.
LEMMA RowsChange ==
    ASSUME Types, SessionStep
    PROVE  /\ sessions' \in [Ids -> Row \cup {None}]
           /\ \A s \in Ids : \/ sessions'[s] = sessions[s]
                             \/ /\ sessions[s] = None
                                /\ \E u \in Users : sessions'[s] = FreshSession(u)
                             \/ /\ sessions[s] # None /\ sessions'[s] # None
                                /\ UNCHANGED turn
                                /\ sessions'[s].owner = sessions[s].owner
                                /\ sessions'[s].log = sessions[s].log
                                /\ sessions'[s].count = sessions[s].count
                                /\ sessions'[s].running = AtWork(s)
                             \/ \E u \in Users, rows \in Seq(MessageRow) :
                                   /\ Open(s, u) /\ Len(rows) = 2
                                   /\ \A i \in 1 .. 2 : rows[i].user = u
                                   /\ sessions'[s] = Counted(sessions[s], rows)
<1>1. CASE UNCHANGED sessions
  BY <1>1 DEF Types
<1>2. CASE CreatedStep
  BY <1>2, FreshIsRow DEF Types, CreatedStep
<1>3. CASE DeletedStep
  <2>1. PICK s \in Live :
           sessions' = [sessions EXCEPT ![s].deleted = TRUE, ![s].running = AtWork(s)]
    BY <1>3 DEF DeletedStep
  <2>2. s \in Ids /\ sessions[s] # None /\ sessions[s] \in Row
    BY DEF Live, Types
  <2>3. AtWork(s) \in SUBSET Servers
    BY DEF AtWork
  <2>4. PICK new \in Row :
           /\ sessions' = [sessions EXCEPT ![s] = new]
           /\ new.owner = sessions[s].owner /\ new.count = sessions[s].count
           /\ new.log = sessions[s].log /\ new.running = AtWork(s)
    BY <2>1, <2>2, <2>3, DeletedMakes, DeletedIs, Zenon
  <2> QED
    BY <1>3, <2>2, <2>4, NoneAssumption DEF Types, DeletedStep
<1>4. CASE StoredStep
  <2>1. PICK s \in Ids, u \in Users, rows \in Seq(MessageRow) :
           /\ Open(s, u) /\ Len(rows) = 2 /\ \A i \in 1 .. 2 : rows[i].user = u
           /\ sessions' = [sessions EXCEPT ![s] = Counted(sessions[s], rows)]
    BY <1>4 DEF StoredStep
  <2>2. Counted(sessions[s], rows) \in Row
    BY <2>1, CountedIs DEF Types, Open
  <2> QED
    BY <2>1, <2>2 DEF Types
<1> QED
  BY <1>1, <1>2, <1>3, <1>4 DEF SessionStep

\* A session that is there stays, with its owner.
LEMMA StaysOpen ==
    ASSUME Types, SessionStep, NEW s \in Ids, NEW u, Open(s, u)
    PROVE  sessions'[s] # None /\ sessions'[s].owner = u
<1>1. sessions[s] # None /\ sessions[s] \in Row /\ sessions[s].owner = u
  BY DEF Open, Types
<1>2. CASE sessions'[s] = sessions[s]
  BY <1>1, <1>2
<1>3. CASE sessions[s] # None /\ sessions'[s].owner = sessions[s].owner /\ sessions'[s] # None
  BY <1>1, <1>3
<1>4. CASE \E rows \in Seq(MessageRow) : sessions'[s] = Counted(sessions[s], rows)
  BY <1>1, <1>4, CountedIs, NoneAssumption
<1> QED
  BY <1>1, <1>2, <1>3, <1>4, RowsChange

LEMMA ShownOn ==
    ASSUME Types, SessionStep, NEW listed, Shown(listed)
    PROVE  Shown(listed)'
BY StaysOpen DEF Shown, Open

LEMMA FitsOn ==
    ASSUME Types, SessionStep, NEW t \in Threads, Fits(t, turn[t]), turn'[t] = turn[t]
    PROVE  Fits(t, turn[t])'
<1>1. turn[t].pc \in Inside => Open(turn[t].session, turn[t].user)'
  BY StaysOpen DEF Fits, Open
<1> QED
  BY <1>1 DEF Fits

LEMMA TurnsMove ==
    ASSUME ChatInv, SessionStep, MoveStep
    PROVE  turn' \in [Threads -> Turn] /\ \A t \in Threads : Fits(t, turn[t])'
<1>1. CASE UNCHANGED turn
  BY <1>1, FitsOn DEF ChatInv, Types
<1>2. CASE \E t \in Threads, r \in Turn : Moves(t, r)
  <2>1. PICK t \in Threads, r \in Turn : Moves(t, r)
    BY <1>2
  <2>2. /\ turn' \in [Threads -> Turn] /\ turn'[t] = r
        /\ \A b \in Threads \ {t} : turn'[b] = turn[b]
    BY <2>1 DEF Moves, ChatInv, Types
  <2>3. Fits(t, turn[t])'
    BY <2>1, <2>2 DEF Moves, Fits
  <2>4. \A b \in Threads \ {t} : Fits(b, turn[b])'
    BY <2>2, FitsOn DEF ChatInv
  <2> QED
    BY <2>2, <2>3, <2>4
<1> QED
  BY <1>1, <1>2 DEF MoveStep

\* No turn comes into a deleted session.
LEMMA NoneEnters ==
    ASSUME ChatInv, MoveStep, NEW s \in Ids, sessions'[s].deleted
    PROVE  AtWork(s)' \subseteq AtWork(s)
<1>1. CASE UNCHANGED turn
  BY <1>1 DEF AtWork
<1>2. CASE \E t \in Threads, r \in Turn : Moves(t, r)
  <2>1. PICK t \in Threads, r \in Turn : Moves(t, r)
    BY <1>2
  <2>2. turn'[t] = r /\ \A b \in Threads \ {t} : turn'[b] = turn[b]
    BY <2>1 DEF Moves, ChatInv, Types
  <2> QED
    BY <2>1, <2>2 DEF Moves, Admitted, AtWork, Inside, Threads
<1> QED
  BY <1>1, <1>2 DEF MoveStep

LEMMA RowsKept ==
    ASSUME ChatInv, SessionStep, MoveStep, NEW s \in Ids
    PROVE  Kept(sessions[s], AtWork(s))'
<1>1. Kept(sessions[s], AtWork(s)) /\ Types
  BY DEF ChatInv
<1>2. sessions'[s] # None /\ sessions'[s].deleted => AtWork(s)' \subseteq AtWork(s)
  BY NoneEnters
<1>3. CASE sessions'[s] = sessions[s]
  <2>1. PICK row, before, after :
            row = sessions[s] /\ row = sessions'[s] /\ before = AtWork(s) /\ after = AtWork(s)'
    BY <1>3
  <2>2. Kept(row, before) /\ (row # None /\ row.deleted => after \subseteq before)
    BY <1>1, <1>2, <2>1
  <2>3. Kept(row, after)
    BY <2>2 DEF Kept
  <2> QED
    BY <2>1, <2>3
<1>4. CASE \E u \in Users : sessions'[s] = FreshSession(u)
  <2>1. \A u \in Users : \A workers : Kept(FreshSession(u), workers)
    <3> TAKE u \in Users
    <3> TAKE workers
    <3>1. PICK row : row = FreshSession(u)
      OBVIOUS
    <3>2. row.deleted = FALSE /\ row.count = 0 /\ row.log = <<>>
      BY <3>1, FreshIsRow
    <3>3. row.count = Len(row.log) /\ 1 .. Len(row.log) = {}
      BY <3>2
    <3>4. Kept(row, workers)
      BY <3>2, <3>3 DEF Kept
    <3> QED
      BY <3>1, <3>4
  <2>2. PICK row, after : row = sessions'[s] /\ after = AtWork(s)'
    OBVIOUS
  <2>3. Kept(row, after)
    BY <1>4, <2>1, <2>2
  <2> QED
    BY <2>2, <2>3
<1>5. CASE /\ sessions[s] # None /\ UNCHANGED turn
           /\ sessions'[s].owner = sessions[s].owner
           /\ sessions'[s].log = sessions[s].log
           /\ sessions'[s].count = sessions[s].count
           /\ sessions'[s].running = AtWork(s)
  <2>1. AtWork(s)' = AtWork(s)
    BY <1>5 DEF AtWork
  <2> QED
    BY <1>1, <1>5, <2>1 DEF Kept
<1>6. CASE \E u \in Users, rows \in Seq(MessageRow) :
              /\ Open(s, u) /\ Len(rows) = 2 /\ \A i \in 1 .. 2 : rows[i].user = u
              /\ sessions'[s] = Counted(sessions[s], rows)
  <2>1. PICK u \in Users, rows \in Seq(MessageRow) :
              /\ Open(s, u) /\ Len(rows) = 2 /\ \A i \in 1 .. 2 : rows[i].user = u
              /\ sessions'[s] = Counted(sessions[s], rows)
    BY <1>6
  <2>2. sessions[s] \in Row /\ sessions[s] # None /\ sessions[s].owner = u
    BY <1>1, <2>1 DEF Types, Open
  <2>3. PICK log \in Seq(MessageRow) : log = sessions[s].log
    BY <2>2 DEF Row
  <2>4. /\ sessions'[s].owner = u /\ sessions'[s].count = sessions[s].count + 2
        /\ sessions'[s].deleted = sessions[s].deleted
        /\ sessions'[s].log = log \o rows /\ sessions'[s].running = sessions[s].running
    <3>1. PICK row \in Row : row = sessions[s]
      BY <2>2
    <3>2. Counted(row, rows) = sessions'[s]
      BY <2>1, <3>1
    <3>3. LET new == Counted(row, rows)
          IN  /\ new.owner = row.owner /\ new.count = row.count + 2
              /\ new.deleted = row.deleted /\ new.log = row.log \o rows
              /\ new.running = row.running
      BY CountedIs
    <3> QED
      BY <2>2, <2>3, <3>1, <3>2, <3>3, Zenon
  <2>5. /\ Len(log) \in Nat /\ Len(log \o rows) = Len(log) + 2
        /\ \A i \in 1 .. Len(log) : (log \o rows)[i] = log[i]
        /\ \A i \in Len(log) + 1 .. Len(log) + 2 : (log \o rows)[i] = rows[i - Len(log)]
    <3>1. /\ Len(log \o rows) = Len(log) + Len(rows)
          /\ \A i \in 1 .. Len(log) + Len(rows) :
                (log \o rows)[i] = IF i <= Len(log) THEN log[i] ELSE rows[i - Len(log)]
      BY ConcatProperties
    <3>2. Len(log) \in Nat
      OBVIOUS
    <3> QED
      BY <2>1, <3>1, <3>2
  <2>6. \A i \in 1 .. Len(log) + 2 : (log \o rows)[i].user = u
    <3>1. \A i \in 1 .. Len(log) : log[i].user = u
      BY <1>1, <2>2, <2>3 DEF Kept
    <3>2. \A i \in Len(log) + 1 .. Len(log) + 2 : i - Len(log) \in 1 .. 2
      OBVIOUS
    <3>3. \A i \in Len(log) + 1 .. Len(log) + 2 : (log \o rows)[i].user = u
      BY <2>1, <2>5, <3>2
    <3>4. \A i \in 1 .. Len(log) + 2 : i \in 1 .. Len(log) \/ i \in Len(log) + 1 .. Len(log) + 2
      OBVIOUS
    <3> QED
      BY <2>5, <3>1, <3>3, <3>4
  <2> QED
    BY <1>1, <1>2, <2>2, <2>3, <2>4, <2>5, <2>6 DEF Kept
<1> QED
  BY <1>1, <1>3, <1>4, <1>5, <1>6, RowsChange

LEMMA GoodKeeps ==
    ASSUME ChatInv, Good
    PROVE  ChatInv'
BY RowsChange, TurnsMove, RowsKept DEF Good, ChatInv, Types

-----------------------------------------------------------------------------
(* Every step is one of these *)

LEMMA Constants ==
    /\ Desk \notin Servers /\ Desk \in Threads /\ DeskUser \in Users
    /\ Servers \subseteq Threads /\ None \notin Ids /\ None \notin Users
    /\ MaxSteps \in Nat \ {0} /\ Batches \subseteq Nat \ {0} /\ MaxSends \in Nat
    /\ Asked \subseteq Ids \cup {None} /\ Given \subseteq Ids /\ 1 \in 1 .. MaxSteps
BY ChatAssumption, NoneAssumption DEF Threads, Ids

LEMMA MoveGood ==
    ASSUME ChatInv, SessionStep, UNCHANGED desk, NEW t \in Threads, NEW r \in Turn,
           turn' = [turn EXCEPT ![t] = r], Fits(t, r)', Admitted(t, r),
           t = Desk => /\ turn[t].pc # "idle"
                       /\ r.pc \in Working => /\ turn[t].pc \in Working
                                              /\ r.user = turn[t].user /\ r.mode = turn[t].mode
                                              /\ r.session = turn[t].session
    PROVE  Good
<1>1. turn'[t] = r /\ \A b \in Threads \ {t} : turn'[b] = turn[b]
  BY DEF ChatInv, Types
<1>2. MoveStep
  BY DEF MoveStep, Moves
<1>3. desk' \in Tab
  BY DEF ChatInv, Types
<1>4. desk.session # None => Open(desk.session, DeskUser)'
  BY StaysOpen DEF ChatInv, TabFits, Open
<1>5. TabFits'
  <2>0. Shown(desk.listed)'
    BY ShownOn DEF ChatInv, TabFits, Shown
  <2>1. CASE t = Desk
    BY <1>1, <1>4, <2>0, <2>1 DEF ChatInv, TabFits
  <2>2. CASE t # Desk
    <3>1. turn'[Desk] = turn[Desk]
      BY <1>1, <2>2, Constants
    <3> QED
      BY <1>4, <2>0, <3>1 DEF ChatInv, TabFits
  <2> QED
    BY <2>1, <2>2
<1> QED
  BY <1>2, <1>3, <1>5 DEF Good

\* A turn goes on in its session.
LEMMA GoesOnGood ==
    ASSUME ChatInv, UNCHANGED <<sessions, desk>>, NEW t \in Threads, NEW r \in Turn,
           turn' = [turn EXCEPT ![t] = r], turn[t].pc \in Inside, r.pc \in Inside,
           r.user = turn[t].user, r.session = turn[t].session, r.mode = turn[t].mode,
           Protocol(r)
    PROVE  Good
<1>1. Fits(t, turn[t])
  BY DEF ChatInv
<1>2. Fits(t, r)'
  BY <1>1 DEF Fits, Open, Working
<1>3. Admitted(t, r)
  BY DEF Admitted
<1>4. SessionStep
  BY DEF SessionStep
<1>5. turn[t].pc \in Working /\ turn[t].pc # "idle"
  BY DEF Working, Inside
<1> QED
  BY <1>2, <1>3, <1>4, <1>5, MoveGood

\* A turn is over.
LEMMA EndsGood ==
    ASSUME ChatInv, SessionStep, UNCHANGED desk, NEW t \in Threads,
           NEW stored \in {"no", "yes", "failed"}, turn[t].pc \in Working,
           turn' = [turn EXCEPT ![t] = Over(t, stored)]
    PROVE  Good
<1>1. PICK r : r = Over(t, stored)
  OBVIOUS
<1>2. PICK pc \in {"finish", "done"} :
          r = Made(pc, None, None, "json", 1, 0, <<>>, stored)
  BY <1>1, OverIs
<1>3. r \in Turn
  BY <1>2, Constants DEF Made, Turn
<1>4. r.pc = pc /\ r.mode = "json"
  BY <1>2, MadeIs
<1>5. r.pc \notin Working /\ r.pc \notin Inside
  BY <1>4 DEF Working, Inside
<1>6. Protocol(r)
  BY <1>4 DEF Protocol
<1>7. Fits(t, r)' /\ Admitted(t, r)
  BY <1>4, <1>5, <1>6 DEF Fits, Admitted
<1>8. turn[t].pc # "idle"
  BY DEF Working, Inside
<1> QED
  BY <1>1, <1>3, <1>5, <1>7, <1>8, MoveGood

LEMMA AskGood ==
    ASSUME ChatInv, NEW t \in Threads, Ask(t)
    PROVE  Good
<1>1. PICK u \in Users, s \in Asked, mode \in {"json", "sse"} :
          turn' = [turn EXCEPT ![t] = [Idle EXCEPT !.pc = "resolve", !.user = u,
                                                   !.session = s, !.mode = mode]]
  BY DEF Ask
<1>2. PICK r : r = Made("resolve", u, s, mode, 1, 0, <<>>, "no")
  OBVIOUS
<1>3. turn' = [turn EXCEPT ![t] = r]
  BY <1>1, <1>2, AskedIs
<1>4. r \in Turn
  BY <1>2, Constants DEF Made, Turn, Working
<1>5. r.pc = "resolve" /\ r.user = u /\ r.mode = mode /\ r.sent = <<>>
  BY <1>2, MadeIs
<1>6. Fits(t, r)' /\ Admitted(t, r)
  BY <1>5 DEF Fits, Admitted, Protocol, Inside
<1>7. t # Desk /\ UNCHANGED <<sessions, desk>>
  BY Constants DEF Ask
<1> QED
  BY <1>3, <1>4, <1>6, <1>7, MoveGood DEF SessionStep

LEMMA ResolveGood ==
    ASSUME ChatInv, NEW t \in Threads, Resolve(t)
    PROVE  Good
<1>1. /\ turn[t].pc = "resolve" /\ turn[t].pc \in Working /\ UNCHANGED <<sessions, desk>>
      /\ turn[t].pc # "idle" /\ turn[t].pc \notin Inside
  BY DEF Resolve, Working, Inside
<1>2. Fits(t, turn[t]) /\ turn[t] \in Turn /\ SessionStep /\ Types
  BY <1>1 DEF ChatInv, Types, SessionStep
<1>3. \A pc \in {"create", "prepare"} :
         Goto(t, pc) /\ (pc = "prepare" => /\ Open(turn[t].session, turn[t].user)
                                           /\ t \in Servers => ~sessions[turn[t].session].deleted)
         => Good
  <2> SUFFICES ASSUME NEW pc \in {"create", "prepare"}, Goto(t, pc),
                      pc = "prepare" => /\ Open(turn[t].session, turn[t].user)
                                        /\ t \in Servers => ~sessions[turn[t].session].deleted
               PROVE  Good
    OBVIOUS
  <2>1. PICK q \in Turn : q = turn[t]
    BY <1>2
  <2>2. PICK r : r = Made(pc, q.user, q.session, q.mode, q.step, q.calls, q.sent, q.stored)
    OBVIOUS
  <2>3. turn' = [turn EXCEPT ![t] = r]
    BY <1>2, <2>1, <2>2, GotoMakes
  <2>4. r \in Turn
    BY <2>2 DEF Made, Turn, Working, Inside
  <2>5. /\ r.pc = pc /\ r.user = q.user /\ r.session = q.session /\ r.mode = q.mode
        /\ r.sent = q.sent
    BY <2>2, MadeIs
  <2>6. q.sent = <<>> /\ q.user \in Users /\ (t \in Servers => q.mode # "desk")
    BY <1>1, <1>2, <2>1 DEF Fits, Protocol
  <2>7. Protocol(r)
    BY <2>5, <2>6 DEF Protocol
  <2>8. r.pc \in Inside => Open(r.session, r.user)'
    BY <1>1, <2>1, <2>5 DEF Open, Inside
  <2>9. Fits(t, r)'
    BY <2>5, <2>6, <2>7, <2>8 DEF Fits
  <2>10. Admitted(t, r)
    BY <1>1, <2>1, <2>5 DEF Admitted, Inside
  <2> QED
    BY <1>1, <1>2, <2>1, <2>3, <2>4, <2>5, <2>9, <2>10, MoveGood
<1>4. CASE turn[t].session = None \/ sessions[turn[t].session] = None
  BY <1>3, <1>4 DEF Resolve
<1>5. CASE /\ turn[t].session # None /\ sessions[turn[t].session] # None
           /\ turn[t].mode = "desk" \/ Accessible(turn[t].session, turn[t].user)
  <2>1. turn[t].session \in Ids
    BY <1>2, <1>5 DEF Turn
  <2>2. CASE turn[t].mode = "desk"
    <3>1. t = Desk
      BY <1>2, <2>2 DEF Fits, Threads
    <3>2. Open(turn[t].session, turn[t].user)
      BY <1>1, <1>5, <3>1 DEF ChatInv, TabFits
    <3>3. Goto(t, "prepare")
      BY <1>5 DEF Resolve
    <3> QED
      BY <1>3, <3>1, <3>2, <3>3, Constants
  <2>3. CASE Accessible(turn[t].session, turn[t].user)
    <3>1. Goto(t, "prepare")
      BY <1>5 DEF Resolve
    <3> QED
      BY <1>3, <1>5, <2>1, <2>3, <3>1 DEF Open, Accessible
  <2> QED
    BY <1>5, <2>2, <2>3
<1>6. CASE /\ turn[t].session # None /\ sessions[turn[t].session] # None
           /\ ~(turn[t].mode = "desk" \/ Accessible(turn[t].session, turn[t].user))
  <2>1. turn' = [turn EXCEPT ![t] = Over(t, "no")]
    BY <1>6 DEF Resolve
  <2> QED
    BY <1>1, <1>2, <2>1, EndsGood
<1> QED
  BY <1>4, <1>5, <1>6

LEMMA CreateGood ==
    ASSUME ChatInv, NEW t \in Threads, CreateSession(t)
    PROVE  Good
<1>1. turn[t].pc = "create" /\ turn[t].pc \in Working /\ turn[t].pc \notin Inside
  BY DEF CreateSession, Working, Inside
<1>2. Fits(t, turn[t]) /\ turn[t] \in Turn /\ Types
  BY DEF ChatInv, Types
<1>3. PICK s : s = IF turn[t].session = None THEN Uuid7(t) ELSE turn[t].session
  OBVIOUS
<1>4. s \in Ids
  <2>1. desk.sends \in 0 .. MaxSends /\ 0 \in 0 .. MaxSends
    BY <1>2, Constants DEF Types, Tab
  <2>2. Uuid7(t) \in Threads \X (0 .. MaxSends)
    BY <2>1 DEF Uuid7
  <2> QED
    BY <1>2, <1>3, <2>2 DEF Ids, Turn
<1>5. PICK q \in Turn : q = turn[t]
  BY <1>2
<1>6. q.sent = <<>> /\ q.user \in Users /\ (t \in Servers => q.mode # "desk")
  BY <1>1, <1>2, <1>5 DEF Fits, Protocol
<1>7. CASE sessions[s] = None
  <2>1. /\ sessions' = [sessions EXCEPT ![s] = FreshSession(q.user)]
        /\ turn' = [turn EXCEPT ![t].pc = "prepare", ![t].session = s]
        /\ desk' = IF t = Desk THEN [desk EXCEPT !.session = s] ELSE desk
    BY <1>3, <1>5, <1>7 DEF CreateSession
  <2>2. PICK r : r = Made("prepare", q.user, s, q.mode, q.step, q.calls, q.sent, q.stored)
    OBVIOUS
  <2>3. turn' = [turn EXCEPT ![t] = r]
    BY <1>2, <1>5, <2>1, <2>2, CreateMakes
  <2>4. r \in Turn
    BY <1>4, <2>2 DEF Made, Turn, Working, Inside
  <2>5. /\ r.pc = "prepare" /\ r.user = q.user /\ r.session = s /\ r.mode = q.mode
        /\ r.sent = q.sent
    BY <2>2, MadeIs
  <2>6. CreatedStep /\ SessionStep
    BY <1>4, <1>6, <1>7, <2>1 DEF CreatedStep, SessionStep
  <2>7. sessions'[s] = FreshSession(q.user)
    BY <1>2, <1>4, <2>1 DEF Types
  <2>8. Open(s, q.user)' /\ ~sessions'[s].deleted
    BY <1>4, <1>6, <2>7, FreshIsRow, NoneAssumption DEF Open
  <2>9. Protocol(r)
    BY <1>6, <2>5 DEF Protocol
  <2>10. Fits(t, r)'
    BY <1>6, <2>5, <2>8, <2>9 DEF Fits
  <2>11. Admitted(t, r)
    BY <2>5, <2>8 DEF Admitted
  <2>12. CASE t # Desk
    BY <1>2, <2>1, <2>3, <2>4, <2>6, <2>10, <2>11, <2>12, MoveGood
  <2>13. CASE t = Desk
    <3>1. MoveStep
      BY <2>3, <2>4, <2>10, <2>11 DEF MoveStep, Moves
    <3>2. /\ desk' \in Tab /\ desk'.session = s /\ desk'.busy = desk.busy
          /\ desk'.listed = desk.listed
      BY <1>2, <1>4, <2>1, <2>13 DEF Types, Tab
    <3>3. desk.busy /\ q.user = DeskUser /\ q.mode = "desk"
      BY <1>1, <1>5, <2>13 DEF ChatInv, TabFits
    <3>4. turn'[Desk] = r
      BY <1>2, <2>3, <2>13 DEF Types
    <3>5. Shown(desk.listed)'
      BY <1>2, <2>6, <3>2, ShownOn DEF ChatInv, TabFits, Shown
    <3>6. TabFits'
      BY <2>5, <2>8, <3>2, <3>3, <3>4, <3>5 DEF TabFits
    <3> QED
      BY <2>6, <3>1, <3>2, <3>6 DEF Good
  <2> QED
    BY <2>12, <2>13
<1>8. CASE sessions[s] # None
  <2>1. turn' = [turn EXCEPT ![t] = Over(t, "no")] /\ UNCHANGED <<sessions, desk>>
    BY <1>3, <1>8 DEF CreateSession
  <2> QED
    BY <1>1, <2>1, EndsGood DEF SessionStep
<1> QED
  BY <1>7, <1>8

LEMMA ToStoreGood ==
    ASSUME ChatInv, NEW t \in Threads, turn[t].pc \in Inside, ToStore(t),
           UNCHANGED <<sessions, desk>>
    PROVE  Good
<1>1. PICK q \in Turn : q = turn[t]
  BY DEF ChatInv, Types
<1>2. PICK r : r = Made("store", q.user, q.session, q.mode, 1, 0, <<>>, q.stored)
  OBVIOUS
<1>3. turn' = [turn EXCEPT ![t] = r]
  BY <1>1, <1>2, ToStoreMakes DEF ChatInv
<1>4. r \in Turn
  BY <1>2, Constants DEF Made, Turn, Working, Inside
<1>5. r.pc = "store" /\ r.user = q.user /\ r.session = q.session /\ r.mode = q.mode
  BY <1>2, MadeIs
<1> QED
  BY <1>1, <1>3, <1>4, <1>5, GoesOnGood DEF Protocol, Inside

LEMMA PrepareGood ==
    ASSUME ChatInv, NEW t \in Threads,
           Prepare(t) \/ AnswerAtOnce(t) \/ PrepareRaises(t) \/ LeaveEarly(t)
    PROVE  Good
<1>1. /\ turn[t].pc = "prepare" /\ turn[t].pc \in Working /\ turn[t].pc \in Inside
      /\ UNCHANGED <<sessions, desk>>
  BY DEF Prepare, AnswerAtOnce, PrepareRaises, LeaveEarly, Working, Inside
<1>2. CASE Prepare(t)
  <2>1. PICK q \in Turn : q = turn[t]
    BY DEF ChatInv, Types
  <2>2. PICK r : r = Made("request", q.user, q.session, q.mode, q.step, q.calls, q.sent,
                          q.stored)
    OBVIOUS
  <2>3. turn' = [turn EXCEPT ![t] = r]
    BY <1>2, <2>1, <2>2, GotoMakes DEF ChatInv, Prepare
  <2>4. r \in Turn
    BY <2>2 DEF Made, Turn, Working, Inside
  <2>5. /\ r.pc = "request" /\ r.user = q.user /\ r.session = q.session /\ r.mode = q.mode
        /\ r.sent = q.sent
    BY <2>2, MadeIs
  <2>6. q.sent = <<>>
    BY <1>1, <2>1 DEF ChatInv, Fits, Protocol
  <2>7. 1 .. Len(r.sent) = {}
    BY <2>5, <2>6
  <2> QED
    BY <1>1, <2>1, <2>3, <2>4, <2>5, <2>7, GoesOnGood DEF Protocol, Inside
<1>3. CASE ToStore(t)
  BY <1>1, <1>3, ToStoreGood
<1>4. CASE turn' = [turn EXCEPT ![t] = Over(t, "no")]
  BY <1>1, <1>4, EndsGood DEF SessionStep
<1> QED
  BY <1>2, <1>3, <1>4 DEF AnswerAtOnce, PrepareRaises, LeaveEarly

LEMMA LeaveGood ==
    ASSUME ChatInv, NEW t \in Threads, Leave(t)
    PROVE  Good
BY ToStoreGood DEF Leave, CloseStream, Inside

LEMMA StoreGood ==
    ASSUME ChatInv, NEW t \in Threads, Store(t)
    PROVE  Good
<1>1. /\ turn[t].pc = "store" /\ turn[t].pc \in Working /\ turn[t].pc \in Inside
      /\ UNCHANGED desk
  BY DEF Store, Working, Inside
<1>2. CASE \E rows \in RowOrders(t) :
              /\ sessions' = [sessions EXCEPT ![StoresTo(t)] =
                                  Counted(sessions[StoresTo(t)], rows)]
              /\ turn' = [turn EXCEPT ![t] = Over(t, "yes")]
  <2>1. PICK rows \in RowOrders(t) :
              /\ sessions' = [sessions EXCEPT ![StoresTo(t)] =
                                  Counted(sessions[StoresTo(t)], rows)]
              /\ turn' = [turn EXCEPT ![t] = Over(t, "yes")]
    BY <1>2
  <2>2. PICK u \in Users : u = turn[t].user
    BY <1>1 DEF ChatInv, Fits
  <2>3. Open(StoresTo(t), u)
    BY <1>1, <2>2 DEF ChatInv, Fits, TabFits, StoresTo
  <2>4. PICK ask, answer \in MessageRow :
            /\ ask = Message(t, "user") /\ answer = Message(t, "assistant")
            /\ ask.user = u /\ answer.user = u
    <3>1. \A role \in {"user", "assistant"} :
             Message(t, role) \in MessageRow /\ Message(t, role).user = u
      BY <2>2 DEF Message, MessageRow
    <3> QED
      BY <3>1
  <2>5. rows = <<ask, answer>> \/ rows = <<answer, ask>>
    BY <2>4 DEF RowOrders
  <2>6. rows \in Seq(MessageRow) /\ Len(rows) = 2 /\ rows[1].user = u /\ rows[2].user = u
    <3>1. \A a, b \in MessageRow :
             /\ <<a, b>> \in Seq(MessageRow) /\ Len(<<a, b>>) = 2
             /\ <<a, b>>[1] = a /\ <<a, b>>[2] = b
      OBVIOUS
    <3>2. PICK a, b \in MessageRow : rows = <<a, b>> /\ a.user = u /\ b.user = u
      BY <2>4, <2>5
    <3>3. /\ <<a, b>> \in Seq(MessageRow) /\ Len(<<a, b>>) = 2
          /\ <<a, b>>[1] = a /\ <<a, b>>[2] = b
      BY <3>1
    <3> QED
      BY <3>2, <3>3, Zenon
  <2>7. \A i \in 1 .. 2 : rows[i].user = u
    BY <2>6
  <2>8. StoresTo(t) \in Ids
    BY <2>3 DEF Open
  <2>9. SessionStep
    BY <2>1, <2>3, <2>6, <2>7, <2>8 DEF SessionStep, StoredStep
  <2> QED
    BY <1>1, <2>1, <2>9, EndsGood
<1>3. CASE turn' = [turn EXCEPT ![t] = Over(t, "failed")] /\ UNCHANGED sessions
  BY <1>1, <1>3, EndsGood DEF SessionStep
<1> QED
  BY <1>2, <1>3 DEF Store

\* What is answered stays so however much is sent after it.
LEMMA AnsweredOn ==
    ASSUME NEW a \in Seq(Item), NEW b \in Seq(Item), Len(a) <= Len(b),
           \A j \in 1 .. Len(a) : b[j] = a[j], NEW i \in 1 .. Len(a), Answered(a, i)
    PROVE  Answered(b, i)
<1>1. b[i] = a[i] /\ DOMAIN a = 1 .. Len(a) /\ DOMAIN b = 1 .. Len(b)
  OBVIOUS
<1>2. Len(a) \in Nat /\ Len(b) \in Nat
  OBVIOUS
<1> SUFFICES ASSUME a[i].kind = "calls", NEW k \in 1 .. a[i].n
             PROVE  i + k \in DOMAIN b /\ b[i + k] = Result(k)
  BY <1>1 DEF Answered
<1>3. i + k \in DOMAIN a /\ a[i + k] = Result(k)
  BY DEF Answered
<1> QED
  BY <1>1, <1>2, <1>3

LEMMA RequestGood ==
    ASSUME ChatInv, NEW t \in Threads, Request(t)
    PROVE  Good
<1>1. turn[t].pc = "request" /\ turn[t].pc \in Inside /\ UNCHANGED <<sessions, desk>>
  BY DEF Request, Inside
<1>2. CASE ToStore(t)
  BY <1>1, <1>2, ToStoreGood
<1>3. CASE \E n \in Batches :
              turn' = [turn EXCEPT ![t].pc = "batch", ![t].calls = n,
                                   ![t].sent = Append(@, Calls(n))]
  <2>1. PICK n \in Batches :
              turn' = [turn EXCEPT ![t].pc = "batch", ![t].calls = n,
                                   ![t].sent = Append(@, Calls(n))]
    BY <1>3
  <2>2. PICK q \in Turn : q = turn[t]
    BY DEF ChatInv, Types
  <2>3. PICK a \in Seq(Item) : a = q.sent
    BY DEF Turn
  <2>4. Calls(n) \in Item
    BY Constants DEF Calls, Item
  <2>5. PICK b \in Seq(Item) : b = Append(a, Calls(n))
    <3>1. Append(a, Calls(n)) \in Seq(Item)
      BY <2>4, AppendProperties
    <3> QED
      BY <3>1
  <2>6. /\ Len(a) \in Nat /\ Len(b) = Len(a) + 1 /\ b[Len(b)] = Calls(n)
        /\ \A i \in 1 .. Len(a) : b[i] = a[i]
    BY <2>4, <2>5, AppendProperties
  <2>7. PICK r : r = Made("batch", q.user, q.session, q.mode, q.step, n, b, q.stored)
    OBVIOUS
  <2>8. turn' = [turn EXCEPT ![t] = r]
    BY <2>1, <2>2, <2>3, <2>5, <2>7, RequestMakes DEF ChatInv
  <2>9. r \in Turn
    BY <2>7, Constants DEF Made, Turn, Working, Inside
  <2>10. /\ r.pc = "batch" /\ r.user = q.user /\ r.session = q.session /\ r.mode = q.mode
         /\ r.sent = b /\ r.calls = n
    BY <2>7, MadeIs
  <2>11. \A i \in 1 .. Len(a) : Answered(a, i)
    BY <1>1, <2>2, <2>3 DEF ChatInv, Fits, Protocol
  <2>12. \A i \in 1 .. Len(a) : Answered(b, i)
    BY <2>6, <2>11, AnsweredOn
  <2>13. Len(b) > 0 /\ Len(b) - 1 = Len(a)
    BY <2>6
  <2>14. Protocol(r)
    BY <2>6, <2>10, <2>12, <2>13 DEF Protocol
  <2> QED
    BY <1>1, <2>2, <2>8, <2>9, <2>10, <2>14, GoesOnGood DEF Inside
<1> QED
  BY <1>2, <1>3 DEF Request

LEMMA RunBatchGood ==
    ASSUME ChatInv, NEW t \in Threads, RunBatch(t)
    PROVE  Good
<1>1. turn[t].pc = "batch" /\ turn[t].pc \in Inside /\ UNCHANGED <<sessions, desk>>
  BY DEF RunBatch, Inside
<1>2. CASE turn[t].step = MaxSteps
  BY <1>1, <1>2, ToStoreGood DEF RunBatch
<1>3. CASE turn[t].step # MaxSteps
  <2>1. PICK q \in Turn : q = turn[t]
    BY DEF ChatInv, Types
  <2>2. PICK n \in Nat : n = q.calls
    BY DEF Turn
  <2>3. PICK results : results = [k \in 1 .. n |-> Result(k)]
    OBVIOUS
  <2>4. \A finished : Results(n, finished) = results
    BY <2>3 DEF Results
  <2>5. turn' = [turn EXCEPT ![t].pc = "request", ![t].step = @ + 1, ![t].calls = 0,
                             ![t].sent = @ \o results]
    BY <1>3, <2>1, <2>2, <2>4 DEF RunBatch
  <2>6. PICK a \in Seq(Item) : a = q.sent
    BY DEF Turn
  <2>7. \A k \in 1 .. n : Result(k) \in Item /\ Result(k).kind = "result"
    BY DEF Result, Item
  <2>8. results \in Seq(Item) /\ Len(results) = n
    BY <2>3, <2>7
  <2>9. PICK b \in Seq(Item) : b = a \o results
    <3>1. a \o results \in Seq(Item)
      BY <2>8, ConcatProperties
    <3> QED
      BY <3>1
  <2>10. /\ Len(a) \in Nat /\ Len(b) = Len(a) + n
         /\ \A i \in 1 .. Len(a) + n : b[i] = IF i <= Len(a) THEN a[i] ELSE results[i - Len(a)]
    <3>1. /\ Len(a \o results) = Len(a) + Len(results)
          /\ \A i \in 1 .. Len(a) + Len(results) :
                (a \o results)[i] = IF i <= Len(a) THEN a[i] ELSE results[i - Len(a)]
      BY <2>8, ConcatProperties
    <3>2. Len(a) \in Nat
      OBVIOUS
    <3> QED
      BY <2>8, <2>9, <3>1, <3>2
  <2>11. \A i \in 1 .. Len(a) : b[i] = a[i]
    BY <2>10
  <2>12. \A k \in 1 .. n : Len(a) + k \in 1 .. Len(b) /\ b[Len(a) + k] = Result(k)
    <3> TAKE k \in 1 .. n
    <3>1. Len(a) + k \in 1 .. Len(a) + n /\ ~(Len(a) + k <= Len(a)) /\ Len(a) + k - Len(a) = k
      BY <2>10
    <3> QED
      BY <2>3, <2>10, <3>1
  <2>13. PICK r : r = Made("request", q.user, q.session, q.mode, q.step + 1, 0, b, q.stored)
    OBVIOUS
  <2>14. turn' = [turn EXCEPT ![t] = r]
    BY <2>1, <2>5, <2>6, <2>9, <2>13, BatchMakes DEF ChatInv
  <2>15. q.step + 1 \in 1 .. MaxSteps
    BY <1>3, <2>1, Constants DEF Turn
  <2>16. r \in Turn
    BY <2>13, <2>15 DEF Made, Turn, Working, Inside
  <2>17. /\ r.pc = "request" /\ r.user = q.user /\ r.session = q.session /\ r.mode = q.mode
         /\ r.sent = b
    BY <2>13, MadeIs
  <2>18. /\ Len(a) > 0 /\ a[Len(a)] = Calls(n)
         /\ \A i \in 1 .. Len(a) - 1 : Answered(a, i)
    BY <1>1, <2>1, <2>2, <2>6 DEF ChatInv, Fits, Protocol
  <2>19. \A i \in 1 .. Len(a) - 1 : Answered(b, i)
    <3> TAKE i \in 1 .. Len(a) - 1
    <3>1. i \in 1 .. Len(a) /\ Len(a) <= Len(b)
      BY <2>10
    <3> QED
      BY <2>11, <2>18, <3>1, AnsweredOn
  <2>20. Answered(b, Len(a))
    <3>1. b[Len(a)] = Calls(n)
      BY <2>10, <2>11, <2>18
    <3>2. b[Len(a)].n = n
      BY <3>1 DEF Calls
    <3> QED
      BY <2>12, <3>2 DEF Answered
  <2>21. \A k \in 1 .. n : Answered(b, Len(a) + k)
    BY <2>7, <2>12 DEF Answered
  <2>22. \A i \in 1 .. Len(b) : \/ i \in 1 .. Len(a) - 1 \/ i = Len(a)
                               \/ \E k \in 1 .. n : i = Len(a) + k
    <3> TAKE i \in 1 .. Len(b)
    <3>1. CASE i > Len(a)
      <4>1. i - Len(a) \in 1 .. n /\ i = Len(a) + (i - Len(a))
        BY <2>10, <3>1
      <4> QED
        BY <4>1
    <3> QED
      BY <2>10, <3>1
  <2>23. Protocol(r)
    BY <2>17, <2>19, <2>20, <2>21, <2>22 DEF Protocol
  <2> QED
    BY <1>1, <2>1, <2>14, <2>16, <2>17, <2>23, GoesOnGood DEF Inside
<1> QED
  BY <1>2, <1>3

LEMMA SessionsGood ==
    ASSUME ChatInv, NewChat \/ Delete
    PROVE  Good
<1>1. UNCHANGED <<turn, desk>> /\ MoveStep /\ Types
  BY DEF NewChat, Delete, MoveStep, ChatInv
<1>2. SessionStep
  <2>1. CASE NewChat
    BY <2>1, Constants DEF NewChat, SessionStep, CreatedStep
  <2>2. CASE Delete
    BY <1>1, <2>2 DEF Delete, SessionStep, DeletedStep
  <2> QED
    BY <2>1, <2>2
<1>3. desk' \in Tab
  BY <1>1 DEF Types
<1>4. TabFits'
  <2>1. desk.session # None => Open(desk.session, DeskUser)'
    BY <1>1, <1>2, StaysOpen DEF ChatInv, TabFits, Open
  <2>2. Shown(desk.listed)'
    BY <1>1, <1>2, ShownOn DEF ChatInv, TabFits, Shown
  <2> QED
    BY <1>1, <2>1, <2>2 DEF ChatInv, TabFits
<1> QED
  BY <1>1, <1>2, <1>3, <1>4 DEF Good

\* What the tab does to itself.
TabMoves(session, busy, listed) ==
    /\ desk' \in Tab /\ desk'.session = session /\ desk'.busy = busy
    /\ desk'.listed = listed /\ Shown(listed)
    /\ UNCHANGED <<sessions, turn>>

LEMMA TabGood ==
    ASSUME ChatInv, NEW session, NEW listed, TabMoves(session, desk.busy, listed),
           session = desk.session \/ ~desk.busy,
           session # None => Open(session, DeskUser)
    PROVE  Good
<1>1. SessionStep /\ MoveStep
  BY DEF TabMoves, SessionStep, MoveStep
<1>2. TabFits'
  <2>1. session # None => Open(session, DeskUser)'
    BY DEF TabMoves, Open
  <2>2. turn[Desk].pc \in Working => session = desk.session
    BY DEF ChatInv, TabFits, Working, Inside
  <2> QED
    BY <2>1, <2>2 DEF ChatInv, TabFits, TabMoves, Shown
<1> QED
  BY <1>1, <1>2 DEF Good, TabMoves

LEMMA TabStepsGood ==
    ASSUME ChatInv, OpenTab \/ Refresh \/ OnSelectSession \/ NewSession
    PROVE  Good
<1>1. /\ desk \in Tab /\ UNCHANGED <<sessions, turn>> /\ Listed \subseteq Ids
      /\ Shown(Listed) /\ Shown(desk.listed)
  BY DEF ChatInv, Types, OpenTab, Refresh, OnSelectSession, NewSession, Listed, Live, TabFits, Shown
<1>2. CASE OpenTab
  <2>1. PICK listed \in SUBSET Ids : listed = Listed
    BY <1>1
  <2> DEFINE mid == [desk EXCEPT !.opened = TRUE]
  <2>2. mid \in Tab /\ mid.session = desk.session /\ mid.busy = desk.busy
    BY <1>1 DEF Tab
  <2>3. desk' = [desk EXCEPT !.opened = TRUE, !.listed = listed]
    BY <1>2, <2>1 DEF OpenTab
  <2> HIDE DEF mid
  <2>4. LET new == [mid EXCEPT !.listed = listed]
        IN  /\ new \in Tab /\ new.session = mid.session /\ new.busy = mid.busy
            /\ new.listed = listed
    BY <2>2 DEF Tab
  <2>5. desk' = [mid EXCEPT !.listed = listed]
    BY <2>3, Zenon DEF mid
  <2>6. /\ desk' \in Tab /\ desk'.session = desk.session /\ desk'.busy = desk.busy
        /\ desk'.listed = listed
    BY <2>2, <2>4, <2>5, Zenon
  <2> QED
    BY <1>1, <2>1, <2>6, TabGood DEF TabMoves, ChatInv, TabFits
<1>6. CASE Refresh
  <2>1. /\ desk' \in Tab /\ desk'.session = desk.session /\ desk'.busy = desk.busy
        /\ desk'.listed = Listed
    BY <1>1, <1>6 DEF Refresh, Tab
  <2> QED
    BY <1>1, <2>1, TabGood DEF TabMoves, ChatInv, TabFits
<1>3. \A session \in Ids \cup {None}, readonly \in BOOLEAN :
         /\ desk' = [desk EXCEPT !.session = session, !.readonly = readonly]
         /\ session # None => Open(session, DeskUser)
         /\ ~desk.busy
         => Good
  <2> SUFFICES ASSUME NEW session \in Ids \cup {None}, NEW readonly \in BOOLEAN,
                      desk' = [desk EXCEPT !.session = session, !.readonly = readonly],
                      session # None => Open(session, DeskUser), ~desk.busy
               PROVE  Good
    OBVIOUS
  <2> DEFINE mid == [desk EXCEPT !.session = session]
  <2>1. /\ mid \in Tab /\ mid.session = session /\ mid.busy = desk.busy
        /\ mid.listed = desk.listed
    BY <1>1 DEF Tab
  <2> HIDE DEF mid
  <2>2. LET new == [mid EXCEPT !.readonly = readonly]
        IN  /\ new \in Tab /\ new.session = mid.session /\ new.busy = mid.busy
            /\ new.listed = mid.listed
    BY <2>1 DEF Tab
  <2>3. desk' = [mid EXCEPT !.readonly = readonly]
    BY Zenon DEF mid
  <2>4. /\ desk' \in Tab /\ desk'.session = session /\ desk'.busy = desk.busy
        /\ desk'.listed = desk.listed
    BY <2>1, <2>2, <2>3, Zenon
  <2> QED
    BY <1>1, <2>4, TabGood DEF TabMoves
<1>4. CASE OnSelectSession
  <2>1. PICK s \in desk.listed :
            desk' = IF sessions[s].owner = DeskUser
                    THEN [desk EXCEPT !.session = s, !.readonly = FALSE]
                    ELSE [desk EXCEPT !.session = None, !.readonly = TRUE]
    BY <1>4 DEF OnSelectSession
  <2>2. s \in Ids /\ ~desk.busy
    BY <1>1, <1>4, <2>1 DEF Tab, OnSelectSession, MaySelect
  <2>3. CASE sessions[s].owner = DeskUser
    <3>1. Open(s, DeskUser)
      BY <1>1, <2>1, <2>2, <2>3 DEF Open, Shown
    <3>2. desk' = [desk EXCEPT !.session = s, !.readonly = FALSE]
      BY <2>1, <2>3, Zenon
    <3> QED
      BY <1>3, <2>2, <3>1, <3>2
  <2>4. CASE sessions[s].owner # DeskUser
    <3>1. desk' = [desk EXCEPT !.session = None, !.readonly = TRUE]
      BY <2>1, <2>4, Zenon
    <3> QED
      BY <1>3, <2>2, <3>1
  <2> QED
    BY <2>3, <2>4
<1>5. CASE NewSession
  BY <1>3, <1>5 DEF NewSession, MaySelect
<1> QED
  BY <1>2, <1>4, <1>5, <1>6

LEMMA SendGood ==
    ASSUME ChatInv, Send
    PROVE  Good
<1>1. /\ ~desk.busy /\ desk.sends < MaxSends /\ UNCHANGED sessions /\ desk \in Tab
      /\ Shown(desk.listed) /\ SessionStep
      /\ desk.session # None => Open(desk.session, DeskUser)
  BY DEF Send, MaySelect, ChatInv, Types, TabFits, SessionStep
<1>2. PICK r : r = Made("resolve", DeskUser, desk.session, "desk", 1, 0, <<>>, "no")
  OBVIOUS
<1>3. turn' = [turn EXCEPT ![Desk] = r]
  <2>1. turn' = [turn EXCEPT ![Desk] = [Idle EXCEPT !.pc = "resolve", !.user = DeskUser,
                                                    !.session = desk.session, !.mode = "desk"]]
    BY DEF Send
  <2> QED
    BY <1>2, <2>1, AskedIs
<1>4. r \in Turn
  BY <1>1, <1>2, Constants DEF Made, Turn, Working, Tab
<1>5. /\ r.pc = "resolve" /\ r.user = DeskUser /\ r.session = desk.session
      /\ r.mode = "desk" /\ r.sent = <<>>
  BY <1>2, MadeIs
<1>6. Fits(Desk, r)' /\ Admitted(Desk, r)
  BY <1>5, Constants DEF Fits, Admitted, Protocol, Inside
<1>7. MoveStep
  BY <1>3, <1>4, <1>6, Constants DEF MoveStep, Moves
<1>8. turn'[Desk] = r
  BY <1>3, Constants DEF ChatInv, Types
<1>9. PICK sends \in 0 .. MaxSends : sends = desk.sends + 1
  BY <1>1, Constants DEF Tab
<1> DEFINE mid == [desk EXCEPT !.busy = TRUE]
<1>10. /\ mid \in Tab /\ mid.session = desk.session /\ mid.busy = TRUE
       /\ mid.listed = desk.listed
  BY <1>1 DEF Tab
<1> HIDE DEF mid
<1>11. LET new == [mid EXCEPT !.sends = sends]
       IN  /\ new \in Tab /\ new.session = mid.session /\ new.busy = TRUE
           /\ new.listed = mid.listed
  BY <1>10 DEF Tab
<1>12. desk' = [desk EXCEPT !.busy = TRUE, !.sends = sends]
  BY <1>9, Zenon DEF Send
<1>13. desk' = [mid EXCEPT !.sends = sends]
  BY <1>12, Zenon DEF mid
<1>14. /\ desk' \in Tab /\ desk'.session = desk.session /\ desk'.busy = TRUE
       /\ desk'.listed = desk.listed
  BY <1>10, <1>11, <1>13, Zenon
<1>15. desk'.session # None => Open(desk.session, DeskUser)'
  BY <1>1, <1>14 DEF Open
<1>16. TabFits'
  BY <1>1, <1>5, <1>8, <1>14, <1>15 DEF TabFits, Shown
<1> QED
  BY <1>1, <1>7, <1>14, <1>16 DEF Good

LEMMA FinishGood ==
    ASSUME ChatInv, FinishResult
    PROVE  Good
<1>1. /\ UNCHANGED sessions /\ desk \in Tab /\ SessionStep
      /\ Shown(desk.listed) /\ desk.listed \subseteq Ids
      /\ Shown(Listed) /\ Listed \subseteq Ids
      /\ desk.session # None => Open(desk.session, DeskUser)
  BY DEF FinishResult, ChatInv, Types, Tab, TabFits, SessionStep, Shown, Listed, Live
<1>2. PICK r : r = Idle
  OBVIOUS
<1>3. r = Made("idle", None, None, "json", 1, 0, <<>>, "no")
  BY <1>2 DEF Idle, Made
<1>4. r \in Turn
  BY <1>3, Constants DEF Made, Turn
<1>5. r.pc = "idle" /\ r.mode = "json"
  BY <1>3, MadeIs
<1>6. Fits(Desk, r)' /\ Admitted(Desk, r)
  BY <1>5, Constants DEF Fits, Admitted, Protocol, Working, Inside
<1>7. turn' = [turn EXCEPT ![Desk] = r]
  BY <1>2 DEF FinishResult
<1>8. MoveStep
  BY <1>4, <1>6, <1>7, Constants DEF MoveStep, Moves
<1>9. turn'[Desk] = r
  BY <1>7, Constants DEF ChatInv, Types
<1>10. PICK listed \in SUBSET Ids :
          Shown(listed) /\ listed = IF turn[Desk].stored = "no" THEN desk.listed ELSE Listed
  BY <1>1
<1> DEFINE mid == [desk EXCEPT !.busy = FALSE]
<1>11. mid \in Tab /\ mid.session = desk.session /\ mid.busy = FALSE
  BY <1>1 DEF Tab
<1> HIDE DEF mid
<1>12. LET new == [mid EXCEPT !.listed = listed]
       IN  /\ new \in Tab /\ new.session = mid.session /\ new.busy = FALSE
           /\ new.listed = listed
  BY <1>11 DEF Tab
<1>13. desk' = [desk EXCEPT !.busy = FALSE, !.listed = listed]
  BY <1>10, Zenon DEF FinishResult
<1>14. desk' = [mid EXCEPT !.listed = listed]
  BY <1>13, Zenon DEF mid
<1>15. /\ desk' \in Tab /\ desk'.session = desk.session /\ desk'.busy = FALSE
       /\ desk'.listed = listed
  BY <1>11, <1>12, <1>14, Zenon
<1>16. desk'.session # None => Open(desk.session, DeskUser)'
  BY <1>1, <1>15 DEF Open
<1>17. Shown(listed)'
  BY <1>1, <1>10 DEF Shown
<1>18. TabFits'
  BY <1>5, <1>9, <1>15, <1>16, <1>17 DEF TabFits, Working, Inside
<1> QED
  BY <1>1, <1>8, <1>15, <1>18 DEF Good

LEMMA NextGood ==
    ASSUME ChatInv, Next
    PROVE  Good
<1>1. ASSUME NEW t \in Threads, Ask(t) \/ Step(t) \/ Leave(t) \/ LeaveEarly(t)
      PROVE  Good
  BY <1>1, AskGood, ResolveGood, CreateGood, PrepareGood, RequestGood, RunBatchGood,
     LeaveGood, StoreGood DEF Step
<1>2. CASE NewChat \/ Delete
  BY <1>2, SessionsGood
<1>3. CASE OpenTab \/ Refresh \/ OnSelectSession \/ NewSession
  BY <1>3, TabStepsGood
<1> QED
  BY <1>1, <1>2, <1>3, SendGood, FinishGood DEF Next

-----------------------------------------------------------------------------
(* The invariant, and what follows *)

LEMMA InitInv ==
    ASSUME Init
    PROVE  ChatInv
<1>1. PICK r : r = Idle
  OBVIOUS
<1>2. r = Made("idle", None, None, "json", 1, 0, <<>>, "no")
  BY <1>1 DEF Idle, Made
<1>3. r \in Turn
  BY <1>2, Constants DEF Made, Turn
<1>4. r.pc = "idle" /\ r.mode = "json"
  BY <1>2, MadeIs
<1>5. \A t \in Threads : turn[t] = r
  BY <1>1 DEF Init
<1>6. Types
  <2>1. turn \in [Threads -> Turn]
    BY <1>1, <1>3 DEF Init
  <2>2. desk \in Tab
    BY Constants DEF Init, Tab
  <2> QED
    BY <2>1, <2>2 DEF Init, Types
<1>7. \A t \in Threads : Fits(t, turn[t])
  BY <1>4, <1>5 DEF Fits, Protocol, Working, Inside
<1>8. TabFits
  BY <1>4, <1>5, Constants DEF Init, TabFits, Shown, Working, Inside
<1>9. \A s \in Ids : Kept(sessions[s], AtWork(s))
  BY DEF Init, Kept
<1> QED
  BY <1>6, <1>7, <1>8, <1>9 DEF ChatInv

LEMMA StutterKeeps ==
    ASSUME ChatInv, UNCHANGED vars
    PROVE  ChatInv'
<1>1. SessionStep /\ MoveStep /\ UNCHANGED desk
  BY DEF vars, SessionStep, MoveStep
<1>2. desk' \in Tab /\ TabFits'
  BY DEF vars, ChatInv, Types, TabFits, Shown, Open
<1> QED
  BY <1>1, <1>2, GoodKeeps DEF Good

LEMMA Invariant == Spec => []ChatInv
<1>1. Init => ChatInv
  BY InitInv
<1>2. ChatInv /\ [Next]_vars => ChatInv'
  BY NextGood, GoodKeeps, StutterKeeps
<1> QED
  BY <1>1, <1>2, PTL DEF Spec

\* The sessions, the turns and the tab always have the types the model says, and a
\* session counts as many messages as it has: the counter and the two rows of a turn
\* are written by one transaction (Repository.record_chat_turn).
THEOREM ChatTypes == Spec => []TypeOK
<1>1. ChatInv => TypeOK
  BY DEF ChatInv, Types, TypeOK, Turn, Tab, Kept
<1> QED
  BY <1>1, Invariant, PTL

\* Whatever ids the clients name, however their requests overlap and whoever deletes
\* or reads: a session holds its owner's messages alone (ChatStore.ensure_session,
\* Repository.create_chat_session).
THEOREM ChatOwnTurns == Spec => []OwnTurns
<1>1. ChatInv => OwnTurns
  <2> SUFFICES ASSUME ChatInv, NEW s \in Ids, sessions[s] # None
               PROVE  \A i \in DOMAIN sessions[s].log :
                          sessions[s].log[i].user = sessions[s].owner
    BY DEF OwnTurns
  <2>1. sessions[s].log \in Seq(MessageRow)
    BY DEF ChatInv, Types, Row
  <2>2. DOMAIN sessions[s].log = 1 .. Len(sessions[s].log)
    BY <2>1
  <2> QED
    BY <2>2 DEF ChatInv, Kept
<1> QED
  BY <1>1, Invariant, PTL

\* Whenever the model is asked, every batch of calls it has made is followed by the
\* results of these calls in their order, for batches of any size in any number
\* (ChatAgent._iter_turn).
THEOREM ChatProviderProtocol == Spec => []ProviderProtocol
<1>1. ChatInv => ProviderProtocol
  <2> SUFFICES ASSUME ChatInv, NEW t \in Threads, turn[t].pc = "request",
                      NEW i \in DOMAIN turn[t].sent
               PROVE  Answered(turn[t].sent, i)
    BY DEF ProviderProtocol, Answered
  <2>1. turn[t].sent \in Seq(Item)
    BY DEF ChatInv, Types, Turn
  <2>2. i \in 1 .. Len(turn[t].sent)
    BY <2>1
  <2> QED
    BY <2>2 DEF ChatInv, Fits, Protocol
<1> QED
  BY <1>1, Invariant, PTL

\* The tab's worker stores a turn in the session the question was asked in, and it is
\* the desktop user's, whatever is clicked meanwhile (ChatbotTab._run, _send,
\* _on_select_session).
THEOREM ChatDeskTurnsWhereSent == Spec => []DeskTurnsWhereSent
<1>1. ChatInv => DeskTurnsWhereSent
  BY Constants DEF ChatInv, Fits, TabFits, DeskTurnsWhereSent, Working, Inside, Open
<1> QED
  BY <1>1, Invariant, PTL

\* A turn of the server that is at work in a deleted session was at work in it when it
\* was deleted: no later request is admitted (ChatStore.ensure_session).
THEOREM ChatDeletedTurnsWereRunning == Spec => []DeletedTurnsWereRunning
<1>1. ChatInv => DeletedTurnsWereRunning
  BY DEF ChatInv, Kept, DeletedTurnsWereRunning
<1> QED
  BY <1>1, Invariant, PTL

============================================================================
