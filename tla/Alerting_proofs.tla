--------------------------- MODULE Alerting_proofs ---------------------------
(***************************************************************************)
(* Proofs about Alerting, for any set of jobs and rules, any windows,      *)
(* switches and operations, and any length of the clock.                   *)
(***************************************************************************)
EXTENDS Alerting, TLAPS

\* What a job has in hand fits the step it is at: only a capture or an event
\* walks through rules and stores cooldowns, and a resend has no other rule.
InStep ==
    \A j \in Jobs :
        /\ pc[j] = "idle" => arg[j].todo = {}
        /\ pc[j] = "next" => arg[j].stage # "resend"
        /\ pc[j] = "save" => arg[j].stage # "resend"
        /\ pc[j] \in {"send", "save", "trace"} => arg[j].rule \in Rules
        /\ arg[j].stage = "resend" => arg[j].todo = {}

MailOf(j) ==
    [job |-> j, stage |-> arg[j].stage, rule |-> arg[j].rule, at |-> arg[j].at]

\* A job about to record a mail as sent has sent it.
SentBefore ==
    \A j \in Jobs :
        pc[j] = "save" \/ (pc[j] = "trace" /\ arg[j].result # "send_failed")
            => MailOf(j) \in mails

NotAhead ==
    /\ \A m \in mails : m.at <= now
    /\ \A j \in Jobs : arg[j].at <= now

\* A stored cooldown is that of an automatic mail.
Remembered ==
    \A r \in Rules : lastSent[r] # Never =>
        \E m \in Automatic : m.rule = r /\ m.at = lastSent[r]

\* A rule that is not disturbed has one holder; what it was mailed is covered
\* by its cooldown or is the holder's own mail, about to be stored; and the
\* holder read the cooldown after it was stored and a window later.
OneHolder(r) == \A j, k \in Jobs : Holds(j, r) /\ Holds(k, r) => j = k
Covered(r) ==
    \A m \in Automatic : m.rule = r =>
        \/ lastSent[r] # Never /\ m.at <= lastSent[r]
        \/ \E j \in Jobs : Holds(j, r) /\ pc[j] = "save" /\ m = MailOf(j)
WindowLater(j, r) ==
    /\ lastSent[r] <= arg[j].at
    /\ \A m \in Automatic : m.rule = r =>
        \/ arg[j].at - m.at >= Window(arg[j].stage)
        \/ pc[j] = "save" /\ m = MailOf(j)
Orderly ==
    \A r \in Rules \ disturbed :
        /\ OneHolder(r)
        /\ Covered(r)
        /\ \A j \in Jobs : Holds(j, r) => WindowLater(j, r)

AlertInv ==
    /\ TypeOK /\ InStep /\ SentBefore /\ NotAhead /\ Remembered
    /\ SkipHasCause /\ TraceIsTrue
    /\ CooldownOn => Orderly /\ MailsApart

-----------------------------------------------------------------------------
(* Operators *)

Steps == {"idle", "next", "send", "save", "trace", "done"}
Parts == {"capture", "event"}

\* A window is a positive number of ticks, since 0 means the default.
LEMMA WindowType == \A stage \in Parts : Window(stage) \in Nat /\ Window(stage) > 0
BY WindowAssumption DEF Window, Parts

\* What a job holds to begin with has the shape of a job's locals.
LEMMA LocalType ==
    /\ NoLocal \in Local
    /\ \A stage \in Stages, todo \in SUBSET Rules :
          [NoLocal EXCEPT !.stage = stage, !.todo = todo] \in Local
<1>1. 0 \in Time
  BY WindowAssumption DEF Time
<1>2. NoLocal \in Local
  BY <1>1 DEF Local, NoLocal, Stages, Outcomes
<1>3. ASSUME NEW stage \in Stages, NEW todo \in SUBSET Rules
      PROVE  [NoLocal EXCEPT !.stage = stage, !.todo = todo] \in Local
  BY <1>2 DEF Local
<1> QED
  BY <1>2, <1>3

LEMMA TypeOf ==
    ASSUME TypeOK, NEW j \in Jobs
    PROVE  /\ arg[j] \in Local /\ pc[j] \in Steps
           /\ arg[j].stage \in Stages /\ arg[j].todo \in SUBSET Rules
           /\ arg[j].rule \in Rules \cup {"none"}
           /\ arg[j].at \in Time /\ arg[j].result \in Outcomes
BY DEF TypeOK, Steps, Local

\* Only the job that moves changes its step and its locals.
LEMMA OnlyOneMoves ==
    ASSUME TypeOK, NEW j \in Jobs, NEW step, NEW l, Goto(j, step, l)
    PROVE  /\ pc'[j] = step /\ arg'[j] = l
           /\ \A k \in Jobs \ {j} : pc'[k] = pc[k] /\ arg'[k] = arg[k]
BY DEF TypeOK, Goto

LEMMA GotoType ==
    ASSUME TypeOK, NEW j \in Jobs, NEW step \in Steps, NEW l \in Local,
           Goto(j, step, l)
    PROVE  pc' \in [Jobs -> Steps] /\ arg' \in [Jobs -> Local]
BY DEF TypeOK, Goto, Steps

-----------------------------------------------------------------------------
(* A step that mails nothing and stores no cooldown *)

MailInv == NotAhead /\ Remembered /\ (CooldownOn => Orderly /\ MailsApart)

\* The job lets go of what it held, and of a mail that is not stored yet only
\* with its rule disturbed.
LEMMA LettingGo ==
    ASSUME TypeOK, MailInv, NEW j \in Jobs, NEW step \in Steps, NEW l \in Local,
           Goto(j, step, l), l.at <= now,
           UNCHANGED <<now, lastSent, mails>>,
           disturbed \subseteq disturbed', disturbed' \subseteq Rules,
           step \in {"send", "save"} => l.stage = "resend",
           pc[j] = "save" => arg[j].stage = "resend" \/ arg[j].rule \in disturbed'
    PROVE  MailInv'
<1>1. /\ pc'[j] = step /\ arg'[j] = l
      /\ \A k \in Jobs \ {j} : pc'[k] = pc[k] /\ arg'[k] = arg[k]
  BY OnlyOneMoves
<1>2. NotAhead'
  BY <1>1 DEF NotAhead, MailInv
<1>3. Automatic' = Automatic
  BY DEF Automatic
<1>4. Remembered'
  BY <1>3 DEF Remembered, MailInv
<1>5. \A k \in Jobs \ {j} : MailOf(k)' = MailOf(k) /\ pc'[k] = pc[k] /\ arg'[k] = arg[k]
  BY <1>1 DEF MailOf
<1>6. \A r \in Rules, k \in Jobs : Holds(k, r)' => k # j /\ Holds(k, r)
  BY <1>1 DEF Holds
<1>7. ASSUME CooldownOn PROVE Orderly' /\ MailsApart'
  <2>1. ASSUME NEW r \in Rules \ disturbed' PROVE OneHolder(r)'
    BY <1>6, <1>7 DEF OneHolder, MailInv, Orderly
  <2>2. ASSUME NEW r \in Rules \ disturbed' PROVE Covered(r)'
    <3> SUFFICES ASSUME NEW m \in Automatic, m.rule = r,
                        ~(lastSent[r] # Never /\ m.at <= lastSent[r])
                 PROVE  \E k \in Jobs : Holds(k, r)' /\ pc'[k] = "save" /\ m = MailOf(k)'
      BY <1>3 DEF Covered
    <3>1. PICK k \in Jobs : Holds(k, r) /\ pc[k] = "save" /\ m = MailOf(k)
      BY <1>7, <2>2 DEF MailInv, Orderly, Covered
    <3>2. k # j
      BY <2>2, <3>1 DEF Holds
    <3> QED
      BY <1>5, <3>1, <3>2 DEF Holds
  <2>3. ASSUME NEW r \in Rules \ disturbed', NEW k \in Jobs, Holds(k, r)'
        PROVE  WindowLater(k, r)'
    <3>1. k # j /\ Holds(k, r)
      BY <1>6, <2>3
    <3>2. WindowLater(k, r)
      BY <1>7, <2>3, <3>1 DEF MailInv, Orderly
    <3> QED
      BY <1>3, <1>5, <3>1, <3>2 DEF WindowLater, Window
  <2>4. MailsApart'
    BY <1>3, <1>7 DEF MailInv, MailsApart, Window
  <2> QED
    BY <2>1, <2>2, <2>3, <2>4 DEF Orderly
<1> QED
  BY <1>2, <1>4, <1>7 DEF MailInv

-----------------------------------------------------------------------------
(* The steps that take a rule in hand, mail it and store its cooldown *)

LEMMA TickKeepsMail == ASSUME TypeOK, MailInv, Tick PROVE MailInv'
<1>1. NotAhead'
  BY DEF NotAhead, MailInv, Tick, TypeOK, Mail, Local, Time
<1>2. Remembered' /\ Automatic' = Automatic
  BY DEF Remembered, MailInv, Tick, Automatic
<1>3. ASSUME CooldownOn PROVE Orderly' /\ MailsApart'
  <2> USE <1>2, <1>3 DEF MailInv, Tick
  <2>1. MailsApart'
    BY DEF MailsApart
  <2>2. Orderly'
    BY DEF Orderly, OneHolder, Covered, WindowLater, Holds, MailOf
  <2> QED
    BY <2>1, <2>2
<1> QED
  BY <1>1, <1>2, <1>3 DEF MailInv

\* A cooldown that is over was read after every mail of the rule, a window ago.
LEMMA PassKeepsMail ==
    ASSUME TypeOK, InStep, MailInv, NEW j \in Jobs, NEW r \in Rules, PassCooldown(j, r)
    PROVE  MailInv'
<1> DEFINE l == [Without(j, r) EXCEPT !.rule = r, !.at = now]
<1>1. /\ pc[j] = "next" /\ ~Blocked(arg[j].stage, r) /\ Goto(j, "send", l)
      /\ UNCHANGED <<now, lastSent, mails>>
      /\ disturbed \subseteq disturbed'
      /\ r \notin disturbed' => ~\E k \in Jobs : Holds(k, r)
  BY DEF PassCooldown
<1>2. arg[j].stage \in Parts /\ arg[j] \in Local
  BY <1>1, TypeOf DEF InStep, Stages, Parts
<1>3. l.rule = r /\ l.at = now /\ l.stage = arg[j].stage
  BY <1>2 DEF Local, Without
<1> HIDE DEF l
<1>4. /\ pc'[j] = "send" /\ arg'[j] = l
      /\ \A k \in Jobs \ {j} : pc'[k] = pc[k] /\ arg'[k] = arg[k]
  BY <1>1, OnlyOneMoves
<1>5. NotAhead'
  BY <1>1, <1>3, <1>4 DEF NotAhead, MailInv, TypeOK, Time
<1>6. Automatic' = Automatic /\ Remembered'
  BY <1>1 DEF Automatic, Remembered, MailInv
<1>7. \A k \in Jobs \ {j} : MailOf(k)' = MailOf(k)
  BY <1>4 DEF MailOf
<1>8. \A q \in Rules, k \in Jobs : Holds(k, q)' => (k = j /\ q = r) \/ (k # j /\ Holds(k, q))
  BY <1>3, <1>4 DEF Holds
<1>9. ASSUME CooldownOn PROVE Orderly' /\ MailsApart'
  <2>1. MailsApart'
    BY <1>1, <1>6, <1>9 DEF MailInv, MailsApart
  <2>2. ASSUME NEW q \in Rules \ disturbed' PROVE OneHolder(q)'
    BY <1>1, <1>8, <1>9, <2>2 DEF OneHolder, MailInv, Orderly
  <2>3. ASSUME NEW q \in Rules \ disturbed' PROVE Covered(q)'
    <3> SUFFICES ASSUME NEW m \in Automatic, m.rule = q,
                        ~(lastSent[q] # Never /\ m.at <= lastSent[q])
                 PROVE  \E k \in Jobs : Holds(k, q)' /\ pc'[k] = "save" /\ m = MailOf(k)'
      BY <1>1, <1>6 DEF Covered
    <3>1. PICK k \in Jobs : Holds(k, q) /\ pc[k] = "save" /\ m = MailOf(k)
      BY <1>1, <1>9, <2>3 DEF MailInv, Orderly, Covered
    <3>2. k # j
      BY <1>1, <3>1
    <3> QED
      BY <1>4, <1>7, <3>1, <3>2 DEF Holds
  <2>4. ASSUME NEW q \in Rules \ disturbed', NEW k \in Jobs, Holds(k, q)'
        PROVE  WindowLater(k, q)'
    <3>1. CASE k # j /\ Holds(k, q)
      <4>1. WindowLater(k, q)
        BY <1>1, <1>9, <2>4, <3>1 DEF MailInv, Orderly
      <4> QED
        BY <1>1, <1>4, <1>6, <1>7, <3>1, <4>1 DEF WindowLater, Window
    <3>2. CASE k = j /\ q = r
      <4>1. Covered(r) /\ ~\E i \in Jobs : Holds(i, r)
        BY <1>1, <1>9, <2>4, <3>2 DEF MailInv, Orderly
      <4>2. ASSUME NEW m \in Automatic, m.rule = r
            PROVE  now - m.at >= Window(arg[j].stage)
        <5>1. lastSent[r] # Never /\ m.at <= lastSent[r]
          BY <4>1, <4>2 DEF Covered
        <5>2. now - lastSent[r] >= Window(arg[j].stage)
          BY <1>1, <1>2, <1>9, <5>1, WindowType DEF Blocked, InForce, TypeOK, Time
        <5>3. m.at \in Nat /\ lastSent[r] \in Nat /\ now \in Nat
          BY <5>1 DEF Automatic, TypeOK, Mail, Time, Never
        <5> QED
          BY <1>2, <5>1, <5>2, <5>3, WindowType
      <4>3. lastSent[r] <= now
        <5>1. CASE lastSent[r] = Never
          BY <5>1 DEF Never, TypeOK, Time
        <5>2. CASE lastSent[r] # Never
          BY <5>2 DEF MailInv, Remembered, NotAhead, Automatic
        <5> QED
          BY <5>1, <5>2
      <4> QED
        BY <1>1, <1>3, <1>4, <1>6, <3>2, <4>2, <4>3 DEF WindowLater, Window
    <3> QED
      BY <1>8, <2>4, <3>1, <3>2
  <2> QED
    BY <2>1, <2>2, <2>3, <2>4 DEF Orderly
<1> QED
  BY <1>5, <1>6, <1>9 DEF MailInv

\* Another mail of the rule is a window older than the holder's.
LEMMA EarlierMails ==
    ASSUME TypeOK, InStep, MailInv, CooldownOn, NEW j \in Jobs, pc[j] = "send",
           arg[j].stage # "resend", arg[j].rule \notin disturbed,
           NEW m \in Automatic, m.rule = arg[j].rule
    PROVE  arg[j].at - m.at >= Window(arg[j].stage) /\ m.at < arg[j].at
<1>1. arg[j].rule \in Rules /\ arg[j].stage \in Parts
  BY TypeOf DEF InStep, Parts, Stages
<1>2. WindowLater(j, arg[j].rule)
  BY <1>1 DEF MailInv, Orderly, Holds
<1>3. m.at \in Nat /\ arg[j].at \in Nat
  BY TypeOf DEF Automatic, TypeOK, Mail, Time
<1> QED
  BY <1>1, <1>2, <1>3, WindowType DEF WindowLater

\* Answers: the step goes to storing the cooldown only with a mail that was sent.
LEMMA Answers ==
    ASSUME TypeOK, InStep, NEW j \in Jobs, Send(j)
    PROVE  \E result \in Outcomes :
              /\ Goto(j, AfterSend(arg[j].stage, result), [arg[j] EXCEPT !.result = result])
              /\ [arg[j] EXCEPT !.result = result] \in Local
              /\ mails' = IF result = "send_failed" THEN mails ELSE mails \cup {MailOf(j)}
              /\ MailOf(j) \in Mail
<1>1. PICK result \in IF DryRun THEN {"simulated"} ELSE {"sent", "send_failed"} :
          /\ Goto(j, AfterSend(arg[j].stage, result), [arg[j] EXCEPT !.result = result])
          /\ mails' = IF result = "send_failed" THEN mails ELSE mails \cup {MailOf(j)}
  BY DEF Send, MailOf
<1>2. result \in Outcomes
  BY DEF Outcomes
<1>3. arg[j] \in Local /\ arg[j].rule \in Rules
  BY TypeOf DEF Send, InStep
<1>4. [arg[j] EXCEPT !.result = result] \in Local /\ MailOf(j) \in Mail
  BY <1>2, <1>3 DEF Local, Mail, MailOf
<1> QED
  BY <1>1, <1>2, <1>4

LEMMA SendKeepsMail ==
    ASSUME TypeOK, InStep, MailInv, NEW j \in Jobs, Send(j)
    PROVE  MailInv'
<1>1. PICK result \in Outcomes :
          /\ Goto(j, AfterSend(arg[j].stage, result), [arg[j] EXCEPT !.result = result])
          /\ mails' = IF result = "send_failed" THEN mails ELSE mails \cup {MailOf(j)}
          /\ MailOf(j) \in Mail
  BY Answers
<1> DEFINE step == AfterSend(arg[j].stage, result)
           l == [arg[j] EXCEPT !.result = result]
           r == arg[j].rule
<1>2. pc[j] = "send" /\ r \in Rules /\ UNCHANGED <<now, lastSent, disturbed>>
  BY DEF Send, InStep
<1>3. step \in {"save", "trace"} /\ (step = "save" =>
          result # "send_failed" /\ arg[j].stage # "resend")
  BY DEF AfterSend
<1>4. l.rule = r /\ l.at = arg[j].at /\ l.stage = arg[j].stage
  BY TypeOf DEF Local
<1>5. /\ pc'[j] = step /\ arg'[j] = l
      /\ \A k \in Jobs \ {j} : pc'[k] = pc[k] /\ arg'[k] = arg[k]
  BY <1>1, OnlyOneMoves
<1> HIDE DEF step, l
<1>6. \A k \in Jobs : MailOf(k)' = MailOf(k)
  BY <1>4, <1>5 DEF MailOf
<1>7. \A q \in Rules, k \in Jobs : Holds(k, q)' => Holds(k, q)
  BY <1>2, <1>3, <1>4, <1>5 DEF Holds
<1>8. MailOf(j).at = arg[j].at /\ MailOf(j).rule = r /\ MailOf(j).stage = arg[j].stage
  BY DEF MailOf
<1>9. /\ Automatic \subseteq Automatic'
      /\ \A m \in Automatic' : m \in Automatic \/
            (m = MailOf(j) /\ arg[j].stage # "resend" /\ step = "save")
  BY <1>1, <1>8 DEF Automatic, step, AfterSend
<1>10. NotAhead'
  BY <1>1, <1>2, <1>4, <1>5, <1>8 DEF NotAhead, MailInv
<1>11. Remembered'
  BY <1>2, <1>9 DEF Remembered, MailInv
<1>12. ASSUME CooldownOn PROVE Orderly' /\ MailsApart'
  <2> USE <1>2
  <2>1. ASSUME NEW m1 \in Automatic', NEW m2 \in Automatic',
               m1 # m2, m1.rule = m2.rule, m1.rule \notin disturbed, m1.at <= m2.at
        PROVE  m2.at - m1.at >= Window(m2.stage)
    <3>1. CASE m1 \in Automatic /\ m2 \in Automatic
      BY <1>12, <2>1, <3>1 DEF MailInv, MailsApart
    <3>2. CASE m1 \in Automatic /\ m2 = MailOf(j) /\ arg[j].stage # "resend"
      BY <1>8, <1>12, <2>1, <3>2, EarlierMails
    <3>3. CASE m2 \in Automatic /\ m1 = MailOf(j) /\ arg[j].stage # "resend"
      <4>1. m2.at < m1.at /\ m1.at \in Nat /\ m2.at \in Nat
        BY <1>8, <1>12, <2>1, <3>3, EarlierMails, TypeOf
        DEF Automatic, TypeOK, Mail, Time
      <4> QED
        BY <2>1, <4>1
    <3> QED
      BY <1>9, <2>1, <3>1, <3>2, <3>3
  <2>2. MailsApart'
    BY <2>1 DEF MailsApart, Window
  <2>3. ASSUME NEW q \in Rules \ disturbed PROVE OneHolder(q)'
    BY <1>7, <1>12, <2>3 DEF OneHolder, MailInv, Orderly
  <2>4. ASSUME NEW q \in Rules \ disturbed PROVE Covered(q)'
    <3> SUFFICES ASSUME NEW m \in Automatic', m.rule = q,
                        ~(lastSent[q] # Never /\ m.at <= lastSent[q])
                 PROVE  \E k \in Jobs : Holds(k, q)' /\ pc'[k] = "save" /\ m = MailOf(k)'
      BY DEF Covered
    <3>1. CASE m \in Automatic
      <4>1. PICK k \in Jobs : Holds(k, q) /\ pc[k] = "save" /\ m = MailOf(k)
        BY <1>12, <2>4, <3>1 DEF MailInv, Orderly, Covered
      <4>2. k # j
        BY <4>1
      <4> QED
        BY <1>5, <1>6, <4>1, <4>2 DEF Holds
    <3>2. CASE m = MailOf(j) /\ arg[j].stage # "resend" /\ step = "save"
      BY <1>4, <1>5, <1>6, <1>8, <3>2 DEF Holds
    <3> QED
      BY <1>9, <3>1, <3>2
  <2>5. ASSUME NEW q \in Rules \ disturbed, NEW k \in Jobs, Holds(k, q)'
        PROVE  WindowLater(k, q)'
    <3>1. WindowLater(k, q) /\ Holds(k, q) /\ OneHolder(q)
      BY <1>7, <1>12, <2>5 DEF MailInv, Orderly
    <3>2. arg'[k].at = arg[k].at /\ arg'[k].stage = arg[k].stage
      BY <1>4, <1>5
    <3>3. ASSUME NEW m \in Automatic', m.rule = q
          PROVE  \/ arg[k].at - m.at >= Window(arg[k].stage)
                 \/ pc'[k] = "save" /\ m = MailOf(k)'
      <4>1. CASE m \in Automatic
        <5>1. arg[k].at - m.at >= Window(arg[k].stage) \/ (pc[k] = "save" /\ m = MailOf(k))
          BY <3>1, <3>3, <4>1 DEF WindowLater
        <5>2. pc[k] = "save" => pc'[k] = "save"
          BY <1>5
        <5> QED
          BY <1>6, <5>1, <5>2
      <4>2. CASE m = MailOf(j) /\ arg[j].stage # "resend" /\ step = "save"
        <5>1. Holds(j, q)
          BY <1>8, <3>3, <4>2 DEF Holds
        <5>2. k = j
          BY <3>1, <5>1 DEF OneHolder
        <5> QED
          BY <1>5, <1>6, <4>2, <5>2
      <4> QED
        BY <1>9, <3>3, <4>1, <4>2
    <3>4. lastSent[q] <= arg[k].at
      BY <3>1 DEF WindowLater
    <3> QED
      BY <3>2, <3>3, <3>4 DEF WindowLater, Window
  <2> QED
    BY <2>2, <2>3, <2>4, <2>5 DEF Orderly
<1> QED
  BY <1>10, <1>11, <1>12 DEF MailInv

\* The cooldown stored covers every mail of the rule, the job's own included.
LEMMA SaveKeepsMail ==
    ASSUME TypeOK, InStep, SentBefore, MailInv, NEW j \in Jobs, SaveCooldown(j)
    PROVE  MailInv'
<1> DEFINE r == arg[j].rule
<1>1. /\ pc[j] = "save" /\ Goto(j, "trace", arg[j])
      /\ lastSent' = [lastSent EXCEPT ![r] = arg[j].at]
      /\ UNCHANGED <<now, mails, disturbed>>
  BY DEF SaveCooldown, Stored
<1>2. /\ r \in Rules /\ arg[j].stage \in Parts /\ arg[j].at \in Nat
      /\ arg[j].at # Never
  BY <1>1, TypeOf DEF InStep, Parts, Stages, Time, Never
<1>3. /\ pc'[j] = "trace" /\ arg'[j] = arg[j] /\ r' = r
      /\ \A k \in Jobs \ {j} : pc'[k] = pc[k] /\ arg'[k] = arg[k]
  BY <1>1, OnlyOneMoves
<1>4. lastSent'[r] = arg[j].at /\ \A q \in Rules \ {r} : lastSent'[q] = lastSent[q]
  BY <1>1, <1>2 DEF TypeOK
<1>5. \A k \in Jobs : MailOf(k)' = MailOf(k)
  BY <1>3 DEF MailOf
<1>6. /\ MailOf(j) \in Automatic /\ MailOf(j).rule = r /\ MailOf(j).at = arg[j].at
      /\ Automatic' = Automatic
  BY <1>1, <1>2 DEF SentBefore, Automatic, MailOf, Parts
<1> HIDE DEF r
<1>7. NotAhead'
  BY <1>1, <1>3 DEF NotAhead, MailInv
<1>8. Remembered'
  BY <1>4, <1>6 DEF Remembered, MailInv
<1>9. \A q \in Rules, k \in Jobs : Holds(k, q)' => k # j /\ Holds(k, q)
  BY <1>3 DEF Holds
<1>10. ASSUME CooldownOn PROVE Orderly' /\ MailsApart'
  <2>1. MailsApart'
    BY <1>1, <1>6, <1>10 DEF MailInv, MailsApart, Window
  <2>2. ASSUME NEW q \in Rules \ disturbed PROVE OneHolder(q)'
    BY <1>9, <1>10, <2>2 DEF OneHolder, MailInv, Orderly
  <2>3. ASSUME NEW k \in Jobs, r \notin disturbed PROVE ~Holds(k, r)'
    <3>1. Holds(j, r) /\ OneHolder(r)
      BY <1>1, <1>2, <1>10, <2>3 DEF Holds, r, Parts, MailInv, Orderly
    <3> QED
      BY <1>2, <1>3, <1>9, <3>1 DEF OneHolder
  <2>4. ASSUME NEW q \in Rules \ disturbed PROVE Covered(q)'
    <3>1. Covered(q) /\ (q = r => WindowLater(j, r))
      BY <1>1, <1>2, <1>10, <2>4 DEF MailInv, Orderly, Holds, r, Parts
    <3> SUFFICES ASSUME NEW m \in Automatic, m.rule = q,
                        ~(lastSent'[q] # Never /\ m.at <= lastSent'[q])
                 PROVE  \E k \in Jobs : Holds(k, q)' /\ pc'[k] = "save" /\ m = MailOf(k)'
      BY <1>6 DEF Covered
    <3>2. m.at \in Nat
      BY DEF Automatic, TypeOK, Mail, Time
    <3>3. CASE q = r
      <4>1. arg[j].at - m.at >= Window(arg[j].stage) \/ m = MailOf(j)
        BY <3>1, <3>3 DEF WindowLater
      <4>2. m.at <= arg[j].at
        BY <1>2, <1>6, <3>2, <4>1, WindowType
      <4> QED
        BY <1>2, <1>4, <3>3, <4>2
    <3>4. CASE q # r
      <4>1. ~(lastSent[q] # Never /\ m.at <= lastSent[q])
        BY <1>4, <2>4, <3>4
      <4>2. PICK k \in Jobs : Holds(k, q) /\ pc[k] = "save" /\ m = MailOf(k)
        BY <3>1, <4>1 DEF Covered
      <4>3. k # j
        BY <3>4, <4>2 DEF Holds, r
      <4> QED
        BY <1>3, <1>5, <4>2, <4>3 DEF Holds
    <3> QED
      BY <3>3, <3>4
  <2>5. ASSUME NEW q \in Rules \ disturbed, NEW k \in Jobs, Holds(k, q)'
        PROVE  WindowLater(k, q)'
    <3>1. k # j /\ Holds(k, q) /\ q # r
      BY <1>2, <1>3, <1>9, <2>3, <2>5
    <3>2. WindowLater(k, q)
      BY <1>10, <2>5, <3>1 DEF MailInv, Orderly
    <3> QED
      BY <1>3, <1>4, <1>5, <1>6, <3>1, <3>2 DEF WindowLater, Window
  <2> QED
    BY <1>1, <2>1, <2>2, <2>4, <2>5 DEF Orderly
<1> QED
  BY <1>7, <1>8, <1>10 DEF MailInv

-----------------------------------------------------------------------------
(* What a move has to respect *)

\* The job that moves fits its new step, and has sent what it is to record.
LEMMA MoveFits ==
    ASSUME TypeOK, InStep, SentBefore, NEW j \in Jobs,
           NEW step \in Steps \ {"idle"}, NEW l \in Local, Goto(j, step, l),
           mails \subseteq mails',
           step \in {"next", "save"} => l.stage # "resend",
           step \in {"send", "save", "trace"} => l.rule \in Rules,
           l.stage = "resend" => l.todo = {},
           step = "save" \/ (step = "trace" /\ l.result # "send_failed") =>
              [job |-> j, stage |-> l.stage, rule |-> l.rule, at |-> l.at] \in mails'
    PROVE  InStep' /\ SentBefore'
<1>1. /\ pc'[j] = step /\ arg'[j] = l
      /\ \A k \in Jobs \ {j} : pc'[k] = pc[k] /\ arg'[k] = arg[k]
  BY OnlyOneMoves
<1>2. InStep'
  BY <1>1 DEF InStep
<1>3. SentBefore'
  BY <1>1 DEF SentBefore, MailOf
<1> QED
  BY <1>2, <1>3

Told(d) == \E n \in notes : n.job = d.job /\ n.stage = d.stage /\ n.rule = d.rule
InHand(d) ==
    /\ pc[d.job] # "done" /\ arg[d.job].stage = d.stage
    /\ \/ d.rule \in arg[d.job].todo
       \/ pc[d.job] \in {"send", "save", "trace"} /\ arg[d.job].rule = d.rule

\* A new notification reports a mail that was sent or none, and the debts of
\* the job that moves stay accounted for.
LEMMA MoveAccounts ==
    ASSUME TypeOK, TraceIsTrue, NEW j \in Jobs, NEW step, NEW l, Goto(j, step, l),
           mails \subseteq mails', notes \subseteq notes',
           \A n \in notes' \ notes : n.status \in {"sent", "simulated"} =>
              [job |-> n.job, stage |-> n.stage, rule |-> n.rule, at |-> n.at] \in mails',
           \A d \in owed' : d.job # j => d \in owed,
           \A d \in owed' : d.job = j => Told(d)' \/ InHand(d)'
    PROVE  TraceIsTrue'
<1>1. \A k \in Jobs \ {j} : pc'[k] = pc[k] /\ arg'[k] = arg[k]
  BY OnlyOneMoves
<1>2. ASSUME NEW d \in owed', d.job # j PROVE Told(d)' \/ InHand(d)'
  <2>1. d \in owed /\ d.job \in Jobs
    BY <1>2 DEF TypeOK, Debt
  <2>2. Told(d) \/ InHand(d)
    BY <2>1 DEF TraceIsTrue, Told, InHand
  <2>3. Told(d) => Told(d)'
    BY DEF Told
  <2>4. InHand(d) => InHand(d)'
    BY <1>1, <1>2, <2>1 DEF InHand
  <2> QED
    BY <2>2, <2>3, <2>4
<1>3. \A d \in owed' : Told(d)' \/ InHand(d)'
  BY <1>2
<1>4. \A n \in notes' : n.status \in {"sent", "simulated"} =>
          [job |-> n.job, stage |-> n.stage, rule |-> n.rule, at |-> n.at] \in mails'
  BY DEF TraceIsTrue
<1> QED
  BY <1>3, <1>4 DEF TraceIsTrue, Told, InHand

LEMMA OwedBefore ==
    ASSUME TraceIsTrue, NEW d \in owed PROVE Told(d) \/ InHand(d)
BY DEF TraceIsTrue, Told, InHand

\* Mails are only added, and a new notification of a skipped rule has its mail.
LEMMA CauseStays ==
    ASSUME SkipHasCause, mails \subseteq mails',
           \A n \in notes' \ notes : n.status = "skipped_cooldown" =>
              \E m \in Automatic' :
                 m.rule = n.rule /\ m.at <= n.at /\ n.at - m.at < Window(n.stage)
    PROVE  SkipHasCause'
<1>1. Automatic \subseteq Automatic'
  BY DEF Automatic
<1> QED
  BY <1>1 DEF SkipHasCause, Window

LEMMA NewDebts ==
    ASSUME NEW j \in Jobs, NEW stage \in Stages, NEW rules \in SUBSET Rules
    PROVE  /\ Owes(j, stage, rules) \subseteq Debt
           /\ \A d \in Owes(j, stage, rules) :
                 d.job = j /\ d.stage = stage /\ d.rule \in rules
BY DEF Owes, Debt

-----------------------------------------------------------------------------
(* The invariant, action by action *)

LEMMA SkipKeeps ==
    ASSUME AlertInv, NEW j \in Jobs, NEW r \in Rules, Skip(j, r)
    PROVE  AlertInv'
<1> USE DEF AlertInv
<1> DEFINE l == Without(j, r)
<1>1. PICK status \in {"no_owner", "skipped_cooldown"} :
          /\ notes' = notes \cup {Status(r, status, j, now)}
          /\ status = "skipped_cooldown" => Blocked(arg[j].stage, r)
  BY DEF Skip
<1>2. /\ pc[j] = "next" /\ r \in arg[j].todo /\ Goto(j, "next", l)
      /\ UNCHANGED <<now, lastSent, mails, disturbed, owed>>
  BY DEF Skip
<1>3. /\ arg[j] \in Local /\ arg[j].stage \in Stages /\ arg[j].stage # "resend"
      /\ arg[j].todo \in SUBSET Rules /\ now \in Time
  BY <1>2, TypeOf DEF InStep, TypeOK
<1>4. /\ l \in Local /\ l.stage = arg[j].stage /\ l.at = arg[j].at
      /\ l.todo = arg[j].todo \ {r}
  BY <1>3 DEF Local, Without
<1>5. Status(r, status, j, now) \in Note
  BY <1>3 DEF Status, Note, NoteStatuses
<1> HIDE DEF l
<1>6. pc'[j] = "next" /\ arg'[j] = l
  BY <1>2, OnlyOneMoves
<1>7. TypeOK'
  <2>1. pc' \in [Jobs -> Steps] /\ arg' \in [Jobs -> Local]
    BY <1>2, <1>4, GotoType DEF Steps
  <2>2. notes' \subseteq Note
    BY <1>1, <1>5 DEF TypeOK
  <2> QED
    BY <1>2, <2>1, <2>2 DEF TypeOK, Steps
<1>8. InStep' /\ SentBefore'
  BY <1>2, <1>3, <1>4, MoveFits DEF Steps
<1>9. MailInv'
  BY <1>2, <1>4, LettingGo DEF MailInv, Steps, TypeOK, NotAhead
<1>10. SkipHasCause'
  <2>1. ASSUME NEW n \in notes' \ notes, n.status = "skipped_cooldown"
        PROVE  \E m \in Automatic' :
                  m.rule = n.rule /\ m.at <= n.at /\ n.at - m.at < Window(n.stage)
    <3>1. n = Status(r, "skipped_cooldown", j, now) /\ Blocked(arg[j].stage, r)
      BY <1>1, <2>1 DEF Status
    <3>2. n.rule = r /\ n.at = now /\ n.stage = arg[j].stage
      BY <3>1 DEF Status
    <3>3. PICK m \in Automatic : m.rule = r /\ m.at = lastSent[r]
      BY <3>1 DEF Blocked, Remembered
    <3>4. m.at <= now /\ now - m.at < Window(arg[j].stage)
      BY <3>1, <3>3 DEF Blocked, NotAhead, Automatic
    <3> QED
      BY <1>2, <3>2, <3>3, <3>4 DEF Automatic
  <2> QED
    BY <1>2, <2>1, CauseStays
<1>11. TraceIsTrue'
  <2>1. ASSUME NEW d \in owed', d.job = j PROVE Told(d)' \/ InHand(d)'
    <3>1. Told(d) \/ InHand(d)
      BY <1>2, <2>1, OwedBefore
    <3>2. CASE Told(d)
      BY <1>1, <3>2 DEF Told
    <3>3. CASE InHand(d) /\ d.rule = r
      <4>1. Status(r, status, j, now) \in notes'
        BY <1>1
      <4> QED
        BY <2>1, <3>3, <4>1 DEF Told, InHand, Status
    <3>4. CASE InHand(d) /\ d.rule # r
      BY <1>2, <1>4, <1>6, <2>1, <3>4 DEF InHand
    <3> QED
      BY <3>1, <3>2, <3>3, <3>4
  <2>2. \A n \in notes' \ notes : n.status \notin {"sent", "simulated"}
    BY <1>1 DEF Status
  <2> QED
    BY <1>1, <1>2, <2>1, <2>2, MoveAccounts
<1> QED
  BY <1>7, <1>8, <1>9, <1>10, <1>11 DEF MailInv

LEMMA PassCooldownKeeps ==
    ASSUME AlertInv, NEW j \in Jobs, NEW r \in Rules, PassCooldown(j, r)
    PROVE  AlertInv'
<1> USE DEF AlertInv
<1> DEFINE l == [Without(j, r) EXCEPT !.rule = r, !.at = now]
<1>1. /\ pc[j] = "next" /\ r \in arg[j].todo /\ Goto(j, "send", l)
      /\ UNCHANGED <<now, lastSent, notes, mails, owed>>
      /\ disturbed' \subseteq disturbed \cup {r}
  BY DEF PassCooldown
<1>2. /\ arg[j] \in Local /\ arg[j].stage # "resend" /\ now \in Time
  BY <1>1, TypeOf DEF InStep, TypeOK
<1>3. /\ l \in Local /\ l.stage = arg[j].stage /\ l.rule = r
      /\ l.todo = arg[j].todo \ {r}
  BY <1>2 DEF Local, Without
<1> HIDE DEF l
<1>4. pc'[j] = "send" /\ arg'[j] = l
  BY <1>1, OnlyOneMoves
<1>5. TypeOK'
  <2>1. pc' \in [Jobs -> Steps] /\ arg' \in [Jobs -> Local]
    BY <1>1, <1>3, GotoType DEF Steps
  <2> QED
    BY <1>1, <2>1 DEF TypeOK, Steps
<1>6. InStep' /\ SentBefore'
  BY <1>1, <1>2, <1>3, MoveFits DEF Steps
<1>7. MailInv'
  BY PassKeepsMail DEF MailInv
<1>8. SkipHasCause'
  BY <1>1, CauseStays
<1>9. TraceIsTrue'
  <2>1. ASSUME NEW d \in owed', d.job = j PROVE Told(d)' \/ InHand(d)'
    <3>1. Told(d) \/ InHand(d)
      BY <1>1, <2>1, OwedBefore
    <3> QED
      BY <1>1, <1>3, <1>4, <2>1, <3>1 DEF Told, InHand
  <2> QED
    BY <1>1, <2>1, MoveAccounts
<1> QED
  BY <1>5, <1>6, <1>7, <1>8, <1>9 DEF MailInv

LEMMA ResendKeeps ==
    ASSUME AlertInv, NEW j \in Jobs, Resend(j)
    PROVE  AlertInv'
<1> USE DEF AlertInv
<1>1. PICK r \in Rules :
          /\ Goto(j, "send", [NoLocal EXCEPT !.stage = "resend", !.rule = r, !.at = now])
          /\ owed' = owed \cup Owes(j, "resend", {r})
  BY DEF Resend, TypeOK, Note
<1> DEFINE l == [NoLocal EXCEPT !.stage = "resend", !.rule = r, !.at = now]
<1>2. pc[j] = "idle" /\ UNCHANGED <<now, lastSent, notes, mails, disturbed>>
  BY DEF Resend
<1>3. /\ l \in Local /\ l.stage = "resend" /\ l.rule = r /\ l.todo = {} /\ l.at = now
      /\ l.stage \in Stages
  BY LocalType DEF NoLocal, Local, TypeOK, Stages
<1>4. Goto(j, "send", l)
  BY <1>1
<1> HIDE DEF l
<1>5. pc'[j] = "send" /\ arg'[j] = l
  BY <1>4, OnlyOneMoves
<1>6. TypeOK'
  <2>1. pc' \in [Jobs -> Steps] /\ arg' \in [Jobs -> Local]
    BY <1>3, <1>4, GotoType DEF Steps
  <2>2. owed' \subseteq Debt
    BY <1>1, <1>3, NewDebts DEF TypeOK
  <2> QED
    BY <1>2, <2>1, <2>2 DEF TypeOK, Steps
<1>7. InStep' /\ SentBefore'
  BY <1>2, <1>3, <1>4, MoveFits DEF Steps
<1>8. MailInv'
  BY <1>2, <1>3, <1>4, LettingGo DEF MailInv, Steps, TypeOK, Time
<1>9. SkipHasCause'
  BY <1>2, CauseStays
<1>10. TraceIsTrue'
  <2>1. \A d \in Owes(j, "resend", {r}) : d.job = j /\ d.stage = "resend" /\ d.rule = r
    BY DEF Owes
  <2>2. ASSUME NEW d \in owed', d.job = j PROVE Told(d)' \/ InHand(d)'
    <3>1. CASE d \in owed
      <4>1. ~InHand(d)
        BY <1>2, <2>2 DEF InHand, InStep
      <4> QED
        BY <1>2, <3>1, <4>1, OwedBefore DEF Told
    <3>2. CASE d \in Owes(j, "resend", {r})
      BY <1>3, <1>5, <2>1, <2>2, <3>2 DEF InHand
    <3> QED
      BY <1>1, <3>1, <3>2
  <2> QED
    BY <1>1, <1>2, <1>4, <2>1, <2>2, MoveAccounts
<1> QED
  BY <1>6, <1>7, <1>8, <1>9, <1>10 DEF MailInv

LEMMA SendKeeps == ASSUME AlertInv, NEW j \in Jobs, Send(j) PROVE AlertInv'
<1> USE DEF AlertInv
<1>1. PICK result \in Outcomes :
          /\ Goto(j, AfterSend(arg[j].stage, result), [arg[j] EXCEPT !.result = result])
          /\ [arg[j] EXCEPT !.result = result] \in Local
          /\ mails' = IF result = "send_failed" THEN mails ELSE mails \cup {MailOf(j)}
          /\ MailOf(j) \in Mail
  BY Answers
<1> DEFINE step == AfterSend(arg[j].stage, result)
           l == [arg[j] EXCEPT !.result = result]
<1>2. pc[j] = "send" /\ UNCHANGED <<now, lastSent, notes, disturbed, owed>>
  BY DEF Send
<1>3. /\ step \in {"save", "trace"} /\ (step = "save" => arg[j].stage # "resend")
      /\ step = "save" => result # "send_failed"
  BY DEF AfterSend
<1>4. /\ l.rule = arg[j].rule /\ l.at = arg[j].at /\ l.stage = arg[j].stage
      /\ l.todo = arg[j].todo /\ l.result = result /\ l \in Local
  BY <1>1, TypeOf DEF Local
<1>5. Goto(j, step, l)
  BY <1>1
<1> HIDE DEF step, l
<1>6. pc'[j] = step /\ arg'[j] = l
  BY <1>5, OnlyOneMoves
<1>7. TypeOK'
  <2>1. pc' \in [Jobs -> Steps] /\ arg' \in [Jobs -> Local]
    BY <1>3, <1>4, <1>5, GotoType DEF Steps
  <2> QED
    BY <1>1, <1>2, <2>1 DEF TypeOK, Steps
<1>8. result # "send_failed" =>
         [job |-> j, stage |-> l.stage, rule |-> l.rule, at |-> l.at] \in mails'
  BY <1>1, <1>4 DEF MailOf
<1>9. arg[j].rule \in Rules /\ (arg[j].stage = "resend" => arg[j].todo = {})
  BY <1>2 DEF InStep
<1>10. InStep' /\ SentBefore'
  BY <1>1, <1>3, <1>4, <1>5, <1>8, <1>9, MoveFits DEF Steps
<1>11. MailInv'
  BY SendKeepsMail DEF MailInv
<1>12. SkipHasCause'
  BY <1>1, <1>2, CauseStays
<1>13. TraceIsTrue'
  <2>1. ASSUME NEW d \in owed', d.job = j PROVE Told(d)' \/ InHand(d)'
    <3>1. Told(d) \/ InHand(d)
      BY <1>2, <2>1, OwedBefore
    <3> QED
      BY <1>2, <1>3, <1>4, <1>6, <2>1, <3>1 DEF Told, InHand
  <2> QED
    BY <1>1, <1>2, <1>5, <2>1, MoveAccounts
<1> QED
  BY <1>7, <1>10, <1>11, <1>12, <1>13 DEF MailInv

LEMMA SaveCooldownKeeps ==
    ASSUME AlertInv, NEW j \in Jobs, SaveCooldown(j)
    PROVE  AlertInv'
<1> USE DEF AlertInv
<1>1. /\ pc[j] = "save" /\ Goto(j, "trace", arg[j])
      /\ lastSent' = [lastSent EXCEPT ![arg[j].rule] = arg[j].at]
      /\ UNCHANGED <<now, notes, mails, disturbed, owed>>
  BY DEF SaveCooldown, Stored
<1>2. pc'[j] = "trace" /\ arg'[j] = arg[j]
  BY <1>1, OnlyOneMoves
<1>3. /\ arg[j] \in Local /\ arg[j].at \in Time /\ arg[j].rule \in Rules
      /\ arg[j].stage = "resend" => arg[j].todo = {}
      /\ MailOf(j) \in mails
  BY <1>1, TypeOf DEF InStep, SentBefore
<1>4. TypeOK'
  <2>1. pc' \in [Jobs -> Steps] /\ arg' \in [Jobs -> Local]
    BY <1>1, <1>3, GotoType DEF Steps
  <2> QED
    BY <1>1, <1>3, <2>1 DEF TypeOK, Steps
<1>5. InStep' /\ SentBefore'
  BY <1>1, <1>3, MoveFits DEF Steps, MailOf
<1>6. MailInv'
  BY SaveKeepsMail DEF MailInv
<1>7. SkipHasCause'
  BY <1>1, CauseStays
<1>8. TraceIsTrue'
  <2>1. ASSUME NEW d \in owed', d.job = j PROVE Told(d)' \/ InHand(d)'
    <3>1. Told(d) \/ InHand(d)
      BY <1>1, <2>1, OwedBefore
    <3> QED
      BY <1>1, <1>2, <2>1, <3>1 DEF Told, InHand
  <2> QED
    BY <1>1, <2>1, MoveAccounts
<1> QED
  BY <1>4, <1>5, <1>6, <1>7, <1>8 DEF MailInv

LEMMA TraceKeeps == ASSUME AlertInv, NEW j \in Jobs, Trace(j) PROVE AlertInv'
<1> USE DEF AlertInv
<1> DEFINE l == [arg[j] EXCEPT !.rule = "none"]
           step == AfterTrace(j)
           n == Status(arg[j].rule, arg[j].result, j, arg[j].at)
<1>1. /\ pc[j] = "trace" /\ notes' = notes \cup {n} /\ Goto(j, step, l)
      /\ UNCHANGED <<now, lastSent, mails, disturbed, owed>>
  BY DEF Trace
<1>2. /\ arg[j] \in Local /\ arg[j].stage \in Stages /\ arg[j].rule \in Rules
      /\ arg[j].at \in Time /\ arg[j].result \in Outcomes
      /\ arg[j].stage = "resend" => arg[j].todo = {}
      /\ arg[j].result # "send_failed" => MailOf(j) \in mails
  BY <1>1, TypeOf DEF InStep, SentBefore
<1>3. /\ l \in Local /\ l.stage = arg[j].stage /\ l.todo = arg[j].todo
      /\ l.at = arg[j].at
  BY <1>2 DEF Local
<1>4. step \in {"next", "done"} /\ (step = "next" <=> arg[j].stage # "resend")
  BY DEF AfterTrace
<1>5. /\ n \in Note /\ n.job = j /\ n.stage = arg[j].stage /\ n.rule = arg[j].rule
      /\ n.status = arg[j].result /\ n.at = arg[j].at
  BY <1>2 DEF Status, Note, NoteStatuses
<1> HIDE DEF l, step, n
<1>6. pc'[j] = step /\ arg'[j] = l
  BY <1>1, OnlyOneMoves
<1>7. TypeOK'
  <2>1. pc' \in [Jobs -> Steps] /\ arg' \in [Jobs -> Local]
    BY <1>1, <1>3, <1>4, GotoType DEF Steps
  <2> QED
    BY <1>1, <1>5, <2>1 DEF TypeOK, Steps
<1>8. InStep' /\ SentBefore'
  BY <1>1, <1>2, <1>3, <1>4, MoveFits DEF Steps
<1>9. MailInv'
  BY <1>1, <1>3, <1>4, LettingGo DEF MailInv, Steps, TypeOK, NotAhead
<1>10. SkipHasCause'
  BY <1>1, <1>2, <1>5, CauseStays DEF Outcomes
<1>11. TraceIsTrue'
  <2>1. n.status \in {"sent", "simulated"} =>
           [job |-> n.job, stage |-> n.stage, rule |-> n.rule, at |-> n.at] \in mails'
    BY <1>1, <1>2, <1>5 DEF MailOf
  <2>2. ASSUME NEW d \in owed', d.job = j PROVE Told(d)' \/ InHand(d)'
    <3>1. Told(d) \/ InHand(d)
      BY <1>1, <2>2, OwedBefore
    <3>2. CASE Told(d)
      BY <1>1, <3>2 DEF Told
    <3>3. CASE InHand(d) /\ d.rule = arg[j].rule
      BY <1>1, <1>5, <2>2, <3>3 DEF Told, InHand
    <3>4. CASE InHand(d) /\ d.rule # arg[j].rule
      BY <1>1, <1>2, <1>3, <1>4, <1>6, <2>2, <3>4 DEF InHand
    <3> QED
      BY <3>1, <3>2, <3>3, <3>4
  <2> QED
    BY <1>1, <2>1, <2>2, MoveAccounts
<1> QED
  BY <1>7, <1>8, <1>9, <1>10, <1>11 DEF MailInv

\* A job begins a stage or ends: the debts that stay are not in its hands, and
\* the new ones are; a mail that is not stored leaves its rule disturbed.
LEMMA StageTurns ==
    ASSUME AlertInv, NEW j \in Jobs, NEW step \in {"next", "done"}, NEW l \in Local,
           Goto(j, step, l), l.at = 0, l.stage # "resend",
           UNCHANGED <<now, lastSent, notes, mails>>,
           disturbed \subseteq disturbed', disturbed' \subseteq Rules,
           pc[j] = "save" => arg[j].rule \in disturbed',
           NEW kept \in SUBSET owed, \A d \in kept : d.job = j => ~InHand(d),
           NEW new \in SUBSET Debt,
           \A d \in new : d.job = j /\ d.stage = l.stage /\ d.rule \in l.todo,
           new = {} \/ step = "next",
           owed' = kept \cup new
    PROVE  AlertInv'
<1> USE DEF AlertInv
<1>1. pc'[j] = step /\ arg'[j] = l
  BY OnlyOneMoves
<1>2. TypeOK'
  <2>1. pc' \in [Jobs -> Steps] /\ arg' \in [Jobs -> Local]
    BY GotoType DEF Steps
  <2> QED
    BY <2>1 DEF TypeOK, Steps
<1>3. InStep' /\ SentBefore'
  BY MoveFits DEF Steps
<1>4. MailInv'
  BY LettingGo DEF MailInv, Steps, TypeOK, Time
<1>5. SkipHasCause'
  BY CauseStays
<1>6. TraceIsTrue'
  <2>1. ASSUME NEW d \in owed', d.job = j PROVE Told(d)' \/ InHand(d)'
    <3>1. CASE d \in kept
      BY <2>1, <3>1, OwedBefore DEF Told
    <3>2. CASE d \in new
      BY <1>1, <2>1, <3>2 DEF InHand
    <3> QED
      BY <3>1, <3>2
  <2> QED
    BY <2>1, MoveAccounts
<1> QED
  BY <1>2, <1>3, <1>4, <1>5, <1>6 DEF MailInv

\* The locals a stage begins with, and those of a job that has ended.
LEMMA NewLocals ==
    /\ NoLocal \in Local /\ NoLocal.at = 0 /\ NoLocal.stage # "resend"
    /\ \A stage \in Parts, matched \in SUBSET Rules :
          LET l == [NoLocal EXCEPT !.stage = stage, !.todo = matched] IN
          l \in Local /\ l.at = 0 /\ l.stage = stage /\ l.todo = matched /\ l.stage # "resend"
BY LocalType DEF NoLocal, Parts, Stages

LEMMA StageBegins ==
    ASSUME AlertInv, NEW j \in Jobs, NEW stage \in Parts, NEW matched \in SUBSET Rules,
           Goto(j, "next", [NoLocal EXCEPT !.stage = stage, !.todo = matched]),
           UNCHANGED <<now, lastSent, notes, mails>>,
           disturbed \subseteq disturbed', disturbed' \subseteq Rules,
           pc[j] = "save" => arg[j].rule \in disturbed',
           NEW kept \in SUBSET owed, \A d \in kept : d.job = j => ~InHand(d),
           owed' = kept \cup Owes(j, stage, matched)
    PROVE  AlertInv'
<1> DEFINE l == [NoLocal EXCEPT !.stage = stage, !.todo = matched]
           new == Owes(j, stage, matched)
<1>1. /\ l \in Local /\ l.at = 0 /\ l.stage = stage /\ l.todo = matched
      /\ l.stage # "resend"
  BY NewLocals
<1>2. stage \in Stages
  BY DEF Parts, Stages
<1>3. /\ new \in SUBSET Debt
      /\ \A d \in new : d.job = j /\ d.stage = stage /\ d.rule \in matched
  BY <1>2, NewDebts
<1>4. Goto(j, "next", l) /\ owed' = kept \cup new
  OBVIOUS
<1> HIDE DEF l, new
<1> QED
  BY <1>1, <1>3, <1>4, StageTurns

LEMMA JobEnds ==
    ASSUME AlertInv, NEW j \in Jobs, Goto(j, "done", NoLocal),
           UNCHANGED <<now, lastSent, notes, mails>>,
           disturbed \subseteq disturbed', disturbed' \subseteq Rules,
           pc[j] = "save" => arg[j].rule \in disturbed',
           NEW kept \in SUBSET owed, \A d \in kept : d.job = j => ~InHand(d),
           owed' = kept
    PROVE  AlertInv'
<1>1. PICK new \in SUBSET Debt : new = {}
  OBVIOUS
<1>2. /\ owed' = kept \cup new
      /\ \A d \in new : d.job = j /\ d.stage = NoLocal.stage /\ d.rule \in NoLocal.todo
  BY <1>1
<1>3. NoLocal \in Local /\ NoLocal.at = 0 /\ NoLocal.stage # "resend"
  BY NewLocals
<1> QED
  BY <1>1, <1>2, <1>3, StageTurns

LEMMA StageLeft ==
    ASSUME AlertInv, NEW j \in Jobs, NEW kept \in SUBSET owed,
           \A d \in kept : d.job = j => ~InHand(d), LeaveStage(j, kept),
           UNCHANGED <<now, lastSent, notes, mails>>,
           disturbed \subseteq disturbed', disturbed' \subseteq Rules,
           pc[j] = "save" => arg[j].rule \in disturbed'
    PROVE  AlertInv'
<1>1. CASE arg[j].stage = "capture"
  <2>1. PICK matched \in SUBSET DbRules : /\ Goto(j, "next", InEvent(matched))
                                         /\ owed' = kept \cup Owes(j, "event", matched)
    BY <1>1 DEF LeaveStage
  <2>2. matched \in SUBSET Rules /\ "event" \in Parts
    BY DEF Rules, Parts
  <2> QED
    BY <2>1, <2>2, StageBegins DEF InEvent
<1>2. CASE arg[j].stage # "capture"
  BY <1>2, JobEnds DEF LeaveStage
<1> QED
  BY <1>1, <1>2

LEMMA NothingLost ==
    ASSUME AlertInv, NEW j \in Jobs
    PROVE  /\ CutOff(j) \in SUBSET owed
           /\ \A d \in CutOff(j) : d.job = j => ~InHand(d)
           /\ LoseHold(j) => /\ disturbed \subseteq disturbed'
                             /\ disturbed' \subseteq Rules
                             /\ pc[j] = "save" => arg[j].rule \in disturbed'
BY DEF AlertInv, TypeOK, InStep, CutOff, InHand, LoseHold

\* Beginning, ending, failing and exiting.
LEMMA TurnsKeep ==
    ASSUME AlertInv, NEW j \in Jobs,
           Capture(j) \/ Evaluate(j) \/ StageDone(j) \/ Raise(j) \/ Exit(j)
    PROVE  AlertInv'
<1> USE DEF AlertInv
<1>1. CASE Capture(j) \/ Evaluate(j)
  <2>1. PICK stage \in Parts, matched \in SUBSET Rules :
           /\ Goto(j, "next", [NoLocal EXCEPT !.stage = stage, !.todo = matched])
           /\ owed' = owed \cup Owes(j, stage, matched)
    <3>1. CASE Capture(j)
      BY <3>1 DEF Capture, Parts, Rules
    <3>2. CASE Evaluate(j)
      BY <3>2 DEF Evaluate, InEvent, Parts, Rules
    <3> QED
      BY <1>1, <3>1, <3>2
  <2>2. pc[j] = "idle" /\ UNCHANGED <<now, lastSent, notes, mails, disturbed>>
    BY <1>1 DEF Capture, Evaluate
  <2>3. \A d \in owed : d.job = j => ~InHand(d)
    BY <2>2 DEF InStep, InHand
  <2> QED
    BY <2>1, <2>2, <2>3, StageBegins DEF TypeOK
<1>2. CASE StageDone(j)
  <2>1. /\ pc[j] = "next" /\ arg[j].todo = {} /\ LeaveStage(j, owed)
        /\ UNCHANGED <<now, lastSent, notes, mails, disturbed>>
    BY <1>2 DEF StageDone
  <2>2. \A d \in owed : d.job = j => ~InHand(d)
    BY <2>1 DEF InHand
  <2> QED
    BY <2>1, <2>2, StageLeft DEF TypeOK
<1>3. CASE Raise(j)
  BY <1>3, NothingLost, StageLeft DEF Raise
<1>4. CASE Exit(j)
  BY <1>4, NothingLost, JobEnds DEF Exit
<1> QED
  BY <1>1, <1>2, <1>3, <1>4

LEMMA TickKeeps == ASSUME AlertInv, Tick PROVE AlertInv'
<1> USE DEF AlertInv
<1>1. TypeOK'
  BY WindowAssumption DEF TypeOK, Tick, Time
<1>2. InStep' /\ SentBefore'
  BY DEF InStep, SentBefore, MailOf, Tick
<1>3. MailInv'
  BY TickKeepsMail DEF MailInv
<1>4. SkipHasCause' /\ TraceIsTrue'
  BY DEF SkipHasCause, TraceIsTrue, Automatic, Window, Tick
<1> QED
  BY <1>1, <1>2, <1>3, <1>4 DEF MailInv

LEMMA InitInv == Init => AlertInv
<1> SUFFICES ASSUME Init PROVE AlertInv
  OBVIOUS
<1> USE DEF Init
<1>1. TypeOK
  <2>1. NoLocal \in Local
    BY LocalType
  <2>2. arg \in [Jobs -> Local] /\ now \in Time
    BY <2>1, WindowAssumption DEF Time
  <2> QED
    BY <2>2 DEF TypeOK
<1>2. \A j \in Jobs : pc[j] = "idle" /\ arg[j] = NoLocal
  OBVIOUS
<1>3. InStep /\ SentBefore
  BY <1>2 DEF InStep, SentBefore, NoLocal
<1>4. NotAhead /\ Remembered
  BY <1>2 DEF NotAhead, Remembered, NoLocal
<1>5. Automatic = {}
  BY DEF Automatic
<1>6. SkipHasCause /\ TraceIsTrue /\ MailsApart
  BY <1>5 DEF SkipHasCause, TraceIsTrue, MailsApart
<1>7. Orderly
  BY <1>2, <1>5 DEF Orderly, OneHolder, Covered, WindowLater, Holds
<1> QED
  BY <1>1, <1>3, <1>4, <1>6, <1>7 DEF AlertInv

LEMMA NextInv == AlertInv /\ [Next]_vars => AlertInv'
<1> SUFFICES ASSUME AlertInv, [Next]_vars PROVE AlertInv'
  OBVIOUS
<1>1. CASE Tick
  BY <1>1, TickKeeps
<1>2. ASSUME NEW j \in Jobs,
             Capture(j) \/ Evaluate(j) \/ Resend(j) \/ Step(j) \/ Raise(j) \/ Exit(j)
      PROVE  AlertInv'
  BY <1>2, TurnsKeep, ResendKeeps, SkipKeeps, PassCooldownKeeps, SendKeeps,
     SaveCooldownKeeps, TraceKeeps DEF Step, Handle
<1>3. CASE UNCHANGED vars
  <2>1. (TypeOK /\ InStep /\ SentBefore /\ NotAhead /\ Remembered)'
    BY <1>3 DEF vars, AlertInv, TypeOK, InStep, SentBefore, MailOf, NotAhead, Remembered,
                Automatic
  <2>2. SkipHasCause' /\ TraceIsTrue'
    BY <1>3 DEF vars, AlertInv, SkipHasCause, TraceIsTrue, Automatic, Window
  <2>3. MailsApart' <=> MailsApart
    BY <1>3 DEF vars, MailsApart, Automatic, Window
  <2>4. Orderly' <=> Orderly
    BY <1>3 DEF vars, Orderly, OneHolder, Covered, WindowLater, Holds, MailOf, Automatic,
                Window
  <2> QED
    BY <2>1, <2>2, <2>3, <2>4 DEF AlertInv
<1> QED
  BY <1>1, <1>2, <1>3 DEF Next

LEMMA Invariant == Spec => []AlertInv
BY InitInv, NextInv, PTL DEF Spec

-----------------------------------------------------------------------------
(* The properties *)

\* Every variable, and every local of a job, keeps its type.
THEOREM AlertTypes == Spec => []TypeOK
BY Invariant, PTL DEF AlertInv

\* The cooldown row stands for an automatic mail, and for the latest one of a
\* rule unless that mail is about to be stored, two jobs held the rule at once or
\* one was lost with it (_decide and _notify, which store after the mail went
\* out; set_cooldown, which updates the row there is).
THEOREM AlertCooldownIsLatest == Spec => []CooldownIsLatest
<1>1. AlertInv => CooldownIsLatest
  <2> SUFFICES ASSUME AlertInv, NEW r \in Rules
               PROVE  /\ lastSent[r] # Never =>
                            \E m \in Automatic : m.rule = r /\ m.at = lastSent[r]
                      /\ CooldownOn /\ r \notin disturbed =>
                            \A m \in Automatic : m.rule = r =>
                               \/ m.at <= lastSent[r]
                               \/ \E j \in Jobs : /\ Holds(j, r) /\ pc[j] = "save"
                                                  /\ arg[j].stage = m.stage
                                                  /\ arg[j].at = m.at
    BY DEF CooldownIsLatest
  <2>1. lastSent[r] # Never => \E m \in Automatic : m.rule = r /\ m.at = lastSent[r]
    BY DEF AlertInv, Remembered
  <2>2. CooldownOn /\ r \notin disturbed => Covered(r)
    BY DEF AlertInv, Orderly
  <2> QED
    BY <2>1, <2>2 DEF Covered, MailOf
<1> QED
  BY <1>1, Invariant, PTL

\* Two automatic mails of a rule that no two jobs held at once, and whose mail
\* no job lost before storing it, are at least a window apart, whichever part
\* sends them and whatever is resent between (notification_service.py, the
\* cooldown read before the mail and stored after it; EventService._notify).
THEOREM AlertMailsApart == Spec => []MailsApart
<1>1. AlertInv => MailsApart
  BY DEF AlertInv, MailsApart
<1> QED
  BY <1>1, Invariant, PTL

\* A rule is skipped for its cooldown only within a window of an automatic mail:
\* a mail that failed, was never sent or was resent by hand silences nothing
\* (_decide and _notify, which store a cooldown only after a mail went out).
THEOREM AlertSkipHasCause == Spec => []SkipHasCause
BY Invariant, PTL DEF AlertInv

\* A notification that says sent stands for a mail, and every rule a job matched
\* is told or in the job's hands unless an exception or an exit cut it off
\* (process, _notify and resend, which write a row for every rule they take).
THEOREM AlertTraceIsTrue == Spec => []TraceIsTrue
BY Invariant, PTL DEF AlertInv
=============================================================================
