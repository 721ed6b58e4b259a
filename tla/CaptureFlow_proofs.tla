------------------------- MODULE CaptureFlow_proofs -------------------------
(***************************************************************************)
(* Proofs about CaptureFlow, for any threads, targets and requests, any    *)
(* number of attempts and captures, and whatever of the faults may happen. *)
(***************************************************************************)
EXTENDS CaptureFlow, TLAPS, SequenceTheorems, FiniteSetTheorems

\* Where a capture is, and where it has a row that it fills in.
Resting == {"idle", "find", "raised"}
Filling == {"ocr", "text", "txt"}
Places  == Resting \cup Filling \cup {"push", "look", "settle", "grab", "failed", "save", "store"}

AnyTarget == Targets \cup {Invalid}
TargetResult == [target : AnyTarget, status : {"success", "failed"}, row : Nat]
Job == [at : Places, todo : Seq(AnyTarget), tries : Nat, image : Windows \cup {None},
        row : Nat, results : Seq(TargetResult)]

Tab == [running : BOOLEAN, polls : 0 .. 1, worker : Workers \cup {None},
        queue : Seq({"done", "error"})]

TabOK == tab \in Tab /\ ((tab.polls = 1) <=> tab.running)

Types ==
    /\ foreground \in Windows /\ open \subseteq Targets
    /\ rows \in Seq(Shot)
    /\ job \in [Threads -> Job]
    /\ runs \in 0 .. MaxRuns

\* The row n is a stored success of the target.
IsShot(n, target) ==
    n \in 1 .. Len(rows) /\ rows[n].target = target /\ rows[n].status = "success"

Succeeds(r, i) == i \in 1 .. Len(r.results) /\ r.results[i].status = "success"

\* A job names stored successes alone, each once.
Fits(r) ==
    /\ r.at \notin Resting => r.todo # <<>> /\ Head(r.todo) \in Targets
    /\ \A i \in 1 .. Len(r.results) :
           /\ Succeeds(r, i) => IsShot(r.results[i].row, r.results[i].target)
           /\ ~Succeeds(r, i) => r.results[i].row = 0
    /\ r.at \in Filling => IsShot(r.row, Head(r.todo))
    /\ \A i, j \in 1 .. Len(r.results) :
           Succeeds(r, i) /\ r.results[j].row = r.results[i].row => i = j
    /\ r.at \in Filling => \A i \in 1 .. Len(r.results) : r.results[i].row # r.row

\* The rows that a job names.
Claims(r) ==
    {r.results[i].row : i \in {k \in 1 .. Len(r.results) : Succeeds(r, k)}}
    \cup (IF r.at \in Filling THEN {r.row} ELSE {})

Apart == \A t, u \in Threads : t # u => Claims(job[t]) \cap Claims(job[u]) = {}

\* A job has no more failures of a target than there are rows of its failures.
FailedOf(r, target) ==
    {i \in 1 .. Len(r.results) : r.results[i].target = target /\ r.results[i].status = "failed"}
FailedRows(target) ==
    {n \in 1 .. Len(rows) : rows[n].target = target /\ rows[n].status = "failed"}
FailuresCounted(r) ==
    \A target \in Targets : Cardinality(FailedOf(r, target)) <= Cardinality(FailedRows(target))

CaptureInv ==
    /\ Types /\ TabOK
    /\ \A t \in Threads : Fits(job[t]) /\ FailuresCounted(job[t])
    /\ Apart

-----------------------------------------------------------------------------
(* What the updates of a job make of it *)

\* A job, in the order of its fields.
Made(at, todo, tries, image, row, results) ==
    [at |-> at, todo |-> todo, tries |-> tries, image |-> image, row |-> row,
     results |-> results]

LEMMA MadeIs ==
    ASSUME NEW at, NEW todo, NEW tries, NEW image, NEW row, NEW results
    PROVE  LET r == Made(at, todo, tries, image, row, results)
           IN  /\ r.at = at /\ r.todo = todo /\ r.tries = tries /\ r.image = image
               /\ r.row = row /\ r.results = results
BY DEF Made

LEMMA GotoMakes ==
    ASSUME Types, NEW t \in Threads, NEW at, Goto(t, at)
    PROVE  LET r == job[t]
           IN  job' = [job EXCEPT ![t] = Made(at, r.todo, r.tries, r.image, r.row, r.results)]
<1>1. PICK r \in Job : r = job[t]
  BY DEF Types
<1>2. [r EXCEPT !.at = at] = Made(at, r.todo, r.tries, r.image, r.row, r.results)
  BY DEF Job, Made
<1>3. job' = [job EXCEPT ![t] = [r EXCEPT !.at = at]]
  BY <1>1 DEF Goto
<1> QED
  BY <1>1, <1>2, <1>3

LEMMA PushMakes ==
    ASSUME Types, NEW t \in Threads,
           job' = [job EXCEPT ![t].at = "look", ![t].tries = @ + 1]
    PROVE  LET r == job[t]
           IN  job' = [job EXCEPT ![t] = Made("look", r.todo, r.tries + 1, r.image, r.row, r.results)]
<1>1. PICK r \in Job : r = job[t]
  BY DEF Types
<1>2. PICK new : new = r.tries + 1
  OBVIOUS
<1> DEFINE r0 == Made(r.at, r.todo, r.tries, r.image, r.row, r.results)
           r1 == Made("look", r.todo, r.tries, r.image, r.row, r.results)
           r2 == Made("look", r.todo, new, r.image, r.row, r.results)
           F(q) == [job EXCEPT ![t] = q]
<1>3. job[t] = r0
  BY <1>1 DEF Job, Made
<1>4. [r0 EXCEPT !.at = "look"] = r1 /\ [r1 EXCEPT !.tries = new] = r2
  BY DEF Made
<1>5. \A q, p : F(q)[t] = q /\ [F(q) EXCEPT ![t] = p] = F(p)
  BY DEF Types
<1> HIDE DEF r0, r1, r2
<1>6. [job EXCEPT ![t].at = "look"] = F(r1)
  BY <1>3, <1>4
<1> HIDE DEF F
<1>7. [F(r1) EXCEPT ![t].tries = new] = F(r2)
  BY <1>4, <1>5
<1>8. job' = [job EXCEPT ![t].at = "look", ![t].tries = new]
  BY <1>1, <1>2
<1>9. job' = F(r2)
  BY <1>6, <1>7, <1>8, Zenon
<1> QED
  BY <1>1, <1>2, <1>9 DEF F, r2

LEMMA GrabMakes ==
    ASSUME Types, NEW t \in Threads, NEW shown,
           job' = [job EXCEPT ![t].at = "save", ![t].image = shown]
    PROVE  LET r == job[t]
           IN  job' = [job EXCEPT ![t] = Made("save", r.todo, r.tries, shown, r.row, r.results)]
<1>1. PICK r \in Job : r = job[t]
  BY DEF Types
<1>2. PICK new : new = shown
  OBVIOUS
<1> DEFINE r0 == Made(r.at, r.todo, r.tries, r.image, r.row, r.results)
           r1 == Made("save", r.todo, r.tries, r.image, r.row, r.results)
           r2 == Made("save", r.todo, r.tries, new, r.row, r.results)
           F(q) == [job EXCEPT ![t] = q]
<1>3. job[t] = r0
  BY <1>1 DEF Job, Made
<1>4. [r0 EXCEPT !.at = "save"] = r1 /\ [r1 EXCEPT !.image = new] = r2
  BY DEF Made
<1>5. \A q, p : F(q)[t] = q /\ [F(q) EXCEPT ![t] = p] = F(p)
  BY DEF Types
<1> HIDE DEF r0, r1, r2
<1>6. [job EXCEPT ![t].at = "save"] = F(r1)
  BY <1>3, <1>4
<1> HIDE DEF F
<1>7. [F(r1) EXCEPT ![t].image = new] = F(r2)
  BY <1>4, <1>5
<1>8. job' = [job EXCEPT ![t].at = "save", ![t].image = new]
  BY <1>1, <1>2
<1>9. job' = F(r2)
  BY <1>6, <1>7, <1>8, Zenon
<1> QED
  BY <1>1, <1>2, <1>9 DEF F, r2

LEMMA ShotMakes ==
    ASSUME Types, NEW t \in Threads, NEW n,
           job' = [job EXCEPT ![t].at = "ocr", ![t].row = n]
    PROVE  LET r == job[t]
           IN  job' = [job EXCEPT ![t] = Made("ocr", r.todo, r.tries, r.image, n, r.results)]
<1>1. PICK r \in Job : r = job[t]
  BY DEF Types
<1>2. PICK new : new = n
  OBVIOUS
<1> DEFINE r0 == Made(r.at, r.todo, r.tries, r.image, r.row, r.results)
           r1 == Made("ocr", r.todo, r.tries, r.image, r.row, r.results)
           r2 == Made("ocr", r.todo, r.tries, r.image, new, r.results)
           F(q) == [job EXCEPT ![t] = q]
<1>3. job[t] = r0
  BY <1>1 DEF Job, Made
<1>4. [r0 EXCEPT !.at = "ocr"] = r1 /\ [r1 EXCEPT !.row = new] = r2
  BY DEF Made
<1>5. \A q, p : F(q)[t] = q /\ [F(q) EXCEPT ![t] = p] = F(p)
  BY DEF Types
<1> HIDE DEF r0, r1, r2
<1>6. [job EXCEPT ![t].at = "ocr"] = F(r1)
  BY <1>3, <1>4
<1> HIDE DEF F
<1>7. [F(r1) EXCEPT ![t].row = new] = F(r2)
  BY <1>4, <1>5
<1>8. job' = [job EXCEPT ![t].at = "ocr", ![t].row = new]
  BY <1>1, <1>2
<1>9. job' = F(r2)
  BY <1>6, <1>7, <1>8, Zenon
<1> QED
  BY <1>1, <1>2, <1>9 DEF F, r2

LEMMA NextMakes ==
    ASSUME NEW todo, NEW results
    PROVE  [Idle EXCEPT !.at = "find", !.todo = todo, !.results = results] =
               Made("find", todo, 0, None, 0, results)
<1> DEFINE r0 == Made("idle", <<>>, 0, None, 0, <<>>)
           r1 == Made("find", <<>>, 0, None, 0, <<>>)
           r2 == Made("find", todo, 0, None, 0, <<>>)
           r3 == Made("find", todo, 0, None, 0, results)
<1>1. /\ Idle = r0 /\ [r0 EXCEPT !.at = "find"] = r1 /\ [r1 EXCEPT !.todo = todo] = r2
      /\ [r2 EXCEPT !.results = results] = r3
  BY DEF Made, Idle
<1> HIDE DEF r0, r1, r2, r3
<1>2. [Idle EXCEPT !.at = "find", !.todo = todo, !.results = results] = r3
  BY <1>1, Zenon
<1> QED
  BY <1>2 DEF r3

LEMMA StartedIs ==
    ASSUME NEW targets
    PROVE  Started(targets) = Made("find", targets, 0, None, 0, <<>>)
<1> DEFINE r0 == Made("idle", <<>>, 0, None, 0, <<>>)
           r1 == Made("find", <<>>, 0, None, 0, <<>>)
           r2 == Made("find", targets, 0, None, 0, <<>>)
<1>1. Idle = r0 /\ [r0 EXCEPT !.at = "find"] = r1 /\ [r1 EXCEPT !.todo = targets] = r2
  BY DEF Made, Idle
<1> HIDE DEF r0, r1, r2
<1>2. [Idle EXCEPT !.at = "find", !.todo = targets] = r2
  BY <1>1, Zenon
<1> QED
  BY <1>2 DEF Started, r2

LEMMA ShotIs ==
    ASSUME NEW target \in Targets, NEW image \in Windows \cup {None}
    PROVE  LET shot == [FailedRow(target) EXCEPT !.status = "success", !.image = image]
           IN  shot \in Shot /\ shot.target = target /\ shot.status = "success"
<1> DEFINE mid == [FailedRow(target) EXCEPT !.status = "success"]
<1>1. mid \in Shot /\ mid.target = target /\ mid.status = "success"
  BY DEF FailedRow, Shot
<1> HIDE DEF mid
<1>2. LET shot == [mid EXCEPT !.image = image]
      IN  shot \in Shot /\ shot.target = target /\ shot.status = "success"
  BY <1>1 DEF Shot
<1>3. [FailedRow(target) EXCEPT !.status = "success", !.image = image]
          = [mid EXCEPT !.image = image]
  BY Zenon DEF mid
<1> QED
  BY <1>2, <1>3, Zenon

-----------------------------------------------------------------------------
(* What a step does, in the terms of the properties *)

\* The rows grow, and a row keeps its target and its status.
Grows ==
    /\ rows' \in Seq(Shot) /\ Len(rows) <= Len(rows')
    /\ \A n \in 1 .. Len(rows) :
           rows'[n].target = rows[n].target /\ rows'[n].status = rows[n].status

\* One job at most changes, and claims no row that was another's.
Moves(t, q) ==
    /\ job' = [job EXCEPT ![t] = q]
    /\ Fits(q)' /\ FailuresCounted(q)'
    /\ Claims(q) \subseteq Claims(job[t]) \cup {n \in Nat : n > Len(rows)}
MoveStep == UNCHANGED job \/ \E t \in Threads, q \in Job : Moves(t, q)

OtherTypes == foreground' \in Windows /\ open' \subseteq Targets /\ runs' \in 0 .. MaxRuns

Good == OtherTypes /\ TabOK' /\ Grows /\ MoveStep

LEMMA Same ==
    ASSUME Types, UNCHANGED rows
    PROVE  Grows
BY DEF Types, Grows

LEMMA Appended ==
    ASSUME Types, NEW shot \in Shot, rows' = Append(rows, shot)
    PROVE  /\ Grows /\ Len(rows') = Len(rows) + 1 /\ rows'[Len(rows) + 1] = shot
           /\ Len(rows) \in Nat
<1>1. rows \in Seq(Shot) /\ Len(rows) \in Nat
  BY DEF Types
<1>2. /\ rows' \in Seq(Shot) /\ Len(rows') = Len(rows) + 1
      /\ \A n \in 1 .. Len(rows) : rows'[n] = rows[n]
      /\ rows'[Len(rows) + 1] = shot
  BY <1>1, AppendProperties
<1> QED
  BY <1>1, <1>2 DEF Grows

\* A stored success stays one.
LEMMA ShotStays ==
    ASSUME Types, Grows, NEW n, NEW target, IsShot(n, target)
    PROVE  IsShot(n, target)' /\ n \in 1 .. Len(rows)
<1>1. Len(rows) \in Nat /\ Len(rows') \in Nat
  BY DEF Types, Grows
<1> QED
  BY <1>1 DEF IsShot, Grows

LEMMA FitsOn ==
    ASSUME Types, Grows, NEW r \in Job, Fits(r)
    PROVE  Fits(r)'
<1>1. \A i \in 1 .. Len(r.results) :
         Succeeds(r, i) => IsShot(r.results[i].row, r.results[i].target)'
  BY ShotStays DEF Fits
<1>2. r.at \in Filling => IsShot(r.row, Head(r.todo))'
  BY ShotStays DEF Fits
<1> QED
  BY <1>1, <1>2 DEF Fits

LEMMA FailedFinite ==
    ASSUME NEW r \in Job, NEW target
    PROVE  IsFiniteSet(FailedOf(r, target)) /\ Cardinality(FailedOf(r, target)) \in Nat
<1>1. PICK results \in Seq(TargetResult) : results = r.results
  BY DEF Job
<1>2. Len(results) \in Nat
  OBVIOUS
<1>3. IsFiniteSet(1 .. Len(results))
  BY <1>2, FS_Interval
<1>4. FailedOf(r, target) \subseteq 1 .. Len(results)
  BY <1>1 DEF FailedOf
<1> QED
  BY <1>3, <1>4, FS_Subset, FS_CardinalityType

\* A job with the same failures is counted as before.
LEMMA CountedOn ==
    ASSUME Types, Grows, NEW r \in Job, FailuresCounted(r), NEW q,
           \A target \in Targets : FailedOf(q, target) = FailedOf(r, target)
    PROVE  FailuresCounted(q)'
<1> SUFFICES ASSUME NEW target \in Targets
             PROVE  Cardinality(FailedOf(q, target)) <= Cardinality(FailedRows(target)')
  BY DEF FailuresCounted
<1>1. Len(rows) \in Nat /\ Len(rows') \in Nat
  BY DEF Types, Grows
<1>2. FailedRows(target) \subseteq FailedRows(target)'
  BY <1>1 DEF FailedRows, Grows
<1>3. IsFiniteSet(FailedRows(target)')
  <2>1. IsFiniteSet(1 .. Len(rows'))
    BY <1>1, FS_Interval
  <2>2. FailedRows(target)' \subseteq 1 .. Len(rows')
    BY DEF FailedRows
  <2> QED
    BY <2>1, <2>2, FS_Subset
<1>4. IsFiniteSet(FailedRows(target))
  BY <1>2, <1>3, FS_Subset
<1>5. Cardinality(FailedRows(target)) <= Cardinality(FailedRows(target)')
  BY <1>2, <1>3, FS_Subset
<1>6. Cardinality(FailedOf(q, target)) <= Cardinality(FailedRows(target))
  BY DEF FailuresCounted
<1>7. /\ Cardinality(FailedOf(q, target)) \in Nat
      /\ Cardinality(FailedRows(target)) \in Nat
      /\ Cardinality(FailedRows(target)') \in Nat
  BY <1>3, <1>4, FailedFinite, FS_CardinalityType
<1> QED
  BY <1>5, <1>6, <1>7

LEMMA GoodKeeps ==
    ASSUME CaptureInv, Good
    PROVE  CaptureInv'
<1>1. Types /\ Grows /\ MoveStep /\ \A t \in Threads : job[t] \in Job
  BY DEF CaptureInv, Good, Types
<1>3. ASSUME NEW r \in Job, Fits(r), FailuresCounted(r)
      PROVE  Fits(r)' /\ FailuresCounted(r)'
  BY <1>1, <1>3, FitsOn, CountedOn
<1>4. CASE UNCHANGED job
  <2>1. \A t \in Threads : Fits(job[t])' /\ FailuresCounted(job[t])'
    <3> TAKE t \in Threads
    <3>1. PICK r \in Job : r = job[t] /\ r = job'[t]
      BY <1>1, <1>4
    <3>2. Fits(r)' /\ FailuresCounted(r)'
      BY <1>3, <3>1 DEF CaptureInv
    <3> QED
      BY <3>1, <3>2
  <2>2. Apart'
    BY <1>4 DEF CaptureInv, Apart
  <2> QED
    BY <1>1, <1>4, <2>1, <2>2 DEF CaptureInv, Good, Types, OtherTypes, Grows
<1>5. CASE \E t \in Threads, q \in Job : Moves(t, q)
  <2>1. PICK t \in Threads, q \in Job : Moves(t, q)
    BY <1>5
  <2>2. /\ job' \in [Threads -> Job] /\ job'[t] = q
        /\ \A u \in Threads \ {t} : job'[u] = job[u]
    BY <1>1, <2>1 DEF Moves, Types
  <2>3. \A u \in Threads : Fits(job[u])' /\ FailuresCounted(job[u])'
    <3> TAKE u \in Threads
    <3>1. CASE u = t
      BY <2>1, <2>2, <3>1 DEF Moves
    <3>2. CASE u # t
      <4>1. PICK r \in Job : r = job[u] /\ r = job'[u]
        BY <1>1, <2>2, <3>2
      <4>2. Fits(r)' /\ FailuresCounted(r)'
        BY <1>3, <4>1 DEF CaptureInv
      <4> QED
        BY <4>1, <4>2
    <3> QED
      BY <3>1, <3>2
  <2>4. \A u \in Threads : Claims(job[u]) \subseteq 1 .. Len(rows)
    BY DEF CaptureInv, Fits, Claims, IsShot
  <2>5. \A n \in 1 .. Len(rows) : ~(n > Len(rows))
    BY <1>1 DEF Types
  <2>6. \A u \in Threads \ {t} : Claims(q) \cap Claims(job[u]) = {}
    BY <2>1, <2>4, <2>5 DEF CaptureInv, Apart, Moves
  <2>7. Apart'
    <3> SUFFICES ASSUME NEW a \in Threads, NEW b \in Threads, a # b
                 PROVE  Claims(job'[a]) \cap Claims(job'[b]) = {}
      BY DEF Apart
    <3>1. CASE a = t
      BY <2>2, <2>6, <3>1
    <3>2. CASE b = t
      BY <2>2, <2>6, <3>2
    <3>3. CASE a # t /\ b # t
      BY <2>2, <3>3 DEF CaptureInv, Apart
    <3> QED
      BY <3>1, <3>2, <3>3
  <2> QED
    BY <1>1, <2>2, <2>3, <2>7 DEF CaptureInv, Good, Types, OtherTypes, Grows
<1> QED
  BY <1>1, <1>4, <1>5 DEF MoveStep

-----------------------------------------------------------------------------
(* How a job moves *)

LEMMA Constants ==
    /\ Targets \subseteq AnyTarget /\ Invalid \in AnyTarget /\ Invalid \notin Targets
    /\ Requests \subseteq Seq(AnyTarget) /\ MaxRuns \in Nat /\ Other \in Windows
    /\ Targets \subseteq Windows /\ Attempts \in Nat
    /\ Workers \subseteq Threads /\ Servers \subseteq Threads
BY CaptureAssumption DEF AnyTarget, Windows, Threads

\* A job begins or ends without results.
LEMMA Rests ==
    ASSUME CaptureInv, Grows, NEW t \in Threads, NEW q \in Job, job' = [job EXCEPT ![t] = q],
           q.at \in Resting, q.results = <<>>
    PROVE  Moves(t, q)
<1>1. q.at \notin Filling
  BY DEF Resting, Filling
<1>2. Len(q.results) = 0 /\ 1 .. Len(q.results) = {}
  OBVIOUS
<1>3. Fits(q)' /\ Claims(q) = {}
  BY <1>1, <1>2 DEF Fits, Claims
<1>4. FailuresCounted(q)'
  <2> SUFFICES ASSUME NEW target \in Targets
               PROVE  Cardinality(FailedOf(q, target)) <= Cardinality(FailedRows(target)')
    BY DEF FailuresCounted
  <2>1. FailedOf(q, target) = {}
    BY <1>2 DEF FailedOf
  <2>2. Cardinality(FailedOf(q, target)) = 0
    BY <2>1, FS_EmptySet
  <2>3. IsFiniteSet(FailedRows(target)')
    <3>1. Len(rows') \in Nat
      BY DEF Grows
    <3>2. IsFiniteSet(1 .. Len(rows'))
      BY <3>1, FS_Interval
    <3>3. FailedRows(target)' \subseteq 1 .. Len(rows')
      BY DEF FailedRows
    <3> QED
      BY <3>2, <3>3, FS_Subset
  <2>4. Cardinality(FailedRows(target)') \in Nat
    BY <2>3, FS_CardinalityType
  <2> QED
    BY <2>2, <2>4
<1> QED
  BY <1>3, <1>4 DEF Moves

\* A job goes on with its target.
LEMMA GoesOn ==
    ASSUME CaptureInv, Grows, NEW t \in Threads, NEW q \in Job, job' = [job EXCEPT ![t] = q],
           job[t].todo # <<>>, Head(job[t].todo) \in Targets,
           q.todo = job[t].todo, q.results = job[t].results,
           q.at \in Filling => job[t].at \in Filling /\ q.row = job[t].row
    PROVE  Moves(t, q)
<1>1. PICK r \in Job : r = job[t]
  BY DEF CaptureInv, Types
<1>2. Types /\ Fits(r) /\ FailuresCounted(r)
  BY <1>1 DEF CaptureInv
<1>3. \A i : Succeeds(q, i) <=> Succeeds(r, i)
  BY <1>1 DEF Succeeds
<1>4. Fits(q)
  BY <1>1, <1>2, <1>3 DEF Fits
<1>5. Fits(q)'
  BY <1>2, <1>4, FitsOn
<1>6. \A target \in Targets : FailedOf(q, target) = FailedOf(r, target)
  BY <1>1 DEF FailedOf
<1>7. FailuresCounted(q)'
  BY <1>2, <1>6, CountedOn
<1>8. Claims(q) \subseteq Claims(r)
  BY <1>1, <1>3 DEF Claims
<1> QED
  BY <1>1, <1>5, <1>7, <1>8 DEF Moves

\* The results of q are those of r, n of them, and one more.
Longer(q, r, result, n) ==
    /\ n = Len(r.results) /\ Len(q.results) = n + 1
    /\ \A i \in 1 .. n : q.results[i] = r.results[i]
    /\ q.results[n + 1] = result
    /\ \A i \in 1 .. n : Succeeds(q, i) <=> Succeeds(r, i)
    /\ Succeeds(q, n + 1) <=> result.status = "success"
    /\ \A i \in 1 .. Len(q.results) : i \in 1 .. n \/ i = n + 1

LEMMA OneMore ==
    ASSUME NEW r \in Job, NEW q \in Job, NEW result \in TargetResult,
           q.results = Append(r.results, result)
    PROVE  \E n \in Nat : Longer(q, r, result, n)
<1>1. PICK results \in Seq(TargetResult) : results = r.results
  BY DEF Job
<1>2. PICK n \in Nat : n = Len(results)
  OBVIOUS
<1>3. /\ Len(q.results) = n + 1 /\ q.results[n + 1] = result
      /\ \A i \in 1 .. n : q.results[i] = results[i]
  BY <1>1, <1>2, AppendProperties
<1>4. \A i \in 1 .. n + 1 : i \in 1 .. n \/ i = n + 1
  OBVIOUS
<1>5. 1 .. n \subseteq 1 .. n + 1 /\ n + 1 \in 1 .. n + 1
  OBVIOUS
<1>6. Longer(q, r, result, n)
  BY <1>1, <1>2, <1>3, <1>4, <1>5 DEF Succeeds, Longer
<1> QED
  BY <1>6

\* A target has failed: nothing more is claimed, and the failure is counted if it has
\* left a row.
LEMMA NextFails ==
    ASSUME CaptureInv, Grows, NEW t \in Threads, NEW q \in Job, NEW target \in AnyTarget,
           job' = [job EXCEPT ![t] = q], q.at = "find",
           q.results = Append(job[t].results, Result(target, "failed", 0)),
           target \in Targets => /\ Len(rows') = Len(rows) + 1
                                 /\ rows'[Len(rows) + 1].target = target
                                 /\ rows'[Len(rows) + 1].status = "failed"
    PROVE  Moves(t, q)
<1>1. PICK r \in Job : r = job[t]
  BY DEF CaptureInv, Types
<1>2. Types /\ Fits(r) /\ FailuresCounted(r)
  BY <1>1 DEF CaptureInv
<1>3. PICK result \in TargetResult : /\ result = Result(target, "failed", 0)
                                     /\ result.target = target /\ result.status = "failed"
                                     /\ result.row = 0
  BY DEF Result, TargetResult
<1>4. PICK n \in Nat : Longer(q, r, result, n)
  <2>1. q.results = Append(r.results, result)
    BY <1>1, <1>3
  <2> QED
    BY <2>1, OneMore
<1>5. q.at \in Resting /\ q.at \notin Filling
  BY DEF Resting, Filling
<1>6. \A i \in 1 .. n : Succeeds(r, i) => r.results[i].row # 0
  <2>1. Len(rows) \in Nat
    BY <1>2 DEF Types
  <2> QED
    BY <1>2, <1>4, <2>1 DEF Fits, IsShot, Longer
<1>7. Fits(q)
  <2>1. \A i \in 1 .. Len(q.results) :
           /\ Succeeds(q, i) => IsShot(q.results[i].row, q.results[i].target)
           /\ ~Succeeds(q, i) => q.results[i].row = 0
    BY <1>2, <1>3, <1>4 DEF Fits, Longer
  <2>2. \A i, j \in 1 .. Len(q.results) :
           Succeeds(q, i) /\ q.results[j].row = q.results[i].row => i = j
    BY <1>2, <1>3, <1>4, <1>6 DEF Fits, Longer
  <2> QED
    BY <1>5, <2>1, <2>2 DEF Fits
<1>8. Fits(q)'
  BY <1>2, <1>7, FitsOn
<1>9. Claims(q) \subseteq Claims(r)
  BY <1>3, <1>4, <1>5 DEF Claims, Longer
<1>10. FailuresCounted(q)'
  <2> SUFFICES ASSUME NEW other \in Targets
               PROVE  Cardinality(FailedOf(q, other)) <= Cardinality(FailedRows(other)')
    BY DEF FailuresCounted
  <2>1. CASE other # target
    <3>1. FailedOf(q, other) = FailedOf(r, other)
      BY <1>3, <1>4, <2>1 DEF FailedOf, Longer
    <3>2. FailuresCounted(r)'
      BY <1>2, CountedOn
    <3> QED
      BY <3>1, <3>2 DEF FailuresCounted
  <2>2. CASE other = target
    <3>1. FailedOf(q, target) = FailedOf(r, target) \cup {n + 1} /\ n + 1 \notin FailedOf(r, target)
      BY <1>3, <1>4 DEF FailedOf, Longer
    <3>2. Cardinality(FailedOf(q, target)) = Cardinality(FailedOf(r, target)) + 1
      BY <3>1, FailedFinite, FS_AddElement
    <3>3. Len(rows) \in Nat /\ Len(rows') = Len(rows) + 1
      BY <1>2, <2>2 DEF Types
    <3>4. /\ FailedRows(target) \cup {Len(rows) + 1} \subseteq FailedRows(target)'
          /\ Len(rows) + 1 \notin FailedRows(target)
      BY <2>2, <3>3 DEF FailedRows, Grows
    <3>5. IsFiniteSet(FailedRows(target)') /\ IsFiniteSet(FailedRows(target))
      <4>1. IsFiniteSet(1 .. Len(rows'))
        BY <3>3, FS_Interval
      <4>2. FailedRows(target)' \subseteq 1 .. Len(rows')
        BY DEF FailedRows
      <4>3. FailedRows(target) \subseteq FailedRows(target)'
        BY <3>4
      <4> QED
        BY <4>1, <4>2, <4>3, FS_Subset
    <3>6. Cardinality(FailedRows(target) \cup {Len(rows) + 1}) = Cardinality(FailedRows(target)) + 1
      BY <3>4, <3>5, FS_AddElement
    <3>7. Cardinality(FailedRows(target) \cup {Len(rows) + 1}) <= Cardinality(FailedRows(target)')
      BY <3>4, <3>5, FS_Subset
    <3>8. Cardinality(FailedOf(r, target)) <= Cardinality(FailedRows(target))
      BY <1>2, <2>2 DEF FailuresCounted
    <3>9. /\ Cardinality(FailedOf(r, target)) \in Nat /\ Cardinality(FailedRows(target)) \in Nat
          /\ Cardinality(FailedRows(target)') \in Nat
      BY <3>5, FailedFinite, FS_CardinalityType
    <3> QED
      BY <2>2, <3>2, <3>6, <3>7, <3>8, <3>9
  <2> QED
    BY <2>1, <2>2
<1> QED
  BY <1>1, <1>8, <1>9, <1>10 DEF Moves

\* A success is handed on: the row the job was filling in is now its result's.
LEMMA NextSucceeds ==
    ASSUME CaptureInv, Grows, NEW t \in Threads, NEW q \in Job,
           job' = [job EXCEPT ![t] = q], q.at = "find", job[t].at \in Filling,
           q.results = Append(job[t].results,
                              Result(Head(job[t].todo), "success", job[t].row))
    PROVE  Moves(t, q)
<1>1. PICK r \in Job : r = job[t]
  BY DEF CaptureInv, Types
<1>2. Types /\ Fits(r) /\ FailuresCounted(r)
  BY <1>1 DEF CaptureInv
<1>3. Head(r.todo) \in Targets /\ IsShot(r.row, Head(r.todo)) /\ r.row \in Nat /\ r.row # 0
  <2>1. Len(rows) \in Nat
    BY <1>2 DEF Types
  <2> QED
    BY <1>1, <1>2, <2>1 DEF Fits, Filling, Resting, IsShot
<1>4. PICK result \in TargetResult :
          /\ result = Result(Head(r.todo), "success", r.row) /\ result.row = r.row
          /\ result.target = Head(r.todo) /\ result.status = "success"
  <2>1. PICK target \in Targets, row \in Nat : target = Head(r.todo) /\ row = r.row
    BY <1>3
  <2>2. /\ Result(target, "success", row) \in TargetResult
        /\ Result(target, "success", row).row = row
        /\ Result(target, "success", row).target = target
        /\ Result(target, "success", row).status = "success"
    BY Constants DEF Result, TargetResult
  <2> QED
    BY <2>1, <2>2
<1>5. PICK n \in Nat : Longer(q, r, result, n)
  <2>1. q.results = Append(r.results, result)
    BY <1>1, <1>4
  <2> QED
    BY <2>1, OneMore
<1>6. q.at \in Resting /\ q.at \notin Filling
  BY DEF Resting, Filling
<1>7. Fits(q)
  <2>1. \A i \in 1 .. Len(q.results) :
           /\ Succeeds(q, i) => IsShot(q.results[i].row, q.results[i].target)
           /\ ~Succeeds(q, i) => q.results[i].row = 0
    BY <1>2, <1>3, <1>4, <1>5 DEF Fits, Longer
  <2>2. \A i \in 1 .. n : q.results[i].row # r.row
    BY <1>1, <1>2, <1>5 DEF Fits, Longer
  <2>3. \A i, j \in 1 .. Len(q.results) :
           Succeeds(q, i) /\ q.results[j].row = q.results[i].row => i = j
    BY <1>2, <1>4, <1>5, <2>2 DEF Fits, Longer
  <2> QED
    BY <1>6, <2>1, <2>3 DEF Fits
<1>8. Fits(q)'
  BY <1>2, <1>7, FitsOn
<1>9. \A target \in Targets : FailedOf(q, target) = FailedOf(r, target)
  BY <1>4, <1>5 DEF FailedOf, Longer
<1>10. FailuresCounted(q)'
  BY <1>2, <1>9, CountedOn
<1>11. Claims(q) \subseteq Claims(r)
  BY <1>1, <1>4, <1>5, <1>6 DEF Claims, Longer
<1> QED
  BY <1>1, <1>8, <1>10, <1>11 DEF Moves

\* A shot is stored, in a row that nobody has claimed.
LEMMA StoresOne ==
    ASSUME CaptureInv, Grows, NEW t \in Threads, NEW q \in Job, NEW n,
           job' = [job EXCEPT ![t] = q], n = Len(rows) + 1,
           job[t].at \notin Resting \cup Filling, q.at = "ocr", q.row = n,
           q.todo = job[t].todo, q.results = job[t].results,
           Len(rows') = n, rows'[n].target = Head(job[t].todo), rows'[n].status = "success"
    PROVE  Moves(t, q)
<1>1. PICK r \in Job : r = job[t]
  BY DEF CaptureInv, Types
<1>2. Types /\ Fits(r) /\ FailuresCounted(r) /\ Fits(r)' /\ Len(rows) \in Nat
  BY <1>1, FitsOn DEF CaptureInv, Types
<1>3. \A i : Succeeds(q, i) <=> Succeeds(r, i)
  BY <1>1 DEF Succeeds
<1>4. IsShot(n, Head(q.todo))'
  BY <1>1, <1>2 DEF IsShot
<1>5. \A i \in 1 .. Len(r.results) : r.results[i].row # n
  BY <1>2 DEF Fits, IsShot
<1>6. Fits(q)'
  BY <1>1, <1>2, <1>3, <1>4, <1>5 DEF Fits, Resting, Filling
<1>7. \A target \in Targets : FailedOf(q, target) = FailedOf(r, target)
  BY <1>1 DEF FailedOf
<1>8. FailuresCounted(q)'
  BY <1>2, <1>7, CountedOn
<1>9. Claims(q) \subseteq Claims(r) \cup {n}
  BY <1>1, <1>3 DEF Claims
<1>10. n \in Nat /\ n > Len(rows)
  BY <1>2
<1> QED
  BY <1>1, <1>6, <1>8, <1>9, <1>10 DEF Moves

-----------------------------------------------------------------------------
(* Every step is one of these *)

LEMMA MoveGood ==
    ASSUME CaptureInv, Grows, OtherTypes, TabOK', NEW t \in Threads, NEW q \in Job, Moves(t, q)
    PROVE  Good
BY DEF Good, MoveStep

\* A step that only a job makes, and the windows.
LEMMA JobGood ==
    ASSUME CaptureInv, Grows, foreground' \in Windows, open' \subseteq Targets,
           UNCHANGED <<tab, runs>>, NEW t \in Threads, NEW q \in Job, Moves(t, q)
    PROVE  Good
<1>1. OtherTypes /\ TabOK'
  BY DEF CaptureInv, Types, OtherTypes, TabOK
<1> QED
  BY <1>1, MoveGood

\* A capture's next step in the course of one target.
LEMMA GotoGood ==
    ASSUME CaptureInv, Grows, UNCHANGED <<tab, runs>>,
           foreground' \in Windows, open' \subseteq Targets,
           NEW t \in Threads, NEW at \in Places, Goto(t, at),
           job[t].todo # <<>>, Head(job[t].todo) \in Targets,
           at \in Filling => job[t].at \in Filling
    PROVE  Good
<1>1. PICK r \in Job : r = job[t]
  BY DEF CaptureInv, Types
<1>2. PICK q : q = Made(at, r.todo, r.tries, r.image, r.row, r.results)
  OBVIOUS
<1>3. job' = [job EXCEPT ![t] = q]
  BY <1>1, <1>2, GotoMakes DEF CaptureInv
<1>4. q \in Job
  BY <1>2 DEF Made, Job
<1>5. q.at = at /\ q.todo = r.todo /\ q.row = r.row /\ q.results = r.results
  BY <1>2, MadeIs
<1> QED
  BY <1>1, <1>3, <1>4, <1>5, GoesOn, JobGood

LEMMA Working ==
    ASSUME CaptureInv, NEW t \in Threads
    PROVE  /\ job[t] \in Job /\ Fits(job[t]) /\ foreground \in Windows /\ open \subseteq Targets
           /\ job[t].at \notin Resting => job[t].todo # <<>> /\ Head(job[t].todo) \in Targets
BY DEF CaptureInv, Types, Fits

LEMMA PlacesAre ==
    /\ {"push", "look", "settle", "grab", "failed", "save", "store"} \cap (Resting \cup Filling) = {}
    /\ {"push", "look", "settle", "grab", "failed", "save", "store"} \subseteq Places
    /\ Filling \subseteq Places /\ Filling \cap Resting = {} /\ Resting \subseteq Places
BY DEF Resting, Filling, Places

LEMMA WindowGood ==
    ASSUME CaptureInv, NEW t \in Threads,
           FindWindow(t) \/ LaunchApp(t) \/ Look(t) \/ Settle(t)
    PROVE  Good
<1>1. UNCHANGED <<tab, runs>> /\ Grows
  BY Same DEF FindWindow, LaunchApp, Look, Settle, CaptureInv
<1>2. PICK at \in {"push", "settle", "grab", "failed"} : Goto(t, at)
  BY DEF FindWindow, LaunchApp, Look, Settle
<1>3. job[t].todo # <<>> /\ Head(job[t].todo) \in Targets
  BY Working, PlacesAre DEF FindWindow, LaunchApp, Look, Settle, Target
<1>4. foreground' \in Windows /\ open' \subseteq Targets
  BY Working, Constants DEF FindWindow, LaunchApp, Look, Settle, Target
<1> QED
  BY <1>1, <1>2, <1>3, <1>4, GotoGood, PlacesAre

LEMMA PushGood ==
    ASSUME CaptureInv, NEW t \in Threads, Push(t)
    PROVE  Good
<1>1. UNCHANGED <<open, rows, tab, runs>> /\ job[t].at = "push"
  BY DEF Push
<1>2. job[t].todo # <<>> /\ Head(job[t].todo) \in Targets
  BY <1>1, Working, PlacesAre
<1>3. foreground' \in Windows
  BY <1>2, Working, Constants DEF Push, Target
<1>4. PICK r \in Job : r = job[t]
  BY Working
<1>5. PICK q : q = Made("look", r.todo, r.tries + 1, r.image, r.row, r.results)
  OBVIOUS
<1>6. job' = [job EXCEPT ![t] = q] /\ Grows
  BY <1>1, <1>4, <1>5, PushMakes, Same DEF CaptureInv, Push
<1>7. q \in Job
  BY <1>5, PlacesAre DEF Made, Job
<1>8. q.at = "look" /\ q.todo = r.todo /\ q.row = r.row /\ q.results = r.results
  BY <1>5, MadeIs
<1> QED
  BY <1>1, <1>2, <1>3, <1>4, <1>6, <1>7, <1>8, GoesOn, JobGood, PlacesAre, Working

LEMMA GrabGood ==
    ASSUME CaptureInv, NEW t \in Threads, Grab(t)
    PROVE  Good
<1>1. UNCHANGED <<foreground, open, rows, tab, runs>> /\ job[t].at = "grab"
  BY DEF Grab
<1>2. job[t].todo # <<>> /\ Head(job[t].todo) \in Targets
  BY <1>1, Working, PlacesAre
<1>3. CASE Goto(t, "failed")
  <2>1. Grows
    BY <1>1, Same DEF CaptureInv
  <2> QED
    BY <1>1, <1>2, <1>3, <2>1, GotoGood, Working, PlacesAre
<1>4. CASE \E shown \in {Target(t), foreground} :
              job' = [job EXCEPT ![t].at = "save", ![t].image = shown]
  <2>1. PICK shown \in Windows : job' = [job EXCEPT ![t].at = "save", ![t].image = shown]
    BY <1>2, <1>4, Working, Constants DEF Target
  <2>2. PICK r \in Job : r = job[t]
    BY Working
  <2>3. PICK q : q = Made("save", r.todo, r.tries, shown, r.row, r.results)
    OBVIOUS
  <2>4. job' = [job EXCEPT ![t] = q] /\ Grows
    BY <1>1, <2>1, <2>2, <2>3, GrabMakes, Same DEF CaptureInv
  <2>5. q \in Job
    BY <2>3, PlacesAre DEF Made, Job
  <2>6. q.at = "save" /\ q.todo = r.todo /\ q.row = r.row /\ q.results = r.results
    BY <2>3, MadeIs
  <2> QED
    BY <1>1, <1>2, <2>2, <2>4, <2>5, <2>6, GoesOn, JobGood, PlacesAre, Working
<1> QED
  BY <1>3, <1>4 DEF Grab

\* A capture begins, ends or raises.
LEMMA RestGood ==
    ASSUME CaptureInv, UNCHANGED <<foreground, open, rows>>, TabOK', runs' \in 0 .. MaxRuns,
           NEW t \in Threads, NEW at \in Resting, NEW todo \in Seq(AnyTarget),
           job' = [job EXCEPT ![t] = Made(at, todo, 0, None, 0, <<>>)]
    PROVE  Good
<1>1. PICK q : q = Made(at, todo, 0, None, 0, <<>>)
  OBVIOUS
<1>2. q \in Job
  BY <1>1, PlacesAre DEF Made, Job
<1>3. q.at = at /\ q.results = <<>>
  BY <1>1, MadeIs
<1>4. Grows /\ OtherTypes
  BY Same DEF CaptureInv, Types, OtherTypes
<1> QED
  BY <1>1, <1>2, <1>3, <1>4, Rests, MoveGood

LEMMA RaiseGood ==
    ASSUME CaptureInv, NEW t \in Threads, Raise(t),
           UNCHANGED <<foreground, open, rows, tab, runs>>
    PROVE  Good
<1>1. [Idle EXCEPT !.at = "raised"] = Made("raised", <<>>, 0, None, 0, <<>>)
  BY DEF Idle, Made
<1>2. job' = [job EXCEPT ![t] = Made("raised", <<>>, 0, None, 0, <<>>)]
  BY <1>1 DEF Raise
<1>3. "raised" \in Resting /\ <<>> \in Seq(AnyTarget)
  BY DEF Resting
<1>4. TabOK' /\ runs' \in 0 .. MaxRuns
  BY DEF CaptureInv, TabOK, Types
<1> QED
  BY <1>2, <1>3, <1>4, RestGood

\* The next target comes with one more result.
LEMMA NextIs ==
    ASSUME CaptureInv, NEW t \in Threads, NEW result \in TargetResult, job[t].todo # <<>>,
           NextTarget(t, result)
    PROVE  \E q \in Job : /\ job' = [job EXCEPT ![t] = q] /\ q.at = "find"
                          /\ q.results = Append(job[t].results, result)
<1>1. PICK todo \in Seq(AnyTarget), results \in Seq(TargetResult) :
          todo = Tail(job[t].todo) /\ results = Append(job[t].results, result)
  <2>1. PICK old \in Seq(AnyTarget), had \in Seq(TargetResult) :
            old = job[t].todo /\ had = job[t].results
    BY Working DEF Job
  <2>2. Tail(old) \in Seq(AnyTarget) /\ Append(had, result) \in Seq(TargetResult)
    BY <2>1, AppendProperties
  <2> QED
    BY <2>1, <2>2
<1>2. PICK q : q = Made("find", todo, 0, None, 0, results)
  OBVIOUS
<1>3. job' = [job EXCEPT ![t] = q]
  <2>1. job' = [job EXCEPT ![t] = [Idle EXCEPT !.at = "find", !.todo = todo,
                                               !.results = results]]
    BY <1>1, Zenon DEF NextTarget
  <2> QED
    BY <1>2, <2>1, NextMakes, Zenon
<1>4. q \in Job
  <2>1. "find" \in Places
    BY DEF Places, Resting
  <2> QED
    BY <1>2, <2>1 DEF Made, Job
<1>5. q.at = "find" /\ q.results = results
  BY <1>2, MadeIs
<1> QED
  BY <1>1, <1>3, <1>4, <1>5

LEMMA FailedResult ==
    ASSUME NEW target \in AnyTarget
    PROVE  Result(target, "failed", 0) \in TargetResult
BY DEF Result, TargetResult

LEMMA SkipGood ==
    ASSUME CaptureInv, NEW t \in Threads, SkipInvalid(t)
    PROVE  Good
<1>1. /\ job[t].todo # <<>> /\ NextTarget(t, Result(Invalid, "failed", 0))
      /\ UNCHANGED <<foreground, open, rows, tab, runs>>
  BY DEF SkipInvalid
<1>2. Grows
  BY <1>1, Same DEF CaptureInv
<1>3. PICK q \in Job : /\ job' = [job EXCEPT ![t] = q] /\ q.at = "find"
                       /\ q.results = Append(job[t].results, Result(Invalid, "failed", 0))
  BY <1>1, NextIs, FailedResult, Constants
<1>4. Moves(t, q)
  BY <1>2, <1>3, NextFails, Constants
<1> QED
  BY <1>1, <1>2, <1>4, JobGood, Working

LEMMA FailGood ==
    ASSUME CaptureInv, NEW t \in Threads, FailTarget(t)
    PROVE  Good
<1>1. PICK target \in Targets : target = Target(t) /\ job[t].todo # <<>>
  BY Working, PlacesAre DEF FailTarget, Target
<1>2. /\ rows' = Append(rows, FailedRow(target))
      /\ NextTarget(t, Result(target, "failed", 0))
      /\ UNCHANGED <<foreground, open, tab, runs>>
  BY <1>1 DEF FailTarget, StoreFailure
<1>3. /\ FailedRow(target) \in Shot /\ FailedRow(target).target = target
      /\ FailedRow(target).status = "failed"
  BY DEF FailedRow, Shot
<1>4. /\ Grows /\ Len(rows') = Len(rows) + 1
      /\ rows'[Len(rows) + 1] = FailedRow(target)
  BY <1>2, <1>3, Appended DEF CaptureInv
<1>5. PICK q \in Job : /\ job' = [job EXCEPT ![t] = q] /\ q.at = "find"
                       /\ q.results = Append(job[t].results, Result(target, "failed", 0))
  BY <1>1, <1>2, NextIs, FailedResult, Constants
<1>6. Moves(t, q)
  BY <1>3, <1>4, <1>5, NextFails, Constants
<1> QED
  BY <1>2, <1>4, <1>6, JobGood, Working

LEMMA SaveGood ==
    ASSUME CaptureInv, NEW t \in Threads, SaveImage(t)
    PROVE  Good
<1>1. UNCHANGED <<foreground, open, rows, tab, runs>> /\ Grows
  BY Same DEF SaveImage, CaptureInv
<1>2. CASE Goto(t, "store")
  BY <1>1, <1>2, GotoGood, Working, PlacesAre DEF SaveImage
<1>3. CASE Raise(t)
  BY <1>1, <1>3, RaiseGood
<1> QED
  BY <1>2, <1>3 DEF SaveImage

LEMMA StoreShotGood ==
    ASSUME CaptureInv, NEW t \in Threads, StoreShot(t)
    PROVE  Good
<1>1. /\ UNCHANGED <<foreground, open, tab, runs>> /\ job[t].at = "store"
      /\ job[t].at \notin Resting \cup Filling
  BY PlacesAre DEF StoreShot
<1>2. PICK r \in Job : r = job[t]
  BY Working
<1>3. PICK target \in Targets : target = Head(r.todo) /\ r.todo # <<>> /\ target = Target(t)
  BY <1>1, <1>2, Working DEF Target
<1>4. PICK image \in Windows \cup {None} : image = r.image
  BY DEF Job
<1>5. PICK shot \in Shot :
          /\ shot = [FailedRow(target) EXCEPT !.status = "success", !.image = image]
          /\ shot.target = target /\ shot.status = "success"
  <2>1. LET shot == [FailedRow(target) EXCEPT !.status = "success", !.image = image]
        IN  shot \in Shot /\ shot.target = target /\ shot.status = "success"
    BY ShotIs
  <2>2. PICK shot : shot = [FailedRow(target) EXCEPT !.status = "success", !.image = image]
    OBVIOUS
  <2>3. shot \in Shot /\ shot.target = target /\ shot.status = "success"
    BY <2>1, <2>2, Zenon
  <2> QED
    BY <2>2, <2>3, Zenon
<1>6. rows' = Append(rows, shot)
  BY <1>2, <1>3, <1>4, <1>5, Zenon DEF StoreShot
<1>7. PICK n \in Nat : n = Len(rows) + 1
  BY Appended, <1>6 DEF CaptureInv
<1>8. Grows /\ Len(rows') = n /\ rows'[n] = shot
  BY <1>6, <1>7, Appended DEF CaptureInv
<1>9. PICK q : q = Made("ocr", r.todo, r.tries, r.image, n, r.results)
  OBVIOUS
<1>10. job' = [job EXCEPT ![t] = q]
  <2>1. job' = [job EXCEPT ![t].at = "ocr", ![t].row = n]
    BY <1>7 DEF StoreShot
  <2> QED
    BY <1>2, <1>9, <2>1, ShotMakes DEF CaptureInv
<1>11. q \in Job
  <2>1. "ocr" \in Places
    BY DEF Places, Filling
  <2> QED
    BY <1>9, <2>1 DEF Made, Job
<1>12. q.at = "ocr" /\ q.row = n /\ q.todo = r.todo /\ q.results = r.results
  BY <1>9, MadeIs
<1>13. Moves(t, q)
  <2>1. /\ q.todo = job[t].todo /\ q.results = job[t].results
        /\ rows'[n].target = Head(job[t].todo) /\ rows'[n].status = "success"
    BY <1>2, <1>3, <1>5, <1>8, <1>12
  <2> QED
    BY <1>1, <1>7, <1>8, <1>10, <1>11, <1>12, <2>1, StoresOne
<1> QED
  BY <1>1, <1>8, <1>11, <1>13, JobGood, Working

LEMMA HandGood ==
    ASSUME CaptureInv, NEW t \in Threads, job[t].at \in Filling,
           NextTarget(t, Result(Target(t), "success", ScreenshotId(t))),
           UNCHANGED <<foreground, open, rows, tab, runs>>
    PROVE  Good
<1>1. PICK target \in Targets, row \in Nat :
          /\ target = Head(job[t].todo) /\ row = job[t].row /\ job[t].todo # <<>>
  BY Working, PlacesAre DEF Job
<1>2. PICK result \in TargetResult : result = Result(target, "success", row)
  BY Constants DEF Result, TargetResult
<1>3. NextTarget(t, result)
  BY <1>1, <1>2 DEF Target, ScreenshotId
<1>4. PICK q \in Job : /\ job' = [job EXCEPT ![t] = q] /\ q.at = "find"
                       /\ q.results = Append(job[t].results, result)
  BY <1>1, <1>3, NextIs
<1>5. Grows
  BY Same DEF CaptureInv
<1>6. Moves(t, q)
  BY <1>1, <1>2, <1>4, <1>5, NextSucceeds
<1> QED
  BY <1>5, <1>6, JobGood, Working

LEMMA ReadGood ==
    ASSUME CaptureInv, NEW t \in Threads, ReadText(t) \/ HandOn(t)
    PROVE  Good
<1>1. /\ job[t].at \in Filling /\ UNCHANGED <<foreground, open, rows, tab, runs>>
      /\ Grows
  BY Same DEF ReadText, HandOn, Filling, CaptureInv
<1>2. CASE Goto(t, "text")
  <2>1. "text" \in Filling
    BY DEF Filling
  <2> QED
    BY <1>1, <1>2, <2>1, GotoGood, Working, PlacesAre
<1>3. CASE Raise(t)
  BY <1>1, <1>3, RaiseGood
<1>4. CASE NextTarget(t, Result(Target(t), "success", ScreenshotId(t)))
  BY <1>1, <1>4, HandGood
<1> QED
  BY <1>2, <1>3, <1>4 DEF ReadText, HandOn

LEMMA StoreTextGood ==
    ASSUME CaptureInv, NEW t \in Threads, StoreText(t)
    PROVE  Good
<1>1. /\ job[t].at = "text" /\ job[t].at \in Filling
      /\ Goto(t, "txt") /\ UNCHANGED <<foreground, open, tab, runs>>
  BY DEF StoreText, Filling
<1>2. PICK n \in 1 .. Len(rows) : n = job[t].row
  BY <1>1, Working DEF Fits, IsShot
<1>3. rows \in Seq(Shot) /\ rows[n] \in Shot
  BY DEF CaptureInv, Types
<1>4. PICK shot : shot = [rows[n] EXCEPT !.text = TRUE]
  OBVIOUS
<1>5. shot \in Shot /\ shot.target = rows[n].target /\ shot.status = rows[n].status
  BY <1>3, <1>4 DEF Shot
<1>6. rows' = [rows EXCEPT ![n] = shot]
  BY <1>2, <1>4 DEF StoreText, ScreenshotId
<1>7. /\ rows' \in Seq(Shot) /\ Len(rows') = Len(rows) /\ Len(rows) \in Nat
      /\ rows'[n] = shot /\ \A k \in 1 .. Len(rows) : k # n => rows'[k] = rows[k]
  BY <1>3, <1>5, <1>6
<1>8. Grows
  BY <1>5, <1>7 DEF Grows
<1>9. "txt" \in Filling
  BY DEF Filling
<1> QED
  BY <1>1, <1>8, <1>9, GotoGood, Working, PlacesAre

LEMMA StepGood ==
    ASSUME CaptureInv, NEW t \in Threads, Step(t)
    PROVE  Good
BY SkipGood, WindowGood, PushGood, GrabGood, FailGood, SaveGood, StoreShotGood, ReadGood,
   StoreTextGood DEF Step

\* The updates of the tab, one field each.
Running(r, x) == [r EXCEPT !.running = x]
Polling(r, x) == [r EXCEPT !.polls = x]
Owned(r, x)   == [r EXCEPT !.worker = x]
Queued(r, x)  == [r EXCEPT !.queue = x]

LEMMA RunningIs ==
    ASSUME NEW r \in Tab, NEW x \in BOOLEAN
    PROVE  Running(r, x) \in Tab /\ Running(r, x).running = x /\ Running(r, x).polls = r.polls
BY DEF Tab, Running

LEMMA PollingIs ==
    ASSUME NEW r \in Tab, NEW x \in 0 .. 1
    PROVE  Polling(r, x) \in Tab /\ Polling(r, x).running = r.running /\ Polling(r, x).polls = x
BY DEF Tab, Polling

LEMMA OwnedIs ==
    ASSUME NEW r \in Tab, NEW x \in Workers
    PROVE  Owned(r, x) \in Tab /\ Owned(r, x).running = r.running /\ Owned(r, x).polls = r.polls
BY DEF Tab, Owned

LEMMA QueuedIs ==
    ASSUME NEW r \in Tab, NEW x \in Seq({"done", "error"})
    PROVE  Queued(r, x) \in Tab /\ Queued(r, x).running = r.running /\ Queued(r, x).polls = r.polls
BY DEF Tab, Queued

LEMMA RunGood ==
    ASSUME CaptureInv, NEW w \in Workers, OnRun(w)
    PROVE  Good
<1>1. PICK target \in Targets : job' = [job EXCEPT ![w] = Started(<<target>>)]
  BY DEF OnRun
<1>2. /\ <<target>> \in Seq(AnyTarget) /\ "find" \in Resting /\ w \in Threads
      /\ UNCHANGED <<foreground, open, rows>>
  BY Constants DEF Resting, OnRun
<1>3. runs' \in 0 .. MaxRuns
  BY Constants DEF OnRun, CaptureInv, Types
<1>4. PICK was : was = tab
  OBVIOUS
<1>5. was \in Tab /\ was.polls + 1 = 1
  BY <1>4 DEF CaptureInv, TabOK, Tab, OnRun, MayRun
<1>6. <<>> \in Seq({"done", "error"}) /\ 1 \in 0 .. 1 /\ TRUE \in BOOLEAN
  OBVIOUS
<1>7. PICK t1 \in Tab : t1 = Running(was, TRUE) /\ t1.running = TRUE
  BY <1>5, <1>6, RunningIs
<1>8. PICK t2 \in Tab : t2 = Polling(t1, 1) /\ t2.running = TRUE /\ t2.polls = 1
  BY <1>6, <1>7, PollingIs
<1>9. PICK t3 \in Tab : t3 = Owned(t2, w) /\ t3.running = TRUE /\ t3.polls = 1
  BY <1>8, OwnedIs
<1>10. PICK t4 \in Tab : t4 = Queued(t3, <<>>) /\ t4.running = TRUE /\ t4.polls = 1
  BY <1>6, <1>9, QueuedIs
<1>11. tab' = [was EXCEPT !.running = TRUE, !.polls = 1, !.worker = w, !.queue = <<>>]
  BY <1>4, <1>5 DEF OnRun
<1>12. tab' = t4
  BY <1>7, <1>8, <1>9, <1>10, <1>11, Zenon DEF Running, Polling, Owned, Queued
<1>13. TabOK'
  BY <1>10, <1>12 DEF TabOK
<1> QED
  BY <1>1, <1>2, <1>3, <1>13, StartedIs, RestGood

LEMMA ServerGood ==
    ASSUME CaptureInv, NEW s \in Servers, ServerRun(s) \/ ServerAnswer(s)
    PROVE  Good
<1>1. /\ UNCHANGED <<foreground, open, rows, tab>> /\ s \in Threads
      /\ <<>> \in Seq(AnyTarget) /\ {"idle", "find"} \subseteq Resting
  BY Constants DEF Resting, ServerRun, ServerAnswer
<1>2. TabOK' /\ runs' \in 0 .. MaxRuns
  BY <1>1, Constants DEF CaptureInv, TabOK, Types, ServerRun, ServerAnswer
<1>3. CASE ServerRun(s)
  <2>1. PICK targets \in Seq(AnyTarget) : job' = [job EXCEPT ![s] = Started(targets)]
    BY <1>3, Constants DEF ServerRun
  <2> QED
    BY <1>1, <1>2, <2>1, StartedIs, RestGood
<1>4. CASE ServerAnswer(s)
  <2>1. job' = [job EXCEPT ![s] = Made("idle", <<>>, 0, None, 0, <<>>)]
    BY <1>4 DEF ServerAnswer, Idle, Made
  <2> QED
    BY <1>1, <1>2, <2>1, RestGood
<1> QED
  BY <1>3, <1>4

LEMMA ReportGood ==
    ASSUME CaptureInv, NEW w \in Workers, Report(w)
    PROVE  Good
<1>1. /\ UNCHANGED <<foreground, open, rows, runs>> /\ w \in Threads
      /\ <<>> \in Seq(AnyTarget) /\ "idle" \in Resting
  BY Constants DEF Resting, Report
<1>2. runs' \in 0 .. MaxRuns
  BY <1>1 DEF CaptureInv, Types
<1>3. job' = [job EXCEPT ![w] = Made("idle", <<>>, 0, None, 0, <<>>)]
  BY DEF Report, Idle, Made
<1>4. TabOK'
  <2>1. CASE UNCHANGED tab
    BY <2>1 DEF CaptureInv, TabOK
  <2>2. CASE tab' = [tab EXCEPT !.queue = Append(@, Message(w))]
    <3>1. PICK was : was = tab
      OBVIOUS
    <3>2. PICK queue \in Seq({"done", "error"}) : queue = Append(was.queue, Message(w))
      <4>1. Message(w) \in {"done", "error"} /\ was.queue \in Seq({"done", "error"})
        BY <3>1 DEF Message, CaptureInv, TabOK, Tab
      <4>2. Append(was.queue, Message(w)) \in Seq({"done", "error"})
        BY <4>1, AppendProperties
      <4> QED
        BY <4>2
    <3>3. tab' = [was EXCEPT !.queue = queue]
      BY <2>2, <3>1, <3>2
    <3>4. was \in Tab /\ (was.polls = 1 <=> was.running)
      BY <3>1 DEF CaptureInv, TabOK
    <3> QED
      <4>1. tab' = Queued(was, queue)
        BY <3>3 DEF Queued
      <4> QED
        BY <3>4, <4>1, QueuedIs DEF TabOK
  <2> QED
    BY <2>1, <2>2 DEF Report
<1> QED
  BY <1>1, <1>2, <1>3, <1>4, RestGood

LEMMA PollGood ==
    ASSUME CaptureInv, PollQueue
    PROVE  Good
<1>1. /\ UNCHANGED <<foreground, open, rows, job, runs>> /\ tab.polls > 0
      /\ tab \in Tab /\ tab.polls = 1 /\ tab.running = TRUE
  BY DEF PollQueue, CaptureInv, TabOK, Tab
<1>2. <<>> \in Seq({"done", "error"}) /\ 0 \in 0 .. 1 /\ FALSE \in BOOLEAN
  OBVIOUS
<1>3. PICK was : was = tab
  OBVIOUS
<1>4. TabOK'
  <2>1. CASE tab' = Rearm
    <3>1. tab' = Queued(was, <<>>)
      BY <1>3, <2>1 DEF Rearm, Queued
    <3> QED
      BY <1>1, <1>2, <1>3, <3>1, QueuedIs DEF TabOK
  <2>2. CASE tab' = Finish
    <3>1. PICK t1 \in Tab : t1 = Running(was, FALSE) /\ t1.running = FALSE
      BY <1>1, <1>2, <1>3, RunningIs
    <3>2. PICK t2 \in Tab : t2 = Polling(t1, 0) /\ t2.running = FALSE /\ t2.polls = 0
      <4>1. Polling(t1, 0) \in Tab /\ Polling(t1, 0).running = t1.running /\ Polling(t1, 0).polls = 0
        BY PollingIs
      <4> QED
        BY <3>1, <4>1
    <3>3. PICK t3 \in Tab : t3 = Queued(t2, <<>>) /\ t3.running = FALSE /\ t3.polls = 0
      BY <1>2, <3>2, QueuedIs
    <3>4. tab.polls - 1 = 0
      BY <1>1
    <3>5. tab' = [was EXCEPT !.running = FALSE, !.polls = 0, !.queue = <<>>]
      BY <1>3, <2>2, <3>4 DEF Finish
    <3>6. tab' = t3
      BY <3>1, <3>2, <3>3, <3>5, Zenon DEF Running, Polling, Queued
    <3> QED
      BY <3>3, <3>6 DEF TabOK
  <2> QED
    BY <2>1, <2>2 DEF PollQueue
<1>5. Grows /\ MoveStep /\ OtherTypes
  BY <1>1, Same DEF CaptureInv, Types, MoveStep, OtherTypes
<1> QED
  BY <1>4, <1>5 DEF Good

\* The tab is new: nothing runs and nothing polls.
LEMMA FreshOK == FreshTab \in Tab /\ ((FreshTab.polls = 1) <=> FreshTab.running)
BY DEF FreshTab, Tab

LEMMA SurroundingsGood ==
    ASSUME CaptureInv, SignOut \/ TakeFocus \/ CloseWindow
    PROVE  Good
<1>1. UNCHANGED <<rows, job, runs>>
  BY DEF SignOut, TakeFocus, CloseWindow
<1>2. foreground' \in Windows /\ open' \subseteq Targets
  BY Constants DEF SignOut, TakeFocus, CloseWindow, CaptureInv, Types
<1>3. TabOK'
  BY FreshOK DEF SignOut, TakeFocus, CloseWindow, CaptureInv, TabOK
<1>4. Grows /\ MoveStep /\ OtherTypes
  BY <1>1, <1>2, Same DEF CaptureInv, Types, MoveStep, OtherTypes
<1> QED
  BY <1>3, <1>4 DEF Good

LEMMA NextGood ==
    ASSUME CaptureInv, Next
    PROVE  Good
<1>1. CASE \E t \in Threads : Step(t)
  BY <1>1, StepGood
<1>2. CASE \E w \in Workers : OnRun(w) \/ Report(w)
  BY <1>2, RunGood, ReportGood
<1>3. CASE \E s \in Servers : ServerRun(s) \/ ServerAnswer(s)
  BY <1>3, ServerGood
<1>4. CASE PollQueue
  BY <1>4, PollGood
<1>5. CASE SignOut \/ TakeFocus \/ CloseWindow
  BY <1>5, SurroundingsGood
<1> QED
  BY <1>1, <1>2, <1>3, <1>4, <1>5 DEF Next

-----------------------------------------------------------------------------
(* The invariant, and what follows *)

LEMMA InitInv ==
    ASSUME Init
    PROVE  CaptureInv
<1>1. PICK r : r = Idle
  OBVIOUS
<1>2. r = Made("idle", <<>>, 0, None, 0, <<>>)
  BY <1>1 DEF Idle, Made
<1>3. r \in Job
  <2>1. "idle" \in Places /\ <<>> \in Seq(AnyTarget) /\ <<>> \in Seq(TargetResult)
    BY DEF Places, Resting
  <2> QED
    BY <1>2, <2>1 DEF Made, Job
<1>4. r.at = "idle" /\ r.results = <<>>
  BY <1>2, MadeIs
<1>5. r.at \in Resting /\ r.at \notin Filling /\ 1 .. Len(r.results) = {}
  BY <1>4 DEF Resting, Filling
<1>6. Fits(r) /\ Claims(r) = {}
  BY <1>5 DEF Fits, Claims
<1>7. FailuresCounted(r)
  <2> SUFFICES ASSUME NEW target \in Targets
               PROVE  Cardinality(FailedOf(r, target)) <= Cardinality(FailedRows(target))
    BY DEF FailuresCounted
  <2>1. 1 .. Len(rows) = {}
    BY DEF Init
  <2>2. FailedOf(r, target) = {} /\ FailedRows(target) = {}
    BY <1>5, <2>1 DEF FailedOf, FailedRows
  <2> QED
    BY <2>2, FS_EmptySet
<1>8. \A t \in Threads : job[t] = r
  BY <1>1 DEF Init
<1>9. Types
  BY <1>1, <1>3, Constants DEF Init, Types
<1>10. TabOK
  BY FreshOK DEF Init, TabOK
<1>11. Apart
  BY <1>6, <1>8 DEF Apart
<1> QED
  BY <1>6, <1>7, <1>8, <1>9, <1>10, <1>11 DEF CaptureInv

LEMMA StutterKeeps ==
    ASSUME CaptureInv, UNCHANGED vars
    PROVE  CaptureInv'
<1>1. Grows /\ MoveStep /\ OtherTypes /\ TabOK'
  BY Same DEF vars, CaptureInv, Types, MoveStep, OtherTypes, TabOK
<1> QED
  BY <1>1, GoodKeeps DEF Good

LEMMA Invariant == Spec => []CaptureInv
<1>1. Init => CaptureInv
  BY InitInv
<1>2. CaptureInv /\ [Next]_vars => CaptureInv'
  BY NextGood, GoodKeeps, StutterKeeps
<1> QED
  BY <1>1, <1>2, PTL DEF Spec

\* The state always has the types the model says, and the tab polls exactly while it is
\* disabled: no order of runs, messages and sign-outs leaves two chains of polls, or one
\* behind a finished run (CaptureTab._on_run, _poll_queue, _finish).
THEOREM CaptureTypes == Spec => []TypeOK
<1>1. CaptureInv => TypeOK
  <2> SUFFICES ASSUME CaptureInv PROVE TypeOK
    OBVIOUS
  <2>1. \A t \in Threads : job[t].at \in Places /\ job[t].image \in Windows \cup {None}
    BY Working DEF Job
  <2>2. tab.running \in BOOLEAN /\ tab.polls \in 0 .. 1 /\ tab.queue \in Seq({"done", "error"})
    BY DEF CaptureInv, TabOK, Tab
  <2> QED
    BY <2>1, <2>2 DEF CaptureInv, TabOK, Types, TypeOK, Places, Resting, Filling
<1> QED
  BY <1>1, Invariant, PTL

\* Of any number of captures at the same time: what a capture returns as a success names
\* a stored success of its own target, and no two results name one row
\* (capture_service.py: the worker's screenshot_id, capture_all).
THEOREM CaptureResultsAreStored == Spec => []ResultsAreStored
<1>1. CaptureInv => ResultsAreStored
  <2> SUFFICES ASSUME CaptureInv, NEW t \in Threads, NEW i \in DOMAIN job[t].results,
                      job[t].results[i].status = "success"
               PROVE  /\ job[t].results[i].row \in DOMAIN rows
                      /\ rows[job[t].results[i].row].target = job[t].results[i].target
                      /\ rows[job[t].results[i].row].status = "success"
                      /\ \A u \in Threads : \A j \in DOMAIN job[u].results :
                             job[u].results[j].row = job[t].results[i].row => t = u /\ i = j
    BY DEF ResultsAreStored
  <2>1. \A u \in Threads : DOMAIN job[u].results = 1 .. Len(job[u].results)
    BY Working DEF Job
  <2>2. DOMAIN rows = 1 .. Len(rows) /\ Len(rows) \in Nat
    BY DEF CaptureInv, Types
  <2>3. Succeeds(job[t], i) /\ i \in 1 .. Len(job[t].results)
    BY <2>1 DEF Succeeds
  <2>4. IsShot(job[t].results[i].row, job[t].results[i].target)
    BY <2>3, Working DEF Fits
  <2>5. job[t].results[i].row # 0
    BY <2>2, <2>4 DEF IsShot
  <2>6. ASSUME NEW u \in Threads, NEW j \in DOMAIN job[u].results,
               job[u].results[j].row = job[t].results[i].row
        PROVE  t = u /\ i = j
    <3>1. j \in 1 .. Len(job[u].results)
      BY <2>1
    <3>2. Succeeds(job[u], j)
      BY <2>5, <2>6, <3>1, Working DEF Fits
    <3>3. job[t].results[i].row \in Claims(job[t]) /\ job[u].results[j].row \in Claims(job[u])
      BY <2>3, <3>1, <3>2 DEF Claims
    <3>4. t = u
      BY <2>6, <3>3 DEF CaptureInv, Apart
    <3> QED
      BY <2>3, <2>6, <3>1, <3>4, Working DEF Fits
  <2> QED
    BY <2>2, <2>4, <2>6 DEF IsShot
<1> QED
  BY <1>1, Invariant, PTL

\* The successes of a target are no more than its stored ones: their rows tell them apart.
SuccessesOf(r, target) ==
    {i \in 1 .. Len(r.results) : r.results[i].target = target /\ r.results[i].status = "success"}
SuccessRows(target) ==
    {n \in 1 .. Len(rows) : rows[n].target = target /\ rows[n].status = "success"}

LEMMA SuccessesCounted ==
    ASSUME CaptureInv, NEW t \in Threads, NEW target
    PROVE  Cardinality(SuccessesOf(job[t], target)) <= Cardinality(SuccessRows(target))
<1> DEFINE Of == SuccessesOf(job[t], target)
           Stored == SuccessRows(target)
           rowOf == [i \in Of |-> job[t].results[i].row]
<1>1. IsFiniteSet(Stored)
  <2>1. Len(rows) \in Nat
    BY DEF CaptureInv, Types
  <2>2. IsFiniteSet(1 .. Len(rows)) /\ Stored \in SUBSET (1 .. Len(rows))
    BY <2>1, FS_Interval DEF SuccessRows
  <2> QED
    BY <2>2, FS_Subset
<1>2. ASSUME NEW i \in Of PROVE rowOf[i] \in Stored
  <2>1. Succeeds(job[t], i) /\ job[t].results[i].target = target
    BY DEF SuccessesOf, Succeeds
  <2>2. IsShot(job[t].results[i].row, target)
    BY <2>1, Working DEF Fits, Succeeds
  <2> QED
    BY <2>2 DEF IsShot, SuccessRows
<1>3. ASSUME NEW i \in Of, NEW j \in Of, rowOf[i] = rowOf[j] PROVE i = j
  <2>1. /\ i \in 1 .. Len(job[t].results) /\ j \in 1 .. Len(job[t].results)
        /\ Succeeds(job[t], i) /\ job[t].results[j].row = job[t].results[i].row
    BY <1>3 DEF SuccessesOf, Succeeds
  <2> QED
    BY <2>1, Working DEF Fits
<1>4. rowOf \in Injection(Of, Stored)
  BY <1>2, <1>3 DEF Injection, IsInjective
<1> HIDE DEF Of, Stored, rowOf
<1>5. Cardinality(Of) <= Cardinality(Stored)
  BY <1>1, <1>4, FS_Injection
<1> QED
  BY <1>5 DEF Of, Stored

\* Every capture of a configured target leaves a row, the failed ones too: an answer has no
\* more results of a target, of either status, than there are rows of it
\* (capture_service.py: the worker stores before it returns, on each of its paths).
THEOREM CaptureEveryTargetStored == Spec => []EveryTargetStored
<1>1. CaptureInv => EveryTargetStored
  <2> SUFFICES ASSUME CaptureInv, NEW t \in Threads, NEW target \in Targets,
                      NEW status \in {"success", "failed"}
               PROVE  Cardinality({i \in DOMAIN job[t].results :
                                       job[t].results[i].target = target
                                       /\ job[t].results[i].status = status})
                      <= Cardinality({i \in DOMAIN rows :
                                          rows[i].target = target /\ rows[i].status = status})
    BY DEF EveryTargetStored
  <2>1. /\ DOMAIN job[t].results = 1 .. Len(job[t].results) /\ Len(job[t].results) \in Nat
        /\ DOMAIN rows = 1 .. Len(rows) /\ Len(rows) \in Nat
    BY Working DEF Job, CaptureInv, Types
  <2>2. CASE status = "failed"
    <3>1. Cardinality(FailedOf(job[t], target)) <= Cardinality(FailedRows(target))
      BY DEF CaptureInv, FailuresCounted
    <3> QED
      BY <2>1, <2>2, <3>1 DEF FailedOf, FailedRows
  <2>3. CASE status = "success"
    <3>1. Cardinality(SuccessesOf(job[t], target)) <= Cardinality(SuccessRows(target))
      BY SuccessesCounted
    <3> QED
      BY <2>1, <2>3, <3>1 DEF SuccessesOf, SuccessRows
  <2> QED
    BY <2>2, <2>3
<1> QED
  BY <1>1, Invariant, PTL

=============================================================================
