--------------------------- MODULE DbStart_proofs ---------------------------
(* Proofs about DbStart, for any tables, any number of processes and starts, *)
(* and any rows the file held at first.                                       *)
EXTENDS DbStart, TLAPS

DbInv == TypeOK /\ RowsKept /\ (InPlace \/ cut \/ \E b \in Apps : Rebuilding(b))

-----------------------------------------------------------------------------
(* What tables hold                                                           *)

(* A row is held where some legacy row of the table has its key. *)
LEMMA HoldingIs ==
    ASSUME NEW tables, NEW p
    PROVE  p \in Holding(tables) <=>
             \E t \in TableSet : \E r \in tables[t].rows : r.from = "legacy" /\ p = <<t, r.key>>
BY DEF Holding, KeysOf

(* new stands for every row of was, under the same key and of the same origin. *)
Covers(new, was) ==
    \A t \in TableSet : \A r \in was[t].rows :
        \E q \in new[t].rows : q.key = r.key /\ q.from = r.from

(* What covers tables holds what they held. *)
LEMMA CoversHolds ==
    ASSUME NEW was, NEW new, Covers(new, was)
    PROVE  Holding(was) \subseteq Holding(new)
<1> SUFFICES ASSUME NEW p \in Holding(was) PROVE p \in Holding(new)
  OBVIOUS
<1>1. PICK t \in TableSet : \E r \in was[t].rows : r.from = "legacy" /\ p = <<t, r.key>>
  BY HoldingIs
<1>2. PICK r \in was[t].rows : r.from = "legacy" /\ p = <<t, r.key>>
  BY <1>1
<1>3. PICK q \in new[t].rows : q.key = r.key /\ q.from = r.from
  BY DEF Covers
<1> QED
  BY <1>2, <1>3, HoldingIs

(* A step that covers the tables, and leaves those set aside and the rebuilds *)
(* of the others alone, keeps what they hold.                                  *)
LEMMA CoverKeeps ==
    ASSUME DbInv, TypeOK', Covers(live', live), UNCHANGED <<old, legacy>>,
           uuidBak' \in {uuidBak, Kept},
           (\E b \in Apps : Rebuilding(b)) => cut' \/ \E b \in Apps : Rebuilding(b)',
           cut => cut'
    PROVE  DbInv'
<1>1. Holding(live) \subseteq Holding(live')
  BY CoversHolds
<1>2. Kept \subseteq Kept'
  BY <1>1 DEF Kept
<1>3. RowsKept'
  BY <1>2 DEF DbInv, RowsKept
<1>4. InPlace => InPlace'
  BY <1>1 DEF InPlace
<1> QED
  BY <1>3, <1>4 DEF DbInv

(* Tables cover themselves. *)
LEMMA CoversSame == ASSUME NEW tables PROVE Covers(tables, tables)
BY DEF Covers

-----------------------------------------------------------------------------
(* Types                                                                       *)

LEMMA TableFacts ==
    /\ None \in TableType /\ Fresh \in TableType
    /\ MaxStarts \in Nat
    /\ Len(Tables) \in Nat /\ Demonstrations \in Nat \ {0}
    /\ \A k \in 1 .. Len(Tables) : Tables[k] \in TableSet
    /\ DemoIds \subseteq Keys
    /\ "users" \in TableSet /\ "screenshots" \in TableSet
    /\ \A t \in TableSet : SeedKeys[t] \subseteq Keys
<1>1. None \in TableType /\ Fresh \in TableType
  BY DEF None, Fresh, TableType
<1>2. \A t \in TableSet : SeedKeys[t] \subseteq Keys
  BY DEF Keys
<1>3. DemoIds \subseteq Keys
  BY DEF Keys
<1> QED
  BY <1>1, <1>2, <1>3, DbAssumption DEF TableSet

LEMMA OffType == Off \in StartType /\ Off.pc = "off"
BY DEF Off, StartType, Steps

(* A start that moves to a step without a counter keeps its type. *)
LEMMA GoesKeeps ==
    ASSUME StartTypes, NEW a \in Apps, NEW pc \in Steps \ {"rename", "demos"}, Goes(a, pc)
    PROVE  StartTypes'
BY DEF StartTypes, StartType, Goes, At

(* So does one that moves with its whole record. *)
LEMMA MovesKeeps ==
    ASSUME StartTypes, NEW a \in Apps, NEW s \in StartType, app' = [app EXCEPT ![a] = s],
           s.pc = "rename" => s.k <= Len(Tables), s.pc = "demos" => s.k <= Demonstrations
    PROVE  StartTypes'
BY DEF StartTypes, At

LEMMA InitInv == Init => DbInv
<1> SUFFICES ASSUME Init PROVE DbInv
  OBVIOUS
<1>1. live \in [TableSet -> TableType]
  <2>1. CASE live = [t \in TableSet |-> None]
    BY <2>1, TableFacts
  <2>2. CASE \E type \in {"INTEGER", "TEXT"}, col \in BOOLEAN :
             live = [t \in TableSet |->
                       [type |-> type, col |-> col,
                        rows |-> {Row(k, "legacy", type, IF col THEN 1 ELSE 0) :
                                     k \in SeedKeys[t] \union
                                           (IF t = "users" THEN {"admin"} ELSE {}) \union
                                           (IF t = "screenshots" THEN {"s"} ELSE {})}]]
    <3>1. PICK type \in {"INTEGER", "TEXT"}, col \in BOOLEAN :
             live = [t \in TableSet |->
                       [type |-> type, col |-> col,
                        rows |-> {Row(k, "legacy", type, IF col THEN 1 ELSE 0) :
                                     k \in SeedKeys[t] \union
                                           (IF t = "users" THEN {"admin"} ELSE {}) \union
                                           (IF t = "screenshots" THEN {"s"} ELSE {})}]]
      BY <2>2
    <3> DEFINE keys(t) == SeedKeys[t] \union (IF t = "users" THEN {"admin"} ELSE {})
                                      \union (IF t = "screenshots" THEN {"s"} ELSE {})
    <3>2. \A t \in TableSet : keys(t) \subseteq Keys
      <4> SUFFICES ASSUME NEW t \in TableSet, NEW k \in keys(t) PROVE k \in Keys
        OBVIOUS
      <4>1. SeedKeys[t] \subseteq Keys
        BY TableFacts
      <4>2. "admin" \in Keys /\ "s" \in Keys
        BY DEF Keys
      <4> QED
        BY <4>1, <4>2
    <3>3. \A k \in Keys : Row(k, "legacy", type, IF col THEN 1 ELSE 0) \in RowSet
      BY <3>1 DEF Row, RowSet
    <3>4. \A t \in TableSet :
            {Row(k, "legacy", type, IF col THEN 1 ELSE 0) : k \in keys(t)} \in SUBSET RowSet
      BY <3>2, <3>3
    <3>5. live = [t \in TableSet |-> [type |-> type, col |-> col,
                    rows |-> {Row(k, "legacy", type, IF col THEN 1 ELSE 0) : k \in keys(t)}]]
      BY <3>1
    <3> HIDE DEF keys
    <3> QED
      BY <3>4, <3>5 DEF TableType
  <2> QED
    BY <2>1, <2>2 DEF Init
<1>2. TypeOK
  <2>1. TableTypes
    BY <1>1, TableFacts DEF Init, TableTypes
  <2>2. StartTypes
    BY OffType DEF Init, StartTypes, At, Off
  <2>3. OtherTypes
    <3>1. 0 \in 0 .. MaxStarts
      BY TableFacts
    <3> QED
      BY <3>1 DEF Init, OtherTypes
  <2> QED
    BY <2>1, <2>2, <2>3 DEF TypeOK
<1>3. legacy \subseteq Holding(live)
  <2>1. \A t \in TableSet : \A r \in live[t].rows : r.from = "legacy"
    BY DEF Init, Row, None
  <2> SUFFICES ASSUME NEW p \in legacy PROVE p \in Holding(live)
    OBVIOUS
  <2>2. \E t \in TableSet : \E r \in live[t].rows : p = <<t, r.key>>
    BY DEF Init
  <2> QED
    BY <2>1, <2>2, HoldingIs
<1> QED
  BY <1>2, <1>3 DEF DbInv, RowsKept, Kept, InPlace, Init

-----------------------------------------------------------------------------
(* The steps that change types only                                           *)

(* An exception or a death leaves the tables alone, and marks what it cut off. *)
LEMMA FailsKeeps == ASSUME DbInv, NEW a \in Apps, Fails(a) PROVE DbInv'
<1>1. TypeOK'
  BY OffType, MovesKeeps DEF DbInv, TypeOK, TableTypes, OtherTypes, Fails, Ends, prdVars
<1>2. (\E b \in Apps : Rebuilding(b)) => cut' \/ \E b \in Apps : Rebuilding(b)'
  BY DEF DbInv, TypeOK, StartTypes, Fails, Ends, Rebuilding, At
<1>3. Covers(live', live)
  BY CoversSame DEF Fails
<1> QED
  BY <1>1, <1>2, <1>3, CoverKeeps DEF Fails, Ends

(* A step that leaves the tables alone and starts or ends no rebuild. *)
Quiet(a) == \/ Begin(a) \/ Check(a) \/ Backup(a) \/ Columns(a) \/ Demos(a)
            \/ Look(a) \/ Save(a) \/ Script(a) \/ Record(a)

LEMMA QuietKeeps == ASSUME DbInv, NEW a \in Apps, Quiet(a) PROVE DbInv'
<1>0. ASSUME NEW pc \in Steps \ {"rename", "demos"}, Goes(a, pc) PROVE StartTypes'
  BY <1>0, GoesKeeps DEF DbInv, TypeOK
<1> USE DEF Quiet, Begin, Check, Backup, Columns, Demos, Look, Save, Script, Record, Steps
<1>1. StartTypes'
  <2>1. CASE \E pc \in Steps \ {"rename", "demos"} : Goes(a, pc)
    BY <1>0, <2>1
  <2>2. CASE Look(a)
    <3> DEFINE new == [app[a] EXCEPT !.pc = "save", !.first = ~applied,
                                     !.copy = ~applied /\ prdBak = "none"]
    <3>1. app' = [app EXCEPT ![a] = new]
      BY <2>2 DEF Look
    <3>2. new \in StartType
      BY DEF DbInv, TypeOK, StartTypes, StartType, OtherTypes
    <3>3. new.pc = "save"
      BY DEF DbInv, TypeOK, StartTypes, StartType
    <3> HIDE DEF new
    <3> QED
      BY <3>1, <3>2, <3>3, MovesKeeps DEF DbInv, TypeOK
  <2>3. CASE app' = [app EXCEPT ![a].pc = "demos", ![a].k = 1]
    BY <2>3, TableFacts DEF DbInv, TypeOK, StartTypes, StartType, At
  <2> QED
    BY <2>1, <2>2, <2>3
<1>2. TableTypes'
  BY DEF DbInv, TypeOK, TableTypes
<1>3. OtherTypes'
  <2>1. prd' \in BOOLEAN /\ prdBak' \in {"none", "pre", "post"} /\ applied' \in BOOLEAN
    <3>1. app[a].first \in BOOLEAN
      BY DEF DbInv, TypeOK, StartTypes, StartType
    <3> QED
      BY <3>1 DEF DbInv, TypeOK, OtherTypes, prdVars
  <2>2. starts' \in 0 .. MaxStarts /\ cut' \in BOOLEAN
    BY TableFacts DEF DbInv, TypeOK, OtherTypes, prdVars
  <2> QED
    BY <2>1, <2>2 DEF OtherTypes
<1>4. (\E b \in Apps : Rebuilding(b)) => \E b \in Apps : Rebuilding(b)'
  BY DEF DbInv, TypeOK, StartTypes, StartType, Rebuilding, At, Goes
<1>5. Covers(live', live)
  BY CoversSame
<1> QED
  BY <1>1, <1>2, <1>3, <1>4, <1>5, CoverKeeps DEF TypeOK

(* The new ids are read; no table is touched yet. *)
LEMMA MapsKeeps == ASSUME DbInv, NEW a \in Apps, Maps(a) PROVE DbInv'
<1>1. CASE \A t \in TableSet : Exists(live[t])
  <2> USE <1>1 DEF Maps
  <2>1. TypeOK'
    <3>1. [t \in TableSet |-> live[t].rows] \in [TableSet -> SUBSET RowSet]
      BY DEF DbInv, TypeOK, TableTypes, TableType
    <3>2. Len(Tables) >= 1
      BY TableFacts DEF TableSet
    <3>3. StartTypes'
      <4> DEFINE new == [pc |-> "rename", k |-> 1, maps |-> [t \in TableSet |-> live[t].rows],
                         first |-> app[a].first, copy |-> app[a].copy]
      <4>1. app' = [app EXCEPT ![a] = new]
        BY DEF DbInv, TypeOK, StartTypes, StartType
      <4>2. new \in StartType
        BY <3>1 DEF DbInv, TypeOK, StartTypes, StartType, Steps
      <4> QED
        BY <3>2, <4>1, <4>2, MovesKeeps DEF DbInv, TypeOK
    <3> QED
      BY <3>3 DEF DbInv, TypeOK, TableTypes, OtherTypes, prdVars
  <2>2. (\E b \in Apps : Rebuilding(b)) => \E b \in Apps : Rebuilding(b)'
    BY DEF DbInv, TypeOK, StartTypes, StartType, Rebuilding, At
  <2>3. Covers(live', live)
    BY CoversSame
  <2> QED
    BY <2>1, <2>2, <2>3, CoverKeeps
<1>2. CASE ~\A t \in TableSet : Exists(live[t])
  BY <1>2, FailsKeeps DEF Maps
<1> QED
  BY <1>1, <1>2

-----------------------------------------------------------------------------
(* The steps that add tables or rows                                          *)

LEMMA CreatedCovers ==
    ASSUME TypeOK PROVE Created \in [TableSet -> TableType] /\ Covers(Created, live)
<1>1. Created \in [TableSet -> TableType]
  BY TableFacts DEF TypeOK, TableTypes, Created
<1>2. Covers(Created, live)
  BY DEF Created, Covers, Exists, None
<1> QED
  BY <1>1, <1>2

LEMMA CreateKeeps == ASSUME DbInv, NEW a \in Apps, Schema(a) \/ Recreate(a) PROVE DbInv'
<1> USE DEF Schema, Recreate, Steps
<1>1. TypeOK'
  BY CreatedCovers, GoesKeeps DEF DbInv, TypeOK, TableTypes, OtherTypes, prdVars
<1>2. (\E b \in Apps : Rebuilding(b)) => \E b \in Apps : Rebuilding(b)'
  BY DEF DbInv, TypeOK, StartTypes, StartType, Rebuilding, At, Goes
<1> QED
  BY <1>1, <1>2, CreatedCovers, CoverKeeps DEF DbInv

LEMMA AlterKeeps == ASSUME DbInv, NEW a \in Apps, Alter(a) PROVE DbInv'
<1>1. CASE Exists(live["users"]) /\ ~live["users"].col
  <2> USE <1>1 DEF Alter, Steps
  <2>1. TypeOK'
    <3>1. TableTypes'
      <4>1. [live["users"] EXCEPT !.col = TRUE] \in TableType
        BY TableFacts DEF DbInv, TypeOK, TableTypes, TableType
      <4>2. live' = [live EXCEPT !["users"] = [live["users"] EXCEPT !.col = TRUE]]
        OBVIOUS
      <4> QED
        BY <4>1, <4>2 DEF DbInv, TypeOK, TableTypes
    <3> QED
      BY <3>1, GoesKeeps DEF DbInv, TypeOK, OtherTypes, prdVars
  <2>2. (\E b \in Apps : Rebuilding(b)) => \E b \in Apps : Rebuilding(b)'
    BY DEF DbInv, TypeOK, StartTypes, StartType, Rebuilding, At, Goes
  <2>3. Covers(live', live)
    BY TableFacts DEF DbInv, TypeOK, TableTypes, TableType, Covers
  <2> QED
    BY <2>1, <2>2, <2>3, CoverKeeps
<1>2. CASE ~(Exists(live["users"]) /\ ~live["users"].col)
  BY <1>2, FailsKeeps DEF Alter
<1> QED
  BY <1>1, <1>2

LEMMA RowType ==
    ASSUME NEW key \in Keys, NEW from \in {"legacy", "seed", "demo"},
           NEW id \in {"INTEGER", "TEXT"}, NEW flag \in {0, 1}
    PROVE  /\ Row(key, from, id, flag) \in RowSet
           /\ Row(key, from, id, flag).key = key /\ Row(key, from, id, flag).from = from
BY DEF Row, RowSet

(* A table whose rows are replaced by others is a table. *)
LEMMA RowsReplaced ==
    ASSUME NEW table \in TableType, NEW rows \in SUBSET RowSet
    PROVE  [table EXCEPT !.rows = rows] \in TableType /\ [table EXCEPT !.rows = rows].rows = rows
BY DEF TableType

LEMMA FlagKeeps == ASSUME DbInv, NEW a \in Apps, Flag(a) PROVE DbInv'
<1>1. CASE Exists(live["users"])
  <2> DEFINE marked(r) == IF r.key = "admin" THEN Row(r.key, r.from, r.id, 1) ELSE r
             rows == {marked(r) : r \in live["users"].rows}
             new == [live["users"] EXCEPT !.rows = rows]
  <2>1. live' = [live EXCEPT !["users"] = new]
    BY <1>1 DEF Flag
  <2>2. live["users"] \in TableType /\ live["users"].rows \subseteq RowSet
    BY TableFacts DEF DbInv, TypeOK, TableTypes, TableType
  <2>3. \A r \in live["users"].rows :
          marked(r) \in RowSet /\ marked(r).key = r.key /\ marked(r).from = r.from
    <3> TAKE r \in live["users"].rows
    <3>1. r.key \in Keys /\ r.from \in {"legacy", "seed", "demo"} /\ r.id \in {"INTEGER", "TEXT"}
      BY <2>2 DEF RowSet
    <3>2. Row(r.key, r.from, r.id, 1) \in RowSet /\ Row(r.key, r.from, r.id, 1).key = r.key
          /\ Row(r.key, r.from, r.id, 1).from = r.from
      BY <3>1, RowType
    <3> QED
      BY <2>2, <3>2
  <2> HIDE DEF marked
  <2>4. rows \in SUBSET RowSet
    BY <2>3
  <2> HIDE DEF rows
  <2>5. new \in TableType /\ new.rows = rows
    BY <2>2, <2>4, RowsReplaced
  <2> HIDE DEF new
  <2>6. TableTypes'
    BY <1>1, <2>1, <2>5 DEF DbInv, TypeOK, TableTypes, Flag
  <2>7. Covers(live', live)
    <3> SUFFICES ASSUME NEW t \in TableSet, NEW r \in live[t].rows
                 PROVE  \E q \in live'[t].rows : q.key = r.key /\ q.from = r.from
      BY DEF Covers
    <3>1. CASE t # "users"
      BY <2>1, <3>1 DEF DbInv, TypeOK, TableTypes
    <3>2. CASE t = "users"
      <4>1. live'[t].rows = rows
        BY <2>1, <2>5, <3>2 DEF DbInv, TypeOK, TableTypes
      <4>2. marked(r) \in rows
        BY <3>2 DEF rows
      <4> QED
        BY <2>3, <3>2, <4>1, <4>2
    <3> QED
      BY <3>1, <3>2
  <2>8. TypeOK'
    BY <1>1, <2>6, GoesKeeps DEF DbInv, TypeOK, OtherTypes, prdVars, Flag, Steps
  <2>9. (\E b \in Apps : Rebuilding(b)) => \E b \in Apps : Rebuilding(b)'
    BY <1>1 DEF DbInv, TypeOK, StartTypes, StartType, Rebuilding, At, Goes, Flag
  <2> QED
    BY <1>1, <2>7, <2>8, <2>9, CoverKeeps DEF Flag
<1>2. CASE ~Exists(live["users"])
  BY <1>2, FailsKeeps DEF Flag
<1> QED
  BY <1>1, <1>2

(* The default rows come on top of what there is. *)
LEMMA SeedKeeps == ASSUME DbInv, NEW a \in Apps, Seed(a) PROVE DbInv'
<1>1. CASE \A t \in TableSet : Exists(live[t])
  <2> DEFINE new(t) == [live[t] EXCEPT !.rows = live[t].rows \union Default(t)]
  <2>1. live' = [t \in TableSet |-> new(t)]
    BY <1>1 DEF Seed
  <2>2. \A t \in TableSet : live[t] \in TableType /\ live[t].rows \subseteq RowSet
    BY DEF DbInv, TypeOK, TableTypes, TableType
  <2>3. \A t \in TableSet : Default(t) \subseteq RowSet
    <3> TAKE t \in TableSet
    <3>1. "admin" \in Keys /\ SeedKeys[t] \subseteq Keys
      BY TableFacts DEF Keys
    <3>2. \A k \in Keys : Row(k, "seed", "TEXT", 0) \in RowSet /\ Row(k, "seed", "TEXT", 1) \in RowSet
      BY RowType
    <3> QED
      BY <3>1, <3>2 DEF Default, Missing
  <2>4. \A t \in TableSet : new(t) \in TableType /\ new(t).rows = live[t].rows \union Default(t)
    <3> TAKE t \in TableSet
    <3>1. live[t].rows \union Default(t) \in SUBSET RowSet
      BY <2>2, <2>3
    <3> QED
      BY <2>2, <3>1, RowsReplaced
  <2> HIDE DEF new
  <2>5. Covers(live', live)
    BY <2>1, <2>4 DEF Covers
  <2>6. TypeOK'
    <3>1. StartTypes'
      BY <1>1, GoesKeeps DEF DbInv, TypeOK, Seed, Steps
    <3> QED
      BY <1>1, <2>1, <2>4, <3>1 DEF DbInv, TypeOK, TableTypes, OtherTypes, prdVars, Seed
  <2>7. (\E b \in Apps : Rebuilding(b)) => \E b \in Apps : Rebuilding(b)'
    BY <1>1 DEF DbInv, TypeOK, StartTypes, StartType, Rebuilding, At, Goes, Seed
  <2> QED
    BY <1>1, <2>5, <2>6, <2>7, CoverKeeps DEF Seed
<1>2. CASE ~\A t \in TableSet : Exists(live[t])
  BY <1>2, FailsKeeps DEF Seed
<1> QED
  BY <1>1, <1>2

LEMMA DemoKeeps == ASSUME DbInv, NEW a \in Apps, AddDemo(a) PROVE DbInv'
<1>0. app[a] \in StartType /\ app[a].k \in 1 .. Demonstrations
  BY TableFacts DEF DbInv, TypeOK, StartTypes, StartType, AddDemo
<1>7. PICK id \in Keys :
         \/ live' = [live EXCEPT !["screenshots"].rows = @ \union {Row(id, "demo", "TEXT", 0)}]
         \/ live' = live
  BY TableFacts DEF AddDemo, Unused, Keys
<1> DEFINE demo == Row(id, "demo", "TEXT", 0)
           new == [live["screenshots"] EXCEPT !.rows = live["screenshots"].rows \union {demo}]
<1>1. live' = [live EXCEPT !["screenshots"] = new] \/ live' = live
  BY <1>7
<1>2. new \in TableType /\ live["screenshots"].rows \subseteq new.rows
  <2>2. demo \in RowSet
    BY RowType
  <2>3. live["screenshots"] \in TableType /\ live["screenshots"].rows \subseteq RowSet
    BY TableFacts DEF DbInv, TypeOK, TableTypes, TableType
  <2>4. live["screenshots"].rows \union {demo} \in SUBSET RowSet
    BY <2>2, <2>3
  <2> QED
    BY <2>3, <2>4, RowsReplaced
<1> HIDE DEF new
<1>3. Covers(live', live)
  BY <1>1, <1>2, TableFacts DEF Covers, DbInv, TypeOK, TableTypes
<1>4. StartTypes'
  <2>1. CASE Goes(a, "up")
    BY <2>1, GoesKeeps DEF DbInv, TypeOK, Steps
  <2>2. CASE app' = [app EXCEPT ![a].k = @ + 1] /\ app[a].k # Demonstrations /\ At(a, "demos")
    <3> DEFINE s == [app[a] EXCEPT !.k = app[a].k + 1]
    <3>1. app' = [app EXCEPT ![a] = s]
      BY <2>2
    <3>2. s \in StartType /\ s.pc = "demos" /\ s.k <= Demonstrations
      BY <1>0, <2>2, TableFacts DEF StartType, At
    <3> QED
      BY <3>1, <3>2, MovesKeeps DEF DbInv, TypeOK
  <2> QED
    BY <2>1, <2>2 DEF AddDemo
<1>5. TypeOK'
  BY <1>1, <1>2, <1>4 DEF DbInv, TypeOK, TableTypes, OtherTypes, prdVars, AddDemo
<1>6. (\E b \in Apps : Rebuilding(b)) => \E b \in Apps : Rebuilding(b)'
  BY DEF DbInv, TypeOK, StartTypes, StartType, Rebuilding, At, Goes, AddDemo
<1> QED
  BY <1>3, <1>5, <1>6, CoverKeeps DEF AddDemo

-----------------------------------------------------------------------------
(* The rebuild                                                                *)

(* A rename sets the table aside, with all it holds, and nothing was there.   *)
LEMMA RenameKeeps == ASSUME DbInv, NEW a \in Apps, Rename(a) PROVE DbInv'
<1> DEFINE t == Tables[app[a].k]
<1>1. CASE Exists(live[t]) /\ ~Exists(old[t])
  <2>0. /\ old' = [old EXCEPT ![t] = live[t]] /\ live' = [live EXCEPT ![t] = None]
        /\ IF app[a].k = Len(Tables) THEN Goes(a, "recreate")
                                     ELSE app' = [app EXCEPT ![a].k = @ + 1]
        /\ UNCHANGED <<uuidBak, prdVars, starts, cut, legacy>> /\ At(a, "rename")
    BY <1>1, Zenon DEF Rename
  <2>1. /\ old' = [old EXCEPT ![t] = live[t]] /\ live' = [live EXCEPT ![t] = None]
        /\ \/ app' = [app EXCEPT ![a].pc = "recreate"] /\ app[a].k = Len(Tables)
           \/ app' = [app EXCEPT ![a].k = @ + 1] /\ app[a].k # Len(Tables)
        /\ UNCHANGED <<uuidBak, prdVars, starts, cut, legacy>> /\ At(a, "rename")
    BY <2>0 DEF Goes
  <2>2. app[a] \in StartType /\ app[a].k \in 1 .. Len(Tables) /\ t \in TableSet
    BY <2>1, TableFacts DEF DbInv, TypeOK, StartTypes, StartType
  <2>3. StartTypes'
    <3>1. CASE app' = [app EXCEPT ![a].pc = "recreate"]
      BY <3>1, GoesKeeps DEF DbInv, TypeOK, Goes, Steps
    <3>2. CASE app' = [app EXCEPT ![a].k = @ + 1] /\ app[a].k # Len(Tables)
      <4> DEFINE s == [app[a] EXCEPT !.k = app[a].k + 1]
      <4>1. app' = [app EXCEPT ![a] = s]
        BY <3>2
      <4>2. s \in StartType /\ s.pc = "rename" /\ s.k <= Len(Tables)
        BY <2>1, <2>2, <3>2, TableFacts DEF StartType, At
      <4> QED
        BY <4>1, <4>2, MovesKeeps DEF DbInv, TypeOK
    <3> QED
      BY <2>1, <3>1, <3>2
  <2>4. TableTypes'
    BY <2>1, <2>2, TableFacts DEF DbInv, TypeOK, TableTypes
  <2>5. TypeOK'
    BY <2>1, <2>3, <2>4 DEF DbInv, TypeOK, OtherTypes, prdVars
  <2>6. Rebuilding(a)'
    BY <2>1, <2>2, TableFacts DEF DbInv, TypeOK, StartTypes, StartType, Rebuilding, At
  <2>7. Kept \subseteq Kept'
    <3> SUFFICES ASSUME NEW p \in Kept PROVE p \in Holding(live') \union Holding(old')
      BY DEF Kept
    <3>1. old[t].rows = {}
      BY <1>1 DEF Exists, None
    <3>2. \A u \in TableSet : u # t => live'[u] = live[u] /\ old'[u] = old[u]
      BY <2>1 DEF DbInv, TypeOK, TableTypes
    <3>3. old'[t] = live[t]
      BY <2>1, <2>2 DEF DbInv, TypeOK, TableTypes
    <3> HIDE DEF t
    <3>4. PICK u \in TableSet : \E r \in live[u].rows \union old[u].rows :
                                  r.from = "legacy" /\ p = <<u, r.key>>
      BY HoldingIs DEF Kept
    <3>5. PICK r \in live[u].rows \union old[u].rows : r.from = "legacy" /\ p = <<u, r.key>>
      BY <3>4
    <3>6. r \in live'[u].rows \union old'[u].rows
      BY <3>1, <3>2, <3>3
    <3> QED
      BY <3>5, <3>6, HoldingIs
  <2>8. RowsKept'
    BY <2>1, <2>7 DEF DbInv, RowsKept
  <2> QED
    BY <2>5, <2>6, <2>8 DEF DbInv
<1>2. CASE ~(Exists(live[t]) /\ ~Exists(old[t]))
  BY <1>2, FailsKeeps DEF Rename
<1> QED
  BY <1>1, <1>2

(* The copy brings back all that was set aside: every legacy row is in place. *)
LEMMA CopyKeeps == ASSUME DbInv, NEW a \in Apps, Copy(a) PROVE DbInv'
<1> DEFINE ready ==
      /\ \A t \in TableSet : Exists(live[t]) /\ Exists(old[t])
      /\ \A t \in TableSet : old[t].rows \subseteq app[a].maps[t]
      /\ \A t \in TableSet : \A r \in live[t].rows : \A q \in old[t].rows : r.key # q.key
<1>1. CASE ready
  <2> DEFINE moved(t) == {Row(r.key, r.from, "TEXT", r.flag) : r \in old[t].rows}
  <2>1. /\ live' = [t \in TableSet |-> Copied(t)] /\ old' = [t \in TableSet |-> None]
        /\ Goes(a, "columns") /\ UNCHANGED <<uuidBak, prdVars, starts, cut, legacy>>
    BY <1>1 DEF Copy
  <2>2. \A t \in TableSet : /\ live[t] \in TableType /\ live[t].rows \subseteq RowSet
                            /\ old[t].rows \subseteq RowSet
    BY DEF DbInv, TypeOK, TableTypes, TableType
  <2>3. \A t \in TableSet : moved(t) \subseteq RowSet
    <3> SUFFICES ASSUME NEW t \in TableSet, NEW r \in old[t].rows
                 PROVE  Row(r.key, r.from, "TEXT", r.flag) \in RowSet
      OBVIOUS
    <3>1. /\ r.key \in Keys /\ r.from \in {"legacy", "seed", "demo"}
          /\ "TEXT" \in {"INTEGER", "TEXT"} /\ r.flag \in {0, 1}
      BY <2>2 DEF RowSet
    <3> QED
      BY <3>1, RowType
  <2>4. \A t \in TableSet : /\ Copied(t) \in TableType
                            /\ Copied(t).rows = live[t].rows \union moved(t)
    <3> TAKE t \in TableSet
    <3>1. live[t].rows \union moved(t) \in SUBSET RowSet
      BY <2>2, <2>3
    <3>2. Copied(t) = [live[t] EXCEPT !.rows = live[t].rows \union moved(t)]
      BY DEF Copied
    <3> HIDE DEF moved
    <3> QED
      BY <2>2, <3>1, <3>2, RowsReplaced
  <2>5. Kept \subseteq Holding(live')
    <3> SUFFICES ASSUME NEW p \in Kept PROVE p \in Holding(live')
      OBVIOUS
    <3>1. PICK t \in TableSet : \E r \in live[t].rows \union old[t].rows :
                                  r.from = "legacy" /\ p = <<t, r.key>>
      BY HoldingIs DEF Kept
    <3>2. PICK r \in live[t].rows \union old[t].rows : r.from = "legacy" /\ p = <<t, r.key>>
      BY <3>1
    <3>3. \E q \in live'[t].rows : q.key = r.key /\ q.from = r.from
      <4>1. CASE r \in live[t].rows
        BY <2>1, <2>4, <4>1
      <4>2. CASE r \in old[t].rows
        <5>1. Row(r.key, r.from, "TEXT", r.flag) \in live'[t].rows
          BY <2>1, <2>4, <4>2
        <5> QED
          BY <5>1 DEF Row
      <4> QED
        BY <4>1, <4>2
    <3> QED
      BY <3>2, <3>3, HoldingIs
  <2>6. InPlace'
    BY <2>1, <2>5 DEF InPlace, DbInv, RowsKept
  <2>7. RowsKept'
    BY <2>1, <2>6 DEF RowsKept, InPlace, Kept, DbInv
  <2>8. TableTypes'
    BY <2>1, <2>4, TableFacts DEF TableTypes
  <2>9. TypeOK'
    BY <2>1, <2>8, GoesKeeps DEF DbInv, TypeOK, OtherTypes, prdVars, Steps
  <2> QED
    BY <2>6, <2>7, <2>9 DEF DbInv
<1>2. CASE ~ready
  BY <1>2, FailsKeeps DEF Copy
<1> QED
  BY <1>1, <1>2

-----------------------------------------------------------------------------
(* The theorems                                                               *)

LEMMA StutterKeeps == ASSUME DbInv, UNCHANGED vars PROVE DbInv'
BY DEF DbInv, TypeOK, TableTypes, StartTypes, OtherTypes, RowsKept, InPlace, Kept, Holding,
       Rebuilding, At, vars, prdVars

LEMMA NextKeeps == ASSUME DbInv, [Next]_vars PROVE DbInv'
<1>1. ASSUME NEW a \in Apps, Quiet(a) PROVE DbInv'
  BY <1>1, QuietKeeps
<1>2. ASSUME NEW a \in Apps, Stop(a) PROVE DbInv'
  BY <1>2, FailsKeeps DEF Stop
<1>3. ASSUME NEW a \in Apps,
             \/ Schema(a) \/ Maps(a) \/ Rename(a) \/ Recreate(a) \/ Copy(a)
             \/ Alter(a) \/ Flag(a) \/ Seed(a) \/ AddDemo(a)
      PROVE  DbInv'
  BY <1>3, CreateKeeps, MapsKeeps, RenameKeeps, CopyKeeps, AlterKeeps, FlagKeeps, SeedKeeps,
     DemoKeeps
<1> QED
  BY <1>1, <1>2, <1>3, StutterKeeps DEF Next, Quiet

THEOREM DbInvariant == Spec => []DbInv
BY InitInv, NextKeeps, PTL DEF Spec

(* However starts overlap, fail or die, every legacy row stays in its table   *)
(* or in the one set aside, and in the backup.  (_migrate_ids_to_uuid)         *)
THEOREM RowsAreKept == Spec => []RowsKept
<1>1. DbInv => RowsKept
  BY DEF DbInv
<1> QED
  BY <1>1, DbInvariant, PTL

(* A process that is up finds every legacy row in its table, unless a rebuild *)
(* is going on or was cut off.  (init_schema)                                  *)
THEOREM StrandedOnlyByACut == Spec => []StrandedHasCause
<1>1. DbInv => StrandedHasCause
  BY DEF DbInv, StrandedHasCause
<1> QED
  BY <1>1, DbInvariant, PTL

-----------------------------------------------------------------------------
(* The ids of a table                                                         *)

(* The steps of a start whose check, or whose renames, left no integer ids.   *)
Late == {"recreate", "copy", "columns", "alter", "flag", "look", "save", "script", "record",
         "seed", "demo", "demos", "up"}

NoInteger(tables) == \A t \in TableSet : tables[t].type # "INTEGER"

(* A table has integer ids only until a rebuild has set it aside. *)
Progress ==
    \A a \in Apps :
        /\ app[a].pc \in Late => NoInteger(live)
        /\ app[a].pc = "rename" =>
              \A j \in 1 .. Len(Tables) : j < app[a].k => live[Tables[j]].type # "INTEGER"

IdsInv ==
    /\ Fit(live) /\ Fit(old)
    /\ \A t \in TableSet : Exists(live[t]) => live[t].type # "none"
    /\ Progress

(* A start goes on as far as its tables allow, and the others with it, for no *)
(* table comes to have integer ids.                                            *)
LEMMA ProgressKept ==
    ASSUME DbInv, Progress, NEW a \in Apps, \A b \in Apps \ {a} : app'[b] = app[b],
           \A t \in TableSet : live'[t].type = "INTEGER" => live[t].type = "INTEGER",
           app'[a].pc \in Late => NoInteger(live'),
           app'[a].pc = "rename" =>
              \A j \in 1 .. Len(Tables) : j < app'[a].k => live'[Tables[j]].type # "INTEGER"
    PROVE  Progress'
<1>1. \A j \in 1 .. Len(Tables) : Tables[j] \in TableSet
  BY TableFacts
<1>2. NoInteger(live) => NoInteger(live')
  BY DEF NoInteger
<1> QED
  BY <1>1, <1>2 DEF Progress

(* Where a start goes on with the tables as they are. *)
LEMMA StaysFit ==
    ASSUME DbInv, IdsInv, NEW a \in Apps, UNCHANGED <<live, old>>,
           \A b \in Apps \ {a} : app'[b] = app[b],
           app'[a].pc \in Late => app[a].pc \in Late \/ NoInteger(live),
           app'[a].pc = "rename" => app'[a].k = 1
    PROVE  IdsInv'
<1>1. app'[a].pc \in Late => NoInteger(live')
  BY DEF IdsInv, Progress
<1>2. \A j \in 1 .. Len(Tables) : ~(j < 1)
  BY TableFacts
<1>3. Progress'
  BY <1>1, <1>2, ProgressKept DEF IdsInv
<1> QED
  BY <1>3 DEF IdsInv, Fit, Exists

LEMMA FailsFit == ASSUME DbInv, IdsInv, NEW a \in Apps, Fails(a) PROVE IdsInv'
<1>1. app' = [app EXCEPT ![a] = Off] /\ UNCHANGED <<live, old>>
  BY DEF Fails, Ends
<1>2. app'[a] = Off /\ \A b \in Apps \ {a} : app'[b] = app[b]
  BY <1>1 DEF DbInv, TypeOK, StartTypes
<1>3. app'[a].pc = "off"
  BY <1>2, OffType
<1> QED
  BY <1>1, <1>2, <1>3, StaysFit DEF Late

(* The steps that leave the tables alone. *)
LEMMA QuietFit ==
    ASSUME DbInv, IdsInv, NEW a \in Apps, Quiet(a) \/ Maps(a)
    PROVE  IdsInv'
<1>0. app \in [Apps -> StartType]
  BY DEF DbInv, TypeOK, StartTypes
<1>1. CASE Fails(a)
  BY <1>1, FailsFit
<1>2. CASE ~Fails(a)
  <2>1. UNCHANGED <<live, old>>
    BY <1>2 DEF Quiet, Begin, Check, Backup, Columns, Demos, Look, Save, Script, Record, Maps
  <2>2. ASSUME Check(a) PROVE IdsInv'
    <3>1. app'[a].pc = "columns" => NoInteger(live)
      BY <1>0, <2>2 DEF Check, Goes, NoInteger, StartType
    <3>2. app'[a].pc \in {"columns", "backup"} /\ \A b \in Apps \ {a} : app'[b] = app[b]
      BY <1>0, <2>2 DEF Check, Goes, StartType
    <3> QED
      BY <2>1, <3>1, <3>2, StaysFit DEF Late
  <2>3. ASSUME Maps(a) PROVE IdsInv'
    <3>1. app'[a].pc = "rename" /\ app'[a].k = 1 /\ \A b \in Apps \ {a} : app'[b] = app[b]
      BY <1>0, <1>2, <2>3 DEF Maps, StartType
    <3> QED
      BY <2>1, <3>1, StaysFit DEF Late
  <2>4. ASSUME Begin(a) \/ Backup(a) PROVE IdsInv'
    <3>1. app'[a].pc \in {"schema", "maps"} /\ \A b \in Apps \ {a} : app'[b] = app[b]
      BY <1>0, <2>4 DEF Begin, Backup, Goes, StartType
    <3> QED
      BY <2>1, <3>1, StaysFit DEF Late
  <2>5. ASSUME Columns(a) \/ Demos(a) \/ Look(a) \/ Save(a) \/ Script(a) \/ Record(a)
        PROVE  IdsInv'
    <3>1. app[a].pc \in Late
      BY <2>5 DEF Columns, Demos, Look, Save, Script, Record, At, Late
    <3>2. app'[a].pc # "rename" /\ \A b \in Apps \ {a} : app'[b] = app[b]
      <4>1. CASE Columns(a) \/ Save(a) \/ Script(a) \/ Record(a)
        BY <1>0, <4>1 DEF Columns, Save, Script, Record, Goes, StartType
      <4>2. CASE Demos(a)
        BY <1>0, <4>2 DEF Demos, Goes, StartType
      <4>3. CASE Look(a)
        <5> DEFINE new == [app[a] EXCEPT !.pc = "save", !.first = ~applied,
                                         !.copy = ~applied /\ prdBak = "none"]
        <5>1. app' = [app EXCEPT ![a] = new]
          BY <4>3 DEF Look
        <5>2. new.pc = "save"
          BY <1>0 DEF StartType
        <5> HIDE DEF new
        <5> QED
          BY <1>0, <5>1, <5>2
      <4> QED
        BY <2>5, <4>1, <4>2, <4>3
    <3> QED
      BY <2>1, <3>1, <3>2, StaysFit
  <2> QED
    BY <2>2, <2>3, <2>4, <2>5 DEF Quiet
<1> QED
  BY <1>1, <1>2

(* Tables are made with text ids. *)
LEMMA CreateFit ==
    ASSUME DbInv, IdsInv, NEW a \in Apps, Schema(a) \/ Recreate(a)
    PROVE  IdsInv'
<1>1. live' = Created /\ old' = old /\ app \in [Apps -> StartType]
  BY DEF Schema, Recreate, DbInv, TypeOK, StartTypes
<1>2. \A t \in TableSet : live'[t] = live[t] \/ live'[t] = Fresh
  BY <1>1 DEF Created
<1>3. \A t \in TableSet : Exists(live'[t]) => live'[t].type # "none"
  BY <1>2 DEF IdsInv, Exists, Fresh
<1>4. \A t \in TableSet : live'[t].type = "INTEGER" => live[t].type = "INTEGER"
  BY <1>2 DEF Fresh
<1>5. /\ app'[a].pc = "check" \/ (app'[a].pc = "copy" /\ app[a].pc = "recreate")
      /\ \A b \in Apps \ {a} : app'[b] = app[b]
  BY <1>1 DEF Schema, Recreate, Goes, At, StartType
<1>6. app'[a].pc \in Late => NoInteger(live')
  BY <1>4, <1>5 DEF IdsInv, Progress, NoInteger, Late
<1>7. Progress'
  BY <1>4, <1>5, <1>6, ProgressKept DEF IdsInv
<1>8. Fit(live') /\ Fit(old')
  BY <1>1, <1>2 DEF IdsInv, Fit, Fresh
<1> QED
  BY <1>3, <1>7, <1>8 DEF IdsInv, Exists

(* A table set aside keeps its ids, and its place has none. *)
LEMMA RenameFit == ASSUME DbInv, IdsInv, NEW a \in Apps, Rename(a) PROVE IdsInv'
<1> DEFINE t == Tables[app[a].k]
<1>1. CASE Fails(a)
  BY <1>1, FailsFit
<1>2. CASE ~Fails(a)
  <2>1. /\ old' = [old EXCEPT ![t] = live[t]] /\ live' = [live EXCEPT ![t] = None]
        /\ \/ Goes(a, "recreate") /\ app[a].k = Len(Tables)
           \/ app' = [app EXCEPT ![a].k = @ + 1]
        /\ app[a].pc = "rename"
    BY <1>2 DEF Rename, At
  <2>2. /\ live \in [TableSet -> TableType] /\ old \in [TableSet -> TableType]
        /\ app \in [Apps -> StartType] /\ app[a].k \in 1 .. Len(Tables) /\ t \in TableSet
    BY <2>1, TableFacts DEF DbInv, TypeOK, TableTypes, StartTypes, StartType, At
  <2>3. \A u \in TableSet : /\ live'[u] = live[u] \/ live'[u] = None
                            /\ old'[u] = old[u] \/ old'[u] = live[u]
    BY <2>1, <2>2
  <2>4. live'[t].type # "INTEGER"
    BY <2>1, <2>2 DEF None
  <2>5. \A u \in TableSet : live'[u].type = "INTEGER" => live[u].type = "INTEGER"
    BY <2>3 DEF None
  <2>6. \A j \in 1 .. Len(Tables) : j <= app[a].k => live'[Tables[j]].type # "INTEGER"
    <3> SUFFICES ASSUME NEW j \in 1 .. Len(Tables), j <= app[a].k
                 PROVE  live'[Tables[j]].type # "INTEGER"
      OBVIOUS
    <3>1. CASE j = app[a].k
      BY <2>4, <3>1
    <3>2. CASE j < app[a].k
      <4>1. Tables[j] \in TableSet /\ live[Tables[j]].type # "INTEGER"
        BY <2>1, <3>2, TableFacts DEF IdsInv, Progress
      <4> QED
        BY <2>5, <4>1
    <3> QED
      BY <2>2, <3>1, <3>2
  <2>7. /\ \A b \in Apps \ {a} : app'[b] = app[b]
        /\ \/ app'[a].pc = "recreate" /\ app[a].k = Len(Tables)
           \/ app'[a].pc = "rename" /\ app'[a].k = app[a].k + 1
    BY <2>1, <2>2 DEF Goes, StartType
  <2>8. app'[a].pc \in Late => NoInteger(live')
    <3>1. app'[a].pc \in Late => app[a].k = Len(Tables)
      BY <2>7 DEF Late
    <3>2. \A u \in TableSet : \E j \in 1 .. Len(Tables) : u = Tables[j]
      BY DEF TableSet
    <3>3. Len(Tables) \in Nat
      BY TableFacts
    <3> QED
      BY <2>6, <3>1, <3>2, <3>3 DEF NoInteger
  <2>9. app'[a].pc = "rename" =>
            \A j \in 1 .. Len(Tables) : j < app'[a].k => live'[Tables[j]].type # "INTEGER"
    BY <2>2, <2>6, <2>7
  <2>10. Progress'
    BY <2>5, <2>7, <2>8, <2>9, ProgressKept DEF IdsInv
  <2>11. Fit(live') /\ Fit(old')
    BY <2>3 DEF IdsInv, Fit, None
  <2> QED
    BY <2>3, <2>10, <2>11 DEF IdsInv, Exists
<1> QED
  BY <1>1, <1>2

(* The steps that write rows write them into tables of text ids. *)
LEMMA WritesFit ==
    ASSUME DbInv, IdsInv, NEW a \in Apps, app[a].pc \in Late, app'[a].pc # "rename",
           \A b \in Apps \ {a} : app'[b] = app[b],
           \A t \in TableSet :
              \/ live'[t] = live[t]
              \/ /\ Exists(live[t]) /\ live'[t].type = live[t].type
                 /\ \A r \in live'[t].rows :
                       r.id = "TEXT" \/ \E q \in live[t].rows : q.id = r.id,
           \A t \in TableSet : old'[t] = old[t] \/ old'[t] = None
    PROVE  IdsInv'
<1>1. \A t \in TableSet : live[t].type \in {"none", "INTEGER", "TEXT"}
  BY DEF DbInv, TypeOK, TableTypes, TableType
<1>2. NoInteger(live)
  BY DEF IdsInv, Progress
<1>3. \A t \in TableSet : Exists(live[t]) => live[t].type = "TEXT"
  BY <1>1, <1>2 DEF IdsInv, NoInteger
<1>4. Fit(live')
  <2> SUFFICES ASSUME NEW t \in TableSet, NEW r \in live'[t].rows
               PROVE  r.id = live'[t].type
    BY DEF Fit
  <2>1. CASE live'[t] = live[t]
    BY <2>1 DEF IdsInv, Fit
  <2>2. CASE live'[t] # live[t]
    <3>1. live'[t].type = "TEXT" /\ live[t].type = "TEXT"
      BY <1>3, <2>2
    <3>2. r.id = "TEXT" \/ \E q \in live[t].rows : q.id = r.id
      BY <2>2
    <3> QED
      BY <3>1, <3>2 DEF IdsInv, Fit
  <2> QED
    BY <2>1, <2>2
<1>5. Fit(old')
  BY DEF IdsInv, Fit, None
<1>6. \A t \in TableSet : live'[t].type = live[t].type
  OBVIOUS
<1>7. NoInteger(live')
  BY <1>2, <1>6 DEF NoInteger
<1>8. Progress'
  BY <1>6, <1>7, ProgressKept DEF IdsInv
<1>9. \A t \in TableSet : Exists(live'[t]) => live'[t].type # "none"
  BY <1>3, <1>6 DEF IdsInv
<1> QED
  BY <1>4, <1>5, <1>8, <1>9 DEF IdsInv, Exists

LEMMA CopyFit == ASSUME DbInv, IdsInv, NEW a \in Apps, Copy(a) PROVE IdsInv'
<1>1. CASE Fails(a)
  BY <1>1, FailsFit
<1>2. CASE ~Fails(a)
  <2>1. /\ live' = [t \in TableSet |-> Copied(t)] /\ old' = [t \in TableSet |-> None]
        /\ \A t \in TableSet : Exists(live[t])
        /\ app[a].pc = "copy" /\ Goes(a, "columns")
    BY <1>2 DEF Copy, At
  <2>2. \A t \in TableSet :
           /\ Copied(t).type = live[t].type
           /\ Copied(t).rows = live[t].rows \union
                                  {Row(r.key, r.from, "TEXT", r.flag) : r \in old[t].rows}
    BY DEF Copied, DbInv, TypeOK, TableTypes, TableType
  <2>3. \A t \in TableSet : \A r \in Copied(t).rows :
            r.id = "TEXT" \/ \E q \in live[t].rows : q.id = r.id
    BY <2>2 DEF Row
  <2>4. app[a].pc \in Late /\ app'[a].pc # "rename" /\ \A b \in Apps \ {a} : app'[b] = app[b]
    BY <2>1 DEF Late, Goes, DbInv, TypeOK, StartTypes, StartType
  <2> QED
    BY <2>1, <2>2, <2>3, <2>4, WritesFit
<1> QED
  BY <1>1, <1>2

(* The password column, the default rows and the demo executions. *)
LEMMA RowsFit ==
    ASSUME DbInv, IdsInv, NEW a \in Apps, Alter(a) \/ Flag(a) \/ Seed(a) \/ AddDemo(a)
    PROVE  IdsInv'
<1>1. CASE Fails(a)
  BY <1>1, FailsFit
<1>2. CASE ~Fails(a)
  <2>1. /\ live \in [TableSet -> TableType] /\ app \in [Apps -> StartType]
        /\ "users" \in TableSet /\ "screenshots" \in TableSet
    BY TableFacts DEF DbInv, TypeOK, TableTypes, StartTypes
  <2>2. app[a].pc \in Late /\ app'[a].pc # "rename" /\ \A b \in Apps \ {a} : app'[b] = app[b]
    <3>1. CASE Alter(a) \/ Flag(a) \/ Seed(a)
      BY <1>2, <2>1, <3>1 DEF Alter, Flag, Seed, At, Late, Goes, StartType
    <3>2. CASE AddDemo(a)
      <4>1. /\ app[a].pc = "demos"
            /\ Goes(a, "up") \/ app' = [app EXCEPT ![a].k = @ + 1]
        BY <3>2 DEF AddDemo, At
      <4>2. CASE Goes(a, "up")
        BY <2>1, <4>1, <4>2 DEF Late, Goes, StartType
      <4>3. CASE app' = [app EXCEPT ![a].k = @ + 1]
        BY <2>1, <4>1, <4>3 DEF Late, StartType
      <4> QED
        BY <4>1, <4>2, <4>3
    <3> QED
      BY <3>1, <3>2
  <2>3. old' = old
    BY <1>2 DEF Alter, Flag, Seed, AddDemo
  <2>4. ASSUME NEW t \in TableSet
        PROVE  \/ live'[t] = live[t]
               \/ /\ Exists(live[t]) /\ live'[t].type = live[t].type
                  /\ \A r \in live'[t].rows :
                        r.id = "TEXT" \/ \E q \in live[t].rows : q.id = r.id
    <3>1. CASE Alter(a)
      BY <1>2, <2>1, <3>1 DEF Alter, TableType
    <3>2. CASE Flag(a)
      <4>1. /\ live' = [live EXCEPT !["users"].rows =
                           {IF r.key = "admin" THEN Row(r.key, r.from, r.id, 1) ELSE r : r \in @}]
            /\ Exists(live["users"])
        BY <1>2, <3>2 DEF Flag
      <4> QED
        BY <2>1, <4>1 DEF TableType, Row
    <3>3. CASE Seed(a)
      <4>1. live'[t] = [live[t] EXCEPT !.rows = @ \union Default(t)] /\ Exists(live[t])
        BY <1>2, <3>3 DEF Seed
      <4>2. live'[t].rows = live[t].rows \union Default(t) /\ live'[t].type = live[t].type
        BY <2>1, <4>1 DEF TableType
      <4>3. \A r \in Default(t) : r.id = "TEXT"
        BY DEF Default, Row
      <4> QED
        BY <4>1, <4>2, <4>3
    <3>4. CASE AddDemo(a)
      <4>1. PICK id :
               \/ /\ live' = [live EXCEPT !["screenshots"].rows =
                                 @ \union {Row(id, "demo", "TEXT", 0)}]
                  /\ Exists(live["screenshots"])
               \/ live' = live
        BY <3>4 DEF AddDemo
      <4> QED
        BY <2>1, <4>1 DEF TableType, Row
    <3> QED
      BY <3>1, <3>2, <3>3, <3>4
  <2> QED
    BY <2>2, <2>3, <2>4, WritesFit
<1> QED
  BY <1>1, <1>2

LEMMA InitFit == Init => IdsInv
<1> SUFFICES ASSUME Init PROVE IdsInv
  OBVIOUS
<1>1. Fit(old)
  BY DEF Init, Fit, None
<1>2. Progress
  BY OffType DEF Init, Progress, Late
<1>3. Fit(live) /\ \A t \in TableSet : Exists(live[t]) => live[t].type # "none"
  <2>1. CASE live = [t \in TableSet |-> None]
    BY <2>1 DEF Fit, None, Exists
  <2>2. ASSUME NEW type \in {"INTEGER", "TEXT"}, NEW col \in BOOLEAN,
               live = [t \in TableSet |->
                         [type |-> type, col |-> col,
                          rows |-> {Row(k, "legacy", type, IF col THEN 1 ELSE 0) :
                                       k \in SeedKeys[t] \union
                                             (IF t = "users" THEN {"admin"} ELSE {}) \union
                                             (IF t = "screenshots" THEN {"s"} ELSE {})}]]
        PROVE  Fit(live) /\ \A t \in TableSet : Exists(live[t]) => live[t].type # "none"
    BY <2>2 DEF Fit, Row
  <2> QED
    BY <2>1, <2>2 DEF Init
<1> QED
  BY <1>1, <1>2, <1>3 DEF IdsInv

LEMMA NextFit == ASSUME DbInv, IdsInv, [Next]_vars PROVE IdsInv'
<1>1. CASE UNCHANGED vars
  BY <1>1 DEF vars, IdsInv, Fit, Progress, NoInteger, Exists
<1>2. CASE Next
  BY <1>2, QuietFit, FailsFit, CreateFit, RenameFit, CopyFit, RowsFit DEF Next, Quiet, Stop
<1> QED
  BY <1>1, <1>2

(* Tables, starts and files keep their types. *)
THEOREM DbTypes == Spec => []TypeOK
<1>1. DbInv => TypeOK
  BY DEF DbInv
<1> QED
  BY <1>1, DbInvariant, PTL

(* Every row, in its table or set aside, has an id of the table's type:        *)
(* however starts overlap, fail or die, no uuid is inserted where ids are      *)
(* integers, and no integer id is left in a table that was made anew.          *)
(* (_migrate_ids_to_uuid, _seed_rbac, mock_data.py: seed_first_run)            *)
THEOREM IdsAlwaysFit == Spec => []IdsFit
<1>1. DbInv /\ IdsInv => IdsFit
  BY DEF IdsInv, IdsFit
<1>2. DbInv /\ IdsInv /\ [Next]_vars => (DbInv /\ IdsInv)'
  BY NextKeeps, NextFit
<1>3. Init => DbInv /\ IdsInv
  BY InitInv, InitFit
<1> QED
  BY <1>1, <1>2, <1>3, PTL DEF Spec
=============================================================================
