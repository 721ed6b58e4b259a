------------------------------- MODULE DbStart -------------------------------
(* How a process brings up the database file: schema, rebuild of legacy       *)
(* integer ids, added columns, SQL migration files, default rows, demo data    *)
(* (db/database.py: init_schema; run.py: build_context; services/mock_data.py). *)
(*                                                                            *)
(* The desktop application and the server may start at the same time; the     *)
(* lock in Database is one per connection.  A start may die between any two   *)
(* steps.  Each DDL statement commits by itself; INSERTs open a transaction,   *)
(* which a death or an exception rolls back, so a step here is what commits    *)
(* as one.                                                                     *)
EXTENDS Naturals, Sequences, FiniteSets

CONSTANTS
    Apps, Desktops,     \* the processes; those that run build_context
    Tables,             \* the tables of _UUID_REBUILD_SPEC, in its order
    SeedKeys,           \* [table -> the keys _seed_rbac inserts or ignores]
    Demonstrations,     \* how many demo executions seed_first_run makes
    DemoIds,            \* a bound: the ids demo executions may be given
    MaxStarts           \* bound on the starts

TableSet == {Tables[k] : k \in 1 .. Len(Tables)}

ASSUME DbAssumption ==
    /\ Desktops \subseteq Apps
    /\ \A j, k \in 1 .. Len(Tables) : Tables[j] = Tables[k] => j = k
    /\ {"users", "screenshots"} \subseteq TableSet
    /\ Len(Tables) \in Nat /\ Demonstrations \in Nat \ {0}
    /\ MaxStarts \in Nat

(* The default administrator is no other default row, and the id of a demo     *)
(* execution is that of no other row.                                          *)
ASSUME KeyAssumption ==
    /\ "admin" \notin SeedKeys["users"]
    /\ DemoIds \cap (SeedKeys["screenshots"] \union {"s"}) = {}

VARIABLES
    live,       \* live[t]: the table t, or None
    old,        \* old[t]: the table t__old, or None
    uuidBak,    \* the rows in <db>.pre-uuid.bak; {} when there is none
    prd,        \* whether 002_prd22.sql has made its tables
    prdBak,     \* <db>.pre-prd22.bak: "none", "pre" or "post" that file
    applied,    \* whether schema_migrations names that file
    app,        \* app[a]: [pc, k, maps, first, copy], the start in progress
    starts,     \* the starts so far
    cut,        \* history: a rebuild was cut off after its first rename
    legacy      \* the rows [table, key] the file held at first
vars == <<live, old, uuidBak, prd, prdBak, applied, app, starts, cut, legacy>>
prdVars == <<prd, prdBak, applied>>

None == [type |-> "none", col |-> FALSE, rows |-> {}]
Exists(table) == table # None

(* CREATE TABLE: TEXT ids, and must_change_password among the columns. *)
Fresh == [type |-> "TEXT", col |-> TRUE, rows |-> {}]

(* A row: its key, where it is from, the type of its id, must_change_password. *)
Row(key, from, id, flag) == [key |-> key, from |-> from, id |-> id, flag |-> flag]

Off == [pc |-> "off", k |-> 1, maps |-> [t \in TableSet |-> {}], first |-> FALSE, copy |-> FALSE]

(* The file is new, or it holds a row for each default and a screenshot, with *)
(* integer ids or text ids, with the password column or without.               *)
Init ==
    /\ \/ live = [t \in TableSet |-> None]
       \/ \E type \in {"INTEGER", "TEXT"}, col \in BOOLEAN :
             live = [t \in TableSet |->
                       [type |-> type, col |-> col,
                        rows |-> {Row(k, "legacy", type, IF col THEN 1 ELSE 0) :
                                     k \in SeedKeys[t] \union
                                           (IF t = "users" THEN {"admin"} ELSE {}) \union
                                           (IF t = "screenshots" THEN {"s"} ELSE {})}]]
    /\ legacy = UNION {{<<t, r.key>> : r \in live[t].rows} : t \in TableSet}
    /\ old = [t \in TableSet |-> None]
    /\ uuidBak = {}
    /\ prd = FALSE /\ prdBak = "none" /\ applied = FALSE
    /\ app = [a \in Apps |-> Off]
    /\ starts = 0 /\ cut = FALSE

-----------------------------------------------------------------------------
At(a, pc) == app[a].pc = pc
Goes(a, pc) == app' = [app EXCEPT ![a].pc = pc]

(* Between its first rename and its commit the rebuild has rows in __old.      *)
Rebuilding(a) == \/ At(a, "rename") /\ app[a].k > 1
                 \/ app[a].pc \in {"recreate", "copy"}

(* The process is gone: an exception ends the start, or it dies. *)
Ends(a) ==
    /\ app' = [app EXCEPT ![a] = Off]
    /\ cut' = (cut \/ Rebuilding(a))
Fails(a) == Ends(a) /\ UNCHANGED <<live, old, uuidBak, prdVars, starts, legacy>>

Stop(a) == ~At(a, "off") /\ Fails(a)

Begin(a) ==
    /\ At(a, "off")
    /\ starts < MaxStarts
    /\ starts' = starts + 1
    /\ Goes(a, "schema")
    /\ UNCHANGED <<live, old, uuidBak, prdVars, cut, legacy>>

(* executescript(SCHEMA): CREATE TABLE IF NOT EXISTS. *)
Created == [t \in TableSet |-> IF Exists(live[t]) THEN live[t] ELSE Fresh]

Schema(a) ==
    /\ At(a, "schema")
    /\ live' = Created
    /\ Goes(a, "check")
    /\ UNCHANGED <<old, uuidBak, prdVars, starts, cut, legacy>>

-----------------------------------------------------------------------------
(* _migrate_ids_to_uuid                                                       *)

Check(a) ==
    /\ At(a, "check")
    /\ Goes(a, IF \E t \in TableSet : live[t].type = "INTEGER" THEN "backup" ELSE "columns")
    /\ UNCHANGED <<live, old, uuidBak, prdVars, starts, cut, legacy>>

(* What tables hold of the rows the file held at first. *)
KeysOf(table) == {r.key : r \in {q \in table.rows : q.from = "legacy"}}
Holding(tables) == UNION {{<<t, key>> : key \in KeysOf(tables[t])} : t \in TableSet}
Kept == Holding(live) \union Holding(old)

(* The copy of the file replaces an earlier one; a copy that fails is let go. *)
Backup(a) ==
    /\ At(a, "backup")
    /\ uuidBak' \in {uuidBak, Kept}
    /\ Goes(a, "maps")
    /\ UNCHANGED <<live, old, prdVars, starts, cut, legacy>>

(* The new id of every row there is; a table that is missing raises. *)
Maps(a) ==
    /\ At(a, "maps")
    /\ IF \A t \in TableSet : Exists(live[t])
       THEN /\ app' = [app EXCEPT ![a].pc = "rename", ![a].k = 1,
                                  ![a].maps = [t \in TableSet |-> live[t].rows]]
            /\ UNCHANGED <<live, old, uuidBak, prdVars, starts, cut, legacy>>
       ELSE Fails(a)

(* The rename made when t__old is there, which it replaces. *)
RenameM(a) ==
    LET t == Tables[app[a].k]
    IN /\ At(a, "rename")
       /\ IF Exists(live[t])
          THEN /\ old' = [old EXCEPT ![t] = live[t]]
               /\ live' = [live EXCEPT ![t] = None]
               /\ IF app[a].k = Len(Tables) THEN Goes(a, "recreate")
                                            ELSE app' = [app EXCEPT ![a].k = @ + 1]
               /\ UNCHANGED <<uuidBak, prdVars, starts, cut, legacy>>
          ELSE Fails(a)
(* ALTER TABLE t RENAME TO t__old, of one table after the other. *)
Rename(a) ==
    LET t == Tables[app[a].k]
    IN /\ At(a, "rename")
       /\ IF Exists(live[t]) /\ ~Exists(old[t])
          THEN /\ old' = [old EXCEPT ![t] = live[t]]
               /\ live' = [live EXCEPT ![t] = None]
               /\ IF app[a].k = Len(Tables) THEN Goes(a, "recreate")
                                            ELSE app' = [app EXCEPT ![a].k = @ + 1]
               /\ UNCHANGED <<uuidBak, prdVars, starts, cut, legacy>>
          ELSE Fails(a)

Recreate(a) ==
    /\ At(a, "recreate")
    /\ live' = Created
    /\ Goes(a, "copy")
    /\ UNCHANGED <<old, uuidBak, prdVars, starts, cut, legacy>>

(* The ids as they were in the table set aside. *)
CopiedM(t) == [live[t] EXCEPT !.rows = @ \union old[t].rows]
(* Every row with its new id. *)
Copied(t) ==
    [live[t] EXCEPT !.rows = @ \union {Row(r.key, r.from, "TEXT", r.flag) : r \in old[t].rows}]

(* An exception of the copy logged and passed over. *)
CopyM(a) ==
    /\ At(a, "copy")
    /\ IF /\ \A t \in TableSet : Exists(live[t]) /\ Exists(old[t])
          /\ \A t \in TableSet : old[t].rows \subseteq app[a].maps[t]
          /\ \A t \in TableSet : \A r \in live[t].rows : \A q \in old[t].rows : r.key # q.key
       THEN /\ live' = [t \in TableSet |-> Copied(t)]
            /\ old' = [t \in TableSet |-> None]
       ELSE UNCHANGED <<live, old>>
    /\ Goes(a, "columns")
    /\ UNCHANGED <<uuidBak, prdVars, starts, cut, legacy>>
(* One transaction inserts the rows and drops t__old.  It raises when a table *)
(* is missing, when a row has no new id (a KeyError), and when a key that is   *)
(* UNIQUE was inserted by another process.                                     *)
Copy(a) ==
    /\ At(a, "copy")
    /\ IF /\ \A t \in TableSet : Exists(live[t]) /\ Exists(old[t])
          /\ \A t \in TableSet : old[t].rows \subseteq app[a].maps[t]
          /\ \A t \in TableSet : \A r \in live[t].rows : \A q \in old[t].rows : r.key # q.key
       THEN /\ live' = [t \in TableSet |-> Copied(t)]
            /\ old' = [t \in TableSet |-> None]
            /\ Goes(a, "columns")
            /\ UNCHANGED <<uuidBak, prdVars, starts, cut, legacy>>
       ELSE Fails(a)

-----------------------------------------------------------------------------
(* _migrate: the password column                                              *)

Columns(a) ==
    /\ At(a, "columns")
    /\ Goes(a, IF live["users"].col THEN "look" ELSE "alter")
    /\ UNCHANGED <<live, old, uuidBak, prdVars, starts, cut, legacy>>

(* ALTER TABLE commits at once; it raises when the column is there or the      *)
(* table is not.                                                                *)
Alter(a) ==
    /\ At(a, "alter")
    /\ IF Exists(live["users"]) /\ ~live["users"].col
       THEN /\ live' = [live EXCEPT !["users"].col = TRUE]
            /\ Goes(a, "flag")
            /\ UNCHANGED <<old, uuidBak, prdVars, starts, cut, legacy>>
       ELSE Fails(a)

Flag(a) ==
    /\ At(a, "flag")
    /\ IF Exists(live["users"])
       THEN /\ live' = [live EXCEPT !["users"].rows =
                           {IF r.key = "admin" THEN Row(r.key, r.from, r.id, 1) ELSE r : r \in @}]
            /\ Goes(a, "look")
            /\ UNCHANGED <<old, uuidBak, prdVars, starts, cut, legacy>>
       ELSE Fails(a)

-----------------------------------------------------------------------------
(* apply_migrations, of the one file there is                                 *)

Look(a) ==
    /\ At(a, "look")
    /\ app' = [app EXCEPT ![a] = [@ EXCEPT !.pc = "save", !.first = ~applied,
                                           !.copy = ~applied /\ prdBak = "none"]]
    /\ UNCHANGED <<live, old, uuidBak, prdVars, starts, cut, legacy>>

(* A copy that fails is let go. *)
Save(a) ==
    /\ At(a, "save")
    /\ prdBak' \in {prdBak} \union
                   (IF app[a].copy THEN {IF prd THEN "post" ELSE "pre"} ELSE {})
    /\ Goes(a, "script")
    /\ UNCHANGED <<live, old, uuidBak, prd, applied, starts, cut, legacy>>

Script(a) ==
    /\ At(a, "script")
    /\ prd' = TRUE
    /\ Goes(a, "record")
    /\ UNCHANGED <<live, old, uuidBak, prdBak, applied, starts, cut, legacy>>

Record(a) ==
    /\ At(a, "record")
    /\ applied' = (applied \/ app[a].first)
    /\ Goes(a, "seed")
    /\ UNCHANGED <<live, old, uuidBak, prd, prdBak, starts, cut, legacy>>

-----------------------------------------------------------------------------
(* _seed_rbac, in one transaction, and seed_first_run                         *)

Missing(t) == SeedKeys[t] \ {r.key : r \in live[t].rows}
Default(t) ==
    {Row(k, "seed", "TEXT", 0) : k \in Missing(t)} \union
    (IF t = "users" /\ live[t].rows = {} THEN {Row("admin", "seed", "TEXT", 1)} ELSE {})

Seed(a) ==
    /\ At(a, "seed")
    /\ IF \A t \in TableSet : Exists(live[t])
       THEN /\ live' = [t \in TableSet |-> [live[t] EXCEPT !.rows = @ \union Default(t)]]
            /\ Goes(a, IF a \in Desktops THEN "demo" ELSE "up")
            /\ UNCHANGED <<old, uuidBak, prdVars, starts, cut, legacy>>
       ELSE Fails(a)

Shots == live["screenshots"].rows

(* The demo executions, only when there is no execution at all; an error is   *)
(* ignored.                                                                    *)
Demos(a) ==
    /\ At(a, "demo")
    /\ IF Exists(live["screenshots"]) /\ Shots = {}
       THEN app' = [app EXCEPT ![a].pc = "demos", ![a].k = 1]
       ELSE Goes(a, "up")
    /\ UNCHANGED <<live, old, uuidBak, prdVars, starts, cut, legacy>>

(* An id that is new: another desktop's demo executions are others. *)
Unused == DemoIds \ {r.key : r \in Shots \union old["screenshots"].rows}

AddDemo(a) ==
    /\ At(a, "demos")
    /\ IF Exists(live["screenshots"])
       THEN /\ \E id \in Unused :
                  live' = [live EXCEPT !["screenshots"].rows =
                              @ \union {Row(id, "demo", "TEXT", 0)}]
            /\ IF app[a].k = Demonstrations THEN Goes(a, "up")
                                      ELSE app' = [app EXCEPT ![a].k = @ + 1]
       ELSE Goes(a, "up") /\ UNCHANGED live
    /\ UNCHANGED <<old, uuidBak, prdVars, starts, cut, legacy>>

-----------------------------------------------------------------------------
Next == \E a \in Apps :
    \/ Begin(a) \/ Stop(a) \/ Schema(a)
    \/ Check(a) \/ Backup(a) \/ Maps(a) \/ Rename(a) \/ Recreate(a) \/ Copy(a)
    \/ Columns(a) \/ Alter(a) \/ Flag(a)
    \/ Look(a) \/ Save(a) \/ Script(a) \/ Record(a)
    \/ Seed(a) \/ Demos(a) \/ AddDemo(a)

Spec == Init /\ [][Next]_vars

-----------------------------------------------------------------------------
(* Properties                                                                 *)

Keys == (UNION {SeedKeys[t] : t \in TableSet}) \union {"admin", "s"}
           \union DemoIds
RowSet == [key : Keys, from : {"legacy", "seed", "demo"}, id : {"INTEGER", "TEXT"}, flag : {0, 1}]
TableType == [type : {"none", "INTEGER", "TEXT"}, col : BOOLEAN, rows : SUBSET RowSet]

Steps == {"off", "schema", "check", "backup", "maps", "rename", "recreate", "copy", "columns",
          "alter", "flag", "look", "save", "script", "record", "seed", "demo", "demos", "up"}
StartType == [pc : Steps, k : Nat \ {0}, maps : [TableSet -> SUBSET RowSet],
              first : BOOLEAN, copy : BOOLEAN]

TableTypes == live \in [TableSet -> TableType] /\ old \in [TableSet -> TableType]
StartTypes ==
    /\ app \in [Apps -> StartType]
    /\ \A a \in Apps : /\ At(a, "rename") => app[a].k <= Len(Tables)
                       /\ At(a, "demos") => app[a].k <= Demonstrations
OtherTypes ==
    /\ prd \in BOOLEAN /\ prdBak \in {"none", "pre", "post"} /\ applied \in BOOLEAN
    /\ starts \in 0 .. MaxStarts /\ cut \in BOOLEAN
(* The tables, the starts in progress and the files keep their types. *)
TypeOK == TableTypes /\ StartTypes /\ OtherTypes

(* The ids of the rows are those of the table. *)
Fit(tables) == \A t \in TableSet : \A r \in tables[t].rows : r.id = tables[t].type

(* A table's rows have ids of its type, in place and set aside: no default and *)
(* no demo row, whose ids are uuids, goes into a table of integer ids, and the *)
(* rebuild leaves no integer id behind.  (database.py: _migrate_ids_to_uuid)   *)
IdsFit == Fit(live) /\ Fit(old)

(* Whatever starts overlap, fail or die in the middle of the rebuild, every   *)
(* row of the legacy file is in its table or in the table set aside, and in   *)
(* the backup if there is one.  (database.py: _migrate_ids_to_uuid)            *)
RowsKept == legacy \subseteq Kept /\ (uuidBak = {} \/ legacy \subseteq uuidBak)

(* A process that is up finds every legacy row in its table, and no default   *)
(* administrator in place of the legacy one, unless another start is in the    *)
(* middle of the rebuild or one was cut off there.  (init_schema, _seed_rbac)  *)
InPlace == legacy \subseteq Holding(live)
StrandedHasCause ==
    (\E a \in Apps : At(a, "up")) /\ ~InPlace => cut \/ \E b \in Apps : Rebuilding(b)

(* Once a process is up, the built-in administrator of a file that had no     *)
(* password column must change the password at the next sign-in.               *)
(* (database.py:373, the comment in _migrate)                                  *)
AdminForced ==
    (\E a \in Apps : At(a, "up")) =>
        \A r \in live["users"].rows : r.key = "admin" => r.flag = 1
=============================================================================
