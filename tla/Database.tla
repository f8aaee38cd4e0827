------------------------------- MODULE Database -------------------------------
(***************************************************************************)
(* The SQLite database: insert, the retention delete at startup and the    *)
(* queries of the dashboard, with a process that may die between any two   *)
(* statements and is started again.                                        *)
(*                                                                         *)
(* The connection is behind a mutex held for a whole operation, so what    *)
(* others see is "db" whenever they may look.  insert is a transaction of  *)
(* two statements on a working copy; SQLite makes the commit atomic and    *)
(* forgets the copy when the transaction is dropped or the process dies.   *)
(***************************************************************************)
EXTENDS Integers, FiniteSets

CONSTANTS
    Labels,         \* process_label
    Categories,     \* category
    Sizes,          \* delta_bytes
    DayLength,      \* seconds in a day
    Retention,      \* retention_days
    MaxClock,       \* bound: time stops here
    MaxRows         \* bound: ids given

ASSUME DatabaseAssumption ==
    /\ Sizes \subseteq Nat
    /\ DayLength \in Nat \ {0}
    /\ Retention \in Nat
    /\ MaxClock \in Nat
    /\ MaxRows \in Nat

VARIABLES
    db,         \* what is committed: change_log, daily_summary and the id sequence
    work,       \* the same, as the open transaction sees it
    stage,      \* how far insert has come
    inserting,  \* its record: a set of at most one
    process,
    started,    \* the time at which the process came up
    clock,      \* seconds
    pruned      \* history: the latest retention limit applied

dbVars == <<db, work, stage, inserting, process, started, clock, pruned>>

Day(t) == t \div DayLength

OldestLimit == -(Retention * DayLength)

DbRow  == [id : Nat \ {0}, at : Nat, label : Labels, category : Categories, bytes : Sizes]
Record == [at : Nat, label : Labels, category : Categories, bytes : Sizes]
Line   == [total : Nat, count : Nat \ {0}]

IsDatabase(d) ==
    /\ d = [log |-> d.log, summary |-> d.summary, lastId |-> d.lastId]
    /\ d.log \subseteq DbRow
    /\ DOMAIN d.summary \subseteq Nat \X Labels \X Categories
    /\ d.summary \in [DOMAIN d.summary -> Line]
    /\ d.lastId \in Nat

\* Rows are finitely many, and neither they nor the lines are of times to come.
Dated ==
    /\ IsFiniteSet(db.log)
    /\ \A r \in db.log : r.at <= clock
    /\ \A k \in DOMAIN db.summary : k[1] <= Day(clock)

DbTypeOK ==
    /\ IsDatabase(db)
    /\ Dated
    /\ IsDatabase(work)
    /\ stage \in {"idle", "begun", "logged", "summed"}
    /\ inserting \subseteq Record
    /\ process \in {"down", "opened", "up"}
    /\ started \in 0 .. clock
    /\ clock \in 0 .. MaxClock
    /\ pruned \in OldestLimit .. MaxClock

EmptyDatabase == [log |-> {}, summary |-> [k \in {} |-> k], lastId |-> 0]

DbInit ==
    /\ db = EmptyDatabase
    /\ work = EmptyDatabase
    /\ stage = "idle"
    /\ inserting = {}
    /\ process = "down"
    /\ started = 0
    /\ clock = 0
    /\ pruned = OldestLimit

-----------------------------------------------------------------------------
(* insert.                                                                 *)

\* The row of a record.
RowWith(id, r) ==
    [id |-> id, at |-> r.at, label |-> r.label, category |-> r.category, bytes |-> r.bytes]

\* The line it belongs to: PRIMARY KEY (date_str, process_label, category).
KeyOf(r) == <<Day(r.at), r.label, r.category>>

\* Mutant: ids count the rows there are.
WithRowCounted(d, r) ==
    LET id == Cardinality(d.log) + 1
    IN  [log |-> d.log \cup {RowWith(id, r)},
         summary |-> d.summary,
         lastId |-> id]

\* Mutant: without AUTOINCREMENT, the id after the greatest there is.
WithRowNextId(d, r) ==
    LET id == CHOOSE n \in 1 .. MaxRows + 1 :
                  /\ \A s \in d.log : s.id < n
                  /\ n = 1 \/ \E s \in d.log : s.id = n - 1
    IN  [log |-> d.log \cup {RowWith(id, r)},
         summary |-> d.summary,
         lastId |-> id]

\* INSERT INTO change_log; AUTOINCREMENT gives an id above all given before.
WithRow(d, r) ==
    LET id == d.lastId + 1
    IN  [log |-> d.log \cup {RowWith(id, r)},
         summary |-> d.summary,
         lastId |-> id]

\* Mutant: the event is not counted.
WithLineUncounted(d, r) ==
    LET k == KeyOf(r)
        line == IF k \in DOMAIN d.summary THEN d.summary[k] ELSE [total |-> 0, count |-> 0]
        new == [line EXCEPT !.total = @ + r.bytes]
    IN  [d EXCEPT !.summary = [x \in DOMAIN @ \cup {k} |-> IF x = k THEN new ELSE @[x]]]

\* INSERT INTO daily_summary ... ON CONFLICT DO UPDATE.
WithLine(d, r) ==
    LET k == KeyOf(r)
        line == IF k \in DOMAIN d.summary THEN d.summary[k] ELSE [total |-> 0, count |-> 0]
        new == [total |-> line.total + r.bytes, count |-> line.count + 1]
    IN  [log |-> d.log,
         summary |-> [x \in DOMAIN d.summary \cup {k} |->
                         IF x = k THEN new ELSE d.summary[x]],
         lastId |-> d.lastId]

\* db_writer_task calls insert: the connection is locked, a transaction begins.
Begin(r) ==
    /\ process = "up"
    /\ stage = "idle"
    /\ db.lastId < MaxRows
    /\ stage' = "begun"
    /\ inserting' = {r}
    /\ UNCHANGED <<db, work, process, started, clock, pruned>>

\* Mutant: the row is inserted outside the transaction.
InsertRowAtOnce(r) ==
    /\ stage = "begun"
    /\ r \in inserting
    /\ work' = WithRow(work, r)
    /\ db' = work'
    /\ stage' = "logged"
    /\ UNCHANGED <<inserting, process, started, clock, pruned>>

InsertRow(r) ==
    /\ stage = "begun"
    /\ r \in inserting
    /\ work' = WithRow(work, r)
    /\ stage' = "logged"
    /\ UNCHANGED <<db, inserting, process, started, clock, pruned>>

UpsertLine(r) ==
    /\ stage = "logged"
    /\ r \in inserting
    /\ work' = WithLine(work, r)
    /\ stage' = "summed"
    /\ UNCHANGED <<db, inserting, process, started, clock, pruned>>

Commit ==
    /\ stage = "summed"
    /\ db' = work
    /\ stage' = "idle"
    /\ inserting' = {}
    /\ UNCHANGED <<work, process, started, clock, pruned>>

\* Mutant: the statements executed so far are kept.
RollbackForgotten ==
    /\ stage # "idle"
    /\ stage' = "idle"
    /\ inserting' = {}
    /\ UNCHANGED <<db, work, process, started, clock, pruned>>

\* A statement or the commit fails: the transaction is dropped, which rolls back.
Rollback ==
    /\ stage # "idle"
    /\ stage' = "idle"
    /\ inserting' = {}
    /\ work' = db
    /\ UNCHANGED <<db, process, started, clock, pruned>>

-----------------------------------------------------------------------------
(* The process.                                                            *)

\* Database::open: the schema is created unless it exists.
Open ==
    /\ process = "down"
    /\ process' = "opened"
    /\ started' = clock
    /\ UNCHANGED <<db, work, stage, inserting, clock, pruned>>

Limit == clock - Retention * DayLength

\* Mutant: today counts as one of the days to keep.
PrunedShort(d) ==
    [log |-> {r \in d.log : ~(r.at < Limit + DayLength)},
     summary |-> d.summary, lastId |-> d.lastId]

Pruned(d) ==
    [log |-> {r \in d.log : ~(r.at < Limit)}, summary |-> d.summary, lastId |-> d.lastId]

\* delete_older_than, before any task is spawned.
DeleteOlder ==
    /\ process = "opened"
    /\ process' = "up"
    /\ db' = Pruned(db)
    /\ work' = db'
    /\ pruned' = IF Limit > pruned THEN Limit ELSE pruned
    /\ UNCHANGED <<stage, inserting, started, clock>>

\* The process ends or is killed, in whatever it was doing; an error at startup ends it too.
Exit ==
    /\ process # "down"
    /\ process' = "down"
    /\ stage' = "idle"
    /\ inserting' = {}
    /\ work' = db
    /\ UNCHANGED <<db, started, clock, pruned>>

Second ==
    /\ clock < MaxClock
    /\ clock' = clock + 1
    /\ UNCHANGED <<db, work, stage, inserting, process, started, pruned>>

\* A record is stamped while the process runs, some time before its insert.
NewRecords ==
    [at : started .. clock, label : Labels, category : Categories, bytes : Sizes]

DbNext ==
    \/ \E r \in NewRecords : Begin(r)
    \/ \E r \in inserting : InsertRow(r)
    \/ \E r \in inserting : UpsertLine(r)
    \/ Commit
    \/ Rollback
    \/ Open
    \/ DeleteOlder
    \/ Exit
    \/ Second

DbSpec == DbInit /\ [][DbNext]_dbVars

-----------------------------------------------------------------------------
\* What the queries for some days look at: changed_at > strftime('%s', 'now', '-N days')
Window(rows, days) == {r \in rows : r.at > clock - days * DayLength}

-----------------------------------------------------------------------------
(* Properties.                                                             *)

Promise == INSTANCE Store WITH
    rows <- db.log, totals <- db.summary, lastId <- db.lastId,
    Times <- 0 .. MaxClock, Limits <- OldestLimit .. MaxClock

\* Whatever statement fails and wherever the process dies, change_log and
\* daily_summary change together, no committed row is lost other than by pruning,
\* and ids go up across restarts and prunings.
ImplementsStore == Promise!Spec

\* Pruning takes nothing from a query over retention_days or fewer.
WindowsKept ==
    [][DeleteOlder =>
          \A days \in 1 .. Retention : Window(db'.log, days) = Window(db.log, days)]_dbVars

\* How far the transaction has come: its copy is what is committed, and then the
\* record's row, and then its line (the inductive invariant behind ImplementsStore).
TransactionInv ==
    /\ stage = "idle" => inserting = {}
    /\ stage # "idle" => process = "up"
    /\ stage \in {"idle", "begun"} => work = db
    /\ stage # "idle" => \E r \in NewRecords : inserting = {r}
    /\ \A r \in inserting :
          /\ stage = "logged" => work = WithRow(db, r)
          /\ stage = "summed" => work = WithLine(WithRow(db, r), r)

\* Ids are unique and the sequence is ahead of them all.
IdsUnique ==
    /\ \A r \in db.log : r.id <= db.lastId
    /\ \A r, s \in db.log : r.id = s.id => r = s
=============================================================================
