------------------------------- MODULE Recorder -------------------------------
(***************************************************************************)
(* The pipeline of Debouncer with the Database as its sink, over several   *)
(* lives of the process: db_writer_task's insert is a transaction, and a   *)
(* process that dies loses its channels and the map, but nothing committed.*)
(* "log" lists the records inserted in this life.                          *)
(***************************************************************************)
EXTENDS Debouncer

CONSTANTS
    Labels, LabelOf,            \* label_for, of a name
    Categories, CategoryOf,     \* detect_category, of a path and a name
    DayLength, Retention, MaxRows

VARIABLES db, work, stage, inserting, process, started, pruned

Db == INSTANCE Database WITH Sizes <- 0 .. MaxBytes

ASSUME RecorderAssumption ==
    /\ LabelOf \in [Names -> Labels]
    /\ CategoryOf \in [Files \X Names -> Categories]
    /\ DayLength \in Nat \ {0}
    /\ Retention \in Nat
    /\ MaxRows \in Nat

dbState == <<db, work, stage, inserting, process, started, pruned>>
recorderVars == <<vars, dbState>>

RecorderInit == Init /\ Db!DbInit

\* Mutant: a row is labelled with the name as it is.
RecordOfUnlabelled(r) ==
    [at |-> r.at, label |-> r.name, category |-> CategoryOf[<<r.file, r.name>>],
     bytes |-> r.bytes]

RecordOf(r) ==
    [at |-> r.at, label |-> LabelOf[r.name], category |-> CategoryOf[<<r.file, r.name>>],
     bytes |-> r.bytes]

\* main opens the database and prunes it before it spawns the tasks.
Opens == Db!Open /\ UNCHANGED vars

Prunes == Db!DeleteOlder /\ UNCHANGED vars

\* The steps of the tasks and of what is around them, but for the insert.
PipelineStep ==
    /\ process = "up"
    /\ \/ \E e \in Event : TrySend(e) \/ TrySendFails(e)
       \/ \E s \in Senders : DropSender(s)
       \/ SignalShutdown
       \/ \E resolved \in [DOMAIN pending -> Names] : ShutdownSeen(resolved) \/ Tick(resolved)
       \/ \E name \in Names : RecvEvent(name)
       \/ RecvClosed
       \/ \E r \in outbox : SendRecord(r)
       \/ TickDone
       \/ FlushDone
       \/ WriterRecv
       \/ WriterStops
    /\ UNCHANGED dbState

\* insert: the transaction, its two statements and its commit.
InsertBegins(r) == r \in writing /\ Db!Begin(RecordOf(r)) /\ UNCHANGED vars

Statement(r) ==
    /\ r \in writing
    /\ Db!InsertRow(RecordOf(r)) \/ Db!UpsertLine(RecordOf(r))
    /\ UNCHANGED vars

Commits(r) == WriterInsert(r) /\ Db!Commit

\* Mutant: the transaction is left open.
InsertAbandoned(r) ==
    /\ WriterFails(r)
    /\ process = "up"
    /\ UNCHANGED dbState

\* Any of these fails, the first one included.
InsertFails(r) ==
    /\ WriterFails(r)
    /\ process = "up"
    /\ IF stage = "idle" THEN UNCHANGED dbState ELSE Db!Rollback

\* The process ends, anywhere: what was in memory is gone.
Ends ==
    /\ Db!Exit
    /\ raw' = <<>> /\ senders' = Senders /\ pending' = NoPending /\ outbox' = {}
    /\ records' = <<>> /\ writing' = {} /\ log' = <<>>
    /\ task' = "select" /\ tickDue' = TRUE /\ shutdown' = FALSE /\ writer' = "running"
    /\ sinceRow' = [f \in Files |-> Debounce]
    /\ accepted' = [f \in Files |-> 0]
    /\ UNCHANGED <<clock, events>>

TimePasses == process = "up" /\ Elapse /\ UNCHANGED dbState

TimePassesWithout ==
    /\ process # "up"
    /\ Db!Second
    /\ UNCHANGED <<raw, senders, pending, outbox, records, shutdown, events, sink, history, loop>>

RecorderNext ==
    \/ Opens
    \/ Prunes
    \/ PipelineStep
    \/ \E r \in writing : InsertBegins(r)
    \/ \E r \in writing : Statement(r)
    \/ \E r \in writing : Commits(r)
    \/ \E r \in writing : InsertFails(r)
    \/ Ends
    \/ TimePasses
    \/ TimePassesWithout

RecorderSpec == RecorderInit /\ [][RecorderNext]_recorderVars

-----------------------------------------------------------------------------
(* Properties.                                                             *)

\* The writer uses the database as Database says it is used, over all its lives:
\* one transaction at a time, of records stamped in this life, ended before the next.
ImplementsDatabase == Db!DbSpec

\* Ids and times agree, across restarts: ordering by changed_at and then by id, as
\* get_recent_changes does, shows the rows in the order of their ids.
IdsInTimeOrder == \A r, s \in db.log : r.id < s.id => r.at <= s.at

\* The rows of this life are in the database, under consecutive ids, as long as the
\* process lives: what the pipeline counts as inserted is, and nothing else is.
InsertedAreCommitted ==
    \A k \in DOMAIN log : Db!RowWith(db.lastId - Len(log) + k, RecordOf(log[k])) \in db.log

-----------------------------------------------------------------------------
(* The inductive invariant (RecorderProofs).                               *)

InTransit == outbox \cup writing \cup {records[k] : k \in DOMAIN records}

\* Nothing is under way before the tasks are spawned.
QuietStart == process # "up" => InTransit = {} /\ log = <<>> /\ stage = "idle"

\* What is under way was stamped in this life, and after every row there is.
StampedInLife ==
    /\ \A r \in InTransit : started <= r.at
    /\ \A s \in db.log : s.at <= clock /\ \A r \in InTransit : s.at <= r.at

\* The writer has one record in hand, and the transaction is that record's.
InHand ==
    /\ \A v, w \in writing : v = w
    /\ \A r \in inserting : \E w \in writing : r = RecordOf(w)

\* What must hold between the channels, the transaction and the rows for the
\* properties above to survive a death at any point.
RecorderInv == QuietStart /\ StampedInLife /\ InHand
=============================================================================
