------------------------------ MODULE Debouncer ------------------------------
(***************************************************************************)
(* The pipeline from the kernel's file events to rows of change_log:       *)
(*                                                                         *)
(*   ETW callback --raw channel--> run_debouncer --record channel-->       *)
(*                                          db_writer_task --> change_log  *)
(*                                                                         *)
(* The debouncer task is one loop over tokio::select! with three branches  *)
(* (shutdown, raw event, 500 ms tick).  Only that task touches the map of  *)
(* pending aggregations, so what a branch does between two awaits is one   *)
(* step here.  The only awaits inside a branch are the sends on the        *)
(* bounded record channel; a drained batch waits in "outbox" until each    *)
(* of its records is sent.                                                 *)
(*                                                                         *)
(* Time is relative: an aggregation carries the number of ticks it has     *)
(* been quiet, cut off at Debounce, which is all that is ever compared.    *)
(* Rows carry the wall clock, in the seconds SQLite stores.                *)
(***************************************************************************)
EXTENDS Naturals, Sequences, FiniteSets

CONSTANTS
    Files,            \* paths, after nt_to_dos and the C:\ filter of the callback
    Pids,             \* process ids (never 0: the callback drops that one)
    Names,            \* process basenames a pid may resolve to
    ExcludedFiles,    \* paths should_exclude_path answers TRUE for
    ExcludedNames,    \* names should_exclude_process answers TRUE for
    ByteSizes,        \* bytes an event may carry: 0 for close, setinfo, delete
    Threshold,        \* min_delta_bytes
    Debounce,         \* debounce_seconds, in ticks
    MaxBytes,         \* i64::MAX, where saturating_add stops
    RawCapacity,      \* 4096 in main.rs
    RecordCapacity,   \* 256 in main.rs
    Senders,          \* owners of a clone of raw_tx: the ETW callback and main
    Etw,              \* the one that sends
    MaxEvents,        \* bound: kernel events with bytes in a behaviour (others come for ever)
    MaxClock          \* bound: the wall clock stops being advanced here

ASSUME ExclusionAssumption ==
    /\ ExcludedFiles \subseteq Files
    /\ ExcludedNames \subseteq Names

ASSUME SizeAssumption ==
    /\ ByteSizes \subseteq Nat
    /\ Threshold \in Nat
    /\ Debounce \in Nat
    /\ MaxBytes \in Nat

ASSUME CapacityAssumption ==
    /\ RawCapacity \in Nat \ {0}
    /\ RecordCapacity \in Nat \ {0}

ASSUME SenderAssumption == Etw \in Senders

ASSUME BoundAssumption == MaxEvents \in Nat /\ MaxClock \in Nat

VARIABLES
    raw,        \* the raw channel
    senders,    \* the clones of raw_tx not yet dropped
    pending,    \* the DashMap: a function on the files being aggregated
    outbox,     \* records drained from pending and not yet sent
    records,    \* the record channel
    writing,    \* the record the writer has taken and not yet inserted
    log,        \* change_log, in the order of its ids
    task,       \* where run_debouncer is
    tickDue,    \* tick.tick() is ready
    shutdown,   \* the value of the shutdown watch
    writer,     \* where db_writer_task is
    clock,      \* Utc::now(), in seconds
    events,     \* kernel events with bytes so far (for the bound MaxEvents)
    sinceRow,   \* history: ticks since the last tick that drained a row of the file
    accepted    \* history: bytes the map has taken in, per file

vars == <<raw, senders, pending, outbox, records, writing, log, task, tickDue,
          shutdown, writer, clock, events, sinceRow, accepted>>

outside == <<senders, shutdown, clock, events>>
sink    == <<writing, log, writer>>
loop    == <<task, tickDue>>
history == <<sinceRow, accepted>>

Event == [pid : Pids, file : Files, bytes : ByteSizes]
Entry == [bytes : 0 .. MaxBytes, pid : Pids, quiet : 0 .. Debounce]
Row   == [file : Files, name : Names, bytes : 0 .. MaxBytes, at : Nat]

NoPending == [f \in {} |-> f]
TaskEnded == task \in {"flushed", "closed"}

TypeOK ==
    /\ raw \in Seq(Event)
    /\ senders \subseteq Senders
    /\ DOMAIN pending \subseteq Files
    /\ pending \in [DOMAIN pending -> Entry]
    /\ outbox \subseteq Row
    /\ records \in Seq(Row)
    /\ writing \subseteq Row
    /\ log \in Seq(Row)
    /\ task \in {"select", "ticking", "final", "flushed", "closed"}
    /\ tickDue \in BOOLEAN
    /\ shutdown \in BOOLEAN
    /\ writer \in {"running", "stopped"}
    /\ clock \in Nat
    /\ events \in Nat
    /\ sinceRow \in [Files -> 0 .. Debounce]
    /\ accepted \in [Files -> Nat]

Init ==
    /\ raw = <<>>
    /\ senders = Senders
    /\ pending = NoPending
    /\ outbox = {}
    /\ records = <<>>
    /\ writing = {}
    /\ log = <<>>
    /\ task = "select"
    /\ tickDue = TRUE              \* the first tick of an interval is immediate
    /\ shutdown = FALSE
    /\ writer = "running"
    /\ clock = 0
    /\ events = 0
    /\ sinceRow = [f \in Files |-> Debounce]
    /\ accepted = [f \in Files |-> 0]

-----------------------------------------------------------------------------
(* The ETW callback: a non-blocking send, which loses the event when the   *)
(* channel is full or its receiver is gone.                                *)

CanSend == ~TaskEnded /\ Len(raw) < RawCapacity

\* Bound: MaxEvents events carry bytes; those without keep coming.
Bounded(e) ==
    /\ e.bytes > 0 => events < MaxEvents
    /\ events' = IF e.bytes > 0 THEN events + 1 ELSE events

TrySend(e) ==
    /\ Etw \in senders
    /\ Bounded(e)
    /\ CanSend
    /\ raw' = Append(raw, e)
    /\ UNCHANGED <<senders, pending, outbox, records, shutdown, clock, sink,
                   history, loop>>

TrySendFails(e) ==
    /\ Etw \in senders
    /\ Bounded(e)
    /\ ~CanSend
    /\ UNCHANGED <<raw, senders, pending, outbox, records, shutdown, clock,
                   sink, history, loop>>

-----------------------------------------------------------------------------
(* The pending map.                                                        *)

\* Mutant: a plain addition.
SaturateNot(n) == n

Saturate(n) == IF n > MaxBytes THEN MaxBytes ELSE n

BytesOf(f) == IF f \in DOMAIN pending THEN pending[f].bytes ELSE 0

\* feed: the last event decides the pid and restarts the quiet period, whatever its size.
Feed(e) ==
    [f \in DOMAIN pending \cup {e.file} |->
        IF f = e.file
        THEN [bytes |-> Saturate(BytesOf(f) + e.bytes), pid |-> e.pid, quiet |-> 0]
        ELSE pending[f]]

\* Mutant: the quiet period is not asked for.
QuietAll == DOMAIN pending

Quiet == {f \in DOMAIN pending : pending[f].quiet >= Debounce}

\* Mutant: drained files stay in the map.
WithoutNone(F) == pending

\* Mutant: only recorded files are removed.
WithoutRecorded(F) ==
    [f \in DOMAIN pending \ {g \in F : pending[g].bytes >= Threshold} |-> pending[f]]

Without(F) == [f \in DOMAIN pending \ F |-> pending[f]]

\* Mutant: the threshold is not applied.
RowsOfAny(F, resolved) ==
    {[file |-> f, name |-> resolved[f], bytes |-> pending[f].bytes, at |-> clock] : f \in F}

\* Mutant: a row is dated with the last event of its file.
RowsOfDatedBack(F, resolved) ==
    {[file |-> f, name |-> resolved[f], bytes |-> pending[f].bytes,
      at |-> IF pending[f].quiet > clock THEN 0 ELSE clock - pending[f].quiet] :
        f \in {g \in F : pending[g].bytes >= Threshold}}

\* The records of the files F; "resolved" is what cache.resolve answers for each file's pid.
RowsOf(F, resolved) ==
    {[file |-> f, name |-> resolved[f], bytes |-> pending[f].bytes, at |-> clock] :
        f \in {g \in F : pending[g].bytes >= Threshold}}

-----------------------------------------------------------------------------
(* run_debouncer.  "name" and "resolved" are the answers of the process    *)
(* cache, which Attribution supplies; here any name is possible.           *)

\* Mutant: the loop is left without draining the map.
ShutdownIgnoresMap(resolved) ==
    /\ task = "select"
    /\ shutdown
    /\ task' = "final"
    /\ UNCHANGED <<raw, pending, outbox, records, tickDue, outside, sink, history>>

\* The shutdown branch: drain_all, then send what it returned and leave the loop.
ShutdownSeen(resolved) ==
    /\ task = "select"
    /\ shutdown
    /\ outbox' = RowsOf(DOMAIN pending, resolved)
    /\ pending' = NoPending
    /\ task' = "final"
    /\ UNCHANGED <<raw, records, tickDue, outside, sink, history>>

\* Mutants: one of the two filters is missing.
FilteredByName(e, name) == name \in ExcludedNames
FilteredByPath(e, name) == e.file \in ExcludedFiles

Filtered(e, name) == name \in ExcludedNames \/ e.file \in ExcludedFiles

\* The event branch: the two filters, then feed.
RecvEvent(name) ==
    /\ task = "select"
    /\ raw # <<>>
    /\ raw' = Tail(raw)
    /\ IF Filtered(Head(raw), name)
       THEN UNCHANGED <<pending, accepted>>
       ELSE LET f == Head(raw).file
            IN  /\ pending' = Feed(Head(raw))
                /\ accepted' = [accepted EXCEPT ![f] = @ + (pending'[f].bytes - BytesOf(f))]
    /\ UNCHANGED <<outbox, records, sinceRow, outside, sink, loop>>

\* recv() answers None: the loop ends without a flush.
RecvClosed ==
    /\ task = "select"
    /\ raw = <<>>
    /\ senders = {}
    /\ task' = "closed"
    /\ UNCHANGED <<raw, pending, outbox, records, tickDue, outside, sink,
                   history>>

\* The tick branch: drain_ready takes every quiet file out of the map.
Tick(resolved) ==
    /\ task = "select"
    /\ tickDue
    /\ tickDue' = FALSE
    /\ outbox' = RowsOf(Quiet, resolved)
    /\ pending' = Without(Quiet)
    /\ task' = "ticking"
    /\ sinceRow' = [f \in Files |->
                       IF \E r \in outbox' : r.file = f THEN 0 ELSE sinceRow[f]]
    /\ UNCHANGED <<raw, records, accepted, outside, sink>>

\* output.send(r).await: waits while the record channel is full.  The map is
\* iterated in no particular order.
SendRecord(r) ==
    /\ task \in {"ticking", "final"}
    /\ r \in outbox
    /\ Len(records) < RecordCapacity
    /\ records' = Append(records, r)
    /\ outbox' = outbox \ {r}
    /\ UNCHANGED <<raw, pending, outside, sink, history, loop>>

TickDone ==
    /\ task = "ticking"
    /\ outbox = {}
    /\ task' = "select"
    /\ UNCHANGED <<raw, pending, outbox, records, tickDue, outside, sink,
                   history>>

\* Mutant: the break is missing.
FlushLoops ==
    /\ task = "final"
    /\ outbox = {}
    /\ task' = "select"
    /\ UNCHANGED <<raw, pending, outbox, records, tickDue, outside, sink, history>>

\* The task returns: its receiver of raw goes, with what is queued there.
FlushDone ==
    /\ task = "final"
    /\ outbox = {}
    /\ task' = "flushed"
    /\ raw' = <<>>
    /\ UNCHANGED <<pending, outbox, records, tickDue, outside, sink, history>>

-----------------------------------------------------------------------------
(* db_writer_task: recv frees a slot of the channel before the insert.     *)

WriterRecv ==
    /\ writer = "running"
    /\ writing = {}
    /\ records # <<>>
    /\ writing' = {Head(records)}
    /\ records' = Tail(records)
    /\ UNCHANGED <<raw, pending, outbox, log, writer, outside, history, loop>>

WriterInsert(r) ==
    /\ r \in writing
    /\ log' = Append(log, r)
    /\ writing' = {}
    /\ UNCHANGED <<raw, pending, outbox, records, writer, outside, history,
                   loop>>

\* insert returned an error: a warning is logged and the record is gone.
WriterFails(r) ==
    /\ r \in writing
    /\ writing' = {}
    /\ UNCHANGED <<raw, pending, outbox, records, log, writer, outside,
                   history, loop>>

\* Mutant: an empty channel is taken for a closed one.
WriterStopsWhenEmpty ==
    /\ writer = "running"
    /\ writing = {}
    /\ records = <<>>
    /\ writer' = "stopped"
    /\ UNCHANGED <<raw, pending, outbox, records, writing, log, outside,
                   history, loop>>

WriterStops ==
    /\ writer = "running"
    /\ writing = {}
    /\ records = <<>>
    /\ TaskEnded                  \* the only record_tx went with the task
    /\ writer' = "stopped"
    /\ UNCHANGED <<raw, pending, outbox, records, writing, log, outside,
                   history, loop>>

-----------------------------------------------------------------------------
(* What the rest of the program does to the pipeline (module Lifecycle     *)
(* says when), and time.                                                   *)

SignalShutdown ==
    /\ ~shutdown
    /\ shutdown' = TRUE
    /\ UNCHANGED <<raw, senders, pending, outbox, records, clock, events,
                   sink, history, loop>>

DropSender(s) ==
    /\ s \in senders
    /\ senders' = senders \ {s}
    /\ UNCHANGED <<raw, pending, outbox, records, shutdown, clock, events,
                   sink, history, loop>>

Older(n) == IF n < Debounce THEN n + 1 ELSE n

\* One tick period passes.  The interval skips missed ticks, so at most one is due.
Elapse ==
    /\ tickDue' = TRUE
    /\ pending' = [f \in DOMAIN pending |->
                      [pending[f] EXCEPT !.quiet = Older(@)]]
    /\ sinceRow' = [f \in Files |-> Older(sinceRow[f])]
    /\ \/ clock' = clock
       \/ clock < MaxClock /\ clock' = clock + 1
    /\ UNCHANGED <<raw, senders, outbox, records, task, shutdown, events,
                   accepted, sink>>

-----------------------------------------------------------------------------
Environment ==
    \/ \E e \in Event : TrySend(e) \/ TrySendFails(e)
    \/ \E s \in Senders : DropSender(s)
    \/ SignalShutdown
    \/ Elapse

Next ==
    \/ Environment
    \/ \E resolved \in [DOMAIN pending -> Names] : ShutdownSeen(resolved)
    \/ \E name \in Names : RecvEvent(name)
    \/ RecvClosed
    \/ \E resolved \in [DOMAIN pending -> Names] : Tick(resolved)
    \/ \E r \in outbox : SendRecord(r)
    \/ TickDone
    \/ FlushDone
    \/ WriterRecv
    \/ \E r \in writing : WriterInsert(r)
    \/ \E r \in writing : WriterFails(r)
    \/ WriterStops

Spec == Init /\ [][Next]_vars

-----------------------------------------------------------------------------
(* Properties.                                                             *)

InFlight == outbox \cup writing

\* change_log and what is on its way to it are in time order: a later id
\* never has an earlier changed_at, whatever the order in which tasks run and
\* the map is iterated (get_recent_changes sorts by changed_at and then id).
RowsInTimeOrder ==
    /\ \A i, j \in DOMAIN log : i < j => log[i].at <= log[j].at
    /\ \A i, j \in DOMAIN records : i < j => records[i].at <= records[j].at
    /\ \A i \in DOMAIN log, w \in writing : log[i].at <= w.at
    /\ \A i \in DOMAIN log, j \in DOMAIN records : log[i].at <= records[j].at
    /\ \A w \in writing, j \in DOMAIN records : w.at <= records[j].at
    /\ \A i \in DOMAIN log, r \in outbox : log[i].at <= r.at
    /\ \A w \in writing, r \in outbox : w.at <= r.at
    /\ \A j \in DOMAIN records, r \in outbox : records[j].at <= r.at

\* Everything on its way to change_log comes from a file the filters let
\* through and has at least min_delta_bytes, on the tick and the final flush alike.
RowsAdmissible ==
    LET Admissible(r) == r.file \notin ExcludedFiles /\ r.bytes >= Threshold
    IN  /\ \A r \in InFlight : Admissible(r)
        /\ \A j \in DOMAIN records : Admissible(records[j])
        /\ \A i \in DOMAIN log : Admissible(log[i])

\* A file under steady activity does not flood the log: two ticks that emit a
\* row of one file are at least debounce_seconds apart (the final flush is exempt).
RowsSpaced ==
    [][\A f \in Files :
          (task = "select" /\ task' = "ticking" /\ \E r \in outbox' : r.file = f)
              => sinceRow[f] >= Debounce]_vars

\* Once the writer has stopped after a flush, nothing drained or aggregated is
\* left anywhere in the pipeline: all of it was inserted or reported as failed.
FlushedOnShutdown ==
    (writer = "stopped" /\ task = "flushed") =>
        /\ DOMAIN pending = {}
        /\ outbox = {}
        /\ records = <<>>
        /\ writing = {}

\* The record channel is closed by the sender only: while the task has records
\* to send the writer is running, so the error branch of output.send is dead code.
SendsReachWriter == outbox # {} => writer = "running"

-----------------------------------------------------------------------------
(* The inductive invariant behind the safety properties (DebouncerProofs). *)

\* Where records may be, given where the two tasks are.
StageInv ==
    /\ outbox # {} => task \in {"ticking", "final"}
    /\ task \in {"final", "flushed"} => DOMAIN pending = {}
    /\ writer = "stopped" => TaskEnded /\ records = <<>> /\ writing = {}

\* No record is dated in the future, and a batch is stamped at one instant.
StampInv ==
    /\ \A r, s \in outbox : r.at = s.at
    /\ \A r \in InFlight : r.at <= clock
    /\ \A j \in DOMAIN records : records[j].at <= clock
    /\ \A i \in DOMAIN log : log[i].at <= clock

\* An aggregation was started after the file's last row was drained.
QuietInv == \A f \in DOMAIN pending : pending[f].quiet <= sinceRow[f]

\* A file has one record in a batch, and the writer holds one record at a time.
OneRowInv ==
    /\ \A r, s \in outbox : r.file = s.file => r = s
    /\ \A r, s \in writing : r = s

\* The filters stand before the map.
FilterInv == DOMAIN pending \cap ExcludedFiles = {}

\* The conjunction that every step preserves: what the tasks' positions, the
\* clock and the filters say together implies each safety property above.
IInv ==
    /\ TypeOK
    /\ StageInv
    /\ StampInv
    /\ QuietInv
    /\ OneRowInv
    /\ FilterInv
    /\ RowsInTimeOrder
    /\ RowsAdmissible
=============================================================================
