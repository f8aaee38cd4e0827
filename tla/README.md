# A TLA+ model of DiskSpy

DiskSpy is a Windows program that listens to the kernel's file events, adds up
the bytes written per file, writes one row per burst of activity to SQLite and
shows the rows in a browser. This directory holds its formal model: TLA+ modules
translated from the Rust source, TLC configurations that check them on small
instances, and proofs that TLAPS checks for every size.

## 1. The system

    kernel ── ETW callback ──raw channel (4096)──> run_debouncer ──record channel (256)──> db_writer_task ──> SQLite
                (try_send)                          │   │  pending map                                          │
                                                    │   └── process cache <── Windows processes                 │
    tray / Ctrl+C / failed server ── shutdown watch ┘                       HTTP handlers (read only) ──────────┘

| Component | State | Operations | What makes it correct |
|---|---|---|---|
| ETW callback and paths (`etw.rs`) | the map from devices to letters, read once | one event: filter, translate the path, `try_send` | what is reported is on the drive and bears its path there; it never blocks the kernel's thread |
| Trace session (`etw.rs`) | kernel sessions, which outlive their process | a unique name, start, one retry after stopping a stale session | nobody's session is stopped but one's own stale one; none is left behind |
| Configuration (`config.rs`) | `config.toml`; one copy in memory, shared by `Arc` | check, create, read; `exclude-process` | an instance runs with all of what the user wrote or with the defaults; the running filters see a change |
| Debouncer (`debouncer.rs`) | the map of pending aggregations | `feed`, `drain_ready`, `drain_all`, the select loop | every accepted byte ends in one row or in one named loss; rows in time order, not too often, filtered; nothing that falls quiet stays |
| Writer (`main.rs`) | the record in hand | receive, insert | it outlives the debouncer and empties the channel; `main` waits for it; what it inserted is committed |
| Process cache (`process_cache.rs`) | name and age per pid | `resolve`, `evict_expired` | no process's name out of date by the TTL or more |
| Lifecycle (`main.rs`, `tray.rs`, `server.rs`) | who runs, who is waited for | start, failures, quit, timeout, drop of the sender | an orderly quit closes the account of every byte, and ends |
| Database (`db.rs`) | `change_log`, `daily_summary`, the id sequence | `insert`, `delete_older_than`, queries | the two tables never drift apart; ids are not reused and follow the time; pruning takes nothing a query shows; the queries agree with both tables, limits and categories included |

The hard behaviours: three tasks and an OS thread over two bounded channels;
`select!` with a branch that blocks in the middle of its batch; two ways for the
loop to end, of which one flushes nothing; a time-out during the flush; names
that go out of date between two look-ups, and look-ups that fail for a process
that lives; death at any statement; two tables with different keys; a retry that
stops a session by its name; a file that is checked, created, filled and read in
separate steps. `PROJECT.json` lists each of them, at its line, with the
properties that look at it.

## 2. Modules

| Module | Extends | What it is |
|---|---|---|
| `Debouncer` | | the pipeline from callback to `change_log` |
| `Ledger` | | abstract: the account of bytes the pipeline must keep |
| `Accounting` | `Debouncer`, instance of `Ledger` | where in the pipeline the bytes of a file are: the refinement mapping |
| `ProcessCache` | | the cache above processes that come and go |
| `Attribution` | `Debouncer`, instance of `ProcessCache` | the debouncer asking the cache |
| `Lifecycle` | `Debouncer` | the program around the pipeline |
| `Database` | instance of `Store` | insert, retention, death and restart |
| `Store` | | abstract: both tables change in one step |
| `Queries` | `Database` | what the HTTP handlers read |
| `Recorder` | `Debouncer`, instance of `Database` | the pipeline with the database as its sink, over many lives |
| `Devices` | | from a record of the kernel to an event: operators, no state |
| `Startup` | `Devices` | running instances: configuration, trace sessions, port, volumes |
| `MC*` | | the small instances |
| `Sums` | | facts about sums over finite sets, each with its proof |
| `*Proofs` | | the theorems of the component they are named after |

`Lifecycle` is shown, by TLC and by proof, to implement `Debouncer`, so what is
proved of the pipeline holds of the program around it. `Attribution` joins each
step of `Debouncer` to one of `ProcessCache` or to none. `Recorder` is shown to implement `Database`, and through it `Store`.
Each abstract specification (`Ledger`, `Store`) is both a PROPERTY of a run and
a theorem.
Definitions called mutants are slips a programmer could make. None is part
of a specification: each stands before the definition it would replace, and
replacing it must violate the property named in `PROJECT.json`.

### How state and actions correspond to the code

**Debouncer.** `raw` and `records` are the mpsc channels; `pending` is the
`DashMap`, a function on the files that have an entry. What a branch of the
`select!` does between two awaits is one action, because only this task touches
the map: `ShutdownSeen` (`drain_all`), `RecvEvent` (two filters and `feed`),
`RecvClosed` (`None => break`), `Tick` (`drain_ready`). A branch awaits only in
`output.send`: the drained batch waits in `outbox`, `SendRecord` moves one record
when there is room, and `TickDone` or `FlushDone` ends the branch. The callback's
`try_send` is `TrySend` or `TrySendFails`. The writer takes a record
(`WriterRecv`), inserts it or fails, and stops on a closed, empty channel.

Time is counted in ticks of 500 ms. An aggregation carries its quiet time, cut
off at `Debounce`, which is all it is compared with. `Elapse` also makes
the tick ready: with `MissedTickBehavior::Skip` at most one is due. Rows carry
the wall clock in seconds. A drained batch has one stamp and is sent in any order;
in the code stamps rise in the order of iteration, which is the order of
sending, so a batch that spans a second is as ordered. The wall clock is assumed
not to be set back.

**ProcessCache.** `owner` is the process behind each pid, `cache` the map with
ages. `Queried` allows every answer of `resolve_pid`: the name of the process, or
one of the two fallbacks, `unknown:<pid>` and `exited:<pid>`, whatever is behind the
pid. The snapshot may fail, miss a process or hold a name that is not text; and then a
process that `OpenProcess` is refused is answered "exited" although it runs
(`process_cache.rs:80`). So a fallback says nothing of who owns the pid, and the
properties exempt both. `sinceOwned` is a
history variable: how long ago each pid was last each program. `Attribution` joins
the steps of the debouncer that ask for a name to those of the cache; its
`Elsewhere` are the others, the closed channel and the failed send among them.

**Lifecycle.** `main` follows `main()` from the moment its tasks are spawned:
running, flushing (the three-second wait), draining (the writer), closing (the
server), stopped. `DebouncerAwaited` may fire at any time, so every relation
between three seconds and the speed of the flush is covered. `axum::serve` does
not return without graceful shutdown, a started trace stays parked, and Ctrl+C
without a handler ends a Windows process: these three are facts of libraries, as
the code uses them. `Outstanding`, of `Accounting`, is what `AccountSettled` asks to be 0
when `main` has passed the writer.

**Database.** `db` is what is committed, `work` what the open transaction sees.
`Begin`, `InsertRow`, `UpsertLine` and `Commit` are the steps of `insert`;
`Rollback` is any `?` on the way, `Exit` the end of the process anywhere. A
commit is atomic and AUTOINCREMENT never gives an id again, which is what SQLite
documents. The connection's mutex is held for a whole operation, so readers see
`db`. The text that `strftime` returns is compared with an INTEGER column and is
therefore compared as a number. A row has a label and a category, and a line of
`daily_summary` is keyed by day, label and category (`KeyOf`), as db.rs:73 has it.

**Queries.** Each handler's query as a set or function over `db.log` at the time
`clock`. `get_top_growers` and `get_daily_growth` group by label and ignore
the category, so one bar or one ranked label stands for several lines of
`daily_summary`: `LinesOf` are those. `TopGrowers` orders by the total
and stops at `MaxGrowers`, the `LIMIT 20`; where equal totals stand at the limit SQLite
may return any of them, so it is a set of answers. The order within
an answer is left out.

**Recorder.** `db_writer_task` calls `insert` for the record it has received, so
the record in `writing` is that of the transaction: `InsertBegins`, `Statement`
twice, `Commits` together with the pipeline's `WriterInsert`, or `InsertFails`
with its `WriterFails`. `Ends` is a process that ends or is killed: channels, map
and loop start anew, the database keeps what is committed. `Opens` and `Prunes`
come before the tasks. `log` lists the rows of the present life.

**Devices.** A path is a sequence of pieces; two pieces are equal when their text
is but for case, and a device name may begin another; `Pieces` are the pieces
there are. `Scan` is
`refresh_dos_devices`, where `insert` lets the later of two letters win. `Best` is
the loop of `nt_to_dos` over a `HashMap`, in any order: a set, of the longest
names the path begins with, which has at most one element. `EventOf` is the
callback up to `try_send`.

**Startup.** `life[i].stage` follows `Config::load` in an instance: the check, the
truncation and the filling inside `std::fs::write`, the reading. The user may write or
delete the file between any two of them: `LoadCreates` truncates whatever is there by
then, and `Overwritten` says what becomes of a text that was written between truncation and
filling. A text of the file is
a function on the keys it contains; `Parsed` gives a missing key its default and
a missing section all defaults, which differ: a `[watch]` section without
`exclude_processes` excludes nothing. `Garbled` stands for the texts that do not parse,
which end the instance. `life[i].trace` follows `start_trace`: a
name of pid and nanoseconds, a start, the stop of a stale session on
`AlreadyExist`, a second start. A session belongs to the kernel: `sessions`
outlives `Returns` and `Dies`, since the `KernelTrace` is owned by a parked
thread that never drops it. `added` remembers the names that
`exclude-process` answered "ok" to; the running configuration is `config`.

## 3. Runs

| Run | Bounds | What it shows |
|---|---|---|
| `debouncer_safety` | 3 files, one excluded, 3 events of 1 or 2 bytes, 1 s, both channels of capacity 1, debounce 2 ticks, threshold 2, saturation at 3 | order, admissibility and spacing of rows, completeness of the flush, `Ledger` |
| `process_cache` | 2 pids, 2 programs, TTL 3 ticks | no stale name, with look-ups that fail for a living process |
| `attribution` | 1 file, 1 pid, 2 programs, one excluded, 2 events with bytes, any number without, TTL 2 | recent names in the rows; an excluded process that has settled is filtered, unless it cannot be named |
| `lifecycle` | 2 files, 2 events with bytes, any number without, capacity 1, saturation at 3 | implements `Debouncer`; an orderly quit flushes, and the account is closed behind the writer; nothing that falls quiet stays aggregated; a shutdown ends both tasks under a steady stream of events; recording ends early for one reason only |
| `database` | 2 labels, 2 categories, sizes 0 and 2, 3 ids, day of 2 s, retention 1 day, seconds 0 to 4, a limit of 1 | the tables agree, ids, windows, `Store`, the queries against `daily_summary` |
| `recorder` | 2 files of different categories, 3 events, 3 ids, seconds 0 to 2, day of 1 s, retention 1 day | implements `Database`; ids follow the time; inserted is committed |
| `startup` | 2 instances, 2 pids, 1 nanosecond value, 2 volumes of which one's name begins the other's, 2 letters, 2 user texts of which one does not parse and one configures D: | sessions, file, configuration, paths |
| `excluded_row`, `quit_completes`, `exclude_process`, `stale_session`, `drives_ignored` | as small as possible | section 6 |

Why the bounds are enough. A queue of capacity 1 is full and empty within two
steps, so every wait and every loss happens; two files are what order and
batches need, and the third shows the filter; three events let a file be drained,
be written again and saturate. Debounce 2 tells "quiet" from "just written" and
from "quiet for one tick". In `database` the retention limit passes through the
middle of a day and removes the newest row of the log before the next insert; five
seconds have a whole day between two cut ones. In `recorder` the process can die and come back between any
two of three rows, in different seconds. In `startup` one nanosecond value makes
every reused pid meet the stale session of that name, which two real processes
hardly ever do; two instances are what a race for the file or a name takes.
A limit of 1 with two labels has every ranking with a label left out and every tie at the limit.
`MaxEvents`, `MaxClock` and `MaxRows` are the only bounds that the code does not
have. `MaxEvents` counts the events that carry bytes; those of 0 bytes (a close, a
rename, a delete), which go the same way through channel, filter and map and restart
the quiet time, keep coming for ever where `ByteSizes` has 0. So in `lifecycle` the
stream of events never dries up: `ShutdownStopsPipeline` holds with the raw channel filled
again after every receive, and a file that is written for ever stays in the map, which is the
exception `AggregationsLeave` states. Counters that are compared with
one value only (ages, quiet times) are cut off at it.

Symmetry is used for files, pids, labels and instances, in runs without
liveness. Deadlock is checked in all runs but those of `Lifecycle`, where the
program ends.

**Fairness** is stated in `Lifecycle` alone. `tokio::select!` polls its branches
in a random order each time, so a branch that is ready again and again is taken:
strong fairness for `Receives`, `Ticks` and `Flushes`, which are disabled
while a tick's records are being sent. `AggregationsLeave` and `ShutdownStopsPipeline`
need it, as a stream of events keeps `Receives` ready all the time. The other steps of the tasks and of `main`
stay enabled until taken: weak fairness, which is the scheduler's.
`TimePasses` is weakly fair since time passes. An insert ends, well or badly.
Nothing is assumed of the kernel, of the user, of the trace or of the port.

## 4. Proofs

Every invariant and action property that a run checks is also a theorem, and so is
every refinement. The proofs hold for any files, pids, names, labels, instances,
texts, devices, capacities, thresholds and times.

**`DebouncerProofs`** proves `IInv`, a conjunction of parts that each need the others:

* `StageInv`: where records can be, given where the two tasks are. It gives
  `FlushedOnShutdown` and `SendsReachWriter`.
* `StampInv`: nothing is dated after the clock, and a batch has one stamp. It
  makes `RowsInTimeOrder` inductive: a new batch is not older than any row.
* `QuietInv`: an aggregation is not quiet for longer than its file's last row
  lies back. It gives `RowsSpaced`: a drained file was quiet for the debounce
  time, so its last row is at least as old.
* `FilterInv`: the map holds no excluded file. It gives `RowsAdmissible`.
* `OneRowInv`: what is drained is a finite batch with at most one row of a file, and
  the writer has one record in hand. The account of bytes needs it.

`LedgerImplemented` is the account of bytes: under the mapping of `Accounting`,
every step of the pipeline is a step of `Ledger` or leaves it alone. The outstanding
bytes of a file are four sums (map, outbox, record channel, writer). A step that
moves a record takes from one sum what it adds to another; `RecvEvent` is
`Accept`, an insert `Commit` or `Fail`, and a drain is `Forgo`, which gives up, of
any number of files at once, less than `Threshold` each: that is where two
rows of one file in a batch would break the proof. `NoByteTwice` follows inside `Ledger`.

**`Sums`** is what these sums rest on. The community modules define a sum by taking
elements out of a set in an order they choose, so "adding one row adds its
bytes" is a fact about recursion. It is proved without induction over data: among the
parts of a finite set for which a claim fails there would be a smallest one
(well-foundedness of strict inclusion on a finite set, which the library
proves), and taking one element out of it gives a contradiction. So there is a function
that gives the sum of every part, and only one. The other facts (an element taken
out, two disjoint sets, functions that agree on the set, a part bounded by the
whole) are what the ledger and the queries cite. `SumOfParts`, a sum of sums over disjoint
parts, is proved the same way: among the sets of parts for which it fails there would be a
smallest (`InParts`).

**`ProcessCacheProofs`**: an entry was true no longer ago than its age
(`EntriesWereTrue`) or is a fallback, and only entries younger than the TTL are answers.
**`AttributionProofs`** maps each step to one of `Debouncer` and one of
`ProcessCache`, and carries the result over to rows. `ExclusionSteady`: an answer is
a fallback or a name the pid bore within the TTL, and when its present owner has had it for
the TTL that is the only one; so the filter asks about the right process, or
about none.

**`LifecycleProofs`**: `recv()` answers `None` only when all senders are gone, the
callback's goes only when the trace failed to start, and then nothing was ever
aggregated (`UntracedInv`). So the exit without a flush strands nothing.
`RecordingLasts` adds to it who may have raised the watch or dropped a sender
while `main` still runs (`QuitInv`). `AccountClosed` joins the two halves of a quit: `main`
is past the writer only when the writer has stopped, and then map, batch, channel and hand
are empty, so the four sums of the ledger are 0 for every file. `PipelineSafe` and `LedgerKept` draw the
conclusion for the whole program from what is proved of the pipeline alone.

**`DatabaseProofs`**: `TransactionInv` says that the working copy is what is committed
plus the statements executed; so a commit is `Store`'s `Record` and every other
step a stutter or a `Prune`. For the agreement of the two tables
`DbInv` is not enough on its own; it is proved together with `SummaryAgrees`:

* A commit adds one row to the group of its day, label and category and its bytes to
  that group's line; the row is new because its id is (`IdsUnique`), so the sum
  grows by just its bytes. A group without rows has no line.
* A retention delete takes rows before its limit and raises `pruned` to at least that
  limit, so a day the property still speaks of has lost none.
* `Dated` says that the log is finite and nothing in it is of a time to come. It is
  part of `DbTypeOK`, and the status line and the ranking need it: without it
  the rows after midnight could be tomorrow's.

The queries follow. `LinesAddUp`: the rows of a day and a label are the disjoint union of
those of its lines, one per category, so the lines' sums add up to the sum over the
rows (`SumOfParts`, below). A chart's bar for a whole day is the sum over the label's
rows of more than 0 bytes, which is the sum over all of them. The number of
today's events is the sum of the counts of today's lines (`CountsAddUp`). The last 24
hours contain today, so a label ranks with at least today's total; and one that
the limit leaves out stands behind `MaxGrowers` others of no less
(`RankingCorrect`, for any limit).
`PruningSpares` is arithmetic: a window of at most `Retention` days ends later than
the limit of any earlier delete.

**`RecorderProofs`** carries `IInv`, `DbInv` and `RecorderInv` together. `RecorderInv` says
that nothing is under way before the tasks are spawned, that what is under way
was stamped in this life and after every row there is, and that the open
transaction is that of the record in the writer's hand. The second part needs `StampInv` of
the pipeline, and gives the database's guard that a record is not older than
the process; with ids going up it gives `IdsInTimeOrder`. The third makes a commit
add the very record the pipeline counts. Since the recorder implements
`Database`, all that is proved of that holds of the rows the pipeline writes over any number of
lives: `StoreFilled` and `SummaryOfPipeline` say so, and `RowsOfConsequence` adds that no
life leaves a row below the threshold.

**`StartupProofs`**: `PidsDistinct` separates the session names of instances that live at
once, so stopping a name stops no living instance's session, and nobody takes
a freed one. `ConfigsWhole` rests on `EmptyIsDefault`: the
truncated file is read as the defaults, so no text the file can have in between
is read as anything but the defaults, a user's text or an error. `ScannedC` says that every tracing instance
holds the result of a scan made when C: was what it is now. Then, for a record:

* `OnlyDriveC`: a path that is on the drive after translation was translated, as
  the kernel never names a file by letter; so some device name begins it, and the longest
  that does stands for the letter C:, which the scan gives to C:'s device only,
  since letters are distinct. The separator that `OnDrive` asks for stands right after that name.
* `DriveCSeen`: C:'s device begins the path, followed by a separator. A longer
  device name that begins it too would be a file on C:'s device, which no
  device is; so C:'s is the longest, and the letter is C: unless a later one won.

The proofs assume what the modules' named ASSUMEs say of the constants: sizes
are natural numbers, capacities positive, `Etw` and `Main` the two senders, pid 0
is given to no process. Three of them are facts about Windows that
`etw.rs` relies on: the letters of the scan are distinct (it goes through A: to Z:), a device has a name and is no file
of another device (`DeviceAssumption`), and the kernel names files by device and
never by letter (`RecordAssumption`).

Only model-checked: the liveness properties `QuitFlushes`, `AggregationsLeave` and
`ShutdownStopsPipeline`, since the prover does no fairness; and the five
counterexamples of section 6, which are runs.

## 5. What is assumed and what is not modelled

Assumed of the environment: the wall clock is not set back; the user's write to
`config.toml` is one step, and a text that an instance's own write has covered in part does
not parse; C: keeps its device, no device is a file of another and the kernel names files by device; records have fewer than 2^63 bytes; SQLite commits atomically; two living processes have
two pids; one process at a time uses the database.

Not modelled:

* How `label_for`, `should_exclude_process` and `should_exclude_path` compare
  text (case, slashes, `%USERNAME%`, ".exe"): the models take which names and
  files are excluded, and `LabelOf`, a label for each name, as constants.
* `detect_category`, taken as the constant `CategoryOf` of file and name; `get_largest_files`,
  `size_mb`, the order within an answer, routing and JSON.
* An early return of `park_timeout`, which its documentation allows: the mutant
  `EtwEnds` shows that the pipeline would then lose aggregations.
* Tray menu ids, the Win32 message pump, opening documents, logging, the
  elevation check, the dashboard page, build files.
* How many events the callback loses: nothing in the code bounds it. What
  DiskSpy's own writes add to the trace.
* Two instances on one database: SQLite's locking between processes. The unique
  session names let both of them record every event, which how-to-use.md:451 takes to be impossible.

## 6. Where code and documentation differ

Each is a run that TLC ends with a counterexample.

* `quit_completes`: `main` awaits the server task, and nothing stops the server:
  after the flush "DiskSpy stopped." is never printed and the process stays.
* `exclude_process`: `Arc::make_mut` copies the configuration, because the
  debouncer and the router hold it too; the name is added to the copy.
* `stale_session`: a quit, like a kill, leaves the trace session running, and the
  next start has another name, so its retry does not meet the old one.
* `drives_ignored`: the callback asks for `C:\`; `drives` is only logged and shown. In the trace
  D: is mounted on a volume of its own when the instance scans it and stands in its `drives`;
  a write to it is not reported.
* `excluded_row`: the row's name is resolved at the drain and not filtered again.

Also seen, without a run:

* In headless mode Ctrl+C is not handled, contrary to the comment at
  `main.rs:283`: the process is killed (`CtrlCKills`).
* A server that cannot bind its port in console mode makes the debouncer flush and
  leave while `main` goes on waiting for Ctrl+C (`RecordsUntilQuit`).
* The comment at `main.rs:302` says that dropping `raw_tx` makes `recv()` return
  `None`; the parked trace thread keeps its clone.
* The panel of "today" (how-to-use.md:143) shows the last 24 hours; `count_today` leaves out
  midnight's second.
* Retention deletes from `change_log` only; `daily_summary`, which no query reads, grows for ever.
* The last event of a file names its row, also an event of 0 bytes by a process
  that wrote nothing.
* What the user writes into `config.toml` after a starting instance has found no file
  (`config.rs:73`) and before it writes its own (`config.rs:88`) is lost: the instance runs, whole,
  with the defaults.
* A process that is not in the snapshot and may not be opened is called `exited:<pid>` while it
  lives (`process_cache.rs:80`); under that name an excluded process is recorded. `SteadyExclusion`
  states it.
* how-to-use.md:291 calls `daily_summary` "one row per day per process"; its key has the
  category too (db.rs:73).
* `Database::insert` returns the number of changed rows, 1, as the id.
* README.md:466 and 471 name maxima of `limit` and `days` that no code enforces.
* A `[watch]` section without `exclude_processes` excludes no process, where
  README.md:397 gives the system processes as the default.
* how-to-use.md:432 calls the debouncer's map bounded; nothing bounds it.
* Any event of the tray icon, moving over it included, opens the dashboard; menu events
  are told apart by ids that are taken to contain the labels.

## 7. Left for later

* `get_largest_files`: its label is a bare column of a group, which needs a word
  on what the label of a file written under two labels should be.
* Text comparison of the filters and labels, as operators over sequences of
  characters with case, against a reference definition.
* Two instances on one database, with SQLite's lock and a busy writer.
* Proofs: the parts of `Lifecycle`'s liveness that are safety, such as that a
  step which is owed stays enabled until it is taken, stated without ENABLED; and that
  at a life's end the ledger's outstanding bytes are all that is lost, over many lives.
