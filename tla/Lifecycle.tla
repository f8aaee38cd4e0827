------------------------------ MODULE Lifecycle ------------------------------
(***************************************************************************)
(* The program around the pipeline: main() from the moment its tasks are   *)
(* spawned, the ETW thread, the HTTP server task and the tray.             *)
(*                                                                         *)
(* main waits to be told to quit, raises the shutdown watch, gives the     *)
(* debouncer three seconds, drops its raw_tx, and then waits for the       *)
(* writer and for the server.  How long three seconds are against the      *)
(* speed of the tasks is left open: the time-out may fire whenever the     *)
(* debouncer has not returned.                                             *)
(***************************************************************************)
EXTENDS Accounting

CONSTANT Main       \* main's own clone of raw_tx

ASSUME OwnerAssumption == Senders = {Etw, Main} /\ Etw # Main

VARIABLES
    mode,       \* "console", or "headless" with --background or --tray
    main,       \* where main() is
    etw,        \* the thread that owns the trace session
    server,     \* the HTTP server task
    tray        \* the tray thread and the task that bridges it to the watch

mainVars == <<mode, main, etw, server, tray>>
lifecycleVars == <<vars, mainVars>>

LifecycleTypeOK ==
    /\ TypeOK
    /\ mode \in {"console", "headless"}
    /\ main \in {"running", "flushing", "draining", "closing", "stopped", "killed"}
    /\ etw \in {"starting", "tracing", "failed"}
    /\ server \in {"binding", "serving", "ended"}
    /\ tray \in {"none", "up", "gone"}

LifecycleInit ==
    /\ Init
    /\ mode \in {"console", "headless"}
    /\ main = "running"
    /\ etw = "starting"
    /\ server = "binding"
    /\ tray = IF mode = "headless" THEN "up" ELSE "none"

\* No task of the program runs once main has returned or the process was killed.
Alive == main \notin {"stopped", "killed"}

\* shutdown_tx.send(true), by any of its four owners.
SendShutdown == SignalShutdown \/ (shutdown /\ UNCHANGED vars)

-----------------------------------------------------------------------------
(* The ETW thread.  A session that cannot be started ends the thread, and  *)
(* its raw_tx with it; one that was started is kept, parked, for good.     *)

EtwStarts ==
    /\ Alive
    /\ etw = "starting"
    /\ etw' = "tracing"
    /\ UNCHANGED <<vars, mode, main, server, tray>>

\* Mutant: the thread gives up a session it has started.
EtwEnds ==
    /\ Alive
    /\ etw # "failed"
    /\ etw' = "failed"
    /\ DropSender(Etw)
    /\ UNCHANGED <<mode, main, server, tray>>

EtwFails ==
    /\ Alive
    /\ etw = "starting"
    /\ etw' = "failed"
    /\ DropSender(Etw)
    /\ UNCHANGED <<mode, main, server, tray>>

FileIoEvent ==
    /\ Alive
    /\ etw = "tracing"
    /\ \E e \in Event : TrySend(e) \/ TrySendFails(e)
    /\ UNCHANGED mainVars

-----------------------------------------------------------------------------
(* The server task: axum::serve does not return, so the task ends only if  *)
(* the port cannot be bound, and then raises the shutdown watch.           *)

\* Mutant: the watch is raised as soon as the port is bound.
ServerSignals ==
    /\ Alive
    /\ server = "binding"
    /\ server' = "serving"
    /\ SendShutdown
    /\ UNCHANGED <<mode, main, etw, tray>>

ServerBinds ==
    /\ Alive
    /\ server = "binding"
    /\ server' = "serving"
    /\ UNCHANGED <<vars, mode, main, etw, tray>>

ServerFails ==
    /\ Alive
    /\ server = "binding"
    /\ server' = "ended"
    /\ SendShutdown
    /\ UNCHANGED <<mode, main, etw, tray>>

-----------------------------------------------------------------------------
(* The user.                                                               *)

\* "Quit DiskSpy" in the tray menu; the bridge leaves its loop.
TrayQuits ==
    /\ Alive
    /\ tray = "up"
    /\ tray' = "gone"
    /\ SendShutdown
    /\ UNCHANGED <<mode, main, etw, server>>

\* The icon cannot be installed: the thread ends after spawn_tray has returned.
TrayFails ==
    /\ Alive
    /\ tray = "up"
    /\ tray' = "gone"
    /\ UNCHANGED <<vars, mode, main, etw, server>>

CtrlC ==
    /\ main = "running"
    /\ mode = "console"
    /\ main' = "flushing"
    /\ SendShutdown
    /\ UNCHANGED <<mode, etw, server, tray>>

\* In headless mode no handler was installed: the signal ends the process.
CtrlCKills ==
    /\ Alive
    /\ mode = "headless"
    /\ main' = "killed"
    /\ UNCHANGED <<vars, mode, etw, server, tray>>

-----------------------------------------------------------------------------
(* main().                                                                 *)

ShutdownHeard ==
    /\ main = "running"
    /\ mode = "headless"
    /\ shutdown
    /\ main' = "flushing"
    /\ UNCHANGED <<vars, mode, etw, server, tray>>

\* Mutant: a debouncer that takes too long is aborted.
DebouncerAborted ==
    /\ main = "flushing"
    /\ main' = "draining"
    /\ senders' = senders \ {Main}
    /\ task' = "flushed"
    /\ outbox' = {}
    /\ UNCHANGED <<raw, pending, records, tickDue, shutdown, clock, events, sink, history>>
    /\ UNCHANGED <<mode, etw, server, tray>>

\* The debouncer has returned, or three seconds have passed; then drop(raw_tx).
DebouncerAwaited ==
    /\ main = "flushing"
    /\ main' = "draining"
    /\ DropSender(Main)
    /\ UNCHANGED <<mode, etw, server, tray>>

\* Mutant: main does not wait for the writer.
WriterNotAwaited ==
    /\ main = "draining"
    /\ main' = "closing"
    /\ UNCHANGED <<vars, mode, etw, server, tray>>

WriterAwaited ==
    /\ main = "draining"
    /\ writer = "stopped"
    /\ main' = "closing"
    /\ UNCHANGED <<vars, mode, etw, server, tray>>

ServerAwaited ==
    /\ main = "closing"
    /\ server = "ended"
    /\ main' = "stopped"
    /\ UNCHANGED <<vars, mode, etw, server, tray>>

-----------------------------------------------------------------------------
(* The pipeline, while the process lives.                                  *)

Receives ==
    Alive /\ (\E name \in Names : RecvEvent(name)) /\ UNCHANGED mainVars

Ticks ==
    /\ Alive
    /\ \E resolved \in [DOMAIN pending -> Names] : Tick(resolved)
    /\ UNCHANGED mainVars

Flushes ==
    /\ Alive
    /\ \E resolved \in [DOMAIN pending -> Names] : ShutdownSeen(resolved)
    /\ UNCHANGED mainVars

TaskProceeds ==
    /\ Alive
    /\ RecvClosed \/ (\E r \in outbox : SendRecord(r)) \/ TickDone \/ FlushDone
    /\ UNCHANGED mainVars

WriterProceeds ==
    /\ Alive
    /\ \/ WriterRecv
       \/ \E r \in writing : WriterInsert(r) \/ WriterFails(r)
       \/ WriterStops
    /\ UNCHANGED mainVars

TimePasses == Alive /\ Elapse /\ UNCHANGED mainVars

MainProceeds == ShutdownHeard \/ DebouncerAwaited \/ WriterAwaited \/ ServerAwaited

LifecycleNext ==
    \/ EtwStarts
    \/ EtwFails
    \/ FileIoEvent
    \/ ServerBinds
    \/ ServerFails
    \/ TrayQuits
    \/ TrayFails
    \/ CtrlC
    \/ CtrlCKills
    \/ ShutdownHeard
    \/ DebouncerAwaited
    \/ WriterAwaited
    \/ ServerAwaited
    \/ Receives
    \/ Ticks
    \/ Flushes
    \/ TaskProceeds
    \/ WriterProceeds
    \/ TimePasses

(***************************************************************************)
(* tokio::select! polls its branches in a random order each time round, so *)
(* a branch that is ready again and again is taken: strong fairness, since *)
(* the branches are not ready while a tick's records are being sent.  The  *)
(* other steps of the tasks and of main stay enabled until taken.  Nothing *)
(* is assumed of the kernel, the port, the trace or who quits.             *)
(***************************************************************************)
LifecycleFairness ==
    /\ SF_lifecycleVars(Receives)
    /\ SF_lifecycleVars(Ticks)
    /\ SF_lifecycleVars(Flushes)
    /\ WF_lifecycleVars(TaskProceeds)
    /\ WF_lifecycleVars(WriterProceeds)
    /\ WF_lifecycleVars(TimePasses)
    /\ WF_lifecycleVars(MainProceeds)

LifecycleSpec == LifecycleInit /\ [][LifecycleNext]_lifecycleVars
FairLifecycleSpec == LifecycleSpec /\ LifecycleFairness

-----------------------------------------------------------------------------
(* Properties.                                                             *)

\* The pipeline inside the program is a behaviour of Debouncer.
ImplementsDebouncer == Spec

\* No aggregation is lost by an orderly quit: although the three seconds may be
\* over before the flush is, and recv() answering None ends the debouncer
\* without one, nothing is left in the pipeline when the writer has stopped.
NothingStranded ==
    writer = "stopped" =>
        /\ DOMAIN pending = {}
        /\ outbox = {}
        /\ records = <<>>
        /\ writing = {}

\* Only a traced program has anything to lose, and in a traced one recv() cannot
\* answer None (with StageInv, the inductive invariant behind NothingStranded).
UntracedInv ==
    /\ Etw \notin senders => etw = "failed"
    /\ task = "closed" => Etw \notin senders
    /\ etw # "tracing" => raw = <<>> /\ DOMAIN pending = {} /\ outbox = {}

\* The account is settled when main goes past the writer, whichever wait timed
\* out: all bytes the map took in are committed, or lost below min_delta_bytes
\* or with a row whose insert failed (module Ledger), and none is on its way.
AccountSettled ==
    main \in {"closing", "stopped"} => \A f \in Files : Outstanding[f] = 0

\* Told to quit, main gets past the flush and the writer, time-out or not,
\* whatever the ETW thread and the server are doing.
QuitFlushes == main = "flushing" ~> main \in {"closing", "stopped", "killed"}

\* Before anybody quits, a running program stops recording for one reason only: a
\* port that cannot be bound, which in the console ends the debouncer while main
\* goes on waiting for Ctrl+C.
RecordsUntilQuit ==
    (main = "running" /\ tray # "gone" /\ TaskEnded) => server = "ended"

\* An aggregation does not stay in the map unless its file is written again and
\* again: one that falls quiet is taken by a tick or the flush, although events
\* of other files never stop and whatever main is waiting for.
AggregationsLeave ==
    \A f \in Files : []<>(f \in DOMAIN pending => pending[f].quiet = 0 \/ ~Alive)

\* A shutdown signal makes both tasks return, even when the record channel is
\* full and events arrive without end, and although nothing closes the raw channel.
ShutdownStopsPipeline == shutdown ~> writer = "stopped" \/ ~Alive

\* "Print `DiskSpy stopped.` and exit."
QuitCompletes == main = "flushing" ~> main \in {"stopped", "killed"}
=============================================================================
