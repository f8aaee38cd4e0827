--------------------------- MODULE LifecycleProofs ---------------------------
(***************************************************************************)
(* The program around the pipeline keeps it a Debouncer and, by the        *)
(* argument of UntracedInv, loses no aggregation in an orderly quit.       *)
(***************************************************************************)
EXTENDS Lifecycle, DebouncerProofs

(* Every step of the program is a step of the pipeline or leaves it alone. *)
LEMMA PipelineStep == [LifecycleNext]_lifecycleVars => [Next]_vars
  <1> SUFFICES ASSUME LifecycleNext PROVE [Next]_vars
    BY DEF lifecycleVars
  <1> USE DEF Next
  <1>1. CASE EtwStarts \/ ServerBinds \/ TrayFails \/ CtrlCKills \/ ShutdownHeard
                \/ WriterAwaited \/ ServerAwaited
    BY <1>1 DEF EtwStarts, ServerBinds, TrayFails, CtrlCKills, ShutdownHeard,
                WriterAwaited, ServerAwaited
  <1>2. CASE EtwFails \/ DebouncerAwaited
    BY <1>2, SenderAssumption, OwnerAssumption DEF EtwFails, DebouncerAwaited, Environment
  <1>3. CASE ServerFails \/ TrayQuits \/ CtrlC
    BY <1>3 DEF ServerFails, TrayQuits, CtrlC, SendShutdown, Environment
  <1>4. CASE FileIoEvent
    BY <1>4 DEF FileIoEvent, Environment
  <1>5. CASE Receives
    BY <1>5 DEF Receives
  <1>6. CASE Ticks
    BY <1>6 DEF Ticks
  <1>7. CASE Flushes
    BY <1>7 DEF Flushes
  <1>8. CASE TaskProceeds
    BY <1>8 DEF TaskProceeds
  <1>9. CASE WriterProceeds
    BY <1>9 DEF WriterProceeds
  <1>10. CASE TimePasses
    BY <1>10 DEF TimePasses, Environment
  <1> QED
    BY <1>1, <1>2, <1>3, <1>4, <1>5, <1>6, <1>7, <1>8, <1>9, <1>10 DEF LifecycleNext

(* The program runs the pipeline as Debouncer describes it. *)
THEOREM PipelineImplemented == LifecycleSpec => ImplementsDebouncer
  <1>1. LifecycleInit => Init
    BY DEF LifecycleInit
  <1> QED
    BY <1>1, PipelineStep, PTL DEF LifecycleSpec, ImplementsDebouncer, Spec

(* UntracedInv is preserved by every step: by the lifecycle's own steps that  *)
(* move no event, and, one by one, by those that touch the queue, the map or  *)
(* the sender.                                                                *)
LEMMA UntracedStep ==
  TypeOK /\ UntracedInv /\ [LifecycleNext]_lifecycleVars => UntracedInv'
  <1> SUFFICES ASSUME TypeOK, UntracedInv, [LifecycleNext]_lifecycleVars PROVE UntracedInv'
    OBVIOUS
  <1> USE DEF UntracedInv
  <1>1. CASE \/ EtwStarts \/ ServerBinds \/ TrayFails \/ CtrlCKills \/ ShutdownHeard
             \/ WriterAwaited \/ ServerAwaited \/ UNCHANGED lifecycleVars
    BY <1>1 DEF EtwStarts, ServerBinds, TrayFails, CtrlCKills, ShutdownHeard,
                WriterAwaited, ServerAwaited, lifecycleVars, vars, mainVars
  <1>2. CASE EtwFails
    BY <1>2 DEF EtwFails, DropSender, loop
  <1>3. CASE DebouncerAwaited
    BY <1>3, OwnerAssumption DEF DebouncerAwaited, DropSender, loop
  <1>4. CASE ServerFails \/ TrayQuits \/ CtrlC
    BY <1>4 DEF ServerFails, TrayQuits, CtrlC, SendShutdown, SignalShutdown, loop, vars
  <1>5. CASE FileIoEvent
    BY <1>5 DEF FileIoEvent, TrySend, TrySendFails, mainVars, loop
  <1>6. CASE Receives
    <2>1. raw # <<>> /\ etw = "tracing"
      BY <1>6 DEF Receives, RecvEvent
    <2> QED
      BY <1>6, <2>1 DEF Receives, RecvEvent, outside, loop, mainVars
  <1>7. CASE Ticks
    <2>1. PICK resolved \in [DOMAIN pending -> Names] : Tick(resolved)
      BY <1>7 DEF Ticks
    <2>2. DOMAIN pending = {} => outbox' = {} /\ DOMAIN pending' = {}
      BY <2>1 DEF Tick, RowsOf, Quiet, Without
    <2> QED
      BY <1>7, <2>1, <2>2 DEF Ticks, Tick, outside, mainVars
  <1>8. CASE Flushes
    <2>1. PICK resolved \in [DOMAIN pending -> Names] : ShutdownSeen(resolved)
      BY <1>8 DEF Flushes
    <2>2. DOMAIN pending' = {} /\ (DOMAIN pending = {} => outbox' = {})
      BY <2>1 DEF ShutdownSeen, RowsOf, NoPending
    <2> QED
      BY <1>8, <2>1, <2>2 DEF Flushes, ShutdownSeen, outside, mainVars
  <1>9. CASE TaskProceeds
    BY <1>9, SenderAssumption
    DEF TaskProceeds, RecvClosed, SendRecord, TickDone, FlushDone, outside, loop, mainVars
  <1>10. CASE WriterProceeds
    BY <1>10 DEF WriterProceeds, WriterRecv, WriterInsert, WriterFails, WriterStops,
                 outside, loop, mainVars
  <1>11. CASE TimePasses
    BY <1>11 DEF TimePasses, Elapse, mainVars, sink
  <1> QED
    BY <1>1, <1>2, <1>3, <1>4, <1>5, <1>6, <1>7, <1>8, <1>9, <1>10, <1>11
    DEF LifecycleNext

(* A program that has, or may still get, something to record has a sender,    *)
(* so that recv() cannot answer None.                                         *)
THEOREM UntracedInvariant == LifecycleSpec => [](IInv /\ UntracedInv)
  <1>1. LifecycleInit => Init /\ UntracedInv
    BY SenderAssumption DEF LifecycleInit, Init, UntracedInv, NoPending
  <1>2. IInv => TypeOK
    BY DEF IInv
  <1>3. LifecycleSpec => []IInv
    BY PipelineImplemented, Invariant, PTL DEF ImplementsDebouncer
  <1> QED
    BY <1>1, <1>2, <1>3, UntracedStep, PTL DEF LifecycleSpec

(* Nothing aggregated is left behind when the writer has stopped, although    *)
(* one way for the debouncer to end, recv() answering None, flushes nothing.  *)
THEOREM OrderlyQuit == LifecycleSpec => []NothingStranded
  <1>1. IInv /\ UntracedInv => NothingStranded
    BY DEF IInv, StageInv, UntracedInv, NothingStranded, TaskEnded
  <1> QED
    BY <1>1, UntracedInvariant, PTL

(* How the debouncer may end: told so, or because nobody can send any more;   *)
(* and a running main is one that can.                                        *)
QuitInv ==
    /\ main = "running" => Main \in senders
    /\ task \in {"final", "flushed"} => shutdown
    /\ task = "closed" => senders = {}
    /\ (shutdown /\ main = "running" /\ tray # "gone") => server = "ended"

(* Each step of the threads keeps what a quit relies on. *)
LEMMA QuitStep == QuitInv /\ [LifecycleNext]_lifecycleVars => QuitInv'
  <1> SUFFICES ASSUME QuitInv, [LifecycleNext]_lifecycleVars PROVE QuitInv'
    OBVIOUS
  <1> USE DEF QuitInv
  <1>1. CASE \/ EtwStarts \/ ServerBinds \/ TrayFails \/ CtrlCKills \/ ShutdownHeard
             \/ WriterAwaited \/ ServerAwaited \/ UNCHANGED lifecycleVars
    BY <1>1 DEF EtwStarts, ServerBinds, TrayFails, CtrlCKills, ShutdownHeard,
                WriterAwaited, ServerAwaited, lifecycleVars, vars, mainVars
  <1>2. CASE EtwFails
    BY <1>2, OwnerAssumption DEF EtwFails, DropSender, loop
  <1>3. CASE DebouncerAwaited
    BY <1>3, OwnerAssumption DEF DebouncerAwaited, DropSender, loop
  <1>4. CASE ServerFails \/ TrayQuits \/ CtrlC
    BY <1>4 DEF ServerFails, TrayQuits, CtrlC, SendShutdown, SignalShutdown, loop, vars
  <1>5. CASE FileIoEvent
    BY <1>5 DEF FileIoEvent, TrySend, TrySendFails, mainVars, loop
  <1>6. CASE Receives
    BY <1>6 DEF Receives, RecvEvent, outside, loop, mainVars
  <1>7. CASE Ticks
    BY <1>7 DEF Ticks, Tick, outside, mainVars
  <1>8. CASE Flushes
    BY <1>8 DEF Flushes, ShutdownSeen, outside, mainVars
  <1>9. CASE TaskProceeds
    BY <1>9 DEF TaskProceeds, RecvClosed, SendRecord, TickDone, FlushDone, outside, loop, mainVars
  <1>10. CASE WriterProceeds
    BY <1>10 DEF WriterProceeds, WriterRecv, WriterInsert, WriterFails, WriterStops,
                 outside, loop, mainVars
  <1>11. CASE TimePasses
    BY <1>11 DEF TimePasses, Elapse, mainVars, sink
  <1> QED
    BY <1>1, <1>2, <1>3, <1>4, <1>5, <1>6, <1>7, <1>8, <1>9, <1>10, <1>11 DEF LifecycleNext

(* Until somebody quits, a port that cannot be bound is all that may end the  *)
(* recording.                                                                 *)
THEOREM RecordingLasts == LifecycleSpec => []RecordsUntilQuit
  <1>1. LifecycleInit => QuitInv
    BY OwnerAssumption DEF LifecycleInit, Init, QuitInv
  <1>2. QuitInv => RecordsUntilQuit
    BY DEF QuitInv, RecordsUntilQuit, TaskEnded
  <1> QED
    BY <1>1, <1>2, QuitStep, PTL DEF LifecycleSpec

(* main does not pass the writer before the writer has stopped, and a writer  *)
(* that has stopped does not start again.                                     *)
WriterFirst == main \in {"closing", "stopped"} => writer = "stopped"

(* No step of main, of a task or of the user undoes WriterFirst. *)
LEMMA WriterFirstStep == WriterFirst /\ [LifecycleNext]_lifecycleVars => WriterFirst'
  <1> SUFFICES ASSUME WriterFirst, [LifecycleNext]_lifecycleVars PROVE WriterFirst'
    OBVIOUS
  <1>1. writer = "stopped" => writer' = "stopped"
    BY PipelineStep
    DEF Next, Environment, vars, TrySend, TrySendFails, DropSender, SignalShutdown, Elapse,
        ShutdownSeen, RecvEvent, RecvClosed, Tick, SendRecord, TickDone, FlushDone,
        WriterRecv, WriterInsert, WriterFails, WriterStops, sink
  <1>2. main' = main \/ main' \notin {"closing", "stopped"} \/ WriterAwaited \/ ServerAwaited
    BY DEF LifecycleNext, lifecycleVars, mainVars, EtwStarts, EtwFails, FileIoEvent,
           ServerBinds, ServerFails, TrayQuits, TrayFails, CtrlC, CtrlCKills,
           ShutdownHeard, DebouncerAwaited, Receives, Ticks, Flushes, TaskProceeds,
           WriterProceeds, TimePasses
  <1> QED
    BY <1>1, <1>2 DEF WriterFirst, WriterAwaited, ServerAwaited

(* Behind the writer no byte is outstanding: the writer has stopped, so that  *)
(* map, batch, channel and hand are empty, and sums over nothing are 0.       *)
THEOREM AccountClosed == LifecycleSpec => []AccountSettled
  <1>1. LifecycleInit => WriterFirst
    BY DEF LifecycleInit, WriterFirst
  <1>2. WriterFirst /\ NothingStranded => AccountSettled
    <2> SUFFICES ASSUME writer = "stopped", NothingStranded, NEW f \in Files
                 PROVE  Outstanding[f] = 0
      BY DEF WriterFirst, AccountSettled
    <2>1. DOMAIN pending = {} /\ outbox = {} /\ records = <<>> /\ writing = {}
      BY DEF NothingStranded
    <2>2. /\ BytesOf(f) = 0 /\ BytesIn(f, outbox) = 0 /\ BytesIn(f, writing) = 0
          /\ BytesAlong(f, records) = 0
      BY <2>1, BytesInFacts, BytesAlongEmpty DEF BytesOf
    <2> QED
      BY <2>2 DEF Outstanding
  <1> QED
    BY <1>1, <1>2, WriterFirstStep, OrderlyQuit, PTL DEF LifecycleSpec

(* What is proved of the pipeline holds of the program around it, whatever    *)
(* fails to start, times out or quits.                                        *)
THEOREM PipelineSafe ==
  LifecycleSpec => [](RowsInTimeOrder /\ RowsAdmissible /\ SendsReachWriter /\ FlushedOnShutdown)
  BY PipelineImplemented, TimeOrdered, Admissible, SendSafe, Flushed, PTL
  DEF ImplementsDebouncer

(* The program keeps the account of bytes: main's time-outs and the ways to   *)
(* quit lose none the ledger does not name.                                   *)
THEOREM LedgerKept == LifecycleSpec => ImplementsLedger
  BY PipelineImplemented, LedgerImplemented, PTL DEF ImplementsDebouncer
=============================================================================
