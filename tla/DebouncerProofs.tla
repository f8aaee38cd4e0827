--------------------------- MODULE DebouncerProofs ---------------------------
(***************************************************************************)
(* Proofs about Debouncer for every value of its constants: type           *)
(* correctness and the safety properties, from the inductive invariant     *)
(* IInv, and the refinement of Ledger, from IInv and the account of bytes. *)
(***************************************************************************)
EXTENDS Accounting, SequenceTheorems, Sums, TLAPS

USE DEF outside, sink, loop, history

(* A drain builds well-formed records of the files it drains. *)
LEMMA RowsOfType ==
    ASSUME TypeOK, NEW F \in SUBSET DOMAIN pending,
           NEW resolved \in [DOMAIN pending -> Names]
    PROVE  /\ RowsOf(F, resolved) \subseteq Row
           /\ \A r \in RowsOf(F, resolved) :
                 r.file \in F /\ r.bytes >= Threshold /\ r.at = clock
  BY SizeAssumption DEF TypeOK, RowsOf, Row, Entry

(* Feeding an event leaves a well-formed map and never takes bytes out of it. *)
LEMMA FeedType ==
    ASSUME TypeOK, NEW e \in Event
    PROVE  /\ DOMAIN Feed(e) = DOMAIN pending \cup {e.file}
           /\ DOMAIN Feed(e) \subseteq Files
           /\ Feed(e) \in [DOMAIN Feed(e) -> Entry]
           /\ Feed(e)[e.file].bytes - BytesOf(e.file) \in Nat
  <1>1. BytesOf(e.file) \in 0 .. MaxBytes
    BY SizeAssumption DEF TypeOK, BytesOf, Entry
  <1>2. Saturate(BytesOf(e.file) + e.bytes) \in BytesOf(e.file) .. MaxBytes
    <2>1. \A b \in 0 .. MaxBytes, n \in Nat : Saturate(b + n) \in b .. MaxBytes
      BY SizeAssumption DEF Saturate
    <2>2. e.bytes \in Nat
      BY SizeAssumption DEF Event
    <2> QED
      BY <1>1, <2>1, <2>2
  <1>3. DOMAIN Feed(e) = DOMAIN pending \cup {e.file} /\ e.file \in Files
    BY DEF Feed, Event
  <1>4. Feed(e)[e.file] = [bytes |-> Saturate(BytesOf(e.file) + e.bytes), pid |-> e.pid, quiet |-> 0]
    BY DEF Feed
  <1>5. \A f \in DOMAIN Feed(e) : Feed(e)[f] \in Entry
    <2>1. Feed(e)[e.file] \in Entry
      BY <1>1, <1>2, <1>4, SizeAssumption DEF Entry, Event
    <2>2. \A f \in DOMAIN pending : f # e.file => Feed(e)[f] = pending[f]
      BY DEF Feed
    <2> QED
      BY <1>3, <2>1, <2>2 DEF TypeOK
  <1>6. Feed(e) = [f \in DOMAIN Feed(e) |-> Feed(e)[f]]
    BY DEF Feed
  <1> QED
    BY <1>1, <1>2, <1>3, <1>4, <1>5, <1>6, SizeAssumption DEF TypeOK

(* Every step keeps the types: each variable stays in its set, whichever   *)
(* action of the callback, the two tasks or the environment is taken.      *)
LEMMA TypeStep == TypeOK /\ [Next]_vars => TypeOK'
  <1> SUFFICES ASSUME TypeOK, [Next]_vars PROVE TypeOK'
    OBVIOUS
  <1> USE DEF TypeOK
  <1>1. ASSUME NEW e \in Event, TrySend(e) PROVE TypeOK'
    BY <1>1 DEF TrySend, Bounded
  <1>2. ASSUME NEW e \in Event, TrySendFails(e) PROVE TypeOK'
    BY <1>2 DEF TrySendFails, Bounded
  <1>3. ASSUME NEW s \in Senders, DropSender(s) PROVE TypeOK'
    BY <1>3 DEF DropSender
  <1>4. CASE SignalShutdown
    BY <1>4 DEF SignalShutdown
  <1>5. CASE Elapse
    <2>1. \A n \in 0 .. Debounce : Older(n) \in 0 .. Debounce
      BY SizeAssumption DEF Older
    <2>2. pending' \in [DOMAIN pending' -> Entry] /\ DOMAIN pending' = DOMAIN pending
      <3>1. \A f \in DOMAIN pending : [pending[f] EXCEPT !.quiet = Older(@)] \in Entry
        BY <2>1 DEF Entry
      <3> QED
        BY <1>5, <3>1 DEF Elapse
    <2>3. sinceRow' \in [Files -> 0 .. Debounce]
      BY <1>5, <2>1 DEF Elapse
    <2>4. clock' \in Nat
      BY <1>5 DEF Elapse
    <2> QED
      BY <1>5, <2>2, <2>3, <2>4 DEF Elapse
  <1>6. ASSUME NEW resolved \in [DOMAIN pending -> Names], ShutdownSeen(resolved)
        PROVE  TypeOK'
    <2>1. outbox' \subseteq Row
      BY <1>6, RowsOfType DEF ShutdownSeen
    <2>2. DOMAIN pending' \subseteq Files /\ pending' \in [DOMAIN pending' -> Entry]
      BY <1>6 DEF ShutdownSeen, NoPending
    <2> QED
      BY <1>6, <2>1, <2>2 DEF ShutdownSeen
  <1>7. ASSUME NEW name \in Names, RecvEvent(name) PROVE TypeOK'
    <2>1. Head(raw) \in Event /\ raw' \in Seq(Event)
      BY <1>7 DEF RecvEvent
    <2>2. /\ DOMAIN pending' \subseteq Files
          /\ pending' \in [DOMAIN pending' -> Entry]
          /\ accepted' \in [Files -> Nat]
      <3>1. CASE UNCHANGED <<pending, accepted>>
        BY <3>1
      <3>2. CASE /\ pending' = Feed(Head(raw))
                 /\ accepted' = [accepted EXCEPT ![Head(raw).file] =
                                   @ + (pending'[Head(raw).file].bytes - BytesOf(Head(raw).file))]
        <4>1. Head(raw).file \in Files
          BY <2>1 DEF Event
        <4>2. pending'[Head(raw).file].bytes - BytesOf(Head(raw).file) \in Nat
          BY <2>1, <3>2, FeedType
        <4>3. accepted' \in [Files -> Nat]
          BY <3>2, <4>1, <4>2
        <4> QED
          BY <2>1, <3>2, <4>3, FeedType
      <3> QED
        BY <1>7, <3>1, <3>2 DEF RecvEvent
    <2> QED
      BY <1>7, <2>1, <2>2 DEF RecvEvent
  <1>8. CASE RecvClosed
    BY <1>8 DEF RecvClosed
  <1>9. ASSUME NEW resolved \in [DOMAIN pending -> Names], Tick(resolved)
        PROVE  TypeOK'
    <2>1. outbox' \subseteq Row
      BY <1>9, RowsOfType DEF Tick, Quiet
    <2>2. DOMAIN pending' \subseteq Files /\ pending' \in [DOMAIN pending' -> Entry]
      BY <1>9 DEF Tick, Without
    <2>3. sinceRow' \in [Files -> 0 .. Debounce]
      BY <1>9, SizeAssumption DEF Tick
    <2> QED
      BY <1>9, <2>1, <2>2, <2>3 DEF Tick
  <1>10. ASSUME NEW r \in outbox, SendRecord(r) PROVE TypeOK'
    BY <1>10 DEF SendRecord
  <1>11. CASE TickDone
    BY <1>11 DEF TickDone
  <1>12. CASE FlushDone
    BY <1>12 DEF FlushDone
  <1>13. CASE WriterRecv
    BY <1>13 DEF WriterRecv
  <1>14. ASSUME NEW r \in writing, WriterInsert(r) PROVE TypeOK'
    BY <1>14 DEF WriterInsert
  <1>15. ASSUME NEW r \in writing, WriterFails(r) PROVE TypeOK'
    BY <1>15 DEF WriterFails
  <1>16. CASE WriterStops
    BY <1>16 DEF WriterStops
  <1>17. CASE UNCHANGED vars
    BY <1>17 DEF vars
  <1> QED
    BY <1>1, <1>2, <1>3, <1>4, <1>5, <1>6, <1>7, <1>8, <1>9, <1>10, <1>11,
       <1>12, <1>13, <1>14, <1>15, <1>16, <1>17 DEF Next, Environment

(* The tasks start with well-formed, empty queues.                           *)
LEMMA InitTypes == Init => TypeOK
  <1> SUFFICES ASSUME Init PROVE TypeOK
    OBVIOUS
  <1>1. DOMAIN pending \subseteq Files /\ pending \in [DOMAIN pending -> Entry]
    BY DEF Init, NoPending
  <1>2. raw \in Seq(Event) /\ records \in Seq(Row) /\ log \in Seq(Row)
    BY EmptySeq DEF Init
  <1>3. sinceRow \in [Files -> 0 .. Debounce] /\ accepted \in [Files -> Nat]
    BY SizeAssumption DEF Init
  <1> QED
    BY <1>1, <1>2, <1>3 DEF Init, TypeOK

(* The pipeline's state always has the types declared for it: queues of     *)
(* events and rows, a map from files to saturating counters.                *)
THEOREM TypeCorrect == Spec => []TypeOK
  BY InitTypes, TypeStep, PTL DEF Spec

-----------------------------------------------------------------------------
(* Where the elements of an appended and of a shortened queue come from.    *)
LEMMA AppendElements ==
    ASSUME NEW S, NEW q \in Seq(S), NEW x \in S
    PROVE  \A j \in DOMAIN Append(q, x) :
              \/ j \in DOMAIN q /\ Append(q, x)[j] = q[j]
              \/ j = Len(q) + 1 /\ Append(q, x)[j] = x
  OBVIOUS

(* The elements of a shortened queue. *)
LEMMA TailElements ==
    ASSUME NEW S, NEW q \in Seq(S), q # <<>>
    PROVE  /\ 1 \in DOMAIN q /\ Head(q) = q[1]
           /\ \A j \in DOMAIN Tail(q) : j + 1 \in DOMAIN q /\ Tail(q)[j] = q[j + 1]
  OBVIOUS

-----------------------------------------------------------------------------
(* Records are in the outbox only while the task sends, and the writer      *)
(* stops only behind a task that has ended and an empty channel.            *)
LEMMA StageStep == TypeOK /\ StageInv /\ [Next]_vars => StageInv'
  <1> SUFFICES ASSUME TypeOK, StageInv, [Next]_vars PROVE StageInv'
    OBVIOUS
  <1> USE DEF StageInv, TaskEnded
  <1>1. ASSUME NEW e \in Event, TrySend(e) PROVE StageInv'
    BY <1>1 DEF TrySend
  <1>2. ASSUME NEW e \in Event, TrySendFails(e) PROVE StageInv'
    BY <1>2 DEF TrySendFails
  <1>3. ASSUME NEW s \in Senders, DropSender(s) PROVE StageInv'
    BY <1>3 DEF DropSender
  <1>4. CASE SignalShutdown
    BY <1>4 DEF SignalShutdown
  <1>5. CASE Elapse
    BY <1>5 DEF Elapse
  <1>6. ASSUME NEW resolved \in [DOMAIN pending -> Names], ShutdownSeen(resolved)
        PROVE  StageInv'
    BY <1>6 DEF ShutdownSeen, NoPending
  <1>7. ASSUME NEW name \in Names, RecvEvent(name) PROVE StageInv'
    BY <1>7 DEF RecvEvent
  <1>8. CASE RecvClosed
    BY <1>8 DEF RecvClosed
  <1>9. ASSUME NEW resolved \in [DOMAIN pending -> Names], Tick(resolved)
        PROVE  StageInv'
    BY <1>9 DEF Tick
  <1>10. ASSUME NEW r \in outbox, SendRecord(r) PROVE StageInv'
    BY <1>10 DEF SendRecord
  <1>11. CASE TickDone
    BY <1>11 DEF TickDone
  <1>12. CASE FlushDone
    BY <1>12 DEF FlushDone
  <1>13. CASE WriterRecv
    BY <1>13 DEF WriterRecv
  <1>14. ASSUME NEW r \in writing, WriterInsert(r) PROVE StageInv'
    BY <1>14 DEF WriterInsert
  <1>15. ASSUME NEW r \in writing, WriterFails(r) PROVE StageInv'
    BY <1>15 DEF WriterFails
  <1>16. CASE WriterStops
    BY <1>16 DEF WriterStops
  <1>17. CASE UNCHANGED vars
    BY <1>17 DEF vars
  <1> QED
    BY <1>1, <1>2, <1>3, <1>4, <1>5, <1>6, <1>7, <1>8, <1>9, <1>10, <1>11,
       <1>12, <1>13, <1>14, <1>15, <1>16, <1>17 DEF Next, Environment

(* Only RecvEvent adds a file to the map, after both filters.               *)
LEMMA FilterStep == TypeOK /\ FilterInv /\ [Next]_vars => FilterInv'
  <1> SUFFICES ASSUME TypeOK, FilterInv, [Next]_vars PROVE FilterInv'
    OBVIOUS
  <1> USE DEF FilterInv
  <1>1. CASE UNCHANGED pending
    BY <1>1
  <1>2. CASE Elapse
    BY <1>2 DEF Elapse
  <1>3. ASSUME NEW resolved \in [DOMAIN pending -> Names], ShutdownSeen(resolved)
        PROVE  FilterInv'
    BY <1>3 DEF ShutdownSeen, NoPending
  <1>4. ASSUME NEW name \in Names, RecvEvent(name) PROVE FilterInv'
    BY <1>4, FeedType DEF RecvEvent, Filtered, TypeOK, Feed
  <1>5. ASSUME NEW resolved \in [DOMAIN pending -> Names], Tick(resolved)
        PROVE  FilterInv'
    BY <1>5 DEF Tick, Without
  <1> QED
    BY <1>1, <1>2, <1>3, <1>4, <1>5
    DEF Next, Environment, vars, TrySend, TrySendFails, DropSender,
        SignalShutdown, RecvClosed, SendRecord, TickDone, FlushDone,
        WriterRecv, WriterInsert, WriterFails, WriterStops

(* A feed restarts the quiet period and a drain takes the file out of the   *)
(* map, so an aggregation is never older than the file's last row.          *)
LEMMA QuietStep == TypeOK /\ QuietInv /\ [Next]_vars => QuietInv'
  <1> SUFFICES ASSUME TypeOK, QuietInv, [Next]_vars PROVE QuietInv'
    OBVIOUS
  <1> USE DEF QuietInv
  <1>1. CASE UNCHANGED <<pending, sinceRow>>
    BY <1>1
  <1>2. CASE Elapse
    <2>1. \A m, n \in 0 .. Debounce : m <= n => Older(m) <= Older(n)
      BY SizeAssumption DEF Older
    <2>2. \A f \in DOMAIN pending :
             pending[f].quiet \in 0 .. Debounce /\ sinceRow[f] \in 0 .. Debounce
      BY DEF TypeOK, Entry
    <2>3. \A f \in DOMAIN pending' :
             /\ f \in DOMAIN pending
             /\ pending'[f].quiet = Older(pending[f].quiet)
             /\ sinceRow'[f] = Older(sinceRow[f])
      BY <1>2 DEF Elapse, TypeOK, Entry
    <2> QED
      BY <2>1, <2>2, <2>3
  <1>3. ASSUME NEW resolved \in [DOMAIN pending -> Names], ShutdownSeen(resolved)
        PROVE  QuietInv'
    BY <1>3 DEF ShutdownSeen, NoPending
  <1>4. ASSUME NEW name \in Names, RecvEvent(name) PROVE QuietInv'
    <2>1. CASE pending' = pending
      BY <1>4, <2>1 DEF RecvEvent
    <2>2. CASE pending' = Feed(Head(raw))
      <3>1. Head(raw) \in Event
        BY <1>4 DEF RecvEvent, TypeOK
      <3>2. \A e \in Event : \A f \in DOMAIN Feed(e) :
               \/ f \in DOMAIN pending /\ Feed(e)[f] = pending[f]
               \/ f \in Files /\ Feed(e)[f].quiet = 0
        BY DEF Feed, Event
      <3>3. \A f \in Files : sinceRow[f] >= 0
        BY DEF TypeOK
      <3> QED
        BY <1>4, <2>2, <3>1, <3>2, <3>3 DEF RecvEvent
    <2> QED
      BY <1>4, <2>1, <2>2 DEF RecvEvent
  <1>5. ASSUME NEW resolved \in [DOMAIN pending -> Names], Tick(resolved)
        PROVE  QuietInv'
    <2>1. \A r \in outbox' : r.file \in Quiet
      BY <1>5, RowsOfType DEF Tick, Quiet
    <2>2. \A f \in DOMAIN pending' :
             /\ f \in DOMAIN pending
             /\ pending'[f] = pending[f]
             /\ sinceRow'[f] = sinceRow[f]
      BY <1>5, <2>1 DEF Tick, Without, TypeOK
    <2> QED
      BY <2>2
  <1> QED
    BY <1>1, <1>2, <1>3, <1>4, <1>5
    DEF Next, Environment, vars, TrySend, TrySendFails, DropSender,
        SignalShutdown, RecvClosed, SendRecord, TickDone, FlushDone,
        WriterRecv, WriterInsert, WriterFails, WriterStops

(* A drain makes one record of a file, and the writer takes a record only    *)
(* when it holds none.                                                       *)
LEMMA OneRowStep == TypeOK /\ OneRowInv /\ [Next]_vars => OneRowInv'
  <1> SUFFICES ASSUME TypeOK, OneRowInv, [Next]_vars PROVE OneRowInv'
    OBVIOUS
  <1> USE DEF OneRowInv
  <1>1. CASE UNCHANGED <<outbox, writing>>
    BY <1>1
  <1>2. ASSUME NEW resolved \in [DOMAIN pending -> Names],
               ShutdownSeen(resolved) \/ Tick(resolved)
        PROVE  OneRowInv'
    <2>1. \A F : \A r, s \in RowsOf(F, resolved) : r.file = s.file => r = s
      BY DEF RowsOf
    <2> QED
      BY <1>2, <2>1 DEF ShutdownSeen, Tick
  <1>3. ASSUME NEW r \in outbox, SendRecord(r) PROVE OneRowInv'
    BY <1>3 DEF SendRecord
  <1>4. CASE WriterRecv
    BY <1>4 DEF WriterRecv
  <1>5. ASSUME NEW r \in writing, WriterInsert(r) \/ WriterFails(r) PROVE OneRowInv'
    BY <1>5 DEF WriterInsert, WriterFails
  <1> QED
    BY <1>1, <1>2, <1>3, <1>4, <1>5
    DEF Next, Environment, vars, TrySend, TrySendFails, DropSender,
        SignalShutdown, Elapse, RecvEvent, RecvClosed, TickDone, FlushDone, WriterStops

-----------------------------------------------------------------------------
(* Records are stamped with the clock when they are drained, and the clock  *)
(* never goes back.                                                         *)
LEMMA StampStep == TypeOK /\ StampInv /\ [Next]_vars => StampInv'
  <1> SUFFICES ASSUME TypeOK, StampInv, [Next]_vars PROVE StampInv'
    OBVIOUS
  <1> USE DEF StampInv, InFlight
  <1>1. CASE UNCHANGED <<outbox, records, writing, log, clock>>
    BY <1>1
  <1>2. CASE Elapse
    <2>1. clock \in Nat /\ clock' \in Nat /\ clock <= clock'
      BY <1>2 DEF Elapse, TypeOK
    <2>2. \A r \in Row : r.at \in Nat
      BY DEF Row
    <2>3. /\ \A r \in outbox \cup writing : r.at \in Nat
          /\ \A j \in DOMAIN records : records[j].at \in Nat
          /\ \A i \in DOMAIN log : log[i].at \in Nat
      BY <2>2, ElementOfSeq DEF TypeOK
    <2> QED
      BY <1>2, <2>1, <2>3 DEF Elapse
  <1>3. ASSUME NEW resolved \in [DOMAIN pending -> Names],
               ShutdownSeen(resolved) \/ Tick(resolved)
        PROVE  StampInv'
    <2>1. \A r \in outbox' : r.at = clock
      BY <1>3, RowsOfType DEF ShutdownSeen, Tick, Quiet
    <2>2. clock \in Nat /\ UNCHANGED <<records, writing, log, clock>>
      BY <1>3 DEF ShutdownSeen, Tick, TypeOK
    <2> QED
      BY <2>1, <2>2
  <1>4. ASSUME NEW r \in outbox, SendRecord(r) PROVE StampInv'
    <2>1. \A j \in DOMAIN records' :
             (j \in DOMAIN records /\ records'[j] = records[j]) \/ records'[j] = r
      BY <1>4, AppendElements DEF SendRecord, TypeOK
    <2> QED
      BY <1>4, <2>1 DEF SendRecord
  <1>5. CASE WriterRecv
    BY <1>5, TailElements DEF WriterRecv, TypeOK
  <1>6. ASSUME NEW r \in writing, WriterInsert(r) PROVE StampInv'
    <2>1. \A i \in DOMAIN log' :
             (i \in DOMAIN log /\ log'[i] = log[i]) \/ log'[i] = r
      BY <1>6, AppendElements DEF WriterInsert, TypeOK
    <2> QED
      BY <1>6, <2>1 DEF WriterInsert
  <1>7. ASSUME NEW r \in writing, WriterFails(r) PROVE StampInv'
    BY <1>7 DEF WriterFails
  <1> QED
    BY <1>1, <1>2, <1>3, <1>4, <1>5, <1>6, <1>7
    DEF Next, Environment, vars, TrySend, TrySendFails, DropSender,
        SignalShutdown, RecvEvent, RecvClosed, TickDone, FlushDone, WriterStops

(* A record overtakes none that was drained before it: it is stamped no      *)
(* earlier than anything already drained, and the channel and the writer     *)
(* keep the order in which a batch was sent.                                 *)
LEMMA OrderStep ==
    TypeOK /\ StageInv /\ StampInv /\ RowsInTimeOrder /\ [Next]_vars => RowsInTimeOrder'
  <1> SUFFICES ASSUME TypeOK, StageInv, StampInv, RowsInTimeOrder, [Next]_vars
               PROVE  RowsInTimeOrder'
    OBVIOUS
  <1> USE DEF RowsInTimeOrder
  <1>1. CASE UNCHANGED <<outbox, records, writing, log>>
    BY <1>1
  <1>2. ASSUME NEW resolved \in [DOMAIN pending -> Names],
               ShutdownSeen(resolved) \/ Tick(resolved)
        PROVE  RowsInTimeOrder'
    <2>1. \A r \in outbox' : r.at = clock
      BY <1>2, RowsOfType DEF ShutdownSeen, Tick, Quiet
    <2>2. UNCHANGED <<records, writing, log, clock>>
      BY <1>2 DEF ShutdownSeen, Tick
    <2>3. /\ \A i \in DOMAIN log : log[i].at <= clock
          /\ \A w \in writing : w.at <= clock
          /\ \A j \in DOMAIN records : records[j].at <= clock
      BY DEF StampInv, InFlight
    <2> QED
      BY <2>1, <2>2, <2>3
  <1>3. ASSUME NEW r \in outbox, SendRecord(r) PROVE RowsInTimeOrder'
    <2>1. \A j \in DOMAIN records' :
             \/ j \in DOMAIN records /\ records'[j] = records[j]
             \/ j = Len(records) + 1 /\ records'[j] = r
      BY <1>3, AppendElements DEF SendRecord, TypeOK
    <2>2. \A s \in outbox : s.at = r.at /\ r.at \in Nat
      BY DEF StampInv, TypeOK, Row
    <2> QED
      BY <1>3, <2>1, <2>2 DEF SendRecord, TypeOK
  <1>4. CASE WriterRecv
    <2>1. /\ 1 \in DOMAIN records /\ writing' = {records[1]}
          /\ \A j \in DOMAIN records' :
                j + 1 \in DOMAIN records /\ records'[j] = records[j + 1]
      BY <1>4, TailElements DEF WriterRecv, TypeOK
    <2> QED
      BY <1>4, <2>1 DEF WriterRecv, TypeOK
  <1>5. ASSUME NEW r \in writing, WriterInsert(r) PROVE RowsInTimeOrder'
    <2>1. \A i \in DOMAIN log' :
             \/ i \in DOMAIN log /\ log'[i] = log[i]
             \/ i = Len(log) + 1 /\ log'[i] = r
      BY <1>5, AppendElements DEF WriterInsert, TypeOK
    <2>2. DOMAIN log = 1 .. Len(log) /\ Len(log) \in Nat
      BY DEF TypeOK
    <2>3. UNCHANGED <<records, outbox>> /\ writing' = {}
      BY <1>5 DEF WriterInsert
    <2>4. \A i, j \in DOMAIN log' : i < j => log'[i].at <= log'[j].at
      BY <2>1, <2>2
    <2>5. /\ \A i \in DOMAIN log', j \in DOMAIN records : log'[i].at <= records[j].at
          /\ \A i \in DOMAIN log', q \in outbox : log'[i].at <= q.at
      BY <2>1
    <2> QED
      BY <2>3, <2>4, <2>5
  <1>6. ASSUME NEW r \in writing, WriterFails(r) PROVE RowsInTimeOrder'
    BY <1>6 DEF WriterFails
  <1> QED
    BY <1>1, <1>2, <1>3, <1>4, <1>5, <1>6
    DEF Next, Environment, vars, TrySend, TrySendFails, DropSender,
        SignalShutdown, Elapse, RecvEvent, RecvClosed, TickDone, FlushDone, WriterStops

(* A drain takes large enough aggregations of files that are in the map, and *)
(* the queues add no record of their own.                                    *)
LEMMA AdmissibleStep ==
    TypeOK /\ FilterInv /\ RowsAdmissible /\ [Next]_vars => RowsAdmissible'
  <1> SUFFICES ASSUME TypeOK, FilterInv, RowsAdmissible, [Next]_vars
               PROVE  RowsAdmissible'
    OBVIOUS
  <1> USE DEF RowsAdmissible, InFlight
  <1>1. CASE UNCHANGED <<outbox, records, writing, log>>
    BY <1>1
  <1>2. ASSUME NEW resolved \in [DOMAIN pending -> Names],
               ShutdownSeen(resolved) \/ Tick(resolved)
        PROVE  RowsAdmissible'
    <2>1. \A r \in outbox' : r.file \in DOMAIN pending /\ r.bytes >= Threshold
      BY <1>2, RowsOfType DEF ShutdownSeen, Tick, Quiet
    <2>2. UNCHANGED <<records, writing, log>>
      BY <1>2 DEF ShutdownSeen, Tick
    <2> QED
      BY <2>1, <2>2 DEF FilterInv
  <1>3. ASSUME NEW r \in outbox, SendRecord(r) PROVE RowsAdmissible'
    <2>1. \A j \in DOMAIN records' :
             (j \in DOMAIN records /\ records'[j] = records[j]) \/ records'[j] = r
      BY <1>3, AppendElements DEF SendRecord, TypeOK
    <2> QED
      BY <1>3, <2>1 DEF SendRecord
  <1>4. CASE WriterRecv
    BY <1>4, TailElements DEF WriterRecv, TypeOK
  <1>5. ASSUME NEW r \in writing, WriterInsert(r) PROVE RowsAdmissible'
    <2>1. \A i \in DOMAIN log' :
             (i \in DOMAIN log /\ log'[i] = log[i]) \/ log'[i] = r
      BY <1>5, AppendElements DEF WriterInsert, TypeOK
    <2> QED
      BY <1>5, <2>1 DEF WriterInsert
  <1>6. ASSUME NEW r \in writing, WriterFails(r) PROVE RowsAdmissible'
    BY <1>6 DEF WriterFails
  <1> QED
    BY <1>1, <1>2, <1>3, <1>4, <1>5, <1>6
    DEF Next, Environment, vars, TrySend, TrySendFails, DropSender,
        SignalShutdown, Elapse, RecvEvent, RecvClosed, TickDone, FlushDone,
        WriterStops

-----------------------------------------------------------------------------
(* The parts hold together at the start and each step keeps all of them.     *)
THEOREM Invariant == Spec => []IInv
  <1>1. Init => IInv
    BY InitTypes
    DEF Init, IInv, StageInv, StampInv, QuietInv, OneRowInv, FilterInv,
        RowsInTimeOrder, RowsAdmissible, InFlight, NoPending
  <1>2. IInv /\ [Next]_vars => IInv'
    BY TypeStep, StageStep, StampStep, QuietStep, OneRowStep, FilterStep,
       OrderStep, AdmissibleStep DEF IInv
  <1> QED
    BY <1>1, <1>2, PTL DEF Spec

(* Ids and changed_at agree: whatever the interleaving of the callback, the  *)
(* debouncer and the writer, a later row of change_log is not an earlier one. *)
THEOREM TimeOrdered == Spec => []RowsInTimeOrder
  <1>1. IInv => RowsInTimeOrder
    BY DEF IInv
  <1> QED
    BY <1>1, Invariant, PTL

(* Nothing excluded by path and nothing below min_delta_bytes is recorded,   *)
(* from the periodic drain or from the final one.                            *)
THEOREM Admissible == Spec => []RowsAdmissible
  <1>1. IInv => RowsAdmissible
    BY DEF IInv
  <1> QED
    BY <1>1, Invariant, PTL

(* When the writer has stopped behind a flush, every queue of the pipeline   *)
(* and the map are empty.                                                    *)
THEOREM Flushed == Spec => []FlushedOnShutdown
  <1>1. IInv => FlushedOnShutdown
    BY DEF IInv, StageInv, FlushedOnShutdown
  <1> QED
    BY <1>1, Invariant, PTL

(* The debouncer never sends to a writer that has gone.                      *)
THEOREM SendSafe == Spec => []SendsReachWriter
  <1>1. IInv => SendsReachWriter
    BY DEF IInv, TypeOK, StageInv, SendsReachWriter, TaskEnded
  <1> QED
    BY <1>1, Invariant, PTL

(* Two ticks that emit a row of one file are at least debounce_seconds       *)
(* apart: a drained entry has been quiet that long, and it was started after *)
(* the file's previous row.                                                  *)
THEOREM Spaced == Spec => RowsSpaced
  <1>1. IInv /\ [Next]_vars =>
          [\A f \in Files :
             (task = "select" /\ task' = "ticking" /\ \E r \in outbox' : r.file = f)
                 => sinceRow[f] >= Debounce]_vars
    <2> SUFFICES ASSUME IInv, [Next]_vars, NEW f \in Files,
                        task = "select", task' = "ticking",
                        \E r \in outbox' : r.file = f
                 PROVE  sinceRow[f] >= Debounce
      OBVIOUS
    <2>1. PICK resolved \in [DOMAIN pending -> Names] : Tick(resolved)
      BY DEF Next, Environment, vars, TrySend, TrySendFails, DropSender,
         SignalShutdown, Elapse, ShutdownSeen, RecvEvent, RecvClosed, SendRecord,
         TickDone, FlushDone, WriterRecv, WriterInsert, WriterFails, WriterStops
    <2>2. f \in Quiet
      BY <2>1, RowsOfType DEF Tick, Quiet, IInv
    <2>3. f \in DOMAIN pending /\ pending[f].quiet \in Nat /\ pending[f].quiet >= Debounce
      BY <2>2 DEF Quiet, IInv, TypeOK, Entry
    <2>4. sinceRow[f] \in Nat
      BY DEF IInv, TypeOK
    <2> QED
      BY <2>3, <2>4, SizeAssumption DEF IInv, QuietInv
  <1> QED
    BY <1>1, Invariant, PTL DEF Spec, RowsSpaced

-----------------------------------------------------------------------------
(* The account of bytes: what a drain, a send, a receive and an insert do  *)
(* to the bytes of each file in the place they take a record from and in *)
(* the place they put it. *)

(* A set of rows with one row of the file at most holds that row's bytes. *)
LEMMA BytesInFacts ==
    ASSUME NEW f
    PROVE  /\ \A rows : (\A r \in rows : r.file # f) => BytesIn(f, rows) = 0
           /\ \A rows : \A q \in rows :
                 (q.file = f /\ q.bytes \in Nat /\ \A r \in rows : r.file = f => r = q)
                    => BytesIn(f, rows) = q.bytes
  <1>1. ASSUME NEW rows, \A r \in rows : r.file # f PROVE BytesIn(f, rows) = 0
    <2>1. {r \in rows : r.file = f} = {}
      BY <1>1
    <2> QED
      BY <2>1, SumOfBytes, SumEmpty DEF BytesIn
  <1>2. ASSUME NEW rows, NEW q \in rows, q.file = f, q.bytes \in Nat,
               \A r \in rows : r.file = f => r = q
        PROVE  BytesIn(f, rows) = q.bytes
    <2> DEFINE b == [r \in {q} |-> r.bytes]
    <2>1. {r \in rows : r.file = f} = {q}
      BY <1>2
    <2>2. BytesIn(f, rows) = SumFunctionOnSet(b, {q})
      BY <2>1, SumOfBytes DEF BytesIn
    <2>3. SumFunctionOnSet(b, {q}) = SumFunctionOnSet(b, {q} \ {q}) + b[q]
      <3>1. IsFiniteSet({q}) /\ \A r \in {q} : b[r] \in Int
        BY <1>2, FS_Singleton
      <3> HIDE DEF b
      <3> QED
        BY <3>1, SumRemove
    <2>4. {q} \ {q} = {} /\ b[q] = q.bytes
      OBVIOUS
    <2> HIDE DEF b
    <2>5. SumFunctionOnSet(b, {q} \ {q}) = 0
      BY <2>4, SumEmpty
    <2> QED
      BY <1>2, <2>2, <2>3, <2>4, <2>5
  <1> QED
    BY <1>1, <1>2

(* What one record adds to the bytes of file f. *)
OwnBytes(f, r) == IF r.file = f THEN r.bytes ELSE 0

(* Where the records of file f stand in a queue. *)
Positions(f, queue) == {i \in DOMAIN queue : queue[i].file = f}

(* The bytes of a file along a queue are a sum over its positions there. *)
LEMMA BytesAlongSum ==
    ASSUME NEW f, NEW queue
    PROVE  BytesAlong(f, queue)
              = SumFunctionOnSet([i \in Positions(f, queue) |-> queue[i].bytes], Positions(f, queue))
  BY SumAlong DEF BytesAlong, Positions

(* A queue has finitely many positions, each holding a number of bytes. *)
LEMMA PositionsFinite ==
    ASSUME NEW f, NEW queue \in Seq(Row)
    PROVE  /\ IsFiniteSet(Positions(f, queue))
           /\ \A i \in Positions(f, queue) : queue[i].bytes \in Nat
  <1>1. IsFiniteSet(DOMAIN queue)
    <2>1. DOMAIN queue = 1 .. Len(queue) /\ Len(queue) \in Int
      OBVIOUS
    <2> QED
      BY <2>1, FS_Interval
  <1>2. IsFiniteSet(Positions(f, queue))
    BY <1>1, FS_Subset DEF Positions
  <1>3. \A i \in DOMAIN queue : queue[i].bytes \in Nat
    <2>1. \A i \in DOMAIN queue : queue[i] \in Row
      BY ElementOfSeq
    <2> QED
      BY <2>1, SizeAssumption DEF Row
  <1> QED
    BY <1>2, <1>3 DEF Positions

(* The bytes of a file along a queue are a natural number. *)
LEMMA BytesAlongNat ==
    ASSUME NEW f, NEW queue \in Seq(Row)
    PROVE  BytesAlong(f, queue) \in Nat
  <1> DEFINE D == Positions(f, queue)
             b == [i \in D |-> queue[i].bytes]
  <1>1. IsFiniteSet(D) /\ \A i \in D : b[i] \in Nat
    BY PositionsFinite
  <1>2. BytesAlong(f, queue) = SumFunctionOnSet(b, D)
    BY BytesAlongSum
  <1> HIDE DEF D, b
  <1> QED
    BY <1>1, <1>2, SumNat

(* Sending a record adds its bytes to those in the queue. *)
LEMMA BytesAlongAppend ==
    ASSUME NEW f, NEW queue \in Seq(Row), NEW q \in Row
    PROVE  BytesAlong(f, Append(queue, q)) = BytesAlong(f, queue) + OwnBytes(f, q)
  <1> DEFINE longer == Append(queue, q)
             D == Positions(f, queue)
             E == Positions(f, longer)
             n == Len(queue) + 1
             b == [i \in D |-> queue[i].bytes]
             c == [i \in E |-> longer[i].bytes]
  <1>1. /\ DOMAIN longer = DOMAIN queue \cup {n} /\ longer[n] = q /\ n \notin DOMAIN queue
        /\ \A i \in DOMAIN queue : longer[i] = queue[i]
        /\ longer \in Seq(Row)
    OBVIOUS
  <1>2. /\ IsFiniteSet(D) /\ \A i \in D : b[i] \in Nat
        /\ IsFiniteSet(E) /\ \A i \in E : c[i] \in Nat
    <2> HIDE DEF longer
    <2> QED
      BY <1>1, PositionsFinite
  <1>3. /\ BytesAlong(f, queue) = SumFunctionOnSet(b, D)
        /\ BytesAlong(f, longer) = SumFunctionOnSet(c, E)
    BY BytesAlongSum
  <1>4. D \subseteq E /\ \A i \in D : c[i] = b[i]
    BY <1>1 DEF Positions
  <1>5. (q.file = f => E = D \cup {n} /\ n \in E /\ E \ {n} = D /\ c[n] = q.bytes)
          /\ (q.file # f => E = D)
    BY <1>1 DEF Positions
  <1> HIDE DEF longer, D, E, n, b, c
  <1>6. SumFunctionOnSet(b, D) \in Nat
    BY <1>2, SumNat
  <1>7. SumFunctionOnSet(c, D) = SumFunctionOnSet(b, D)
    BY <1>2, <1>4, SumAgree
  <1>8. CASE q.file = f
    <2>1. SumFunctionOnSet(c, E) = SumFunctionOnSet(c, E \ {n}) + c[n]
      BY <1>2, <1>5, <1>8, SumRemove
    <2> QED
      BY <1>3, <1>5, <1>6, <1>7, <1>8, <2>1 DEF OwnBytes, longer
  <1>9. CASE q.file # f
    BY <1>3, <1>5, <1>6, <1>7, <1>9 DEF OwnBytes, longer
  <1> QED
    BY <1>8, <1>9

(* Receiving the first record of a queue takes its bytes out. *)
LEMMA BytesAlongTail ==
    ASSUME NEW f, NEW queue \in Seq(Row), queue # <<>>
    PROVE  BytesAlong(f, queue) = BytesAlong(f, Tail(queue)) + OwnBytes(f, Head(queue))
  <1> DEFINE rest == Tail(queue)
             D == Positions(f, queue)
             E == Positions(f, rest)
             b == [i \in D |-> queue[i].bytes]
             c == [i \in E |-> rest[i].bytes]
  <1>1. /\ rest \in Seq(Row) /\ DOMAIN rest = 1 .. Len(queue) - 1
        /\ DOMAIN queue = 1 .. Len(queue) /\ Len(queue) \in Nat /\ Len(queue) >= 1
        /\ Head(queue) = queue[1] /\ Head(queue) \in Row
        /\ \A i \in DOMAIN rest : rest[i] = queue[i + 1]
    OBVIOUS
  <1>2. /\ IsFiniteSet(D) /\ \A i \in D : b[i] \in Nat
        /\ IsFiniteSet(E) /\ \A i \in E : c[i] \in Nat
    <2> HIDE DEF rest
    <2> QED
      BY <1>1, PositionsFinite
  <1>3. /\ BytesAlong(f, queue) = SumFunctionOnSet(b, D)
        /\ BytesAlong(f, rest) = SumFunctionOnSet(c, E)
    BY BytesAlongSum
  <1>4. \A i \in E : i \in Nat /\ i + 1 \in D /\ i + 1 # 1 /\ c[i] = b[i + 1]
    BY <1>1 DEF Positions
  <1>5. /\ {i + 1 : i \in E} = D \ {1}
        /\ 1 \in D <=> Head(queue).file = f
        /\ 1 \in D => b[1] = Head(queue).bytes
    <2>1. ASSUME NEW j \in D \ {1} PROVE j \in {i + 1 : i \in E}
      <3>1. j - 1 \in E /\ (j - 1) + 1 = j
        BY <1>1 DEF Positions
      <3> QED
        BY <3>1
    <2>2. {i + 1 : i \in E} \subseteq D \ {1}
      BY <1>4
    <2>3. /\ 1 \in D <=> Head(queue).file = f
          /\ 1 \in D => b[1] = Head(queue).bytes
      BY <1>1 DEF Positions
    <2> QED
      BY <2>1, <2>2, <2>3
  <1> HIDE DEF rest, D, E, b, c
  <1>6. PICK g : IsSum(b, D, g)
    BY <1>2, SumExists
  <1> DEFINE h == [s \in SUBSET E |-> g[{i + 1 : i \in s}]]
  <1>7. IsSum(c, E, h)
    <2>1. \A s \in SUBSET E : {i + 1 : i \in s} \in SUBSET D
      BY <1>4
    <2>2. h \in [SUBSET E -> Int]
      BY <1>6, <2>1 DEF IsSum
    <2>3. h[{}] = 0
      <3>1. {i + 1 : i \in {}} = {}
        OBVIOUS
      <3> QED
        BY <1>6, <3>1 DEF IsSum
    <2>4. ASSUME NEW s \in SUBSET E, NEW x \in s PROVE h[s] = h[s \ {x}] + c[x]
      <3>1. {i + 1 : i \in s \ {x}} = {i + 1 : i \in s} \ {x + 1} /\ x + 1 \in {i + 1 : i \in s}
        BY <1>4
      <3>2. g[{i + 1 : i \in s}] = g[{i + 1 : i \in s} \ {x + 1}] + b[x + 1]
        BY <1>6, <2>1, <3>1 DEF IsSum
      <3>3. s \ {x} \in SUBSET E /\ c[x] = b[x + 1]
        BY <1>4
      <3> QED
        BY <3>1, <3>2, <3>3
    <2> HIDE DEF h
    <2> QED
      BY <2>2, <2>3, <2>4 DEF IsSum
  <1>8. SumFunctionOnSet(c, E) = g[D \ {1}]
    <2>1. SumFunctionOnSet(c, E) = h[E]
      <3> HIDE DEF h
      <3> QED
        BY <1>2, <1>7, SumBy
    <2> QED
      BY <1>5, <2>1
  <1>9. SumFunctionOnSet(b, D) = g[D]
    BY <1>2, <1>6, SumBy
  <1>10. SumFunctionOnSet(c, E) \in Nat
    BY <1>2, SumNat
  <1>11. CASE 1 \in D
    <2>1. g[D] = g[D \ {1}] + b[1]
      BY <1>6, <1>11 DEF IsSum
    <2> QED
      BY <1>3, <1>5, <1>8, <1>9, <1>10, <1>11, <2>1 DEF OwnBytes, rest
  <1>12. CASE 1 \notin D
    <2>1. D \ {1} = D
      BY <1>12
    <2>2. BytesAlong(f, queue) = BytesAlong(f, rest)
      BY <1>3, <1>8, <1>9, <2>1
    <2>3. OwnBytes(f, Head(queue)) = 0
      BY <1>5, <1>12 DEF OwnBytes
    <2> QED
      BY <1>3, <1>10, <2>2, <2>3 DEF rest
  <1> QED
    BY <1>11, <1>12

(* An empty queue holds no bytes. *)
LEMMA BytesAlongEmpty ==
    ASSUME NEW f, NEW queue, queue = <<>>
    PROVE  BytesAlong(f, queue) = 0
  <1> DEFINE D == Positions(f, queue)
             b == [i \in D |-> queue[i].bytes]
  <1>1. BytesAlong(f, queue) = SumFunctionOnSet(b, D)
    BY BytesAlongSum
  <1>2. D = {}
    BY DEF Positions
  <1> HIDE DEF b, D
  <1> QED
    BY <1>1, <1>2, SumEmpty

(* What the ledger's accounts are made of. *)
LEMMA AccountTypes ==
    ASSUME IInv, NEW f \in Files
    PROVE  /\ BytesOf(f) \in Nat /\ BytesOf(f) <= MaxBytes
           /\ BytesIn(f, outbox) \in Nat
           /\ BytesIn(f, writing) \in Nat
           /\ BytesAlong(f, records) \in Nat
           /\ BytesAlong(f, log) \in Nat
           /\ Outstanding[f] = BytesOf(f) + BytesIn(f, outbox) + BytesAlong(f, records)
                                   + BytesIn(f, writing)
           /\ Committed[f] = BytesAlong(f, log)
  <1> USE DEF IInv
  <1>1. BytesOf(f) \in Nat /\ BytesOf(f) <= MaxBytes
    BY SizeAssumption DEF TypeOK, Entry, BytesOf
  <1>2. \A r \in Row : r.bytes \in Nat
    BY SizeAssumption DEF Row
  <1>3. BytesIn(f, outbox) \in Nat
    <2>1. CASE \A r \in outbox : r.file # f
      BY <2>1, BytesInFacts
    <2>2. CASE \E r \in outbox : r.file = f
      <3>1. PICK q \in outbox : q.file = f
        BY <2>2
      <3>2. q.bytes \in Nat /\ \A r \in outbox : r.file = f => r = q
        BY <1>2, <3>1 DEF TypeOK, OneRowInv
      <3> QED
        BY <3>1, <3>2, BytesInFacts
    <2> QED
      BY <2>1, <2>2
  <1>4. BytesIn(f, writing) \in Nat
    <2>1. CASE \A r \in writing : r.file # f
      BY <2>1, BytesInFacts
    <2>2. CASE \E r \in writing : r.file = f
      <3>1. PICK q \in writing : q.file = f
        BY <2>2
      <3>2. q.bytes \in Nat /\ \A r \in writing : r.file = f => r = q
        BY <1>2, <3>1 DEF TypeOK, OneRowInv
      <3> QED
        BY <3>1, <3>2, BytesInFacts
    <2> QED
      BY <2>1, <2>2
  <1>5. BytesAlong(f, records) \in Nat /\ BytesAlong(f, log) \in Nat
    BY BytesAlongNat DEF TypeOK
  <1> QED
    BY <1>1, <1>3, <1>4, <1>5 DEF Outstanding, Committed

(* A batch holds of a file what the drained aggregation held, if it is enough. *)
LEMMA BytesDrained ==
    ASSUME TypeOK, NEW F \in SUBSET DOMAIN pending,
           NEW resolved \in [DOMAIN pending -> Names], NEW f
    PROVE  BytesIn(f, RowsOf(F, resolved)) =
              IF f \in F /\ pending[f].bytes >= Threshold THEN pending[f].bytes ELSE 0
  <1>1. CASE f \in F /\ pending[f].bytes >= Threshold
    <2> DEFINE q == [file |-> f, name |-> resolved[f], bytes |-> pending[f].bytes, at |-> clock]
    <2>1. /\ q \in RowsOf(F, resolved)
          /\ \A r \in RowsOf(F, resolved) : r.file = f => r = q
      BY <1>1 DEF RowsOf
    <2>2. q.file = f /\ q.bytes = pending[f].bytes /\ pending[f].bytes \in Nat
      BY <1>1, SizeAssumption DEF TypeOK, Entry
    <2> HIDE DEF q
    <2> QED
      BY <1>1, <2>1, <2>2, BytesInFacts
  <1>2. CASE ~(f \in F /\ pending[f].bytes >= Threshold)
    <2>1. \A r \in RowsOf(F, resolved) : r.file # f
      BY <1>2 DEF RowsOf
    <2> QED
      BY <1>2, <2>1, BytesInFacts
  <1> QED
    BY <1>1, <1>2

(* A set of one record holds the bytes of that record. *)
LEMMA BytesInSingle ==
    ASSUME NEW f, NEW q, q.bytes \in Nat
    PROVE  BytesIn(f, {q}) = OwnBytes(f, q)
  <1> DEFINE rows == {q}
  <1>1. q \in rows /\ \A r \in rows : r = q
    OBVIOUS
  <1> HIDE DEF rows
  <1>2. CASE q.file = f
    <2>1. BytesIn(f, rows) = q.bytes
      BY <1>1, <1>2, BytesInFacts
    <2> QED
      BY <1>2, <2>1 DEF OwnBytes, rows
  <1>3. CASE q.file # f
    <2>1. BytesIn(f, rows) = 0
      BY <1>1, <1>3, BytesInFacts
    <2> QED
      BY <1>3, <2>1 DEF OwnBytes, rows
  <1> QED
    BY <1>2, <1>3

(* Taking a record out of a batch takes its bytes out of those of its file. *)
LEMMA BytesInOneLess ==
    ASSUME NEW f, NEW rows, NEW q \in rows, q.bytes \in Nat,
           \A r, s \in rows : r.file = s.file => r = s
    PROVE  /\ q.file = f => BytesIn(f, rows) = q.bytes /\ BytesIn(f, rows \ {q}) = 0
           /\ q.file # f => BytesIn(f, rows \ {q}) = BytesIn(f, rows)
  <1>1. CASE q.file = f
    <2>1. BytesIn(f, rows) = q.bytes
      BY <1>1, BytesInFacts
    <2>2. BytesIn(f, rows \ {q}) = 0
      <3>1. \A r \in rows \ {q} : r.file # f
        BY <1>1
      <3> QED
        BY <3>1, BytesInFacts
    <2> QED
      BY <1>1, <2>1, <2>2
  <1>2. CASE q.file # f
    <2>1. {r \in rows : r.file = f} = {r \in rows \ {q} : r.file = f}
      BY <1>2
    <2> QED
      BY <1>2, <2>1 DEF BytesIn
  <1> QED
    BY <1>1, <1>2

-----------------------------------------------------------------------------
(* The steps of the pipeline, as steps of the ledger. *)

(* The pipeline starts with all accounts at zero. *)
LEMMA InitLedger == Init => BytesLedger!Init
  <1> SUFFICES ASSUME Init PROVE BytesLedger!Init
    OBVIOUS
  <1>1. ASSUME NEW f \in Files
        PROVE  /\ BytesOf(f) = 0 /\ BytesIn(f, outbox) = 0 /\ BytesIn(f, writing) = 0
               /\ BytesAlong(f, records) = 0 /\ BytesAlong(f, log) = 0
    BY BytesInFacts, BytesAlongEmpty DEF Init, NoPending, BytesOf
  <1>2. Outstanding = [f \in Files |-> 0] /\ Committed = [f \in Files |-> 0]
    BY <1>1 DEF Outstanding, Committed
  <1> QED
    BY <1>2 DEF Init, BytesLedger!Init

(* Records that move on, and steps that move none, leave the accounts alone. *)
LEMMA SameAccounts ==
    ASSUME UNCHANGED accepted,
           \A f \in Files : Outstanding'[f] = Outstanding[f] /\ Committed'[f] = Committed[f]
    PROVE  UNCHANGED BytesLedger!vars
  <1>1. Outstanding' = Outstanding /\ Committed' = Committed
    BY DEF Outstanding, Committed
  <1> QED
    BY <1>1 DEF BytesLedger!vars

(* The accounts after a step, place by place. *)
LEMMA NextAccounts ==
    ASSUME NEW f \in Files
    PROVE  /\ Outstanding'[f] = BytesOf(f)' + BytesIn(f, outbox') + BytesAlong(f, records')
                                   + BytesIn(f, writing')
           /\ Committed'[f] = BytesAlong(f, log')
  <1>1. Outstanding' = [g \in Files |-> BytesOf(g)' + BytesIn(g, outbox') + BytesAlong(g, records')
                                           + BytesIn(g, writing')]
    BY DEF Outstanding
  <1>2. Committed' = [g \in Files |-> BytesAlong(g, log')]
    BY DEF Committed
  <1> QED
    BY <1>1, <1>2

(* Records between the map and the writer are worth a row. *)
LEMMA RowBytes ==
    ASSUME IInv
    PROVE  /\ \A r \in outbox \cup writing : r \in Row /\ r.bytes \in Nat
           /\ \A r \in writing : r.bytes >= Threshold /\ r.file \in Files
  BY SizeAssumption DEF IInv, TypeOK, Row, RowsAdmissible, InFlight

(* A record that moves from the batch to the channel is counted there instead. *)
LEMMA SendKeepsAccounts ==
    ASSUME IInv, NEW r \in outbox, SendRecord(r)
    PROVE  UNCHANGED BytesLedger!vars
  <1>1. /\ UNCHANGED <<pending, writing, log, accepted>> /\ r \in Row /\ r.bytes \in Nat
        /\ records' = Append(records, r) /\ outbox' = outbox \ {r} /\ records \in Seq(Row)
    BY RowBytes DEF SendRecord, IInv, TypeOK
  <1>2. ASSUME NEW f \in Files
        PROVE  Outstanding'[f] = Outstanding[f] /\ Committed'[f] = Committed[f]
    <2>1. /\ r.file = f => BytesIn(f, outbox) = r.bytes /\ BytesIn(f, outbox') = 0
          /\ r.file # f => BytesIn(f, outbox') = BytesIn(f, outbox)
      <3>1. \A q, s \in outbox : q.file = s.file => q = s
        BY DEF IInv, OneRowInv
      <3> QED
        BY <1>1, <3>1, BytesInOneLess
    <2>2. BytesAlong(f, records') = BytesAlong(f, records) + OwnBytes(f, r)
      BY <1>1, BytesAlongAppend
    <2>3. /\ BytesIn(f, writing') = BytesIn(f, writing) /\ BytesAlong(f, log') = BytesAlong(f, log)
          /\ BytesOf(f)' = BytesOf(f)
      BY <1>1 DEF BytesOf
    <2>4. BytesIn(f, outbox') + BytesAlong(f, records') = BytesIn(f, outbox) + BytesAlong(f, records)
      <3>1. BytesIn(f, outbox) \in Nat /\ BytesAlong(f, records) \in Nat
        BY AccountTypes
      <3> QED
        BY <1>1, <2>1, <2>2, <3>1 DEF OwnBytes
    <2>5. BytesIn(f, outbox') \in Nat /\ BytesAlong(f, records') \in Nat
      <3>1. BytesIn(f, outbox) \in Nat /\ BytesAlong(f, records) \in Nat
        BY AccountTypes
      <3> QED
        BY <1>1, <2>1, <2>2, <3>1 DEF OwnBytes
    <2> QED
      BY <2>3, <2>4, <2>5, AccountTypes, NextAccounts
  <1> QED
    BY <1>1, <1>2, SameAccounts

(* A record the writer receives is counted with the writer instead. *)
LEMMA ReceiveKeepsAccounts ==
    ASSUME IInv, WriterRecv
    PROVE  UNCHANGED BytesLedger!vars
  <1>1. /\ UNCHANGED <<pending, outbox, log, accepted>>
        /\ writing = {} /\ writing' = {Head(records)} /\ records' = Tail(records)
        /\ records \in Seq(Row) /\ records # <<>>
    BY DEF WriterRecv, IInv, TypeOK
  <1>2. Head(records) \in Row /\ Head(records).bytes \in Nat /\ Tail(records) \in Seq(Row)
    <2>1. Head(records) \in Row /\ Tail(records) \in Seq(Row)
      BY <1>1
    <2> QED
      BY <2>1, SizeAssumption DEF Row
  <1>3. ASSUME NEW f \in Files
        PROVE  Outstanding'[f] = Outstanding[f] /\ Committed'[f] = Committed[f]
    <2>1. BytesAlong(f, records) = BytesAlong(f, records') + OwnBytes(f, Head(records))
      BY <1>1, BytesAlongTail
    <2>2. BytesIn(f, writing) = 0 /\ BytesIn(f, writing') = OwnBytes(f, Head(records))
      <3>1. BytesIn(f, writing) = 0
        BY <1>1, BytesInFacts
      <3> QED
        BY <1>1, <1>2, <3>1, BytesInSingle
    <2>3. /\ BytesIn(f, outbox') = BytesIn(f, outbox) /\ BytesAlong(f, log') = BytesAlong(f, log)
          /\ BytesOf(f)' = BytesOf(f)
      BY <1>1 DEF BytesOf
    <2>4. BytesAlong(f, records') \in Nat /\ OwnBytes(f, Head(records)) \in Nat
      BY <1>1, <1>2, BytesAlongNat DEF OwnBytes
    <2> QED
      BY <2>1, <2>2, <2>3, <2>4, AccountTypes, NextAccounts
  <1> QED
    BY <1>1, <1>3, SameAccounts

(* A record that leaves the writer, for change_log or with a warning. *)
LEMMA WriterSettles ==
    ASSUME IInv, NEW r \in writing, WriterInsert(r) \/ WriterFails(r)
    PROVE  /\ r.file \in Files /\ r.bytes \in Threshold .. Outstanding[r.file]
           /\ Outstanding' = [Outstanding EXCEPT ![r.file] = @ - r.bytes]
  <1>1. /\ UNCHANGED <<pending, outbox, records, accepted>> /\ writing = {r} /\ writing' = {}
    BY DEF WriterInsert, WriterFails, IInv, OneRowInv
  <1>2. r.file \in Files /\ r.bytes \in Nat /\ r.bytes >= Threshold
    BY RowBytes
  <1>3. \A f \in Files : BytesIn(f, writing) = OwnBytes(f, r) /\ BytesIn(f, writing') = 0
    BY <1>1, <1>2, BytesInFacts DEF OwnBytes
  <1>4. \A f \in Files : /\ BytesIn(f, outbox') = BytesIn(f, outbox)
                         /\ BytesAlong(f, records') = BytesAlong(f, records)
                         /\ BytesOf(f)' = BytesOf(f)
    BY <1>1 DEF BytesOf
  <1>5. r.bytes \in Threshold .. Outstanding[r.file]
    BY <1>2, <1>3, AccountTypes, SizeAssumption DEF OwnBytes
  <1>6. \A f \in Files : Outstanding'[f] = IF f = r.file THEN Outstanding[f] - r.bytes
                                            ELSE Outstanding[f]
    BY <1>2, <1>3, <1>4, AccountTypes, NextAccounts DEF OwnBytes
  <1>7. Outstanding' = [Outstanding EXCEPT ![r.file] = @ - r.bytes]
    BY <1>6 DEF Outstanding
  <1> QED
    BY <1>2, <1>5, <1>7

(* A drain gives up what is below the threshold and puts the rest in records. *)
LEMMA DrainForgoes ==
    ASSUME IInv, NEW F \in SUBSET DOMAIN pending, NEW resolved \in [DOMAIN pending -> Names],
           outbox = {}, outbox' = RowsOf(F, resolved), pending' = Without(F),
           UNCHANGED <<records, writing, log, accepted>>
    PROVE  BytesLedger!Forgo \/ UNCHANGED BytesLedger!vars
  <1> DEFINE loss == [f \in Files |-> IF f \in F /\ pending[f].bytes < Threshold
                                      THEN pending[f].bytes ELSE 0]
  <1>1. /\ DOMAIN pending \subseteq Files
        /\ \A f \in DOMAIN pending : pending[f].bytes \in Nat
        /\ Threshold \in Nat
    BY SizeAssumption DEF IInv, TypeOK, Entry
  <1>2. ASSUME NEW f \in Files
        PROVE  /\ Outstanding'[f] = Outstanding[f] - loss[f]
               /\ loss[f] <= Outstanding[f] /\ loss[f] \in Nat
               /\ Committed'[f] = Committed[f]
               /\ loss[f] # 0 => loss[f] < Threshold
    <2>1. BytesIn(f, outbox) = 0
      BY BytesInFacts
    <2>2. /\ BytesIn(f, writing') = BytesIn(f, writing) /\ BytesAlong(f, log') = BytesAlong(f, log)
          /\ BytesAlong(f, records') = BytesAlong(f, records)
      OBVIOUS
    <2>3. BytesIn(f, outbox') = IF f \in F /\ pending[f].bytes >= Threshold
                                THEN pending[f].bytes ELSE 0
      BY BytesDrained DEF IInv
    <2>4. BytesOf(f) = (IF f \in DOMAIN pending THEN pending[f].bytes ELSE 0)
          /\ BytesOf(f)' = (IF f \in DOMAIN pending /\ f \notin F THEN pending[f].bytes ELSE 0)
      BY DEF BytesOf, Without
    <2>5. BytesOf(f)' + BytesIn(f, outbox') + loss[f] = BytesOf(f)
      BY <1>1, <2>3, <2>4
    <2>6. /\ BytesOf(f)' \in Nat /\ BytesIn(f, outbox') \in Nat /\ loss[f] \in Nat
          /\ loss[f] # 0 => loss[f] < Threshold
      BY <1>1, <2>3, <2>4
    <2> HIDE DEF loss
    <2> QED
      BY <2>1, <2>2, <2>5, <2>6, AccountTypes, NextAccounts
  <1>3. CASE \A f \in Files : loss[f] = 0
    <2>1. \A f \in Files : Outstanding'[f] = Outstanding[f] /\ Committed'[f] = Committed[f]
      <3> HIDE DEF loss
      <3> QED
        BY <1>2, <1>3, AccountTypes
    <2> QED
      BY <2>1, SameAccounts
  <1>4. CASE \E f \in Files : loss[f] # 0
    <2>1. loss \in [Files -> 0 .. Threshold - 1]
      <3>1. Threshold >= 1
        <4> HIDE DEF loss
        <4> QED
          BY <1>1, <1>2, <1>4
      <3>2. \A f \in Files : loss[f] \in 0 .. Threshold - 1
        <4> HIDE DEF loss
        <4> QED
          BY <1>1, <1>2, <3>1
      <3> QED
        BY <3>2
    <2> HIDE DEF loss
    <2>2. Outstanding' = [f \in Files |-> Outstanding[f] - loss[f]]
      BY <1>2 DEF Outstanding
    <2>3. Committed' = Committed
      BY <1>2 DEF Committed
    <2> QED
      BY <1>2, <2>1, <2>2, <2>3 DEF BytesLedger!Forgo
  <1> QED
    BY <1>3, <1>4

(* Feeding an event accepts the bytes the counter could take. *)
LEMMA FeedAccepts ==
    ASSUME IInv, NEW e \in Event, pending' = Feed(e),
           accepted' = [accepted EXCEPT ![e.file] = @ + (pending'[e.file].bytes - BytesOf(e.file))],
           UNCHANGED <<outbox, records, writing, log>>
    PROVE  e.file \in Files /\ BytesLedger!Accept(e.file)
  <1> DEFINE n == pending'[e.file].bytes - BytesOf(e.file)
  <1>1. e.file \in Files /\ n \in 0 .. MaxBytes /\ pending'[e.file].bytes \in Nat
    <2>1. e.file \in DOMAIN pending' /\ pending'[e.file] \in Entry /\ n \in Nat
      BY FeedType DEF IInv
    <2>2. pending'[e.file].bytes \in 0 .. MaxBytes /\ e.file \in Files
      BY <2>1 DEF Entry, Event
    <2>3. BytesOf(e.file) \in Nat
      BY <2>2, AccountTypes
    <2> QED
      BY <2>1, <2>2, <2>3, SizeAssumption
  <1>2. ASSUME NEW f \in Files
        PROVE  /\ Outstanding'[f] = IF f = e.file THEN Outstanding[f] + n ELSE Outstanding[f]
               /\ Committed'[f] = Committed[f]
    <2>1. /\ BytesIn(f, writing') = BytesIn(f, writing) /\ BytesAlong(f, log') = BytesAlong(f, log)
          /\ BytesAlong(f, records') = BytesAlong(f, records)
          /\ BytesIn(f, outbox') = BytesIn(f, outbox)
      OBVIOUS
    <2>2. BytesOf(f)' = IF f = e.file THEN pending'[e.file].bytes ELSE BytesOf(f)
      BY DEF BytesOf, Feed
    <2>3. BytesOf(f)' = IF f = e.file THEN BytesOf(f) + n ELSE BytesOf(f)
      <3>1. BytesOf(f) \in Nat
        BY AccountTypes
      <3> QED
        BY <1>1, <2>2, <3>1
    <2> HIDE DEF n
    <2> QED
      BY <1>1, <2>1, <2>3, AccountTypes, NextAccounts
  <1> HIDE DEF n
  <1>3. Outstanding' = [Outstanding EXCEPT ![e.file] = @ + n] /\ Committed' = Committed
    BY <1>1, <1>2 DEF Outstanding, Committed
  <1>4. accepted' = [accepted EXCEPT ![e.file] = @ + n]
    BY DEF n
  <1> QED
    BY <1>1, <1>3, <1>4 DEF BytesLedger!Accept

(* Every step of the pipeline is one of the ledger or leaves it alone. *)
LEMMA LedgerStep == IInv /\ [Next]_vars => [BytesLedger!Next]_(BytesLedger!vars)
  <1> SUFFICES ASSUME IInv, [Next]_vars PROVE [BytesLedger!Next]_(BytesLedger!vars)
    OBVIOUS
  <1>1. CASE UNCHANGED <<pending, outbox, records, writing, log, accepted>>
    <2>1. \A f \in Files : Outstanding'[f] = Outstanding[f] /\ Committed'[f] = Committed[f]
      BY <1>1 DEF Outstanding, Committed, BytesOf
    <2> QED
      BY <1>1, <2>1, SameAccounts
  <1>2. ASSUME NEW resolved \in [DOMAIN pending -> Names], Tick(resolved)
        PROVE  BytesLedger!Next \/ UNCHANGED BytesLedger!vars
    <2>1. Quiet \in SUBSET DOMAIN pending /\ outbox = {}
      BY <1>2 DEF Quiet, Tick, IInv, StageInv
    <2>2. BytesLedger!Forgo \/ UNCHANGED BytesLedger!vars
      BY <1>2, <2>1, DrainForgoes DEF Tick
    <2> QED
      BY <2>2 DEF BytesLedger!Next
  <1>3. ASSUME NEW resolved \in [DOMAIN pending -> Names], ShutdownSeen(resolved)
        PROVE  BytesLedger!Next \/ UNCHANGED BytesLedger!vars
    <2>1. outbox = {} /\ NoPending = Without(DOMAIN pending)
      BY <1>3 DEF ShutdownSeen, IInv, StageInv, NoPending, Without
    <2>2. BytesLedger!Forgo \/ UNCHANGED BytesLedger!vars
      BY <1>3, <2>1, DrainForgoes DEF ShutdownSeen
    <2> QED
      BY <2>2 DEF BytesLedger!Next
  <1>4. ASSUME NEW name \in Names, RecvEvent(name)
        PROVE  BytesLedger!Next \/ UNCHANGED BytesLedger!vars
    <2>1. Head(raw) \in Event
      BY <1>4 DEF RecvEvent, IInv, TypeOK
    <2>2. CASE Filtered(Head(raw), name)
      BY <1>1, <1>4, <2>2 DEF RecvEvent
    <2>3. CASE ~Filtered(Head(raw), name)
      <3>1. BytesLedger!Accept(Head(raw).file) /\ Head(raw).file \in Files
        BY <1>4, <2>1, <2>3, FeedAccepts DEF RecvEvent
      <3> QED
        BY <3>1 DEF BytesLedger!Next
    <2> QED
      BY <2>2, <2>3
  <1>5. ASSUME NEW r \in outbox, SendRecord(r) PROVE UNCHANGED BytesLedger!vars
    BY <1>5, SendKeepsAccounts
  <1>6. CASE WriterRecv
    BY <1>6, ReceiveKeepsAccounts
  <1>7. ASSUME NEW r \in writing, WriterInsert(r) PROVE BytesLedger!Next
    <2>1. /\ r.file \in Files /\ r.bytes \in Threshold .. Outstanding[r.file]
          /\ Outstanding' = [Outstanding EXCEPT ![r.file] = @ - r.bytes]
      BY <1>7, WriterSettles
    <2>2. r \in Row /\ log \in Seq(Row) /\ log' = Append(log, r) /\ accepted' = accepted
      BY <1>7, RowBytes DEF WriterInsert, IInv, TypeOK
    <2>3. Committed' = [Committed EXCEPT ![r.file] = @ + r.bytes]
      <3>1. ASSUME NEW f \in Files
            PROVE  Committed'[f] = IF f = r.file THEN Committed[f] + r.bytes ELSE Committed[f]
        <4>1. BytesAlong(f, log') = BytesAlong(f, log) + OwnBytes(f, r)
          BY <2>2, BytesAlongAppend
        <4> QED
          BY <4>1, AccountTypes, NextAccounts DEF OwnBytes
      <3> QED
        BY <3>1 DEF Committed
    <2>4. BytesLedger!Commit(r.file)
      BY <2>1, <2>2, <2>3 DEF BytesLedger!Commit
    <2> QED
      BY <2>1, <2>4 DEF BytesLedger!Next
  <1>8. ASSUME NEW r \in writing, WriterFails(r) PROVE BytesLedger!Next
    <2>1. /\ r.file \in Files /\ r.bytes \in Threshold .. Outstanding[r.file]
          /\ Outstanding' = [Outstanding EXCEPT ![r.file] = @ - r.bytes]
      BY <1>8, WriterSettles
    <2>2. Committed' = Committed /\ accepted' = accepted
      BY <1>8 DEF WriterFails, Committed
    <2>3. BytesLedger!Fail(r.file)
      BY <2>1, <2>2 DEF BytesLedger!Fail
    <2> QED
      BY <2>1, <2>3 DEF BytesLedger!Next
  <1>9. CASE Elapse
    <2>1. \A f : BytesOf(f)' = BytesOf(f)
      <3>1. DOMAIN pending' = DOMAIN pending
            /\ \A f \in DOMAIN pending : pending[f] \in Entry /\ pending'[f].bytes = pending[f].bytes
        BY <1>9 DEF Elapse, IInv, TypeOK, Entry
      <3> QED
        BY <3>1 DEF BytesOf
    <2>2. UNCHANGED <<outbox, records, writing, log, accepted>>
      BY <1>9 DEF Elapse
    <2>3. \A f \in Files : Outstanding'[f] = Outstanding[f] /\ Committed'[f] = Committed[f]
      BY <2>1, <2>2 DEF Outstanding, Committed
    <2> QED
      BY <2>2, <2>3, SameAccounts
  <1> QED
    BY <1>1, <1>2, <1>3, <1>4, <1>5, <1>6, <1>7, <1>8, <1>9
    DEF Next, Environment, vars, TrySend, TrySendFails, DropSender,
        SignalShutdown, RecvClosed, TickDone, FlushDone, WriterStops

(* Whatever the interleaving of callback, tasks, shutdown and time: per file, *)
(* bytes the map took in reach change_log at most once, and are given up only *)
(* below min_delta_bytes, when drained, or with a row whose insert failed. *)
THEOREM LedgerImplemented == Spec => ImplementsLedger
  BY InitLedger, LedgerStep, Invariant, PTL DEF Spec, ImplementsLedger, BytesLedger!Spec

(* A byte the filters let in is at no time both in change_log and on its way *)
(* there, and never in two rows. *)
THEOREM NoByteTwice == Spec => []BytesLedger!Balanced
  <1>1. Init => BytesLedger!TypeOK /\ BytesLedger!Balanced
    <2> SUFFICES ASSUME Init PROVE BytesLedger!TypeOK /\ BytesLedger!Balanced
      OBVIOUS
    <2>1. /\ accepted = [f \in Files |-> 0] /\ Outstanding = [f \in Files |-> 0]
          /\ Committed = [f \in Files |-> 0]
      BY InitLedger DEF BytesLedger!Init
    <2> QED
      BY <2>1 DEF BytesLedger!TypeOK, BytesLedger!Balanced
  <1>2. BytesLedger!TypeOK /\ BytesLedger!Balanced /\ [BytesLedger!Next]_(BytesLedger!vars)
            => BytesLedger!TypeOK' /\ BytesLedger!Balanced'
    <2> SUFFICES ASSUME BytesLedger!TypeOK, BytesLedger!Balanced,
                        [BytesLedger!Next]_(BytesLedger!vars)
                 PROVE  BytesLedger!TypeOK' /\ BytesLedger!Balanced'
      OBVIOUS
    <2> USE SizeAssumption DEF BytesLedger!TypeOK, BytesLedger!Balanced
    <2>1. ASSUME NEW f \in Files, BytesLedger!Accept(f)
          PROVE  BytesLedger!TypeOK' /\ BytesLedger!Balanced'
      BY <2>1 DEF BytesLedger!Accept
    <2>2. ASSUME NEW f \in Files, BytesLedger!Commit(f)
          PROVE  BytesLedger!TypeOK' /\ BytesLedger!Balanced'
      BY <2>2 DEF BytesLedger!Commit
    <2>3. ASSUME NEW f \in Files, BytesLedger!Fail(f)
          PROVE  BytesLedger!TypeOK' /\ BytesLedger!Balanced'
      BY <2>3 DEF BytesLedger!Fail
    <2>4. CASE BytesLedger!Forgo
      BY <2>4 DEF BytesLedger!Forgo
    <2>5. CASE UNCHANGED BytesLedger!vars
      BY <2>5 DEF BytesLedger!vars
    <2> QED
      BY <2>1, <2>2, <2>3, <2>4, <2>5 DEF BytesLedger!Next
  <1> QED
    BY <1>1, <1>2, LedgerStep, Invariant, PTL DEF Spec
=============================================================================
