----------------------------- MODULE RecorderProofs -----------------------------
(***************************************************************************)
(* The pipeline and the database together implement Database, and what     *)
(* Debouncer and Database promise holds of them over any number of lives.  *)
(***************************************************************************)
EXTENDS Recorder, DebouncerProofs

USE DEF outside, sink, loop, history, dbState

\* The limit is that of a query: it plays no part here.
DbProofs == INSTANCE DatabaseProofs WITH Sizes <- 0 .. MaxBytes, MaxGrowers <- 20

(* The two instances of Database are one.                                    *)
LEMMA SameDatabase ==
  /\ Db!DbInit => DbProofs!DbInit
  /\ [Db!DbNext]_(Db!dbVars) => [DbProofs!DbNext]_(DbProofs!dbVars)
  BY DEF DbProofs!DbInit, Db!DbInit, DbProofs!EmptyDatabase, Db!EmptyDatabase,
         DbProofs!OldestLimit, Db!OldestLimit, DbProofs!DbNext, Db!DbNext,
         DbProofs!NewRecords, Db!NewRecords, DbProofs!Begin, Db!Begin,
         DbProofs!InsertRow, Db!InsertRow, DbProofs!WithRow, Db!WithRow,
         DbProofs!RowWith, Db!RowWith, DbProofs!KeyOf, Db!KeyOf,
         DbProofs!UpsertLine, Db!UpsertLine, DbProofs!WithLine, Db!WithLine,
         DbProofs!Day, Db!Day, DbProofs!Commit, Db!Commit, DbProofs!Rollback, Db!Rollback,
         DbProofs!Open, Db!Open, DbProofs!DeleteOlder, Db!DeleteOlder,
         DbProofs!Pruned, Db!Pruned, DbProofs!Limit, Db!Limit, DbProofs!Exit, Db!Exit,
         DbProofs!Second, Db!Second, DbProofs!dbVars, Db!dbVars

(* What the pipeline, the database and the two together keep. *)
Together == IInv /\ DbProofs!DbInv /\ RecorderInv

(* What insert is given is a record of the database.                         *)
LEMMA RecordOfType ==
  ASSUME NEW r \in Row
  PROVE  /\ RecordOf(r).at = r.at /\ RecordOf(r).bytes \in 0 .. MaxBytes
         /\ RecordOf(r).label \in Labels /\ RecordOf(r).category \in Categories
  BY RecorderAssumption DEF Row, RecordOf

(* The pipeline's own steps are steps of Debouncer.                          *)
LEMMA PipelineNext ==
  /\ PipelineStep => Next
  /\ \A r \in writing : Commits(r) => Next
  /\ \A r \in writing : InsertFails(r) => Next
  /\ TimePasses => Next
  BY DEF PipelineStep, Commits, InsertFails, TimePasses, Next, Environment

(* Debouncer's invariant survives the end of a process, which empties all it *)
(* speaks of, and the time until the next one.                               *)
LEMMA PipelineInv == IInv /\ [RecorderNext]_recorderVars => IInv'
  <1> SUFFICES ASSUME IInv, [RecorderNext]_recorderVars PROVE IInv'
    OBVIOUS
  <1>1. CASE [Next]_vars
    BY <1>1, TypeStep, StageStep, StampStep, QuietStep, OneRowStep, FilterStep,
       OrderStep, AdmissibleStep DEF IInv
  <1>2. CASE Ends
    <2>1. NoPending \in [DOMAIN NoPending -> Entry] /\ DOMAIN NoPending = {}
      BY DEF NoPending
    <2>2. <<>> \in Seq(Event) /\ <<>> \in Seq(Row) /\ DOMAIN <<>> = {}
      OBVIOUS
    <2>3. [f \in Files |-> Debounce] \in [Files -> 0 .. Debounce]
              /\ [f \in Files |-> 0] \in [Files -> Nat]
      BY SizeAssumption
    <2>4. TypeOK'
      BY <1>2, <2>1, <2>2, <2>3 DEF Ends, IInv, TypeOK
    <2> QED
      BY <1>2, <2>1, <2>2, <2>4
      DEF Ends, IInv, StageInv, StampInv, QuietInv, OneRowInv, FilterInv,
          RowsInTimeOrder, RowsAdmissible, InFlight
  <1>3. CASE TimePassesWithout
    <2>1. clock \in Nat /\ clock' = clock + 1
      BY <1>3 DEF TimePassesWithout, Db!Second, IInv, TypeOK
    <2>2. TypeOK'
      BY <1>3, <2>1 DEF TimePassesWithout, Db!Second, IInv, TypeOK
    <2>3. StampInv'
      <3>1. /\ \A r \in outbox \cup writing : r.at \in Nat
            /\ records \in Seq(Row) /\ log \in Seq(Row)
        BY DEF IInv, TypeOK, Row
      <3>2. /\ \A j \in DOMAIN records : records[j] \in Row
            /\ \A j \in DOMAIN log : log[j] \in Row
        BY <3>1
      <3>3. /\ \A j \in DOMAIN records : records[j].at \in Nat
            /\ \A j \in DOMAIN log : log[j].at \in Nat
        BY <3>2 DEF Row
      <3> QED
        BY <1>3, <2>1, <3>1, <3>3 DEF TimePassesWithout, IInv, StampInv, InFlight
    <2> QED
      BY <1>3, <2>2, <2>3
      DEF TimePassesWithout, IInv, StageInv, QuietInv, OneRowInv, FilterInv,
          RowsInTimeOrder, RowsAdmissible, InFlight, TaskEnded
  <1> QED
    BY <1>1, <1>2, <1>3, PipelineNext
    DEF RecorderNext, recorderVars, Opens, Prunes, InsertBegins, Statement

(* Every step is one of the database's or leaves it alone: what is inserted  *)
(* was stamped in this life and is no record of the future.                  *)
LEMMA DatabaseStep ==
  Together /\ [RecorderNext]_recorderVars => [Db!DbNext]_(Db!dbVars)
  <1> SUFFICES ASSUME Together, RecorderNext PROVE [Db!DbNext]_(Db!dbVars)
    BY DEF recorderVars, vars, Db!dbVars
  <1> USE DEF Db!DbNext, Db!dbVars
  <1>1. CASE Opens \/ Prunes
    BY <1>1 DEF Opens, Prunes
  <1>2. CASE PipelineStep
    <2>1. UNCHANGED clock
      BY <1>2 DEF PipelineStep, TrySend, TrySendFails, DropSender, SignalShutdown, ShutdownSeen,
                  Tick, RecvEvent, RecvClosed, SendRecord, TickDone, FlushDone, WriterRecv,
                  WriterStops
    <2> QED
      BY <1>2, <2>1 DEF PipelineStep
  <1>3. ASSUME NEW r \in writing, InsertBegins(r) PROVE Db!DbNext
    <2>1. r \in Row /\ r.at \in Nat
      BY DEF Together, IInv, TypeOK, Row
    <2>2. started <= r.at /\ r.at <= clock
      BY DEF Together, IInv, StampInv, InFlight, RecorderInv, StampedInLife, InTransit
    <2>3. started \in Nat /\ clock \in Nat
      BY DEF Together, DbProofs!DbInv, DbProofs!DbTypeOK, IInv, TypeOK
    <2>4. RecordOf(r) \in Db!NewRecords
      <3>1. RecordOf(r) = [at |-> r.at, label |-> RecordOf(r).label,
                           category |-> RecordOf(r).category, bytes |-> RecordOf(r).bytes]
        BY DEF RecordOf
      <3>2. r.at \in started .. clock
        BY <2>1, <2>2, <2>3
      <3> QED
        BY <2>1, <3>1, <3>2, RecordOfType DEF Db!NewRecords
    <2> QED
      BY <1>3, <2>4 DEF InsertBegins
  <1>4. ASSUME NEW r \in writing, Statement(r) PROVE Db!DbNext
    BY <1>4 DEF Statement, Db!InsertRow, Db!UpsertLine
  <1>5. ASSUME NEW r \in writing, Commits(r) PROVE Db!DbNext
    BY <1>5 DEF Commits
  <1>6. ASSUME NEW r \in writing, InsertFails(r) PROVE [Db!DbNext]_(Db!dbVars)
    BY <1>6 DEF InsertFails, WriterFails
  <1>7. CASE Ends \/ TimePassesWithout
    BY <1>7 DEF Ends, TimePassesWithout
  <1>8. CASE TimePasses
    BY <1>8 DEF TimePasses, Elapse, Db!Second
  <1> QED
    BY <1>1, <1>2, <1>3, <1>4, <1>5, <1>6, <1>7, <1>8 DEF RecorderNext

(* The database's invariant, carried over by that.                           *)
LEMMA DatabaseInv == Together /\ [RecorderNext]_recorderVars => DbProofs!DbInv'
  <1> SUFFICES ASSUME Together, [RecorderNext]_recorderVars PROVE DbProofs!DbInv'
    OBVIOUS
  <1>1. DbProofs!DbInv /\ [DbProofs!DbNext]_(DbProofs!dbVars)
    BY DatabaseStep, SameDatabase DEF Together
  <1>2. 0 .. MaxBytes \subseteq Nat
    OBVIOUS
  <1> QED
    BY <1>1, <1>2, RecorderAssumption, BoundAssumption,
       DbProofs!DbTypeStep, DbProofs!TransactionStep, DbProofs!IdsStep DEF DbProofs!DbInv

(* A commit adds the row of the record in hand, with the next id, and that   *)
(* record leaves the writer.                                                 *)
LEMMA CommitAdds ==
  ASSUME Together, NEW r \in writing, Commits(r)
  PROVE  /\ db'.log = db.log \cup {Db!RowWith(db.lastId + 1, RecordOf(r))}
         /\ db'.lastId = db.lastId + 1
         /\ inserting' = {} /\ writing' = {}
         /\ log' = Append(log, r)
         /\ UNCHANGED <<outbox, records, clock, started, process>>
  <1>1. /\ stage = "summed" /\ db' = work /\ inserting' = {} /\ writing' = {}
        /\ log' = Append(log, r)
        /\ UNCHANGED <<outbox, records, clock, started, process>>
    BY DEF Commits, Db!Commit, WriterInsert
  <1>2. inserting = {RecordOf(r)}
    BY <1>1 DEF Together, DbProofs!DbInv, DbProofs!TransactionInv, RecorderInv, InHand
  <1>3. db' = DbProofs!WithLine(DbProofs!WithRow(db, RecordOf(r)), RecordOf(r))
    BY <1>1, <1>2 DEF Together, DbProofs!DbInv, DbProofs!TransactionInv
  <1> QED
    BY <1>1, <1>3 DEF DbProofs!WithLine, DbProofs!WithRow, DbProofs!RowWith, Db!RowWith

(* What the steps of the pipeline leave in transit: what was, or rows that a *)
(* drain has just stamped.                                                   *)
LEMMA TransitStep ==
  ASSUME IInv, PipelineStep \/ TimePasses \/ \E r \in writing : InsertFails(r)
  PROVE  /\ \A r \in InTransit' : r \in InTransit \/ r.at = clock
         /\ log' = log
         /\ clock' \in Nat /\ clock <= clock'
         /\ (\A v, w \in writing : v = w) => \A v, w \in writing' : v = w
  <1> USE DEF InTransit
  <1>0. clock \in Nat /\ TypeOK /\ outbox \subseteq Row /\ records \in Seq(Row)
    BY DEF IInv, TypeOK
  <1>1. CASE UNCHANGED <<outbox, records, writing, log, clock>>
    BY <1>0, <1>1
  <1>2. CASE TimePasses
    BY <1>0, <1>2 DEF TimePasses, Elapse
  <1>3. ASSUME NEW r \in writing, InsertFails(r)
        PROVE  writing' = {} /\ UNCHANGED <<outbox, records, log, clock>>
    BY <1>3 DEF InsertFails, WriterFails
  <1>4. ASSUME NEW resolved \in [DOMAIN pending -> Names], ShutdownSeen(resolved) \/ Tick(resolved)
        PROVE  /\ \A r \in outbox' : r.at = clock
               /\ UNCHANGED <<records, writing, log, clock>>
    <2>1. Quiet \in SUBSET DOMAIN pending /\ DOMAIN pending \in SUBSET DOMAIN pending
      BY DEF Quiet
    <2> QED
      BY <1>0, <1>4, <2>1, RowsOfType DEF ShutdownSeen, Tick
  <1>5. ASSUME NEW r \in outbox, SendRecord(r)
        PROVE  /\ outbox' \cup {records'[k] : k \in DOMAIN records'} \subseteq InTransit
               /\ UNCHANGED <<writing, log, clock>>
    <2>1. records' = Append(records, r) /\ outbox' = outbox \ {r}
              /\ UNCHANGED <<writing, log, clock>>
      BY <1>5 DEF SendRecord
    <2>2. \A k \in DOMAIN records' : records'[k] \in InTransit
      BY <1>0, <2>1, AppendElements
    <2> QED
      BY <2>1, <2>2
  <1>6. CASE WriterRecv
    <2>1. records # <<>> /\ records' = Tail(records) /\ writing' = {Head(records)}
              /\ UNCHANGED <<outbox, log, clock>>
      BY <1>6 DEF WriterRecv
    <2>2. Head(records) \in InTransit /\ \A k \in DOMAIN records' : records'[k] \in InTransit
      BY <1>0, <2>1, TailElements
    <2> QED
      BY <1>0, <2>1, <2>2
  <1>7. CASE \/ \E e \in Event : TrySend(e)
             \/ \E e \in Event : TrySendFails(e)
             \/ \E s \in Senders : DropSender(s)
             \/ SignalShutdown
             \/ \E name \in Names : RecvEvent(name)
             \/ RecvClosed \/ TickDone \/ FlushDone \/ WriterStops
    BY <1>1, <1>7
    DEF TrySend, TrySendFails, DropSender, SignalShutdown, RecvEvent, RecvClosed, TickDone,
        FlushDone, WriterStops
  <1> QED
    BY <1>0, <1>2, <1>3, <1>4, <1>5, <1>6, <1>7 DEF PipelineStep

(* What is in transit when a step has no part in it.                         *)
LEMMA TransitKept == ASSUME UNCHANGED vars PROVE InTransit' = InTransit
  BY DEF vars, InTransit

(* Nothing is in transit, in a transaction or in this life's log while the   *)
(* process is down or being opened.                                          *)
LEMMA DownStep == Together /\ [RecorderNext]_recorderVars => QuietStart'
  <1> SUFFICES ASSUME Together, RecorderNext PROVE QuietStart'
    BY DEF Together, RecorderInv, QuietStart, InTransit, recorderVars, vars
  <1> USE DEF QuietStart
  <1>0. QuietStart
    BY DEF Together, RecorderInv
  <1>1. CASE Opens
    BY <1>0, <1>1, TransitKept DEF Opens, Db!Open, vars
  <1>2. CASE Prunes \/ PipelineStep \/ TimePasses \/ \E r \in writing : InsertFails(r)
    <2>1. process' = "up"
      BY <1>2 DEF PipelineStep, TimePasses, InsertFails, Prunes, Db!Rollback, Db!DeleteOlder
    <2> QED
      BY <2>1
  <1>3. ASSUME NEW r \in writing, InsertBegins(r) \/ Statement(r) \/ Commits(r)
        PROVE  QuietStart'
    <2>1. process = "up" /\ process' = "up"
      BY <1>0, <1>3
      DEF InsertBegins, Statement, Commits, Db!Begin, Db!InsertRow, Db!UpsertLine, Db!Commit
    <2> QED
      BY <2>1
  <1>4. CASE Ends
    BY <1>4 DEF Ends, Db!Exit, InTransit
  <1>5. CASE TimePassesWithout
    BY <1>0, <1>5 DEF TimePassesWithout, Db!Second, InTransit
  <1> QED
    BY <1>1, <1>2, <1>3, <1>4, <1>5 DEF RecorderNext

(* A transaction is begun for the record in hand and ends with it.           *)
LEMMA HandStep == Together /\ [RecorderNext]_recorderVars => InHand'
  <1> SUFFICES ASSUME Together, RecorderNext PROVE InHand'
    BY DEF Together, RecorderInv, InHand, recorderVars, vars
  <1> USE DEF InHand
  <1>0. /\ InHand /\ IInv
        /\ stage = "idle" => inserting = {}
    BY DEF Together, RecorderInv, DbProofs!DbInv, DbProofs!TransactionInv
  <1>1. CASE Opens \/ Prunes \/ TimePassesWithout \/ TimePasses
    BY <1>0, <1>1
    DEF Opens, Prunes, TimePassesWithout, TimePasses, Elapse, Db!Open, Db!DeleteOlder, Db!Second,
        vars
  <1>2. CASE PipelineStep
    <2>1. \A v, w \in writing' : v = w
      BY <1>0, <1>2, TransitStep
    <2>2. inserting' = inserting
      BY <1>2 DEF PipelineStep
    <2>3. writing' = writing \/ writing = {}
      BY <1>2 DEF PipelineStep, TrySend, TrySendFails, DropSender, SignalShutdown, ShutdownSeen,
                  Tick, RecvEvent, RecvClosed, SendRecord, TickDone, FlushDone, WriterRecv,
                  WriterStops
    <2> QED
      BY <1>0, <2>1, <2>2, <2>3
  <1>3. ASSUME NEW r \in writing, InsertBegins(r) PROVE InHand'
    <2>1. writing' = writing /\ inserting' = {RecordOf(r)}
      BY <1>3 DEF InsertBegins, Db!Begin, vars
    <2> QED
      BY <1>0, <2>1
  <1>4. ASSUME NEW r \in writing, Statement(r) PROVE InHand'
    BY <1>0, <1>4 DEF Statement, Db!InsertRow, Db!UpsertLine, vars
  <1>5. ASSUME NEW r \in writing, Commits(r) PROVE InHand'
    BY <1>5, CommitAdds
  <1>6. ASSUME NEW r \in writing, InsertFails(r) PROVE InHand'
    BY <1>0, <1>6 DEF InsertFails, WriterFails, Db!Rollback
  <1>7. CASE Ends
    BY <1>7 DEF Ends, Db!Exit
  <1> QED
    BY <1>1, <1>2, <1>3, <1>4, <1>5, <1>6, <1>7 DEF RecorderNext

(* Stamps in transit lie between the start of this life and now, and after   *)
(* those of all rows.                                                        *)
LEMMA StampedStep == Together /\ [RecorderNext]_recorderVars => StampedInLife'
  <1> SUFFICES ASSUME Together, RecorderNext PROVE StampedInLife'
    BY DEF Together, RecorderInv, StampedInLife, InTransit, recorderVars, vars
  <1> USE DEF StampedInLife
  <1>0. StampedInLife /\ QuietStart /\ IInv
    BY DEF Together, RecorderInv
  <1>1. /\ clock \in Nat /\ started \in Nat /\ started <= clock
        /\ \A s \in db.log : s.at \in Nat
        /\ \A r \in InTransit : r.at \in Nat
    <2>1. clock \in Nat /\ started \in Nat /\ started <= clock
              /\ \A s \in db.log : s.at \in Nat
      BY <1>0 DEF Together, DbProofs!DbInv, DbProofs!DbTypeOK, DbProofs!IsDatabase, DbProofs!DbRow,
                  IInv, TypeOK
    <2>2. records \in Seq(Row) /\ outbox \cup writing \subseteq Row
      BY <1>0 DEF IInv, TypeOK
    <2>3. InTransit \subseteq Row
      BY <2>2 DEF InTransit
    <2> QED
      BY <2>1, <2>3 DEF Row
  <1>2. CASE Opens
    BY <1>0, <1>1, <1>2, TransitKept DEF Opens, Db!Open, QuietStart, vars
  <1>3. CASE Prunes
    <2>1. db'.log \subseteq db.log /\ UNCHANGED <<started, clock>>
      BY <1>3 DEF Prunes, Db!DeleteOlder, Db!Pruned
    <2> QED
      BY <1>0, <1>3, <2>1, TransitKept DEF Prunes
  <1>4. CASE PipelineStep \/ TimePasses \/ \E r \in writing : InsertFails(r)
    <2>1. UNCHANGED <<db, started>>
      BY <1>4 DEF PipelineStep, TimePasses, InsertFails, Db!Rollback
    <2> QED
      BY <1>0, <1>1, <1>4, <2>1, TransitStep
  <1>5. ASSUME NEW r \in writing, InsertBegins(r) \/ Statement(r) PROVE StampedInLife'
    <2>1. UNCHANGED vars /\ UNCHANGED <<db, started>>
      BY <1>5 DEF InsertBegins, Statement, Db!Begin, Db!InsertRow, Db!UpsertLine
    <2> QED
      BY <1>0, <2>1, TransitKept DEF vars
  <1>6. ASSUME NEW r \in writing, Commits(r) PROVE StampedInLife'
    <2>1. /\ \A q \in outbox : r.at <= q.at
          /\ \A k \in DOMAIN records : r.at <= records[k].at
          /\ r.at <= clock
      BY <1>0 DEF IInv, RowsInTimeOrder, StampInv, InFlight
    <2>2. InTransit' = outbox \cup {records[k] : k \in DOMAIN records}
      BY <1>6, CommitAdds DEF InTransit
    <2>3. \A q \in InTransit' : q \in InTransit /\ r.at <= q.at
      BY <2>1, <2>2 DEF InTransit
    <2>4. \A s \in db'.log : s \in db.log \/ s.at = r.at
      <3> DEFINE new == Db!RowWith(db.lastId + 1, RecordOf(r))
      <3>1. db'.log = db.log \cup {new} /\ new.at = r.at
        BY <1>6, CommitAdds DEF Db!RowWith, RecordOf
      <3> HIDE DEF new
      <3> QED
        BY <3>1
    <2> QED
      BY <1>0, <1>6, <2>1, <2>3, <2>4, CommitAdds
  <1>7. CASE Ends
    <2>1. InTransit' = {} /\ UNCHANGED <<db, clock>>
      BY <1>7 DEF Ends, Db!Exit, InTransit
    <2> QED
      BY <1>0, <2>1
  <1>8. CASE TimePassesWithout
    <2>1. InTransit' = InTransit /\ UNCHANGED <<db, started>> /\ clock' = clock + 1
      BY <1>8 DEF TimePassesWithout, Db!Second, InTransit
    <2> QED
      BY <1>0, <1>1, <2>1
  <1> QED
    BY <1>2, <1>3, <1>4, <1>5, <1>6, <1>7, <1>8 DEF RecorderNext

(* An empty pipeline on an empty database has all of it. *)
LEMMA StartsTogether ==
  RecorderInit => Db!DbInit /\ Together /\ IdsInTimeOrder /\ InsertedAreCommitted
  <1> SUFFICES ASSUME RecorderInit
               PROVE  Db!DbInit /\ Together /\ IdsInTimeOrder /\ InsertedAreCommitted
    OBVIOUS
  <1>1. Init /\ Db!DbInit /\ DbProofs!DbInit
    BY SameDatabase DEF RecorderInit
  <1>2. IInv
    BY <1>1, InitTypes
    DEF Init, IInv, StageInv, StampInv, QuietInv, OneRowInv, FilterInv,
        RowsInTimeOrder, RowsAdmissible, InFlight, NoPending
  <1>3. DbProofs!DbInv
    <2>1. 0 .. MaxBytes \subseteq Nat
      OBVIOUS
    <2> QED
      BY <1>1, <2>1, RecorderAssumption, BoundAssumption, DbProofs!DbInitInv
  <1>4. /\ outbox = {} /\ writing = {} /\ records = <<>> /\ log = <<>>
        /\ stage = "idle" /\ inserting = {} /\ db.log = {}
    BY <1>1 DEF Init, Db!DbInit, Db!EmptyDatabase
  <1>5. RecorderInv
    BY <1>4 DEF RecorderInv, QuietStart, StampedInLife, InHand, InTransit
  <1> QED
    BY <1>1, <1>2, <1>3, <1>4, <1>5 DEF Together, IdsInTimeOrder, InsertedAreCommitted

(* Only a commit adds a row. *)
LEMMA LogShrinksOrCommits ==
  ASSUME [RecorderNext]_recorderVars
  PROVE  db'.log \subseteq db.log \/ \E r \in writing : Commits(r)
  <1>1. CASE UNCHANGED recorderVars
    BY <1>1 DEF recorderVars
  <1>2. CASE Prunes
    BY <1>2 DEF Prunes, Db!DeleteOlder, Db!Pruned
  <1>3. CASE Opens \/ PipelineStep \/ Ends \/ TimePasses \/ TimePassesWithout
    BY <1>3
    DEF Opens, PipelineStep, Ends, TimePasses, TimePassesWithout, Db!Open, Db!Exit, Db!Second
  <1>4. ASSUME NEW r \in writing, InsertBegins(r) \/ Statement(r) \/ InsertFails(r)
        PROVE  db' = db
    BY <1>4 DEF InsertBegins, Statement, InsertFails, Db!Begin, Db!InsertRow, Db!UpsertLine,
                Db!Rollback
  <1> QED
    BY <1>1, <1>2, <1>3, <1>4 DEF RecorderNext

(* Rows get ids in the order of their stamps: a row is committed under the   *)
(* next id, and none there is was stamped later.                             *)
LEMMA IdsInTimeStep ==
  Together /\ IdsInTimeOrder /\ [RecorderNext]_recorderVars => IdsInTimeOrder'
  <1> SUFFICES ASSUME Together, IdsInTimeOrder, [RecorderNext]_recorderVars PROVE IdsInTimeOrder'
    OBVIOUS
  <1> USE DEF IdsInTimeOrder
  <1>1. CASE db'.log \subseteq db.log
    BY <1>1
  <1>2. ASSUME NEW r \in writing, Commits(r) PROVE IdsInTimeOrder'
    <2> DEFINE new == Db!RowWith(db.lastId + 1, RecordOf(r))
    <2>1. db'.log = db.log \cup {new} /\ new.id = db.lastId + 1 /\ new.at = r.at
      BY <1>2, CommitAdds DEF Db!RowWith, RecordOf
    <2> HIDE DEF new
    <2>2. \A s \in db.log : s.id \in Nat /\ db.lastId \in Nat /\ s.id < new.id
      BY <2>1 DEF Together, DbProofs!DbInv, DbProofs!DbTypeOK, DbProofs!IsDatabase, DbProofs!DbRow,
                  DbProofs!IdsUnique
    <2>3. \A s \in db.log : s.at <= new.at
      BY <2>1 DEF Together, RecorderInv, StampedInLife, InTransit
    <2>4. new.at <= new.at
      BY <2>1 DEF Together, IInv, TypeOK, Row
    <2> QED
      BY <2>1, <2>2, <2>3, <2>4
  <1> QED
    BY <1>1, <1>2, LogShrinksOrCommits

(* The rows of this life are the last that were committed.                   *)
LEMMA CommittedStep ==
  Together /\ InsertedAreCommitted /\ [RecorderNext]_recorderVars => InsertedAreCommitted'
  <1> SUFFICES ASSUME Together, InsertedAreCommitted, [RecorderNext]_recorderVars
               PROVE  InsertedAreCommitted'
    OBVIOUS
  <1> USE DEF InsertedAreCommitted
  <1>0. QuietStart /\ IInv /\ log \in Seq(Row) /\ db.lastId \in Nat
    BY DEF Together, RecorderInv, IInv, TypeOK, DbProofs!DbInv, DbProofs!DbTypeOK,
           DbProofs!IsDatabase
  <1>1. CASE db' = db /\ log' = log
    BY <1>1
  <1>2. CASE log' = <<>>
    BY <1>2
  <1>3. ASSUME NEW r \in writing, Commits(r) PROVE InsertedAreCommitted'
    <2>1. r \in Row
      BY <1>0 DEF IInv, TypeOK
    <2>2. /\ log' = Append(log, r) /\ db'.lastId = db.lastId + 1
          /\ db'.log = db.log \cup {Db!RowWith(db.lastId + 1, RecordOf(r))}
      BY <1>3, CommitAdds
    <2>3. ASSUME NEW k \in DOMAIN log'
          PROVE  Db!RowWith(db'.lastId - Len(log') + k, RecordOf(log'[k])) \in db'.log
      <3>0. db'.lastId = db.lastId + 1 /\ db.lastId \in Nat
        BY <1>0, <2>2
      <3>1. Len(log') = Len(log) + 1 /\ Len(log) \in Nat
        BY <1>0, <2>1, <2>2
      <3>2. CASE k \in DOMAIN log
        <4>1. log'[k] = log[k]
          BY <1>0, <2>1, <2>2, <3>2
        <4>2. db'.lastId - Len(log') = db.lastId - Len(log)
          BY <3>0, <3>1
        <4> QED
          BY <2>2, <3>2, <4>1, <4>2
      <3>3. CASE k = Len(log) + 1
        <4>1. log'[k] = r
          BY <1>0, <2>1, <2>2, <3>3
        <4>2. db'.lastId - Len(log') + k = db.lastId + 1
          BY <1>0, <2>2, <3>1, <3>3
        <4> QED
          BY <2>2, <4>1, <4>2
      <3> QED
        BY <1>0, <2>1, <2>2, <3>2, <3>3, AppendElements
    <2> QED
      BY <2>3 DEF RecordOf, Db!RowWith
  <1>4. CASE UNCHANGED recorderVars
    BY <1>1, <1>4 DEF recorderVars, vars
  <1>5. CASE Prunes
    BY <1>0, <1>2, <1>5 DEF Prunes, Db!DeleteOlder, QuietStart, vars
  <1>6. CASE Opens \/ TimePassesWithout
    BY <1>1, <1>6 DEF Opens, TimePassesWithout, Db!Open, Db!Second, vars
  <1>7. CASE Ends
    BY <1>2, <1>7 DEF Ends
  <1>8. ASSUME NEW r \in writing, InsertBegins(r) \/ Statement(r)
        PROVE  db' = db /\ log' = log
    BY <1>8 DEF InsertBegins, Statement, Db!Begin, Db!InsertRow, Db!UpsertLine, vars
  <1>9. CASE PipelineStep \/ TimePasses \/ \E r \in writing : InsertFails(r)
    <2>1. db' = db
      BY <1>9 DEF PipelineStep, TimePasses, InsertFails, Db!Rollback
    <2> QED
      BY <1>0, <1>1, <1>9, <2>1, TransitStep
  <1> QED
    BY <1>1, <1>3, <1>4, <1>5, <1>6, <1>7, <1>8, <1>9 DEF RecorderNext

-----------------------------------------------------------------------------
(* Pipeline, transaction and rows agree over any number of lives.            *)
LEMMA Invariants ==
  RecorderSpec => [](Together /\ IdsInTimeOrder /\ InsertedAreCommitted)
  <1>1. Together /\ [RecorderNext]_recorderVars => Together'
    BY PipelineInv, DatabaseInv, DownStep, StampedStep, HandStep DEF Together, RecorderInv
  <1> QED
    BY <1>1, StartsTogether, IdsInTimeStep, CommittedStep, PTL DEF RecorderSpec

(* What is under way was stamped in this life and after every row there is,  *)
(* and a transaction is that of the record in hand.                          *)
THEOREM RecorderInvariant == RecorderSpec => []RecorderInv
  <1>1. Together => RecorderInv
    BY DEF Together
  <1> QED
    BY <1>1, Invariants, PTL

(* The writer uses the database as Database says, over all its lives, so     *)
(* that what is proved of Database holds with this writer.                   *)
THEOREM DatabaseImplemented == RecorderSpec => ImplementsDatabase
  BY StartsTogether, Invariants, DatabaseStep, PTL
  DEF RecorderSpec, ImplementsDatabase, Db!DbSpec

(* Ids and changed_at order the rows alike, across restarts and prunings.    *)
THEOREM IdsFollowTime == RecorderSpec => []IdsInTimeOrder
  BY Invariants, PTL

(* Each record the writer has inserted in this life is a committed row.      *)
THEOREM InsertedCommitted == RecorderSpec => []InsertedAreCommitted
  BY Invariants, PTL

-----------------------------------------------------------------------------
(* What is proved of Database holds of the one the pipeline fills.         *)

LEMMA FilledAsDatabase == RecorderSpec => DbProofs!DbSpec
  BY DatabaseImplemented, SameDatabase, PTL DEF ImplementsDatabase, Db!DbSpec, DbProofs!DbSpec

LEMMA SizesAreNumbers == 0 .. MaxBytes \subseteq Nat
  OBVIOUS

(* Readers of the database the pipeline fills see a Store: rows and totals   *)
(* change together, wherever a life ends.                                    *)
THEOREM StoreFilled == RecorderSpec => DbProofs!ImplementsStore
  <1>1. DbProofs!DbSpec => DbProofs!ImplementsStore
    BY SizesAreNumbers, RecorderAssumption, BoundAssumption, DbProofs!StoreImplemented
  <1> QED
    BY <1>1, FilledAsDatabase, PTL

(* daily_summary holds the sums of the rows the pipeline has recorded in all *)
(* its lives, for the days no pruning has cut.                               *)
THEOREM SummaryOfPipeline == RecorderSpec => []DbProofs!SummaryAgrees
  <1>1. DbProofs!DbSpec => []DbProofs!SummaryAgrees
    BY SizesAreNumbers, RecorderAssumption, BoundAssumption, DbProofs!SummaryCorrect
  <1> QED
    BY <1>1, FilledAsDatabase, PTL

(* Whatever life a row is from, it is of no fewer bytes than min_delta_bytes: *)
(* neither a flush nor a death in the middle of one leaves a smaller one.     *)
THEOREM RowsOfConsequence == RecorderSpec => [](\A s \in db.log : s.bytes >= Threshold)
  <1> DEFINE OfConsequence == \A s \in db.log : s.bytes >= Threshold
  <1>1. RecorderInit => OfConsequence
    BY DEF RecorderInit, Db!DbInit, Db!EmptyDatabase
  <1>2. Together /\ OfConsequence /\ [RecorderNext]_recorderVars => OfConsequence'
    <2> SUFFICES ASSUME Together, OfConsequence, [RecorderNext]_recorderVars
                 PROVE  OfConsequence'
      OBVIOUS
    <2>1. CASE db'.log \subseteq db.log
      BY <2>1
    <2>2. ASSUME NEW r \in writing, Commits(r) PROVE OfConsequence'
      <3>1. r.bytes >= Threshold
        BY DEF Together, IInv, RowsAdmissible, InFlight
      <3> DEFINE new == Db!RowWith(db.lastId + 1, RecordOf(r))
      <3>2. db'.log = db.log \cup {new} /\ new.bytes = r.bytes
        BY <2>2, CommitAdds DEF Db!RowWith, RecordOf
      <3> HIDE DEF new
      <3> QED
        BY <3>1, <3>2
    <2>3. db'.log \subseteq db.log \/ \E r \in writing : Commits(r)
      BY LogShrinksOrCommits
    <2> QED
      BY <2>1, <2>2, <2>3
  <1>3. Together /\ IdsInTimeOrder /\ InsertedAreCommitted => Together
    OBVIOUS
  <1> QED
    BY <1>1, <1>2, <1>3, Invariants, PTL DEF RecorderSpec
=============================================================================
