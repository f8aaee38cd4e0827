---------------------------- MODULE DatabaseProofs ----------------------------
(***************************************************************************)
(* The database keeps its promise (Store) for any labels, sizes, length of *)
(* day and retention, and its queries agree with its summary.  The         *)
(* argument is TransactionInv: until the commit, the working copy is what  *)
(* is committed plus the statements executed.  So a commit adds a row to a *)
(* group and its bytes to the group's line, and SummaryAgrees is kept.     *)
(***************************************************************************)
EXTENDS Queries, Sums, TLAPS

(* A day is a number of days since the epoch. *)
LEMMA DayNat ==
  ASSUME NEW t \in Nat
  PROVE  Day(t) \in Nat
  <1>1. DayLength \in Nat /\ DayLength # 0
    BY DatabaseAssumption
  <1>2. t \div DayLength >= 0 /\ t \div DayLength \in Int
    BY <1>1
  <1> QED
    BY <1>2 DEF Day

(* A day holds the seconds from its start to the start of the next. *)
LEMMA DayBounds ==
  ASSUME NEW t \in Nat
  PROVE  Day(t) * DayLength <= t /\ t < (Day(t) + 1) * DayLength
  BY DatabaseAssumption DEF Day

(* What is past the start of a day is of that day or a later one. *)
LEMMA DayFromStart ==
  ASSUME NEW t \in Nat, NEW d \in Nat, d * DayLength <= t
  PROVE  d <= Day(t)
  <1>1. DayLength \in Nat /\ DayLength # 0 /\ Day(t) \in Nat
    BY DatabaseAssumption, DayNat
  <1>2. t < (Day(t) + 1) * DayLength
    BY DayBounds
  <1>3. CASE d >= Day(t) + 1
    <2>1. \A a, b, n \in Nat : a >= b => a * n >= b * n
      OBVIOUS
    <2>2. d * DayLength >= (Day(t) + 1) * DayLength
      BY <1>1, <1>3, <2>1
    <2> QED
      BY <1>1, <1>2, <2>2
  <1> QED
    BY <1>1, <1>3

(* Days go on as the clock does. *)
LEMMA DayMonotone ==
  ASSUME NEW s \in Nat, NEW t \in Nat, s <= t
  PROVE  Day(s) <= Day(t)
  <1>1. Day(s) \in Nat /\ Day(s) * DayLength <= s /\ Day(s) * DayLength \in Nat
    BY DayNat, DayBounds, DatabaseAssumption
  <1>2. Day(s) * DayLength <= t
    BY <1>1
  <1> QED
    BY <1>1, <1>2, DayFromStart

(* The two statements, field by field. *)
LEMMA StatementFields ==
  ASSUME NEW d, IsDatabase(d), NEW r \in Record
  PROVE  /\ IsDatabase(WithRow(d, r))
         /\ WithRow(d, r).lastId = d.lastId + 1
         /\ WithRow(d, r).summary = d.summary
         /\ WithRow(d, r).log = d.log \cup {RowWith(d.lastId + 1, r)}
         /\ WithLine(d, r).lastId = d.lastId
         /\ WithLine(d, r).log = d.log
  <1> DEFINE row == RowWith(d.lastId + 1, r)
  <1>1. d.lastId + 1 \in Nat \ {0} /\ row \in DbRow
    BY DEF IsDatabase, Record, DbRow, RowWith
  <1>2. WithRow(d, r) = [log |-> d.log \cup {row}, summary |-> d.summary,
                         lastId |-> d.lastId + 1]
    BY DEF IsDatabase, WithRow
  <1>3. IsDatabase(WithRow(d, r))
    BY <1>1, <1>2 DEF IsDatabase
  <1>4. /\ WithRow(d, r).lastId = d.lastId + 1
        /\ WithRow(d, r).summary = d.summary
        /\ WithRow(d, r).log = d.log \cup {row}
    BY <1>2
  <1>5. WithLine(d, r).lastId = d.lastId /\ WithLine(d, r).log = d.log
    BY DEF WithLine
  <1> QED
    BY <1>3, <1>4, <1>5

(* The line of a record is a line, and the summary is the one Store asks for. *)
LEMMA LineFields ==
  ASSUME NEW d, IsDatabase(d), NEW r \in Record
  PROVE  /\ IsDatabase(WithLine(d, r))
         /\ WithLine(d, r).summary =
                Promise!Upserted(d.summary, KeyOf(r), r.bytes)
  <1> DEFINE k == KeyOf(r)
             line == IF k \in DOMAIN d.summary THEN d.summary[k]
                                               ELSE [total |-> 0, count |-> 0]
             new == [total |-> line.total + r.bytes, count |-> line.count + 1]
             lines == [x \in DOMAIN d.summary \cup {k} |->
                          IF x = k THEN new ELSE d.summary[x]]
  <1>1. r.bytes \in Nat /\ k \in Nat \X Labels \X Categories
    <2>1. r.at \in Nat /\ r.bytes \in Nat /\ r.label \in Labels /\ r.category \in Categories
      BY DatabaseAssumption DEF Record
    <2> QED
      BY <2>1, DayNat DEF KeyOf
  <1>2. line.total \in Nat /\ line.count \in Nat
    <2>1. CASE k \in DOMAIN d.summary
      <3> HIDE DEF k
      <3>1. d.summary[k] \in Line
        BY <2>1 DEF IsDatabase
      <3> QED
        BY <2>1, <3>1 DEF Line
    <2>2. CASE k \notin DOMAIN d.summary
      BY <2>2
    <2> QED
      BY <2>1, <2>2
  <1>3. new \in Line
    BY <1>1, <1>2 DEF Line
  <1>4. WithLine(d, r) = [log |-> d.log, summary |-> lines, lastId |-> d.lastId]
    BY DEF IsDatabase, WithLine
  <1>5. DOMAIN lines \subseteq Nat \X Labels \X Categories /\ lines \in [DOMAIN lines -> Line]
    BY <1>1, <1>3 DEF IsDatabase
  <1>6. IsDatabase(WithLine(d, r))
    BY <1>4, <1>5 DEF IsDatabase
  <1>7. lines = Promise!Upserted(d.summary, KeyOf(r), r.bytes)
    <2>1. ASSUME NEW x \in DOMAIN d.summary \cup {k}
          PROVE  lines[x] = Promise!Upserted(d.summary, KeyOf(r), r.bytes)[x]
      BY <1>1, <1>2 DEF Promise!Upserted
    <2> QED
      BY <2>1 DEF Promise!Upserted
  <1> QED
    BY <1>4, <1>6, <1>7

(* What the steps of the database keep together. *)
DbInv == DbTypeOK /\ TransactionInv /\ IdsUnique

(* An empty database has it. *)
LEMMA DbInitInv == DbInit => DbInv
  <1> SUFFICES ASSUME DbInit PROVE DbInv
    OBVIOUS
  <1> USE DatabaseAssumption DEF DbInit
  <1>1. IsDatabase(EmptyDatabase)
    BY DEF EmptyDatabase, IsDatabase
  <1>2. 0 \in 0 .. clock /\ clock \in 0 .. MaxClock /\ OldestLimit \in OldestLimit .. MaxClock
    BY DEF OldestLimit
  <1>3. Dated
    BY FS_EmptySet DEF Dated, EmptyDatabase
  <1>4. DbTypeOK
    BY <1>1, <1>2, <1>3 DEF DbTypeOK
  <1>5. TransactionInv /\ IdsUnique
    BY DEF TransactionInv, IdsUnique, EmptyDatabase
  <1> QED
    BY <1>4, <1>5 DEF DbInv

(* What a writer may hand to insert is a record. *)
LEMMA RecordsAreTyped == DbTypeOK => NewRecords \subseteq Record
  BY DEF DbTypeOK, NewRecords, Record

(* What a delete_older_than leaves is a database whose limit is in range. *)
LEMMA PrunedFields ==
  ASSUME DbTypeOK
  PROVE  /\ IsDatabase(Pruned(db))
         /\ Pruned(db).log = {r \in db.log : r.at >= Limit}
         /\ Pruned(db).summary = db.summary
         /\ Pruned(db).lastId = db.lastId
         /\ Limit \in OldestLimit .. MaxClock
  <1>1. clock \in Nat /\ clock <= MaxClock /\ MaxClock \in Nat
    BY DatabaseAssumption DEF DbTypeOK
  <1>2. Retention * DayLength \in Nat
    BY DatabaseAssumption
  <1>3. Limit \in OldestLimit .. MaxClock
    BY <1>1, <1>2 DEF Limit, OldestLimit
  <1>4. \A r \in db.log : r.at \in Nat
    BY DEF DbTypeOK, IsDatabase, DbRow
  <1>5. {r \in db.log : ~(r.at < Limit)} = {r \in db.log : r.at >= Limit}
    BY <1>1, <1>2, <1>4 DEF Limit
  <1> QED
    BY <1>3, <1>5 DEF Pruned, DbTypeOK, IsDatabase

(* What a commit brings is of a second that has come, and nothing else comes. *)
LEMMA DatedStep == DbTypeOK /\ TransactionInv /\ [DbNext]_dbVars => Dated'
  <1> SUFFICES ASSUME DbTypeOK, TransactionInv, [DbNext]_dbVars PROVE Dated'
    OBVIOUS
  <1>0. Dated /\ IsDatabase(db) /\ clock \in Nat
    BY DatabaseAssumption DEF DbTypeOK
  <1>1. CASE Commit
    <2>1. PICK r \in NewRecords : inserting = {r}
      BY <1>1 DEF Commit, TransactionInv
    <2>2. r \in Record /\ IsDatabase(WithRow(db, r))
      BY <1>0, <2>1, RecordsAreTyped, StatementFields
    <2>3. db' = WithLine(WithRow(db, r), r) /\ clock' = clock
      BY <1>1, <2>1 DEF Commit, TransactionInv
    <2> DEFINE row == RowWith(db.lastId + 1, r)
    <2>4. db'.log = db.log \cup {row}
      BY <1>0, <2>2, <2>3, StatementFields
    <2>5. DOMAIN db'.summary = DOMAIN db.summary \cup {KeyOf(r)} /\ KeyOf(r)[1] = Day(r.at)
      <3>1. DOMAIN WithLine(WithRow(db, r), r).summary
               = DOMAIN WithRow(db, r).summary \cup {KeyOf(r)}
        BY DEF WithLine
      <3> QED
        BY <1>0, <2>2, <2>3, <3>1, StatementFields DEF KeyOf
    <2>6. r.at <= clock /\ Day(r.at) <= Day(clock)
      <3>1. r.at \in Nat /\ r.at <= clock
        BY <1>0, <2>2 DEF NewRecords, Record
      <3> QED
        BY <1>0, <3>1, DayMonotone
    <2>7. row.at = r.at /\ IsFiniteSet(db'.log)
      BY <1>0, <2>4, FS_AddElement DEF Dated, RowWith
    <2> HIDE DEF row
    <2>8. Day(clock)' = Day(clock)
      BY <2>3 DEF Day
    <2> QED
      BY <1>0, <2>3, <2>4, <2>5, <2>6, <2>7, <2>8 DEF Dated
  <1>2. CASE DeleteOlder
    <2>1. db'.log \subseteq db.log /\ db'.summary = db.summary /\ clock' = clock
      BY <1>2, PrunedFields DEF DeleteOlder
    <2> QED
      BY <1>0, <2>1, FS_Subset DEF Dated, Day
  <1>3. CASE Second
    <2>1. db' = db /\ clock' = clock + 1
      BY <1>3 DEF Second
    <2>2. Day(clock) <= Day(clock') /\ Day(clock) \in Nat /\ Day(clock') \in Nat
      <3>1. clock' \in Nat /\ clock <= clock'
        BY <1>0, <2>1
      <3> QED
        BY <1>0, <3>1, DayMonotone, DayNat
    <2>3. \A r \in db.log : r.at \in Nat
      BY <1>0 DEF IsDatabase, DbRow
    <2>4. \A k \in DOMAIN db.summary : k[1] \in Nat
      BY <1>0 DEF IsDatabase
    <2>5. Day(clock)' = Day(clock')
      BY DEF Day
    <2> QED
      BY <1>0, <2>1, <2>2, <2>3, <2>4, <2>5 DEF Dated
  <1>4. CASE UNCHANGED <<db, clock>>
    BY <1>0, <1>4 DEF Dated, Day
  <1> QED
    BY <1>1, <1>2, <1>3, <1>4
    DEF DbNext, dbVars, Begin, InsertRow, UpsertLine, Rollback, Open, Exit

(* Each variable stays in its set, whichever statement or event comes.       *)
LEMMA DbTypeStep == DbTypeOK /\ TransactionInv /\ [DbNext]_dbVars => DbTypeOK'
  <1> SUFFICES ASSUME DbTypeOK, TransactionInv, [DbNext]_dbVars PROVE DbTypeOK'
    OBVIOUS
  <1>0. Dated'
    BY DatedStep
  <1> USE DEF DbTypeOK
  <1>1. ASSUME NEW r \in NewRecords, Begin(r) PROVE DbTypeOK'
    BY <1>0, <1>1, RecordsAreTyped DEF Begin
  <1>2. ASSUME NEW r \in inserting, InsertRow(r) PROVE DbTypeOK'
    <2>1. IsDatabase(WithRow(work, r))
      BY StatementFields
    <2> QED
      BY <1>0, <1>2, <2>1 DEF InsertRow
  <1>3. ASSUME NEW r \in inserting, UpsertLine(r) PROVE DbTypeOK'
    <2>1. IsDatabase(WithLine(work, r))
      BY LineFields
    <2> QED
      BY <1>0, <1>3, <2>1 DEF UpsertLine
  <1>4. CASE Commit
    BY <1>0, <1>4 DEF Commit
  <1>5. CASE Rollback
    BY <1>0, <1>5 DEF Rollback
  <1>6. CASE Open
    BY <1>0, <1>6 DEF Open
  <1>7. CASE DeleteOlder
    BY <1>0, <1>7, PrunedFields DEF DeleteOlder
  <1>8. CASE Exit
    BY <1>0, <1>8 DEF Exit
  <1>9. CASE Second
    BY <1>0, <1>9, DatabaseAssumption DEF Second
  <1>10. CASE UNCHANGED dbVars
    BY <1>0, <1>10 DEF dbVars
  <1> QED
    BY <1>1, <1>2, <1>3, <1>4, <1>5, <1>6, <1>7, <1>8, <1>9, <1>10 DEF DbNext

(* Each statement brings the working copy where TransactionInv says. *)
LEMMA TransactionStep ==
  DbTypeOK /\ TransactionInv /\ [DbNext]_dbVars => TransactionInv'
  <1> SUFFICES ASSUME DbTypeOK, TransactionInv, [DbNext]_dbVars PROVE TransactionInv'
    OBVIOUS
  <1> USE DEF TransactionInv
  <1>1. ASSUME NEW r \in NewRecords, Begin(r) PROVE TransactionInv'
    BY <1>1 DEF Begin, NewRecords
  <1>2. ASSUME NEW r \in inserting, InsertRow(r) PROVE TransactionInv'
    BY <1>2 DEF InsertRow, NewRecords
  <1>3. ASSUME NEW r \in inserting, UpsertLine(r) PROVE TransactionInv'
    BY <1>3 DEF UpsertLine, NewRecords
  <1>4. CASE Commit
    BY <1>4 DEF Commit
  <1>5. CASE Rollback
    BY <1>5 DEF Rollback
  <1>6. CASE Open
    BY <1>6 DEF Open
  <1>7. CASE DeleteOlder
    BY <1>7 DEF DeleteOlder
  <1>8. CASE Exit
    BY <1>8 DEF Exit
  <1>9. CASE Second
    <2>1. NewRecords \subseteq NewRecords'
      BY <1>9, DatabaseAssumption DEF Second, NewRecords, DbTypeOK
    <2> QED
      BY <1>9, <2>1 DEF Second, WithRow, WithLine
  <1>10. CASE UNCHANGED dbVars
    BY <1>10 DEF dbVars, NewRecords
  <1> QED
    BY <1>1, <1>2, <1>3, <1>4, <1>5, <1>6, <1>7, <1>8, <1>9, <1>10 DEF DbNext

(* Ids stay unique: only a commit brings a row, and its id is new. *)
LEMMA IdsStep == DbInv /\ [DbNext]_dbVars => IdsUnique'
  <1> SUFFICES ASSUME DbInv, [DbNext]_dbVars PROVE IdsUnique'
    OBVIOUS
  <1> USE DEF DbInv
  <1>1. CASE Commit
    <2>1. PICK r \in NewRecords : inserting = {r}
      BY <1>1 DEF Commit, TransactionInv
    <2>2. r \in Record /\ IsDatabase(db) /\ IsDatabase(WithRow(db, r))
      BY RecordsAreTyped, StatementFields DEF DbTypeOK
    <2>3. db' = WithLine(WithRow(db, r), r)
      BY <1>1, <2>1 DEF Commit, TransactionInv
    <2> DEFINE row == RowWith(db.lastId + 1, r)
    <2>4. db'.log = db.log \cup {row} /\ db'.lastId = db.lastId + 1
      BY <2>2, <2>3, StatementFields
    <2>5. db.lastId \in Nat /\ \A s \in db.log : s.id \in Nat /\ s.id <= db.lastId
      BY <2>2 DEF IsDatabase, DbRow, IdsUnique
    <2>6. row.id = db.lastId + 1
      BY DEF RowWith
    <2> HIDE DEF row
    <2> QED
      BY <2>4, <2>5, <2>6 DEF IdsUnique
  <1>2. CASE DeleteOlder
    BY <1>2, PrunedFields DEF DeleteOlder, IdsUnique
  <1>3. CASE ~Commit /\ ~DeleteOlder
    <2>1. db' = db
      BY <1>3 DEF DbNext, dbVars, Begin, InsertRow, UpsertLine, Rollback, Open, Exit, Second
    <2> QED
      BY <2>1 DEF IdsUnique
  <1> QED
    BY <1>1, <1>2, <1>3

(* At every moment the database is well formed, a transaction in progress is *)
(* as far as its stage says, and ids are unique.                             *)
THEOREM DatabaseCorrect == DbSpec => []DbInv
  <1>1. DbInv /\ [DbNext]_dbVars => DbInv'
    BY DbTypeStep, TransactionStep, IdsStep DEF DbInv
  <1> QED
    BY <1>1, DbInitInv, PTL DEF DbSpec

(* The open transaction's copy is what is committed and its record's row and *)
(* line, as far as it has come, whatever fails and wherever the process dies. *)
THEOREM TransactionCorrect == DbSpec => [](DbTypeOK /\ TransactionInv)
  <1>1. DbInv => DbTypeOK /\ TransactionInv
    BY DEF DbInv
  <1> QED
    BY <1>1, DatabaseCorrect, PTL

(* No two rows of change_log ever bear one id, across restarts and prunings. *)
THEOREM UniqueIds == DbSpec => []IdsUnique
  <1>1. DbInv => IdsUnique
    BY DEF DbInv
  <1> QED
    BY <1>1, DatabaseCorrect, PTL

(* A commit is Store's Record, a retention delete is its Prune. *)
LEMMA StoreStep == DbInv /\ [DbNext]_dbVars => [Promise!Next]_(Promise!vars)
  <1> SUFFICES ASSUME DbInv, [DbNext]_dbVars PROVE [Promise!Next]_(Promise!vars)
    OBVIOUS
  <1> USE DEF DbInv
  <1>1. CASE Commit
    <2>1. PICK r \in NewRecords : inserting = {r}
      BY <1>1 DEF Commit, TransactionInv
    <2>2. r \in Record /\ IsDatabase(db) /\ IsDatabase(WithRow(db, r))
      BY RecordsAreTyped, StatementFields DEF DbTypeOK
    <2>3. db' = WithLine(WithRow(db, r), r)
      BY <1>1, <2>1 DEF Commit, TransactionInv
    <2>4. /\ db'.lastId = db.lastId + 1
          /\ db'.log = db.log \cup {[id |-> db'.lastId, at |-> r.at,
                                     label |-> r.label, category |-> r.category,
                                     bytes |-> r.bytes]}
      BY <2>2, <2>3, StatementFields DEF RowWith
    <2>5. db'.summary = Promise!Upserted(db.summary, <<Day(r.at), r.label, r.category>>, r.bytes)
      BY <2>2, <2>3, StatementFields, LineFields DEF KeyOf
    <2>6. Promise!Day(r.at) = Day(r.at)
      BY DEF Promise!Day, Day
    <2>7. Promise!Record(r.at, r.label, r.category, r.bytes)
      BY <2>4, <2>5, <2>6 DEF Promise!Record
    <2>8. /\ r.at \in 0 .. MaxClock /\ r.label \in Labels
          /\ r.category \in Categories /\ r.bytes \in Sizes
      BY DatabaseAssumption DEF NewRecords, DbTypeOK
    <2> QED
      BY <2>7, <2>8 DEF Promise!Next
  <1>2. CASE DeleteOlder
    <2>1. Promise!Prune(Limit)
      BY <1>2, PrunedFields DEF DeleteOlder, Promise!Prune
    <2> QED
      BY <2>1, PrunedFields DEF Promise!Next
  <1>3. CASE ~Commit /\ ~DeleteOlder
    <2>1. db' = db
      BY <1>3 DEF DbNext, dbVars, Begin, InsertRow, UpsertLine, Rollback, Open, Exit, Second
    <2> QED
      BY <2>1 DEF Promise!vars
  <1> QED
    BY <1>1, <1>2, <1>3

(* Whatever fails and whenever the process dies, readers see a Store. *)
THEOREM StoreImplemented == DbSpec => ImplementsStore
  <1>1. DbInit => Promise!Init
    BY DEF DbInit, EmptyDatabase, Promise!Init
  <1> QED
    BY <1>1, StoreStep, DatabaseCorrect, PTL DEF DbSpec, ImplementsStore, Promise!Spec

-----------------------------------------------------------------------------
(* Groups of rows and what daily_summary says of them.                     *)

(* No rows, no bytes. *)
LEMMA EmptyGroup == Group({}) = [total |-> 0, count |-> 0]
  <1>1. Total({}) = SumFunctionOnSet([r \in {} |-> r.bytes], {})
    BY SumOfBytes DEF Total
  <1> DEFINE b == [r \in {} |-> r.bytes]
             rows == {}
  <1>2. Total({}) = SumFunctionOnSet(b, rows)
    BY <1>1
  <1>3. rows = {}
    OBVIOUS
  <1> HIDE DEF b, rows
  <1>4. SumFunctionOnSet(b, rows) = 0
    BY <1>3, SumEmpty
  <1> QED
    BY <1>2, <1>4, FS_EmptySet DEF Group

(* A row that joins a group adds its bytes and counts as one event. *)
LEMMA GroupGrows ==
  ASSUME NEW rows, IsFiniteSet(rows), NEW q, q \notin rows, q.bytes \in Nat,
         \A r \in rows : r.bytes \in Nat
  PROVE  /\ Group(rows).total \in Nat /\ Group(rows).count \in Nat
         /\ Group(rows \cup {q}) = [total |-> Group(rows).total + q.bytes,
                                    count |-> Group(rows).count + 1]
  <1> DEFINE more == rows \cup {q}
             b == [r \in rows |-> r.bytes]
             c == [r \in more |-> r.bytes]
  <1>1. Total(rows) = SumFunctionOnSet(b, rows) /\ Total(more) = SumFunctionOnSet(c, more)
    BY SumOfBytes DEF Total
  <1>2. /\ IsFiniteSet(more) /\ Cardinality(more) = Cardinality(rows) + 1
        /\ Cardinality(rows) \in Nat
    BY FS_AddElement, FS_CardinalityType
  <1>3. /\ \A r \in rows : b[r] \in Nat /\ c[r] = b[r]
        /\ \A r \in more : c[r] \in Nat
        /\ more \ {q} = rows /\ q \in more /\ c[q] = q.bytes /\ rows \subseteq more
    OBVIOUS
  <1> HIDE DEF more, b, c
  <1>4. SumFunctionOnSet(b, rows) \in Nat
    BY <1>3, SumNat
  <1>5. SumFunctionOnSet(c, rows) = SumFunctionOnSet(b, rows)
    BY <1>3, SumAgree
  <1>6. SumFunctionOnSet(c, more) = SumFunctionOnSet(c, rows) + q.bytes
    <2>1. \A r \in more : c[r] \in Int
      BY <1>3
    <2> QED
      BY <1>2, <1>3, <2>1, SumRemove
  <1> QED
    BY <1>1, <1>2, <1>4, <1>5, <1>6 DEF Group, more

(* Rows are well formed, and so are the lines they belong to. *)
LEMMA RowFacts ==
  ASSUME DbTypeOK
  PROVE  /\ IsFiniteSet(db.log)
         /\ \A r \in db.log : /\ r \in DbRow /\ r.at \in Nat /\ r.at <= clock
                              /\ r.bytes \in Nat /\ r.label \in Labels /\ Day(r.at) \in Nat
                              /\ KeyOf(r) \in Nat \X Labels \X Categories
                              /\ KeyOf(r)[1] = Day(r.at) /\ KeyOf(r)[2] = r.label
         /\ clock \in Nat /\ Day(clock) \in Nat
  <1>1. /\ IsFiniteSet(db.log) /\ db.log \subseteq DbRow /\ clock \in Nat
        /\ \A r \in db.log : r.at <= clock
    BY DatabaseAssumption DEF DbTypeOK, Dated, IsDatabase
  <1>2. \A r \in DbRow : /\ r.at \in Nat /\ r.bytes \in Nat
                         /\ r.label \in Labels /\ r.category \in Categories
    BY DatabaseAssumption DEF DbRow
  <1> QED
    BY <1>1, <1>2, DayNat DEF KeyOf

(* A line of the summary is of a day up to today. *)
LEMMA LineFacts ==
  ASSUME DbTypeOK, NEW k \in DOMAIN db.summary
  PROVE  /\ k \in (0 .. Day(MaxClock)) \X Labels \X Categories
         /\ k[1] \in Nat /\ k[1] <= Day(clock)
         /\ db.summary[k].total \in Nat /\ db.summary[k].count \in Nat
  <1>1. k \in Nat \X Labels \X Categories /\ k[1] <= Day(clock)
    BY DEF DbTypeOK, Dated, IsDatabase
  <1>2. db.summary[k] \in Line
    BY DEF DbTypeOK, IsDatabase
  <1>3. Day(clock) <= Day(MaxClock) /\ Day(clock) \in Nat /\ Day(MaxClock) \in Nat
    <2>1. clock \in Nat /\ MaxClock \in Nat /\ clock <= MaxClock
      BY DatabaseAssumption DEF DbTypeOK
    <2> QED
      BY <2>1, DayMonotone, DayNat
  <1> QED
    BY <1>1, <1>2, <1>3 DEF Line

(* A commit adds the record's row to its group and its line agrees again. *)
LEMMA SummaryCommit == DbInv /\ SummaryAgrees /\ Commit => SummaryAgrees'
  <1> SUFFICES ASSUME DbInv, SummaryAgrees, Commit PROVE SummaryAgrees'
    OBVIOUS
  <1>1. PICK r \in NewRecords : inserting = {r}
    BY DEF Commit, DbInv, TransactionInv
  <1>2. r \in Record /\ IsDatabase(db) /\ IsDatabase(WithRow(db, r)) /\ r.bytes \in Nat
    BY RecordsAreTyped, StatementFields, DatabaseAssumption DEF DbInv, DbTypeOK, Record
  <1>3. db' = WithLine(WithRow(db, r), r) /\ pruned' = pruned
    BY <1>1 DEF Commit, DbInv, TransactionInv
  <1> DEFINE row == RowWith(db.lastId + 1, r)
             j == KeyOf(r)
             old == IF j \in DOMAIN db.summary THEN db.summary[j] ELSE [total |-> 0, count |-> 0]
  <1>4. /\ db'.log = db.log \cup {row}
        /\ KeyOf(row) = j /\ row.bytes = r.bytes
    BY <1>2, <1>3, StatementFields DEF RowWith, KeyOf
  <1>5. /\ DOMAIN db'.summary = DOMAIN db.summary \cup {j}
        /\ db'.summary[j] = [total |-> old.total + r.bytes, count |-> old.count + 1]
        /\ \A k \in DOMAIN db.summary : k # j => db'.summary[k] = db.summary[k]
    <2>1. WithRow(db, r).summary = db.summary
      BY <1>2, StatementFields
    <2> QED
      BY <1>3, <2>1 DEF WithLine
  <1>6. row \notin db.log
    <2>1. row.id = db.lastId + 1 /\ db.lastId \in Nat /\ \A s \in db.log : s.id \in Nat
      BY <1>2 DEF IsDatabase, DbRow, RowWith
    <2> HIDE DEF row
    <2> QED
      BY <2>1 DEF DbInv, IdsUnique
  <1> HIDE DEF row, old, j
  <1>7. ASSUME NEW k \in (0 .. Day(MaxClock)) \X Labels \X Categories, k[1] * DayLength >= pruned, k = j
        PROVE  /\ RowsOfLine(k)' # {} /\ k \in DOMAIN db'.summary
               /\ db'.summary[k] = Group(RowsOfLine(k)')
    <2>2. RowsOfLine(k)' = RowsOfLine(k) \cup {row}
      BY <1>4, <1>7 DEF RowsOfLine, KeyOf, Day
    <2>3. /\ IsFiniteSet(RowsOfLine(k)) /\ row \notin RowsOfLine(k)
          /\ \A s \in RowsOfLine(k) : s.bytes \in Nat
      BY <1>6, RowFacts, FS_Subset DEF RowsOfLine, DbInv
    <2>4. old = Group(RowsOfLine(k))
      <3>1. IF RowsOfLine(k) = {} THEN k \notin DOMAIN db.summary
            ELSE k \in DOMAIN db.summary /\ db.summary[k] = Group(RowsOfLine(k))
        BY <1>7 DEF SummaryAgrees
      <3>2. CASE RowsOfLine(k) = {}
        BY <1>7, <3>1, <3>2, EmptyGroup DEF old
      <3>3. CASE RowsOfLine(k) # {}
        BY <1>7, <3>1, <3>3 DEF old
      <3> QED
        BY <3>2, <3>3
    <2>5. Group(RowsOfLine(k) \cup {row})
             = [total |-> Group(RowsOfLine(k)).total + r.bytes,
                count |-> Group(RowsOfLine(k)).count + 1]
      BY <1>2, <1>4, <2>3, GroupGrows
    <2> QED
      BY <1>5, <1>7, <2>2, <2>4, <2>5
  <1>8. ASSUME NEW k \in (0 .. Day(MaxClock)) \X Labels \X Categories, k # j
        PROVE  /\ RowsOfLine(k)' = RowsOfLine(k)
               /\ k \in DOMAIN db'.summary <=> k \in DOMAIN db.summary
               /\ k \in DOMAIN db.summary => db'.summary[k] = db.summary[k]
    <2>2. RowsOfLine(k)' = RowsOfLine(k)
      BY <1>4, <1>8 DEF RowsOfLine, KeyOf, Day
    <2> QED
      BY <1>5, <1>8, <2>2
  <1>9. ASSUME NEW k \in (0 .. Day(MaxClock)) \X Labels \X Categories, k[1] * DayLength >= pruned
        PROVE  IF RowsOfLine(k)' = {} THEN k \notin DOMAIN db'.summary
               ELSE k \in DOMAIN db'.summary /\ db'.summary[k] = Group(RowsOfLine(k)')
    <2>1. CASE k = j
      BY <1>7, <1>9, <2>1
    <2>2. CASE k # j
      BY <1>8, <1>9, <2>2 DEF SummaryAgrees
    <2> QED
      BY <2>1, <2>2
  <1> QED
    BY <1>3, <1>9 DEF SummaryAgrees

(* A pruning reaches no row of a day that starts at its limit or later. *)
LEMMA SummaryPrune == DbTypeOK /\ SummaryAgrees /\ DeleteOlder => SummaryAgrees'
  <1> SUFFICES ASSUME DbTypeOK, SummaryAgrees, DeleteOlder PROVE SummaryAgrees'
    OBVIOUS
  <1>1. /\ db'.log = {r \in db.log : r.at >= Limit} /\ db'.summary = db.summary
        /\ pruned' = IF Limit > pruned THEN Limit ELSE pruned
    BY PrunedFields DEF DeleteOlder
  <1>2. Limit \in Int /\ pruned \in Int
    <2>1. OldestLimit \in Int /\ MaxClock \in Int
      BY DatabaseAssumption DEF OldestLimit
    <2>2. Limit \in OldestLimit .. MaxClock /\ pruned \in OldestLimit .. MaxClock
      BY PrunedFields DEF DbTypeOK
    <2> QED
      BY <2>1, <2>2
  <1>3. ASSUME NEW k \in (0 .. Day(MaxClock)) \X Labels \X Categories, k[1] * DayLength >= pruned'
        PROVE  /\ k[1] * DayLength >= pruned
               /\ RowsOfLine(k)' = RowsOfLine(k)
    <2>1. k[1] * DayLength \in Int
      <3>1. k[1] \in Int /\ DayLength \in Int
        BY DatabaseAssumption
      <3> QED
        BY <3>1
    <2>2. k[1] * DayLength >= pruned /\ k[1] * DayLength >= Limit
      BY <1>1, <1>2, <1>3, <2>1
    <2>3. ASSUME NEW r \in db.log, KeyOf(r) = k PROVE r.at >= Limit
      <3>1. Day(r.at) * DayLength <= r.at /\ r.at \in Nat /\ k[1] = Day(r.at)
        BY <2>3, RowFacts, DayBounds
      <3> QED
        BY <1>2, <2>1, <2>2, <2>3, <3>1
    <2> QED
      BY <1>1, <2>2, <2>3 DEF RowsOfLine, KeyOf, Day
  <1>4. ASSUME NEW k \in (0 .. Day(MaxClock)) \X Labels \X Categories, k[1] * DayLength >= pruned'
        PROVE  IF RowsOfLine(k)' = {} THEN k \notin DOMAIN db'.summary
               ELSE k \in DOMAIN db'.summary /\ db'.summary[k] = Group(RowsOfLine(k)')
    BY <1>1, <1>3, <1>4 DEF SummaryAgrees
  <1> QED
    BY <1>4 DEF SummaryAgrees

(* No other step touches what is committed. *)
LEMMA SummaryStep == DbInv /\ SummaryAgrees /\ [DbNext]_dbVars => SummaryAgrees'
  <1> SUFFICES ASSUME DbInv, SummaryAgrees, [DbNext]_dbVars PROVE SummaryAgrees'
    OBVIOUS
  <1>1. CASE Commit
    BY <1>1, SummaryCommit
  <1>2. CASE DeleteOlder
    BY <1>2, SummaryPrune DEF DbInv
  <1>3. CASE UNCHANGED <<db, pruned>>
    <2>1. \A k : RowsOfLine(k)' = RowsOfLine(k)
      BY <1>3 DEF RowsOfLine, KeyOf, Day
    <2> QED
      BY <1>3, <2>1 DEF SummaryAgrees
  <1> QED
    BY <1>1, <1>2, <1>3
    DEF DbNext, dbVars, Begin, InsertRow, UpsertLine, Rollback, Open, Exit, Second

(* For each day no pruning has cut, the line of daily_summary is the sum of  *)
(* the rows of change_log, whatever failed and wherever the process died.    *)
THEOREM SummaryCorrect == DbSpec => []SummaryAgrees
  <1>1. DbInit => SummaryAgrees
    BY DEF DbInit, EmptyDatabase, SummaryAgrees, RowsOfLine
  <1> QED
    BY <1>1, SummaryStep, DatabaseCorrect, PTL DEF DbSpec

-----------------------------------------------------------------------------
(* What the queries answer.                                                *)

(* The rows of a line that no pruning has cut are what it sums up. *)
LEMMA GroupOfLine ==
  ASSUME DbTypeOK, SummaryAgrees, NEW k \in DOMAIN db.summary, k[1] * DayLength >= pruned
  PROVE  /\ IsFiniteSet(RowsOfLine(k)) /\ RowsOfLine(k) # {}
         /\ db.summary[k].total = Total(RowsOfLine(k))
         /\ db.summary[k].count = Cardinality(RowsOfLine(k))
  <1>1. k \in (0 .. Day(MaxClock)) \X Labels \X Categories
    BY LineFacts
  <1>2. RowsOfLine(k) # {} /\ db.summary[k] = Group(RowsOfLine(k))
    BY <1>1 DEF SummaryAgrees
  <1>3. IsFiniteSet(RowsOfLine(k))
    BY RowFacts, FS_Subset DEF RowsOfLine
  <1> QED
    BY <1>1, <1>2, <1>3 DEF Group

(* Rows of no bytes do not show in a total, and more rows do not lower it. *)
LEMMA TotalFacts ==
  ASSUME NEW rows, IsFiniteSet(rows), \A r \in rows : r.bytes \in Nat,
         NEW part \in SUBSET rows
  PROVE  /\ Total(rows) \in Nat /\ Total(part) \in Nat /\ Total(part) <= Total(rows)
         /\ (\A r \in rows \ part : r.bytes = 0) => Total(part) = Total(rows)
         /\ Total(rows) = 0 <=> \A r \in rows : r.bytes = 0
  <1> DEFINE b == [r \in rows |-> r.bytes]
             c == [r \in part |-> r.bytes]
             rest == rows \ part
  <1>1. /\ Total(rows) = SumFunctionOnSet(b, rows) /\ Total(part) = SumFunctionOnSet(c, part)
    BY SumOfBytes DEF Total
  <1>2. /\ \A r \in rows : b[r] \in Nat /\ b[r] = r.bytes
        /\ \A r \in part : c[r] = b[r] /\ c[r] \in Nat
    OBVIOUS
  <1>3. IsFiniteSet(part) /\ IsFiniteSet(rest) /\ part \cap rest = {} /\ rows = part \cup rest
    BY FS_Subset
  <1> HIDE DEF b, c, rest
  <1>4. SumFunctionOnSet(c, part) = SumFunctionOnSet(b, part)
    <2>1. \A r \in part : c[r] \in Int /\ c[r] = b[r]
      BY <1>2
    <2> QED
      BY <1>3, <2>1, SumAgree
  <1>5. /\ SumFunctionOnSet(b, rows) \in Nat /\ SumFunctionOnSet(c, part) \in Nat
        /\ SumFunctionOnSet(b, part) <= SumFunctionOnSet(b, rows)
    BY <1>2, <1>3, SumNat, SumMonotone
  <1>6. ASSUME \A r \in rest : r.bytes = 0
        PROVE  SumFunctionOnSet(b, part) = SumFunctionOnSet(b, rows)
    <2>1. SumFunctionOnSet(b, rows) = SumFunctionOnSet(b, part) + SumFunctionOnSet(b, rest)
      <3>1. \A r \in part \cup rest : b[r] \in Int
        BY <1>2, <1>3
      <3> QED
        BY <1>3, <3>1, SumUnion
    <2>2. SumFunctionOnSet(b, rest) = 0
      BY <1>2, <1>3, <1>6, NoneAddsNothing
    <2> QED
      BY <1>4, <1>5, <2>1, <2>2
  <1>7. ASSUME SumFunctionOnSet(b, rows) = 0, NEW r \in rows PROVE r.bytes = 0
    <2>1. SumFunctionOnSet(b, rows) = SumFunctionOnSet(b, rows \ {r}) + b[r]
      <3>1. \A s \in rows : b[s] \in Int
        BY <1>2
      <3> QED
        BY <3>1, SumRemove
    <2>2. SumFunctionOnSet(b, rows \ {r}) \in Nat
      <3>1. IsFiniteSet(rows \ {r}) /\ \A s \in rows \ {r} : b[s] \in Nat
        BY <1>2, FS_Subset
      <3> QED
        BY <3>1, SumNat
    <2> QED
      BY <1>2, <1>7, <2>1, <2>2
  <1>8. (\A r \in rows : r.bytes = 0) => SumFunctionOnSet(b, rows) = 0
    BY <1>2, NoneAddsNothing
  <1> QED
    BY <1>1, <1>4, <1>5, <1>6, <1>7, <1>8 DEF rest

(* The rows of a day under some labels. *)
RowsUnder(day, labels) == {r \in db.log : Day(r.at) = day /\ r.label \in labels}

(* The lines of a day for some labels add up to the day's rows under them: each *)
(* row belongs to one line, and each line has a row.                            *)
LEMMA LinesAddUp ==
  ASSUME DbTypeOK, SummaryAgrees, NEW day \in 0 .. Day(clock), day * DayLength >= pruned,
         NEW labels \in SUBSET Labels
  PROVE  /\ BytesOfLines(LinesOf(day, labels)) = Total(RowsUnder(day, labels))
         /\ EventsOfLines(LinesOf(day, labels)) = Cardinality(RowsUnder(day, labels))
  <1> DEFINE rows == RowsUnder(day, labels)
             lines == LinesOf(day, labels)
             key == [r \in rows |-> KeyOf(r)]
             bytes == [r \in rows |-> r.bytes]
             ones == [r \in rows |-> 1]
             totals == [k \in lines |-> db.summary[k].total]
             counts == [k \in lines |-> db.summary[k].count]
  <1>1. IsFiniteSet(rows) /\ rows \subseteq db.log
    BY RowFacts, FS_Subset DEF RowsUnder
  <1>2. ASSUME NEW k \in lines
        PROVE  /\ IsFiniteSet(RowsOfLine(k)) /\ RowsOfLine(k) # {}
               /\ RowsOfLine(k) = {r \in rows : key[r] = k}
               /\ totals[k] = Total(RowsOfLine(k))
               /\ counts[k] = Cardinality(RowsOfLine(k))
    <2>1. k \in DOMAIN db.summary /\ k[1] = day /\ k[2] \in labels
      BY DEF LinesOf
    <2>2. \A r \in RowsOfLine(k) : r \in db.log /\ Day(r.at) = day /\ r.label \in labels
      BY <2>1, RowFacts DEF RowsOfLine
    <2>3. RowsOfLine(k) = {r \in rows : key[r] = k}
      BY <2>2 DEF RowsOfLine, RowsUnder
    <2> QED
      BY <2>1, <2>3, GroupOfLine
  <1>3. ASSUME NEW r \in rows PROVE KeyOf(r) \in lines
    <2>1. /\ r \in RowsOfLine(KeyOf(r))
          /\ KeyOf(r) \in Nat \X Labels \X Categories
          /\ KeyOf(r)[1] = day /\ KeyOf(r)[2] \in labels
      BY RowFacts DEF RowsOfLine, RowsUnder
    <2>2. day \in 0 .. Day(MaxClock)
      <3>1. clock \in Nat /\ MaxClock \in Nat /\ clock <= MaxClock
        BY DatabaseAssumption DEF DbTypeOK
      <3> QED
        BY <3>1, DayMonotone, DayNat
    <2>3. KeyOf(r) \in (0 .. Day(MaxClock)) \X Labels \X Categories
      BY <2>1, <2>2
    <2> QED
      BY <2>1, <2>3 DEF SummaryAgrees, LinesOf
  <1>4. \A r \in rows : key[r] \in lines /\ bytes[r] = r.bytes /\ ones[r] = 1
    BY <1>3
  <1>5. lines = {key[r] : r \in rows}
    <2>1. \A k \in lines : \E r \in rows : key[r] = k
      BY <1>2
    <2> QED
      BY <1>4, <2>1
  <1>6. Total(rows) = SumFunctionOnSet(bytes, rows)
    BY SumOfBytes DEF Total
  <1>7. /\ BytesOfLines(lines) = SumFunctionOnSet(totals, lines)
        /\ EventsOfLines(lines) = SumFunctionOnSet(counts, lines)
    BY SumOfTotals, SumOfCounts DEF BytesOfLines, EventsOfLines
  <1>8. \A r \in rows : bytes[r] \in Int /\ ones[r] \in Int
    BY <1>1, RowFacts
  <1> HIDE DEF rows, lines, key, totals, counts, bytes, ones
  <1>9. ASSUME NEW k \in lines
        PROVE  /\ totals[k] = SumFunctionOnSet(bytes, {r \in rows : key[r] = k})
               /\ counts[k] = SumFunctionOnSet(ones, {r \in rows : key[r] = k})
    <2> DEFINE part == RowsOfLine(k)
               short == [r \in part |-> r.bytes]
    <2>1. IsFiniteSet(part) /\ part = {r \in rows : key[r] = k} /\ part \subseteq rows
      BY <1>2
    <2>2. Total(part) = SumFunctionOnSet(short, part)
      BY SumOfBytes DEF Total
    <2>3. \A r \in part : short[r] = bytes[r] /\ short[r] \in Int
      BY <1>4, <1>8, <2>1
    <2>4. \A r \in part : ones[r] = 1
      BY <1>4, <2>1
    <2> HIDE DEF part, short
    <2>5. SumFunctionOnSet(short, part) = SumFunctionOnSet(bytes, part)
      BY <2>1, <2>3, SumAgree
    <2>6. SumFunctionOnSet(ones, part) = Cardinality(part)
      BY <2>1, <2>4, SumOfOnes
    <2> QED
      BY <1>2, <2>1, <2>2, <2>5, <2>6 DEF part
  <1>10. InParts(bytes, rows, key, lines, totals) /\ InParts(ones, rows, key, lines, counts)
    BY <1>4, <1>5, <1>8, <1>9 DEF InParts
  <1>11. /\ SumFunctionOnSet(totals, lines) = SumFunctionOnSet(bytes, rows)
         /\ SumFunctionOnSet(counts, lines) = SumFunctionOnSet(ones, rows)
    BY <1>1, <1>10, SumOfParts
  <1>12. SumFunctionOnSet(ones, rows) = Cardinality(rows)
    BY <1>1, <1>4, SumOfOnes
  <1> QED
    BY <1>6, <1>7, <1>11, <1>12 DEF rows, lines

(* Of a day that is in the window as a whole, the query sees each row that grew. *)
LEMMA ChartFacts ==
  ASSUME DbTypeOK, SummaryAgrees, NEW days \in 1 .. Retention + 1,
         NEW day \in 0 .. Day(clock), NEW label \in Labels,
         day * DayLength > clock - days * DayLength, day * DayLength >= pruned
  PROVE  IF BytesOfLines(LinesOf(day, {label})) = 0
         THEN <<day, label>> \notin DOMAIN DailyGrowth(days)
         ELSE /\ <<day, label>> \in DOMAIN DailyGrowth(days)
              /\ DailyGrowth(days)[<<day, label>>].total = BytesOfLines(LinesOf(day, {label}))
              /\ DailyGrowth(days)[<<day, label>>].count <= EventsOfLines(LinesOf(day, {label}))
  <1> DEFINE rows == RowsUnder(day, {label})
             bar == <<day, label>>
             part == {r \in Growing(days) : <<Day(r.at), r.label>> = bar}
  <1>1. /\ BytesOfLines(LinesOf(day, {label})) = Total(rows)
        /\ EventsOfLines(LinesOf(day, {label})) = Cardinality(rows)
    BY LinesAddUp
  <1>2. IsFiniteSet(rows) /\ \A r \in rows : r.bytes \in Nat /\ r.at \in Nat
    BY RowFacts, FS_Subset DEF RowsUnder
  <1>3. ASSUME NEW r \in rows PROVE r.at > clock - days * DayLength
    <2>1. day * DayLength \in Int /\ clock - days * DayLength \in Int
      <3>1. day \in Int /\ DayLength \in Int /\ clock \in Int /\ days \in Int
        BY RowFacts, DatabaseAssumption
      <3> QED
        BY <3>1
    <2>2. r.at \in Nat /\ Day(r.at) = day
      BY <1>2 DEF RowsUnder
    <2>3. day * DayLength <= r.at
      BY <2>2, DayBounds
    <2> HIDE DEF rows
    <2> QED
      BY <2>1, <2>2, <2>3
  <1>4. part = {r \in rows : r.bytes > 0}
    BY <1>3 DEF RowsUnder, Growing, Window
  <1>5. part \in SUBSET rows /\ \A r \in rows \ part : r.bytes = 0
    <2> HIDE DEF part, rows
    <2>1. \A r \in rows \ part : r.bytes \in Nat /\ ~(r.bytes > 0)
      BY <1>2, <1>4
    <2> QED
      BY <1>4, <2>1
  <1>6. bar \in DOMAIN DailyGrowth(days) <=> part # {}
    BY DEF DailyGrowth
  <1>7. part # {} => DailyGrowth(days)[bar] = Group(part)
    BY DEF DailyGrowth
  <1> HIDE DEF part, bar, rows
  <1>8. /\ Total(part) = Total(rows)
        /\ Total(rows) = 0 <=> \A r \in rows : r.bytes = 0
    BY <1>2, <1>5, TotalFacts
  <1>9. part = {} <=> Total(rows) = 0
    BY <1>2, <1>4, <1>8
  <1>10. Cardinality(part) <= Cardinality(rows)
    BY <1>2, <1>5, FS_Subset
  <1>11. Group(part).total = Total(part) /\ Group(part).count = Cardinality(part)
    BY DEF Group
  <1> QED
    BY <1>1, <1>6, <1>7, <1>8, <1>9, <1>10, <1>11 DEF bar

(* Each bar of a whole day of the chart's window that pruning has not cut is  *)
(* what its label's lines of daily_summary add up to, over all categories;    *)
(* rows of no bytes make their counts the larger ones.                        *)
THEOREM ChartCorrect == DbSpec => []ChartAgreesWithSummary
  <1>1. DbInv /\ SummaryAgrees => ChartAgreesWithSummary
    BY ChartFacts DEF ChartAgreesWithSummary, DbInv
  <1> QED
    BY <1>1, DatabaseCorrect, SummaryCorrect, PTL

(* A label that grew today is among the growers of the last 24 hours, with no  *)
(* less than its growth of today.                                              *)
LEMMA GrowsWithin ==
  ASSUME DbTypeOK, SummaryAgrees, NEW label \in Labels, StartOfDay >= pruned,
         BytesOfLines(LinesOf(Day(clock), {label})) > 0
  PROVE  /\ \E r \in Growing(1) : r.label = label
         /\ GrowthOf(1, label).total >= BytesOfLines(LinesOf(Day(clock), {label}))
         /\ BytesOfLines(LinesOf(Day(clock), {label})) \in Nat
  <1> DEFINE rows == RowsUnder(Day(clock), {label})
             whole == {r \in Growing(1) : r.label = label}
             part == {r \in rows : r.bytes > 0}
  <1>1. BytesOfLines(LinesOf(Day(clock), {label})) = Total(rows)
    <2>1. Day(clock) \in 0 .. Day(clock)
      BY RowFacts
    <2> QED
      BY <2>1, LinesAddUp DEF StartOfDay
  <1>2. IsFiniteSet(rows) /\ \A r \in rows : r.bytes \in Nat /\ r.at \in Nat
    BY RowFacts, FS_Subset DEF RowsUnder
  <1>3. ASSUME NEW r \in rows PROVE r.at > clock - 1 * DayLength
    <2>1. clock < (Day(clock) + 1) * DayLength /\ clock \in Nat /\ Day(clock) \in Nat
      BY RowFacts, DayBounds
    <2>2. (Day(clock) + 1) * DayLength = Day(clock) * DayLength + DayLength
          /\ Day(clock) * DayLength \in Nat /\ DayLength \in Nat
      BY <2>1, DatabaseAssumption
    <2>3. r.at \in Nat /\ Day(r.at) = Day(clock)
      BY <1>2 DEF RowsUnder
    <2>4. Day(clock) * DayLength <= r.at
      BY <2>3, DayBounds
    <2> HIDE DEF rows
    <2> QED
      BY <2>1, <2>2, <2>3, <2>4
  <1>4. part \in SUBSET whole /\ whole \in SUBSET db.log
    BY <1>3 DEF RowsUnder, Growing, Window
  <1>5. IsFiniteSet(whole) /\ \A r \in whole : r.bytes \in Nat
    BY <1>4, RowFacts, FS_Subset
  <1>6. part \in SUBSET rows /\ \A r \in rows \ part : r.bytes = 0
    BY <1>2
  <1>7. GrowthOf(1, label).total = Total(whole)
    BY DEF GrowthOf, Group
  <1>8. (\A r \in rows : r.bytes = 0) <=> part = {}
    BY <1>2
  <1> HIDE DEF whole, part, rows
  <1>9. /\ Total(part) <= Total(whole) /\ Total(whole) \in Nat /\ Total(part) \in Nat
    BY <1>4, <1>5, TotalFacts
  <1>10. /\ Total(part) = Total(rows)
         /\ Total(rows) = 0 <=> \A r \in rows : r.bytes = 0
    BY <1>2, <1>6, TotalFacts
  <1>11. whole # {}
    BY <1>1, <1>4, <1>8, <1>10
  <1> QED
    BY <1>1, <1>7, <1>9, <1>10, <1>11 DEF whole

(* Whoever is cut off by the limit has grown by no more than all who are shown. *)
LEMMA RankingFacts ==
  ASSUME DbTypeOK, SummaryAgrees, NEW answer \in TopGrowers(1), NEW label \in Labels,
         StartOfDay >= pruned, BytesOfLines(LinesOf(Day(clock), {label})) > 0
  PROVE  IF label \in DOMAIN answer
         THEN answer[label].total >= BytesOfLines(LinesOf(Day(clock), {label}))
         ELSE /\ Cardinality(DOMAIN answer) = MaxGrowers
              /\ \A l \in DOMAIN answer :
                    answer[l].total >= BytesOfLines(LinesOf(Day(clock), {label}))
  <1> DEFINE growers == {r.label : r \in Growing(1)}
             today == BytesOfLines(LinesOf(Day(clock), {label}))
  <1>1. PICK T \in SUBSET growers :
           /\ T = growers \/ Cardinality(T) = MaxGrowers
           /\ \A l \in T, m \in growers \ T : GrowthOf(1, l).total >= GrowthOf(1, m).total
           /\ answer = [l \in T |-> GrowthOf(1, l)]
    BY DEF TopGrowers
  <1>2. label \in growers /\ GrowthOf(1, label).total >= today /\ today \in Nat
    BY GrowsWithin
  <1>3. \A l : GrowthOf(1, l).total \in Nat
    <2>1. ASSUME NEW l PROVE Total({r \in Growing(1) : r.label = l}) \in Nat
      <3> DEFINE rows == {r \in Growing(1) : r.label = l}
      <3>1. rows \subseteq db.log
        BY DEF Growing, Window
      <3>2. IsFiniteSet(rows) /\ \A r \in rows : r.bytes \in Nat
        BY <3>1, RowFacts, FS_Subset
      <3> HIDE DEF rows
      <3>3. Total(rows) \in Nat
        BY <3>2, TotalFacts
      <3> QED
        BY <3>3 DEF rows
    <2> QED
      BY <2>1 DEF GrowthOf, Group
  <1> HIDE DEF growers, today
  <1>4. CASE label \in T
    BY <1>1, <1>2, <1>4 DEF today
  <1>5. CASE label \notin T
    <2>1. Cardinality(T) = MaxGrowers
      BY <1>1, <1>2, <1>5
    <2>2. \A l \in T : answer[l].total >= GrowthOf(1, label).total
      BY <1>1, <1>2, <1>5
    <2>3. \A l \in T : answer[l].total >= today
      BY <1>1, <1>2, <1>3, <2>2
    <2> QED
      BY <1>1, <1>5, <2>1, <2>3 DEF today
  <1> QED
    BY <1>4, <1>5

(* The panel of today's consumers, whatever its limit, leaves a label that has *)
(* grown today out only behind labels that have grown by no less.              *)
THEOREM RankingCorrect == DbSpec => []TodayIsRanked
  <1>1. DbInv /\ SummaryAgrees => TodayIsRanked
    BY RankingFacts DEF TodayIsRanked, DbInv
  <1> QED
    BY <1>1, DatabaseCorrect, SummaryCorrect, PTL

(* The counts of today's lines add up to the rows of today. *)
LEMMA CountsAddUp ==
  ASSUME DbTypeOK, SummaryAgrees, StartOfDay >= pruned
  PROVE  EventsOfLines(LinesOf(Day(clock), Labels))
            = Cardinality({r \in db.log : Day(r.at) = Day(clock)})
  <1>1. Day(clock) \in 0 .. Day(clock)
    BY RowFacts
  <1>2. RowsUnder(Day(clock), Labels) = {r \in db.log : Day(r.at) = Day(clock)}
    BY RowFacts DEF RowsUnder
  <1> QED
    BY <1>1, <1>2, LinesAddUp DEF StartOfDay

(* What is of today was stamped after midnight or at midnight. *)
LEMMA TodaysRows ==
  ASSUME DbTypeOK
  PROVE  Cardinality({r \in db.log : Day(r.at) = Day(clock)})
            = CountToday + Cardinality({r \in db.log : r.at = StartOfDay})
  <1> DEFINE A == {r \in db.log : r.at > StartOfDay}
             B == {r \in db.log : r.at = StartOfDay}
             today == {r \in db.log : Day(r.at) = Day(clock)}
  <1>1. StartOfDay \in Nat
    <2>1. Day(clock) \in Nat /\ DayLength \in Nat
      BY RowFacts, DatabaseAssumption
    <2> QED
      BY <2>1 DEF StartOfDay
  <1>2. ASSUME NEW r \in db.log PROVE Day(r.at) = Day(clock) <=> r.at >= StartOfDay
    <2>1. r.at \in Nat /\ r.at <= clock /\ Day(r.at) \in Nat /\ clock \in Nat /\ Day(clock) \in Nat
      BY RowFacts
    <2>2. Day(r.at) <= Day(clock) /\ Day(r.at) * DayLength <= r.at
      BY <2>1, DayMonotone, DayBounds
    <2>3. Day(clock) * DayLength <= r.at => Day(clock) <= Day(r.at)
      BY <2>1, DayFromStart
    <2> QED
      BY <1>1, <2>1, <2>2, <2>3 DEF StartOfDay
  <1>3. today = A \cup B /\ A \cap B = {}
    BY <1>1, <1>2, RowFacts
  <1>4. IsFiniteSet(A) /\ IsFiniteSet(B)
    BY RowFacts, FS_Subset
  <1>5. CountToday = Cardinality(A)
    BY DEF CountToday
  <1> HIDE DEF A, B, today
  <1>6. Cardinality(A \cup B) = Cardinality(A) + Cardinality(B) - Cardinality(A \cap B)
    BY <1>4, FS_Union
  <1>7. Cardinality(A) \in Nat /\ Cardinality(B) \in Nat /\ Cardinality(A \cap B) = 0
    BY <1>3, <1>4, FS_CardinalityType, FS_EmptySet
  <1>8. Cardinality(today) = CountToday + Cardinality(B)
    BY <1>3, <1>5, <1>6, <1>7
  <1> QED
    BY <1>8 DEF B, today

(* The status line counts what daily_summary counts for today, less the rows *)
(* of midnight, which its query leaves out.                                  *)
THEOREM StatusCorrect == DbSpec => []StatusAgreesWithSummary
  <1>1. DbInv /\ SummaryAgrees => StatusAgreesWithSummary
    BY CountsAddUp, TodaysRows DEF StatusAgreesWithSummary, DbInv
  <1> QED
    BY <1>1, DatabaseCorrect, SummaryCorrect, PTL

(* What a retention delete takes, no query over retention_days looks at. *)
LEMMA WindowStep ==
  ASSUME DbTypeOK, DeleteOlder, NEW days \in 1 .. Retention
  PROVE  Window(db'.log, days) = Window(db.log, days)
  <1>1. db'.log = {r \in db.log : r.at >= Limit}
    BY PrunedFields DEF DeleteOlder
  <1>2. clock \in Nat /\ \A r \in db.log : r.at \in Nat
    BY RowFacts
  <1>3. days * DayLength <= Retention * DayLength
        /\ days * DayLength \in Nat /\ Retention * DayLength \in Nat
    <2>1. \A a, b, n \in Nat : a <= b => a * n <= b * n
      OBVIOUS
    <2>2. days \in Nat /\ Retention \in Nat /\ DayLength \in Nat /\ days <= Retention
      BY DatabaseAssumption
    <2> QED
      BY <2>1, <2>2
  <1>4. ASSUME NEW r \in db.log, r.at > clock - days * DayLength PROVE r.at >= Limit
    BY <1>2, <1>3, <1>4 DEF Limit
  <1> QED
    BY <1>1, <1>4 DEF Window

(* Pruning at startup takes nothing from a query over retention_days or fewer. *)
THEOREM PruningSpares == DbSpec => WindowsKept
  <1>1. DbTypeOK /\ [DbNext]_dbVars =>
           [DeleteOlder => \A days \in 1 .. Retention :
                              Window(db'.log, days) = Window(db.log, days)]_dbVars
    BY WindowStep
  <1>2. DbInv => DbTypeOK
    BY DEF DbInv
  <1> QED
    BY <1>1, <1>2, DatabaseCorrect, PTL DEF DbSpec, WindowsKept

(* Rows, lines, the transaction's copy and the clock have the types declared,  *)
(* and nothing in the database is of a time to come.                           *)
THEOREM DatabaseTypes == DbSpec => []DbTypeOK
  <1>1. DbInv => DbTypeOK
    BY DEF DbInv
  <1> QED
    BY <1>1, DatabaseCorrect, PTL
=============================================================================
