------------------------------- MODULE Queries -------------------------------
(***************************************************************************)
(* What the HTTP handlers read from the Database: each query runs under    *)
(* the connection's mutex, on what is committed.  Date arithmetic is on    *)
(* UTC seconds.  The queries group by label and know no category, where    *)
(* daily_summary has a line per category.                                  *)
(***************************************************************************)
EXTENDS Database, FiniteSetsExt

CONSTANT MaxGrowers     \* 20 in get_top_growers

ASSUME LimitAssumption == MaxGrowers \in Nat

Total(rows) == MapThenSumSet(LAMBDA r : r.bytes, rows)

Group(rows) == [total |-> Total(rows), count |-> Cardinality(rows)]

Growing(days) == {r \in Window(db.log, days) : r.bytes > 0}

\* GROUP BY process_label
GrowthOf(days, label) == Group({r \in Growing(days) : r.label = label})

\* Mutant: the order is ascending.
TopGrowersAscending(days) ==
    LET growers == {r.label : r \in Growing(days)}
        Chosen(T) ==
            /\ Cardinality(T) <= MaxGrowers
            /\ T = growers \/ Cardinality(T) = MaxGrowers
            /\ \A l \in T, m \in growers \ T :
                  GrowthOf(days, l).total <= GrowthOf(days, m).total
    IN  {[l \in T |-> GrowthOf(days, l)] : T \in {S \in SUBSET growers : Chosen(S)}}

\* get_top_growers: ORDER BY total DESC LIMIT 20.  Labels with equal totals come
\* in any order, so where the limit cuts them there are several answers.
TopGrowers(days) ==
    LET growers == {r.label : r \in Growing(days)}
        Chosen(T) ==
            /\ Cardinality(T) <= MaxGrowers
            /\ T = growers \/ Cardinality(T) = MaxGrowers
            /\ \A l \in T, m \in growers \ T :
                  GrowthOf(days, l).total >= GrowthOf(days, m).total
    IN  {[l \in T |-> GrowthOf(days, l)] : T \in {S \in SUBSET growers : Chosen(S)}}

\* Mutant: grouped by day, label and category, of which the last line is kept.
DailyGrowthByCategory(days) ==
    [k \in {<<Day(r.at), r.label>> : r \in Growing(days)} |->
        LET c == CHOOSE c \in Categories :
                     \E r \in Growing(days) : KeyOf(r) = <<k[1], k[2], c>>
        IN  Group({r \in Growing(days) : KeyOf(r) = <<k[1], k[2], c>>})]

\* get_daily_growth: GROUP BY the day and process_label.
DailyGrowth(days) ==
    [k \in {<<Day(r.at), r.label>> : r \in Growing(days)} |->
        Group({r \in Growing(days) : <<Day(r.at), r.label>> = k})]

\* Mutant: today is the last 24 hours.
DayAgo == clock - DayLength

\* strftime('%s', 'now', 'start of day')
StartOfDay == Day(clock) * DayLength

\* count_today.
CountToday == Cardinality({r \in db.log : r.at > StartOfDay})

-----------------------------------------------------------------------------
(* Properties.                                                             *)

RowsOfLine(k) == {r \in db.log : KeyOf(r) = k}

\* For a day no pruning has reached, daily_summary says what change_log says: the
\* pre-aggregated lines and the rows never drift apart, across failures and restarts.
SummaryAgrees ==
    \A k \in (0 .. Day(MaxClock)) \X Labels \X Categories :
        k[1] * DayLength >= pruned =>
            IF RowsOfLine(k) = {}
            THEN k \notin DOMAIN db.summary
            ELSE k \in DOMAIN db.summary /\ db.summary[k] = Group(RowsOfLine(k))

\* The lines of a day for some labels, and what they add up to.
LinesOf(day, labels) == {k \in DOMAIN db.summary : k[1] = day /\ k[2] \in labels}

BytesOfLines(lines)  == MapThenSumSet(LAMBDA k : db.summary[k].total, lines)
EventsOfLines(lines) == MapThenSumSet(LAMBDA k : db.summary[k].count, lines)

\* A bar of the 7-day chart, which is of a label, shows what the lines of all its
\* categories in daily_summary add up to for the day, if the window contains the
\* whole day and pruning has not cut it; the window does cut the oldest day, and
\* rows of 0 bytes are in one count only.
ChartAgreesWithSummary ==
    \A days \in 1 .. Retention + 1, day \in 0 .. Day(clock), label \in Labels :
        (day * DayLength > clock - days * DayLength /\ day * DayLength >= pruned) =>
            LET bar == <<day, label>>
                lines == LinesOf(day, {label})
            IN  IF BytesOfLines(lines) = 0
                THEN bar \notin DOMAIN DailyGrowth(days)
                ELSE /\ bar \in DOMAIN DailyGrowth(days)
                     /\ DailyGrowth(days)[bar].total = BytesOfLines(lines)
                     /\ DailyGrowth(days)[bar].count <= EventsOfLines(lines)

\* The status line's number of events today is what daily_summary counts for
\* today, less the rows stamped exactly at midnight, which the query leaves out.
StatusAgreesWithSummary ==
    StartOfDay >= pruned =>
        CountToday + Cardinality({r \in db.log : r.at = StartOfDay})
            = EventsOfLines(LinesOf(Day(clock), Labels))

\* A label that has grown today is missing from the panel of today's consumers only
\* behind a full list of labels that have grown by no less; and one that is shown
\* is shown with at least its growth of today, since the 24 hours contain the day.
TodayIsRanked ==
    \A answer \in TopGrowers(1), label \in Labels :
        LET growth == BytesOfLines(LinesOf(Day(clock), {label}))
        IN  (StartOfDay >= pruned /\ growth > 0) =>
                IF label \in DOMAIN answer
                THEN answer[label].total >= growth
                ELSE /\ Cardinality(DOMAIN answer) = MaxGrowers
                     /\ \A l \in DOMAIN answer : answer[l].total >= growth
=============================================================================
