-------------------------------- MODULE Store --------------------------------
(***************************************************************************)
(* What the database promises its readers: a record enters change_log and  *)
(* the total of its day in one step, a row leaves only when it is pruned,  *)
(* and no id is used twice.                                                *)
(***************************************************************************)
EXTENDS Integers

CONSTANTS
    Labels, Categories, Sizes, DayLength,
    Times,      \* when a record may have been stamped
    Limits      \* how far back a pruning may keep rows

VARIABLES
    rows,       \* change_log
    totals,     \* daily_summary
    lastId      \* the last id given

vars == <<rows, totals, lastId>>

Day(t) == t \div DayLength

\* A record with n bytes added to the line of its day, label and category.
Upserted(lines, key, n) ==
    [k \in DOMAIN lines \cup {key} |->
        IF k # key THEN lines[k]
        ELSE IF k \in DOMAIN lines
             THEN [total |-> lines[k].total + n, count |-> lines[k].count + 1]
             ELSE [total |-> n, count |-> 1]]

Init ==
    /\ rows = {}
    /\ totals = [k \in {} |-> k]
    /\ lastId = 0

Record(at, label, category, n) ==
    /\ lastId' = lastId + 1
    /\ rows' = rows \cup {[id |-> lastId', at |-> at, label |-> label,
                           category |-> category, bytes |-> n]}
    /\ totals' = Upserted(totals, <<Day(at), label, category>>, n)

Prune(oldest) ==
    /\ rows' = {r \in rows : r.at >= oldest}
    /\ UNCHANGED <<totals, lastId>>

Next ==
    \/ \E at \in Times, label \in Labels, category \in Categories, n \in Sizes :
          Record(at, label, category, n)
    \/ \E oldest \in Limits : Prune(oldest)

Spec == Init /\ [][Next]_vars
=============================================================================
