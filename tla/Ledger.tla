-------------------------------- MODULE Ledger --------------------------------
(***************************************************************************)
(* What the pipeline promises about bytes, whatever its queues and tasks   *)
(* do: per file, bytes accepted by the filters are outstanding until they  *)
(* are committed to change_log in rows of at least Threshold bytes, and    *)
(* they are committed at most once.  They can be given up in two ways      *)
(* only: fewer than Threshold at a time, when an aggregation is drained,   *)
(* or one whole row at a time, when its insert fails.                      *)
(***************************************************************************)
EXTENDS Integers

CONSTANTS
    Files,
    Threshold,     \* the least number of bytes worth a row
    MaxBytes       \* the most one aggregation can hold

VARIABLES
    accepted,      \* bytes aggregated so far, per file
    outstanding,   \* of these, on their way to change_log
    committed      \* of these, in change_log

vars == <<accepted, outstanding, committed>>

TypeOK ==
    /\ accepted \in [Files -> Nat]
    /\ outstanding \in [Files -> Nat]
    /\ committed \in [Files -> Nat]

Init ==
    /\ accepted = [f \in Files |-> 0]
    /\ outstanding = [f \in Files |-> 0]
    /\ committed = [f \in Files |-> 0]

\* An event is aggregated.
Accept(f) ==
    \E n \in 0 .. MaxBytes :
        /\ accepted' = [accepted EXCEPT ![f] = @ + n]
        /\ outstanding' = [outstanding EXCEPT ![f] = @ + n]
        /\ UNCHANGED committed

\* A row is inserted.
Commit(f) ==
    \E n \in Threshold .. outstanding[f] :
        /\ outstanding' = [outstanding EXCEPT ![f] = @ - n]
        /\ committed' = [committed EXCEPT ![f] = @ + n]
        /\ UNCHANGED accepted

\* The insert of a row fails.
Fail(f) ==
    \E n \in Threshold .. outstanding[f] :
        /\ outstanding' = [outstanding EXCEPT ![f] = @ - n]
        /\ UNCHANGED <<accepted, committed>>

\* Aggregations too small to record are dropped, of any number of files.
Forgo ==
    \E loss \in [Files -> 0 .. Threshold - 1] :
        /\ \A f \in Files : loss[f] <= outstanding[f]
        /\ outstanding' = [f \in Files |-> outstanding[f] - loss[f]]
        /\ UNCHANGED <<accepted, committed>>

Next ==
    \/ \E f \in Files : Accept(f) \/ Commit(f) \/ Fail(f)
    \/ Forgo

Spec == Init /\ [][Next]_vars

\* No byte is counted twice: what is in the log and what is on its way there
\* never exceed what the filters let in.
Balanced == \A f \in Files : committed[f] + outstanding[f] <= accepted[f]
=============================================================================
