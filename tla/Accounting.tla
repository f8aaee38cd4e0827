------------------------------ MODULE Accounting ------------------------------
(***************************************************************************)
(* The account of bytes that the pipeline keeps: where the bytes of a file *)
(* are that the map took in, and that Debouncer so implements Ledger.      *)
(***************************************************************************)
EXTENDS Debouncer, FiniteSetsExt

BytesIn(f, rows) == MapThenSumSet(LAMBDA r : r.bytes, {r \in rows : r.file = f})

BytesAlong(f, queue) ==
    MapThenSumSet(LAMBDA i : queue[i].bytes, {i \in DOMAIN queue : queue[i].file = f})

\* Bytes neither in change_log nor given up are in exactly one place on the way there.
Outstanding ==
    [f \in Files |-> BytesOf(f) + BytesIn(f, outbox) + BytesAlong(f, records)
                        + BytesIn(f, writing)]

Committed == [f \in Files |-> BytesAlong(f, log)]

BytesLedger == INSTANCE Ledger WITH outstanding <- Outstanding, committed <- Committed

\* No byte is counted in two rows or lost between two queues: the only losses are
\* aggregations below min_delta_bytes and rows whose insert failed.
ImplementsLedger == BytesLedger!Spec
=============================================================================
