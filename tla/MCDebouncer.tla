----------------------------- MODULE MCDebouncer -----------------------------
(* Small instances of Debouncer and its account of bytes for TLC. *)
EXTENDS Accounting, TLC

CONSTANTS f1, f2, fx, app, svc

FileSymmetry == Permutations({f1, f2})
=============================================================================
