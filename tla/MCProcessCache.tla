---------------------------- MODULE MCProcessCache ----------------------------
(* A small instance of ProcessCache for TLC. *)
EXTENDS ProcessCache, TLC

CONSTANTS p1, p2, app, svc, exited, unknown

PidSymmetry == Permutations({p1, p2})
=============================================================================
