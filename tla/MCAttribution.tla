---------------------------- MODULE MCAttribution ----------------------------
(* Small instances of Attribution for TLC. *)
EXTENDS Attribution

CONSTANTS f1, p1, p2, app, svc, exited, unknown
=============================================================================
