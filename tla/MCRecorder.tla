----------------------------- MODULE MCRecorder -----------------------------
(* Small instances of Recorder for TLC. *)
EXTENDS Recorder

CONSTANTS f1, f2, app, docker, images, sources

Labelled == [n \in {app} |-> docker]

Categorised == [p \in {f1, f2} \X {app} |-> IF p[1] = f1 THEN images ELSE sources]
=============================================================================
