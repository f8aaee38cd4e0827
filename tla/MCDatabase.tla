------------------------------ MODULE MCDatabase ------------------------------
(* A small instance of Database and its queries for TLC. *)
EXTENDS Queries, TLC

CONSTANTS docker, node, images, sources

RowSymmetry == Permutations({docker, node}) \cup Permutations({images, sources})
=============================================================================
