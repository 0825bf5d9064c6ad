--------------------------- MODULE MCDistributed ---------------------------
(* Small instances of Distributed for TLC. *)
EXTENDS Distributed

CONSTANTS n1        \* a node
=============================================================================
