--------------------------- MODULE MCResultServer ---------------------------
(* Small instances of ResultServer for TLC. *)
EXTENDS ResultServer

CONSTANTS ip1, upload1
=============================================================================
