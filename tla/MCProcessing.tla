---------------------------- MODULE MCProcessing ----------------------------
(* Small instances of Processing for TLC. *)
EXTENDS Processing

CONSTANTS i1, i2        \* instances of process2.py
=============================================================================
