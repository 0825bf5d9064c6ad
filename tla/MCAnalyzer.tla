----------------------------- MODULE MCAnalyzer -----------------------------
(* Small instances of Analyzer for TLC. *)
EXTENDS Analyzer

ListsAndFiles == {[timeout |-> 3, does |-> "lists"], [timeout |-> 1, does |-> "files"]}

Spec == AnalyzerSpec /\ AnalyzerFair
=============================================================================
