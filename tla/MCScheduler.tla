---------------------------- MODULE MCScheduler ----------------------------
(* Small instances of Scheduler for TLC. *)
EXTENDS Scheduler, TLC

CONSTANTS c1, c2,        \* machines
          win            \* a tag of some machines

NameIsLabel == [m \in Machines |-> m]
NoTags      == [m \in Machines |-> {}]
PlainTags   == [m \in Machines |-> IF m = c1 THEN {win} ELSE {}]

Symmetry == Permutations(Machines)

AnyMachine == [kind |-> "file", machine |-> NoMachine, tags |-> {},
               priority |-> 1, services |-> FALSE]
OnC1       == [AnyMachine EXCEPT !.machine = c1, !.priority = 2]
Tagged     == [AnyMachine EXCEPT !.kind = "url", !.tags = {win}]
Baseline   == [AnyMachine EXCEPT !.kind = "baseline", !.machine = c1, !.priority = 999]

OneRequest    == {AnyMachine}
TwoRequests   == {OnC1, Tagged}
WithServices  == {[AnyMachine EXCEPT !.services = TRUE]}
TwoKinds      == {AnyMachine} \cup WithServices
MixedRequests == {Tagged, Baseline}
=============================================================================
