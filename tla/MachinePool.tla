---------------------------- MODULE MachinePool ----------------------------
(***************************************************************************)
(* What the machine table promises its users, without saying how they come *)
(* to it: a machine is used by one user at a time, and goes back to the    *)
(* pool only through the user it was given to, or when Cuckoo is started   *)
(* again and the table is filled anew.                                     *)
(***************************************************************************)
CONSTANTS Users, Machines, NoMachine

VARIABLES busy,   \* the machines that are not free
          uses    \* user -> the machine it was given

vars == <<busy, uses>>

Init == busy = {} /\ uses = [u \in Users |-> NoMachine]

Acquire(u, m) == /\ uses[u] = NoMachine /\ m \notin busy
                 /\ busy' = busy \cup {m}
                 /\ uses' = [uses EXCEPT ![u] = m]

Release(u) == /\ uses[u] # NoMachine
              /\ busy' = busy \ {uses[u]}
              /\ uses' = [uses EXCEPT ![u] = NoMachine]

(* Every user dies; nobody gave anything back *)
Abandon == uses' = [u \in Users |-> NoMachine] /\ UNCHANGED busy

(* The table is filled anew, while nobody uses it *)
Refill == /\ uses = [u \in Users |-> NoMachine]
          /\ busy' = {} /\ UNCHANGED uses

Next == \/ \E u \in Users, m \in Machines : Acquire(u, m)
        \/ \E u \in Users : Release(u)
        \/ Abandon \/ Refill

Spec == Init /\ [][Next]_vars
=============================================================================
