------------------------------- MODULE MCHost -------------------------------
(* What an analysis thread deals with besides the scheduler: its machine, the
   network routing, and the Agent in the VM.  The three share no state, so that
   an instance has one of them at work and the others at rest, in states none of
   their actions leaves. *)
EXTENDS Machines, Rooter, Guest

CONSTANTS g1, g2

MachineRests ==
    /\ backend = "qemu" /\ power = "off" /\ dirty = FALSE /\ process = "none"
    /\ mpc = "lost" /\ step = 1 /\ waitme = 0 /\ quiet = FALSE /\ analyses = 0

RooterRests ==
    /\ server = "up" /\ lock = Nobody /\ asked = << >> /\ outage = FALSE
    /\ answer = [c \in Callers |-> "none"] /\ todo = [c \in Callers |-> << >>]
    /\ cpc = [c \in Callers |-> "idle"]
    /\ stage = [c \in Callers |-> IF c = Main THEN "failed" ELSE "wait"]
    /\ interface = [g \in Guests |-> FALSE] /\ rtable = [g \in Guests |-> FALSE]
    /\ nic = FALSE /\ named = FALSE
    /\ forward = [g \in Guests |-> 0] /\ srcroute = [g \in Guests |-> 0]
    /\ nat = 0 /\ policy = "ACCEPT"
    /\ runs = [g \in Guests |-> 0] /\ mishaps = MaxMishaps

GuestRests ==
    /\ agent = "new" /\ category = "url" /\ vm = "gone" /\ row = "stopping"
    /\ manager = "over" /\ requests = << >> /\ late = TRUE
    /\ status = "complete" /\ placed = {} /\ outcome = "ok" /\ stopAsked = TRUE

MachinesRun == MachinesNext /\ UNCHANGED <<rvars, gvars>>
RooterRun   == RooterNext /\ UNCHANGED <<mvars, gvars>>
GuestRun    == GuestNext /\ UNCHANGED <<mvars, rvars>>

Init == \/ MachinesInit /\ RooterRests /\ GuestRests
        \/ MachineRests /\ RooterInit /\ GuestRests
        \/ MachineRests /\ RooterRests /\ GuestInit

Next == MachinesRun \/ RooterRun \/ GuestRun

Spec == /\ Init /\ [][Next]_<<mvars, rvars, gvars>>
        /\ MachinesFair /\ RooterFair /\ GuestFair

(* Whatever a thread waits for comes to an end: the calls of its machinery module, of
   the rooter, and the waits for the Agent. *)
CallsEnd == GivenBack /\ Answered /\ WaitEnds
=============================================================================
