------------------------------- MODULE Rooter -------------------------------
(***************************************************************************)
(* Network routing for analyses: init_rooter, init_routing and the rules   *)
(* Scheduler.initialize drops at start-up, route_network and               *)
(* unroute_network of the analysis threads, the client                     *)
(* lib/cuckoo/core/rooter.py with its one lock and one socket, and the     *)
(* root process utils/rooter.py that changes the tables of the kernel.     *)
(*                                                                         *)
(* Every thread has one machine, and may analyse on it several times.      *)
(***************************************************************************)
EXTENDS Naturals, Sequences, FiniteSets, Functions

CONSTANTS
    Guests,      \* the threads, each with its machine
    Main,        \* the thread that starts Cuckoo up
    Nobody,
    MaxRuns,     \* bound: analyses of a thread
    MaxMishaps   \* bound: deaths of the root process or of Cuckoo

ASSUME RooterAssumption ==
    /\ IsFiniteSet(Guests)
    /\ Main \notin Guests /\ Nobody \notin Guests \cup {Main}
    /\ MaxRuns \in Nat /\ MaxMishaps \in Nat

Callers == Guests \cup {Main}

VARIABLES
    server,    \* utils/rooter.py: "up", "down" with its socket still there, or "absent"
    lock,      \* who holds the lock of rooter.py
    asked,     \* the commands in the socket of the server: a sequence of [from, command]
    answer,    \* caller -> its answer: "none", "yes" or "no"
    todo,      \* caller -> the commands it still has to give
    cpc,       \* caller -> where it is in rooter()
    stage,     \* caller -> what it is doing
    interface, \* thread -> whether self.interface is set
    rtable,    \* thread -> whether self.rt_table is set
    nic,       \* whether the outgoing interface is there
    named,     \* whether the machines have an interface in their configuration
    forward,   \* machine -> FORWARD rules for its address
    srcroute,  \* machine -> policy rules for its address
    nat,       \* MASQUERADE rules of the outgoing interface
    policy,    \* the policy of FORWARD
    outage,    \* whether the server was down since this Cuckoo was started
    runs, mishaps

tables == <<forward, srcroute, nat, policy>>
bounds == <<runs, mishaps>>
rvars == <<server, lock, asked, answer, todo, cpc, stage, interface, rtable, nic, named,
           tables, outage, bounds>>

(* What is asked for; the rules are those of a machine, the rest is global. *)
RootCommand(name, g) == [name |-> name, machine |-> g]
Commands == [name : {"forward_drop", "nic_available", "rt_available", "disable_nat",
                     "enable_nat", "flush_rttable", "init_rttable", "forward_enable",
                     "srcroute_enable", "forward_disable", "srcroute_disable"},
             machine : Guests \cup {Nobody}]

Entries == [from : Callers \cup {Nobody}, command : Commands]
Stages  == {"wait", "connect", "init", "drop", "failed", "probe", "enable", "analyse",
            "disable", "free"}

RooterTypeOK ==
    /\ server \in {"up", "down", "absent"}
    /\ lock \in Callers \cup {Nobody} /\ outage \in BOOLEAN
    /\ asked \in Seq(Entries)
    /\ answer \in [Callers -> {"none", "yes", "no"}]
    /\ todo \in [Callers -> Seq(Commands)]
    /\ cpc \in [Callers -> {"idle", "send", "recv"}]
    /\ stage \in [Callers -> Stages]
    /\ interface \in [Guests -> BOOLEAN] /\ rtable \in [Guests -> BOOLEAN]
    /\ nic \in BOOLEAN /\ named \in BOOLEAN
    /\ forward \in [Guests -> Nat] /\ srcroute \in [Guests -> Nat]
    /\ nat \in Nat /\ policy \in {"ACCEPT", "DROP"}
    /\ runs \in [Guests -> 0..MaxRuns] /\ mishaps \in 0..MaxMishaps

(* The last call of init_rooter, and init_routing for one VPN with auto_rt *)
InitNames == <<"forward_drop", "nic_available", "rt_available", "disable_nat",
               "enable_nat", "flush_rttable", "init_rttable">>
InitCommands == [i \in DOMAIN InitNames |-> RootCommand(InitNames[i], Nobody)]

(* A Cuckoo that starts: one caller, the others come with the main loop. *)
Starts(told, at, does) ==
    /\ told = [c \in Callers |-> "none"]
    /\ at = [c \in Callers |-> "idle"]
    /\ does = [c \in Callers |-> IF c = Main THEN "connect" ELSE "wait"]

RooterInit ==
    /\ server \in {"up", "absent"} /\ lock = Nobody /\ asked = << >>
    /\ todo = [c \in Callers |-> << >>] /\ Starts(answer, cpc, stage)
    /\ interface = [g \in Guests |-> FALSE] /\ rtable = [g \in Guests |-> FALSE]
    /\ nic \in BOOLEAN /\ named \in BOOLEAN
    /\ forward = [g \in Guests |-> 0] /\ srcroute = [g \in Guests |-> 0]
    /\ nat = 0 /\ policy = "ACCEPT" /\ outage = FALSE
    /\ runs = [g \in Guests |-> 0] /\ mishaps = 0

-----------------------------------------------------------------------------
(* rooter(command, *args): one caller at a time *)

Calling(c) == todo[c] # << >> /\ stage[c] \in {"init", "drop", "probe", "enable", "disable"}

(* A call is over; `ok` is what it returned, as far as anybody looks at it. *)
Return(c, ok) ==
    /\ todo' = [todo EXCEPT ![c] = Tail(@)]
    /\ answer' = [answer EXCEPT ![c] = ok]
    /\ cpc' = [cpc EXCEPT ![c] = "idle"]

(* The socket does not exist: None, which is false. *)
NoSocket(c) ==
    /\ Calling(c) /\ cpc[c] = "idle" /\ answer[c] = "none" /\ server = "absent"
    /\ Return(c, "no")
    /\ UNCHANGED <<server, lock, asked, stage, interface, rtable, nic, named, tables,
                   outage, bounds>>

Lock(c) ==
    /\ Calling(c) /\ cpc[c] = "idle" /\ answer[c] = "none" /\ server # "absent"
    /\ lock = Nobody /\ lock' = c
    /\ cpc' = [cpc EXCEPT ![c] = "send"]
    /\ UNCHANGED <<server, asked, answer, todo, stage, interface, rtable, nic, named,
                   tables, outage, bounds>>

(* connect fails: rooter() returns None, and keeps the lock. *)
Refused(c) ==
    /\ cpc[c] = "send" /\ server # "up"
    /\ Return(c, "no")
    /\ UNCHANGED <<server, lock, asked, stage, interface, rtable, nic, named, tables,
                   outage, bounds>>

Send(c) ==
    /\ cpc[c] = "send" /\ server = "up"
    /\ asked' = Append(asked, [from |-> c, command |-> Head(todo[c])])
    /\ cpc' = [cpc EXCEPT ![c] = "recv"]
    /\ UNCHANGED <<server, lock, answer, todo, stage, interface, rtable, nic, named, tables,
                   outage, bounds>>

(* recv, without a timeout; the lock is released. *)
Receive(c) ==
    /\ cpc[c] = "recv" /\ answer[c] # "none"
    /\ lock' = Nobody
    /\ todo' = [todo EXCEPT ![c] = Tail(@)] /\ cpc' = [cpc EXCEPT ![c] = "idle"]
    /\ UNCHANGED <<server, asked, answer, stage, interface, rtable, nic, named, tables,
                   outage, bounds>>

-----------------------------------------------------------------------------
(* The loop of utils/rooter.py: one command after the other; how iptables and ip
   fare is not looked at.  "-D" of a rule that is not there changes nothing. *)

Less(n) == IF n = 0 THEN 0 ELSE n - 1
Changed(rules, command, enable, disable) ==
    [g \in Guests |-> IF g # command.machine THEN rules[g] ELSE
                      CASE command.name = enable -> rules[g] + 1
                        [] command.name = disable -> Less(rules[g])
                        [] OTHER -> rules[g]]

(* forward_enable and forward_disable take the interface of the machine: None is no
   string, which the server logs without an answer. *)
Malformed(command) == ~named /\ command.name \in {"forward_enable", "forward_disable"}

Served(command) ==
    /\ forward' = Changed(forward, command, "forward_enable", "forward_disable")
    /\ srcroute' = Changed(srcroute, command, "srcroute_enable", "srcroute_disable")
    /\ nat' = CASE command.name = "enable_nat" -> nat + 1
                [] command.name = "disable_nat" -> Less(nat)
                [] OTHER -> nat
    /\ policy' = IF command.name = "forward_drop" THEN "DROP" ELSE policy

(* The answer to a Cuckoo that was killed cannot be sent: sendto raises, and that is
   the end of the server. *)
Serve ==
    /\ server = "up" /\ asked # << >>
    /\ LET from == Head(asked).from  command == Head(asked).command IN
       IF Malformed(command)
       THEN asked' = Tail(asked) /\ UNCHANGED <<tables, answer, server, outage>>
       ELSE /\ Served(command)
            /\ IF from = Nobody
               THEN server' = "down" /\ asked' = << >> /\ outage' = TRUE /\ UNCHANGED answer
               ELSE /\ asked' = Tail(asked) /\ UNCHANGED <<server, outage>>
                    /\ answer' = [answer EXCEPT ![from] =
                           IF command.name = "nic_available" /\ ~nic THEN "no" ELSE "yes"]
    /\ UNCHANGED <<lock, todo, cpc, stage, interface, rtable, nic, named, bounds>>

-----------------------------------------------------------------------------
(* What the callers do with the answers *)

Ready(c) == cpc[c] = "idle" /\ answer[c] # "none"

NextCall(c) == answer' = [answer EXCEPT ![c] = "none"]

(* init_rooter: Cuckoo does not start without its rooter. *)
InitRooter ==
    /\ stage[Main] = "connect"
    /\ IF server = "up"
       THEN /\ stage' = [stage EXCEPT ![Main] = "init"]
            /\ todo' = [todo EXCEPT ![Main] = InitCommands] /\ outage' = FALSE
       ELSE stage' = [stage EXCEPT ![Main] = "failed"] /\ UNCHANGED <<todo, outage>>
    /\ UNCHANGED <<server, lock, asked, answer, cpc, interface, rtable, nic, named, tables,
                   bounds>>

(* Variant: Scheduler.initialize drops nothing. *)
DroppedNone == {<< >>}

(* The rules of a Cuckoo that was killed: of every machine whose interface is known,
   those to the VPN or the dirty line; nobody drops the policy rules. *)
Drops == {q \in [1..Cardinality(Guests) -> Guests] : IsInjective(q)}
Dropped == IF named
           THEN {[i \in DOMAIN q |-> RootCommand("forward_disable", q[i])] : q \in Drops}
           ELSE {<< >>}

(* Start-up: an interface that is not there is a CuckooStartupError.  Then the main
   loop may start threads. *)
InitStep ==
    /\ stage[Main] = "init" /\ Ready(Main) /\ NextCall(Main)
    /\ IF answer[Main] = "no" /\ Len(todo[Main]) \in {4, 5}
       THEN stage' = [stage EXCEPT ![Main] = "failed"] /\ UNCHANGED todo
       ELSE IF todo[Main] # << >> THEN UNCHANGED <<stage, todo>>
       ELSE \E drops \in Dropped :
              /\ todo' = [todo EXCEPT ![Main] = drops]
              /\ stage' = IF drops = << >> THEN [c \in Callers |-> "free"]
                          ELSE [stage EXCEPT ![Main] = "drop"]
    /\ UNCHANGED <<server, lock, asked, cpc, interface, rtable, nic, named, tables, outage,
                   bounds>>
DropStep ==
    /\ stage[Main] = "drop" /\ Ready(Main) /\ NextCall(Main)
    /\ stage' = IF todo[Main] = << >> THEN [c \in Callers |-> "free"] ELSE stage
    /\ UNCHANGED <<server, lock, asked, todo, cpc, interface, rtable, nic, named, tables,
                   outage, bounds>>

(* route_network: the route of the task, or an unknown one, which is none. *)
Route(g) ==
    /\ stage[g] = "free" /\ stage[Main] = "free" /\ runs[g] < MaxRuns
    /\ runs' = [runs EXCEPT ![g] = @ + 1]
    /\ \E i, r \in BOOLEAN :
           /\ r => i
           /\ interface' = [interface EXCEPT ![g] = i] /\ rtable' = [rtable EXCEPT ![g] = r]
           /\ stage' = [stage EXCEPT ![g] = IF i THEN "probe" ELSE "analyse"]
           /\ todo' = [todo EXCEPT ![g] =
                          IF i THEN <<RootCommand("nic_available", Nobody)>> ELSE << >>]
    /\ UNCHANGED <<server, lock, asked, answer, cpc, nic, named, tables, outage, mishaps>>

Enabling(g) == <<RootCommand("forward_enable", g)>>
               \o (IF rtable[g] THEN <<RootCommand("srcroute_enable", g)>> ELSE << >>)

(* The interface may have gone since Cuckoo started: route=none *)
Probed(g) ==
    /\ stage[g] = "probe" /\ Ready(g) /\ NextCall(g)
    /\ IF answer[g] = "yes"
       THEN /\ stage' = [stage EXCEPT ![g] = "enable"]
            /\ todo' = [todo EXCEPT ![g] = Enabling(g)]
            /\ UNCHANGED <<interface, rtable>>
       ELSE /\ stage' = [stage EXCEPT ![g] = "analyse"]
            /\ interface' = [interface EXCEPT ![g] = FALSE]
            /\ rtable' = [rtable EXCEPT ![g] = FALSE]
            /\ UNCHANGED todo
    /\ UNCHANGED <<server, lock, asked, cpc, nic, named, tables, outage, bounds>>

Enabled(g) ==
    /\ stage[g] = "enable" /\ Ready(g) /\ NextCall(g)
    /\ stage' = IF todo[g] = << >> THEN [stage EXCEPT ![g] = "analyse"] ELSE stage
    /\ UNCHANGED <<server, lock, asked, todo, cpc, interface, rtable, nic, named, tables,
                   outage, bounds>>

Disabling(g) == (IF interface[g] THEN <<RootCommand("forward_disable", g)>> ELSE << >>)
                \o (IF rtable[g] THEN <<RootCommand("srcroute_disable", g)>> ELSE << >>)

(* unroute_network, after the VM was stopped *)
Unroute(g) ==
    /\ stage[g] = "analyse"
    /\ todo' = [todo EXCEPT ![g] = Disabling(g)]
    /\ stage' = [stage EXCEPT ![g] = IF Disabling(g) = << >> THEN "free" ELSE "disable"]
    /\ UNCHANGED <<server, lock, asked, answer, cpc, interface, rtable, nic, named, tables,
                   outage, bounds>>

Disabled(g) ==
    /\ stage[g] = "disable" /\ Ready(g) /\ NextCall(g)
    /\ stage' = IF todo[g] = << >> THEN [stage EXCEPT ![g] = "free"] ELSE stage
    /\ UNCHANGED <<server, lock, asked, todo, cpc, interface, rtable, nic, named, tables,
                   outage, bounds>>

-----------------------------------------------------------------------------
(* The outgoing interface comes and goes with its VPN. *)
NicChanges ==
    /\ stage[Main] = "free" /\ nic' = ~nic
    /\ UNCHANGED <<server, lock, asked, answer, todo, cpc, stage, interface, rtable, named,
                   tables, outage, bounds>>

Mishap == mishaps < MaxMishaps /\ mishaps' = mishaps + 1

(* The root process dies; what it was asked is lost, its socket stays. *)
ServerDies ==
    /\ server = "up" /\ Mishap /\ server' = "down" /\ asked' = << >> /\ outage' = TRUE
    /\ UNCHANGED <<lock, answer, todo, cpc, stage, interface, rtable, nic, named, tables,
                   runs>>

ServerStarts ==
    /\ server # "up" /\ mishaps > 0 /\ server' = "up"
    /\ UNCHANGED <<lock, asked, answer, todo, cpc, stage, interface, rtable, nic, named,
                   tables, outage, bounds>>

(* Cuckoo is killed, or did not start, and is started again: the tables of the kernel
   and what the socket of the server holds stay as they are. *)
CuckooStarts ==
    /\ stage[Main] # "connect"
    /\ IF stage[Main] = "failed" THEN UNCHANGED mishaps ELSE Mishap
    /\ lock' = Nobody
    /\ asked' = [i \in DOMAIN asked |-> [asked[i] EXCEPT !.from = Nobody]]
    /\ todo' = [c \in Callers |-> << >>] /\ Starts(answer', cpc', stage')
    /\ interface' = [g \in Guests |-> FALSE] /\ rtable' = [g \in Guests |-> FALSE]
    /\ UNCHANGED <<server, nic, named, tables, outage, runs>>

-----------------------------------------------------------------------------
Call(c) == NoSocket(c) \/ Lock(c) \/ Refused(c) \/ Send(c) \/ Receive(c)

Thread(g) == Route(g) \/ Probed(g) \/ Enabled(g) \/ Unroute(g) \/ Disabled(g)

RooterNext == \/ \E c \in Callers : Call(c)
              \/ \E g \in Guests : Thread(g)
              \/ Serve \/ InitRooter \/ InitStep \/ DropStep
              \/ NicChanges \/ ServerDies \/ ServerStarts \/ CuckooStarts

RooterSpec == RooterInit /\ [][RooterNext]_rvars

RooterFair == /\ \A c \in Callers : WF_rvars(Call(c)) /\ SF_rvars(Lock(c))
              /\ \A g \in Guests : WF_rvars(Thread(g))
              /\ WF_rvars(Serve) /\ WF_rvars(InitRooter) /\ WF_rvars(InitStep)
              /\ WF_rvars(DropStep)

-----------------------------------------------------------------------------
(* A machine that is not being analysed has no way out, and neither has one that is
   analysed with route=none, also after a Cuckoo was killed while rules were there and
   another one was started: as long as the root process lives, the rules a thread asks
   for are the ones that are dropped before its machine is free.  The policy rules of a
   Cuckoo that was killed stay. *)
NothingForwarded ==
    ~outage /\ stage[Main] = "free" =>
        \A g \in Guests :
            /\ stage[g] = "free" \/ ~interface[g] =>
                  forward[g] = 0 /\ (mishaps = 0 => srcroute[g] = 0)
            /\ forward[g] <= 1 /\ nat <= 1

(* A caller gets its answer, as long as the root process lives and every argument is
   a string. *)
Answered ==
    \A c \in Callers : Calling(c) ~> ~Calling(c) \/ mishaps > 0 \/ ~named
=============================================================================
