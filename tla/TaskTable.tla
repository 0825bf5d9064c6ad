----------------------------- MODULE TaskTable -----------------------------
(***************************************************************************)
(* The tables `tasks` and `machines` of lib/cuckoo/core/database.py, and   *)
(* the queries the scheduler sends them.  A query is a set or a predicate  *)
(* over the current contents of the tables; the modules that own the       *)
(* tables (Scheduler, ...) pass the contents in.                           *)
(*                                                                         *)
(* A machine is identified by its `name` (the section of the machinery's   *)
(* configuration); Label gives the `label` column, which is what           *)
(* lock_machine and unlock_machine compare, and which no two machines of a *)
(* working configuration share.  A platform is one more tag.               *)
(***************************************************************************)
EXTENDS Naturals, FiniteSets

CONSTANTS Machines,      \* the machines of the machinery's configuration
          Label,         \* machine -> label (virtualbox: label, vmware: vmx_path)
          MachineTags,   \* machine -> its tags
          Names,         \* what a task may give as its machine
          Tags,          \* the tags machines carry and tasks ask for
          ServiceTag,    \* the tag "service"
          NoMachine,     \* a task that names no machine; a thread that holds none
          MaxTasks       \* bound: how many rows the task table can get

ASSUME TableAssumption ==
    /\ IsFiniteSet(Machines) /\ Machines # {}
    /\ NoMachine \notin Machines /\ NoMachine \in Names
    /\ ServiceTag \in Tags
    /\ MachineTags \in [Machines -> SUBSET Tags]
    /\ \A m, n \in Machines : Label[m] = Label[n] => m = n
    /\ MaxTasks \in Nat

TaskId == 1..MaxTasks
NoTask == 0

Statuses == {"pending", "running", "completed", "recovered", "reported",
             "failed_analysis", "failed_processing", "failed_reporting"}
Rows     == Statuses \cup {"unused", "deleted"}    \* a row not yet there, or gone

Kinds == {"file", "url", "baseline", "service"}

(* The columns of a task that decide where and how it runs; `services` stands
   for the task's option of that name. *)
Request == [kind : Kinds, machine : Names, tags : SUBSET Tags,
            priority : Nat, services : BOOLEAN]

(* Machine.is_analysis *)
IsAnalysis(m) == ServiceTag \notin MachineTags[m]

-----------------------------------------------------------------------------
(* Database.fetch *)

PendingFor(status, req, m) ==
    {t \in TaskId : status[t] = "pending" /\ req[t].machine = m}

PendingNoService(status, req) ==
    {t \in TaskId : status[t] = "pending" /\ ServiceTag \notin req[t].tags}

(* order_by(priority.desc(), added_on).first(); ids are given in the order
   in which rows are added *)
IsFirst(t, S, req) ==
    \A u \in S : \/ req[t].priority > req[u].priority
                 \/ req[t].priority = req[u].priority /\ t <= u

-----------------------------------------------------------------------------
(* Database.lock_machine as Machinery.acquire calls it: by label alone when the
   task names a machine, by platform and tags otherwise.  LockableIgnoringLocks
   is a variant with a bug, see Scheduler. *)
Matching(r) ==
    {m \in Machines : IF r.machine # NoMachine THEN Label[m] = r.machine
                                               ELSE r.tags \subseteq MachineTags[m]}

LockableIgnoringLocks(r, locked) == Matching(r)

Lockable(r, locked) == Matching(r) \ locked

-----------------------------------------------------------------------------
(* Database.add: the id of the next row *)
IsNextId(t, status) == /\ status[t] = "unused"
                       /\ \A u \in 1..(t - 1) : status[u] # "unused"

(* Database.add_service *)
ServiceRequest == [kind |-> "service", machine |-> NoMachine, tags |-> {ServiceTag},
                   priority |-> 999, services |-> FALSE]

(* Database.reschedule handles these categories only *)
Reschedulable(r) == r.kind \in {"file", "url"}
=============================================================================
