----------------------------- MODULE Scheduler -----------------------------
(***************************************************************************)
(* The analysis scheduler of lib/cuckoo/core/scheduler.py: the main loop   *)
(* (Scheduler.start), one AnalysisManager thread per task it fetches, the  *)
(* machine lock they share, the task and machine tables they read and      *)
(* write (TaskTable), the start-up recovery of cuckoo.py (init_tasks, then *)
(* Machinery.initialize) and the calls other processes make on the task    *)
(* table (utils/api.py).                                                   *)
(*                                                                         *)
(* Every database call, every operation on the lock and every call into    *)
(* the machinery is a step of its own: Database's lock makes each call     *)
(* atomic and nothing else does.  A thread is named by the task it runs.   *)
(***************************************************************************)
EXTENDS TaskTable, Integers

CONSTANTS
    Requests,        \* the requests clients submit
    MaxVmStartup,    \* cuckoo.conf max_vmstartup_count, 0: one machine at a time
    MaxMachines,     \* cuckoo.conf max_machines_count, 0: no limit
    MaxCount,        \* -m or cuckoo.conf max_analysis_count, 0: no limit
    ProcessResults,  \* cuckoo.conf process_results
    Reschedule,      \* cuckoo.conf reschedule
    NoAgent,         \* the machines with the option "noagent"
    Faults,          \* which calls may fail, see Fault
    Calls,           \* which calls other processes make: "delete", "reschedule"
    MaxSubmitted,    \* bound: clients submit while the next id is at most this
    MaxCrashes       \* bound: how often the process is killed

Fault == {"freespace",   \* the disk is full
          "target",      \* the file to analyze is gone
          "prepare",     \* check_file or store_file returns False
          "options",     \* build_options raises
          "vm_start",    \* machinery.start raises CuckooMachineError
          "route",       \* the rooter's answer is cut off: rooter() raises
          "guest",       \* CuckooGuestError, or the Agent is not recognised
          "guest_error", \* any other exception while talking to the Agent
          "vm_stop",     \* machinery.stop raises and the VM stays on
          "process"}     \* a processing or reporting step raises

ASSUME SchedulerAssumption ==
    /\ Requests \subseteq Request
    /\ MaxVmStartup \in Nat /\ MaxMachines \in Nat /\ MaxCount \in Nat
    /\ ProcessResults \in BOOLEAN /\ Reschedule \in BOOLEAN
    /\ NoAgent \subseteq Machines
    /\ Faults \subseteq Fault
    /\ MaxSubmitted \in Nat /\ MaxCrashes \in Nat

(* Scheduler.initialize: threading.Semaphore(max_vmstartup_count), or a Lock *)
Slots == IF MaxVmStartup = 0 THEN 1 ELSE MaxVmStartup

VARIABLES
    (* the database *)
    status,    \* task -> its status
    req,       \* task -> its request columns
    guest,     \* task -> the status of its row in `guests`, "none" without a row
    locked,    \* the machines whose column `locked` is set
    (* the hypervisor *)
    vm,        \* the machines that are powered on
    (* globals of the process *)
    sem,       \* machine_lock: how many more threads may take it
    active,    \* active_analysis_count
    results,   \* ResultServer.analysistasks: machine (its ip) -> task
    (* the main thread *)
    spc,       \* where it is
    todo,      \* machines left in the loop over get_available_machines()
    analysis,  \* `available`: one of those seen is an analysis machine
    job,       \* the task fetched, or being rescheduled by init_tasks
    recover,   \* the tasks init_tasks still has to go through
    total,     \* total_analysis_count
    (* the AnalysisManager threads *)
    pc,        \* task -> where its thread is
    hold,      \* task -> self.machine
    read,      \* task -> the value of active_analysis_count it loaded
    service,   \* task -> the service task started for it
    raised,    \* the threads that run `finally` for an exception nobody caught
    (* the other processes *)
    api,       \* their calls in progress
    crashes

dbVars      == <<status, req, guest, locked>>
taskVars    == <<status, req, guest>>
poolVars    == <<locked, vm, results>>
mainVars    == <<spc, todo, analysis, job, recover, total>>
threadVars  == <<pc, hold, read, service, raised>>
envVars     == <<api, crashes>>
vars        == <<taskVars, poolVars, sem, active, mainVars, threadVars, envVars>>

Locations ==
    {"none", "new", "inc", "prepare", "acquire", "available", "pick", "register",
     "aux", "options", "guest_start", "start", "unlock", "manage", "agent", "began", "wait",
     "noagent", "stopping", "stop", "guest_stop", "del_task", "release", "complete",
     "process", "report", "exit", "dec", "done"}

(* between machine_lock.acquire() and machine_lock.release() *)
StartingUp == {"available", "pick", "register", "aux", "options", "guest_start",
               "start", "unlock"}

(* between machinery.start() and machinery.stop() *)
Analysing == {"unlock", "manage", "agent", "began", "wait", "noagent", "stopping", "stop"}

(* between ResultServer.add_task and ResultServer.del_task *)
Registered == {"aux", "options", "guest_start", "start", "guest_stop", "del_task"}
              \cup Analysing

(* between machinery.acquire and machinery.release *)
Owning == Registered \cup {"register", "release"}

Live(t) == pc[t] \notin {"none", "done"}

(* the main thread has not come to the loop of Scheduler.start *)
BeforeLoop == {"down", "boot", "readd", "init"}

GuestStatuses == {"none", "init", "starting", "running", "stopping", "stopped",
                  "stop", "failed"}

ApiCall == [op : {"delete", "reschedule"}, task : TaskId]

TypeOK ==
    /\ status \in [TaskId -> Rows]
    /\ req \in [TaskId -> Request]
    /\ guest \in [TaskId -> GuestStatuses]
    /\ locked \subseteq Machines
    /\ vm \subseteq Machines
    /\ sem \in Nat
    /\ active \in Int
    /\ results \in [Machines -> TaskId \cup {NoTask}]
    /\ spc \in {"down", "boot", "readd", "init", "idle", "limits", "available",
                "count", "list", "fetch", "mark", "refresh", "start", "stopped"}
    /\ todo \subseteq Machines
    /\ analysis \in BOOLEAN
    /\ job \in TaskId \cup {NoTask}
    /\ recover \subseteq TaskId
    /\ total \in Nat
    /\ pc \in [TaskId -> Locations]
    /\ hold \in [TaskId -> Machines \cup {NoMachine}]
    /\ read \in [TaskId -> Int]
    /\ service \in [TaskId -> TaskId \cup {NoTask}]
    /\ raised \subseteq TaskId
    /\ api \subseteq ApiCall
    /\ crashes \in 0..MaxCrashes

(* Cuckoo is not running and the database is empty *)
Init ==
    /\ status = [t \in TaskId |-> "unused"]
    /\ req = [t \in TaskId |-> ServiceRequest]
    /\ guest = [t \in TaskId |-> "none"]
    /\ locked = {} /\ vm = {}
    /\ sem = Slots /\ active = 0
    /\ results = [m \in Machines |-> NoTask]
    /\ spc = "down" /\ todo = {} /\ analysis = FALSE /\ job = NoTask
    /\ recover = {} /\ total = 0
    /\ pc = [t \in TaskId |-> "none"]
    /\ hold = [t \in TaskId |-> NoMachine]
    /\ read = [t \in TaskId |-> 0]
    /\ service = [t \in TaskId |-> NoTask]
    /\ raised = {} /\ api = {} /\ crashes = 0

-----------------------------------------------------------------------------
(* Writes to the task table.  Without a row set_status does nothing. *)

SetStatus(t, s) ==
    status' = IF status[t] = "deleted" THEN status ELSE [status EXCEPT ![t] = s]

AddTask(t, r) ==
    /\ IsNextId(t, status)
    /\ status' = [status EXCEPT ![t] = "pending"]
    /\ req' = [req EXCEPT ![t] = r]

Failing(f) == f \in Faults

(* Database.reschedule, its second transaction: add_path returns None when the
   file is gone *)
AddCopy(t) ==
    \/ \E u \in TaskId : AddTask(u, req[t])
    \/ /\ Failing("target") /\ req[t].kind = "file"
       /\ UNCHANGED <<status, req>>

-----------------------------------------------------------------------------
(* Control: where a thread and the main loop are, and where they go *)

At(t, l) == pc[t] = l

Goto(t, l) == /\ pc' = [pc EXCEPT ![t] = l]
              /\ UNCHANGED <<mainVars, envVars>>

MainAt(l) == spc = l
MainGoto(l) == spc' = l /\ UNCHANGED <<threadVars, envVars>>

-----------------------------------------------------------------------------
(* Variants of actions below, each with a bug this code could have.  They are
   not part of the specification: the properties are tried against them. *)

PickNoneKeepingLock(t) ==        \* no machine_lock.release() before the sleep
    /\ At(t, "pick") /\ Lockable(req[t], locked) = {}
    /\ IF Matching(req[t]) # {}
         THEN Goto(t, "acquire") ELSE Goto(t, "complete")
    /\ UNCHANGED <<taskVars, poolVars, sem, active, hold, read, service, raised>>

StartFailsKeepingLock(t) ==      \* no machine_lock.release() in the handler
    /\ At(t, "start") /\ Goto(t, "stop")
    /\ hold[t] \in vm \/ Failing("vm_start")
    /\ UNCHANGED <<taskVars, poolVars, sem, active, hold, read, service, raised>>

GuestFailsUnlocking(t) ==        \* no `if not unlocked` in the handler
    /\ pc[t] \in {"agent", "wait"} /\ Goto(t, "stop") /\ Failing("guest")
    /\ sem' = sem + 1
    /\ UNCHANGED <<taskVars, poolVars, active, hold, read, service, raised>>

GuestStopReleasing(t) ==         \* machinery.release before del_task
    /\ At(t, "guest_stop")
    /\ IF guest[t] = "none"
         THEN Goto(t, "exit") /\ UNCHANGED <<guest, locked>>
         ELSE /\ Goto(t, "del_task") /\ guest' = [guest EXCEPT ![t] = "stopped"]
              /\ locked' = locked \ {hold[t]}
    /\ UNCHANGED <<status, req, vm, results, sem, active, hold, read, service, raised>>

UncountCompleting(t) ==          \* set_status(TASK_COMPLETED) once more at the end
    /\ At(t, "exit") /\ Goto(t, "dec")
    /\ read' = [read EXCEPT ![t] = active]
    /\ SetStatus(t, "completed")
    /\ UNCHANGED <<req, guest, poolVars, sem, active, hold, service, raised>>

FetchUnmarked ==                 \* fetch() without set_status(TASK_RUNNING)
    /\ MainAt("mark") /\ MainGoto("refresh")
    /\ UNCHANGED <<taskVars, poolVars, sem, active, todo, analysis, job, recover, total>>

RescheduleRequeueing(t) ==       \* tasks_reschedule puts the task itself back
    /\ "reschedule" \in Calls
    /\ status[t] \notin {"unused", "deleted"} /\ Reschedulable(req[t])
    /\ SetStatus(t, "pending")
    /\ UNCHANGED <<req, guest, poolVars, sem, active, mainVars, threadVars, envVars>>

RecoverUnmarked(t) ==            \* reschedule() without TASK_RECOVERED
    /\ MainAt("boot") /\ t \in recover
    /\ recover' = recover \ {t}
    /\ MainGoto("readd") /\ job' = t
    /\ UNCHANGED <<taskVars, poolVars, sem, active, todo, analysis, total>>

InitializeUnchecked ==           \* no _initialize_check
    /\ MainAt("init") /\ MainGoto("idle")
    /\ locked' = {}
    /\ UNCHANGED <<taskVars, vm, results, sem, active, todo, analysis, job, recover, total>>

-----------------------------------------------------------------------------
(* AnalysisManager *)

(* active_analysis_count += 1 is a load and a store *)
CountLoad(t) ==
    /\ At(t, "new") /\ Goto(t, "inc")
    /\ read' = [read EXCEPT ![t] = active]
    /\ UNCHANGED <<taskVars, poolVars, sem, active, hold, service, raised>>

CountStore(t) ==
    /\ At(t, "inc") /\ Goto(t, "prepare")
    /\ active' = read[t] + 1
    /\ UNCHANGED <<taskVars, poolVars, sem, hold, read, service, raised>>

(* launch_analysis up to acquire_machine: init_storage, store_task_info (the row
   is gone: AttributeError), check_file (the file is gone: IOError), store_file.
   run() goes on to set_status when launch_analysis returns False, and to its
   `except` when it raises. *)
Prepare(t) ==
    /\ At(t, "prepare")
    /\ \/ status[t] = "deleted" /\ Goto(t, "exit")
       \/ Failing("target") /\ req[t].kind = "file" /\ Goto(t, "exit")
       \/ Failing("prepare") /\ Goto(t, "complete")
       \/ status[t] # "deleted" /\ Goto(t, "acquire")
    /\ UNCHANGED <<taskVars, poolVars, sem, active, hold, read, service, raised>>

(* acquire_machine: take the lock *)
Acquire(t) ==
    /\ At(t, "acquire") /\ sem > 0 /\ Goto(t, "available")
    /\ sem' = sem - 1
    /\ UNCHANGED <<taskVars, poolVars, active, hold, read, service, raised>>

(* acquire_machine: `if not machinery.availables()` *)
CheckFree(t) ==
    /\ At(t, "available")
    /\ \/ locked = Machines /\ sem' = sem + 1 /\ Goto(t, "acquire")
       \/ locked # Machines /\ sem' = sem /\ Goto(t, "pick")
    /\ UNCHANGED <<taskVars, poolVars, active, hold, read, service, raised>>

(* acquire_machine: machinery.acquire returns a machine *)
Pick(t) ==
    /\ At(t, "pick") /\ Goto(t, "register")
    /\ \E m \in Lockable(req[t], locked) :
          /\ locked' = locked \cup {m}
          /\ hold' = [hold EXCEPT ![t] = m]
    /\ UNCHANGED <<taskVars, vm, results, sem, active, read, service, raised>>

(* acquire_machine: machinery.acquire returns None, or raises
   CuckooOperationalError as no machine matches: launch_analysis returns False *)
PickNone(t) ==
    /\ At(t, "pick")
    /\ Lockable(req[t], locked) = {}
    /\ sem' = sem + 1
    /\ IF Matching(req[t]) # {}
         THEN Goto(t, "acquire")
         ELSE Goto(t, "complete")
    /\ UNCHANGED <<taskVars, poolVars, active, hold, read, service, raised>>

(* ResultServer().add_task *)
Register(t) ==
    /\ At(t, "register") /\ Goto(t, "aux")
    /\ results' = [results EXCEPT ![hold[t]] = t]
    /\ UNCHANGED <<taskVars, locked, vm, sem, active, hold, read, service, raised>>

(* RunAuxiliary.start, of which the module `services` adds a task *)
StartAux(t) ==
    /\ At(t, "aux") /\ Goto(t, "options")
    /\ IF req[t].services /\ req[t].kind # "service"
         THEN \E u \in TaskId : /\ AddTask(u, ServiceRequest)
                                /\ service' = [service EXCEPT ![t] = u]
         ELSE UNCHANGED <<status, req, service>>
    /\ UNCHANGED <<guest, poolVars, sem, active, hold, read, raised>>

(* `services` waits for the guest of its task; then build_options, which is
   outside of the `try`: no `finally` runs when it raises *)
BuildOptions(t) ==
    /\ At(t, "options")
    /\ service[t] # NoTask => guest[service[t]] \in {"starting", "running", "stopping"}
    /\ \/ Goto(t, "guest_start")
       \/ Failing("options") /\ Goto(t, "exit")
    /\ UNCHANGED <<taskVars, poolVars, sem, active, hold, read, service, raised>>

(* Database.guest_start raises AttributeError when the task's row is gone; the
   `finally` then fails on guest_log, see GuestStop *)
GuestStart(t) ==
    /\ At(t, "guest_start")
    /\ IF status[t] = "deleted"
         THEN Goto(t, "stop") /\ UNCHANGED guest
         ELSE Goto(t, "start") /\ guest' = [guest EXCEPT ![t] = "init"]
    /\ UNCHANGED <<status, req, poolVars, sem, active, hold, read, service, raised>>

(* machinery.start: a VM that is on cannot be started *)
StartMachine(t) ==
    /\ At(t, "start") /\ hold[t] \notin vm /\ Goto(t, "unlock")
    /\ vm' = vm \cup {hold[t]}
    /\ UNCHANGED <<taskVars, locked, results, sem, active, hold, read, service, raised>>

(* except CuckooMachineError *)
StartFails(t) ==
    /\ At(t, "start") /\ Goto(t, "stop")
    /\ \/ hold[t] \in vm /\ UNCHANGED vm
       \/ Failing("vm_start") /\ \E up \in {{}, {hold[t]}} : vm' = vm \cup up
    /\ sem' = sem + 1
    /\ UNCHANGED <<taskVars, locked, results, active, hold, read, service, raised>>

(* route_network, machine_lock.release().  An exception of rooter() is not one
   of those caught: the lock is not released *)
Unlock(t) ==
    /\ At(t, "unlock")
    /\ \/ Goto(t, "manage") /\ sem' = sem + 1 /\ UNCHANGED raised
       \/ /\ Failing("route") /\ Goto(t, "stop")
          /\ raised' = raised \cup {t} /\ UNCHANGED sem
    /\ UNCHANGED <<taskVars, poolVars, active, hold, read, service>>

(* guest_manage sleeps for a baseline; otherwise it, or wait_finish, first
   writes to the row in `guests`, which raises when that row is gone *)
OnlySleeps(t) == req[t].kind = "baseline" /\ hold[t] \notin NoAgent

Manage(t) ==
    /\ At(t, "manage")
    /\ IF OnlySleeps(t) \/ guest[t] = "none"
         THEN Goto(t, "stop") /\ UNCHANGED guest
         ELSE IF hold[t] \in NoAgent
         THEN Goto(t, "noagent") /\ guest' = [guest EXCEPT ![t] = "running"]
         ELSE Goto(t, "agent") /\ guest' = [guest EXCEPT ![t] = "starting"]
    /\ UNCHANGED <<status, req, poolVars, sem, active, hold, read, service, raised>>

(* GuestManager.start_analysis returns: the Agent is set up, it was not
   recognised ("failed"), or somebody changed the guest's status meanwhile *)
StartAnalysis(t) ==
    /\ At(t, "agent")
    /\ \/ /\ guest[t] = "starting" /\ Goto(t, "began")
          /\ UNCHANGED guest
       \/ /\ guest[t] = "starting" /\ Failing("guest") /\ Goto(t, "stopping")
          /\ guest' = [guest EXCEPT ![t] = "failed"]
       \/ guest[t] # "starting" /\ Goto(t, "stopping") /\ UNCHANGED guest
    /\ UNCHANGED <<status, req, poolVars, sem, active, hold, read, service, raised>>

(* guest_manage, after its look at "starting": what was written since is
   overwritten; without a row guest_set_status raises *)
GuestBegan(t) ==
    /\ At(t, "began")
    /\ IF guest[t] = "none"
         THEN Goto(t, "stop") /\ UNCHANGED guest
         ELSE Goto(t, "wait") /\ guest' = [guest EXCEPT ![t] = "running"]
    /\ UNCHANGED <<status, req, poolVars, sem, active, hold, read, service, raised>>

(* start_analysis or wait_for_completion raises: CuckooGuestError is caught,
   anything else comes back after the `finally` *)
GuestFails(t) ==
    /\ pc[t] \in {"agent", "wait"} /\ Goto(t, "stop")
    /\ \/ Failing("guest") /\ UNCHANGED raised
       \/ Failing("guest_error") /\ raised' = raised \cup {t}
    /\ UNCHANGED <<taskVars, poolVars, sem, active, hold, read, service>>

(* wait_for_completion returns *)
Completion(t) ==
    /\ At(t, "wait") /\ Goto(t, "stopping")
    /\ UNCHANGED <<taskVars, poolVars, sem, active, hold, read, service, raised>>

(* the last write of guest_manage; without a row it raises *)
Stopping(t) ==
    /\ At(t, "stopping") /\ Goto(t, "stop")
    /\ guest' = IF guest[t] = "none" THEN guest ELSE [guest EXCEPT ![t] = "stopping"]
    /\ UNCHANGED <<status, req, poolVars, sem, active, hold, read, service, raised>>

(* wait_finish polls until somebody else changes the guest's status *)
WaitFinish(t) ==
    /\ At(t, "noagent") /\ guest[t] # "running" /\ Goto(t, "stop")
    /\ UNCHANGED <<taskVars, poolVars, sem, active, hold, read, service, raised>>

(* finally: aux.stop (`services` writes to the guest of its task) and
   machinery.stop, whose CuckooMachineError is logged *)
StopMachine(t) ==
    /\ At(t, "stop") /\ Goto(t, "guest_stop")
    /\ guest' = [u \in TaskId |-> IF u = service[t] /\ guest[u] # "none"
                                    THEN "stop" ELSE guest[u]]
    /\ \/ vm' = vm \ {hold[t]}
       \/ Failing("vm_stop") /\ hold[t] \in vm /\ UNCHANGED vm
    /\ UNCHANGED <<status, req, locked, results, sem, active, hold, read, service, raised>>

(* finally: guest_stop(guest_log).  Without the row (guest_start raised, or the
   task was deleted since) the rest of the `finally` does not run *)
GuestStop(t) ==
    /\ At(t, "guest_stop")
    /\ IF guest[t] = "none"
         THEN Goto(t, "exit") /\ UNCHANGED guest
         ELSE Goto(t, "del_task") /\ guest' = [guest EXCEPT ![t] = "stopped"]
    /\ UNCHANGED <<status, req, poolVars, sem, active, hold, read, service, raised>>

(* finally: ResultServer().del_task, then unroute_network; when rooter() raises
   the machine is not released *)
DelTask(t) ==
    /\ At(t, "del_task")
    /\ Goto(t, "release") \/ (Failing("route") /\ Goto(t, "exit"))
    /\ results' = [results EXCEPT ![hold[t]] = NoTask]
    /\ UNCHANGED <<taskVars, locked, vm, sem, active, hold, read, service, raised>>

(* finally: machinery.release; then run() goes on, or gets the exception *)
Release(t) ==
    /\ At(t, "release")
    /\ Goto(t, IF t \in raised THEN "exit" ELSE "complete")
    /\ locked' = locked \ {hold[t]}
    /\ hold' = [hold EXCEPT ![t] = NoMachine]
    /\ raised' = raised \ {t}
    /\ UNCHANGED <<taskVars, vm, results, sem, active, read, service>>

(* run: set_status(TASK_COMPLETED), however launch_analysis came back *)
Complete(t) ==
    /\ At(t, "complete")
    /\ Goto(t, IF ProcessResults THEN "process" ELSE "exit")
    /\ SetStatus(t, "completed")
    /\ UNCHANGED <<req, guest, poolVars, sem, active, hold, read, service, raised>>

(* run: store_task_info raises without a row; process_results *)
Process(t) ==
    /\ At(t, "process")
    /\ \/ status[t] # "deleted" /\ Goto(t, "report")
       \/ status[t] = "deleted" /\ Goto(t, "exit")
       \/ Failing("process") /\ Goto(t, "exit")
    /\ UNCHANGED <<taskVars, poolVars, sem, active, hold, read, service, raised>>

(* run: set_status(TASK_REPORTED); what is left of run() only writes files *)
Report(t) ==
    /\ At(t, "report") /\ Goto(t, "exit")
    /\ SetStatus(t, "reported")
    /\ UNCHANGED <<req, guest, poolVars, sem, active, hold, read, service, raised>>

(* active_analysis_count -= 1 *)
UncountLoad(t) ==
    /\ At(t, "exit") /\ Goto(t, "dec")
    /\ read' = [read EXCEPT ![t] = active]
    /\ UNCHANGED <<taskVars, poolVars, sem, active, hold, service, raised>>

UncountStore(t) ==
    /\ At(t, "dec") /\ Goto(t, "done")
    /\ active' = read[t] - 1
    /\ UNCHANGED <<taskVars, poolVars, sem, hold, read, service, raised>>

Manager(t) ==
    \/ CountLoad(t) \/ CountStore(t) \/ Prepare(t)
    \/ Acquire(t) \/ CheckFree(t) \/ Pick(t) \/ PickNone(t)
    \/ Register(t) \/ StartAux(t) \/ BuildOptions(t)
    \/ GuestStart(t) \/ StartMachine(t) \/ StartFails(t) \/ Unlock(t)
    \/ Manage(t) \/ StartAnalysis(t) \/ GuestBegan(t) \/ GuestFails(t) \/ Completion(t)
    \/ Stopping(t) \/ WaitFinish(t)
    \/ StopMachine(t) \/ GuestStop(t) \/ DelTask(t) \/ Release(t)
    \/ Complete(t) \/ Process(t) \/ Report(t)
    \/ UncountLoad(t) \/ UncountStore(t)

-----------------------------------------------------------------------------
(* Scheduler.start *)

(* `if not machine_lock.acquire(False)`; the lock is given back at once *)
Probe ==
    /\ MainAt("idle") /\ sem > 0 /\ MainGoto("limits")
    /\ UNCHANGED <<taskVars, poolVars, sem, active, todo, analysis, job, recover, total>>

(* freespace and max_machines_count *)
CheckLimits ==
    /\ MainAt("limits")
    /\ \/ Failing("freespace") /\ MainGoto("idle")
       \/ /\ MaxMachines # 0 /\ Cardinality(locked) >= MaxMachines
          /\ MainGoto("idle")
       \/ /\ MaxMachines = 0 \/ Cardinality(locked) < MaxMachines
          /\ MainGoto("available")
    /\ UNCHANGED <<taskVars, poolVars, sem, active, todo, analysis, job, recover, total>>

(* `if not machinery.availables()` *)
CheckAvailable ==
    /\ MainAt("available")
    /\ MainGoto(IF locked = Machines THEN "idle" ELSE "count")
    /\ UNCHANGED <<taskVars, poolVars, sem, active, todo, analysis, job, recover, total>>

CountReached == MaxCount # 0 /\ total >= MaxCount

(* max_analysis_count not reached, or reached with analyses still active *)
CheckCount ==
    /\ MainAt("count")
    /\ CountReached => active > 0
    /\ MainGoto(IF CountReached THEN "idle" ELSE "list")
    /\ UNCHANGED <<taskVars, poolVars, sem, active, todo, analysis, job, recover, total>>

(* Scheduler.stop: machinery.shutdown() stops every machine still locked *)
Stop ==
    /\ MainAt("count") /\ CountReached /\ active <= 0 /\ MainGoto("stopped")
    /\ \E m \in SUBSET (locked \cap vm) :
          /\ m # {} => Failing("vm_stop")
          /\ vm' = (vm \ locked) \cup m
    /\ UNCHANGED <<taskVars, locked, results, sem, active,
                   todo, analysis, job, recover, total>>

(* db.get_available_machines() *)
ListMachines ==
    /\ MainAt("list") /\ MainGoto("fetch")
    /\ todo' = Machines \ locked
    /\ analysis' = FALSE
    /\ UNCHANGED <<taskVars, poolVars, sem, active, job, recover, total>>

(* Database.fetch selects a row, in a transaction of its own ... *)
Select(S) ==
    \E t \in S : IsFirst(t, S, req) /\ job' = t /\ MainGoto("mark")

(* ... marks it in another one, whatever other processes did to it since ... *)
MarkRunning ==
    /\ MainAt("mark") /\ MainGoto("refresh")
    /\ SetStatus(job, "running")
    /\ UNCHANGED <<req, guest, poolVars, sem, active, todo, analysis, job, recover, total>>

(* ... and reads it again.  When it is gone refresh() raises, fetch() returns None
   and the loop over the machines goes on *)
Refresh ==
    /\ MainAt("refresh")
    /\ IF status[job] = "deleted"
         THEN MainGoto("fetch") /\ job' = NoTask /\ UNCHANGED <<todo, analysis>>
         ELSE MainGoto("start") /\ todo' = {} /\ analysis' = FALSE /\ UNCHANGED job
    /\ UNCHANGED <<taskVars, poolVars, sem, active, recover, total>>

(* db.fetch(machine=machine.name), one machine after the other *)
FetchFor(m) ==
    /\ MainAt("fetch") /\ m \in todo
    /\ todo' = todo \ {m}
    /\ analysis' = (analysis \/ IsAnalysis(m))
    /\ \/ Select(PendingFor(status, req, m))
       \/ PendingFor(status, req, m) = {} /\ MainGoto("fetch") /\ UNCHANGED job
    /\ UNCHANGED <<taskVars, poolVars, sem, active, recover, total>>

(* db.fetch(service=False), if an analysis machine is available *)
FetchAny ==
    /\ MainAt("fetch") /\ todo = {}
    /\ \/ analysis /\ Select(PendingNoService(status, req))
       \/ /\ ~analysis \/ PendingNoService(status, req) = {}
          /\ MainGoto("idle") /\ UNCHANGED job
    /\ analysis' = FALSE
    /\ UNCHANGED <<taskVars, poolVars, sem, active, todo, recover, total>>

(* AnalysisManager(task.id).start() *)
StartManager ==
    /\ MainAt("start") /\ spc' = "idle"
    /\ pc' = [pc EXCEPT ![job] = "new"]
    /\ job' = NoTask
    /\ total' = total + 1
    /\ UNCHANGED <<taskVars, poolVars, sem, active, hold, read, service, raised,
                   todo, analysis, recover, envVars>>

Main == \/ Probe \/ CheckLimits \/ CheckAvailable \/ CheckCount \/ Stop
        \/ ListMachines \/ (\E m \in Machines : FetchFor(m)) \/ FetchAny
        \/ MarkRunning \/ Refresh \/ StartManager

-----------------------------------------------------------------------------
(* The process starts and dies *)

(* cuckoo.py; init_tasks lists the running tasks *)
Start ==
    /\ MainAt("down") /\ MainGoto("boot")
    /\ recover' = {t \in TaskId : status[t] = "running"}
    /\ UNCHANGED <<taskVars, poolVars, sem, active, todo, analysis, job, total>>

(* init_tasks: the status of one of them is written.  Database.reschedule returns
   early, leaving the task as it is, when its category is not file or url *)
Recover(t) ==
    /\ MainAt("boot") /\ t \in recover
    /\ recover' = recover \ {t}
    /\ IF ~Reschedule
         THEN SetStatus(t, "failed_analysis") /\ MainGoto("boot") /\ UNCHANGED job
         ELSE IF Reschedulable(req[t]) /\ status[t] # "deleted"
         THEN SetStatus(t, "recovered") /\ MainGoto("readd") /\ job' = t
         ELSE MainGoto("boot") /\ UNCHANGED <<status, job>>
    /\ UNCHANGED <<req, guest, poolVars, sem, active, todo, analysis, total>>

(* ... and its copy added *)
ReAdd ==
    /\ MainAt("readd") /\ MainGoto("boot") /\ job' = NoTask
    /\ AddCopy(job)
    /\ UNCHANGED <<guest, poolVars, sem, active, todo, analysis, recover, total>>

(* init_tasks: service tasks nobody waits for anymore *)
DropServices ==
    /\ MainAt("boot") /\ recover = {} /\ MainGoto("init")
    /\ status' = [t \in TaskId |->
                    IF status[t] = "pending" /\ req[t].kind = "service"
                      THEN "failed_analysis" ELSE status[t]]
    /\ UNCHANGED <<req, guest, poolVars, sem, active, todo, analysis, job, recover, total>>

(* Scheduler.initialize: a new machine table, and every VM off; else
   CuckooCriticalError ends the process *)
Initialize ==
    /\ MainAt("init")
    /\ locked' = {}
    /\ \/ vm' = {} /\ MainGoto("idle")
       \/ /\ Failing("vm_stop") /\ MainGoto("down")
          /\ \E up \in SUBSET vm : up # {} /\ vm' = up
    /\ UNCHANGED <<taskVars, results, sem, active, todo, analysis, job, recover, total>>

(* The threads are daemons and die with the process; so does its memory.  The
   database and the VMs stay as they are *)
Die ==
    /\ spc' = "down" /\ todo' = {} /\ analysis' = FALSE /\ job' = NoTask
    /\ recover' = {} /\ total' = 0
    /\ sem' = Slots /\ active' = 0
    /\ results' = [m \in Machines |-> NoTask]
    /\ pc' = [t \in TaskId |-> "none"]
    /\ hold' = [t \in TaskId |-> NoMachine]
    /\ read' = [t \in TaskId |-> 0]
    /\ service' = [t \in TaskId |-> NoTask]
    /\ raised' = {}
    /\ UNCHANGED <<taskVars, locked, vm, api>>

Exit  == MainAt("stopped") /\ Die /\ UNCHANGED crashes

Crash == /\ spc # "down" /\ crashes < MaxCrashes /\ Die
         /\ crashes' = crashes + 1

Lifecycle == Start \/ (\E t \in TaskId : Recover(t)) \/ ReAdd \/ DropServices
             \/ Initialize \/ Exit

-----------------------------------------------------------------------------
(* Other processes: submissions, and the API (utils/api.py) *)

Unaffected == UNCHANGED <<poolVars, sem, active, mainVars, threadVars, crashes>>

Submit == /\ \E t \in TaskId, r \in Requests : t <= MaxSubmitted /\ AddTask(t, r)
          /\ UNCHANGED <<guest, api>> /\ Unaffected

(* tasks_delete: the status is looked at ... *)
DeleteCheck(t) ==
    /\ "delete" \in Calls
    /\ status[t] \notin {"unused", "deleted", "running"}
    /\ api' = api \cup {[op |-> "delete", task |-> t]}
    /\ UNCHANGED taskVars /\ Unaffected

(* ... and then the row is deleted, with its row in `guests` (cascade) *)
Delete(t) ==
    /\ [op |-> "delete", task |-> t] \in api
    /\ api' = api \ {[op |-> "delete", task |-> t]}
    /\ status' = [status EXCEPT ![t] = "deleted"]
    /\ guest' = [guest EXCEPT ![t] = "none"]
    /\ UNCHANGED req /\ Unaffected

(* tasks_reschedule: one transaction marks the task, whatever its status ... *)
RescheduleMark(t) ==
    /\ "reschedule" \in Calls
    /\ status[t] \notin {"unused", "deleted"} /\ Reschedulable(req[t])
    /\ [op |-> "reschedule", task |-> t] \notin api
    /\ SetStatus(t, "recovered")
    /\ api' = api \cup {[op |-> "reschedule", task |-> t]}
    /\ UNCHANGED <<req, guest>> /\ Unaffected

(* ... and another one adds the copy *)
RescheduleAdd(t) ==
    /\ [op |-> "reschedule", task |-> t] \in api
    /\ api' = api \ {[op |-> "reschedule", task |-> t]}
    /\ AddCopy(t)
    /\ UNCHANGED guest /\ Unaffected

Clients == \/ Submit
           \/ \E t \in TaskId : \/ DeleteCheck(t) \/ Delete(t)
                                \/ RescheduleMark(t) \/ RescheduleAdd(t)

-----------------------------------------------------------------------------
Next == \/ \E t \in TaskId : Manager(t)
        \/ Main \/ Lifecycle \/ Crash \/ Clients

Spec == Init /\ [][Next]_vars

(* Every thread runs on, the analysis in the guest ends (at the latest with the
   critical timeout), and Cuckoo is started again after it went down.  The lock
   and the main loop's probe need strong fairness: a thread that finds no
   machine sleeps for a second after it gave the lock back. *)
Fairness ==
    /\ \A t \in TaskId : WF_vars(Manager(t)) /\ SF_vars(Acquire(t))
    /\ WF_vars(Main) /\ SF_vars(Probe)
    /\ WF_vars(Lifecycle)

FairSpec == Spec /\ Fairness

-----------------------------------------------------------------------------
(* Safety *)

(* No two analyses use the same machine at the same time (acquire_machine,
   lock_machine, release). *)
MutualExclusion ==
    \A t, u \in TaskId : t # u /\ hold[t] # NoMachine => hold[t] # hold[u]

(* At most max_vmstartup_count threads are between taking the machine lock and
   giving it back, and the lock never counts more free slots than there are:
   every path through launch_analysis releases it at most once. *)
LockAccounting ==
    sem + Cardinality({t \in TaskId : pc[t] \in StartingUp}) <= Slots

(* When the calls fail only in the ways launch_analysis catches, every slot of
   the lock is free or belongs to a thread that is starting up a machine. *)
LockNotLeaked ==
    sem + Cardinality({t \in TaskId : pc[t] \in StartingUp}) >= Slots

(* From add_task to del_task the ResultServer maps the address of the thread's
   machine to the thread's task: what the guest sends is stored with the
   analysis that runs in it. *)
ResultsRouted ==
    \A t \in TaskId : pc[t] \in Registered => results[hold[t]] = t

(* A VM is on only while its machine is locked: the next analysis starts from
   the snapshot (the `finally` of launch_analysis, _initialize_check). *)
VmOnlyWhenLocked ==
    spc \notin BeforeLoop => vm \subseteq locked

(* While the scheduler runs, a task is "running" only if it is about to get a
   thread or its thread is alive. *)
NoOrphan ==
    spc \notin BeforeLoop =>
        \A t \in TaskId : status[t] = "running" => job = t \/ Live(t)

(* A row is not run twice.  A thread is started only for a row that has left the
   queue and has no thread, though the API may reschedule or delete the row
   between the two transactions of fetch(); and what left the queue never comes
   back, whatever is rescheduled or restarted: a new run is a new row. *)
RunOnce ==
    [][\A t \in TaskId :
          /\ status'[t] = "pending" => status[t] \in {"unused", "pending"}
          /\ pc'[t] = "new" /\ pc[t] # "new" =>
                pc[t] = "none" /\ status[t] \notin {"unused", "pending"}]_vars

(* A task that was reported stays so until somebody asks for another run of it
   or deletes it: no late write of its thread takes the report back. *)
ReportedStays ==
    [][\A t \in TaskId : status[t] = "reported" =>
          status'[t] \in {"reported", "recovered", "deleted"}]_vars

(* Liveness: a pending task some machine can serve gets analysed. *)
Servable(r) == \E m \in Matching(r) : IsAnalysis(m)

Finished == {"completed", "reported", "failed_analysis", "recovered", "deleted"}

TasksFinish ==
    \A t \in TaskId :
        status[t] = "pending" /\ Servable(req[t]) ~> status[t] \in Finished

-----------------------------------------------------------------------------
(* The inductive invariant behind MutualExclusion and ResultsRouted: a thread
   holds a machine from Pick to Release only, what is held is locked, a task in
   the queue has no thread yet, a row being fetched has none either, whatever became
   of it, and there are no threads before the main loop. *)
BeforePick == {"none", "new", "inc", "prepare", "acquire", "available", "pick"}

ThreadInv ==
    /\ \A t \in TaskId : pc[t] \in BeforePick => hold[t] = NoMachine
    /\ \A t \in TaskId : pc[t] \in Owning => hold[t] # NoMachine
    /\ \A t \in TaskId : hold[t] # NoMachine => hold[t] \in locked
    /\ \A t \in TaskId : status[t] \in {"unused", "pending"} => pc[t] = "none"
    /\ spc \in {"readd", "mark", "refresh", "start"} => job \in TaskId
    /\ spc \in {"mark", "refresh", "start"} => pc[job] = "none"
    /\ spc = "mark" => status[job] \in {"pending", "recovered", "deleted"}
    /\ spc \in {"refresh", "start"} => status[job] \notin {"unused", "pending"}
    /\ spc \in BeforeLoop => \A t \in TaskId : pc[t] = "none"
    /\ MutualExclusion
    /\ ResultsRouted

IInv == TypeOK /\ ThreadInv

-----------------------------------------------------------------------------
(* What comments and documents say of the scheduler and the code does not keep *)

(* The machine lock is only ever exhausted by threads that start up a machine
   (comment in Scheduler.start: "the machine lock is not locked ... is only the
   case when all machines are fully running"). *)
LockMeansStarting ==
    sem = 0 => \E t \in TaskId : pc[t] \in StartingUp

-----------------------------------------------------------------------------
(* The scheduler implements the machine pool: the users are the threads, a busy
   machine is one whose column `locked` is set. *)
Pool == INSTANCE MachinePool WITH Users <- TaskId, busy <- locked, uses <- hold

PoolSpec == Pool!Spec
=============================================================================
