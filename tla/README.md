# A formal model of Cuckoo Sandbox

This directory holds TLA+ models of Cuckoo Sandbox (this repository: Cuckoo
2.0-dev with the CuckooML additions), the TLC configurations that check them on
small instances, and proofs for TLAPS. Every definition of a model is translated
from the code; `PROJECT.json` ("map") names the file and the lines of each.

## 1. The system

Cuckoo runs samples in virtual machines. Clients put *tasks* into a database;
the main process takes them out, gives each a thread, a virtual machine and a
place where results go. An analyzer inside the VM runs the sample; logs and files
come back over the network. Plugins turn them into reports, which a document
database keeps for the web interface.

| Component | State | Operations | Interacts with | What makes it correct | Module |
|---|---|---|---|---|---|
| **Scheduler** (`lib/cuckoo/core/scheduler.py`, `Scheduler`) | `machine_lock`, `active_analysis_count`, `total_analysis_count`, `running` | `initialize`, the loop of `start`, `stop` | database, machinery, starts AnalysisManager threads | a task gets a thread once; limits are kept; a task that can be served is served | `Scheduler` |
| **AnalysisManager** (same file) | `self.machine`, `self.task`, one thread per task | `run`, `launch_analysis`, `acquire_machine`, `guest_manage`, `wait_finish`, `route_network` | everything below | one thread per machine; lock and machine are given back on every path; the status ends in a final value | `Scheduler`, `Guest`, `Rooter` |
| **Database** (`lib/cuckoo/core/database.py`) | tables `tasks`, `machines`, `guests`, `samples` (and `tags`, `errors`) | `fetch`, `lock_machine`, `set_status`, `reschedule`, `delete_task`, `guest_*`, `add_*` | shared by all processes; each transaction is atomic, a call may be several, as `fetch`, and sequences of calls are not atomic | a row gets one thread; a machine is locked by one thread | `TaskTable`, `Scheduler`, `MachinePool`, `Processing`, `ResultStore` |
| **Startup** (`cuckoo.py`, `lib/cuckoo/core/startup.py`) | none | `init_tasks`, `init_rooter`, `init_routing` | database, rooter | after a crash nothing stays "running", locked, on or routed | `Scheduler`, `Rooter` |
| **Machinery** (`lib/cuckoo/common/abstracts.py`, `modules/machinery/*`) | the VMs | `acquire`, `release`; `start`, `stop`, `dump_memory`, `_initialize_check` of each module | hypervisors | a free machine is off; an analysis starts with a clean disk | `Scheduler`, `Machines` |
| **REST API** (`utils/api.py`) | none | submit, delete, reschedule, rereport | database, from another process | no call at a bad moment breaks an analysis | `Scheduler`, `Processing`, `ResultStore` |
| **Services** (`modules/auxiliary/services.py`) | tasks it added | `start`, `stop` | database | the analysis starts once its services run | `Scheduler`, `Guest` |
| **ResultServer** (`lib/cuckoo/core/resultserver.py`) | address -> task, task -> handlers | `add_task`, `del_task`, one handler per connection | guests, AnalysisManager | results are stored with the right task; `del_task` waits for the handlers of the task and returns; uploads are listed | `ResultServer`; its table also in `Scheduler` |
| **GuestManager, Agent** (`lib/cuckoo/core/guest.py`, `agent/agent.py`) | guest row, status of the Agent | `start_analysis`, `wait_for_completion` | HTTP to the guest | every wait ends; an analysis that was not seen to end is no success | `Guest` |
| **Rooter** (`utils/rooter.py`, `lib/cuckoo/core/rooter.py`) | a lock, two sockets, the rules in the kernel | requests of start-up and of every analysis | root process | a machine that is not analysed has no way out; requests are answered | `Rooter` |
| **Analyzers** (`analyzer/windows`, `linux`, `android`, `darwin`) | followed processes, files, a lock | pipe handlers, main loop, upload, report | the monitor in every process, the Agent | the analysis does not end before its processes; no file is lost; the Agent hears of the end | `Analyzer` |
| **Processing utilities** (`utils/process.py`, `utils/process2.py`) | pool of workers, column `processing` | `autoprocess`, `instance` | task table | a completed task is processed, and once | `Processing` |
| **Distributed** (`distributed/`) | its own task and node tables | scheduler, one worker per node, REST | API of the nodes | a client gets the report of its own sample; no task is lost in between | `Distributed` |
| **Plugins** (`lib/cuckoo/core/plugins.py`) | class lists, results | auxiliary, processing, signatures, reporting | modules | one failing module does not stop the rest; every signature hears what it asked for | `Plugins` |
| **Behaviour logs** (`lib/cuckoo/common/netlog.py`, `modules/processing/behavior.py`, `platform/*`) | parser per log | `parse`, iteration over calls | monitor's logs | no call is lost, at first sight or later | `Behaviour` |
| **Network processing** (`modules/processing/network.py`) | captures | sort, merge, dissect, `packets_for_stream` | web interface | a stream is found again | `Network` |
| **Memory processing** (`modules/processing/memory.py`) | results of the plugins, taint | Volatility plugins, `mask_filter`, `cleanup` | Volatility | what concerns an infected process is kept | `Memory` |
| **CuckooML** (`modules/processing/cuckooml.py`) | reports, features, clusterings | load, select, cluster, compare, save | scikit-learn, hdbscan | a saved clustering stays in the reports | `CuckooML` |
| **Result database, web** (`modules/reporting/mongodb.py`, `web/`, `utils/submit.py`) | MongoDB, GridFS, folders | store, remove, page, submit, import | SQL database | a report that is kept can show its files and all its calls | `ResultStore` |
| Static analysis and process memory, other reporting and auxiliary modules, libraries | - | - | - | no state or order to check | not modelled |

The hard behaviours: threads that share three globals, a lock and a database
with non-atomic sequences of calls; other processes that delete, reschedule or
store meanwhile; exceptions that leave a function at places no handler expects;
processes that die and find their tables, VMs, rules and files as they were;
parsers and lists that are gone over again while they change. `PROJECT.json`
("hazards") lists them line by line with the properties that watch them.

## 2. Modules

**`TaskTable`** - constants and pure queries: the machines, their labels and
tags, the columns of a request, `fetch` as the set of rows it may return,
`lock_machine` as the set of machines it may lock. A machine is its *name* (the
section of the configuration); `Label` is the column `lock_machine` compares.
A platform is one more tag. Tags are ignored when a task names a machine, as in
`Machinery.acquire`.

**`Scheduler`** - the main module. State and code:

| Variable | Code |
|---|---|
| `status`, `req`, `guest`, `locked` | `tasks.status`, the other columns of `tasks`, `guests.status`, `machines.locked` |
| `vm` | the VMs that are on, in the hypervisor |
| `sem` | the free slots of `machine_lock` (a `Semaphore(max_vmstartup_count)`, or a `Lock`) |
| `active`, `total` | `active_analysis_count`, `total_analysis_count` |
| `results` | `ResultServer.analysistasks`, by machine instead of address |
| `spc`, `todo`, `analysis`, `job`, `recover` | where the main thread is, and its local variables |
| `pc`, `hold`, `read`, `service`, `raised` | where each thread is, `self.machine`, the value loaded by `active_analysis_count += 1`, the service task, whether an exception will leave the `finally` |
| `api`, `crashes` | calls of other processes in progress; a bound |

A step is one access to shared state: one database transaction, one operation on the lock,
one call into the machinery, one load or store of the counter. `fetch` is three:
`FetchFor` and `FetchAny` select a row, `MarkRunning` writes "running" over whatever
another process made of the row since - a rescheduled row becomes running again - and
`Refresh` reads it once more. A thread is named by its task, which is sound because one is
started only for a row that has left the queue and has no thread, and no row comes back to
the queue (`RunOnce`, proved); that the row is still "running" then is not claimed. The
actions follow the code from top to bottom: `CountLoad`, `CountStore`, `Prepare`,
`Acquire`, `CheckFree`, `Pick`/`PickNone`, `Register`, `StartAux`, `BuildOptions`,
`GuestStart`, `StartMachine`/`StartFails`, `Unlock`, `Manage`, `StartAnalysis`,
`GuestBegan`, `GuestFails`, `Completion`, `Stopping`, `WaitFinish`, `StopMachine`,
`GuestStop`, `DelTask`, `Release`, `Complete`, `Process`, `Report`, `UncountLoad`,
`UncountStore` for a thread; `Probe`, `CheckLimits`, `CheckAvailable`, `CheckCount`,
`Stop`, `ListMachines`, `FetchFor`, `FetchAny`, `MarkRunning`, `Refresh`, `StartManager`
for the main loop; `Start`, `Recover`, `ReAdd`, `DropServices`, `Initialize`, `Exit`,
`Crash` for the process; `Submit`, `DeleteCheck`, `Delete`, `RescheduleMark`,
`RescheduleAdd` for the others.

The constant `Faults` says which calls may fail in a run. An exception goes
where the code sends it: `CuckooMachineError` and `CuckooGuestError` to their
handlers, everything else through the `finally` and out of `run`'s `except`; a
missing row in `guests` makes `guest_stop` (or the unbound `guest_log`) raise in
the `finally`, so that what follows it does not run. `DelTask` has the call of
`unroute_network` with it: when the rooter fails there, the machine is not released.

**`MachinePool`** - what the machine table promises: a machine is given to one
user at a time and comes back through that user or when the table is filled
anew. `Scheduler` is shown to implement it (`PoolSpec`).

**`ResultServer`** - the two tables of the ResultServer, changed statement by
statement by the analyses (`AddTask`, `AddHandlers`, `DelTask`, `PopHandlers`,
`EndRequest`, `WaitDone`, `DelReturn`), and the handlers that read them without
a lock: `Connect`, `GetContext`, `GetHandlers`, `AppendHandler` for `setup` and
`register_handler`, `BuildStoragePath` for `handle`, `CheckEnd`, `PollTimeout`,
`Disconnect` for `wait_sock_or_end` and the reads, `StartBson`, `OpenProcessLog`,
`Message`, `StartLog`, `StartFile` to `ReleaseLock` for the protocols, `SetDone`
and `CloseFiles` for `finish`.

| Variable | Code |
|---|---|
| `analysistasks`, `known`, `handlers` | the dictionary by address; the keys of `analysishandlers`; its lists, which `del_task` keeps using after `pop` |
| `tpc`, `ip`, `at` | where the thread of an analysis is, its machine's address, the position of the loop in `del_task` |
| `pc`, `addr`, `ctx`, `path` | where a handler is, its client's address, the task its first and its second lookup found |
| `ended`, `polled` | `end_request`; that the handler is past the look at it |
| `opened`, `name`, `stored`, `uploads`, `listed` | open files, the path and the chunks of an upload, the files on disk, the lines of `files.json` |
| `lock`, `failed` | `FileUpload.lock`, the handlers whose exception was logged |

The scheduler is the environment of this module: `MachineFree` says that an
address is registered again only after the `del_task` of its last analysis has
returned. `Scheduler` has that order (`DelTask` before `Release`, and
`MutualExclusion`). Its variable `results` is `analysistasks`.

**`Processing`** - `autoprocess` with its pool (`ReapReady`, `Full`, `Reached`,
`Enough`, `Query`, `Submit`) and the instances of `process2.py` (`Claim`,
`ViewTask`, `InstanceDone`, `StoreStatus`) over the table `tasks`, which others
change (`Analyse`, `Analysed`, `ImportAdd`, `ImportDone`, `Delete`, `Reschedule`).
`pending`, `todo`, `batch`, `count` are the locals of the loop, `result` what is with
each task's `AsyncResult`, `claim` what an instance works on, `lost` the tasks of dead
workers. `set_status(completed)` takes the time in `Stamp` and commits in `Complete`:
`stamps` are the calls between the two, which processes other than Cuckoo make at the
same moment; times may be equal and calls may commit in another order. `ListTasks`
is the set of pages a query may return, as the order by `completed_on` says nothing of
rows with one time (`FirstRows`, `Foremost`). `late` remembers that a row was committed
with a time not after that of a listed one, `disturbed` the rows others changed after
one of the programs took them.

**`Distributed`** - the scheduler (`Schedule`, `Assign`) and one worker per node
(`Load`, `SubmitTask`, `SubmitCommit`, `FetchTasks`, `FetchCommit` and the loop
between), each with an SQLAlchemy session whose content (`sent`, `fetched`) is
lost when it dies; `remote` is the task table of a node. A deletion is three steps:
`TaskDelete` loads the row and decides by its status (`del`: remove, mark or keep),
`TaskUnlink` removes the files, `TaskDeleteCommit` writes what was decided, whatever
the row has become. `deletes` bounds them; `cut` remembers that a worker ended at
`FetchCommit` because a deletion had taken one of its rows away, by which it lost the
reports of its other tasks, too.

**`Machines`** - each machinery module as a program of steps - raise or return
in a state, a command that leads to a state, a wait with or without timeout -
run by `launch_analysis` and `_initialize_check` on a hypervisor that takes its
time and fails (`PowerOn`, `PowerOff`, `Abort`); `power` is the machine, `dirty`
its disk, `process` the child process of QEMU and the Android emulator.

**`Rooter`** - `rooter()` (`NoSocket`, `Lock`, `Refused`, `Send`, `Receive`), the
loop of the server (`Serve`), and its callers: `InitRooter`, `InitStep` and
`DropStep` at start-up, `Route`, `Probed`, `Enabled`, `Unroute`, `Disabled` for a
thread. `forward`, `srcroute`, `nat`, `policy` are the rules in the kernel; they
outlive `ServerDies` and `CuckooStarts`.

**`Guest`** - one analysis from `guest_manage` or `wait_finish` to its end:
`Available`, the requests of both managers, `WaitInit`, `WaitLate`, `WaitStatus`;
`row` is the guest's status in the database, which Services may set to "stop",
`status` the Agent's.

**`Analyzer`** - the main loops (`Tock`, `WindowsTick`, `LookAtLock`,
`WindowsScan`, `LinuxTick`, `LinuxScan`, `AndroidTick`, ...), the dispatcher threads
of the Windows command pipe (`HandleLoaded`, `InjectLock`, `Track`, `Inject`,
`HandleFileNew`, `HandleFileDel`, `HandleFileMove`), the hooks of the Darwin
package, the upload and the report, with a sample of some processes as the
environment.

**`Plugins`** - the lists of classes, `RunAuxiliary`, `RunProcessing`, `RunSignatures`
with the stack of `call_signature` (matches call signatures which may match, `Answered`),
`RunReporting`. `on_call` answers any of the `Outcomes`; `on_complete` matches when its
patterns do, and a signature that waits for others answers in `on_signature` when it has
heard of all of them (`Answers`). The sort of a list is any stable one (`Sorted`).
`PluginsAssumption` says that signatures wait for one another in no circle, and in no
chain longer than Python's recursion limit: with a circle the code recurses until it fails
(section 6).

**`Behaviour`** - one `BsonParser` per log, which stays the same object for all
passes (`Reopened`); `NextLog` and `ParseMessage` for the first pass with its
handlers (`SeeProcess`, `SeeCall`), `GoOver` for each later one.

**`Network`** - `ReadChunk` and `Merge` for the sort (`heapq.merge` on the
connection and time of what each chunk has next), `Dissect` for `Pcap.run`,
`StreamAt` for `packets_for_stream`. `chunks` are the temporary files, `taken` how far
each is merged; a chunk is the one order of its packets in which their keys increase
(`SortedChunk`).

**`Lists`** - Python's lists where several modules go over them: `Those`, a comprehension
that leaves elements out, as a recursive function.

**`Memory`** - `StartMemory`, `ImageInfo`, `RunPlugin`, `FindTaint`, `Cleanup`,
`MaskFilter`; an entry is reduced to the process it names, as number or text.
`Calculate(n)` is what the plugin of that name finds, `PLUGINS` their order.

**`CuckooML`** - a run from `StartMl` over `LoadBinaries`, `LoadFeatures`,
`SelectData`, `Cluster`, `Assess`, `AbnormalBehaviour`, `DetectAnomalies`,
`CompareSample` to the saving of reports in place (`UpdateAll`, `OpenReport`,
`DumpReport`); `inPlace` remembers what was saved, by algorithm.
Features and columns are computed by operators from abstract reports; what
HDBSCAN, DBSCAN and their parameters give is any fit of the samples.

**`ResultStore`** - tasks, samples, folders in SQL and on disk; reports, call
chunks and GridFS in MongoDB. A reporter takes `StartReport`, `FindFile`,
`CloseFile`, `FindAgain`, `StoreCalls`, `Save`; the web interface `Submit`,
`RemoveAnalysis`, `CountUses`, `DeleteFile`, `RemoveDoc`, `RemoveTask`, import,
resubmission. Each query is a step. The pages look calls up as views.py does: `chunk`
and `filtered_chunk` by `find_one` for the id of the task and the pid (`CallsOf`: the
oldest report that has the process, and of several processes with the pid the last;
`ChunkOfPage`, `FilteredChunk`), `search_behavior` by the id alone and over every
process (`SearchBehavior`, `FoundIn`).

**`MCHost`** puts `Machines`, `Rooter` and `Guest` next to each other, and
**`MCResults`** `Plugins`, `Network`, `Behaviour`, `CuckooML`, `Memory` and
`ResultStore`: these share no state, so an initial state picks one of them and the
others rest. **`MCScheduler`**, **`MCResultServer`**, **`MCProcessing`**,
**`MCDistributed`**, **`MCAnalyzer`**, **`MCResultStore`** hold the constants of the
other instances.

The proofs are in **`Scheduler_proofs`**, **`ResultServer_proofs`**,
**`Distributed_proofs`**, **`Host_proofs`** (of `Machines` and `Rooter`),
**`Processing_proofs`** (of `Processing` and of `Plugins`, which process the results),
**`Guest_proofs`** (of `Guest` and `Analyzer`, the two ends of the network) and
**`Results_proofs`** (of `ResultStore`, `Memory`, `CuckooML`, `Behaviour` and
`Network`). **`Lists_proofs`** holds the induction and the facts about lists that the
proofs of plugins and results share.

The operators `PROJECT.json` lists under "mutants" ("Variant" in the comments) have a
plausible bug; each property is tried against one of them to see that it can fail.

### Abstractions

* `add_task` of the ResultServer is two dictionary assignments and cannot raise;
  the queue `errors` it would feed is left out.
* In `Scheduler`, `Processing` and `Distributed` the ids of deleted tasks are not
  used again. SQLite does so for the last row; `ResultStore` has it (`NextId`).
* `added_on` orders rows like their ids.
* Labels of machines are distinct, as `unlock_machine` and every hypervisor
  need; `TableAssumption` says so. Addresses too.
* Files written for the reader (`task.json`, `latest`), the memory dump and the
  deletion of binaries are left out; `store_task_info` counts because it raises
  when the row is gone.
* `store_report` and `delete_task` of a reported task are one step of `Distributed`
  (`Reported`), a `delete_task` that fails without an exception (instance.py:118-150)
  is left out, and `Schedule` looks at `enabled` for every node instead of loading the
  list once (instance.py:22): a worker serves a disabled node all the same.
* In `ResultServer` the only failure with `FileUpload.lock` held is that of the disk
  (`DiskError`); a path `json.dumps` cannot encode (resultserver.py:379) is the same case.
* The probe of the lock in `Scheduler.start` (acquire, release) is one step.
* The route written by `set_route` is not a variable. A `rooter` call may raise
  (fault "route"); that it may block for ever is left to the module Rooter.
* `init_tasks` writes the status of all pending service tasks in one step.
* A line, a message or a chunk of a connection is one receive; in the code it is
  several reads, each of which looks at `end_request` first. Contents are left
  out: of a BSON stream only the message that opens the log of the process and
  what makes the handler stop count.
* Handlers are numbered in the order their connections are accepted, analyses in
  the order they are registered; names mean nothing else, so this only removes
  symmetric states.
* Only one service per analysis, and no time: `wait_for_completion` ends whenever
  it likes, which the critical timeout guarantees.
* In `Analyzer` two processes do not act on one path at the same time, and the
  sample stops once the Agent has been told. The log pipe is left out. `is_alive` and
  `remove_pid` (analyzer.py:656-659) are one step, as a pid does not come back. A
  pass of the Linux loop that an exception cuts short (analyzer/linux/analyzer.py:271)
  and a post of the status that fails (analyzer/windows/analyzer.py:794-798) are left
  out.
* In `Plugins` a processing or reporting module succeeds, fails in one of the
  ways the code tells apart, or is not loaded; which, is free. Exceptions of a
  signature's constructor, `init` and `results` (plugins.py:287, 422, 444), which end
  the run, are left out.
* Connect and send of `rooter()` are one step (`Send`).
* The machinery `esx` and `kvm` are the libvirt module. Snapshot names and
  configuration checks are one step that may raise.
* Volatility reports what the image holds (`Calculate`); it does not err.
* In `ResultStore` hashes do not collide, and MongoDB's queries are atomic each. A
  `find_one` without a sort gives the oldest document that fits, as MongoDB does in
  practice, and a removal takes the chunks of a report and the report in one step.
* Parsers of HTTP, DNS, IRC and SMTP keep one value per message.

## 3. Runs

All bounds are constants of the configurations. Two machines, two threads, two
connections, two workers, two tasks are enough for every conflict over what they
share; one crash or death covers a recovery, as it comes in any state.

| Run | Instance | Shows |
|---|---|---|
| `SchedulerCore` | 2 tasks (tagged, baseline), rescheduled at any time, also between the transactions of `fetch`, one slot, handled faults | `LockNotLeaked`: every slot is free or belongs to a thread starting a VM; `ReportedStays`; `RunOnce` |
| `SchedulerFaults` | 2 tasks with or without services, 2 slots, an agentless machine, both limits, unhandled faults, deletions | `IInv` (the inductive invariant), `MutualExclusion`, `ResultsRouted`, `LockAccounting` |
| `SchedulerRestart` | 2 tasks and 2 copies, one crash anywhere | `VmOnlyWhenLocked`, `NoOrphan`, `PoolSpec` |
| `SchedulerLive` | 2 tasks, one machine each, fairness | `TasksFinish` |
| `SchedulerLeak` | 1 task, deleted | `LockMeansStarting` fails |
| `ResultServer` | 2 analyses that use one address, 2 connections, one path, uploads cut off at 2 chunks, disk errors, fairness | `IInv`, `WaitedFor`, `UploadsListed`, `DelReturns` |
| `Processing` | 3 tasks, window of 2, 2 instances, maximum of 2, one death, one deletion, rescheduling or import, equal times and commits out of order, fairness | `SkipsPending`: the rows skipped are the pending ones, as long as nobody changes them and rows are committed in the order of their times; `NeverProcessedTwice`; `Handled` (liveness) |
| `Distributed` | 2 tasks, 2 deletions, one node with threshold 1, one fault: a death, or the node set up anew | `OwnReport`, `InHand`, `FinishedStays`, `Delivered` (liveness) |
| `Host` | every machinery module, 2 analyses, `vm_state` 1; 2 threads at the rooter, one death of server or Cuckoo; both guest managers, every Agent and category | `StartsClean`, `StoppedIsOff`, `NothingForwarded`, `SuccessMeansEnded`, `CallsEnd` (liveness) |
| `Analyzer` | 4 platforms, 2 processes, 2 paths, one content, timeouts of 3 and 1 ticks | `Followed`, `FilesSaved`, `Reports` (liveness) |
| `Results` | 4 signatures with a chain of two matches, 2 processing and reporting failures of every kind; captures of up to 4 packets in chunks of 2; logs of up to 5 messages gone over twice; 2 reports and 2 runs of CuckooML; 2 memory images, 2 passes; 2 web or reporting workers with 3 requests, 2 rows, 2 reports, of one task or of two, with two processes of one pid | `AllRun`, `MatchesHeard`, `CallsSeen`, `StreamOfChunk`, `CallsKept`, `SummaryAgrees`, `ResultsKept`, `TaintedKept`, `FilesKept`, `PagesAgree` |
| `RemoveShared` | one worker, two reports, the sample of one dropped in the other | `SampleUnused` fails |

Some bounds in words: a window of 2 over 3 tasks can skip and fetch; a chunk of 2
in a capture of 4 gives two chunks that are merged and a connection that spans
both; pages of 2 calls, with 3 calls, give a full and a partial page; two reports of one
task tell the oldest from the newest; a timeout of
3 lets the process list be empty before it is over; with `vm_state` 1 a wait
can go both ways. `MCResults` gives `Plugins` one thread: with two the sort of the
shared list (section 6) breaks `AllRun`.

*Deadlock* is checked in `SchedulerRestart`, `SchedulerLive` and `Distributed`.
`SchedulerCore`, `SchedulerFaults` and `SchedulerLeak` do not check it: a rescheduled or
deleted row makes a thread raise where nobody expects it, a slot of the lock is lost, and
the main loop stops for good, which is what the code does. `ResultServer`: all connections
served and all analyses over is a proper end, and a lost `FileUpload.lock` stops the
handlers for good. `Processing`, `Host`, `Analyzer`, `Results`, `RemoveShared`: the
programs end, or the bounded requests are used up.

**Fairness.** *Scheduler* (`FairSpec`): threads and main loop run on (weak fairness): the
operating system schedules them, and every wait in the code has an end. Taking the lock
needs strong fairness, for threads (`Acquire`) and for the main loop (`Probe`): a thread
that finds no machine holds the lock for two database calls and then sleeps for a second,
so the lock is free again and again but not continuously. Submissions, deletions and
crashes are not fair; faults may happen every time. *ResultServer*: the threads of
handlers and of a started `del_task` run on; guests, which may keep a connection open and
send nothing, and disks are not fair; `DelReturns` holds because `poll` has a timeout.
*Processing*: the main loop, the instances and living workers run on; deaths, deletions
and imports are not fair. *Distributed*: scheduler, workers and API commits run on,
workers are restarted by their supervisor, a deletion that began goes on, and a node
analyses what it was given; clients and deaths are not fair. *Host*: the steps of a
machinery module, the caller and the server of the rooter, the managers and the clock
(`Tick`, by which the critical timeout comes) run on, and a machine told to power off does
(`PowerOff`); that it boots or that an Agent answers is not assumed; the lock of the
rooter, which other callers take and give back, needs strong fairness (`Lock`).
*Analyzer*: the main loop runs on, and a handler of the pipe that has the lock goes on;
the sample is not fair.

## 4. Proofs

`Scheduler_proofs` proves, for any finite set of machines, any numbers of tasks,
slots and limits, any set of faults and calls and any number of crashes:

| Theorem | Statement |
|---|---|
| `TypeCorrect` | `Spec => []TypeOK` |
| `Exclusive` | `Spec => []MutualExclusion` |
| `Routed` | `Spec => []ResultsRouted` |
| `Accounted` | `Spec => []LockAccounting` |
| `ImplementsPool` | `Spec => PoolSpec` |
| `OnceOnly` | `Spec => RunOnce` |
| `Invariance` | `Spec => []IInv` |
| `ReportsStay` | `Spec => ReportedStays` |
| `OnlyLockedRun` | `Spec => []VmOnlyWhenLocked`, when `machinery.stop` works |
| `NoneOrphaned` | `Spec => []NoOrphan`, when no call fails in a way `run` does not handle and every task is of a kind `init_tasks` reschedules |
| `NothingLeaks` | `Spec => []LockNotLeaked`, when calls fail only in the ways `launch_analysis` handles and `tasks_delete` is not called |

The hypotheses of the last three are needed: section 6 and the run `SchedulerLeak`
show what happens without them. `Unhandled` and `Unreleased` name the faults. The
runs that check these properties have the faults the theorems allow.

`ResultServer_proofs` proves, for any numbers of analyses and connections and
any addresses and paths:

| Theorem | Statement |
|---|---|
| `StoredForItsGuest` | `Spec => []RightGuest` |
| `HandlersWaitedFor` | `Spec => []WaitedFor` |
| `OthersUndisturbed` | `Spec => []EndedByOwnTask` |
| `UploadsComplete` | `Spec => []UploadsListed` |
| `Invariance` | `Spec => []IInv` |

`Processing_proofs` proves, for any numbers of tasks, instances and deaths, any window
and maximum:

| Theorem | Statement |
|---|---|
| `TypeCorrect` | `Spec => []TypeOK` |
| `PendingSkipped` | `Spec => []SkipsPending`, which speaks of tables no row was committed late in |
| `ProcessedOnce` | `Spec => NeverProcessedTwice` |

and, for any plugins, signatures, calls and outcomes:

| Theorem | Statement |
|---|---|
| `MatchesTold` | `PluginsSpec => []MatchesHeard` |
| `CallsTold` | `PluginsSpec => []CallsSeen` |
| `AllGoneOver` | `PluginsSpec => []AllRun`, with one analysis at a time in a process |

Two threads break `AllRun` (section 6), as one sees the list the other is sorting empty.

`Distributed_proofs` proves, for any sets of tasks and nodes, any threshold and any
number of deaths and of nodes set up anew:

| Theorem | Statement |
|---|---|
| `TypeCorrect` | `Spec => []TypeOK` |
| `ReportIsOwn` | `Spec => []OwnReport` |
| `WorkInHand` | `Spec => []InHand` |
| `FinishedForGood` | `Spec => FinishedStays`: finished until a deletion marks the row, or takes it away because it was pending when the deletion loaded it |

`Host_proofs` proves, for any timeout and any number of analyses on any of the
machinery modules:

| Theorem | Statement |
|---|---|
| `TypesKept` | `MachinesSpec => []MachinesTypeOK` |
| `CleanStarts` | `MachinesSpec => []StartsClean` |
| `StopMeansOff` | `MachinesSpec => []StoppedIsOff` |

and, for any numbers of threads, analyses and deaths of Cuckoo and of the server of the
rooter:

| Theorem | Statement |
|---|---|
| `RooterTypes` | `RooterSpec => []RooterTypeOK` |
| `NoWayOut` | `RooterSpec => []NothingForwarded` |

`Guest_proofs` proves, for any kinds of Agents and tasks:

| Theorem | Statement |
|---|---|
| `SuccessSeen` | `GuestSpec => []SuccessMeansEnded` |

and, for any numbers of processes and paths, any contents and timeout, on the four
platforms:

| Theorem | Statement |
|---|---|
| `AnalyzerTypes` | `AnalyzerSpec => []AnalyzerTypeOK` |
| `KeepsFollowing` | `AnalyzerSpec => []Followed` |
| `NoFileLost` | `AnalyzerSpec => []FilesSaved` |

`Results_proofs` proves, for any numbers of workers, requests, logs, images, runs and
packets:

| Theorem | Statement |
|---|---|
| `FilesStay` | `ResultStoreSpec => []FilesKept` |
| `TaintStays` | `MemorySpec => []TaintedKept` |
| `ResultsStay` | `CuckooMLSpec => []ResultsKept` |
| `SummaryStays` | `BehaviourSpec => []SummaryAgrees` |
| `CallsStay` | `BehaviourSpec => []CallsKept` |
| `PagesStay` | `ResultStoreSpec => []PagesAgree`, when reports are cut into the chunks the pages count with |
| `StreamStays` | `NetworkSpec => []StreamOfChunk` |
| `PacketsStay` | `NetworkSpec => []EachPacketOnce` |

What `PagesAgree` says is that the pages of a task show the calls of its oldest report,
and of the last process with a pid. While a task has one report, that is the report its
page shows; with two it is not (section 6). The hypothesis of `PagesStay` is `Paginate =
PageIds`: `chunk` of views.py counts with 100 whatever the option `paginate` of
conf/reporting.conf says (section 6).

*Assumptions*: those of the modules (`TableAssumption`, `SchedulerAssumption`,
`ResultServerAssumption`, `ProcessingAssumption` and so on), each evaluated by TLC in
the runs. The constants have their types, a sentinel (`NoMachine`, `NoIp`, `NoFile`,
`Nobody`) is none of the things it stands in for, labels are distinct, processes of one
memory image have distinct pids while they are active, signatures wait for one another
in no circle, and a call has the category of its API. Of a capture: a chunk holds at
least one packet, a packet goes in one of two directions, and no two connections have
the same rank in the order of flow tuples, which are what a connection is.

*Argument for the scheduler.* `MutualExclusion` is not inductive: that `Pick` takes a
machine nobody holds follows from the column `locked` only if whatever is held is locked;
that a released machine is not someone else's needs exclusion itself; that a new thread
holds nothing needs a link from the task table (`pending` rows have no thread) through the
main loop's `job` to `pc`; that `Initialize` may clear the table needs the absence of
threads before the main loop. `ThreadInv` is the conjunction of these, `IInv` adds the
types. `InitInv`, `TypeStep` and `ThreadStep` are its three facts, with one step per
action; `Invariance` concludes. `ResultsRouted` is preserved because a thread registers
and unregisters only the machine it holds, which nobody else does. `LockAccounting`
follows from how each action changes the lock and the set of threads that start up
(`LockStep`, `ManagerLockStep`) and the cardinality of that set with one element more or
less. `PoolStep` maps `Pick` to `Acquire`, `Release` to `Release`, the death of the
process to `Abandon`, `Initialize` to `Refill` and everything else to a stutter.

`ReportedInv` (a reported task has no thread that still writes, none is started for it,
and recovery does not come across it) gives `ReportsStay`; `VmInv` follows a thread from
the stop of its VM to the release of its machine. `OrphanInv` says that a thread writes
the final status before it ends, and that recovery comes across whatever was running
when the process died; `RescheduleInv` that what is queued is a task `init_tasks` can
deal with. `LockNotLeaked` is an equation between free slots and `Starters`, kept step
by step with `RowsStay`: without deletions `guest_start` finds its row.

*Argument for the ResultServer.* `WaitedFor` rests on the order of `del_task`,
which removes the address before it takes the list. A handler that stores for a
task found it at its address in its second lookup, so before the first statement
of `del_task`; if it had registered, it was in the list by then (`HandlerInv`),
and the loop reaches everything that is in the list (`ListsInv`). `TablesInv`
ties the address table to the analyses in progress. For `EndedByOwnTask`,
`EndedInv` says that a handler that was asked to end and is not done is the one
its task waits for; that task is not gone, so its address belongs to nobody
else, and the handler's second lookup cannot find another task. `UploadInv`
follows an upload from its first chunk. The tables do not change in most steps
of a handler: `MovesKeeps` covers these at once, and one lemma each the five
steps around the lookups and the seven of an analysis.

*Argument for Processing.* `SkipsPending` speaks of the first rows of a list ordered by
time of completion, and of every order the database may choose among rows with one time.
`WindowInv` says that, until a row is committed late, the pending rows are ahead of all
others (`Ahead`: strictly earlier), and so are the pending and the waiting ones together.
A completion that is not late comes after every row that is listed, so it disturbs
neither, and no two rows have one time (`TimesInv`). Rows that are ahead of all others
are the first ones in every order (`OnlyFirst`, a fact about finite sets, with
`FiniteSetTheorems`): the query skips them and nothing else. `PoolInv` and `ClaimInv` tie
`result`, `lost` and the column `processing` to who works on a task.

*Argument for the plugins.* What `LoadPlugins` and `Those` compute is a matter of
induction, and the library's induction theorems cannot be instantiated here.
`Lists_proofs` proves its own first: a set of numbers has a least element
(`LeastNatural`, from well-foundedness), so what holds of 0 and goes from each number to
the next holds up to any (`Induction`, with the set of numbers for which it holds in
place of a predicate), and a function may be defined by its first value and its steps
(`Recursion`). `ThoseOf`
and `LoadedLists` are what follows for the two operators. The invariant `SigsInv`: each
match was heard of by each signature, or a frame of the stack has still to tell it
(`HeardOf`); a signature that has heard of all it waits for has matched (`AllMet`); the
signatures listed under an API hold each one that wants its calls and did not refuse
them (`ApisKept`). The stack does not pass the recursion limit because ranks increase
along it (`Stacked`). `OneInv` says how far the loops are over the sorted lists. TLC
checked `SigsInv`, too, before it was proved.

*Argument for the rooter.* A rule is what the server last did for a machine, while the
thread is somewhere in its list of commands and one command is in the socket. `TodoInv`
says how far each caller is; `LiveInv` and `CallInv` that only the caller with the lock
has a command in the socket, so that what is left to do of its list (`Left`) is what
the kernel will see; `QueueInv` that commands of a killed Cuckoo are served before the
first of the next one, and so cannot undo its start-up; `RulesInv` then gives the
number of rules of every machine at every point (`Has`). After the death of the server
(`outage`) nothing is claimed.

*Argument for the analyzer.* `Followed` and `FilesSaved` need `TickInv` (the loop ends
when the counter reaches the timeout), `CommandInv` (which handlers there can be, and
that no two are at one path), `AnsweredInv` (a deletion is answered after the upload)
and `DueInv`, which splits the files that were listed at the end into those the upload
has gone past and those still to come.

*Argument for the results.* *ResultStore*: a removal deletes a file when it counted one
report that names it, and the count may be old by then. `CountInv` is what is left of
it: of the reports there were at the count, the one naming the file is the one being
removed; younger ones are what `excused` is about. *Memory*: what a plugin collected is what
`Calculate` gives, `malfind` ran before the filter, and the taint is its result.
*CuckooML*: until it saves, the run holds the reports as they are (`LoadedInv`); while
it saves, each report on disk is the old one, torn, or the new one with what it had of
other algorithms (`SaveInv`). *Behaviour*: every process with a reconstructor has a
summary of its own before any of its calls is handled (`Gathered`).

*Argument for the pages.* `PagesInv` says of every report, kept or being made, that the
chunks stored for its processes so far are their calls cut up (`Paged`), and that no chunk
is of two reports (`Apart`), so that a removal takes none of another's. The rest is what
the operators compute: cutting a sequence gives pieces that end at multiples of
`paginate` and make up the sequence again (`ChunkedOf`, by `CutUp` and `Part`), the
chunks a report refers to, in the order they were stored, are those pieces (`OrderOf`,
`ChunksOf`), filtering page by page is filtering the whole (`FlattenThose`), and the
lookups find the oldest report of the task and its last process with the pid
(`FirstReport`, `PagesFind`).
`PagesShown` puts these together.

*Argument for the calls.* The first pass counts calls, the later passes show them, and
both are one parser, which by then knows more. `Learnt` says that what it knows was in its
log, `CallsFound` that no more calls are counted of an API than the log has after what
announces it. A pass yields each of these (`PassYields`): there is an injection from the
counted calls into the yielded events (`Embeds`), from which the numbers follow
(`CountedShown`).

*Argument for the streams.* `NetInv` follows the sort. In a chunk all packets of a
connection have one rank, that of the direction seen first there, so a sorted chunk has
them one after another (`ChunkSorts`, `LaidOut`); that a sorted order exists at all is
shown by taking least elements (`Sortable`). A connection that is whole in one chunk
stays together in the merge (`Merged`): while the last packet taken from a chunk is not
the last of its connection, the next one of the chunk is before all other heads
(`Pending`, `Ahead`), since no other connection has its rank and its own packets are
in no other chunk. `FoundSoFar` says that a connection is listed at its first packet with
data, with the offset of that packet unless the one before could not be read. The stream
from there ends at the first packet of another connection, which comes after the last of
its own (`StreamHolds`). For `PacketsStay`, each chunk holds its packets once
(`KeepInv`), the chunks do not overlap, the merge ends when all are taken, and reading
ends when a chunk is empty, which is past the end of the capture (`AllRead`).

*Argument for Distributed.* `OwnReport` is not inductive: that the id in a row leads to
the row's own analysis (`OwnInv`) needs that the ids a session still holds do, and that no
other node gets the row meanwhile. `LinkInv` ties rows and sessions together: what a
worker has loaded or submitted belongs to its node and has no id yet (`SentInv`), what is
picked is still pending, or gone (`PickedInv`), a deletion under way belongs to a row that
was there, and one of a pending task is to remove it (`DeleteInv`), and a worker submits
and fetches one after the other (`WorkerInv`). `InHand` is kept together with `OwnInv`: a
report is deleted on the node only under its one owner, who is in the session then.
`FinishedStays` follows from `LinkInv`: no session that could take the status back holds a
row that has an id, and a deletion writes only what it decided when it loaded the row.

*Argument for the machinery.* What the programs of the modules have in common is
stated once: where `start` puts the disk back and what it never does before the
sample runs (`CleanSteps`), and how `stop` ends (`StopSteps`). `CleanInv` says that
behind the step that puts the disk back it is clean, `OffInv` that QEMU reaches the
step that kills only with a child of its own; both are kept by going on
(`GoKeepsClean`, `GoKeepsOff`) and by leaving (`LeaveKeepsClean`, `LeaveKeepsOff`),
which every action of a module does in one way or the other.

*Argument for the guest.* `SuccessInv` says what the row may be in each place of the
manager (`RowInv`) and that an outcome ends guest_manage.

*Only model-checked*: liveness under fairness (`TasksFinish`, `DelReturns`,
`Handled`, `Delivered`, `CallsEnd`, `Reports`). Each needs that a fair action is enabled
until it is taken, and TLAPS has neither a proof rule for `ENABLED` nor one for the
ranking such an argument goes down. Every invariant and every action property that a
passing run checks is stated by a theorem; `EachPacketOnce` is
stated by a theorem alone, after TLC found no violation of it on the instance of `Results`.

## 5. What the code does not keep

Each of these is a run TLC violates; `PROJECT.json` ("findings") quotes the text
the property comes from.

* `SchedulerLeak` - `tasks_delete` checks the status and deletes later. If the
  task was fetched in between, `guest_start` raises AttributeError, no handler
  releases `machine_lock`, and `guest_log` is unbound in the `finally`: lock and
  machine are lost.
* `RemoveShared` - `remove` ("Delete sample if not used.") counts the reports that
  name the file as their sample (`target.file_id`) and deletes it if there is one.
  GridFS keeps one file for each SHA-256 (mongodb.py:102), and what is the sample of
  one analysis may be what another one dropped: that report names the file in
  `dropped.object_id`, is not counted, and refers to a file that is gone.

## 6. Met while modelling

In the models, as nondeterminism, exceptions in a property or states excluded by
name, but not the subject of a run.

**Scheduler.** `active_analysis_count` is changed by threads without a lock
(scheduler.py:531); after a lost update the check at :699 lets Cuckoo stop, and
power off machines, during an analysis. `max_machines_count` is compared before
the machine is locked (:688). `fetch` never returns the tasks `add_service` adds,
so an analysis that waits for its services keeps its slot of the lock.
`reschedule` is two transactions; a crash between them loses the task. So is `fetch`
(database.py:594-607), with a lock of its own in every process: a reschedule in between
adds a copy, and the row it took out becomes "running" again and is analysed, too. When
`unroute_network` raises (scheduler.py:430), the machine is not released. A machine
whose VM did not stop is released all the same (`VmOnlyWhenLocked` fails with the
fault "vm_stop"). A task that names its machine finds none when the label is not
the name (:712) and is still set to completed. `init_tasks` leaves running baseline
tasks as they are. A task whose file disappeared stays "running".

**ResultServer.** `setup` ignores the result of `register_handler` and `handle`
looks the address up again: a handler whose first lookup came before `add_task`
stores for the task and is not waited for. `finish` sets `done_event` before it
closes its files. When the append to `files.json` fails, `FileUpload.lock` stays
taken and every later upload hangs. A connection that registers between the two
statements of `add_task`, or of `del_task`, ends in a KeyError. An upload that ends
before its first chunk leaves an empty file that is not in `files.json`. Two
handlers may both find that a path does not exist (resultserver.py:351); the log of
a pid that is used again is truncated (:284).

**Processing.** `set_status` takes the time and commits later (database.py:556-559), and
process.py:114-117 sorts by time without a tie-breaker: after a commit with a time not
later than that of a listed row, the rows skipped need not be the pending ones. When
the row of a pending task is deleted, rescheduled or completed
again, `list_tasks` skips other rows than the pending ones and a later pass trips
the assertion of process.py:141 ("should never happen"). `process2.py` never
increments `count`. The row claimed by a dead instance stays claimed. `pool.join`
without `close` raises at the normal end. An import of the web interface is visible
as "completed" only after its files are there, but may be fetched before.

**Distributed.** A task whose analysis fails on the node stays in work for ever. A
death between the deletion on the node and the commit loses the status; between
submission and commit, it duplicates the task. A node set up anew gives out ids
again, and the reports of other tasks are taken. A deletion under a loaded row
raises StaleDataError, which ends scheduler or worker, or is overwritten; one that loads
a pending row and commits late takes away a finished one. With a threshold above 1, a
row without its file (its deletion is between two steps) ends the worker at the commit,
and the others of its batch, which the node has by then, are submitted again by the
next worker, and so on; the run has the threshold 1, by which ids stay bounded. A report
that cannot be stored leaves a finished task without one. `submit_task` may return a
tuple instead of an id, and the commit fails.

**Machines.** vmware does not wait for its start, so `stop` may find the machine
off and return; vsphere only logs what fails in `stop`; a physical machine is taken
while it reboots; an exception of another kind in `stop` or `dump_memory` leaves the
`finally` before `release`; QEMU does not know processes of a Cuckoo that was
killed.

**Rooter.** A refused connect returns with the lock held (rooter.py:42). A machine
without `interface` makes the server log the command without an answer, and the
caller waits for ever. `recv` has no timeout. The policy rules of a killed Cuckoo
stay; its forward rules are dropped by the next one. The server dies when the one
that asked is gone (`sendto` raises), and the next Cuckoo does not start without it.

**Guest.** Requests before the wait have no timeout: a mute Agent holds them for
ever. A "stop" written between the look at "starting" and the write of "running" is
lost (scheduler.py:296). Errors the new Agent answers, and False from the old one,
are ignored. The old manager goes on uploading after "stop".

**Analyzer.** The main loop looks at `process_lock` instead of taking it; the
comment of `_inject_process` counts on more. `scan` removes from the list it
iterates, so a pid may be left for the next tick. `dump_files` iterates a dictionary
handlers still change (RuntimeError). `CommandPipeHandler.pid` is shared by all
dispatcher threads. A timeout of 0 never equals the counter. Darwin's
`_upload_file` compares the function `sha256` instead of a digest. On Linux and
Android failed auxiliary modules are stopped, too.

**Plugins.** Analysis threads share the list they sort, and CPython empties a list
while it sorts: another thread's loop then sees no modules. `RunAuxiliary.start`
returns at the first constructor that fails. Mutual `on_signature` matches recurse
without an end. `api_sigs` is keyed by the name only, so the category of the first
call of a name decides. A base class imported by a plugin is registered again.
`Report.set_path` raises outside the `try` and ends all reports.

**Behaviour.** The process event of `LinuxSystemTap` lacks a key, so every `.stap`
log fails. A call before its process event ends the module. Two iterations at once
share the position in the file. Processes in a cycle of parents vanish from the
tree. A failed `NtCreateFile` still records its handle.

**Network.** A connection that spans two chunks of the sort is split in the sorted
capture, and `packets_for_stream` ends early. Repeated DNS answers are listed again.
An external source that was seen first still enters the hosts later. A TCP packet
cut in its header fails the whole sort. The offset after an unreadable packet is
stale.

**Memory.** `mask.enabled` is read into a variable nobody looks at, so masks apply
when they are switched off (conf/memory.conf:144). `sockscan` and `netscan` give pids
as text, which the masks never match. The dump is deleted before its results are
stored. An exception of any plugin loses the results of all.

**CuckooML.** The filter "log_bin" names a private method outside its class and
fails. `filter_dataset` keeps features that are zero everywhere and ignores
`complement`. Filters are paired with kinds of features in a fixed order.
`feature_category` knows "count", its callers say "counts". A report without
VirusTotal results, or an http entry without a host, ends the run. A kill while
reports are saved leaves one torn, and the next run exits.

**Result database.** Two removals that share a file may both keep it, a second removal of
an analysis that is already gone deletes a file another report uses, and a file that is
used under another field is deleted (`excused` in `FilesKept`). Process memory dumps and
extracted files are never removed. A killed reporter leaves files and chunks. After a lost
race for the index, `find_one` may give None, and the report is lost while the task is set
to "reported" all the same. SQLite gives the id of a deleted last task again: the new
task's page shows the old report (`tasks_delete` leaves MongoDB alone), and after `remove`
(which leaves the folder) the task with that id is aborted. After a second report of a
task, by a rereport or under such an id, its page shows the newest report and the pages of
calls, filters and searches those of the oldest one (views.py:95, 139, 190, 250); with two
processes of one pid, those of the last. `submit --unique` looks and adds. `chunk` counts
calls with 100 whatever `paginate` says. The "shallow" copy of `MongoDB.run` lets it
change the results of later reports.

## 7. Not modelled

* `static.py`, `procmemory.py`, the other processing modules: parsers of external
  formats; no state or order to check.
* `jsondump`, `sniffer`, `mitm` and the remaining reporting and auxiliary modules:
  output to files and subprocesses; that they run and fail is in `Plugins`.
* The libraries (`objects.py`, `utils.py`, `virustotal.py`): hashing, formatting,
  lookups.
* Of the database: tags, errors, schema versions, listings for readers. Of the web
  interface: search, comparison, pages that only show. Of the analyzers: the log
  pipe, packages, auxiliary modules, memory dumps of processes.
* The arithmetic of clustering, plots, and the notebook `examples/cuckooml.ipynb`.

## 8. Plan

1. The Windows log pipe with `PipeForwarder`; the packages of the analyzers.
2. Composition: `Scheduler` with the handlers of `ResultServer` instead of the
   variable `results`.
3. Liveness, should the prover learn to reason about `ENABLED`.
