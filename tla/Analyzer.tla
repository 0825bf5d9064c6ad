------------------------------ MODULE Analyzer ------------------------------
(***************************************************************************)
(* The analyzers that run inside the VM (analyzer/windows, linux, android  *)
(* and darwin): the main loop that decides when an analysis is over, the   *)
(* list of followed processes, on Windows the handlers that serve the      *)
(* monitor's pipe in threads of their own, the files to upload, and the    *)
(* report to the Agent.                                                    *)
(*                                                                         *)
(* The sample's processes start children, write, delete and move files and *)
(* end; under the Windows monitor they announce most of it, and the thread *)
(* that does waits for the answer.                                         *)
(***************************************************************************)
EXTENDS Naturals, Sequences, FiniteSets, SequencesExt

CONSTANTS Platforms,   \* of "windows", "linux", "android", "darwin"
          Pids,        \* processes of the sample
          FirstPid,    \* the one the package starts
          Paths,       \* of files the sample writes
          Contents,    \* what can be in them
          NoFile,      \* nothing at a path
          NoLock,
          Tasks        \* analyses: [timeout, does], where the sample, besides starting
                       \* children, has processes listed and ends them ("lists"), or works
                       \* on files ("files")

ASSUME AnalyzerAssumption ==
    /\ FirstPid \in Pids /\ NoLock \notin Pids /\ IsFiniteSet(Pids) /\ IsFiniteSet(Paths)
    /\ Tasks \subseteq [timeout : Nat \ {0}, does : {"lists", "files"}]
    /\ NoFile \notin Contents

VARIABLES
    platform,
    task,
    main,      \* where the main thread is
    ticks,     \* time_counter
    pidCheck,  \* pid_check
    doRun,     \* do_run
    pids,      \* ProcessList.pids, PROCESS_LIST
    notrack,   \* pids_notrack
    seen,      \* SEEN_LIST
    cursor,    \* of the loop over the pids
    processLock, \* process_lock: the process whose handler holds it
    why,       \* why the analysis ended
    report,    \* what the Agent was told
    alive,     \* the processes of the sample that exist
    suspended, \* those created suspended, waiting for their parent
    monitored, \* those with the monitor in them
    known,     \* Linux: what the package and the auxiliary modules have seen
    told,     \* process -> what it tells the monitor's pipe, in MonitorCommands
    handler,   \* process -> how far the dispatcher is with it
    promised,  \* history: processes the analyzer agreed to follow
    disk,      \* path -> its content, or NoFile
    files,     \* Files.files, touched_files
    todump,    \* of the loop in dump_files
    size,      \* number of files when that loop began
    due,       \* history: those files, as long as nothing is done to them
    dumped,    \* contents the host has
    failed,    \* history: contents whose upload failed
    missed     \* history: contents of followed files that went unsaved

loop   == <<main, ticks, pidCheck, doRun, cursor, why, report>>
lists   == <<pids, notrack, seen, promised>>
sample == <<alive, suspended, monitored, known, told, handler>>
store  == <<files, todump, size, due, dumped, failed, missed>>
avars  == <<platform, task, loop, lists, processLock, sample, disk, store>>

NoCommand == [cmd |-> "none"]
MonitorCommands == {NoCommand} \cup [cmd : {"loaded", "loaded_notrack"}]
            \cup [cmd : {"process"}, child : Pids]
            \cup [cmd : {"file_new", "file_del"}, path : Paths]
            \cup [cmd : {"file_move"}, path : Paths, to : Paths]

AnalyzerTypeOK ==
    /\ platform \in Platforms /\ task \in Tasks
    /\ main \in {"setup", "package", "trace", "tick", "locked", "scan", "gather", "empty",
                 "check", "finish", "terminate", "complete", "dump", "report", "over"}
    /\ ticks \in 0..task.timeout /\ pidCheck \in BOOLEAN /\ doRun \in BOOLEAN
    /\ pids \in Seq(Pids) /\ notrack \subseteq Pids /\ seen \subseteq Pids
    /\ cursor \in Nat /\ processLock \in Pids \cup {NoLock}
    /\ why \in {"", "timeout", "empty", "package", "stopped", "exception"}
    /\ report \in {"none", "complete", "exception"}
    /\ alive \subseteq Pids /\ suspended \subseteq Pids /\ monitored \subseteq Pids
    /\ known \subseteq Pids /\ promised \subseteq Pids
    /\ told \in [Pids -> MonitorCommands]
    /\ handler \in [Pids -> {"idle", "listed", "inject", "answer"}]
    /\ disk \in [Paths -> Contents \cup {NoFile}]
    /\ files \subseteq Paths /\ todump \subseteq Paths /\ size \in Nat /\ due \subseteq Paths
    /\ dumped \subseteq Contents /\ failed \subseteq Contents /\ missed \subseteq Contents

AnalyzerInit ==
    /\ platform \in Platforms /\ task \in Tasks /\ main = "setup" /\ ticks = 0
    /\ pidCheck = FALSE /\ doRun = TRUE /\ pids = << >> /\ notrack = {} /\ seen = {}
    /\ cursor = 1 /\ processLock = NoLock /\ why = "" /\ report = "none"
    /\ alive = {} /\ suspended = {} /\ monitored = {} /\ known = {} /\ promised = {}
    /\ told = [p \in Pids |-> NoCommand] /\ handler = [p \in Pids |-> "idle"]
    /\ disk = [f \in Paths |-> NoFile] /\ files = {}
    /\ todump = {} /\ size = 0 /\ due = {} /\ dumped = {} /\ failed = {} /\ missed = {}

-----------------------------------------------------------------------------
(* ProcessList and add_pids *)

Has(p) == p \in ToSet(pids) \cup notrack

AddPid(p, track) ==
    IF Has(p) THEN UNCHANGED <<pids, notrack>>
    ELSE IF track THEN pids' = Append(pids, p) /\ UNCHANGED notrack
    ELSE notrack' = notrack \cup {p} /\ UNCHANGED pids

RemovePid(p) == pids' = RemoveFirst(pids, p) /\ notrack' = notrack \ {p}

(* On Linux a pid is followed once only; the set is kept as a sequence. *)
AddPids(S) ==
    /\ pids' = pids \o SetToSeq(S \ seen) /\ seen' = seen \cup S
    /\ promised' = promised \cup ((S \ seen) \cap alive) /\ UNCHANGED notrack

-----------------------------------------------------------------------------
(* Files.  Uploading may fail, which is logged. *)

Upload(f) == \/ dumped' = dumped \cup {disk[f]} /\ UNCHANGED failed
             \/ failed' = failed \cup {disk[f]} /\ UNCHANGED dumped

(* Not what has been uploaded before, under whatever name. *)
DumpFile(f) == IF disk[f] = NoFile \/ disk[f] \in dumped THEN UNCHANGED <<dumped, failed>>
               ELSE Upload(f)

(* Darwin looks for the name of the hash function among the hashes: nothing is skipped. *)
DarwinUpload(f) == IF disk[f] = NoFile THEN UNCHANGED <<dumped, failed>> ELSE Upload(f)

-----------------------------------------------------------------------------
(* The main thread: run() *)

MainOnly == UNCHANGED <<platform, task, processLock, sample, disk, store>>

Raises == main' = "report" /\ why' = "exception"

(* prepare(), the choice of the package, its class, and the auxiliary modules: all that
   can be seen of them from outside is that run() raises, for one of many reasons. *)
SetUp(os) ==
    /\ main = "setup" /\ platform = os
    /\ \/ main' = "package" /\ UNCHANGED why
       \/ Raises
    /\ UNCHANGED <<ticks, pidCheck, doRun, cursor, report, lists>> /\ MainOnly

WindowsSetup == SetUp("windows")
LinuxSetup   == SetUp("linux")
AndroidSetup == SetUp("android")
DarwinSetup  == SetUp("darwin")

(* Process.execute: the process exists when it returns, with the monitor in it unless the
   option "free" is given. *)
Execute == /\ alive' = {FirstPid}
           /\ monitored' \in (IF platform = "windows" THEN {{}, {FirstPid}} ELSE {{}})

Started(track) ==
    /\ main' = "tick" /\ Execute /\ UNCHANGED why
    /\ IF track THEN pids' = <<FirstPid>> /\ promised' = {FirstPid}
       ELSE UNCHANGED <<pids, promised>>

NotStarted == Raises /\ UNCHANGED <<alive, monitored, pids, promised, pidCheck, seen>>

StartOnly == UNCHANGED <<platform, task, ticks, doRun, cursor, report, notrack, processLock,
                         suspended,
                         known, told, handler, disk, store>>

(* The package returns pids or none; enforce_timeout turns the check of them off. *)
WindowsStart ==
    /\ main = "package" /\ platform = "windows"
    /\ \/ \E track \in BOOLEAN, enforce \in BOOLEAN :
              Started(track) /\ pidCheck' = (track /\ ~enforce) /\ UNCHANGED seen
       \/ NotStarted
    /\ StartOnly

LinuxStart ==
    /\ main = "package" /\ platform = "linux"
    /\ \/ \E track \in BOOLEAN, enforce \in BOOLEAN :
              /\ Started(track) /\ pidCheck' = (track /\ ~enforce)
              /\ seen' = IF track THEN {FirstPid} ELSE {}
       \/ NotStarted
    /\ StartOnly

AndroidStart ==
    /\ main = "package" /\ platform = "android"
    /\ \/ Started(FALSE) /\ UNCHANGED <<pidCheck, seen>>
       \/ NotStarted
    /\ StartOnly

(* Darwin: start() is the whole analysis, until dtrace is done or the time is up. *)
DarwinStart ==
    /\ main = "package" /\ platform = "darwin" /\ main' = "trace" /\ Execute
    /\ UNCHANGED <<why, pidCheck, pids, promised, seen>> /\ StartOnly

DarwinEnd ==
    /\ main = "trace"
    /\ \/ main' = "complete" /\ why' = "package"
       \/ Raises
    /\ UNCHANGED <<ticks, pidCheck, doRun, cursor, report, lists>> /\ MainOnly

LeaveLoop(w) == main' = "finish" /\ why' = w

(* One more second, or the last one *)
Tock(next) == /\ ticks' = ticks + 1
              /\ IF ticks + 1 = task.timeout THEN LeaveLoop("timeout")
                 ELSE main' = next /\ UNCHANGED why

TickOnly == cursor' = 1 /\ UNCHANGED <<pidCheck, doRun, report, lists>> /\ MainOnly

WindowsTick ==
    /\ main = "tick" /\ platform = "windows"
    /\ \/ ~doRun /\ LeaveLoop("stopped") /\ UNCHANGED ticks
       \/ doRun /\ Tock("locked")
    /\ TickOnly

LinuxTick == /\ main = "tick" /\ platform = "linux"
             /\ Tock(IF pidCheck THEN "scan" ELSE "check") /\ TickOnly

AndroidTick == main = "tick" /\ platform = "android" /\ Tock("check") /\ TickOnly

(* Variant: the lock is waited for, as the handlers do. *)
LookAtLockTaking ==
    /\ main = "locked" /\ processLock = NoLock
    /\ main' = IF pidCheck THEN "scan" ELSE "check"
    /\ UNCHANGED <<ticks, pidCheck, doRun, cursor, why, report, lists>> /\ MainOnly

(* process_lock.locked(): looked at, not taken *)
LookAtLock ==
    /\ main = "locked"
    /\ main' = IF processLock # NoLock THEN "tick" ELSE IF pidCheck THEN "scan" ELSE "check"
    /\ UNCHANGED <<ticks, pidCheck, doRun, cursor, why, report, lists>> /\ MainOnly

ScanOnly == UNCHANGED <<ticks, pidCheck, doRun, why, report, seen, promised>> /\ MainOnly

(* The loop over the very list that it takes pids from: the one after a dead one is passed
   over until the next second. *)
WindowsScan ==
    /\ main = "scan" /\ platform = "windows"
    /\ IF cursor > Len(pids) THEN main' = "empty" /\ UNCHANGED <<cursor, pids, notrack>>
       ELSE /\ UNCHANGED main /\ cursor' = cursor + 1
            /\ IF pids[cursor] \in alive THEN UNCHANGED <<pids, notrack>>
               ELSE RemovePid(pids[cursor])
    /\ ScanOnly

(* The loop over a copy; PROCESS_LIST is a set. *)
LinuxScan ==
    /\ main = "scan" /\ platform = "linux" /\ main' = "gather"
    /\ pids' = SetToSeq(ToSet(pids) \cap alive)
    /\ UNCHANGED <<cursor, notrack>> /\ ScanOnly

(* pack.get_pids() and aux.get_pids() *)
Gather ==
    /\ main = "gather" /\ main' = "empty" /\ AddPids(known)
    /\ UNCHANGED <<ticks, pidCheck, doRun, cursor, why, report>> /\ MainOnly

CheckEmpty ==
    /\ main = "empty"
    /\ IF pids = << >> THEN LeaveLoop("empty") ELSE main' = "check" /\ UNCHANGED why
    /\ UNCHANGED <<ticks, pidCheck, doRun, cursor, report, lists>> /\ MainOnly

(* package.check(): an exception is as good as TRUE. *)
CheckPackage ==
    /\ main = "check"
    /\ \/ main' = "tick" /\ UNCHANGED why
       \/ LeaveLoop("package")
    /\ UNCHANGED <<ticks, pidCheck, doRun, cursor, report, lists>> /\ MainOnly

(* An auxiliary module calls Analyzer.stop(). *)
StopRequest ==
    /\ platform = "windows" /\ doRun /\ doRun' = FALSE
    /\ main \in {"tick", "locked", "scan", "empty", "check"}
    /\ UNCHANGED <<main, ticks, pidCheck, cursor, why, report, lists>> /\ MainOnly

(* package.finish(), the package's files, and the auxiliary modules: whatever they raise is
   logged.  terminate_processes is an option, which Android does not know. *)
Finish(os) ==
    /\ main = "finish" /\ platform = os
    /\ \/ main' = "complete"
       \/ main' = "terminate" /\ os # "android"
    /\ UNCHANGED <<ticks, pidCheck, doRun, cursor, why, report, lists>> /\ MainOnly

WindowsFinish == Finish("windows")
LinuxFinish   == Finish("linux")
AndroidFinish == Finish("android")

Terminate ==
    /\ main = "terminate" /\ main' = "complete" /\ alive' = alive \ ToSet(pids)
    /\ UNCHANGED <<platform, task, ticks, pidCheck, doRun, cursor, why, report, lists,
                   processLock, suspended,
                   monitored, known, told, handler, disk, store>>

(* complete(): the pipe's handlers go on meanwhile. *)
WindowsComplete ==
    /\ main = "complete" /\ platform \in {"windows", "darwin"}
    /\ main' = "dump" /\ todump' = files /\ size' = Cardinality(files) /\ due' = files
    /\ UNCHANGED <<platform, task, ticks, pidCheck, doRun, cursor, why, report, lists,
                   processLock, sample,
                   disk, files, dumped, failed, missed>>

(* Linux' dump_files does nothing yet, Android has none. *)
LinuxComplete ==
    /\ main = "complete" /\ platform \in {"linux", "android"} /\ main' = "report"
    /\ UNCHANGED <<ticks, pidCheck, doRun, cursor, why, report, lists>> /\ MainOnly

DumpOnly == UNCHANGED <<platform, task, ticks, pidCheck, doRun, cursor, report, lists,
                        processLock, sample,
                        disk, files, size, due, missed>>

(* for filepath in self.files: a dictionary that changes its size ends the loop with a
   RuntimeError; an entry that has gone is not met. *)
WindowsDump ==
    /\ main = "dump" /\ platform = "windows"
    /\ IF Cardinality(files) # size THEN Raises /\ UNCHANGED <<todump, dumped, failed>>
       ELSE IF todump \cap files = {} THEN main' = "report" /\ UNCHANGED <<why, todump,
                                                                           dumped, failed>>
       ELSE \E f \in todump \cap files :
                todump' = todump \ {f} /\ DumpFile(f) /\ UNCHANGED <<main, why>>
    /\ DumpOnly

DarwinDump ==
    /\ main = "dump" /\ platform = "darwin"
    /\ IF todump = {} THEN main' = "report" /\ UNCHANGED <<todump, dumped, failed>>
       ELSE \E f \in todump : todump' = todump \ {f} /\ DarwinUpload(f) /\ UNCHANGED main
    /\ UNCHANGED why /\ DumpOnly

(* XML-RPC first, and on Windows POST /status if the Agent is a new one *)
Complain ==
    /\ main = "report" /\ main' = "over"
    /\ report' = IF why = "exception" THEN "exception" ELSE "complete"
    /\ UNCHANGED <<ticks, pidCheck, doRun, cursor, why, lists>> /\ MainOnly

MainStep == \/ WindowsSetup \/ LinuxSetup \/ AndroidSetup \/ DarwinSetup
            \/ WindowsStart \/ LinuxStart \/ AndroidStart \/ DarwinStart \/ DarwinEnd
            \/ WindowsTick \/ LinuxTick \/ AndroidTick \/ LookAtLock \/ WindowsScan \/ LinuxScan
            \/ Gather \/ CheckEmpty \/ CheckPackage \/ WindowsFinish \/ LinuxFinish
            \/ AndroidFinish \/ Terminate
            \/ WindowsComplete \/ LinuxComplete \/ WindowsDump \/ DarwinDump \/ Complain

-----------------------------------------------------------------------------
(* CommandPipeHandler.dispatch, one thread for each process.  Exceptions and unknown
   commands are logged and answered. *)

Answering(p) == handler' = [handler EXCEPT ![p] = "answer"]

PipeOnly == UNCHANGED <<platform, task, loop, alive, suspended, known, told, disk>>

Received(p, cmds) == handler[p] = "idle" /\ told[p].cmd \in cmds

HandleLoaded(p) ==
    /\ Received(p, {"loaded", "loaded_notrack"})
    /\ processLock = NoLock
    /\ AddPid(p, told[p].cmd = "loaded") /\ Answering(p)
    /\ promised' = IF told[p].cmd = "loaded" /\ p \in alive \ notrack
                   THEN promised \cup {p} ELSE promised
    /\ UNCHANGED <<seen, processLock, store, monitored>> /\ PipeOnly

(* _inject_process: the lock is taken, *)
InjectLock(p) ==
    /\ Received(p, {"process"}) /\ processLock = NoLock
    /\ processLock' = p /\ handler' = [handler EXCEPT ![p] = "listed"]
    /\ UNCHANGED <<lists, store, monitored>> /\ PipeOnly

(* Variant: add_pid alone, which leaves a pid of the other list where it is. *)
FollowAdded(c) == AddPid(c, TRUE)

(* remove_pid, if it was in the list of those not tracked, and add_pid *)
Follow(c) ==
    IF c \in notrack THEN notrack' = notrack \ {c} /\ pids' = Append(pids, c)
                     ELSE AddPid(c, TRUE)

(* given back before the injection itself, which a process in one of the lists is spared, *)
Track(p) ==
    /\ handler[p] = "listed" /\ processLock = p /\ processLock' = NoLock
    /\ Follow(told[p].child) /\ promised' = promised \cup ({told[p].child} \cap alive)
    /\ handler' = [handler EXCEPT ![p] = IF Has(told[p].child) THEN "answer" ELSE "inject"]
    /\ UNCHANGED <<seen, store, monitored>> /\ PipeOnly

(* and Process.inject, which may fail. *)
Inject(p) ==
    /\ handler[p] = "inject" /\ Answering(p)
    /\ monitored' \in {monitored} \cup {monitored \cup ({told[p].child} \cap alive)}
    /\ UNCHANGED <<lists, processLock, store>> /\ PipeOnly

HandleFileNew(p) ==
    /\ Received(p, {"file_new"})
    /\ files' = files \cup {told[p].path} /\ Answering(p)
    /\ UNCHANGED <<lists, processLock, todump, size, due, dumped, failed, missed,
                   monitored>> /\ PipeOnly

(* Variant: the entry goes, the file is not uploaded. *)
DeleteFileUnsaved(f) == files' = files \ {f} /\ UNCHANGED <<dumped, failed>>

DeleteFile(f) == DumpFile(f) /\ files' = files \ {f}

HandleFileDel(p) ==
    /\ Received(p, {"file_del"})
    /\ DeleteFile(told[p].path) /\ due' = due \ {told[p].path} /\ Answering(p)
    /\ UNCHANGED <<lists, processLock, todump, size, missed, monitored>> /\ PipeOnly

Moved(old, new) == IF old \in files THEN (files \ {old}) \cup {new} ELSE files

HandleFileMove(p) ==
    /\ Received(p, {"file_move"})
    /\ files' = Moved(told[p].path, told[p].to)
    /\ due' = due \ {told[p].path, told[p].to} /\ Answering(p)
    /\ UNCHANGED <<lists, processLock, todump, size, dumped, failed, missed,
                   monitored>> /\ PipeOnly

Dispatcher(p) == \/ HandleLoaded(p) \/ InjectLock(p) \/ Track(p) \/ Inject(p)
                 \/ HandleFileNew(p) \/ HandleFileDel(p) \/ HandleFileMove(p)

-----------------------------------------------------------------------------
(* The sample and its monitor, as the analyzers know them.  On Windows a process announces
   what it does, if it has the monitor, and waits for the answer. *)

(* The machine is stopped once the Agent has been told. *)
SampleOnly == UNCHANGED <<platform, task, loop, lists, processLock>>

Free(p) == main # "over" /\ p \in alive \ suspended /\ told[p] = NoCommand

(* Nobody is about to do something to the path. *)
Quiet(f) == \A q \in Pids : told[q].cmd \in {"file_new", "file_del", "file_move"} =>
               /\ told[q].path # f
               /\ told[q].cmd = "file_move" => told[q].to # f

Tell(p, m) == /\ Free(p) /\ p \in monitored /\ told' = [told EXCEPT ![p] = m]
              /\ UNCHANGED <<monitored, known, handler, disk, store>> /\ SampleOnly

SampleAsks(p) ==
    /\ \/ /\ task.does = "lists"
          /\ \/ Tell(p, [cmd |-> "loaded"])
             \/ Tell(p, [cmd |-> "loaded_notrack"])
             \/ \E c \in alive \ (suspended \cup {p}) : Tell(p, [cmd |-> "process", child |-> c])
       \/ \E f \in files : /\ task.does = "files" /\ disk[f] # NoFile /\ Quiet(f)
                           /\ Tell(p, [cmd |-> "file_del", path |-> f])
       \/ \E f, g \in Paths : /\ task.does = "files" /\ disk[f] # NoFile /\ disk[g] = NoFile
                              /\ Quiet(f) /\ Quiet(g)
                              /\ Tell(p, [cmd |-> "file_move", path |-> f, to |-> g])
    /\ UNCHANGED <<alive, suspended>>

(* A child is created suspended; its pid may be one of a process that has been taken off
   the lists. *)
CreateChild(p) ==
    \E c \in Pids \ alive :
        /\ ~Has(c) /\ told[c] = NoCommand
        /\ alive' = alive \cup {c} /\ suspended' = suspended \cup {c}
        /\ Tell(p, [cmd |-> "process", child |-> c])

(* A new file is announced by its name alone, before there is much in it. *)
WriteFile(p) ==
    \E f \in Paths, c \in Contents :
        /\ Free(p) /\ task.does = "files" /\ disk[f] = NoFile /\ Quiet(f)
        /\ disk' = [disk EXCEPT ![f] = c]
        /\ told' = IF p \in monitored
                    THEN [told EXCEPT ![p] = [cmd |-> "file_new", path |-> f]] ELSE told
        /\ due' = due \ {f}
        /\ UNCHANGED <<alive, suspended, monitored, known, handler, files, todump, size, dumped,
                       failed, missed>> /\ SampleOnly

(* What a process does with the answer: the child runs, the file is deleted or moved. *)
Answer(p) ==
    /\ handler[p] = "answer"
    /\ handler' = [handler EXCEPT ![p] = "idle"] /\ told' = [told EXCEPT ![p] = NoCommand]
    /\ LET m == told[p]
           acts == p \in alive
           deletes == acts /\ m.cmd = "file_del" /\ disk[m.path] # NoFile
           moves == acts /\ m.cmd = "file_move" /\ disk[m.path] # NoFile /\ disk[m.to] = NoFile
       IN
       /\ suspended' = IF acts /\ m.cmd = "process" THEN suspended \ {m.child} ELSE suspended
       /\ disk' = IF deletes THEN [disk EXCEPT ![m.path] = NoFile]
                  ELSE IF moves THEN [disk EXCEPT ![m.path] = NoFile, ![m.to] = disk[m.path]]
                  ELSE disk
       /\ missed' = IF deletes THEN missed \cup ({disk[m.path]} \ (dumped \cup failed))
                               ELSE missed
       /\ due' = IF moves THEN due \ {m.to} ELSE due
    /\ UNCHANGED <<alive, monitored, known, files, todump, size, dumped, failed>> /\ SampleOnly

(* Linux: a child, which a tracer may come to see *)
Fork(p) ==
    /\ Free(p) /\ platform = "linux" /\ \E c \in Pids \ seen : alive' = alive \cup {c}
    /\ UNCHANGED <<suspended, monitored, known, told, handler, disk, store>> /\ SampleOnly

TracerSees ==
    /\ platform = "linux" /\ known # alive \cup known /\ known' = known \cup alive
    /\ UNCHANGED <<alive, suspended, monitored, told, handler, disk, store>> /\ SampleOnly

(* Darwin: handle_files, of what dtrace shows *)
OpenFile(f)    == files' = files \cup {f}
CopyFile(f, g) == files' = files \cup {f, g}
MoveFile(f, g) == files' = (files \ {f}) \cup {g}

HandleFiles(p) ==
    /\ Free(p) /\ main = "trace"
    /\ \E f, g \in Paths :
          \/ \E c \in Contents : disk' = [disk EXCEPT ![f] = c] /\ OpenFile(f)
          \/ /\ f # g /\ disk[f] # NoFile
             /\ disk' = [disk EXCEPT ![f] = NoFile, ![g] = disk[f]] /\ MoveFile(f, g)
          \/ disk[f] # NoFile /\ disk' = [disk EXCEPT ![g] = disk[f]] /\ CopyFile(f, g)
          \/ disk[f] # NoFile /\ disk' = [disk EXCEPT ![f] = NoFile] /\ OpenFile(f)
    /\ UNCHANGED <<sample, todump, size, due, dumped, failed, missed>> /\ SampleOnly

(* A process ends, also while one of its threads waits for an answer. *)
Exit(p) ==
    /\ main # "over" /\ p \in alive \ suspended /\ task.does = "lists"
    /\ alive' = alive \ {p}
    /\ monitored' = monitored \ {p} /\ promised' = promised \ {p}
    /\ UNCHANGED <<platform, task, loop, pids, notrack, seen, processLock, suspended, known,
                   told, handler, disk, store>>

SampleStep(p) == \/ SampleAsks(p) \/ CreateChild(p) \/ Answer(p) \/ Fork(p) \/ Exit(p)
                 \/ platform = "windows" /\ WriteFile(p)
                 \/ HandleFiles(p)

AnalyzerNext == \/ MainStep \/ StopRequest \/ TracerSees
                \/ \E p \in Pids : Dispatcher(p) \/ SampleStep(p)

AnalyzerSpec == AnalyzerInit /\ [][AnalyzerNext]_avars

(* Threads are scheduled; the sample does what it likes. *)
AnalyzerFair == WF_avars(MainStep) /\ \A p \in Pids : WF_avars(Dispatcher(p))

-----------------------------------------------------------------------------
InLoop == main \in {"tick", "locked", "scan", "gather", "empty", "check"}

(* As long as the analysis goes on, a process the analyzer agreed to follow is in its lists
   while it lives, though handlers in several threads move pids between the two lists while
   the main loop takes them out. *)
Followed == InLoop => \A p \in promised \cap alive : p \in ToSet(pids)

(* No file the analyzer was told of is lost, unless its upload failed: what is deleted was
   uploaded before, and the Agent does not hear "complete" before the upload of what was
   listed at the end and has been left alone since. *)
FilesSaved ==
    /\ missed = {}
    /\ report = "complete" => \A f \in due : disk[f] \in dumped \cup failed \cup {NoFile}

(* The Agent always hears from the analyzer, at the latest after the timeout and in spite
   of a busy process_lock. *)
Reports == [](main # "over" => <>(report # "none"))
=============================================================================
