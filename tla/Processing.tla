----------------------------- MODULE Processing -----------------------------
(***************************************************************************)
(* The programs that turn completed analyses into reports, outside of the  *)
(* main process: utils/process.py in its mode "auto" - one main loop, a    *)
(* pool of workers, and a window over the completed tasks that skips as    *)
(* many rows as are pending - and utils/process2.py, whose instances claim *)
(* one row each by the column `processing`.  Both work on the table        *)
(* `tasks`, which the scheduler, the API and the import of the web         *)
(* interface change meanwhile.                                             *)
(*                                                                         *)
(* A call of the database is a step; so is a pass of the main loop between *)
(* two such calls.                                                         *)
(***************************************************************************)
EXTENDS Naturals, FiniteSets

CONSTANTS
    MaxTasks,        \* bound: rows of the table
    MaxDeaths,       \* bound: how many workers or instances die
    MaxOthers,       \* bound: how often others delete, reschedule or import
    Instances,       \* the processes of process2.py
    NoInstance,
    MaxCount,        \* max_analysis_count; 0: no limit
    QueueThreshold,  \* QUEUE_THRESHOLD
    Calls            \* what others do: "delete", "reschedule", "import"

ASSUME ProcessingAssumption ==
    /\ MaxTasks \in Nat /\ MaxDeaths \in Nat /\ MaxOthers \in Nat /\ MaxCount \in Nat
    /\ QueueThreshold \in Nat \ {0}
    /\ NoInstance \notin Instances
    /\ Calls \subseteq {"delete", "reschedule", "import"}

Tasks  == 1..MaxTasks
NoTask == 0

VARIABLES
    program,      \* which of the two programs runs
    status,       \* tasks.status
    completed_on, \* tasks.completed_on; 0: never
    clock,        \* what datetime.now() returned last
    stamps,       \* the calls of set_status that have their time and no commit yet
    late,         \* whether a task was committed with a time not after that of a listed one
    processing,   \* tasks.processing
    apc,          \* autoprocess: where the main loop is
    pending,      \* autoprocess: pending_results, the tasks with an AsyncResult
    todo,         \* autoprocess: items of pending_results the loop has still to look at
    batch,        \* autoprocess: the new tasks that are not submitted yet
    count,        \* autoprocess: tasks done
    result,       \* task -> its AsyncResult, or where its instance is with it
    claim,        \* process2: instance -> the task it works on
    stopped,      \* process2: the instances whose loop has ended
    analysing,    \* the tasks with an analysis thread
    importing,    \* the tasks an import is extracting
    others,       \* how often others deleted, rescheduled or imported
    lost,         \* the tasks whose worker or instance died over them
    disturbed,    \* the tasks whose rows others changed after a program took them
    deaths        \* how many workers and instances died

timeVars  == <<completed_on, clock, stamps, late>>
tableVars == <<status, timeVars, processing>>
otherVars == <<analysing, importing, others>>
autoVars  == <<apc, pending, todo, batch, count>>
instVars  == <<claim, stopped>>
faultVars == <<lost, deaths>>
vars == <<program, tableVars, autoVars, instVars, result, otherVars, faultVars,
          disturbed>>

Statuses == {"unused", "pending", "running", "completed", "reported", "recovered",
             "failed_processing", "deleted"}
Results  == {"none", "working", "ok", "failed"}

(* set_status(completed) as a thread of Cuckoo or the web interface calls it *)
Stamps == [task : Tasks, by : {"thread", "import"}, time : Nat \ {0}]

TypeOK ==
    /\ program \in {"process", "process2"}
    /\ status \in [Tasks -> Statuses]
    /\ completed_on \in [Tasks -> Nat] /\ clock \in Nat
    /\ stamps \subseteq Stamps /\ late \in BOOLEAN
    /\ processing \in [Tasks -> Instances \cup {NoInstance}]
    /\ apc \in {"maintain", "query", "submit", "ended", "dead"}
    /\ pending \subseteq Tasks /\ todo \subseteq Tasks /\ batch \subseteq Tasks
    /\ count \in Nat
    /\ result \in [Tasks -> Results]
    /\ claim \in [Instances -> Tasks \cup {NoTask}]
    /\ stopped \subseteq Instances
    /\ analysing \subseteq Tasks /\ importing \subseteq Tasks /\ others \in 0..MaxOthers
    /\ lost \subseteq Tasks /\ disturbed \subseteq Tasks
    /\ deaths \in 0..MaxDeaths

-----------------------------------------------------------------------------
(* Database *)

(* set_status: returns without a change when the row is gone. *)
SetStatus(t, s) ==
    status' = [status EXCEPT ![t] = IF @ = "deleted" THEN @ ELSE s]

(* status=completed, order_by=completed_on.  Rows with one time come in any order,
   in another one each time: FirstRows are the sets the first n rows may be. *)
Completed == {t \in Tasks : status[t] = "completed"}

Least(a, b) == IF a < b THEN a ELSE b

Foremost(S, T) == \A t \in S, u \in T \ S : completed_on[t] <= completed_on[u]

FirstRows(n) ==
    {S \in SUBSET Completed : /\ Cardinality(S) = Least(n, Cardinality(Completed))
                              /\ Foremost(S, Completed)}

(* Variant: one row too many is skipped. *)
ListTasksAfter(offset, limit) ==
    {S \in SUBSET Completed :
        \E P \in FirstRows(offset + 1) :
            P \cap S = {} /\ P \cup S \in FirstRows(offset + 1 + limit)}

(* What a query with this offset and limit may return *)
ListTasks(offset, limit) ==
    {S \in SUBSET Completed :
        \E P \in FirstRows(offset) :
            P \cap S = {} /\ P \cup S \in FirstRows(offset + limit)}

Init ==
    /\ program \in {"process", "process2"}
    /\ status = [t \in Tasks |-> "unused"]
    /\ completed_on = [t \in Tasks |-> 0] /\ clock = 0 /\ stamps = {} /\ late = FALSE
    /\ processing = [t \in Tasks |-> NoInstance]
    /\ apc = "maintain" /\ pending = {} /\ todo = {} /\ batch = {} /\ count = 0
    /\ result = [t \in Tasks |-> "none"]
    /\ claim = [i \in Instances |-> NoTask] /\ stopped = {}
    /\ analysing = {} /\ importing = {} /\ others = 0
    /\ lost = {} /\ disturbed = {} /\ deaths = 0

-----------------------------------------------------------------------------
(* process.py: one pass of `while True` of autoprocess *)

(* Variant: the entry leaves the list and the status is not written. *)
ReapUnwritten(t) ==
    /\ apc = "maintain" /\ t \in todo
    /\ result[t] \in {"ok", "failed"}
    /\ pending' = pending \ {t}
    /\ todo' = todo \ {t}
    /\ count' = count + 1
    /\ result' = [result EXCEPT ![t] = "none"]
    /\ UNCHANGED <<program, tableVars, apc, batch, instVars, otherVars, faultVars,
                   disturbed>>

(* for tid, ar in pending_results.items(): a result that is ready is stored in
   the table before it leaves the list.  Items are looked at in any order. *)
ReapReady(t) ==
    /\ apc = "maintain" /\ t \in todo
    /\ result[t] \in {"ok", "failed"}
    /\ SetStatus(t, IF result[t] = "ok" THEN "reported" ELSE "failed_processing")
    /\ pending' = pending \ {t}
    /\ todo' = todo \ {t}
    /\ count' = count + 1
    /\ result' = [result EXCEPT ![t] = "none"]
    /\ UNCHANGED <<program, timeVars, processing, apc, batch, instVars, otherVars,
                   faultVars, disturbed>>

SkipUnready(t) ==
    /\ apc = "maintain" /\ t \in todo
    /\ result[t] = "working"
    /\ todo' = todo \ {t}
    /\ UNCHANGED <<program, tableVars, apc, pending, batch, count, instVars, result,
                   otherVars, faultVars, disturbed>>

(* The checks between maintenance and query: enough is pending, the maximum is
   done, or the maximum is done with what is pending. *)
Full    == Cardinality(pending) >= QueueThreshold
Reached == MaxCount > 0 /\ count = MaxCount
Enough  == MaxCount > 0 /\ count + Cardinality(pending) = MaxCount

Decide ==
    /\ program = "process" /\ apc = "maintain" /\ todo = {}
    /\ IF ~Full /\ Reached     THEN apc' = "ended" /\ UNCHANGED todo
       ELSE IF Full \/ Enough  THEN apc' = "maintain" /\ todo' = pending
                               ELSE apc' = "query" /\ UNCHANGED todo
    /\ UNCHANGED <<program, tableVars, pending, batch, count, instVars, result,
                   otherVars, faultVars, disturbed>>

Limit == IF MaxCount > 0
         THEN Least(MaxCount - count - Cardinality(pending), QueueThreshold)
         ELSE QueueThreshold

(* the next rows after those that are pending *)
Query ==
    /\ apc = "query"
    /\ batch' \in ListTasks(Cardinality(pending), Limit)
    /\ IF batch' = {} THEN apc' = "maintain" /\ todo' = pending
                      ELSE apc' = "submit" /\ UNCHANGED todo
    /\ UNCHANGED <<program, tableVars, pending, count, instVars, result, otherVars,
                   faultVars, disturbed>>

(* "assert task.id not in pending_results", then pool.apply_async; the assertion
   ends in the outermost except, and with it the program.  The list is in the order
   in which its rows had completed when it was made. *)
Submit(t) ==
    /\ apc = "submit" /\ t \in batch
    /\ Foremost({t}, batch) \/ disturbed # {}
    /\ IF t \in pending
       THEN /\ apc' = "dead"
            /\ UNCHANGED <<pending, todo, batch, result>>
       ELSE /\ pending' = pending \cup {t}
            /\ result' = [result EXCEPT ![t] = "working"]
            /\ batch' = batch \ {t}
            /\ IF batch' = {} THEN apc' = "maintain" /\ todo' = pending'
                              ELSE UNCHANGED <<apc, todo>>
    /\ UNCHANGED <<program, tableVars, count, instVars, otherVars, faultVars,
                   disturbed>>

(* process_wrapper in a worker: RunProcessing, RunSignatures, RunReporting, then
   the originals are removed; an exception becomes the result.  The workers go
   on when the main loop is dead, as the pool is not terminated. *)
WorkerDone(t) ==
    /\ program = "process" /\ result[t] = "working" /\ t \notin lost
    /\ \E r \in {"ok", "failed"} : result' = [result EXCEPT ![t] = r]
    /\ UNCHANGED <<program, tableVars, autoVars, instVars, otherVars, faultVars,
                   disturbed>>

(* A worker that dies is replaced by the pool, its task is not: the AsyncResult
   never becomes ready. *)
WorkerDies(t) ==
    /\ program = "process" /\ deaths < MaxDeaths
    /\ result[t] = "working" /\ t \notin lost
    /\ lost' = lost \cup {t} /\ deaths' = deaths + 1
    /\ UNCHANGED <<program, tableVars, autoVars, instVars, result, otherVars,
                   disturbed>>

-----------------------------------------------------------------------------
(* process2.py: the loop of instance().  Its `count` is never incremented, so
   max_analysis_count does not end it. *)

(* processing_get_task: UPDATE ... WHERE id IN (SELECT ... FOR UPDATE) RETURNING;
   finding nothing is a stutter.  Variant: without "processing IS NULL". *)
ClaimableByAnyone(t) == status[t] = "completed"

Claimable(t) == status[t] = "completed" /\ processing[t] = NoInstance

Claim(i, t) ==
    /\ program = "process2" /\ i \notin stopped /\ claim[i] = NoTask
    /\ Claimable(t)
    /\ processing' = [processing EXCEPT ![t] = i]
    /\ claim' = [claim EXCEPT ![i] = t]
    /\ result' = [result EXCEPT ![t] = "none"]
    /\ UNCHANGED <<program, status, timeVars, autoVars, stopped, otherVars, faultVars,
                   disturbed>>

(* view_task; when the row is gone, `task.id` raises outside of the inner try
   and the instance ends. *)
ViewTask(i) ==
    /\ claim[i] # NoTask /\ result[claim[i]] = "none" /\ i \notin stopped
    /\ IF status[claim[i]] = "deleted"
       THEN /\ stopped' = stopped \cup {i}
            /\ UNCHANGED result
       ELSE /\ result' = [result EXCEPT ![claim[i]] = "working"]
            /\ UNCHANGED stopped
    /\ UNCHANGED <<program, tableVars, autoVars, claim, otherVars, faultVars,
                   disturbed>>

(* process() *)
InstanceDone(i) ==
    /\ claim[i] # NoTask /\ result[claim[i]] = "working" /\ i \notin stopped
    /\ \E r \in {"ok", "failed"} : result' = [result EXCEPT ![claim[i]] = r]
    /\ UNCHANGED <<program, tableVars, autoVars, instVars, otherVars, faultVars,
                   disturbed>>

StoreStatus(i) ==
    /\ claim[i] # NoTask /\ result[claim[i]] \in {"ok", "failed"} /\ i \notin stopped
    /\ SetStatus(claim[i], IF result[claim[i]] = "ok" THEN "reported"
                                                      ELSE "failed_processing")
    /\ claim' = [claim EXCEPT ![i] = NoTask]
    /\ result' = [result EXCEPT ![claim[i]] = "none"]
    /\ UNCHANGED <<program, timeVars, processing, autoVars, stopped, otherVars,
                   faultVars, disturbed>>

(* An instance dies and is started again under its name; what it had claimed
   stays claimed. *)
InstanceDies(i) ==
    /\ deaths < MaxDeaths /\ claim[i] # NoTask /\ i \notin stopped
    /\ claim' = [claim EXCEPT ![i] = NoTask]
    /\ result' = [result EXCEPT ![claim[i]] = "none"]
    /\ lost' = lost \cup {claim[i]} /\ deaths' = deaths + 1
    /\ UNCHANGED <<program, tableVars, autoVars, stopped, otherVars, disturbed>>

-----------------------------------------------------------------------------
(* The others *)

IsNextId(t) == status[t] = "unused" /\ \A u \in 1..(t - 1) : status[u] # "unused"

(* The rows the two programs have taken; those of process2 stay claimed. *)
Taken(t) == t \in pending \cup batch \/ processing[t] # NoInstance

(* set_status(completed), whatever the row says.  It loads the row - when that is
   gone it does nothing - and takes the time, which may be that of the call before;
   the lock of Database keeps the threads of Cuckoo apart, other processes have
   their own ... *)
Stamp(t, by) ==
    /\ by = "thread" => \A c \in stamps : c.by # by
    /\ IF status[t] = "deleted"
       THEN UNCHANGED <<clock, stamps>>
       ELSE \E now \in IF program = "process" THEN {clock, clock + 1} \ {0} ELSE {1} :
               /\ clock' = now
               /\ stamps' = stamps \cup {[task |-> t, by |-> by, time |-> now]}
    /\ UNCHANGED <<program, status, completed_on, late, processing, autoVars, instVars,
                   result, others, faultVars, disturbed>>

(* ... and commits, when later calls may have committed before. *)
Complete(c) ==
    /\ c \in stamps /\ stamps' = stamps \ {c}
    /\ SetStatus(c.task, "completed")
    /\ IF status[c.task] = "deleted"
       THEN UNCHANGED <<completed_on, late, disturbed>>
       ELSE /\ completed_on' = [completed_on EXCEPT ![c.task] = c.time]
            /\ disturbed' = IF Taken(c.task) THEN disturbed \cup {c.task} ELSE disturbed
            /\ late' = (late \/ \E u \in Completed \ {c.task} : completed_on[u] >= c.time)
    /\ UNCHANGED <<program, clock, processing, autoVars, instVars, result, otherVars,
                   faultVars>>

(* the scheduler: an analysis starts and ends *)
Analyse(t) ==
    /\ IsNextId(t) \/ status[t] = "pending"
    /\ status' = [status EXCEPT ![t] = "running"]
    /\ analysing' = analysing \cup {t}
    /\ UNCHANGED <<program, timeVars, processing, autoVars, instVars, result, importing,
                   others, faultVars, disturbed>>

Analysed(t) ==
    /\ t \in analysing /\ Stamp(t, "thread")
    /\ analysing' = analysing \ {t} /\ UNCHANGED importing

(* The import of the web interface adds the task as any other, so that it is
   pending and may be fetched, extracts the results and sets it to completed. *)
ImportAdd(t) ==
    /\ "import" \in Calls /\ IsNextId(t)
    /\ others < MaxOthers /\ others' = others + 1
    /\ status' = [status EXCEPT ![t] = "pending"]
    /\ importing' = importing \cup {t}
    /\ UNCHANGED <<program, timeVars, processing, autoVars, instVars, result, analysing,
                   faultVars, disturbed>>

ImportDone(t) ==
    /\ t \in importing /\ Stamp(t, "import")
    /\ importing' = importing \ {t} /\ UNCHANGED analysing

(* tasks_delete refuses running tasks only; tasks_reschedule none. *)
TakeAway(t, s) ==
    /\ others < MaxOthers /\ others' = others + 1
    /\ status[t] \notin {"unused", "deleted", s}
    /\ status' = [status EXCEPT ![t] = s]
    /\ disturbed' = IF Taken(t) THEN disturbed \cup {t} ELSE disturbed
    /\ UNCHANGED <<program, timeVars, processing, autoVars, instVars, result, analysing,
                   importing, faultVars>>

Delete(t) ==
    /\ "delete" \in Calls /\ status[t] # "running"
    /\ TakeAway(t, "deleted")

Reschedule(t) ==
    /\ "reschedule" \in Calls
    /\ TakeAway(t, "recovered")

AutoProcess == \/ Decide \/ Query
               \/ \E t \in Tasks : ReapReady(t) \/ SkipUnready(t) \/ Submit(t)
Instance(i) == \/ ViewTask(i) \/ InstanceDone(i) \/ StoreStatus(i)
               \/ \E t \in Tasks : Claim(i, t)
Others(t) == \/ Analyse(t) \/ Analysed(t) \/ ImportAdd(t) \/ ImportDone(t)
             \/ Delete(t) \/ Reschedule(t)

Next == \/ AutoProcess
        \/ \E t \in Tasks : WorkerDone(t) \/ WorkerDies(t) \/ Others(t)
        \/ \E c \in stamps : Complete(c)
        \/ \E i \in Instances : Instance(i) \/ InstanceDies(i)

Spec == Init /\ [][Next]_vars

(* The main loop, the workers and the instances are processes of their own; a
   loop that sleeps looks again. *)
FairSpec == /\ Spec
            /\ WF_vars(AutoProcess)
            /\ \A t \in Tasks : WF_vars(WorkerDone(t))
            /\ \A i \in Instances : WF_vars(Instance(i))

-----------------------------------------------------------------------------
(* The window: the rows that list_tasks is told to skip are the pending tasks and no
   others, in whatever order the database lists rows with one time (process.py: "it
   is guaranteed that we skip over all of the pending tasks in the database and no
   further") - as long as nobody changes the rows of pending tasks and the tasks are
   committed in the order of their times, no two at one.  Neither is for process.py
   to ensure: what set_status calls of other processes make of it is in README.md. *)
SkipsPending ==
    program = "process" /\ disturbed = {} /\ ~late =>
        FirstRows(Cardinality(pending)) = {pending}

(* Nobody starts on a task whose result is in the table already, or that a worker
   or an instance died over; by process.py unless the rows changed under it. *)
NeverProcessedTwice ==
    [][\A t \in Tasks :
          /\ result[t] # "working" /\ result'[t] = "working"
          /\ program = "process2" \/ disturbed = {}
          => status[t] \notin {"reported", "failed_processing"} /\ t \notin lost]_vars

(* Every completed task is processed in the end - unless a worker or an instance
   died over it, the dead fill the window or the maximum, others changed the rows, or
   the program has ended. *)
Ended == \/ program = "process" /\ apc \in {"ended", "dead"}
         \/ program = "process2" /\ stopped = Instances

Handled ==
    \A t \in Tasks :
        status[t] = "completed" ~> \/ status[t] # "completed"
                                  \/ t \in lost \/ Cardinality(lost) >= QueueThreshold
                                  \/ (lost # {} /\ Enough)
                                  \/ t \in disturbed \/ Ended
                                  \/ (program = "process" /\ disturbed # {})

=============================================================================
