---------------------------- MODULE Distributed ----------------------------
(***************************************************************************)
(* Distributed Cuckoo (distributed/): a table of tasks of its own, the     *)
(* process "dist.scheduler" that assigns them to nodes, one worker process *)
(* per node that submits, fetches reports and deletes over the node's REST *)
(* API, and the REST API that clients use meanwhile.                       *)
(*                                                                         *)
(* The programs keep changes in an SQLAlchemy session until they commit.   *)
(* A step is one request to a node, one load of rows or one commit; what a *)
(* session holds is gone when its process dies.  A node's task ids are the *)
(* positions in its task table, and start again when it is set up anew.    *)
(***************************************************************************)
EXTENDS Naturals, Sequences, FiniteSets

CONSTANTS
    MaxTasks,      \* bound: rows of the table
    Nodes, NoNode,
    Threshold,     \* settings.threshold
    MaxFaults,     \* bound: workers that die and nodes that are set up anew
    MaxDeletes     \* bound: how often clients delete a task

ASSUME DistributedAssumption ==
    /\ MaxTasks \in Nat /\ MaxFaults \in Nat /\ MaxDeletes \in Nat
    /\ NoNode \notin Nodes /\ Threshold \in Nat \ {0}

Tasks  == 1..MaxTasks
NoTask == 0
NoId   == 0

VARIABLES
    status, node, taskId,  \* Task.status, node_id, task_id as committed
    samples,     \* the tasks whose file exists
    report,      \* task -> the task whose analysis its stored report describes
    enabled,     \* the nodes with Node.enabled
    remote,      \* node -> its task table
    spc, picked, \* scheduler: where it is, the node; the tasks it has loaded
    wpc,         \* node -> where its worker is
    toSubmit,    \* node -> tasks loaded and not submitted yet
    sent,        \* node -> task -> task_id in the session
    toFetch,     \* node -> ids of the reported tasks still to be fetched
    fetched,     \* node -> tasks set to finished in the session
    del,         \* task -> what the view task_delete does to the row it has loaded
    unlinked,    \* the deletions that have removed the files
    deletes,     \* how many deletions clients have asked for
    deaths, resets,
    cut          \* whether a worker ended over a report whose task was gone

rowVars    == <<status, node, taskId>>
fileVars   == <<samples, report>>
schedVars  == <<spc, picked>>
workerVars == <<wpc, toSubmit, sent, toFetch, fetched>>
delVars    == <<del, unlinked, deletes>>
faultVars  == <<deaths, resets, cut>>
vars == <<rowVars, fileVars, enabled, remote, schedVars, workerVars, delVars, faultVars>>

Statuses == {"unused", "pending", "assigned", "processing", "finished", "deleted", "gone"}

(* A row of a node's task table: the distributed task that was submitted, and
   whether the node still has work with it. *)
Remote == [task : Tasks, state : {"pending", "reported", "failed", "deleted"}]

TypeOK ==
    /\ status \in [Tasks -> Statuses]
    /\ node \in [Tasks -> Nodes \cup {NoNode}]
    /\ taskId \in [Tasks -> Nat]
    /\ samples \subseteq Tasks
    /\ report \in [Tasks -> Tasks \cup {NoTask}]
    /\ enabled \subseteq Nodes
    /\ remote \in [Nodes -> Seq(Remote)]
    /\ spc \in Nodes \cup {"idle", "dead"}
    /\ picked \subseteq Tasks
    /\ wpc \in [Nodes -> {"status", "submit", "fetch", "reports", "dead"}]
    /\ toSubmit \in [Nodes -> SUBSET Tasks]
    /\ sent \in [Nodes -> [Tasks -> Nat]]
    /\ toFetch \in [Nodes -> SUBSET Nat]
    /\ fetched \in [Nodes -> SUBSET Tasks]
    /\ del \in [Tasks -> {"none", "remove", "mark", "keep"}] /\ unlinked \subseteq Tasks
    /\ deletes \in 0..MaxDeletes
    /\ deaths \in 0..MaxFaults /\ resets \in 0..MaxFaults /\ cut \in BOOLEAN

Init ==
    /\ status = [t \in Tasks |-> "unused"] /\ node = [t \in Tasks |-> NoNode]
    /\ taskId = [t \in Tasks |-> NoId]
    /\ samples = {} /\ report = [t \in Tasks |-> NoTask]
    /\ enabled = {} /\ remote = [n \in Nodes |-> <<>>]
    /\ spc = "idle" /\ picked = {}
    /\ wpc = [n \in Nodes |-> "status"]
    /\ toSubmit = [n \in Nodes |-> {}]
    /\ sent = [n \in Nodes |-> [t \in Tasks |-> NoId]]
    /\ toFetch = [n \in Nodes |-> {}] /\ fetched = [n \in Nodes |-> {}]
    /\ del = [t \in Tasks |-> "none"] /\ unlinked = {} /\ deletes = 0
    /\ deaths = 0 /\ resets = 0 /\ cut = FALSE

-----------------------------------------------------------------------------
(* The nodes, as their REST API shows them *)

Ids(n, state) == {i \in DOMAIN remote[n] : remote[n][i].state = state}

(* node_status(url)["tasks"]["pending"] < settings.threshold *)
HasRoom(n) == Cardinality(Ids(n, "pending")) < Threshold

(* tasks/delete on the node *)
DeleteRemote(n, i) ==
    remote' = [remote EXCEPT ![n] = [@ EXCEPT ![i].state = "deleted"]]

(* rows.limit(settings.threshold) *)
Limited(S, rows) ==
    S \subseteq rows /\ Cardinality(S) = IF Cardinality(rows) < Threshold
                                         THEN Cardinality(rows) ELSE Threshold

Analyse(n) ==
    /\ \E i \in Ids(n, "pending"), s \in {"reported", "failed"} :
           remote' = [remote EXCEPT ![n] = [@ EXCEPT ![i].state = s]]
    /\ UNCHANGED <<rowVars, fileVars, enabled, schedVars, workerVars, delVars, faultVars>>

(* The node is set up anew: it forgets its tasks and counts from 1 again. *)
Reset(n) ==
    /\ deaths + resets < MaxFaults /\ resets' = resets + 1
    /\ remote' = [remote EXCEPT ![n] = <<>>]
    /\ UNCHANGED <<rowVars, fileVars, enabled, schedVars, workerVars, delVars, deaths, cut>>

-----------------------------------------------------------------------------
(* instance.scheduler() *)

Pending == {t \in Tasks : status[t] = "pending"}

(* A node that is enabled and answers, and the tasks it gets; the rows are
   changed in the session only. *)
Schedule(n) ==
    /\ spc = "idle" /\ n \in enabled
    /\ HasRoom(n)
    /\ Pending # {}
    /\ spc' = n
    /\ \E S \in SUBSET Pending : Limited(S, Pending) /\ picked' = S
    /\ UNCHANGED <<rowVars, fileVars, enabled, remote, workerVars, delVars, faultVars>>

(* session.commit(): an UPDATE per row; a row that is not there any more raises
   StaleDataError, which nobody catches. *)
Assign ==
    /\ spc \in Nodes
    /\ IF \E t \in picked : status[t] = "gone"
       THEN /\ spc' = "dead"
            /\ UNCHANGED rowVars
       ELSE /\ status' = [t \in Tasks |-> IF t \in picked THEN "assigned" ELSE status[t]]
            /\ node' = [t \in Tasks |-> IF t \in picked THEN spc ELSE node[t]]
            /\ spc' = "idle"
            /\ UNCHANGED taskId
    /\ picked' = {}
    /\ UNCHANGED <<fileVars, enabled, remote, workerVars, delVars, faultVars>>

-----------------------------------------------------------------------------
(* instance.handle_node(n) *)

(* Variant: whatever their status. *)
AssignedEver(n) == {t \in Tasks : status[t] # "unused" /\ node[t] = n}

Assigned(n) == {t \in Tasks : status[t] = "assigned" /\ node[t] = n}

(* node_status, then the tasks assigned to this node: by priority, so that any of
   them may come first. *)
Load(n) ==
    /\ wpc[n] = "status"
    /\ \E S \in SUBSET Assigned(n) :
           /\ IF HasRoom(n) THEN Limited(S, Assigned(n)) ELSE S = {}
           /\ toSubmit' = [toSubmit EXCEPT ![n] = S]
    /\ wpc' = [wpc EXCEPT ![n] = "submit"]
    /\ UNCHANGED <<rowVars, fileVars, enabled, remote, schedVars, sent, toFetch,
                   fetched, delVars, faultVars>>

(* What the death of the worker leaves: nothing of its session. *)
Die(n) ==
    /\ wpc' = [wpc EXCEPT ![n] = "dead"]
    /\ toSubmit' = [toSubmit EXCEPT ![n] = {}]
    /\ sent' = [sent EXCEPT ![n] = [t \in Tasks |-> NoId]]
    /\ toFetch' = [toFetch EXCEPT ![n] = {}]
    /\ fetched' = [fetched EXCEPT ![n] = {}]

(* submit_task: without the file it returns a pair, which no INTEGER column
   takes; the commit will fail. *)
NotAnId == 1000

SubmitTask(n, t) ==
    /\ wpc[n] = "submit" /\ t \in toSubmit[n]
    /\ toSubmit' = [toSubmit EXCEPT ![n] = @ \ {t}]
    /\ IF t \in samples
       THEN /\ remote' = [remote EXCEPT ![n] = Append(@, [task |-> t, state |-> "pending"])]
            /\ sent' = [sent EXCEPT ![n][t] = Len(remote[n]) + 1]
       ELSE /\ sent' = [sent EXCEPT ![n][t] = NotAnId]
            /\ UNCHANGED remote
    /\ UNCHANGED <<rowVars, fileVars, enabled, schedVars, wpc, toFetch, fetched, delVars,
                   faultVars>>

(* session.commit() after the submissions; it writes "processing" over whatever
   the status has become since the rows were loaded. *)
SubmitCommit(n) ==
    /\ wpc[n] = "submit" /\ toSubmit[n] = {}
    /\ LET S == {t \in Tasks : sent[n][t] # NoId} IN
       IF \E t \in S : sent[n][t] = NotAnId \/ status[t] = "gone"
       THEN Die(n) /\ UNCHANGED rowVars
       ELSE /\ status' = [t \in Tasks |-> IF t \in S THEN "processing" ELSE status[t]]
            /\ taskId' = [t \in Tasks |-> IF t \in S THEN sent[n][t] ELSE taskId[t]]
            /\ sent' = [sent EXCEPT ![n] = [t \in Tasks |-> NoId]]
            /\ wpc' = [wpc EXCEPT ![n] = "fetch"]
            /\ UNCHANGED <<node, toSubmit, toFetch, fetched>>
    /\ UNCHANGED <<fileVars, enabled, remote, schedVars, delVars, faultVars>>

(* fetch_tasks(node.url, status="reported")[:settings.threshold] *)
FetchTasks(n) ==
    /\ wpc[n] = "fetch"
    /\ \E S \in SUBSET Ids(n, "reported") :
           Limited(S, Ids(n, "reported")) /\ toFetch' = [toFetch EXCEPT ![n] = S]
    /\ wpc' = [wpc EXCEPT ![n] = "reports"]
    /\ UNCHANGED <<rowVars, fileVars, enabled, remote, schedVars, toSubmit, sent,
                   fetched, delVars, faultVars>>

(* The rows with this node and id, and the last one of them. *)
Owners(n, i) == {t \in Tasks : status[t] # "gone" /\ node[t] = n /\ taskId[t] = i}

(* Variant: the last task of this node. *)
IsLast(t, n, i) ==
    /\ status[t] # "gone" /\ node[t] = n
    /\ \A u \in Tasks : status[u] # "gone" /\ node[u] = n => u <= t

IsOwner(t, n, i) == t \in Owners(n, i) /\ \A u \in Owners(n, i) : u <= t

(* Variant: a task whose report is not available is not finished. *)
ReportedIfStored(n, i) ==
    /\ wpc[n] = "reports" /\ i \in toFetch[n]
    /\ toFetch' = [toFetch EXCEPT ![n] = @ \ {i}]
    /\ IF i \in DOMAIN remote[n] THEN DeleteRemote(n, i) ELSE UNCHANGED remote
    /\ \/ UNCHANGED <<report, fetched>>
       \/ \E t \in Tasks :
             /\ IsOwner(t, n, i) /\ i \in DOMAIN remote[n]
             /\ fetched' = [fetched EXCEPT ![n] = @ \cup {t}]
             /\ report' = [report EXCEPT ![t] = remote[n][i].task]
    /\ UNCHANGED <<rowVars, samples, enabled, schedVars, wpc, toSubmit, sent, delVars, faultVars>>

(* One reported task.  Nobody's: it is deleted on the node.  Otherwise the report
   is stored - or is not available, which is logged only -, the task is deleted on
   the node and finished in the session. *)
Reported(n, i) ==
    /\ wpc[n] = "reports" /\ i \in toFetch[n]
    /\ toFetch' = [toFetch EXCEPT ![n] = @ \ {i}]
    /\ IF i \in DOMAIN remote[n] THEN DeleteRemote(n, i) ELSE UNCHANGED remote
    /\ \/ Owners(n, i) = {} /\ UNCHANGED <<report, fetched>>
       \/ \E t \in Tasks :
             /\ IsOwner(t, n, i)
             /\ fetched' = [fetched EXCEPT ![n] = @ \cup {t}]
             /\ \/ i \in DOMAIN remote[n] /\ report' = [report EXCEPT ![t] = remote[n][i].task]
                \/ UNCHANGED report
    /\ UNCHANGED <<rowVars, samples, enabled, schedVars, wpc, toSubmit, sent, delVars, faultVars>>

FetchCommit(n) ==
    /\ wpc[n] = "reports" /\ toFetch[n] = {}
    /\ IF \E t \in fetched[n] : status[t] = "gone"
       THEN Die(n) /\ cut' = TRUE /\ UNCHANGED status
       ELSE /\ status' = [t \in Tasks |-> IF t \in fetched[n] THEN "finished" ELSE status[t]]
            /\ fetched' = [fetched EXCEPT ![n] = {}]
            /\ wpc' = [wpc EXCEPT ![n] = "status"]
            /\ UNCHANGED <<toSubmit, sent, toFetch, cut>>
    /\ UNCHANGED <<node, taskId, fileVars, enabled, remote, schedVars, delVars, deaths,
                   resets>>

(* Any request but node_status may raise, and nothing catches it; or the process
   is killed. *)
WorkerDies(n) ==
    /\ wpc[n] # "dead" /\ deaths + resets < MaxFaults /\ deaths' = deaths + 1
    /\ Die(n)
    /\ UNCHANGED <<rowVars, fileVars, enabled, remote, schedVars, delVars, resets, cut>>

(* An administrator starts a process again. *)
Restart(n) ==
    /\ wpc[n] = "dead"
    /\ wpc' = [wpc EXCEPT ![n] = "status"]
    /\ UNCHANGED <<rowVars, fileVars, enabled, remote, schedVars, toSubmit, sent,
                   toFetch, fetched, delVars, faultVars>>

RestartScheduler ==
    /\ spc = "dead" /\ spc' = "idle"
    /\ UNCHANGED <<rowVars, fileVars, enabled, remote, picked, workerVars, delVars,
                   faultVars>>

-----------------------------------------------------------------------------
(* views/api.py *)

(* POST /node, PUT /node with enabled=1 *)
Enable(n) ==
    /\ n \notin enabled /\ enabled' = enabled \cup {n}
    /\ UNCHANGED <<rowVars, fileVars, remote, schedVars, workerVars, delVars, faultVars>>

(* DELETE /node, PUT /node with enabled=0; the worker goes on *)
Disable(n) ==
    /\ n \in enabled /\ enabled' = enabled \ {n}
    /\ UNCHANGED <<rowVars, fileVars, remote, schedVars, workerVars, delVars, faultVars>>

(* POST /task *)
TaskPost(t) ==
    /\ status[t] = "unused" /\ \A u \in 1..(t - 1) : status[u] # "unused"
    /\ status' = [status EXCEPT ![t] = "pending"]
    /\ samples' = samples \cup {t}
    /\ UNCHANGED <<node, taskId, report, enabled, remote, schedVars, workerVars, delVars,
                   faultVars>>

(* DELETE /task: the row is loaded, ... *)
TaskDelete(t) ==
    /\ status[t] \notin {"unused", "gone"} /\ del[t] = "none"
    /\ deletes < MaxDeletes /\ deletes' = deletes + 1
    /\ del' = [del EXCEPT ![t] = CASE status[t] = "pending" -> "remove"
                                   [] status[t] = "deleted" -> "keep"
                                   [] OTHER -> "mark"]
    /\ UNCHANGED <<rowVars, fileVars, enabled, remote, schedVars, workerVars, unlinked,
                   faultVars>>

(* ... the files are removed, ... *)
TaskUnlink(t) ==
    /\ del[t] # "none" /\ t \notin unlinked
    /\ unlinked' = unlinked \cup {t}
    /\ samples' = samples \ {t}
    /\ report' = [report EXCEPT ![t] = NoTask]
    /\ UNCHANGED <<rowVars, enabled, remote, schedVars, workerVars, del, deletes,
                   faultVars>>

(* ... and the row goes if it was pending when it was loaded, whatever it is now, and
   is marked otherwise; when it was marked already nothing is written. *)
TaskDeleteCommit(t) ==
    /\ t \in unlinked
    /\ status' = [status EXCEPT ![t] = CASE del[t] = "remove" -> "gone"
                                         [] del[t] = "mark" -> "deleted"
                                         [] OTHER -> @]
    /\ del' = [del EXCEPT ![t] = "none"] /\ unlinked' = unlinked \ {t}
    /\ UNCHANGED <<node, taskId, fileVars, enabled, remote, schedVars, workerVars, deletes,
                   faultVars>>

(* GET /report and /pcap: what a client gets *)
Served(t) == status[t] = "finished" /\ report[t] # NoTask

-----------------------------------------------------------------------------
Worker(n) == \/ Load(n) \/ SubmitCommit(n) \/ FetchTasks(n) \/ FetchCommit(n)
             \/ \E t \in Tasks : SubmitTask(n, t)
             \/ \E i \in toFetch[n] : Reported(n, i)

Node(n) == Analyse(n) \/ Reset(n) \/ WorkerDies(n) \/ Restart(n)

Admin(n) == Enable(n) \/ Disable(n)

Client(t) == TaskPost(t) \/ TaskDelete(t) \/ TaskUnlink(t) \/ TaskDeleteCommit(t)

Next == \/ \E n \in Nodes : Schedule(n) \/ Worker(n) \/ Node(n) \/ Admin(n)
        \/ Assign \/ RestartScheduler
        \/ \E t \in Tasks : Client(t)

Spec == Init /\ [][Next]_vars

(* The processes run on and are started again; nodes finish what they have. *)
FairSpec == /\ Spec
            /\ WF_vars(\E n \in Nodes : Schedule(n))
            /\ WF_vars(Assign) /\ WF_vars(RestartScheduler)
            /\ \A t \in Tasks : WF_vars(TaskUnlink(t) \/ TaskDeleteCommit(t))
            /\ \A n \in Nodes : WF_vars(Worker(n)) /\ WF_vars(Restart(n)) /\ WF_vars(Analyse(n))
-----------------------------------------------------------------------------

(* While no node is set up anew, a client is served the report of its own sample,
   also after duplicate submissions. *)
OwnReport ==
    resets = 0 => \A t \in Tasks : Served(t) => report[t] = t

(* While no process died, no node was set up anew and no worker had a commit cut off by
   a deletion, the node has the analysis of every task in work, or its worker has the
   report. *)
InHand ==
    deaths = 0 /\ resets = 0 /\ ~cut =>
        \A t \in Tasks : status[t] = "processing" =>
            \/ /\ taskId[t] \in DOMAIN remote[node[t]]
               /\ remote[node[t]][taskId[t]].task = t
               /\ remote[node[t]][taskId[t]].state # "deleted"
            \/ t \in fetched[node[t]]

(* No session of the scheduler or of a worker takes a finished task back: it stays
   finished until a deletion, which marks it - or, when it has loaded the row while
   the task was pending, takes the row away. *)
FinishedStays ==
    [][\A t \in Tasks : status[t] = "finished" =>
          \/ status'[t] \in {"finished", "deleted"}
          \/ status'[t] = "gone" /\ del[t] = "remove"]_vars

(* Every task is finished in the end, unless it was deleted, its analysis failed on
   the node, no node stays enabled, or processes died or nodes were lost, by a deletion too. *)
Delivered ==
    \A t \in Tasks :
        status[t] = "pending" ~>
            \/ status[t] \in {"finished", "deleted", "gone"} \/ t \notin samples
            \/ \E n \in Nodes : \E i \in Ids(n, "failed") : remote[n][i].task = t
            \/ ~(Nodes \subseteq enabled) \/ deaths > 0 \/ resets > 0 \/ cut

=============================================================================
