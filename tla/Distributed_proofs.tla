------------------------- MODULE Distributed_proofs -------------------------
(* Proofs about Distributed, for any sets of tasks and nodes, any threshold and any number
   of deaths and nodes set up anew: whose report a client gets, where an analysis is
   while it is in work, and that what is finished stays so. *)
EXTENDS Distributed, TLAPS

RemoteStates == {"pending", "reported", "failed", "deleted"}

(* A row of a node's table gets another state: nothing else changes in the tables. *)
LEMMA RemoteChange ==
    ASSUME TypeOK, NEW n \in Nodes, NEW i \in DOMAIN remote[n], NEW s \in RemoteStates,
           remote' = [remote EXCEPT ![n] = [@ EXCEPT ![i].state = s]]
    PROVE  /\ remote' \in [Nodes -> Seq(Remote)]
           /\ \A m \in Nodes : DOMAIN remote'[m] = DOMAIN remote[m]
           /\ \A m \in Nodes : \A j \in DOMAIN remote[m] :
                 /\ remote'[m][j].task = remote[m][j].task
                 /\ m # n \/ j # i => remote'[m][j].state = remote[m][j].state
           /\ remote'[n][i].state = s
  <1> DEFINE q == remote[n]
             r == remote'[n]
  <1>1. remote \in [Nodes -> Seq(Remote)] /\ q \in Seq(Remote)
    BY DEF TypeOK
  <1>2. i \in DOMAIN q /\ r = [q EXCEPT ![i].state = s]
    BY <1>1
  <1>3. \A m \in Nodes : m # n => remote'[m] = remote[m]
    BY <1>1
  <1>4. /\ r \in Seq(Remote) /\ DOMAIN r = DOMAIN q /\ r[i].state = s
        /\ \A j \in DOMAIN q : r[j].task = q[j].task /\ (j # i => r[j].state = q[j].state)
    <2> HIDE DEF q, r
    <2>1. DOMAIN q = 1..Len(q) /\ Len(q) \in Nat /\ \A j \in 1..Len(q) : q[j] \in Remote
      BY <1>1
    <2>2. r = [j \in 1..Len(q) |-> IF j = i THEN [q[i] EXCEPT !.state = s] ELSE q[j]]
      BY <1>2, <2>1
    <2>3. [q[i] EXCEPT !.state = s] \in Remote
      BY <1>2, <2>1 DEF Remote, RemoteStates
    <2>4. r \in [1..Len(q) -> Remote]
      BY <2>1, <2>2, <2>3
    <2>5. r \in Seq(Remote)
      BY <2>1, <2>4
    <2>6. \A j \in 1..Len(q) : r[j].task = q[j].task
      BY <2>1, <2>2 DEF Remote
    <2> QED BY <1>2, <2>1, <2>2, <2>5, <2>6 DEF Remote
  <1>5. remote' = [remote EXCEPT ![n] = r]
    BY <1>2
  <1>6. remote' \in [Nodes -> Seq(Remote)]
    <2> HIDE DEF r
    <2> QED BY <1>1, <1>4, <1>5
  <1> QED BY <1>3, <1>4, <1>6

LEMMA DieTyped ==
    ASSUME TypeOK, NEW n \in Nodes, Die(n)
    PROVE  /\ wpc' \in [Nodes -> {"status", "submit", "fetch", "reports", "dead"}]
           /\ toSubmit' \in [Nodes -> SUBSET Tasks] /\ sent' \in [Nodes -> [Tasks -> Nat]]
           /\ toFetch' \in [Nodes -> SUBSET Nat] /\ fetched' \in [Nodes -> SUBSET Tasks]
  BY DEF Die, TypeOK, NoId

LEMMA TypeStep == TypeOK /\ [Next]_vars => TypeOK'
  <1> SUFFICES ASSUME TypeOK, [Next]_vars PROVE TypeOK'
    OBVIOUS
  <1> USE DistributedAssumption
      DEF rowVars, fileVars, schedVars, workerVars, delVars, faultVars, NoTask, NoId, NotAnId
  <1>1. ASSUME NEW n \in Nodes, Schedule(n)
       PROVE  TypeOK'
    BY <1>1 DEF Schedule, Limited, Pending, TypeOK, Statuses
  <1>2. ASSUME NEW n \in Nodes, Load(n)
       PROVE  TypeOK'
    BY <1>2 DEF Load, Limited, Assigned, TypeOK, Statuses
  <1>3. ASSUME NEW n \in Nodes, SubmitCommit(n)
       PROVE  TypeOK'
    <2> DEFINE S == {t \in Tasks : sent[n][t] # NoId}
    <2>1. CASE \E t \in S : sent[n][t] = NotAnId \/ status[t] = "gone"
      <3>1. Die(n) /\ UNCHANGED <<rowVars, fileVars, enabled, remote, schedVars, delVars, faultVars>>
        BY <1>3, <2>1 DEF SubmitCommit
      <3> QED BY <3>1, DieTyped DEF TypeOK
    <2>2. CASE ~ \E t \in S : sent[n][t] = NotAnId \/ status[t] = "gone"
      <3>1. /\ status' = [t \in Tasks |-> IF t \in S THEN "processing" ELSE status[t]]
            /\ taskId' = [t \in Tasks |-> IF t \in S THEN sent[n][t] ELSE taskId[t]]
            /\ sent' = [sent EXCEPT ![n] = [t \in Tasks |-> NoId]]
            /\ wpc' = [wpc EXCEPT ![n] = "fetch"]
            /\ UNCHANGED <<node, toSubmit, toFetch, fetched, fileVars, enabled, remote,
                           schedVars, delVars, faultVars>>
        BY <1>3, <2>2 DEF SubmitCommit
      <3>2. status' \in [Tasks -> Statuses]
        BY <3>1 DEF TypeOK, Statuses
      <3>3. taskId' \in [Tasks -> Nat] /\ sent' \in [Nodes -> [Tasks -> Nat]]
        BY <3>1 DEF TypeOK
      <3> QED BY <3>1, <3>2, <3>3 DEF TypeOK
    <2> QED BY <2>1, <2>2
  <1>4. ASSUME NEW n \in Nodes, FetchTasks(n)
       PROVE  TypeOK'
    BY <1>4 DEF FetchTasks, Limited, Ids, TypeOK, Statuses
  <1>5. ASSUME NEW n \in Nodes, FetchCommit(n)
       PROVE  TypeOK'
    <2>1. CASE \E t \in fetched[n] : status[t] = "gone"
      <3>1. /\ Die(n) /\ cut' = TRUE
            /\ UNCHANGED <<rowVars, fileVars, enabled, remote, schedVars, delVars, deaths, resets>>
        BY <1>5, <2>1 DEF FetchCommit
      <3> QED BY <3>1, DieTyped DEF TypeOK
    <2>2. CASE ~ \E t \in fetched[n] : status[t] = "gone"
      <3>1. status' \in [Tasks -> Statuses]
        BY <1>5, <2>2 DEF FetchCommit, TypeOK, Statuses
      <3> QED BY <1>5, <2>2, <3>1 DEF FetchCommit, TypeOK
    <2> QED BY <2>1, <2>2
  <1>6. ASSUME NEW n \in Nodes, NEW t \in Tasks, SubmitTask(n, t)
       PROVE  TypeOK'
    <2>1. remote' \in [Nodes -> Seq(Remote)]
      <3>1. remote[n] \in Seq(Remote) /\ [task |-> t, state |-> "pending"] \in Remote
        BY <1>6 DEF TypeOK, Remote
      <3>2. Append(remote[n], [task |-> t, state |-> "pending"]) \in Seq(Remote)
        BY <3>1
      <3> QED BY <1>6, <3>2 DEF SubmitTask, TypeOK
    <2>2. sent' \in [Nodes -> [Tasks -> Nat]]
      <3>1. Len(remote[n]) + 1 \in Nat
        BY DEF TypeOK
      <3> DEFINE v == IF t \in samples THEN Len(remote[n]) + 1 ELSE NotAnId
      <3>2. v \in Nat /\ sent' = [sent EXCEPT ![n][t] = v]
        BY <1>6, <3>1 DEF SubmitTask
      <3> HIDE DEF v
      <3>3. sent' = [sent EXCEPT ![n] = [sent[n] EXCEPT ![t] = v]]
        BY <3>2
      <3> QED BY <3>2, <3>3 DEF TypeOK
    <2> QED BY <1>6, <2>1, <2>2 DEF SubmitTask, TypeOK
  <1>7. ASSUME NEW n \in Nodes, NEW i \in toFetch[n], Reported(n, i)
       PROVE  TypeOK'
    <2>1. remote' \in [Nodes -> Seq(Remote)]
      BY <1>7, RemoteChange DEF Reported, DeleteRemote, TypeOK, RemoteStates
    <2>2. report' \in [Tasks -> Tasks \cup {NoTask}] /\ fetched' \in [Nodes -> SUBSET Tasks]
      <3>1. remote[n] \in Seq(Remote)
        BY DEF TypeOK
      <3>2. \A j \in DOMAIN remote[n] : remote[n][j].task \in Tasks
        <4> DEFINE q == remote[n]
        <4>1. q \in Seq(Remote)
          BY <3>1
        <4> HIDE DEF q
        <4>2. \A j \in DOMAIN q : q[j] \in Remote
          BY <4>1
        <4>3. \A j \in DOMAIN q : q[j].task \in Tasks
          BY <4>2 DEF Remote
        <4> QED BY <4>3 DEF q
      <3>3. CASE UNCHANGED <<report, fetched>>
        BY <3>3 DEF TypeOK
      <3>4. ASSUME NEW t \in Tasks, fetched' = [fetched EXCEPT ![n] = @ \cup {t}],
                   \/ i \in DOMAIN remote[n] /\ report' = [report EXCEPT ![t] = remote[n][i].task]
                   \/ UNCHANGED report
            PROVE  report' \in [Tasks -> Tasks \cup {NoTask}] /\ fetched' \in [Nodes -> SUBSET Tasks]
        BY <3>2, <3>4 DEF TypeOK
      <3> QED BY <1>7, <3>3, <3>4 DEF Reported
    <2> QED BY <1>7, <2>1, <2>2 DEF Reported, TypeOK
  <1>8. ASSUME NEW n \in Nodes, Analyse(n)
       PROVE  TypeOK'
    <2>1. remote' \in [Nodes -> Seq(Remote)]
      BY <1>8, RemoteChange DEF Analyse, Ids, TypeOK, RemoteStates
    <2> QED BY <1>8, <2>1 DEF Analyse, TypeOK
  <1>9. ASSUME NEW n \in Nodes, Reset(n)
       PROVE  TypeOK'
    BY <1>9 DEF Reset, TypeOK, Statuses
  <1>10. ASSUME NEW n \in Nodes, WorkerDies(n)
       PROVE  TypeOK'
    BY <1>10 DEF WorkerDies, Die, TypeOK, Statuses
  <1>11. ASSUME NEW n \in Nodes, Restart(n)
       PROVE  TypeOK'
    BY <1>11 DEF Restart, TypeOK, Statuses
  <1>12. ASSUME NEW n \in Nodes, Enable(n)
       PROVE  TypeOK'
    BY <1>12 DEF Enable, TypeOK, Statuses
  <1>13. ASSUME NEW n \in Nodes, Disable(n)
       PROVE  TypeOK'
    BY <1>13 DEF Disable, TypeOK, Statuses
  <1>14. ASSUME Assign
       PROVE  TypeOK'
    BY <1>14 DEF Assign, TypeOK, Statuses
  <1>15. ASSUME RestartScheduler
       PROVE  TypeOK'
    BY <1>15 DEF RestartScheduler, TypeOK, Statuses
  <1>16. ASSUME NEW t \in Tasks, TaskPost(t)
       PROVE  TypeOK'
    BY <1>16 DEF TaskPost, TypeOK, Statuses
  <1>17. ASSUME NEW t \in Tasks, TaskDelete(t)
       PROVE  TypeOK'
    BY <1>17 DEF TaskDelete, TypeOK, Statuses
  <1>20. ASSUME NEW t \in Tasks, TaskUnlink(t)
       PROVE  TypeOK'
    BY <1>20 DEF TaskUnlink, TypeOK, Statuses
  <1>18. ASSUME NEW t \in Tasks, TaskDeleteCommit(t)
       PROVE  TypeOK'
    BY <1>18 DEF TaskDeleteCommit, TypeOK, Statuses
  <1>19. CASE UNCHANGED vars
    BY <1>19 DEF vars, TypeOK
  <1> QED
    BY <1>1, <1>2, <1>3, <1>4, <1>5, <1>6, <1>7, <1>8, <1>9, <1>10, <1>11, <1>12, <1>13, <1>14, <1>15, <1>16, <1>17, <1>18, <1>19, <1>20
       DEF Next, Worker, Node, Admin, Client

(* Every variable of Distributed keeps its type. *)
THEOREM TypeCorrect == Spec => []TypeOK
  <1>1. Init => TypeOK
    <2> SUFFICES ASSUME Init PROVE TypeOK
      OBVIOUS
    <2>1. deaths \in 0..MaxFaults /\ resets \in 0..MaxFaults /\ deletes \in 0..MaxDeletes
      BY DistributedAssumption DEF Init
    <2>2. cut \in BOOLEAN
      BY DEF Init
    <2> QED BY <2>1, <2>2 DEF Init, TypeOK, Statuses, NoTask, NoId
  <1> QED BY <1>1, TypeStep, PTL DEF Spec

-----------------------------------------------------------------------------
(* The columns of a row agree with its status: a node's id comes with "processing". *)
ColumnInv == \A t \in Tasks :
    /\ status[t] \in {"unused", "pending", "assigned"} => taskId[t] = NoId
    /\ status[t] \in {"processing", "finished"} => taskId[t] # NoId

(* A deletion under way has loaded a row, and one of a pending task is to remove it. *)
DeleteInv == \A t \in Tasks :
    /\ status[t] \in {"unused", "gone"} => del[t] = "none"
    /\ status[t] = "pending" => del[t] \in {"none", "remove"}

(* What scheduler and workers have in their sessions is still theirs: what is picked is
   pending, what is loaded or submitted belongs to the node and has no id yet. *)
PickedInv == \A t \in picked : status[t] \in {"pending", "gone"}
SentInv == \A n \in Nodes : \A t \in Tasks :
    t \in toSubmit[n] \/ sent[n][t] # NoId =>
        node[t] = n /\ taskId[t] = NoId /\ status[t] \notin {"unused", "pending"}
FetchedInv == \A n \in Nodes : NoId \notin toFetch[n] /\ \A t \in fetched[n] : taskId[t] # NoId

(* A worker submits and fetches one after the other. *)
WorkerInv == \A n \in Nodes :
    /\ wpc[n] # "submit" => toSubmit[n] = {} /\ \A t \in Tasks : sent[n][t] = NoId
    /\ wpc[n] # "reports" => toFetch[n] = {} /\ fetched[n] = {}

LinkInv == ColumnInv /\ DeleteInv /\ PickedInv /\ SentInv /\ FetchedInv /\ WorkerInv

LEMMA LinkStep == TypeOK /\ LinkInv /\ [Next]_vars => LinkInv'
  <1> SUFFICES ASSUME TypeOK, LinkInv, [Next]_vars PROVE LinkInv'
    OBVIOUS
  <1> USE DistributedAssumption
      DEF rowVars, fileVars, schedVars, workerVars, delVars, faultVars, NoTask, NoId, NotAnId,
          LinkInv, ColumnInv, DeleteInv, PickedInv, SentInv, FetchedInv, WorkerInv
  <1>1. ASSUME NEW n \in Nodes, Schedule(n)
       PROVE  LinkInv'
    BY <1>1 DEF Schedule, Limited, Pending, TypeOK
  <1>2. ASSUME NEW n \in Nodes, Load(n)
       PROVE  LinkInv'
    BY <1>2 DEF Load, Limited, Assigned, TypeOK
  <1>3. ASSUME NEW n \in Nodes, SubmitCommit(n)
       PROVE  LinkInv'
    <2> DEFINE S == {t \in Tasks : sent[n][t] # NoId}
    <2>1. CASE \E t \in S : sent[n][t] = NotAnId \/ status[t] = "gone"
      <3>1. Die(n) /\ UNCHANGED <<rowVars, samples, schedVars, delVars>>
        BY <1>3, <2>1 DEF SubmitCommit
      <3> QED BY <3>1 DEF Die, TypeOK
    <2>2. CASE ~ \E t \in S : sent[n][t] = NotAnId \/ status[t] = "gone"
      <3>1. /\ status' = [t \in Tasks |-> IF t \in S THEN "processing" ELSE status[t]]
            /\ taskId' = [t \in Tasks |-> IF t \in S THEN sent[n][t] ELSE taskId[t]]
            /\ sent' = [sent EXCEPT ![n] = [t \in Tasks |-> NoId]]
            /\ wpc' = [wpc EXCEPT ![n] = "fetch"]
            /\ wpc[n] = "submit" /\ toSubmit[n] = {}
            /\ UNCHANGED <<node, toSubmit, toFetch, fetched, samples, schedVars, delVars>>
        BY <1>3, <2>2 DEF SubmitCommit
      <3>2. \A t \in Tasks : t \notin S => status'[t] = status[t] /\ taskId'[t] = taskId[t]
        BY <3>1
      <3>a. S \subseteq Tasks /\ \A t \in Tasks : t \in S <=> sent[n][t] # NoId
        OBVIOUS
      <3>b. \A m \in Nodes, t \in Tasks : sent'[m][t] = IF m = n THEN NoId ELSE sent[m][t]
        BY <3>1 DEF TypeOK
      <3>c. \A m \in Nodes : wpc'[m] = IF m = n THEN "fetch" ELSE wpc[m]
        BY <3>1 DEF TypeOK
      <3>3. \A t \in S : /\ status'[t] = "processing" /\ taskId'[t] # NoId /\ taskId'[t] = sent[n][t]
                         /\ node[t] = n /\ status[t] \notin {"unused", "pending", "gone"}
                         /\ sent[n][t] # NotAnId
        BY <2>2, <3>1
      <3> HIDE DEF S
      <3>4. ColumnInv'
        <4> SUFFICES ASSUME NEW t \in Tasks
                     PROVE  /\ status'[t] \in {"unused", "pending", "assigned"} => taskId'[t] = NoId
                            /\ status'[t] \in {"processing", "finished"} => taskId'[t] # NoId
          OBVIOUS
        <4>1. CASE t \in S
          BY <3>3, <4>1
        <4>2. CASE t \notin S
          BY <3>2, <4>2
        <4> QED BY <4>1, <4>2
      <3>5. PickedInv' /\ DeleteInv'
        <4>1. \A t \in picked : t \in Tasks /\ t \notin S
          BY <3>3 DEF TypeOK
        <4>2. PickedInv'
          BY <3>1, <3>2, <4>1
        <4>3. \A t \in Tasks : t \in S => status[t] \notin {"unused", "gone", "pending"}
          BY <3>a, <3>3
        <4>4. DeleteInv'
          BY <3>b, <3>1, <3>2, <3>3, <4>3
        <4> QED BY <4>2, <4>4
      <3>6. SentInv'
        BY <3>a, <3>b, <3>c, <3>1, <3>2, <3>3
      <3>7. FetchedInv' /\ WorkerInv'
        BY <3>a, <3>b, <3>c, <3>1, <3>2, <3>3 DEF TypeOK
      <3> QED BY <3>4, <3>5, <3>6, <3>7
    <2> QED BY <2>1, <2>2
  <1>4. ASSUME NEW n \in Nodes, FetchTasks(n)
       PROVE  LinkInv'
    BY <1>4 DEF FetchTasks, Limited, Ids, TypeOK
  <1>5. ASSUME NEW n \in Nodes, FetchCommit(n)
       PROVE  LinkInv'
    <2>1. CASE \E t \in fetched[n] : status[t] = "gone"
      <3>1. Die(n) /\ UNCHANGED <<rowVars, schedVars, delVars>>
        BY <1>5, <2>1 DEF FetchCommit
      <3> QED BY <3>1 DEF Die, TypeOK
    <2>2. CASE ~ \E t \in fetched[n] : status[t] = "gone"
      <3>2. /\ status' = [t \in Tasks |-> IF t \in fetched[n] THEN "finished" ELSE status[t]]
            /\ fetched' = [fetched EXCEPT ![n] = {}]
            /\ wpc' = [wpc EXCEPT ![n] = "status"]
            /\ wpc[n] = "reports" /\ toFetch[n] = {}
            /\ UNCHANGED <<toSubmit, sent, toFetch, node, taskId, samples, schedVars, delVars>>
        BY <1>5, <2>2 DEF FetchCommit
      <3>3. \A t \in fetched[n] : status[t] \notin {"unused", "pending", "assigned", "gone"}
        BY <2>2 DEF TypeOK
      <3>4. ColumnInv' /\ PickedInv'
        BY <3>2, <3>3 DEF TypeOK
      <3>5. DeleteInv' /\ SentInv'
        BY <3>2, <3>3 DEF TypeOK
      <3>6. FetchedInv' /\ WorkerInv'
        BY <3>2 DEF TypeOK
      <3> QED BY <3>4, <3>5, <3>6
    <2> QED BY <2>1, <2>2
  <1>6. ASSUME NEW n \in Nodes, NEW t \in Tasks, SubmitTask(n, t)
       PROVE  LinkInv'
    <2> DEFINE v == IF t \in samples THEN Len(remote[n]) + 1 ELSE NotAnId
    <2>1. /\ wpc[n] = "submit" /\ t \in toSubmit[n]
          /\ UNCHANGED <<rowVars, samples, schedVars, wpc, toFetch, fetched, delVars>>
      BY <1>6 DEF SubmitTask
    <2>2. \A m \in Nodes : toSubmit'[m] = IF m = n THEN toSubmit[n] \ {t} ELSE toSubmit[m]
      BY <1>6 DEF SubmitTask, TypeOK
    <2>3. sent' = [sent EXCEPT ![n][t] = v]
      BY <1>6 DEF SubmitTask
    <2>4. \A m \in Nodes, u \in Tasks : sent'[m][u] = IF m = n /\ u = t THEN v ELSE sent[m][u]
      <3> HIDE DEF v
      <3> QED BY <2>3 DEF TypeOK
    <2>5. t \notin samples => v = NotAnId
      OBVIOUS
    <2> HIDE DEF v
    <2>6. ColumnInv' /\ PickedInv' /\ FetchedInv'
      BY <2>1
    <2>7. DeleteInv'
      BY <1>6, <2>1, <2>4, <2>5
    <2>8. SentInv' /\ WorkerInv'
      BY <1>6, <2>1, <2>2, <2>4
    <2> QED BY <2>6, <2>7, <2>8
  <1>7. ASSUME NEW n \in Nodes, NEW i \in toFetch[n], Reported(n, i)
       PROVE  LinkInv'
    BY <1>7 DEF Reported, Owners, IsOwner, TypeOK
  <1>8. ASSUME NEW n \in Nodes, Analyse(n)
       PROVE  LinkInv'
    BY <1>8 DEF Analyse, Ids, TypeOK
  <1>9. ASSUME NEW n \in Nodes, Reset(n)
       PROVE  LinkInv'
    BY <1>9 DEF Reset, TypeOK
  <1>10. ASSUME NEW n \in Nodes, WorkerDies(n)
       PROVE  LinkInv'
    BY <1>10 DEF WorkerDies, Die, TypeOK
  <1>11. ASSUME NEW n \in Nodes, Restart(n)
       PROVE  LinkInv'
    BY <1>11 DEF Restart, TypeOK
  <1>12. ASSUME NEW n \in Nodes, Enable(n)
       PROVE  LinkInv'
    BY <1>12 DEF Enable, TypeOK
  <1>13. ASSUME NEW n \in Nodes, Disable(n)
       PROVE  LinkInv'
    BY <1>13 DEF Disable, TypeOK
  <1>14. ASSUME Assign
       PROVE  LinkInv'
    BY <1>14 DEF Assign, TypeOK
  <1>15. ASSUME RestartScheduler
       PROVE  LinkInv'
    BY <1>15 DEF RestartScheduler, TypeOK
  <1>16. ASSUME NEW t \in Tasks, TaskPost(t)
       PROVE  LinkInv'
    BY <1>16 DEF TaskPost, TypeOK
  <1>17. ASSUME NEW t \in Tasks, TaskDelete(t)
       PROVE  LinkInv'
    BY <1>17 DEF TaskDelete, TypeOK
  <1>20. ASSUME NEW t \in Tasks, TaskUnlink(t)
       PROVE  LinkInv'
    BY <1>20 DEF TaskUnlink, TypeOK
  <1>18. ASSUME NEW t \in Tasks, TaskDeleteCommit(t)
       PROVE  LinkInv'
    BY <1>18 DEF TaskDeleteCommit, TypeOK
  <1>19. CASE UNCHANGED vars
    BY <1>19 DEF vars, TypeOK
  <1> QED
    BY <1>1, <1>2, <1>3, <1>4, <1>5, <1>6, <1>7, <1>8, <1>9, <1>10, <1>11, <1>12, <1>13, <1>14, <1>15, <1>16, <1>17, <1>18, <1>19, <1>20
       DEF Next, Worker, Node, Admin, Client

-----------------------------------------------------------------------------
(* As long as no node was set up anew, its ids lead to the tasks that were submitted. *)
Holds(n, i, t) == n \in Nodes /\ i \in DOMAIN remote[n] /\ remote[n][i].task = t

OwnInv == resets = 0 =>
    /\ \A t \in Tasks : taskId[t] # NoId => Holds(node[t], taskId[t], t)
    /\ \A n \in Nodes : \A t \in Tasks : sent[n][t] \notin {NoId, NotAnId} =>
          Holds(n, sent[n][t], t) /\ remote[n][sent[n][t]].state # "deleted"
    /\ \A t \in Tasks : report[t] \in {NoTask, t}

LEMMA OwnStep == TypeOK /\ LinkInv /\ OwnInv /\ InHand /\ [Next]_vars => OwnInv' /\ InHand'
  <1> SUFFICES ASSUME TypeOK, LinkInv, OwnInv, InHand, [Next]_vars PROVE OwnInv' /\ InHand'
    OBVIOUS
  <1> USE DistributedAssumption
      DEF rowVars, fileVars, schedVars, workerVars, delVars, faultVars, NoTask, NoId, NotAnId
  <1>1. ASSUME NEW n \in Nodes, Schedule(n)
       PROVE  OwnInv' /\ InHand'
    BY <1>1 DEF Schedule, OwnInv, Holds, InHand
  <1>2. ASSUME NEW n \in Nodes, Load(n)
       PROVE  OwnInv' /\ InHand'
    BY <1>2 DEF Load, OwnInv, Holds, InHand
  <1>3. ASSUME NEW n \in Nodes, SubmitCommit(n)
       PROVE  OwnInv' /\ InHand'
    <2> DEFINE S == {t \in Tasks : sent[n][t] # NoId}
    <2>0. fetched[n] = {} /\ UNCHANGED <<remote, node, report, deaths, resets, cut>>
      BY <1>3 DEF SubmitCommit, Die, LinkInv, WorkerInv
    <2>1. CASE \E t \in S : sent[n][t] = NotAnId \/ status[t] = "gone"
      <3>1. Die(n) /\ UNCHANGED rowVars
        BY <1>3, <2>1 DEF SubmitCommit
      <3>2. \A m \in Nodes : fetched'[m] = fetched[m]
        BY <2>0, <3>1 DEF Die, TypeOK
      <3>3. \A m \in Nodes, t \in Tasks : sent'[m][t] \in {NoId, sent[m][t]}
        BY <3>1 DEF Die, TypeOK
      <3>4. OwnInv'
        BY <2>0, <3>1, <3>3 DEF OwnInv, Holds
      <3>5. InHand'
        BY <2>0, <3>1, <3>2 DEF InHand, OwnInv, Holds, LinkInv, ColumnInv
      <3> QED BY <3>4, <3>5
    <2>2. CASE ~ \E t \in S : sent[n][t] = NotAnId \/ status[t] = "gone"
      <3>1. /\ status' = [t \in Tasks |-> IF t \in S THEN "processing" ELSE status[t]]
            /\ taskId' = [t \in Tasks |-> IF t \in S THEN sent[n][t] ELSE taskId[t]]
            /\ sent' = [sent EXCEPT ![n] = [t \in Tasks |-> NoId]]
            /\ UNCHANGED fetched
        BY <1>3, <2>2 DEF SubmitCommit
      <3>2. \A t \in Tasks : t \notin S => status'[t] = status[t] /\ taskId'[t] = taskId[t]
        BY <3>1
      <3>3. \A t \in S : /\ taskId'[t] = sent[n][t] /\ node[t] = n
                         /\ sent[n][t] \notin {NoId, NotAnId}
        BY <2>2, <3>1 DEF LinkInv, SentInv
      <3>4. \A m \in Nodes, t \in Tasks : sent'[m][t] \in {NoId, sent[m][t]}
        BY <3>1 DEF TypeOK
      <3>5. S \subseteq Tasks
        OBVIOUS
      <3> HIDE DEF S
      <3>6. OwnInv'
        <4>1. resets' = 0 => \A t \in Tasks : taskId'[t] # NoId => Holds(node[t], taskId'[t], t)
          <5> SUFFICES ASSUME resets = 0, NEW t \in Tasks, taskId'[t] # NoId
                       PROVE  Holds(node[t], taskId'[t], t)
            BY <2>0
          <5>1. CASE t \in S
            BY <3>3, <5>1 DEF OwnInv
          <5>2. CASE t \notin S
            BY <3>2, <5>2 DEF OwnInv
          <5> QED BY <5>1, <5>2
        <4>2. \A t \in Tasks, i \in Nat : UNCHANGED <<node, remote>> => (Holds(node[t], i, t)' <=> Holds(node[t], i, t))
          BY DEF Holds
        <4> QED BY <2>0, <3>4, <4>1 DEF OwnInv, Holds
      <3>7. InHand'
        <4> SUFFICES ASSUME deaths = 0, resets = 0, ~cut, NEW t \in Tasks, status'[t] = "processing"
                     PROVE  \/ /\ taskId'[t] \in DOMAIN remote[node[t]]
                               /\ remote[node[t]][taskId'[t]].task = t
                               /\ remote[node[t]][taskId'[t]].state # "deleted"
                            \/ t \in fetched[node[t]]
          BY <2>0, <3>1 DEF InHand
        <4>1. CASE t \in S
          BY <3>3, <4>1 DEF OwnInv, Holds
        <4>2. CASE t \notin S
          BY <3>2, <4>2 DEF InHand
        <4> QED BY <4>1, <4>2
      <3> QED BY <3>6, <3>7
    <2> QED BY <2>1, <2>2
  <1>4. ASSUME NEW n \in Nodes, FetchTasks(n)
       PROVE  OwnInv' /\ InHand'
    BY <1>4 DEF FetchTasks, OwnInv, Holds, InHand
  <1>5. ASSUME NEW n \in Nodes, FetchCommit(n)
       PROVE  OwnInv' /\ InHand'
    <2>1. CASE \E t \in fetched[n] : status[t] = "gone"
      <3>1. Die(n) /\ cut' = TRUE /\ UNCHANGED <<rowVars, remote, report, resets>>
        BY <1>5, <2>1 DEF FetchCommit
      <3>2. \A m \in Nodes, t \in Tasks : sent'[m][t] \in {NoId, sent[m][t]}
        BY <3>1 DEF Die, TypeOK
      <3> QED BY <3>1, <3>2 DEF OwnInv, Holds, InHand
    <2>2. CASE ~ \E t \in fetched[n] : status[t] = "gone"
      <3>2. /\ status' = [t \in Tasks |-> IF t \in fetched[n] THEN "finished" ELSE status[t]]
            /\ fetched' = [fetched EXCEPT ![n] = {}]
            /\ UNCHANGED <<node, taskId, report, remote, sent, deaths, resets, cut>>
        BY <1>5, <2>2 DEF FetchCommit
      <3>3. OwnInv'
        BY <3>2 DEF OwnInv, Holds
      <3>4. \A t \in Tasks : resets = 0 /\ status'[t] = "processing" =>
               status[t] = "processing" /\ (t \in fetched[node[t]] => t \in fetched'[node[t]])
        <4> SUFFICES ASSUME NEW t \in Tasks, resets = 0, status'[t] = "processing"
                     PROVE  status[t] = "processing" /\ (t \in fetched[node[t]] => t \in fetched'[node[t]])
          OBVIOUS
        <4>1. status[t] = "processing" /\ t \notin fetched[n]
          BY <3>2
        <4>2. node[t] \in Nodes
          BY <4>1 DEF OwnInv, Holds, LinkInv, ColumnInv
        <4> QED BY <3>2, <4>1, <4>2 DEF TypeOK
      <3>5. InHand'
        BY <3>2, <3>4 DEF InHand
      <3> QED BY <3>3, <3>5
    <2> QED BY <2>1, <2>2
  <1>6. ASSUME NEW n \in Nodes, NEW t \in Tasks, SubmitTask(n, t)
       PROVE  OwnInv' /\ InHand'
    <2>1. UNCHANGED <<rowVars, report, fetched, resets, deaths, cut>>
      BY <1>6 DEF SubmitTask
    <2>2. remote[n] \in Seq(Remote)
      BY DEF TypeOK
    <2>3. \A m \in Nodes : \A j \in DOMAIN remote[m] :
             j \in DOMAIN remote'[m] /\ remote'[m][j] = remote[m][j]
      <3>1. CASE remote' = [remote EXCEPT ![n] = Append(@, [task |-> t, state |-> "pending"])]
        <4> DEFINE q == remote[n]
        <4>1. q \in Seq(Remote) /\ remote'[n] = Append(q, [task |-> t, state |-> "pending"])
          BY <2>2, <3>1 DEF TypeOK
        <4>2. \A m \in Nodes : m # n => remote'[m] = remote[m]
          BY <3>1 DEF TypeOK
        <4>3. \A j \in DOMAIN q : j \in DOMAIN remote'[n] /\ remote'[n][j] = q[j]
          <5> HIDE DEF q
          <5> QED BY <4>1
        <4> QED BY <4>2, <4>3
      <3>2. CASE UNCHANGED remote
        BY <3>2
      <3> QED BY <1>6, <3>1, <3>2 DEF SubmitTask
    <2>4. \A m \in Nodes, u \in Tasks : sent'[m][u] = sent[m][u] \/ (m = n /\ u = t)
      BY <1>6 DEF SubmitTask, TypeOK
    <2>5. sent'[n][t] \notin {NoId, NotAnId} =>
             /\ Holds(n, sent[n][t], t)'
             /\ remote'[n][sent'[n][t]].state # "deleted"
      <3>1. CASE t \in samples
        <4> DEFINE q == remote[n]  r == remote'[n]
        <4>1. q \in Seq(Remote) /\ r = Append(q, [task |-> t, state |-> "pending"])
              /\ sent'[n][t] = Len(q) + 1
          BY <1>6, <2>2, <3>1 DEF SubmitTask, TypeOK
        <4>2. Len(q) + 1 \in DOMAIN r /\ r[Len(q) + 1] = [task |-> t, state |-> "pending"]
          <5> HIDE DEF q, r
          <5> QED BY <4>1
        <4> QED BY <4>1, <4>2 DEF Holds
      <3>2. CASE t \notin samples
        BY <1>6, <3>2 DEF SubmitTask, TypeOK
      <3> QED BY <3>1, <3>2
    <2>6. OwnInv'
      <3>1. \A m \in Nodes, u \in Tasks, i \in Nat : Holds(m, i, u) => Holds(m, i, u)'
        BY <2>3 DEF Holds
      <3>2. \A u \in Tasks : taskId[u] \in Nat
        BY DEF TypeOK
      <3>3. \A m \in Nodes, u \in Tasks : sent[m][u] \in Nat
        BY DEF TypeOK
      <3>4. resets' = 0 => \A u \in Tasks : taskId'[u] # NoId => Holds(node[u], taskId[u], u)'
        BY <2>1, <3>1, <3>2 DEF OwnInv, Holds
      <3>5. resets' = 0 => \A m \in Nodes, u \in Tasks : sent'[m][u] \notin {NoId, NotAnId} =>
                Holds(m, sent[m][u], u)' /\ remote'[m][sent'[m][u]].state # "deleted"
        <4> SUFFICES ASSUME resets' = 0, NEW m \in Nodes, NEW u \in Tasks,
                            sent'[m][u] \notin {NoId, NotAnId}
                     PROVE  Holds(m, sent[m][u], u)' /\ remote'[m][sent'[m][u]].state # "deleted"
          OBVIOUS
        <4>1. CASE m = n /\ u = t
          BY <2>5, <4>1
        <4>2. CASE sent'[m][u] = sent[m][u]
          <5>1. Holds(m, sent[m][u], u) /\ remote[m][sent[m][u]].state # "deleted"
            BY <2>1, <4>2 DEF OwnInv
          <5>2. remote'[m][sent[m][u]] = remote[m][sent[m][u]] /\ sent[m][u] \in DOMAIN remote'[m]
            BY <2>3, <5>1 DEF Holds
          <5> QED BY <4>2, <5>1, <5>2 DEF Holds
        <4> QED BY <2>4, <4>1, <4>2
      <3> QED BY <2>1, <3>4, <3>5 DEF OwnInv
    <2>7. InHand'
      <3> SUFFICES ASSUME deaths = 0, resets = 0, ~cut, NEW u \in Tasks, status[u] = "processing"
                   PROVE  \/ /\ taskId[u] \in DOMAIN remote'[node[u]]
                             /\ remote'[node[u]][taskId[u]].task = u
                             /\ remote'[node[u]][taskId[u]].state # "deleted"
                          \/ u \in fetched[node[u]]
        BY <2>1 DEF InHand
      <3>1. node[u] \in Nodes /\ taskId[u] \in DOMAIN remote[node[u]]
        BY DEF OwnInv, Holds, LinkInv, ColumnInv
      <3>2. remote'[node[u]][taskId[u]] = remote[node[u]][taskId[u]]
            /\ taskId[u] \in DOMAIN remote'[node[u]]
        BY <2>3, <3>1
      <3> QED BY <3>1, <3>2 DEF InHand
    <2> QED BY <2>6, <2>7
  <1>7. ASSUME NEW n \in Nodes, NEW i \in toFetch[n], Reported(n, i)
       PROVE  OwnInv' /\ InHand'
    <2>1. UNCHANGED <<rowVars, sent, deaths, resets, cut>> /\ wpc[n] = "reports" /\ i \in Nat /\ i # NoId
      BY <1>7 DEF Reported, LinkInv, FetchedInv, TypeOK
    <2>2. \A m \in Nodes : \A j \in DOMAIN remote[m] :
             /\ j \in DOMAIN remote'[m] /\ remote'[m][j].task = remote[m][j].task
             /\ m # n \/ j # i => remote'[m][j].state = remote[m][j].state
      <3>1. CASE i \in DOMAIN remote[n]
        BY <1>7, <3>1, RemoteChange DEF Reported, DeleteRemote, RemoteStates
      <3>2. CASE i \notin DOMAIN remote[n]
        BY <1>7, <3>2 DEF Reported
      <3> QED BY <3>1, <3>2
    <2>3. \A m \in Nodes : fetched[m] \subseteq fetched'[m]
      <3>1. \/ UNCHANGED fetched
            \/ \E u \in Tasks : fetched' = [fetched EXCEPT ![n] = @ \cup {u}]
        BY <1>7 DEF Reported
      <3>2. ASSUME NEW u \in Tasks, fetched' = [fetched EXCEPT ![n] = @ \cup {u}]
            PROVE  \A m \in Nodes : fetched[m] \subseteq fetched'[m]
        BY <3>2 DEF TypeOK
      <3> QED BY <3>1, <3>2
    <2>4. resets = 0 => \A t \in Tasks : report'[t] \in {NoTask, t}
      <3> SUFFICES ASSUME resets = 0, NEW t \in Tasks PROVE report'[t] \in {NoTask, t}
        OBVIOUS
      <3>1. CASE report' = report
        BY <3>1 DEF OwnInv
      <3>2. CASE \E u \in Tasks : IsOwner(u, n, i) /\ report' = [report EXCEPT ![u] = remote[n][i].task]
        <4>1. PICK u \in Tasks : IsOwner(u, n, i) /\ report' = [report EXCEPT ![u] = remote[n][i].task]
          BY <3>2
        <4>2. remote[n][i].task = u
          BY <2>1, <4>1 DEF IsOwner, Owners, OwnInv, Holds
        <4> QED BY <4>1, <4>2 DEF OwnInv, TypeOK
      <3> QED BY <1>7, <3>1, <3>2 DEF Reported
    <2>5. OwnInv'
      <3>1. \A t \in Tasks : sent[n][t] = NoId
        BY <2>1 DEF LinkInv, WorkerInv
      <3> QED BY <2>1, <2>2, <2>4, <3>1 DEF OwnInv, Holds
    <2>6. InHand'
      <3> SUFFICES ASSUME deaths = 0, resets = 0, ~cut, NEW t \in Tasks, status[t] = "processing"
                   PROVE  \/ /\ taskId[t] \in DOMAIN remote'[node[t]]
                             /\ remote'[node[t]][taskId[t]].task = t
                             /\ remote'[node[t]][taskId[t]].state # "deleted"
                          \/ t \in fetched'[node[t]]
        BY <2>1 DEF InHand
      <3>1. node[t] \in Nodes /\ taskId[t] \in DOMAIN remote[node[t]]
            /\ remote[node[t]][taskId[t]].task = t
        BY DEF OwnInv, Holds, LinkInv, ColumnInv
      <3>2. CASE node[t] # n \/ taskId[t] # i
        BY <2>2, <2>3, <3>1, <3>2 DEF InHand
      <3>3. CASE node[t] = n /\ taskId[t] = i
        <4>1. t \in Owners(n, i)
          BY <3>3 DEF Owners
        <4>2. PICK u \in Tasks : IsOwner(u, n, i) /\ fetched' = [fetched EXCEPT ![n] = @ \cup {u}]
          BY <1>7, <4>1 DEF Reported
        <4>3. u = t
          BY <2>1, <3>1, <3>3, <4>2 DEF IsOwner, Owners, OwnInv, Holds
        <4> QED BY <3>3, <4>2, <4>3 DEF TypeOK
      <3> QED BY <3>2, <3>3
    <2> QED BY <2>5, <2>6
  <1>8. ASSUME NEW n \in Nodes, Analyse(n)
       PROVE  OwnInv' /\ InHand'
    <2>1. UNCHANGED <<rowVars, report, sent, fetched, deaths, resets, cut>>
      BY <1>8 DEF Analyse
    <2>2. PICK i \in DOMAIN remote[n], s \in {"reported", "failed"} :
             remote' = [remote EXCEPT ![n] = [@ EXCEPT ![i].state = s]]
      BY <1>8 DEF Analyse, Ids
    <2>3. \A m \in Nodes : \A j \in DOMAIN remote[m] :
             /\ j \in DOMAIN remote'[m] /\ remote'[m][j].task = remote[m][j].task
             /\ remote[m][j].state # "deleted" => remote'[m][j].state # "deleted"
      BY <2>2, RemoteChange DEF RemoteStates
    <2>4. OwnInv'
      BY <2>1, <2>3 DEF OwnInv, Holds
    <2>5. \A t \in Tasks : resets = 0 /\ status[t] = "processing" => node[t] \in Nodes
      BY DEF OwnInv, Holds, LinkInv, ColumnInv
    <2>6. InHand'
      BY <2>1, <2>3, <2>5 DEF InHand
    <2> QED BY <2>4, <2>6
  <1>9. ASSUME NEW n \in Nodes, Reset(n)
       PROVE  OwnInv' /\ InHand'
    <2>1. resets' # 0
      BY <1>9 DEF Reset, TypeOK
    <2> QED BY <2>1 DEF OwnInv, InHand
  <1>10. ASSUME NEW n \in Nodes, WorkerDies(n)
       PROVE  OwnInv' /\ InHand'
    <2>1. deaths' # 0 /\ UNCHANGED <<rowVars, report, remote, resets>>
      BY <1>10 DEF WorkerDies, TypeOK
    <2>2. \A m \in Nodes, t \in Tasks : sent'[m][t] \in {NoId, sent[m][t]}
      BY <1>10 DEF WorkerDies, Die, TypeOK
    <2> QED BY <2>1, <2>2 DEF OwnInv, Holds, InHand
  <1>11. ASSUME NEW n \in Nodes, Restart(n)
       PROVE  OwnInv' /\ InHand'
    BY <1>11 DEF Restart, OwnInv, Holds, InHand
  <1>12. ASSUME NEW n \in Nodes, Enable(n)
       PROVE  OwnInv' /\ InHand'
    BY <1>12 DEF Enable, OwnInv, Holds, InHand
  <1>13. ASSUME NEW n \in Nodes, Disable(n)
       PROVE  OwnInv' /\ InHand'
    BY <1>13 DEF Disable, OwnInv, Holds, InHand
  <1>14. ASSUME Assign
       PROVE  OwnInv' /\ InHand'
    <2>1. UNCHANGED <<taskId, remote, sent, fetched, report, resets, deaths, cut>>
      BY <1>14 DEF Assign
    <2>2. \A t \in Tasks : taskId[t] # NoId => node'[t] = node[t] /\ status'[t] = status[t]
      BY <1>14 DEF Assign, LinkInv, PickedInv, ColumnInv, TypeOK
    <2>3. \A t \in Tasks : status'[t] = "processing" => taskId[t] # NoId
      BY <1>14 DEF Assign, LinkInv, ColumnInv, TypeOK
    <2> QED BY <2>1, <2>2, <2>3 DEF OwnInv, Holds, InHand
  <1>15. ASSUME RestartScheduler
       PROVE  OwnInv' /\ InHand'
    BY <1>15 DEF RestartScheduler, OwnInv, Holds, InHand
  <1>16. ASSUME NEW t \in Tasks, TaskPost(t)
       PROVE  OwnInv' /\ InHand'
    <2>1. UNCHANGED <<node, taskId, remote, sent, fetched, report, resets, deaths, cut>>
      BY <1>16 DEF TaskPost
    <2>2. \A u \in Tasks : status'[u] = "processing" => status[u] = "processing"
      BY <1>16 DEF TaskPost, TypeOK
    <2> QED BY <2>1, <2>2 DEF OwnInv, Holds, InHand
  <1>20. ASSUME NEW t \in Tasks, TaskDelete(t)
       PROVE  OwnInv' /\ InHand'
    BY <1>20 DEF TaskDelete, OwnInv, Holds, InHand
  <1>17. ASSUME NEW t \in Tasks, TaskUnlink(t)
       PROVE  OwnInv' /\ InHand'
    <2>1. UNCHANGED <<rowVars, remote, sent, fetched, resets, deaths, cut>>
      BY <1>17 DEF TaskUnlink
    <2>2. \A u \in Tasks : report'[u] \in {NoTask, report[u]}
      BY <1>17 DEF TaskUnlink, TypeOK
    <2> QED BY <2>1, <2>2 DEF OwnInv, Holds, InHand
  <1>18. ASSUME NEW t \in Tasks, TaskDeleteCommit(t)
       PROVE  OwnInv' /\ InHand'
    <2>1. UNCHANGED <<node, taskId, remote, sent, fetched, report, resets, deaths, cut>>
      BY <1>18 DEF TaskDeleteCommit
    <2>2. \A u \in Tasks : status'[u] = "processing" => status[u] = "processing"
      BY <1>18 DEF TaskDeleteCommit, TypeOK
    <2> QED BY <2>1, <2>2 DEF OwnInv, Holds, InHand
  <1>19. CASE UNCHANGED vars
    BY <1>19 DEF vars, OwnInv, Holds, InHand
  <1> QED
    BY <1>1, <1>2, <1>3, <1>4, <1>5, <1>6, <1>7, <1>8, <1>9, <1>10, <1>11, <1>12, <1>13, <1>14, <1>15, <1>16, <1>17, <1>18, <1>19, <1>20
       DEF Next, Worker, Node, Admin, Client

LEMMA Links == Spec => [](TypeOK /\ LinkInv)
  <1>1. Init => LinkInv
    BY DEF Init, LinkInv, ColumnInv, DeleteInv, PickedInv, SentInv, FetchedInv, WorkerInv,
           NoTask, NoId
  <1> QED BY <1>1, TypeCorrect, LinkStep, PTL DEF Spec

LEMMA Owned == Spec => [](OwnInv /\ InHand)
  <1>1. Init => OwnInv /\ InHand
    BY DEF Init, OwnInv, InHand, NoTask, NoId
  <1> QED BY <1>1, Links, OwnStep, PTL DEF Spec

-----------------------------------------------------------------------------
(* A client is never served the report of somebody else's sample, however often workers
   die and submit again, as long as no node is set up anew. *)
THEOREM ReportIsOwn == Spec => []OwnReport
  <1>1. OwnInv => OwnReport
    BY DEF OwnInv, OwnReport, Served
  <1> QED BY <1>1, Owned, PTL

(* While nothing dies, the analysis of every task in work is on its node, or in the hands of
   the worker. *)
THEOREM WorkInHand == Spec => []InHand
  BY Owned, PTL

(* No session of the scheduler or of a worker takes a finished task back: only a deletion
   changes its status, and takes the row away only when it had loaded it as pending. *)
THEOREM FinishedForGood == Spec => FinishedStays
  <1>1. ASSUME TypeOK, LinkInv, [Next]_vars, NEW t \in Tasks, status[t] = "finished"
        PROVE  \/ status'[t] \in {"finished", "deleted"}
               \/ status'[t] = "gone" /\ del[t] = "remove"
    <2> USE <1>1 DEF rowVars, TypeOK
    <2>1. taskId[t] # NoId
      BY DEF LinkInv, ColumnInv
    <2>2. CASE status'[t] = status[t]
      BY <2>2
    <2>3. CASE Assign
      BY <2>3 DEF Assign, LinkInv, PickedInv
    <2>4. ASSUME NEW n \in Nodes, SubmitCommit(n) PROVE status'[t] = status[t]
      BY <2>1, <2>4 DEF SubmitCommit, LinkInv, SentInv
    <2>5. ASSUME NEW n \in Nodes, FetchCommit(n) PROVE status'[t] \in {"finished", status[t]}
      BY <2>5 DEF FetchCommit
    <2>6. ASSUME NEW u \in Tasks, TaskPost(u) PROVE status'[t] = status[t]
      BY <2>6 DEF TaskPost
    <2>7. ASSUME NEW u \in Tasks, TaskDeleteCommit(u)
          PROVE  \/ status'[t] \in {"finished", "deleted"}
                 \/ status'[t] = "gone" /\ del[t] = "remove"
      BY <2>7 DEF TaskDeleteCommit
    <2>8. ASSUME NEW n \in Nodes,
                 \/ Schedule(n) \/ Load(n) \/ FetchTasks(n) \/ Node(n) \/ Admin(n)
                 \/ \E u \in Tasks : SubmitTask(n, u)
                 \/ \E i \in toFetch[n] : Reported(n, i)
          PROVE  status' = status
      BY <2>8 DEF Schedule, Load, FetchTasks, Node, Analyse, Reset, WorkerDies, Restart, Admin,
                  Enable, Disable, SubmitTask, Reported
    <2>9. CASE RestartScheduler \/ UNCHANGED vars
      BY <2>9 DEF RestartScheduler, vars
    <2>10. ASSUME NEW u \in Tasks, TaskDelete(u) \/ TaskUnlink(u) PROVE status' = status
      BY <2>10 DEF TaskDelete, TaskUnlink
    <2> QED BY <2>2, <2>3, <2>4, <2>5, <2>6, <2>7, <2>8, <2>9, <2>10 DEF Next, Worker, Client
  <1>2. TypeOK /\ LinkInv /\ [Next]_vars
        => [\A t \in Tasks : status[t] = "finished" =>
              \/ status'[t] \in {"finished", "deleted"}
              \/ status'[t] = "gone" /\ del[t] = "remove"]_vars
    BY <1>1
  <1> QED BY <1>2, Links, PTL DEF Spec, FinishedStays
=============================================================================
