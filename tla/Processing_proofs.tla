-------------------------- MODULE Processing_proofs --------------------------
(***************************************************************************)
(* Proofs about Processing, for any number of tasks, instances and deaths, *)
(* any threshold and maximum: the window of process.py skips the pending   *)
(* rows and no others, and neither program starts on a task twice.  And    *)
(* about Plugins, which process the results of a task: no signature misses *)
(* a match or a call it waits for, and one analysis at a time goes over    *)
(* every processing and reporting module.                                  *)
(***************************************************************************)
EXTENDS Processing, Plugins, Lists_proofs, FiniteSetTheorems, TLAPS

(* Until a task is committed late, no two completed rows have one time. *)
TimesInv ==
    ~late => \A t, u \in Completed : t # u => completed_on[t] # completed_on[u]

Window == pending \cup batch

(* The rows of S are listed before all others, in whatever order the database lists
   rows with one time. *)
Ahead(S) == \A t \in S, u \in Completed \ S : completed_on[t] < completed_on[u]

(* The rows process.py has taken are completed ones and, until a task is committed
   late, the first ones of the list: those it has submitted before those it has still
   to submit. *)
WindowInv ==
    program = "process" /\ disturbed = {} =>
        /\ Window \subseteq Completed
        /\ ~late => pending \cap batch = {} /\ Ahead(pending) /\ Ahead(Window)

(* process.py: a task with a result is pending, and so is one that was lost. *)
PoolInv ==
    program = "process" =>
        /\ \A i \in Instances : claim[i] = NoTask
        /\ \A t \in Tasks : processing[t] = NoInstance
        /\ \A t \in Tasks : result[t] # "none" => t \in pending
        /\ todo \subseteq pending /\ lost \subseteq pending
        /\ \A t \in lost : result[t] = "working"
        /\ apc \notin {"submit", "dead"} => batch = {}

Final == {"reported", "failed_processing"}

(* process2.py: a task an instance is at carries its mark, has no result in the
   table and was not lost; a task with a result, or lost, keeps its mark. *)
ClaimInv ==
    program = "process2" =>
        /\ apc = "maintain" /\ pending = {} /\ todo = {} /\ batch = {}
        /\ \A i \in Instances :
              claim[i] # NoTask => /\ processing[claim[i]] = i
                                   /\ claim[i] \notin lost
                                   /\ status[claim[i]] \notin Final
        /\ \A t \in Tasks :
              status[t] \in Final \/ t \in lost => processing[t] # NoInstance

IInv == TypeOK /\ TimesInv /\ WindowInv /\ PoolInv /\ ClaimInv

-----------------------------------------------------------------------------
(* Lemmas about rows ordered by time *)

(* There are finitely many rows. *)
LEMMA FiniteRows ==
  ASSUME NEW S \in SUBSET Tasks
  PROVE  IsFiniteSet(S) /\ Cardinality(S) \in Nat
  <1>1. IsFiniteSet(Tasks)
    BY ProcessingAssumption, FS_Interval DEF Tasks
  <1> QED
    BY <1>1, FS_Subset, FS_CardinalityType

(* Rows that are ahead of all others are the first rows, and no other rows can be. *)
LEMMA OnlyFirst ==
  ASSUME TypeOK, NEW S \in SUBSET Completed, Ahead(S)
  PROVE  FirstRows(Cardinality(S)) = {S}
  <1>1. Completed \subseteq Tasks /\ completed_on \in [Tasks -> Nat]
    BY DEF Completed, TypeOK
  <1>2. /\ IsFiniteSet(S) /\ Cardinality(S) \in Nat /\ IsFiniteSet(Completed)
        /\ Cardinality(Completed) \in Nat
    BY <1>1, FiniteRows
  <1>3. Least(Cardinality(S), Cardinality(Completed)) = Cardinality(S)
    <2>1. Cardinality(S) <= Cardinality(Completed)
      BY <1>2, FS_Subset
    <2> QED
      BY <1>2, <2>1 DEF Least
  <1>4. S \in FirstRows(Cardinality(S))
    <2>1. Foremost(S, Completed)
      BY <1>1 DEF Foremost, Ahead
    <2> QED
      BY <1>3, <2>1 DEF FirstRows
  <1>5. ASSUME NEW P \in FirstRows(Cardinality(S)) PROVE P = S
    <2>1. /\ P \in SUBSET Completed /\ Foremost(P, Completed)
          /\ Cardinality(P) = Cardinality(S)
      BY <1>3 DEF FirstRows
    <2>2. IsFiniteSet(P)
      BY <1>1, <2>1, FiniteRows
    <2>3. ASSUME NEW x \in P, x \notin S PROVE FALSE
      <3>1. S \subseteq P
        <4> SUFFICES ASSUME NEW y \in S, y \notin P PROVE FALSE
          OBVIOUS
        <4>1. completed_on[y] < completed_on[x]
          BY <2>1, <2>3 DEF Ahead
        <4>2. completed_on[x] <= completed_on[y]
          BY <2>1 DEF Foremost
        <4> QED
          BY <1>1, <2>1, <4>1, <4>2
      <3>2. S = P
        BY <2>1, <2>2, <3>1, FS_Subset
      <3> QED
        BY <2>3, <3>2
    <2>4. P \in SUBSET S
      BY <2>3
    <2> QED
      BY <1>2, <2>1, <2>4, FS_Subset
  <1> QED
    BY <1>4, <1>5

(* An empty table, nothing taken. *)
LEMMA InitInv == Init => IInv
  <1> SUFFICES ASSUME Init PROVE IInv
    OBVIOUS
  <1>1. TypeOK
    <2>1. /\ others \in 0..MaxOthers /\ deaths \in 0..MaxDeaths
          /\ clock \in Nat /\ count \in Nat /\ completed_on \in [Tasks -> Nat]
      BY ProcessingAssumption DEF Init
    <2>2. /\ status \in [Tasks -> Statuses] /\ result \in [Tasks -> Results]
          /\ processing \in [Tasks -> Instances \cup {NoInstance}]
          /\ claim \in [Instances -> Tasks \cup {NoTask}]
      BY DEF Init, Statuses, Results
    <2> QED
      BY <2>1, <2>2 DEF Init, TypeOK
  <1>2. TimesInv
    <2>1. Completed = {}
      BY DEF Init, Completed
    <2> QED
      BY <2>1 DEF TimesInv
  <1>3. WindowInv
    BY DEF Init, WindowInv, Window, Ahead
  <1>4. PoolInv
    BY DEF Init, PoolInv
  <1>5. ClaimInv
    BY DEF Init, ClaimInv, Final
  <1> QED
    BY <1>1, <1>2, <1>3, <1>4, <1>5 DEF IInv

(* The number 0 names no task. *)
LEMMA NoTaskIsNone == NoTask \notin Tasks
  BY ProcessingAssumption DEF NoTask, Tasks

-----------------------------------------------------------------------------
(* Types *)

(* Every step keeps the types. *)
LEMMA TypeStep == IInv /\ [Next]_vars => TypeOK'
  <1> SUFFICES ASSUME IInv, [Next]_vars PROVE TypeOK'
    OBVIOUS
  <1> USE DEF tableVars, timeVars, autoVars, instVars, otherVars, faultVars, Statuses,
              Results
  <1>1. TypeOK
    BY DEF IInv
  <1>2. CASE Decide
    BY <1>1, <1>2 DEF Decide, TypeOK
  <1>3. CASE Query
    BY <1>1, <1>3 DEF Query, TypeOK, ListTasks, Completed
  <1>31. ASSUME NEW c \in stamps, Complete(c) PROVE TypeOK'
    <2>1. c.task \in Tasks /\ c.time \in Nat
      BY <1>1 DEF TypeOK, Stamps
    <2>2. /\ status' \in [Tasks -> Statuses] /\ completed_on' \in [Tasks -> Nat]
          /\ stamps' \subseteq Stamps /\ disturbed' \subseteq Tasks
      BY <1>1, <1>31, <2>1 DEF Complete, SetStatus, TypeOK
    <2>3. late' \in BOOLEAN
      BY <1>1, <1>31 DEF Complete, TypeOK
    <2> QED
      BY <1>1, <1>31, <2>2, <2>3 DEF Complete, TypeOK
  <1>4. ASSUME NEW t \in Tasks, ReapReady(t) PROVE TypeOK'
    BY <1>1, <1>4 DEF ReapReady, SetStatus, TypeOK
  <1>5. ASSUME NEW t \in Tasks, SkipUnready(t) PROVE TypeOK'
    BY <1>1, <1>5 DEF SkipUnready, TypeOK
  <1>6. ASSUME NEW t \in Tasks, Submit(t) PROVE TypeOK'
    BY <1>1, <1>6 DEF Submit, TypeOK
  <1>7. ASSUME NEW t \in Tasks, WorkerDone(t) PROVE TypeOK'
    BY <1>1, <1>7 DEF WorkerDone, TypeOK
  <1>8. ASSUME NEW t \in Tasks, WorkerDies(t) PROVE TypeOK'
    BY <1>1, <1>8, ProcessingAssumption DEF WorkerDies, TypeOK
  <1>9. ASSUME NEW t \in Tasks, Analyse(t) PROVE TypeOK'
    BY <1>1, <1>9 DEF Analyse, TypeOK
  <1>10. ASSUME NEW t \in Tasks, Analysed(t) \/ ImportDone(t) PROVE TypeOK'
    <2>1. PICK by \in {"thread", "import"} : Stamp(t, by)
      BY <1>10 DEF Analysed, ImportDone
    <2>2. clock' \in Nat /\ stamps' \subseteq Stamps
      BY <1>1, <2>1 DEF Stamp, Stamps, TypeOK
    <2>3. analysing' \subseteq Tasks /\ importing' \subseteq Tasks
      BY <1>1, <1>10 DEF Analysed, ImportDone, TypeOK
    <2> QED
      BY <1>1, <2>1, <2>2, <2>3 DEF Stamp, TypeOK
  <1>11. ASSUME NEW t \in Tasks, ImportAdd(t) PROVE TypeOK'
    BY <1>1, <1>11, ProcessingAssumption DEF ImportAdd, TypeOK
  <1>12. ASSUME NEW t \in Tasks, Delete(t) \/ Reschedule(t) PROVE TypeOK'
    BY <1>1, <1>12, ProcessingAssumption DEF Delete, Reschedule, TakeAway, TypeOK
  <1>13. ASSUME NEW i \in Instances, ViewTask(i) PROVE TypeOK'
    BY <1>1, <1>13 DEF ViewTask, TypeOK
  <1>14. ASSUME NEW i \in Instances, InstanceDone(i) PROVE TypeOK'
    BY <1>1, <1>14 DEF InstanceDone, TypeOK
  <1>15. ASSUME NEW i \in Instances, StoreStatus(i) PROVE TypeOK'
    BY <1>1, <1>15 DEF StoreStatus, SetStatus, TypeOK
  <1>16. ASSUME NEW i \in Instances, NEW t \in Tasks, Claim(i, t) PROVE TypeOK'
    BY <1>1, <1>16 DEF Claim, TypeOK
  <1>17. ASSUME NEW i \in Instances, InstanceDies(i) PROVE TypeOK'
    BY <1>1, <1>17, ProcessingAssumption DEF InstanceDies, TypeOK
  <1>18. CASE UNCHANGED vars
    BY <1>1, <1>18 DEF vars, TypeOK
  <1>19. CASE AutoProcess
    BY <1>2, <1>3, <1>4, <1>5, <1>6, <1>19 DEF AutoProcess
  <1>20. ASSUME NEW t \in Tasks, Others(t) PROVE TypeOK'
    BY <1>9, <1>10, <1>11, <1>12, <1>20 DEF Others
  <1>21. ASSUME NEW i \in Instances, Instance(i) PROVE TypeOK'
    BY <1>13, <1>14, <1>15, <1>16, <1>21 DEF Instance
  <1> QED
    BY <1>7, <1>8, <1>17, <1>18, <1>19, <1>20, <1>21, <1>31 DEF Next

-----------------------------------------------------------------------------
(* The list and the window *)

(* Rows may leave the list when nobody has taken them. *)
LEMMA RowsLeave ==
  ASSUME TypeOK, TimesInv, WindowInv, Completed' \subseteq Completed,
         UNCHANGED <<program, timeVars, pending, batch>>, disturbed \subseteq disturbed',
         program = "process" /\ disturbed' = {} => Window \subseteq Completed'
  PROVE  TimesInv' /\ WindowInv'
  <1>1. TimesInv'
    BY DEF TimesInv, timeVars
  <1>2. WindowInv'
    BY DEF WindowInv, Window, Ahead, timeVars
  <1> QED
    BY <1>1, <1>2

(* A row that completes comes last in the list or is late, and was not taken. *)
LEMMA CompleteStep ==
  ASSUME TypeOK, TimesInv, WindowInv, NEW c \in stamps, Complete(c)
  PROVE  TimesInv' /\ WindowInv'
  <1>0. /\ UNCHANGED <<program, pending, batch>> /\ c.task \in Tasks /\ c.time \in Nat
        /\ Completed \subseteq Tasks /\ completed_on \in [Tasks -> Nat]
    BY DEF Complete, autoVars, TypeOK, Stamps, Completed
  <1>1. CASE status[c.task] = "deleted"
    <2>1. status' = status /\ UNCHANGED <<completed_on, late, disturbed>>
      BY <1>0, <1>1 DEF Complete, SetStatus, TypeOK
    <2>2. Completed' = Completed
      BY <2>1 DEF Completed
    <2> QED
      BY <1>0, <2>1, <2>2 DEF TimesInv, WindowInv, Window, Ahead
  <1>2. CASE status[c.task] # "deleted"
    <2>1. /\ completed_on' = [completed_on EXCEPT ![c.task] = c.time]
          /\ status' = [status EXCEPT ![c.task] = "completed"]
          /\ disturbed' = IF Taken(c.task) THEN disturbed \cup {c.task} ELSE disturbed
          /\ late' = (late \/ \E u \in Completed \ {c.task} : completed_on[u] >= c.time)
      BY <1>2 DEF Complete, SetStatus, TypeOK
    <2>2. Completed' = Completed \cup {c.task}
      BY <1>0, <2>1 DEF Completed, TypeOK
    <2>3. /\ completed_on'[c.task] = c.time
          /\ \A u \in Tasks \ {c.task} : completed_on'[u] = completed_on[u]
      BY <1>0, <2>1 DEF TypeOK
    <2>4. ASSUME ~late'
          PROVE  ~late /\ \A u \in Completed \ {c.task} : completed_on'[u] < c.time
      <3>1. ~late /\ ~\E u \in Completed \ {c.task} : completed_on[u] >= c.time
        BY <2>1, <2>4, Zenon
      <3> QED
        BY <1>0, <2>3, <3>1
    <2>5. TimesInv'
      BY <1>0, <2>2, <2>3, <2>4 DEF TimesInv
    <2>6. ASSUME program' = "process", disturbed' = {}
          PROVE  /\ c.task \notin Window /\ Window' = Window
                 /\ program = "process" /\ disturbed = {}
      BY <1>0, <2>1, <2>6 DEF Taken, Window
    <2>7. ASSUME NEW S \in SUBSET Completed, c.task \notin S, Ahead(S), ~late'
          PROVE  \A t \in S, u \in Completed' \ S : completed_on'[t] < completed_on'[u]
      <3> SUFFICES ASSUME NEW t \in S, NEW u \in Completed' \ S
                   PROVE  completed_on'[t] < completed_on'[u]
        OBVIOUS
      <3>1. CASE u = c.task
        BY <2>3, <2>4, <2>7, <3>1
      <3>2. CASE u # c.task
        BY <1>0, <2>2, <2>3, <2>7, <3>2 DEF Ahead
      <3> QED
        BY <3>1, <3>2
    <2>8. WindowInv'
      <3> SUFFICES ASSUME program' = "process", disturbed' = {}
                   PROVE  /\ Window' \subseteq Completed'
                          /\ ~late' => /\ pending' \cap batch' = {}
                                       /\ Ahead(pending)' /\ Ahead(Window)'
        BY DEF WindowInv
      <3>1. Window \subseteq Completed
        BY <2>6 DEF WindowInv
      <3>2. ASSUME ~late' PROVE pending \cap batch = {} /\ Ahead(pending) /\ Ahead(Window)
        BY <2>4, <2>6, <3>2 DEF WindowInv
      <3>3. ASSUME ~late' PROVE Ahead(pending)'
        <4>1. pending \in SUBSET Completed /\ c.task \notin pending
          BY <2>6, <3>1 DEF Window
        <4> QED
          BY <1>0, <2>7, <3>2, <3>3, <4>1 DEF Ahead
      <3>4. ASSUME ~late' PROVE Ahead(Window)'
        BY <2>6, <2>7, <3>1, <3>2, <3>4 DEF Ahead
      <3> QED
        BY <1>0, <2>2, <2>6, <3>1, <3>2, <3>3, <3>4
    <2> QED
      BY <2>5, <2>8
  <1> QED
    BY <1>1, <1>2

(* What the query returns are the rows right after the window. *)
LEMMA QueryStep ==
  ASSUME TypeOK, TimesInv, WindowInv, PoolInv, Query
  PROVE  TimesInv' /\ WindowInv'
  <1>0. /\ UNCHANGED <<program, status, timeVars, pending, disturbed>>
        /\ batch' \in ListTasks(Cardinality(pending), Limit)
    BY DEF Query, tableVars
  <1>1. Completed' = Completed /\ UNCHANGED <<completed_on, late>>
    BY <1>0 DEF Completed, timeVars
  <1>2. TimesInv'
    BY <1>1 DEF TimesInv
  <1>3. PICK P \in FirstRows(Cardinality(pending)) :
           P \cap batch' = {} /\ P \cup batch' \in FirstRows(Cardinality(pending) + Limit)
    BY <1>0 DEF ListTasks
  <1>4. batch' \subseteq Completed
    BY <1>0 DEF ListTasks
  <1>5. ASSUME program = "process", disturbed = {}
        PROVE  batch = {} /\ pending \in SUBSET Completed
    BY <1>5 DEF Query, PoolInv, WindowInv, Window
  <1>6. ASSUME program = "process", disturbed = {}, ~late
        PROVE  pending \cap batch' = {} /\ Ahead(pending) /\ Ahead(pending \cup batch')
    <2>1. pending \in SUBSET Completed /\ Ahead(pending)
      BY <1>5, <1>6 DEF WindowInv
    <2>2. P = pending
      BY <1>3, <2>1, OnlyFirst
    <2>3. Foremost(P \cup batch', Completed)
      BY <1>3 DEF FirstRows
    <2>4. ASSUME NEW t \in pending \cup batch', NEW u \in Completed \ (pending \cup batch')
          PROVE  completed_on[t] < completed_on[u]
      <3>1. completed_on[t] <= completed_on[u]
        BY <2>2, <2>3, <2>4 DEF Foremost
      <3>2. t \in Completed /\ u \in Completed /\ t # u
        BY <1>4, <2>1, <2>4
      <3>3. t \in Tasks /\ u \in Tasks
        BY <3>2 DEF Completed
      <3>4. completed_on[t] # completed_on[u]
        BY <1>6, <3>2 DEF TimesInv
      <3> QED
        BY <3>1, <3>3, <3>4 DEF TypeOK
    <2> QED
      BY <1>3, <2>1, <2>2, <2>4 DEF Ahead
  <1> QED
    BY <1>0, <1>1, <1>2, <1>4, <1>5, <1>6 DEF WindowInv, Window, Ahead

(* The row submitted next is the first of those that are not pending. *)
LEMMA SubmitStep ==
  ASSUME TypeOK, TimesInv, WindowInv, NEW t \in Tasks, Submit(t)
  PROVE  TimesInv' /\ WindowInv'
  <1>0. UNCHANGED <<program, status, timeVars, disturbed>> /\ t \in batch
    BY DEF Submit, tableVars
  <1>1. Completed' = Completed /\ UNCHANGED <<completed_on, late>>
    BY <1>0 DEF Completed, timeVars
  <1>2. TimesInv'
    BY <1>1 DEF TimesInv
  <1>3. Window' = Window
    BY <1>0 DEF Submit, Window
  <1>4. ASSUME program = "process", disturbed = {}, ~late
        PROVE  /\ pending' = pending \cup {t} /\ batch' = batch \ {t}
               /\ pending' \cap batch' = {}
               /\ \A x \in pending', u \in Completed \ pending' :
                     completed_on[x] < completed_on[u]
    <2>1. pending \cap batch = {} /\ Ahead(pending) /\ Ahead(Window)
          /\ Window \subseteq Completed
      BY <1>4 DEF WindowInv
    <2>2. pending' = pending \cup {t} /\ batch' = batch \ {t}
      BY <1>0, <2>1 DEF Submit
    <2>3. ASSUME NEW u \in Completed, u \notin pending, u # t
          PROVE  completed_on[t] < completed_on[u]
      <3>1. CASE u \in batch
        <4>1. completed_on[t] <= completed_on[u]
          BY <1>4, <2>3, <3>1 DEF Submit, Foremost
        <4>2. t \in Completed /\ completed_on[t] # completed_on[u]
          BY <1>0, <1>4, <2>1, <2>3 DEF TimesInv, Window
        <4> QED
          BY <2>3, <4>1, <4>2 DEF TypeOK, Completed
      <3>2. CASE u \notin batch
        BY <1>0, <2>1, <2>3, <3>2 DEF Ahead, Window
      <3> QED
        BY <3>1, <3>2
    <2> QED
      BY <2>1, <2>2, <2>3 DEF Ahead
  <1> QED
    BY <1>0, <1>1, <1>2, <1>3, <1>4 DEF WindowInv, Ahead

(* A row whose result is stored leaves the list and the window at once. *)
LEMMA ReapStep ==
  ASSUME TypeOK, TimesInv, WindowInv, PoolInv, NEW t \in Tasks, ReapReady(t)
  PROVE  TimesInv' /\ WindowInv'
  <1>0. /\ UNCHANGED <<program, completed_on, late, batch, disturbed>>
        /\ pending' = pending \ {t}
    BY DEF ReapReady, timeVars
  <1>1. Completed' = Completed \ {t}
    BY DEF ReapReady, SetStatus, Completed, TypeOK
  <1>2. TimesInv'
    BY <1>0, <1>1 DEF TimesInv
  <1>3. ASSUME program = "process" PROVE batch = {} /\ Window' = Window \ {t}
    BY <1>0, <1>3 DEF ReapReady, PoolInv, Window
  <1>4. WindowInv'
    BY <1>0, <1>1, <1>3 DEF WindowInv, Window, Ahead
  <1> QED
    BY <1>2, <1>4

(* Every step keeps the order of the list, and the window at its start. *)
LEMMA ListStep == IInv /\ [Next]_vars => TimesInv' /\ WindowInv'
  <1> SUFFICES ASSUME IInv, [Next]_vars PROVE TimesInv' /\ WindowInv'
    OBVIOUS
  <1>1. TypeOK /\ TimesInv /\ WindowInv /\ PoolInv /\ ClaimInv
    BY DEF IInv
  <1>2. ASSUME UNCHANGED <<program, status, completed_on, late, pending, batch, disturbed>>
        PROVE  TimesInv' /\ WindowInv'
    BY <1>1, <1>2 DEF TimesInv, WindowInv, Window, Ahead, Completed, timeVars
  <1>3. CASE AutoProcess
    <2>1. CASE Decide
      BY <1>2, <2>1 DEF Decide, tableVars, timeVars
    <2>2. ASSUME NEW t \in Tasks, SkipUnready(t) PROVE TimesInv' /\ WindowInv'
      BY <1>2, <2>2 DEF SkipUnready, tableVars, timeVars
    <2>3. CASE Query
      BY <1>1, <2>3, QueryStep
    <2>4. ASSUME NEW t \in Tasks, Submit(t) \/ ReapReady(t) PROVE TimesInv' /\ WindowInv'
      BY <1>1, <2>4, SubmitStep, ReapStep
    <2> QED
      BY <1>3, <2>1, <2>2, <2>3, <2>4 DEF AutoProcess
  <1>4. ASSUME NEW t \in Tasks, WorkerDone(t) \/ WorkerDies(t)
        PROVE  TimesInv' /\ WindowInv'
    BY <1>2, <1>4 DEF WorkerDone, WorkerDies, tableVars, timeVars, autoVars
  <1>5. ASSUME NEW t \in Tasks, Others(t) PROVE TimesInv' /\ WindowInv'
    <2>1. CASE Analysed(t) \/ ImportDone(t)
      BY <1>2, <2>1 DEF Analysed, ImportDone, Stamp, autoVars
    <2>2. CASE Analyse(t) \/ ImportAdd(t)
      <3>1. UNCHANGED <<program, timeVars, pending, batch, disturbed>>
        BY <2>2 DEF Analyse, ImportAdd, autoVars
      <3>2. Completed' = Completed
        BY <1>1, <2>2 DEF Analyse, ImportAdd, IsNextId, Completed, TypeOK
      <3> QED
        BY <1>1, <3>1, <3>2 DEF TimesInv, WindowInv, Window, Ahead, timeVars
    <2>3. CASE Delete(t) \/ Reschedule(t)
      <3>1. /\ UNCHANGED <<program, timeVars, pending, batch>>
            /\ disturbed' = IF Taken(t) THEN disturbed \cup {t} ELSE disturbed
        BY <2>3 DEF Delete, Reschedule, TakeAway, autoVars
      <3>2. Completed' = Completed \ {t}
        BY <1>1, <2>3 DEF Delete, Reschedule, TakeAway, Completed, TypeOK
      <3>3. ASSUME program = "process", disturbed' = {} PROVE Window \subseteq Completed'
        BY <1>1, <3>1, <3>2, <3>3 DEF WindowInv, Window, Taken
      <3> QED
        BY <1>1, <3>1, <3>2, <3>3, RowsLeave DEF timeVars
    <2> QED
      BY <1>5, <2>1, <2>2, <2>3 DEF Others
  <1>6. ASSUME NEW i \in Instances, Instance(i) \/ InstanceDies(i)
        PROVE  TimesInv' /\ WindowInv'
    <2>1. CASE ViewTask(i) \/ InstanceDone(i) \/ InstanceDies(i)
      BY <1>2, <2>1 DEF ViewTask, InstanceDone, InstanceDies, tableVars, timeVars, autoVars
    <2>2. ASSUME NEW t \in Tasks, Claim(i, t) PROVE TimesInv' /\ WindowInv'
      BY <1>2, <2>2 DEF Claim, timeVars, autoVars
    <2>3. CASE StoreStatus(i)
      <3>1. UNCHANGED <<program, timeVars, pending, batch, disturbed>>
        BY <2>3 DEF StoreStatus, autoVars
      <3>2. Completed' \subseteq Completed
        BY <1>1, <2>3 DEF StoreStatus, SetStatus, Completed, TypeOK
      <3>3. program # "process"
        BY <1>1, <2>3 DEF StoreStatus, PoolInv
      <3> QED
        BY <1>1, <3>1, <3>2, <3>3, RowsLeave DEF timeVars
    <2> QED
      BY <1>6, <2>1, <2>2, <2>3 DEF Instance
  <1>7. CASE UNCHANGED vars
    BY <1>2, <1>7 DEF vars, tableVars, timeVars, autoVars
  <1>8. ASSUME NEW c \in stamps, Complete(c) PROVE TimesInv' /\ WindowInv'
    BY <1>1, <1>8, CompleteStep
  <1> QED
    BY <1>3, <1>4, <1>5, <1>6, <1>7, <1>8 DEF Next

-----------------------------------------------------------------------------
(* Results, marks and the lost *)

(* Every step of process.py keeps its results with the pending tasks; no instance of
   process2.py runs beside it. *)
LEMMA PoolStep == IInv /\ [Next]_vars => PoolInv'
  <1> SUFFICES ASSUME IInv, [Next]_vars, program' = "process"
               PROVE  PoolInv'
    BY DEF PoolInv
  <1> USE DEF PoolInv, tableVars, autoVars, instVars, faultVars
  <1>1. TypeOK /\ PoolInv
    BY DEF IInv
  <1>2. CASE AutoProcess
    <2>1. CASE Decide
      BY <1>1, <2>1 DEF Decide
    <2>2. CASE Query
      BY <1>1, <2>2 DEF Query
    <2>3. ASSUME NEW t \in Tasks, ReapReady(t) PROVE PoolInv'
      BY <1>1, <2>3 DEF ReapReady, TypeOK
    <2>4. ASSUME NEW t \in Tasks, SkipUnready(t) PROVE PoolInv'
      BY <1>1, <2>4 DEF SkipUnready
    <2>5. ASSUME NEW t \in Tasks, Submit(t) PROVE PoolInv'
      BY <1>1, <2>5 DEF Submit, TypeOK
    <2> QED
      BY <1>2, <2>1, <2>2, <2>3, <2>4, <2>5 DEF AutoProcess
  <1>3. ASSUME NEW t \in Tasks, WorkerDone(t) PROVE PoolInv'
    BY <1>1, <1>3 DEF WorkerDone, TypeOK
  <1>4. ASSUME NEW t \in Tasks, WorkerDies(t) PROVE PoolInv'
    BY <1>1, <1>4 DEF WorkerDies
  <1>5. ASSUME NEW t \in Tasks, Others(t) PROVE PoolInv'
    BY <1>1, <1>5 DEF Others, Analyse, Analysed, ImportAdd, ImportDone, Delete, Reschedule,
       Stamp, TakeAway
  <1>51. ASSUME NEW c \in stamps, Complete(c) PROVE PoolInv'
    BY <1>1, <1>51 DEF Complete
  <1>6. ASSUME NEW i \in Instances, Instance(i) \/ InstanceDies(i) PROVE FALSE
    <2>1. program = "process"
      BY <1>6 DEF Instance, ViewTask, InstanceDone, StoreStatus, Claim, InstanceDies
    <2> QED
      BY <1>1, <1>6, <2>1 DEF Instance, ViewTask, InstanceDone, StoreStatus, Claim,
         InstanceDies
  <1>7. CASE UNCHANGED vars
    BY <1>1, <1>7 DEF vars
  <1> QED
    BY <1>2, <1>3, <1>4, <1>5, <1>51, <1>6, <1>7 DEF Next

(* Every step keeps the marks: an instance only takes rows without one, and no row
   loses it. *)
LEMMA ClaimStep == IInv /\ [Next]_vars => ClaimInv'
  <1> SUFFICES ASSUME IInv, [Next]_vars, program' = "process2" PROVE ClaimInv'
    BY DEF ClaimInv
  <1> USE DEF ClaimInv, Final, tableVars, autoVars, instVars, faultVars
  <1>1. TypeOK /\ ClaimInv /\ NoTask \notin Tasks
    BY NoTaskIsNone DEF IInv
  <1>2. ~AutoProcess
    <2>1. program = "process2" \/ ~AutoProcess
      BY DEF AutoProcess, Decide, Query, Submit, ReapReady, SkipUnready
    <2>2. program = "process2" => apc = "maintain" /\ todo = {}
      BY <1>1
    <2> QED
      BY <2>1, <2>2 DEF AutoProcess, Decide, Query, Submit, ReapReady, SkipUnready
  <1>3. ASSUME NEW t \in Tasks, WorkerDone(t) \/ WorkerDies(t) PROVE FALSE
    BY <1>1, <1>3 DEF WorkerDone, WorkerDies
  <1>4. ASSUME NEW t \in Tasks, Others(t) PROVE ClaimInv'
    <2>1. /\ program = "process2"
          /\ UNCHANGED <<processing, apc, pending, todo, batch, claim, lost>>
      BY <1>4 DEF Others, Analyse, Analysed, ImportAdd, ImportDone, Delete, Reschedule,
         Stamp, TakeAway
    <2>2. \A u \in Tasks : status'[u] \in Final => status[u] \in Final
      BY <1>1, <1>4 DEF Others, Analyse, Analysed, ImportAdd, ImportDone, Delete, Reschedule,
         Stamp, TakeAway, TypeOK
    <2> QED
      BY <1>1, <2>1, <2>2 DEF TypeOK
  <1>41. ASSUME NEW c \in stamps, Complete(c) PROVE ClaimInv'
    <2>1. /\ program = "process2"
          /\ UNCHANGED <<processing, apc, pending, todo, batch, claim, lost>>
      BY <1>41 DEF Complete
    <2>2. \A u \in Tasks : status'[u] \in Final => status[u] \in Final
      BY <1>1, <1>41 DEF Complete, SetStatus, TypeOK
    <2> QED
      BY <1>1, <2>1, <2>2 DEF TypeOK
  <1>5. ASSUME NEW i \in Instances, ViewTask(i) \/ InstanceDone(i) PROVE ClaimInv'
    BY <1>1, <1>5 DEF ViewTask, InstanceDone
  <1>6. ASSUME NEW i \in Instances, StoreStatus(i) PROVE ClaimInv'
    <2>1. /\ claim[i] \in Tasks /\ processing[claim[i]] = i
          /\ \A j \in Instances \ {i} : claim'[j] = claim[j] /\ claim[j] # claim[i]
          /\ claim'[i] = NoTask
      BY <1>1, <1>6 DEF StoreStatus, TypeOK
    <2>2. \A t \in Tasks : t # claim[i] => status'[t] = status[t]
      BY <1>6 DEF StoreStatus, SetStatus, TypeOK
    <2> QED
      BY <1>1, <1>6, <2>1, <2>2, ProcessingAssumption DEF StoreStatus, TypeOK
  <1>7. ASSUME NEW i \in Instances, NEW t \in Tasks, Claim(i, t) PROVE ClaimInv'
    <2>1. /\ processing[t] = NoInstance /\ status[t] = "completed"
          /\ processing' = [processing EXCEPT ![t] = i] /\ claim' = [claim EXCEPT ![i] = t]
          /\ UNCHANGED <<program, status, apc, pending, todo, batch, lost>>
      BY <1>7 DEF Claim, Claimable
    <2>2. t \notin lost /\ \A j \in Instances : claim[j] # t
      BY <1>1, <2>1, ProcessingAssumption DEF TypeOK
    <2> QED
      BY <1>1, <2>1, <2>2, ProcessingAssumption DEF TypeOK
  <1>8. ASSUME NEW i \in Instances, InstanceDies(i) PROVE ClaimInv'
    <2>1. /\ claim[i] \in Tasks /\ processing[claim[i]] = i
          /\ \A j \in Instances \ {i} : claim'[j] = claim[j] /\ claim[j] # claim[i]
          /\ claim'[i] = NoTask
      BY <1>1, <1>8 DEF InstanceDies, TypeOK
    <2> QED
      BY <1>1, <1>8, <2>1, ProcessingAssumption DEF InstanceDies, TypeOK
  <1>9. CASE UNCHANGED vars
    BY <1>1, <1>9 DEF vars
  <1> QED
    BY <1>2, <1>3, <1>4, <1>41, <1>5, <1>6, <1>7, <1>8, <1>9 DEF Next, Instance

-----------------------------------------------------------------------------
(* Theorems *)

(* The invariant holds in every state. *)
LEMMA Invariance == Spec => []IInv
<1>1. IInv /\ [Next]_vars => IInv'
  BY TypeStep, ListStep, PoolStep, ClaimStep DEF IInv
<1> QED
  BY InitInv, <1>1, PTL DEF Spec

(* Every variable keeps its type. *)
THEOREM TypeCorrect == Spec => []TypeOK
<1>1. IInv => TypeOK
  BY DEF IInv
<1> QED
  BY Invariance, <1>1, PTL

(* As long as nobody else changes a row process.py has taken and the tasks are
   committed in the order of their times, no two at one, the rows it tells list_tasks
   to skip are the pending ones and can be no others, for any number of tasks, any
   QUEUE_THRESHOLD and any max_analysis_count, whatever is imported and whichever
   workers die. *)
THEOREM PendingSkipped == Spec => []SkipsPending
<1>1. IInv => SkipsPending
  <2> SUFFICES ASSUME IInv, program = "process", disturbed = {}, ~late
               PROVE  FirstRows(Cardinality(pending)) = {pending}
    BY DEF SkipsPending
  <2>1. TypeOK /\ pending \in SUBSET Completed /\ Ahead(pending)
    BY DEF IInv, WindowInv, Window
  <2> QED
    BY <2>1, OnlyFirst
<1> QED
  BY Invariance, <1>1, PTL

(* Neither program starts on a task whose result is in the table already, or that a
   worker or an instance died over - process.py as long as nobody changes the rows it
   has taken, process2.py whatever others do. *)
THEOREM ProcessedOnce == Spec => NeverProcessedTwice
<1>1. IInv /\ [Next]_vars =>
        \A t \in Tasks :
          /\ result[t] # "working" /\ result'[t] = "working"
          /\ program = "process2" \/ disturbed = {}
          => status[t] \notin {"reported", "failed_processing"} /\ t \notin lost
  <2> SUFFICES ASSUME IInv, [Next]_vars, NEW t \in Tasks,
                      result[t] # "working", result'[t] = "working",
                      program = "process2" \/ disturbed = {}
               PROVE  status[t] \notin Final /\ t \notin lost
    BY DEF Final
  <2>1. TypeOK /\ WindowInv /\ PoolInv /\ ClaimInv
    BY DEF IInv
  <2>2. \/ Submit(t)
        \/ \E i \in Instances : ViewTask(i) /\ claim[i] = t
    <3>1. result' # result
      OBVIOUS
    <3>2. CASE AutoProcess
      <4>1. ~Decide /\ ~Query /\ \A u \in Tasks : ~SkipUnready(u)
        BY <3>1 DEF Decide, Query, SkipUnready
      <4>2. \A u \in Tasks : ~ReapReady(u)
        BY <2>1 DEF ReapReady, TypeOK
      <4>3. \A u \in Tasks : Submit(u) => u = t
        BY <2>1, <3>1 DEF Submit, TypeOK
      <4> QED
        BY <3>2, <4>1, <4>2, <4>3 DEF AutoProcess
    <3>3. ASSUME NEW u \in Tasks, WorkerDone(u) \/ WorkerDies(u) \/ Others(u) PROVE FALSE
      BY <2>1, <3>1, <3>3 DEF WorkerDone, WorkerDies, Others, Analyse, Analysed, ImportAdd,
         ImportDone, Delete, Reschedule, Stamp, TakeAway, TypeOK
    <3>31. ASSUME NEW c \in stamps, Complete(c) PROVE FALSE
      BY <3>1, <3>31 DEF Complete
    <3>4. ASSUME NEW i \in Instances, Instance(i) \/ InstanceDies(i)
          PROVE  ViewTask(i) /\ claim[i] = t
      BY <2>1, <3>1, <3>4 DEF Instance, ViewTask, InstanceDone, StoreStatus, Claim,
         InstanceDies, TypeOK
    <3> QED
      BY <3>1, <3>2, <3>3, <3>31, <3>4 DEF Next, vars
  <2>3. program \in {"process", "process2"}
    BY <2>1 DEF TypeOK
  <2>4. CASE Submit(t)
    <3>1. program = "process"
      BY <2>1, <2>3, <2>4 DEF Submit, ClaimInv
    <3>2. t \in batch /\ t \notin pending
      BY <2>4 DEF Submit
    <3> QED
      BY <2>1, <3>1, <3>2 DEF WindowInv, Window, Completed, PoolInv, Final
  <2>5. ASSUME NEW i \in Instances, ViewTask(i), claim[i] = t PROVE program = "process2"
    BY <2>1, <2>3, <2>5 DEF ViewTask, PoolInv
  <2> QED
    BY <2>1, <2>2, <2>4, <2>5 DEF ClaimInv, ViewTask
<1> QED
  BY Invariance, <1>1, PTL DEF Spec, NeverProcessedTwice

-----------------------------------------------------------------------------
(* The plugins that process the results of an analysis. *)

(* Each group has a list of names of the members. *)
LEMMA LoadedLists == LoadPlugins \in [Groups -> Seq({m.name : m \in ToSet(Members)})]
  <1> DEFINE N == Len(Members)
             S == {m.name : m \in ToSet(Members)}
             X == [Groups -> Seq(S)]
             base == [g \in Groups |-> << >>]
             step == [n \in 1..N |-> [x \in X |-> Load(Members[n], x)]]
             loads == CHOOSE f : f = [n \in 0..N |-> IF n = 0 THEN base ELSE Load(Members[n], f[n - 1])]
  <1>1. N \in Nat /\ base \in X
    BY PluginsAssumption DEF IsSeq
  <1>2. step \in [1..N -> [X -> X]]
    <2> SUFFICES ASSUME NEW n \in 1..N, NEW x \in X PROVE Load(Members[n], x) \in X
      OBVIOUS
    <2>1. Members[n] \in ToSet(Members)
      BY PluginsAssumption DEF IsSeq
    <2>2. Members[n].name \in S /\ GroupOf(Members[n].base) \in Groups
      BY <2>1, PluginsAssumption DEF GroupOf, Groups
    <2> QED
      BY <2>2 DEF Load, Register
  <1>3. LoadPlugins = loads[N]
    BY DEF LoadPlugins
  <1> HIDE DEF N, X, base, step
  <1>4. PICK f : Iterates(f, N, X, base, step)
    BY <1>1, <1>2, Recursion
  <1>5. ASSUME NEW n \in 0..N
        PROVE  f[n] = IF n = 0 THEN base ELSE Load(Members[n], f[n - 1])
    <2>1. CASE n = 0
      BY <1>4, <2>1 DEF Iterates
    <2>2. CASE n # 0
      <3>1. n \in 1..N /\ f[n - 1] \in X
        BY <1>1, <1>4, <2>2 DEF Iterates
      <3>2. f[n] = step[n][f[n - 1]]
        BY <1>4, <3>1 DEF Iterates
      <3> QED
        BY <2>2, <3>1, <3>2 DEF step
    <2> QED
      BY <2>1, <2>2
  <1>6. f = [n \in 0..N |-> f[n]]
    BY <1>4 DEF Iterates
  <1>7. loads = [n \in 0..N |-> IF n = 0 THEN base ELSE Load(Members[n], loads[n - 1])]
    BY <1>5, <1>6
  <1> HIDE DEF loads
  <1> DEFINE T == {n \in 0..N : loads[n] \in X}
  <1>8. 0 \in T
    BY <1>1, <1>7
  <1>9. ASSUME NEW n \in 1..N, n - 1 \in T
        PROVE  n \in T
    <2>1. n \in 0..N /\ n # 0
      BY <1>1
    <2>2. loads[n] = Load(Members[n], loads[n - 1])
      BY <1>7, <2>1
    <2>3. loads[n - 1] \in X /\ step[n][loads[n - 1]] \in X
      BY <1>2, <1>9
    <2> QED
      BY <2>1, <2>2, <2>3 DEF step
  <1> HIDE DEF T
  <1>10. N \in T
    <2>1. 0..N \subseteq T
      BY <1>1, <1>8, <1>9, Induction
    <2> QED
      BY <1>1, <2>1
  <1> QED
    BY <1>3, <1>10 DEF T, X

(* The events of a run: each process, its calls, the completion; and the matches that are
   told of in between. *)
CallEvents == UNION {[kind : {"call"}, proc : {p}, cid : DOMAIN Procs[p].calls] : p \in DOMAIN Procs}
OtherEvents == [kind : {"process", "complete"}, proc : Nat, cid : {0}]
MatchEvents == [kind : {"signature"}, by : DOMAIN Classes]
SigFrame == [ev : CallEvents \union OtherEvents \union MatchEvents, todo : Seq(DOMAIN Classes)]

(* The rank of a signature is higher than those of the signatures it waits for. *)
Ranking(rank) == \A s, n \in DOMAIN Classes : n \in Needs[s] => rank[n] < rank[s]
Height == CHOOSE rank \in [DOMAIN Classes -> 0..MaxDepth - 2] : Ranking(rank)

RunFields == {"stage", "i", "started", "stopped", "ran", "results", "reported", "sigs", "apiSigs", "event",
           "stack", "matched", "heard", "marks", "told", "refused", "score", "signatures"}

(* BeforeLook the signatures are looked at nothing has matched and nothing was heard of. *)
Fresh(r) == r.apiSigs = << >> /\ r.event = 0 /\ r.stack = << >> /\ r.matched = {} /\ r.told = {} /\ r.refused = {}

(* The signatures are known classes, and each hears of matches. *)
SigsListed(r) == r.sigs \in Seq(DOMAIN Classes) /\ DOMAIN r.heard = ToSet(r.sigs) /\ r.event \in 0..Len(Events)

(* At the bottom of the stack is an event of the run.  The frames above it tell of matches,
   and a signature deeper in the stack has a higher rank. *)
Stacked(r) ==
    /\ r.stack \in Seq(SigFrame)
    /\ \A k \in 1..Len(r.stack) : ToSet(r.stack[k].todo) \subseteq ToSet(r.sigs)
    /\ \A k \in 1..Len(r.stack) :
          IF k = 1 THEN r.stack[k].ev \in CallEvents \union OtherEvents
          ELSE r.stack[k].ev \in MatchEvents /\ Height[r.stack[k].ev.by] >= k - 2

(* Each match was heard of by a signature, or a frame of the stack is still to tell it. *)
ToHear(r, s, m) ==
    \E k \in 2..Len(r.stack) : r.stack[k].ev.by = m /\ s \in ToSet(r.stack[k].todo)
HeardOf(r) == \A m \in r.matched, s \in ToSet(r.sigs) : m \in r.heard[s] \/ ToHear(r, s, m)
Met(r, s) == Needs[s] # {} /\ Needs[s] \subseteq r.heard[s] => s \in r.matched
AllMet(r) == \A s \in ToSet(r.sigs) : Met(r, s)

(* The signatures of an API hold each one that wants its calls and did not refuse them; a
   call that was yielded was seen, or refused, or is being told of. *)
Kept(r, s, a) == s \in ToSet(r.apiSigs[a]) \/ <<s, a>> \in r.refused
ApisKept(r) ==
    /\ \A a \in DOMAIN r.apiSigs : r.apiSigs[a] \in Seq(ToSet(r.sigs))
    /\ \A e \in CallEvents, s \in ToSet(r.sigs) :
          CallOf(e).api \in DOMAIN r.apiSigs /\ Filters(s, CallOf(e)) => Kept(r, s, CallOf(e).api)
ToSee(r, s, e) == Len(r.stack) >= 1 /\ r.stack[1].ev = e /\ s \in ToSet(r.stack[1].todo)
Seen(r, s, e) == <<s, e>> \in r.told \/ <<s, CallOf(e).api>> \in r.refused \/ ToSee(r, s, e)
AllSeen(r) ==
    \A j \in 1..r.event, s \in ToSet(r.sigs) :
        Events[j] \in CallEvents /\ Filters(s, CallOf(Events[j])) => Seen(r, s, Events[j])

(* The invariant of an analysis that has its signatures at work. *)
LookInv(r) == SigsListed(r) /\ Stacked(r) /\ HeardOf(r) /\ AllMet(r) /\ ApisKept(r) /\ AllSeen(r)
BeforeLook == {"start", "stop", "look", "sort", "process", "signatures"}
RunInv(r) ==
    /\ DOMAIN r = RunFields
    /\ r.stage \in BeforeLook => Fresh(r)
    /\ r.stage \in {"events", "lookReports"} => LookInv(r)
    /\ r.stage = "lookReports" => r.stack = << >> /\ r.event = Len(Events)

(* The list of the signatures is never sorted; a thread that sorts another is at that. *)
SortsWhen(t) == (sorter["processing"] = t => run[t].stage = "sort")
                /\ (sorter["reporting"] = t => run[t].stage = "sortReports")
SigsInv ==
    /\ DOMAIN lists = Groups /\ sorter \in [Groups -> Threads \union {Nobody}]
    /\ lists["signatures"] = LoadPlugins["signatures"] /\ sorter["signatures"] = Nobody
    /\ \A t \in Threads : SortsWhen(t)
    /\ DOMAIN run = Threads /\ \A t \in Threads : RunInv(run[t])

-----------------------------------------------------------------------------
(* A list from its end has the same elements. *)
LEMMA ReverseSet ==
  ASSUME NEW S, NEW s \in Seq(S)
  PROVE  Reverse(s) \in Seq(S) /\ ToSet(Reverse(s)) = ToSet(s)
  <1>1. DOMAIN s = 1..Len(s) /\ Len(s) \in Nat
    OBVIOUS
  <1>2. Reverse(s) = [i \in 1..Len(s) |-> s[(Len(s) - i) + 1]]
    BY DEF Reverse
  <1>3. \A i \in 1..Len(s) : (Len(s) - i) + 1 \in 1..Len(s) /\ (Len(s) - ((Len(s) - i) + 1)) + 1 = i
    BY <1>1
  <1>4. Reverse(s) \in Seq(S)
    BY <1>1, <1>2, <1>3
  <1>5. \A i \in 1..Len(s) : Reverse(s)[i] = s[(Len(s) - i) + 1] /\ s[i] = Reverse(s)[(Len(s) - i) + 1]
    BY <1>2, <1>3
  <1>6. DOMAIN Reverse(s) = 1..Len(s)
    BY <1>2
  <1>7. ToSet(Reverse(s)) = {Reverse(s)[i] : i \in 1..Len(s)} /\ ToSet(s) = {s[i] : i \in 1..Len(s)}
    BY <1>1, <1>6 DEF ToSet
  <1> QED BY <1>3, <1>4, <1>5, <1>7

(* The events of a run are of the processes and their calls, and a completion. *)
LEMMA EventTypes == Events \in Seq(CallEvents \union OtherEvents)
  <1> DEFINE S == CallEvents \union OtherEvents
             part(p) == <<[kind |-> "process", proc |-> p, cid |-> 0]>> \o
                        [c \in DOMAIN Procs[p].calls |-> [kind |-> "call", proc |-> p, cid |-> c]]
             last == <<[kind |-> "complete", proc |-> 0, cid |-> 0]>>
  <1>1. ASSUME NEW p \in DOMAIN Procs PROVE part(p) \in Seq(S)
    <2>0. p \in Nat
      BY PluginsAssumption DEF IsSeq
    <2>1. <<[kind |-> "process", proc |-> p, cid |-> 0]>> \in Seq(S)
      BY <2>0 DEF OtherEvents
    <2>2. DOMAIN Procs[p].calls = 1..Len(Procs[p].calls) /\ Len(Procs[p].calls) \in Nat
      BY PluginsAssumption DEF IsSeq
    <2>3. ASSUME NEW c \in DOMAIN Procs[p].calls PROVE [kind |-> "call", proc |-> p, cid |-> c] \in S
      BY <2>2 DEF CallEvents
    <2>4. [c \in DOMAIN Procs[p].calls |-> [kind |-> "call", proc |-> p, cid |-> c]] \in Seq(S)
      BY <2>2, <2>3
    <2> QED BY <2>1, <2>4, ConcatProperties
  <1> DEFINE parts == [p \in DOMAIN Procs |-> part(p)]
  <1>2. DOMAIN Procs = 1..Len(Procs) /\ Len(Procs) \in Nat
    BY PluginsAssumption DEF IsSeq
  <1>3. parts \in Seq(Seq(S))
    <2> HIDE DEF part, S
    <2> QED BY <1>1, <1>2
  <1>4. last \in Seq(S)
    BY DEF OtherEvents
  <1>5. Events = FlattenSeq(parts) \o last
    BY DEF Events
  <1> HIDE DEF parts, last, S
  <1>6. FlattenSeq(parts) \in Seq(S)
    BY <1>3, Flattened
  <1>7. FlattenSeq(parts) \o last \in Seq(S)
    BY <1>4, <1>6, ConcatProperties
  <1> QED BY <1>5, <1>7 DEF S

(* There is a ranking, as assumed. *)
LEMMA Ranked == Height \in [DOMAIN Classes -> 0..MaxDepth - 2] /\ Ranking(Height)
  <1>1. PICK rank \in [DOMAIN Classes -> 0..MaxDepth - 2] :
              \A s, n \in DOMAIN Classes : n \in Needs[s] => rank[n] < rank[s]
    BY PluginsAssumption
  <1>2. Ranking(rank)
    BY <1>1 DEF Ranking
  <1> QED BY <1>2 DEF Height

(* A stage before the signatures are looked at changes nothing of what they are about. *)
LEMMA QuietStep ==
  ASSUME NEW r, RunInv(r), NEW r2, DOMAIN r2 = RunFields,
         r.stage \in BeforeLook, r2.stage \in BeforeLook,
         r2.apiSigs = r.apiSigs, r2.event = r.event, r2.stack = r.stack,
         r2.matched = r.matched, r2.told = r.told, r2.refused = r.refused
  PROVE  RunInv(r2)
  <1>1. r2.stage # "events" /\ r2.stage # "lookReports"
    BY DEF BeforeLook
  <1> QED BY <1>1 DEF RunInv, Fresh

(* Nothing is claimed of the signatures of an analysis whose reports are written. *)
LEMMA LaterStep ==
  ASSUME NEW r2, DOMAIN r2 = RunFields, r2.stage \in {"sortReports", "report", "done", "failed"}
  PROVE  RunInv(r2)
  BY DEF RunInv, BeforeLook

(* RunSignatures(results): nothing was heard of yet. *)
LEMMA StartStep ==
  ASSUME NEW r, RunInv(r), r.stage = "signatures", NEW sigs, sigs = Enabled(LoadPlugins["signatures"]),
         NEW r2, r2 = [r EXCEPT !.stage = "events", !.sigs = sigs,
                           !.heard = [s \in ToSet(sigs) |-> {}],
                           !.marks = [s \in ToSet(sigs) |-> << >>]]
  PROVE  RunInv(r2)
  <1>1. IsSeq(LoadPlugins["signatures"])
    <2>1. LoadPlugins["signatures"] \in Seq({m.name : m \in ToSet(Members)})
      BY LoadedLists DEF Groups
    <2> QED BY <2>1 DEF IsSeq, ToSet
  <1>2. sigs \in Seq(DOMAIN Classes)
    <2> DEFINE S == {n \in DOMAIN Classes : ShouldEnable(Classes[n])}
    <2>1. sigs = Those(LoadPlugins["signatures"], S)
      BY DEF Enabled
    <2>2. S \subseteq DOMAIN Classes
      OBVIOUS
    <2> HIDE DEF S
    <2>3. sigs \in Seq(S)
      BY <1>1, <2>1, ThoseOf
    <2> QED BY <2>2, <2>3
  <1>3. DOMAIN r = RunFields /\ Fresh(r)
    BY DEF RunInv, BeforeLook
  <1>4. /\ DOMAIN r2 = RunFields /\ r2.stage = "events" /\ r2.sigs = sigs
        /\ r2.heard = [s \in ToSet(sigs) |-> {}]
        /\ r2.apiSigs = r.apiSigs /\ r2.event = r.event /\ r2.stack = r.stack
        /\ r2.matched = r.matched /\ r2.told = r.told /\ r2.refused = r.refused
    BY <1>3 DEF RunFields
  <1>5. /\ r2.apiSigs = << >> /\ r2.event = 0 /\ r2.stack = << >> /\ r2.matched = {}
    BY <1>3, <1>4 DEF Fresh
  <1> HIDE DEF RunInv, Fresh
  <1>6. Len(Events) \in Nat
    BY EventTypes
  <1>7. SigsListed(r2)
    BY <1>2, <1>4, <1>5, <1>6 DEF SigsListed
  <1>8. Stacked(r2)
    <2>0. << >> \in Seq(SigFrame) /\ Len(<< >>) = 0
      OBVIOUS
    <2>1. r2.stack \in Seq(SigFrame) /\ Len(r2.stack) = 0
      BY <1>5, <2>0
    <2> QED BY <2>1 DEF Stacked
  <1>9. HeardOf(r2)
    BY <1>5 DEF HeardOf
  <1>10. AllMet(r2)
    BY <1>4 DEF AllMet, Met
  <1>11. ApisKept(r2)
    <2>1. DOMAIN r2.apiSigs = {}
      BY <1>5
    <2> QED BY <2>1 DEF ApisKept
  <1>12. AllSeen(r2)
    BY <1>5 DEF AllSeen
  <1> QED BY <1>4, <1>7, <1>8, <1>9, <1>10, <1>11, <1>12 DEF RunInv, LookInv, BeforeLook

(* When no event is left, no frame is. *)
LEMMA EndStep ==
  ASSUME NEW r, RunInv(r), r.stage = "events", r.stack = << >>, r.event = Len(Events),
         NEW score, NEW signatures, NEW r2,
         r2 = [r EXCEPT !.stage = "lookReports", !.score = score, !.signatures = signatures]
  PROVE  RunInv(r2)
  <1>1. DOMAIN r = RunFields /\ LookInv(r)
    BY DEF RunInv
  <1>2. /\ DOMAIN r2 = RunFields /\ r2.stage = "lookReports" /\ r2.sigs = r.sigs /\ r2.heard = r.heard
        /\ r2.apiSigs = r.apiSigs /\ r2.event = r.event /\ r2.stack = r.stack
        /\ r2.matched = r.matched /\ r2.told = r.told /\ r2.refused = r.refused
    BY <1>1 DEF RunFields
  <1> HIDE DEF RunInv
  <1>3. SigsListed(r2) /\ HeardOf(r2)
    BY <1>1, <1>2 DEF LookInv, SigsListed, HeardOf, ToHear
  <1>5. Stacked(r2)
    BY <1>1, <1>2 DEF LookInv, Stacked
  <1>4. AllMet(r2) /\ ApisKept(r2) /\ AllSeen(r2)
    BY <1>1, <1>2 DEF LookInv, AllMet, Met, ApisKept, Kept, AllSeen, Seen, ToSee
  <1> QED BY <1>2, <1>3, <1>4, <1>5 DEF RunInv, LookInv, BeforeLook

(* A frame ends once each signature was told of its event. *)
LEMMA FrameStep ==
  ASSUME NEW r, RunInv(r), r.stage = "events", r.stack # << >>, Last(r.stack).todo = << >>,
         NEW r2, r2 = [r EXCEPT !.stack = Front(@)]
  PROVE  RunInv(r2)
  <1>1. DOMAIN r = RunFields /\ LookInv(r)
    BY DEF RunInv
  <1>2. /\ DOMAIN r2 = RunFields /\ r2.stage = "events" /\ r2.sigs = r.sigs /\ r2.heard = r.heard
        /\ r2.apiSigs = r.apiSigs /\ r2.event = r.event /\ r2.stack = Front(r.stack)
        /\ r2.matched = r.matched /\ r2.told = r.told /\ r2.refused = r.refused
    BY <1>1 DEF RunFields
  <1> DEFINE L == Len(r.stack)
  <1>3. r.stack \in Seq(SigFrame) /\ L \in Nat \ {0} /\ r.stack[L].todo = << >>
    BY <1>1 DEF LookInv, Stacked, Last
  <1>4. /\ r2.stack \in Seq(SigFrame) /\ Len(r2.stack) = L - 1
        /\ \A k \in 1..L - 1 : r2.stack[k] = r.stack[k]
    <2>1. r2.stack = SubSeq(r.stack, 1, L - 1)
      BY <1>2 DEF Front
    <2> QED BY <1>3, <2>1, SubSeqProperties
  <1>5. \A k \in 1..L : k = L \/ k \in 1..L - 1
    BY <1>3
  <1>6. \A k \in 1..L - 1 : k \in 1..L
    BY <1>3
  <1>0. ToSet(r.stack[L].todo) = {}
    BY <1>3 DEF ToSet
  <1>7. SigsListed(r2)
    BY <1>1, <1>2 DEF LookInv, SigsListed
  <1> HIDE DEF RunInv, L
  <1>8. Stacked(r2)
    BY <1>1, <1>2, <1>4, <1>6 DEF LookInv, Stacked, L
  <1>9. HeardOf(r2)
    <2> SUFFICES ASSUME NEW m \in r.matched, NEW s \in ToSet(r.sigs), m \notin r.heard[s]
                 PROVE  ToHear(r2, s, m)
      BY <1>2 DEF HeardOf
    <2>1. PICK k \in 2..L : r.stack[k].ev.by = m /\ s \in ToSet(r.stack[k].todo)
      BY <1>1 DEF LookInv, HeardOf, ToHear, L
    <2>2. k # L
      BY <1>0, <2>1
    <2>3. k \in 2..L - 1 /\ k \in 1..L - 1
      BY <1>3, <2>2
    <2> QED BY <1>4, <2>1, <2>3 DEF ToHear
  <1>10. AllMet(r2) /\ ApisKept(r2)
    BY <1>1, <1>2 DEF LookInv, AllMet, Met, ApisKept, Kept
  <1>11. AllSeen(r2)
    <2>1. \A s, e : ToSee(r, s, e) => ToSee(r2, s, e)
      <3> SUFFICES ASSUME NEW s, NEW e, ToSee(r, s, e) PROVE ToSee(r2, s, e)
        OBVIOUS
      <3>1. L >= 1 /\ r.stack[1].ev = e /\ s \in ToSet(r.stack[1].todo)
        BY DEF ToSee, L
      <3>2. L # 1
        BY <1>0, <3>1
      <3>3. 1 \in 1..L - 1 /\ L - 1 >= 1
        BY <1>3, <3>2
      <3> QED BY <1>4, <3>1, <3>3 DEF ToSee
    <2>2. \A s, e : Seen(r, s, e) => Seen(r2, s, e)
      BY <1>2, <2>1 DEF Seen
    <2> QED BY <1>1, <1>2, <2>2 DEF LookInv, AllSeen
  <1> QED BY <1>2, <1>7, <1>8, <1>9, <1>10, <1>11 DEF RunInv, LookInv, BeforeLook

(* Of the calls of one API a signature wants all or none. *)
LEMMA SameApi ==
  ASSUME NEW e \in CallEvents, NEW f \in CallEvents, CallOf(e).api = CallOf(f).api, NEW s, Filters(s, CallOf(e))
  PROVE  Filters(s, CallOf(f))
  <1>1. \A x \in CallEvents : x.proc \in DOMAIN Procs /\ CallOf(x) \in ToSet(Procs[x.proc].calls)
    BY DEF CallEvents, CallOf, ToSet
  <1>2. CallOf(e).category = CallOf(f).category
    BY <1>1, PluginsAssumption
  <1> QED BY <1>2 DEF Filters

(* The kind of an event tells what it is. *)
LEMMA EventKinds ==
  /\ \A e \in CallEvents : e.kind = "call"
  /\ \A e \in OtherEvents : e.kind # "call" /\ e.kind # "signature"
  /\ \A e \in MatchEvents : e.kind = "signature" /\ e.by \in DOMAIN Classes
  BY DEF CallEvents, OtherEvents, MatchEvents

(* An event is yielded to the signatures that want it. *)
LEMMA YieldStep ==
  ASSUME NEW r, RunInv(r), r.stage = "events", r.stack = << >>, r.event < Len(Events),
         NEW e, e = Events[r.event + 1], NEW r2,
         r2 = IF e.kind = "call"
              THEN [r EXCEPT !.event = @ + 1, !.apiSigs = KnownApiSigs(r, CallOf(e)),
                             !.stack = <<[ev |-> e, todo |-> Reverse(KnownApiSigs(r, CallOf(e))[CallOf(e).api])]>>]
              ELSE [r EXCEPT !.event = @ + 1, !.stack = <<[ev |-> e, todo |-> r.sigs]>>]
  PROVE  RunInv(r2)
  <1>1. DOMAIN r = RunFields /\ LookInv(r)
    BY DEF RunInv
  <1> DEFINE known == KnownApiSigs(r, CallOf(e))
             a == CallOf(e).api
             list == IF e.kind = "call" THEN Reverse(known[a]) ELSE r.sigs
  <1>2. /\ DOMAIN r2 = RunFields /\ r2.stage = "events" /\ r2.sigs = r.sigs /\ r2.heard = r.heard
        /\ r2.apiSigs = IF e.kind = "call" THEN known ELSE r.apiSigs
        /\ r2.event = r.event + 1 /\ r2.stack = <<[ev |-> e, todo |-> list]>>
        /\ r2.matched = r.matched /\ r2.told = r.told /\ r2.refused = r.refused
    BY <1>1 DEF RunFields
  <1> HIDE DEF known, list, RunInv
  <1>3. /\ r.event \in Nat /\ r.event + 1 \in 1..Len(Events) /\ Len(Events) \in Nat
        /\ r.sigs \in Seq(DOMAIN Classes)
    BY <1>1, EventTypes DEF LookInv, SigsListed
  <1>4. e \in CallEvents \union OtherEvents
    BY <1>3, EventTypes
  <1>5. e.kind = "call" <=> e \in CallEvents
    BY <1>4, EventKinds
  <1>6. ASSUME e \in CallEvents
        PROVE  /\ \A b \in DOMAIN known : known[b] \in Seq(ToSet(r.sigs))
               /\ \A f \in CallEvents, s \in ToSet(r.sigs) :
                     CallOf(f).api \in DOMAIN known /\ Filters(s, CallOf(f)) =>
                        s \in ToSet(known[CallOf(f).api]) \/ <<s, CallOf(f).api>> \in r.refused
               /\ a \in DOMAIN known
    <2> DEFINE wants == {s \in ToSet(r.sigs) : Filters(s, CallOf(e))}
               these == InitApiSigs(r.sigs, CallOf(e))
    <2>1. known = [b \in DOMAIN r.apiSigs \union {a} |-> IF b \in DOMAIN r.apiSigs THEN r.apiSigs[b] ELSE these]
      BY DEF known, KnownApiSigs
    <2>2. IsSeq(r.sigs) /\ these = Those(r.sigs, wants) /\ wants \subseteq ToSet(r.sigs)
      BY <1>3 DEF IsSeq, ToSet, InitApiSigs
    <2> HIDE DEF wants, these
    <2>3. these \in Seq(wants) /\ ToSet(these) = ToSet(r.sigs) \cap wants
      BY <2>2, ThoseOf
    <2>4. these \in Seq(ToSet(r.sigs))
      BY <2>2, <2>3
    <2>5. \A b \in DOMAIN known : known[b] \in Seq(ToSet(r.sigs))
      BY <1>1, <2>1, <2>4 DEF LookInv, ApisKept
    <2>6. ASSUME NEW f \in CallEvents, NEW s \in ToSet(r.sigs), CallOf(f).api \in DOMAIN known, Filters(s, CallOf(f))
          PROVE  s \in ToSet(known[CallOf(f).api]) \/ <<s, CallOf(f).api>> \in r.refused
      <3>1. CASE CallOf(f).api \in DOMAIN r.apiSigs
        BY <1>1, <2>1, <2>6, <3>1 DEF LookInv, ApisKept, Kept
      <3>2. CASE CallOf(f).api \notin DOMAIN r.apiSigs
        <4>1. CallOf(f).api = a /\ known[CallOf(f).api] = these
          BY <2>1, <2>6, <3>2
        <4>2. Filters(s, CallOf(e))
          BY <1>6, <2>6, <4>1, SameApi
        <4> QED BY <2>3, <4>1, <4>2 DEF wants
      <3> QED BY <3>1, <3>2
    <2> QED BY <2>1, <2>5, <2>6
  <1>7. /\ list \in Seq(DOMAIN Classes) /\ ToSet(list) \subseteq ToSet(r.sigs)
        /\ e \in CallEvents => ToSet(list) = ToSet(known[a])
    <2>1. CASE e \in CallEvents
      <3>1. list = Reverse(known[a]) /\ known[a] \in Seq(ToSet(r.sigs))
        BY <1>5, <1>6, <2>1 DEF list
      <3>2. list \in Seq(ToSet(r.sigs)) /\ ToSet(list) = ToSet(known[a])
        BY <3>1, ReverseSet
      <3>3. ToSet(r.sigs) \subseteq DOMAIN Classes
        BY <1>3 DEF ToSet
      <3>4. \A x \in ToSet(list) : x \in ToSet(r.sigs)
        BY <3>2 DEF ToSet
      <3>5. list \in Seq(DOMAIN Classes)
        BY <3>2, <3>3
      <3> QED BY <2>1, <3>2, <3>4, <3>5
    <2>2. CASE e \notin CallEvents
      BY <1>3, <1>5, <2>2 DEF list
    <2> QED BY <2>1, <2>2
  <1>8. /\ Len(r2.stack) = 1 /\ r2.stack[1].ev = e /\ r2.stack[1].todo = list
    BY <1>2
  <1>9. r2.stack \in Seq(SigFrame)
    <2>1. [ev |-> e, todo |-> list] \in SigFrame
      BY <1>4, <1>7 DEF SigFrame
    <2> QED BY <1>2, <2>1
  <1>10. SigsListed(r2)
    BY <1>1, <1>2, <1>3 DEF LookInv, SigsListed
  <1>11. Stacked(r2)
    <2>1. \A k \in 1..1 : k = 1
      OBVIOUS
    <2> QED BY <1>2, <1>4, <1>7, <1>8, <1>9, <2>1 DEF Stacked
  <1>12. HeardOf(r2)
    <2>1. \A m \in r.matched, s \in ToSet(r.sigs) : m \in r.heard[s]
      <3>1. Len(r.stack) = 0
        OBVIOUS
      <3> QED BY <1>1, <3>1 DEF LookInv, HeardOf, ToHear
    <2> QED BY <1>2, <2>1 DEF HeardOf
  <1>13. AllMet(r2)
    BY <1>1, <1>2 DEF LookInv, AllMet, Met
  <1>14. ApisKept(r2)
    <2>1. CASE e \in CallEvents
      BY <1>2, <1>5, <1>6, <2>1 DEF ApisKept, Kept
    <2>2. CASE e \notin CallEvents
      BY <1>1, <1>2, <1>5, <2>2 DEF LookInv, ApisKept, Kept
    <2> QED BY <2>1, <2>2
  <1>15. AllSeen(r2)
    <2> SUFFICES ASSUME NEW j \in 1..r2.event, NEW s \in ToSet(r2.sigs),
                        Events[j] \in CallEvents, Filters(s, CallOf(Events[j]))
                 PROVE  Seen(r2, s, Events[j])
      BY DEF AllSeen
    <2>1. CASE j = r.event + 1
      <3>1. Events[j] = e /\ e \in CallEvents
        BY <2>1
      <3>2. s \in ToSet(known[a]) \/ <<s, a>> \in r.refused
        BY <1>2, <1>6, <3>1
      <3>3. s \in ToSet(list) \/ <<s, a>> \in r2.refused
        BY <1>2, <1>7, <3>1, <3>2
      <3> QED BY <1>8, <3>1, <3>3 DEF Seen, ToSee
    <2>2. CASE j # r.event + 1
      <3>1. j \in 1..r.event
        BY <1>2, <1>3, <2>2
      <3>2. Seen(r, s, Events[j])
        BY <1>1, <1>2, <3>1 DEF LookInv, AllSeen
      <3>3. ~ ToSee(r, s, Events[j])
        BY DEF ToSee
      <3> QED BY <1>2, <3>2, <3>3 DEF Seen
    <2> QED BY <2>1, <2>2
  <1> QED BY <1>2, <1>10, <1>11, <1>12, <1>13, <1>14, <1>15 DEF RunInv, LookInv, BeforeLook

(* What is in a concatenation is in one of its parts. *)
LEMMA SetOfConcat ==
  ASSUME NEW T, NEW s \in Seq(T), NEW t \in Seq(T)
  PROVE  s \o t \in Seq(T) /\ ToSet(s \o t) = ToSet(s) \cup ToSet(t)
  <1>1. /\ s \o t \in Seq(T) /\ Len(s \o t) = Len(s) + Len(t)
        /\ \A i \in 1..Len(s) + Len(t) : (s \o t)[i] = IF i <= Len(s) THEN s[i] ELSE t[i - Len(s)]
    BY ConcatProperties
  <1>2. /\ DOMAIN s = 1..Len(s) /\ DOMAIN t = 1..Len(t) /\ DOMAIN (s \o t) = 1..Len(s) + Len(t)
        /\ Len(s) \in Nat /\ Len(t) \in Nat
    BY <1>1, LenProperties
  <1> DEFINE st == s \o t
             m == Len(s)
             n == Len(t)
  <1>3. \A i \in 1..m : i \in 1..m + n /\ st[i] = s[i]
    BY <1>1, <1>2
  <1>4. \A i \in 1..n : i + m \in 1..m + n /\ st[i + m] = t[i]
    BY <1>1, <1>2
  <1>5. \A i \in 1..m + n : (i \in 1..m /\ st[i] = s[i]) \/ (i - m \in 1..n /\ st[i] = t[i - m])
    BY <1>1, <1>2
  <1>6. DOMAIN s = 1..m /\ DOMAIN t = 1..n /\ DOMAIN st = 1..m + n
    BY <1>2
  <1> HIDE DEF st, m, n
  <1>7. ToSet(s) = {s[i] : i \in 1..m} /\ ToSet(t) = {t[i] : i \in 1..n} /\ ToSet(st) = {st[i] : i \in 1..m + n}
    BY <1>6 DEF ToSet
  <1>8. ToSet(st) \subseteq ToSet(s) \cup ToSet(t)
    BY <1>5, <1>7
  <1>9. ToSet(s) \cup ToSet(t) \subseteq ToSet(st)
    BY <1>3, <1>4, <1>7
  <1> QED BY <1>1, <1>8, <1>9 DEF st
(* Removing the first occurrence of a value keeps every other value. *)
LEMMA RemoveFirstKeeps ==
  ASSUME NEW T, NEW s \in Seq(T), NEW e
  PROVE  /\ RemoveFirst(s, e) \in Seq(T)
         /\ ToSet(s) \ {e} \subseteq ToSet(RemoveFirst(s, e))
  <1>1. CASE ~ \E i \in 1..Len(s) : s[i] = e
    BY <1>1 DEF RemoveFirst, ToSet
  <1>2. CASE \E i \in 1..Len(s) : s[i] = e
    <2> DEFINE I == {i \in 1..Len(s) : s[i] = e}
               k == Min(I)
    <2>1. I # {} /\ I \subseteq Nat
      BY <1>2
    <2>2. k \in I
      <3>1. \E n \in I : \A m \in I : n <= m
        BY <2>1, LeastNatural
      <3> QED BY <3>1 DEF Min
    <2>3. RemoveFirst(s, e) = RemoveAt(s, k)
      BY <1>2, <2>1 DEF RemoveFirst, SelectInSeq
    <2> DEFINE left == SubSeq(s, 1, k - 1)
               right == SubSeq(s, k + 1, Len(s))
    <2>4. k \in 1..Len(s) /\ Len(s) \in Nat
      BY <2>2
    <2>11. left \in Seq(T) /\ Len(left) = k - 1 /\ \A i \in 1..k - 1 : left[i] = s[i]
      <3> HIDE DEF k
      <3> QED BY <2>4, SubSeqProperties
    <2>12. right \in Seq(T) /\ Len(right) = Len(s) - k /\ \A i \in 1..Len(s) - k : right[i] = s[i + k]
      <3> HIDE DEF k
      <3> QED BY <2>4, SubSeqProperties
    <2> HIDE DEF k, left, right
    <2>5. RemoveFirst(s, e) = left \o right
      BY <2>3 DEF RemoveAt, left, right
    <2>7. \A i \in 1..Len(s) : s[i] # e => i < k \/ i > k
      BY <2>2
    <2>13. left \o right \in Seq(T) /\ ToSet(left \o right) = ToSet(left) \cup ToSet(right)
      BY <2>11, <2>12, SetOfConcat
    <2>8. ASSUME NEW i \in 1..Len(s), s[i] # e PROVE s[i] \in ToSet(left \o right)
      <3>1. CASE i < k
        <4>1. i \in DOMAIN left /\ left[i] = s[i]
          BY <3>1, <2>4, <2>11
        <4> QED BY <4>1, <2>13 DEF ToSet
      <3>2. CASE i > k
        <4>1. i - k \in 1..Len(s) - k /\ right[i - k] = s[i]
          BY <3>2, <2>4, <2>12
        <4>2. i - k \in DOMAIN right
          BY <4>1, <2>4, <2>12
        <4> QED BY <4>1, <4>2, <2>13 DEF ToSet
      <3> QED BY <3>1, <3>2, <2>7, <2>8
    <2>9. \A x \in ToSet(s) : x # e => x \in ToSet(left \o right)
      <3>1. \A x \in ToSet(s) : \E i \in 1..Len(s) : s[i] = x
        BY DEF ToSet
      <3> QED BY <3>1, <2>8
    <2> QED BY <2>5, <2>13, <2>9
  <1> QED BY <1>1, <1>2

(* What is in a list is its head or in its tail. *)
LEMMA SetOfTail ==
  ASSUME NEW S, NEW s \in Seq(S), s # << >>
  PROVE  /\ Tail(s) \in Seq(S) /\ Head(s) \in ToSet(s)
         /\ ToSet(s) = {Head(s)} \union ToSet(Tail(s))
  <1>1. /\ DOMAIN s = 1..Len(s) /\ Len(s) \in Nat \ {0} /\ Head(s) = s[1]
        /\ Tail(s) \in Seq(S) /\ DOMAIN Tail(s) = 1..Len(s) - 1
        /\ \A i \in 1..Len(s) - 1 : Tail(s)[i] = s[i + 1]
    BY HeadTailProperties
  <1>2. ASSUME NEW i \in 1..Len(s), i # 1
        PROVE  i - 1 \in 1..Len(s) - 1 /\ s[i] = Tail(s)[i - 1]
    <2>1. i - 1 \in 1..Len(s) - 1 /\ (i - 1) + 1 = i
      BY <1>1, <1>2
    <2> QED BY <1>1, <2>1
  <1>3. \A i \in 1..Len(s) - 1 : i + 1 \in 1..Len(s) /\ 1 \in 1..Len(s)
    BY <1>1
  <1>4. ToSet(s) = {s[i] : i \in 1..Len(s)} /\ ToSet(Tail(s)) = {Tail(s)[i] : i \in 1..Len(s) - 1}
    BY <1>1 DEF ToSet
  <1>5. 1 \in 1..Len(s)
    BY <1>1
  <1>6. ToSet(s) \subseteq {Head(s)} \union ToSet(Tail(s))
    BY <1>1, <1>2, <1>4
  <1>7. Head(s) \in ToSet(s) /\ ToSet(Tail(s)) \subseteq ToSet(s)
    BY <1>1, <1>3, <1>4, <1>5
  <1> QED BY <1>1, <1>6, <1>7

(* A handler was called, and its answer is still to be dealt with: what it heard is noted,
   and a signature that now has heard of all it waits for answers that it matches. *)
LEMMA NotedStep ==
  ASSUME NEW r, DOMAIN r = RunFields, LookInv(r), r.stack # << >>,
         NEW top, top = Last(r.stack), top.todo # << >>, NEW s, s = Head(top.todo),
         NEW n, n = Noted(r, s, top.ev)
  PROVE  /\ DOMAIN n = RunFields /\ n.stage = r.stage /\ n.sigs = r.sigs
         /\ n.apiSigs = r.apiSigs /\ n.event = r.event /\ n.matched = r.matched /\ n.refused = r.refused
         /\ Len(n.stack) = Len(r.stack) /\ Last(n.stack).ev = top.ev
         /\ s \in ToSet(r.sigs)
         /\ SigsListed(n) /\ Stacked(n) /\ HeardOf(n) /\ ApisKept(n) /\ AllSeen(n)
         /\ \A x \in ToSet(r.sigs) : x # s => Met(n, x)
         /\ \A o \in Answers(r, s, top.ev) : Met(n, s) \/ o = "ok"
  <1> DEFINE L == Len(r.stack)
             e == top.ev
             st == [r.stack EXCEPT ![L].todo = Tail(@)]
  <1>1. /\ DOMAIN n = RunFields /\ n.stage = r.stage /\ n.sigs = r.sigs
        /\ n.apiSigs = r.apiSigs /\ n.event = r.event /\ n.matched = r.matched /\ n.refused = r.refused
        /\ n.told = IF e.kind = "call" THEN r.told \union {<<s, e>>} ELSE r.told
        /\ n.heard = [r.heard EXCEPT ![s] = IF e.kind = "signature" THEN @ \union {e.by} ELSE @]
        /\ n.stack = st
    <2>1. /\ DOMAIN n = RunFields /\ n.stage = r.stage /\ n.sigs = r.sigs
          /\ n.apiSigs = r.apiSigs /\ n.event = r.event /\ n.matched = r.matched /\ n.refused = r.refused
      BY DEF Noted, RunFields
    <2>2. n.told = IF e.kind = "call" THEN r.told \union {<<s, e>>} ELSE r.told
      <3>1. "told" \in DOMAIN r
        BY DEF RunFields
      <3>2. CASE e.kind = "call"
        BY <3>1, <3>2 DEF Noted
      <3>3. CASE e.kind # "call"
        BY <3>1, <3>3 DEF Noted
      <3> QED BY <3>2, <3>3
    <2>3. n.heard = [r.heard EXCEPT ![s] = IF e.kind = "signature" THEN @ \union {e.by} ELSE @]
      BY DEF Noted, RunFields
    <2>4. n.stack = st
      BY DEF Noted, RunFields
    <2> QED BY <2>1, <2>2, <2>3, <2>4
  <1>2. r.stack \in Seq(SigFrame) /\ L \in Nat \ {0} /\ r.stack[L] = top /\ L \in 1..L
    BY DEF LookInv, Stacked, Last
  <1>3. top \in SigFrame /\ e \in CallEvents \union OtherEvents \union MatchEvents /\ top.todo \in Seq(DOMAIN Classes)
    <2>1. top \in SigFrame
      BY <1>2
    <2> QED BY <2>1 DEF SigFrame
  <1>4. /\ Tail(top.todo) \in Seq(DOMAIN Classes) /\ s \in ToSet(top.todo)
        /\ ToSet(top.todo) = {s} \union ToSet(Tail(top.todo))
    BY <1>3, SetOfTail
  <1>5. ToSet(top.todo) \subseteq ToSet(r.sigs)
    BY <1>2 DEF LookInv, Stacked
  <1>6. s \in ToSet(r.sigs)
    BY <1>4, <1>5
  <1>7. DOMAIN top = {"ev", "todo"}
    BY <1>3 DEF SigFrame
  <1>8. /\ st \in Seq(SigFrame) /\ Len(st) = L
        /\ \A k \in 1..L : k # L => st[k] = r.stack[k]
        /\ st[L].ev = e /\ st[L].todo = Tail(top.todo)
    <2>1. [top EXCEPT !.todo = Tail(@)] \in SigFrame
      BY <1>3, <1>4 DEF SigFrame
    <2>2. st = [r.stack EXCEPT ![L] = [top EXCEPT !.todo = Tail(@)]]
      BY <1>2
    <2> HIDE DEF st
    <2> QED BY <1>2, <1>7, <2>1, <2>2
  <1> HIDE DEF L, st
  <1>9. \A k \in 1..L : st[k].ev = r.stack[k].ev /\ ToSet(st[k].todo) \subseteq ToSet(r.stack[k].todo)
    BY <1>2, <1>4, <1>8
  <1>10. \A k \in 1..L : \A x \in ToSet(r.stack[k].todo) : x \in ToSet(st[k].todo) \/ (k = L /\ x = s)
    <2>1. ASSUME NEW k \in 1..L, NEW x \in ToSet(r.stack[k].todo), x \notin ToSet(st[k].todo)
          PROVE  k = L /\ x = s
      <3>1. k = L
        BY <1>8, <2>1
      <3> QED BY <1>2, <1>4, <1>8, <2>1, <3>1
    <2> QED BY <2>1
  <1>11. L = 1 => e \in CallEvents \union OtherEvents
    BY <1>2 DEF LookInv, Stacked, L
  <1>12. L # 1 => e \in MatchEvents /\ e.kind = "signature"
    BY <1>2, EventKinds DEF LookInv, Stacked, L
  <1>13. DOMAIN r.heard = ToSet(r.sigs) /\ r.sigs \in Seq(DOMAIN Classes) /\ r.event \in 0..Len(Events)
    BY DEF LookInv, SigsListed
  <1>14. \A x \in ToSet(r.sigs) : r.heard[x] \subseteq n.heard[x] /\ (x # s => n.heard[x] = r.heard[x])
    BY <1>1, <1>13
  <1>15. DOMAIN n.heard = ToSet(r.sigs)
    BY <1>1, <1>13
  <1>16. e.kind = "signature" => n.heard[s] = r.heard[s] \union {e.by}
    BY <1>1, <1>6, <1>13
  <1>17. e.kind # "signature" => n.heard[s] = r.heard[s]
    BY <1>1, <1>6, <1>13
  <1>20. SigsListed(n)
    BY <1>1, <1>13, <1>15 DEF SigsListed
  <1>21. Stacked(n)
    <2>1. \A k \in 1..L : ToSet(st[k].todo) \subseteq ToSet(r.sigs)
      BY <1>9 DEF LookInv, Stacked, L
    <2>2. \A k \in 1..L : IF k = 1 THEN st[k].ev \in CallEvents \union OtherEvents
                          ELSE st[k].ev \in MatchEvents /\ Height[st[k].ev.by] >= k - 2
      BY <1>9 DEF LookInv, Stacked, L
    <2>3. n.stack \in Seq(SigFrame) /\ Len(n.stack) = L /\ n.stack = st /\ n.sigs = r.sigs
      BY <1>1, <1>8
    <2>4. \A k \in 1..Len(n.stack) : ToSet(n.stack[k].todo) \subseteq ToSet(n.sigs)
      BY <1>1, <2>1, <2>3
    <2>5. \A k \in 1..Len(n.stack) : IF k = 1 THEN n.stack[k].ev \in CallEvents \union OtherEvents
                          ELSE n.stack[k].ev \in MatchEvents /\ Height[n.stack[k].ev.by] >= k - 2
      BY <2>2, <2>3
    <2> QED BY <2>3, <2>4, <2>5 DEF Stacked
  <1>22. HeardOf(n)
    <2> SUFFICES ASSUME NEW m \in r.matched, NEW x \in ToSet(r.sigs), m \notin n.heard[x]
                 PROVE  ToHear(n, x, m)
      BY <1>1 DEF HeardOf
    <2>1. PICK k \in 2..L : r.stack[k].ev.by = m /\ x \in ToSet(r.stack[k].todo)
      BY <1>14 DEF LookInv, HeardOf, ToHear, L
    <2>2. k \in 1..L
      BY <2>1, <1>2
    <2>3. ~ (k = L /\ x = s)
      <3> SUFFICES ASSUME k = L, x = s PROVE FALSE
        OBVIOUS
      <3>1. e.by = m /\ L # 1
        BY <1>2, <2>1
      <3> QED BY <1>12, <1>16, <3>1
    <2>4. x \in ToSet(st[k].todo) /\ st[k].ev.by = m
      BY <1>9, <1>10, <2>1, <2>2, <2>3
    <2> QED BY <1>1, <1>8, <2>4 DEF ToHear
  <1>23. ApisKept(n)
    BY <1>1 DEF LookInv, ApisKept, Kept
  <1>24. AllSeen(n)
    <2> SUFFICES ASSUME NEW j \in 1..r.event, NEW x \in ToSet(r.sigs),
                        Events[j] \in CallEvents, Filters(x, CallOf(Events[j]))
                 PROVE  Seen(n, x, Events[j])
      BY <1>1 DEF AllSeen
    <2>1. Seen(r, x, Events[j])
      BY DEF LookInv, AllSeen
    <2>2. CASE ToSee(r, x, Events[j])
      <3>1. L >= 1 /\ r.stack[1].ev = Events[j] /\ x \in ToSet(r.stack[1].todo)
        BY <2>2 DEF ToSee, L
      <3>2. 1 \in 1..L
        BY <1>2
      <3>3. CASE x \in ToSet(st[1].todo)
        <4>1. ToSee(n, x, Events[j])
          BY <1>1, <1>8, <1>9, <3>1, <3>2, <3>3 DEF ToSee
        <4> QED BY <4>1 DEF Seen
      <3>4. CASE x \notin ToSet(st[1].todo)
        <4>1. L = 1 /\ x = s
          BY <1>10, <3>1, <3>2, <3>4
        <4>2. e = Events[j] /\ e.kind = "call"
          BY <1>2, <3>1, <4>1, EventKinds
        <4>3. <<x, Events[j]>> \in n.told
          BY <1>1, <4>1, <4>2
        <4> QED BY <4>3 DEF Seen
      <3> QED BY <3>3, <3>4
    <2>3. CASE ~ ToSee(r, x, Events[j])
      BY <1>1, <2>1, <2>3 DEF Seen
    <2> QED BY <2>2, <2>3
  <1>25. \A x \in ToSet(r.sigs) : x # s => Met(n, x)
    BY <1>1, <1>14 DEF LookInv, AllMet, Met
  <1>26. ASSUME NEW o \in Answers(r, s, top.ev), ~ Met(n, s)
         PROVE  o = "ok"
    <2>1. Needs[s] # {} /\ Needs[s] \subseteq n.heard[s] /\ s \notin r.matched
      BY <1>1, <1>26 DEF Met
    <2>2. ~ (Needs[s] \subseteq r.heard[s])
      BY <1>6, <2>1 DEF LookInv, AllMet, Met
    <2>3. e.kind = "signature"
      BY <1>17, <2>1, <2>2
    <2>4. e.by \in Needs[s] /\ Needs[s] \subseteq r.heard[s] \union {e.by}
      BY <1>16, <2>1, <2>2, <2>3
    <2>5. Answers(r, s, e) = {"ok"}
      BY <2>3, <2>4 DEF Answers
    <2> QED BY <2>5, <1>26
  <1>27. Last(n.stack).ev = top.ev /\ Len(n.stack) = Len(r.stack)
    BY <1>1, <1>8 DEF Last, L
  <1> QED
    BY <1>1, <1>6, <1>20, <1>21, <1>22, <1>23, <1>24, <1>25, <1>26, <1>27

(* A list that something was appended to, position by position. *)
LEMMA Appended ==
  ASSUME NEW S, NEW q \in Seq(S), NEW f \in S, NEW p, p = Append(q, f)
  PROVE  /\ p \in Seq(S) /\ Len(p) = Len(q) + 1 /\ p[Len(q) + 1] = f
         /\ \A k \in 1..Len(q) : p[k] = q[k]
  BY AppendProperties

(* What Stacked is about. *)
LEMMA SameStack ==
  ASSUME NEW n, NEW q, q.stack = n.stack, q.sigs = n.sigs
  PROVE  Stacked(n) => Stacked(q)
  BY DEF Stacked

(* What HeardOf is about. *)
LEMMA SameHeard ==
  ASSUME NEW n, NEW q, q.stack = n.stack, q.sigs = n.sigs, q.heard = n.heard, q.matched = n.matched
  PROVE  HeardOf(n) => HeardOf(q)
  BY DEF HeardOf, ToHear

(* What a handler answered is dealt with: the signature matched, and all are told, or it
   has no on_call; whatever the answer, the invariant of the run is kept. *)
LEMMA CallStep ==
  ASSUME NEW r, RunInv(r), r.stage = "events", r.stack # << >>,
         NEW top, top = Last(r.stack), top.todo # << >>, NEW s, s = Head(top.todo),
         NEW n, n = Noted(r, s, top.ev), NEW o \in Answers(r, s, top.ev),
         NEW r2, r2 = Answered(r, n, s, top.ev, o)
  PROVE  RunInv(r2)
  <1> DEFINE L == Len(r.stack)
             e == top.ev
             a == CallOf(e).api
  <1>1. DOMAIN r = RunFields /\ LookInv(r)
    BY DEF RunInv
  <1>2. /\ DOMAIN n = RunFields /\ n.stage = "events" /\ n.sigs = r.sigs
        /\ n.apiSigs = r.apiSigs /\ n.event = r.event /\ n.matched = r.matched /\ n.refused = r.refused
        /\ Len(n.stack) = L /\ Last(n.stack).ev = e
        /\ s \in ToSet(r.sigs)
    BY <1>1, NotedStep
  <1>3. /\ SigsListed(n) /\ Stacked(n) /\ HeardOf(n) /\ ApisKept(n) /\ AllSeen(n)
        /\ \A x \in ToSet(r.sigs) : x # s => Met(n, x)
    BY <1>1, NotedStep
  <1>4. Met(n, s) \/ o = "ok"
    BY <1>1, NotedStep
  <1>5. r.sigs \in Seq(DOMAIN Classes) /\ n.stack \in Seq(SigFrame) /\ L \in Nat \ {0} /\ n.stack[L].ev = e
    <2>1. r.stack \in Seq(SigFrame)
      BY <1>1 DEF LookInv, Stacked
    <2>2. L \in Nat \ {0}
      BY <2>1
    <2>3. r.sigs \in Seq(DOMAIN Classes)
      BY <1>1 DEF LookInv, SigsListed
    <2>4. n.stack \in Seq(SigFrame)
      BY <1>3 DEF Stacked
    <2>5. n.stack[L].ev = e
      BY <1>2 DEF Last
    <2> QED BY <2>2, <2>3, <2>4, <2>5
  <1>6. s \in DOMAIN Classes
    BY <1>2, <1>5 DEF ToSet
  <1> HIDE DEF RunInv, L
  <1>14. Len(n.stack) = L /\ n.sigs = r.sigs
    BY <1>2 DEF L
  <1>15. \A k \in 1..L : ToSet(n.stack[k].todo) \subseteq ToSet(r.sigs)
    BY <1>3, <1>14 DEF Stacked
  <1>16. \A k \in 1..L : IF k = 1 THEN n.stack[k].ev \in CallEvents \union OtherEvents
                         ELSE n.stack[k].ev \in MatchEvents /\ Height[n.stack[k].ev.by] >= k - 2
    BY <1>3, <1>14 DEF Stacked
  <1>17. L \in 1..L
    BY <1>5
  <1>7. L = 1 => e \in CallEvents \union OtherEvents
    BY <1>5, <1>16, <1>17
  <1>8. L # 1 => e \in MatchEvents /\ Height[e.by] >= L - 2
    BY <1>5, <1>16, <1>17
  <1>9. Height[s] \in Nat /\ Height[s] <= MaxDepth - 2 /\ MaxDepth \in Nat
    BY <1>6, Ranked, PluginsAssumption
  <1>10. o = "ok" => Height[s] >= L - 1 /\ L < MaxDepth
    <2> SUFFICES ASSUME o = "ok" PROVE Height[s] >= L - 1 /\ L < MaxDepth
      OBVIOUS
    <2>1. CASE L = 1
      BY <1>9, <2>1
    <2>2. CASE L # 1
      <3>1. e.kind = "signature" /\ e.by \in DOMAIN Classes
        BY <1>8, <2>2, EventKinds
      <3>2. o \in {IF e.by \in Needs[s] /\ Needs[s] \subseteq r.heard[s] \union {e.by} THEN "ok" ELSE "empty"}
        BY <3>1 DEF Answers
      <3>3. e.by \in Needs[s]
        BY <3>2
      <3>4. Height[e.by] < Height[s] /\ Height[e.by] \in Nat
        BY <1>6, <3>1, <3>3, Ranked DEF Ranking
      <3> QED BY <1>5, <1>8, <1>9, <2>2, <3>4
    <2> QED BY <2>1, <2>2
  <1>11. CASE o = "ok"
    <2> DEFINE frame == MatchFrame(r, s)
    <2>1. r2 = [n EXCEPT !.matched = @ \union {s}, !.marks[s] = Marked(r, s, e),
                         !.stack = Append(@, frame)]
      BY <1>10, <1>11 DEF Answered, L
    <2>2. /\ DOMAIN r2 = RunFields /\ r2.stage = "events" /\ r2.sigs = n.sigs /\ r2.heard = n.heard
          /\ r2.apiSigs = n.apiSigs /\ r2.event = n.event /\ r2.matched = n.matched \union {s}
          /\ r2.told = n.told /\ r2.refused = n.refused /\ r2.stack = Append(n.stack, frame)
      BY <1>2, <2>1 DEF RunFields
    <2>3. /\ frame.ev \in MatchEvents /\ frame.ev.by = s /\ frame.todo = r.sigs
          /\ frame \in SigFrame
      BY <1>5, <1>6 DEF MatchFrame, MatchEvents, SigFrame
    <2> HIDE DEF frame
    <2>4. /\ r2.stack \in Seq(SigFrame) /\ Len(r2.stack) = L + 1
          /\ \A k \in 1..L : r2.stack[k] = n.stack[k]
          /\ r2.stack[L + 1] = frame
      <3>1. frame \in SigFrame /\ n.stack \in Seq(SigFrame) /\ Len(n.stack) = L /\ r2.stack = Append(n.stack, frame)
        BY <1>5, <1>14, <2>2, <2>3
      <3>2. /\ r2.stack \in Seq(SigFrame) /\ Len(r2.stack) = Len(n.stack) + 1 /\ r2.stack[Len(n.stack) + 1] = frame
            /\ \A k \in 1..Len(n.stack) : r2.stack[k] = n.stack[k]
        <4> DEFINE p == r2.stack
                   q == n.stack
        <4>1. frame \in SigFrame /\ q \in Seq(SigFrame) /\ p = Append(q, frame)
          BY <3>1
        <4> HIDE DEF p, q
        <4>2. p \in Seq(SigFrame) /\ Len(p) = Len(q) + 1 /\ p[Len(q) + 1] = frame
              /\ \A k \in 1..Len(q) : p[k] = q[k]
          BY <4>1, Appended
        <4> QED BY <4>2 DEF p, q
      <3> QED BY <3>1, <3>2
    <2>5. \A k \in 1..L + 1 : k \in 1..L \/ (k = L + 1 /\ k # 1)
      BY <1>5
    <2>6. SigsListed(r2)
      BY <1>3, <2>2 DEF SigsListed
    <2>7. Stacked(r2)
      <3>1. \A k \in 1..L + 1 : ToSet(r2.stack[k].todo) \subseteq ToSet(r.sigs)
        BY <1>15, <2>3, <2>4, <2>5
      <3>2. ASSUME NEW k \in 1..L + 1
            PROVE  IF k = 1 THEN r2.stack[k].ev \in CallEvents \union OtherEvents
                   ELSE r2.stack[k].ev \in MatchEvents /\ Height[r2.stack[k].ev.by] >= k - 2
        <4>1. CASE k \in 1..L
          <5>1. r2.stack[k] = n.stack[k]
            BY <2>4, <4>1
          <5> QED BY <1>16, <4>1, <5>1
        <4>2. CASE k = L + 1 /\ k # 1
          <5>1. r2.stack[k].ev \in MatchEvents /\ r2.stack[k].ev.by = s
            BY <2>3, <2>4, <4>2
          <5>2. Height[s] >= k - 2
            BY <1>5, <1>9, <1>10, <1>11, <4>2
          <5> QED BY <4>2, <5>1, <5>2
        <4> QED BY <2>5, <4>1, <4>2
      <3>3. r2.sigs = r.sigs
        BY <1>14, <2>2
      <3>4. Len(r2.stack) = L + 1 /\ r2.stack \in Seq(SigFrame)
        BY <2>4
      <3>5. \A k \in 1..Len(r2.stack) : ToSet(r2.stack[k].todo) \subseteq ToSet(r2.sigs)
        <4>1. ASSUME NEW k \in 1..Len(r2.stack) PROVE ToSet(r2.stack[k].todo) \subseteq ToSet(r2.sigs)
          <5>1. k \in 1..L + 1
            BY <3>4
          <5> QED BY <3>1, <3>3, <5>1
        <4> QED BY <4>1
      <3> QED BY <3>2, <3>4, <3>5 DEF Stacked
    <2>8. HeardOf(r2)
      <3> SUFFICES ASSUME NEW m \in r2.matched, NEW x \in ToSet(r2.sigs), m \notin r2.heard[x]
                   PROVE  ToHear(r2, x, m)
        BY DEF HeardOf
      <3>1. CASE m \in n.matched
        <4>1. PICK k \in 2..L : n.stack[k].ev.by = m /\ x \in ToSet(n.stack[k].todo)
          <5>1. ToHear(n, x, m)
            BY <1>3, <2>2, <3>1 DEF HeardOf
          <5> QED BY <1>14, <5>1 DEF ToHear
        <4>2. k \in 1..L /\ k \in 2..L + 1
          BY <1>5
        <4> QED BY <2>4, <4>1, <4>2 DEF ToHear
      <3>2. CASE m = s
        <4>1. L + 1 \in 2..L + 1
          BY <1>5
        <4>2. r2.stack[L + 1].ev.by = m /\ x \in ToSet(r2.stack[L + 1].todo)
          BY <1>2, <2>2, <2>3, <2>4, <3>2
        <4> QED BY <2>4, <4>1, <4>2 DEF ToHear
      <3> QED BY <2>2, <3>1, <3>2
    <2>9. AllMet(r2)
      <3>1. \A x : Met(n, x) => Met(r2, x)
        BY <2>2 DEF Met
      <3>2. Met(r2, s)
        BY <2>2 DEF Met
      <3> QED BY <1>3, <1>14, <2>2, <3>1, <3>2 DEF AllMet
    <2>10. ApisKept(r2)
      <3>1. r2.apiSigs = n.apiSigs /\ r2.refused = n.refused /\ r2.sigs = n.sigs
        BY <2>2
      <3>2. \A x, f : Kept(r2, x, f) <=> Kept(n, x, f)
        BY <3>1 DEF Kept
      <3>3. ApisKept(n)
        BY <1>3
      <3> QED BY <3>1, <3>2, <3>3 DEF ApisKept
    <2>11. AllSeen(r2)
      <3>1. \A x, f : ToSee(n, x, f) => ToSee(r2, x, f)
        <4>1. 1 \in 1..L /\ L + 1 >= 1
          BY <1>5
        <4> QED BY <2>4, <4>1 DEF ToSee
      <3>2. \A x, f : Seen(n, x, f) => Seen(r2, x, f)
        BY <2>2, <3>1 DEF Seen
      <3> QED BY <1>3, <2>2, <3>2 DEF AllSeen
    <2> QED BY <2>2, <2>6, <2>7, <2>8, <2>9, <2>10, <2>11 DEF RunInv, LookInv, BeforeLook
  <1>12. CASE o = "notImplemented" /\ e.kind = "call"
    <2>1. r2 = [n EXCEPT !.refused = @ \union {<<s, a>>}, !.apiSigs = TakeOut(@, a, s),
                         !.stack[Len(r.stack)].todo = StillToCall(@)]
      BY <1>12 DEF Answered
    <2>2. /\ DOMAIN r2 = RunFields /\ r2.stage = "events" /\ r2.sigs = n.sigs /\ r2.heard = n.heard
          /\ r2.event = n.event /\ r2.matched = n.matched /\ r2.told = n.told
      BY <1>2, <2>1 DEF RunFields
    <2>3. /\ r2.refused = n.refused \union {<<s, a>>} /\ r2.apiSigs = TakeOut(n.apiSigs, a, s)
          /\ r2.stack = [n.stack EXCEPT ![L].todo = StillToCall(@)]
      BY <1>2, <2>1 DEF RunFields, L
    <2>4. r2.stack = n.stack
      <3>1. L \in DOMAIN n.stack /\ n.stack[L] \in SigFrame
        BY <1>5, <1>14, <1>17
      <3>2. [n.stack[L] EXCEPT !.todo = @] = n.stack[L]
        BY <3>1 DEF SigFrame
      <3>3. r2.stack = [n.stack EXCEPT ![L] = [n.stack[L] EXCEPT !.todo = @]]
        BY <2>3, <3>1 DEF StillToCall
      <3>4. [n.stack EXCEPT ![L] = n.stack[L]] = n.stack
        BY <1>5, <3>1
      <3> QED BY <3>2, <3>3, <3>4
    <2>5. SigsListed(r2) /\ Stacked(r2)
      <3>1. SigsListed(r2)
        BY <1>3, <2>2 DEF SigsListed
      <3>2. Stacked(r2)
        <4>1. r2.stack = n.stack /\ r2.sigs = n.sigs /\ Stacked(n)
          BY <1>3, <2>2, <2>4
        <4> QED BY <4>1, SameStack, Zenon
      <3> QED BY <3>1, <3>2
    <2>6. HeardOf(r2) /\ AllMet(r2)
      <3>1. HeardOf(r2)
        <4>1. /\ r2.stack = n.stack /\ r2.sigs = n.sigs /\ r2.heard = n.heard /\ r2.matched = n.matched
              /\ HeardOf(n)
          BY <1>3, <2>2, <2>4
        <4> QED BY <4>1, SameHeard, Zenon
      <3>2. \A x \in ToSet(r.sigs) : Met(n, x)
        BY <1>3, <1>4, <1>12
      <3>3. \A x : Met(n, x) => Met(r2, x)
        BY <2>2 DEF Met
      <3>4. AllMet(r2)
        BY <1>14, <2>2, <3>2, <3>3 DEF AllMet
      <3> QED BY <3>1, <3>4
    <2>7. /\ DOMAIN r2.apiSigs = DOMAIN n.apiSigs
          /\ \A b \in DOMAIN n.apiSigs :
                /\ b = a => r2.apiSigs[b] = RemoveFirst(n.apiSigs[b], s)
                /\ b # a => r2.apiSigs[b] = n.apiSigs[b]
      <3>1. r2.apiSigs = [n.apiSigs EXCEPT ![a] = RemoveFirst(@, s)]
        BY <2>3 DEF TakeOut
      <3> HIDE DEF a
      <3>2. DOMAIN r2.apiSigs = DOMAIN n.apiSigs
        BY <3>1
      <3>3. ASSUME NEW b \in DOMAIN n.apiSigs
            PROVE  /\ b = a => r2.apiSigs[b] = RemoveFirst(n.apiSigs[b], s)
                   /\ b # a => r2.apiSigs[b] = n.apiSigs[b]
        BY <3>1
      <3> QED BY <3>2, <3>3
    <2>8. ASSUME NEW b \in DOMAIN n.apiSigs
          PROVE  r2.apiSigs[b] \in Seq(ToSet(r.sigs))
                 /\ \A x \in ToSet(n.apiSigs[b]) : x \in ToSet(r2.apiSigs[b]) \/ (b = a /\ x = s)
      <3>1. n.apiSigs[b] \in Seq(ToSet(r.sigs))
        BY <1>2, <1>3 DEF ApisKept
      <3>2. /\ RemoveFirst(n.apiSigs[b], s) \in Seq(ToSet(r.sigs))
            /\ ToSet(n.apiSigs[b]) \ {s} \subseteq ToSet(RemoveFirst(n.apiSigs[b], s))
        BY <3>1, RemoveFirstKeeps
      <3>3. CASE b = a
        BY <2>7, <3>2, <3>3
      <3>4. CASE b # a
        BY <2>7, <3>1, <3>4
      <3> QED BY <3>3, <3>4
    <2>9. \A x, b : b \in DOMAIN n.apiSigs /\ Kept(n, x, b) => Kept(r2, x, b)
      BY <2>3, <2>8 DEF Kept
    <2>10. ApisKept(r2)
      <3>1. r2.sigs = r.sigs /\ n.sigs = r.sigs /\ DOMAIN r2.apiSigs = DOMAIN n.apiSigs
        BY <1>14, <2>2, <2>7
      <3>2. \A b \in DOMAIN n.apiSigs : r2.apiSigs[b] \in Seq(ToSet(r.sigs))
        BY <2>8
      <3>3. ASSUME NEW f \in CallEvents, NEW x \in ToSet(r.sigs),
                   CallOf(f).api \in DOMAIN n.apiSigs, Filters(x, CallOf(f))
            PROVE  Kept(r2, x, CallOf(f).api)
        <4>1. Kept(n, x, CallOf(f).api)
          BY <1>3, <3>1, <3>3 DEF ApisKept
        <4> QED BY <2>9, <3>3, <4>1
      <3> QED BY <3>1, <3>2, <3>3 DEF ApisKept
    <2>11. AllSeen(r2)
      <3>1. \A x, f : Seen(n, x, f) => Seen(r2, x, f)
        BY <2>2, <2>3, <2>4 DEF Seen, ToSee
      <3> QED BY <1>3, <2>2, <3>1 DEF AllSeen
    <2> QED BY <2>2, <2>5, <2>6, <2>10, <2>11 DEF RunInv, LookInv, BeforeLook
  <1>13. CASE o # "ok" /\ ~ (o = "notImplemented" /\ e.kind = "call")
    <2>1. r2 = n
      BY <1>13 DEF Answered
    <2>2. AllMet(n)
      BY <1>2, <1>3, <1>4, <1>13 DEF AllMet
    <2> QED BY <1>2, <1>3, <2>1, <2>2 DEF RunInv, LookInv, BeforeLook
  <1> QED BY <1>11, <1>12, <1>13

(* The signature invariant to begin with. *)
LEMMA SigsInit == PluginsInit => SigsInv
  <1> SUFFICES ASSUME PluginsInit PROVE SigsInv
    OBVIOUS
  <1>1. DOMAIN LoadPlugins = Groups
    BY LoadedLists
  <1>2. \A t \in Threads : t # Nobody
    BY PluginsAssumption DEF Nobody
  <1>3. RunInv(NewRun)
    BY DEF RunInv, NewRun, RunFields, Fresh, BeforeLook
  <1> HIDE DEF RunInv
  <1>4. DOMAIN run = Threads /\ \A t \in Threads : RunInv(run[t])
    BY <1>3 DEF PluginsInit
  <1>5. lists = LoadPlugins /\ sorter \in [Groups -> Threads \union {Nobody}] /\ \A g \in Groups : sorter[g] = Nobody
    BY DEF PluginsInit
  <1>6. "signatures" \in Groups /\ "processing" \in Groups /\ "reporting" \in Groups
    BY DEF Groups
  <1> QED BY <1>1, <1>2, <1>4, <1>5, <1>6 DEF SigsInv, SortsWhen

(* A thread does something on its own. *)
LEMMA AloneStep ==
  ASSUME SigsInv, NEW t \in Threads, NEW x, SetRun(t, x), RunInv(x),
         run[t].stage # "sort" \/ x.stage = "sort" \/ sorter["processing"] # t,
         run[t].stage # "sortReports" \/ x.stage = "sortReports" \/ sorter["reporting"] # t
  PROVE  SigsInv'
  <1>1. /\ run' = [run EXCEPT ![t] = x] /\ lists' = lists /\ sorter' = sorter
    BY DEF SetRun
  <1>2. DOMAIN run = Threads /\ \A u \in Threads : RunInv(run[u])
    BY DEF SigsInv, SortsWhen
  <1>3. DOMAIN run' = Threads /\ run'[t] = x /\ \A u \in Threads : u # t => run'[u] = run[u]
    BY <1>1, <1>2
  <1>4. \A u \in Threads : RunInv(run'[u])
    BY <1>2, <1>3
  <1>5. ASSUME NEW u \in Threads
        PROVE  /\ sorter["processing"] = u => run'[u].stage = "sort"
               /\ sorter["reporting"] = u => run'[u].stage = "sortReports"
    <2>1. /\ sorter["processing"] = u => run[u].stage = "sort"
          /\ sorter["reporting"] = u => run[u].stage = "sortReports"
      <3>1. SortsWhen(u)
        BY DEF SigsInv
      <3> QED BY <3>1 DEF SortsWhen
    <2>2. CASE u = t
      BY <1>3, <2>1, <2>2
    <2>3. CASE u # t
      BY <1>3, <2>1, <2>3
    <2> QED BY <2>2, <2>3
  <1>6. /\ DOMAIN lists = Groups /\ sorter \in [Groups -> Threads \union {Nobody}]
        /\ lists["signatures"] = LoadPlugins["signatures"] /\ sorter["signatures"] = Nobody
    BY DEF SigsInv, SortsWhen
  <1> QED BY <1>1, <1>3, <1>4, <1>5, <1>6 DEF SigsInv, SortsWhen

(* The stages of processing and of reporting. *)
LEMMA StageNames ==
  /\ DOMAIN Stages = {"look", "lookReports"}
  /\ Stages["look"] = "processing" /\ Stages["lookReports"] = "reporting"
  /\ Sorting["look"] = "sort" /\ Sorting["lookReports"] = "sortReports"
  /\ Looping["look"] = "process" /\ Looping["lookReports"] = "report"
  /\ After["look"] = "signatures" /\ After["lookReports"] = "done"
  BY DEF Stages, Sorting, Looping, After

(* Auxiliary modules are started and stopped. *)
LEMMA AuxSteps ==
  ASSUME SigsInv, NEW t \in Threads, StartAux(t) \/ StopAux(t)
  PROVE  SigsInv'
  <1> DEFINE r == run[t]
  <1>1. RunInv(r) /\ DOMAIN r = RunFields
    BY DEF SigsInv, RunInv
  <1>2. CASE StartAux(t)
    <2>1. PICK x : /\ SetRun(t, x) /\ r.stage = "start"
                   /\ \/ x = [r EXCEPT !.stage = "stop", !.i = 1]
                      \/ \E y : x = [r EXCEPT !.started = y, !.i = @ + 1]
                      \/ x = [r EXCEPT !.i = @ + 1]
      BY <1>2 DEF StartAux
    <2>2. /\ DOMAIN x = RunFields /\ x.stage \in {"start", "stop"}
          /\ x.apiSigs = r.apiSigs /\ x.event = r.event /\ x.stack = r.stack
          /\ x.matched = r.matched /\ x.told = r.told /\ x.refused = r.refused
      BY <1>1, <2>1 DEF RunFields
    <2>3. RunInv(x)
      BY <1>1, <2>1, <2>2, QuietStep DEF BeforeLook
    <2> QED BY <2>1, <2>3, AloneStep
  <1>3. CASE StopAux(t)
    <2>1. PICK x : /\ SetRun(t, x) /\ r.stage = "stop"
                   /\ \/ x = [r EXCEPT !.stage = "look", !.i = 1]
                      \/ \E y : x = [r EXCEPT !.stopped = y, !.i = @ + 1]
      BY <1>3 DEF StopAux
    <2>2. /\ DOMAIN x = RunFields /\ x.stage \in {"stop", "look"}
          /\ x.apiSigs = r.apiSigs /\ x.event = r.event /\ x.stack = r.stack
          /\ x.matched = r.matched /\ x.told = r.told /\ x.refused = r.refused
      BY <1>1, <2>1 DEF RunFields
    <2>3. RunInv(x)
      BY <1>1, <2>1, <2>2, QuietStep DEF BeforeLook
    <2> QED BY <2>1, <2>3, AloneStep
  <1> QED BY <1>2, <1>3

(* A thread goes to another stage that tells nothing of the signatures. *)
LEMMA Moved ==
  ASSUME NEW r, RunInv(r), NEW s, s \in {"look", "lookReports"}, NEW y, NEW i,
         r.stage = s \/ r.stage = Sorting[s], y \in {Sorting[s], Looping[s], After[s]}
  PROVE  /\ RunInv([r EXCEPT !.stage = y]) /\ [r EXCEPT !.stage = y].stage = y
         /\ RunInv([r EXCEPT !.stage = y, !.i = i]) /\ [r EXCEPT !.stage = y, !.i = i].stage = y
  <1> DEFINE x1 == [r EXCEPT !.stage = y]
             x2 == [r EXCEPT !.stage = y, !.i = i]
  <1>1. DOMAIN r = RunFields
    BY DEF RunInv
  <1>2. /\ DOMAIN x1 = RunFields /\ x1.stage = y /\ x1.apiSigs = r.apiSigs /\ x1.event = r.event /\ x1.stack = r.stack
        /\ x1.matched = r.matched /\ x1.told = r.told /\ x1.refused = r.refused
    BY <1>1 DEF RunFields
  <1>3. /\ DOMAIN x2 = RunFields /\ x2.stage = y /\ x2.apiSigs = r.apiSigs /\ x2.event = r.event /\ x2.stack = r.stack
        /\ x2.matched = r.matched /\ x2.told = r.told /\ x2.refused = r.refused
    BY <1>1 DEF RunFields
  <1> HIDE DEF x1, x2
  <1>4. CASE s = "look"
    <2>1. r.stage \in BeforeLook /\ y \in BeforeLook
      BY <1>4, StageNames DEF BeforeLook
    <2>2. RunInv(x1)
      BY <1>2, <2>1, QuietStep
    <2>3. RunInv(x2)
      BY <1>3, <2>1, QuietStep
    <2> QED BY <1>2, <1>3, <2>2, <2>3 DEF x1, x2
  <1>5. CASE s = "lookReports"
    <2>1. y \in {"sortReports", "report", "done", "failed"}
      BY <1>5, StageNames
    <2>2. RunInv(x1)
      BY <1>2, <2>1, LaterStep
    <2>3. RunInv(x2)
      BY <1>3, <2>1, LaterStep
    <2> QED BY <1>2, <1>3, <2>2, <2>3 DEF x1, x2
  <1> QED BY <1>4, <1>5

(* A thread looks whether there is a list to go over. *)
LEMMA LookStep ==
  ASSUME SigsInv, NEW t \in Threads, LookAtList(t)
  PROVE  SigsInv'
  <1> DEFINE r == run[t]
  <1>1. PICK s \in {"look", "lookReports"} :
              /\ r.stage = s
              /\ SetRun(t, [r EXCEPT !.stage = IF ListPlugins(Stages[s]) = << >> THEN After[s] ELSE Sorting[s]])
    BY StageNames DEF LookAtList
  <1>2. PICK y \in {After[s], Sorting[s]} : SetRun(t, [r EXCEPT !.stage = y])
    BY <1>1
  <1>3. RunInv(r)
    BY DEF SigsInv, SortsWhen
  <1>4. RunInv([r EXCEPT !.stage = y])
    BY <1>1, <1>3, Moved
  <1>5. r.stage # "sort" /\ r.stage # "sortReports"
    BY <1>1
  <1> QED BY <1>2, <1>4, <1>5, AloneStep

(* A sort begins. *)
LEMMA SortBeginsStep ==
  ASSUME SigsInv, NEW t \in Threads, SortBegins(t)
  PROVE  SigsInv'
  <1> DEFINE r == run[t]
  <1>1. PICK s \in {"look", "lookReports"} :
              /\ r.stage = Sorting[s] /\ sorter[Stages[s]] # t
              /\ IF ListPlugins(Stages[s]) = << >>
                 THEN SetRun(t, [r EXCEPT !.stage = Looping[s], !.i = 1])
                 ELSE sorter' = [sorter EXCEPT ![Stages[s]] = t] /\ UNCHANGED <<lists, run>>
    BY StageNames DEF SortBegins
  <1>2. RunInv(r)
    BY DEF SigsInv, SortsWhen
  <1>3. CASE ListPlugins(Stages[s]) = << >>
    <2>1. RunInv([r EXCEPT !.stage = Looping[s], !.i = 1])
      <3> DEFINE y == Looping[s]
      <3>1. r.stage = Sorting[s] /\ y \in {Sorting[s], Looping[s], After[s]}
        BY <1>1
      <3> HIDE DEF y, r
      <3>2. RunInv([r EXCEPT !.stage = y, !.i = 1])
        BY <1>2, <3>1, Moved
      <3> QED BY <3>2 DEF y
    <2>2. /\ r.stage # "sort" \/ sorter["processing"] # t
          /\ r.stage # "sortReports" \/ sorter["reporting"] # t
      BY <1>1, StageNames
    <2> QED BY <1>1, <1>3, <2>1, <2>2, AloneStep
  <1>4. CASE ListPlugins(Stages[s]) # << >>
    <2>1. sorter' = [sorter EXCEPT ![Stages[s]] = t] /\ lists' = lists /\ run' = run
      BY <1>1, <1>4
    <2>2. Stages[s] \in {"processing", "reporting"} /\ {"processing", "reporting", "signatures"} \subseteq Groups
      BY StageNames DEF Groups
    <2>3. /\ sorter' \in [Groups -> Threads \union {Nobody}] /\ sorter'["signatures"] = Nobody
          /\ \A u \in Threads : /\ sorter'["processing"] = u => run[u].stage = "sort"
                                /\ sorter'["reporting"] = u => run[u].stage = "sortReports"
      <3>1. /\ sorter' \in [Groups -> Threads \union {Nobody}] /\ sorter'["signatures"] = Nobody
        BY <2>1, <2>2 DEF SigsInv
      <3>2. ASSUME NEW u \in Threads
            PROVE  /\ sorter'["processing"] = u => run[u].stage = "sort"
                   /\ sorter'["reporting"] = u => run[u].stage = "sortReports"
        <4>1. /\ sorter["processing"] = u => run[u].stage = "sort"
              /\ sorter["reporting"] = u => run[u].stage = "sortReports"
          <5>1. SortsWhen(u)
            BY DEF SigsInv
          <5> QED BY <5>1 DEF SortsWhen
        <4>2. sorter \in [Groups -> Threads \union {Nobody}]
          BY DEF SigsInv
        <4>3. CASE s = "look"
          BY <1>1, <2>1, <2>2, <4>1, <4>2, <4>3, StageNames
        <4>4. CASE s = "lookReports"
          BY <1>1, <2>1, <2>2, <4>1, <4>2, <4>4, StageNames
        <4> QED BY <4>3, <4>4
      <3> QED BY <3>1, <3>2
    <2> QED BY <2>1, <2>3 DEF SigsInv, SortsWhen
  <1> QED BY <1>3, <1>4

(* A sort ends. *)
LEMMA SortEndsStep ==
  ASSUME SigsInv, NEW t \in Threads, SortEnds(t)
  PROVE  SigsInv'
  <1> DEFINE r == run[t]
  <1>1. PICK s \in {"look", "lookReports"} :
              /\ sorter[Stages[s]] = t
              /\ sorter' = [sorter EXCEPT ![Stages[s]] = Nobody]
              /\ \E s2 \in Sorted(Stages[s]) : lists' = [lists EXCEPT ![Stages[s]] = s2]
              /\ run' = [run EXCEPT ![t].stage = Looping[s], ![t].i = 1]
    BY StageNames DEF SortEnds
  <1>2. RunInv(r) /\ DOMAIN run = Threads
    BY DEF SigsInv, SortsWhen
  <1>3. r.stage = Sorting[s]
    <2>1. SortsWhen(t)
      BY DEF SigsInv
    <2> QED BY <1>1, <2>1, StageNames DEF SortsWhen
  <1>4. run' = [run EXCEPT ![t] = [r EXCEPT !.stage = Looping[s], !.i = 1]]
    BY <1>1, <1>2
  <1> DEFINE x == [r EXCEPT !.stage = Looping[s], !.i = 1]
  <1>5. RunInv(x)
    <2> DEFINE y == Looping[s]
    <2>1. y \in {Sorting[s], Looping[s], After[s]} /\ s \in {"look", "lookReports"}
      OBVIOUS
    <2> HIDE DEF r, y
    <2>2. RunInv([r EXCEPT !.stage = y, !.i = 1])
      BY <1>2, <1>3, <2>1, Moved
    <2> QED
      BY <2>2 DEF y
  <1> HIDE DEF x
  <1>6. DOMAIN run' = Threads /\ run'[t] = x /\ \A u \in Threads : u # t => run'[u] = run[u]
    BY <1>2, <1>4 DEF x
  <1>7. \A u \in Threads : RunInv(run'[u])
    BY <1>5, <1>6 DEF SigsInv, SortsWhen
  <1>8. Stages[s] \in {"processing", "reporting"} /\ {"processing", "reporting", "signatures"} \subseteq Groups
    BY StageNames DEF Groups
  <1>9. DOMAIN lists' = Groups /\ lists'["signatures"] = LoadPlugins["signatures"]
    BY <1>1, <1>8 DEF SigsInv, SortsWhen
  <1>10. /\ sorter' \in [Groups -> Threads \union {Nobody}] /\ sorter'["signatures"] = Nobody
    BY <1>1, <1>8 DEF SigsInv, SortsWhen
  <1>11. ASSUME NEW u \in Threads
         PROVE  /\ sorter'["processing"] = u => run'[u].stage = "sort"
                /\ sorter'["reporting"] = u => run'[u].stage = "sortReports"
    <2>1. /\ sorter["processing"] = u => run[u].stage = "sort"
          /\ sorter["reporting"] = u => run[u].stage = "sortReports"
      <3>1. SortsWhen(u)
        BY DEF SigsInv
      <3> QED BY <3>1 DEF SortsWhen
    <2>2. u # Nobody
      BY PluginsAssumption DEF Nobody
    <2>3. /\ sorter'["processing"] = u => sorter["processing"] = u
          /\ sorter'["reporting"] = u => sorter["reporting"] = u
      BY <1>1, <1>8, <2>2 DEF SigsInv, SortsWhen
    <2>4. CASE u = t
      <3>1. s = "look" => sorter'["processing"] # u /\ run[u].stage # "sortReports"
        BY <1>1, <1>3, <1>8, <2>2, <2>4, StageNames DEF SigsInv, SortsWhen
      <3>2. s = "lookReports" => sorter'["reporting"] # u /\ run[u].stage # "sort"
        BY <1>1, <1>3, <1>8, <2>2, <2>4, StageNames DEF SigsInv, SortsWhen
      <3> QED BY <2>1, <2>3, <3>1, <3>2
    <2>5. CASE u # t
      BY <1>6, <2>1, <2>3, <2>5
    <2> QED BY <2>4, <2>5
  <1> QED BY <1>6, <1>7, <1>9, <1>10, <1>11 DEF SigsInv, SortsWhen

(* A processing or reporting module has run. *)
LEMMA ModuleSteps ==
  ASSUME SigsInv, NEW t \in Threads, ProcessModule(t) \/ ReportModule(t)
  PROVE  SigsInv'
  <1> DEFINE r == run[t]
  <1>1. RunInv(r) /\ DOMAIN r = RunFields
    BY DEF SigsInv, RunInv
  <1>2. CASE ProcessModule(t)
    <2>1. PICK x : /\ SetRun(t, x) /\ r.stage = "process"
                   /\ \/ x = [r EXCEPT !.stage = "signatures"]
                      \/ \E y, z : x = [r EXCEPT !.ran = y, !.i = @ + 1, !.results = z]
      <3> DEFINE list == ListPlugins("processing")
      <3>1. CASE r.i <= Len(list)
        <4>1. PICK o \in Outcomes : SetRun(t, Processed(r, list[r.i], o))
          BY <1>2, <3>1 DEF ProcessModule
        <4>2. \E y, z : Processed(r, list[r.i], o) = [r EXCEPT !.ran = y, !.i = @ + 1, !.results = z]
          BY DEF Processed
        <4> QED BY <1>2, <4>1, <4>2 DEF ProcessModule
      <3>2. CASE ~ (r.i <= Len(list))
        BY <1>2, <3>2 DEF ProcessModule
      <3> QED BY <3>1, <3>2
    <2>2. /\ DOMAIN x = RunFields /\ x.stage \in {"process", "signatures"}
          /\ x.apiSigs = r.apiSigs /\ x.event = r.event /\ x.stack = r.stack
          /\ x.matched = r.matched /\ x.told = r.told /\ x.refused = r.refused
      BY <1>1, <2>1 DEF RunFields
    <2>3. RunInv(x)
      BY <1>1, <2>1, <2>2, QuietStep DEF BeforeLook
    <2> QED BY <2>1, <2>3, AloneStep
  <1>3. CASE ReportModule(t)
    <2>1. PICK x : /\ SetRun(t, x) /\ r.stage = "report"
                   /\ \/ x = [r EXCEPT !.stage = "failed"]
                      \/ \E y : x = [r EXCEPT !.reported = y, !.i = @ + 1]
                      \/ x = [r EXCEPT !.stage = "done"]
      BY <1>3 DEF ReportModule
    <2>2. DOMAIN x = RunFields /\ x.stage \in {"report", "failed", "done"}
      BY <1>1, <2>1 DEF RunFields
    <2>3. RunInv(x)
      BY <2>2, LaterStep
    <2> QED BY <2>1, <2>3, AloneStep
  <1> QED BY <1>2, <1>3

(* The signatures start, are told of an event, and end. *)
LEMMA SignatureSteps ==
  ASSUME SigsInv, NEW t \in Threads,
         StartSignatures(t) \/ YieldEvent(t) \/ CallSignature(t) \/ FrameEnds(t) \/ EndSignatures(t)
  PROVE  SigsInv'
  <1> DEFINE r == run[t]
  <1>1. RunInv(r)
    BY DEF SigsInv, SortsWhen
  <1>2. SUFFICES ASSUME r.stage \in {"signatures", "events"} PROVE \E x : SetRun(t, x) /\ RunInv(x)
    <2>1. r.stage \in {"signatures", "events"}
      BY DEF StartSignatures, YieldEvent, CallSignature, FrameEnds, EndSignatures
    <2>2. r.stage # "sort" /\ r.stage # "sortReports"
      BY <2>1
    <2> QED BY <1>2, <2>1, <2>2, AloneStep
  <1>3. CASE StartSignatures(t)
    <2> DEFINE sigs == Enabled(ListPlugins("signatures"))
    <2>1. sigs = Enabled(LoadPlugins["signatures"])
      BY DEF SigsInv, ListPlugins
    <2> DEFINE x == [r EXCEPT !.stage = "events", !.sigs = sigs,
                           !.heard = [s \in ToSet(sigs) |-> {}],
                           !.marks = [s \in ToSet(sigs) |-> << >>]]
    <2>2. r.stage = "signatures" /\ SetRun(t, x)
      BY <1>3 DEF StartSignatures
    <2> HIDE DEF sigs
    <2>3. RunInv(x)
      BY <1>1, <2>1, <2>2, StartStep
    <2> QED BY <2>2, <2>3
  <1>4. CASE YieldEvent(t)
    <2> DEFINE e == Events[r.event + 1]
               x == IF e.kind = "call"
                    THEN [r EXCEPT !.event = @ + 1, !.apiSigs = KnownApiSigs(r, CallOf(e)),
                                   !.stack = <<[ev |-> e, todo |-> Reverse(KnownApiSigs(r, CallOf(e))[CallOf(e).api])]>>]
                    ELSE [r EXCEPT !.event = @ + 1, !.stack = <<[ev |-> e, todo |-> r.sigs]>>]
    <2>1. r.stage = "events" /\ r.stack = << >> /\ r.event < Len(Events) /\ SetRun(t, x)
      BY <1>4 DEF YieldEvent
    <2>2. RunInv(x)
      BY <1>1, <2>1, YieldStep
    <2> QED BY <2>1, <2>2
  <1>5. CASE CallSignature(t)
    <2> DEFINE top == Last(r.stack)
               s == Head(top.todo)
               n == Noted(r, s, top.ev)
    <2>1. PICK o \in Answers(r, s, top.ev) : SetRun(t, Answered(r, n, s, top.ev, o))
      BY <1>5 DEF CallSignature
    <2>2. r.stage = "events" /\ r.stack # << >> /\ top.todo # << >>
      BY <1>5 DEF CallSignature
    <2> HIDE DEF RunInv
    <2>3. RunInv(Answered(r, n, s, top.ev, o))
      BY <1>1, <2>2, CallStep
    <2> QED BY <2>1, <2>3
  <1>6. CASE FrameEnds(t)
    <2> DEFINE x == [r EXCEPT !.stack = Front(@)]
    <2>1. r.stage = "events" /\ r.stack # << >> /\ Last(r.stack).todo = << >> /\ SetRun(t, x)
      BY <1>6 DEF FrameEnds
    <2>2. RunInv(x)
      BY <1>1, <2>1, FrameStep
    <2> QED BY <2>1, <2>2
  <1>7. CASE EndSignatures(t)
    <2> DEFINE score == Score(r.matched)
               found == BySeverity(r)
               x == [r EXCEPT !.stage = "lookReports", !.score = score, !.signatures = found]
    <2>1. r.stage = "events" /\ r.stack = << >> /\ r.event = Len(Events) /\ SetRun(t, x)
      BY <1>7 DEF EndSignatures
    <2> HIDE DEF score, found
    <2>2. RunInv(x)
      BY <1>1, <2>1, EndStep
    <2> QED BY <2>1, <2>2
  <1> QED BY <1>3, <1>4, <1>5, <1>6, <1>7

(* The signature invariant is inductive. *)
LEMMA SigsStep == SigsInv /\ [PluginsNext]_pvars => SigsInv'
  <1> SUFFICES ASSUME SigsInv, [PluginsNext]_pvars PROVE SigsInv'
    OBVIOUS
  <1>1. CASE UNCHANGED pvars
    BY <1>1 DEF SigsInv, SortsWhen, pvars
  <1>2. ASSUME NEW t \in Threads,
               \/ StartAux(t) \/ StopAux(t)
               \/ LookAtList(t) \/ SortBegins(t) \/ SortEnds(t)
               \/ ProcessModule(t) \/ ReportModule(t)
               \/ StartSignatures(t) \/ YieldEvent(t) \/ CallSignature(t) \/ FrameEnds(t) \/ EndSignatures(t)
        PROVE  SigsInv'
    BY <1>2, AuxSteps, LookStep, SortBeginsStep, SortEndsStep, ModuleSteps, SignatureSteps
  <1> QED BY <1>1, <1>2 DEF PluginsNext

(* The signature invariant of every state. *)
LEMMA SigsAlways == PluginsSpec => []SigsInv
  BY SigsInit, SigsStep, PTL DEF PluginsSpec

(* What the invariant says of a run of the signatures that is over. *)
LEMMA SigsMean == SigsInv => MatchesHeard /\ CallsSeen
  <1> SUFFICES ASSUME SigsInv PROVE MatchesHeard /\ CallsSeen
    OBVIOUS
  <1>1. ASSUME NEW t \in Threads, run[t].stage = "lookReports"
        PROVE  LookInv(run[t]) /\ run[t].stack = << >> /\ run[t].event = Len(Events)
    BY <1>1 DEF SigsInv, RunInv
  <1>2. MatchesHeard
    <2> SUFFICES ASSUME NEW t \in Threads, run[t].stage = "lookReports", NEW s \in ToSet(run[t].sigs),
                        Needs[s] # {}, Needs[s] \subseteq run[t].matched
                 PROVE  s \in run[t].matched
      BY DEF MatchesHeard
    <2> DEFINE r == run[t]
    <2>1. \A m \in r.matched : m \in r.heard[s]
      <3>1. Len(r.stack) = 0
        BY <1>1
      <3> QED BY <1>1, <3>1 DEF LookInv, HeardOf, ToHear
    <2> QED BY <1>1, <2>1 DEF LookInv, AllMet, Met
  <1>3. CallsSeen
    <2> SUFFICES ASSUME NEW t \in Threads, run[t].stage = "lookReports", NEW s \in ToSet(run[t].sigs),
                        NEW e \in ToSet(Events), e.kind = "call", Filters(s, CallOf(e))
                 PROVE  <<s, e>> \in run[t].told \/ <<s, CallOf(e).api>> \in run[t].refused
      BY DEF CallsSeen
    <2>1. PICK j \in 1..Len(Events) : Events[j] = e
      BY EventTypes DEF ToSet
    <2>2. e \in CallEvents
      BY <2>1, EventTypes, EventKinds
    <2>3. Seen(run[t], s, e)
      BY <1>1, <2>1, <2>2 DEF LookInv, AllSeen
    <2>4. ~ ToSee(run[t], s, e)
      BY <1>1 DEF ToSee
    <2> QED BY <2>3, <2>4 DEF Seen
  <1> QED BY <1>2, <1>3

(* MatchesHeard for any signatures and calls: a match is told to every signature at once, so
   one that waits for others cannot miss them, and its answer comes before the stack is full. *)
THEOREM MatchesTold == PluginsSpec => []MatchesHeard
  BY SigsAlways, SigsMean, PTL

(* CallsSeen for any signatures and calls: no call passes a signature by that wants it, though
   those without on_call are taken out of the list that is gone over. *)
THEOREM CallsTold == PluginsSpec => []CallsSeen
  BY SigsAlways, SigsMean, PTL

(* The names of the plugins. *)
Names == {m.name : m \in ToSet(Members)}

(* The loop over a list has been over what is before its index. *)
GoneOver(list, got, i) == i \in 1..Len(list) + 1 /\ ToSet(got) = {list[k] : k \in 1..i - 1}

(* What an analysis has gone over, with the lists ls, by its stage. *)
RanInv(ls, r) ==
    /\ r.ran \in Seq(Names) /\ r.reported \in Seq(Names)
    /\ r.stage \in {"start", "stop", "look", "sort"} => r.ran = << >>
    /\ r.stage = "process" => GoneOver(ls["processing"], r.ran, r.i)
    /\ r.stage = "signatures" => ToSet(r.ran) = ToSet(LoadPlugins["processing"])
    /\ r.stage \in BeforeLook \union {"events", "lookReports", "sortReports"} => r.reported = << >>
    /\ r.stage = "report" => GoneOver(ls["reporting"], r.reported, r.i)
    /\ r.stage = "done" => ToSet(r.reported) = ToSet(LoadPlugins["reporting"])

(* The lists that are sorted and gone over. *)
Loops == {"processing", "reporting"}
ListsInv(ls) == \A g \in Loops : ls[g] \in Seq(Names) /\ ToSet(ls[g]) = ToSet(LoadPlugins[g])
OneInv == ListsInv(lists) /\ \A t \in Threads : RanInv(lists, run[t])

(* The lists to begin with. *)
LEMMA OneInit == PluginsInit => OneInv
  <1> SUFFICES ASSUME PluginsInit PROVE OneInv
    OBVIOUS
  <1>1. ListsInv(lists)
    BY LoadedLists DEF ListsInv, Loops, Groups, Names, PluginsInit
  <1>2. RanInv(lists, NewRun)
    <2>1. NewRun.ran = << >> /\ NewRun.reported = << >> /\ NewRun.stage = "start"
      BY DEF NewRun
    <2>2. << >> \in Seq(Names)
      OBVIOUS
    <2> QED BY <2>1, <2>2 DEF RanInv
  <1> QED BY <1>1, <1>2 DEF OneInv, PluginsInit

(* A thread does something on its own, and the lists stay as they are. *)
LEMMA RanStep ==
  ASSUME SigsInv, OneInv, NEW t \in Threads, NEW x, SetRun(t, x), RanInv(lists, x)
  PROVE  OneInv'
  <1>1. lists' = lists /\ DOMAIN run = Threads /\ run' = [run EXCEPT ![t] = x]
    BY DEF SetRun, SigsInv
  <1>2. \A u \in Threads : run'[u] = IF u = t THEN x ELSE run[u]
    BY <1>1
  <1>3. \A u \in Threads : RanInv(lists, run'[u])
    BY <1>2 DEF OneInv
  <1> QED BY <1>1, <1>3 DEF OneInv

(* The thread that is alone is shown the list, unless it sorts it. *)
LEMMA Shown ==
  ASSUME SigsInv, NEW t \in Threads, \A a, b \in Threads : a = b, NEW g \in Groups, sorter[g] # t
  PROVE  ListPlugins(g) = lists[g]
  BY DEF SigsInv, ListPlugins

(* A loop over a list goes on by one, or has been over all of it. *)
LEMMA OneMore ==
  ASSUME NEW S, NEW list \in Seq(S), NEW got \in Seq(S), NEW i, GoneOver(list, got, i)
  PROVE  /\ i <= Len(list) => /\ list[i] \in S /\ Append(got, list[i]) \in Seq(S)
                              /\ GoneOver(list, Append(got, list[i]), i + 1)
         /\ ~ (i <= Len(list)) => ToSet(got) = ToSet(list)
  <1>1. /\ Len(list) \in Nat /\ DOMAIN list = 1..Len(list) /\ i \in 1..Len(list) + 1
        /\ ToSet(got) = {list[k] : k \in 1..i - 1}
    BY DEF GoneOver
  <1>2. ASSUME i <= Len(list)
        PROVE  /\ list[i] \in S /\ Append(got, list[i]) \in Seq(S)
               /\ GoneOver(list, Append(got, list[i]), i + 1)
    <2>1. i \in 1..Len(list) /\ i + 1 \in 1..Len(list) + 1 /\ list[i] \in S
      BY <1>1, <1>2
    <2>2. Append(got, list[i]) \in Seq(S) /\ ToSet(Append(got, list[i])) = ToSet(got) \union {list[i]}
      BY <2>1, SetOfAppend
    <2>3. {list[k] : k \in 1..(i + 1) - 1} = {list[k] : k \in 1..i - 1} \union {list[i]}
      <3>1. \A k : k \in 1..(i + 1) - 1 <=> k \in 1..i - 1 \/ k = i
        BY <1>1
      <3> QED BY <3>1
    <2> QED BY <1>1, <2>1, <2>2, <2>3 DEF GoneOver
  <1>3. ASSUME ~ (i <= Len(list)) PROVE ToSet(got) = ToSet(list)
    <2>1. i - 1 = Len(list)
      BY <1>1, <1>3
    <2> QED BY <1>1, <2>1 DEF ToSet
  <1> QED BY <1>2, <1>3

(* A loop over a list starts. *)
LEMMA FromTheStart ==
  ASSUME NEW S, NEW list \in Seq(S)
  PROVE  GoneOver(list, << >>, 1)
  <1>1. ToSet(<< >>) = {} /\ {list[k] : k \in 1..1 - 1} = {} /\ Len(list) \in Nat
    BY DEF ToSet
  <1> QED BY <1>1 DEF GoneOver

(* A sort moves the classes of a list and loses none. *)
LEMMA SortedSame ==
  ASSUME NEW g \in Groups, NEW s, s = lists[g], s \in Seq(Names), NEW s2 \in Sorted(g)
  PROVE  s2 \in Seq(Names) /\ ToSet(s2) = ToSet(s)
  <1>1. PICK p \in Bijection(DOMAIN s, DOMAIN s) : s2 = [i \in DOMAIN s |-> s[p[i]]]
    BY DEF Sorted
  <1>2. /\ p \in [DOMAIN s -> DOMAIN s] /\ \A j \in DOMAIN s : \E i \in DOMAIN s : p[i] = j
    BY DEF Bijection, Injection, Surjection
  <1>3. DOMAIN s = 1..Len(s) /\ Len(s) \in Nat
    OBVIOUS
  <1>4. s2 \in Seq(Names) /\ DOMAIN s2 = DOMAIN s
    BY <1>1, <1>2, <1>3
  <1>5. \A i \in DOMAIN s : s2[i] = s[p[i]] /\ p[i] \in DOMAIN s
    BY <1>1, <1>2
  <1>6. ToSet(s2) \subseteq ToSet(s)
    BY <1>4, <1>5 DEF ToSet
  <1>7. ToSet(s) \subseteq ToSet(s2)
    <2> SUFFICES ASSUME NEW j \in DOMAIN s PROVE s[j] \in ToSet(s2)
      BY DEF ToSet
    <2>1. PICK i \in DOMAIN s : p[i] = j
      BY <1>2
    <2> QED BY <1>4, <1>5, <2>1 DEF ToSet
  <1> QED BY <1>4, <1>6, <1>7

(* A thread that is alone goes over the list that was loaded. *)
LEMMA OneStep ==
  ASSUME SigsInv, OneInv, \A a, b \in Threads : a = b, [PluginsNext]_pvars
  PROVE  OneInv'
  <1>1. CASE UNCHANGED pvars
    BY <1>1 DEF OneInv, pvars
  <1>2. ASSUME NEW t \in Threads,
               \/ StartAux(t) \/ StopAux(t)
               \/ LookAtList(t) \/ SortBegins(t) \/ SortEnds(t)
               \/ ProcessModule(t) \/ ReportModule(t)
               \/ StartSignatures(t) \/ YieldEvent(t) \/ CallSignature(t) \/ FrameEnds(t) \/ EndSignatures(t)
        PROVE  OneInv'
    <2> DEFINE r == run[t]
    <2>1. DOMAIN r = RunFields /\ RanInv(lists, r) /\ ListsInv(lists)
      BY DEF SigsInv, RunInv, OneInv
    <2>2. /\ r.stage # "sort" => ListPlugins("processing") = lists["processing"]
          /\ r.stage # "sortReports" => ListPlugins("reporting") = lists["reporting"]
      <3>1. SortsWhen(t) /\ "processing" \in Groups /\ "reporting" \in Groups
        BY DEF SigsInv, Groups
      <3> QED BY <1>2, <3>1, Shown DEF SortsWhen
    <2>3. /\ lists["processing"] \in Seq(Names) /\ ToSet(lists["processing"]) = ToSet(LoadPlugins["processing"])
          /\ lists["reporting"] \in Seq(Names) /\ ToSet(lists["reporting"]) = ToSet(LoadPlugins["reporting"])
      BY <2>1 DEF ListsInv, Loops
    <2>4. ASSUME NEW x, DOMAIN x = RunFields, x.ran = r.ran, x.reported = r.reported,
                 \/ r.stage \in {"start", "stop"} /\ x.stage \in {"start", "stop", "look"}
                 \/ r.stage = "look" /\ x.stage = "sort"
                 \/ r.stage \in {"signatures", "events"} /\ x.stage \in {"events", "lookReports"}
                 \/ r.stage = "lookReports" /\ x.stage = "sortReports"
                 \/ x.stage = "failed",
                 SetRun(t, x)
          PROVE  OneInv'
      <3>1. RanInv(lists, x)
        BY <2>1, <2>4 DEF RanInv, BeforeLook
      <3> QED BY <2>4, <3>1, RanStep
    <2>5. CASE StartAux(t)
      <3>1. PICK x : /\ SetRun(t, x) /\ r.stage = "start"
                     /\ \/ x = [r EXCEPT !.stage = "stop", !.i = 1]
                        \/ \E y : x = [r EXCEPT !.started = y, !.i = @ + 1]
                        \/ x = [r EXCEPT !.i = @ + 1]
        BY <2>5 DEF StartAux
      <3>2. DOMAIN x = RunFields /\ x.ran = r.ran /\ x.reported = r.reported /\ x.stage \in {"start", "stop", "look"}
        BY <2>1, <3>1 DEF RunFields
      <3> QED BY <2>4, <3>1, <3>2
    <2>6. CASE StopAux(t)
      <3>1. PICK x : /\ SetRun(t, x) /\ r.stage = "stop"
                     /\ \/ x = [r EXCEPT !.stage = "look", !.i = 1]
                        \/ \E y : x = [r EXCEPT !.stopped = y, !.i = @ + 1]
        BY <2>6 DEF StopAux
      <3>2. DOMAIN x = RunFields /\ x.ran = r.ran /\ x.reported = r.reported /\ x.stage \in {"start", "stop", "look"}
        BY <2>1, <3>1 DEF RunFields
      <3> QED BY <2>4, <3>1, <3>2
    <2>7. CASE LookAtList(t)
      <3>1. PICK s \in {"look", "lookReports"} :
                  /\ r.stage = s
                  /\ SetRun(t, [r EXCEPT !.stage = IF ListPlugins(Stages[s]) = << >> THEN After[s] ELSE Sorting[s]])
        BY <2>7, StageNames DEF LookAtList
      <3>2. CASE s = "look"
        <4>1. CASE lists["processing"] = << >>
          <5> DEFINE x == [r EXCEPT !.stage = "signatures"]
          <5>1. SetRun(t, x)
            BY <2>2, <3>1, <3>2, <4>1, StageNames
          <5>2. DOMAIN x = RunFields /\ x.ran = r.ran /\ x.reported = r.reported /\ x.stage = "signatures"
            BY <2>1 DEF RunFields
          <5>3. ToSet(r.ran) = ToSet(LoadPlugins["processing"])
            BY <2>1, <2>3, <3>1, <3>2, <4>1 DEF RanInv
          <5> HIDE DEF x
          <5>4. RanInv(lists, x)
            BY <2>1, <3>1, <3>2, <5>2, <5>3 DEF RanInv, BeforeLook
          <5> QED BY <5>1, <5>4, RanStep
        <4>2. CASE lists["processing"] # << >>
          <5> DEFINE x == [r EXCEPT !.stage = "sort"]
          <5>1. SetRun(t, x)
            BY <2>2, <3>1, <3>2, <4>2, StageNames
          <5>2. DOMAIN x = RunFields /\ x.ran = r.ran /\ x.reported = r.reported /\ x.stage = "sort"
            BY <2>1 DEF RunFields
          <5> HIDE DEF x
          <5> QED BY <2>4, <3>1, <3>2, <5>1, <5>2
        <4> QED BY <4>1, <4>2
      <3>3. CASE s = "lookReports"
        <4>1. CASE lists["reporting"] = << >>
          <5> DEFINE x == [r EXCEPT !.stage = "done"]
          <5>1. SetRun(t, x)
            BY <2>2, <3>1, <3>3, <4>1, StageNames
          <5>2. DOMAIN x = RunFields /\ x.ran = r.ran /\ x.reported = r.reported /\ x.stage = "done"
            BY <2>1 DEF RunFields
          <5>3. ToSet(r.reported) = ToSet(LoadPlugins["reporting"])
            BY <2>1, <2>3, <3>1, <3>3, <4>1 DEF RanInv
          <5> HIDE DEF x
          <5>4. RanInv(lists, x)
            BY <2>1, <3>1, <3>3, <5>2, <5>3 DEF RanInv, BeforeLook
          <5> QED BY <5>1, <5>4, RanStep
        <4>2. CASE lists["reporting"] # << >>
          <5> DEFINE x == [r EXCEPT !.stage = "sortReports"]
          <5>1. SetRun(t, x)
            BY <2>2, <3>1, <3>3, <4>2, StageNames
          <5>2. DOMAIN x = RunFields /\ x.ran = r.ran /\ x.reported = r.reported /\ x.stage = "sortReports"
            BY <2>1 DEF RunFields
          <5> HIDE DEF x
          <5> QED BY <2>4, <3>1, <3>3, <5>1, <5>2
        <4> QED BY <4>1, <4>2
      <3> QED BY <3>1, <3>2, <3>3
    <2>8. ASSUME NEW ls, ListsInv(ls), NEW s \in {"look", "lookReports"}, r.stage = Sorting[s],
                 NEW x, x = [r EXCEPT !.stage = Looping[s], !.i = 1]
          PROVE  RanInv(ls, x)
      <3>1. DOMAIN x = RunFields /\ x.ran = r.ran /\ x.reported = r.reported /\ x.stage = Looping[s] /\ x.i = 1
        BY <2>1, <2>8 DEF RunFields
      <3>2. ls["processing"] \in Seq(Names) /\ ls["reporting"] \in Seq(Names)
        BY <2>8 DEF ListsInv, Loops
      <3>3. GoneOver(ls["processing"], << >>, 1) /\ GoneOver(ls["reporting"], << >>, 1)
        BY <3>2, FromTheStart
      <3>4. CASE s = "look"
        <4>1. r.ran = << >> /\ r.reported = << >> /\ x.stage = "process"
          BY <2>1, <2>8, <3>1, <3>4, StageNames DEF RanInv, BeforeLook
        <4> QED BY <2>1, <3>1, <3>3, <4>1 DEF RanInv
      <3>5. CASE s = "lookReports"
        <4>1. r.reported = << >> /\ x.stage = "report"
          BY <2>1, <2>8, <3>1, <3>5, StageNames DEF RanInv
        <4> QED BY <2>1, <3>1, <3>3, <4>1 DEF RanInv, BeforeLook
      <3> QED BY <3>4, <3>5
    <2>9. CASE SortBegins(t)
      <3>1. PICK s \in {"look", "lookReports"} :
                  /\ r.stage = Sorting[s]
                  /\ IF ListPlugins(Stages[s]) = << >>
                     THEN SetRun(t, [r EXCEPT !.stage = Looping[s], !.i = 1])
                     ELSE UNCHANGED <<lists, run>>
        BY <2>9, StageNames DEF SortBegins
      <3>2. CASE ListPlugins(Stages[s]) = << >>
        <4>1. RanInv(lists, [r EXCEPT !.stage = Looping[s], !.i = 1])
          BY <2>1, <2>8, <3>1
        <4> QED BY <3>1, <3>2, <4>1, RanStep
      <3>3. CASE ListPlugins(Stages[s]) # << >>
        BY <3>1, <3>3 DEF OneInv
      <3> QED BY <3>2, <3>3
    <2>10. CASE SortEnds(t)
      <3>1. PICK s \in {"look", "lookReports"} :
                  /\ sorter[Stages[s]] = t
                  /\ \E s2 \in Sorted(Stages[s]) : lists' = [lists EXCEPT ![Stages[s]] = s2]
                  /\ run' = [run EXCEPT ![t].stage = Looping[s], ![t].i = 1]
        BY <2>10, StageNames DEF SortEnds
      <3>2. PICK s2 \in Sorted(Stages[s]) : lists' = [lists EXCEPT ![Stages[s]] = s2]
        BY <3>1
      <3>3. r.stage = Sorting[s]
        <4>1. SortsWhen(t)
          BY DEF SigsInv
        <4> QED BY <3>1, <4>1, StageNames DEF SortsWhen
      <3>4. Stages[s] \in Loops /\ Loops \subseteq Groups /\ DOMAIN lists = Groups /\ DOMAIN run = Threads
        BY StageNames DEF Loops, Groups, SigsInv
      <3>5. s2 \in Seq(Names) /\ ToSet(s2) = ToSet(lists[Stages[s]])
        BY <2>1, <3>4, SortedSame DEF ListsInv
      <3>6. ListsInv(lists')
        BY <2>1, <3>2, <3>4, <3>5 DEF ListsInv
      <3> DEFINE x == [r EXCEPT !.stage = Looping[s], !.i = 1]
      <3>7. RanInv(lists', x)
        BY <2>8, <3>3, <3>6
      <3>8. run' = [run EXCEPT ![t] = x]
        BY <3>1, <3>4
      <3> HIDE DEF x
      <3>9. \A u \in Threads : run'[u] = x
        BY <1>2, <3>4, <3>8
      <3> QED BY <3>6, <3>7, <3>9 DEF OneInv
    <2>11. CASE ProcessModule(t)
      <3> DEFINE list == lists["processing"]
      <3>1. r.stage = "process" /\ ListPlugins("processing") = list
        BY <2>2, <2>11 DEF ProcessModule
      <3>2. r.ran \in Seq(Names) /\ r.reported \in Seq(Names) /\ GoneOver(list, r.ran, r.i) /\ r.reported = << >>
        BY <2>1, <3>1 DEF RanInv, BeforeLook
      <3>3. CASE r.i <= Len(list)
        <4>1. PICK o \in Outcomes : SetRun(t, Processed(r, list[r.i], o))
          BY <2>11, <3>1, <3>3 DEF ProcessModule
        <4> DEFINE x == Processed(r, list[r.i], o)
        <4>2. DOMAIN x = RunFields /\ x.ran = Append(r.ran, list[r.i]) /\ x.i = r.i + 1 /\ x.reported = r.reported
              /\ x.stage = "process"
          BY <2>1, <3>1 DEF Processed, RunFields
        <4>3. Append(r.ran, list[r.i]) \in Seq(Names) /\ GoneOver(list, Append(r.ran, list[r.i]), r.i + 1)
          BY <2>3, <3>2, <3>3, OneMore
        <4> HIDE DEF x
        <4>4. RanInv(lists, x)
          BY <3>2, <4>2, <4>3 DEF RanInv, BeforeLook
        <4> QED BY <4>1, <4>4, RanStep DEF x
      <3>4. CASE ~ (r.i <= Len(list))
        <4> DEFINE x == [r EXCEPT !.stage = "signatures"]
        <4>1. SetRun(t, x)
          BY <2>11, <3>1, <3>4 DEF ProcessModule
        <4>2. DOMAIN x = RunFields /\ x.ran = r.ran /\ x.reported = r.reported /\ x.stage = "signatures"
          BY <2>1 DEF RunFields
        <4>3. ToSet(r.ran) = ToSet(LoadPlugins["processing"])
          BY <2>3, <3>2, <3>4, OneMore
        <4> HIDE DEF x
        <4>4. RanInv(lists, x)
          BY <3>2, <4>2, <4>3 DEF RanInv, BeforeLook
        <4> QED BY <4>1, <4>4, RanStep
      <3> QED BY <3>3, <3>4
    <2>12. CASE ReportModule(t)
      <3> DEFINE list == lists["reporting"]
      <3>1. r.stage = "report" /\ ListPlugins("reporting") = list
        BY <2>2, <2>12 DEF ReportModule
      <3>2. r.ran \in Seq(Names) /\ r.reported \in Seq(Names) /\ GoneOver(list, r.reported, r.i)
        BY <2>1, <3>1 DEF RanInv
      <3>3. CASE r.i <= Len(list)
        <4>1. PICK o \in Outcomes :
                 SetRun(t, IF o = "noFolder" THEN [r EXCEPT !.stage = "failed"]
                           ELSE [r EXCEPT !.reported = Append(@, list[r.i]), !.i = @ + 1])
          BY <2>12, <3>1, <3>3 DEF ReportModule
        <4>2. CASE o = "noFolder"
          <5> DEFINE x == [r EXCEPT !.stage = "failed"]
          <5>1. SetRun(t, x) /\ DOMAIN x = RunFields /\ x.ran = r.ran /\ x.reported = r.reported /\ x.stage = "failed"
            BY <2>1, <4>1, <4>2 DEF RunFields
          <5> HIDE DEF x
          <5> QED BY <2>4, <5>1
        <4>3. CASE o # "noFolder"
          <5> DEFINE x == [r EXCEPT !.reported = Append(@, list[r.i]), !.i = @ + 1]
          <5>1. /\ SetRun(t, x) /\ DOMAIN x = RunFields /\ x.reported = Append(r.reported, list[r.i])
                /\ x.i = r.i + 1 /\ x.ran = r.ran /\ x.stage = "report"
            BY <2>1, <3>1, <4>1, <4>3 DEF RunFields
          <5>2. /\ Append(r.reported, list[r.i]) \in Seq(Names)
                /\ GoneOver(list, Append(r.reported, list[r.i]), r.i + 1)
            BY <2>3, <3>2, <3>3, OneMore
          <5> HIDE DEF x
          <5>3. RanInv(lists, x)
            BY <3>2, <5>1, <5>2 DEF RanInv, BeforeLook
          <5> QED BY <5>1, <5>3, RanStep
        <4> QED BY <4>2, <4>3
      <3>4. CASE ~ (r.i <= Len(list))
        <4> DEFINE x == [r EXCEPT !.stage = "done"]
        <4>1. SetRun(t, x)
          BY <2>12, <3>1, <3>4 DEF ReportModule
        <4>2. DOMAIN x = RunFields /\ x.ran = r.ran /\ x.reported = r.reported /\ x.stage = "done"
          BY <2>1 DEF RunFields
        <4>3. ToSet(r.reported) = ToSet(LoadPlugins["reporting"])
          BY <2>3, <3>2, <3>4, OneMore
        <4> HIDE DEF x
        <4>4. RanInv(lists, x)
          BY <3>2, <4>2, <4>3 DEF RanInv, BeforeLook
        <4> QED BY <4>1, <4>4, RanStep
      <3> QED BY <3>3, <3>4
    <2>13. ASSUME NEW x, SetRun(t, x), r.stage \in {"signatures", "events"},
                  \/ \E a, b, c : x = [r EXCEPT !.stage = "events", !.sigs = a, !.heard = b, !.marks = c]
                  \/ r.stage = "events" /\ \E a, b : x = [r EXCEPT !.event = @ + 1, !.apiSigs = a, !.stack = b]
                  \/ r.stage = "events" /\ \E b : x = [r EXCEPT !.event = @ + 1, !.stack = b]
                  \/ r.stage = "events" /\ \E b : x = [r EXCEPT !.stack = b]
                  \/ \E a, b : x = [r EXCEPT !.stage = "lookReports", !.score = a, !.signatures = b]
           PROVE  OneInv'
      <3>1. DOMAIN x = RunFields /\ x.ran = r.ran /\ x.reported = r.reported /\ x.stage \in {"events", "lookReports"}
        BY <2>1, <2>13 DEF RunFields
      <3> QED BY <2>4, <2>13, <3>1
    <2>15. CASE StartSignatures(t)
      <3> DEFINE sigs == Enabled(ListPlugins("signatures"))
                 heard == [s \in ToSet(sigs) |-> {}]
                 marks == [s \in ToSet(sigs) |-> << >>]
                 x == [r EXCEPT !.stage = "events", !.sigs = sigs, !.heard = heard, !.marks = marks]
      <3>1. SetRun(t, x) /\ r.stage = "signatures"
        BY <2>15 DEF StartSignatures
      <3>2. \E a, b, c : x = [r EXCEPT !.stage = "events", !.sigs = a, !.heard = b, !.marks = c]
        <4> HIDE DEF sigs, heard, marks
        <4> QED OBVIOUS
      <3> HIDE DEF x
      <3> QED BY <2>13, <3>1, <3>2
    <2>16. CASE YieldEvent(t)
      <3> DEFINE e == Events[r.event + 1]
                 known == KnownApiSigs(r, CallOf(e))
                 stack1 == <<[ev |-> e, todo |-> Reverse(known[CallOf(e).api])]>>
                 stack2 == <<[ev |-> e, todo |-> r.sigs]>>
                 x1 == [r EXCEPT !.event = @ + 1, !.apiSigs = known, !.stack = stack1]
                 x2 == [r EXCEPT !.event = @ + 1, !.stack = stack2]
      <3>1. r.stage = "events" /\ SetRun(t, IF e.kind = "call" THEN x1 ELSE x2)
        BY <2>16 DEF YieldEvent
      <3>2. \E a, b : x1 = [r EXCEPT !.event = @ + 1, !.apiSigs = a, !.stack = b]
        <4> HIDE DEF known, stack1
        <4> QED OBVIOUS
      <3>3. \E b : x2 = [r EXCEPT !.event = @ + 1, !.stack = b]
        <4> HIDE DEF stack2
        <4> QED OBVIOUS
      <3> HIDE DEF x1, x2
      <3>4. SetRun(t, x1) \/ SetRun(t, x2)
        BY <3>1
      <3> QED BY <2>13, <3>1, <3>2, <3>3, <3>4
    <2>17. CASE FrameEnds(t)
      <3>1. SetRun(t, [r EXCEPT !.stack = Front(@)]) /\ r.stage = "events"
        BY <2>17 DEF FrameEnds
      <3>2. \E b : [r EXCEPT !.stack = Front(@)] = [r EXCEPT !.stack = b]
        OBVIOUS
      <3> QED BY <2>13, <3>1, <3>2
    <2>18. CASE EndSignatures(t)
      <3> DEFINE score == Score(r.matched)
                 found == BySeverity(r)
                 x == [r EXCEPT !.stage = "lookReports", !.score = score, !.signatures = found]
      <3>1. r.stage = "events" /\ SetRun(t, x)
        BY <2>18 DEF EndSignatures
      <3>2. \E a, b : x = [r EXCEPT !.stage = "lookReports", !.score = a, !.signatures = b]
        <4> HIDE DEF score, found
        <4> QED OBVIOUS
      <3> HIDE DEF x
      <3> QED BY <2>13, <3>1, <3>2
    <2>14. CASE CallSignature(t)
      <3> DEFINE top == Last(r.stack)
                 s == Head(top.todo)
                 n == Noted(r, s, top.ev)
      <3>1. /\ r.stage = "events"
            /\ \E o \in Answers(r, s, top.ev) : SetRun(t, Answered(r, n, s, top.ev, o))
        BY <2>14 DEF CallSignature
      <3>2. PICK o \in Answers(r, s, top.ev) : SetRun(t, Answered(r, n, s, top.ev, o))
        BY <3>1
      <3>3. DOMAIN n = RunFields /\ n.ran = r.ran /\ n.reported = r.reported /\ n.stage = "events"
        BY <2>1, <3>1 DEF Noted, RunFields
      <3> DEFINE x == Answered(r, n, s, top.ev, o)
      <3>4. DOMAIN x = RunFields /\ x.ran = r.ran /\ x.reported = r.reported /\ x.stage = "events"
        <4> HIDE DEF n, s, top, r
        <4> QED BY <3>3 DEF Answered, RunFields
      <3> HIDE DEF x
      <3> QED BY <2>4, <3>1, <3>2, <3>4 DEF x
    <2> QED BY <1>2, <2>5, <2>6, <2>7, <2>9, <2>10, <2>11, <2>12, <2>14, <2>15, <2>16, <2>17, <2>18
  <1> QED BY <1>1, <1>2 DEF PluginsNext

(* AllRun for any plugins and outcomes, when the process has one analysis at a time, as each
   process of utils/process.py has: the sort shows an empty list to nobody else. *)
THEOREM AllGoneOver ==
  ASSUME \A a, b \in Threads : a = b
  PROVE  PluginsSpec => []AllRun
  <1>1. SigsInv /\ OneInv => AllRun
    BY DEF OneInv, RanInv, AllRun
  <1>2. PluginsInit => SigsInv /\ OneInv
    BY SigsInit, OneInit
  <1>3. SigsInv /\ OneInv /\ [PluginsNext]_pvars => (SigsInv /\ OneInv)'
    BY SigsStep, OneStep
  <1> QED BY <1>1, <1>2, <1>3, PTL DEF PluginsSpec
=============================================================================
