-------------------------- MODULE Scheduler_proofs --------------------------
EXTENDS Scheduler, TLAPS, FiniteSetTheorems

(* The lock has a number of slots. *)
LEMMA SlotsType == Slots \in Nat
  BY SchedulerAssumption DEF Slots

(* What add_service adds is a request. *)
LEMMA ServiceRequestType == ServiceRequest \in Request
  BY TableAssumption DEF ServiceRequest, Request, Kinds

(* The memory of a new process has its types. *)
LEMMA FreshType ==
    /\ [t \in TaskId |-> "none"] \in [TaskId -> Locations]
    /\ [t \in TaskId |-> "none"] \in [TaskId -> GuestStatuses]
    /\ [t \in TaskId |-> NoMachine] \in [TaskId -> Machines \cup {NoMachine}]
    /\ [t \in TaskId |-> 0] \in [TaskId -> Int]
    /\ [t \in TaskId |-> NoTask] \in [TaskId -> TaskId \cup {NoTask}]
    /\ [m \in Machines |-> NoTask] \in [Machines -> TaskId \cup {NoTask}]
  BY DEF Locations, GuestStatuses

(* When nothing has been started nothing is held. *)
LEMMA InitInv == Init => IInv
<1> SUFFICES ASSUME Init PROVE IInv
  OBVIOUS
<1>1. /\ status \in [TaskId -> Rows]
      /\ req \in [TaskId -> Request]
  BY ServiceRequestType DEF Init, Rows
<1>2. /\ guest \in [TaskId -> GuestStatuses]
      /\ pc \in [TaskId -> Locations] /\ hold \in [TaskId -> Machines \cup {NoMachine}]
      /\ read \in [TaskId -> Int] /\ service \in [TaskId -> TaskId \cup {NoTask}]
      /\ results \in [Machines -> TaskId \cup {NoTask}]
  BY FreshType DEF Init
<1>3. crashes \in 0..MaxCrashes /\ sem \in Nat /\ active \in Int /\ total \in Nat
  BY SlotsType, SchedulerAssumption DEF Init
<1>4. /\ locked \subseteq Machines /\ vm \subseteq Machines /\ todo \subseteq Machines
      /\ recover \subseteq TaskId /\ raised \subseteq TaskId /\ api \subseteq ApiCall
      /\ job \in TaskId \cup {NoTask} /\ analysis \in BOOLEAN /\ spc = "down"
  BY DEF Init
<1>5. TypeOK
  BY <1>1, <1>2, <1>3, <1>4 DEF TypeOK
<1> QED
  BY <1>5 DEF Init, IInv, ThreadInv, BeforePick, MutualExclusion, ResultsRouted,
     Owning, Registered, Analysing

(* The death of the process keeps the types. *)
LEMMA DieType == TypeOK /\ Die /\ crashes' \in 0..MaxCrashes => TypeOK'
<1> SUFFICES ASSUME TypeOK, Die, crashes' \in 0..MaxCrashes PROVE TypeOK'
  OBVIOUS
<1>1. /\ pc' \in [TaskId -> Locations] /\ hold' \in [TaskId -> Machines \cup {NoMachine}]
      /\ read' \in [TaskId -> Int] /\ service' \in [TaskId -> TaskId \cup {NoTask}]
      /\ results' \in [Machines -> TaskId \cup {NoTask}]
  BY FreshType DEF Die
<1>2. /\ sem' \in Nat /\ active' \in Int /\ total' \in Nat
  BY SlotsType DEF Die
<1>3. /\ todo' \subseteq Machines /\ recover' \subseteq TaskId /\ raised' \subseteq TaskId
      /\ job' \in TaskId \cup {NoTask} /\ analysis' \in BOOLEAN /\ spc' = "down"
  BY DEF Die
<1>4. UNCHANGED <<status, req, guest, locked, vm, api>>
  BY DEF Die, taskVars
<1> QED
  BY <1>1, <1>2, <1>3, <1>4 DEF TypeOK

(* Every step keeps the types. *)
LEMMA TypeStep == IInv /\ [Next]_vars => TypeOK'
<1> SUFFICES ASSUME IInv, [Next]_vars PROVE TypeOK'
  OBVIOUS
<1>0. TypeOK
  BY DEF IInv
<1> USE DEF TypeOK, At, Goto, MainAt, MainGoto, Unaffected, Locations,
            taskVars, poolVars, mainVars, threadVars, envVars
<1>1. ASSUME NEW t \in TaskId, CountLoad(t) PROVE TypeOK'
  BY <1>0, <1>1 DEF CountLoad
<1>2. ASSUME NEW t \in TaskId, CountStore(t) PROVE TypeOK'
  BY <1>0, <1>2 DEF CountStore
<1>3. ASSUME NEW t \in TaskId, Prepare(t) PROVE TypeOK'
  BY <1>0, <1>3 DEF Prepare, Failing
<1>4. ASSUME NEW t \in TaskId, Acquire(t) PROVE TypeOK'
  BY <1>0, <1>4 DEF Acquire
<1>5. ASSUME NEW t \in TaskId, CheckFree(t) PROVE TypeOK'
  BY <1>0, <1>5 DEF CheckFree
<1>6. ASSUME NEW t \in TaskId, Pick(t) PROVE TypeOK'
  BY <1>0, <1>6 DEF Pick, Lockable, Matching
<1>7. ASSUME NEW t \in TaskId, PickNone(t) PROVE TypeOK'
  BY <1>0, <1>7 DEF PickNone
<1>8. ASSUME NEW t \in TaskId, Register(t) PROVE TypeOK'
  BY <1>0, <1>8 DEF Register
<1>9. ASSUME NEW t \in TaskId, StartAux(t) PROVE TypeOK'
  BY <1>0, <1>9, ServiceRequestType DEF StartAux, AddTask, IsNextId, Rows, Statuses
<1>10. ASSUME NEW t \in TaskId, BuildOptions(t) PROVE TypeOK'
  BY <1>0, <1>10 DEF BuildOptions
<1>11. ASSUME NEW t \in TaskId, GuestStart(t) PROVE TypeOK'
  BY <1>0, <1>11 DEF GuestStart, GuestStatuses
<1>12. ASSUME NEW t \in TaskId, StartMachine(t) PROVE TypeOK'
  BY <1>0, <1>12 DEF StartMachine, IInv, ThreadInv, Owning, Registered
<1>13. ASSUME NEW t \in TaskId, StartFails(t) PROVE TypeOK'
  BY <1>0, <1>13 DEF StartFails, IInv, ThreadInv, Owning, Registered
<1>14. ASSUME NEW t \in TaskId, Unlock(t) PROVE TypeOK'
  BY <1>0, <1>14 DEF Unlock
<1>15. ASSUME NEW t \in TaskId, Manage(t) PROVE TypeOK'
  BY <1>0, <1>15 DEF Manage, GuestStatuses
<1>16. ASSUME NEW t \in TaskId, StartAnalysis(t) PROVE TypeOK'
  BY <1>0, <1>16 DEF StartAnalysis, GuestStatuses
<1>17. ASSUME NEW t \in TaskId, GuestBegan(t) PROVE TypeOK'
  BY <1>0, <1>17 DEF GuestBegan, GuestStatuses
<1>18. ASSUME NEW t \in TaskId, GuestFails(t) PROVE TypeOK'
  BY <1>0, <1>18 DEF GuestFails
<1>19. ASSUME NEW t \in TaskId, Completion(t) PROVE TypeOK'
  BY <1>0, <1>19 DEF Completion
<1>20. ASSUME NEW t \in TaskId, Stopping(t) PROVE TypeOK'
  BY <1>0, <1>20 DEF Stopping, GuestStatuses
<1>21. ASSUME NEW t \in TaskId, WaitFinish(t) PROVE TypeOK'
  BY <1>0, <1>21 DEF WaitFinish
<1>22. ASSUME NEW t \in TaskId, StopMachine(t) PROVE TypeOK'
  BY <1>0, <1>22 DEF StopMachine, GuestStatuses
<1>23. ASSUME NEW t \in TaskId, GuestStop(t) PROVE TypeOK'
  BY <1>0, <1>23 DEF GuestStop, GuestStatuses
<1>24. ASSUME NEW t \in TaskId, DelTask(t) PROVE TypeOK'
  BY <1>0, <1>24 DEF DelTask
<1>25. ASSUME NEW t \in TaskId, Release(t) PROVE TypeOK'
  BY <1>0, <1>25 DEF Release
<1>26. ASSUME NEW t \in TaskId, Complete(t) PROVE TypeOK'
  BY <1>0, <1>26 DEF Complete, SetStatus, Rows, Statuses
<1>27. ASSUME NEW t \in TaskId, Process(t) PROVE TypeOK'
  BY <1>0, <1>27 DEF Process
<1>28. ASSUME NEW t \in TaskId, Report(t) PROVE TypeOK'
  BY <1>0, <1>28 DEF Report, SetStatus, Rows, Statuses
<1>29. ASSUME NEW t \in TaskId, UncountLoad(t) PROVE TypeOK'
  BY <1>0, <1>29 DEF UncountLoad
<1>30. ASSUME NEW t \in TaskId, UncountStore(t) PROVE TypeOK'
  BY <1>0, <1>30 DEF UncountStore
<1>31. ASSUME Probe PROVE TypeOK'
  BY <1>0, <1>31 DEF Probe
<1>32. ASSUME CheckLimits PROVE TypeOK'
  BY <1>0, <1>32 DEF CheckLimits
<1>33. ASSUME CheckAvailable PROVE TypeOK'
  BY <1>0, <1>33 DEF CheckAvailable
<1>34. ASSUME CheckCount PROVE TypeOK'
  BY <1>0, <1>34 DEF CheckCount
<1>35. ASSUME Stop PROVE TypeOK'
  BY <1>0, <1>35 DEF Stop
<1>36. ASSUME ListMachines PROVE TypeOK'
  BY <1>0, <1>36 DEF ListMachines
<1>37. ASSUME NEW m \in Machines, FetchFor(m) PROVE TypeOK'
  BY <1>0, <1>37 DEF FetchFor, Select, PendingFor, Rows, Statuses
<1>38. ASSUME FetchAny PROVE TypeOK'
  BY <1>0, <1>38 DEF FetchAny, Select, PendingNoService, Rows, Statuses
<1>39. ASSUME MarkRunning PROVE TypeOK'
  BY <1>0, <1>39 DEF MarkRunning, SetStatus, Rows, Statuses
<1>40. ASSUME Refresh PROVE TypeOK'
  BY <1>0, <1>40 DEF Refresh
<1>41. ASSUME StartManager PROVE TypeOK'
  BY <1>0, <1>41 DEF StartManager, IInv, ThreadInv, NoTask
<1>42. ASSUME Start PROVE TypeOK'
  BY <1>0, <1>42 DEF Start
<1>43. ASSUME NEW t \in TaskId, Recover(t) PROVE TypeOK'
  BY <1>0, <1>43 DEF Recover, SetStatus, Rows, Statuses
<1>44. ASSUME ReAdd PROVE TypeOK'
  BY <1>0, <1>44 DEF ReAdd, IInv, ThreadInv, AddCopy, AddTask, IsNextId, Rows, Statuses
<1>45. ASSUME DropServices PROVE TypeOK'
  BY <1>0, <1>45 DEF DropServices, Rows, Statuses
<1>46. ASSUME Initialize PROVE TypeOK'
  BY <1>0, <1>46 DEF Initialize
<1>47. ASSUME Exit PROVE TypeOK'
  BY <1>0, <1>47, DieType DEF Exit
<1>48. ASSUME Crash PROVE TypeOK'
  BY <1>0, <1>48, DieType, SchedulerAssumption DEF Crash
<1>49. ASSUME Submit PROVE TypeOK'
  BY <1>0, <1>49, SchedulerAssumption DEF Submit, AddTask, IsNextId, Rows, Statuses
<1>50. ASSUME NEW t \in TaskId, DeleteCheck(t) PROVE TypeOK'
  BY <1>0, <1>50 DEF DeleteCheck, ApiCall
<1>51. ASSUME NEW t \in TaskId, Delete(t) PROVE TypeOK'
  BY <1>0, <1>51 DEF Delete, Rows, GuestStatuses
<1>52. ASSUME NEW t \in TaskId, RescheduleMark(t) PROVE TypeOK'
  BY <1>0, <1>52 DEF RescheduleMark, SetStatus, Rows, Statuses, ApiCall
<1>53. ASSUME NEW t \in TaskId, RescheduleAdd(t) PROVE TypeOK'
  BY <1>0, <1>53 DEF RescheduleAdd, AddCopy, AddTask, IsNextId, Rows, Statuses
<1>54. CASE UNCHANGED vars
  BY <1>0, <1>54 DEF vars
<1> QED
  BY <1>1, <1>2, <1>3, <1>4, <1>5, <1>6, <1>7, <1>8, <1>9, <1>10, <1>11, <1>12,
     <1>13, <1>14, <1>15, <1>16, <1>17, <1>18, <1>19, <1>20, <1>21, <1>22, <1>23, <1>24,
     <1>25, <1>26, <1>27, <1>28, <1>29, <1>30, <1>31, <1>32, <1>33, <1>34, <1>35,
     <1>36, <1>37, <1>38, <1>39, <1>40, <1>41, <1>42, <1>43, <1>44, <1>45, <1>46, <1>47, <1>48,
     <1>49, <1>50, <1>51, <1>52, <1>53, <1>54 DEF Next, Manager, Main, Lifecycle,
     Clients

(* Every step keeps the links between threads, machines and rows. *)
LEMMA ThreadStep == IInv /\ [Next]_vars => ThreadInv'
<1> SUFFICES ASSUME IInv, [Next]_vars PROVE ThreadInv'
  OBVIOUS
<1> USE DEF IInv, TypeOK, ThreadInv, MutualExclusion, ResultsRouted, Owning, Registered, Analysing,
            BeforePick, BeforeLoop, Locations, At, Goto, MainAt, MainGoto, Unaffected,
            taskVars, poolVars, mainVars, threadVars, envVars
<1>1. ASSUME NEW t \in TaskId, CountLoad(t) PROVE ThreadInv'
  BY <1>1 DEF CountLoad
<1>2. ASSUME NEW t \in TaskId, CountStore(t) PROVE ThreadInv'
  BY <1>2 DEF CountStore
<1>3. ASSUME NEW t \in TaskId, Prepare(t) PROVE ThreadInv'
  BY <1>3 DEF Prepare
<1>4. ASSUME NEW t \in TaskId, Acquire(t) PROVE ThreadInv'
  BY <1>4 DEF Acquire
<1>5. ASSUME NEW t \in TaskId, CheckFree(t) PROVE ThreadInv'
  BY <1>5 DEF CheckFree
<1>6. ASSUME NEW t \in TaskId, Pick(t) PROVE ThreadInv'
  <2>1. PICK m \in Machines : /\ m \notin locked
                              /\ locked' = locked \cup {m}
                              /\ hold' = [hold EXCEPT ![t] = m]
    BY <1>6 DEF Pick, Lockable, Matching
  <2>2. m # NoMachine
    BY TableAssumption
  <2>3. /\ pc' = [pc EXCEPT ![t] = "register"] /\ pc[t] = "pick"
        /\ UNCHANGED <<status, results, spc, job>>
    BY <1>6 DEF Pick
  <2>4. \A u \in TaskId : u # t => hold'[u] = hold[u] /\ hold'[u] # m
    BY <2>1, <2>2
  <2> QED
    BY <2>1, <2>2, <2>3, <2>4
<1>7. ASSUME NEW t \in TaskId, PickNone(t) PROVE ThreadInv'
  BY <1>7 DEF PickNone
<1>8. ASSUME NEW t \in TaskId, Register(t) PROVE ThreadInv'
  BY <1>8 DEF Register
<1>9. ASSUME NEW t \in TaskId, StartAux(t) PROVE ThreadInv'
  BY <1>9 DEF StartAux, AddTask, IsNextId
<1>10. ASSUME NEW t \in TaskId, BuildOptions(t) PROVE ThreadInv'
  BY <1>10 DEF BuildOptions
<1>11. ASSUME NEW t \in TaskId, GuestStart(t) PROVE ThreadInv'
  BY <1>11 DEF GuestStart
<1>12. ASSUME NEW t \in TaskId, StartMachine(t) PROVE ThreadInv'
  BY <1>12 DEF StartMachine
<1>13. ASSUME NEW t \in TaskId, StartFails(t) PROVE ThreadInv'
  BY <1>13 DEF StartFails
<1>14. ASSUME NEW t \in TaskId, Unlock(t) PROVE ThreadInv'
  BY <1>14 DEF Unlock
<1>15. ASSUME NEW t \in TaskId, Manage(t) PROVE ThreadInv'
  BY <1>15 DEF Manage
<1>16. ASSUME NEW t \in TaskId, StartAnalysis(t) PROVE ThreadInv'
  BY <1>16 DEF StartAnalysis
<1>17. ASSUME NEW t \in TaskId, GuestBegan(t) PROVE ThreadInv'
  BY <1>17 DEF GuestBegan
<1>18. ASSUME NEW t \in TaskId, GuestFails(t) PROVE ThreadInv'
  BY <1>18 DEF GuestFails
<1>19. ASSUME NEW t \in TaskId, Completion(t) PROVE ThreadInv'
  BY <1>19 DEF Completion
<1>20. ASSUME NEW t \in TaskId, Stopping(t) PROVE ThreadInv'
  BY <1>20 DEF Stopping
<1>21. ASSUME NEW t \in TaskId, WaitFinish(t) PROVE ThreadInv'
  BY <1>21 DEF WaitFinish
<1>22. ASSUME NEW t \in TaskId, StopMachine(t) PROVE ThreadInv'
  BY <1>22 DEF StopMachine
<1>23. ASSUME NEW t \in TaskId, GuestStop(t) PROVE ThreadInv'
  BY <1>23 DEF GuestStop
<1>24. ASSUME NEW t \in TaskId, DelTask(t) PROVE ThreadInv'
  BY <1>24 DEF DelTask
<1>25. ASSUME NEW t \in TaskId, Release(t) PROVE ThreadInv'
  BY <1>25 DEF Release
<1>26. ASSUME NEW t \in TaskId, Complete(t) PROVE ThreadInv'
  BY <1>26 DEF Complete, SetStatus
<1>27. ASSUME NEW t \in TaskId, Process(t) PROVE ThreadInv'
  BY <1>27 DEF Process
<1>28. ASSUME NEW t \in TaskId, Report(t) PROVE ThreadInv'
  BY <1>28 DEF Report, SetStatus
<1>29. ASSUME NEW t \in TaskId, UncountLoad(t) PROVE ThreadInv'
  BY <1>29 DEF UncountLoad
<1>30. ASSUME NEW t \in TaskId, UncountStore(t) PROVE ThreadInv'
  BY <1>30 DEF UncountStore
<1>31. ASSUME Probe PROVE ThreadInv'
  BY <1>31 DEF Probe
<1>32. ASSUME CheckLimits PROVE ThreadInv'
  BY <1>32 DEF CheckLimits
<1>33. ASSUME CheckAvailable PROVE ThreadInv'
  BY <1>33 DEF CheckAvailable
<1>34. ASSUME CheckCount PROVE ThreadInv'
  BY <1>34 DEF CheckCount
<1>35. ASSUME Stop PROVE ThreadInv'
  BY <1>35 DEF Stop
<1>36. ASSUME ListMachines PROVE ThreadInv'
  BY <1>36 DEF ListMachines
<1>37. ASSUME NEW m \in Machines, FetchFor(m) PROVE ThreadInv'
  <2>1. UNCHANGED <<status, pc, hold, locked, results>>
    BY <1>37 DEF FetchFor, Select
  <2>2. CASE spc' = "mark"
    <3>1. PICK u \in TaskId : status[u] = "pending" /\ job' = u
      BY <1>37, <2>2 DEF FetchFor, Select, PendingFor
    <3> QED
      BY <1>37, <2>1, <2>2, <3>1 DEF FetchFor
  <2>3. CASE spc' # "mark"
    BY <1>37, <2>1, <2>3 DEF FetchFor, Select
  <2> QED
    BY <2>2, <2>3
<1>38. ASSUME FetchAny PROVE ThreadInv'
  <2>1. UNCHANGED <<status, pc, hold, locked, results>>
    BY <1>38 DEF FetchAny, Select
  <2>2. CASE spc' = "mark"
    <3>1. PICK u \in TaskId : status[u] = "pending" /\ job' = u
      BY <1>38, <2>2 DEF FetchAny, Select, PendingNoService
    <3> QED
      BY <1>38, <2>1, <2>2, <3>1 DEF FetchAny
  <2>3. CASE spc' # "mark"
    BY <1>38, <2>1, <2>3 DEF FetchAny, Select
  <2> QED
    BY <2>2, <2>3
<1>39. ASSUME MarkRunning PROVE ThreadInv'
  BY <1>39 DEF MarkRunning, SetStatus
<1>40. ASSUME Refresh PROVE ThreadInv'
  BY <1>40 DEF Refresh
<1>41. ASSUME StartManager PROVE ThreadInv'
  <2>1. /\ job \in TaskId /\ pc[job] = "none" /\ hold[job] = NoMachine
        /\ status[job] \notin {"unused", "pending"}
    BY <1>41 DEF StartManager
  <2>2. /\ pc' = [pc EXCEPT ![job] = "new"] /\ spc' = "idle"
        /\ UNCHANGED <<status, hold, locked, results>>
    BY <1>41 DEF StartManager
  <2> QED
    BY <2>1, <2>2
<1>42. ASSUME Start PROVE ThreadInv'
  BY <1>42 DEF Start
<1>43. ASSUME NEW t \in TaskId, Recover(t) PROVE ThreadInv'
  BY <1>43 DEF Recover, SetStatus
<1>44. ASSUME ReAdd PROVE ThreadInv'
  BY <1>44 DEF ReAdd, AddCopy, AddTask, IsNextId
<1>45. ASSUME DropServices PROVE ThreadInv'
  BY <1>45 DEF DropServices
<1>46. ASSUME Initialize PROVE ThreadInv'
  BY <1>46 DEF Initialize
<1>47. ASSUME Exit PROVE ThreadInv'
  BY <1>47 DEF Exit, Die
<1>48. ASSUME Crash PROVE ThreadInv'
  BY <1>48 DEF Crash, Die
<1>49. ASSUME Submit PROVE ThreadInv'
  BY <1>49 DEF Submit, AddTask, IsNextId
<1>50. ASSUME NEW t \in TaskId, DeleteCheck(t) PROVE ThreadInv'
  BY <1>50 DEF DeleteCheck
<1>51. ASSUME NEW t \in TaskId, Delete(t) PROVE ThreadInv'
  BY <1>51 DEF Delete
<1>52. ASSUME NEW t \in TaskId, RescheduleMark(t) PROVE ThreadInv'
  BY <1>52 DEF RescheduleMark, SetStatus
<1>53. ASSUME NEW t \in TaskId, RescheduleAdd(t) PROVE ThreadInv'
  BY <1>53 DEF RescheduleAdd, AddCopy, AddTask, IsNextId
<1>54. CASE UNCHANGED vars
  BY <1>54 DEF vars
<1> QED
  BY <1>1, <1>2, <1>3, <1>4, <1>5, <1>6, <1>7, <1>8, <1>9, <1>10, <1>11, <1>12,
     <1>13, <1>14, <1>15, <1>16, <1>17, <1>18, <1>19, <1>20, <1>21, <1>22, <1>23, <1>24,
     <1>25, <1>26, <1>27, <1>28, <1>29, <1>30, <1>31, <1>32, <1>33, <1>34, <1>35,
     <1>36, <1>37, <1>38, <1>39, <1>40, <1>41, <1>42, <1>43, <1>44, <1>45, <1>46, <1>47, <1>48,
     <1>49, <1>50, <1>51, <1>52, <1>53, <1>54 DEF Next, Manager, Main, Lifecycle,
     Clients

(* The inductive invariant holds in every state: what a thread holds is locked, a task in
   the queue has no thread, and there are no threads before the main loop. *)
THEOREM Invariance == Spec => []IInv
<1>1. IInv /\ [Next]_vars => IInv'
  BY TypeStep, ThreadStep DEF IInv
<1> QED
  BY InitInv, <1>1, PTL DEF Spec

-----------------------------------------------------------------------------
(* Every variable keeps its type. *)
THEOREM TypeCorrect == Spec => []TypeOK
<1>1. IInv => TypeOK
  BY DEF IInv
<1> QED
  BY Invariance, <1>1, PTL

(* No two analyses ever use the same machine, for any number of machines, tasks
   and slots of the machine lock, whatever fails, is deleted or crashes. *)
THEOREM Exclusive == Spec => []MutualExclusion
<1>1. IInv => MutualExclusion
  BY DEF IInv, ThreadInv
<1> QED
  BY Invariance, <1>1, PTL

(* What arrives from a machine that is being used is stored with the analysis
   that uses it. *)
THEOREM Routed == Spec => []ResultsRouted
<1>1. IInv => ResultsRouted
  BY DEF IInv, ThreadInv
<1> QED
  BY Invariance, <1>1, PTL

-----------------------------------------------------------------------------
(* A step of a thread moves that thread only.  It takes one slot of the machine
   lock when it enters StartingUp; it gives back at most one, when it leaves. *)
LockStep(t, l) ==
    /\ pc' = [pc EXCEPT ![t] = l]
    /\ \/ l \in StartingUp /\ pc[t] \in StartingUp /\ sem' = sem
       \/ l \notin StartingUp /\ pc[t] \notin StartingUp /\ sem' = sem
       \/ l \in StartingUp /\ pc[t] \notin StartingUp /\ sem' = sem - 1 /\ sem > 0
       \/ l \notin StartingUp /\ pc[t] \in StartingUp /\ sem' \in {sem, sem + 1}

(* How a step of a thread changes the lock and the threads that start up. *)
LEMMA ManagerLockStep ==
    ASSUME NEW t \in TaskId, Manager(t)
    PROVE  \E l \in Locations : LockStep(t, l)
<1> USE DEF LockStep, StartingUp, Locations, At, Goto, taskVars, poolVars
<1>1. CASE CountLoad(t)
  BY <1>1 DEF CountLoad
<1>2. CASE CountStore(t)
  BY <1>2 DEF CountStore
<1>3. CASE Prepare(t)
  BY <1>3 DEF Prepare
<1>4. CASE Acquire(t)
  BY <1>4 DEF Acquire
<1>5. CASE CheckFree(t)
  BY <1>5 DEF CheckFree
<1>6. CASE Pick(t)
  BY <1>6 DEF Pick
<1>7. CASE PickNone(t)
  BY <1>7 DEF PickNone
<1>8. CASE Register(t)
  BY <1>8 DEF Register
<1>9. CASE StartAux(t)
  BY <1>9 DEF StartAux
<1>10. CASE BuildOptions(t)
  BY <1>10 DEF BuildOptions
<1>11. CASE GuestStart(t)
  BY <1>11 DEF GuestStart
<1>12. CASE StartMachine(t)
  BY <1>12 DEF StartMachine
<1>13. CASE StartFails(t)
  BY <1>13 DEF StartFails
<1>14. CASE Unlock(t)
  BY <1>14 DEF Unlock
<1>15. CASE Manage(t)
  BY <1>15 DEF Manage
<1>16. CASE StartAnalysis(t)
  BY <1>16 DEF StartAnalysis
<1>17. CASE GuestBegan(t)
  BY <1>17 DEF GuestBegan
<1>18. CASE GuestFails(t)
  BY <1>18 DEF GuestFails
<1>19. CASE Completion(t)
  BY <1>19 DEF Completion
<1>20. CASE Stopping(t)
  BY <1>20 DEF Stopping
<1>21. CASE WaitFinish(t)
  BY <1>21 DEF WaitFinish
<1>22. CASE StopMachine(t)
  BY <1>22 DEF StopMachine
<1>23. CASE GuestStop(t)
  BY <1>23 DEF GuestStop
<1>24. CASE DelTask(t)
  BY <1>24 DEF DelTask
<1>25. CASE Release(t)
  BY <1>25 DEF Release
<1>26. CASE Complete(t)
  BY <1>26 DEF Complete, SetStatus
<1>27. CASE Process(t)
  BY <1>27 DEF Process
<1>28. CASE Report(t)
  BY <1>28 DEF Report, SetStatus
<1>29. CASE UncountLoad(t)
  BY <1>29 DEF UncountLoad
<1>30. CASE UncountStore(t)
  BY <1>30 DEF UncountStore
<1> QED
  BY <1>1, <1>2, <1>3, <1>4, <1>5, <1>6, <1>7, <1>8, <1>9, <1>10, <1>11, <1>12,
     <1>13, <1>14, <1>15, <1>16, <1>17, <1>18, <1>19, <1>20, <1>21, <1>22, <1>23, <1>24,
     <1>25, <1>26, <1>27, <1>28, <1>29, <1>30 DEF Manager

Starters == {t \in TaskId : pc[t] \in StartingUp}

(* There are finitely many threads that start up. *)
LEMMA StartersFinite == IsFiniteSet(Starters) /\ Cardinality(Starters) \in Nat
<1>1. IsFiniteSet(TaskId)
  BY TableAssumption, FS_Interval DEF TaskId
<1> QED
  BY <1>1, FS_Subset, FS_CardinalityType DEF Starters

(* Such a change keeps the slots accounted for. *)
LEMMA LockStepAccounted ==
    ASSUME IInv, LockAccounting, NEW t \in TaskId, NEW l \in Locations, LockStep(t, l)
    PROVE  LockAccounting'
<1>0. /\ Slots \in Nat /\ sem \in Nat /\ pc \in [TaskId -> Locations]
      /\ sem + Cardinality(Starters) <= Slots
  BY SlotsType DEF IInv, TypeOK, LockAccounting, Starters
<1>1. CASE l \in StartingUp
  <2>1. Starters' = Starters \cup {t}
    BY <1>0, <1>1 DEF Starters, LockStep
  <2>2. Cardinality(Starters') = IF t \in Starters THEN Cardinality(Starters)
                                                   ELSE Cardinality(Starters) + 1
    BY <2>1, StartersFinite, FS_AddElement
  <2> QED
    BY <1>0, <1>1, <2>2, StartersFinite DEF LockAccounting, LockStep, Starters
<1>2. CASE l \notin StartingUp
  <2>1. Starters' = Starters \ {t}
    BY <1>0, <1>2 DEF Starters, LockStep
  <2>2. Cardinality(Starters') = IF t \in Starters THEN Cardinality(Starters) - 1
                                                   ELSE Cardinality(Starters)
    BY <2>1, StartersFinite, FS_RemoveElement
  <2> QED
    BY <1>0, <1>2, <2>2, StartersFinite DEF LockAccounting, LockStep, Starters
<1> QED
  BY <1>1, <1>2

(* Every step keeps the slots accounted for. *)
LEMMA AccountingStep == IInv /\ LockAccounting /\ [Next]_vars => LockAccounting'
<1> SUFFICES ASSUME IInv, LockAccounting, [Next]_vars PROVE LockAccounting'
  OBVIOUS
<1>1. ASSUME NEW t \in TaskId, Manager(t) PROVE LockAccounting'
  BY <1>1, ManagerLockStep, LockStepAccounted
<1>2. CASE StartManager
  <2>1. job \in TaskId /\ LockStep(job, "new")
    BY <1>2 DEF StartManager, MainAt, LockStep, StartingUp, IInv, ThreadInv
  <2>2. "new" \in Locations
    BY DEF Locations
  <2> QED
    BY <2>1, <2>2, LockStepAccounted
<1>3. CASE Die
  <2>1. Starters' = {} /\ sem' = Slots
    BY <1>3 DEF Die, Starters, StartingUp
  <2> QED
    BY <2>1, SlotsType, FS_EmptySet DEF LockAccounting, Starters
<1>4. CASE UNCHANGED <<pc, sem>>
  BY <1>4 DEF LockAccounting
<1>5. CASE Main /\ ~StartManager
  <2>1. UNCHANGED <<pc, sem>>
    BY <1>5 DEF Main, Probe, CheckLimits, CheckAvailable, CheckCount, Stop,
       ListMachines,
                FetchFor, FetchAny,
                Select, MarkRunning, Refresh, MainGoto, threadVars
  <2> QED
    BY <1>4, <2>1
<1>6. CASE Lifecycle /\ ~Die
  <2>1. UNCHANGED <<pc, sem>>
    BY <1>6 DEF Lifecycle, Start, Recover, ReAdd, DropServices, Initialize, Exit,
                MainGoto, threadVars
  <2> QED
    BY <1>4, <2>1
<1>7. CASE Clients \/ UNCHANGED vars
  <2>1. UNCHANGED <<pc, sem>>
    BY <1>7 DEF Clients, Submit, DeleteCheck, Delete, RescheduleMark, RescheduleAdd,
                Unaffected, threadVars, vars
  <2> QED
    BY <1>4, <2>1
<1> QED
  BY <1>1, <1>2, <1>3, <1>5, <1>6, <1>7 DEF Next, Crash

(* The machine lock is never released more often than it was taken, and no more
   than max_vmstartup_count threads start up machines at the same time. *)
THEOREM Accounted == Spec => []LockAccounting
<1>1. Init => LockAccounting
  <2> SUFFICES ASSUME Init PROVE LockAccounting
    OBVIOUS
  <2>1. Starters = {} /\ sem = Slots
    BY DEF Init, Starters, StartingUp
  <2> QED
    BY <2>1, SlotsType, FS_EmptySet DEF LockAccounting, Starters
<1> QED
  BY <1>1, Invariance, AccountingStep, PTL DEF Spec

-----------------------------------------------------------------------------
(* Only machinery.acquire and machinery.release touch what a thread holds. *)
LEMMA OthersKeepPool ==
    ASSUME NEW t \in TaskId, Manager(t), ~Pick(t), ~Release(t)
    PROVE  UNCHANGED <<locked, hold>>
  BY DEF Manager, CountLoad, CountStore, Prepare, Acquire, CheckFree, PickNone,
         Register, StartAux, BuildOptions, GuestStart, StartMachine, StartFails,
         Unlock, Manage, StartAnalysis, GuestBegan, GuestFails, Completion, Stopping, WaitFinish,
         StopMachine, GuestStop, DelTask, Complete, Process, Report, UncountLoad,
         UncountStore, Goto, poolVars

(* Every step is a step of MachinePool or leaves the pool alone. *)
LEMMA PoolStep == IInv /\ [Next]_vars => [Pool!Next]_(Pool!vars)
<1> SUFFICES ASSUME IInv, [Next]_vars PROVE [Pool!Next]_(Pool!vars)
  OBVIOUS
<1>1. ASSUME NEW t \in TaskId, Pick(t) PROVE Pool!Next
  <2>1. PICK m \in Machines : /\ m \notin locked
                              /\ locked' = locked \cup {m}
                              /\ hold' = [hold EXCEPT ![t] = m]
    BY <1>1 DEF Pick, Lockable, Matching
  <2>2. hold[t] = NoMachine
    BY <1>1 DEF Pick, At, IInv, ThreadInv, BeforePick
  <2> QED
    BY <2>1, <2>2 DEF Pool!Next, Pool!Acquire
<1>2. ASSUME NEW t \in TaskId, Release(t) PROVE Pool!Next
  <2>1. hold[t] # NoMachine
    BY <1>2 DEF Release, At, IInv, ThreadInv, Owning
  <2> QED
    BY <1>2, <2>1 DEF Release, Pool!Next, Pool!Release
<1>3. CASE Die
  BY <1>3 DEF Die, Pool!Next, Pool!Abandon
<1>4. CASE Initialize
  <2>1. hold = [u \in TaskId |-> NoMachine]
    <3>1. hold \in [TaskId -> Machines \cup {NoMachine}]
      BY DEF IInv, TypeOK
    <3>2. \A u \in TaskId : hold[u] = NoMachine
      BY <1>4 DEF Initialize, MainAt, IInv, ThreadInv, BeforeLoop, BeforePick
    <3> QED
      BY <3>1, <3>2
  <2>2. locked' = {} /\ UNCHANGED hold
    BY <1>4 DEF Initialize, MainGoto, threadVars
  <2> QED
    BY <2>1, <2>2 DEF Pool!Next, Pool!Refill
<1>5. CASE UNCHANGED <<locked, hold>>
  BY <1>5 DEF Pool!vars
<1>6. ASSUME NEW t \in TaskId, Manager(t), ~Pick(t), ~Release(t) PROVE UNCHANGED <<locked, hold>>
  BY <1>6, OthersKeepPool
<1>7. Main => UNCHANGED <<locked, hold>>
  BY DEF Main, Probe, CheckLimits, CheckAvailable, CheckCount, Stop, ListMachines,
     FetchFor, FetchAny,
                Select, MarkRunning, Refresh, StartManager, MainGoto, threadVars, poolVars
<1>8. Lifecycle /\ ~Die /\ ~Initialize => UNCHANGED <<locked, hold>>
  BY DEF Lifecycle, Start, Recover, ReAdd, DropServices, Exit, MainGoto,
     threadVars, poolVars
<1>9. Clients \/ UNCHANGED vars => UNCHANGED <<locked, hold>>
  BY DEF Clients, Submit, DeleteCheck, Delete, RescheduleMark, RescheduleAdd,
     Unaffected,
         threadVars, poolVars, vars
<1> QED
  BY <1>1, <1>2, <1>3, <1>4, <1>5, <1>6, <1>7, <1>8, <1>9 DEF Next, Crash

(* The scheduler, its threads and the machine table implement MachinePool. *)
THEOREM ImplementsPool == Spec => PoolSpec
<1>1. Init => Pool!Init
  BY DEF Init, Pool!Init
<1> QED
  BY <1>1, Invariance, PoolStep, PTL DEF Spec, PoolSpec, Pool!Spec

-----------------------------------------------------------------------------
(* A step of a thread starts no thread. *)
LEMMA ManagerStartsNone ==
    ASSUME TypeOK, NEW t \in TaskId, Manager(t)
    PROVE  \A u \in TaskId : pc'[u] = "new" => pc[u] = "new"
  BY DEF TypeOK, Manager, CountLoad, CountStore, Prepare, Acquire, CheckFree, Pick,
         PickNone, Register, StartAux, BuildOptions, GuestStart, StartMachine, StartFails,
         Unlock, Manage, StartAnalysis, GuestBegan, GuestFails, Completion, Stopping,
         WaitFinish, StopMachine, GuestStop, DelTask, Release, Complete, Process, Report,
         UncountLoad, UncountStore, Goto

(* A row is queued once, and the thread it gets is its first and starts when the row
   cannot be fetched again, whatever happens between the transactions of fetch(). *)
THEOREM OnceOnly == Spec => RunOnce
<1> DEFINE Queued(t)  == status'[t] = "pending" => status[t] \in {"unused", "pending"}
           Started(t) == pc'[t] = "new" /\ pc[t] # "new" =>
                            pc[t] = "none" /\ status[t] \notin {"unused", "pending"}
           Once(t) == /\ status'[t] = "pending" => status[t] \in {"unused", "pending"}
                      /\ pc'[t] = "new" /\ pc[t] # "new" =>
                            pc[t] = "none" /\ status[t] \notin {"unused", "pending"}
<1>1. TypeOK /\ [Next]_vars => \A t \in TaskId : Queued(t)
  <2> SUFFICES ASSUME TypeOK, [Next]_vars PROVE \A t \in TaskId : Queued(t)
    OBVIOUS
  <2> USE DEF TypeOK
  <2>1. CASE UNCHANGED status
    BY <2>1
  <2>2. ASSUME NEW t \in TaskId, StartAux(t) PROVE \A u \in TaskId : Queued(u)
    BY <2>2 DEF StartAux, AddTask, IsNextId
  <2>3. ASSUME NEW t \in TaskId, Complete(t) \/ Report(t) PROVE \A u \in TaskId : Queued(u)
    BY <2>3 DEF Complete, Report, SetStatus
  <2>4. ASSUME NEW t \in TaskId, Manager(t), ~StartAux(t), ~Complete(t), ~Report(t)
        PROVE  UNCHANGED status
    BY <2>4 DEF Manager, CountLoad, CountStore, Prepare, Acquire, CheckFree,
                Pick, PickNone, Register, BuildOptions, GuestStart,
                StartMachine, StartFails, Unlock, Manage, StartAnalysis, GuestBegan,
                GuestFails, Completion, Stopping, WaitFinish, StopMachine,
                GuestStop, DelTask, Release, Process, UncountLoad,
                UncountStore, taskVars
  <2>5. ASSUME MarkRunning PROVE \A u \in TaskId : Queued(u)
    BY <2>5 DEF MarkRunning, SetStatus
  <2>6. ASSUME Main, ~MarkRunning PROVE UNCHANGED status
    BY <2>6 DEF Main, Probe, CheckLimits, CheckAvailable, CheckCount, Stop,
                ListMachines, FetchFor, FetchAny, Refresh, StartManager, taskVars
  <2>7. ASSUME NEW t \in TaskId, Recover(t) PROVE \A u \in TaskId : Queued(u)
    BY <2>7 DEF Recover, SetStatus
  <2>8. ASSUME ReAdd PROVE \A u \in TaskId : Queued(u)
    BY <2>8 DEF ReAdd, AddCopy, AddTask, IsNextId
  <2>9. ASSUME DropServices PROVE \A u \in TaskId : Queued(u)
    BY <2>9 DEF DropServices
  <2>10. Start \/ Initialize \/ Exit \/ Crash => UNCHANGED status
    BY DEF Start, Initialize, Exit, Crash, Die, taskVars
  <2>11. ASSUME Clients PROVE \A u \in TaskId : Queued(u)
    BY <2>11 DEF Clients, Submit, DeleteCheck, Delete, RescheduleMark,
                 RescheduleAdd, AddCopy, AddTask, IsNextId, SetStatus, taskVars
  <2>12. UNCHANGED vars => UNCHANGED status
    BY DEF vars, taskVars
  <2> QED
    BY <2>1, <2>2, <2>3, <2>4, <2>5, <2>6, <2>7, <2>8, <2>9, <2>10, <2>11, <2>12
       DEF Next, Lifecycle
<1>2. IInv /\ [Next]_vars => \A t \in TaskId : Started(t)
  <2> SUFFICES ASSUME IInv, [Next]_vars PROVE \A t \in TaskId : Started(t)
    OBVIOUS
  <2>0. TypeOK
    BY DEF IInv
  <2>1. CASE UNCHANGED pc
    BY <2>1
  <2>2. ASSUME NEW t \in TaskId, Manager(t) PROVE \A u \in TaskId : Started(u)
    BY <2>0, <2>2, ManagerStartsNone
  <2>3. CASE StartManager
    <3>1. job \in TaskId /\ pc[job] = "none" /\ status[job] \notin {"unused", "pending"}
      BY <2>3 DEF StartManager, MainAt, IInv, ThreadInv
    <3>2. pc' = [pc EXCEPT ![job] = "new"] /\ pc \in [TaskId -> Locations]
      BY <2>0, <2>3 DEF StartManager, TypeOK
    <3> QED
      BY <3>1, <3>2
  <2>4. CASE Die
    BY <2>4 DEF Die
  <2>5. Main /\ ~StartManager => UNCHANGED pc
    BY DEF Main, Probe, CheckLimits, CheckAvailable, CheckCount, Stop, ListMachines,
           FetchFor, FetchAny, Select, MarkRunning, Refresh, MainGoto, threadVars
  <2>6. Lifecycle /\ ~Die => UNCHANGED pc
    BY DEF Lifecycle, Start, Recover, ReAdd, DropServices, Initialize, Exit, MainGoto,
           threadVars
  <2>7. Clients \/ UNCHANGED vars => UNCHANGED pc
    BY DEF Clients, Submit, DeleteCheck, Delete, RescheduleMark, RescheduleAdd,
           Unaffected, threadVars, vars
  <2> QED
    BY <2>1, <2>2, <2>3, <2>4, <2>5, <2>6, <2>7 DEF Next, Crash
<1>3. IInv => TypeOK
  BY DEF IInv
<1>4. IInv /\ [Next]_vars => \A t \in TaskId : Once(t)
  BY <1>1, <1>2, <1>3
<1>5. Spec => [][\A t \in TaskId : Once(t)]_vars
  BY <1>4, Invariance, PTL DEF Spec
<1> QED
  BY <1>5 DEF RunOnce

-----------------------------------------------------------------------------
(* Once a task is reported its thread has nothing left to write, no thread is
   started for it, and the start-up recovery does not come across it. *)
ReportedInv ==
    /\ \A t \in TaskId : status[t] = "reported" => pc[t] \in {"none", "exit", "dec", "done"}
    /\ \A t \in recover : status[t] # "reported"
    /\ recover # {} => spc \in {"boot", "readd"}
    /\ spc \in {"refresh", "start"} => status[job] # "reported"

(* Every step keeps that. *)
LEMMA ReportedStep == IInv /\ ReportedInv /\ [Next]_vars => ReportedInv'
<1> SUFFICES ASSUME IInv, ReportedInv, [Next]_vars PROVE ReportedInv'
  OBVIOUS
<1> USE DEF IInv, TypeOK, ThreadInv, ReportedInv, BeforeLoop, Locations, At, Goto, MainAt,
            MainGoto, Unaffected, taskVars, poolVars, mainVars, threadVars, envVars
<1>1. ASSUME NEW t \in TaskId, CountLoad(t) PROVE ReportedInv'
  BY <1>1 DEF CountLoad
<1>2. ASSUME NEW t \in TaskId, CountStore(t) PROVE ReportedInv'
  BY <1>2 DEF CountStore
<1>3. ASSUME NEW t \in TaskId, Prepare(t) PROVE ReportedInv'
  BY <1>3 DEF Prepare
<1>4. ASSUME NEW t \in TaskId, Acquire(t) PROVE ReportedInv'
  BY <1>4 DEF Acquire
<1>5. ASSUME NEW t \in TaskId, CheckFree(t) PROVE ReportedInv'
  BY <1>5 DEF CheckFree
<1>6. ASSUME NEW t \in TaskId, Pick(t) PROVE ReportedInv'
  BY <1>6 DEF Pick, Lockable, Matching
<1>7. ASSUME NEW t \in TaskId, PickNone(t) PROVE ReportedInv'
  BY <1>7 DEF PickNone
<1>8. ASSUME NEW t \in TaskId, Register(t) PROVE ReportedInv'
  BY <1>8 DEF Register
<1>9. ASSUME NEW t \in TaskId, StartAux(t) PROVE ReportedInv'
  BY <1>9 DEF StartAux, AddTask, IsNextId
<1>10. ASSUME NEW t \in TaskId, BuildOptions(t) PROVE ReportedInv'
  BY <1>10 DEF BuildOptions
<1>11. ASSUME NEW t \in TaskId, GuestStart(t) PROVE ReportedInv'
  BY <1>11 DEF GuestStart
<1>12. ASSUME NEW t \in TaskId, StartMachine(t) PROVE ReportedInv'
  BY <1>12 DEF StartMachine
<1>13. ASSUME NEW t \in TaskId, StartFails(t) PROVE ReportedInv'
  BY <1>13 DEF StartFails
<1>14. ASSUME NEW t \in TaskId, Unlock(t) PROVE ReportedInv'
  BY <1>14 DEF Unlock
<1>15. ASSUME NEW t \in TaskId, Manage(t) PROVE ReportedInv'
  BY <1>15 DEF Manage
<1>16. ASSUME NEW t \in TaskId, StartAnalysis(t) PROVE ReportedInv'
  BY <1>16 DEF StartAnalysis
<1>17. ASSUME NEW t \in TaskId, GuestBegan(t) PROVE ReportedInv'
  BY <1>17 DEF GuestBegan
<1>18. ASSUME NEW t \in TaskId, GuestFails(t) PROVE ReportedInv'
  BY <1>18 DEF GuestFails
<1>19. ASSUME NEW t \in TaskId, Completion(t) PROVE ReportedInv'
  BY <1>19 DEF Completion
<1>20. ASSUME NEW t \in TaskId, Stopping(t) PROVE ReportedInv'
  BY <1>20 DEF Stopping
<1>21. ASSUME NEW t \in TaskId, WaitFinish(t) PROVE ReportedInv'
  BY <1>21 DEF WaitFinish
<1>22. ASSUME NEW t \in TaskId, StopMachine(t) PROVE ReportedInv'
  BY <1>22 DEF StopMachine
<1>23. ASSUME NEW t \in TaskId, GuestStop(t) PROVE ReportedInv'
  BY <1>23 DEF GuestStop
<1>24. ASSUME NEW t \in TaskId, DelTask(t) PROVE ReportedInv'
  BY <1>24 DEF DelTask
<1>25. ASSUME NEW t \in TaskId, Release(t) PROVE ReportedInv'
  BY <1>25 DEF Release
<1>26. ASSUME NEW t \in TaskId, Complete(t) PROVE ReportedInv'
  BY <1>26 DEF Complete, SetStatus
<1>27. ASSUME NEW t \in TaskId, Process(t) PROVE ReportedInv'
  BY <1>27 DEF Process
<1>28. ASSUME NEW t \in TaskId, Report(t) PROVE ReportedInv'
  BY <1>28 DEF Report, SetStatus
<1>29. ASSUME NEW t \in TaskId, UncountLoad(t) PROVE ReportedInv'
  BY <1>29 DEF UncountLoad
<1>30. ASSUME NEW t \in TaskId, UncountStore(t) PROVE ReportedInv'
  BY <1>30 DEF UncountStore
<1>31. ASSUME Probe PROVE ReportedInv'
  BY <1>31 DEF Probe
<1>32. ASSUME CheckLimits PROVE ReportedInv'
  BY <1>32 DEF CheckLimits
<1>33. ASSUME CheckAvailable PROVE ReportedInv'
  BY <1>33 DEF CheckAvailable
<1>34. ASSUME CheckCount PROVE ReportedInv'
  BY <1>34 DEF CheckCount
<1>35. ASSUME Stop PROVE ReportedInv'
  BY <1>35 DEF Stop
<1>36. ASSUME ListMachines PROVE ReportedInv'
  BY <1>36 DEF ListMachines
<1>37. ASSUME NEW m \in Machines, FetchFor(m) PROVE ReportedInv'
  BY <1>37 DEF FetchFor, Select, PendingFor
<1>38. ASSUME FetchAny PROVE ReportedInv'
  BY <1>38 DEF FetchAny, Select, PendingNoService
<1>39. ASSUME MarkRunning PROVE ReportedInv'
  BY <1>39 DEF MarkRunning, SetStatus
<1>40. ASSUME Refresh PROVE ReportedInv'
  BY <1>40 DEF Refresh
<1>41. ASSUME StartManager PROVE ReportedInv'
  BY <1>41 DEF StartManager
<1>42. ASSUME Start PROVE ReportedInv'
  BY <1>42 DEF Start
<1>43. ASSUME NEW t \in TaskId, Recover(t) PROVE ReportedInv'
  BY <1>43 DEF Recover, SetStatus
<1>44. ASSUME ReAdd PROVE ReportedInv'
  BY <1>44 DEF ReAdd, AddCopy, AddTask, IsNextId
<1>45. ASSUME DropServices PROVE ReportedInv'
  BY <1>45 DEF DropServices
<1>46. ASSUME Initialize PROVE ReportedInv'
  BY <1>46 DEF Initialize
<1>47. ASSUME Exit PROVE ReportedInv'
  BY <1>47 DEF Exit, Die
<1>48. ASSUME Crash PROVE ReportedInv'
  BY <1>48 DEF Crash, Die
<1>49. ASSUME Submit PROVE ReportedInv'
  BY <1>49 DEF Submit, AddTask, IsNextId
<1>50. ASSUME NEW t \in TaskId, DeleteCheck(t) PROVE ReportedInv'
  BY <1>50 DEF DeleteCheck
<1>51. ASSUME NEW t \in TaskId, Delete(t) PROVE ReportedInv'
  BY <1>51 DEF Delete
<1>52. ASSUME NEW t \in TaskId, RescheduleMark(t) PROVE ReportedInv'
  BY <1>52 DEF RescheduleMark, SetStatus
<1>53. ASSUME NEW t \in TaskId, RescheduleAdd(t) PROVE ReportedInv'
  BY <1>53 DEF RescheduleAdd, AddCopy, AddTask, IsNextId
<1>54. CASE UNCHANGED vars
  BY <1>54 DEF vars
<1> QED
  BY <1>1, <1>2, <1>3, <1>4, <1>5, <1>6, <1>7, <1>8, <1>9, <1>10, <1>11, <1>12, <1>13,
     <1>14, <1>15, <1>16, <1>17, <1>18, <1>19, <1>20, <1>21, <1>22, <1>23, <1>24, <1>25, <1>26,
     <1>27, <1>28, <1>29, <1>30, <1>31, <1>32, <1>33, <1>34, <1>35, <1>36, <1>37, <1>38,
     <1>39, <1>40, <1>41, <1>42, <1>43, <1>44, <1>45, <1>46, <1>47, <1>48, <1>49, <1>50, <1>51, <1>52,
     <1>53, <1>54
     DEF Next, Manager, Main, Lifecycle, Clients

(* What was reported stays so until another run or the deletion is asked for,
   whatever is rescheduled, deleted or restarted meanwhile. *)
THEOREM ReportsStay == Spec => ReportedStays
<1> DEFINE Stays(t) == status[t] = "reported" =>
                          status'[t] \in {"reported", "recovered", "deleted"}
<1>1. Init => ReportedInv
  BY DEF Init, ReportedInv
<1>2. Spec => [](IInv /\ ReportedInv)
  BY <1>1, Invariance, ReportedStep, PTL DEF Spec
<1>3. IInv /\ ReportedInv /\ [Next]_vars => \A t \in TaskId : Stays(t)
  <2> SUFFICES ASSUME IInv, ReportedInv, [Next]_vars PROVE \A t \in TaskId : Stays(t)
    OBVIOUS
  <2> USE DEF IInv, TypeOK, ReportedInv
  <2>1. CASE UNCHANGED status
    BY <2>1
  <2>2. ASSUME NEW t \in TaskId, StartAux(t) PROVE \A u \in TaskId : Stays(u)
    BY <2>2 DEF StartAux, AddTask, IsNextId
  <2>3. ASSUME NEW t \in TaskId, Complete(t) \/ Report(t) PROVE \A u \in TaskId : Stays(u)
    BY <2>3 DEF Complete, Report, SetStatus, At
  <2>4. ASSUME NEW t \in TaskId, Manager(t), ~StartAux(t), ~Complete(t), ~Report(t)
        PROVE  UNCHANGED status
    BY <2>4 DEF Manager, CountLoad, CountStore, Prepare, Acquire, CheckFree,
                Pick, PickNone, Register, BuildOptions, GuestStart,
                StartMachine, StartFails, Unlock, Manage, StartAnalysis, GuestBegan,
                GuestFails, Completion, Stopping, WaitFinish, StopMachine,
                GuestStop, DelTask, Release, Process, UncountLoad,
                UncountStore, taskVars
  <2>5. ASSUME Main PROVE \A u \in TaskId : Stays(u)
    <3>1. CASE MarkRunning
      BY <3>1 DEF MarkRunning, SetStatus, MainAt, ThreadInv
    <3>2. Main /\ ~MarkRunning => UNCHANGED status
      BY DEF Main, Probe, CheckLimits, CheckAvailable, CheckCount, Stop, ListMachines,
             FetchFor, FetchAny, Refresh, StartManager, taskVars
    <3> QED
      BY <2>1, <2>5, <3>1, <3>2
  <2>6. ASSUME Lifecycle \/ Crash PROVE \A u \in TaskId : Stays(u)
    BY <2>6 DEF Lifecycle, Start, Recover, ReAdd, DropServices, Initialize, Exit, Crash, Die,
                SetStatus, AddCopy, AddTask, IsNextId, taskVars
  <2>7. ASSUME Clients PROVE \A u \in TaskId : Stays(u)
    BY <2>7 DEF Clients, Submit, DeleteCheck, Delete, RescheduleMark, RescheduleAdd,
                SetStatus, AddCopy, AddTask, IsNextId, taskVars
  <2>8. UNCHANGED vars => UNCHANGED status
    BY DEF vars, taskVars
  <2> QED
    BY <2>1, <2>2, <2>3, <2>4, <2>5, <2>6, <2>7, <2>8 DEF Next
<1>4. Spec => [][\A t \in TaskId : Stays(t)]_vars
  BY <1>2, <1>3, PTL DEF Spec
<1> QED
  BY <1>4 DEF ReportedStays

-----------------------------------------------------------------------------
(* A thread whose VM has been stopped does not give its machine back with the VM
   on, when machinery.stop works. *)
VmInv ==
    /\ VmOnlyWhenLocked
    /\ \A t \in TaskId : pc[t] \in {"guest_stop", "del_task", "release"} => hold[t] \notin vm

(* Every step keeps that. *)
LEMMA VmStep ==
    ASSUME "vm_stop" \notin Faults, IInv, VmInv, [Next]_vars
    PROVE  VmInv'
<1> USE DEF IInv, TypeOK, ThreadInv, VmInv, VmOnlyWhenLocked, MutualExclusion, BeforeLoop,
            BeforePick, Owning, Registered, Analysing, Locations, At, Goto, MainAt, MainGoto,
            Unaffected, taskVars, poolVars, mainVars, threadVars, envVars
<1>1. ASSUME NEW t \in TaskId, CountLoad(t) PROVE VmInv'
  BY <1>1 DEF CountLoad
<1>2. ASSUME NEW t \in TaskId, CountStore(t) PROVE VmInv'
  BY <1>2 DEF CountStore
<1>3. ASSUME NEW t \in TaskId, Prepare(t) PROVE VmInv'
  BY <1>3 DEF Prepare
<1>4. ASSUME NEW t \in TaskId, Acquire(t) PROVE VmInv'
  BY <1>4 DEF Acquire
<1>5. ASSUME NEW t \in TaskId, CheckFree(t) PROVE VmInv'
  BY <1>5 DEF CheckFree
<1>6. ASSUME NEW t \in TaskId, Pick(t) PROVE VmInv'
  BY <1>6 DEF Pick, Lockable, Matching
<1>7. ASSUME NEW t \in TaskId, PickNone(t) PROVE VmInv'
  BY <1>7 DEF PickNone
<1>8. ASSUME NEW t \in TaskId, Register(t) PROVE VmInv'
  BY <1>8 DEF Register
<1>9. ASSUME NEW t \in TaskId, StartAux(t) PROVE VmInv'
  BY <1>9 DEF StartAux, AddTask, IsNextId
<1>10. ASSUME NEW t \in TaskId, BuildOptions(t) PROVE VmInv'
  BY <1>10 DEF BuildOptions
<1>11. ASSUME NEW t \in TaskId, GuestStart(t) PROVE VmInv'
  BY <1>11 DEF GuestStart
<1>12. ASSUME NEW t \in TaskId, StartMachine(t) PROVE VmInv'
  BY <1>12 DEF StartMachine
<1>13. ASSUME NEW t \in TaskId, StartFails(t) PROVE VmInv'
  BY <1>13 DEF StartFails
<1>14. ASSUME NEW t \in TaskId, Unlock(t) PROVE VmInv'
  BY <1>14 DEF Unlock
<1>15. ASSUME NEW t \in TaskId, Manage(t) PROVE VmInv'
  BY <1>15 DEF Manage
<1>16. ASSUME NEW t \in TaskId, StartAnalysis(t) PROVE VmInv'
  BY <1>16 DEF StartAnalysis
<1>17. ASSUME NEW t \in TaskId, GuestBegan(t) PROVE VmInv'
  BY <1>17 DEF GuestBegan
<1>18. ASSUME NEW t \in TaskId, GuestFails(t) PROVE VmInv'
  BY <1>18 DEF GuestFails
<1>19. ASSUME NEW t \in TaskId, Completion(t) PROVE VmInv'
  BY <1>19 DEF Completion
<1>20. ASSUME NEW t \in TaskId, Stopping(t) PROVE VmInv'
  BY <1>20 DEF Stopping
<1>21. ASSUME NEW t \in TaskId, WaitFinish(t) PROVE VmInv'
  BY <1>21 DEF WaitFinish
<1>22. ASSUME NEW t \in TaskId, StopMachine(t) PROVE VmInv'
  BY <1>22 DEF StopMachine, Failing
<1>23. ASSUME NEW t \in TaskId, GuestStop(t) PROVE VmInv'
  BY <1>23 DEF GuestStop
<1>24. ASSUME NEW t \in TaskId, DelTask(t) PROVE VmInv'
  BY <1>24 DEF DelTask
<1>25. ASSUME NEW t \in TaskId, Release(t) PROVE VmInv'
  BY <1>25 DEF Release
<1>26. ASSUME NEW t \in TaskId, Complete(t) PROVE VmInv'
  BY <1>26 DEF Complete, SetStatus
<1>27. ASSUME NEW t \in TaskId, Process(t) PROVE VmInv'
  BY <1>27 DEF Process
<1>28. ASSUME NEW t \in TaskId, Report(t) PROVE VmInv'
  BY <1>28 DEF Report, SetStatus
<1>29. ASSUME NEW t \in TaskId, UncountLoad(t) PROVE VmInv'
  BY <1>29 DEF UncountLoad
<1>30. ASSUME NEW t \in TaskId, UncountStore(t) PROVE VmInv'
  BY <1>30 DEF UncountStore
<1>31. ASSUME Probe PROVE VmInv'
  BY <1>31 DEF Probe
<1>32. ASSUME CheckLimits PROVE VmInv'
  BY <1>32 DEF CheckLimits
<1>33. ASSUME CheckAvailable PROVE VmInv'
  BY <1>33 DEF CheckAvailable
<1>34. ASSUME CheckCount PROVE VmInv'
  BY <1>34 DEF CheckCount
<1>35. ASSUME Stop PROVE VmInv'
  BY <1>35 DEF Stop, Failing
<1>36. ASSUME ListMachines PROVE VmInv'
  BY <1>36 DEF ListMachines
<1>37. ASSUME NEW m \in Machines, FetchFor(m) PROVE VmInv'
  BY <1>37 DEF FetchFor, Select, PendingFor
<1>38. ASSUME FetchAny PROVE VmInv'
  BY <1>38 DEF FetchAny, Select, PendingNoService
<1>39. ASSUME MarkRunning PROVE VmInv'
  BY <1>39 DEF MarkRunning, SetStatus
<1>40. ASSUME Refresh PROVE VmInv'
  BY <1>40 DEF Refresh
<1>41. ASSUME StartManager PROVE VmInv'
  BY <1>41 DEF StartManager
<1>42. ASSUME Start PROVE VmInv'
  BY <1>42 DEF Start
<1>43. ASSUME NEW t \in TaskId, Recover(t) PROVE VmInv'
  BY <1>43 DEF Recover, SetStatus
<1>44. ASSUME ReAdd PROVE VmInv'
  BY <1>44 DEF ReAdd, AddCopy, AddTask, IsNextId
<1>45. ASSUME DropServices PROVE VmInv'
  BY <1>45 DEF DropServices
<1>46. ASSUME Initialize PROVE VmInv'
  BY <1>46 DEF Initialize, Failing
<1>47. ASSUME Exit PROVE VmInv'
  BY <1>47 DEF Exit, Die
<1>48. ASSUME Crash PROVE VmInv'
  BY <1>48 DEF Crash, Die
<1>49. ASSUME Submit PROVE VmInv'
  BY <1>49 DEF Submit, AddTask, IsNextId
<1>50. ASSUME NEW t \in TaskId, DeleteCheck(t) PROVE VmInv'
  BY <1>50 DEF DeleteCheck
<1>51. ASSUME NEW t \in TaskId, Delete(t) PROVE VmInv'
  BY <1>51 DEF Delete
<1>52. ASSUME NEW t \in TaskId, RescheduleMark(t) PROVE VmInv'
  BY <1>52 DEF RescheduleMark, SetStatus
<1>53. ASSUME NEW t \in TaskId, RescheduleAdd(t) PROVE VmInv'
  BY <1>53 DEF RescheduleAdd, AddCopy, AddTask, IsNextId
<1>54. CASE UNCHANGED vars
  BY <1>54 DEF vars
<1> QED
  BY <1>1, <1>2, <1>3, <1>4, <1>5, <1>6, <1>7, <1>8, <1>9, <1>10, <1>11, <1>12, <1>13,
     <1>14, <1>15, <1>16, <1>17, <1>18, <1>19, <1>20, <1>21, <1>22, <1>23, <1>24, <1>25, <1>26,
     <1>27, <1>28, <1>29, <1>30, <1>31, <1>32, <1>33, <1>34, <1>35, <1>36, <1>37, <1>38,
     <1>39, <1>40, <1>41, <1>42, <1>43, <1>44, <1>45, <1>46, <1>47, <1>48, <1>49, <1>50, <1>51, <1>52,
     <1>53, <1>54
     DEF Next, Manager, Main, Lifecycle, Clients

(* As long as machinery.stop works, a VM is on only while its machine is locked,
   whatever else fails, is deleted or crashes. *)
THEOREM OnlyLockedRun ==
    ASSUME "vm_stop" \notin Faults
    PROVE  Spec => []VmOnlyWhenLocked
<1>1. Init => VmInv
  BY DEF Init, VmInv, VmOnlyWhenLocked
<1>2. IInv /\ VmInv /\ [Next]_vars => VmInv'
  BY VmStep
<1>3. VmInv => VmOnlyWhenLocked
  BY DEF VmInv
<1> QED
  BY <1>1, <1>2, <1>3, Invariance, PTL DEF Spec

-----------------------------------------------------------------------------
(* The faults that end a thread by an exception which run() only logs: the status
   of the task is not written any more. *)
Unhandled == {"target", "options", "route", "guest_error"}

(* What init_tasks finds running can be rescheduled. *)
AllReschedulable == Reschedule => \A r \in Requests : Reschedulable(r)

(* A task in the queue is one init_tasks can deal with, or a service task, which
   names no machine, asks for the tag of the services and so is never fetched. *)
RescheduleInv ==
    /\ \A t \in TaskId : status[t] = "running" => Reschedulable(req[t])
    /\ \A t \in TaskId : status[t] = "pending" =>
          req[t] = ServiceRequest \/ Reschedulable(req[t])
    /\ \A t \in TaskId : [op |-> "reschedule", task |-> t] \in api =>
          Reschedulable(req[t]) /\ status[t] # "unused"
    /\ spc = "readd" => Reschedulable(req[job]) /\ status[job] # "unused"
    /\ spc = "mark" => Reschedulable(req[job])

(* A thread writes the final status before it ends, and misses the row in `guests`
   only if its task has been deleted; the recovery comes across all that was running
   when the process died. *)
OrphanInv ==
    /\ raised = {}
    /\ \A t \in TaskId : pc[t] \in {"process", "report", "exit", "dec", "done"} =>
          status[t] # "running"
    /\ \A t \in TaskId : pc[t] \in {"start", "guest_stop"} \cup Analysing /\ guest[t] = "none" =>
          status[t] = "deleted"
    /\ spc \notin {"mark", "refresh", "start", "readd"} => job = NoTask
    /\ spc \in {"boot", "readd"} => \A t \in TaskId : status[t] = "running" => t \in recover
    /\ spc = "init" => \A t \in TaskId : status[t] # "running"
    /\ NoOrphan

(* Every step keeps the queue reschedulable, when what clients submit is. *)
LEMMA RescheduleStep ==
    ASSUME \A r \in Requests : Reschedulable(r), IInv, RescheduleInv, [Next]_vars
    PROVE  RescheduleInv'
<1>0. /\ NoMachine \notin Machines /\ ServiceTag \in ServiceRequest.tags
      /\ ServiceRequest.machine = NoMachine
  BY TableAssumption DEF ServiceRequest
<1> USE <1>0 DEF IInv, TypeOK, ThreadInv, RescheduleInv, At, Goto, MainAt, MainGoto, Unaffected,
            taskVars, poolVars, mainVars, threadVars, envVars
<1>1. ASSUME NEW t \in TaskId, CountLoad(t) PROVE RescheduleInv'
  BY <1>1 DEF CountLoad
<1>2. ASSUME NEW t \in TaskId, CountStore(t) PROVE RescheduleInv'
  BY <1>2 DEF CountStore
<1>3. ASSUME NEW t \in TaskId, Prepare(t) PROVE RescheduleInv'
  BY <1>3 DEF Prepare
<1>4. ASSUME NEW t \in TaskId, Acquire(t) PROVE RescheduleInv'
  BY <1>4 DEF Acquire
<1>5. ASSUME NEW t \in TaskId, CheckFree(t) PROVE RescheduleInv'
  BY <1>5 DEF CheckFree
<1>6. ASSUME NEW t \in TaskId, Pick(t) PROVE RescheduleInv'
  BY <1>6 DEF Pick, Lockable, Matching
<1>7. ASSUME NEW t \in TaskId, PickNone(t) PROVE RescheduleInv'
  BY <1>7 DEF PickNone
<1>8. ASSUME NEW t \in TaskId, Register(t) PROVE RescheduleInv'
  BY <1>8 DEF Register
<1>9. ASSUME NEW t \in TaskId, StartAux(t) PROVE RescheduleInv'
  BY <1>9 DEF StartAux, AddTask, IsNextId
<1>10. ASSUME NEW t \in TaskId, BuildOptions(t) PROVE RescheduleInv'
  BY <1>10 DEF BuildOptions
<1>11. ASSUME NEW t \in TaskId, GuestStart(t) PROVE RescheduleInv'
  BY <1>11 DEF GuestStart
<1>12. ASSUME NEW t \in TaskId, StartMachine(t) PROVE RescheduleInv'
  BY <1>12 DEF StartMachine
<1>13. ASSUME NEW t \in TaskId, StartFails(t) PROVE RescheduleInv'
  BY <1>13 DEF StartFails
<1>14. ASSUME NEW t \in TaskId, Unlock(t) PROVE RescheduleInv'
  BY <1>14 DEF Unlock
<1>15. ASSUME NEW t \in TaskId, Manage(t) PROVE RescheduleInv'
  BY <1>15 DEF Manage
<1>16. ASSUME NEW t \in TaskId, StartAnalysis(t) PROVE RescheduleInv'
  BY <1>16 DEF StartAnalysis
<1>17. ASSUME NEW t \in TaskId, GuestBegan(t) PROVE RescheduleInv'
  BY <1>17 DEF GuestBegan
<1>18. ASSUME NEW t \in TaskId, GuestFails(t) PROVE RescheduleInv'
  BY <1>18 DEF GuestFails
<1>19. ASSUME NEW t \in TaskId, Completion(t) PROVE RescheduleInv'
  BY <1>19 DEF Completion
<1>20. ASSUME NEW t \in TaskId, Stopping(t) PROVE RescheduleInv'
  BY <1>20 DEF Stopping
<1>21. ASSUME NEW t \in TaskId, WaitFinish(t) PROVE RescheduleInv'
  BY <1>21 DEF WaitFinish
<1>22. ASSUME NEW t \in TaskId, StopMachine(t) PROVE RescheduleInv'
  BY <1>22 DEF StopMachine
<1>23. ASSUME NEW t \in TaskId, GuestStop(t) PROVE RescheduleInv'
  BY <1>23 DEF GuestStop
<1>24. ASSUME NEW t \in TaskId, DelTask(t) PROVE RescheduleInv'
  BY <1>24 DEF DelTask
<1>25. ASSUME NEW t \in TaskId, Release(t) PROVE RescheduleInv'
  BY <1>25 DEF Release
<1>26. ASSUME NEW t \in TaskId, Complete(t) PROVE RescheduleInv'
  BY <1>26 DEF Complete, SetStatus
<1>27. ASSUME NEW t \in TaskId, Process(t) PROVE RescheduleInv'
  BY <1>27 DEF Process
<1>28. ASSUME NEW t \in TaskId, Report(t) PROVE RescheduleInv'
  BY <1>28 DEF Report, SetStatus
<1>29. ASSUME NEW t \in TaskId, UncountLoad(t) PROVE RescheduleInv'
  BY <1>29 DEF UncountLoad
<1>30. ASSUME NEW t \in TaskId, UncountStore(t) PROVE RescheduleInv'
  BY <1>30 DEF UncountStore
<1>31. ASSUME Probe PROVE RescheduleInv'
  BY <1>31 DEF Probe
<1>32. ASSUME CheckLimits PROVE RescheduleInv'
  BY <1>32 DEF CheckLimits
<1>33. ASSUME CheckAvailable PROVE RescheduleInv'
  BY <1>33 DEF CheckAvailable
<1>34. ASSUME CheckCount PROVE RescheduleInv'
  BY <1>34 DEF CheckCount
<1>35. ASSUME Stop PROVE RescheduleInv'
  BY <1>35 DEF Stop
<1>36. ASSUME ListMachines PROVE RescheduleInv'
  BY <1>36 DEF ListMachines
<1>37. ASSUME NEW m \in Machines, FetchFor(m) PROVE RescheduleInv'
  BY <1>37 DEF FetchFor, Select, PendingFor
<1>38. ASSUME FetchAny PROVE RescheduleInv'
  BY <1>38 DEF FetchAny, Select, PendingNoService
<1>39. ASSUME MarkRunning PROVE RescheduleInv'
  BY <1>39 DEF MarkRunning, SetStatus
<1>40. ASSUME Refresh PROVE RescheduleInv'
  BY <1>40 DEF Refresh
<1>41. ASSUME StartManager PROVE RescheduleInv'
  BY <1>41 DEF StartManager
<1>42. ASSUME Start PROVE RescheduleInv'
  BY <1>42 DEF Start
<1>43. ASSUME NEW t \in TaskId, Recover(t) PROVE RescheduleInv'
  BY <1>43 DEF Recover, SetStatus
<1>44. ASSUME ReAdd PROVE RescheduleInv'
  BY <1>44 DEF ReAdd, AddCopy, AddTask, IsNextId
<1>45. ASSUME DropServices PROVE RescheduleInv'
  BY <1>45 DEF DropServices
<1>46. ASSUME Initialize PROVE RescheduleInv'
  BY <1>46 DEF Initialize
<1>47. ASSUME Exit PROVE RescheduleInv'
  BY <1>47 DEF Exit, Die
<1>48. ASSUME Crash PROVE RescheduleInv'
  BY <1>48 DEF Crash, Die
<1>49. ASSUME Submit PROVE RescheduleInv'
  BY <1>49 DEF Submit, AddTask, IsNextId
<1>50. ASSUME NEW t \in TaskId, DeleteCheck(t) PROVE RescheduleInv'
  BY <1>50 DEF DeleteCheck
<1>51. ASSUME NEW t \in TaskId, Delete(t) PROVE RescheduleInv'
  BY <1>51 DEF Delete
<1>52. ASSUME NEW t \in TaskId, RescheduleMark(t) PROVE RescheduleInv'
  BY <1>52 DEF RescheduleMark, SetStatus
<1>53. ASSUME NEW t \in TaskId, RescheduleAdd(t) PROVE RescheduleInv'
  BY <1>53 DEF RescheduleAdd, AddCopy, AddTask, IsNextId
<1>54. CASE UNCHANGED vars
  BY <1>54 DEF vars
<1> QED
  BY <1>1, <1>2, <1>3, <1>4, <1>5, <1>6, <1>7, <1>8, <1>9, <1>10, <1>11, <1>12, <1>13,
     <1>14, <1>15, <1>16, <1>17, <1>18, <1>19, <1>20, <1>21, <1>22, <1>23, <1>24, <1>25, <1>26,
     <1>27, <1>28, <1>29, <1>30, <1>31, <1>32, <1>33, <1>34, <1>35, <1>36, <1>37, <1>38,
     <1>39, <1>40, <1>41, <1>42, <1>43, <1>44, <1>45, <1>46, <1>47, <1>48, <1>49, <1>50, <1>51, <1>52,
     <1>53, <1>54
     DEF Next, Manager, Main, Lifecycle, Clients

(* Every step keeps running tasks with their threads. *)
LEMMA OrphanStep ==
    ASSUME Faults \cap Unhandled = {}, Reschedule => RescheduleInv,
           IInv, OrphanInv, [Next]_vars
    PROVE  OrphanInv'
<1>0. \A f \in Unhandled : ~Failing(f)
  BY DEF Failing
<1> USE <1>0 DEF IInv, TypeOK, ThreadInv, OrphanInv, NoOrphan, Live, Unhandled, BeforeLoop, Analysing,
            Locations, At, Goto, MainAt, MainGoto, Unaffected,
            taskVars, poolVars, mainVars, threadVars, envVars
<1>1. ASSUME NEW t \in TaskId, CountLoad(t) PROVE OrphanInv'
  BY <1>1 DEF CountLoad
<1>2. ASSUME NEW t \in TaskId, CountStore(t) PROVE OrphanInv'
  BY <1>2 DEF CountStore
<1>3. ASSUME NEW t \in TaskId, Prepare(t) PROVE OrphanInv'
  BY <1>3 DEF Prepare
<1>4. ASSUME NEW t \in TaskId, Acquire(t) PROVE OrphanInv'
  BY <1>4 DEF Acquire
<1>5. ASSUME NEW t \in TaskId, CheckFree(t) PROVE OrphanInv'
  BY <1>5 DEF CheckFree
<1>6. ASSUME NEW t \in TaskId, Pick(t) PROVE OrphanInv'
  BY <1>6 DEF Pick, Lockable, Matching
<1>7. ASSUME NEW t \in TaskId, PickNone(t) PROVE OrphanInv'
  BY <1>7 DEF PickNone
<1>8. ASSUME NEW t \in TaskId, Register(t) PROVE OrphanInv'
  BY <1>8 DEF Register
<1>9. ASSUME NEW t \in TaskId, StartAux(t) PROVE OrphanInv'
  BY <1>9 DEF StartAux, AddTask, IsNextId
<1>10. ASSUME NEW t \in TaskId, BuildOptions(t) PROVE OrphanInv'
  BY <1>10 DEF BuildOptions
<1>11. ASSUME NEW t \in TaskId, GuestStart(t) PROVE OrphanInv'
  BY <1>11 DEF GuestStart
<1>12. ASSUME NEW t \in TaskId, StartMachine(t) PROVE OrphanInv'
  BY <1>12 DEF StartMachine
<1>13. ASSUME NEW t \in TaskId, StartFails(t) PROVE OrphanInv'
  BY <1>13 DEF StartFails
<1>14. ASSUME NEW t \in TaskId, Unlock(t) PROVE OrphanInv'
  BY <1>14 DEF Unlock
<1>15. ASSUME NEW t \in TaskId, Manage(t) PROVE OrphanInv'
  BY <1>15 DEF Manage, GuestStatuses
<1>16. ASSUME NEW t \in TaskId, StartAnalysis(t) PROVE OrphanInv'
  BY <1>16 DEF StartAnalysis
<1>17. ASSUME NEW t \in TaskId, GuestBegan(t) PROVE OrphanInv'
  BY <1>17 DEF GuestBegan
<1>18. ASSUME NEW t \in TaskId, GuestFails(t) PROVE OrphanInv'
  BY <1>18 DEF GuestFails
<1>19. ASSUME NEW t \in TaskId, Completion(t) PROVE OrphanInv'
  BY <1>19 DEF Completion
<1>20. ASSUME NEW t \in TaskId, Stopping(t) PROVE OrphanInv'
  BY <1>20 DEF Stopping
<1>21. ASSUME NEW t \in TaskId, WaitFinish(t) PROVE OrphanInv'
  BY <1>21 DEF WaitFinish
<1>22. ASSUME NEW t \in TaskId, StopMachine(t) PROVE OrphanInv'
  BY <1>22 DEF StopMachine
<1>23. ASSUME NEW t \in TaskId, GuestStop(t) PROVE OrphanInv'
  BY <1>23 DEF GuestStop
<1>24. ASSUME NEW t \in TaskId, DelTask(t) PROVE OrphanInv'
  BY <1>24 DEF DelTask
<1>25. ASSUME NEW t \in TaskId, Release(t) PROVE OrphanInv'
  BY <1>25 DEF Release
<1>26. ASSUME NEW t \in TaskId, Complete(t) PROVE OrphanInv'
  BY <1>26 DEF Complete, SetStatus
<1>27. ASSUME NEW t \in TaskId, Process(t) PROVE OrphanInv'
  BY <1>27 DEF Process
<1>28. ASSUME NEW t \in TaskId, Report(t) PROVE OrphanInv'
  BY <1>28 DEF Report, SetStatus
<1>29. ASSUME NEW t \in TaskId, UncountLoad(t) PROVE OrphanInv'
  BY <1>29 DEF UncountLoad
<1>30. ASSUME NEW t \in TaskId, UncountStore(t) PROVE OrphanInv'
  BY <1>30 DEF UncountStore
<1>31. ASSUME Probe PROVE OrphanInv'
  BY <1>31 DEF Probe
<1>32. ASSUME CheckLimits PROVE OrphanInv'
  BY <1>32 DEF CheckLimits
<1>33. ASSUME CheckAvailable PROVE OrphanInv'
  BY <1>33 DEF CheckAvailable
<1>34. ASSUME CheckCount PROVE OrphanInv'
  BY <1>34 DEF CheckCount
<1>35. ASSUME Stop PROVE OrphanInv'
  BY <1>35 DEF Stop
<1>36. ASSUME ListMachines PROVE OrphanInv'
  BY <1>36 DEF ListMachines
<1>37. ASSUME NEW m \in Machines, FetchFor(m) PROVE OrphanInv'
  <2>0. \A v \in TaskId : status[v] = "running" => Live(v)
    BY <1>37 DEF FetchFor, NoTask, TaskId
  <2>1. UNCHANGED <<status, pc, guest, raised, recover>>
    BY <1>37 DEF FetchFor, Select
  <2>2. CASE spc' = "mark"
    <3>1. PICK u \in TaskId : status[u] = "pending" /\ job' = u
      BY <1>37, <2>2 DEF FetchFor, Select, PendingFor
    <3> QED
      BY <2>0, <2>1, <2>2, <3>1
  <2>3. CASE spc' # "mark"
    BY <1>37, <2>1, <2>3 DEF FetchFor, Select
  <2> QED
    BY <2>2, <2>3
<1>38. ASSUME FetchAny PROVE OrphanInv'
  <2>0. \A v \in TaskId : status[v] = "running" => Live(v)
    BY <1>38 DEF FetchAny, NoTask, TaskId
  <2>1. UNCHANGED <<status, pc, guest, raised, recover>>
    BY <1>38 DEF FetchAny, Select
  <2>2. CASE spc' = "mark"
    <3>1. PICK u \in TaskId : status[u] = "pending" /\ job' = u
      BY <1>38, <2>2 DEF FetchAny, Select, PendingNoService
    <3> QED
      BY <2>0, <2>1, <2>2, <3>1
  <2>3. CASE spc' # "mark"
    BY <1>38, <2>1, <2>3 DEF FetchAny, Select
  <2> QED
    BY <2>2, <2>3
<1>39. ASSUME MarkRunning PROVE OrphanInv'
  BY <1>39 DEF MarkRunning, SetStatus
<1>40. ASSUME Refresh PROVE OrphanInv'
  BY <1>40 DEF Refresh
<1>41. ASSUME StartManager PROVE OrphanInv'
  BY <1>41 DEF StartManager
<1>42. ASSUME Start PROVE OrphanInv'
  BY <1>42 DEF Start
<1>43. ASSUME NEW t \in TaskId, Recover(t) PROVE OrphanInv'
  BY <1>43 DEF Recover, SetStatus, RescheduleInv
<1>44. ASSUME ReAdd PROVE OrphanInv'
  BY <1>44 DEF ReAdd, AddCopy, AddTask, IsNextId
<1>45. ASSUME DropServices PROVE OrphanInv'
  BY <1>45 DEF DropServices
<1>46. ASSUME Initialize PROVE OrphanInv'
  BY <1>46 DEF Initialize
<1>47. ASSUME Exit PROVE OrphanInv'
  BY <1>47 DEF Exit, Die
<1>48. ASSUME Crash PROVE OrphanInv'
  BY <1>48 DEF Crash, Die
<1>49. ASSUME Submit PROVE OrphanInv'
  BY <1>49 DEF Submit, AddTask, IsNextId
<1>50. ASSUME NEW t \in TaskId, DeleteCheck(t) PROVE OrphanInv'
  BY <1>50 DEF DeleteCheck
<1>51. ASSUME NEW t \in TaskId, Delete(t) PROVE OrphanInv'
  BY <1>51 DEF Delete
<1>52. ASSUME NEW t \in TaskId, RescheduleMark(t) PROVE OrphanInv'
  BY <1>52 DEF RescheduleMark, SetStatus
<1>53. ASSUME NEW t \in TaskId, RescheduleAdd(t) PROVE OrphanInv'
  BY <1>53 DEF RescheduleAdd, AddCopy, AddTask, IsNextId
<1>54. CASE UNCHANGED vars
  BY <1>54 DEF vars
<1> QED
  BY <1>1, <1>2, <1>3, <1>4, <1>5, <1>6, <1>7, <1>8, <1>9, <1>10, <1>11, <1>12, <1>13,
     <1>14, <1>15, <1>16, <1>17, <1>18, <1>19, <1>20, <1>21, <1>22, <1>23, <1>24, <1>25, <1>26,
     <1>27, <1>28, <1>29, <1>30, <1>31, <1>32, <1>33, <1>34, <1>35, <1>36, <1>37, <1>38,
     <1>39, <1>40, <1>41, <1>42, <1>43, <1>44, <1>45, <1>46, <1>47, <1>48, <1>49, <1>50, <1>51, <1>52,
     <1>53, <1>54
     DEF Next, Manager, Main, Lifecycle, Clients

(* As long as no call fails in a way run() does not handle, and init_tasks can
   reschedule whatever clients submit, a task never stays "running" without a thread:
   not after a crash at any point either, and not when it is deleted meanwhile. *)
THEOREM NoneOrphaned ==
    ASSUME Faults \cap Unhandled = {}, AllReschedulable
    PROVE  Spec => []NoOrphan
<1> DEFINE Inv == OrphanInv /\ (Reschedule => RescheduleInv)
<1>1. Init => Inv
  BY DEF Init, OrphanInv, NoOrphan, BeforeLoop, Analysing, RescheduleInv
<1>2. IInv /\ Inv /\ [Next]_vars => Inv'
  BY RescheduleStep, OrphanStep DEF AllReschedulable
<1>3. Inv => NoOrphan
  BY DEF OrphanInv
<1> QED
  BY <1>1, <1>2, <1>3, Invariance, PTL DEF Spec

-----------------------------------------------------------------------------
(* The faults that leave launch_analysis with the lock of the machines held: an
   exception between acquire_machine and machine_lock.release() that is not a
   CuckooMachineError. *)
Unreleased == {"options", "route"}

(* Without calls of tasks_delete no row goes away under a thread. *)
RowsStay ==
    \A t \in TaskId : status[t] # "deleted" /\ [op |-> "delete", task |-> t] \notin api

(* Every step keeps the rows. *)
LEMMA RowsStayStep ==
    ASSUME "delete" \notin Calls, IInv, RowsStay, [Next]_vars
    PROVE  RowsStay'
<1> USE DEF IInv, TypeOK, RowsStay, At, Goto, MainAt, MainGoto, Unaffected,
            taskVars, poolVars, mainVars, threadVars, envVars
<1>1. ASSUME NEW t \in TaskId, CountLoad(t) PROVE RowsStay'
  BY <1>1 DEF CountLoad
<1>2. ASSUME NEW t \in TaskId, CountStore(t) PROVE RowsStay'
  BY <1>2 DEF CountStore
<1>3. ASSUME NEW t \in TaskId, Prepare(t) PROVE RowsStay'
  BY <1>3 DEF Prepare
<1>4. ASSUME NEW t \in TaskId, Acquire(t) PROVE RowsStay'
  BY <1>4 DEF Acquire
<1>5. ASSUME NEW t \in TaskId, CheckFree(t) PROVE RowsStay'
  BY <1>5 DEF CheckFree
<1>6. ASSUME NEW t \in TaskId, Pick(t) PROVE RowsStay'
  BY <1>6 DEF Pick, Lockable, Matching
<1>7. ASSUME NEW t \in TaskId, PickNone(t) PROVE RowsStay'
  BY <1>7 DEF PickNone
<1>8. ASSUME NEW t \in TaskId, Register(t) PROVE RowsStay'
  BY <1>8 DEF Register
<1>9. ASSUME NEW t \in TaskId, StartAux(t) PROVE RowsStay'
  BY <1>9 DEF StartAux, AddTask, IsNextId
<1>10. ASSUME NEW t \in TaskId, BuildOptions(t) PROVE RowsStay'
  BY <1>10 DEF BuildOptions
<1>11. ASSUME NEW t \in TaskId, GuestStart(t) PROVE RowsStay'
  BY <1>11 DEF GuestStart
<1>12. ASSUME NEW t \in TaskId, StartMachine(t) PROVE RowsStay'
  BY <1>12 DEF StartMachine
<1>13. ASSUME NEW t \in TaskId, StartFails(t) PROVE RowsStay'
  BY <1>13 DEF StartFails
<1>14. ASSUME NEW t \in TaskId, Unlock(t) PROVE RowsStay'
  BY <1>14 DEF Unlock
<1>15. ASSUME NEW t \in TaskId, Manage(t) PROVE RowsStay'
  BY <1>15 DEF Manage
<1>16. ASSUME NEW t \in TaskId, StartAnalysis(t) PROVE RowsStay'
  BY <1>16 DEF StartAnalysis
<1>17. ASSUME NEW t \in TaskId, GuestBegan(t) PROVE RowsStay'
  BY <1>17 DEF GuestBegan
<1>18. ASSUME NEW t \in TaskId, GuestFails(t) PROVE RowsStay'
  BY <1>18 DEF GuestFails
<1>19. ASSUME NEW t \in TaskId, Completion(t) PROVE RowsStay'
  BY <1>19 DEF Completion
<1>20. ASSUME NEW t \in TaskId, Stopping(t) PROVE RowsStay'
  BY <1>20 DEF Stopping
<1>21. ASSUME NEW t \in TaskId, WaitFinish(t) PROVE RowsStay'
  BY <1>21 DEF WaitFinish
<1>22. ASSUME NEW t \in TaskId, StopMachine(t) PROVE RowsStay'
  BY <1>22 DEF StopMachine
<1>23. ASSUME NEW t \in TaskId, GuestStop(t) PROVE RowsStay'
  BY <1>23 DEF GuestStop
<1>24. ASSUME NEW t \in TaskId, DelTask(t) PROVE RowsStay'
  BY <1>24 DEF DelTask
<1>25. ASSUME NEW t \in TaskId, Release(t) PROVE RowsStay'
  BY <1>25 DEF Release
<1>26. ASSUME NEW t \in TaskId, Complete(t) PROVE RowsStay'
  BY <1>26 DEF Complete, SetStatus
<1>27. ASSUME NEW t \in TaskId, Process(t) PROVE RowsStay'
  BY <1>27 DEF Process
<1>28. ASSUME NEW t \in TaskId, Report(t) PROVE RowsStay'
  BY <1>28 DEF Report, SetStatus
<1>29. ASSUME NEW t \in TaskId, UncountLoad(t) PROVE RowsStay'
  BY <1>29 DEF UncountLoad
<1>30. ASSUME NEW t \in TaskId, UncountStore(t) PROVE RowsStay'
  BY <1>30 DEF UncountStore
<1>31. ASSUME Probe PROVE RowsStay'
  BY <1>31 DEF Probe
<1>32. ASSUME CheckLimits PROVE RowsStay'
  BY <1>32 DEF CheckLimits
<1>33. ASSUME CheckAvailable PROVE RowsStay'
  BY <1>33 DEF CheckAvailable
<1>34. ASSUME CheckCount PROVE RowsStay'
  BY <1>34 DEF CheckCount
<1>35. ASSUME Stop PROVE RowsStay'
  BY <1>35 DEF Stop
<1>36. ASSUME ListMachines PROVE RowsStay'
  BY <1>36 DEF ListMachines
<1>37. ASSUME NEW m \in Machines, FetchFor(m) PROVE RowsStay'
  BY <1>37 DEF FetchFor, Select, PendingFor
<1>38. ASSUME FetchAny PROVE RowsStay'
  BY <1>38 DEF FetchAny, Select, PendingNoService
<1>39. ASSUME MarkRunning PROVE RowsStay'
  BY <1>39 DEF MarkRunning, SetStatus
<1>40. ASSUME Refresh PROVE RowsStay'
  BY <1>40 DEF Refresh
<1>41. ASSUME StartManager PROVE RowsStay'
  BY <1>41 DEF StartManager
<1>42. ASSUME Start PROVE RowsStay'
  BY <1>42 DEF Start
<1>43. ASSUME NEW t \in TaskId, Recover(t) PROVE RowsStay'
  BY <1>43 DEF Recover, SetStatus
<1>44. ASSUME ReAdd PROVE RowsStay'
  BY <1>44 DEF ReAdd, AddCopy, AddTask, IsNextId
<1>45. ASSUME DropServices PROVE RowsStay'
  BY <1>45 DEF DropServices
<1>46. ASSUME Initialize PROVE RowsStay'
  BY <1>46 DEF Initialize
<1>47. ASSUME Exit PROVE RowsStay'
  BY <1>47 DEF Exit, Die
<1>48. ASSUME Crash PROVE RowsStay'
  BY <1>48 DEF Crash, Die
<1>49. ASSUME Submit PROVE RowsStay'
  BY <1>49 DEF Submit, AddTask, IsNextId
<1>50. ASSUME NEW t \in TaskId, DeleteCheck(t) PROVE RowsStay'
  BY <1>50 DEF DeleteCheck
<1>51. ASSUME NEW t \in TaskId, Delete(t) PROVE RowsStay'
  BY <1>51 DEF Delete
<1>52. ASSUME NEW t \in TaskId, RescheduleMark(t) PROVE RowsStay'
  BY <1>52 DEF RescheduleMark, SetStatus
<1>53. ASSUME NEW t \in TaskId, RescheduleAdd(t) PROVE RowsStay'
  BY <1>53 DEF RescheduleAdd, AddCopy, AddTask, IsNextId
<1>54. CASE UNCHANGED vars
  BY <1>54 DEF vars
<1> QED
  BY <1>1, <1>2, <1>3, <1>4, <1>5, <1>6, <1>7, <1>8, <1>9, <1>10, <1>11, <1>12, <1>13,
     <1>14, <1>15, <1>16, <1>17, <1>18, <1>19, <1>20, <1>21, <1>22, <1>23, <1>24, <1>25, <1>26,
     <1>27, <1>28, <1>29, <1>30, <1>31, <1>32, <1>33, <1>34, <1>35, <1>36, <1>37, <1>38,
     <1>39, <1>40, <1>41, <1>42, <1>43, <1>44, <1>45, <1>46, <1>47, <1>48, <1>49, <1>50, <1>51, <1>52,
     <1>53, <1>54
     DEF Next, Manager, Main, Lifecycle, Clients

(* A thread that has started up its machine, or failed to, gives its slot back. *)
LEMMA GivesBack ==
    ASSUME Faults \cap Unreleased = {}, NEW t \in TaskId, Manager(t), status[t] # "deleted",
           pc \in [TaskId -> Locations], pc[t] \in StartingUp, pc'[t] \notin StartingUp
    PROVE  sem' = sem + 1
<1>0. \A f \in Unreleased : ~Failing(f)
  BY DEF Failing
<1> USE DEF Unreleased, StartingUp, Locations, At, Goto
<1>1. CASE CountLoad(t)
  BY <1>0, <1>1 DEF CountLoad
<1>2. CASE CountStore(t)
  BY <1>0, <1>2 DEF CountStore
<1>3. CASE Prepare(t)
  BY <1>0, <1>3 DEF Prepare
<1>4. CASE Acquire(t)
  BY <1>0, <1>4 DEF Acquire
<1>5. CASE CheckFree(t)
  BY <1>0, <1>5 DEF CheckFree
<1>6. CASE Pick(t)
  BY <1>0, <1>6 DEF Pick
<1>7. CASE PickNone(t)
  BY <1>0, <1>7 DEF PickNone
<1>8. CASE Register(t)
  BY <1>0, <1>8 DEF Register
<1>9. CASE StartAux(t)
  BY <1>0, <1>9 DEF StartAux
<1>10. CASE BuildOptions(t)
  BY <1>0, <1>10 DEF BuildOptions
<1>11. CASE GuestStart(t)
  BY <1>0, <1>11 DEF GuestStart
<1>12. CASE StartMachine(t)
  BY <1>0, <1>12 DEF StartMachine
<1>13. CASE StartFails(t)
  BY <1>0, <1>13 DEF StartFails
<1>14. CASE Unlock(t)
  BY <1>0, <1>14 DEF Unlock
<1>15. CASE Manage(t)
  BY <1>0, <1>15 DEF Manage
<1>16. CASE StartAnalysis(t)
  BY <1>0, <1>16 DEF StartAnalysis
<1>17. CASE GuestBegan(t)
  BY <1>0, <1>17 DEF GuestBegan
<1>18. CASE GuestFails(t)
  BY <1>0, <1>18 DEF GuestFails
<1>19. CASE Completion(t)
  BY <1>0, <1>19 DEF Completion
<1>20. CASE Stopping(t)
  BY <1>0, <1>20 DEF Stopping
<1>21. CASE WaitFinish(t)
  BY <1>0, <1>21 DEF WaitFinish
<1>22. CASE StopMachine(t)
  BY <1>0, <1>22 DEF StopMachine
<1>23. CASE GuestStop(t)
  BY <1>0, <1>23 DEF GuestStop
<1>24. CASE DelTask(t)
  BY <1>0, <1>24 DEF DelTask
<1>25. CASE Release(t)
  BY <1>0, <1>25 DEF Release
<1>26. CASE Complete(t)
  BY <1>0, <1>26 DEF Complete, SetStatus
<1>27. CASE Process(t)
  BY <1>0, <1>27 DEF Process
<1>28. CASE Report(t)
  BY <1>0, <1>28 DEF Report, SetStatus
<1>29. CASE UncountLoad(t)
  BY <1>0, <1>29 DEF UncountLoad
<1>30. CASE UncountStore(t)
  BY <1>0, <1>30 DEF UncountStore
<1> QED
  BY <1>1, <1>2, <1>3, <1>4, <1>5, <1>6, <1>7, <1>8, <1>9, <1>10, <1>11, <1>12, <1>13,
     <1>14, <1>15, <1>16, <1>17, <1>18, <1>19, <1>20, <1>21, <1>22, <1>23, <1>24, <1>25, <1>26,
     <1>27, <1>28, <1>29, <1>30 DEF Manager

(* Every step keeps the slots accounted for from below. *)
LEMMA LeakStep ==
    ASSUME Faults \cap Unreleased = {}, IInv, RowsStay, LockNotLeaked, [Next]_vars
    PROVE  LockNotLeaked'
<1>0. /\ Slots \in Nat /\ sem \in Nat /\ pc \in [TaskId -> Locations]
      /\ sem + Cardinality(Starters) >= Slots
  BY SlotsType DEF IInv, TypeOK, LockNotLeaked, Starters
<1>1. ASSUME NEW t \in TaskId, NEW l \in Locations, LockStep(t, l),
             pc[t] \in StartingUp /\ l \notin StartingUp => sem' = sem + 1
      PROVE  LockNotLeaked'
  <2>1. CASE l \in StartingUp
    <3>1. Starters' = Starters \cup {t}
      BY <1>0, <1>1, <2>1 DEF Starters, LockStep
    <3>2. Cardinality(Starters') = IF t \in Starters THEN Cardinality(Starters)
                                                     ELSE Cardinality(Starters) + 1
      BY <3>1, StartersFinite, FS_AddElement
    <3> QED
      BY <1>0, <1>1, <2>1, <3>2, StartersFinite DEF LockNotLeaked, LockStep, Starters
  <2>2. CASE l \notin StartingUp
    <3>1. Starters' = Starters \ {t}
      BY <1>0, <1>1, <2>2 DEF Starters, LockStep
    <3>2. Cardinality(Starters') = IF t \in Starters THEN Cardinality(Starters) - 1
                                                     ELSE Cardinality(Starters)
      BY <3>1, StartersFinite, FS_RemoveElement
    <3> QED
      BY <1>0, <1>1, <2>2, <3>2, StartersFinite DEF LockNotLeaked, LockStep, Starters
  <2> QED
    BY <2>1, <2>2
<1>2. ASSUME NEW t \in TaskId, Manager(t) PROVE LockNotLeaked'
  <2>1. PICK l \in Locations : LockStep(t, l)
    BY <1>2, ManagerLockStep
  <2>2. pc'[t] = l
    BY <1>0, <2>1 DEF LockStep
  <2>3. pc[t] \in StartingUp /\ l \notin StartingUp => sem' = sem + 1
    BY <1>0, <1>2, <2>2, GivesBack DEF RowsStay
  <2> QED
    BY <1>1, <2>1, <2>3
<1>3. CASE StartManager
  <2>1. job \in TaskId /\ LockStep(job, "new") /\ pc[job] \notin StartingUp
    BY <1>3 DEF StartManager, MainAt, LockStep, StartingUp, IInv, ThreadInv
  <2>2. "new" \in Locations
    BY DEF Locations
  <2> QED
    BY <1>1, <2>1, <2>2
<1>4. CASE Die
  <2>1. Starters' = {} /\ sem' = Slots
    BY <1>4 DEF Die, Starters, StartingUp
  <2> QED
    BY <2>1, SlotsType, FS_EmptySet DEF LockNotLeaked, Starters
<1>5. CASE UNCHANGED <<pc, sem>>
  BY <1>5 DEF LockNotLeaked
<1>6. CASE Main /\ ~StartManager
  <2>1. UNCHANGED <<pc, sem>>
    BY <1>6 DEF Main, Probe, CheckLimits, CheckAvailable, CheckCount, Stop, ListMachines,
                FetchFor, FetchAny,
                Select, MarkRunning, Refresh, MainGoto, threadVars
  <2> QED
    BY <1>5, <2>1
<1>7. CASE Lifecycle /\ ~Die
  <2>1. UNCHANGED <<pc, sem>>
    BY <1>7 DEF Lifecycle, Start, Recover, ReAdd, DropServices, Initialize, Exit,
                MainGoto, threadVars
  <2> QED
    BY <1>5, <2>1
<1>8. CASE Clients \/ UNCHANGED vars
  <2>1. UNCHANGED <<pc, sem>>
    BY <1>8 DEF Clients, Submit, DeleteCheck, Delete, RescheduleMark, RescheduleAdd,
                Unaffected, threadVars, vars
  <2> QED
    BY <1>5, <2>1
<1> QED
  BY <1>2, <1>3, <1>4, <1>6, <1>7, <1>8 DEF Next, Crash

(* As long as the calls fail in the ways launch_analysis handles and no task is deleted
   under its thread, no slot of the machine lock is ever lost: every one is free or
   belongs to a thread that is starting up a machine. *)
THEOREM NothingLeaks ==
    ASSUME Faults \cap Unreleased = {}, "delete" \notin Calls
    PROVE  Spec => []LockNotLeaked
<1>1. Init => RowsStay /\ LockNotLeaked
  <2> SUFFICES ASSUME Init PROVE RowsStay /\ LockNotLeaked
    OBVIOUS
  <2>1. Starters = {} /\ sem = Slots
    BY DEF Init, Starters, StartingUp
  <2> QED
    BY <2>1, SlotsType, FS_EmptySet DEF Init, RowsStay, LockNotLeaked, Starters
<1>2. IInv /\ RowsStay /\ LockNotLeaked /\ [Next]_vars => RowsStay' /\ LockNotLeaked'
  BY RowsStayStep, LeakStep
<1> QED
  BY <1>1, <1>2, Invariance, PTL DEF Spec
=============================================================================
