---------------------------- MODULE Host_proofs ----------------------------
(***************************************************************************)
(* Proofs about what the host does for an analysis.  Machines, for any     *)
(* timeout and any number of analyses: a sample never meets the disk of    *)
(* another one, and a machine is off after a stop that did not raise.      *)
(* Rooter, for any number of threads, analyses and deaths: a machine that  *)
(* is not analysed has no way out.                                         *)
(***************************************************************************)
EXTENDS Machines, Rooter, FiniteSetTheorems, SequenceTheorems, TLAPS

Typed(p) == Len(p) \in 0..6 /\ \A i \in 1..Len(p) : p[i].to \in Powers

(* The programs are short, and their commands lead to states of a machine. *)
LEMMA ProgramSteps ==
    ASSUME NEW b \in AllBackends
    PROVE  Typed(CheckOf[b]) /\ Typed(StartOf[b]) /\ Typed(DumpOf[b]) /\ Typed(StopOf[b])
  <1> USE DEF Typed, RaiseIf, ReturnIf, Look, Do, Try, Revert, Require, StopUnless,
              WakeUnless, Spawn, Kill, Await, AwaitQuiet, AwaitEver, Powers
  <1>1. CASE b = "virtualbox"
    <2>1. Typed(VirtualBoxCheck)
      BY DEF VirtualBoxCheck
    <2>2. Typed(VirtualBoxStart)
      BY DEF VirtualBoxStart
    <2>3. Typed(VirtualBoxDump)
      BY DEF VirtualBoxDump
    <2>4. Typed(VirtualBoxStop)
      BY DEF VirtualBoxStop
    <2> QED BY <1>1, <2>1, <2>2, <2>3, <2>4 DEF CheckOf, StartOf, DumpOf, StopOf
  <1>2. CASE b = "libvirt"
    <2>1. Typed(LibVirtCheck)
      BY DEF LibVirtCheck
    <2>2. Typed(LibVirtStart)
      BY DEF LibVirtStart
    <2>3. Typed(LibVirtDump)
      BY DEF LibVirtDump
    <2>4. Typed(LibVirtStop)
      BY DEF LibVirtStop
    <2> QED BY <1>2, <2>1, <2>2, <2>3, <2>4 DEF CheckOf, StartOf, DumpOf, StopOf
  <1>3. CASE b = "vmware"
    <2>1. Typed(VMwareCheck)
      BY DEF VMwareCheck, VMwareRevert
    <2>2. Typed(VMwareStart)
      BY DEF VMwareStart, VMwareRevert
    <2>3. Typed(VMwareDump)
      BY DEF VMwareDump
    <2>4. Typed(VMwareStop)
      BY DEF VMwareStop, VMwareRevert
    <2> QED BY <1>3, <2>1, <2>2, <2>3, <2>4 DEF CheckOf, StartOf, DumpOf, StopOf
  <1>4. CASE b = "xenserver"
    <2>1. Typed(XenCheck)
      BY DEF XenCheck, XenConfig
    <2>2. Typed(XenStart)
      BY DEF XenStart, XenConfig
    <2>3. Typed(XenDump)
      BY DEF XenDump, XenConfig
    <2>4. Typed(XenStop)
      BY DEF XenStop, XenConfig
    <2> QED BY <1>4, <2>1, <2>2, <2>3, <2>4 DEF CheckOf, StartOf, DumpOf, StopOf
  <1>5. CASE b = "vsphere"
    <2>1. Typed(VSphereCheck)
      BY DEF VSphereCheck, VSphereRevert, VSphereTake, VSphereDownload, VSphereWait, VSpherePowerOff
    <2>2. Typed(VSphereStart)
      BY DEF VSphereStart, VSphereRevert, VSphereTake, VSphereDownload, VSphereWait, VSpherePowerOff
    <2>3. Typed(VSphereDump)
      BY DEF VSphereDump, VSphereRevert, VSphereTake, VSphereDownload, VSphereWait, VSpherePowerOff
    <2>4. Typed(VSphereStop)
      BY DEF VSphereStop, VSphereRevert, VSphereTake, VSphereDownload, VSphereWait, VSpherePowerOff
    <2> QED BY <1>5, <2>1, <2>2, <2>3, <2>4 DEF CheckOf, StartOf, DumpOf, StopOf
  <1>6. CASE b = "qemu"
    <2>1. Typed(QemuCheck)
      BY DEF QemuCheck
    <2>2. Typed(QemuStart)
      BY DEF QemuStart
    <2>3. Typed(<< >>)
      OBVIOUS
    <2>4. Typed(QemuStop)
      BY DEF QemuStop
    <2> QED BY <1>6, <2>1, <2>2, <2>3, <2>4 DEF CheckOf, StartOf, DumpOf, StopOf
  <1>7. CASE b = "avd"
    <2>1. Typed(AvdCheck)
      BY DEF AvdCheck, AvdDuplicate, AvdEmulator, AvdReady
    <2>2. Typed(AvdStart)
      BY DEF AvdStart, AvdDuplicate, AvdEmulator, AvdReady
    <2>3. Typed(<< >>)
      OBVIOUS
    <2>4. Typed(AvdStop)
      BY DEF AvdStop, AvdDuplicate, AvdEmulator, AvdReady
    <2> QED BY <1>7, <2>1, <2>2, <2>3, <2>4 DEF CheckOf, StartOf, DumpOf, StopOf
  <1>8. CASE b = "physical"
    <2>1. Typed(PhysicalCheck)
      BY DEF PhysicalCheck, FogInit, FogQueueTask
    <2>2. Typed(PhysicalStart)
      BY DEF PhysicalStart, FogInit, FogQueueTask
    <2>3. Typed(<< >>)
      OBVIOUS
    <2>4. Typed(PhysicalStop)
      BY DEF PhysicalStop, FogInit, FogQueueTask
    <2> QED BY <1>8, <2>1, <2>2, <2>3, <2>4 DEF CheckOf, StartOf, DumpOf, StopOf
  <1> QED BY <1>1, <1>2, <1>3, <1>4, <1>5, <1>6, <1>7, <1>8 DEF AllBackends

-----------------------------------------------------------------------------
(* A step of a program goes on to the next one, or leaves the program. *)
Moved == /\ mpc' \in {"init", "check", "free", "refused", "start", "analyse", "dump", "stop"}
         /\ step' \in 1..6 /\ waitme' = 0 /\ quiet' \in BOOLEAN

LEMMA GoMoves ==
    ASSUME MachinesTypeOK, mpc \in {"init", "check", "start", "dump", "stop"},
           step <= Len(Program), Go
    PROVE  Moved
  <1>1. Len(Program) \in 0..6 /\ step \in 1..6 /\ quiet \in BOOLEAN
    BY ProgramSteps, MachinesAssumption DEF Program, Typed, MachinesTypeOK
  <1>2. CASE step = Len(Program)
    BY <1>2 DEF Go, Leave, Moved
  <1>3. CASE step # Len(Program)
    <2>1. step' = step + 1 /\ waitme' = 0 /\ mpc' = mpc /\ quiet' = quiet
      BY <1>3 DEF Go
    <2>2. step' \in 1..6
      <3> DEFINE n == Len(Program)
      <3>1. n \in 0..6 /\ step \in 1..6 /\ step <= n /\ step # n /\ step' = step + 1
        BY <1>1, <1>3, <2>1
      <3> HIDE DEF n
      <3> QED BY <3>1
    <2>3. quiet' \in BOOLEAN
      BY <1>1, <2>1
    <2> QED BY <2>1, <2>2, <2>3 DEF Moved
  <1> QED BY <1>2, <1>3

LEMMA LeaveMoves ==
    ASSUME mpc \in {"init", "check", "start", "dump", "stop"}, NEW ok, Leave(ok)
    PROVE  Moved
  BY DEF Leave, Moved

LEMMA HereTyped ==
    ASSUME MachinesTypeOK, step <= Len(Program)
    PROVE  Here.to \in Powers
  <1>1. Typed(Program)
    BY ProgramSteps, MachinesAssumption DEF Program, MachinesTypeOK
  <1>2. step \in 1..Len(Program)
    BY <1>1 DEF Typed, MachinesTypeOK
  <1> QED BY <1>1, <1>2 DEF Typed, Here

(* Every variable of Machines keeps its type. *)
LEMMA TypeStep == MachinesTypeOK /\ [MachinesNext]_mvars => MachinesTypeOK'
  <1> SUFFICES ASSUME MachinesTypeOK, [MachinesNext]_mvars
               PROVE  MachinesTypeOK'
    OBVIOUS
  <1> USE MachinesAssumption
  <1>1. CASE Hypervisor
    BY <1>1 DEF Hypervisor, PowerOn, PowerOff, Abort, AnalysisStays, MachinesTypeOK, Powers
  <1>2. CASE Begin
    BY <1>2 DEF Begin, MachinesTypeOK
  <1>3. CASE Analysis
    BY <1>3 DEF Analysis, MachinesTypeOK
  <1>4. CASE CheckState
    <2>1. Moved
      BY <1>4, GoMoves, LeaveMoves DEF CheckState, At
    <2> QED BY <1>4, <2>1 DEF CheckState, Moved, MachineStays, MachinesTypeOK
  <1>5. CASE Query
    <2>1. CASE mpc' = "lost" /\ UNCHANGED <<step, waitme, quiet>>
      BY <1>5, <2>1 DEF Query, MachineStays, MachinesTypeOK
    <2>2. CASE Go \/ Leave(FALSE)
      <3>1. Moved
        BY <1>5, <2>2, GoMoves, LeaveMoves DEF Query, At
      <3> QED BY <1>5, <3>1 DEF Query, Moved, MachineStays, MachinesTypeOK
    <2> QED BY <1>5, <2>1, <2>2 DEF Query
  <1>6. CASE CheckConfig
    <2>1. Moved
      BY <1>6, GoMoves, LeaveMoves DEF CheckConfig, At
    <2> QED BY <1>6, <2>1 DEF CheckConfig, Moved, MachineStays, MachinesTypeOK
  <1>7. CASE StopFound
    <2>1. CASE mpc' = "check" /\ step' = 1 /\ UNCHANGED <<waitme, quiet>>
      BY <1>7, <2>1 DEF StopFound, MachineStays, MachinesTypeOK
    <2>2. CASE Go
      <3>1. Moved
        BY <1>7, <2>2, GoMoves DEF StopFound, At
      <3> QED BY <1>7, <3>1 DEF StopFound, Moved, MachineStays, MachinesTypeOK
    <2> QED BY <1>7, <2>1, <2>2 DEF StopFound
  <1>8. CASE WakeFound
    <2>1. Moved
      BY <1>8, GoMoves DEF WakeFound, At
    <2>2. Here.to \in Powers
      BY <1>8, HereTyped DEF WakeFound, At
    <2> QED BY <1>8, <2>1, <2>2 DEF WakeFound, Moved, MachinesTypeOK
  <1>9. CASE Command
    <2>1. Moved
      BY <1>9, GoMoves, LeaveMoves DEF Command, At
    <2>2. Here.to \in Powers
      BY <1>9, HereTyped DEF Command, At
    <2>3. power' \in Powers
      BY <1>9, <2>2 DEF Command, MachinesTypeOK
    <2>4. dirty' \in BOOLEAN
      BY <1>9 DEF Command, MachinesTypeOK
    <2>5. UNCHANGED <<backend, process, analyses>>
      BY <1>9 DEF Command
    <2> QED BY <2>1, <2>3, <2>4, <2>5 DEF Moved, MachinesTypeOK
  <1>10. CASE SpawnProcess
    <2>1. Moved
      BY <1>10, GoMoves, LeaveMoves DEF SpawnProcess, At
    <2>2. Here.to \in Powers
      BY <1>10, HereTyped DEF SpawnProcess, At
    <2>3. power' \in Powers /\ process' \in {"none", "ours", "orphan"}
      BY <1>10, <2>2 DEF SpawnProcess, MachinesTypeOK
    <2>4. UNCHANGED <<backend, dirty, analyses>>
      BY <1>10 DEF SpawnProcess
    <2> QED BY <2>1, <2>3, <2>4 DEF Moved, MachinesTypeOK
  <1>11. CASE KillProcess
    <2>1. Moved
      BY <1>11, GoMoves DEF KillProcess, At
    <2> QED BY <1>11, <2>1 DEF KillProcess, Moved, Powers, MachinesTypeOK
  <1>12. CASE Wait
    <2>1. CASE ~(waitme > VmState) /\ waitme' = waitme + 1 /\ UNCHANGED <<mpc, step, quiet>>
      BY <1>12, <2>1 DEF Wait, MachineStays, MachinesTypeOK
    <2>2. CASE Go \/ Leave(Here.op = "quiet")
      <3>1. Moved
        BY <1>12, <2>2, GoMoves, LeaveMoves DEF Wait, At
      <3> QED BY <1>12, <3>1 DEF Wait, Moved, MachineStays, MachinesTypeOK
    <2> QED BY <1>12, <2>1, <2>2 DEF Wait
  <1>13. CASE WaitDevice
    <2>1. Moved
      BY <1>13, GoMoves DEF WaitDevice, At
    <2> QED BY <1>13, <2>1 DEF WaitDevice, Moved, MachineStays, MachinesTypeOK
  <1>14. CASE UNCHANGED mvars
    BY <1>14 DEF mvars, MachinesTypeOK
  <1> QED
    BY <1>1, <1>2, <1>3, <1>4, <1>5, <1>6, <1>7, <1>8, <1>9, <1>10, <1>11, <1>12, <1>13, <1>14
       DEF MachinesNext, ModuleStep

THEOREM TypesKept == MachinesSpec => []MachinesTypeOK
  <1>1. ASSUME MachinesInit PROVE MachinesTypeOK
    <2>1. backend \in Backends /\ power \in Powers /\ dirty \in BOOLEAN
      BY <1>1 DEF MachinesInit, Powers
    <2>2. process \in {"none", "ours", "orphan"}
      BY <1>1 DEF MachinesInit
    <2>3. mpc = "init" /\ step \in 1..6 /\ waitme \in 0..(VmState + 1) /\ analyses \in 0..MaxAnalyses
      BY <1>1, MachinesAssumption DEF MachinesInit
    <2>4. quiet \in BOOLEAN
      BY <1>1 DEF MachinesInit
    <2> QED BY <2>1, <2>2, <2>3, <2>4 DEF MachinesTypeOK
  <1> QED BY <1>1, TypeStep, PTL DEF MachinesSpec

-----------------------------------------------------------------------------
(* The step of start that puts the disk back *)
CleanStep == [virtualbox |-> 2, libvirt |-> 2, vmware |-> 2, xenserver |-> 3, vsphere |-> 2,
              qemu |-> 1, avd |-> 1]
Cleaners == AllBackends \ {"physical"}

LEMMA CleanSteps ==
    ASSUME NEW b \in Cleaners
    PROVE  LET p == StartOf[b]  c == CleanStep[b] IN
           /\ c \in 1..Len(p) /\ p[c].op = "do" /\ p[c].clean
           /\ \A i \in 1..Len(p) : p[i].op \notin {"return", "quiet", "kill"}
  <1> USE DEF StartOf, CleanStep, RaiseIf, Look, Do, Revert, Spawn, Await, AwaitEver
  <1>1. CASE b = "virtualbox"  BY <1>1 DEF VirtualBoxStart
  <1>2. CASE b = "libvirt"     BY <1>2 DEF LibVirtStart
  <1>3. CASE b = "vmware"      BY <1>3 DEF VMwareStart, VMwareRevert
  <1>4. CASE b = "xenserver"   BY <1>4 DEF XenStart
  <1>5. CASE b = "vsphere"     BY <1>5 DEF VSphereStart, VSphereRevert
  <1>6. CASE b = "qemu"        BY <1>6 DEF QemuStart
  <1>7. CASE b = "avd"         BY <1>7 DEF AvdStart, AvdDuplicate, AvdEmulator, AvdReady
  <1> QED BY <1>1, <1>2, <1>3, <1>4, <1>5, <1>6, <1>7 DEF Cleaners, AllBackends

(* Once start is past that step the disk is clean, until the sample runs.  This, and that
   every call of start begins at its first step, makes StartsClean inductive. *)
CleanInv ==
    /\ mpc = "free" => step = 1
    /\ backend \in Cleaners /\ process # "orphan" =>
          /\ mpc = "start" /\ step > CleanStep[backend] => ~dirty
          /\ mpc = "analyse" => ~dirty

LEMMA GoKeepsClean ==
    ASSUME MachinesTypeOK, CleanInv, Go, mpc \in {"init", "check", "start", "dump", "stop"},
           step <= Len(Program), backend' = backend, process # "orphan" \/ process' = "orphan",
           dirty' => dirty,
           mpc = "start" /\ backend \in Cleaners /\ process # "orphan" /\ step = CleanStep[backend] => ~dirty'
    PROVE  CleanInv'
  <1>1. CASE mpc # "start"
    BY <1>1 DEF Go, Leave, CleanInv
  <1>2. CASE mpc = "start" /\ backend \in Cleaners /\ process # "orphan"
    <2>1. Program = StartOf[backend] /\ CleanStep[backend] \in 1..Len(Program)
      BY <1>2, CleanSteps DEF Program
    <2>2. step \in 1..6
      BY DEF MachinesTypeOK
    <2>3. CASE step = Len(Program)
      BY <1>2, <2>1, <2>2, <2>3 DEF Go, Leave, CleanInv
    <2>4. CASE step # Len(Program)
      BY <1>2, <2>1, <2>2, <2>4 DEF Go, CleanInv
    <2> QED BY <2>3, <2>4
  <1>3. CASE mpc = "start" /\ ~(backend \in Cleaners /\ process # "orphan")
    BY <1>3 DEF Go, Leave, CleanInv
  <1> QED BY <1>1, <1>2, <1>3

LEMMA LeaveKeepsClean ==
    ASSUME mpc \in {"init", "check", "start", "dump", "stop"}, Leave(FALSE)
    PROVE  CleanInv'
  BY DEF Leave, CleanInv

LEMMA CleanStepInv == MachinesTypeOK /\ CleanInv /\ [MachinesNext]_mvars => CleanInv'
  <1> SUFFICES ASSUME MachinesTypeOK, CleanInv, [MachinesNext]_mvars
               PROVE  CleanInv'
    OBVIOUS
  <1>0. mpc = "start" /\ backend \in Cleaners /\ step = CleanStep[backend]
          => Here.op = "do" /\ Here.clean
    BY CleanSteps DEF Program, Here
  <1>a. \A op \in {"raise", "return", "look", "require", "stopunless", "wake", "spawn", "kill",
                    "try", "await", "quiet", "ever"} :
          mpc = "start" /\ backend \in Cleaners /\ At(op) => step # CleanStep[backend]
    BY CleanSteps DEF At, Program
  <1>b. mpc = "start" /\ backend \in Cleaners => ~At("return") /\ ~At("quiet") /\ ~At("kill")
    <2> SUFFICES ASSUME mpc = "start", backend \in Cleaners PROVE ~At("return") /\ ~At("quiet") /\ ~At("kill")
      OBVIOUS
    <2>1. Program = StartOf[backend]
      BY DEF Program
    <2>2. \A i \in 1..Len(StartOf[backend]) : StartOf[backend][i].op \notin {"return", "quiet", "kill"}
      BY CleanSteps
    <2>3. step \in Nat /\ step >= 1
      BY DEF MachinesTypeOK
    <2> QED BY <2>1, <2>2, <2>3 DEF At
  <1>1. CASE Hypervisor
    <2>1. UNCHANGED <<backend, process, mpc, step>>
      BY <1>1 DEF Hypervisor, PowerOn, PowerOff, Abort, AnalysisStays
    <2>2. backend \in Cleaners => dirty' = dirty
      BY <1>1 DEF Hypervisor, PowerOn, PowerOff, Abort, Cleaners
    <2> QED BY <2>1, <2>2 DEF CleanInv
  <1>2. CASE Begin
    BY <1>2, CleanSteps DEF Begin, CleanInv
  <1>3. CASE Analysis
    BY <1>3 DEF Analysis, CleanInv
  <1>4. CASE CheckState
    <2>1. CASE Go
      BY <1>4, <1>a, <2>1, GoKeepsClean DEF CheckState, At, MachineStays
    <2>2. CASE Leave(Here.op = "return") /\ ~(mpc = "start" /\ backend \in Cleaners)
      BY <1>4, <2>2 DEF CheckState, At, Leave, MachineStays, CleanInv
    <2>3. CASE Leave(Here.op = "return") /\ mpc = "start" /\ backend \in Cleaners
      BY <1>4, <1>b, <2>3 DEF CheckState, At, Here, Leave, CleanInv
    <2> QED BY <1>4, <2>1, <2>2, <2>3 DEF CheckState
  <1>5. CASE Query
    <2>1. CASE Go
      BY <1>5, <1>a, <2>1, GoKeepsClean DEF Query, At, MachineStays
    <2>2. CASE Leave(FALSE)
      BY <1>5, <2>2, LeaveKeepsClean DEF Query, At
    <2>3. CASE mpc' = "lost"
      BY <2>3 DEF CleanInv
    <2> QED BY <1>5, <2>1, <2>2, <2>3 DEF Query
  <1>6. CASE CheckConfig
    <2>1. CASE Go
      BY <1>6, <1>a, <2>1, GoKeepsClean DEF CheckConfig, At, MachineStays
    <2>2. CASE Leave(FALSE)
      BY <1>6, <2>2, LeaveKeepsClean DEF CheckConfig, At
    <2> QED BY <1>6, <2>1, <2>2 DEF CheckConfig
  <1>7. CASE StopFound
    <2>1. CASE Go
      BY <1>7, <1>a, <2>1, GoKeepsClean DEF StopFound, At, MachineStays
    <2>2. CASE mpc' = "check"
      BY <2>2 DEF CleanInv
    <2> QED BY <1>7, <2>1, <2>2 DEF StopFound
  <1>8. CASE WakeFound
    BY <1>8, <1>a, GoKeepsClean DEF WakeFound, At
  <1>9. CASE Command
    <2>0. \/ UNCHANGED dirty
          \/ dirty' = (dirty /\ ~Here.clean)
      BY <1>9 DEF Command
    <2>a. UNCHANGED <<backend, process>>
      BY <1>9 DEF Command
    <2>b. dirty' => dirty
      BY <2>0
    <2>1. UNCHANGED <<backend, process>> /\ (dirty' => dirty)
      BY <2>a, <2>b
    <2>2. mpc \in {"init", "check", "start", "dump", "stop"} /\ step <= Len(Program)
      BY <1>9 DEF Command, At
    <2>3. CASE Leave(FALSE)
      BY <2>2, <2>3, LeaveKeepsClean
    <2>4. CASE Go
      <3>1. ASSUME mpc = "start", backend \in Cleaners, process # "orphan",
                   step = CleanStep[backend]
            PROVE  ~dirty' \/ Leave(FALSE)
        BY <1>0, <1>9, <3>1 DEF Command
      <3> QED BY <2>1, <2>2, <2>3, <2>4, <3>1, GoKeepsClean
    <2> QED BY <1>9, <2>3, <2>4 DEF Command
  <1>10. CASE SpawnProcess
    <2>1. CASE Go
      BY <1>10, <1>a, <2>1, GoKeepsClean DEF SpawnProcess, At
    <2>2. CASE Leave(FALSE)
      BY <1>10, <2>2, LeaveKeepsClean DEF SpawnProcess, At
    <2> QED BY <1>10, <2>1, <2>2 DEF SpawnProcess
  <1>11. CASE KillProcess
    <2>1. CASE mpc = "start"
      BY <1>11, <1>b, <2>1 DEF KillProcess, Go, Leave, CleanInv
    <2>2. CASE mpc # "start"
      BY <1>11, <2>2 DEF KillProcess, At, Go, Leave, CleanInv
    <2> QED BY <2>1, <2>2
  <1>12. CASE Wait
    <2>1. CASE Go
      BY <1>12, <1>a, <2>1, GoKeepsClean DEF Wait, At, MachineStays
    <2>2. CASE Leave(Here.op = "quiet") /\ ~(mpc = "start" /\ backend \in Cleaners)
      BY <1>12, <2>2 DEF Wait, At, Leave, MachineStays, CleanInv
    <2>3. CASE Leave(Here.op = "quiet") /\ mpc = "start" /\ backend \in Cleaners
      BY <1>12, <1>b, <2>3 DEF Wait, At, Here, Leave, CleanInv
    <2>4. CASE UNCHANGED <<mpc, step, quiet>>
      BY <1>12, <2>4 DEF Wait, MachineStays, CleanInv
    <2> QED BY <1>12, <2>1, <2>2, <2>3, <2>4 DEF Wait
  <1>13. CASE WaitDevice
    BY <1>13, <1>a, GoKeepsClean DEF WaitDevice, At, MachineStays
  <1>14. CASE UNCHANGED mvars
    BY <1>14 DEF mvars, CleanInv
  <1> QED
    BY <1>1, <1>2, <1>3, <1>4, <1>5, <1>6, <1>7, <1>8, <1>9, <1>10, <1>11, <1>12, <1>13, <1>14
       DEF MachinesNext, ModuleStep

(* No sample meets what another one left on the disk, for every module that puts the
   disk back itself. *)
THEOREM CleanStarts == MachinesSpec => []StartsClean
  <1>1. MachinesInit => CleanInv
    BY DEF MachinesInit, CleanInv
  <1>2. MachinesTypeOK /\ CleanInv => StartsClean
    BY MachinesAssumption DEF MachinesTypeOK, CleanInv, StartsClean, Cleaners
  <1> QED BY <1>1, <1>2, CleanStepInv, TypesKept, PTL DEF MachinesSpec

-----------------------------------------------------------------------------
(* The modules that know their machine to be off when stop returns *)
Stoppers == {"virtualbox", "libvirt", "xenserver", "qemu", "avd"}
OffStates == Off \cup {"saved"}

LEMMA StopSteps ==
    ASSUME NEW b \in Stoppers
    PROVE  LET p == StopOf[b]  n == Len(p) IN
           /\ n \in 1..3
           /\ p[n].op \in {"await", "do", "kill"}
           /\ p[n].op = "await" => p[n].on \subseteq OffStates
           /\ p[n].op = "do" => p[n].to = "off"
           /\ \A i \in 1..n : /\ p[i].op = "kill" => i = n /\ b \in {"qemu", "avd"}
                              /\ p[i].op = "return" => p[i].on \subseteq Off /\ b # "qemu"
                              /\ p[i].op # "quiet"
           /\ b = "qemu" => n = 2 /\ p[1].op = "raise" /\ p[1].on = {"unknown"}
  <1> USE DEF StopOf, OffStates, Off, RaiseIf, ReturnIf, Look, Do, Try, Kill, Await
  <1>1. CASE b = "virtualbox"  BY <1>1 DEF VirtualBoxStop
  <1>2. CASE b = "libvirt"     BY <1>2 DEF LibVirtStop, LibVirtOff
  <1>3. CASE b = "xenserver"   BY <1>3 DEF XenStop, XenHalted
  <1>4. CASE b = "qemu"        BY <1>4 DEF QemuStop
  <1>5. CASE b = "avd"         BY <1>5 DEF AvdStop
  <1> QED BY <1>1, <1>2, <1>3, <1>4, <1>5 DEF Stoppers

(* QEMU kills only a child of this Cuckoo, which the step before makes sure of. *)
OffInv ==
    /\ StoppedIsOff
    /\ mpc = "analyse" => step = 1
    /\ mpc = "stop" /\ backend = "qemu" /\ step = 2 => process = "ours"

LEMMA GoKeepsOff ==
    ASSUME MachinesTypeOK, OffInv, Go, mpc \in {"init", "check", "start", "dump", "stop"},
           step <= Len(Program), backend' = backend,
           mpc = "stop" /\ backend \in Stoppers /\ step = Len(Program)
               => process' = "orphan" \/ power' \in OffStates,
           mpc = "stop" /\ backend = "qemu" /\ step = 1 => process' = "ours"
    PROVE  OffInv'
  <1>0. step \in 1..6
    BY DEF MachinesTypeOK
  <1>1. CASE step = Len(Program)
    <2>1. step' = 1 /\ (mpc' = "free" => mpc \in {"stop", "init", "check"})
      BY <1>1 DEF Go, Leave
    <2>2. mpc # "stop" => ~quiet'
      BY <1>1 DEF Go, Leave
    <2> QED BY <1>1, <2>1, <2>2 DEF OffInv, StoppedIsOff, Stoppers, OffStates
  <1>2. CASE step # Len(Program)
    <2>1. mpc' = mpc /\ step' = step + 1
      BY <1>2 DEF Go
    <2> QED BY <1>0, <2>1 DEF OffInv, StoppedIsOff
  <1> QED BY <1>1, <1>2

LEMMA LeaveKeepsOff ==
    ASSUME mpc \in {"init", "check", "start", "dump", "stop"}, NEW ok, Leave(ok),
           backend' = backend,
           mpc = "stop" /\ ok /\ backend \in Stoppers => power' \in OffStates
    PROVE  OffInv'
  <1>1. step' = 1 /\ mpc' \in {"free", "refused", "start", "analyse", "stop"}
    BY DEF Leave
  <1>2. quiet' => mpc = "stop" /\ ok
    BY DEF Leave
  <1> QED BY <1>1, <1>2 DEF OffInv, StoppedIsOff, Stoppers, OffStates

LEMMA OffStepInv == MachinesTypeOK /\ OffInv /\ [MachinesNext]_mvars => OffInv'
  <1> SUFFICES ASSUME MachinesTypeOK, OffInv, [MachinesNext]_mvars
               PROVE  OffInv'
    OBVIOUS
  <1>a. \A op \in {"raise", "return", "look", "require", "stopunless", "wake", "spawn", "try",
                    "quiet", "ever"} :
          mpc = "stop" /\ backend \in Stoppers /\ At(op) => step # Len(Program)
    BY StopSteps DEF At, Program
  <1>b. \A op \in {"return", "look", "require", "stopunless", "wake", "spawn", "do", "try",
                    "quiet", "ever", "kill", "await"} :
          mpc = "stop" /\ backend = "qemu" /\ At(op) => step # 1
    BY StopSteps DEF At, Program, Stoppers
  <1>c. mpc = "stop" /\ backend \in Stoppers => ~At("quiet")
    BY StopSteps DEF At, Program, MachinesTypeOK
  <1>d. mpc = "stop" /\ backend \in Stoppers /\ At("return")
          => Here.on \subseteq Off /\ backend # "qemu"
    BY StopSteps DEF At, Here, Program, MachinesTypeOK
  <1>1. CASE Hypervisor
    <2>1. UNCHANGED <<backend, process, mpc, step, quiet>>
      BY <1>1 DEF Hypervisor, PowerOn, PowerOff, Abort, AnalysisStays
    <2>2. power \in OffStates => power' = power
      BY <1>1 DEF Hypervisor, PowerOn, PowerOff, Abort, OffStates, Off
    <2> QED BY <2>1, <2>2 DEF OffInv, StoppedIsOff, OffStates
  <1>2. CASE Begin
    BY <1>2 DEF Begin, OffInv, StoppedIsOff
  <1>3. CASE Analysis
    BY <1>3 DEF Analysis, OffInv, StoppedIsOff
  <1>4. CASE CheckState
    <2>0. mpc \in {"init", "check", "start", "dump", "stop"} /\ step <= Len(Program)
          /\ UNCHANGED <<backend, power, process>>
      BY <1>4 DEF CheckState, At, MachineStays
    <2>1. CASE Go /\ ~(Seen \in Here.on)
      <3>1. mpc = "stop" /\ backend = "qemu" /\ step = 1 => process = "ours"
        BY <2>1, StopSteps DEF Here, Program, Seen, Stoppers
      <3>2. mpc = "stop" /\ backend \in Stoppers => step # Len(Program)
        BY <1>4, <1>a DEF CheckState
      <3> QED BY <2>0, <2>1, <3>1, <3>2, GoKeepsOff
    <2>2. CASE Leave(Here.op = "return") /\ Seen \in Here.on
      <3>1. ASSUME mpc = "stop", Here.op = "return", backend \in Stoppers
            PROVE  power \in OffStates
        <4>1. At("return")
          BY <1>4, <3>1 DEF CheckState, At, Here
        <4> QED BY <1>d, <2>2, <3>1, <4>1 DEF Seen, OffStates
      <3> QED BY <2>0, <2>2, <3>1, LeaveKeepsOff
    <2> QED BY <1>4, <2>1, <2>2 DEF CheckState
  <1>5. CASE Query
    <2>1. CASE Go
      BY <1>5, <1>a, <1>b, <2>1, GoKeepsOff DEF Query, At, MachineStays
    <2>2. CASE Leave(FALSE)
      BY <1>5, <2>2, LeaveKeepsOff DEF Query, At, MachineStays
    <2>3. CASE mpc' = "lost"
      BY <2>3 DEF OffInv, StoppedIsOff
    <2> QED BY <1>5, <2>1, <2>2, <2>3 DEF Query
  <1>6. CASE CheckConfig
    <2>1. CASE Go
      BY <1>6, <1>a, <1>b, <2>1, GoKeepsOff DEF CheckConfig, At, MachineStays
    <2>2. CASE Leave(FALSE)
      BY <1>6, <2>2, LeaveKeepsOff DEF CheckConfig, At, MachineStays
    <2> QED BY <1>6, <2>1, <2>2 DEF CheckConfig
  <1>7. CASE StopFound
    <2>1. CASE Go
      BY <1>7, <1>a, <1>b, <2>1, GoKeepsOff DEF StopFound, At, MachineStays
    <2>2. CASE mpc' = "check"
      BY <2>2 DEF OffInv, StoppedIsOff
    <2> QED BY <1>7, <2>1, <2>2 DEF StopFound
  <1>8. CASE WakeFound
    BY <1>8, <1>a, <1>b, GoKeepsOff DEF WakeFound, At
  <1>9. CASE Command
    <2>0. mpc \in {"init", "check", "start", "dump", "stop"} /\ step <= Len(Program)
          /\ UNCHANGED <<backend, process>> /\ (At("do") \/ At("try"))
      BY <1>9 DEF Command, At
    <2>1. CASE Leave(FALSE)
      BY <2>0, <2>1, LeaveKeepsOff
    <2>2. CASE Go /\ ~Leave(FALSE)
      <3>1. ASSUME mpc = "stop", backend \in Stoppers, step = Len(Program)
            PROVE  process' = "orphan" \/ power' \in OffStates
        <4>1. At("do") /\ Here.op = "do" /\ Here.to = "off"
          BY <1>a, <2>0, <3>1, StopSteps DEF At, Here, Program
        <4>2. process = "orphan" \/ power' = "off"
          BY <1>9, <2>2, <4>1 DEF Command
        <4> QED BY <2>0, <4>2 DEF OffStates, Off
      <3>2. mpc = "stop" /\ backend = "qemu" => step # 1
        BY <1>b, <2>0
      <3> QED BY <2>0, <2>2, <3>1, <3>2, GoKeepsOff
    <2> QED BY <1>9, <2>1, <2>2 DEF Command
  <1>10. CASE SpawnProcess
    <2>1. CASE Go
      BY <1>10, <1>a, <1>b, <2>1, GoKeepsOff DEF SpawnProcess, At
    <2>2. CASE Leave(FALSE)
      BY <1>10, <2>2, LeaveKeepsOff DEF SpawnProcess, At
    <2> QED BY <1>10, <2>1, <2>2 DEF SpawnProcess
  <1>11. CASE KillProcess
    <2>0. mpc \in {"init", "check", "start", "dump", "stop"} /\ step <= Len(Program)
          /\ UNCHANGED backend /\ Go /\ At("kill")
      BY <1>11 DEF KillProcess, At
    <2>1. ASSUME mpc = "stop", backend \in Stoppers, step = Len(Program)
          PROVE  process' = "orphan" \/ power' \in OffStates
      <3>1. CASE backend = "avd" \/ process = "ours"
        BY <1>11, <3>1 DEF KillProcess, OffStates, Off
      <3>2. CASE backend # "avd" /\ process # "ours"
        <4>1. Program = StopOf[backend]
          BY <2>1 DEF Program
        <4>a. StopOf[backend][step].op = "kill"
          BY <2>0, <4>1 DEF At
        <4>b. step = Len(StopOf[backend]) /\ Len(StopOf[backend]) \in 1..3
          BY <2>1, <4>1, StopSteps
        <4>2. step \in 1..Len(StopOf[backend]) /\ StopOf[backend][step].op = "kill"
          <5> DEFINE n == Len(StopOf[backend])
          <5>1. n \in 1..3 /\ step = n
            BY <4>b
          <5> HIDE DEF n
          <5>2. step \in 1..n
            BY <5>1
          <5> QED BY <4>a, <5>2 DEF n
        <4>3. backend \in {"qemu", "avd"}
          BY <2>1, <4>2, StopSteps
        <4>4. backend = "qemu"
          BY <3>2, <4>3
        <4>5. step = 2
          BY <2>1, <4>1, <4>4, StopSteps
        <4> QED BY <2>1, <3>2, <4>4, <4>5 DEF OffInv
      <3> QED BY <3>1, <3>2
    <2>2. mpc = "stop" /\ backend = "qemu" => step # 1
      BY <1>b, <2>0
    <2> QED BY <2>0, <2>1, <2>2, GoKeepsOff
  <1>12. CASE Wait
    <2>0. mpc \in {"init", "check", "start", "dump", "stop"} /\ step <= Len(Program)
          /\ UNCHANGED <<backend, power, process>> /\ (At("await") \/ At("quiet"))
      BY <1>12 DEF Wait, At, MachineStays
    <2>1. CASE Go /\ power \in Here.on
      <3>1. ASSUME mpc = "stop", backend \in Stoppers, step = Len(Program)
            PROVE  power' \in OffStates
        BY <1>c, <2>0, <2>1, <3>1, StopSteps DEF At, Here, Program
      <3>2. mpc = "stop" /\ backend = "qemu" => step # 1
        BY <1>b, <2>0
      <3> QED BY <2>0, <2>1, <3>1, <3>2, GoKeepsOff
    <2>2. CASE Leave(Here.op = "quiet")
      <3>1. mpc = "stop" /\ backend \in Stoppers => Here.op # "quiet"
        BY <1>c, <2>0 DEF At, Here
      <3> QED BY <2>0, <2>2, <3>1, LeaveKeepsOff
    <2>3. CASE UNCHANGED <<mpc, step, quiet>>
      BY <2>0, <2>3 DEF OffInv, StoppedIsOff
    <2> QED BY <1>12, <2>1, <2>2, <2>3 DEF Wait
  <1>13. CASE WaitDevice
    BY <1>13, <1>a, <1>b, GoKeepsOff DEF WaitDevice, At, MachineStays
  <1>14. CASE UNCHANGED mvars
    BY <1>14 DEF mvars, OffInv, StoppedIsOff
  <1> QED
    BY <1>1, <1>2, <1>3, <1>4, <1>5, <1>6, <1>7, <1>8, <1>9, <1>10, <1>11, <1>12, <1>13, <1>14
       DEF MachinesNext, ModuleStep

(* A stop that did not raise leaves the machine off, for the modules that can know. *)
THEOREM StopMeansOff == MachinesSpec => []StoppedIsOff
  <1>1. MachinesInit => OffInv
    BY DEF MachinesInit, OffInv, StoppedIsOff
  <1>2. OffInv => StoppedIsOff
    BY DEF OffInv
  <1> QED BY <1>1, <1>2, OffStepInv, TypesKept, PTL DEF MachinesSpec

-----------------------------------------------------------------------------
(* The rooter *)

(* A rooter nobody has asked yet. *)
LEMMA RooterTypeInit == RooterInit => RooterTypeOK
  <1> SUFFICES ASSUME RooterInit PROVE RooterTypeOK
    OBVIOUS
  <1>1. << >> \in Seq(Entries) /\ << >> \in Seq(Commands)
    OBVIOUS
  <1>2. todo \in [Callers -> Seq(Commands)] /\ asked \in Seq(Entries)
    BY <1>1 DEF RooterInit
  <1>3. stage \in [Callers -> Stages]
    BY DEF RooterInit, Starts, Stages
  <1>4. /\ answer \in [Callers -> {"none", "yes", "no"}]
        /\ cpc \in [Callers -> {"idle", "send", "recv"}]
    BY DEF RooterInit, Starts
  <1>5. runs \in [Guests -> 0..MaxRuns] /\ mishaps \in 0..MaxMishaps
    BY RooterAssumption DEF RooterInit
  <1> QED
    BY <1>2, <1>3, <1>4, <1>5 DEF RooterInit, RooterTypeOK

(* Sequences, element by element *)
LEMMA SeqTail ==
  ASSUME NEW S, NEW q \in Seq(S), q # << >>
  PROVE  /\ Tail(q) \in Seq(S) /\ Head(q) \in S /\ Len(q) \in Nat /\ Len(q) >= 1
         /\ Len(Tail(q)) = Len(q) - 1 /\ Head(q) = q[1]
         /\ \A k \in 1..Len(q) - 1 : Tail(q)[k] = q[k + 1]
  OBVIOUS

(* The seven commands of a start-up *)
LEMMA InitCommandsType ==
  /\ InitCommands \in Seq(Commands) /\ Len(InitCommands) = 7
  /\ \A k \in 1..7 : InitCommands[k] = RootCommand(InitNames[k], Nobody)
  <1>1. Len(InitNames) = 7 /\ DOMAIN InitNames = 1..7
    BY DEF InitNames
  <1>2. \A k \in 1..7 : InitNames[k] \in {"forward_drop", "nic_available", "rt_available",
           "disable_nat", "enable_nat", "flush_rttable", "init_rttable"}
    BY DEF InitNames
  <1>3. \A k \in 1..7 : RootCommand(InitNames[k], Nobody) \in Commands
    BY <1>2 DEF RootCommand, Commands
  <1>4. InitCommands = [k \in 1..7 |-> RootCommand(InitNames[k], Nobody)]
    BY <1>1 DEF InitCommands
  <1> QED
    BY <1>3, <1>4

(* What a new Cuckoo drops are forward_disable commands. *)
LEMMA DropsType ==
  ASSUME NEW drops \in Dropped
  PROVE  drops \in Seq(Commands) /\ \A k \in 1..Len(drops) : \E g \in Guests :
          drops[k] = RootCommand("forward_disable", g)
  <1>1. CASE named
    <2>1. PICK q \in Drops : drops = [i \in DOMAIN q |-> RootCommand("forward_disable", q[i])]
      BY <1>1 DEF Dropped
    <2>2. Cardinality(Guests) \in Nat
      BY RooterAssumption, FS_CardinalityType
    <2>3. q \in [1..Cardinality(Guests) -> Guests]
      BY DEF Drops
    <2>4. \A k \in 1..Cardinality(Guests) : RootCommand("forward_disable", q[k]) \in Commands
      BY <2>3 DEF RootCommand, Commands
    <2> QED
      BY <2>1, <2>2, <2>3, <2>4
  <1>2. CASE ~named
    BY <1>2 DEF Dropped
  <1> QED
    BY <1>1, <1>2

(* Types are kept, given that whoever is in rooter() has a command to give. *)
LEMMA RooterTypeStep ==
  ASSUME RooterTypeOK, \A c \in Callers : cpc[c] # "idle" => Calling(c), [RooterNext]_rvars
  PROVE  RooterTypeOK'
  <1> USE DEF RooterTypeOK, tables, bounds
  <1>0. Callers = Guests \cup {Main} /\ Main \in Callers /\ Guests \subseteq Callers
    BY DEF Callers
  <1>a. \A g \in Guests, n \in {"forward_enable", "forward_disable", "srcroute_enable",
                  "srcroute_disable"} : RootCommand(n, g) \in Commands
    BY DEF RootCommand, Commands
  <1>b. RootCommand("nic_available", Nobody) \in Commands
    BY DEF RootCommand, Commands
  <1>c. \A c \in Callers : cpc[c] \in {"send", "recv"} => Calling(c)
    OBVIOUS
  <1>d. << >> \in Seq(Commands)
    OBVIOUS
  <1>1. ASSUME NEW c \in Callers, NoSocket(c) PROVE RooterTypeOK'
    <2>1. Calling(c) => Tail(todo[c]) \in Seq(Commands)
      BY <1>0, SeqTail DEF Calling
    <2>2. todo' \in [Callers -> Seq(Commands)]
      BY <1>0, <1>1, <2>1 DEF NoSocket, Return, Calling
    <2> QED
      BY <1>0, <1>1, <2>2 DEF NoSocket, Return
  <1>2. ASSUME NEW c \in Callers, Lock(c) PROVE RooterTypeOK'
    BY <1>2, <1>0 DEF Lock, Calling
  <1>3. ASSUME NEW c \in Callers, Refused(c) PROVE RooterTypeOK'
    <2>1. Calling(c) => Tail(todo[c]) \in Seq(Commands)
      BY <1>0, SeqTail DEF Calling
    <2>2. todo' \in [Callers -> Seq(Commands)]
      BY <1>0, <1>3, <2>1 DEF Refused, Return, Calling
    <2> QED
      BY <1>0, <1>3, <2>2 DEF Refused, Return
  <1>4. ASSUME NEW c \in Callers, Send(c) PROVE RooterTypeOK'
    <2>1. Head(todo[c]) \in Commands
      BY <1>0, <1>c, <1>4, SeqTail DEF Send, Calling
    <2>2. [from |-> c, command |-> Head(todo[c])] \in Entries
      BY <1>4, <2>1 DEF Entries
    <2>3. asked' \in Seq(Entries)
      BY <1>4, <2>2 DEF Send
    <2> QED
      BY <1>4, <2>3 DEF Send
  <1>5. ASSUME NEW c \in Callers, Receive(c) PROVE RooterTypeOK'
    <2>1. Calling(c) => Tail(todo[c]) \in Seq(Commands)
      BY <1>0, SeqTail DEF Calling
    <2>2. todo' \in [Callers -> Seq(Commands)]
      BY <1>0, <1>5, <2>1 DEF Receive, Return, Calling
    <2> QED
      BY <1>0, <1>5, <2>2 DEF Receive, Return
  <1>6. ASSUME NEW g \in Guests, Route(g) PROVE RooterTypeOK'
    <2>1. PICK i, r \in BOOLEAN :
           /\ interface' = [interface EXCEPT ![g] = i] /\ rtable' = [rtable EXCEPT ![g] = r]
           /\ stage' = [stage EXCEPT ![g] = IF i THEN "probe" ELSE "analyse"]
           /\ todo' = [todo EXCEPT ![g] = IF i THEN <<RootCommand("nic_available",
                   Nobody)>> ELSE << >>]
      BY <1>6 DEF Route
    <2>2. (IF i THEN <<RootCommand("nic_available", Nobody)>> ELSE << >>) \in Seq(Commands)
      BY <1>b, <1>d
    <2>3. todo' \in [Callers -> Seq(Commands)]
      BY <1>0, <2>1, <2>2
    <2>4. runs' \in [Guests -> 0..MaxRuns]
      BY <1>6, RooterAssumption DEF Route
    <2> QED
      BY <1>0, <1>6, <2>1, <2>3, <2>4 DEF Stages, Route
  <1>7. ASSUME NEW g \in Guests, Probed(g) PROVE RooterTypeOK'
    <2>1. Enabling(g) \in Seq(Commands)
      <3>1. /\ <<RootCommand("forward_enable", g)>> \in Seq(Commands)
            /\ <<RootCommand("srcroute_enable", g)>> \in Seq(Commands)
        BY <1>a
      <3> QED
        BY <1>d, <3>1 DEF Enabling
    <2>2. todo' \in [Callers -> Seq(Commands)]
      BY <1>0, <1>7, <2>1 DEF Probed
    <2> QED
      BY <1>0, <1>7, <2>2 DEF Stages, Probed, Ready, NextCall
  <1>8. ASSUME NEW g \in Guests, Enabled(g) PROVE RooterTypeOK'
    BY <1>8, <1>0 DEF Enabled, Ready, NextCall, Stages
  <1>9. ASSUME NEW g \in Guests, Unroute(g) PROVE RooterTypeOK'
    <2>1. Disabling(g) \in Seq(Commands)
      <3>1. /\ <<RootCommand("forward_disable", g)>> \in Seq(Commands)
            /\ <<RootCommand("srcroute_disable", g)>> \in Seq(Commands)
        BY <1>a
      <3> QED
        BY <1>d, <3>1 DEF Disabling
    <2>2. todo' \in [Callers -> Seq(Commands)]
      BY <1>0, <1>9, <2>1 DEF Unroute
    <2> QED
      BY <1>0, <1>9, <2>2 DEF Stages, Unroute
  <1>10. ASSUME NEW g \in Guests, Disabled(g) PROVE RooterTypeOK'
    BY <1>10, <1>0 DEF Disabled, Ready, NextCall, Stages
  <1>11. ASSUME Serve PROVE RooterTypeOK'
    <2>1. /\ Head(asked).from \in Callers \cup {Nobody} /\ Tail(asked) \in Seq(Entries)
      <3>1. Head(asked) \in Entries /\ Tail(asked) \in Seq(Entries)
        BY <1>11, SeqTail DEF Serve
      <3> QED
        BY <3>1 DEF Entries
    <2>2. << >> \in Seq(Entries)
      OBVIOUS
    <2>3. asked' \in Seq(Entries)
      BY <1>11, <2>1, <2>2 DEF Serve
    <2>4. /\ forward' \in [Guests -> Nat] /\ srcroute' \in [Guests -> Nat]
          /\ nat' \in Nat /\ policy' \in {"ACCEPT", "DROP"}
      <3>1. \A n \in Nat : Less(n) \in Nat
        BY DEF Less
      <3>2. \A command, enable, disable : \A rules \in [Guests -> Nat] :
               Changed(rules, command, enable, disable) \in [Guests -> Nat]
        BY <3>1 DEF Changed
      <3>3. UNCHANGED tables \/ Served(Head(asked).command)
        BY <1>11 DEF Serve
      <3>4. CASE Served(Head(asked).command)
        <4>1. forward' \in [Guests -> Nat] /\ srcroute' \in [Guests -> Nat]
          BY <3>2, <3>4 DEF Served
        <4>2. nat' \in {nat, nat + 1, Less(nat)} /\ policy' \in {policy, "DROP"}
          BY <3>4 DEF Served
        <4>3. nat' \in Nat
          <5>1. nat \in Nat
            BY <1>0
          <5> HIDE DEF RooterTypeOK
          <5>2. nat + 1 \in Nat
            BY <5>1
          <5>3. Less(nat) \in Nat
            BY <3>1, <5>1, Zenon
          <5> QED
            BY <4>2, <5>1, <5>2, <5>3, Zenon
        <4>4. policy' \in {"ACCEPT", "DROP"}
          BY <4>2
        <4> QED
          BY <4>1, <4>3, <4>4
      <3> QED
        BY <3>3, <3>4
    <2>5. answer' \in [Callers -> {"none", "yes", "no"}]
      BY <1>11, <2>1 DEF Serve
    <2>6. server' \in {"up", "down", "absent"} /\ outage' \in BOOLEAN
      BY <1>11 DEF Serve
    <2> QED
      BY <1>11, <2>3, <2>4, <2>5, <2>6 DEF Serve
  <1>12. ASSUME InitRooter PROVE RooterTypeOK'
    <2>1. todo' \in [Callers -> Seq(Commands)]
      BY <1>0, <1>12, InitCommandsType DEF InitRooter
    <2> QED
      BY <1>0, <1>12, <2>1 DEF Stages, InitRooter
  <1>13. ASSUME InitStep PROVE RooterTypeOK'
    <2>1. todo' \in [Callers -> Seq(Commands)]
      <3>1. \A drops \in Dropped : drops \in Seq(Commands)
        BY DropsType
      <3>2. todo' = todo \/ \E drops \in Dropped : todo' = [todo EXCEPT ![Main] = drops]
        BY <1>13 DEF InitStep
      <3> QED
        BY <1>0, <3>1, <3>2
    <2>2. stage' \in [Callers -> Stages]
      <3>1. \/ stage' = stage \/ stage' = [c \in Callers |-> "free"]
            \/ stage' = [stage EXCEPT ![Main] = "failed"]
            \/ stage' = [stage EXCEPT ![Main] = "drop"]
        BY <1>13 DEF InitStep
      <3> QED
        BY <1>0, <3>1 DEF Stages
    <2> QED
      BY <1>0, <1>13, <2>1, <2>2 DEF InitStep, NextCall
  <1>14. ASSUME DropStep PROVE RooterTypeOK'
    BY <1>14, <1>0 DEF DropStep, Ready, NextCall, Stages
  <1>15. ASSUME NicChanges PROVE RooterTypeOK'
    BY <1>15, <1>0 DEF NicChanges
  <1>16. ASSUME ServerDies PROVE RooterTypeOK'
    BY <1>16, <1>0, RooterAssumption DEF ServerDies, Mishap
  <1>17. ASSUME ServerStarts PROVE RooterTypeOK'
    BY <1>17, <1>0 DEF ServerStarts
  <1>18. ASSUME CuckooStarts PROVE RooterTypeOK'
    <2>1. \A i \in 1..Len(asked) : [asked[i] EXCEPT !.from = Nobody] \in Entries
      <3>1. \A i \in 1..Len(asked) : asked[i] \in Entries
        OBVIOUS
      <3> QED
        BY <3>1 DEF Entries
    <2>a. DOMAIN asked = 1..Len(asked) /\ Len(asked) \in Nat
      OBVIOUS
    <2>2. asked' \in Seq(Entries)
      BY <1>18, <2>1, <2>a DEF CuckooStarts
    <2>3. todo' \in [Callers -> Seq(Commands)]
      BY <1>18, <1>d DEF CuckooStarts
    <2>4. /\ answer' \in [Callers -> {"none", "yes", "no"}]
          /\ cpc' \in [Callers -> {"idle", "send", "recv"}]
          /\ stage' \in [Callers -> Stages]
      BY <1>18 DEF CuckooStarts, Starts, Stages
    <2>5. lock' \in Callers \cup {Nobody} /\ interface' \in [Guests -> BOOLEAN]
            /\ rtable' \in [Guests -> BOOLEAN]
      BY <1>18 DEF CuckooStarts
    <2>6. mishaps' \in 0..MaxMishaps
      BY <1>18, RooterAssumption DEF CuckooStarts, Mishap
    <2> QED
      BY <1>18, <2>2, <2>3, <2>4, <2>5, <2>6 DEF CuckooStarts
  <1>19. CASE UNCHANGED rvars
    BY <1>19, <1>0 DEF rvars, tables, bounds
  <1> QED
    BY <1>1, <1>2, <1>3, <1>4, <1>5, <1>6, <1>7, <1>8, <1>9, <1>10, <1>11, <1>12, <1>13,
       <1>14, <1>15, <1>16, <1>17, <1>18, <1>19 DEF RooterNext, Call, Thread

FE(g) == RootCommand("forward_enable", g)
FD(g) == RootCommand("forward_disable", g)
SE(g) == RootCommand("srcroute_enable", g)
SD(g) == RootCommand("srcroute_disable", g)

(* A caller that has its answer, but has not received it; what a caller has still
   to give to the server. *)
Told(c) == cpc[c] = "recv" /\ answer[c] # "none"
Left(c) == IF Told(c) THEN Tail(todo[c]) ELSE todo[c]
Asks(c) == \E i \in DOMAIN asked : asked[i].from = c

(* No caller gets an answer any more: the one with the lock does not release it. *)
Blocked == /\ lock # Nobody
           /\ \/ cpc[lock] = "idle"
              \/ cpc[lock] = "recv" /\ answer[lock] = "none" /\ ~Asks(lock)

(* Only the caller with the lock is in rooter(), and only its command is in the
   socket, behind those of a Cuckoo that was killed. *)
CallInv ==
    /\ \A c \in Callers : cpc[c] # "idle" => lock = c /\ Calling(c)
    /\ \A c \in Callers : cpc[c] = "send" => answer[c] = "none"
    /\ \A c \in Callers : Told(c) => asked = << >> /\ ~Malformed(Head(todo[c]))

LiveInv ==
    \A i \in DOMAIN asked : asked[i].from # Nobody =>
       /\ i = Len(asked) /\ cpc[asked[i].from] = "recv" /\ answer[asked[i].from] = "none"
       /\ asked[i].command = Head(todo[asked[i].from])

(* The threads wait until the main thread has set the routing up. *)
StageInv ==
    /\ stage[Main] \in {"connect", "init", "drop", "failed", "free"}
    /\ stage[Main] # "free" =>
          \A g \in Guests : /\ stage[g] = "wait" /\ ~interface[g] /\ ~rtable[g]
                            /\ answer[g] = "none"
    /\ stage[Main] = "free" =>
          \A g \in Guests : stage[g] \in {"free", "probe", "enable", "analyse", "disable"}
    /\ stage[Main] = "connect" => lock = Nobody /\ answer[Main] = "none"
    /\ \A g \in Guests : rtable[g] => interface[g]
    /\ stage[Main] = "free" => answer[Main] = "none"

(* The main thread is no analysis thread. *)
LEMMA Constants ==
  /\ Callers = Guests \cup {Main} /\ Main \in Callers /\ Guests \subseteq Callers
  /\ Main \notin Guests /\ Nobody \notin Callers
  BY RooterAssumption DEF Callers

(* A socket with something in it *)
LEMMA Queue ==
  ASSUME RooterTypeOK, asked # << >>
  PROVE  /\ Head(asked) = asked[1] /\ Head(asked) \in Entries
         /\ Head(asked).from \in Callers \cup {Nobody} /\ Head(asked).command \in Commands
         /\ Len(asked) \in Nat /\ Len(asked) >= 1 /\ DOMAIN asked = 1..Len(asked)
         /\ Tail(asked) \in Seq(Entries) /\ Len(Tail(asked)) = Len(asked) - 1
         /\ \A i \in DOMAIN Tail(asked) : /\ i + 1 \in DOMAIN asked /\ i \in 1..Len(asked) - 1
                                          /\ Tail(asked)[i] = asked[i + 1]
  <1>1. asked \in Seq(Entries)
    BY DEF RooterTypeOK
  <1>2. Head(asked) \in Entries /\ Tail(asked) \in Seq(Entries)
    BY <1>1, SeqTail
  <1>3. \A i \in DOMAIN Tail(asked) : /\ i + 1 \in DOMAIN asked /\ i \in 1..Len(asked) - 1
                                          /\ Tail(asked)[i] = asked[i + 1]
    BY <1>1, SeqTail
  <1> QED
    BY <1>1, <1>2, <1>3, SeqTail DEF Entries

(* What the server does: it drops a command it cannot parse, it dies of the answer
   to a Cuckoo that was killed, or it answers the one caller that waits. *)
LEMMA ServeCases ==
  ASSUME RooterTypeOK, CallInv, LiveInv, Serve
  PROVE  /\ asked # << >> /\ server = "up"
         /\ UNCHANGED <<lock, todo, cpc, stage, interface, rtable, nic, named, bounds>>
         /\ \/ /\ Malformed(Head(asked).command) /\ asked' = Tail(asked)
               /\ UNCHANGED <<tables, answer, server, outage>>
            \/ /\ ~Malformed(Head(asked).command) /\ Head(asked).from = Nobody
               /\ Served(Head(asked).command)
               /\ server' = "down" /\ asked' = << >> /\ outage' = TRUE /\ UNCHANGED answer
            \/ \E c \in Callers :
                  /\ ~Malformed(Head(asked).command) /\ Head(asked).from = c /\ Len(asked) = 1
                  /\ cpc[c] = "recv" /\ lock = c /\ answer[c] = "none" /\ Calling(c)
                  /\ Head(asked).command = Head(todo[c]) /\ Served(Head(todo[c]))
                  /\ asked' = << >> /\ UNCHANGED <<server, outage>>
                  /\ answer' \in {[answer EXCEPT ![c] = "yes"], [answer EXCEPT ![c] = "no"]}
  <1>1. asked # << >> /\ server = "up"
    BY DEF Serve
  <1>2. Head(asked) = asked[1] /\ 1 \in DOMAIN asked /\ Head(asked).from \in Callers \cup {Nobody}
    BY <1>1, Queue
  <1>3. CASE Malformed(Head(asked).command)
    BY <1>1, <1>3 DEF Serve
  <1>4. CASE ~Malformed(Head(asked).command) /\ Head(asked).from = Nobody
    BY <1>1, <1>4 DEF Serve
  <1>5. CASE ~Malformed(Head(asked).command) /\ Head(asked).from # Nobody
    <2>1. /\ Head(asked).from \in Callers /\ Len(asked) = 1
          /\ cpc[Head(asked).from] = "recv" /\ answer[Head(asked).from] = "none"
          /\ Head(asked).command = Head(todo[Head(asked).from])
      BY <1>2, <1>5 DEF LiveInv
    <2>2. lock = Head(asked).from /\ Calling(Head(asked).from)
      BY <2>1 DEF CallInv
    <2>3. asked' = << >>
      <3>1. asked' = Tail(asked) /\ Len(Tail(asked)) = 0 /\ Tail(asked) \in Seq(Entries)
        BY <1>1, <1>5, <2>1, Queue DEF Serve
      <3> QED
        BY <3>1
    <2>4. answer' \in {[answer EXCEPT ![Head(asked).from] = "yes"],
            [answer EXCEPT ![Head(asked).from] = "no"]}
      BY <1>5 DEF Serve
    <2>5. /\ Served(Head(asked).command) /\ UNCHANGED <<server, outage>>
          /\ UNCHANGED <<lock, todo, cpc, stage, interface, rtable, nic, named, bounds>>
      BY <1>5 DEF Serve
    <2> QED
      BY <1>1, <1>5, <2>1, <2>2, <2>3, <2>4, <2>5
  <1> QED
    BY <1>3, <1>4, <1>5

(* One step per action: the threads wait for the main thread, and a thread with a
   routing table has an interface. *)
LEMMA StageStep ==
  ASSUME RooterTypeOK, CallInv, LiveInv, StageInv, [RooterNext]_rvars
  PROVE  StageInv'
  <1> USE DEF RooterTypeOK, tables, bounds, StageInv, Stages
  <1>0. Callers = Guests \cup {Main} /\ Main \in Callers /\ Guests \subseteq Callers
          /\ Main \notin Guests
    BY Constants
  <1>1. ASSUME NEW c \in Callers, NoSocket(c) PROVE StageInv'
    BY <1>1, <1>0 DEF NoSocket, Return, Calling, CallInv
  <1>2. ASSUME NEW c \in Callers, Lock(c) PROVE StageInv'
    BY <1>2, <1>0 DEF Lock, Calling, CallInv
  <1>3. ASSUME NEW c \in Callers, Refused(c) PROVE StageInv'
    BY <1>3, <1>0 DEF Refused, Return, CallInv, Calling
  <1>4. ASSUME NEW c \in Callers, Send(c) PROVE StageInv'
    BY <1>4, <1>0 DEF Send, CallInv
  <1>5. ASSUME NEW c \in Callers, Receive(c) PROVE StageInv'
    BY <1>5, <1>0 DEF Receive, CallInv
  <1>6. ASSUME NEW g \in Guests, Route(g) PROVE StageInv'
    BY <1>6, <1>0 DEF Route, CallInv
  <1>7. ASSUME NEW g \in Guests, Probed(g) PROVE StageInv'
    <2>1. stage[Main] = "free" /\ lock' = lock
      BY <1>0, <1>7 DEF Probed
    <2>2. stage' \in {[stage EXCEPT ![g] = "enable"], [stage EXCEPT ![g] = "analyse"]}
      BY <1>7 DEF Probed
    <2>3. answer' = [answer EXCEPT ![g] = "none"]
      BY <1>7 DEF Probed, NextCall
    <2>4. \/ interface' = interface /\ rtable' = rtable
          \/ /\ interface' = [interface EXCEPT ![g] = FALSE]
             /\ rtable' = [rtable EXCEPT ![g] = FALSE]
      BY <1>7 DEF Probed
    <2>5. interface \in [Guests -> BOOLEAN] /\ rtable \in [Guests -> BOOLEAN]
            /\ \A h \in Guests : rtable[h] => interface[h]
      OBVIOUS
    <2>6. \A h \in Guests : rtable'[h] => interface'[h]
      BY <2>4, <2>5
    <2>7. stage'[Main] = "free" /\ answer'[Main] = "none"
      BY <1>0, <2>1, <2>2, <2>3
    <2>8. \A h \in Guests : stage'[h] \in {"free", "probe", "enable", "analyse", "disable"}
      BY <1>0, <2>1, <2>2
    <2> QED
      BY <2>6, <2>7, <2>8
  <1>8. ASSUME NEW g \in Guests, Enabled(g) PROVE StageInv'
    BY <1>8, <1>0 DEF Enabled, Ready, NextCall, CallInv
  <1>9. ASSUME NEW g \in Guests, Unroute(g) PROVE StageInv'
    BY <1>9, <1>0 DEF Unroute, Disabling, CallInv
  <1>10. ASSUME NEW g \in Guests, Disabled(g) PROVE StageInv'
    BY <1>10, <1>0 DEF Disabled, Ready, NextCall, CallInv
  <1>11. ASSUME Serve PROVE StageInv'
    <2>1. UNCHANGED <<stage, interface, rtable, lock>>
      BY <1>11 DEF Serve
    <2>2. \A c \in Callers : answer'[c] = answer[c] \/ Calling(c)
      BY <1>11, ServeCases
    <2> QED
      BY <1>0, <2>1, <2>2 DEF Calling
  <1>12. ASSUME InitRooter PROVE StageInv'
    BY <1>12, <1>0 DEF InitRooter, CallInv
  <1>13. ASSUME InitStep PROVE StageInv'
    BY <1>13, <1>0 DEF InitStep, Ready, NextCall, CallInv
  <1>14. ASSUME DropStep PROVE StageInv'
    BY <1>14, <1>0 DEF DropStep, Ready, NextCall, CallInv
  <1>15. ASSUME NicChanges PROVE StageInv'
    BY <1>15, <1>0 DEF NicChanges, CallInv
  <1>16. ASSUME ServerDies PROVE StageInv'
    BY <1>16, <1>0 DEF ServerDies, Mishap, CallInv
  <1>17. ASSUME ServerStarts PROVE StageInv'
    BY <1>17, <1>0 DEF ServerStarts, CallInv
  <1>18. ASSUME CuckooStarts PROVE StageInv'
    BY <1>18, <1>0 DEF CuckooStarts, Mishap, Starts, CallInv
  <1>19. CASE UNCHANGED rvars
    BY <1>19, <1>0 DEF rvars, tables, bounds, CallInv
  <1> QED
    BY <1>1, <1>2, <1>3, <1>4, <1>5, <1>6, <1>7, <1>8, <1>9, <1>10, <1>11, <1>12, <1>13,
       <1>14, <1>15, <1>16, <1>17, <1>18, <1>19 DEF RooterNext, Call, Thread

(* What a caller does that is not in rooter() leaves the others in it. *)
LEMMA CallFrame ==
  ASSUME CallInv, NEW c \in Callers, cpc[c] = "idle", UNCHANGED <<lock, asked, named, cpc>>,
         \A d \in Callers : d # c => UNCHANGED <<answer[d], todo[d]>>,
         \A d \in Callers : d # c => (Calling(d) => Calling(d)')
  PROVE  CallInv'
  BY DEF Malformed, CallInv, Told

(* One step per action: only the caller with the lock is in rooter(). *)
LEMMA CallStep ==
  ASSUME RooterTypeOK, CallInv, LiveInv, StageInv, [RooterNext]_rvars
  PROVE  CallInv'
  <1> USE DEF RooterTypeOK, tables, bounds, CallInv, Told
  <1>0. Callers = Guests \cup {Main} /\ Main \in Callers /\ Guests \subseteq Callers
          /\ Main \notin Guests
    BY Constants
  <1>a. \A c \in Callers : todo[c] \in Seq(Commands)
    OBVIOUS
  <1>c. \A c \in Callers : stage[c] \notin {"init", "drop", "probe", "enable", "disable"} =>
          cpc[c] = "idle"
    BY DEF Calling
  <1>1. ASSUME NEW c \in Callers, NoSocket(c) PROVE CallInv'
    BY <1>1, <1>0 DEF NoSocket, Return, Calling, Calling, Malformed
  <1>2. ASSUME NEW c \in Callers, Lock(c) PROVE CallInv'
    <2>1. todo' = todo /\ named' = named /\ asked' = asked /\ answer' = answer /\ stage' = stage
      BY <1>2 DEF Lock
    <2>2. lock = Nobody /\ lock' = c /\ cpc' = [cpc EXCEPT ![c] = "send"] /\ Calling(c)
            /\ answer[c] = "none"
      BY <1>2 DEF Lock
    <2>3. \A d \in Callers : cpc[d] = "idle"
      BY <1>0, <2>2, Constants
    <2>4. \A d \in Callers : Calling(d)' = Calling(d)
      BY <2>1 DEF Calling
    <2> QED
      BY <1>0, <2>1, <2>2, <2>3, <2>4
  <1>3. ASSUME NEW c \in Callers, Refused(c) PROVE CallInv'
    BY <1>3, <1>0 DEF Refused, Return, Calling, Malformed
  <1>4. ASSUME NEW c \in Callers, Send(c) PROVE CallInv'
    <2>1. UNCHANGED <<lock, todo, stage, named, answer>> /\ cpc' = [cpc EXCEPT ![c] = "recv"]
      BY <1>4 DEF Send
    <2>2. cpc[c] = "send" /\ lock = c /\ answer[c] = "none" /\ \A d \in Callers : d # c =>
            cpc[d] = "idle"
      BY <1>4 DEF Send
    <2>3. \A d \in Callers : Calling(d)' = Calling(d)
      BY <2>1 DEF Calling
    <2> QED
      BY <1>0, <2>1, <2>2, <2>3
  <1>5. ASSUME NEW c \in Callers, Receive(c) PROVE CallInv'
    BY <1>5, <1>0 DEF Receive, Calling, Malformed
  <1>6. ASSUME NEW g \in Guests, Route(g) PROVE CallInv'
    <2>1. UNCHANGED <<lock, asked, named, cpc>> /\ cpc[g] = "idle" /\ g \in Callers
      BY <1>0, <1>c, <1>6 DEF Route
    <2>2. \A d \in Callers : d # g => UNCHANGED <<answer[d], todo[d], stage[d]>>
      BY <1>0, <1>6 DEF Route, NextCall
    <2>3. \A d \in Callers : d # g => (Calling(d) => Calling(d)')
      BY <2>2 DEF Calling
    <2> QED
      BY CallFrame, <2>1, <2>2, <2>3
  <1>7. ASSUME NEW g \in Guests, Probed(g) PROVE CallInv'
    <2>1. UNCHANGED <<lock, asked, named, cpc>> /\ cpc[g] = "idle" /\ g \in Callers
      BY <1>0, <1>c, <1>7 DEF Probed, Ready
    <2>2. \A d \in Callers : d # g => UNCHANGED <<answer[d], todo[d], stage[d]>>
      BY <1>0, <1>7 DEF Probed, NextCall
    <2>3. \A d \in Callers : d # g => (Calling(d) => Calling(d)')
      BY <2>2 DEF Calling
    <2> QED
      BY CallFrame, <2>1, <2>2, <2>3
  <1>8. ASSUME NEW g \in Guests, Enabled(g) PROVE CallInv'
    <2>1. UNCHANGED <<lock, asked, named, cpc>> /\ cpc[g] = "idle" /\ g \in Callers
      BY <1>0, <1>c, <1>8 DEF Enabled, Ready
    <2>2. \A d \in Callers : d # g => UNCHANGED <<answer[d], todo[d], stage[d]>>
      BY <1>0, <1>8 DEF Enabled, NextCall
    <2>3. \A d \in Callers : d # g => (Calling(d) => Calling(d)')
      BY <2>2 DEF Calling
    <2> QED
      BY CallFrame, <2>1, <2>2, <2>3
  <1>9. ASSUME NEW g \in Guests, Unroute(g) PROVE CallInv'
    <2>1. UNCHANGED <<lock, asked, named, cpc>> /\ cpc[g] = "idle" /\ g \in Callers
      BY <1>0, <1>c, <1>9 DEF Unroute
    <2>2. \A d \in Callers : d # g => UNCHANGED <<answer[d], todo[d], stage[d]>>
      BY <1>0, <1>9 DEF Unroute, NextCall
    <2>3. \A d \in Callers : d # g => (Calling(d) => Calling(d)')
      BY <2>2 DEF Calling
    <2> QED
      BY CallFrame, <2>1, <2>2, <2>3
  <1>10. ASSUME NEW g \in Guests, Disabled(g) PROVE CallInv'
    <2>1. UNCHANGED <<lock, asked, named, cpc>> /\ cpc[g] = "idle" /\ g \in Callers
      BY <1>0, <1>c, <1>10 DEF Disabled, Ready
    <2>2. \A d \in Callers : d # g => UNCHANGED <<answer[d], todo[d], stage[d]>>
      BY <1>0, <1>10 DEF Disabled, NextCall
    <2>3. \A d \in Callers : d # g => (Calling(d) => Calling(d)')
      BY <2>2 DEF Calling
    <2> QED
      BY CallFrame, <2>1, <2>2, <2>3
  <1>11. ASSUME Serve PROVE CallInv'
    <2>1. UNCHANGED <<lock, todo, cpc, stage, named>> /\ asked # << >>
      BY <1>11, ServeCases
    <2>2. \A c \in Callers : Calling(c)' = Calling(c)
            /\ Malformed(Head(todo[c]))' = Malformed(Head(todo[c]))
      BY <2>1 DEF Calling, Malformed
    <2>3. \A c \in Callers : ~Told(c)
      BY <2>1
    <2>4. \/ answer' = answer
          \/ \E c \in Callers : /\ cpc[c] = "recv" /\ ~Malformed(Head(todo[c]))
                  /\ asked' = << >> /\ lock = c
                               /\ answer' \in {[answer EXCEPT ![c] = "yes"],
                                       [answer EXCEPT ![c] = "no"]}
      BY <1>11, ServeCases
    <2> QED
      BY <1>0, <2>1, <2>2, <2>3, <2>4
  <1>12. ASSUME InitRooter PROVE CallInv'
    <2>1. UNCHANGED <<lock, asked, named, cpc>> /\ cpc[Main] = "idle" /\ Main \in Callers
      BY <1>0, <1>c, <1>12 DEF InitRooter
    <2>2. \A d \in Callers : d # Main => UNCHANGED <<answer[d], todo[d], stage[d]>>
      BY <1>0, <1>12 DEF InitRooter, NextCall
    <2>3. \A d \in Callers : d # Main => (Calling(d) => Calling(d)')
      BY <2>2 DEF Calling
    <2> QED
      BY CallFrame, <2>1, <2>2, <2>3
  <1>13. ASSUME InitStep PROVE CallInv'
    <2>1. UNCHANGED <<lock, asked, named, cpc>> /\ cpc[Main] = "idle" /\ Main \in Callers
      BY <1>0, <1>c, <1>13 DEF InitStep, Ready
    <2>2. \A d \in Callers : d # Main => UNCHANGED <<answer[d], todo[d]>> /\ ~Calling(d)
      BY <1>0, <1>13 DEF InitStep, NextCall, Calling, StageInv
    <2>3. \A d \in Callers : d # Main => (Calling(d) => Calling(d)')
      BY <2>2 DEF Calling
    <2> QED
      BY CallFrame, <2>1, <2>2, <2>3
  <1>14. ASSUME DropStep PROVE CallInv'
    <2>1. UNCHANGED <<lock, asked, named, cpc>> /\ cpc[Main] = "idle" /\ Main \in Callers
      BY <1>0, <1>c, <1>14 DEF DropStep, Ready
    <2>2. \A d \in Callers : d # Main => UNCHANGED <<answer[d], todo[d]>> /\ ~Calling(d)
      BY <1>0, <1>14 DEF DropStep, NextCall, Calling, StageInv
    <2>3. \A d \in Callers : d # Main => (Calling(d) => Calling(d)')
      BY <2>2 DEF Calling
    <2> QED
      BY CallFrame, <2>1, <2>2, <2>3
  <1>15. ASSUME NicChanges PROVE CallInv'
    BY <1>15, <1>0 DEF NicChanges, Calling, Malformed
  <1>16. ASSUME ServerDies PROVE CallInv'
    BY <1>16, <1>0 DEF ServerDies, Mishap, Calling, Malformed
  <1>17. ASSUME ServerStarts PROVE CallInv'
    BY <1>17, <1>0 DEF ServerStarts, Calling, Malformed
  <1>18. ASSUME CuckooStarts PROVE CallInv'
    BY <1>18, <1>0 DEF CuckooStarts, Mishap, Starts, Calling
  <1>19. CASE UNCHANGED rvars
    BY <1>19, <1>0 DEF rvars, Calling, Malformed
  <1> QED
    BY <1>1, <1>2, <1>3, <1>4, <1>5, <1>6, <1>7, <1>8, <1>9, <1>10, <1>11, <1>12, <1>13,
       <1>14, <1>15, <1>16, <1>17, <1>18, <1>19 DEF RooterNext, Call, Thread

(* Every command in the socket is one, of a caller or of a Cuckoo that was killed. *)
LEMMA EntryType ==
  ASSUME RooterTypeOK
  PROVE  /\ asked \in Seq(Entries) /\ DOMAIN asked = 1..Len(asked) /\ Len(asked) \in Nat
         /\ \A i \in DOMAIN asked : asked[i] \in Entries
         /\ \A i \in DOMAIN asked : asked[i].from \in Callers \cup {Nobody}
                 /\ asked[i].command \in Commands
  <1>1. asked \in Seq(Entries)
    BY DEF RooterTypeOK
  <1>2. \A i \in DOMAIN asked : asked[i] \in Entries
    BY <1>1
  <1> QED
    BY <1>1, <1>2 DEF Entries

(* A caller that is not in rooter() has no command in the socket. *)
LEMMA LiveFrame ==
  ASSUME LiveInv, UNCHANGED <<asked, cpc>>,
         \A d \in Callers : cpc[d] # "idle" => UNCHANGED <<answer[d], todo[d]>>, RooterTypeOK
  PROVE  LiveInv'
  <1> SUFFICES ASSUME NEW i \in DOMAIN asked, asked[i].from # Nobody
               PROVE  /\ i = Len(asked) /\ cpc[asked[i].from] = "recv"
                       /\ answer'[asked[i].from] = "none"
                      /\ asked[i].command = Head(todo'[asked[i].from])
    BY DEF LiveInv
  <1>1. asked[i].from \in Callers
    BY EntryType
  <1> QED
    BY <1>1 DEF LiveInv

(* One step per action: what a caller that waits asked for is the last in the socket. *)
LEMMA LiveStep ==
  ASSUME RooterTypeOK, CallInv, LiveInv, StageInv, [RooterNext]_rvars
  PROVE  LiveInv'
  <1>0. Callers = Guests \cup {Main} /\ Main \in Callers /\ Guests \subseteq Callers
          /\ Main \notin Guests
    BY Constants
  <1>a. \A c \in Callers : stage[c] \notin {"init", "drop", "probe", "enable", "disable"} =>
          cpc[c] = "idle"
    BY DEF Calling, CallInv
  <1>b. asked \in Seq(Entries) /\ \A i \in DOMAIN asked : asked[i].from \in Callers \cup {Nobody}
    BY EntryType
  <1>c. \A i \in DOMAIN asked : asked[i].from # Nobody => cpc[asked[i].from] = "recv"
          /\ lock = asked[i].from
    BY <1>b DEF LiveInv, CallInv
  <1>e. << >> \in Seq(Entries) /\ (asked = << >> => LiveInv)
    BY DEF LiveInv
  <1>1. ASSUME NEW c \in Callers, NoSocket(c) PROVE LiveInv'
    <2>1. UNCHANGED asked /\ cpc[c] # "recv" /\ cpc' \in {[cpc EXCEPT ![c] = "send"],
            [cpc EXCEPT ![c] = "idle"]}
      BY <1>1 DEF NoSocket, Return
    <2>2. \A d \in Callers : d # c => UNCHANGED <<answer[d], todo[d], cpc[d]>>
      BY <1>1 DEF NoSocket, Return, RooterTypeOK
    <2>3. \A i \in DOMAIN asked : asked[i].from # Nobody => asked[i].from # c
            /\ asked[i].from \in Callers
      BY <1>b, <1>c, <2>1
    <2> QED
      BY <2>1, <2>2, <2>3 DEF LiveInv
  <1>2. ASSUME NEW c \in Callers, Lock(c) PROVE LiveInv'
    <2>1. UNCHANGED asked /\ cpc[c] # "recv" /\ cpc' \in {[cpc EXCEPT ![c] = "send"],
            [cpc EXCEPT ![c] = "idle"]}
      BY <1>2 DEF Lock, Return
    <2>2. \A d \in Callers : d # c => UNCHANGED <<answer[d], todo[d], cpc[d]>>
      BY <1>2 DEF Lock, Return, RooterTypeOK
    <2>3. \A i \in DOMAIN asked : asked[i].from # Nobody => asked[i].from # c
            /\ asked[i].from \in Callers
      BY <1>b, <1>c, <2>1
    <2> QED
      BY <2>1, <2>2, <2>3 DEF LiveInv
  <1>3. ASSUME NEW c \in Callers, Refused(c) PROVE LiveInv'
    <2>1. UNCHANGED asked /\ cpc[c] # "recv" /\ cpc' \in {[cpc EXCEPT ![c] = "send"],
            [cpc EXCEPT ![c] = "idle"]}
      BY <1>3 DEF Refused, Return
    <2>2. \A d \in Callers : d # c => UNCHANGED <<answer[d], todo[d], cpc[d]>>
      BY <1>3 DEF Refused, Return, RooterTypeOK
    <2>3. \A i \in DOMAIN asked : asked[i].from # Nobody => asked[i].from # c
            /\ asked[i].from \in Callers
      BY <1>b, <1>c, <2>1
    <2> QED
      BY <2>1, <2>2, <2>3 DEF LiveInv
  <1>4. ASSUME NEW c \in Callers, Send(c) PROVE LiveInv'
    <2>1. /\ asked' = Append(asked, [from |-> c, command |-> Head(todo[c])])
          /\ cpc' = [cpc EXCEPT ![c] = "recv"] /\ cpc[c] = "send" /\ UNCHANGED <<answer, todo>>
      BY <1>4 DEF Send
    <2>2. lock = c /\ answer[c] = "none"
      BY <2>1 DEF CallInv
    <2>3. \A i \in DOMAIN asked : asked[i].from = Nobody
      BY <1>c, <2>1, <2>2
    <2>4. /\ Len(asked') = Len(asked) + 1 /\ DOMAIN asked' = 1..Len(asked')
          /\ asked'[Len(asked')] = [from |-> c, command |-> Head(todo[c])]
          /\ \A i \in 1..Len(asked) : asked'[i] = asked[i]
          /\ Len(asked) \in Nat /\ DOMAIN asked = 1..Len(asked)
      BY <1>b, <2>1
    <2>5. \A i \in DOMAIN asked' : asked'[i].from # Nobody => i = Len(asked')
      BY <2>3, <2>4
    <2>6. asked'[Len(asked')].from = c /\ asked'[Len(asked')].command = Head(todo'[c])
      BY <2>1, <2>4
    <2>7. cpc'[c] = "recv" /\ answer'[c] = "none"
      BY <2>1, <2>2 DEF RooterTypeOK
    <2> QED
      BY <2>5, <2>6, <2>7 DEF LiveInv
  <1>5. ASSUME NEW c \in Callers, Receive(c) PROVE LiveInv'
    <2>1. asked = << >> /\ asked' = asked
      BY <1>5 DEF Receive, CallInv, Told
    <2> QED
      BY <2>1 DEF LiveInv
  <1>6. ASSUME NEW g \in Guests, Route(g) PROVE LiveInv'
    <2>1. UNCHANGED <<asked, cpc>> /\ cpc[g] = "idle" /\ \A d \in Callers : d # g =>
            UNCHANGED <<answer[d], todo[d]>>
      BY <1>0, <1>a, <1>6 DEF Route, NextCall, RooterTypeOK
    <2> QED
      BY <2>1, LiveFrame
  <1>7. ASSUME NEW g \in Guests, Probed(g) PROVE LiveInv'
    <2>1. UNCHANGED <<asked, cpc>> /\ cpc[g] = "idle" /\ \A d \in Callers : d # g =>
            UNCHANGED <<answer[d], todo[d]>>
      BY <1>0, <1>a, <1>7 DEF Probed, NextCall, Ready, RooterTypeOK
    <2> QED
      BY <2>1, LiveFrame
  <1>8. ASSUME NEW g \in Guests, Enabled(g) PROVE LiveInv'
    <2>1. UNCHANGED <<asked, cpc>> /\ cpc[g] = "idle" /\ \A d \in Callers : d # g =>
            UNCHANGED <<answer[d], todo[d]>>
      BY <1>0, <1>a, <1>8 DEF Enabled, NextCall, Ready, RooterTypeOK
    <2> QED
      BY <2>1, LiveFrame
  <1>9. ASSUME NEW g \in Guests, Unroute(g) PROVE LiveInv'
    <2>1. UNCHANGED <<asked, cpc>> /\ cpc[g] = "idle" /\ \A d \in Callers : d # g =>
            UNCHANGED <<answer[d], todo[d]>>
      BY <1>0, <1>a, <1>9 DEF Unroute, NextCall, RooterTypeOK
    <2> QED
      BY <2>1, LiveFrame
  <1>10. ASSUME NEW g \in Guests, Disabled(g) PROVE LiveInv'
    <2>1. UNCHANGED <<asked, cpc>> /\ cpc[g] = "idle" /\ \A d \in Callers : d # g =>
            UNCHANGED <<answer[d], todo[d]>>
      BY <1>0, <1>a, <1>10 DEF Disabled, NextCall, Ready, RooterTypeOK
    <2> QED
      BY <2>1, LiveFrame
  <1>11. ASSUME Serve PROVE LiveInv'
    <2>1. UNCHANGED <<cpc, todo>> /\ asked # << >>
      BY <1>11, ServeCases
    <2>2. CASE asked' = << >>
      BY <2>2 DEF LiveInv
    <2>3. CASE asked' = Tail(asked) /\ answer' = answer
      <3>1. /\ \A i \in DOMAIN asked' : i + 1 \in DOMAIN asked /\ i \in 1..Len(asked) - 1
              /\ asked'[i] = asked[i + 1]
            /\ Len(asked') = Len(asked) - 1 /\ Len(asked) \in Nat
        BY <2>1, <2>3, Queue
      <3> QED
        BY <2>1, <2>3, <3>1 DEF LiveInv
    <2> QED
      BY <1>11, <2>2, <2>3, ServeCases
  <1>12. ASSUME InitRooter PROVE LiveInv'
    <2>1. UNCHANGED <<asked, cpc>> /\ cpc[Main] = "idle" /\ \A d \in Callers : d # Main =>
            UNCHANGED <<answer[d], todo[d]>>
      BY <1>0, <1>a, <1>12 DEF InitRooter, NextCall, RooterTypeOK
    <2> QED
      BY <2>1, LiveFrame
  <1>13. ASSUME InitStep PROVE LiveInv'
    <2>1. UNCHANGED <<asked, cpc>> /\ cpc[Main] = "idle" /\ \A d \in Callers : d # Main =>
            UNCHANGED <<answer[d], todo[d]>>
      BY <1>0, <1>a, <1>13 DEF InitStep, NextCall, Ready, RooterTypeOK
    <2> QED
      BY <2>1, LiveFrame
  <1>14. ASSUME DropStep PROVE LiveInv'
    <2>1. UNCHANGED <<asked, cpc>> /\ cpc[Main] = "idle" /\ \A d \in Callers : d # Main =>
            UNCHANGED <<answer[d], todo[d]>>
      BY <1>0, <1>a, <1>14 DEF DropStep, NextCall, Ready, RooterTypeOK
    <2> QED
      BY <2>1, LiveFrame
  <1>15. ASSUME NicChanges PROVE LiveInv'
    BY <1>15, LiveFrame DEF NicChanges
  <1>16. ASSUME ServerDies PROVE LiveInv'
    BY <1>16 DEF ServerDies, LiveInv
  <1>17. ASSUME ServerStarts PROVE LiveInv'
    BY <1>17, LiveFrame DEF ServerStarts
  <1>18. ASSUME CuckooStarts PROVE LiveInv'
    <2>1. asked' = [i \in DOMAIN asked |-> [asked[i] EXCEPT !.from = Nobody]]
      BY <1>18 DEF CuckooStarts
    <2>2. \A i \in DOMAIN asked : asked[i] \in Entries
      BY <1>b
    <2>3. \A i \in DOMAIN asked' : asked'[i].from = Nobody
      BY <2>1, <2>2 DEF Entries
    <2> QED
      BY <2>3 DEF LiveInv
  <1>19. CASE UNCHANGED rvars
    BY <1>19, LiveFrame DEF rvars
  <1> QED
    BY <1>1, <1>2, <1>3, <1>4, <1>5, <1>6, <1>7, <1>8, <1>9, <1>10, <1>11, <1>12, <1>13,
       <1>14, <1>15, <1>16, <1>17, <1>18, <1>19 DEF RooterNext, Call, Thread

(* What does not start another Cuckoo: none of it gives the lock of a thread back. *)
Goes == \/ \E c \in Callers : Call(c)
        \/ \E g \in Guests : Thread(g)
        \/ Serve \/ InitRooter \/ InitStep \/ DropStep
        \/ NicChanges \/ ServerDies \/ ServerStarts \/ UNCHANGED rvars

LEMMA BlockedStays ==
  ASSUME RooterTypeOK, CallInv, LiveInv, StageInv, Blocked, Goes
  PROVE  Blocked'
  <1>0. Callers = Guests \cup {Main} /\ Main \in Callers /\ Guests \subseteq Callers
          /\ Main \notin Guests
    BY Constants
  <1>a. \A c \in Callers : cpc[c] # "idle" => lock = c
    BY DEF CallInv
  <1>b. lock \in Callers /\ lock # Nobody
    BY DEF RooterTypeOK, Blocked
  <1>c. \A i \in DOMAIN asked : asked[i].from # Nobody => cpc[asked[i].from] = "recv"
          /\ lock = asked[i].from
    BY EntryType DEF LiveInv, CallInv
  <1>f. ASSUME UNCHANGED <<lock, cpc, asked>>, \A c \in Callers : cpc[c] # "idle" =>
          UNCHANGED answer[c]
        PROVE  Blocked'
    BY <1>b, <1>f DEF Blocked, Asks
  <1>1. ASSUME NEW c \in Callers, NoSocket(c) PROVE Blocked'
    <2>1. cpc' = cpc /\ cpc[c] = "idle" /\ UNCHANGED <<lock, asked>> /\ \A d \in Callers :
            d # c => UNCHANGED answer[d]
      BY <1>1 DEF NoSocket, Return, RooterTypeOK
    <2> QED
      BY <1>f, <2>1
  <1>2. ASSUME NEW c \in Callers, Lock(c) PROVE Blocked'
    BY <1>2, <1>b DEF Lock
  <1>3. ASSUME NEW c \in Callers, Refused(c) PROVE Blocked'
    BY <1>3, <1>a DEF Refused, Blocked
  <1>4. ASSUME NEW c \in Callers, Send(c) PROVE Blocked'
    BY <1>4, <1>a DEF Send, Blocked
  <1>5. ASSUME NEW c \in Callers, Receive(c) PROVE Blocked'
    BY <1>5, <1>a DEF Receive, Blocked
  <1>6. ASSUME NEW g \in Guests, Route(g) PROVE Blocked'
    <2>1. UNCHANGED <<lock, asked, cpc>> /\ \A d \in Callers : d # g => UNCHANGED answer[d]
      BY <1>0, <1>6 DEF Route, NextCall, RooterTypeOK
    <2>2. UNCHANGED answer \/ cpc[g] = "idle"
      BY <1>6 DEF Route, NextCall
    <2> QED
      BY <1>f, <2>1, <2>2
  <1>7. ASSUME NEW g \in Guests, Probed(g) PROVE Blocked'
    <2>1. UNCHANGED <<lock, asked, cpc>> /\ \A d \in Callers : d # g => UNCHANGED answer[d]
      BY <1>0, <1>7 DEF Probed, NextCall, RooterTypeOK
    <2>2. UNCHANGED answer \/ cpc[g] = "idle"
      BY <1>7 DEF Probed, NextCall, Ready
    <2> QED
      BY <1>f, <2>1, <2>2
  <1>8. ASSUME NEW g \in Guests, Enabled(g) PROVE Blocked'
    <2>1. UNCHANGED <<lock, asked, cpc>> /\ \A d \in Callers : d # g => UNCHANGED answer[d]
      BY <1>0, <1>8 DEF Enabled, NextCall, RooterTypeOK
    <2>2. UNCHANGED answer \/ cpc[g] = "idle"
      BY <1>8 DEF Enabled, NextCall, Ready
    <2> QED
      BY <1>f, <2>1, <2>2
  <1>9. ASSUME NEW g \in Guests, Unroute(g) PROVE Blocked'
    <2>1. UNCHANGED <<lock, asked, cpc>> /\ \A d \in Callers : d # g => UNCHANGED answer[d]
      BY <1>0, <1>9 DEF Unroute, NextCall, RooterTypeOK
    <2>2. UNCHANGED answer \/ cpc[g] = "idle"
      BY <1>9 DEF Unroute, NextCall
    <2> QED
      BY <1>f, <2>1, <2>2
  <1>10. ASSUME NEW g \in Guests, Disabled(g) PROVE Blocked'
    <2>1. UNCHANGED <<lock, asked, cpc>> /\ \A d \in Callers : d # g => UNCHANGED answer[d]
      BY <1>0, <1>10 DEF Disabled, NextCall, RooterTypeOK
    <2>2. UNCHANGED answer \/ cpc[g] = "idle"
      BY <1>10 DEF Disabled, NextCall, Ready
    <2> QED
      BY <1>f, <2>1, <2>2
  <1>11. ASSUME Serve PROVE Blocked'
    <2>1. UNCHANGED <<lock, cpc>> /\ asked # << >>
      BY <1>11, ServeCases
    <2>2. CASE cpc[lock] = "idle"
      BY <2>1, <2>2, <1>b DEF Blocked
    <2>3. CASE cpc[lock] = "recv" /\ answer[lock] = "none" /\ ~Asks(lock)
      <3>1. Head(asked) = asked[1] /\ 1 \in DOMAIN asked
        BY <2>1, Queue
      <3>2. Head(asked).from = Nobody
        BY <1>c, <2>3, <3>1 DEF Asks
      <3>3. answer' = answer /\ (asked' = << >> \/ asked' = Tail(asked))
        BY <1>11, <3>2, Constants, ServeCases
      <3>4. \A i \in DOMAIN Tail(asked) : i + 1 \in DOMAIN asked /\ Tail(asked)[i] = asked[i + 1]
        BY <2>1, Queue
      <3>5. ~Asks(lock)'
        <4>1. CASE asked' = << >>
          BY <4>1 DEF Asks
        <4>2. CASE asked' = Tail(asked)
          BY <2>1, <2>3, <3>4, <4>2 DEF Asks
        <4> QED
          BY <3>3, <4>1, <4>2
      <3> QED
        BY <1>b, <2>1, <2>3, <3>3, <3>5 DEF Blocked
    <2> QED
      BY <2>2, <2>3 DEF Blocked
  <1>12. ASSUME InitRooter PROVE Blocked'
    <2>1. UNCHANGED <<lock, asked, cpc>> /\ \A d \in Callers : d # Main => UNCHANGED answer[d]
      BY <1>0, <1>12 DEF InitRooter, NextCall, RooterTypeOK
    <2>2. UNCHANGED answer \/ cpc[Main] = "idle"
      BY <1>12 DEF InitRooter, NextCall
    <2> QED
      BY <1>f, <2>1, <2>2
  <1>13. ASSUME InitStep PROVE Blocked'
    <2>1. UNCHANGED <<lock, asked, cpc>> /\ \A d \in Callers : d # Main => UNCHANGED answer[d]
      BY <1>0, <1>13 DEF InitStep, NextCall, RooterTypeOK
    <2>2. UNCHANGED answer \/ cpc[Main] = "idle"
      BY <1>13 DEF InitStep, NextCall, Ready
    <2> QED
      BY <1>f, <2>1, <2>2
  <1>14. ASSUME DropStep PROVE Blocked'
    <2>1. UNCHANGED <<lock, asked, cpc>> /\ \A d \in Callers : d # Main => UNCHANGED answer[d]
      BY <1>0, <1>14 DEF DropStep, NextCall, RooterTypeOK
    <2>2. UNCHANGED answer \/ cpc[Main] = "idle"
      BY <1>14 DEF DropStep, NextCall, Ready
    <2> QED
      BY <1>f, <2>1, <2>2
  <1>15. ASSUME NicChanges PROVE Blocked'
    BY <1>15, <1>f DEF NicChanges
  <1>16. ASSUME ServerDies PROVE Blocked'
    BY <1>16 DEF ServerDies, Blocked, Asks
  <1>17. ASSUME ServerStarts PROVE Blocked'
    BY <1>17, <1>f DEF ServerStarts
  <1>19. CASE UNCHANGED rvars
    BY <1>19, <1>f DEF rvars
  <1> QED
    BY <1>1, <1>2, <1>3, <1>4, <1>5, <1>6, <1>7, <1>8, <1>9, <1>10, <1>11, <1>12, <1>13,
       <1>14, <1>15, <1>16, <1>17, <1>19 DEF Goes, Call, Thread

Stale(i) == asked[i].from = Nobody /\ ~Malformed(asked[i].command)

(* Without a server nothing is asked; as long as none died, the caller with the lock
   gets its answer, and nothing of another Cuckoo is in the socket. *)
ServerInv ==
    /\ server # "up" => asked = << >>
    /\ server = "down" => outage
    /\ server = "absent" => stage[Main] \in {"connect", "failed"}
    /\ named /\ ~outage => ~Blocked
    /\ mishaps = 0 => ~outage /\ \A i \in DOMAIN asked : asked[i].from # Nobody

(* How far the main thread and the threads are with their commands. *)
MainTodo ==
    /\ stage[Main] = "init" =>
          /\ Len(todo[Main]) <= 7
          /\ \A k \in 1..Len(todo[Main]) : todo[Main][k] = InitCommands[7 - Len(todo[Main]) + k]
    /\ stage[Main] = "drop" =>
          named /\ \A k \in 1..Len(todo[Main]) : \E g \in Guests : todo[Main][k] = FD(g)

GuestTodo(g) ==
    /\ stage[g] = "probe" =>
          todo[g] \in {<<RootCommand("nic_available", Nobody)>>, << >>} /\ interface[g]
    /\ stage[g] = "enable" =>
          /\ todo[g] \in (IF rtable[g] THEN {<<FE(g), SE(g)>>, <<SE(g)>>, << >>}
                                       ELSE {<<FE(g)>>, << >>})
          /\ interface[g]
          /\ ~named /\ ~Blocked => todo[g] # << >> /\ Head(todo[g]) = FE(g)
    /\ stage[g] = "disable" =>
          /\ todo[g] \in (IF rtable[g] THEN {<<FD(g), SD(g)>>, <<SD(g)>>, << >>}
                                       ELSE {<<FD(g)>>, << >>})
          /\ interface[g]

TodoInv == MainTodo /\ \A g \in Guests : GuestTodo(g)

(* One and two commands *)
LEMMA Tails ==
  /\ \A a, b : /\ Tail(<<a, b>>) = <<b>> /\ Head(<<a, b>>) = a /\ <<a, b>> # << >>
               /\ <<a>> \o <<b>> = <<a, b>>
  /\ \A a : Tail(<<a>>) = << >> /\ Head(<<a>>) = a /\ <<a>> # << >> /\ <<a>> \o << >> = <<a>>
  /\ << >> \o << >> = << >>
  <1>1. ASSUME NEW a, NEW b
        PROVE  /\ Tail(<<a, b>>) = <<b>> /\ Head(<<a, b>>) = a /\ <<a, b>> # << >>
               /\ <<a>> \o <<b>> = <<a, b>>
    <2> DEFINE S == {a, b}
    <2>1. <<a>> \in Seq(S) /\ <<b>> \in Seq(S) /\ <<a, b>> \in Seq(S)
      OBVIOUS
    <2>2. /\ <<a>> \o <<b>> \in Seq(S) /\ Len(<<a>> \o <<b>>) = 2
          /\ (<<a>> \o <<b>>)[1] = a /\ (<<a>> \o <<b>>)[2] = b
      BY <2>1
    <2>3. Tail(<<a, b>>) = <<b>> /\ Head(<<a, b>>) = a /\ <<a, b>> # << >>
      OBVIOUS
    <2> HIDE DEF S
    <2>4. /\ Len(<<a>> \o <<b>>) = Len(<<a, b>>)
          /\ \A i \in 1..Len(<<a>> \o <<b>>) : (<<a>> \o <<b>>)[i] = <<a, b>>[i]
      BY <2>2
    <2> QED
      BY <2>1, <2>2, <2>3, <2>4, SeqEqual
  <1>2. ASSUME NEW a
        PROVE  Tail(<<a>>) = << >> /\ Head(<<a>>) = a /\ <<a>> # << >> /\ <<a>> \o << >> = <<a>>
    OBVIOUS
  <1> QED
    BY <1>1, <1>2

(* Whoever calls has a server, or had one since Cuckoo was started. *)
LEMMA CallersServed ==
  ASSUME RooterTypeOK, CallInv, StageInv, ServerInv, NEW c \in Callers, Calling(c)
  PROVE  /\ server # "absent" /\ (server = "down" => outage /\ mishaps # 0)
         /\ (stage[Main] # "free" => c = Main)
  BY Constants DEF Calling, StageInv, ServerInv, RooterTypeOK

(* A caller that cannot connect keeps the lock, and somebody died before. *)
LEMMA RefusedBlocks ==
  ASSUME RooterTypeOK, CallInv, StageInv, ServerInv, NEW c \in Callers, Refused(c)
  PROVE  Blocked' /\ outage' /\ mishaps' # 0 /\ lock = c /\ Calling(c) /\ asked = << >>
  <1>1. cpc[c] = "send" /\ server # "up" /\ UNCHANGED <<lock, outage, mishaps>> /\ cpc'[c] = "idle"
    BY DEF Refused, Return, bounds, RooterTypeOK
  <1>2. lock = c /\ Calling(c) /\ lock # Nobody
    BY <1>1, Constants DEF CallInv
  <1>3. outage /\ mishaps # 0 /\ asked = << >>
    BY <1>1, <1>2, CallersServed DEF RooterTypeOK, ServerInv
  <1> QED
    BY <1>1, <1>2, <1>3 DEF Blocked

(* One step per action: without a mishap everybody is answered. *)
LEMMA ServerStep ==
  ASSUME RooterTypeOK, CallInv, LiveInv, StageInv, ServerInv, [RooterNext]_rvars
  PROVE  ServerInv'
  <1>0. Callers = Guests \cup {Main} /\ Main \in Callers /\ Guests \subseteq Callers
          /\ Main \notin Guests
    BY Constants
  <1>f. ASSUME UNCHANGED <<server, asked, outage, named, mishaps>>, stage'[Main] = stage[Main],
               ~Blocked => ~Blocked'
        PROVE  ServerInv'
    BY <1>f DEF ServerInv
  <1>g. ASSUME UNCHANGED <<lock, cpc, asked>>, NEW c \in Callers, cpc[c] = "idle",
               \A d \in Callers : d # c => UNCHANGED answer[d]
        PROVE  ~Blocked => ~Blocked'
    BY <1>g DEF Blocked, Asks, RooterTypeOK
  <1>h. \A c \in Callers : stage[c] \notin {"init", "drop", "probe", "enable", "disable"} =>
          cpc[c] = "idle"
    BY DEF Calling, CallInv
  <1>1. ASSUME NEW c \in Callers, NoSocket(c) PROVE ServerInv'
    BY <1>1, CallersServed DEF NoSocket
  <1>2. ASSUME NEW c \in Callers, Lock(c) PROVE ServerInv'
    <2>1. UNCHANGED <<server, asked, outage, named, mishaps, stage, answer>> /\ lock' = c
            /\ cpc'[c] = "send"
      BY <1>2 DEF Lock, bounds, RooterTypeOK
    <2> QED
      BY <1>f, <2>1 DEF Blocked
  <1>3. ASSUME NEW c \in Callers, Refused(c) PROVE ServerInv'
    <2>1. UNCHANGED <<server, asked, outage, named, mishaps, stage>>
      BY <1>3 DEF Refused, bounds
    <2> QED
      BY <1>3, <2>1, RefusedBlocks DEF ServerInv
  <1>4. ASSUME NEW c \in Callers, Send(c) PROVE ServerInv'
    <2>1. /\ asked' = Append(asked, [from |-> c, command |-> Head(todo[c])])
          /\ cpc'[c] = "recv" /\ server = "up" /\ lock = c
          /\ UNCHANGED <<server, outage, named, mishaps, stage, answer, lock>>
      BY <1>4 DEF Send, bounds, RooterTypeOK, CallInv
    <2>2. /\ Len(asked') = Len(asked) + 1 /\ DOMAIN asked' = 1..Len(asked')
          /\ asked'[Len(asked')].from = c
          /\ \A i \in 1..Len(asked) : asked'[i] = asked[i]
          /\ Len(asked) \in Nat /\ DOMAIN asked = 1..Len(asked)
      BY <2>1, EntryType
    <2>3. Len(asked') \in DOMAIN asked' /\ ~Blocked'
      BY <2>1, <2>2 DEF Blocked, Asks
    <2>4. \A i \in DOMAIN asked' : asked'[i].from = Nobody => i \in DOMAIN asked
            /\ asked[i].from = Nobody
      <3> TAKE i \in DOMAIN asked'
      <3>1. i = Len(asked') \/ i \in 1..Len(asked)
        BY <2>2
      <3> QED
        BY <3>1, <2>2, Constants
    <2> QED
      BY <2>1, <2>2, <2>3, <2>4 DEF ServerInv
  <1>5. ASSUME NEW c \in Callers, Receive(c) PROVE ServerInv'
    <2>1. UNCHANGED <<server, asked, outage, named, mishaps, stage>> /\ lock' = Nobody
      BY <1>5 DEF Receive, bounds
    <2> QED
      BY <2>1, <1>f DEF Blocked
  <1>6. ASSUME NEW g \in Guests, Route(g) PROVE ServerInv'
    <2>1. UNCHANGED <<lock, asked, cpc>> /\ \A d \in Callers : d # g => UNCHANGED answer[d]
      BY <1>0, <1>6 DEF Route, NextCall, RooterTypeOK
    <2>2. cpc[g] = "idle"
      BY <1>0, <1>h, <1>6 DEF Route, NextCall
    <2>3. UNCHANGED <<server, outage, named, mishaps>> /\ stage'[Main] = stage[Main]
      BY <1>0, <1>6 DEF Route, RooterTypeOK, bounds
    <2> QED
      BY <1>0, <1>f, <1>g, <2>1, <2>2, <2>3
  <1>7. ASSUME NEW g \in Guests, Probed(g) PROVE ServerInv'
    <2>1. UNCHANGED <<lock, asked, cpc>> /\ \A d \in Callers : d # g => UNCHANGED answer[d]
      BY <1>0, <1>7 DEF Probed, NextCall, RooterTypeOK
    <2>2. cpc[g] = "idle"
      BY <1>0, <1>h, <1>7 DEF Probed, NextCall, Ready
    <2>3. UNCHANGED <<server, outage, named, mishaps>> /\ stage'[Main] = stage[Main]
      BY <1>0, <1>7 DEF Probed, RooterTypeOK, bounds
    <2> QED
      BY <1>0, <1>f, <1>g, <2>1, <2>2, <2>3
  <1>8. ASSUME NEW g \in Guests, Enabled(g) PROVE ServerInv'
    <2>1. UNCHANGED <<lock, asked, cpc>> /\ \A d \in Callers : d # g => UNCHANGED answer[d]
      BY <1>0, <1>8 DEF Enabled, NextCall, RooterTypeOK
    <2>2. cpc[g] = "idle"
      BY <1>0, <1>h, <1>8 DEF Enabled, NextCall, Ready
    <2>3. UNCHANGED <<server, outage, named, mishaps>> /\ stage'[Main] = stage[Main]
      BY <1>0, <1>8 DEF Enabled, RooterTypeOK, bounds
    <2> QED
      BY <1>0, <1>f, <1>g, <2>1, <2>2, <2>3
  <1>9. ASSUME NEW g \in Guests, Unroute(g) PROVE ServerInv'
    <2>1. UNCHANGED <<lock, asked, cpc>> /\ \A d \in Callers : d # g => UNCHANGED answer[d]
      BY <1>0, <1>9 DEF Unroute, NextCall, RooterTypeOK
    <2>2. cpc[g] = "idle"
      BY <1>0, <1>h, <1>9 DEF Unroute, NextCall
    <2>3. UNCHANGED <<server, outage, named, mishaps>> /\ stage'[Main] = stage[Main]
      BY <1>0, <1>9 DEF Unroute, RooterTypeOK, bounds
    <2> QED
      BY <1>0, <1>f, <1>g, <2>1, <2>2, <2>3
  <1>10. ASSUME NEW g \in Guests, Disabled(g) PROVE ServerInv'
    <2>1. UNCHANGED <<lock, asked, cpc>> /\ \A d \in Callers : d # g => UNCHANGED answer[d]
      BY <1>0, <1>10 DEF Disabled, NextCall, RooterTypeOK
    <2>2. cpc[g] = "idle"
      BY <1>0, <1>h, <1>10 DEF Disabled, NextCall, Ready
    <2>3. UNCHANGED <<server, outage, named, mishaps>> /\ stage'[Main] = stage[Main]
      BY <1>0, <1>10 DEF Disabled, RooterTypeOK, bounds
    <2> QED
      BY <1>0, <1>f, <1>g, <2>1, <2>2, <2>3
  <1>11. ASSUME Serve PROVE ServerInv'
    <2>1. asked # << >> /\ server = "up" /\ UNCHANGED <<lock, todo, cpc, stage, named, mishaps>>
      BY <1>11, ServeCases DEF bounds
    <2>2. CASE Malformed(Head(asked).command) /\ asked' = Tail(asked) /\ UNCHANGED <<answer,
            server, outage>>
      <3>1. ~named
        BY <2>2 DEF Malformed
      <3>2. \A i \in DOMAIN asked' : i + 1 \in DOMAIN asked /\ asked'[i] = asked[i + 1]
        BY <2>1, <2>2, Queue
      <3> QED
        BY <2>1, <2>2, <3>1, <3>2 DEF ServerInv
    <2>3. CASE Head(asked).from = Nobody /\ server' = "down" /\ asked' = << >> /\ outage'
      <3>1. Head(asked) = asked[1] /\ 1 \in DOMAIN asked
        BY <2>1, Queue
      <3> QED
        BY <2>1, <2>3, <3>1 DEF ServerInv
    <2>4. ASSUME NEW c \in Callers, cpc[c] = "recv", lock = c, asked' = << >>,
            UNCHANGED <<server, outage>>,
                 answer' \in {[answer EXCEPT ![c] = "yes"], [answer EXCEPT ![c] = "no"]}
          PROVE  ServerInv'
      <3>1. ~Blocked'
        BY <2>1, <2>4 DEF Blocked, RooterTypeOK
      <3> QED
        BY <2>1, <2>4, <3>1 DEF ServerInv
    <2> QED
      BY <1>11, <2>2, <2>3, <2>4, ServeCases
  <1>12. ASSUME InitRooter PROVE ServerInv'
    <2>1. UNCHANGED <<lock, asked, cpc, server, named, mishaps>>
      BY <1>12 DEF InitRooter, bounds
    <2>2. lock = Nobody
      BY <1>12 DEF InitRooter, StageInv
    <2>3. ~Blocked' /\ ~Blocked
      BY <2>1, <2>2 DEF Blocked
    <2>4. IF server = "up" THEN outage' = FALSE
          ELSE outage' = outage /\ stage'[Main] = "failed"
      BY <1>12, <1>0 DEF InitRooter, RooterTypeOK
    <2> QED
      BY <2>1, <2>3, <2>4 DEF ServerInv
  <1>13. ASSUME InitStep PROVE ServerInv'
    <2>1. UNCHANGED <<lock, asked, cpc>> /\ \A d \in Callers : d # Main => UNCHANGED answer[d]
      BY <1>0, <1>13 DEF InitStep, NextCall, RooterTypeOK
    <2>2. cpc[Main] = "idle"
      BY <1>0, <1>h, <1>13 DEF InitStep, NextCall, Ready
    <2>3. UNCHANGED <<server, outage, named, mishaps>> /\ server # "absent"
      BY <1>0, <1>13 DEF InitStep, RooterTypeOK, bounds, ServerInv
    <2> QED
      BY <1>0, <1>g, <2>1, <2>2, <2>3 DEF ServerInv
  <1>14. ASSUME DropStep PROVE ServerInv'
    <2>1. UNCHANGED <<lock, asked, cpc>> /\ \A d \in Callers : d # Main => UNCHANGED answer[d]
      BY <1>0, <1>14 DEF DropStep, NextCall, RooterTypeOK
    <2>2. cpc[Main] = "idle"
      BY <1>0, <1>h, <1>14 DEF DropStep, NextCall, Ready
    <2>3. UNCHANGED <<server, outage, named, mishaps>> /\ server # "absent"
      BY <1>0, <1>14 DEF DropStep, RooterTypeOK, bounds, ServerInv
    <2> QED
      BY <1>0, <1>g, <2>1, <2>2, <2>3 DEF ServerInv
  <1>15. ASSUME NicChanges PROVE ServerInv'
    BY <1>15, <1>f DEF NicChanges, bounds, Blocked, Asks
  <1>16. ASSUME ServerDies PROVE ServerInv'
    <2>1. UNCHANGED <<named, stage>> /\ outage' = TRUE /\ server' = "down" /\ asked' = << >>
            /\ mishaps' = mishaps + 1
      BY <1>16 DEF ServerDies, Mishap
    <2>2. mishaps \in Nat
      BY RooterAssumption DEF RooterTypeOK
    <2> QED
      BY <2>1, <2>2 DEF ServerInv
  <1>17. ASSUME ServerStarts PROVE ServerInv'
    <2>1. UNCHANGED <<lock, asked, cpc, answer, named, mishaps, outage, stage>> /\ server' = "up"
      BY <1>17 DEF ServerStarts, bounds
    <2> QED
      BY <2>1 DEF Blocked, Asks, ServerInv
  <1>18. ASSUME CuckooStarts PROVE ServerInv'
    <2>1. /\ UNCHANGED <<server, outage, named>> /\ lock' = Nobody /\ stage'[Main] = "connect"
          /\ asked' = [i \in DOMAIN asked |-> [asked[i] EXCEPT !.from = Nobody]]
      BY <1>18, <1>0 DEF CuckooStarts, Starts
    <2>2. asked = << >> => asked' = << >>
      BY <2>1
    <2>3. ~Blocked'
      BY <2>1 DEF Blocked
    <2>4. ASSUME mishaps' = 0 PROVE ~outage' /\ asked' = << >>
      <3>1. stage[Main] = "failed" /\ mishaps = 0
        BY <1>18, <2>4, RooterAssumption DEF CuckooStarts, Mishap, RooterTypeOK
      <3>2. \A c \in Callers : cpc[c] = "idle"
        BY <1>0, <1>h, <3>1 DEF StageInv
      <3>3. \A i \in DOMAIN asked : asked[i].from # Nobody /\ cpc[asked[i].from] = "recv"
              /\ asked[i].from \in Callers
        BY <3>1, EntryType DEF ServerInv, LiveInv
      <3>4. DOMAIN asked = {}
        BY <3>2, <3>3
      <3>5. asked = << >>
        BY <3>4, EntryType
      <3> QED
        BY <2>1, <2>2, <3>1, <3>5 DEF ServerInv
    <2> QED
      BY <2>1, <2>2, <2>3, <2>4 DEF ServerInv
  <1>19. CASE UNCHANGED rvars
    BY <1>19, <1>f DEF rvars, bounds, Blocked, Asks
  <1> QED
    BY <1>1, <1>2, <1>3, <1>4, <1>5, <1>6, <1>7, <1>8, <1>9, <1>10, <1>11, <1>12, <1>13,
       <1>14, <1>15, <1>16, <1>17, <1>18, <1>19 DEF RooterNext, Call, Thread

(* A thread that does nothing *)
LEMMA GuestFrame ==
  ASSUME NEW g \in Guests, GuestTodo(g), Blocked => Blocked',
         UNCHANGED <<todo[g], stage[g], interface[g], rtable[g], named>>
  PROVE  GuestTodo(g)'
  BY DEF GuestTodo

(* A command is done with: it was answered, or nothing is answered any more. *)
LEMMA GuestPops ==
  ASSUME RooterTypeOK, NEW g \in Guests, GuestTodo(g), Blocked => Blocked', todo[g] # << >>,
         UNCHANGED <<stage[g], interface[g], rtable[g], named>>, todo'[g] = Tail(todo[g]),
         Blocked' \/ ~Malformed(Head(todo[g]))
  PROVE  GuestTodo(g)'
  <1>1. CASE stage[g] = "probe"
    <2>1. todo[g] = <<RootCommand("nic_available", Nobody)>> /\ interface[g]
      BY <1>1 DEF GuestTodo
    <2>2. todo'[g] = << >>
      <3>1. Tail(<<RootCommand("nic_available", Nobody)>>) = << >>
        BY Tails, Zenon
      <3> QED
        BY <2>1, <3>1, Zenon
    <2> QED
      BY <1>1, <2>1, <2>2 DEF GuestTodo
  <1>2. CASE stage[g] = "enable"
    <2>1. /\ interface[g]
          /\ ~named /\ ~Blocked => Head(todo[g]) = FE(g)
          /\ \/ rtable[g] /\ todo[g] \in {<<FE(g), SE(g)>>, <<SE(g)>>}
             \/ ~rtable[g] /\ todo[g] = <<FE(g)>>
      BY <1>2 DEF GuestTodo
    <2>2. \/ rtable[g] /\ todo'[g] \in {<<SE(g)>>, << >>}
          \/ ~rtable[g] /\ todo'[g] = << >>
      <3>1. /\ Tail(<<FE(g), SE(g)>>) = <<SE(g)>>
            /\ Tail(<<SE(g)>>) = << >> /\ Tail(<<FE(g)>>) = << >>
        BY Tails, Zenon
      <3> QED
        BY <2>1, <3>1
    <2>3. ~(~named' /\ ~Blocked')
      BY <2>1 DEF Malformed, FE, RootCommand
    <2> QED
      BY <1>2, <2>1, <2>2, <2>3 DEF GuestTodo
  <1>3. CASE stage[g] = "disable"
    <2>1. /\ interface[g]
          /\ \/ rtable[g] /\ todo[g] \in {<<FD(g), SD(g)>>, <<SD(g)>>}
             \/ ~rtable[g] /\ todo[g] = <<FD(g)>>
      BY <1>3 DEF GuestTodo
    <2>2. \/ rtable[g] /\ todo'[g] \in {<<SD(g)>>, << >>}
          \/ ~rtable[g] /\ todo'[g] = << >>
      <3>1. /\ Tail(<<FD(g), SD(g)>>) = <<SD(g)>>
            /\ Tail(<<SD(g)>>) = << >> /\ Tail(<<FD(g)>>) = << >>
        BY Tails, Zenon
      <3> QED
        BY <2>1, <3>1
    <2> QED
      BY <1>3, <2>1, <2>2 DEF GuestTodo
  <1>4. CASE stage[g] \notin {"probe", "enable", "disable"}
    BY <1>4 DEF GuestTodo
  <1> QED
    BY <1>1, <1>2, <1>3, <1>4

(* The same of the main thread *)
LEMMA MainPops ==
  ASSUME RooterTypeOK, MainTodo, todo[Main] # << >>, UNCHANGED <<stage[Main], named>>,
         todo'[Main] = Tail(todo[Main])
  PROVE  MainTodo'
  <1>1. todo[Main] \in Seq(Commands)
    BY Constants DEF RooterTypeOK
  <1>2. /\ Len(todo[Main]) \in Nat /\ Len(todo'[Main]) = Len(todo[Main]) - 1
        /\ \A k \in 1..Len(todo[Main]) - 1 : todo'[Main][k] = todo[Main][k + 1]
    BY <1>1, SeqTail
  <1>3. ASSUME NEW k \in 1..Len(todo'[Main])
        PROVE  /\ k + 1 \in 1..Len(todo[Main]) /\ todo'[Main][k] = todo[Main][k + 1]
               /\ 7 - Len(todo'[Main]) + k = 7 - Len(todo[Main]) + (k + 1)
    <2>1. k \in Nat /\ k >= 1 /\ k <= Len(todo[Main]) - 1
      BY <1>2, <1>3
    <2>2. k + 1 \in 1..Len(todo[Main]) /\ k \in 1..Len(todo[Main]) - 1
      BY <1>2, <2>1
    <2>3. 7 - (Len(todo[Main]) - 1) + k = 7 - Len(todo[Main]) + (k + 1)
      BY <1>2, <2>1
    <2> QED
      BY <1>2, <2>2, <2>3
  <1>4. CASE stage[Main] = "init"
    <2>1. \A k \in 1..Len(todo'[Main]) : todo'[Main][k] = InitCommands[7 - Len(todo'[Main]) + k]
      BY <1>3, <1>4 DEF MainTodo
    <2>2. Len(todo'[Main]) <= 7
      BY <1>2, <1>4 DEF MainTodo
    <2> QED
      BY <1>4, <2>1, <2>2 DEF MainTodo
  <1>5. CASE stage[Main] # "init"
    BY <1>3, <1>5 DEF MainTodo
  <1> QED
    BY <1>4, <1>5

(* One step per action: the commands a caller has left are those of its stage. *)
LEMMA TodoStep ==
  ASSUME RooterTypeOK, CallInv, LiveInv, StageInv, ServerInv, TodoInv, [RooterNext]_rvars
  PROVE  TodoInv'
  <1>0. Callers = Guests \cup {Main} /\ Main \in Callers /\ Guests \subseteq Callers
          /\ Main \notin Guests
    BY Constants
  <1>a. Goes => (Blocked => Blocked')
    BY BlockedStays
  <1>b. \A c \in Callers : Told(c) => ~Malformed(Head(todo[c])) /\ todo[c] # << >>
    BY DEF CallInv, Told, Calling
  <1>f. ASSUME Blocked => Blocked', UNCHANGED <<todo, stage, interface, rtable, named>>
        PROVE  TodoInv'
    <2>1. MainTodo'
      BY <1>f DEF TodoInv, MainTodo
    <2>2. \A g \in Guests : GuestTodo(g)'
      BY <1>f, GuestFrame DEF TodoInv
    <2> QED
      BY <2>1, <2>2 DEF TodoInv
  <1>g. ASSUME NEW c \in Callers, Blocked => Blocked', Blocked' \/ ~Malformed(Head(todo[c])),
          todo[c] # << >>,
               todo' = [todo EXCEPT ![c] = Tail(@)], UNCHANGED <<stage, interface, rtable, named>>
        PROVE  TodoInv'
    <2>1. todo'[c] = Tail(todo[c]) /\ \A d \in Callers : d # c => todo'[d] = todo[d]
      BY <1>g DEF RooterTypeOK
    <2>2. MainTodo'
      <3>1. CASE c = Main
        BY <1>g, <2>1, <3>1, MainPops DEF TodoInv
      <3>2. CASE c # Main
        BY <1>0, <1>g, <2>1, <3>2 DEF TodoInv, MainTodo
      <3> QED
        BY <3>1, <3>2
    <2>3. ASSUME NEW g \in Guests PROVE GuestTodo(g)'
      <3>1. CASE g = c
        BY <1>g, <2>1, <3>1, GuestPops DEF TodoInv
      <3>2. CASE g # c
        BY <1>0, <1>g, <2>1, <3>2, GuestFrame DEF TodoInv
      <3> QED
        BY <3>1, <3>2
    <2> QED
      BY <2>2, <2>3 DEF TodoInv
  <1>h. ASSUME NEW h \in Guests, GuestTodo(h)', named' = named, Blocked => Blocked',
               \A c \in Callers : c # h => UNCHANGED <<todo[c], stage[c]>>,
               \A g \in Guests : g # h => UNCHANGED <<interface[g], rtable[g]>>
        PROVE  TodoInv'
    <2>a. UNCHANGED <<todo[Main], stage[Main], named>>
      BY <1>0, <1>h
    <2>1. MainTodo'
      BY <2>a DEF TodoInv, MainTodo
    <2>2. ASSUME NEW g \in Guests, g # h PROVE GuestTodo(g)'
      BY <1>0, <1>h, <2>2, GuestFrame DEF TodoInv
    <2> QED
      BY <1>h, <2>1, <2>2 DEF TodoInv
  <1>m. ASSUME MainTodo', \A g \in Guests : stage'[g] \in {"wait", "free"}
        PROVE  TodoInv'
    BY <1>m DEF TodoInv, GuestTodo
  <1>1. ASSUME NEW c \in Callers, NoSocket(c) PROVE TodoInv'
    BY <1>1, CallersServed DEF NoSocket
  <1>2. ASSUME NEW c \in Callers, Lock(c) PROVE TodoInv'
    <2>1. UNCHANGED <<todo, stage, interface, rtable, named>>
      BY <1>2 DEF Lock, tables
    <2>2. Blocked => Blocked'
      BY <1>a, <1>2 DEF Goes, Call
    <2> QED
      BY <1>f, <2>1, <2>2
  <1>3. ASSUME NEW c \in Callers, Refused(c) PROVE TodoInv'
    <2>1. todo' = [todo EXCEPT ![c] = Tail(@)] /\ UNCHANGED <<stage, interface, rtable, named>>
      BY <1>3 DEF Refused, Return
    <2>2. Blocked' /\ todo[c] # << >>
      BY <1>3, RefusedBlocks DEF Calling
    <2> QED
      BY <1>g, <2>1, <2>2
  <1>4. ASSUME NEW c \in Callers, Send(c) PROVE TodoInv'
    <2>1. UNCHANGED <<todo, stage, interface, rtable, named>>
      BY <1>4 DEF Send, tables
    <2>2. Blocked => Blocked'
      BY <1>a, <1>4 DEF Goes, Call
    <2> QED
      BY <1>f, <2>1, <2>2
  <1>5. ASSUME NEW c \in Callers, Receive(c) PROVE TodoInv'
    <2>1. todo' = [todo EXCEPT ![c] = Tail(@)] /\ UNCHANGED <<stage, interface, rtable, named>>
      BY <1>5 DEF Receive
    <2>2. Told(c)
      BY <1>5 DEF Receive, Told
    <2>3. Blocked => Blocked'
      BY <1>a, <1>5 DEF Goes, Call
    <2> QED
      BY <1>b, <1>g, <2>1, <2>2, <2>3
  <1>6. ASSUME NEW g \in Guests, Route(g) PROVE TodoInv'
    <2>1. PICK i, r \in BOOLEAN :
           /\ interface' = [interface EXCEPT ![g] = i] /\ rtable' = [rtable EXCEPT ![g] = r]
           /\ stage' = [stage EXCEPT ![g] = IF i THEN "probe" ELSE "analyse"]
           /\ todo' = [todo EXCEPT ![g] = IF i THEN <<RootCommand("nic_available",
                   Nobody)>> ELSE << >>]
      BY <1>6 DEF Route
    <2>6. GuestTodo(g)'
      BY <1>0, <2>1 DEF GuestTodo, RooterTypeOK
    <2>7. Blocked => Blocked'
      BY <1>a, <1>6 DEF Goes, Thread
    <2>8. named' = named /\ \A c \in Callers : c # g => UNCHANGED <<todo[c], stage[c]>>
      BY <1>6 DEF Route, RooterTypeOK
    <2>9. \A h \in Guests : h # g => UNCHANGED <<interface[h], rtable[h]>>
      BY <1>6 DEF Route, RooterTypeOK
    <2> QED
      BY <1>h, <2>6, <2>7, <2>8, <2>9
  <1>7. ASSUME NEW g \in Guests, Probed(g) PROVE TodoInv'
    <2>1. interface[g] /\ stage[g] = "probe"
      BY <1>7 DEF Probed, TodoInv, GuestTodo
    <2>6. GuestTodo(g)'
      <3>1. CASE answer[g] = "yes"
        <4>1. stage'[g] = "enable" /\ todo'[g] = Enabling(g) /\ UNCHANGED <<interface, rtable>>
          BY <1>0, <1>7, <3>1 DEF Probed, RooterTypeOK
        <4>2. Enabling(g) = IF rtable[g] THEN <<FE(g), SE(g)>> ELSE <<FE(g)>>
          BY Tails DEF Enabling, FE, SE
        <4>3. Head(Enabling(g)) = FE(g) /\ Enabling(g) # << >>
          BY <4>2, Tails
        <4> QED
          BY <2>1, <4>1, <4>2, <4>3 DEF GuestTodo
      <3>2. CASE answer[g] # "yes"
        BY <1>0, <1>7, <3>2 DEF Probed, RooterTypeOK, GuestTodo
      <3> QED
        BY <3>1, <3>2
    <2>7. Blocked => Blocked'
      BY <1>a, <1>7 DEF Goes, Thread
    <2>8. named' = named /\ \A c \in Callers : c # g => UNCHANGED <<todo[c], stage[c]>>
      BY <1>7 DEF Probed, RooterTypeOK
    <2>9. \A h \in Guests : h # g => UNCHANGED <<interface[h], rtable[h]>>
      BY <1>7 DEF Probed, RooterTypeOK
    <2> QED
      BY <1>h, <2>6, <2>7, <2>8, <2>9
  <1>8. ASSUME NEW g \in Guests, Enabled(g) PROVE TodoInv'
    <2>1. UNCHANGED <<todo, interface, rtable, named>> /\ stage'[g] \in {"enable",
            "analyse"} /\ stage[g] = "enable"
      BY <1>0, <1>8 DEF Enabled, RooterTypeOK
    <2>2. Blocked => Blocked'
      BY <1>a, <1>8 DEF Goes, Thread
    <2>6. GuestTodo(g)'
      BY <2>1, <2>2 DEF GuestTodo, TodoInv
    <2>7. Blocked => Blocked'
      BY <1>a, <1>8 DEF Goes, Thread
    <2>8. named' = named /\ \A c \in Callers : c # g => UNCHANGED <<todo[c], stage[c]>>
      BY <1>8 DEF Enabled, RooterTypeOK
    <2>9. \A h \in Guests : h # g => UNCHANGED <<interface[h], rtable[h]>>
      BY <1>8 DEF Enabled, RooterTypeOK
    <2> QED
      BY <1>h, <2>6, <2>7, <2>8, <2>9
  <1>9. ASSUME NEW g \in Guests, Unroute(g) PROVE TodoInv'
    <2>1. /\ UNCHANGED <<interface, rtable>> /\ todo'[g] = Disabling(g)
          /\ stage'[g] = IF Disabling(g) = << >> THEN "free" ELSE "disable"
      BY <1>0, <1>9 DEF Unroute, RooterTypeOK
    <2>6. GuestTodo(g)'
      <3>1. CASE interface[g]
        <4>1. Disabling(g) = IF rtable[g] THEN <<FD(g), SD(g)>> ELSE <<FD(g)>>
          BY <3>1, Tails DEF Disabling, FD, SD
        <4> QED
          BY <2>1, <3>1, <4>1 DEF GuestTodo
      <3>2. CASE ~interface[g]
        <4>1. Disabling(g) = << >>
          BY <3>2, Tails DEF Disabling, StageInv
        <4> QED
          BY <2>1, <4>1 DEF GuestTodo
      <3> QED
        BY <3>1, <3>2
    <2>7. Blocked => Blocked'
      BY <1>a, <1>9 DEF Goes, Thread
    <2>8. named' = named /\ \A c \in Callers : c # g => UNCHANGED <<todo[c], stage[c]>>
      BY <1>9 DEF Unroute, RooterTypeOK
    <2>9. \A h \in Guests : h # g => UNCHANGED <<interface[h], rtable[h]>>
      BY <1>9 DEF Unroute, RooterTypeOK
    <2> QED
      BY <1>h, <2>6, <2>7, <2>8, <2>9
  <1>10. ASSUME NEW g \in Guests, Disabled(g) PROVE TodoInv'
    <2>1. UNCHANGED <<todo, interface, rtable>> /\ stage'[g] \in {"disable", "free"}
            /\ stage[g] = "disable"
      BY <1>0, <1>10 DEF Disabled, RooterTypeOK
    <2>6. GuestTodo(g)'
      BY <2>1 DEF GuestTodo, TodoInv
    <2>7. Blocked => Blocked'
      BY <1>a, <1>10 DEF Goes, Thread
    <2>8. named' = named /\ \A c \in Callers : c # g => UNCHANGED <<todo[c], stage[c]>>
      BY <1>10 DEF Disabled, RooterTypeOK
    <2>9. \A h \in Guests : h # g => UNCHANGED <<interface[h], rtable[h]>>
      BY <1>10 DEF Disabled, RooterTypeOK
    <2> QED
      BY <1>h, <2>6, <2>7, <2>8, <2>9
  <1>11. ASSUME Serve PROVE TodoInv'
    <2>1. UNCHANGED <<todo, stage, interface, rtable, named>>
      BY <1>11 DEF Serve, tables
    <2>2. Blocked => Blocked'
      BY <1>a, <1>11 DEF Goes, Call
    <2> QED
      BY <1>f, <2>1, <2>2
  <1>12. ASSUME InitRooter PROVE TodoInv'
    <2>1. \A g \in Guests : stage'[g] = "wait"
      BY <1>0, <1>12 DEF InitRooter, StageInv, RooterTypeOK
    <2>2. stage'[Main] = "failed" \/ (stage'[Main] = "init" /\ todo'[Main] = InitCommands)
      BY <1>0, <1>12 DEF InitRooter, RooterTypeOK
    <2>a. Len(InitCommands) <= 7 /\ \A k \in 1..Len(InitCommands) : 7 - Len(InitCommands) + k = k
      BY InitCommandsType
    <2>3. MainTodo'
      BY <2>2, <2>a DEF MainTodo
    <2> QED
      BY <1>m, <2>1, <2>3
  <1>13. ASSUME InitStep PROVE TodoInv'
    <2>1. UNCHANGED named /\ stage[Main] = "init"
      BY <1>13 DEF InitStep
    <2>2. CASE UNCHANGED <<stage, todo>>
      <3>1. MainTodo'
        BY <2>1, <2>2 DEF TodoInv, MainTodo
      <3> QED
        BY <1>0, <1>m, <2>1, <2>2, <3>1 DEF StageInv
    <2>3. CASE stage' = [stage EXCEPT ![Main] = "failed"]
      BY <1>0, <1>m, <2>1, <2>3 DEF StageInv, RooterTypeOK, MainTodo
    <2>4. ASSUME NEW drops \in Dropped, todo' = [todo EXCEPT ![Main] = drops],
                 stage' = IF drops = << >> THEN [c \in Callers |-> "free"]
                          ELSE [stage EXCEPT ![Main] = "drop"]
          PROVE  TodoInv'
      <3>1. \A g \in Guests : stage'[g] \in {"wait", "free"}
        BY <1>0, <2>1, <2>4 DEF StageInv, RooterTypeOK
      <3>2. stage'[Main] = "free" \/ (stage'[Main] = "drop" /\ todo'[Main] = drops /\ drops # << >>)
        BY <1>0, <2>4 DEF RooterTypeOK
      <3>3. drops # << >> => named
        BY DEF Dropped
      <3>4. MainTodo'
        BY <2>1, <3>2, <3>3, DropsType DEF MainTodo, FD
      <3> QED
        BY <1>m, <3>1, <3>4
    <2> QED
      BY <1>13, <2>2, <2>3, <2>4 DEF InitStep
  <1>14. ASSUME DropStep PROVE TodoInv'
    <2>1. UNCHANGED <<named, todo>> /\ stage[Main] = "drop" /\ stage' \in {stage,
            [c \in Callers |-> "free"]}
      BY <1>14 DEF DropStep
    <2>2. MainTodo'
      BY <1>0, <2>1 DEF TodoInv, MainTodo
    <2> QED
      BY <1>0, <1>m, <2>1, <2>2 DEF StageInv
  <1>15. ASSUME NicChanges PROVE TodoInv'
    <2>1. UNCHANGED <<todo, stage, interface, rtable, named>>
      BY <1>15 DEF NicChanges, tables
    <2>2. Blocked => Blocked'
      BY <1>a, <1>15 DEF Goes, Call
    <2> QED
      BY <1>f, <2>1, <2>2
  <1>16. ASSUME ServerDies PROVE TodoInv'
    <2>1. UNCHANGED <<todo, stage, interface, rtable, named>>
      BY <1>16 DEF ServerDies, tables
    <2>2. Blocked => Blocked'
      BY <1>a, <1>16 DEF Goes, Call
    <2> QED
      BY <1>f, <2>1, <2>2
  <1>17. ASSUME ServerStarts PROVE TodoInv'
    <2>1. UNCHANGED <<todo, stage, interface, rtable, named>>
      BY <1>17 DEF ServerStarts, tables
    <2>2. Blocked => Blocked'
      BY <1>a, <1>17 DEF Goes, Call
    <2> QED
      BY <1>f, <2>1, <2>2
  <1>18. ASSUME CuckooStarts PROVE TodoInv'
    <2>1. stage'[Main] = "connect" /\ \A g \in Guests : stage'[g] = "wait"
      BY <1>0, <1>18 DEF CuckooStarts, Starts
    <2> QED
      BY <1>m, <2>1 DEF MainTodo
  <1>19. CASE UNCHANGED rvars
    BY <1>19, <1>f DEF rvars, Blocked, Asks
  <1> QED
    BY <1>1, <1>2, <1>3, <1>4, <1>5, <1>6, <1>7, <1>8, <1>9, <1>10, <1>11, <1>12, <1>13,
       <1>14, <1>15, <1>16, <1>17, <1>18, <1>19 DEF RooterNext, Call, Thread

(* What is in the socket: commands of a Cuckoo that was killed only until the first
   command of the next one, and no rule that is there already. *)
QueueInv ==
    /\ \A i \in DOMAIN asked : Stale(i) => \/ stage[Main] \in {"connect", "failed"}
                                           \/ stage[Main] = "init" /\ todo[Main] = InitCommands
    /\ \A i \in DOMAIN asked : asked[i].command.name = "enable_nat" => nat = 0
    /\ \A i \in DOMAIN asked : \A g \in Guests : asked[i].command = FE(g) => forward[g] = 0
    /\ ~named => \A i \in DOMAIN asked : asked[i].command.name # "srcroute_enable"

In(x, q) == \E k \in 1..Len(q) : q[k] = x
Pends(command, c) == In(command, Left(c))

(* The rules of one kind a machine has, where its thread is. *)
Has(rules, route, enable, disable, g) ==
    IF stage[g] \in {"free", "probe", "wait"} \/ ~route[g] THEN rules[g] = 0
    ELSE IF stage[g] = "enable" THEN rules[g] = IF Pends(enable, g) THEN 0 ELSE 1
    ELSE IF stage[g] = "disable" THEN rules[g] = IF Pends(disable, g) THEN 1 ELSE 0
    ELSE rules[g] = 1

NatInv == /\ nat <= 1
          /\ stage[Main] = "init" /\ ~Blocked /\ Len(Left(Main)) = 3 => nat = 0

RulesInv(g) ==
    /\ forward[g] <= 1
    /\ ~named => forward[g] = 0 /\ srcroute[g] = 0
    /\ named /\ ~Blocked /\ stage[Main] = "drop" => forward[g] = 0 \/ Pends(FD(g), Main)
    /\ named /\ ~Blocked /\ stage[Main] = "free" => Has(forward, interface, FE(g), FD(g), g)
    /\ named /\ mishaps = 0 => Has(srcroute, rtable, SE(g), SD(g), g)

TablesInv == NatInv /\ \A g \in Guests : RulesInv(g)

(* Where nat is switched off and on among the commands of a start-up *)
LEMMA InitNamesAt ==
  \A n \in 1..7 : /\ InitNames[8 - n] = "enable_nat" => n = 3
                  /\ InitNames[8 - n] = "disable_nat" <=> n = 4
                  /\ InitNames[8 - n] \in {"forward_drop", "nic_available", "rt_available",
                          "disable_nat",
                                           "enable_nat", "flush_rttable", "init_rttable"}
  <1> SUFFICES ASSUME NEW n \in 1..7
               PROVE  /\ InitNames[8 - n] = "enable_nat" => n = 3
                      /\ InitNames[8 - n] = "disable_nat" <=> n = 4
                      /\ InitNames[8 - n] \in {"forward_drop", "nic_available", "rt_available",
                              "disable_nat",
                                           "enable_nat", "flush_rttable", "init_rttable"}
    OBVIOUS
  <1>1. n \in {1, 2, 3, 4, 5, 6, 7}
    OBVIOUS
  <1>2. CASE n \in {1, 2, 3, 4}
    BY <1>2 DEF InitNames
  <1>3. CASE n \in {5, 6, 7}
    BY <1>3 DEF InitNames
  <1> QED
    BY <1>1, <1>2, <1>3

(* The commands that change the rules of a machine tell apart, and name it. *)
LEMMA Names ==
  /\ \A g, h : (FE(g) = FE(h) <=> g = h) /\ (FD(g) = FD(h) <=> g = h)
  /\ \A g, h : FE(g) # SE(h) /\ FD(g) # SD(h) /\ FE(g) # FD(h) /\ SE(g) # SD(h)
               /\ FE(g) # SD(h) /\ FD(g) # SE(h)
  /\ \A g : /\ FE(g).name = "forward_enable" /\ FE(g).machine = g
            /\ FD(g).name = "forward_disable" /\ FD(g).machine = g
            /\ SE(g).name = "srcroute_enable" /\ SE(g).machine = g
            /\ SD(g).name = "srcroute_disable" /\ SD(g).machine = g
  /\ \A command \in Commands : \A g \in Guests :
        /\ command.name = "forward_enable" /\ command.machine = g <=> command = FE(g)
        /\ command.name = "forward_disable" /\ command.machine = g <=> command = FD(g)
        /\ command.name = "srcroute_enable" /\ command.machine = g <=> command = SE(g)
        /\ command.name = "srcroute_disable" /\ command.machine = g <=> command = SD(g)
  BY DEF FE, FD, SE, SD, RootCommand, Commands

(* What the next command of a caller can be. *)
LEMMA Heads ==
  ASSUME RooterTypeOK, CallInv, StageInv, TodoInv, NEW c \in Callers, Calling(c)
  PROVE  /\ Head(todo[c]) \in Commands
         /\ stage[Main] = "init" =>
               /\ c = Main /\ Len(todo[c]) \in 1..7
               /\ Head(todo[c]) = RootCommand(InitNames[8 - Len(todo[c])], Nobody)
         /\ stage[Main] = "drop" => c = Main /\ named /\ \E g \in Guests : Head(todo[c]) = FD(g)
         /\ stage[Main] \notin {"init", "drop"} => c \in Guests /\ stage[Main] = "free"
         /\ c # Main =>
               \/ stage[c] = "probe" /\ Head(todo[c]) = RootCommand("nic_available", Nobody)
               \/ stage[c] = "enable" /\ Head(todo[c]) \in {FE(c), SE(c)}
               \/ stage[c] = "disable" /\ Head(todo[c]) \in {FD(c), SD(c)}
  <1>0. Callers = Guests \cup {Main} /\ Main \in Callers /\ Guests \subseteq Callers
          /\ Main \notin Guests
    BY Constants
  <1>1. todo[c] # << >> /\ todo[c] \in Seq(Commands) /\ stage[c] \in {"init", "drop", "probe",
          "enable", "disable"}
    BY DEF Calling, RooterTypeOK
  <1>2. Head(todo[c]) \in Commands /\ Head(todo[c]) = todo[c][1] /\ Len(todo[c]) \in Nat
          /\ Len(todo[c]) >= 1
    BY <1>1, SeqTail
  <1>3. stage[Main] # "free" => c = Main
    BY <1>0, <1>1 DEF StageInv
  <1>4. ASSUME stage[Main] = "init"
        PROVE  /\ c = Main /\ Len(todo[c]) \in 1..7
               /\ Head(todo[c]) = RootCommand(InitNames[8 - Len(todo[c])], Nobody)
    <2>a. c = Main /\ Len(todo[Main]) <= 7
      BY <1>3, <1>4 DEF TodoInv, MainTodo
    <2>1. c = Main /\ Len(todo[c]) \in 1..7 /\ 1 \in 1..Len(todo[c])
      <3>1. Len(todo[c]) <= 7
        BY <2>a
      <3>2. \A n \in Nat : n >= 1 /\ n <= 7 => n \in 1..7 /\ 1 \in 1..n
        OBVIOUS
      <3> QED
        BY <1>2, <2>a, <3>1, <3>2
    <2>2. Head(todo[c]) = InitCommands[7 - Len(todo[c]) + 1]
      BY <1>2, <1>4, <2>1 DEF TodoInv, MainTodo
    <2>b. \A n \in 1..7 : 7 - n + 1 = 8 - n /\ 8 - n \in 1..7
      OBVIOUS
    <2>3. 7 - Len(todo[c]) + 1 = 8 - Len(todo[c]) /\ 8 - Len(todo[c]) \in 1..7
      BY <2>1, <2>b
    <2> QED
      BY <2>1, <2>2, <2>3, InitCommandsType
  <1>5. ASSUME stage[Main] = "drop"
        PROVE  c = Main /\ named /\ \E g \in Guests : Head(todo[c]) = FD(g)
    BY <1>2, <1>3, <1>5 DEF TodoInv, MainTodo
  <1>6. stage[Main] \notin {"init", "drop"} => c \in Guests /\ stage[Main] = "free"
    BY <1>0, <1>1, <1>3 DEF StageInv
  <1>7. ASSUME c # Main
        PROVE  \/ stage[c] = "probe" /\ Head(todo[c]) = RootCommand("nic_available", Nobody)
               \/ stage[c] = "enable" /\ Head(todo[c]) \in {FE(c), SE(c)}
               \/ stage[c] = "disable" /\ Head(todo[c]) \in {FD(c), SD(c)}
    <2>1. c \in Guests /\ stage[c] \in {"probe", "enable", "disable"}
      BY <1>0, <1>1, <1>3, <1>7 DEF StageInv
    <2>2. GuestTodo(c)
      BY <2>1 DEF TodoInv
    <2> QED
      BY <1>1, <2>1, <2>2, Tails DEF GuestTodo
  <1> QED
    BY <1>2, <1>4, <1>5, <1>6, <1>7

(* One step per action: nothing is asked for that is in the tables already. *)
LEMMA QueueStep ==
  ASSUME RooterTypeOK, CallInv, LiveInv, StageInv, ServerInv, TodoInv, QueueInv, TablesInv,
          [RooterNext]_rvars
  PROVE  QueueInv'
  <1>0. Callers = Guests \cup {Main} /\ Main \in Callers /\ Guests \subseteq Callers
          /\ Main \notin Guests
    BY Constants
  <1>e. asked' = << >> => QueueInv'
    BY DEF QueueInv
  <1>f. ASSUME UNCHANGED <<asked, named, forward, nat, stage[Main], todo[Main]>>
        PROVE  QueueInv'
    BY <1>f DEF QueueInv, Stale, Malformed
  <1>1. ASSUME NEW c \in Callers, NoSocket(c) PROVE QueueInv'
    BY <1>1, CallersServed DEF NoSocket
  <1>2. ASSUME NEW c \in Callers, Lock(c) PROVE QueueInv'
    BY <1>0, <1>2, <1>f DEF Lock, tables, RooterTypeOK
  <1>3. ASSUME NEW c \in Callers, Refused(c) PROVE QueueInv'
    BY <1>3, <1>e, RefusedBlocks DEF Refused
  <1>4. ASSUME NEW c \in Callers, Send(c) PROVE QueueInv'
    <2>1. /\ asked' = Append(asked, [from |-> c, command |-> Head(todo[c])])
          /\ cpc[c] = "send" /\ UNCHANGED <<named, forward, nat, stage, todo>>
      BY <1>4 DEF Send, tables
    <2>2. lock = c /\ Calling(c) /\ ~Blocked /\ ~Told(c) /\ Left(c) = todo[c]
      BY <1>0, <2>1 DEF CallInv, Blocked, Told, Left
    <2>3. /\ Len(asked') = Len(asked) + 1 /\ DOMAIN asked' = 1..Len(asked')
          /\ asked'[Len(asked')].from = c /\ asked'[Len(asked')].command = Head(todo[c])
          /\ \A i \in 1..Len(asked) : asked'[i] = asked[i]
          /\ Len(asked) \in Nat /\ DOMAIN asked = 1..Len(asked)
      BY <2>1, EntryType
    <2>4. \A i \in DOMAIN asked' : i = Len(asked') \/ (i \in DOMAIN asked /\ asked'[i] = asked[i])
      BY <2>3
    <2>5. Head(todo[c]).name = "enable_nat" => nat = 0
      <3> SUFFICES ASSUME Head(todo[c]).name = "enable_nat" PROVE nat = 0
        OBVIOUS
      <3>1. stage[Main] = "init"
        <4>1. stage[Main] # "drop"
          BY <2>2, Heads, Names
        <4>2. c = Main
          <5> SUFFICES ASSUME c # Main PROVE FALSE
            OBVIOUS
          <5>1. \/ Head(todo[c]) = RootCommand("nic_available", Nobody)
                \/ Head(todo[c]) \in {FE(c), SE(c)} \/ Head(todo[c]) \in {FD(c), SD(c)}
            BY <2>2, Heads
          <5>2. RootCommand("nic_available", Nobody).name = "nic_available"
            BY DEF RootCommand
          <5> QED
            BY <5>1, <5>2, Names
        <4> QED
          BY <1>0, <2>2, <4>1, <4>2, Heads
      <3>2. /\ c = Main /\ Len(todo[c]) \in 1..7
            /\ Head(todo[c]) = RootCommand(InitNames[8 - Len(todo[c])], Nobody)
        BY <2>2, <3>1, Heads
      <3>3. InitNames[8 - Len(todo[c])] = "enable_nat"
        BY <3>2 DEF RootCommand
      <3>4. Len(todo[c]) = 3
        BY <3>2, <3>3, InitNamesAt
      <3> QED
        BY <2>2, <3>1, <3>2, <3>4 DEF TablesInv, NatInv
    <2>6. ASSUME NEW g \in Guests, Head(todo[c]) = FE(g) PROVE forward[g] = 0
      <3>1. stage[Main] \notin {"init", "drop"}
        <4>1. CASE stage[Main] = "init"
          <5>1. Len(todo[c]) \in 1..7
                  /\ Head(todo[c]) = RootCommand(InitNames[8 - Len(todo[c])], Nobody)
            BY <2>2, <4>1, Heads
          <5>2. Head(todo[c]).machine = Nobody /\ Head(todo[c]).machine = g
            BY <2>6, <5>1, Names DEF RootCommand
          <5> QED
            BY <1>0, <5>2, Constants
        <4>2. CASE stage[Main] = "drop"
          BY <2>2, <2>6, <4>2, Heads, Names
        <4> QED
          BY <4>1, <4>2
      <3>2. c \in Guests /\ stage[Main] = "free" /\ c # Main
        BY <1>0, <2>2, <3>1, Heads
      <3>3. stage[c] = "enable" /\ c = g
        BY <2>2, <2>6, <3>2, Heads, Names DEF RootCommand
      <3>4. interface[g] /\ RulesInv(g) /\ todo[c] # << >> /\ todo[c] \in Seq(Commands)
        BY <2>2, <3>2, <3>3 DEF TodoInv, GuestTodo, TablesInv, Calling, RooterTypeOK
      <3>5. Pends(FE(g), g)
        BY <2>2, <2>6, <3>3, <3>4, SeqTail DEF Pends, In
      <3> QED
        BY <2>2, <3>2, <3>3, <3>4, <3>5 DEF RulesInv, Has
    <2>7. ~named => Head(todo[c]).name # "srcroute_enable"
      <3> SUFFICES ASSUME ~named, Head(todo[c]).name = "srcroute_enable" PROVE FALSE
        OBVIOUS
      <3>1. stage[Main] # "drop"
        BY <2>2, Heads
      <3>2. stage[Main] # "init"
        <4> SUFFICES ASSUME stage[Main] = "init" PROVE FALSE
          OBVIOUS
        <4>1. Len(todo[c]) \in 1..7 /\ Head(todo[c]) = RootCommand(InitNames[8 - Len(todo[c])],
                Nobody)
          BY <2>2, Heads
        <4>2. InitNames[8 - Len(todo[c])] = "srcroute_enable"
          BY <4>1 DEF RootCommand
        <4> QED
          BY <4>1, <4>2, InitNamesAt
      <3>3. c \in Guests /\ c # Main
        BY <1>0, <2>2, <3>1, <3>2, Heads
      <3>a. \/ stage[c] = "probe" /\ Head(todo[c]) = RootCommand("nic_available", Nobody)
            \/ stage[c] = "enable"
            \/ stage[c] = "disable" /\ Head(todo[c]) \in {FD(c), SD(c)}
        BY <2>2, <3>3, Heads
      <3>b. RootCommand("nic_available", Nobody).name = "nic_available"
        BY DEF RootCommand
      <3>4. stage[c] = "enable"
        BY <3>a, <3>b, Names
      <3>5. Head(todo[c]) = FE(c)
        BY <2>2, <3>3, <3>4 DEF TodoInv, GuestTodo
      <3> QED
        BY <3>5, Names
    <2>8. \A i \in DOMAIN asked' : ~(stage[Main] \in {"connect", "failed"}) /\ (Stale(i)' =>
            i \in DOMAIN asked /\ Stale(i))
      BY <2>1, <2>2, <2>3, <2>4, Heads, Constants DEF Stale, Malformed
    <2>9. \A i \in DOMAIN asked' : Stale(i)' => stage'[Main] = "init" /\ todo'[Main] = InitCommands
      BY <2>1, <2>8 DEF QueueInv
    <2>10. \A i \in DOMAIN asked' : asked'[i].command.name = "enable_nat" => nat' = 0
      BY <2>1, <2>3, <2>4, <2>5 DEF QueueInv
    <2>11. \A i \in DOMAIN asked' : \A g \in Guests : asked'[i].command = FE(g) => forward'[g] = 0
      BY <2>1, <2>3, <2>4, <2>6 DEF QueueInv
    <2>12. ~named' => \A i \in DOMAIN asked' : asked'[i].command.name # "srcroute_enable"
      BY <2>1, <2>3, <2>4, <2>7 DEF QueueInv
    <2> QED
      BY <2>9, <2>10, <2>11, <2>12 DEF QueueInv
  <1>5. ASSUME NEW c \in Callers, Receive(c) PROVE QueueInv'
    BY <1>5, <1>e DEF Receive, CallInv, Told
  <1>6. ASSUME NEW g \in Guests, Route(g) PROVE QueueInv'
    BY <1>0, <1>6, <1>f DEF Route, tables, RooterTypeOK
  <1>7. ASSUME NEW g \in Guests, Probed(g) PROVE QueueInv'
    BY <1>0, <1>7, <1>f DEF Probed, tables, RooterTypeOK
  <1>8. ASSUME NEW g \in Guests, Enabled(g) PROVE QueueInv'
    BY <1>0, <1>8, <1>f DEF Enabled, tables, RooterTypeOK
  <1>9. ASSUME NEW g \in Guests, Unroute(g) PROVE QueueInv'
    BY <1>0, <1>9, <1>f DEF Unroute, tables, RooterTypeOK
  <1>10. ASSUME NEW g \in Guests, Disabled(g) PROVE QueueInv'
    BY <1>0, <1>10, <1>f DEF Disabled, tables, RooterTypeOK
  <1>11. ASSUME Serve PROVE QueueInv'
    <2>1. CASE Malformed(Head(asked).command) /\ asked' = Tail(asked) /\ UNCHANGED tables
      <3>1. UNCHANGED <<named, stage, todo, forward, nat>> /\ asked # << >>
        BY <1>11, <2>1, ServeCases DEF tables
      <3>2. \A i \in DOMAIN asked' : i + 1 \in DOMAIN asked /\ asked'[i] = asked[i + 1]
        BY <2>1, <3>1, Queue
      <3>3. \A i \in DOMAIN asked' : Stale(i)' = Stale(i + 1)
        BY <3>1, <3>2 DEF Stale, Malformed
      <3> QED
        BY <3>1, <3>2, <3>3 DEF QueueInv
    <2> QED
      BY <1>11, <1>e, <2>1, ServeCases
  <1>12. ASSUME InitRooter PROVE QueueInv'
    <2>1. UNCHANGED <<asked, named, forward, nat>>
      BY <1>12 DEF InitRooter, tables
    <2>2. stage'[Main] = "failed" \/ (stage'[Main] = "init" /\ todo'[Main] = InitCommands)
      BY <1>0, <1>12 DEF InitRooter, RooterTypeOK
    <2> QED
      BY <2>1, <2>2 DEF QueueInv
  <1>13. ASSUME InitStep PROVE QueueInv'
    <2>1. UNCHANGED <<asked, named, forward, nat>> /\ stage[Main] = "init"
      BY <1>13 DEF InitStep, tables
    <2>a. Len(InitCommands) \notin {4, 5} /\ InitCommands # << >>
      <3>1. Len(InitCommands) = 7 /\ Len(<< >>) = 0
        BY InitCommandsType
      <3> QED
        BY <3>1
    <2>2. todo[Main] = InitCommands => UNCHANGED <<stage, todo>>
      BY <1>13, <2>a DEF InitStep
    <2> QED
      BY <2>1, <2>2 DEF QueueInv, Stale, Malformed
  <1>14. ASSUME DropStep PROVE QueueInv'
    <2>1. UNCHANGED <<asked, named, forward, nat>> /\ stage[Main] = "drop"
      BY <1>14 DEF DropStep, tables
    <2> QED
      BY <2>1 DEF QueueInv, Stale, Malformed
  <1>15. ASSUME NicChanges PROVE QueueInv'
    BY <1>0, <1>15, <1>f DEF NicChanges, tables, RooterTypeOK
  <1>16. ASSUME ServerDies PROVE QueueInv'
    BY <1>16, <1>e DEF ServerDies
  <1>17. ASSUME ServerStarts PROVE QueueInv'
    BY <1>0, <1>17, <1>f DEF ServerStarts, tables, RooterTypeOK
  <1>18. ASSUME CuckooStarts PROVE QueueInv'
    <2>1. UNCHANGED <<named, forward, nat>> /\ stage'[Main] = "connect"
      BY <1>0, <1>18 DEF CuckooStarts, Starts, tables
    <2>2. asked' = [i \in DOMAIN asked |-> [asked[i] EXCEPT !.from = Nobody]]
      BY <1>18 DEF CuckooStarts
    <2>3. DOMAIN asked' = DOMAIN asked /\ \A i \in DOMAIN asked :
            asked'[i].command = asked[i].command
      BY <2>2, EntryType DEF Entries
    <2> QED
      BY <2>1, <2>3 DEF QueueInv
  <1>19. CASE UNCHANGED rvars
    BY <1>19, <1>f DEF rvars, tables
  <1> QED
    BY <1>1, <1>2, <1>3, <1>4, <1>5, <1>6, <1>7, <1>8, <1>9, <1>10, <1>11, <1>12, <1>13,
       <1>14, <1>15, <1>16, <1>17, <1>18, <1>19 DEF RooterNext, Call, Thread

(* What is in at most two commands *)
LEMMA InShort ==
  ASSUME NEW x
  PROVE  /\ ~In(x, << >>) /\ \A a : In(x, <<a>>) <=> x = a
         /\ \A a, b : In(x, <<a, b>>) <=> x = a \/ x = b
  <1>1. ~In(x, << >>)
    BY DEF In
  <1>2. ASSUME NEW a PROVE In(x, <<a>>) <=> x = a
    BY DEF In
  <1>3. ASSUME NEW a, NEW b PROVE In(x, <<a, b>>) <=> x = a \/ x = b
    <2>1. Len(<<a, b>>) = 2 /\ <<a, b>>[1] = a /\ <<a, b>>[2] = b /\ 1..2 = {1, 2}
      OBVIOUS
    <2> QED
      BY <2>1 DEF In
  <1> QED
    BY <1>1, <1>2, <1>3

(* What one command does to the tables. *)
LEMMA ServedRules ==
  ASSUME RooterTypeOK, NEW command \in Commands, Served(command), NEW g \in Guests
  PROVE  /\ forward'[g] = IF command = FE(g) THEN forward[g] + 1
                          ELSE IF command = FD(g) THEN Less(forward[g])
                             ELSE forward[g]
         /\ srcroute'[g] = IF command = SE(g) THEN srcroute[g] + 1
                           ELSE IF command = SD(g) THEN Less(srcroute[g])
                             ELSE srcroute[g]
  <1>1. /\ forward' = Changed(forward, command, "forward_enable", "forward_disable")
        /\ srcroute' = Changed(srcroute, command, "srcroute_enable", "srcroute_disable")
    BY DEF Served
  <1>2. CASE g # command.machine
    <2>1. command \notin {FE(g), FD(g), SE(g), SD(g)}
      BY <1>2, Names
    <2> QED
      BY <1>1, <1>2, <2>1 DEF Changed
  <1>3. CASE g = command.machine
    <2>1. /\ command.name = "forward_enable" <=> command = FE(g)
          /\ command.name = "forward_disable" <=> command = FD(g)
          /\ command.name = "srcroute_enable" <=> command = SE(g)
          /\ command.name = "srcroute_disable" <=> command = SD(g)
      BY <1>3, Names
    <2>2. forward'[g] = IF command.name = "forward_enable" THEN forward[g] + 1
                          ELSE IF command.name = "forward_disable" THEN Less(forward[g])
                             ELSE forward[g]
      BY <1>1, <1>3 DEF Changed
    <2>3. srcroute'[g] = IF command.name = "srcroute_enable" THEN srcroute[g] + 1
                          ELSE IF command.name = "srcroute_disable" THEN Less(srcroute[g])
                             ELSE srcroute[g]
      BY <1>1, <1>3 DEF Changed
    <2> QED
      BY <2>1, <2>2, <2>3
  <1> QED
    BY <1>2, <1>3

(* A rule is only added where there is none. *)
LEMMA ServedBounds ==
  ASSUME RooterTypeOK, QueueInv, TablesInv, asked # << >>, ~Malformed(Head(asked).command),
         Served(Head(asked).command)
  PROVE  /\ nat' <= 1 /\ (Head(asked).command.name = "disable_nat" => nat' = 0)
         /\ \A g \in Guests : forward'[g] <= 1 /\ (~named => forward'[g] = 0 /\ srcroute'[g] = 0)
  <1> DEFINE command == Head(asked).command
  <1>1. command \in Commands /\ command = asked[1].command /\ 1 \in DOMAIN asked
    BY Queue
  <1>2. nat \in Nat /\ nat <= 1 /\ Less(nat) = 0
    BY DEF RooterTypeOK, TablesInv, NatInv, Less
  <1>3. nat' <= 1 /\ (command.name = "disable_nat" => nat' = 0)
    <2>1. command.name = "enable_nat" => nat = 0
      BY <1>1 DEF QueueInv
    <2> QED
      BY <1>2, <2>1 DEF Served
  <1>4. ASSUME NEW g \in Guests
        PROVE  forward'[g] <= 1 /\ (~named => forward'[g] = 0 /\ srcroute'[g] = 0)
    <2>1. forward[g] \in Nat /\ forward[g] <= 1 /\ Less(forward[g]) = 0 /\ Less(0) = 0
      BY DEF RooterTypeOK, TablesInv, RulesInv, Less
    <2>2. command = FE(g) => forward[g] = 0
      BY <1>1 DEF QueueInv
    <2>3. ~named => command \notin {FE(g), FD(g), SE(g)}
      BY <1>1, Names DEF QueueInv, Malformed
    <2>4. ~named => forward[g] = 0 /\ srcroute[g] = 0
      BY DEF TablesInv, RulesInv
    <2> QED
      BY <1>1, <2>1, <2>2, <2>3, <2>4, ServedRules
  <1> QED
    BY <1>3, <1>4

(* What leaves the commands still to be given, and the tables, alone. *)
LEMMA TablesFrame ==
  ASSUME TablesInv, UNCHANGED <<tables, stage, interface, rtable, named>>, Blocked => Blocked',
         mishaps' = 0 => mishaps = 0, \A c \in Callers : Left(c)' = Left(c)
  PROVE  TablesInv'
  <1>1. NatInv'
    BY Constants DEF TablesInv, NatInv, tables
  <1>2. ASSUME NEW g \in Guests PROVE RulesInv(g)'
    <2>1. g \in Callers /\ Left(g)' = Left(g) /\ Left(Main)' = Left(Main) /\ RulesInv(g)
      BY Constants DEF TablesInv
    <2>2. \A x : (Pends(x, g)' <=> Pends(x, g)) /\ (Pends(x, Main)' <=> Pends(x, Main))
      BY <2>1 DEF Pends
    <2> QED
      BY <2>1, <2>2 DEF RulesInv, Has, tables
  <1> QED
    BY <1>1, <1>2 DEF TablesInv

(* A command of a thread is done. *)
LEMMA GuestServed ==
  ASSUME RooterTypeOK, CallInv, StageInv, ServerInv, TodoInv, TablesInv, NEW c \in Guests,
          Calling(c),
         stage[Main] = "free", named,
         UNCHANGED <<stage, interface, rtable, named, mishaps>>, Blocked => Blocked',
         Left(c) = todo[c], Left(c)' = Tail(todo[c]),
         Served(Head(todo[c])), Head(todo[c]) \in Commands
  PROVE  /\ ~Blocked' => Has(forward, interface, FE(c), FD(c), c)'
         /\ mishaps' = 0 => Has(srcroute, rtable, SE(c), SD(c), c)'
  <1>1. /\ stage[c] \in {"probe", "enable", "disable"} /\ GuestTodo(c) /\ todo[c] # << >>
          /\ c # Main
        /\ RulesInv(c)
    BY Constants DEF Calling, StageInv, TodoInv, TablesInv
  <1>2. /\ forward'[c] = IF Head(todo[c]) = FE(c) THEN forward[c] + 1
                         ELSE IF Head(todo[c]) = FD(c) THEN Less(forward[c]) ELSE forward[c]
        /\ srcroute'[c] = IF Head(todo[c]) = SE(c) THEN srcroute[c] + 1
                          ELSE IF Head(todo[c]) = SD(c) THEN Less(srcroute[c]) ELSE srcroute[c]
    BY ServedRules
  <1>3. Less(1) = 0 /\ 0 + 1 = 1
    BY DEF Less
  <1>4. /\ ~Blocked' => Has(forward, interface, FE(c), FD(c), c)
        /\ mishaps' = 0 => Has(srcroute, rtable, SE(c), SD(c), c)
    BY <1>1 DEF RulesInv
  <1>5. CASE stage[c] = "probe"
    <2>1. Head(todo[c]).name = "nic_available"
      BY <1>1, <1>5, Tails DEF GuestTodo, RootCommand
    <2>2. forward'[c] = forward[c] /\ srcroute'[c] = srcroute[c]
      BY <1>2, <2>1, Names
    <2> QED
      BY <1>4, <1>5, <2>2 DEF Has
  <1>6. CASE stage[c] = "enable"
    <2>1. \/ todo[c] = <<FE(c), SE(c)>> /\ rtable[c]
          \/ todo[c] = <<SE(c)>> /\ rtable[c]
          \/ todo[c] = <<FE(c)>> /\ ~rtable[c]
      BY <1>1, <1>6 DEF GuestTodo
    <2>2. FE(c) # SE(c) /\ FE(c) # FD(c) /\ SE(c) # FD(c) /\ FE(c) # SD(c) /\ SE(c) # SD(c)
      BY Names
    <2>3. CASE todo[c] = <<FE(c), SE(c)>> /\ rtable[c]
      <3>1. Head(todo[c]) = FE(c) /\ Left(c)' = <<SE(c)>>
        BY <2>3, Tails
      <3>2. Pends(FE(c), c) /\ Pends(SE(c), c) /\ ~Pends(FE(c), c)' /\ Pends(SE(c), c)'
        <4>1. Pends(FE(c), c) /\ Pends(SE(c), c)
          <5>1. In(FE(c), <<FE(c), SE(c)>>) /\ In(SE(c), <<FE(c), SE(c)>>)
            BY InShort, Zenon
          <5> QED
            BY <2>3, <5>1, Zenon DEF Pends
        <4>2. ~Pends(FE(c), c)' /\ Pends(SE(c), c)'
          <5>1. ~In(FE(c), <<SE(c)>>) /\ In(SE(c), <<SE(c)>>)
            BY <2>2, InShort, Zenon
          <5> QED
            BY <3>1, <5>1 DEF Pends, In
        <4> QED
          BY <4>1, <4>2
      <3>3. (~Blocked' => forward[c] = 0) /\ (mishaps' = 0 => srcroute[c] = 0)
        BY <1>4, <1>6, <1>1, <2>3, <3>2 DEF Has, GuestTodo
      <3>4. (~Blocked' => forward'[c] = 1) /\ (mishaps' = 0 => srcroute'[c] = 0)
        BY <1>2, <1>3, <2>2, <3>1, <3>3
      <3> QED
        BY <1>6, <1>1, <2>3, <3>2, <3>4 DEF Has, GuestTodo
    <2>4. CASE todo[c] = <<SE(c)>> /\ rtable[c]
      <3>1. Head(todo[c]) = SE(c) /\ Left(c)' = << >>
        BY <2>4, Tails
      <3>a. ~In(FE(c), <<SE(c)>>) /\ In(SE(c), <<SE(c)>>) /\ ~In(FE(c), << >>) /\ ~In(SE(c), << >>)
        BY <2>2, InShort
      <3>2. ~Pends(FE(c), c) /\ Pends(SE(c), c) /\ ~Pends(FE(c), c)' /\ ~Pends(SE(c), c)'
        BY <2>4, <3>1, <3>a DEF Pends
      <3>3. (~Blocked' => forward[c] = 1) /\ (mishaps' = 0 => srcroute[c] = 0)
        BY <1>4, <1>6, <1>1, <2>4, <3>2 DEF Has, GuestTodo
      <3>4. (~Blocked' => forward'[c] = 1) /\ (mishaps' = 0 => srcroute'[c] = 1)
        BY <1>2, <1>3, <2>2, <3>1, <3>3
      <3> QED
        BY <1>6, <1>1, <2>4, <3>2, <3>4 DEF Has, GuestTodo
    <2>5. CASE todo[c] = <<FE(c)>> /\ ~rtable[c]
      <3>1. Head(todo[c]) = FE(c) /\ Left(c)' = << >>
        BY <2>5, Tails
      <3>2. Pends(FE(c), c) /\ ~Pends(FE(c), c)'
        BY <2>2, <2>5, <3>1, InShort DEF Pends
      <3>3. (~Blocked' => forward[c] = 0) /\ (mishaps' = 0 => srcroute[c] = 0)
        BY <1>4, <1>6, <1>1, <2>5, <3>2 DEF Has, GuestTodo
      <3>4. (~Blocked' => forward'[c] = 1) /\ (mishaps' = 0 => srcroute'[c] = 0)
        BY <1>2, <1>3, <2>2, <3>1, <3>3
      <3> QED
        BY <1>6, <1>1, <2>5, <3>2, <3>4 DEF Has, GuestTodo
    <2> QED
      BY <2>1, <2>3, <2>4, <2>5
  <1>7. CASE stage[c] = "disable"
    <2>1. \/ todo[c] = <<FD(c), SD(c)>> /\ rtable[c]
          \/ todo[c] = <<SD(c)>> /\ rtable[c]
          \/ todo[c] = <<FD(c)>> /\ ~rtable[c]
      BY <1>1, <1>7 DEF GuestTodo
    <2>2. FD(c) # SD(c) /\ FE(c) # FD(c) /\ SE(c) # FD(c) /\ FE(c) # SD(c) /\ SE(c) # SD(c)
      BY Names
    <2>3. CASE todo[c] = <<FD(c), SD(c)>> /\ rtable[c]
      <3>1. Head(todo[c]) = FD(c) /\ Left(c)' = <<SD(c)>>
        BY <2>3, Tails
      <3>2. Pends(FD(c), c) /\ Pends(SD(c), c) /\ ~Pends(FD(c), c)' /\ Pends(SD(c), c)'
        BY <2>2, <2>3, <3>1, InShort DEF Pends
      <3>3. (~Blocked' => forward[c] = 1) /\ (mishaps' = 0 => srcroute[c] = 1)
        BY <1>4, <1>7, <1>1, <2>3, <3>2 DEF Has, GuestTodo
      <3>4. (~Blocked' => forward'[c] = 0) /\ (mishaps' = 0 => srcroute'[c] = 1)
        BY <1>2, <1>3, <2>2, <3>1, <3>3
      <3> QED
        BY <1>7, <1>1, <2>3, <3>2, <3>4 DEF Has, GuestTodo
    <2>4. CASE todo[c] = <<SD(c)>> /\ rtable[c]
      <3>1. Head(todo[c]) = SD(c) /\ Left(c)' = << >>
        BY <2>4, Tails
      <3>2. ~Pends(FD(c), c) /\ Pends(SD(c), c) /\ ~Pends(FD(c), c)' /\ ~Pends(SD(c), c)'
        BY <2>2, <2>4, <3>1, InShort DEF Pends
      <3>3. (~Blocked' => forward[c] = 0) /\ (mishaps' = 0 => srcroute[c] = 1)
        BY <1>4, <1>7, <1>1, <2>4, <3>2 DEF Has, GuestTodo
      <3>4. (~Blocked' => forward'[c] = 0) /\ (mishaps' = 0 => srcroute'[c] = 0)
        BY <1>2, <1>3, <2>2, <3>1, <3>3
      <3> QED
        BY <1>7, <1>1, <2>4, <3>2, <3>4 DEF Has, GuestTodo
    <2>5. CASE todo[c] = <<FD(c)>> /\ ~rtable[c]
      <3>1. Head(todo[c]) = FD(c) /\ Left(c)' = << >>
        BY <2>5, Tails
      <3>2. Pends(FD(c), c) /\ ~Pends(FD(c), c)'
        BY <2>2, <2>5, <3>1, InShort DEF Pends
      <3>3. (~Blocked' => forward[c] = 1) /\ (mishaps' = 0 => srcroute[c] = 0)
        BY <1>4, <1>7, <1>1, <2>5, <3>2 DEF Has, GuestTodo
      <3>4. (~Blocked' => forward'[c] = 0) /\ (mishaps' = 0 => srcroute'[c] = 0)
        BY <1>2, <1>3, <2>2, <3>1, <3>3
      <3> QED
        BY <1>7, <1>1, <2>5, <3>2, <3>4 DEF Has, GuestTodo
    <2> QED
      BY <2>1, <2>3, <2>4, <2>5
  <1> QED
    BY <1>1, <1>5, <1>6, <1>7

(* Every machine has its rules dropped. *)
LEMMA EveryDropped ==
  ASSUME named, NEW drops \in Dropped, NEW g \in Guests
  PROVE  drops # << >> /\ In(FD(g), drops)
  <1>1. PICK q \in Drops : drops = [i \in DOMAIN q |-> RootCommand("forward_disable", q[i])]
    BY DEF Dropped
  <1>2. Cardinality(Guests) \in Nat /\ IsFiniteSet(Guests)
    BY RooterAssumption, FS_CardinalityType
  <1>3. /\ q \in [1..Cardinality(Guests) -> Guests]
        /\ \A a, b \in 1..Cardinality(Guests) : q[a] = q[b] => a = b
    BY DEF Drops, IsInjective
  <1>4. IsFiniteSet(1..Cardinality(Guests))
          /\ Cardinality(1..Cardinality(Guests)) = Cardinality(Guests)
    BY <1>2, FS_Interval
  <1>5. q \in Injection(1..Cardinality(Guests), Guests)
    BY <1>3 DEF Injection, IsInjective
  <1>6. \E k \in 1..Cardinality(Guests) : q[k] = g
    BY <1>2, <1>4, <1>5, FS_Injection DEF Surjection
  <1>7. Len(drops) = Cardinality(Guests) /\ \A k \in 1..Cardinality(Guests) : drops[k] = FD(q[k])
    BY <1>1, <1>2, <1>3 DEF FD
  <1> QED
    BY <1>2, <1>6, <1>7 DEF In

(* One step per action: the rules are those of the stage of the thread. *)
LEMMA TablesStep ==
  ASSUME RooterTypeOK, CallInv, LiveInv, StageInv, ServerInv, TodoInv, QueueInv, TablesInv,
          [RooterNext]_rvars,
         RooterTypeOK'
  PROVE  TablesInv'
  <1>0. Callers = Guests \cup {Main} /\ Main \in Callers /\ Guests \subseteq Callers
          /\ Main \notin Guests
    BY Constants
  <1>a. Goes => (Blocked => Blocked')
    BY BlockedStays
  <1>b. \A c \in Callers : cpc[c] = "idle" => Left(c) = todo[c]
    BY DEF Left, Told
  <1>d. mishaps \in Nat
    BY RooterAssumption DEF RooterTypeOK
  <1>h. \A c \in Callers : stage[c] \notin {"init", "drop", "probe", "enable", "disable"} =>
          cpc[c] = "idle"
    BY DEF Calling, CallInv
  <1>m. ASSUME UNCHANGED <<tables, named, mishaps>>, stage'[Main] # "free", stage[Main] # "free",
               \A g \in Guests : stage'[g] = "wait", NatInv',
               stage'[Main] = "drop" => \A g \in Guests : named =>
                       Blocked' \/ forward'[g] = 0 \/ Pends(FD(g), Main)'
        PROVE  TablesInv'
    <2>1. ASSUME NEW g \in Guests PROVE RulesInv(g)'
      <3>1. stage[g] = "wait" /\ stage'[g] = "wait" /\ RulesInv(g)
        BY <1>m DEF StageInv, TablesInv
      <3>2. named /\ mishaps = 0 => srcroute[g] = 0
        BY <3>1 DEF RulesInv, Has
      <3> QED
        BY <1>m, <3>1, <3>2 DEF RulesInv, Has, tables
    <2> QED
      BY <1>m, <2>1 DEF TablesInv
  <1>t. ASSUME NEW h \in Guests, UNCHANGED <<tables, named, mishaps, cpc, stage[Main],
          todo[Main], answer[Main]>>,
               stage[Main] = "free", Blocked => Blocked', cpc[h] = "idle",
               \A g \in Guests : g # h => UNCHANGED <<todo[g], stage[g], interface[g],
                       rtable[g], answer[g]>>,
               named /\ ~Blocked' => Has(forward, interface, FE(h), FD(h), h)',
               named /\ mishaps = 0 => Has(srcroute, rtable, SE(h), SD(h), h)'
        PROVE  TablesInv'
    <2>1. NatInv'
      BY <1>t DEF TablesInv, NatInv, tables
    <2>2. RulesInv(h)'
      BY <1>t DEF TablesInv, RulesInv, tables
    <2>3. ASSUME NEW g \in Guests, g # h PROVE RulesInv(g)'
      <3>1. Left(g)' = Left(g)
        BY <1>t, <2>3 DEF Left, Told
      <3>2. \A x : Pends(x, g)' <=> Pends(x, g)
        BY <3>1 DEF Pends
      <3>3. RulesInv(g) /\ UNCHANGED <<stage[g], interface[g], rtable[g]>>
        BY <1>t, <2>3 DEF TablesInv
      <3> QED
        BY <1>t, <3>2, <3>3 DEF RulesInv, Has, tables
    <2> QED
      BY <2>1, <2>2, <2>3 DEF TablesInv
  <1>1. ASSUME NEW c \in Callers, NoSocket(c) PROVE TablesInv'
    BY <1>1, CallersServed DEF NoSocket
  <1>2. ASSUME NEW c \in Callers, Lock(c) PROVE TablesInv'
    <2>1. /\ UNCHANGED <<tables, stage, interface, rtable, named, todo, answer, mishaps>>
            /\ answer[c] = "none"
          /\ cpc' = [cpc EXCEPT ![c] = "send"]
      BY <1>2 DEF Lock, bounds
    <2>2. Blocked => Blocked'
      BY <1>a, <1>2 DEF Goes, Call
    <2>3. \A d \in Callers : Left(d)' = Left(d)
      BY <2>1 DEF Left, Told, RooterTypeOK
    <2> QED
      BY <2>1, <2>2, <2>3, TablesFrame
  <1>3. ASSUME NEW c \in Callers, Refused(c) PROVE TablesInv'
    <2>1. UNCHANGED <<tables, stage, named>> /\ Blocked' /\ mishaps' # 0
      BY <1>3, RefusedBlocks DEF Refused
    <2> QED
      BY <2>1 DEF TablesInv, NatInv, RulesInv, tables
  <1>4. ASSUME NEW c \in Callers, Send(c) PROVE TablesInv'
    <2>1. /\ UNCHANGED <<tables, stage, interface, rtable, named, todo, answer, mishaps>>
            /\ answer[c] = "none"
          /\ cpc' = [cpc EXCEPT ![c] = "recv"]
      BY <1>4 DEF Send, bounds, CallInv
    <2>2. Blocked => Blocked'
      BY <1>a, <1>4 DEF Goes, Call
    <2>3. \A d \in Callers : Left(d)' = Left(d)
      BY <2>1 DEF Left, Told, RooterTypeOK
    <2> QED
      BY <2>1, <2>2, <2>3, TablesFrame
  <1>5. ASSUME NEW c \in Callers, Receive(c) PROVE TablesInv'
    <2>1. /\ UNCHANGED <<tables, stage, interface, rtable, named, answer, mishaps>> /\ Told(c)
          /\ cpc' = [cpc EXCEPT ![c] = "idle"] /\ todo' = [todo EXCEPT ![c] = Tail(@)]
      BY <1>5 DEF Receive, bounds, Told
    <2>2. Blocked => Blocked'
      BY <1>a, <1>5 DEF Goes, Call
    <2>3. \A d \in Callers : Left(d)' = Left(d)
      BY <2>1 DEF Left, Told, RooterTypeOK
    <2> QED
      BY <2>1, <2>2, <2>3, TablesFrame
  <1>6. ASSUME NEW g \in Guests, Route(g) PROVE TablesInv'
    <2>3. /\ UNCHANGED <<tables, named, cpc, mishaps>> /\ stage[Main] = "free" /\ cpc[g] = "idle"
          /\ (Blocked => Blocked') /\ RulesInv(g) /\ GuestTodo(g)
      BY <1>0, <1>a, <1>h, <1>6 DEF Goes, Thread, Route, Ready, TablesInv, TodoInv, StageInv, bounds
    <2>i. Left(g) = todo[g] /\ Left(g)' = todo'[g]
      BY <1>0, <2>3 DEF Left, Told
    <2>1. stage[g] = "free" /\ (stage'[g] = "probe" \/ (stage'[g] = "analyse"
            /\ ~interface'[g] /\ ~rtable'[g]))
      BY <1>0, <1>6 DEF Route, RooterTypeOK
    <2>2. /\ named /\ ~Blocked => forward[g] = 0
          /\ named /\ mishaps = 0 => srcroute[g] = 0
      BY <2>1, <2>3 DEF RulesInv, Has
    <2>4. named /\ ~Blocked' => Has(forward, interface, FE(g), FD(g), g)'
      BY <2>1, <2>2, <2>3 DEF Has, tables
    <2>5. named /\ mishaps = 0 => Has(srcroute, rtable, SE(g), SD(g), g)'
      BY <2>1, <2>2, <2>3 DEF Has, tables
    <2>6. /\ UNCHANGED <<tables, named, mishaps, cpc>> /\ stage[Main] = "free"
          /\ UNCHANGED <<stage[Main], todo[Main], answer[Main]>>
      BY <1>0, <1>6 DEF Route, NextCall, bounds, RooterTypeOK, StageInv
    <2>7. cpc[g] = "idle" /\ (Blocked => Blocked')
      BY <1>0, <1>a, <1>h, <1>6 DEF Goes, Thread, Route, Ready
    <2>8. \A h \in Guests : h # g => UNCHANGED <<todo[h], stage[h], interface[h], rtable[h],
            answer[h]>>
      BY <1>0, <1>6 DEF Route, NextCall, RooterTypeOK
    <2> QED
      BY <1>t, <2>4, <2>5, <2>6, <2>7, <2>8
  <1>7. ASSUME NEW g \in Guests, Probed(g) PROVE TablesInv'
    <2>3. /\ UNCHANGED <<tables, named, cpc, mishaps>> /\ stage[Main] = "free" /\ cpc[g] = "idle"
          /\ (Blocked => Blocked') /\ RulesInv(g) /\ GuestTodo(g)
      BY <1>0, <1>a, <1>h, <1>7 DEF Goes, Thread, Probed, Ready, TablesInv, TodoInv, StageInv,
              bounds
    <2>i. Left(g) = todo[g] /\ Left(g)' = todo'[g]
      BY <1>0, <2>3 DEF Left, Told
    <2>1. /\ stage[g] = "probe"
          /\ \/ /\ stage'[g] = "enable" /\ todo'[g] = Enabling(g) /\ UNCHANGED <<interface, rtable>>
             \/ stage'[g] = "analyse" /\ ~interface'[g] /\ ~rtable'[g]
      BY <1>0, <1>7 DEF Probed, RooterTypeOK
    <2>2. /\ named /\ ~Blocked => forward[g] = 0
          /\ named /\ mishaps = 0 => srcroute[g] = 0
      BY <2>1, <2>3 DEF RulesInv, Has
    <2>a. In(FE(g), Enabling(g)) /\ (rtable[g] => In(SE(g), Enabling(g)))
      <3>1. Enabling(g) = IF rtable[g] THEN <<FE(g), SE(g)>> ELSE <<FE(g)>>
        BY Tails DEF Enabling, FE, SE
      <3> QED
        BY <3>1, InShort
    <2>4. named /\ ~Blocked' => Has(forward, interface, FE(g), FD(g), g)'
      BY <2>1, <2>2, <2>3, <2>i, <2>a DEF Has, tables, Pends
    <2>5. named /\ mishaps = 0 => Has(srcroute, rtable, SE(g), SD(g), g)'
      BY <2>1, <2>2, <2>3, <2>i, <2>a DEF Has, tables, Pends
    <2>6. /\ UNCHANGED <<tables, named, mishaps, cpc>> /\ stage[Main] = "free"
          /\ UNCHANGED <<stage[Main], todo[Main], answer[Main]>>
      BY <1>0, <1>7 DEF Probed, NextCall, bounds, RooterTypeOK, StageInv
    <2>7. cpc[g] = "idle" /\ (Blocked => Blocked')
      BY <1>0, <1>a, <1>h, <1>7 DEF Goes, Thread, Probed, Ready
    <2>8. \A h \in Guests : h # g => UNCHANGED <<todo[h], stage[h], interface[h], rtable[h],
            answer[h]>>
      <3>1. /\ todo' \in {todo, [todo EXCEPT ![g] = Enabling(g)]}
              /\ answer' = [answer EXCEPT ![g] = "none"]
            /\ stage' \in {[stage EXCEPT ![g] = "enable"], [stage EXCEPT ![g] = "analyse"]}
            /\ interface' \in {interface, [interface EXCEPT ![g] = FALSE]}
            /\ rtable' \in {rtable, [rtable EXCEPT ![g] = FALSE]}
        BY <1>7 DEF Probed, NextCall
      <3>2. \A h \in Guests : h # g => UNCHANGED <<todo[h], answer[h], stage[h]>>
        BY <1>0, <3>1 DEF RooterTypeOK
      <3>a. interface \in [Guests -> BOOLEAN] /\ rtable \in [Guests -> BOOLEAN]
        BY DEF RooterTypeOK
      <3>3. \A h \in Guests : h # g => interface'[h] = interface[h]
        BY <3>1, <3>a
      <3>4. \A h \in Guests : h # g => rtable'[h] = rtable[h]
        BY <3>1, <3>a
      <3> QED
        BY <3>2, <3>3, <3>4
    <2> QED
      BY <1>t, <2>4, <2>5, <2>6, <2>7, <2>8
  <1>8. ASSUME NEW g \in Guests, Enabled(g) PROVE TablesInv'
    <2>3. /\ UNCHANGED <<tables, named, cpc, mishaps>> /\ stage[Main] = "free" /\ cpc[g] = "idle"
          /\ (Blocked => Blocked') /\ RulesInv(g) /\ GuestTodo(g)
      BY <1>0, <1>a, <1>h, <1>8 DEF Goes, Thread, Enabled, Ready, TablesInv, TodoInv, StageInv,
              bounds
    <2>i. Left(g) = todo[g] /\ Left(g)' = todo'[g]
      BY <1>0, <2>3 DEF Left, Told
    <2>1. /\ stage[g] = "enable" /\ UNCHANGED <<todo, interface, rtable>>
          /\ \/ todo[g] = << >> /\ stage'[g] = "analyse"
             \/ UNCHANGED stage[g]
      BY <1>0, <1>8 DEF Enabled, RooterTypeOK
    <2>2. /\ named /\ ~Blocked => Has(forward, interface, FE(g), FD(g), g)
          /\ named /\ mishaps = 0 => Has(srcroute, rtable, SE(g), SD(g), g)
          /\ \A x : Pends(x, g)' <=> Pends(x, g)
      BY <2>1, <2>3, <2>i DEF RulesInv, Pends
    <2>a. todo[g] = << >> => \A x : ~Pends(x, g)
      BY <2>i, InShort DEF Pends
    <2>4. named /\ ~Blocked' => Has(forward, interface, FE(g), FD(g), g)'
      BY <2>1, <2>2, <2>3, <2>a DEF Has, tables
    <2>5. named /\ mishaps = 0 => Has(srcroute, rtable, SE(g), SD(g), g)'
      BY <2>1, <2>2, <2>3, <2>a DEF Has, tables
    <2>6. /\ UNCHANGED <<tables, named, mishaps, cpc>> /\ stage[Main] = "free"
          /\ UNCHANGED <<stage[Main], todo[Main], answer[Main]>>
      BY <1>0, <1>8 DEF Enabled, NextCall, bounds, RooterTypeOK, StageInv
    <2>7. cpc[g] = "idle" /\ (Blocked => Blocked')
      BY <1>0, <1>a, <1>h, <1>8 DEF Goes, Thread, Enabled, Ready
    <2>8. \A h \in Guests : h # g => UNCHANGED <<todo[h], stage[h], interface[h], rtable[h],
            answer[h]>>
      BY <1>0, <1>8 DEF Enabled, NextCall, RooterTypeOK
    <2> QED
      BY <1>t, <2>4, <2>5, <2>6, <2>7, <2>8
  <1>9. ASSUME NEW g \in Guests, Unroute(g) PROVE TablesInv'
    <2>3. /\ UNCHANGED <<tables, named, cpc, mishaps>> /\ stage[Main] = "free" /\ cpc[g] = "idle"
          /\ (Blocked => Blocked') /\ RulesInv(g) /\ GuestTodo(g)
      BY <1>0, <1>a, <1>h, <1>9 DEF Goes, Thread, Unroute, Ready, TablesInv, TodoInv, StageInv,
              bounds
    <2>i. Left(g) = todo[g] /\ Left(g)' = todo'[g]
      BY <1>0, <2>3 DEF Left, Told
    <2>1. /\ stage[g] = "analyse" /\ UNCHANGED <<interface, rtable>> /\ todo'[g] = Disabling(g)
          /\ stage'[g] = IF Disabling(g) = << >> THEN "free" ELSE "disable"
      BY <1>0, <1>9 DEF Unroute, RooterTypeOK
    <2>a. /\ interface[g] => Disabling(g) # << >> /\ In(FD(g), Disabling(g))
          /\ rtable[g] => Disabling(g) # << >> /\ In(SD(g), Disabling(g))
          /\ ~interface[g] => ~rtable[g]
      <3>1. interface[g] => Disabling(g) = IF rtable[g] THEN <<FD(g), SD(g)>> ELSE <<FD(g)>>
        BY Tails DEF Disabling, FD, SD
      <3>2. ~interface[g] => ~rtable[g]
        BY DEF StageInv
      <3>3. In(FD(g), <<FD(g)>>) /\ In(FD(g), <<FD(g), SD(g)>>) /\ In(SD(g), <<FD(g), SD(g)>>)
        BY InShort
      <3> QED
        BY <3>1, <3>2, <3>3, Tails
    <2>2. /\ named /\ ~Blocked => forward[g] = IF interface[g] THEN 1 ELSE 0
          /\ named /\ mishaps = 0 => srcroute[g] = IF rtable[g] THEN 1 ELSE 0
      BY <2>1, <2>3 DEF RulesInv, Has
    <2>4. named /\ ~Blocked' => Has(forward, interface, FE(g), FD(g), g)'
      BY <2>1, <2>2, <2>3, <2>i, <2>a DEF Has, tables, Pends
    <2>5. named /\ mishaps = 0 => Has(srcroute, rtable, SE(g), SD(g), g)'
      BY <2>1, <2>2, <2>3, <2>i, <2>a DEF Has, tables, Pends
    <2>6. /\ UNCHANGED <<tables, named, mishaps, cpc>> /\ stage[Main] = "free"
          /\ UNCHANGED <<stage[Main], todo[Main], answer[Main]>>
      BY <1>0, <1>9 DEF Unroute, NextCall, bounds, RooterTypeOK, StageInv
    <2>7. cpc[g] = "idle" /\ (Blocked => Blocked')
      BY <1>0, <1>a, <1>h, <1>9 DEF Goes, Thread, Unroute, Ready
    <2>8. \A h \in Guests : h # g => UNCHANGED <<todo[h], stage[h], interface[h], rtable[h],
            answer[h]>>
      BY <1>0, <1>9 DEF Unroute, NextCall, RooterTypeOK
    <2> QED
      BY <1>t, <2>4, <2>5, <2>6, <2>7, <2>8
  <1>10. ASSUME NEW g \in Guests, Disabled(g) PROVE TablesInv'
    <2>3. /\ UNCHANGED <<tables, named, cpc, mishaps>> /\ stage[Main] = "free" /\ cpc[g] = "idle"
          /\ (Blocked => Blocked') /\ RulesInv(g) /\ GuestTodo(g)
      BY <1>0, <1>a, <1>h, <1>10 DEF Goes, Thread, Disabled, Ready, TablesInv, TodoInv,
              StageInv, bounds
    <2>i. Left(g) = todo[g] /\ Left(g)' = todo'[g]
      BY <1>0, <2>3 DEF Left, Told
    <2>1. /\ stage[g] = "disable" /\ UNCHANGED <<todo, interface, rtable>>
          /\ \/ todo[g] = << >> /\ stage'[g] = "free"
             \/ UNCHANGED stage[g]
      BY <1>0, <1>10 DEF Disabled, RooterTypeOK
    <2>2. /\ named /\ ~Blocked => Has(forward, interface, FE(g), FD(g), g)
          /\ named /\ mishaps = 0 => Has(srcroute, rtable, SE(g), SD(g), g)
          /\ \A x : Pends(x, g)' <=> Pends(x, g)
      BY <2>1, <2>3, <2>i DEF RulesInv, Pends
    <2>a. todo[g] = << >> => \A x : ~Pends(x, g)
      BY <2>i, InShort DEF Pends
    <2>4. named /\ ~Blocked' => Has(forward, interface, FE(g), FD(g), g)'
      BY <2>1, <2>2, <2>3, <2>a DEF Has, tables
    <2>5. named /\ mishaps = 0 => Has(srcroute, rtable, SE(g), SD(g), g)'
      BY <2>1, <2>2, <2>3, <2>a DEF Has, tables
    <2>6. /\ UNCHANGED <<tables, named, mishaps, cpc>> /\ stage[Main] = "free"
          /\ UNCHANGED <<stage[Main], todo[Main], answer[Main]>>
      BY <1>0, <1>10 DEF Disabled, NextCall, bounds, RooterTypeOK, StageInv
    <2>7. cpc[g] = "idle" /\ (Blocked => Blocked')
      BY <1>0, <1>a, <1>h, <1>10 DEF Goes, Thread, Disabled, Ready
    <2>8. \A h \in Guests : h # g => UNCHANGED <<todo[h], stage[h], interface[h], rtable[h],
            answer[h]>>
      BY <1>0, <1>10 DEF Disabled, NextCall, RooterTypeOK
    <2> QED
      BY <1>t, <2>4, <2>5, <2>6, <2>7, <2>8
  <1>11. ASSUME Serve PROVE TablesInv'
    <2>1. /\ UNCHANGED <<lock, todo, cpc, stage, interface, rtable, named, mishaps>>
          /\ asked # << >> /\ Head(asked) = asked[1] /\ 1 \in DOMAIN asked
                  /\ Head(asked).command \in Commands
      BY <1>11, ServeCases, Queue DEF bounds
    <2>b. Blocked => Blocked'
      BY <1>a, <1>11 DEF Goes
    <2>c. \A d \in Callers : Left(d) = todo[d]
      BY <2>1 DEF CallInv, Left
    <2>2. CASE UNCHANGED <<tables, answer>>
      <3>1. \A d \in Callers : Left(d)' = Left(d)
        BY <2>1, <2>2 DEF Left, Told
      <3> QED
        BY <2>1, <2>2, <2>b, <3>1, TablesFrame
    <2>3. ASSUME ~Malformed(Head(asked).command), Head(asked).from = Nobody,
            Served(Head(asked).command),
                 UNCHANGED answer
          PROVE  TablesInv'
      <3>1. \A d \in Callers : Left(d)' = Left(d)
        BY <2>1, <2>3 DEF Left, Told
      <3>2. Stale(1) /\ mishaps # 0
        BY <2>1, <2>3 DEF Stale, ServerInv
      <3>3. stage[Main] \in {"connect", "failed"} \/ (stage[Main] = "init"
              /\ todo[Main] = InitCommands)
        BY <2>1, <3>2 DEF QueueInv
      <3>4. nat' <= 1 /\ \A g \in Guests : forward'[g] <= 1 /\ (~named => forward'[g] = 0
              /\ srcroute'[g] = 0)
        BY <2>1, <2>3, ServedBounds
      <3>5. ~(stage'[Main] = "init" /\ Len(Left(Main)') = 3)
        <4>1. Len(InitCommands) # 3
          BY InitCommandsType
        <4> QED
          BY <1>0, <2>1, <2>c, <3>1, <3>3, <4>1
      <3>6. NatInv'
        BY <2>1, <3>4, <3>5 DEF NatInv
      <3>7. ASSUME NEW g \in Guests PROVE RulesInv(g)'
        BY <2>1, <3>2, <3>3, <3>4 DEF RulesInv
      <3> QED
        BY <3>6, <3>7 DEF TablesInv
    <2>4. ASSUME NEW c \in Callers, ~Malformed(Head(asked).command), cpc[c] = "recv",
            answer[c] = "none", Calling(c),
                 Head(asked).command = Head(todo[c]), Served(Head(todo[c])),
                 answer' \in {[answer EXCEPT ![c] = "yes"], [answer EXCEPT ![c] = "no"]}
          PROVE  TablesInv'
      <3>1. /\ todo[c] # << >> /\ todo[c] \in Seq(Commands)
            /\ Left(c)' = Tail(todo[c]) /\ \A d \in Callers : d # c => Left(d)' = Left(d)
        BY <2>1, <2>4 DEF Left, Told, RooterTypeOK, Calling
      <3>2. /\ nat' <= 1 /\ (Head(todo[c]).name = "disable_nat" => nat' = 0)
            /\ \A g \in Guests : forward'[g] <= 1 /\ (~named => forward'[g] = 0 /\ srcroute'[g] = 0)
        BY <2>1, <2>4, ServedBounds
      <3>a. Head(todo[c]) \in Commands
        BY <2>1, <2>4
      <3>3. NatInv'
        <4> SUFFICES ASSUME stage[Main] = "init", Len(Left(Main)') = 3 PROVE nat' = 0
          BY <2>1, <3>2 DEF NatInv
        <4>1. /\ c = Main /\ Len(todo[c]) \in 1..7
              /\ Head(todo[c]) = RootCommand(InitNames[8 - Len(todo[c])], Nobody)
          BY <2>4, Heads
        <4>2. Len(todo[c]) = 4
          <5>1. Len(Tail(todo[c])) = Len(todo[c]) - 1
            BY <3>1, SeqTail
          <5>2. Len(Tail(todo[c])) = 3
            BY <3>1, <4>1
          <5>3. \A n \in 1..7 : n - 1 = 3 => n = 4
            OBVIOUS
          <5> QED
            BY <4>1, <5>1, <5>2, <5>3
        <4>3. InitNames[8 - Len(todo[c])] = "disable_nat"
          BY <4>1, <4>2, InitNamesAt
        <4> QED
          BY <3>2, <4>1, <4>3 DEF RootCommand
      <3>4. ASSUME NEW g \in Guests PROVE RulesInv(g)'
        <4>1. /\ forward'[g] = IF Head(todo[c]) = FE(g) THEN forward[g] + 1
                               ELSE IF Head(todo[c]) = FD(g) THEN Less(forward[g])
                             ELSE forward[g]
              /\ srcroute'[g] = IF Head(todo[c]) = SE(g) THEN srcroute[g] + 1
                                ELSE IF Head(todo[c]) = SD(g) THEN Less(srcroute[g])
                             ELSE srcroute[g]
          BY <2>4, <3>a, ServedRules
        <4>2. ASSUME named, ~Blocked', stage[Main] = "drop"
              PROVE  forward'[g] = 0 \/ Pends(FD(g), Main)'
          <5>1. c = Main /\ \E h \in Guests : Head(todo[c]) = FD(h)
            BY <2>4, <4>2, Heads
          <5>2. forward[g] \in Nat /\ forward[g] <= 1 /\ Less(forward[g]) = 0
            <6>1. forward[g] \in Nat
              BY DEF RooterTypeOK
            <6>2. forward[g] <= 1
              BY DEF TablesInv, RulesInv
            <6>3. forward[g] = 0 \/ forward[g] = 1
              BY <6>1, <6>2
            <6> QED
              BY <6>3 DEF Less
          <5>3. forward[g] = 0 \/ In(FD(g), todo[c])
            BY <2>b, <2>c, <4>2, <5>1 DEF TablesInv, RulesInv, Pends
          <5>4. CASE Head(todo[c]) = FD(g)
            BY <4>1, <5>2, <5>4, Names
          <5>5. CASE Head(todo[c]) # FD(g)
            <6>1. forward'[g] = forward[g]
              BY <4>1, <5>1, <5>5, Names
            <6>2. In(FD(g), todo[c]) => In(FD(g), Tail(todo[c]))
              <7> SUFFICES ASSUME NEW k \in 1..Len(todo[c]), todo[c][k] = FD(g)
                           PROVE  In(FD(g), Tail(todo[c]))
                BY DEF In
              <7>1. /\ Len(todo[c]) \in Nat /\ Head(todo[c]) = todo[c][1]
                    /\ Len(Tail(todo[c])) = Len(todo[c]) - 1
                    /\ \A j \in 1..Len(todo[c]) - 1 : Tail(todo[c])[j] = todo[c][j + 1]
                BY <3>1, SeqTail
              <7>2. k # 1 /\ k \in Nat
                BY <5>5, <7>1
              <7>3. k - 1 \in 1..Len(todo[c]) - 1 /\ (k - 1) + 1 = k
                BY <7>1, <7>2
              <7>4. Tail(todo[c])[k - 1] = FD(g)
                BY <7>1, <7>3
              <7> QED
                BY <7>1, <7>3, <7>4 DEF In
            <6> QED
              BY <3>1, <5>1, <5>3, <6>1, <6>2 DEF Pends
          <5> QED
            BY <5>4, <5>5
        <4>a. \A n : RootCommand(n, Nobody).machine = Nobody
          BY DEF RootCommand
        <4>3. CASE g = c
          <5>1. stage[Main] = "free" /\ stage[Main] # "drop"
            BY <1>0, <2>4, <4>3, Heads DEF RootCommand
          <5>2. /\ named /\ ~Blocked' => Has(forward, interface, FE(g), FD(g), g)'
                /\ named /\ mishaps' = 0 => Has(srcroute, rtable, SE(g), SD(g), g)'
            BY <2>1, <2>4, <2>b, <2>c, <3>1, <3>a, <4>3, <5>1, GuestServed
          <5> QED
            BY <2>1, <3>2, <5>1, <5>2 DEF RulesInv
        <4>4. CASE g # c
          <5>1. Head(todo[c]) \notin {SE(g), SD(g)} /\ (stage[Main] # "drop" =>
                  Head(todo[c]) \notin {FE(g), FD(g)})
            <6>1. CASE stage[Main] = "init"
              <7>1. Head(todo[c]).machine = Nobody
                BY <2>4, <4>a, <6>1, Heads
              <7> QED
                BY <1>0, <7>1, Names, Constants
            <6>2. CASE stage[Main] = "drop"
              BY <2>4, <6>2, Heads, Names
            <6>3. CASE stage[Main] \notin {"init", "drop"}
              <7>1. c # Main
                BY <1>0, <2>4, <6>3, Heads
              <7>2. \/ Head(todo[c]).machine = Nobody
                    \/ Head(todo[c]) \in {FE(c), SE(c)} \/ Head(todo[c]) \in {FD(c), SD(c)}
                BY <2>4, <4>a, <7>1, Heads
              <7>3. Head(todo[c]).machine \in {Nobody, c}
                BY <7>2, Names
              <7> QED
                BY <1>0, <4>4, <7>3, Names, Constants
            <6> QED
              BY <6>1, <6>2, <6>3
          <5>2. srcroute'[g] = srcroute[g] /\ (stage[Main] # "drop" => forward'[g] = forward[g])
            BY <4>1, <5>1
          <5>3. Left(g)' = Left(g) /\ RulesInv(g)
            BY <1>0, <3>1, <4>4 DEF TablesInv
          <5>4. \A x : Pends(x, g)' <=> Pends(x, g)
            BY <5>3 DEF Pends
          <5>5. named /\ ~Blocked' /\ stage'[Main] = "free" => Has(forward, interface, FE(g),
                  FD(g), g)'
            BY <2>1, <2>b, <5>2, <5>3, <5>4 DEF RulesInv, Has
          <5>6. named /\ mishaps' = 0 => Has(srcroute, rtable, SE(g), SD(g), g)'
            BY <2>1, <5>2, <5>3, <5>4 DEF RulesInv, Has
          <5> QED
            BY <2>1, <3>2, <4>2, <5>5, <5>6 DEF RulesInv
        <4> QED
          BY <4>3, <4>4
      <3> QED
        BY <3>3, <3>4 DEF TablesInv
    <2> QED
      BY <1>11, <2>2, <2>3, <2>4, ServeCases
  <1>12. ASSUME InitRooter PROVE TablesInv'
    <2>1. UNCHANGED <<tables, named, mishaps, cpc, answer>> /\ stage[Main] = "connect"
            /\ cpc[Main] = "idle"
      BY <1>0, <1>h, <1>12 DEF InitRooter, bounds
    <2>2. stage'[Main] = "failed" \/ (stage'[Main] = "init" /\ todo'[Main] = InitCommands)
      BY <1>0, <1>12 DEF InitRooter, RooterTypeOK
    <2>3. \A g \in Guests : stage'[g] = "wait"
      BY <1>0, <1>12, <2>1 DEF InitRooter, StageInv, RooterTypeOK
    <2>a. Left(Main)' = todo'[Main] /\ Len(InitCommands) # 3
      BY <2>1, InitCommandsType DEF Left, Told
    <2>b. ~(stage'[Main] = "init" /\ Len(Left(Main)') = 3)
      BY <2>2, <2>a
    <2>4. NatInv'
      BY <2>1, <2>b DEF NatInv, TablesInv, tables
    <2> QED
      BY <1>m, <2>1, <2>2, <2>3, <2>4
  <1>13. ASSUME InitStep PROVE TablesInv'
    <2>1. UNCHANGED <<tables, named, mishaps, cpc>> /\ stage[Main] = "init" /\ cpc[Main] = "idle"
      BY <1>13 DEF InitStep, bounds, Ready
    <2>i. Left(Main) = todo[Main] /\ Left(Main)' = todo'[Main]
      BY <2>1 DEF Left, Told
    <2>b. Blocked => Blocked'
      BY <1>a, <1>13 DEF Goes
    <2>2. CASE UNCHANGED <<stage, todo>>
      <3>1. NatInv'
        BY <2>1, <2>2, <2>i, <2>b DEF NatInv, TablesInv, tables
      <3> QED
        BY <1>0, <1>m, <2>1, <2>2, <3>1 DEF StageInv
    <2>3. CASE stage' = [stage EXCEPT ![Main] = "failed"]
      <3>1. stage'[Main] = "failed" /\ \A g \in Guests : stage'[g] = "wait"
        BY <1>0, <2>1, <2>3 DEF StageInv, RooterTypeOK
      <3>2. NatInv'
        BY <2>1, <3>1 DEF NatInv, TablesInv, tables
      <3> QED
        BY <1>m, <2>1, <3>1, <3>2
    <2>4. ASSUME NEW drops \in Dropped, todo' = [todo EXCEPT ![Main] = drops],
                 stage' = IF drops = << >> THEN [c \in Callers |-> "free"]
                          ELSE [stage EXCEPT ![Main] = "drop"]
          PROVE  TablesInv'
      <3>1. todo'[Main] = drops
        BY <1>0, <2>4 DEF RooterTypeOK
      <3>2. CASE drops = << >>
        <4>1. stage'[Main] = "free" /\ \A g \in Guests : stage'[g] = "free"
          BY <1>0, <2>4, <3>2
        <4>2. NatInv'
          BY <2>1, <4>1 DEF NatInv, TablesInv, tables
        <4>3. ASSUME NEW g \in Guests PROVE RulesInv(g)'
          <5>1. ~named
            BY <2>4, <3>2, EveryDropped
          <5> QED
            BY <2>1, <4>1, <5>1 DEF RulesInv, TablesInv, tables
        <4> QED
          BY <4>2, <4>3 DEF TablesInv
      <3>3. CASE drops # << >>
        <4>1. stage'[Main] = "drop" /\ \A g \in Guests : stage'[g] = "wait"
          BY <1>0, <2>1, <2>4, <3>3 DEF StageInv, RooterTypeOK
        <4>2. NatInv'
          BY <2>1, <4>1 DEF NatInv, TablesInv, tables
        <4>3. \A g \in Guests : named => Pends(FD(g), Main)'
          BY <2>4, <2>i, <3>1, EveryDropped DEF Pends
        <4> QED
          BY <1>m, <2>1, <4>1, <4>2, <4>3
      <3> QED
        BY <3>2, <3>3
    <2> QED
      BY <1>13, <2>2, <2>3, <2>4 DEF InitStep
  <1>14. ASSUME DropStep PROVE TablesInv'
    <2>1. UNCHANGED <<tables, named, mishaps, cpc, todo>> /\ stage[Main] = "drop"
            /\ cpc[Main] = "idle"
      BY <1>14 DEF DropStep, bounds, Ready
    <2>i. Left(Main) = todo[Main] /\ Left(Main)' = todo[Main]
      BY <2>1 DEF Left, Told
    <2>b. Blocked => Blocked'
      BY <1>a, <1>14 DEF Goes
    <2>c. \A g \in Guests : named /\ ~Blocked => forward[g] = 0 \/ In(FD(g), todo[Main])
      BY <2>1, <2>i DEF TablesInv, RulesInv, Pends
    <2>2. CASE UNCHANGED stage
      <3>1. NatInv'
        BY <2>1, <2>2 DEF NatInv, TablesInv, tables
      <3>2. \A g \in Guests : named => Blocked' \/ forward'[g] = 0 \/ Pends(FD(g), Main)'
        BY <2>1, <2>i, <2>b, <2>c DEF Pends, tables
      <3> QED
        BY <1>0, <1>m, <2>1, <2>2, <3>1, <3>2 DEF StageInv
    <2>3. CASE todo[Main] = << >> /\ stage' = [c \in Callers |-> "free"]
      <3>1. stage'[Main] = "free" /\ \A g \in Guests : stage'[g] = "free" /\ stage[g] = "wait"
        BY <1>0, <2>1, <2>3 DEF StageInv
      <3>2. NatInv'
        BY <2>1, <3>1 DEF NatInv, TablesInv, tables
      <3>3. ASSUME NEW g \in Guests PROVE RulesInv(g)'
        <4>1. named /\ ~Blocked => forward[g] = 0
          BY <2>3, <2>c, InShort
        <4>2. named /\ mishaps = 0 => srcroute[g] = 0
          BY <3>1 DEF TablesInv, RulesInv, Has
        <4> QED
          BY <2>1, <2>b, <3>1, <4>1, <4>2 DEF TablesInv, RulesInv, Has, tables
      <3> QED
        BY <3>2, <3>3 DEF TablesInv
    <2> QED
      BY <1>14, <2>2, <2>3 DEF DropStep
  <1>15. ASSUME NicChanges PROVE TablesInv'
    <2>1. UNCHANGED <<tables, stage, interface, rtable, named, todo, cpc, answer>>
      BY <1>15 DEF NicChanges
    <2>2. Blocked => Blocked'
      BY <1>a, <1>15 DEF Goes
    <2>3. mishaps' = 0 => mishaps = 0
      BY <1>d, <1>15 DEF NicChanges, Mishap, bounds
    <2>4. \A c \in Callers : Left(c)' = Left(c)
      BY <2>1 DEF Left, Told
    <2> QED
      BY <2>1, <2>2, <2>3, <2>4, TablesFrame
  <1>16. ASSUME ServerDies PROVE TablesInv'
    <2>1. UNCHANGED <<tables, stage, interface, rtable, named, todo, cpc, answer>>
      BY <1>16 DEF ServerDies
    <2>2. Blocked => Blocked'
      BY <1>a, <1>16 DEF Goes
    <2>3. mishaps' = 0 => mishaps = 0
      BY <1>d, <1>16 DEF ServerDies, Mishap, bounds
    <2>4. \A c \in Callers : Left(c)' = Left(c)
      BY <2>1 DEF Left, Told
    <2> QED
      BY <2>1, <2>2, <2>3, <2>4, TablesFrame
  <1>17. ASSUME ServerStarts PROVE TablesInv'
    <2>1. UNCHANGED <<tables, stage, interface, rtable, named, todo, cpc, answer>>
      BY <1>17 DEF ServerStarts
    <2>2. Blocked => Blocked'
      BY <1>a, <1>17 DEF Goes
    <2>3. mishaps' = 0 => mishaps = 0
      BY <1>d, <1>17 DEF ServerStarts, Mishap, bounds
    <2>4. \A c \in Callers : Left(c)' = Left(c)
      BY <2>1 DEF Left, Told
    <2> QED
      BY <2>1, <2>2, <2>3, <2>4, TablesFrame
  <1>18. ASSUME CuckooStarts PROVE TablesInv'
    <2>1. UNCHANGED <<tables, named>> /\ stage'[Main] = "connect" /\ \A g \in Guests :
            stage'[g] = "wait"
      BY <1>0, <1>18 DEF CuckooStarts, Starts
    <2>2. mishaps' = 0 => stage[Main] = "failed" /\ mishaps = 0
      BY <1>18, <1>d DEF CuckooStarts, Mishap
    <2>3. ASSUME NEW g \in Guests PROVE RulesInv(g)'
      <3>1. named /\ mishaps' = 0 => srcroute[g] = 0
        BY <2>2 DEF TablesInv, RulesInv, Has, StageInv
      <3> QED
        BY <2>1, <3>1 DEF TablesInv, RulesInv, Has, tables
    <2> QED
      BY <2>1, <2>3 DEF TablesInv, NatInv, tables
  <1>19. CASE UNCHANGED rvars
    <2>1. \A d \in Callers : Left(d)' = Left(d)
      BY <1>19 DEF rvars, Left, Told
    <2> QED
      BY <1>19, <2>1, TablesFrame DEF rvars, bounds, tables, Blocked, Asks
  <1> QED
    BY <1>1, <1>2, <1>3, <1>4, <1>5, <1>6, <1>7, <1>8, <1>9, <1>10, <1>11, <1>12, <1>13,
       <1>14, <1>15, <1>16, <1>17, <1>18, <1>19 DEF RooterNext, Call, Thread

(* The inductive invariant *)
RooterInv == /\ RooterTypeOK /\ CallInv /\ LiveInv /\ StageInv
             /\ ServerInv /\ TodoInv /\ QueueInv /\ TablesInv

(* Nothing is asked of a rooter that starts, and there are no rules. *)
LEMMA RooterInvInit == RooterInit => RooterInv
  <1> SUFFICES ASSUME RooterInit PROVE RooterInv
    OBVIOUS
  <1>0. /\ Callers = Guests \cup {Main} /\ Main \in Callers /\ Guests \subseteq Callers
        /\ Main \notin Guests /\ Nobody \notin Callers
    BY Constants
  <1>1. RooterTypeOK
    BY RooterTypeInit
  <1>2. /\ asked = << >> /\ lock = Nobody /\ server \in {"up", "absent"} /\ ~outage /\ nat = 0
        /\ \A c \in Callers : cpc[c] = "idle" /\ answer[c] = "none"
        /\ stage[Main] = "connect" /\ \A g \in Guests : stage[g] = "wait" /\ ~interface[g]
                /\ ~rtable[g]
        /\ \A g \in Guests : forward[g] = 0 /\ srcroute[g] = 0
    BY <1>0 DEF RooterInit, Starts
  <1>3. CallInv /\ StageInv
    BY <1>0, <1>2 DEF CallInv, StageInv, Told
  <1>a. LiveInv
    BY <1>2 DEF LiveInv
  <1>4. ServerInv
    BY <1>2 DEF ServerInv, Blocked
  <1>5. TodoInv
    BY <1>2 DEF TodoInv, MainTodo, GuestTodo
  <1>6. QueueInv
    BY <1>2 DEF QueueInv
  <1>7. NatInv
    BY <1>2 DEF NatInv
  <1>8. \A g \in Guests : RulesInv(g)
    BY <1>2 DEF RulesInv, Has
  <1> QED
    BY <1>1, <1>3, <1>a, <1>4, <1>5, <1>6, <1>7, <1>8 DEF RooterInv, TablesInv

(* Every action preserves the invariant. *)
LEMMA RooterInvStep == RooterInv /\ [RooterNext]_rvars => RooterInv'
  <1> SUFFICES ASSUME RooterInv, [RooterNext]_rvars PROVE RooterInv'
    OBVIOUS
  <1>1. /\ RooterTypeOK /\ CallInv /\ LiveInv /\ StageInv
        /\ ServerInv /\ TodoInv /\ QueueInv /\ TablesInv
    BY DEF RooterInv
  <1>2. RooterTypeOK'
    BY <1>1, RooterTypeStep DEF CallInv
  <1>3. CallInv'
    BY <1>1, CallStep
  <1>4. LiveInv'
    BY <1>1, LiveStep
  <1>5. StageInv'
    BY <1>1, StageStep
  <1>6. ServerInv'
    BY <1>1, ServerStep
  <1>7. TodoInv'
    BY <1>1, TodoStep
  <1>8. QueueInv'
    BY <1>1, QueueStep
  <1>9. TablesInv'
    BY <1>1, <1>2, TablesStep
  <1> QED
    BY <1>2, <1>3, <1>4, <1>5, <1>6, <1>7, <1>8, <1>9 DEF RooterInv

(* The invariant holds in every state. *)
LEMMA RooterInvariance == RooterSpec => []RooterInv
  BY RooterInvInit, RooterInvStep, PTL DEF RooterSpec

(* The rooter, and what Cuckoo keeps of the routes, have their types. *)
THEOREM RooterTypes == RooterSpec => []RooterTypeOK
  <1>1. RooterInv => RooterTypeOK
    BY DEF RooterInv
  <1> QED
    BY <1>1, RooterInvariance, PTL

(* As long as the root process lives, a machine that is not being analysed has no way
   out, however often Cuckoo was killed and started. *)
THEOREM NoWayOut == RooterSpec => []NothingForwarded
  <1>1. RooterInv => NothingForwarded
    <2> SUFFICES ASSUME RooterInv, ~outage, stage[Main] = "free", NEW g \in Guests
                 PROVE  /\ stage[g] = "free" \/ ~interface[g] =>
                              forward[g] = 0 /\ (mishaps = 0 => srcroute[g] = 0)
                        /\ forward[g] <= 1 /\ nat <= 1
      BY DEF NothingForwarded
    <2>1. RulesInv(g) /\ NatInv /\ (rtable[g] => interface[g]) /\ (named => ~Blocked)
      BY DEF RooterInv, TablesInv, StageInv, ServerInv
    <2> QED
      BY <2>1 DEF RulesInv, NatInv, Has
  <1> QED
    BY <1>1, RooterInvariance, PTL
=============================================================================
