------------------------------ MODULE Machines ------------------------------
(***************************************************************************)
(* The machinery modules (modules/machinery/, LibVirtMachinery): how each  *)
(* of them starts and stops a VM, from the checks at start-up to one       *)
(* analysis after the other, on a hypervisor that takes its time, refuses  *)
(* commands and loses machines.                                            *)
(*                                                                         *)
(* One machine, and one thread that uses it: the machine table keeps all   *)
(* others away (Scheduler).  What a module does is written as a program of *)
(* a few kinds of steps: looks at the machine, commands and waits.         *)
(***************************************************************************)
EXTENDS Naturals, Sequences

CONSTANTS
    Backends,     \* the machinery modules to look at
    VmState,      \* timeouts.vm_state: how often _wait_status sleeps
    MaxAnalyses   \* bound: analyses on the machine

AllBackends == {"virtualbox", "libvirt", "vmware", "xenserver", "vsphere",
                "qemu", "avd", "physical"}

ASSUME MachinesAssumption ==
    /\ Backends \subseteq AllBackends
    /\ VmState \in Nat /\ MaxAnalyses \in Nat

Powers == {"off", "aborted", "saved", "starting", "on", "stopping"}

-----------------------------------------------------------------------------
(* The steps of the modules.  "on" is the set of states the step is about. *)

RaiseIf(S)  == [op |-> "raise",  on |-> S, to |-> "off", clean |-> FALSE]
ReturnIf(S) == [op |-> "return", on |-> S, to |-> "off", clean |-> FALSE]
(* A request that may raise anything but a CuckooMachineError. *)
Look        == [op |-> "look",   on |-> Powers, to |-> "off", clean |-> FALSE]
(* A command the hypervisor takes in the states S and that leads to `to`; it may
   fail, which raises, or which Try only logs. *)
Do(S, to)   == [op |-> "do",     on |-> S, to |-> to, clean |-> FALSE]
Try(S, to)  == [op |-> "try",    on |-> S, to |-> to, clean |-> FALSE]
(* The same, and the disk is that of the snapshot again. *)
Revert(S, to) == [op |-> "do",   on |-> S, to |-> to, clean |-> TRUE]
(* The configuration and the installation are looked at; what is missing raises. *)
Require     == [op |-> "require", on |-> Powers, to |-> "off", clean |-> FALSE]
(* The loop of Machinery._initialize_check over the machines, and that of Physical *)
StopUnless(S) == [op |-> "stopunless", on |-> S, to |-> "off", clean |-> FALSE]
WakeUnless(S) == [op |-> "wake", on |-> S, to |-> "starting", clean |-> FALSE]
(* A child process of Cuckoo is started, or killed. *)
Spawn(to)   == [op |-> "spawn",  on |-> Powers, to |-> to, clean |-> FALSE]
Kill        == [op |-> "kill",   on |-> Powers, to |-> "off", clean |-> FALSE]
(* _wait_status and _wait_task with their timeout, and a wait without one *)
Await(S)    == [op |-> "await",  on |-> S, to |-> "off", clean |-> FALSE]
AwaitQuiet(S) == [op |-> "quiet", on |-> S, to |-> "off", clean |-> FALSE]
AwaitEver(S) == [op |-> "ever",  on |-> S, to |-> "off", clean |-> FALSE]

(* What the states count as in the modules *)
Off == {"off", "aborted"}                     \* VirtualBox
LibVirtOff == {"off"}                         \* a domain that crashed is "error"
VMwareRunning == {"on", "stopping"}
XenHalted == Off                              \* "Suspended" is aborted, too
VSphereOff == Off
PhysicalRunning == {"on", "stopping"}         \* the Agent answers a connection

-----------------------------------------------------------------------------
(* The modules *)

VirtualBoxCheck == << Require, StopUnless(Off) >>
VirtualBoxStart == << RaiseIf({"on"}), Revert(Off \cup {"saved"}, "saved"), Await({"saved"}),
                      Do({"saved"}, "starting"), Await({"on"}) >>
VirtualBoxDump  == << Do({"on"}, "on"), Try({"on"}, "on") >>
(* Variant: the state is not waited for. *)
VirtualBoxStopAtOnce == << RaiseIf(Off), Try({"on", "starting"}, "stopping") >>
VirtualBoxStop  == << RaiseIf(Off), Try({"on", "starting"}, "stopping"),
                      Await(Off \cup {"saved"}) >>

(* KVM, ESX *)
LibVirtCheck == << Require, Look, StopUnless(LibVirtOff) >>
LibVirtStart == << RaiseIf(Powers \ LibVirtOff), Revert(LibVirtOff, "starting"), Await({"on"}) >>
LibVirtDump  == << Do({"on"}, "on") >>
LibVirtStop  == << RaiseIf(LibVirtOff), Do(Powers, "stopping"), Await(LibVirtOff) >>

(* vmrun is started, and nobody waits for what it does; VMware has no _list, so that
   the check of the base class returns at once. *)
VMwareCheck == << Require >>
VMwareRevert == Revert(Powers, "off")
VMwareStart == << RaiseIf(VMwareRunning), VMwareRevert, Do({"off"}, "starting") >>
(* The file of the dump is looked for among those of the machine. *)
VMwareDump  == << Do({"on"}, "on"), Look, Do({"on"}, "on") >>
VMwareStop  == << ReturnIf(Powers \ VMwareRunning), Do({"on"}, "off") >>

(* Without a snapshot the disks are reset on boot, which the check makes sure of. *)
XenConfig == Require
XenCheck == << XenConfig, StopUnless(XenHalted \cup {"saved"}) >>
XenStart == << Look, RaiseIf(Powers \ XenHalted), Revert(XenHalted, "saved"), Do({"saved"}, "on") >>
XenDump  == << >>
XenStop  == << Look, ReturnIf(XenHalted), Do(Powers, "off") >>

(* The snapshot must be one of a running machine. *)
VSphereCheck  == << Require, StopUnless(VSphereOff) >>
VSphereRevert == Revert(Powers, "starting")
VSphereStart  == << Look, VSphereRevert, Await({"on"}) >>
(* A snapshot is taken, downloaded, and deleted. *)
VSphereTake     == Do({"on"}, "on")
VSphereDownload == Do({"on"}, "on")
VSphereDump   == << Look, VSphereTake, VSphereDownload >>
VSphereWait   == AwaitQuiet(VSphereOff)
VSpherePowerOff == Try({"on", "starting"}, "stopping")
VSphereStop   == << Look, VSpherePowerOff, VSphereWait >>

QemuCheck == << Require >>
(* Variant: an overlay that is there is used again. *)
QemuStartReusing == << Spawn("starting") >>
QemuStart == << Revert(Powers, "off"), Spawn("starting") >>
QemuStop  == << RaiseIf({"unknown"}), Kill >>

AvdCheck     == << Require >>
AvdDuplicate == Revert(Powers, "off")
AvdEmulator  == Spawn("starting")
AvdReady     == AwaitEver({"on"})
AvdStart     == << AvdDuplicate, AvdEmulator, AvdReady >>
AvdStop      == << Kill >>

FogInit       == Require
PhysicalCheck == << Require, FogInit, WakeUnless({"on"}) >>
PhysicalStart == << ReturnIf(PhysicalRunning), Await({"on"}) >>
(* The machine is told to reboot, FOG which image it boots. *)
FogQueueTask  == Look
PhysicalStop  == << ReturnIf(Powers \ PhysicalRunning), Look,
                    Do(PhysicalRunning, "stopping"), FogQueueTask >>

CheckOf == [virtualbox |-> VirtualBoxCheck, libvirt |-> LibVirtCheck, vmware |-> VMwareCheck,
            xenserver |-> XenCheck, vsphere |-> VSphereCheck, qemu |-> QemuCheck,
            avd |-> AvdCheck, physical |-> PhysicalCheck]
(* Without a dump_memory of the module the base class raises NotImplementedError,
   which launch_analysis catches. *)
DumpOf == [virtualbox |-> VirtualBoxDump, libvirt |-> LibVirtDump, vmware |-> VMwareDump,
           xenserver |-> XenDump, vsphere |-> VSphereDump, qemu |-> << >>,
           avd |-> << >>, physical |-> << >>]
StartOf == [virtualbox |-> VirtualBoxStart, libvirt |-> LibVirtStart, vmware |-> VMwareStart,
            xenserver |-> XenStart, vsphere |-> VSphereStart, qemu |-> QemuStart,
            avd |-> AvdStart, physical |-> PhysicalStart]
StopOf  == [virtualbox |-> VirtualBoxStop, libvirt |-> LibVirtStop, vmware |-> VMwareStop,
            xenserver |-> XenStop, vsphere |-> VSphereStop, qemu |-> QemuStop,
            avd |-> AvdStop, physical |-> PhysicalStop]

-----------------------------------------------------------------------------
VARIABLES
    backend,   \* the machinery module of this installation
    power,     \* the machine
    dirty,     \* it ran a sample since its disk was last put back
    process,   \* "none", "ours", or "orphan": of an earlier Cuckoo, unknown to this one
    mpc,       \* what the thread does
    step,      \* which step of start or stop is next
    waitme,    \* waitme of _wait_status
    quiet,     \* the last stop did not raise
    analyses   \* analyses begun

mvars == <<backend, power, dirty, process, mpc, step, waitme, quiet, analyses>>

Own == {"qemu", "avd"}   \* machines that are child processes of Cuckoo

MachinesTypeOK ==
    /\ backend \in Backends /\ power \in Powers /\ dirty \in BOOLEAN
    /\ process \in {"none", "ours", "orphan"}
    /\ mpc \in {"init", "check", "free", "refused", "start", "analyse", "dump", "stop", "lost"}
    /\ step \in 1..6 /\ waitme \in 0..(VmState + 1)
    /\ quiet \in BOOLEAN /\ analyses \in 0..MaxAnalyses

(* The machine may be in any state when Cuckoo comes up, with a disk of an earlier
   run. *)
MachinesInit ==
    /\ backend \in Backends
    /\ power \in {"off", "saved", "on", "aborted"} /\ dirty \in BOOLEAN
    /\ process = IF backend \in Own /\ power = "on" THEN "orphan" ELSE "none"
    /\ mpc = "init" /\ step = 1 /\ waitme = 0 /\ quiet = FALSE /\ analyses = 0

-----------------------------------------------------------------------------
(* The hypervisor and the guest *)

AnalysisStays == UNCHANGED <<backend, process, mpc, step, waitme, quiet, analyses>>

PowerOn == power = "starting" /\ power' = "on" /\ UNCHANGED dirty /\ AnalysisStays

(* A physical machine that goes down comes back: with the image of FOG, if FOG
   knows it, and with its old disk otherwise. *)
PowerOff ==
    /\ power = "stopping"
    /\ IF backend = "physical" THEN power' = "starting" /\ dirty' \in {dirty, FALSE}
       ELSE power' = "off" /\ UNCHANGED dirty
    /\ AnalysisStays

(* The machine breaks down, or does not come up. *)
Abort ==
    /\ power \in {"starting", "on"} /\ mpc \notin {"init", "check"}
    /\ power' = IF backend = "virtualbox" THEN "aborted" ELSE "off"
    /\ UNCHANGED dirty /\ AnalysisStays

Hypervisor == PowerOn \/ PowerOff \/ Abort

-----------------------------------------------------------------------------
(* One step of a program.  mpc is "check" for the stop of _initialize_check. *)

Program == CASE mpc = "init"  -> CheckOf[backend]
             [] mpc = "start" -> StartOf[backend]
             [] mpc = "dump"  -> DumpOf[backend]
             [] OTHER         -> StopOf[backend]

At(op) == /\ mpc \in {"init", "check", "start", "dump", "stop"}
          /\ step <= Len(Program) /\ Program[step].op = op

Here == Program[step]

(* How the machine looks to the module: QEMU only knows its own child. *)
Seen == IF backend = "qemu" /\ process # "ours" THEN "unknown" ELSE power

(* The call is left: start goes on to the analysis, or raises, which leads to the
   `finally` of launch_analysis; a dump goes on to the stop, and after that the
   machine is free, raised or not; what raises in _initialize_check ends Cuckoo. *)
Leave(ok) ==
    /\ mpc' = CASE mpc = "start" -> IF ok THEN "analyse" ELSE "stop"
                [] mpc = "stop"  -> "free"
                [] mpc = "dump"  -> "stop"
                [] mpc \in {"init", "check"} -> IF ok THEN "free" ELSE "refused"
    /\ quiet' = (mpc = "stop" /\ ok)
    /\ step' = 1 /\ waitme' = 0

Go == /\ IF step = Len(Program) THEN Leave(TRUE)
         ELSE step' = step + 1 /\ waitme' = 0 /\ UNCHANGED <<mpc, quiet>>

MachineStays == UNCHANGED <<backend, power, dirty, process, analyses>>

CheckState ==
    /\ At("raise") \/ At("return")
    /\ IF Seen \in Here.on THEN Leave(Here.op = "return") ELSE Go
    /\ MachineStays

(* A foreign exception leaves the `finally` before the machine is released. *)
Query ==
    /\ At("look")
    /\ \/ Go
       \/ mpc \in {"init", "start"} /\ Leave(FALSE)
       \/ mpc \in {"check", "dump", "stop"} /\ mpc' = "lost" /\ UNCHANGED <<step, waitme, quiet>>
    /\ MachineStays

CheckConfig == At("require") /\ (Go \/ Leave(FALSE)) /\ MachineStays

StopFound ==
    /\ At("stopunless")
    /\ IF power \in Here.on THEN Go
       ELSE mpc' = "check" /\ step' = 1 /\ UNCHANGED <<waitme, quiet>>
    /\ MachineStays

WakeFound ==
    /\ At("wake") /\ Go
    /\ power' = IF power \in Here.on THEN power ELSE Here.to
    /\ UNCHANGED <<backend, dirty, process, analyses>>

(* An orphan keeps running whatever is done to the files under it. *)
Command ==
    /\ At("do") \/ At("try")
    /\ \/ /\ power \in Here.on
          /\ IF process = "orphan" THEN UNCHANGED <<power, dirty>>
             ELSE power' = Here.to /\ dirty' = (dirty /\ ~Here.clean)
          /\ Go
       \/ UNCHANGED <<power, dirty>> /\ IF Here.op = "try" THEN Go ELSE Leave(FALSE)
    /\ UNCHANGED <<backend, process, analyses>>

(* Next to an orphan a second process finds its port or interface taken and ends. *)
SpawnProcess ==
    /\ At("spawn")
    /\ \/ /\ power' = IF process = "orphan" THEN power ELSE Here.to
          /\ process' = IF process = "orphan" THEN process ELSE "ours"
          /\ Go
       \/ UNCHANGED <<power, process>> /\ Leave(FALSE)
    /\ UNCHANGED <<backend, dirty, analyses>>

(* adb also reaches an emulator of an earlier Cuckoo, by its port. *)
KillProcess ==
    /\ At("kill") /\ Go
    /\ IF process = "ours" \/ backend = "avd"
       THEN power' = "off" /\ process' = "none"
       ELSE UNCHANGED <<power, process>>
    /\ UNCHANGED <<backend, dirty, analyses>>

Wait ==
    /\ At("await") \/ At("quiet")
    /\ IF power \in Here.on THEN Go
       ELSE IF waitme > VmState THEN Leave(Here.op = "quiet")
       ELSE waitme' = waitme + 1 /\ UNCHANGED <<mpc, step, quiet>>
    /\ MachineStays

(* Avd.wait_for_device_ready asks until the device has booted. *)
WaitDevice ==
    /\ At("ever") /\ power = "on" /\ Go /\ MachineStays

ModuleStep == \/ CheckConfig \/ StopFound \/ WakeFound \/ CheckState \/ Query
              \/ Command \/ SpawnProcess \/ KillProcess \/ Wait \/ WaitDevice

-----------------------------------------------------------------------------
(* launch_analysis: start ... *)
Begin ==
    /\ mpc = "free" /\ analyses < MaxAnalyses /\ analyses' = analyses + 1
    /\ mpc' = "start"
    /\ UNCHANGED <<backend, power, dirty, process, step, waitme, quiet>>

(* ... the sample, if the machine is on, a memory dump if there is to be one and
   the module has it, and stop *)
Analysis ==
    /\ mpc = "analyse" /\ mpc' \in {"stop"} \cup (IF DumpOf[backend] = << >> THEN {} ELSE {"dump"})
    /\ dirty' = (dirty \/ power = "on")
    /\ UNCHANGED <<backend, power, process, step, waitme, quiet, analyses>>

MachinesNext == Hypervisor \/ Begin \/ ModuleStep \/ Analysis

MachinesSpec == MachinesInit /\ [][MachinesNext]_mvars

MachinesFair == WF_mvars(ModuleStep \/ Analysis) /\ WF_mvars(PowerOff)

-----------------------------------------------------------------------------
(* A sample never meets what another one left on the disk: with every module that
   puts the disk back itself, unless a machine process of an earlier Cuckoo is
   still there. *)
StartsClean ==
    mpc = "analyse" /\ backend # "physical" /\ process # "orphan" => ~dirty

(* When stop returns without an exception the machine is off and stays off until it
   is started again.  Not so for vmware (a start nobody waited for), vsphere (errors
   are logged) and physical (it reboots). *)
StoppedIsOff ==
    mpc = "free" /\ quiet /\ backend \in {"virtualbox", "libvirt", "xenserver", "qemu", "avd"}
        => process = "orphan" \/ power \in Off \cup {"saved"}

(* Every analysis gives the machine back in the end, whatever the hypervisor does:
   no call waits for ever.  Avd may, for a device that does not boot, and a foreign
   exception in stop loses the machine. *)
GivenBack ==
    mpc = "start" ~> mpc \in {"free", "lost"} \/ backend = "avd"
=============================================================================
