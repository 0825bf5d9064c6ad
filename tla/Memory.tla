------------------------------- MODULE Memory -------------------------------
(* modules/processing/memory.py: the plugins of Volatility go over the memory dump of an
   analysis, the dump is deleted if so configured, and what concerns masked processes is
   left out of the report unless malfind names them.

   An entry of a plugin is reduced to the process it names, which is how mask_filter
   tells entries apart: Number(pid), Text(pid) or NoProcess.                            *)
EXTENDS Naturals, Sequences, FiniteSets

CONSTANTS Rams,        \* the memory images tried: sets of process records
          Profiles,    \* [profile -> the names it starts or ends with]
          GuestProfile,\* basic.guest_profile, "" when it is left out
          On,          \* the plugins that are enabled
          Filtering,   \* those with filter = on
          MaskPid,     \* mask.pid_generic
          DeleteDump,  \* the values of delete_memdump tried
          Known,       \* the plugins the installed Volatility has
          MaxPasses    \* bound on how often the analysis is processed

(* No two processes that run have a pid in common. *)
ASSUME MemoryAssumption ==
    \A r \in Rams : \A p, q \in r : p.active /\ q.active /\ p.pid = q.pid => p = q

VARIABLES ram,         \* what the guest's memory held: fixed
          dump,        \* the file is there
          deleting,    \* delete_memdump
          osprofile,
          mstage, turn,  \* where VolatilityManager.run stands, and its next plugin
          collected,     \* results: [plugin -> entries]
          taintPid,      \* taint_pid
          reported,      \* what the last pass put under the key "memory"
          passes

memvars == <<ram, dump, deleting, osprofile, mstage, turn, collected, taintPid, reported, passes>>

Number(pid) == <<"int", pid>>
Text(pid) == <<"str", pid>>
NoProcess == <<>>

Pids(S) == {Number(p.pid) : p \in S}
Active == {p \in ram : p.active}

-----------------------------------------------------------------------------
(* VolatilityAPI: what each plugin finds.  pslist sees active processes only. *)
ProcessLists == [pslist |-> Pids(Active), psxview |-> Pids(ram)]
KernelTables == [n \in {"callbacks", "idt", "gdt"} |-> {NoProcess}]
KernelHooks == [n \in {"ssdt", "timers", "messagehooks"} |-> {NoProcess}]
Tokens == [n \in {"getsids", "privs"} |-> Pids({p \in Active : p.token})]
(* The regions that are not empty and look injected. *)
Malfind == [malfind |-> Pids({p \in Active : p.injected})]
Yarascan == [yarascan |-> {NoProcess}]
(* A hook in the kernel has no process. *)
ApiHooks == [apihooks |-> Pids({p \in Active : p.hooked}) \cup {NoProcess}]
Mapped == [n \in {"dlllist", "handles", "ldrmodules"} |-> Pids(Active)]
(* A mutant nobody owns is given to pid 0. *)
Mutants == [mutantscan |-> Pids(Active) \cup {Number(0)}]
Drivers == [devicetree |-> {NoProcess}]
Services == [svcscan |-> Pids({p \in Active : p.service}), modscan |-> {NoProcess}]
(* These two write the pid as a string. *)
Sockets == [n \in {"sockscan", "netscan"} |-> {Text(p.pid) : p \in {q \in Active : q.connected}}]

Finders == {ProcessLists, KernelTables, KernelHooks, Tokens, Malfind, Yarascan, ApiHooks, Mapped, Mutants,
            Drivers, Services, Sockets}
Calculate(n) == (CHOOSE f \in Finders : n \in DOMAIN f)[n]

(* VolatilityManager.PLUGINS, with the profiles a plugin is for. *)
Always(n) == [name |-> n, profiles |-> {}]
PLUGINS ==
    <<Always("pslist"), Always("psxview"), Always("callbacks"), [name |-> "idt", profiles |-> {"x86"}],
      Always("ssdt"), [name |-> "gdt", profiles |-> {"x86"}], Always("timers"), Always("messagehooks"),
      Always("getsids"), Always("privs"), Always("malfind"), Always("apihooks"), Always("dlllist"),
      Always("handles"), Always("ldrmodules"), Always("mutantscan"), Always("devicetree"), Always("svcscan"),
      Always("modscan"), Always("yarascan"), [name |-> "sockscan", profiles |-> {"winxp"}],
      [name |-> "netscan", profiles |-> {"vista", "win7"}]>>

Runs(plugin) ==
    /\ plugin.profiles = {} \/ plugin.profiles \cap Profiles[osprofile] # {}
    /\ plugin.name \in On
    /\ plugin.name \in Known

-----------------------------------------------------------------------------
MemoryInit ==
    /\ ram \in Rams /\ dump = TRUE /\ deleting \in DeleteDump /\ osprofile = ""
    /\ mstage = "start" /\ turn = 1 /\ collected = <<>> /\ taintPid = {} /\ reported = <<>> /\ passes = 1

(* Memory.run catches whatever goes wrong below it: the results are then empty. *)
Nothing == mstage' = "done" /\ reported' = <<>>
MemoryFails ==
    /\ mstage \in {"open", "plugins"}
    /\ Nothing
    /\ UNCHANGED <<ram, dump, deleting, osprofile, turn, collected, taintPid, passes>>

(* Memory.run and VolatilityManager.__init__: without a profile imageinfo is asked for
   one, and its first suggestion taken. *)
ImageInfo == DOMAIN Profiles
StartMemory ==
    /\ mstage = "start"
    /\ IF dump
       THEN /\ osprofile' \in IF GuestProfile = "" THEN ImageInfo ELSE {GuestProfile}
            /\ mstage' = "open" /\ UNCHANGED reported
       ELSE Nothing /\ UNCHANGED osprofile
    /\ turn' = 1 /\ collected' = <<>> /\ taintPid' = {}
    /\ UNCHANGED <<ram, dump, deleting, passes>>

(* init_config: load_as tries the profile, and psscan for the System process if the
   address space is not collected without it; both failing is MemoryFails. *)
InitConfig ==
    /\ mstage = "open"
    /\ mstage' = "plugins"
    /\ UNCHANGED <<ram, dump, deleting, osprofile, turn, collected, taintPid, reported, passes>>

Collects(name) ==
    [n \in DOMAIN collected \cup {name} |-> IF n = name THEN Calculate(name) ELSE collected[n]]
RunPlugin ==
    /\ mstage = "plugins" /\ turn <= Len(PLUGINS)
    /\ LET plugin == PLUGINS[turn] IN
       collected' = IF Runs(plugin) THEN Collects(plugin.name) ELSE collected
    /\ turn' = turn + 1
    /\ UNCHANGED <<ram, dump, deleting, osprofile, mstage, taintPid, reported, passes>>

FindTaint ==
    /\ mstage = "plugins" /\ turn > Len(PLUGINS)
    /\ taintPid' = IF "malfind" \in DOMAIN collected THEN collected["malfind"] ELSE {}
    /\ mstage' = "cleanup"
    /\ UNCHANGED <<ram, dump, deleting, osprofile, turn, collected, reported, passes>>

(* os.remove may fail: the dump stays, which is only logged. *)
Cleanup ==
    /\ mstage = "cleanup"
    /\ dump' \in IF deleting THEN BOOLEAN ELSE {TRUE}
    /\ mstage' = "mask"
    /\ UNCHANGED <<ram, deleting, osprofile, turn, collected, taintPid, reported, passes>>

(* mask.enabled is read into no_filter, which nothing looks at. *)
MaskedAll(n, entry) == n \in Filtering /\ entry \in {Number(p) : p \in MaskPid}
Masked(n, entry) == n \in Filtering /\ entry \in {Number(p) : p \in MaskPid} \ taintPid
MaskFilter ==
    /\ mstage = "mask"
    /\ reported' = [n \in DOMAIN collected |-> {e \in collected[n] : ~ Masked(n, e)}]
    /\ mstage' = "done"
    /\ UNCHANGED <<ram, dump, deleting, osprofile, turn, collected, taintPid, passes>>

(* The processing is killed, or is over; the analysis is processed once more. *)
ProcessAgain ==
    /\ mstage # "start" /\ passes < MaxPasses
    /\ passes' = passes + 1 /\ mstage' = "start"
    /\ UNCHANGED <<ram, dump, deleting, osprofile, turn, collected, taintPid, reported>>

MemoryNext == \/ StartMemory \/ InitConfig \/ RunPlugin \/ FindTaint \/ Cleanup \/ MaskFilter
              \/ MemoryFails \/ ProcessAgain

MemorySpec == MemoryInit /\ [][MemoryNext]_memvars

-----------------------------------------------------------------------------
(* "Filter out masked stuff. Keep tainted stuff": what a plugin found of a process with
   injected code is reported, also by a plugin that ran before malfind and when the pid
   is masked; and a masked process without any is left out, wherever entries have pids
   as numbers. *)
TaintedKept ==
    mstage = "done" /\ reported # <<>> /\ "malfind" \in On \cap Known =>
        \A n \in DOMAIN reported, p \in Active :
            Number(p.pid) \in Calculate(n) =>
                ((Number(p.pid) \in reported[n]) <=> (p.injected \/ p.pid \notin MaskPid \/ n \notin Filtering))
=============================================================================
