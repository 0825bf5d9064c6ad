----------------------------- MODULE Behaviour -----------------------------
(* The behaviour logs of an analysis: modules/processing/behavior.py hands the events of
   every log to its handlers, modules/processing/platform/windows.py makes them out of
   the monitor's messages, which lib/cuckoo/common/netlog.py reads.

   A log is read once when the behaviour is processed, and again each time the calls of a
   process are gone over, by the signatures and by every report: the parser stays the same
   object and keeps what it has learnt.                                              *)
EXTENDS Lists, FiniteSets, FiniteSetsExt, TLC

CONSTANTS Files,       \* the log files: [name -> "bson", "stap" or "other"]
          Messages,    \* the messages the monitor may have written
          MaxMessages, \* bound on what the logs hold together
          MaxViews     \* bound on the passes over the calls of each process

MessageTypes == {"info", "buffer", "process", "call", "cut"}
ASSUME BehaviourAssumption ==
    /\ IsFiniteSet(DOMAIN Files)
    /\ \A m \in Messages : m.type \in MessageTypes /\ (m.type = "process" => m.pid # 0)

VARIABLES bstage, file,  \* what is being read
          left,          \* the log files still to read
          logs,          \* what each log holds
          parsers,       \* the parser of each log
          found,         \* what the handlers have gathered
          views          \* the calls of each process as shown by the passes so far

bvars == <<bstage, file, left, logs, parsers, found, views>>

None == "none"
Put(f, k, v) == [x \in DOMAIN f \union {k} |-> IF x = k THEN v ELSE f[x]]

-----------------------------------------------------------------------------
(* BsonParser.  A message explains an API, carries a buffer, or is a call; a call gets the
   width known when its API was explained.  No process has the pid 0, which stands for None. *)
NewParser == [known |-> << >>, pid |-> 0, wide |-> FALSE, buffer |-> None, dead |-> FALSE]

(* determine_unserializers *)
Explain(ps, m) == [ps EXCEPT !.known = Put(@, m.api, ps.wide)]
(* A buffer is remembered for the next call; it is written only during the analysis. *)
Remember(ps, m) == [ps EXCEPT !.buffer = m.val]

(* A call of an API that was not explained, or with other arguments than was said, is
   dropped. *)
Understood(ps, m) == m.api \in DOMAIN ps.known /\ m.fits

NewProcess(ps, m) == [ps EXCEPT !.pid = m.pid, !.wide = @ \/ m.wide]
ProcessEvent(m) == [type |-> "process", pid |-> m.pid, ppid |-> m.ppid]
(* The call in the form handlers see; resolve_flags names some of its values. *)
CallEvent(ps, m) ==
    [type |-> "apicall", pid |-> ps.pid, api |-> m.api, key |-> m.key, val |-> m.val, ok |-> m.ok,
     status |-> m.status, wide |-> ps.known[m.api], buffer |-> ps.buffer]

(* One turn of BsonParser.__iter__: the parser after it and the events it yields. *)
Read(ps, m) ==
    CASE ps.dead -> [ps |-> ps, out |-> << >>]
      [] ~ ps.dead /\ m.type = "cut" -> [ps |-> [ps EXCEPT !.dead = TRUE], out |-> << >>]
      [] ~ ps.dead /\ m.type = "info" -> [ps |-> Explain(ps, m), out |-> << >>]
      [] ~ ps.dead /\ m.type = "buffer" -> [ps |-> Remember(ps, m), out |-> << >>]
      [] ~ ps.dead /\ m.type = "process" -> [ps |-> NewProcess(ps, m), out |-> <<ProcessEvent(m)>>]
      [] ~ ps.dead /\ m.type = "call" ->
           IF Understood(ps, m) THEN [ps |-> [ps EXCEPT !.buffer = None], out |-> <<CallEvent(ps, m)>>]
           ELSE [ps |-> ps, out |-> << >>]

(* A whole pass over a log from its beginning; "dead" is a pass that has ended early. *)
NotReopened(ps) == ps
Reopened(ps) == [ps EXCEPT !.dead = FALSE]
Pass(ps, log) ==
    LET go[n \in 0..Len(log)] ==
            IF n = 0 THEN [ps |-> Reopened(ps), out |-> << >>]
            ELSE LET r == Read(go[n - 1].ps, log[n])
                 IN  [ps |-> r.ps, out |-> go[n - 1].out \o r.out]
    IN  go[Len(log)]

-----------------------------------------------------------------------------
(* BehaviorReconstructor: what a call says of files, keys, hosts and so on.  Most calls name
   one thing; some are looked up by the handle that was opened before in the process.    *)
Named == [CreateDirectoryW |-> "directory_created", RemoveDirectoryA |-> "directory_removed",
          MoveFileWithProgressW |-> "file_moved", CopyFileA |-> "file_copied",
          DeleteFileA |-> "file_deleted", FindFirstFileExA |-> "directory_enumerated",
          LdrLoadDll |-> "dll_loaded", GetFileAttributesW |-> "file_exists"]
NamedKeys == [RegOpenKeyExA |-> "regkey_opened", RegDeleteKeyA |-> "regkey_deleted",
              RegQueryValueExA |-> "regkey_read", RegSetValueExA |-> "regkey_written"]
NamedHosts == [InternetConnectA |-> "connects_host", InternetOpenUrlA |-> "fetches_url",
               connect |-> "connects_ip"]
NamedOthers == [ShellExecuteExW |-> "command_line", system |-> "command_line",
                IWbemServices_ExecQuery |-> "wmi_query"]
(* These say nothing when the value is empty, or the process is not tracked. *)
NamedUnlessEmpty == [DnsQuery_A |-> "resolves_host", NtCreateMutant |-> "mutex",
                     CreateProcessInternalW |-> "command_line", PRF |-> "tls_master"]
(* Calls with several results. *)
Several == [URLDownloadToFileW |-> <<"downloads_file", "file_opened", "file_written">>,
            CoCreateInstance |-> <<"guid">>]
Direct == Named @@ NamedKeys @@ NamedHosts @@ NamedOthers

Created == [file_overwritten |-> "file_recreated", file_superseded |-> "file_recreated",
            file_does_not_exist |-> "file_failed", file_created |-> "file_created"]
NtCreateFile(e) ==
    [cat |-> CASE ~ e.ok -> "file_failed"
               [] e.ok /\ e.status \in DOMAIN Created -> Created[e.status]
               [] OTHER -> "file_opened", val |-> e.val]
ByHandle(files, e, cat) ==
    IF e.ok /\ e.key \in DOMAIN files THEN <<[cat |-> cat, val |-> files[e.key]]>> ELSE << >>

(* process_apicall *)
Generic(files, e) ==
    CASE e.api \in DOMAIN Direct -> <<[cat |-> Direct[e.api], val |-> e.val]>>
      [] e.api \in DOMAIN NamedUnlessEmpty /\ e.val # "" -> <<[cat |-> NamedUnlessEmpty[e.api], val |-> e.val]>>
      [] e.api \in DOMAIN Several -> [i \in DOMAIN Several[e.api] |-> [cat |-> Several[e.api][i], val |-> e.val]]
      [] e.api = "NtCreateFile" -> <<NtCreateFile(e)>>
      [] e.api = "NtReadFile" -> ByHandle(files, e, "file_read")
      [] e.api = "NtWriteFile" -> ByHandle(files, e, "file_written")
      [] OTHER -> << >>
(* The handle is noted before the call is known to have succeeded. *)
Handles(files, e) ==
    CASE e.api = "NtCreateFile" -> (e.key :> e.val) @@ files
      [] e.api = "NtClose" -> Restrict(files, DOMAIN files \ {e.key})
      [] OTHER -> files

-----------------------------------------------------------------------------
(* The handlers of an event, in the order of the list of handlers. *)

(* GenericBehavior: the first process of a pid stands for all of them. *)
GenericProcessAnew(f, e) == [f EXCEPT !.generic = Put(@, e.pid, {})]
GenericProcess(f, e) ==
    IF e.pid \in DOMAIN f.generic THEN f ELSE [f EXCEPT !.generic = Put(@, e.pid, {})]
(* What the generic events of a call say is added to sets. *)
GenericEvents(f, pid, gs) ==
    IF pid \in DOMAIN f.generic THEN [f EXCEPT !.generic[pid] = @ \union gs] ELSE f
SummaryEvents(f, gs) == [f EXCEPT !.summary = @ \union gs]
TreeProcess(f, e) ==
    IF e.pid \in DOMAIN f.tree THEN f ELSE [f EXCEPT !.tree = Put(@, e.pid, e.ppid)]
StatsCall(f, e) == [f EXCEPT !.stats = LET k == <<e.pid, e.api>> IN
                                       Put(@, k, IF k \in DOMAIN @ THEN @[k] + 1 ELSE 1)]

(* WindowsMonitor.parse: a process gets a reconstructor of its own, a pid that is used
   again gets a new one. *)
SeeProcess(f, e) == TreeProcess(GenericProcess(
    [f EXCEPT !.processes = Append(@, [pid |-> e.pid, log |-> file]), !.files = Put(@, e.pid, << >>)], e), e)
Subevents(f, e, gs) == SummaryEvents(GenericEvents(f, e.pid, gs), gs)
SeeCall(f, e) ==
    LET g == Subevents(f, e, ToSet(Generic(f.files[e.pid], e)))
    IN  StatsCall([g EXCEPT !.files[e.pid] = Handles(@, e)], e)

(* A call before any process of its log has no reconstructor: the KeyError ends the whole
   of BehaviorAnalysis.run. *)
Broken(f, e) == e.type = "apicall" /\ e.pid \notin DOMAIN f.files
See(f, e) == IF e.type = "process" THEN SeeProcess(f, e) ELSE SeeCall(f, e)

-----------------------------------------------------------------------------
BehaviourInit ==
    /\ bstage = "enum" /\ file = None /\ left = DOMAIN Files
    /\ logs = [f \in DOMAIN Files |-> << >>]
    /\ parsers = [f \in DOMAIN Files |-> NewParser]
    /\ found = [generic |-> << >>, tree |-> << >>, summary |-> {}, stats |-> << >>,
                processes |-> << >>, files |-> << >>]
    /\ views = << >>

(* _enum_logs: in the order of the directory; what is no file, or too big, is skipped, and
   what no handler takes is not read. *)
NextLog(f) ==
    /\ bstage = "enum" /\ f \in left
    /\ left' = left \ {f}
    /\ \/ bstage' = "parse" /\ file' = f /\ Files[f] = "bson"
       \/ UNCHANGED <<bstage, file>>
    /\ UNCHANGED <<logs, parsers, found, views>>

(* The monitor begins with its process. *)
Introduced(m) == m.type = "process" => logs[file] = << >>
Written == MapThenSumSet(LAMBDA f : Len(logs[f]), DOMAIN Files)

(* The parser yields, the handlers are called, one message after the other. *)
ParseMessage(m) ==
    /\ bstage = "parse" /\ Written < MaxMessages /\ ~ parsers[file].dead /\ Introduced(m)
    /\ LET r == Read(parsers[file], m) IN
       /\ logs' = [logs EXCEPT ![file] = Append(@, m)]
       /\ parsers' = [parsers EXCEPT ![file] = r.ps]
       /\ IF r.out # << >> /\ Broken(found, r.out[1])
          THEN bstage' = "failed" /\ UNCHANGED found
          ELSE /\ found' = IF r.out = << >> THEN found ELSE See(found, r.out[1])
               /\ UNCHANGED bstage
    /\ UNCHANGED <<file, left, views>>

EndOfLog ==
    /\ bstage = "parse"
    /\ bstage' = "enum" /\ file' = None
    /\ UNCHANGED <<left, logs, parsers, found, views>>

(* LinuxSystemTap makes a process event without process_path when it sees a pid for the
   first time, and GenericBehavior asks for it: the KeyError ends the processing. *)
ParseStap(f) ==
    /\ bstage = "enum" /\ f \in left /\ Files[f] = "stap"
    /\ bstage' = "failed"
    /\ UNCHANGED <<file, left, logs, parsers, found, views>>

BehaviourRun ==
    /\ bstage = "enum" /\ left = {}
    /\ bstage' = "results"
    /\ views' = [i \in DOMAIN found.processes |-> << >>]
    /\ UNCHANGED <<file, left, logs, parsers, found>>

-----------------------------------------------------------------------------
(* MonitorProcessLog: the calls of a process, read from its log anew.  Handles and pointers
   are remembered by some calls and named by others, within one pass; what GetIDFromName
   tells is left out, and an import when it is one of VBE6.DLL without a function.   *)
Remembers == {"OpenServiceA", "vbe6_GetObject", "vbe6_GetIDFromName"}
Looks == {"StartServiceA", "vbe6_Invoke"}
Silent == {"vbe6_GetIDFromName", "vbe6_Import"}
LeftOut(e) == e.api \in Silent /\ (e.api = "vbe6_Import" => e.key = "VBE6.DLL" /\ e.val = "")
Shown(es) ==
    LET calls == Those(es, {e \in ToSet(es) : e.type = "apicall"})
        names[n \in 0..Len(calls)] ==
            IF n > 0 /\ calls[n].api \in Remembers THEN (calls[n].key :> calls[n].val) @@ names[n - 1]
            ELSE IF n > 0 THEN names[n - 1] ELSE << >>
        show(n) == IF calls[n].api \in Looks /\ calls[n].key \in DOMAIN names[n]
                   THEN [calls[n] EXCEPT !.val = names[n][calls[n].key]] ELSE calls[n]
        kept == Those([n \in DOMAIN calls |-> n], {n \in DOMAIN calls : ~ LeftOut(calls[n])})
    IN  [i \in DOMAIN kept |-> show(kept[i])]

(* A signature run or a report goes over the calls of a process. *)
GoOver(i) ==
    LET log == found.processes[i].log  pass == Pass(parsers[log], logs[log]) IN
    /\ bstage = "results" /\ Len(views[i]) < MaxViews
    /\ views' = [views EXCEPT ![i] = Append(@, Shown(pass.out))]
    /\ parsers' = [parsers EXCEPT ![log] = pass.ps]
    /\ UNCHANGED <<bstage, file, left, logs, found>>

BehaviourNext ==
    \/ \E f \in DOMAIN Files : NextLog(f) \/ ParseStap(f)
    \/ \E m \in Messages : ParseMessage(m)
    \/ EndOfLog \/ BehaviourRun
    \/ \E i \in DOMAIN views : GoOver(i)

BehaviourSpec == BehaviourInit /\ [][BehaviourNext]_bvars

-----------------------------------------------------------------------------
(* No call that was counted in the first pass is missing whenever the calls are shown, though
   the parser is not started afresh; but for those of the APIs that are left out. *)
Shows(log, api) ==
    LET i == CHOOSE j \in DOMAIN views : found.processes[j].log = log
    IN  {n \in DOMAIN Last(views[i]) : Last(views[i])[n].api = api}
LogsOf(pid) == {found.processes[i].log : i \in {j \in DOMAIN views : found.processes[j].pid = pid}}
CallsKept ==
    (bstage = "results" /\ \A i \in DOMAIN views : views[i] # << >>) =>
        \A k \in DOMAIN found.stats :
            k[2] \notin Silent =>
                found.stats[k] <= Cardinality(UNION {{<<l, n>> : n \in Shows(l, k[2])} : l \in LogsOf(k[1])})

(* The summary of the analysis is that of its processes together: no event of a process is
   lost to its own summary, even when its pid is used again. *)
SummaryAgrees ==
    bstage = "results" => found.summary = UNION {found.generic[p] : p \in DOMAIN found.generic}
=============================================================================
