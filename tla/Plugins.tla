------------------------------ MODULE Plugins ------------------------------
(* The plugin manager (lib/cuckoo/core/plugins.py) and the base classes of the
   plugins (lib/cuckoo/common/abstracts.py): the auxiliary modules of an analysis
   are started and stopped, its results are put together by the processing modules,
   the signatures look at them, the reporting modules write them down.

   The classes of a group are in one list for the whole Python process, and each run
   of a group sorts that list in place.  The analysis threads of Cuckoo process their
   results themselves when process_results is on, in one Python process.          *)
EXTENDS Integers, FiniteSets, Lists, Functions, Folds, TLC

CONSTANTS Threads,   \* the analyses handled at once by this Python process
          Members,   \* what init_modules imports: a sequence of [name, base]
          Ranks,     \* [name -> order] of the processing and reporting classes
          Classes,   \* [name -> record] of the attributes of the signature classes
          Needs,     \* [name -> the signatures whose matches this one waits for]
          Version,   \* CUCKOO_VERSION without its suffix
          Platform,  \* the platform of the task, "" when none was given
          Procs,     \* behavior.processes: a sequence of [pid, calls, summary]
          MaxDepth,  \* the recursion limit of Python
          Outcomes   \* what a plugin may do when it is loaded and run

(* Signatures wait for one another in no circle, and in none so long that a chain of their
   matches goes past the recursion limit; of the calls, those of one API have its category. *)
ASSUME PluginsAssumption ==
    /\ "nobody" \notin Threads /\ MaxDepth \in Nat
    /\ IsSeq(Members) /\ \A m \in ToSet(Members) : m.base \in {"Auxiliary", "Processing", "Signature", "Report"}
    /\ IsSeq(Procs) /\ \A p \in DOMAIN Procs : IsSeq(Procs[p].calls)
    /\ \A p, q \in DOMAIN Procs : \A c \in ToSet(Procs[p].calls), d \in ToSet(Procs[q].calls) :
          c.api = d.api => c.category = d.category
    /\ \E rank \in [DOMAIN Classes -> 0..MaxDepth - 2] :
          \A s, n \in DOMAIN Classes : n \in Needs[s] => rank[n] < rank[s]

VARIABLES lists,     \* _modules: the classes of each group
          sorter,    \* the thread whose list.sort() has emptied the list
          run        \* where each analysis stands

pvars == <<lists, sorter, run>>

Nobody == "nobody"
Groups == {"auxiliary", "processing", "signatures", "reporting"}

(* register_plugin appends; load_plugins goes over the members of each module and
   leaves the base classes themselves out. *)
Register(group, name, modules) == [modules EXCEPT ![group] = Append(@, name)]
GroupOf(base) ==
    CASE base = "Auxiliary" -> "auxiliary" [] base = "Processing" -> "processing"
      [] base = "Signature" -> "signatures" [] base = "Report" -> "reporting"
Load(member, modules) ==
    IF member.base = member.name THEN modules
    ELSE Register(GroupOf(member.base), member.name, modules)
LoadPlugins ==
    LET loaded[n \in 0..Len(Members)] ==
            IF n = 0 THEN [g \in Groups |-> << >>] ELSE Load(Members[n], loaded[n - 1])
    IN  loaded[Len(Members)]

(* While list.sort() calls the key function, the list shows as empty. *)
ListPlugins(group) == IF sorter[group] = Nobody THEN lists[group] ELSE << >>

-----------------------------------------------------------------------------
(* RunSignatures.__init__: enabled, up to date and of this platform. *)

(* Versions are numbers here, 20 for 2.0; 0 stands for none, and Malformed for one at
   which StrictVersion raises ValueError. *)
Malformed == 1
VersionFits(s) ==
    /\ s.minimum # 0 =>
          /\ s.minimum # Malformed /\ Version >= s.minimum /\ s.minimum >= 20
          /\ ~ s.oldStyle
    /\ s.maximum # 0 => s.maximum # Malformed /\ Version <= s.maximum
ShouldEnable(s) ==
    /\ s.enabled
    /\ VersionFits(s)
    /\ \/ s.platform = ""
       \/ Platform = "" /\ s.platform = "windows"
       \/ s.platform = Platform
Enabled(loaded) == Those(loaded, {n \in DOMAIN Classes : ShouldEnable(Classes[n])})

(* init_api_sigs: an empty filter lets everything through. *)
Filters(s, call) ==
    /\ Classes[s].apis = {} \/ call.api \in Classes[s].apis
    /\ Classes[s].categories = {} \/ call.category \in Classes[s].categories
InitApiSigs(sigs, call) == Those(sigs, {s \in ToSet(sigs) : Filters(s, call)})

-----------------------------------------------------------------------------
(* What the base class gives a signature to look at the results with. *)

SummaryGeneric(pid, actions) ==
    UNION {IF pid \in {0, Procs[i].pid}
           THEN {v[2] : v \in {w \in Procs[i].summary : w[1] \in actions}} ELSE {} :
           i \in DOMAIN Procs}
FileActions == {"file_opened", "file_written", "file_read", "file_deleted", "file_exists", "file_failed"}
KeyActions == {"regkey_opened", "regkey_written", "regkey_read", "regkey_deleted"}
GetFiles(pid) == SummaryGeneric(pid, FileActions)
GetDlls(pid) == SummaryGeneric(pid, {"dll_loaded"})
GetKeys(pid) == SummaryGeneric(pid, KeyActions)
GetMutexes(pid) == SummaryGeneric(pid, {"mutex"})
GetNet(subtype) == SummaryGeneric(0, {subtype})

(* _check_value: a pattern is the set of the values it matches. *)
CheckValue(pattern, subject) == subject \cap pattern
CheckFile(pattern) == CheckValue(pattern, GetFiles(0))
CheckDll(pattern) == CheckValue(pattern, GetDlls(0))
CheckKey(pattern) == CheckValue(pattern, GetKeys(0))
CheckMutex(pattern) == CheckValue(pattern, GetMutexes(0))
CheckIp(pattern) == CheckValue(pattern, GetNet("hosts"))
CheckDomain(pattern) == CheckValue(pattern, GetNet("domains"))
CheckUrl(pattern) == CheckValue(pattern, GetNet("http"))
CheckAny(pattern) == UNION {CheckFile(pattern), CheckDll(pattern), CheckKey(pattern),
                            CheckMutex(pattern), CheckIp(pattern), CheckDomain(pattern),
                            CheckUrl(pattern)}

(* mark_ioc leaves out a mark that is there; the other marks are appended. *)
MarkIoc(marks, iocs) == marks \o SetToSeq(iocs \ ToSet(marks))
MarkCall(marks, call) == Append(marks, call.api)
MarkCount == 50
SignatureResults(s, marks) ==
    [name |-> s, severity |-> Classes[s].severity,
     marks |-> SubSeq(marks, 1, IF Len(marks) < MarkCount THEN Len(marks) ELSE MarkCount),
     markcount |-> Len(marks)]

-----------------------------------------------------------------------------
SetRun(t, r) == run' = [run EXCEPT ![t] = r] /\ UNCHANGED <<lists, sorter>>

NewRun ==
    [stage |-> "start", i |-> 1,
     started |-> << >>, stopped |-> << >>,    \* RunAuxiliary.enabled, and the stops
     ran |-> << >>,                           \* processing modules
     results |-> {}, reported |-> << >>,
     sigs |-> << >>, apiSigs |-> << >>, event |-> 0, stack |-> << >>,
     matched |-> {}, heard |-> << >>, marks |-> << >>,
     told |-> {}, refused |-> {},             \* calls each signature saw, APIs it is done with
     score |-> 0, signatures |-> << >>]

PluginsInit ==
    /\ lists = LoadPlugins
    /\ sorter = [g \in Groups |-> Nobody]
    /\ run = [t \in Threads |-> NewRun]

(* RunAuxiliary.start.  One that cannot be constructed ends the whole start. *)
StartAux(t) ==
    LET r == run[t]  todo == ListPlugins("auxiliary") IN
    /\ r.stage = "start"
    /\ \/ /\ r.i > Len(todo)
          /\ SetRun(t, [r EXCEPT !.stage = "stop", !.i = 1])
       \/ /\ r.i <= Len(todo)
          /\ \E o \in Outcomes :
               SetRun(t, CASE o = "load" -> [r EXCEPT !.stage = "stop", !.i = 1]
                           [] o = "ok" -> [r EXCEPT !.started = Append(@, todo[r.i]), !.i = @ + 1]
                           [] OTHER -> [r EXCEPT !.i = @ + 1])

(* RunAuxiliary.stop: an exception of one is logged, the next one is stopped. *)
StopAux(t) ==
    LET r == run[t] IN
    /\ r.stage = "stop"
    /\ SetRun(t, IF r.i > Len(r.started)
                 THEN [r EXCEPT !.stage = "look", !.i = 1]
                 ELSE [r EXCEPT !.stopped = Append(@, r.started[r.i]), !.i = @ + 1])

(* RunProcessing.run and RunReporting.run: look at the list, sort it in place, go over
   it.  A loop over a list ends for good once its index is past what the list shows. *)
Stages == [look |-> "processing", lookReports |-> "reporting"]
Sorting == [look |-> "sort", lookReports |-> "sortReports"]
Looping == [look |-> "process", lookReports |-> "report"]
After == [look |-> "signatures", lookReports |-> "done"]

LookAtList(t) ==
    LET r == run[t] IN
    \E s \in DOMAIN Stages :
        /\ r.stage = s
        /\ SetRun(t, [r EXCEPT !.stage = IF ListPlugins(Stages[s]) = << >> THEN After[s] ELSE Sorting[s]])

(* The list is emptied for as long as the order of the classes is asked for; the sort of
   a list that shows as empty does nothing. *)
SortBegins(t) ==
    \E s \in DOMAIN Stages :
        LET g == Stages[s] IN
        /\ run[t].stage = Sorting[s]
        /\ sorter[g] # t
        /\ IF ListPlugins(g) = << >>
           THEN SetRun(t, [run[t] EXCEPT !.stage = Looping[s], !.i = 1])
           ELSE sorter' = [sorter EXCEPT ![g] = t] /\ UNCHANGED <<lists, run>>

(* By order, and classes of the same order as they were. *)
Sorted(group) ==
    LET s == lists[group]
        orders == {p \in Bijection(DOMAIN s, DOMAIN s) :
                      \A i, j \in DOMAIN s :
                          i < j => \/ Ranks[s[p[i]]] < Ranks[s[p[j]]]
                                   \/ Ranks[s[p[i]]] = Ranks[s[p[j]]] /\ p[i] < p[j]}
    IN  {[i \in DOMAIN s |-> s[p[i]]] : p \in orders}
SortEnds(t) ==
    \E s \in DOMAIN Stages :
        LET g == Stages[s] IN
        /\ sorter[g] = t
        /\ sorter' = [sorter EXCEPT ![g] = Nobody]
        /\ \E s2 \in Sorted(g) : lists' = [lists EXCEPT ![g] = s2]
        /\ run' = [run EXCEPT ![t].stage = Looping[s], ![t].i = 1]

(* RunProcessing.process: the key of a module and its data go into the results when
   there are data; a failure of any kind gives (None, None). *)
ProcessedOrStopped(r, m, o) ==
    IF o = "notImplemented" THEN [r EXCEPT !.stage = "signatures"]
    ELSE [r EXCEPT !.ran = Append(@, m), !.i = @ + 1,
                   !.results = IF o = "ok" THEN @ \union {m} ELSE @]
Processed(r, m, o) ==
    [r EXCEPT !.ran = Append(@, m), !.i = @ + 1,
              !.results = IF o = "ok" THEN @ \union {m} ELSE @]
ProcessModule(t) ==
    LET r == run[t]  todo == ListPlugins("processing") IN
    /\ r.stage = "process"
    /\ IF r.i <= Len(todo)
       THEN \E o \in Outcomes : SetRun(t, Processed(r, todo[r.i], o))
       ELSE SetRun(t, [r EXCEPT !.stage = "signatures"])

(* RunSignatures(results): the list of signatures is made once, and init called. *)
StartSignatures(t) ==
    LET r == run[t]  sigs == Enabled(ListPlugins("signatures")) IN
    /\ r.stage = "signatures"
    /\ SetRun(t, [r EXCEPT !.stage = "events", !.sigs = sigs,
                           !.heard = [s \in ToSet(sigs) |-> {}],
                           !.marks = [s \in ToSet(sigs) |-> << >>]])

(* The events a run yields: each process, its calls one by one, then the completion.
   A frame of the stack is an event and the signatures still to be told of it. *)
Events == FlattenSeq([p \in DOMAIN Procs |->
              <<[kind |-> "process", proc |-> p, cid |-> 0]>> \o
              [c \in DOMAIN Procs[p].calls |-> [kind |-> "call", proc |-> p, cid |-> c]]])
          \o <<[kind |-> "complete", proc |-> 0, cid |-> 0]>>
CallOf(e) == Procs[e.proc].calls[e.cid]

(* yield_calls: the signatures of an API are looked up by its name alone, and gone over
   from the last to the first since the one at hand may be taken out. *)
ForwardToCall(todo) == IF todo = << >> THEN todo ELSE Tail(todo)
(* Taking out the signature at hand moves only those that come after it in the list,
   which a loop from the end has been over. *)
StillToCall(todo) == todo
TakeOut(apiSigs, api, s) == [apiSigs EXCEPT ![api] = RemoveFirst(@, s)]
KnownApiSigs(r, call) ==
    [a \in DOMAIN r.apiSigs \union {call.api} |->
        IF a \in DOMAIN r.apiSigs THEN r.apiSigs[a] ELSE InitApiSigs(r.sigs, call)]
YieldEvent(t) ==
    LET r == run[t]  e == Events[r.event + 1] IN
    /\ r.stage = "events" /\ r.stack = << >> /\ r.event < Len(Events)
    /\ SetRun(t, IF e.kind = "call"
                 THEN LET known == KnownApiSigs(r, CallOf(e)) IN
                      [r EXCEPT !.event = @ + 1, !.apiSigs = known,
                                !.stack = <<[ev |-> e, todo |-> Reverse(known[CallOf(e).api])]>>]
                 ELSE [r EXCEPT !.event = @ + 1, !.stack = <<[ev |-> e, todo |-> r.sigs]>>])

(* What a handler of signature s may answer.  A signature that waits for others hears
   of their matches in on_signature and has no on_call, which the base class turns into
   NotImplementedError; the others decide on calls or, as creates_exe, when all calls
   have been seen. *)
Answers(r, s, e) ==
    CASE e.kind = "call" -> IF Needs[s] # {} THEN {"notImplemented"} ELSE Outcomes
      [] e.kind = "complete" -> {IF CheckAny(Classes[s].pattern) # {} THEN "ok" ELSE "empty"}
      [] e.kind = "signature" ->
           {IF e.by \in Needs[s] /\ Needs[s] \subseteq r.heard[s] \union {e.by} THEN "ok" ELSE "empty"}
      [] OTHER -> {"empty"}

Marked(r, s, e) ==
    IF e.kind = "call" THEN MarkCall(r.marks[s], CallOf(e))
    ELSE MarkIoc(r.marks[s], IF e.kind = "complete" THEN CheckAny(Classes[s].pattern) ELSE {})

(* call_signature: a match is told to every signature, by a call of its own, and so on. *)
MatchFrameAfter(r, s) ==
    [ev |-> [kind |-> "signature", by |-> s],
     todo |-> SubSeq(r.sigs, SelectInSeq(r.sigs, LAMBDA x : x = s) + 1, Len(r.sigs))]
MatchFrame(r, s) == [ev |-> [kind |-> "signature", by |-> s], todo |-> r.sigs]
Noted(r, s, e) ==
    [r EXCEPT !.told = IF e.kind = "call" THEN @ \union {<<s, e>>} ELSE @,
              !.heard[s] = IF e.kind = "signature" THEN @ \union {e.by} ELSE @,
              !.stack[Len(r.stack)].todo = Tail(@)]
Answered(r, n, s, e, o) ==
    CASE o = "ok" /\ Len(r.stack) < MaxDepth ->
            [n EXCEPT !.matched = @ \union {s}, !.marks[s] = Marked(r, s, e),
                      !.stack = Append(@, MatchFrame(r, s))]
      [] o = "notImplemented" /\ e.kind = "call" ->
            [n EXCEPT !.refused = @ \union {<<s, CallOf(e).api>>},
                      !.apiSigs = TakeOut(@, CallOf(e).api, s),
                      !.stack[Len(r.stack)].todo = StillToCall(@)]
      [] OTHER -> n
CallSignature(t) ==
    LET r == run[t]  top == Last(r.stack)  s == Head(top.todo) IN
    /\ r.stage = "events" /\ r.stack # << >> /\ top.todo # << >>
    /\ \E o \in Answers(r, s, top.ev) : SetRun(t, Answered(r, Noted(r, s, top.ev), s, top.ev, o))

FrameEnds(t) ==
    LET r == run[t] IN
    /\ r.stage = "events" /\ r.stack # << >> /\ Last(r.stack).todo = << >>
    /\ SetRun(t, [r EXCEPT !.stack = Front(@)])

(* The end of RunSignatures.run: the score, and what matched by severity. *)
Score(matched) == MapThenFoldSet(+, 0, LAMBDA s : Classes[s].severity, LAMBDA S : CHOOSE x \in S : TRUE, matched)
BySeverity(r) ==
    LET met == Those(r.sigs, r.matched)
    IN  SortSeq([i \in DOMAIN met |-> SignatureResults(met[i], r.marks[met[i]])],
                LAMBDA a, b : a.severity < b.severity)
EndSignatures(t) ==
    LET r == run[t] IN
    /\ r.stage = "events" /\ r.stack = << >> /\ r.event = Len(Events)
    /\ SetRun(t, [r EXCEPT !.stage = "lookReports", !.score = Score(r.matched), !.signatures = BySeverity(r)])

(* RunReporting.process: set_path is outside of the try, and raises when the folder of
   the reports cannot be made: the reports that follow are not written. *)
ReportModule(t) ==
    LET r == run[t]  todo == ListPlugins("reporting") IN
    /\ r.stage = "report"
    /\ IF r.i <= Len(todo)
       THEN \E o \in Outcomes :
              SetRun(t, IF o = "noFolder" THEN [r EXCEPT !.stage = "failed"]
                        ELSE [r EXCEPT !.reported = Append(@, todo[r.i]), !.i = @ + 1])
       ELSE SetRun(t, [r EXCEPT !.stage = "done"])

PluginsNext ==
    \E t \in Threads :
        \/ StartAux(t) \/ StopAux(t)
        \/ LookAtList(t) \/ SortBegins(t) \/ SortEnds(t)
        \/ ProcessModule(t) \/ ReportModule(t)
        \/ StartSignatures(t) \/ YieldEvent(t) \/ CallSignature(t) \/ FrameEnds(t) \/ EndSignatures(t)

PluginsSpec == PluginsInit /\ [][PluginsNext]_pvars

-----------------------------------------------------------------------------
(* "Run every loaded processing module": whatever modules fail, every class that was
   registered has been gone over once for each analysis that got through. *)
AllRun ==
    \A t \in Threads :
        /\ run[t].stage = "signatures" => ToSet(run[t].ran) = ToSet(LoadPlugins["processing"])
        /\ run[t].stage = "done" => ToSet(run[t].reported) = ToSet(LoadPlugins["reporting"])

(* When a run of the signatures is over, one that waits for others has matched if they all
   have, in whatever order the list has them and however deep the matches were nested. *)
MatchesHeard ==
    \A t \in Threads : run[t].stage = "lookReports" =>
        \A s \in ToSet(run[t].sigs) :
            Needs[s] # {} /\ Needs[s] \subseteq run[t].matched => s \in run[t].matched

(* Every call of interest reaches every signature that has not said it has no on_call,
   though signatures are taken out of the list that is being gone over. *)
CallsSeen ==
    \A t \in Threads : run[t].stage = "lookReports" =>
        \A s \in ToSet(run[t].sigs), e \in ToSet(Events) :
            e.kind = "call" /\ Filters(s, CallOf(e)) =>
                <<s, e>> \in run[t].told \/ <<s, CallOf(e).api>> \in run[t].refused
=============================================================================
