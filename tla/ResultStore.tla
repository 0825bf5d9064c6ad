----------------------------- MODULE ResultStore -----------------------------
(* What is kept of the tasks: the rows of the SQL database, the folders under
   storage/analyses, and, in MongoDB, the reports, the chunks of their calls and the files
   of GridFS, each of which is stored once and shared by the reports that refer to it
   (modules/reporting/mongodb.py).  The web interface (web/analysis/views.py and
   web/submission/views.py), utils/submit.py and utils/api.py add to it and remove from it.

   A worker is a thread of a web server or a process that makes reports.  Every query of a
   database is a step of its own.  A file is known by its content, as its hashes are.     *)
EXTENDS Integers, FiniteSets, Lists, FiniteSetsExt

CONSTANTS Workers,
          Contents,        \* the files that are submitted
          Folders,         \* what analyses leave: [items, pids, processes]
          Labels,          \* the machines
          Paginate,        \* option paginate of the reporting module
          PageIds,         \* the 100 that chunk() counts the calls of a page with
          MaxRows, MaxRequests, MaxReports  \* bounds on the rows added, the requests and the reports

ASSUME ResultStoreAssumption ==
    /\ Paginate \in Nat \ {0} /\ PageIds \in Nat
    /\ \A f \in Folders : /\ IsSeq(f.processes) /\ DOMAIN f.pids = DOMAIN f.processes
                         /\ \A i \in DOMAIN f.processes : IsSeq(f.processes[i])

VARIABLES tasks,     \* the rows by id: [status, category, content, src]
          samples,   \* the contents that have a row of their own
          folders,   \* what is on the disk, by task id
          docs,      \* collection analysis, by _id: [task, refs, processes, results]
          fs,        \* GridFS: the content of each file, by _id
          calls,     \* collection calls: [_id -> chunk]
          work,      \* what each worker is doing
          made,      \* the ids given so far: [row, request, report, doc, file, chunk]
          doomed,    \* history: the reports whose removal was asked for
          excused    \* history: the files deleted although another report had use for them
store == <<tasks, samples, folders, docs, fs, calls, work, made, doomed, excused>>
sqlvars == <<tasks, samples, folders>>
mongovars == <<docs, fs, calls>>

Idle == [pc |-> "idle"]
Url == "url"
Temp == 0            \* the file of the task is a copy in the temporary folder

ResultStoreInit ==
    /\ tasks = << >> /\ samples = {} /\ folders = << >>
    /\ docs = << >> /\ fs = << >> /\ calls = << >>
    /\ work = [w \in Workers |-> Idle]
    /\ made = [row |-> 0, request |-> 0, report |-> 0, doc |-> 0, file |-> 0, chunk |-> 0]
    /\ doomed = {} /\ excused = {}

With(f, x, v) == [y \in DOMAIN f \union {x} |-> IF y = x THEN v ELSE f[y]]
Without(f, x) == Restrict(f, DOMAIN f \ {x})
Goes(w, r) == work' = [work EXCEPT ![w] = r]
Asked(m) == made.request < MaxRequests /\ made' = [m EXCEPT !.request = @ + 1]

-----------------------------------------------------------------------------
(* Submissions. *)

(* SQLite gives the id of a deleted last row once more. *)
NextId == Max({0} \union DOMAIN tasks) + 1
(* add: a sample that has a row already (IntegrityError) keeps it. *)
Add(category, c, src) ==
    /\ made.row < MaxRows
    /\ samples' = IF category = "file" THEN samples \union {c} ELSE samples
    /\ tasks' = With(tasks, NextId, [status |-> "pending", category |-> category, content |-> c, src |-> src])
OneMoreRow == [made EXCEPT !.row = @ + 1]
AddFails == UNCHANGED <<tasks, samples>>
(* add_path wants the file to be there. *)
AddPath(c, src) ==
    IF src = Temp \/ src \in DOMAIN folders THEN Add("file", c, src) ELSE AddFails
AddUrl == Add("url", Url, Temp)

(* The machine "all" of the web interface stands for a task for each machine. *)
Entries(machine) == IF machine = "all" THEN Cardinality(Labels) ELSE 1
Submit(w, category, c, src, machine) ==
    /\ work[w] = Idle
    /\ Goes(w, [pc |-> "add", category |-> category, content |-> c, src |-> src, left |-> Entries(machine)])
    /\ Asked(made)
    /\ UNCHANGED <<sqlvars, mongovars, doomed, excused>>
SubmitFile(w, c, machine) == Submit(w, "file", c, Temp, machine)
SubmitUrl(w, machine) == Submit(w, "url", Url, Temp, machine)

(* submit.py --unique looks for the sample before it adds the file. *)
SubmitUnique(w, c) ==
    /\ work[w] = Idle
    /\ Goes(w, [pc |-> "unique", category |-> "file", content |-> c, src |-> Temp, left |-> 1])
    /\ Asked(made)
    /\ UNCHANGED <<sqlvars, mongovars, doomed, excused>>
FindSample(w) ==
    /\ work[w].pc = "unique"
    /\ Goes(w, IF work[w].content \in samples THEN Idle ELSE [work[w] EXCEPT !.pc = "add"])
    /\ UNCHANGED <<sqlvars, mongovars, made, doomed, excused>>
(* resubmit, and tasks that are no files are submitted by their URL. *)
Resubmit(w, t, machine) ==
    t \in DOMAIN tasks /\ Submit(w, tasks[t].category, tasks[t].content, tasks[t].src, machine)

(* find_one without a sort: the oldest report that fits. *)
Oldest(found) == IF found = {} THEN {} ELSE {Min(found)}
Drops(d, c) == \E i \in DOMAIN docs[d].results.items : docs[d].results.items[i] = <<"dropped", c>>
DroppedFilepath(t, c) == Oldest({d \in DOMAIN docs : docs[d].task = t /\ Drops(d, c)})
SubmitDropped(w, t, c, machine) == DroppedFilepath(t, c) # {} /\ Submit(w, "file", c, t, machine)

AddEntry(w) ==
    /\ work[w].pc = "add"
    /\ IF work[w].category = "url" THEN AddUrl ELSE AddPath(work[w].content, work[w].src)
    /\ made' = OneMoreRow
    /\ Goes(w, IF work[w].left = 1 THEN Idle ELSE [work[w] EXCEPT !.left = @ - 1])
    /\ UNCHANGED <<folders, mongovars, doomed, excused>>

(* import_analysis: the row is there, pending, before the folder is. *)
ImportAdd(w, c) ==
    /\ work[w] = Idle
    /\ Add("file", c, Temp)
    /\ Asked(OneMoreRow)
    /\ Goes(w, [pc |-> "extract", task |-> NextId])
    /\ UNCHANGED <<folders, mongovars, doomed, excused>>
Extract(w) ==
    /\ work[w].pc = "extract"
    /\ \E f \in Folders : folders' = With(folders, work[w].task, f)
    /\ tasks' = IF work[w].task \in DOMAIN tasks THEN [tasks EXCEPT ![work[w].task].status = "completed"] ELSE tasks
    /\ Goes(w, Idle)
    /\ UNCHANGED <<samples, mongovars, made, doomed, excused>>

(* The scheduler: an analysis is aborted when there is a folder of its id. *)
Analysed(t) ==
    /\ tasks[t].status = "pending"
    /\ IF t \in DOMAIN folders
       THEN tasks' = [tasks EXCEPT ![t].status = "failed_analysis"] /\ UNCHANGED folders
       ELSE /\ \E f \in Folders : folders' = With(folders, t, f)
            /\ tasks' = [tasks EXCEPT ![t].status = "completed"]
    /\ UNCHANGED <<samples, mongovars, work, made, doomed, excused>>

(* rereport and tasks_delete of the REST API; reports in MongoDB stay. *)
Rereport(t) ==
    /\ tasks[t].status = "reported"
    /\ tasks' = [tasks EXCEPT ![t].status = "completed"]
    /\ Asked(made)
    /\ UNCHANGED <<samples, folders, mongovars, work, doomed, excused>>
TasksDelete(t) ==
    /\ tasks' = Without(tasks, t) /\ folders' = Without(folders, t)
    /\ Asked(made)
    /\ UNCHANGED <<samples, mongovars, work, doomed, excused>>

-----------------------------------------------------------------------------
(* The reporting module MongoDB. *)

Reporting == {"find", "close", "again", "over"}
Over(t) == [pc |-> "over", task |-> t, refs |-> {}]

StartReport(w, t) ==
    /\ work[w] = Idle /\ made.report < MaxReports
    /\ tasks[t].status \in {"completed", "reported"} /\ t \in DOMAIN folders
    /\ made' = [made EXCEPT !.report = @ + 1]
    /\ LET target == IF tasks[t].category = "file" THEN <<<<"sample", tasks[t].content>>>> ELSE << >> IN
       Goes(w, [pc |-> "find", task |-> t, results |-> folders[t], todo |-> target \o folders[t].items,
                refs |-> {}, processes |-> folders[t].processes, chunks |-> << >>])
    /\ UNCHANGED <<sqlvars, mongovars, doomed, excused>>

(* store_file: the files of GridFS have their SHA-256 as a unique index. *)
Stored(c) == {f \in DOMAIN fs : fs[f] = c}
NextFile(r) == [r EXCEPT !.pc = "find", !.todo = Tail(@)]
Refers(r, f) == [NextFile(r) EXCEPT !.refs = @ \union {<<Head(r.todo)[1], f>>}]

(* A file that is not there any more is left out of the report. *)
FindFile(w) ==
    /\ work[w].pc = "find" /\ work[w].todo # << >>
    /\ LET found == Stored(Head(work[w].todo)[2]) IN
       \/ work[w].task \notin DOMAIN folders /\ Goes(w, NextFile(work[w]))
       \/ work[w].task \in DOMAIN folders /\ \E f \in found : Goes(w, Refers(work[w], f))
       \/ work[w].task \in DOMAIN folders /\ found = {} /\ Goes(w, [work[w] EXCEPT !.pc = "close"])
    /\ UNCHANGED <<sqlvars, mongovars, made, doomed, excused>>
CloseFile(w) ==
    /\ work[w].pc = "close"
    /\ LET c == Head(work[w].todo)[2]  new == made.file + 1 IN
       IF Stored(c) = {}
       THEN /\ fs' = With(fs, new, c) /\ made' = [made EXCEPT !.file = new]
            /\ Goes(w, Refers(work[w], new))
       ELSE Goes(w, [work[w] EXCEPT !.pc = "again"]) /\ UNCHANGED <<fs, made>>
    /\ UNCHANGED <<sqlvars, docs, calls, doomed, excused>>
(* FileExists; if that file is gone by now, None has no "_id": the report is lost, and
   process.py goes on to set its task reported, for RunReporting catches the exception. *)
FindAgain(w) ==
    /\ work[w].pc = "again"
    /\ LET found == Stored(Head(work[w].todo)[2]) IN
       \/ \E f \in found : Goes(w, Refers(work[w], f))
       \/ found = {} /\ Goes(w, Over(work[w].task))
    /\ UNCHANGED <<sqlvars, mongovars, made, doomed, excused>>

(* The calls of a process, with their categories, in chunks of paginate. *)
FullChunks(cs) == [i \in 1..Len(cs) \div Paginate |-> SubSeq(cs, (i - 1) * Paginate + 1, i * Paginate)]
Chunked(cs) ==
    LET rest == SubSeq(cs, Paginate * (Len(cs) \div Paginate) + 1, Len(cs))
    IN  FullChunks(cs) \o IF rest = << >> THEN << >> ELSE <<rest>>
(* Nobody knows of the chunks of a report before the report is there. *)
StoreCalls(w) ==
    /\ work[w].pc = "find" /\ work[w].todo = << >> /\ work[w].processes # << >>
    /\ LET chunks == Chunked(Head(work[w].processes))
           ids == [i \in DOMAIN chunks |-> made.chunk + i] IN
       /\ calls' = [i \in DOMAIN calls \union ToSet(ids) |->
                       IF i \in ToSet(ids) THEN chunks[i - made.chunk] ELSE calls[i]]
       /\ made' = [made EXCEPT !.chunk = @ + Len(chunks)]
       /\ Goes(w, [work[w] EXCEPT !.processes = Tail(@), !.chunks = Append(@, ids)])
    /\ UNCHANGED <<sqlvars, docs, fs, doomed, excused>>
Save(w) ==
    /\ work[w].pc = "find" /\ work[w].todo = << >> /\ work[w].processes = << >>
    /\ docs' = With(docs, made.doc + 1, [task |-> work[w].task, refs |-> work[w].refs,
                                         processes |-> work[w].chunks, results |-> work[w].results])
    /\ made' = [made EXCEPT !.doc = @ + 1]
    /\ Goes(w, Over(work[w].task))
    /\ UNCHANGED <<sqlvars, fs, calls, doomed, excused>>
Reported(w) ==
    /\ work[w].pc = "over"
    /\ tasks' = IF work[w].task \in DOMAIN tasks THEN [tasks EXCEPT ![work[w].task].status = "reported"] ELSE tasks
    /\ Goes(w, Idle)
    /\ UNCHANGED <<samples, folders, mongovars, made, doomed, excused>>
(* What is stored of the report stays behind. *)
KilledReport(w) ==
    /\ work[w].pc \in Reporting
    /\ Goes(w, Idle)
    /\ UNCHANGED <<sqlvars, mongovars, made, doomed, excused>>

-----------------------------------------------------------------------------
(* remove: the fields of a report are gone through in this order, and the report goes last;
   the memory dumps and what was extracted from them are in none of them. *)
Fields == [sample |-> 1, shots |-> 2, pcap |-> 3, sorted |-> 4, mitm |-> 5, dropped |-> 6]
Rank(x) == IF x.field \in DOMAIN Fields THEN Fields[x.field] ELSE 7
Document(d) == [doc |-> d, field |-> "doc", file |-> 0]
Removals(d) ==
    {[doc |-> d, field |-> r[1], file |-> r[2]] : r \in {x \in docs[d].refs : x[1] \in DOMAIN Fields}} \union {Document(d)}
Earlier(x, y) == x.doc < y.doc \/ (x.doc = y.doc /\ Rank(x) < Rank(y))
(* The files of a field come as the list in the report has them. *)
Firsts(todo) == {x \in todo : \A y \in todo : ~ Earlier(y, x)}

RemoveAnalysis(w, t) ==
    /\ work[w] = Idle
    /\ LET found == {d \in DOMAIN docs : docs[d].task = t} IN
       /\ found # {}
       /\ doomed' = doomed \union found
       /\ Goes(w, [pc |-> "remove", task |-> t, todo |-> UNION {Removals(d) : d \in found},
                   next |-> Document(0), mark |-> 0, stale |-> FALSE])
    /\ Asked(made)
    /\ UNCHANGED <<sqlvars, mongovars, excused>>

(* The reports that refer to a file in the same field. *)
Uses(field, f) == {d \in DOMAIN docs : <<field, f>> \in docs[d].refs}
UnusedElsewhere(field, f) == Cardinality(Uses(field, f)) # 0
LastUse(field, f) == Cardinality(Uses(field, f)) = 1
CountUses(w) ==
    /\ work[w].pc = "remove"
    /\ \E x \in Firsts(work[w].todo) :
       /\ x.field # "doc"
       /\ Goes(w, IF LastUse(x.field, x.file)
                  THEN [work[w] EXCEPT !.pc = "delete", !.next = x, !.todo = @ \ {x},
                                       !.mark = made.doc, !.stale = x.doc \notin DOMAIN docs]
                  ELSE [work[w] EXCEPT !.todo = @ \ {x}])
    /\ UNCHANGED <<sqlvars, mongovars, made, doomed, excused>>

(* fs.delete, which does not mind that there is no such file.  Another report may have
   use for the file: it refers to it in another field; a report that is being made has
   found it, or has been saved since the count; or the report that is removed here has
   been removed by another request before the count, which then saw the other one. *)
NeededElsewhere(w, field, f) ==
    \/ \E d \in DOMAIN docs \ doomed : \E r \in docs[d].refs : r[1] # field /\ r[2] = f
    \/ \E v \in Workers : work[v].pc \in Reporting /\ \E r \in work[v].refs : r[2] = f
    \/ \E d \in DOMAIN docs \ doomed : d > work[w].mark /\ \E r \in docs[d].refs : r[2] = f
    \/ work[w].stale
DeleteFile(w) ==
    /\ work[w].pc = "delete"
    /\ LET x == work[w].next IN
       /\ fs' = Without(fs, x.file)
       /\ excused' = IF x.file \in DOMAIN fs /\ NeededElsewhere(w, x.field, x.file)
                     THEN excused \union {x.file} ELSE excused
    /\ Goes(w, [work[w] EXCEPT !.pc = "remove", !.next = Document(0), !.mark = 0, !.stale = FALSE])
    /\ UNCHANGED <<sqlvars, docs, calls, made, doomed>>
RemoveDoc(w) ==
    /\ work[w].pc = "remove"
    /\ \E x \in Firsts(work[w].todo) :
       /\ x.field = "doc"
       /\ docs' = Without(docs, x.doc)
       /\ calls' = IF x.doc \in DOMAIN docs
                   THEN Restrict(calls, DOMAIN calls \ UNION {ToSet(p) : p \in ToSet(docs[x.doc].processes)})
                   ELSE calls
       /\ Goes(w, [work[w] EXCEPT !.todo = @ \ {x}])
    /\ UNCHANGED <<sqlvars, fs, made, doomed, excused>>
(* delete_task, whatever the state of the task; the folder stays. *)
RemoveTask(w) ==
    /\ work[w].pc = "remove" /\ work[w].todo = {}
    /\ tasks' = Without(tasks, work[w].task)
    /\ Goes(w, Idle)
    /\ UNCHANGED <<samples, folders, mongovars, made, doomed, excused>>

-----------------------------------------------------------------------------
(* The pages that show calls, by 0, 1, ...  The report page shows the newest report of a
   task; chunk and filtered_chunk look, without a sort, for one that has the process, and
   of several processes with its pid take the last. *)
ReportsOf(t) == {d \in DOMAIN docs : docs[d].task = t}
WithPid(d, pid) == {i \in DOMAIN docs[d].results.pids : docs[d].results.pids[i] = pid}
CallsOf(t, pid) ==
    LET found == {d \in ReportsOf(t) : WithPid(d, pid) # {}}  d == Min(found) IN
    IF found = {} THEN << >> ELSE docs[d].processes[Max(WithPid(d, pid))]
ChunkOfPage(t, pid, page) ==
    LET ids == CallsOf(t, pid) IN
    IF page + 1 \in DOMAIN ids /\ ids[page + 1] \in DOMAIN calls
    THEN [k \in DOMAIN calls[ids[page + 1]] |->
             [id |-> page * PageIds + k - 1, category |-> calls[ids[page + 1]][k]]]
    ELSE << >>
FilteredChunk(t, pid, category) ==
    LET ids == CallsOf(t, pid) IN
    IF ToSet(ids) \subseteq DOMAIN calls
    THEN FlattenSeq([p \in DOMAIN ids |-> Those(calls[ids[p]], {category})]) ELSE << >>
(* search_behavior goes through the processes of the first report of the task, and takes
   the chunks as the database has them, in the order of their ids. *)
InOrder(ids) ==
    CHOOSE q \in [1..Cardinality(ids) -> ids] : \A j, k \in 1..Cardinality(ids) : j < k => q[j] < q[k]
FoundIn(ids, category) ==
    LET chunks == InOrder(ToSet(ids) \cap DOMAIN calls)
        all == FlattenSeq([p \in DOMAIN chunks |-> calls[chunks[p]]])
    IN  {[id |-> k - 1, category |-> all[k]] : k \in {j \in DOMAIN all : all[j] = category}}
SearchBehavior(t, category) ==
    LET d == Min(ReportsOf(t)) IN
    [i \in DOMAIN docs[d].processes |-> FoundIn(docs[d].processes[i], category)]

-----------------------------------------------------------------------------
ResultStoreNext ==
    \/ \E w \in Workers :
          \/ \E machine \in {"", "all"} :
                \/ \E c \in Contents : SubmitFile(w, c, machine)
                \/ SubmitUrl(w, machine)
                \/ \E t \in DOMAIN tasks : Resubmit(w, t, machine)
                \/ \E t \in 1..MaxRows, c \in Contents : SubmitDropped(w, t, c, machine)
          \/ \E c \in Contents : SubmitUnique(w, c) \/ ImportAdd(w, c)
          \/ FindSample(w) \/ AddEntry(w) \/ Extract(w)
          \/ \E t \in DOMAIN tasks : StartReport(w, t)
          \/ FindFile(w) \/ CloseFile(w) \/ FindAgain(w) \/ StoreCalls(w) \/ Save(w)
          \/ Reported(w) \/ KilledReport(w)
          \/ \E t \in 1..MaxRows : RemoveAnalysis(w, t)
          \/ CountUses(w) \/ DeleteFile(w) \/ RemoveDoc(w) \/ RemoveTask(w)
    \/ \E t \in DOMAIN tasks : Analysed(t) \/ Rereport(t) \/ TasksDelete(t)

ResultStoreSpec == ResultStoreInit /\ [][ResultStoreNext]_store

-----------------------------------------------------------------------------
(* A report that is kept can show its files: none is deleted that another report refers
   to, but for those NeededElsewhere names. *)
FilesKept ==
    \A d \in DOMAIN docs \ doomed : \A r \in docs[d].refs : r[2] \in DOMAIN fs \union excused

(* What the pages of a task show are the calls of its oldest report, and so of the report
   the report page shows as long as the task has no other: of the last process with a pid
   each call once, in order, under its number; what they show of a category, and the
   numbers under which a search finds the calls of a process, agree with that. *)
FromZero(of) == [k \in DOMAIN of |-> [id |-> k - 1, category |-> of[k]]]
LastWithPid(d, i) == \A j \in WithPid(d, docs[d].results.pids[i]) : j <= i
PagesAgree ==
    \A d \in DOMAIN docs \ doomed : (\A e \in ReportsOf(docs[d].task) : d <= e) =>
        \A i \in DOMAIN docs[d].results.processes :
            LET t == docs[d].task  pid == docs[d].results.pids[i]
                of == docs[d].results.processes[i] IN
            /\ LastWithPid(d, i) =>
                  /\ FlattenSeq([p \in DOMAIN docs[d].processes[i] |-> ChunkOfPage(t, pid, p - 1)]) = FromZero(of)
                  /\ \A category \in ToSet(of) : FilteredChunk(t, pid, category) = Those(of, {category})
            /\ \A category \in ToSet(of) :
                  SearchBehavior(t, category)[i] = {x \in ToSet(FromZero(of)) : x.category = category}

(* "Delete sample if not used.": a sample that is removed is of no use to another report. *)
SampleUnused ==
    [][\A w \in Workers :
          work[w].pc = "delete" /\ work'[w].pc = "remove" /\ work[w].next.field = "sample" =>
              \A d \in DOMAIN docs \ doomed : \A r \in docs[d].refs : r[2] # work[w].next.file]_store
=============================================================================
