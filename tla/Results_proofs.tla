--------------------------- MODULE Results_proofs ---------------------------
(***************************************************************************)
(* Proofs about what becomes of results.  ResultStore: with any number of  *)
(* reporters and of requests of the web interface, a report that is kept   *)
(* can show its files, but for those a removal may delete by mistake, and  *)
(* the pages of its calls show them all.  Memory: what is reported of a    *)
(* process that holds injected code stays in the results.  CuckooML: a     *)
(* clustering saved in place is not lost to a later run.  Behaviour: the   *)
(* summary of an analysis is that of its processes, and the calls of a log *)
(* are those that were counted.  Network: a connection that was sorted in  *)
(* one chunk is read whole from where it was listed, and no packet is      *)
(* dissected twice or never.                                               *)
(***************************************************************************)
EXTENDS Memory, ResultStore, CuckooML, Behaviour, Network, Lists_proofs, FiniteSetTheorems, TLAPS

Counters == {"row", "request", "report", "doc", "file", "chunk"}
AtFiles == {"find", "close", "again"}
Removing == {"remove", "delete"}

(* The fields a job has. *)
JobShape(r) ==
    /\ r.pc \in {"unique", "add"} => DOMAIN r = {"pc", "category", "content", "src", "left"}
    /\ r.pc \in AtFiles => DOMAIN r = {"pc", "task", "results", "todo", "refs", "processes", "chunks"}
    /\ r.pc = "over" => r.refs = {}
    /\ r.pc \in Removing => DOMAIN r = {"pc", "task", "todo", "next", "mark", "stale"}
WorkInv == DOMAIN work = Workers /\ \A w \in Workers : JobShape(work[w])

(* The id of a report is given once. *)
DocsInv ==
    /\ DOMAIN made = Counters /\ made.doc \in Nat
    /\ DOMAIN docs \subseteq 1..made.doc /\ doomed \subseteq 1..made.doc

Pair(r) == r = <<r[1], r[2]>>
RefsInv ==
    /\ \A d \in DOMAIN docs : \A r \in docs[d].refs : Pair(r)
    /\ \A w \in Workers :
          work[w].pc \in Reporting =>
              \A r \in work[w].refs : Pair(r) /\ r[2] \in DOMAIN fs \union excused

(* What a removal has still to go through are files of the reports it removes. *)
RemovalInv ==
    \A w \in Workers : work[w].pc \in Removing =>
        \A x \in work[w].todo :
            /\ x.doc \in doomed
            /\ x.field # "doc" /\ x.doc \in DOMAIN docs => <<x.field, x.file>> \in docs[x.doc].refs

(* Of the reports there were at the count, the one that referred to the file in this
   field is to be removed, unless the count was made for a report already gone. *)
CountInv ==
    \A w \in Workers : work[w].pc = "delete" =>
        /\ work[w].mark \in Nat /\ work[w].mark <= made.doc
        /\ ~ work[w].stale =>
              \A d \in DOMAIN docs :
                  d <= work[w].mark /\ <<work[w].next.field, work[w].next.file>> \in docs[d].refs => d \in doomed

StoreInv == WorkInv /\ DocsInv /\ RefsInv /\ RemovalInv /\ CountInv /\ FilesKept

-----------------------------------------------------------------------------
(* Lemmas about jobs *)

RefsOf(r) == \A q \in r.refs : Pair(q) /\ q[2] \in DOMAIN fs \union excused
TodoOf(r) ==
    \A x \in r.todo :
        /\ x.doc \in doomed
        /\ x.field # "doc" /\ x.doc \in DOMAIN docs => <<x.field, x.file>> \in docs[x.doc].refs
CountOf(r) ==
    /\ r.mark \in Nat /\ r.mark <= made.doc
    /\ ~ r.stale => \A d \in DOMAIN docs :
                        d <= r.mark /\ <<r.next.field, r.next.file>> \in docs[d].refs => d \in doomed

(* The other counters have no part in it. *)
SameReports ==
    /\ DOMAIN made' = DOMAIN made /\ made'.doc = made.doc
    /\ docs' = docs /\ doomed' = doomed

(* A worker whose new job is in order, while reports and files stay. *)
LEMMA NewJob ==
  ASSUME StoreInv, NEW w \in Workers, NEW r, Goes(w, r), JobShape(r),
         SameReports, fs' = fs, excused' = excused,
         r.pc \in Reporting => RefsOf(r),
         r.pc \in Removing => TodoOf(r),
         r.pc = "delete" => CountOf(r)
  PROVE  StoreInv'
  <1>1. WorkInv'
    BY DEF StoreInv, WorkInv, Goes
  <1>2. \A v \in Workers : work'[v] = IF v = w THEN r ELSE work[v]
    BY DEF StoreInv, WorkInv, Goes
  <1>3. DocsInv'
    BY DEF StoreInv, DocsInv, SameReports
  <1>4. RefsInv'
    <2>1. \A d \in DOMAIN docs' : \A q \in docs'[d].refs : Pair(q)
      BY DEF StoreInv, RefsInv, SameReports
    <2>2. ASSUME NEW v \in Workers, work'[v].pc \in Reporting
          PROVE  \A q \in work'[v].refs : Pair(q) /\ q[2] \in DOMAIN fs' \union excused'
      BY <2>2, <1>2 DEF StoreInv, RefsInv, RefsOf
    <2> QED
      BY <2>1, <2>2 DEF RefsInv, Pair
  <1>5. RemovalInv'
    BY <1>2 DEF StoreInv, RemovalInv, TodoOf, SameReports
  <1>6. CountInv'
    <2> SUFFICES ASSUME NEW v \in Workers, work'[v].pc = "delete"
                 PROVE  /\ work'[v].mark \in Nat /\ work'[v].mark <= made'.doc
                        /\ ~ work'[v].stale =>
                              \A d \in DOMAIN docs' :
                                  d <= work'[v].mark /\ <<work'[v].next.field, work'[v].next.file>> \in docs'[d].refs
                                      => d \in doomed'
      BY DEF CountInv
    <2>1. CASE v = w
      BY <2>1, <1>2 DEF CountOf, SameReports
    <2>2. CASE v # w
      BY <2>2, <1>2 DEF StoreInv, CountInv, SameReports
    <2> QED
      BY <2>1, <2>2
  <1>7. FilesKept'
    BY DEF StoreInv, FilesKept, SameReports
  <1> QED
    BY <1>1, <1>3, <1>4, <1>5, <1>6, <1>7 DEF StoreInv

(* What changes the tasks, samples and folders only. *)
LEMMA SameJobs ==
  ASSUME StoreInv, SameReports, fs' = fs, excused' = excused, work' = work
  PROVE  StoreInv'
  <1>1. WorkInv'
    BY DEF StoreInv, WorkInv, JobShape
  <1>2. DocsInv' /\ FilesKept'
    BY DEF StoreInv, DocsInv, FilesKept, SameReports
  <1>3. RefsInv'
    BY DEF StoreInv, RefsInv, SameReports, Pair
  <1>4. RemovalInv'
    BY DEF StoreInv, RemovalInv, SameReports
  <1>5. CountInv'
    BY DEF StoreInv, CountInv, SameReports
  <1> QED
    BY <1>1, <1>2, <1>3, <1>4, <1>5 DEF StoreInv

(* Jobs that are of no concern to reports. *)
LEMMA OtherJob ==
  ASSUME StoreInv, NEW w \in Workers, NEW r, Goes(w, r), r.pc \notin Reporting \union Removing,
         JobShape(r), SameReports, fs' = fs, excused' = excused
  PROVE  StoreInv'
  BY NewJob DEF Removing

-----------------------------------------------------------------------------
(* One lemma per kind of action *)

LEMMA Counting ==
  ASSUME StoreInv, NEW c \in Counters \ {"doc"}, NEW n, NEW m \in {made, OneMoreRow},
         made' = [m EXCEPT ![c] = n]
  PROVE  DOMAIN made' = DOMAIN made /\ made'.doc = made.doc
  <1>1. DOMAIN m = Counters /\ m.doc = made.doc
    BY DEF StoreInv, DocsInv, OneMoreRow, Counters
  <1> QED
    BY <1>1 DEF StoreInv, DocsInv, Counters

LEMMA JobKinds ==
  /\ JobShape(Idle)
  /\ Idle.pc \notin Reporting \union Removing
  /\ {"add", "unique", "extract"} \cap (Reporting \union Removing) = {}
  /\ Reporting \cap Removing = {}
  BY DEF Idle, JobShape, AtFiles, Reporting, Removing

LEMMA SubmitKeeps ==
  ASSUME StoreInv, NEW w \in Workers, NEW category, NEW c, NEW src, NEW machine,
         Submit(w, category, c, src, machine)
  PROVE  StoreInv'
  <1> DEFINE r == [pc |-> "add", category |-> category, content |-> c, src |-> src, left |-> Entries(machine)]
  <1>1. SameReports
    BY Counting DEF Submit, SameReports, Asked, mongovars, Counters
  <1>2. Goes(w, r) /\ r.pc = "add" /\ fs' = fs /\ excused' = excused /\ JobShape(r)
    BY DEF Submit, mongovars, JobShape, AtFiles, Removing
  <1> QED
    BY <1>1, <1>2, OtherJob, JobKinds

LEMMA SubmissionsKeep ==
  ASSUME StoreInv, NEW w \in Workers,
         \/ \E machine \in {"", "all"} :
                \/ \E c \in Contents : SubmitFile(w, c, machine)
                \/ SubmitUrl(w, machine)
                \/ \E t \in DOMAIN tasks : Resubmit(w, t, machine)
                \/ \E t \in 1..MaxRows, c \in Contents : SubmitDropped(w, t, c, machine)
         \/ \E c \in Contents : SubmitUnique(w, c) \/ ImportAdd(w, c)
         \/ FindSample(w) \/ AddEntry(w) \/ Extract(w)
  PROVE  StoreInv'
  <1>1. ASSUME NEW machine, NEW c, SubmitFile(w, c, machine)
        PROVE  StoreInv'
    BY <1>1, SubmitKeeps DEF SubmitFile
  <1>2. ASSUME NEW machine, SubmitUrl(w, machine)
        PROVE  StoreInv'
    BY <1>2, SubmitKeeps DEF SubmitUrl
  <1>3. ASSUME NEW machine, NEW t, Resubmit(w, t, machine)
        PROVE  StoreInv'
    BY <1>3, SubmitKeeps DEF Resubmit
  <1>4. ASSUME NEW machine, NEW t, NEW c, SubmitDropped(w, t, c, machine)
        PROVE  StoreInv'
    BY <1>4, SubmitKeeps DEF SubmitDropped
  <1>5. ASSUME NEW c, SubmitUnique(w, c)
        PROVE  StoreInv'
    <2> DEFINE r == [pc |-> "unique", category |-> "file", content |-> c, src |-> Temp, left |-> 1]
    <2>1. SameReports
      BY <1>5, Counting DEF SubmitUnique, SameReports, Asked, mongovars, Counters
    <2>2. Goes(w, r) /\ r.pc = "unique" /\ fs' = fs /\ excused' = excused /\ JobShape(r)
      BY <1>5 DEF SubmitUnique, mongovars, JobShape, AtFiles, Removing
    <2> QED
      BY <2>1, <2>2, OtherJob, JobKinds
  <1>6. ASSUME NEW c, ImportAdd(w, c)
        PROVE  StoreInv'
    <2> DEFINE r == [pc |-> "extract", task |-> NextId]
    <2>1. SameReports
      BY <1>6, Counting DEF ImportAdd, SameReports, Asked, mongovars, Counters
    <2>2. Goes(w, r) /\ r.pc = "extract" /\ fs' = fs /\ excused' = excused /\ JobShape(r)
      BY <1>6 DEF ImportAdd, mongovars, JobShape, AtFiles, Removing
    <2> QED
      BY <2>1, <2>2, OtherJob, JobKinds
  <1>7. CASE FindSample(w)
    <2> DEFINE r == IF work[w].content \in samples THEN Idle ELSE [work[w] EXCEPT !.pc = "add"]
    <2>1. SameReports /\ Goes(w, r) /\ fs' = fs /\ excused' = excused
      BY <1>7 DEF FindSample, SameReports, mongovars
    <2>2. DOMAIN work[w] = {"pc", "category", "content", "src", "left"}
      BY <1>7 DEF FindSample, StoreInv, WorkInv, JobShape
    <2>3. r.pc \in {"idle", "add"} /\ JobShape(r)
      BY <2>2 DEF Idle, JobShape, AtFiles, Removing
    <2> QED
      BY <2>1, <2>3, OtherJob DEF Reporting, Removing
  <1>8. CASE AddEntry(w)
    <2> DEFINE r == IF work[w].left = 1 THEN Idle ELSE [work[w] EXCEPT !.left = @ - 1]
    <2>1. SameReports
      BY <1>8, Counting DEF AddEntry, SameReports, OneMoreRow, mongovars, Counters
    <2>2. Goes(w, r) /\ fs' = fs /\ excused' = excused
      BY <1>8 DEF AddEntry, mongovars
    <2>3. DOMAIN work[w] = {"pc", "category", "content", "src", "left"}
      BY <1>8 DEF AddEntry, StoreInv, WorkInv, JobShape
    <2>4. r.pc \in {"idle", "add"} /\ JobShape(r)
      BY <1>8, <2>3 DEF Idle, AddEntry, JobShape, AtFiles, Removing
    <2> QED
      BY <2>1, <2>2, <2>4, OtherJob DEF Reporting, Removing
  <1>9. CASE Extract(w)
    <2>1. SameReports /\ Goes(w, Idle) /\ fs' = fs /\ excused' = excused
      BY <1>9 DEF Extract, SameReports, mongovars
    <2> QED
      BY <2>1, OtherJob, JobKinds
  <1> QED
    BY <1>1, <1>2, <1>3, <1>4, <1>5, <1>6, <1>7, <1>8, <1>9

LEMMA TasksKeep ==
  ASSUME StoreInv, NEW t \in DOMAIN tasks, Analysed(t) \/ Rereport(t) \/ TasksDelete(t)
  PROVE  StoreInv'
  <1>1. SameReports
    BY Counting DEF Analysed, Rereport, TasksDelete, SameReports, Asked, mongovars, Counters
  <1> QED
    BY <1>1, SameJobs DEF Analysed, Rereport, TasksDelete, mongovars

(* A reporter refers to a file it has just found or stored. *)
LEMMA FoundFile ==
  ASSUME StoreInv, NEW w \in Workers, work[w].pc \in AtFiles, NEW f
  PROVE  /\ JobShape(Refers(work[w], f)) /\ Refers(work[w], f).pc = "find"
         /\ Refers(work[w], f).refs = work[w].refs \union {<<Head(work[w].todo)[1], f>>}
         /\ JobShape(NextFile(work[w])) /\ NextFile(work[w]).pc = "find"
         /\ NextFile(work[w]).refs = work[w].refs
  <1>1. DOMAIN work[w] = {"pc", "task", "results", "todo", "refs", "processes", "chunks"}
    BY DEF StoreInv, WorkInv, JobShape
  <1> QED
    BY <1>1 DEF Refers, NextFile, JobShape, AtFiles, Removing

LEMMA ReportingKeeps ==
  ASSUME StoreInv, NEW w \in Workers,
         \/ \E t \in DOMAIN tasks : StartReport(w, t)
         \/ FindFile(w) \/ FindAgain(w) \/ StoreCalls(w) \/ Reported(w) \/ KilledReport(w)
  PROVE  StoreInv'
  <1>0. work[w].pc \in Reporting => RefsOf(work[w])
    BY DEF StoreInv, RefsInv, RefsOf
  <1>1. ASSUME NEW t \in DOMAIN tasks, StartReport(w, t)
        PROVE  StoreInv'
    <2> DEFINE target == IF tasks[t].category = "file" THEN <<<<"sample", tasks[t].content>>>> ELSE << >>
               r == [pc |-> "find", task |-> t, results |-> folders[t], todo |-> target \o folders[t].items,
                     refs |-> {}, processes |-> folders[t].processes, chunks |-> << >>]
    <2>1. SameReports
      BY <1>1, Counting DEF StartReport, SameReports, mongovars, Counters
    <2>2. Goes(w, r) /\ fs' = fs /\ excused' = excused
      BY <1>1 DEF StartReport, mongovars
    <2>3. r.pc = "find" /\ r.refs = {} /\ JobShape(r)
      BY DEF JobShape, AtFiles, Removing
    <2> HIDE DEF r
    <2> QED
      BY <2>1, <2>2, <2>3, NewJob DEF RefsOf, Removing
  <1>2. CASE FindFile(w)
    <2>1. SameReports /\ fs' = fs /\ excused' = excused
      BY <1>2 DEF FindFile, SameReports, mongovars
    <2>2. work[w].pc \in AtFiles /\ work[w].pc \in Reporting
      BY <1>2 DEF FindFile, AtFiles, Reporting
    <2>3. CASE Goes(w, NextFile(work[w]))
      BY <2>1, <2>2, <2>3, <1>0, FoundFile, NewJob DEF RefsOf, Removing
    <2>4. ASSUME NEW f \in Stored(Head(work[w].todo)[2]), Goes(w, Refers(work[w], f))
          PROVE  StoreInv'
      <3>1. f \in DOMAIN fs
        BY <2>4 DEF Stored
      <3>2. RefsOf(Refers(work[w], f))
        BY <3>1, <2>2, <1>0, FoundFile DEF RefsOf, Pair
      <3> QED
        BY <2>1, <2>2, <2>4, <3>2, FoundFile, NewJob DEF Removing
    <2>5. CASE Goes(w, [work[w] EXCEPT !.pc = "close"])
      <3> DEFINE r == [work[w] EXCEPT !.pc = "close"]
      <3>1. JobShape(r) /\ r.pc = "close" /\ r.refs = work[w].refs
        BY <2>2 DEF StoreInv, WorkInv, JobShape, AtFiles, Removing
      <3> QED
        BY <2>1, <2>2, <2>5, <3>1, <1>0, NewJob DEF RefsOf, Removing
    <2> QED
      BY <1>2, <2>3, <2>4, <2>5 DEF FindFile
  <1>3. CASE FindAgain(w)
    <2>1. SameReports /\ fs' = fs /\ excused' = excused
      BY <1>3 DEF FindAgain, SameReports, mongovars
    <2>2. work[w].pc \in AtFiles /\ work[w].pc \in Reporting
      BY <1>3 DEF FindAgain, AtFiles, Reporting
    <2>3. ASSUME NEW f \in Stored(Head(work[w].todo)[2]), Goes(w, Refers(work[w], f))
          PROVE  StoreInv'
      <3>1. f \in DOMAIN fs
        BY <2>3 DEF Stored
      <3>2. RefsOf(Refers(work[w], f))
        BY <3>1, <2>2, <1>0, FoundFile DEF RefsOf, Pair
      <3> QED
        BY <2>1, <2>2, <2>3, <3>2, FoundFile, NewJob DEF Removing
    <2>4. CASE Goes(w, Over(work[w].task))
      <3> DEFINE r == Over(work[w].task)
      <3>1. JobShape(r) /\ r.pc = "over" /\ r.refs = {}
        BY DEF Over, JobShape, AtFiles, Removing
      <3> HIDE DEF r
      <3> QED
        BY <2>1, <2>4, <3>1, NewJob DEF r, RefsOf, Removing
    <2> QED
      BY <1>3, <2>3, <2>4 DEF FindAgain
  <1>4. CASE StoreCalls(w)
    <2> DEFINE slices == Chunked(Head(work[w].processes))
               ids == [i \in DOMAIN slices |-> made.chunk + i]
               r == [work[w] EXCEPT !.processes = Tail(@), !.chunks = Append(@, ids)]
    <2>1. SameReports /\ fs' = fs /\ excused' = excused
      BY <1>4, Counting DEF StoreCalls, SameReports, Counters
    <2>2. work[w].pc = "find" /\ Goes(w, r)
      BY <1>4 DEF StoreCalls
    <2>3. JobShape(r) /\ r.pc = "find" /\ r.refs = work[w].refs
      BY <2>2 DEF StoreInv, WorkInv, JobShape, AtFiles, Removing
    <2> HIDE DEF r
    <2> QED
      BY <2>1, <2>2, <2>3, <1>0, NewJob DEF RefsOf, Removing, Reporting
  <1>5. CASE Reported(w)
    <2>1. SameReports /\ Goes(w, Idle) /\ fs' = fs /\ excused' = excused
      BY <1>5 DEF Reported, SameReports, mongovars
    <2> QED
      BY <2>1, OtherJob, JobKinds
  <1>6. CASE KilledReport(w)
    <2>1. SameReports /\ Goes(w, Idle) /\ fs' = fs /\ excused' = excused
      BY <1>6 DEF KilledReport, SameReports, mongovars
    <2> QED
      BY <2>1, OtherJob, JobKinds
  <1> QED
    BY <1>1, <1>2, <1>3, <1>4, <1>5, <1>6

LEMMA CloseFileKeeps ==
  ASSUME StoreInv, NEW w \in Workers, CloseFile(w)
  PROVE  StoreInv'
  <1> DEFINE c == Head(work[w].todo)[2]
             new == made.file + 1
  <1>0. work[w].pc = "close" /\ work[w].pc \in AtFiles /\ work[w].pc \in Reporting
    BY DEF CloseFile, AtFiles, Reporting
  <1>1. \A q \in work[w].refs : Pair(q) /\ q[2] \in DOMAIN fs \union excused
    BY <1>0 DEF StoreInv, RefsInv
  <1>2. SameReports /\ excused' = excused
    BY Counting DEF CloseFile, SameReports, Counters
  <1>3. CASE Stored(c) # {}
    <2> DEFINE r == [work[w] EXCEPT !.pc = "again"]
    <2>1. Goes(w, r) /\ fs' = fs
      BY <1>3 DEF CloseFile
    <2>2. JobShape(r) /\ r.pc = "again" /\ r.refs = work[w].refs
      BY <1>0 DEF StoreInv, WorkInv, JobShape, AtFiles, Removing
    <2> QED
      BY <1>1, <1>2, <2>1, <2>2, NewJob DEF RefsOf, Removing
  <1>4. CASE Stored(c) = {}
    <2> DEFINE r == Refers(work[w], new)
    <2>1. Goes(w, r) /\ fs' = With(fs, new, c)
      BY <1>4 DEF CloseFile
    <2>2. DOMAIN fs' = {new} \union DOMAIN fs
      BY <2>1 DEF With
    <2>3. JobShape(r) /\ r.pc = "find" /\ r.refs = work[w].refs \union {<<Head(work[w].todo)[1], new>>}
      BY <1>0, FoundFile
    <2> HIDE DEF r, c, new
    <2>4. \A v \in Workers : work'[v] = IF v = w THEN r ELSE work[v]
      BY <2>1 DEF StoreInv, WorkInv, Goes
    <2>5. WorkInv'
      BY <2>1, <2>3 DEF StoreInv, WorkInv, Goes
    <2>6. DocsInv'
      BY <1>2 DEF StoreInv, DocsInv, SameReports
    <2>7. RefsInv'
      <3>1. \A d \in DOMAIN docs' : \A q \in docs'[d].refs : Pair(q)
        BY <1>2 DEF StoreInv, RefsInv, SameReports
      <3>2. \A q \in r.refs : Pair(q) /\ q[2] \in DOMAIN fs' \union excused'
        BY <1>1, <1>2, <2>2, <2>3 DEF Pair
      <3>3. ASSUME NEW v \in Workers, work'[v].pc \in Reporting
            PROVE  \A q \in work'[v].refs : Pair(q) /\ q[2] \in DOMAIN fs' \union excused'
        BY <3>2, <3>3, <1>2, <2>2, <2>4 DEF StoreInv, RefsInv
      <3> QED
        BY <3>1, <3>3 DEF RefsInv, Pair
    <2>8. RemovalInv'
      BY <1>2, <2>3, <2>4 DEF StoreInv, RemovalInv, SameReports, Removing
    <2>9. CountInv'
      BY <1>2, <2>3, <2>4 DEF StoreInv, CountInv, SameReports
    <2>10. FilesKept'
      BY <1>2, <2>2 DEF StoreInv, FilesKept, SameReports
    <2> QED
      BY <2>5, <2>6, <2>7, <2>8, <2>9, <2>10 DEF StoreInv
  <1> QED
    BY <1>3, <1>4

LEMMA SaveKeeps ==
  ASSUME StoreInv, NEW w \in Workers, Save(w)
  PROVE  StoreInv'
  <1> DEFINE new == made.doc + 1
             doc == [task |-> work[w].task, refs |-> work[w].refs,
                     processes |-> work[w].chunks, results |-> work[w].results]
             r == Over(work[w].task)
  <1>0. work[w].pc \in Reporting
    BY DEF Save, Reporting
  <1>1. \A q \in work[w].refs : Pair(q) /\ q[2] \in DOMAIN fs \union excused
    BY <1>0 DEF StoreInv, RefsInv
  <1>2. Goes(w, r) /\ docs' = With(docs, new, doc) /\ fs' = fs /\ excused' = excused /\ doomed' = doomed
    BY DEF Save
  <1>3. made' = [made EXCEPT !.doc = @ + 1]
    BY DEF Save
  <1>4. /\ DOMAIN docs' = {new} \union DOMAIN docs
        /\ docs'[new] = doc /\ doc.refs = work[w].refs
        /\ \A d \in DOMAIN docs \ {new} : docs'[d] = docs[d]
    BY <1>2 DEF With
  <1>5. made'.doc = new /\ DOMAIN made' = Counters
    BY <1>3 DEF StoreInv, DocsInv, Counters
  <1>6. new \notin DOMAIN docs /\ new \notin doomed
    BY DEF StoreInv, DocsInv
  <1>7. r.pc = "over" /\ r.refs = {} /\ JobShape(r)
    BY DEF Over, JobShape, AtFiles, Removing
  <1>8. made.doc \in Nat /\ new > made.doc
    BY DEF StoreInv, DocsInv
  <1> HIDE DEF r, doc
  <1>9. \A v \in Workers : work'[v] = IF v = w THEN r ELSE work[v]
    BY <1>2 DEF StoreInv, WorkInv, Goes
  <1>10. WorkInv'
    BY <1>2, <1>7 DEF StoreInv, WorkInv, Goes
  <1>11. DocsInv'
    BY <1>2, <1>4, <1>5 DEF StoreInv, DocsInv
  <1>12. RefsInv'
    <2>1. \A d \in DOMAIN docs' : \A q \in docs'[d].refs : Pair(q)
      BY <1>1, <1>4 DEF StoreInv, RefsInv
    <2>2. ASSUME NEW v \in Workers, work'[v].pc \in Reporting
          PROVE  \A q \in work'[v].refs : Pair(q) /\ q[2] \in DOMAIN fs' \union excused'
      BY <2>2, <1>2, <1>7, <1>9 DEF StoreInv, RefsInv
    <2> QED
      BY <2>1, <2>2 DEF RefsInv, Pair
  <1>13. RemovalInv'
    <2> SUFFICES ASSUME NEW v \in Workers, work'[v].pc \in Removing, NEW x \in work'[v].todo
                 PROVE  /\ x.doc \in doomed'
                        /\ x.field # "doc" /\ x.doc \in DOMAIN docs' =>
                              <<x.field, x.file>> \in docs'[x.doc].refs
      BY DEF RemovalInv
    <2>1. work'[v] = work[v]
      BY <1>7, <1>9 DEF Removing
    <2>2. x.doc \in doomed /\ (x.field # "doc" /\ x.doc \in DOMAIN docs => <<x.field, x.file>> \in docs[x.doc].refs)
      BY <2>1 DEF StoreInv, RemovalInv
    <2> QED
      BY <2>2, <1>2, <1>4, <1>6
  <1>14. CountInv'
    <2> SUFFICES ASSUME NEW v \in Workers, work'[v].pc = "delete"
                 PROVE  /\ work'[v].mark \in Nat /\ work'[v].mark <= made'.doc
                        /\ ~ work'[v].stale =>
                              \A d \in DOMAIN docs' :
                                  d <= work'[v].mark /\ <<work'[v].next.field, work'[v].next.file>> \in docs'[d].refs
                                      => d \in doomed'
      BY DEF CountInv
    <2>1. work'[v] = work[v]
      BY <1>7, <1>9
    <2>2. /\ work[v].mark \in Nat /\ work[v].mark <= made.doc
          /\ ~ work[v].stale =>
                \A d \in DOMAIN docs :
                    d <= work[v].mark /\ <<work[v].next.field, work[v].next.file>> \in docs[d].refs => d \in doomed
      BY <2>1 DEF StoreInv, CountInv
    <2>3. ~ (new <= work[v].mark)
      BY <2>2, <1>8
    <2> HIDE DEF new
    <2>4. work[v].mark <= made'.doc
      BY <1>5, <1>8, <2>2 DEF new
    <2> QED
      BY <1>2, <1>4, <2>1, <2>2, <2>3, <2>4
  <1>15. FilesKept'
    BY <1>1, <1>2, <1>4 DEF StoreInv, FilesKept
  <1> QED
    BY <1>10, <1>11, <1>12, <1>13, <1>14, <1>15 DEF StoreInv

LEMMA RemoveAnalysisKeeps ==
  ASSUME StoreInv, NEW w \in Workers, NEW t, RemoveAnalysis(w, t)
  PROVE  StoreInv'
  <1> DEFINE docsOf == {d \in DOMAIN docs : docs[d].task = t}
             todo == UNION {Removals(d) : d \in docsOf}
             r == [pc |-> "remove", task |-> t, todo |-> todo, next |-> Document(0), mark |-> 0, stale |-> FALSE]
  <1>1. /\ Goes(w, r) /\ doomed' = doomed \union docsOf
        /\ docs' = docs /\ fs' = fs /\ excused' = excused
    BY DEF RemoveAnalysis, mongovars
  <1>2. DOMAIN made' = DOMAIN made /\ made'.doc = made.doc
    BY Counting DEF RemoveAnalysis, Asked, Counters
  <1> DEFINE OfFound(x) == x.doc \in docsOf /\ (x.field # "doc" => <<x.field, x.file>> \in docs[x.doc].refs)
  <1>3. \A x \in todo : OfFound(x)
    <2> SUFFICES ASSUME NEW x \in todo PROVE OfFound(x)
      OBVIOUS
    <2>0. PICK d \in docsOf : x \in Removals(d)
      OBVIOUS
    <2>1. ASSUME x = Document(d)
          PROVE  x.doc = d /\ x.field = "doc"
      BY <2>1 DEF Document
    <2>2. ASSUME NEW q \in docs[d].refs, x = [doc |-> d, field |-> q[1], file |-> q[2]]
          PROVE  x.doc = d /\ <<x.field, x.file>> \in docs[d].refs
      <3>1. q = <<q[1], q[2]>>
        BY DEF StoreInv, RefsInv, Pair
      <3> QED
        BY <2>2, <3>1
    <2>3. x.doc = d /\ (x.field # "doc" => <<x.field, x.file>> \in docs[d].refs)
      <3>1. x = Document(d) \/ \E q \in docs[d].refs : x = [doc |-> d, field |-> q[1], file |-> q[2]]
        BY <2>0 DEF Removals
      <3> QED
        BY <3>1, <2>1, <2>2
    <2> QED
      BY <2>3
  <1>4. r.pc = "remove" /\ r.todo = todo /\ JobShape(r)
    BY DEF JobShape, AtFiles, Removing
  <1> HIDE DEF r, todo
  <1>5. docsOf \subseteq DOMAIN docs
    OBVIOUS
  <1> HIDE DEF docsOf, OfFound
  <1>6. \A v \in Workers : work'[v] = IF v = w THEN r ELSE work[v]
    BY <1>1 DEF StoreInv, WorkInv, Goes
  <1>7. WorkInv'
    BY <1>1, <1>4 DEF StoreInv, WorkInv, Goes
  <1>8. DocsInv'
    BY <1>1, <1>2, <1>5 DEF StoreInv, DocsInv
  <1>9. RefsInv'
    <2>1. \A d \in DOMAIN docs' : \A q \in docs'[d].refs : Pair(q)
      BY <1>1 DEF StoreInv, RefsInv
    <2>2. ASSUME NEW v \in Workers, work'[v].pc \in Reporting
          PROVE  \A q \in work'[v].refs : Pair(q) /\ q[2] \in DOMAIN fs' \union excused'
      BY <2>2, <1>1, <1>4, <1>6 DEF StoreInv, RefsInv, Reporting
    <2> QED
      BY <2>1, <2>2 DEF RefsInv, Pair
  <1>10. RemovalInv'
    <2> SUFFICES ASSUME NEW v \in Workers, work'[v].pc \in Removing, NEW x \in work'[v].todo
                 PROVE  /\ x.doc \in doomed'
                        /\ x.field # "doc" /\ x.doc \in DOMAIN docs' =>
                              <<x.field, x.file>> \in docs'[x.doc].refs
      BY DEF RemovalInv
    <2>1. CASE v = w
      <3>1. x \in todo
        BY <2>1, <1>4, <1>6
      <3>2. OfFound(x)
        BY <3>1, <1>3
      <3> QED
        BY <3>2, <1>1 DEF OfFound
    <2>2. CASE v # w
      BY <2>2, <1>1, <1>6 DEF StoreInv, RemovalInv
    <2> QED
      BY <2>1, <2>2
  <1>11. CountInv'
    BY <1>1, <1>2, <1>4, <1>6 DEF StoreInv, CountInv
  <1>12. FilesKept'
    BY <1>1 DEF StoreInv, FilesKept
  <1> QED
    BY <1>7, <1>8, <1>9, <1>10, <1>11, <1>12 DEF StoreInv

(* Numbers up to a bound are finitely many. *)
LEMMA Numbered ==
  ASSUME NEW n \in Nat
  PROVE  IsFiniteSet(1..n)
  <1>1. 1 \in Int /\ n \in Int
    OBVIOUS
  <1> QED
    BY <1>1, FS_Interval

(* The count: the one report there is that refers to the file is to be removed. *)
LEMMA OneUse ==
  ASSUME StoreInv, NEW w \in Workers, work[w].pc \in Removing, NEW x \in work[w].todo,
         x.field # "doc", LastUse(x.field, x.file), x.doc \in DOMAIN docs
  PROVE  \A d \in DOMAIN docs : <<x.field, x.file>> \in docs[d].refs => d \in doomed
  <1> DEFINE uses == Uses(x.field, x.file)
  <1>1. IsFiniteSet(uses)
    <2>1. made.doc \in Nat
      BY DEF StoreInv, DocsInv
    <2>3. IsFiniteSet(1..made.doc)
      BY <2>1, Numbered
    <2>2. uses \subseteq 1..made.doc
      BY DEF StoreInv, DocsInv, Uses
    <2> QED
      BY <2>2, <2>3, FS_Subset
  <1>2. PICK d : uses = {d}
    BY <1>1, FS_Singleton DEF LastUse
  <1>3. x.doc \in uses /\ x.doc \in doomed
    BY DEF StoreInv, RemovalInv, Uses
  <1> QED
    BY <1>2, <1>3 DEF Uses

LEMMA CountUsesKeeps ==
  ASSUME StoreInv, NEW w \in Workers, CountUses(w)
  PROVE  StoreInv'
  <1>0. /\ work[w].pc = "remove" /\ work[w].pc \in Removing
        /\ DOMAIN work[w] = {"pc", "task", "todo", "next", "mark", "stale"}
    BY DEF CountUses, Removing, StoreInv, WorkInv, JobShape
  <1>1. SameReports /\ fs' = fs /\ excused' = excused
    BY DEF CountUses, SameReports, mongovars
  <1>2. TodoOf(work[w])
    BY <1>0 DEF StoreInv, RemovalInv, TodoOf
  <1>3. PICK x \in work[w].todo :
           /\ x.field # "doc"
           /\ Goes(w, IF LastUse(x.field, x.file)
                      THEN [work[w] EXCEPT !.pc = "delete", !.next = x, !.todo = @ \ {x},
                                           !.mark = made.doc, !.stale = x.doc \notin DOMAIN docs]
                      ELSE [work[w] EXCEPT !.todo = @ \ {x}])
    BY DEF CountUses, Firsts
  <1>4. CASE LastUse(x.field, x.file)
    <2> DEFINE r == [work[w] EXCEPT !.pc = "delete", !.next = x, !.todo = @ \ {x},
                                    !.mark = made.doc, !.stale = x.doc \notin DOMAIN docs]
    <2>1. /\ r.pc = "delete" /\ r.next = x /\ r.todo = work[w].todo \ {x}
          /\ r.mark = made.doc /\ r.stale = (x.doc \notin DOMAIN docs)
          /\ DOMAIN r = {"pc", "task", "todo", "next", "mark", "stale"}
      BY <1>0
    <2>2. Goes(w, r)
      BY <1>3, <1>4
    <2> HIDE DEF r
    <2>3. JobShape(r) /\ TodoOf(r)
      BY <1>2, <2>1 DEF JobShape, AtFiles, TodoOf
    <2>4. CountOf(r)
      <3>1. r.mark \in Nat /\ r.mark <= made.doc
        BY <2>1 DEF StoreInv, DocsInv
      <3>2. ASSUME ~ r.stale
            PROVE  \A d \in DOMAIN docs : <<x.field, x.file>> \in docs[d].refs => d \in doomed
        BY <3>2, <1>0, <1>3, <1>4, <2>1, OneUse
      <3> QED
        BY <3>1, <3>2, <2>1 DEF CountOf
    <2> QED
      BY <1>1, <2>1, <2>2, <2>3, <2>4, NewJob DEF Reporting
  <1>5. CASE ~ LastUse(x.field, x.file)
    <2> DEFINE r == [work[w] EXCEPT !.todo = @ \ {x}]
    <2>1. /\ r.pc = "remove" /\ r.todo = work[w].todo \ {x}
          /\ DOMAIN r = {"pc", "task", "todo", "next", "mark", "stale"}
      BY <1>0
    <2>2. Goes(w, r)
      BY <1>3, <1>5
    <2> HIDE DEF r
    <2>3. JobShape(r) /\ TodoOf(r)
      BY <1>2, <2>1 DEF JobShape, AtFiles, TodoOf
    <2> QED
      BY <1>1, <2>1, <2>2, <2>3, NewJob DEF Reporting
  <1> QED
    BY <1>4, <1>5

(* A file that a report or a reporter has use for is excused when it is deleted. *)
LEMMA DeleteFileKeeps ==
  ASSUME StoreInv, NEW w \in Workers, DeleteFile(w)
  PROVE  StoreInv'
  <1> DEFINE x == work[w].next
             r == [work[w] EXCEPT !.pc = "remove", !.next = Document(0), !.mark = 0, !.stale = FALSE]
  <1>0. /\ work[w].pc = "delete" /\ work[w].pc \in Removing
        /\ DOMAIN work[w] = {"pc", "task", "todo", "next", "mark", "stale"}
    BY DEF DeleteFile, Removing, StoreInv, WorkInv, JobShape
  <1>1. SameReports /\ Goes(w, r) /\ fs' = Without(fs, x.file)
    BY DEF DeleteFile, SameReports
  <1>2. DOMAIN fs' = DOMAIN fs \ {x.file}
    BY <1>1 DEF Without, Restrict
  <1>3. /\ excused \subseteq excused'
        /\ x.file \in DOMAIN fs /\ NeededElsewhere(w, x.field, x.file) => x.file \in excused'
    BY DEF DeleteFile
  <1>4. /\ r.pc = "remove" /\ r.todo = work[w].todo
        /\ DOMAIN r = {"pc", "task", "todo", "next", "mark", "stale"}
    BY <1>0
  <1>5. TodoOf(work[w]) /\ CountOf(work[w])
    BY <1>0 DEF StoreInv, RemovalInv, CountInv, TodoOf, CountOf
  <1> HIDE DEF r
  <1>6. JobShape(r)
    BY <1>4 DEF JobShape, AtFiles
  <1>7. \A v \in Workers : work'[v] = IF v = w THEN r ELSE work[v]
    BY <1>1 DEF StoreInv, WorkInv, Goes
  <1>8. WorkInv'
    BY <1>1, <1>6 DEF StoreInv, WorkInv, Goes
  <1>9. DocsInv'
    BY <1>1 DEF StoreInv, DocsInv, SameReports
  <1>10. ASSUME NEW v \in Workers, work[v].pc \in Reporting, NEW q \in work[v].refs
         PROVE  q[2] \in DOMAIN fs' \union excused'
    <2>1. q[2] \in DOMAIN fs \union excused
      BY <1>10 DEF StoreInv, RefsInv
    <2>2. q[2] = x.file => NeededElsewhere(w, x.field, x.file)
      BY <1>10 DEF NeededElsewhere
    <2> QED
      BY <1>2, <1>3, <2>1, <2>2
  <1>11. ASSUME NEW d \in DOMAIN docs \ doomed, NEW q \in docs[d].refs
         PROVE  q[2] \in DOMAIN fs' \union excused'
    <2>1. q[2] \in DOMAIN fs \union excused /\ q = <<q[1], q[2]>>
      BY DEF StoreInv, FilesKept, RefsInv, Pair
    <2>2. d \in Int /\ work[w].mark \in Int
      BY <1>5 DEF StoreInv, DocsInv, CountOf
    <2>3. ASSUME q[2] = x.file
          PROVE  NeededElsewhere(w, x.field, x.file)
      <3>1. CASE q[1] # x.field
        BY <2>3, <3>1 DEF NeededElsewhere
      <3>2. CASE d > work[w].mark
        BY <2>3, <3>2 DEF NeededElsewhere
      <3>3. CASE work[w].stale
        BY <3>3 DEF NeededElsewhere
      <3>4. CASE q[1] = x.field /\ d <= work[w].mark /\ ~ work[w].stale
        <4>1. <<x.field, x.file>> \in docs[d].refs
          BY <2>1, <2>3, <3>4
        <4> QED
          BY <1>5, <3>4, <4>1 DEF CountOf
      <3> QED
        BY <2>2, <3>1, <3>2, <3>3, <3>4
    <2> QED
      BY <1>2, <1>3, <2>1, <2>3
  <1>12. RefsInv'
    <2>1. \A d \in DOMAIN docs' : \A q \in docs'[d].refs : Pair(q)
      BY <1>1 DEF StoreInv, RefsInv, SameReports
    <2>2. ASSUME NEW v \in Workers, work'[v].pc \in Reporting
          PROVE  \A q \in work'[v].refs : Pair(q) /\ q[2] \in DOMAIN fs' \union excused'
      <3>1. v # w /\ work'[v] = work[v]
        BY <2>2, <1>4, <1>7 DEF Reporting
      <3> QED
        BY <2>2, <3>1, <1>10 DEF StoreInv, RefsInv
    <2> QED
      BY <2>1, <2>2 DEF RefsInv, Pair
  <1>13. RemovalInv'
    BY <1>1, <1>4, <1>5, <1>7 DEF StoreInv, RemovalInv, TodoOf, SameReports
  <1>14. CountInv'
    <2> SUFFICES ASSUME NEW v \in Workers, work'[v].pc = "delete"
                 PROVE  /\ work'[v].mark \in Nat /\ work'[v].mark <= made'.doc
                        /\ ~ work'[v].stale =>
                              \A d \in DOMAIN docs' :
                                  d <= work'[v].mark /\ <<work'[v].next.field, work'[v].next.file>> \in docs'[d].refs
                                      => d \in doomed'
      BY DEF CountInv
    <2>1. work'[v] = work[v]
      BY <1>4, <1>7
    <2> QED
      BY <1>1, <2>1 DEF StoreInv, CountInv, SameReports
  <1>15. FilesKept'
    BY <1>1, <1>11 DEF FilesKept, SameReports
  <1> QED
    BY <1>8, <1>9, <1>12, <1>13, <1>14, <1>15 DEF StoreInv

LEMMA RemoveDocKeeps ==
  ASSUME StoreInv, NEW w \in Workers, RemoveDoc(w)
  PROVE  StoreInv'
  <1>0. /\ work[w].pc = "remove" /\ work[w].pc \in Removing
        /\ DOMAIN work[w] = {"pc", "task", "todo", "next", "mark", "stale"}
    BY DEF RemoveDoc, Removing, StoreInv, WorkInv, JobShape
  <1>1. PICK x \in work[w].todo : docs' = Without(docs, x.doc) /\ Goes(w, [work[w] EXCEPT !.todo = @ \ {x}])
    BY DEF RemoveDoc, Firsts
  <1> DEFINE r == [work[w] EXCEPT !.todo = @ \ {x}]
  <1>2. /\ DOMAIN docs' \subseteq DOMAIN docs
        /\ \A d \in DOMAIN docs' : docs'[d] = docs[d]
    BY <1>1 DEF Without, Restrict
  <1>3. fs' = fs /\ excused' = excused /\ doomed' = doomed /\ made' = made
    BY DEF RemoveDoc
  <1>4. /\ r.pc = "remove" /\ r.todo \subseteq work[w].todo
        /\ DOMAIN r = {"pc", "task", "todo", "next", "mark", "stale"}
    BY <1>0
  <1>5. Goes(w, r)
    BY <1>1
  <1>6. TodoOf(work[w])
    BY <1>0 DEF StoreInv, RemovalInv, TodoOf
  <1> HIDE DEF r
  <1>7. \A v \in Workers : work'[v] = IF v = w THEN r ELSE work[v]
    BY <1>5 DEF StoreInv, WorkInv, Goes
  <1>8. WorkInv'
    BY <1>4, <1>5 DEF StoreInv, WorkInv, Goes, JobShape, AtFiles
  <1>9. DocsInv'
    BY <1>2, <1>3 DEF StoreInv, DocsInv
  <1>10. RefsInv'
    <2>1. \A d \in DOMAIN docs' : \A q \in docs'[d].refs : Pair(q)
      BY <1>2 DEF StoreInv, RefsInv
    <2>2. ASSUME NEW v \in Workers, work'[v].pc \in Reporting
          PROVE  \A q \in work'[v].refs : Pair(q) /\ q[2] \in DOMAIN fs' \union excused'
      BY <2>2, <1>3, <1>4, <1>7 DEF StoreInv, RefsInv, Reporting
    <2> QED
      BY <2>1, <2>2 DEF RefsInv, Pair
  <1>11. RemovalInv'
    BY <1>2, <1>3, <1>4, <1>6, <1>7 DEF StoreInv, RemovalInv, TodoOf
  <1>12. CountInv'
    BY <1>2, <1>3, <1>4, <1>7 DEF StoreInv, CountInv
  <1>13. FilesKept'
    BY <1>2, <1>3 DEF StoreInv, FilesKept
  <1> QED
    BY <1>8, <1>9, <1>10, <1>11, <1>12, <1>13 DEF StoreInv

LEMMA RemoveTaskKeeps ==
  ASSUME StoreInv, NEW w \in Workers, RemoveTask(w)
  PROVE  StoreInv'
  <1>1. SameReports /\ Goes(w, Idle) /\ fs' = fs /\ excused' = excused
    BY DEF RemoveTask, SameReports, mongovars
  <1> QED
    BY <1>1, OtherJob, JobKinds

-----------------------------------------------------------------------------
LEMMA StoreInitInv == ResultStoreInit => StoreInv
  <1> SUFFICES ASSUME ResultStoreInit PROVE StoreInv
    OBVIOUS
  <1>1. \A w \in Workers : work[w] = Idle
    BY DEF ResultStoreInit
  <1>2. WorkInv
    BY <1>1, JobKinds DEF ResultStoreInit, WorkInv
  <1>3. DOMAIN docs = {}
    BY DEF ResultStoreInit
  <1>4. DocsInv
    BY <1>3 DEF ResultStoreInit, DocsInv, Counters
  <1>5. RefsInv /\ RemovalInv /\ CountInv
    BY <1>1, <1>3 DEF RefsInv, RemovalInv, CountInv, Idle, Reporting, Removing
  <1>6. FilesKept
    BY <1>3 DEF FilesKept
  <1> QED
    BY <1>2, <1>4, <1>5, <1>6 DEF StoreInv

LEMMA StoreStays == ResultStoreSpec => []StoreInv
  <1>1. StoreInv /\ [ResultStoreNext]_store => StoreInv'
    <2> SUFFICES ASSUME StoreInv, [ResultStoreNext]_store PROVE StoreInv'
      OBVIOUS
    <2>1. CASE UNCHANGED store
      BY <2>1, SameJobs DEF store, SameReports
    <2>2. ASSUME NEW w \in Workers, CloseFile(w) \/ Save(w) \/ CountUses(w) \/ DeleteFile(w)
                                    \/ RemoveDoc(w) \/ RemoveTask(w)
                                    \/ \E t \in 1..MaxRows : RemoveAnalysis(w, t)
          PROVE  StoreInv'
      BY <2>2, CloseFileKeeps, SaveKeeps, CountUsesKeeps, DeleteFileKeeps, RemoveDocKeeps, RemoveTaskKeeps,
         RemoveAnalysisKeeps
    <2> QED
      BY <2>1, <2>2, SubmissionsKeep, ReportingKeeps, TasksKeep DEF ResultStoreNext
  <1> QED
    BY StoreInitInv, <1>1, PTL DEF ResultStoreSpec

(* FilesKept for every number of workers, reports and requests: when views.py deletes a
   file of GridFS, no report that is kept refers to it, unless the report refers to it in
   another field, was being made or made since the count, or the count was for a report
   that was gone. *)
THEOREM FilesStay == ResultStoreSpec => []FilesKept
  <1>1. StoreInv => FilesKept
    BY DEF StoreInv
  <1> QED
    BY StoreStays, <1>1, PTL

-----------------------------------------------------------------------------
(* The calls of a report: invariant *)

(* The places that the chunks of some calls begin and end at. *)
Borders(cs) ==
    LET full == Len(cs) \div Paginate
    IN  [p \in 0..Len(Chunked(cs)) |-> IF p <= full THEN p * Paginate ELSE Len(cs)]

(* Each chunk is what there is between two of them. *)
LEMMA ChunkedOf ==
  ASSUME NEW X, NEW cs \in Seq(X), Paginate \in Nat \ {0}
  PROVE  /\ Chunked(cs) \in Seq(Seq(X))
         /\ Borders(cs) \in [0..Len(Chunked(cs)) -> 0..Len(cs)]
         /\ Borders(cs)[0] = 0 /\ Borders(cs)[Len(Chunked(cs))] = Len(cs)
         /\ \A p \in 1..Len(Chunked(cs)) :
               /\ Borders(cs)[p - 1] <= Borders(cs)[p] /\ Borders(cs)[p - 1] = (p - 1) * Paginate
               /\ Chunked(cs)[p] = SubSeq(cs, Borders(cs)[p - 1] + 1, Borders(cs)[p])
  <1> DEFINE P == Paginate  N == Len(cs)  q == N \div P
             rest == SubSeq(cs, P * q + 1, N)
             full == FullChunks(cs)
             last == IF rest = << >> THEN << >> ELSE <<rest>>
             n == IF P * q = N THEN q ELSE q + 1
  <1>0. N \in Nat /\ P \in Nat \ {0}
    OBVIOUS
  <1> HIDE DEF P, N
  <1>1. /\ N \in Nat /\ P \in Nat \ {0} /\ q \in Nat /\ P * q \in Nat /\ P * q <= N /\ q * P = P * q
        /\ \A i \in 0..q : i * P \in Nat /\ i * P <= N
        /\ \A i \in 1..q : (i - 1) * P = i * P - P /\ (i - 1) * P + 1 <= i * P
    BY <1>0, Dividing
  <1>2. \A a, b \in Int : a > 0 /\ b <= N => SubSeq(cs, a, b) \in Seq(X)
    <2> SUFFICES ASSUME NEW a \in Int, NEW b \in Int, a > 0, b <= N PROVE SubSeq(cs, a, b) \in Seq(X)
      OBVIOUS
    <2>1. \A i \in a..b : cs[i] \in X
      BY <1>1 DEF N
    <2> QED
      BY <2>1, SubSeqProperties
  <1>3. rest \in Seq(X) /\ Len(rest) = N - P * q
    <2>1. \A i \in P * q + 1..N : cs[i] \in X
      BY <1>1 DEF N
    <2>2. Len(rest) = IF P * q + 1 <= N THEN N - (P * q + 1) + 1 ELSE 0
      BY <1>1, <2>1, SubSeqProperties
    <2> QED
      BY <1>1, <1>2, <2>2
  <1>4. full = [i \in 1..q |-> SubSeq(cs, (i - 1) * P + 1, i * P)]
    BY DEF FullChunks, P, N
  <1>5. Chunked(cs) = full \o last
    BY DEF Chunked, P, N
  <1> HIDE DEF q, rest, full
  <1>6. rest = << >> <=> P * q = N
    <2>1. Len(<< >>) = 0 /\ (rest # << >> => Len(rest) \in Nat \ {0})
      BY <1>3, EmptySeq
    <2>2. rest = << >> => Len(rest) = 0
      BY <2>1, Zenon
    <2> QED
      BY <1>1, <1>3, <2>1, <2>2
  <1>7. full \in Seq(Seq(X)) /\ Len(full) = q
    <2>1. ASSUME NEW i \in 1..q PROVE SubSeq(cs, (i - 1) * P + 1, i * P) \in Seq(X)
      <3>1. i \in 0..q /\ i - 1 \in 0..q
        BY <1>1
      <3>2. (i - 1) * P \in Nat /\ i * P \in Nat /\ i * P <= N
        BY <1>1, <3>1
      <3> QED
        BY <1>2, <3>2
    <2>2. full \in [1..q -> Seq(X)]
      BY <1>4, <2>1
    <2> QED
      BY <1>1, <2>2
  <1>8. last \in Seq(Seq(X)) /\ Len(last) = (IF P * q = N THEN 0 ELSE 1) /\ (P * q # N => last[1] = rest)
    <2>1. CASE rest = << >>
      BY <1>6, <2>1
    <2>2. CASE rest # << >>
      BY <1>3, <1>6, <2>2
    <2> QED
      BY <2>1, <2>2
  <1> HIDE DEF last
  <1>9. /\ Chunked(cs) \in Seq(Seq(X)) /\ Len(Chunked(cs)) = n
        /\ \A i \in 1..q : Chunked(cs)[i] = full[i]
        /\ P * q # N => Chunked(cs)[q + 1] = rest
    <2>1. /\ full \o last \in Seq(Seq(X))
          /\ Len(full \o last) = Len(full) + Len(last)
          /\ \A i \in 1..Len(full) + Len(last) :
                (full \o last)[i] = IF i <= Len(full) THEN full[i] ELSE last[i - Len(full)]
      BY <1>7, <1>8, ConcatProperties
    <2>2. Len(full) + Len(last) = n
      BY <1>1, <1>7, <1>8
    <2>3. ASSUME NEW i \in 1..q PROVE (full \o last)[i] = full[i]
      BY <1>1, <1>7, <2>1, <2>2
    <2>4. ASSUME P * q # N PROVE (full \o last)[q + 1] = rest
      <3>1. q + 1 \in 1..Len(full) + Len(last) /\ ~ (q + 1 <= q) /\ (q + 1) - q = 1
        BY <1>1, <2>2, <2>4
      <3> QED
        BY <1>7, <1>8, <2>1, <2>4, <3>1
    <2> QED
      BY <1>5, <2>1, <2>2, <2>3, <2>4
  <1> DEFINE u == Borders(cs)
  <1>10. u = [p \in 0..n |-> IF p <= q THEN p * P ELSE N]
    BY <1>9 DEF Borders, q, P, N
  <1> HIDE DEF u, n
  <1>11. n \in Nat /\ q <= n /\ n <= q + 1 /\ (n = q <=> P * q = N)
    BY <1>1 DEF n
  <1>12. u \in [0..n -> 0..N]
    <2>1. ASSUME NEW p \in 0..n PROVE (IF p <= q THEN p * P ELSE N) \in 0..N
      <3>1. p <= q => p * P \in Nat /\ p * P <= N
        BY <1>1, <1>11
      <3> QED
        BY <1>1, <3>1
    <2> QED
      BY <1>10, <2>1
  <1>13. u[0] = 0 /\ u[n] = N
    <2>1. 0 \in 0..n /\ n \in 0..n /\ 0 <= q
      BY <1>1, <1>11
    <2>2. u[0] = 0 * P /\ u[n] = IF n <= q THEN n * P ELSE N
      BY <1>10, <2>1
    <2>3. 0 * P = 0
      BY <1>1
    <2>4. n <= q => n = q /\ P * q = N
      BY <1>1, <1>11
    <2> QED
      BY <1>1, <2>2, <2>3, <2>4
  <1>14. ASSUME NEW p \in 1..n
         PROVE  /\ u[p - 1] <= u[p] /\ u[p - 1] = (p - 1) * P
                /\ Chunked(cs)[p] = SubSeq(cs, u[p - 1] + 1, u[p])
    <2>1. p \in 0..n /\ p - 1 \in 0..n /\ p - 1 \in 0..q /\ p - 1 <= q
      BY <1>1, <1>11
    <2>2. u[p - 1] = (p - 1) * P /\ u[p] = IF p <= q THEN p * P ELSE N
      BY <1>10, <2>1
    <2>3. CASE p <= q
      <3>1. p \in 1..q
        BY <1>1, <2>3
      <3>2. u[p] = p * P /\ (p - 1) * P + 1 <= p * P /\ p * P \in Nat /\ (p - 1) * P \in Nat
        BY <1>1, <2>1, <2>2, <2>3, <3>1
      <3>3. Chunked(cs)[p] = SubSeq(cs, (p - 1) * P + 1, p * P)
        BY <1>4, <1>9, <3>1
      <3> DEFINE a == (p - 1) * P  b == p * P
      <3> HIDE DEF a, b
      <3>4. u[p] = b /\ u[p - 1] = a /\ Chunked(cs)[p] = SubSeq(cs, a + 1, b)
        BY <2>2, <3>2, <3>3, Zenon DEF a, b
      <3>5. a \in Nat /\ b \in Nat /\ a + 1 <= b
        BY <3>2, Zenon DEF a, b
      <3>6. a <= b
        BY <3>5
      <3>7. u[p - 1] <= u[p] /\ Chunked(cs)[p] = SubSeq(cs, u[p - 1] + 1, u[p])
        BY <3>4, <3>6, Zenon
      <3> QED
        BY <2>2, <3>7, Zenon
    <2>4. CASE ~ (p <= q)
      <3>1. p = q + 1 /\ P * q # N
        BY <1>1, <1>11, <2>4
      <3>2. u[p] = N /\ u[p - 1] = P * q
        <4>1. (p - 1) * P = P * q
          BY <1>1, <3>1
        <4> QED
          BY <2>2, <2>4, <4>1
      <3>3. Chunked(cs)[p] = SubSeq(cs, P * q + 1, N)
        BY <1>9, <3>1 DEF rest
      <3> QED
        BY <1>1, <2>2, <3>2, <3>3
    <2> QED
      BY <2>3, <2>4
  <1> QED
    BY <1>9, <1>12, <1>13, <1>14 DEF u, P, N

(* The chunks of the calls of a process, numbered one after the other up to top, are kept. *)
Holding(p, cs, kept, top) ==
    \E b, n \in Nat :
        /\ n = Len(Chunked(cs)) /\ p = [k \in 1..n |-> b + k] /\ b + n <= top
        /\ \A k \in 1..n : b + k \in DOMAIN kept /\ kept[b + k] = Chunked(cs)[k]
Paged(ps, processes, kept, top) ==
    IsSeq(ps) /\ Len(ps) <= Len(processes) /\ \A i \in 1..Len(ps) : Holding(ps[i], processes[i], kept, top)
Own(ps) == UNION {ToSet(p) : p \in ToSet(ps)}

DocPages(x, kept, top) ==
    /\ x.results \in Folders /\ Paged(x.processes, x.results.processes, kept, top)
    /\ Len(x.processes) = Len(x.results.processes)
JobPages(r, kept, top) ==
    /\ r.results \in Folders /\ Paged(r.chunks, r.results.processes, kept, top)
    /\ r.processes = SubSeq(r.results.processes, Len(r.chunks) + 1, Len(r.results.processes))
AtCalls == {w \in Workers : work[w].pc \in AtFiles}

(* Every chunk is of one report, that is kept or being made. *)
Apart ==
    /\ \A d, e \in DOMAIN docs : d # e => Own(docs[d].processes) \cap Own(docs[e].processes) = {}
    /\ \A d \in DOMAIN docs : \A w \in AtCalls : Own(docs[d].processes) \cap Own(work[w].chunks) = {}
    /\ \A v, w \in AtCalls : v # w => Own(work[v].chunks) \cap Own(work[w].chunks) = {}

PagesInv ==
    /\ made.chunk \in Nat /\ \A t \in DOMAIN folders : folders[t] \in Folders
    /\ \A d \in DOMAIN docs : DocPages(docs[d], calls, made.chunk)
    /\ \A w \in AtCalls : JobPages(work[w], calls, made.chunk)
    /\ Apart

(* The chunks of a report are among those that have been stored. *)
LEMMA OwnStored ==
  ASSUME NEW ps, NEW processes, NEW kept, NEW top \in Nat, Paged(ps, processes, kept, top)
  PROVE  \A c \in Own(ps) : c \in Nat /\ c <= top
  <1> SUFFICES ASSUME NEW i \in 1..Len(ps), NEW c \in ToSet(ps[i]) PROVE c \in Nat /\ c <= top
    BY DEF Own, ToSet, Paged, IsSeq
  <1>1. Holding(ps[i], processes[i], kept, top)
    BY DEF Paged
  <1>2. PICK b, n \in Nat : ps[i] = [k \in 1..n |-> b + k] /\ b + n <= top
    BY <1>1 DEF Holding
  <1>3. PICK k \in 1..n : c = b + k
    BY <1>2 DEF ToSet
  <1> QED
    BY <1>2, <1>3

(* What is kept of a report stays so when calls are added, and when those of others go. *)
LEMMA PagedStays ==
  ASSUME NEW ps, NEW processes, NEW kept, NEW top \in Nat, Paged(ps, processes, kept, top),
         NEW now, NEW more \in Nat, top <= more,
         \A c \in Own(ps) : c \in DOMAIN kept => c \in DOMAIN now /\ now[c] = kept[c]
  PROVE  Paged(ps, processes, now, more)
  <1> SUFFICES ASSUME NEW i \in 1..Len(ps) PROVE Holding(ps[i], processes[i], now, more)
    BY DEF Paged
  <1>1. Holding(ps[i], processes[i], kept, top)
    BY DEF Paged
  <1> DEFINE cs == processes[i]
  <1>2. PICK b, n \in Nat : /\ n = Len(Chunked(cs)) /\ ps[i] = [k \in 1..n |-> b + k] /\ b + n <= top
                            /\ \A k \in 1..n : b + k \in DOMAIN kept /\ kept[b + k] = Chunked(cs)[k]
    BY <1>1 DEF Holding
  <1>3. i \in DOMAIN ps
    BY DEF Paged, IsSeq
  <1>4. \A k \in 1..n : b + k \in Own(ps)
    <2> SUFFICES ASSUME NEW k \in 1..n PROVE b + k \in Own(ps)
      OBVIOUS
    <2>1. b + k \in ToSet(ps[i])
      BY <1>2 DEF ToSet
    <2>2. ps[i] \in ToSet(ps)
      BY <1>3 DEF ToSet
    <2> QED
      BY <2>1, <2>2 DEF Own
  <1>5. \A k \in 1..n : b + k \in DOMAIN now /\ now[b + k] = Chunked(cs)[k]
    BY <1>2, <1>4
  <1>6. b + n <= more
    BY <1>2
  <1> QED
    BY <1>2, <1>5, <1>6 DEF Holding

(* The chunks of one process more. *)
LEMMA PagedGrows ==
  ASSUME NEW ps, NEW processes, NEW kept, NEW top \in Nat, Paged(ps, processes, kept, top),
         NEW p, Len(ps) + 1 <= Len(processes), Holding(p, processes[Len(ps) + 1], kept, top)
  PROVE  Paged(Append(ps, p), processes, kept, top) /\ Own(Append(ps, p)) = Own(ps) \union ToSet(p)
         /\ Len(Append(ps, p)) = Len(ps) + 1
  <1> DEFINE Y == ToSet(ps) \union {p}  more == Append(ps, p)
  <1>1. ps \in Seq(Y) /\ p \in Y
    BY DEF Paged, IsSeq
  <1>2. /\ more \in Seq(Y) /\ Len(more) = Len(ps) + 1 /\ Len(ps) \in Nat
        /\ \A i \in 1..Len(ps) : more[i] = ps[i]
        /\ more[Len(ps) + 1] = p
    <2> HIDE DEF Y
    <2> QED
      BY <1>1, AppendProperties
  <1>3. IsSeq(more)
    BY <1>2, SeqOfRange DEF IsSeq, ToSet
  <1>4. ToSet(more) = ToSet(ps) \union {p}
    <2> HIDE DEF Y
    <2> QED
      BY <1>1, SetOfAppend
  <1> HIDE DEF more
  <1>5. \A i \in 1..Len(ps) + 1 : Holding(more[i], processes[i], kept, top)
    <2> SUFFICES ASSUME NEW i \in 1..Len(ps) + 1 PROVE Holding(more[i], processes[i], kept, top)
      OBVIOUS
    <2>1. CASE i = Len(ps) + 1
      BY <1>2, <2>1
    <2>2. CASE i # Len(ps) + 1
      <3>1. i \in 1..Len(ps)
        BY <1>2, <2>2
      <3> QED
        BY <1>2, <3>1 DEF Paged
    <2> QED
      BY <2>1, <2>2
  <1>6. Own(more) = Own(ps) \union ToSet(p)
    BY <1>4 DEF Own
  <1> QED
    BY <1>2, <1>3, <1>5, <1>6 DEF Paged, more

(* Nothing is stored yet of a report that is only begun. *)
LEMMA NothingPaged ==
  ASSUME NEW processes, IsSeq(processes), NEW kept, NEW top
  PROVE  /\ Paged(<< >>, processes, kept, top) /\ Own(<< >>) = {}
         /\ SubSeq(processes, Len(<< >>) + 1, Len(processes)) = processes
  <1>1. IsSeq(<< >>) /\ Len(<< >>) = 0 /\ ToSet(<< >>) = {}
    BY DEF IsSeq, ToSet
  <1>2. Len(processes) \in Nat /\ SubSeq(processes, 1, Len(processes)) = processes
    BY SubSeqFull DEF IsSeq
  <1> QED
    BY <1>1, <1>2 DEF Paged, Own

-----------------------------------------------------------------------------
(* The steps that store no calls and neither save nor remove a report. *)
SameChunks == docs' = docs /\ calls' = calls /\ made'.chunk = made.chunk

Started(r) == r.results \in Folders /\ r.processes = r.results.processes /\ r.chunks = << >>
SameCalls(r, s) == r.results = s.results /\ r.processes = s.processes /\ r.chunks = s.chunks

LEMMA SamePages ==
  ASSUME ResultStoreAssumption, PagesInv, SameChunks, \A t \in DOMAIN folders' : folders'[t] \in Folders,
         \A w \in AtCalls' : Started(work'[w]) \/ (w \in AtCalls /\ SameCalls(work'[w], work[w]))
  PROVE  PagesInv'
  <1>1. ASSUME NEW w \in AtCalls'
        PROVE  /\ JobPages(work'[w], calls, made.chunk)
               /\ Own(work'[w].chunks) = {} \/ (w \in AtCalls /\ work'[w].chunks = work[w].chunks)
    <2>1. CASE Started(work'[w])
      <3>1. IsSeq(work'[w].results.processes)
        BY <2>1 DEF Started, ResultStoreAssumption
      <3> QED
        BY <2>1, <3>1, NothingPaged DEF Started, JobPages
    <2>2. CASE w \in AtCalls /\ SameCalls(work'[w], work[w])
      BY <2>2 DEF PagesInv, JobPages, SameCalls
    <2> QED
      BY <2>1, <2>2
  <1>2. Apart'
    BY <1>1 DEF PagesInv, Apart, SameChunks
  <1> QED
    BY <1>1, <1>2 DEF PagesInv, SameChunks

(* The steps of a worker: what it does for the workers at their calls. *)
LEMMA OneJob ==
  ASSUME StoreInv, NEW w \in Workers, NEW r, Goes(w, r)
  PROVE  /\ \A v \in AtCalls' : v # w => v \in AtCalls /\ work'[v] = work[v]
         /\ w \in AtCalls' => work'[w] = r /\ r.pc \in AtFiles
         /\ work'[w] = r
  <1>1. \A v \in Workers : work'[v] = IF v = w THEN r ELSE work[v]
    BY DEF StoreInv, WorkInv, Goes
  <1> QED
    BY <1>1 DEF AtCalls

LEMMA WorkerPages ==
  ASSUME ResultStoreAssumption, StoreInv, PagesInv, SameChunks, NEW w \in Workers, NEW r, Goes(w, r),
         \A t \in DOMAIN folders' : folders'[t] \in Folders,
         r.pc \in AtFiles => Started(r) \/ (w \in AtCalls /\ SameCalls(r, work[w]))
  PROVE  PagesInv'
  <1>1. \A v \in AtCalls' : Started(work'[v]) \/ (v \in AtCalls /\ SameCalls(work'[v], work[v]))
    BY OneJob DEF SameCalls
  <1> QED
    BY <1>1, SamePages

LEMMA SubmissionsPages ==
  ASSUME ResultStoreAssumption, StoreInv, PagesInv, NEW w \in Workers,
         \/ \E machine \in {"", "all"} :
                \/ \E c \in Contents : SubmitFile(w, c, machine)
                \/ SubmitUrl(w, machine)
                \/ \E t \in DOMAIN tasks : Resubmit(w, t, machine)
                \/ \E t \in 1..MaxRows, c \in Contents : SubmitDropped(w, t, c, machine)
         \/ \E c \in Contents : SubmitUnique(w, c) \/ ImportAdd(w, c)
         \/ FindSample(w) \/ AddEntry(w) \/ Extract(w)
  PROVE  PagesInv'
  <1>0. DOMAIN made = Counters /\ \A t \in DOMAIN folders : folders[t] \in Folders
    BY DEF StoreInv, DocsInv, PagesInv
  <1>1. ASSUME NEW category, NEW c, NEW src, NEW machine, Submit(w, category, c, src, machine)
        PROVE  PagesInv'
    <2> DEFINE r == [pc |-> "add", category |-> category, content |-> c, src |-> src, left |-> Entries(machine)]
    <2>1. SameChunks /\ folders' = folders /\ Goes(w, r) /\ r.pc \notin AtFiles
      BY <1>0, <1>1 DEF Submit, SameChunks, Asked, mongovars, sqlvars, Counters, AtFiles
    <2> HIDE DEF r
    <2> QED
      BY <1>0, <2>1, WorkerPages
  <1>2. ASSUME NEW c, SubmitUnique(w, c)
        PROVE  PagesInv'
    <2> DEFINE r == [pc |-> "unique", category |-> "file", content |-> c, src |-> Temp, left |-> 1]
    <2>1. SameChunks /\ folders' = folders /\ Goes(w, r) /\ r.pc \notin AtFiles
      BY <1>0, <1>2 DEF SubmitUnique, SameChunks, Asked, mongovars, sqlvars, Counters, AtFiles
    <2> HIDE DEF r
    <2> QED
      BY <1>0, <2>1, WorkerPages
  <1>3. ASSUME NEW c, ImportAdd(w, c)
        PROVE  PagesInv'
    <2> DEFINE r == [pc |-> "extract", task |-> NextId]
    <2>1. SameChunks /\ folders' = folders /\ Goes(w, r) /\ r.pc \notin AtFiles
      BY <1>0, <1>3 DEF ImportAdd, SameChunks, Asked, OneMoreRow, mongovars, Counters, AtFiles
    <2> HIDE DEF r
    <2> QED
      BY <1>0, <2>1, WorkerPages
  <1>4. CASE FindSample(w)
    <2> DEFINE r == IF work[w].content \in samples THEN Idle ELSE [work[w] EXCEPT !.pc = "add"]
    <2>1. DOMAIN work[w] = {"pc", "category", "content", "src", "left"}
      BY <1>4 DEF FindSample, StoreInv, WorkInv, JobShape
    <2>2. SameChunks /\ folders' = folders /\ Goes(w, r)
      BY <1>4 DEF FindSample, SameChunks, mongovars, sqlvars
    <2>3. r.pc \notin AtFiles
      BY <2>1 DEF Idle, AtFiles
    <2> HIDE DEF r
    <2> QED
      BY <1>0, <2>2, <2>3, WorkerPages
  <1>5. CASE AddEntry(w)
    <2> DEFINE r == IF work[w].left = 1 THEN Idle ELSE [work[w] EXCEPT !.left = @ - 1]
    <2>1. DOMAIN work[w] = {"pc", "category", "content", "src", "left"} /\ work[w].pc = "add"
      BY <1>5 DEF AddEntry, StoreInv, WorkInv, JobShape
    <2>2. SameChunks /\ folders' = folders /\ Goes(w, r)
      BY <1>0, <1>5 DEF AddEntry, SameChunks, OneMoreRow, mongovars, Counters
    <2>3. r.pc \notin AtFiles
      BY <2>1 DEF Idle, AtFiles
    <2> HIDE DEF r
    <2> QED
      BY <1>0, <2>2, <2>3, WorkerPages
  <1>6. CASE Extract(w)
    <2>1. SameChunks /\ Goes(w, Idle) /\ Idle.pc \notin AtFiles
      BY <1>6 DEF Extract, SameChunks, mongovars, Idle, AtFiles
    <2>2. \A t \in DOMAIN folders' : folders'[t] \in Folders
      BY <1>0, <1>6 DEF Extract, With
    <2> QED
      BY <2>1, <2>2, WorkerPages
  <1> QED
    BY <1>1, <1>2, <1>3, <1>4, <1>5, <1>6 DEF SubmitFile, SubmitUrl, Resubmit, SubmitDropped

LEMMA TasksPages ==
  ASSUME ResultStoreAssumption, StoreInv, PagesInv, NEW t \in DOMAIN tasks,
         Analysed(t) \/ Rereport(t) \/ TasksDelete(t)
  PROVE  PagesInv'
  <1>0. DOMAIN made = Counters /\ \A s \in DOMAIN folders : folders[s] \in Folders
    BY DEF StoreInv, DocsInv, PagesInv
  <1>1. SameChunks
    BY <1>0 DEF Analysed, Rereport, TasksDelete, SameChunks, Asked, mongovars, Counters
  <1>2. work' = work
    BY DEF Analysed, Rereport, TasksDelete
  <1>3. \A s \in DOMAIN folders' : folders'[s] \in Folders
    <2>1. CASE Analysed(t)
      BY <1>0, <2>1 DEF Analysed, With
    <2>2. CASE Rereport(t)
      BY <1>0, <2>2 DEF Rereport
    <2>3. CASE TasksDelete(t)
      BY <1>0, <2>3 DEF TasksDelete, Without, Restrict
    <2> QED
      BY <2>1, <2>2, <2>3
  <1> QED
    BY <1>1, <1>2, <1>3, SamePages DEF AtCalls, SameCalls

LEMMA ReportPages ==
  ASSUME ResultStoreAssumption, StoreInv, PagesInv, NEW w \in Workers,
         \/ \E t \in DOMAIN tasks : StartReport(w, t)
         \/ FindFile(w) \/ CloseFile(w) \/ FindAgain(w) \/ Reported(w) \/ KilledReport(w)
  PROVE  PagesInv'
  <1>0. DOMAIN made = Counters /\ \A t \in DOMAIN folders : folders[t] \in Folders
    BY DEF StoreInv, DocsInv, PagesInv
  <1>1. ASSUME NEW t \in DOMAIN tasks, StartReport(w, t)
        PROVE  PagesInv'
    <2> DEFINE target == IF tasks[t].category = "file" THEN <<<<"sample", tasks[t].content>>>> ELSE << >>
               r == [pc |-> "find", task |-> t, results |-> folders[t], todo |-> target \o folders[t].items,
                     refs |-> {}, processes |-> folders[t].processes, chunks |-> << >>]
    <2>1. SameChunks /\ folders' = folders /\ Goes(w, r)
      BY <1>0, <1>1 DEF StartReport, SameChunks, mongovars, sqlvars, Counters
    <2>2. Started(r)
      BY <1>0, <1>1 DEF StartReport, Started
    <2> HIDE DEF r
    <2> QED
      BY <1>0, <2>1, <2>2, WorkerPages
  <1>2. CASE FindFile(w) \/ CloseFile(w) \/ FindAgain(w)
    <2>1. /\ DOMAIN work[w] = {"pc", "task", "results", "todo", "refs", "processes", "chunks"}
          /\ w \in AtCalls
      BY <1>2 DEF FindFile, CloseFile, FindAgain, StoreInv, WorkInv, JobShape, AtFiles, AtCalls
    <2>2. SameChunks /\ folders' = folders
      BY <1>0, <1>2 DEF FindFile, CloseFile, FindAgain, SameChunks, mongovars, sqlvars, Counters
    <2>3. PICK r : Goes(w, r) /\ (r.pc = "over" \/ r = NextFile(work[w]) \/ r = [work[w] EXCEPT !.pc = "close"]
                                  \/ r = [work[w] EXCEPT !.pc = "again"] \/ \E f : r = Refers(work[w], f))
      BY <1>2 DEF FindFile, CloseFile, FindAgain, Over
    <2>4. r.pc \in AtFiles => SameCalls(r, work[w])
      <3>1. ASSUME NEW f PROVE SameCalls(Refers(work[w], f), work[w])
        BY <2>1 DEF NextFile, Refers, SameCalls
      <3>2. SameCalls(NextFile(work[w]), work[w])
        BY <2>1 DEF NextFile, SameCalls
      <3>3. \A pc : SameCalls([work[w] EXCEPT !.pc = pc], work[w])
        BY <2>1 DEF SameCalls
      <3>4. "over" \notin AtFiles
        BY DEF AtFiles
      <3> QED
        BY <2>3, <3>1, <3>2, <3>3, <3>4
    <2> QED
      BY <1>0, <2>1, <2>2, <2>3, <2>4, WorkerPages
  <1>3. CASE Reported(w) \/ KilledReport(w)
    <2>1. SameChunks /\ folders' = folders /\ Goes(w, Idle) /\ Idle.pc \notin AtFiles
      BY <1>3 DEF Reported, KilledReport, SameChunks, mongovars, sqlvars, Idle, AtFiles
    <2> QED
      BY <1>0, <2>1, WorkerPages
  <1> QED
    BY <1>1, <1>2, <1>3

LEMMA RemovalPages ==
  ASSUME ResultStoreAssumption, StoreInv, PagesInv, NEW w \in Workers,
         \/ \E t \in 1..MaxRows : RemoveAnalysis(w, t)
         \/ CountUses(w) \/ DeleteFile(w) \/ RemoveTask(w)
  PROVE  PagesInv'
  <1>0. DOMAIN made = Counters /\ \A t \in DOMAIN folders : folders[t] \in Folders
    BY DEF StoreInv, DocsInv, PagesInv
  <1>1. SameChunks /\ folders' = folders
    BY <1>0 DEF RemoveAnalysis, CountUses, DeleteFile, RemoveTask, SameChunks, Asked, mongovars, sqlvars, Counters
  <1>2. \E r : Goes(w, r) /\ r.pc \notin AtFiles
    <2>1. ASSUME NEW t, RemoveAnalysis(w, t)
          PROVE  \E r : Goes(w, r) /\ r.pc \notin AtFiles
      BY <2>1 DEF RemoveAnalysis, AtFiles
    <2>2. CASE CountUses(w) \/ DeleteFile(w)
      <3>1. DOMAIN work[w] = {"pc", "task", "todo", "next", "mark", "stale"} /\ work[w].pc \in {"remove", "delete"}
        BY <2>2 DEF CountUses, DeleteFile, StoreInv, WorkInv, JobShape, Removing
      <3>2. CASE DeleteFile(w)
        <4> DEFINE r == [work[w] EXCEPT !.pc = "remove", !.next = Document(0), !.mark = 0, !.stale = FALSE]
        <4>1. r.pc \notin AtFiles
          BY <3>1 DEF AtFiles
        <4>2. Goes(w, r)
          BY <3>2 DEF DeleteFile
        <4> HIDE DEF r
        <4> QED
          BY <4>1, <4>2
      <3>3. CASE CountUses(w)
        <4>1. PICK x \in work[w].todo :
                Goes(w, IF LastUse(x.field, x.file)
                        THEN [work[w] EXCEPT !.pc = "delete", !.next = x, !.todo = work[w].todo \ {x},
                                             !.mark = made.doc, !.stale = x.doc \notin DOMAIN docs]
                        ELSE [work[w] EXCEPT !.todo = work[w].todo \ {x}])
          BY <3>3 DEF CountUses, Firsts
        <4> DEFINE r == [work[w] EXCEPT !.pc = "delete", !.next = x, !.todo = work[w].todo \ {x},
                                        !.mark = made.doc, !.stale = x.doc \notin DOMAIN docs]
                   s == [work[w] EXCEPT !.todo = work[w].todo \ {x}]
        <4>2. r.pc \notin AtFiles /\ s.pc \notin AtFiles
          BY <3>1 DEF AtFiles
        <4>3. Goes(w, r) \/ Goes(w, s)
          BY <4>1
        <4> HIDE DEF r, s
        <4> QED
          BY <4>2, <4>3
      <3> QED
        BY <2>2, <3>2, <3>3
    <2>3. CASE RemoveTask(w)
      BY <2>3 DEF RemoveTask, Idle, AtFiles
    <2> QED
      BY <2>1, <2>2, <2>3
  <1> QED
    BY <1>0, <1>1, <1>2, WorkerPages

LEMMA StoreCallsPages ==
  ASSUME ResultStoreAssumption, StoreInv, PagesInv, NEW w \in Workers, StoreCalls(w)
  PROVE  PagesInv'
  <1> DEFINE b == made.chunk
             job == work[w]
             cs == Head(job.processes)
             n == Len(Chunked(cs))
             ids == [i \in DOMAIN Chunked(cs) |-> b + i]
             r == [job EXCEPT !.processes = Tail(job.processes), !.chunks = Append(job.chunks, ids)]
  <1>1. /\ DOMAIN job = {"pc", "task", "results", "todo", "refs", "processes", "chunks"}
        /\ w \in AtCalls /\ job.pc = "find" /\ job.processes # << >>
        /\ DOMAIN made = Counters /\ b \in Nat
    BY DEF StoreCalls, StoreInv, WorkInv, DocsInv, JobShape, AtFiles, AtCalls, PagesInv
  <1>2. Goes(w, r) /\ docs' = docs /\ folders' = folders
    BY DEF StoreCalls, sqlvars
  <1>3. /\ calls' = [i \in DOMAIN calls \union ToSet(ids) |->
                        IF i \in ToSet(ids) THEN Chunked(cs)[i - b] ELSE calls[i]]
        /\ made' = [made EXCEPT !.chunk = b + n]
    BY DEF StoreCalls
  <1>4. JobPages(job, calls, b)
    BY <1>1 DEF PagesInv
  <1> DEFINE all == job.results.processes
             m == Len(job.chunks)
  <1>5. /\ IsSeq(all) /\ \A i \in DOMAIN all : IsSeq(all[i])
        /\ Paged(job.chunks, all, calls, b) /\ job.processes = SubSeq(all, m + 1, Len(all))
    BY <1>4 DEF JobPages, ResultStoreAssumption
  <1>6. m \in Nat /\ Len(all) \in Nat /\ DOMAIN all = 1..Len(all)
    BY <1>5 DEF Paged, IsSeq
  <1>7. m + 1 \in 1..Len(all) /\ cs = all[m + 1] /\ Tail(job.processes) = SubSeq(all, m + 2, Len(all))
    <2> HIDE DEF all, m
    <2>1. m + 1 <= Len(all)
      <3>1. ~ (Len(all) < m + 1)
        BY <1>1, <1>5, <1>6, SubSeqEmpty
      <3> QED
        BY <1>6, <3>1
    <2>2. m + 1 \in 1..Len(all) /\ Len(all) \in m + 1..Len(all) /\ (m + 1) + 1 = m + 2
      BY <1>6, <2>1
    <2>3. all \in Seq(ToSet(all))
      BY <1>5 DEF IsSeq
    <2>4. /\ Head(SubSeq(all, m + 1, Len(all))) = all[m + 1]
          /\ Tail(SubSeq(all, m + 1, Len(all))) = SubSeq(all, (m + 1) + 1, Len(all))
      BY <2>2, <2>3, HeadTailOfSubSeq
    <2> QED
      BY <1>5, <2>2, <2>4
  <1> HIDE DEF all
  <1>8. n \in Nat /\ DOMAIN Chunked(cs) = 1..n
    <2>1. cs \in Seq(ToSet(cs)) /\ Paginate \in Nat \ {0}
      BY <1>5, <1>6, <1>7 DEF IsSeq, ResultStoreAssumption
    <2> HIDE DEF cs
    <2>2. Chunked(cs) \in Seq(Seq(ToSet(cs)))
      BY <2>1, ChunkedOf
    <2> QED
      BY <2>2
  <1>9. r.results = job.results /\ r.processes = Tail(job.processes) /\ r.chunks = Append(job.chunks, ids) /\ r.pc = "find"
    BY <1>1
  <1> HIDE DEF r, n, cs, m, b
  <1>10. ids = [i \in 1..n |-> b + i] /\ ToSet(ids) = b + 1..b + n
    <2>1. ids = [i \in 1..n |-> b + i]
      BY <1>8
    <2>2. \A c \in b + 1..b + n : c - b \in 1..n /\ c = b + (c - b)
      BY <1>1, <1>8 DEF b
    <2>3. \A i \in 1..n : b + i \in b + 1..b + n
      BY <1>1, <1>8
    <2> QED
      BY <2>1, <2>2, <2>3 DEF ToSet
  <1> HIDE DEF ids
  <1>11. made'.chunk = b + n /\ made'.chunk \in Nat /\ b <= b + n
    BY <1>1, <1>3, <1>8 DEF Counters
  <1>12. /\ \A c \in DOMAIN calls : c <= b => c \in DOMAIN calls' /\ calls'[c] = calls[c]
         /\ \A i \in 1..n : b + i \in DOMAIN calls' /\ calls'[b + i] = Chunked(cs)[i]
    <2>1. /\ DOMAIN calls' = ToSet(ids) \union DOMAIN calls
          /\ \A c \in DOMAIN calls' : calls'[c] = IF c \in ToSet(ids) THEN Chunked(cs)[c - b] ELSE calls[c]
      BY <1>3
    <2>2. ASSUME NEW c \in DOMAIN calls, c <= b PROVE c \notin ToSet(ids)
      BY <1>1, <1>8, <1>10, <2>2
    <2>3. ASSUME NEW i \in 1..n PROVE b + i \in ToSet(ids) /\ (b + i) - b = i
      BY <1>1, <1>8, <1>10, <2>3
    <2> QED
      BY <2>1, <2>2, <2>3
  <1>13. ASSUME NEW ps, NEW processes, Paged(ps, processes, calls, b)
         PROVE  /\ Paged(ps, processes, calls', b + n)
                /\ Own(ps) \cap ToSet(ids) = {}
    <2>1. \A c \in Own(ps) : c \in Nat /\ c <= b
      BY <1>1, <1>13, OwnStored
    <2>2. \A c \in Own(ps) : c \in DOMAIN calls => c \in DOMAIN calls' /\ calls'[c] = calls[c]
      BY <1>12, <2>1
    <2>3. Paged(ps, processes, calls', b + n)
      BY <1>1, <1>11, <1>13, <2>2, PagedStays
    <2>4. \A c \in Own(ps) : c \notin b + 1..b + n
      BY <1>1, <1>8, <2>1
    <2> QED
      BY <1>10, <2>3, <2>4
  <1>14. /\ Paged(r.chunks, all, calls', b + n) /\ Own(r.chunks) = Own(job.chunks) \union ToSet(ids)
         /\ Len(r.chunks) = m + 1
    <2>1. Paged(job.chunks, all, calls', b + n)
      BY <1>5, <1>13
    <2>2. Holding(ids, all[m + 1], calls', b + n)
      <3>1. n = Len(Chunked(all[m + 1])) /\ ids = [k \in 1..n |-> b + k] /\ b + n <= b + n
        BY <1>7, <1>10, <1>11 DEF n
      <3>2. \A k \in 1..n : b + k \in DOMAIN calls' /\ calls'[b + k] = Chunked(all[m + 1])[k]
        BY <1>7, <1>12
      <3> QED
        BY <1>1, <1>8, <3>1, <3>2 DEF Holding
    <2>3. m = Len(job.chunks) /\ m + 1 <= Len(all)
      BY <1>6, <1>7 DEF m
    <2> QED
      BY <1>9, <1>11, <2>1, <2>2, <2>3, PagedGrows
  <1>15. JobPages(r, calls', b + n)
    <2>1. r.results \in Folders /\ r.results.processes = all
      BY <1>4, <1>9 DEF JobPages, all
    <2>2. (m + 1) + 1 = m + 2
      BY <1>6
    <2> QED
      BY <1>7, <1>9, <1>14, <2>1, <2>2 DEF JobPages
  <1>16. ASSUME NEW v \in AtCalls'
         PROVE  /\ v \in AtCalls
                /\ v # w => work'[v] = work[v] /\ JobPages(work[v], calls', b + n)
                /\ v = w => work'[v] = r
    <2>1. v # w => v \in AtCalls /\ work'[v] = work[v]
      BY <1>2, OneJob DEF AtCalls
    <2>2. v = w => work'[v] = r
      BY <1>2, OneJob DEF AtCalls
    <2>3. v # w => JobPages(work[v], calls', b + n)
      BY <1>13, <2>1 DEF PagesInv, JobPages, b
    <2> QED
      BY <1>1, <2>1, <2>2, <2>3
  <1>17. \A d \in DOMAIN docs : DocPages(docs[d], calls', b + n) /\ Own(docs[d].processes) \cap ToSet(ids) = {}
    BY <1>13 DEF PagesInv, DocPages, b
  <1>18. Apart'
    <2>1. \A d, e \in DOMAIN docs' : d # e => Own(docs'[d].processes) \cap Own(docs'[e].processes) = {}
      BY <1>2 DEF PagesInv, Apart
    <2>2. ASSUME NEW v \in AtCalls', v # w
          PROVE  Own(work[v].chunks) \cap ToSet(ids) = {}
      BY <1>13, <1>16, <2>2 DEF PagesInv, JobPages, b
    <2>3. ASSUME NEW d \in DOMAIN docs', NEW v \in AtCalls'
          PROVE  Own(docs'[d].processes) \cap Own(work'[v].chunks) = {}
      <3>1. Own(docs[d].processes) \cap Own(work[v].chunks) = {}
        BY <1>2, <1>16 DEF PagesInv, Apart
      <3>2. Own(docs[d].processes) \cap ToSet(ids) = {}
        BY <1>2, <1>17
      <3> QED
        BY <1>2, <1>14, <1>16, <3>1, <3>2
    <2>4. ASSUME NEW u \in AtCalls', NEW v \in AtCalls', u # v
          PROVE  Own(work'[u].chunks) \cap Own(work'[v].chunks) = {}
      <3>1. Own(work[u].chunks) \cap Own(work[v].chunks) = {}
        BY <1>16, <2>4 DEF PagesInv, Apart
      <3>2. CASE u = w
        BY <1>14, <1>16, <2>2, <2>4, <3>1, <3>2
      <3>3. CASE v = w
        BY <1>14, <1>16, <2>2, <2>4, <3>1, <3>3
      <3>4. CASE u # w /\ v # w
        BY <1>16, <3>1, <3>4
      <3> QED
        BY <3>2, <3>3, <3>4
    <2> QED
      BY <2>1, <2>3, <2>4 DEF Apart
  <1>19. \A v \in AtCalls' : JobPages(work'[v], calls', made'.chunk)
    BY <1>11, <1>15, <1>16
  <1> QED
    BY <1>2, <1>11, <1>17, <1>18, <1>19 DEF PagesInv

LEMMA SavePages ==
  ASSUME ResultStoreAssumption, StoreInv, PagesInv, NEW w \in Workers, Save(w)
  PROVE  PagesInv'
  <1> DEFINE new == made.doc + 1
             doc == [task |-> work[w].task, refs |-> work[w].refs,
                     processes |-> work[w].chunks, results |-> work[w].results]
             r == Over(work[w].task)
  <1>1. /\ w \in AtCalls /\ work[w].processes = << >> /\ Goes(w, r) /\ docs' = With(docs, new, doc)
        /\ made' = [made EXCEPT !.doc = made.doc + 1] /\ calls' = calls /\ folders' = folders
    BY DEF Save, sqlvars, AtFiles, AtCalls
  <1>2. DOMAIN made = Counters /\ new \notin DOMAIN docs
    BY DEF StoreInv, DocsInv
  <1>3. made'.chunk = made.chunk
    BY <1>1, <1>2 DEF Counters
  <1>4. /\ DOMAIN docs' = DOMAIN docs \union {new} /\ docs'[new] = doc
        /\ \A d \in DOMAIN docs : docs'[d] = docs[d]
    BY <1>1, <1>2 DEF With
  <1>5. doc.processes = work[w].chunks /\ doc.results = work[w].results /\ r.pc \notin AtFiles
    BY DEF Over, AtFiles
  <1>6. DocPages(doc, calls, made.chunk)
    <2> DEFINE all == work[w].results.processes  m == Len(work[w].chunks)
    <2>1. /\ work[w].results \in Folders /\ Paged(work[w].chunks, all, calls, made.chunk)
          /\ work[w].processes = SubSeq(all, m + 1, Len(all))
      BY <1>1 DEF PagesInv, JobPages
    <2>2. IsSeq(all) /\ m \in Nat /\ m <= Len(all)
      BY <2>1 DEF Paged, IsSeq, ResultStoreAssumption
    <2> HIDE DEF all, m
    <2>3. Len(all) \in Nat /\ \A i \in m + 1..Len(all) : all[i] \in ToSet(all)
      BY <2>2 DEF IsSeq
    <2>4. m = Len(all)
      <3>1. Len(SubSeq(all, m + 1, Len(all))) = IF m + 1 <= Len(all) THEN Len(all) - (m + 1) + 1 ELSE 0
        BY <2>2, <2>3, SubSeqProperties
      <3>2. Len(<< >>) = 0
        OBVIOUS
      <3>3. SubSeq(all, m + 1, Len(all)) = << >>
        BY <1>1, <2>1
      <3>4. Len(SubSeq(all, m + 1, Len(all))) = 0
        BY <3>2, <3>3, Zenon
      <3> QED
        BY <2>2, <2>3, <3>1, <3>4
    <2> QED
      BY <1>5, <2>1, <2>4 DEF DocPages, all, m
  <1> HIDE DEF new, doc, r
  <1>7. \A v \in AtCalls' : v \in AtCalls /\ v # w /\ work'[v] = work[v]
    BY <1>1, <1>5, OneJob
  <1>8. Apart'
    <2>1. ASSUME NEW d \in DOMAIN docs PROVE Own(docs[d].processes) \cap Own(doc.processes) = {}
      BY <1>1, <1>5 DEF PagesInv, Apart
    <2>2. ASSUME NEW d \in DOMAIN docs', NEW e \in DOMAIN docs', d # e
          PROVE  Own(docs'[d].processes) \cap Own(docs'[e].processes) = {}
      <3>1. CASE d = new
        BY <1>4, <2>1, <2>2, <3>1
      <3>2. CASE e = new
        BY <1>4, <2>1, <2>2, <3>2
      <3>3. CASE d # new /\ e # new
        BY <1>4, <2>2, <3>3 DEF PagesInv, Apart
      <3> QED
        BY <3>1, <3>2, <3>3
    <2>3. ASSUME NEW d \in DOMAIN docs', NEW v \in AtCalls'
          PROVE  Own(docs'[d].processes) \cap Own(work'[v].chunks) = {}
      <3>1. CASE d = new
        BY <1>1, <1>4, <1>5, <1>7, <3>1 DEF PagesInv, Apart
      <3>2. CASE d # new
        BY <1>4, <1>7, <3>2 DEF PagesInv, Apart
      <3> QED
        BY <3>1, <3>2
    <2>4. \A u, v \in AtCalls' : u # v => Own(work'[u].chunks) \cap Own(work'[v].chunks) = {}
      BY <1>7 DEF PagesInv, Apart
    <2> QED
      BY <2>2, <2>3, <2>4 DEF Apart
  <1>9. \A d \in DOMAIN docs' : DocPages(docs'[d], calls', made'.chunk)
    BY <1>1, <1>3, <1>4, <1>6 DEF PagesInv
  <1>10. \A v \in AtCalls' : JobPages(work'[v], calls', made'.chunk)
    BY <1>1, <1>3, <1>7 DEF PagesInv
  <1> QED
    BY <1>1, <1>3, <1>8, <1>9, <1>10 DEF PagesInv

LEMMA RemoveDocPages ==
  ASSUME ResultStoreAssumption, StoreInv, PagesInv, NEW w \in Workers, RemoveDoc(w)
  PROVE  PagesInv'
  <1>1. PICK x \in work[w].todo :
            /\ docs' = Without(docs, x.doc)
            /\ calls' = IF x.doc \in DOMAIN docs THEN Restrict(calls, DOMAIN calls \ Own(docs[x.doc].processes))
                        ELSE calls
            /\ Goes(w, [work[w] EXCEPT !.todo = @ \ {x}])
    BY DEF RemoveDoc, Firsts, Own
  <1> DEFINE gone == x.doc
             r == [work[w] EXCEPT !.todo = work[w].todo \ {x}]
  <1>2. folders' = folders /\ made' = made
    BY DEF RemoveDoc, sqlvars
  <1>3. DOMAIN work[w] = {"pc", "task", "todo", "next", "mark", "stale"} /\ work[w].pc = "remove"
    BY DEF RemoveDoc, Removing, StoreInv, WorkInv, JobShape
  <1>4. Goes(w, r) /\ r.pc \notin AtFiles
    BY <1>1, <1>3 DEF AtFiles
  <1> HIDE DEF r
  <1>5. \A v \in AtCalls' : v \in AtCalls /\ work'[v] = work[v]
    BY <1>4, OneJob
  <1>6. /\ DOMAIN docs' = DOMAIN docs \ {gone}
        /\ \A d \in DOMAIN docs' : docs'[d] = docs[d]
    BY <1>1 DEF Without, Restrict
  <1>7. /\ DOMAIN calls' = DOMAIN calls \ (IF gone \in DOMAIN docs THEN Own(docs[gone].processes) ELSE {})
        /\ \A c \in DOMAIN calls' : calls'[c] = calls[c]
    BY <1>1 DEF Restrict
  <1> HIDE DEF gone
  <1>8. ASSUME NEW ps, NEW processes, Paged(ps, processes, calls, made.chunk),
               gone \in DOMAIN docs => Own(docs[gone].processes) \cap Own(ps) = {}
        PROVE  Paged(ps, processes, calls', made.chunk)
    <2>1. made.chunk \in Nat /\ made.chunk <= made.chunk
      BY DEF PagesInv
    <2>2. \A c \in Own(ps) : c \in DOMAIN calls => c \in DOMAIN calls' /\ calls'[c] = calls[c]
      BY <1>7, <1>8
    <2> QED
      BY <1>8, <2>1, <2>2, PagedStays
  <1>9. \A d \in DOMAIN docs' : DocPages(docs'[d], calls', made'.chunk)
    BY <1>2, <1>6, <1>8 DEF PagesInv, DocPages, Apart
  <1>10. \A v \in AtCalls' : JobPages(work'[v], calls', made'.chunk)
    BY <1>2, <1>5, <1>8 DEF PagesInv, JobPages, Apart
  <1>11. Apart'
    BY <1>5, <1>6 DEF PagesInv, Apart
  <1> QED
    BY <1>2, <1>9, <1>10, <1>11 DEF PagesInv

LEMMA PagesInitInv == ResultStoreInit => PagesInv
  <1> SUFFICES ASSUME ResultStoreInit PROVE PagesInv
    OBVIOUS
  <1>1. DOMAIN docs = {} /\ DOMAIN folders = {} /\ AtCalls = {}
    BY DEF ResultStoreInit, AtCalls, Idle, AtFiles
  <1>2. made.chunk \in Nat
    BY DEF ResultStoreInit
  <1> QED
    BY <1>1, <1>2 DEF PagesInv, Apart

LEMMA PagesStep == ResultStoreAssumption /\ StoreInv /\ PagesInv /\ [ResultStoreNext]_store => PagesInv'
  <1> SUFFICES ASSUME ResultStoreAssumption, StoreInv, PagesInv, [ResultStoreNext]_store PROVE PagesInv'
    OBVIOUS
  <1>1. CASE UNCHANGED store
    <2>1. SameChunks /\ work' = work /\ folders' = folders
      BY <1>1 DEF store, SameChunks
    <2> QED
      BY <2>1, SamePages DEF PagesInv, AtCalls, SameCalls
  <1>2. ASSUME NEW w \in Workers, StoreCalls(w) \/ Save(w) \/ RemoveDoc(w)
        PROVE  PagesInv'
    BY <1>2, StoreCallsPages, SavePages, RemoveDocPages
  <1>3. ASSUME NEW w \in Workers, CountUses(w) \/ DeleteFile(w) \/ RemoveTask(w)
                                  \/ \E t \in 1..MaxRows : RemoveAnalysis(w, t)
        PROVE  PagesInv'
    BY <1>3, RemovalPages
  <1> QED
    BY <1>1, <1>2, <1>3, SubmissionsPages, ReportPages, TasksPages DEF ResultStoreNext

-----------------------------------------------------------------------------
(* What is shown of the chunks *)

(* The ids of the chunks of a process, in their order. *)
LEMMA OrderOf ==
  ASSUME NEW n \in Nat, NEW b \in Nat
  PROVE  InOrder(b + 1..b + n) = [k \in 1..n |-> b + k]
  <1> DEFINE ids == b + 1..b + n
             Grows(q) == \A j, k \in 1..n : j < k => q[j] < q[k]
             all == [k \in 1..n |-> b + k]
  <1>1. Cardinality(ids) = n
    BY FS_Interval
  <1>2. all \in [1..n -> ids] /\ Grows(all)
    OBVIOUS
  <1>3. ASSUME NEW q \in [1..n -> ids], Grows(q) PROVE q = all
    BY <1>3, Consecutive
  <1>4. InOrder(ids) = CHOOSE q \in [1..n -> ids] : Grows(q)
    BY <1>1 DEF InOrder
  <1> HIDE DEF ids, Grows, all
  <1>5. InOrder(ids) = all
    BY <1>2, <1>3, <1>4
  <1> QED
    BY <1>5 DEF ids, all

(* The pages of the chunks of some calls show the calls, when chunk() counts on as many
   calls in a page as a chunk has. *)
LEMMA PagesOf ==
  ASSUME Paginate \in Nat \ {0}, Paginate = PageIds, NEW cs, IsSeq(cs), NEW pages, NEW n \in Nat,
         n = Len(Chunked(cs)), DOMAIN pages = 1..n, pages = [q \in 1..n |-> pages[q]],
         \A q \in 1..n : pages[q] = [k \in DOMAIN Chunked(cs)[q] |->
                                        [id |-> (q - 1) * PageIds + k - 1, category |-> Chunked(cs)[q][k]]]
  PROVE  FlattenSeq(pages) = [k \in DOMAIN cs |-> [id |-> k - 1, category |-> cs[k]]]
  <1> DEFINE X == ToSet(cs)  N == Len(cs)  u == Borders(cs)
             R == [id : Int, category : X]
             all == [k \in 1..N |-> [id |-> k - 1, category |-> cs[k]]]
  <1>1. cs \in Seq(X) /\ N \in Nat /\ DOMAIN cs = 1..N /\ \A k \in 1..N : cs[k] \in X
    BY DEF IsSeq
  <1>2. /\ Chunked(cs) \in Seq(Seq(X))
        /\ u \in [0..n -> 0..N] /\ u[0] = 0 /\ u[n] = N
        /\ \A q \in 1..n : /\ u[q - 1] <= u[q] /\ u[q - 1] = (q - 1) * Paginate
                           /\ Chunked(cs)[q] = SubSeq(cs, u[q - 1] + 1, u[q])
    <2> HIDE DEF X
    <2> QED
      BY <1>1, ChunkedOf
  <1>3. all \in Seq(R) /\ Len(all) = N /\ \A k \in 1..N : all[k] \in R /\ all[k] = [id |-> k - 1, category |-> cs[k]]
    <2>1. \A k \in 1..N : [id |-> k - 1, category |-> cs[k]] \in R
      BY <1>1
    <2> HIDE DEF R, N
    <2>2. all \in [1..N -> R] /\ \A k \in 1..N : all[k] = [id |-> k - 1, category |-> cs[k]]
      BY <2>1
    <2> HIDE DEF all
    <2>3. all \in Seq(R) /\ Len(all) = N
      BY <1>1, <2>2
    <2> QED
      BY <2>2, <2>3
  <1> HIDE DEF X, N, u, R, all
  <1>4. ASSUME NEW q \in 1..n
        PROVE  pages[q] = SubSeq(all, u[q - 1] + 1, u[q]) /\ pages[q] \in Seq(R)
    <2> DEFINE a == u[q - 1]  z == u[q]  c == Chunked(cs)[q]  part == SubSeq(all, a + 1, z)
    <2>0. q - 1 \in 0..n /\ q \in 0..n
      OBVIOUS
    <2>1. a \in 0..N /\ z \in 0..N /\ a <= z /\ a = (q - 1) * PageIds /\ c = SubSeq(cs, a + 1, z)
      <3>1. u[q - 1] \in 0..N /\ u[q] \in 0..N
        BY <1>2, <2>0
      <3>2. u[q - 1] <= u[q] /\ u[q - 1] = (q - 1) * Paginate /\ Chunked(cs)[q] = SubSeq(cs, u[q - 1] + 1, u[q])
        BY <1>2, Zenon
      <3>3. Paginate = PageIds
        OBVIOUS
      <3> QED
        BY <3>1, <3>2, <3>3, Zenon
    <2> HIDE DEF a, z
    <2>2. /\ Len(c) = z - a /\ c \in Seq(X)
          /\ \A k \in 1..z - a : c[k] = cs[a + k]
      <3>1. cs \in Seq(X) /\ a \in 0..Len(cs) /\ z \in 0..Len(cs) /\ a <= z
        BY <1>1, <2>1 DEF N
      <3>2. /\ SubSeq(cs, a + 1, z) \in Seq(X) /\ Len(SubSeq(cs, a + 1, z)) = z - a
            /\ \A k \in 1..z - a : SubSeq(cs, a + 1, z)[k] = cs[a + k]
        BY <3>1, Part
      <3> QED
        BY <2>1, <3>2
    <2>3. /\ Len(part) = z - a /\ part \in Seq(R)
          /\ \A k \in 1..z - a : part[k] = all[a + k]
      <3>1. all \in Seq(R) /\ a \in 0..Len(all) /\ z \in 0..Len(all) /\ a <= z
        BY <1>1, <1>3, <2>1 DEF N
      <3>2. /\ SubSeq(all, a + 1, z) \in Seq(R) /\ Len(SubSeq(all, a + 1, z)) = z - a
            /\ \A k \in 1..z - a : SubSeq(all, a + 1, z)[k] = all[a + k]
        BY <3>1, Part
      <3> QED
        BY <2>1, <3>2
    <2> HIDE DEF c, part
    <2>4. DOMAIN c = 1..z - a /\ DOMAIN part = 1..z - a
      BY <2>2, <2>3
    <2>5. ASSUME NEW k \in 1..z - a
          PROVE  [id |-> (q - 1) * PageIds + k - 1, category |-> c[k]] = part[k]
      <3>1. a + k \in 1..N
        <4>1. a \in 0..N /\ z \in 0..N /\ a <= z
          BY <2>1, Zenon
        <4> QED
          BY <1>1, <4>1
      <3>2. part[k] = [id |-> (a + k) - 1, category |-> cs[a + k]]
        BY <1>3, <2>3, <3>1
      <3>3. (a + k) - 1 = (q - 1) * PageIds + k - 1
        BY <2>1
      <3> QED
        BY <2>2, <3>2, <3>3
    <2>6. pages[q] = [k \in 1..z - a |-> [id |-> (q - 1) * PageIds + k - 1, category |-> c[k]]]
      BY <2>4 DEF c
    <2>7. part = [k \in 1..z - a |-> part[k]]
      BY <2>3, <2>4
    <2>8. pages[q] = part
      BY <2>5, <2>6, <2>7
    <2> QED
      BY <2>3, <2>8 DEF part, a, z
  <1>5. pages \in Seq(Seq(R)) /\ Len(pages) = n
    BY <1>4
  <1>6. FlattenSeq(pages) = all
    <2>1. all \in Seq(R) /\ pages \in Seq(Seq(R)) /\ u \in [0..Len(pages) -> 0..Len(all)]
      BY <1>2, <1>3, <1>5
    <2>2. u[0] = 0 /\ u[Len(pages)] = Len(all)
      BY <1>2, <1>3, <1>5
    <2>3. \A q \in 1..Len(pages) : u[q - 1] <= u[q] /\ pages[q] = SubSeq(all, u[q - 1] + 1, u[q])
      BY <1>2, <1>4, <1>5
    <2> QED
      BY <2>1, <2>2, <2>3, CutUp
  <1> QED
    BY <1>1, <1>6 DEF all

(* The chunks of some calls hold the calls. *)
LEMMA ChunksOf ==
  ASSUME Paginate \in Nat \ {0}, NEW cs, IsSeq(cs)
  PROVE  FlattenSeq(Chunked(cs)) = cs
  <1> DEFINE X == ToSet(cs)
  <1>1. cs \in Seq(X)
    BY DEF IsSeq
  <1> HIDE DEF X
  <1> QED
    BY <1>1, ChunkedOf, CutUp

(* The report and the process that the pages of a task find. *)
LEMMA FirstReport ==
  ASSUME DocsInv, NEW d \in DOMAIN docs, \A e \in ReportsOf(docs[d].task) : d <= e,
         NEW S \in SUBSET ReportsOf(docs[d].task), d \in S
  PROVE  Min(S) = d
  <1>1. \A x, y \in S : x <= y /\ y <= x => x = y
    BY DEF DocsInv, ReportsOf
  <1>2. \A y \in S : d <= y
    OBVIOUS
  <1>3. Min(S) = CHOOSE x \in S : \A y \in S : x <= y
    BY DEF Min
  <1>4. Min(S) \in S /\ \A y \in S : Min(S) <= y
    BY <1>2, <1>3
  <1> QED
    BY <1>1, <1>2, <1>4

LEMMA PagesFind ==
  ASSUME ResultStoreAssumption, DocsInv, PagesInv, NEW d \in DOMAIN docs,
         \A e \in ReportsOf(docs[d].task) : d <= e,
         NEW i \in DOMAIN docs[d].results.processes, LastWithPid(d, i)
  PROVE  CallsOf(docs[d].task, docs[d].results.pids[i]) = docs[d].processes[i]
  <1> DEFINE pid == docs[d].results.pids[i]  S == WithPid(d, pid)
             held == {e \in ReportsOf(docs[d].task) : WithPid(e, pid) # {}}
  <1>1. /\ DOMAIN docs[d].results.pids = DOMAIN docs[d].results.processes
        /\ DOMAIN docs[d].results.pids \subseteq Nat
    BY DEF PagesInv, DocPages, ResultStoreAssumption, IsSeq
  <1>2. i \in S /\ S \subseteq Nat /\ \A j \in S : j <= i
    BY <1>1 DEF WithPid, LastWithPid
  <1>3. d \in held /\ held \in SUBSET ReportsOf(docs[d].task)
    BY <1>2 DEF ReportsOf
  <1>4. Min(held) = d
    BY <1>3, FirstReport
  <1>5. Max(S) = i
    <2> HIDE DEF S
    <2>1. Max(S) = CHOOSE x \in S : \A y \in S : x >= y
      BY DEF Max
    <2>2. i \in S /\ \A y \in S : i >= y
      BY <1>2
    <2>3. Max(S) \in S /\ \A y \in S : Max(S) >= y
      BY <2>1, <2>2
    <2>4. i >= Max(S) /\ Max(S) >= i /\ i \in Nat /\ Max(S) \in Nat
      BY <1>2, <2>2, <2>3
    <2> QED
      BY <2>4
  <1>6. CallsOf(docs[d].task, pid) = IF held = {} THEN << >> ELSE docs[Min(held)].processes[Max(WithPid(Min(held), pid))]
    BY DEF CallsOf
  <1> QED
    BY <1>3, <1>4, <1>5, <1>6

LEMMA PagesShown ==
  ASSUME ResultStoreAssumption, DocsInv, PagesInv, Paginate = PageIds
  PROVE  PagesAgree
  <1> SUFFICES ASSUME NEW d \in DOMAIN docs, \A e \in ReportsOf(docs[d].task) : d <= e,
                      NEW i \in DOMAIN docs[d].results.processes
               PROVE  LET t == docs[d].task  pid == docs[d].results.pids[i]
                          of == docs[d].results.processes[i] IN
                      /\ LastWithPid(d, i) =>
                            /\ FlattenSeq([p \in DOMAIN docs[d].processes[i] |-> ChunkOfPage(t, pid, p - 1)])
                               = FromZero(of)
                            /\ \A category \in ToSet(of) : FilteredChunk(t, pid, category) = Those(of, {category})
                      /\ \A category \in ToSet(of) :
                            SearchBehavior(t, category)[i] = {x \in ToSet(FromZero(of)) : x.category = category}
    BY DEF PagesAgree
  <1> DEFINE t == docs[d].task  pid == docs[d].results.pids[i]
  <1> DEFINE cs == docs[d].results.processes[i]
             p == docs[d].processes[i]
  <1>0. Paginate \in Nat \ {0} /\ PageIds \in Nat
    BY DEF ResultStoreAssumption
  <1>1. IsSeq(cs) /\ Holding(p, cs, calls, made.chunk)
    <2>1. DocPages(docs[d], calls, made.chunk)
      BY DEF PagesInv
    <2>2. i \in 1..Len(docs[d].processes)
      BY <2>1 DEF DocPages, ResultStoreAssumption, IsSeq
    <2> QED
      BY <2>1, <2>2 DEF DocPages, Paged, ResultStoreAssumption
  <1> HIDE DEF cs
  <1>2. PICK b, n \in Nat :
            /\ n = Len(Chunked(cs)) /\ p = [k \in 1..n |-> b + k]
            /\ \A k \in 1..n : b + k \in DOMAIN calls /\ calls[b + k] = Chunked(cs)[k]
    BY <1>1 DEF Holding
  <1>3. cs \in Seq(ToSet(cs)) /\ Chunked(cs) \in Seq(Seq(ToSet(cs)))
    <2>1. cs \in Seq(ToSet(cs))
      BY <1>1 DEF IsSeq
    <2> QED
      BY <1>0, <2>1, ChunkedOf
  <1>4. /\ DOMAIN p = 1..n /\ DOMAIN Chunked(cs) = 1..n
        /\ \A q \in 1..n : p[q] \in DOMAIN calls /\ calls[p[q]] = Chunked(cs)[q]
        /\ Chunked(cs) = [q \in 1..n |-> Chunked(cs)[q]]
    BY <1>2, <1>3
  <1>5. ToSet(p) = b + 1..b + n /\ ToSet(p) \subseteq DOMAIN calls
    <2>1. \A c \in b + 1..b + n : c - b \in 1..n /\ c = b + (c - b)
      OBVIOUS
    <2>2. \A k \in 1..n : b + k \in b + 1..b + n
      OBVIOUS
    <2> QED
      <3>1. ToSet(p) = {b + k : k \in 1..n}
        <4>1. DOMAIN p = 1..n /\ \A k \in 1..n : p[k] = b + k
          BY <1>2
        <4> HIDE DEF p
        <4>2. ToSet(p) = {p[k] : k \in 1..n}
          BY <4>1 DEF ToSet
        <4> QED
          BY <4>1, <4>2
      <3>2. {b + k : k \in 1..n} = b + 1..b + n
        BY <2>1, <2>2
      <3> QED
        BY <1>2, <3>1, <3>2
  <1> DEFINE pages == [q \in DOMAIN p |-> ChunkOfPage(t, pid, q - 1)]
             all == [k \in DOMAIN cs |-> [id |-> k - 1, category |-> cs[k]]]
  <1>6. ASSUME LastWithPid(d, i)
        PROVE  FlattenSeq(pages) = all
    <2>0. CallsOf(t, pid) = p
      BY <1>6, PagesFind
    <2>1. ASSUME NEW q \in 1..n
          PROVE  ChunkOfPage(t, pid, q - 1) = [k \in DOMAIN Chunked(cs)[q] |->
                                        [id |-> (q - 1) * PageIds + k - 1, category |-> Chunked(cs)[q][k]]]
      <3>1. (q - 1) + 1 = q
        OBVIOUS
      <3>2. q \in DOMAIN p /\ p[q] \in DOMAIN calls /\ calls[p[q]] = Chunked(cs)[q]
        BY <1>4
      <3> HIDE DEF p, t, pid
      <3> QED
        BY <2>0, <3>1, <3>2 DEF ChunkOfPage
    <2>2. /\ DOMAIN pages = 1..n /\ pages = [q \in 1..n |-> pages[q]]
          /\ \A q \in 1..n : pages[q] = [k \in DOMAIN Chunked(cs)[q] |->
                                        [id |-> (q - 1) * PageIds + k - 1, category |-> Chunked(cs)[q][k]]]
      BY <1>4, <2>1
    <2> HIDE DEF pages, p
    <2> QED
      BY <1>0, <1>1, <1>2, <2>2, PagesOf
  <1>7. ASSUME NEW category, LastWithPid(d, i)
        PROVE  FilteredChunk(t, pid, category) = Those(cs, {category})
    <2>0. CallsOf(t, pid) = p
      BY <1>7, PagesFind
    <2> HIDE DEF p, t, pid
    <2>1. FilteredChunk(t, pid, category) = FlattenSeq([q \in DOMAIN p |-> Those(calls[p[q]], {category})])
      BY <1>5, <2>0 DEF FilteredChunk
    <2>2. [q \in DOMAIN p |-> Those(calls[p[q]], {category})]
          = [q \in DOMAIN Chunked(cs) |-> Those(Chunked(cs)[q], {category})]
      BY <1>4
    <2>3. FlattenSeq([q \in DOMAIN Chunked(cs) |-> Those(Chunked(cs)[q], {category})])
          = Those(FlattenSeq(Chunked(cs)), {category})
      BY <1>3, FlattenThose
    <2> QED
      BY <1>0, <1>1, <2>1, <2>2, <2>3, ChunksOf, Zenon
  <1>8. ASSUME NEW category
        PROVE  SearchBehavior(t, category)[i] = {x \in ToSet(all) : x.category = category}
    <2> DEFINE slices == InOrder(ToSet(p) \cap DOMAIN calls)
               flat == FlattenSeq([q \in DOMAIN slices |-> calls[slices[q]]])
    <2>1. SearchBehavior(t, category)[i] = FoundIn(p, category)
      <3>1. Min(ReportsOf(t)) = d
        <4>1. d \in ReportsOf(t)
          BY DEF ReportsOf
        <4> QED
          BY <4>1, FirstReport
      <3>2. i \in DOMAIN docs[d].processes
        BY DEF PagesInv, DocPages, Paged, IsSeq, ResultStoreAssumption
      <3> QED
        BY <3>1, <3>2 DEF SearchBehavior
    <2> HIDE DEF t
    <2>2. FoundIn(p, category)
          = {[id |-> k - 1, category |-> flat[k]] : k \in {j \in DOMAIN flat : flat[j] = category}}
      BY DEF FoundIn
    <2>3. ToSet(p) \cap DOMAIN calls = b + 1..b + n
      BY <1>5
    <2> HIDE DEF p
    <2>4. slices = [k \in 1..n |-> b + k]
      BY <2>3, OrderOf, Zenon
    <2> HIDE DEF slices
    <2>5. [q \in DOMAIN slices |-> calls[slices[q]]] = Chunked(cs)
      BY <1>2, <1>4, <2>4
    <2>6. flat = cs
      BY <1>0, <1>1, <2>5, ChunksOf, Zenon
    <2> HIDE DEF flat
    <2>7. FoundIn(p, category) = {[id |-> k - 1, category |-> cs[k]] : k \in {j \in DOMAIN cs : cs[j] = category}}
      BY <2>2, <2>6
    <2>8. ToSet(all) = {[id |-> k - 1, category |-> cs[k]] : k \in DOMAIN cs}
      BY DEF ToSet
    <2>9. FoundIn(p, category) = {x \in ToSet(all) : x.category = category}
      BY <2>7, <2>8
    <2> QED
      BY <2>1, <2>9
  <1> QED
    BY <1>6, <1>7, <1>8 DEF cs, FromZero

(* PagesAgree for every number of workers, reports and requests, and for all that an
   analysis may leave: while chunks are stored, saved and removed, what the pages of
   views.py find of a task, by its id and the pid of a process, is the last process with
   that pid of its oldest report; they show its calls, each once, in order and under its
   number, the page of a category shows those of the category, and a search finds
   them under the same numbers; provided that a chunk has the 100 calls that chunk()
   counts with. *)
THEOREM PagesStay ==
  ASSUME Paginate = PageIds
  PROVE  ResultStoreSpec => []PagesAgree
  <1>1. StoreInv /\ PagesInv => PagesAgree
    BY ResultStoreAssumption, PagesShown DEF StoreInv
  <1>2. StoreInv /\ PagesInv /\ [ResultStoreNext]_store => PagesInv'
    BY ResultStoreAssumption, PagesStep
  <1> QED
    BY StoreStays, PagesInitInv, <1>1, <1>2, PTL DEF ResultStoreSpec

-----------------------------------------------------------------------------
(* Memory *)

(* malfind's place in the list. *)
MalfindTurn == 11

(* What the plugins have collected so far, and which pids are tainted. *)
PluginsInv ==
    /\ ram \in Rams /\ turn \in Nat /\ turn > 0
    /\ mstage \in {"start", "open", "plugins", "cleanup", "mask", "done"}
    /\ mstage = "open" => turn = 1
    /\ mstage \in {"open", "plugins", "cleanup", "mask"} => \A n \in DOMAIN collected : collected[n] = Calculate(n)
    /\ "malfind" \in On \cap Known =>
          /\ mstage = "plugins" /\ turn > MalfindTurn => "malfind" \in DOMAIN collected
          /\ mstage \in {"cleanup", "mask"} => taintPid = Calculate("malfind")
MemInv == PluginsInv /\ TaintedKept

LEMMA MalfindIsRun ==
  /\ Len(PLUGINS) = 22
  /\ PLUGINS[MalfindTurn] = [name |-> "malfind", profiles |-> {}]
  BY DEF PLUGINS, Always, MalfindTurn

LEMMA MalfindFinds == Calculate("malfind") = Pids({p \in Active : p.injected})
  <1> DEFINE f == CHOOSE g \in Finders : "malfind" \in DOMAIN g
  <1>1. Malfind \in Finders /\ "malfind" \in DOMAIN Malfind
    BY DEF Finders, Malfind
  <1>2. \A g \in Finders : "malfind" \in DOMAIN g => g = Malfind
    BY DEF Finders, ProcessLists, KernelTables, KernelHooks, Tokens, Malfind, Yarascan, ApiHooks, Mapped,
           Mutants, Drivers, Services, Sockets
  <1>3. f \in Finders /\ "malfind" \in DOMAIN f
    BY <1>1
  <1>4. f = Malfind
    BY <1>2, <1>3
  <1>5. Calculate("malfind") = f["malfind"]
    BY Zenon DEF Calculate
  <1> HIDE DEF f
  <1> QED
    BY <1>4, <1>5 DEF Malfind

(* A pid is tainted when the process that has it holds injected code. *)
LEMMA Tainted ==
  ASSUME ram \in Rams, NEW p \in Active
  PROVE  Number(p.pid) \in Calculate("malfind") <=> p.injected
  <1>1. ASSUME NEW q \in Active, Number(q.pid) = Number(p.pid)
        PROVE  q = p
    <2>1. q.pid = p.pid
      BY <1>1 DEF Number
    <2> QED
      BY <2>1, MemoryAssumption DEF Active
  <1>2. Number(p.pid) \in Calculate("malfind") <=> \E q \in Active : q.injected /\ Number(q.pid) = Number(p.pid)
    BY MalfindFinds DEF Pids
  <1> QED
    BY <1>1, <1>2

LEMMA SameRam == ram' = ram => \A n : Calculate(n)' = Calculate(n)
  BY DEF Calculate, Finders, ProcessLists, KernelTables, KernelHooks, Tokens, Malfind, Yarascan, ApiHooks, Mapped,
         Mutants, Drivers, Services, Sockets, Pids, Active

LEMMA MemInitInv == MemoryInit => MemInv
  <1> SUFFICES ASSUME MemoryInit PROVE MemInv
    OBVIOUS
  <1>1. turn = 1 /\ ram \in Rams /\ mstage = "start"
    BY DEF MemoryInit
  <1> QED
    BY <1>1 DEF MemInv, PluginsInv, TaintedKept

LEMMA MemStep == MemInv /\ [MemoryNext]_memvars => MemInv'
  <1> SUFFICES ASSUME MemInv, [MemoryNext]_memvars PROVE MemInv'
    OBVIOUS
  <1>0. ram' = ram /\ \A n : Calculate(n)' = Calculate(n)
    BY SameRam DEF MemoryNext, memvars, MemoryFails, StartMemory, InitConfig, RunPlugin, FindTaint, Cleanup,
                   MaskFilter, ProcessAgain
  <1>1. CASE MemoryFails \/ StartMemory \/ InitConfig \/ FindTaint \/ Cleanup \/ ProcessAgain \/ UNCHANGED memvars
    <2>1. TaintedKept'
      BY <1>0, <1>1 DEF MemInv, TaintedKept, MemoryFails, StartMemory, InitConfig, FindTaint, Cleanup, ProcessAgain,
                        memvars, Nothing, Active
    <2>2. CASE MemoryFails
      <3>1. mstage' = "done" /\ turn' = turn
        BY <2>2 DEF MemoryFails, Nothing
      <3> QED
        BY <1>0, <2>1, <3>1 DEF MemInv, PluginsInv
    <2>3. CASE StartMemory
      <3>0. (mstage' = "open" \/ mstage' = "done") /\ turn' = 1 /\ collected' = <<>>
        BY <2>3, Zenon DEF StartMemory, Nothing
      <3>1. mstage' \in {"open", "done"} /\ turn' = 1 /\ DOMAIN collected' = {}
        BY <3>0
      <3> QED
        BY <1>0, <2>1, <3>1 DEF MemInv, PluginsInv, MalfindTurn
    <2>4. CASE InitConfig
      <3>1. mstage = "open" /\ mstage' = "plugins" /\ turn' = turn /\ collected' = collected
        BY <2>4 DEF InitConfig
      <3> QED
        BY <1>0, <2>1, <3>1 DEF MemInv, PluginsInv, MalfindTurn
    <2>5. CASE FindTaint
      <3>1. /\ mstage = "plugins" /\ turn > Len(PLUGINS)
            /\ mstage' = "cleanup" /\ turn' = turn /\ collected' = collected
            /\ taintPid' = IF "malfind" \in DOMAIN collected THEN collected["malfind"] ELSE {}
        BY <2>5 DEF FindTaint
      <3>2. turn \in Nat /\ turn > 0 /\ turn > MalfindTurn
        BY <3>1, MalfindIsRun DEF MemInv, PluginsInv, MalfindTurn
      <3> QED
        BY <1>0, <2>1, <3>1, <3>2 DEF MemInv, PluginsInv
    <2>6. CASE Cleanup
      <3>1. mstage = "cleanup" /\ mstage' = "mask" /\ UNCHANGED <<turn, collected, taintPid>>
        BY <2>6 DEF Cleanup
      <3> QED
        BY <1>0, <2>1, <3>1 DEF MemInv, PluginsInv
    <2>7. CASE ProcessAgain
      <3>1. mstage' = "start" /\ turn' = turn
        BY <2>7 DEF ProcessAgain
      <3> QED
        BY <1>0, <2>1, <3>1 DEF MemInv, PluginsInv
    <2>8. CASE UNCHANGED memvars
      <3>1. UNCHANGED <<mstage, turn, collected, taintPid>>
        BY <2>8 DEF memvars
      <3> QED
        BY <1>0, <2>1, <3>1 DEF MemInv, PluginsInv
    <2> QED
      BY <1>1, <2>1, <2>2, <2>3, <2>4, <2>5, <2>6, <2>7, <2>8 DEF MemInv
  <1>2. CASE RunPlugin
    <2> DEFINE plugin == PLUGINS[turn]
    <2>1. /\ mstage = "plugins" /\ mstage' = "plugins" /\ turn' = turn + 1
          /\ collected' = IF Runs(plugin) THEN Collects(plugin.name) ELSE collected
      BY <1>2 DEF RunPlugin
    <2>2. turn = MalfindTurn /\ "malfind" \in On \cap Known => Runs(plugin) /\ plugin.name = "malfind"
      BY MalfindIsRun DEF Runs
    <2> HIDE DEF plugin
    <2>3. \A n \in DOMAIN collected' : collected'[n] = Calculate(n)
      BY <2>1 DEF MemInv, PluginsInv, Collects
    <2>4. DOMAIN collected \subseteq DOMAIN collected'
      BY <2>1 DEF Collects
    <2>5. turn = MalfindTurn /\ "malfind" \in On \cap Known => "malfind" \in DOMAIN collected'
      BY <2>1, <2>2 DEF Collects
    <2>6. TaintedKept'
      BY <2>1 DEF TaintedKept
    <2>7. turn' \in Nat /\ turn' > 0 /\ (turn' > MalfindTurn => turn = MalfindTurn \/ turn > MalfindTurn)
      BY <2>1 DEF MemInv, PluginsInv, MalfindTurn
    <2>8. PluginsInv'
      BY <1>0, <2>1, <2>3, <2>4, <2>5, <2>7 DEF MemInv, PluginsInv
    <2> QED
      BY <2>6, <2>8 DEF MemInv
  <1>3. CASE MaskFilter
    <2>1. PluginsInv'
      BY <1>0, <1>3 DEF MemInv, PluginsInv, MaskFilter
    <2>2. ASSUME "malfind" \in On \cap Known, NEW n \in DOMAIN reported', NEW p \in Active,
                 Number(p.pid) \in Calculate(n)
          PROVE  (Number(p.pid) \in reported'[n]) <=> (p.injected \/ p.pid \notin MaskPid \/ n \notin Filtering)
      <3>1. n \in DOMAIN collected /\ reported'[n] = {e \in collected[n] : ~ Masked(n, e)}
        BY <1>3 DEF MaskFilter
      <3>2. collected[n] = Calculate(n) /\ taintPid = Calculate("malfind")
        BY <1>3, <2>2, <3>1 DEF MemInv, PluginsInv, MaskFilter
      <3>3. Number(p.pid) \in taintPid <=> p.injected
        BY <3>2, Tainted DEF MemInv, PluginsInv
      <3>4. Number(p.pid) \in {Number(q) : q \in MaskPid} <=> p.pid \in MaskPid
        BY DEF Number
      <3> QED
        BY <2>2, <3>1, <3>2, <3>3, <3>4 DEF Masked
    <2>3. Active' = Active
      BY <1>0 DEF Active
    <2>4. TaintedKept'
      BY <1>0, <2>2, <2>3 DEF TaintedKept
    <2> QED
      BY <2>1, <2>4 DEF MemInv
  <1> QED
    BY <1>1, <1>2, <1>3 DEF MemoryNext

(* TaintedKept for every memory image, configuration and version of Volatility: what is
   reported of a process with injected code, and of a masked one without, is what
   mask_filter's comment says. *)
THEOREM TaintStays == MemorySpec => []TaintedKept
  <1>1. MemInv => TaintedKept
    BY DEF MemInv
  <1> QED
    BY MemInitInv, MemStep, <1>1, PTL DEF MemorySpec

-----------------------------------------------------------------------------
(* CuckooML *)

(* What a run of CuckooML and the directories are made of *)
MlFields == {"stage", "cfg", "binaries", "updated", "labels", "simple", "features", "data", "clustering", "written",
             "unsaved"}
ShapeInv ==
    /\ DOMAIN ml = MlFields
    /\ DOMAIN reports = {"data", "results"} /\ DOMAIN reports.data = DOMAIN Samples
    /\ \A f \in DOMAIN Samples : {"clustering", "torn"} \subseteq DOMAIN reports.data[f]
    /\ ml.stage # "idle" => {"clustering", "algorithm", "directory", "current"} \subseteq DOMAIN ml.cfg

(* Until it saves, Loader holds the reports of the data directory as they are. *)
AsLoaded == {"features", "select", "cluster", "assess", "abnormal", "anomalies", "compare", "update"}
LoadedInv ==
    ml.stage \in AsLoaded => ml.binaries = reports.data /\ \A f \in DOMAIN Samples : ~ reports.data[f].torn

(* The fit that is written down, and put into the reports, is that of the clustering. *)
Saving == {"save", "dump"}
WithFit == {"abnormal", "anomalies", "compare", "update"} \union Saving
FitInv ==
    /\ ml.stage = "cluster" => DOMAIN ml.data = DOMAIN Samples
    /\ ml.stage \in {"select", "cluster", "assess", "update"} \union Saving => ml.cfg.clustering
    /\ ml.stage \in WithFit \union {"assess"} /\ ml.cfg.clustering =>
          DOMAIN ml.clustering[ml.cfg.algorithm] = DOMAIN Samples
    /\ ml.stage \in WithFit /\ ml.cfg.clustering => assessed = ml.clustering[ml.cfg.algorithm]

Holds(r, alg, x) ==
    alg \in DOMAIN r.clustering /\ \A cell \in DOMAIN Located(alg, x) : r.clustering[alg][cell] = Located(alg, x)[cell]

(* What is saved holds the new fit, and of other algorithms what was there. *)
SaveInv ==
    ml.stage \in Saving =>
        /\ DOMAIN ml.binaries = DOMAIN Samples /\ ml.unsaved \subseteq DOMAIN Samples
        /\ \A f \in DOMAIN Samples :
              /\ {"clustering", "torn"} \subseteq DOMAIN ml.binaries[f] /\ ~ ml.binaries[f].torn
              /\ Holds(ml.binaries[f], ml.cfg.algorithm, assessed[f])
              /\ \A alg \in DOMAIN inPlace \ {ml.cfg.algorithm} : Holds(ml.binaries[f], alg, inPlace[alg][f])
        /\ ml.stage = "dump" => ml.cfg.current \in DOMAIN Samples
        /\ Location = "data" =>
              \A f \in DOMAIN Samples \ ml.unsaved :
                  (ml.stage = "dump" /\ f = ml.cfg.current) \/ reports.data[f] = ml.binaries[f]

KeptInv ==
    \A alg \in DOMAIN inPlace :
        /\ DOMAIN inPlace[alg] = DOMAIN Samples
        /\ \/ ml.stage \in Saving /\ Location = "data" /\ alg = ml.cfg.algorithm
           \/ \A f \in DOMAIN Samples : ~ reports.data[f].torn => Holds(reports.data[f], alg, inPlace[alg][f])

MlInv == ShapeInv /\ LoadedInv /\ FitInv /\ SaveInv /\ KeptInv

-----------------------------------------------------------------------------
(* An update writes its cells and leaves the others, and other algorithms, alone. *)
LEMMA Updating ==
  ASSUME NEW r, "clustering" \in DOMAIN r, NEW alg, NEW cells
  PROVE  LET u == Update(r, alg, cells) IN
         /\ DOMAIN u = DOMAIN r /\ \A k \in DOMAIN r \ {"clustering"} : u[k] = r[k]
         /\ alg \in DOMAIN u.clustering
         /\ \A a \in DOMAIN r.clustering \ {alg} : a \in DOMAIN u.clustering /\ u.clustering[a] = r.clustering[a]
         /\ \A k \in DOMAIN cells : k \in DOMAIN u.clustering[alg] /\ u.clustering[alg][k] = cells[k]
         /\ \A k \in DOMAIN NodeOf(r, alg) \ DOMAIN cells : u.clustering[alg][k] = NodeOf(r, alg)[k]
  <1> DEFINE node == Overlaid(NodeOf(r, alg), cells)
             tree == Replaced(r.clustering, alg, node)
             u == Update(r, alg, cells)
  <1>1. DOMAIN u = DOMAIN r /\ (\A k \in DOMAIN r \ {"clustering"} : u[k] = r[k]) /\ u.clustering = tree
    BY DEF Update
  <1>2. /\ DOMAIN tree = DOMAIN r.clustering \union {alg} /\ tree[alg] = node
        /\ \A a \in DOMAIN r.clustering \ {alg} : tree[a] = r.clustering[a]
    BY DEF Replaced
  <1>3. /\ DOMAIN node = DOMAIN NodeOf(r, alg) \union DOMAIN cells
        /\ \A k \in DOMAIN cells : node[k] = cells[k]
        /\ \A k \in DOMAIN NodeOf(r, alg) \ DOMAIN cells : node[k] = NodeOf(r, alg)[k]
    BY DEF Overlaid
  <1> HIDE DEF u, tree, node
  <1> QED
    BY <1>1, <1>2, <1>3 DEF u

(* A report updated with a fit and a parameter holds the fit, and what it held of other
   algorithms. *)
LEMMA UpdatedTwice ==
  ASSUME NEW r, {"clustering", "torn"} \subseteq DOMAIN r, NEW alg, NEW x, NEW parameter
  PROVE  LET v == Update(Update(r, alg, Located(alg, x)), alg, [min_samples |-> parameter]) IN
         /\ DOMAIN v = DOMAIN r /\ v.torn = r.torn
         /\ Holds(v, alg, x)
         /\ \A a, y : a # alg /\ Holds(r, a, y) => Holds(v, a, y)
  <1> DEFINE u == Update(r, alg, Located(alg, x))
             cells == [min_samples |-> parameter]
             v == Update(u, alg, cells)
  <1>1. /\ DOMAIN u = DOMAIN r /\ u.torn = r.torn /\ alg \in DOMAIN u.clustering
        /\ \A a \in DOMAIN r.clustering \ {alg} : a \in DOMAIN u.clustering /\ u.clustering[a] = r.clustering[a]
        /\ \A k \in DOMAIN Located(alg, x) :
              k \in DOMAIN u.clustering[alg] /\ u.clustering[alg][k] = Located(alg, x)[k]
    BY Updating
  <1> HIDE DEF u
  <1>2. /\ DOMAIN v = DOMAIN u /\ v.torn = u.torn /\ alg \in DOMAIN v.clustering
        /\ \A a \in DOMAIN u.clustering \ {alg} : a \in DOMAIN v.clustering /\ v.clustering[a] = u.clustering[a]
        /\ \A k \in DOMAIN NodeOf(u, alg) \ DOMAIN cells : v.clustering[alg][k] = NodeOf(u, alg)[k]
    BY <1>1, Updating
  <1>3. NodeOf(u, alg) = u.clustering[alg]
    BY <1>1 DEF NodeOf
  <1>4. DOMAIN cells = {"min_samples"} /\ "min_samples" \notin DOMAIN Located(alg, x)
    BY DEF Located
  <1> HIDE DEF v, cells
  <1>5. Holds(v, alg, x)
    BY <1>1, <1>2, <1>3, <1>4 DEF Holds
  <1>6. ASSUME NEW a, NEW y, a # alg, Holds(r, a, y)
        PROVE  Holds(v, a, y)
    BY <1>6, <1>1, <1>2 DEF Holds
  <1> QED
    BY <1>1, <1>2, <1>5, <1>6 DEF u, v, cells

-----------------------------------------------------------------------------
LEMMA MlStart == CuckooMLInit => MlInv
  <1> SUFFICES ASSUME CuckooMLInit PROVE MlInv
    OBVIOUS
  <1>1. ml.stage = "idle" /\ DOMAIN ml = MlFields
    BY DEF CuckooMLInit, MlOver, MlFields
  <1>2. reports.data = Samples /\ DOMAIN reports = {"data", "results"} /\ DOMAIN inPlace = {}
    BY DEF CuckooMLInit
  <1> QED
    BY <1>1, <1>2, CuckooMLAssumption
       DEF MlInv, ShapeInv, LoadedInv, AsLoaded, FitInv, WithFit, SaveInv, Saving, KeptInv

(* Before it saves, and when it ends without, a run leaves the reports alone. *)
LEMMA NotSaving ==
  ASSUME MlInv, ml.stage \notin Saving, ml'.stage \notin Saving, reports' = reports, inPlace' = inPlace
  PROVE  SaveInv' /\ KeptInv'
  <1>1. SaveInv'
    BY DEF SaveInv
  <1>2. KeptInv'
    BY DEF MlInv, KeptInv, Holds
  <1> QED
    BY <1>1, <1>2

LEMMA EndKeeps ==
  ASSUME MlInv, ml.stage \notin Saving, ml' = MlOver, reports' = reports, inPlace' = inPlace
  PROVE  MlInv'
  <1>1. ml'.stage = "idle" /\ DOMAIN ml' = MlFields
    BY DEF MlOver, MlFields
  <1>2. ShapeInv' /\ LoadedInv' /\ FitInv'
    BY <1>1 DEF MlInv, ShapeInv, LoadedInv, AsLoaded, FitInv, WithFit, Saving
  <1> QED
    BY <1>1, <1>2, NotSaving DEF MlInv, Saving

LEMMA StartMlKeeps ==
  ASSUME MlInv, NEW cfg \in Settings, StartMl(cfg)
  PROVE  MlInv'
  <1>1. ml'.stage = "load" /\ DOMAIN ml' = MlFields /\ ml'.cfg = cfg
    BY DEF StartMl, MlOver, MlFields
  <1>2. ml.stage = "idle" /\ reports' = reports /\ inPlace' = inPlace
    BY DEF StartMl
  <1>3. ShapeInv' /\ LoadedInv' /\ FitInv'
    BY <1>1, <1>2, CuckooMLAssumption DEF MlInv, ShapeInv, LoadedInv, AsLoaded, FitInv, WithFit, Saving
  <1> QED
    BY <1>1, <1>2, <1>3, NotSaving DEF MlInv, Saving

LEMMA LoadKeeps ==
  ASSUME MlInv, LoadBinaries
  PROVE  MlInv'
  <1> DEFINE m == [ml EXCEPT !.stage = "features", !.binaries = reports.data]
  <1>1. ml.stage = "load" /\ reports' = reports /\ inPlace' = inPlace /\ DOMAIN ml = MlFields
    BY DEF LoadBinaries, Exit, Step, MlInv, ShapeInv
  <1>2. CASE ml' = MlOver
    BY <1>1, <1>2, EndKeeps DEF Saving
  <1>3. CASE ml' = m /\ \A f \in DOMAIN reports.data : Loadable(reports.data[f])
    <2>1. ml'.stage = "features" /\ DOMAIN ml' = MlFields /\ ml'.cfg = ml.cfg /\ ml'.binaries = reports.data
      BY <1>1, <1>3 DEF MlFields
    <2>2. ShapeInv' /\ FitInv'
      BY <1>1, <2>1 DEF MlInv, ShapeInv, FitInv, WithFit, Saving
    <2>3. LoadedInv'
      BY <1>1, <1>3, <2>1 DEF MlInv, ShapeInv, LoadedInv, Loadable
    <2> QED
      BY <1>1, <2>1, <2>2, <2>3, NotSaving DEF MlInv, Saving
  <1> QED
    BY <1>2, <1>3 DEF LoadBinaries, Exit, Step

(* A step of a run that has loaded the reports to another stage before it saves. *)
LEMMA StageKeeps ==
  ASSUME MlInv, ml.stage \in AsLoaded, ml'.stage \in AsLoaded, DOMAIN ml' = MlFields,
         ml'.cfg = ml.cfg, ml'.binaries = ml.binaries, reports' = reports, inPlace' = inPlace, FitInv'
  PROVE  MlInv'
  <1>1. ShapeInv' /\ LoadedInv'
    BY DEF MlInv, ShapeInv, LoadedInv, AsLoaded
  <1> QED
    BY <1>1, NotSaving DEF MlInv, Saving, AsLoaded

LEMMA FeaturesKeep ==
  ASSUME MlInv, LoadFeatures
  PROVE  MlInv'
  <1> DEFINE labels == [f \in DOMAIN ml.binaries |-> LabelSample(ml.binaries[f])]
             m == [ml EXCEPT !.stage = IF ml.cfg.clustering THEN "select" ELSE "abnormal", !.labels = labels,
                             !.simple = SimpleFrame(ml.binaries), !.features = FeatureFrame(ml.binaries)]
  <1>1. ml.stage = "features" /\ reports' = reports /\ inPlace' = inPlace /\ DOMAIN ml = MlFields
    BY DEF LoadFeatures, Exit, Step, MlInv, ShapeInv
  <1>2. CASE ml' = MlOver
    BY <1>1, <1>2, EndKeeps DEF Saving
  <1>3. CASE ml' = m
    <2>1. /\ ml'.stage = IF ml.cfg.clustering THEN "select" ELSE "abnormal"
          /\ DOMAIN ml' = MlFields /\ ml'.cfg = ml.cfg /\ ml'.binaries = ml.binaries
      BY <1>1, <1>3 DEF MlFields
    <2>2. FitInv'
      BY <2>1 DEF FitInv, WithFit, Saving
    <2> QED
      BY <1>1, <2>1, <2>2, StageKeeps DEF AsLoaded
  <1> QED
    BY <1>2, <1>3 DEF LoadFeatures, Exit, Step

LEMMA SelectKeeps ==
  ASSUME MlInv, SelectData
  PROVE  MlInv'
  <1>1. ml.stage = "select" /\ reports' = reports /\ inPlace' = inPlace /\ DOMAIN ml = MlFields
    BY DEF SelectData, Exit, Step, MlInv, ShapeInv
  <1>2. CASE ml' = MlOver
    BY <1>1, <1>2, EndKeeps DEF Saving
  <1>3. ASSUME NEW used, ml' = [ml EXCEPT !.stage = "cluster", !.data = [f \in DOMAIN ml.binaries |-> Row(f, used)]]
        PROVE  MlInv'
    <2>1. /\ ml'.stage = "cluster" /\ DOMAIN ml' = MlFields /\ ml'.cfg = ml.cfg /\ ml'.binaries = ml.binaries
          /\ DOMAIN ml'.data = DOMAIN ml.binaries
      BY <1>1, <1>3 DEF MlFields
    <2>2. DOMAIN ml.binaries = DOMAIN Samples /\ ml.cfg.clustering
      BY <1>1 DEF MlInv, LoadedInv, AsLoaded, ShapeInv, FitInv
    <2>3. FitInv'
      BY <2>1, <2>2 DEF FitInv, WithFit, Saving
    <2> QED
      BY <1>1, <2>1, <2>3, StageKeeps DEF AsLoaded
  <1> QED
    BY <1>2, <1>3 DEF SelectData, Exit, Step

LEMMA ClusterKeeps ==
  ASSUME MlInv, Cluster
  PROVE  MlInv'
  <1>1. ml.stage = "cluster" /\ reports' = reports /\ inPlace' = inPlace /\ DOMAIN ml = MlFields
    BY DEF Cluster, Exit, Step, MlInv, ShapeInv
  <1>2. CASE ml' = MlOver
    BY <1>1, <1>2, EndKeeps DEF Saving
  <1>3. ASSUME NEW fit, DOMAIN fit = DOMAIN ml.data,
               ml' = [ml EXCEPT !.stage = "assess", !.clustering = [a \in {ml.cfg.algorithm} |-> fit]]
        PROVE  MlInv'
    <2>1. /\ ml'.stage = "assess" /\ DOMAIN ml' = MlFields /\ ml'.cfg = ml.cfg /\ ml'.binaries = ml.binaries
          /\ ml'.clustering[ml.cfg.algorithm] = fit
      BY <1>1, <1>3 DEF MlFields
    <2>2. DOMAIN fit = DOMAIN Samples /\ ml.cfg.clustering
      BY <1>1, <1>3 DEF MlInv, FitInv
    <2>3. FitInv'
      BY <2>1, <2>2 DEF FitInv, WithFit, Saving
    <2> QED
      BY <1>1, <2>1, <2>3, StageKeeps DEF AsLoaded
  <1>4. \A fit \in Hdbscan(DOMAIN ml.data) \union Dbscan(DOMAIN ml.data) : DOMAIN fit = DOMAIN ml.data
    BY DEF Hdbscan, Dbscan
  <1> QED
    BY <1>2, <1>3, <1>4 DEF Cluster, Exit, Step

LEMMA AssessKeeps ==
  ASSUME MlInv, Assess
  PROVE  MlInv'
  <1> DEFINE fit == ml.clustering[ml.cfg.algorithm]
             w == [fit |-> [all |-> Assessed(fit, FALSE), apart |-> Assessed(fit, TRUE)],
                   distribution |-> LabelDistribution(fit, ml.labels)]
  <1>1. ml.stage = "assess" /\ reports' = reports /\ inPlace' = inPlace /\ DOMAIN ml = MlFields /\ assessed' = fit
    BY DEF Assess, MlInv, ShapeInv
  <1>2. ml' = [ml EXCEPT !.stage = "abnormal", !.written = w]
    BY DEF Assess
  <1> HIDE DEF w
  <1>3. /\ ml'.stage = "abnormal" /\ DOMAIN ml' = MlFields /\ ml'.cfg = ml.cfg /\ ml'.binaries = ml.binaries
        /\ ml'.clustering = ml.clustering
    BY <1>1, <1>2 DEF MlFields
  <1>4. DOMAIN fit = DOMAIN Samples
    BY <1>1 DEF MlInv, FitInv
  <1>5. FitInv'
    BY <1>1, <1>3, <1>4 DEF FitInv, WithFit, Saving
  <1> QED
    BY <1>1, <1>3, <1>5, StageKeeps DEF AsLoaded

(* What is written of a clustering, or the end of a run, has no part in it. *)
LEMMA LookKeeps ==
  ASSUME MlInv, AbnormalBehaviour \/ DetectAnomalies \/ CompareSample
  PROVE  MlInv'
  <1>1. /\ ml.stage \in {"abnormal", "anomalies", "compare"} /\ DOMAIN ml = MlFields
        /\ reports' = reports /\ inPlace' = inPlace /\ assessed' = assessed
    BY DEF AbnormalBehaviour, DetectAnomalies, CompareSample, Exit, Step, MlInv, ShapeInv
  <1>2. CASE ml' = MlOver
    BY <1>1, <1>2, EndKeeps DEF Saving
  <1>3. ASSUME NEW s \in {"anomalies", "compare", "update"}, NEW w, s = "update" => ml.cfg.clustering,
               ml' = [ml EXCEPT !.stage = s, !.written = w]
        PROVE  MlInv'
    <2>1. /\ ml'.stage = s /\ DOMAIN ml' = MlFields /\ ml'.cfg = ml.cfg /\ ml'.binaries = ml.binaries
          /\ ml'.clustering = ml.clustering
      BY <1>1, <1>3 DEF MlFields
    <2>2. FitInv'
      BY <1>1, <1>3, <2>1 DEF MlInv, FitInv, WithFit, Saving
    <2> QED
      BY <1>1, <2>1, <2>2, StageKeeps DEF AsLoaded
  <1>4. CASE AbnormalBehaviour
    <2> DEFINE counts == FeatureCategory(ml.features, FALSE)
               w == IF ml.cfg.abnormal
                    THEN Both(ml.written, [abnormal |-> [c \in FrameColumns(counts) |-> Abnormal(counts, c)]])
                    ELSE ml.written
    <2>1. ml' = [ml EXCEPT !.stage = "anomalies", !.written = w]
      BY <1>1, <1>4 DEF AbnormalBehaviour, Step, MlFields
    <2> QED
      BY <2>1, <1>3
  <1>5. CASE DetectAnomalies
    <2> DEFINE w == IF ml.cfg.anomalies
                    THEN Both(ml.written, [anomalies |-> Anomalies(ml.clustering.hdbscan, ml.labels)])
                    ELSE ml.written
    <2>1. CASE ml' = [ml EXCEPT !.stage = "compare", !.written = w]
      BY <2>1, <1>3
    <2> QED
      BY <1>1, <1>2, <1>5, <2>1 DEF DetectAnomalies, Exit, Step, MlFields
  <1>6. CASE CompareSample
    <2>1. CASE ml' = [ml EXCEPT !.stage = "update"] /\ ml.cfg.clustering
      <3>1. ml' = [ml EXCEPT !.stage = "update", !.written = ml.written]
        BY <2>1, <1>1 DEF MlFields
      <3> QED
        BY <2>1, <3>1, <1>3
    <2> QED
      BY <1>2, <1>6, <2>1 DEF CompareSample, Exit, Step
  <1> QED
    BY <1>4, <1>5, <1>6

-----------------------------------------------------------------------------
(* Saving *)

LEMMA UpdateAllKeeps ==
  ASSUME MlInv, UpdateAll
  PROVE  MlInv'
  <1> DEFINE alg == ml.cfg.algorithm
             fit == ml.clustering[alg]
             bs == UpdateBinaries(ml.binaries, alg, fit, ml.cfg.parameter)
  <1>1. /\ ml.stage = "update" /\ DOMAIN ml = MlFields
        /\ reports' = reports /\ inPlace' = inPlace /\ assessed' = assessed
        /\ ml' = [ml EXCEPT !.stage = "save", !.updated = TRUE, !.unsaved = DOMAIN ml.binaries, !.binaries = bs]
    BY DEF UpdateAll, Step, MlInv, ShapeInv, MlFields
  <1>2. /\ ml.binaries = reports.data /\ DOMAIN ml.binaries = DOMAIN Samples
        /\ \A f \in DOMAIN Samples :
              ~ ml.binaries[f].torn /\ {"clustering", "torn"} \subseteq DOMAIN ml.binaries[f]
    BY <1>1 DEF MlInv, ShapeInv, LoadedInv, AsLoaded
  <1>3. ml.cfg.clustering /\ DOMAIN fit = DOMAIN Samples /\ assessed = fit
    BY <1>1 DEF MlInv, FitInv, WithFit
  <1>4. /\ DOMAIN bs = DOMAIN Samples
        /\ \A f \in DOMAIN Samples :
              bs[f] = Update(Update(ml.binaries[f], alg, Located(alg, fit[f])), alg,
                             [min_samples |-> ml.cfg.parameter])
    BY <1>2 DEF UpdateBinaries
  <1> HIDE DEF bs
  <1>5. \A f \in DOMAIN Samples :
           /\ DOMAIN bs[f] = DOMAIN ml.binaries[f] /\ bs[f].torn = ml.binaries[f].torn
           /\ Holds(bs[f], alg, fit[f])
           /\ \A a, y : a # alg /\ Holds(ml.binaries[f], a, y) => Holds(bs[f], a, y)
    BY <1>2, <1>4, UpdatedTwice
  <1>6. /\ ml'.stage = "save" /\ DOMAIN ml' = MlFields /\ ml'.cfg = ml.cfg /\ ml'.clustering = ml.clustering
        /\ ml'.binaries = bs /\ ml'.unsaved = DOMAIN Samples
    BY <1>1, <1>2 DEF MlFields
  <1>7. ShapeInv' /\ LoadedInv'
    BY <1>1, <1>6 DEF MlInv, ShapeInv, LoadedInv, AsLoaded
  <1>8. FitInv'
    BY <1>1, <1>3, <1>6 DEF FitInv, WithFit
  <1>9. \A a \in DOMAIN inPlace : \A f \in DOMAIN Samples : Holds(ml.binaries[f], a, inPlace[a][f])
    BY <1>1, <1>2 DEF MlInv, KeptInv, Saving
  <1>10. SaveInv'
    <2>1. ASSUME NEW f \in DOMAIN Samples
          PROVE  /\ {"clustering", "torn"} \subseteq DOMAIN bs[f] /\ ~ bs[f].torn
                 /\ Holds(bs[f], alg, assessed[f])
                 /\ \A a \in DOMAIN inPlace \ {alg} : Holds(bs[f], a, inPlace[a][f])
      BY <1>2, <1>3, <1>5, <1>9
    <2> HIDE DEF alg, fit
    <2> QED
      BY <1>1, <1>4, <1>6, <2>1 DEF SaveInv, Saving, Holds, alg
  <1>11. KeptInv'
    BY <1>1, <1>6 DEF MlInv, KeptInv, Saving, Holds
  <1> QED
    BY <1>7, <1>8, <1>10, <1>11 DEF MlInv

(* A file that is being saved, or has been: only its place among the results changes. *)
LEMMA PutKeeps ==
  ASSUME MlInv, NEW f \in DOMAIN Samples, NEW r, PutReport(f, r), {"clustering", "torn"} \subseteq DOMAIN r
  PROVE  /\ DOMAIN reports' = {"data", "results"} /\ DOMAIN reports'.data = DOMAIN Samples
         /\ Location = "data" => \A g \in DOMAIN Samples : reports'.data[g] = IF g = f THEN r ELSE reports.data[g]
         /\ Location # "data" => reports'.data = reports.data
         /\ \A g \in DOMAIN Samples : {"clustering", "torn"} \subseteq DOMAIN reports'.data[g]
  <1>1. DOMAIN reports = {"data", "results"} /\ DOMAIN reports.data = DOMAIN Samples
        /\ \A g \in DOMAIN Samples : {"clustering", "torn"} \subseteq DOMAIN reports.data[g]
    BY DEF MlInv, ShapeInv
  <1>2. CASE ml.cfg.directory
    BY <1>1, <1>2 DEF PutReport, Location
  <1>3. CASE ~ ml.cfg.directory
    <2>1. DOMAIN reports' = {"data", "results"} /\ reports'.data = Replaced(reports.data, f, r)
      BY <1>1, <1>3 DEF PutReport, Location
    <2>2. /\ DOMAIN reports'.data = DOMAIN Samples
          /\ \A g \in DOMAIN Samples : reports'.data[g] = IF g = f THEN r ELSE reports.data[g]
      BY <1>1, <2>1 DEF Replaced
    <2> QED
      BY <1>1, <1>3, <2>1, <2>2 DEF Location
  <1> QED
    BY <1>2, <1>3

LEMMA OpenKeeps ==
  ASSUME MlInv, NEW f \in ml.unsaved, OpenReport(f)
  PROVE  MlInv'
  <1> DEFINE r == [ml.binaries[f] EXCEPT !.torn = TRUE]
  <1>1. /\ ml.stage = "save" /\ DOMAIN ml = MlFields /\ inPlace' = inPlace /\ assessed' = assessed
        /\ PutReport(f, r)
        /\ ml' = [ml EXCEPT !.stage = "dump", !.unsaved = @ \ {f}, !.cfg.current = f]
        /\ {"clustering", "algorithm", "directory", "current"} \subseteq DOMAIN ml.cfg
    BY DEF OpenReport, MlInv, ShapeInv
  <1>2. /\ f \in DOMAIN Samples /\ ml.unsaved \subseteq DOMAIN Samples
        /\ DOMAIN ml.binaries = DOMAIN Samples /\ {"clustering", "torn"} \subseteq DOMAIN ml.binaries[f]
    BY <1>1 DEF MlInv, SaveInv, Saving
  <1>3. r.torn /\ {"clustering", "torn"} \subseteq DOMAIN r
    BY <1>2
  <1> HIDE DEF r
  <1>4. /\ ml'.stage = "dump" /\ DOMAIN ml' = MlFields /\ ml'.clustering = ml.clustering
        /\ ml'.binaries = ml.binaries /\ ml'.unsaved = ml.unsaved \ {f}
        /\ ml'.cfg.clustering = ml.cfg.clustering /\ ml'.cfg.algorithm = ml.cfg.algorithm
        /\ ml'.cfg.directory = ml.cfg.directory /\ ml'.cfg.current = f /\ DOMAIN ml'.cfg = DOMAIN ml.cfg
    BY <1>1 DEF MlFields
  <1>5. Location' = Location
    BY <1>4 DEF Location
  <1>6. /\ DOMAIN reports' = {"data", "results"} /\ DOMAIN reports'.data = DOMAIN Samples
        /\ Location = "data" => \A g \in DOMAIN Samples : reports'.data[g] = IF g = f THEN r ELSE reports.data[g]
        /\ Location # "data" => reports'.data = reports.data
        /\ \A g \in DOMAIN Samples : {"clustering", "torn"} \subseteq DOMAIN reports'.data[g]
    BY <1>1, <1>2, <1>3, PutKeeps
  <1>7. ShapeInv' /\ LoadedInv'
    BY <1>1, <1>4, <1>6 DEF ShapeInv, LoadedInv, AsLoaded
  <1>8. FitInv'
    BY <1>1, <1>4 DEF MlInv, FitInv, WithFit, Saving
  <1>9. SaveInv'
    <2>1. \A g \in DOMAIN Samples :
             /\ {"clustering", "torn"} \subseteq DOMAIN ml.binaries[g] /\ ~ ml.binaries[g].torn
             /\ Holds(ml.binaries[g], ml.cfg.algorithm, assessed[g])
             /\ \A a \in DOMAIN inPlace \ {ml.cfg.algorithm} : Holds(ml.binaries[g], a, inPlace[a][g])
      BY <1>1 DEF MlInv, SaveInv, Saving
    <2>2. Location = "data" =>
             \A g \in DOMAIN Samples \ (ml.unsaved \ {f}) : g = f \/ reports'.data[g] = ml.binaries[g]
      BY <1>1, <1>2, <1>6 DEF MlInv, SaveInv, Saving
    <2> QED
      BY <1>1, <1>2, <1>4, <1>5, <2>1, <2>2 DEF SaveInv, Saving, Holds
  <1>10. KeptInv'
    <2> SUFFICES ASSUME NEW a \in DOMAIN inPlace
                 PROVE  /\ DOMAIN inPlace[a] = DOMAIN Samples
                        /\ \/ Location = "data" /\ a = ml.cfg.algorithm
                           \/ \A g \in DOMAIN Samples :
                                 ~ reports'.data[g].torn => Holds(reports'.data[g], a, inPlace[a][g])
      BY <1>1, <1>4, <1>5 DEF KeptInv, Saving, Holds
    <2> QED
      BY <1>1, <1>3, <1>6 DEF MlInv, KeptInv, Saving
  <1> QED
    BY <1>7, <1>8, <1>9, <1>10 DEF MlInv

LEMMA DumpKeeps ==
  ASSUME MlInv, DumpReport
  PROVE  MlInv'
  <1> DEFINE f == ml.cfg.current
             r == ml.binaries[f]
  <1>1. /\ ml.stage = "dump" /\ DOMAIN ml = MlFields /\ inPlace' = inPlace /\ assessed' = assessed
        /\ PutReport(f, r) /\ ml' = [ml EXCEPT !.stage = "save"]
        /\ {"clustering", "algorithm", "directory", "current"} \subseteq DOMAIN ml.cfg
    BY DEF DumpReport, MlInv, ShapeInv
  <1>2. /\ f \in DOMAIN Samples /\ ml.unsaved \subseteq DOMAIN Samples
        /\ DOMAIN ml.binaries = DOMAIN Samples /\ {"clustering", "torn"} \subseteq DOMAIN r
    BY <1>1 DEF MlInv, SaveInv, Saving
  <1>3. /\ ml'.stage = "save" /\ DOMAIN ml' = MlFields /\ ml'.clustering = ml.clustering
        /\ ml'.binaries = ml.binaries /\ ml'.unsaved = ml.unsaved /\ ml'.cfg = ml.cfg
    BY <1>1 DEF MlFields
  <1> HIDE DEF f, r
  <1>4. /\ DOMAIN reports' = {"data", "results"} /\ DOMAIN reports'.data = DOMAIN Samples
        /\ Location = "data" => \A g \in DOMAIN Samples : reports'.data[g] = IF g = f THEN r ELSE reports.data[g]
        /\ Location # "data" => reports'.data = reports.data
        /\ \A g \in DOMAIN Samples : {"clustering", "torn"} \subseteq DOMAIN reports'.data[g]
    BY <1>1, <1>2, PutKeeps
  <1>5. ShapeInv' /\ LoadedInv'
    BY <1>1, <1>3, <1>4 DEF ShapeInv, LoadedInv, AsLoaded
  <1>6. FitInv'
    BY <1>1, <1>3 DEF MlInv, FitInv, WithFit, Saving
  <1>7. \A g \in DOMAIN Samples :
           /\ {"clustering", "torn"} \subseteq DOMAIN ml.binaries[g] /\ ~ ml.binaries[g].torn
           /\ Holds(ml.binaries[g], ml.cfg.algorithm, assessed[g])
           /\ \A a \in DOMAIN inPlace \ {ml.cfg.algorithm} : Holds(ml.binaries[g], a, inPlace[a][g])
    BY <1>1 DEF MlInv, SaveInv, Saving
  <1>8. SaveInv'
    <2>1. Location = "data" => \A g \in DOMAIN Samples \ ml.unsaved : reports'.data[g] = ml.binaries[g]
      BY <1>1, <1>2, <1>4 DEF MlInv, SaveInv, Saving, f, r
    <2>2. Location' = Location
      BY <1>3 DEF Location
    <2> QED
      BY <1>1, <1>2, <1>3, <1>7, <2>1, <2>2 DEF SaveInv, Saving, Holds
  <1>9. KeptInv'
    <2> SUFFICES ASSUME NEW a \in DOMAIN inPlace
                 PROVE  /\ DOMAIN inPlace[a] = DOMAIN Samples
                        /\ \/ Location = "data" /\ a = ml.cfg.algorithm
                           \/ \A g \in DOMAIN Samples :
                                 ~ reports'.data[g].torn => Holds(reports'.data[g], a, inPlace[a][g])
      BY <1>1, <1>3 DEF KeptInv, Saving, Holds, Location
    <2> QED
      BY <1>1, <1>2, <1>4, <1>7 DEF MlInv, KeptInv, Saving, r
  <1> QED
    BY <1>5, <1>6, <1>8, <1>9 DEF MlInv

(* When all is saved the reports hold the new fit; after a kill nothing is said of it. *)
LEMMA SavedKeeps ==
  ASSUME MlInv, Saved \/ Killed
  PROVE  MlInv'
  <1> DEFINE alg == ml.cfg.algorithm
  <1>1. ml.stage \in Saving /\ ml' = MlOver /\ reports' = reports /\ ml'.stage = "idle" /\ DOMAIN ml' = MlFields
    BY DEF Saved, Killed, Saving, MlOver, MlFields
  <1>2. ShapeInv' /\ LoadedInv' /\ FitInv' /\ SaveInv'
    BY <1>1 DEF MlInv, ShapeInv, LoadedInv, AsLoaded, FitInv, WithFit, SaveInv, Saving
  <1>3. ASSUME NEW a \in DOMAIN inPlace, Location # "data" \/ a # alg
        PROVE  /\ DOMAIN inPlace[a] = DOMAIN Samples
               /\ \A g \in DOMAIN Samples : ~ reports.data[g].torn => Holds(reports.data[g], a, inPlace[a][g])
    BY <1>3 DEF MlInv, KeptInv
  <1>4. CASE inPlace' = inPlace /\ Location # "data"
    BY <1>1, <1>2, <1>3, <1>4 DEF KeptInv, MlInv, Saving, Holds
  <1>5. CASE Saved /\ Location = "data"
    <2>1. ml.stage = "save" /\ ml.unsaved = {} /\ inPlace' = Replaced(inPlace, alg, assessed)
      BY <1>5 DEF Saved
    <2>2. DOMAIN assessed = DOMAIN Samples
      BY <2>1 DEF MlInv, FitInv, WithFit, Saving
    <2>3. \A g \in DOMAIN Samples : Holds(reports.data[g], alg, assessed[g])
      BY <2>1, <1>5 DEF MlInv, SaveInv, Saving
    <2>4. /\ DOMAIN inPlace' = DOMAIN inPlace \union {alg} /\ inPlace'[alg] = assessed
          /\ \A a \in DOMAIN inPlace \ {alg} : inPlace'[a] = inPlace[a]
      BY <2>1 DEF Replaced
    <2>5. ASSUME NEW a \in DOMAIN inPlace'
          PROVE  /\ DOMAIN inPlace'[a] = DOMAIN Samples
                 /\ \A g \in DOMAIN Samples : ~ reports.data[g].torn => Holds(reports.data[g], a, inPlace'[a][g])
      <3>1. CASE a = alg
        BY <3>1, <2>2, <2>3, <2>4
      <3>2. CASE a # alg
        BY <3>2, <2>4, <1>3
      <3> QED
        BY <3>1, <3>2
    <2> QED
      BY <1>1, <2>5, <1>2 DEF KeptInv, MlInv, Saving, Holds
  <1>6. CASE Killed /\ Location = "data"
    <2>1. inPlace' = Restrict(inPlace, DOMAIN inPlace \ {alg})
      BY <1>6 DEF Killed
    <2>2. DOMAIN inPlace' = DOMAIN inPlace \ {alg} /\ \A a \in DOMAIN inPlace' : inPlace'[a] = inPlace[a]
      BY <2>1 DEF Restrict
    <2> QED
      BY <1>1, <1>2, <1>3, <2>2 DEF KeptInv, MlInv, Saving, Holds
  <1>7. Location # "data" => inPlace' = inPlace
    BY DEF Saved, Killed
  <1> QED
    BY <1>4, <1>5, <1>6, <1>7

LEMMA MlStays ==
  ASSUME MlInv, [CuckooMLNext]_mlvars
  PROVE  MlInv'
  <1>1. CASE UNCHANGED mlvars
    BY <1>1 DEF mlvars, MlInv, ShapeInv, LoadedInv, FitInv, SaveInv, KeptInv, Holds, Location
  <1> QED
    BY <1>1, StartMlKeeps, LoadKeeps, FeaturesKeep, SelectKeeps, ClusterKeeps, AssessKeeps, LookKeeps,
       UpdateAllKeeps, OpenKeeps, DumpKeeps, SavedKeeps
       DEF CuckooMLNext

(* A clustering that was saved in place stays in the reports of the data directory, for each
   algorithm, whatever later runs do or leave unfinished: save_json writes back what
   was loaded, updated below the root of one algorithm. *)
THEOREM ResultsStay == CuckooMLSpec => []ResultsKept
  <1>1. MlInv => ResultsKept
    BY DEF MlInv, KeptInv, Saving, ResultsKept, Holds
  <1> QED
    BY <1>1, MlStart, MlStays, PTL DEF CuckooMLSpec

-----------------------------------------------------------------------------
(* Behaviour *)

FoundFields == {"generic", "tree", "summary", "stats", "processes", "files"}
(* What handlers have gathered: every process with a reconstructor has a summary of its own,
   and all that was said of processes is in the summary of the analysis. *)
Gathered(f) ==
    /\ DOMAIN f = FoundFields
    /\ DOMAIN f.files \subseteq DOMAIN f.generic
    /\ f.summary = UNION {f.generic[p] : p \in DOMAIN f.generic}
BehaviourInv == Gathered(found)

LEMMA SeesProcess ==
  ASSUME NEW f, Gathered(f), NEW e
  PROVE  Gathered(SeeProcess(f, e))
  <1> DEFINE a == [f EXCEPT !.processes = Append(@, [pid |-> e.pid, log |-> file]), !.files = Put(@, e.pid, << >>)]
             b == GenericProcess(a, e)
             c == TreeProcess(b, e)
  <1>1. /\ DOMAIN a = FoundFields /\ DOMAIN a.files = DOMAIN f.files \union {e.pid}
        /\ a.generic = f.generic /\ a.summary = f.summary
    BY DEF Gathered, FoundFields, Put
  <1> HIDE DEF a
  <1>2. /\ DOMAIN b = FoundFields /\ b.files = a.files /\ b.summary = a.summary
        /\ DOMAIN b.generic = DOMAIN a.generic \union {e.pid}
        /\ \A p \in DOMAIN a.generic : b.generic[p] = a.generic[p]
        /\ e.pid \notin DOMAIN a.generic => b.generic[e.pid] = {}
    BY <1>1 DEF GenericProcess, FoundFields, Put
  <1> HIDE DEF b
  <1>3. DOMAIN c = FoundFields /\ c.files = b.files /\ c.summary = b.summary /\ c.generic = b.generic
    BY <1>2 DEF TreeProcess, FoundFields
  <1> HIDE DEF c
  <1>4. UNION {b.generic[p] : p \in DOMAIN b.generic} = UNION {f.generic[p] : p \in DOMAIN f.generic}
    BY <1>1, <1>2
  <1>5. Gathered(c)
    BY <1>1, <1>2, <1>3, <1>4 DEF Gathered
  <1> QED
    BY <1>5 DEF a, b, c, SeeProcess

LEMMA SeesCall ==
  ASSUME NEW f, Gathered(f), NEW e, e.pid \in DOMAIN f.files
  PROVE  Gathered(SeeCall(f, e))
  <1> DEFINE gs == ToSet(Generic(f.files[e.pid], e))
             g == Subevents(f, e, gs)
             h == [g EXCEPT !.files[e.pid] = Handles(@, e)]
             c == StatsCall(h, e)
  <1> HIDE DEF gs
  <1>0. e.pid \in DOMAIN f.generic
    BY DEF Gathered
  <1>1. /\ DOMAIN g = FoundFields /\ g.files = f.files /\ g.summary = f.summary \union gs
        /\ g.generic = [f.generic EXCEPT ![e.pid] = @ \union gs]
    BY <1>0 DEF Gathered, FoundFields, Subevents, SummaryEvents, GenericEvents
  <1> HIDE DEF g
  <1>2. DOMAIN h = FoundFields /\ DOMAIN h.files = DOMAIN g.files /\ h.summary = g.summary /\ h.generic = g.generic
    BY <1>1 DEF FoundFields
  <1> HIDE DEF h
  <1>3. DOMAIN c = FoundFields /\ c.files = h.files /\ c.summary = h.summary /\ c.generic = h.generic
    BY <1>2 DEF StatsCall, FoundFields
  <1> HIDE DEF c
  <1>4. UNION {g.generic[p] : p \in DOMAIN g.generic} = (UNION {f.generic[p] : p \in DOMAIN f.generic}) \union gs
    <2>1. DOMAIN g.generic = DOMAIN f.generic
      BY <1>1
    <2>2. \A p \in DOMAIN f.generic : g.generic[p] = IF p = e.pid THEN f.generic[p] \union gs ELSE f.generic[p]
      BY <1>1
    <2>3. \A x : (\E p \in DOMAIN f.generic : x \in g.generic[p])
                    <=> (\E p \in DOMAIN f.generic : x \in f.generic[p]) \/ x \in gs
      BY <2>2, <1>0
    <2> QED
      BY <2>1, <2>3
  <1>5. DOMAIN g.generic = DOMAIN f.generic
    BY <1>1
  <1>6. Gathered(c)
    BY <1>1, <1>2, <1>3, <1>4, <1>5 DEF Gathered
  <1> QED
    BY <1>6 DEF SeeCall, gs, g, h, c

(* What BsonParser yields: nothing, a process or a call. *)
LEMMA Yields ==
  ASSUME NEW ps, NEW m \in Messages, Read(ps, m).out # << >>
  PROVE  Read(ps, m).out[1].type \in {"process", "apicall"}
  <1>1. m.type \in MessageTypes
    BY BehaviourAssumption
  <1>2. \/ m.type = "process" /\ Read(ps, m).out = <<ProcessEvent(m)>>
        \/ m.type = "call" /\ Read(ps, m).out = <<CallEvent(ps, m)>>
    BY <1>1 DEF Read, MessageTypes
  <1>3. ProcessEvent(m).type = "process" /\ CallEvent(ps, m).type = "apicall"
    BY DEF ProcessEvent, CallEvent
  <1> QED
    BY <1>2, <1>3

LEMMA MessageKeeps ==
  ASSUME BehaviourInv, NEW m \in Messages, ParseMessage(m)
  PROVE  BehaviourInv'
  <1> DEFINE r == Read(parsers[file], m)
  <1>1. CASE found' = found
    BY <1>1 DEF BehaviourInv, Gathered
  <1>2. CASE r.out # << >> /\ ~ Broken(found, r.out[1]) /\ found' = See(found, r.out[1])
    <2>1. r.out[1].type \in {"process", "apicall"}
      BY <1>2, Yields
    <2> DEFINE e == r.out[1]
    <2> HIDE DEF r
    <2>2. CASE e.type = "process"
      <3>1. Gathered(SeeProcess(found, e))
        BY SeesProcess DEF BehaviourInv
      <3> QED
        BY <1>2, <2>2, <3>1 DEF BehaviourInv, See, Gathered
    <2>3. CASE e.type = "apicall"
      <3>1. Gathered(SeeCall(found, e))
        BY <1>2, <2>3, SeesCall DEF BehaviourInv, Broken
      <3> QED
        BY <1>2, <2>3, <3>1 DEF BehaviourInv, See, Gathered
    <2> QED
      BY <2>1, <2>2, <2>3
  <1> QED
    BY <1>1, <1>2 DEF ParseMessage

(* SummaryAgrees for any logs: a pid that is used again keeps its summary, and no call is
   handled before its process has one. *)
THEOREM SummaryStays == BehaviourSpec => []SummaryAgrees
  <1>1. BehaviourInit => BehaviourInv
    BY DEF BehaviourInit, BehaviourInv, Gathered, FoundFields
  <1>2. ASSUME BehaviourInv, [BehaviourNext]_bvars
        PROVE  BehaviourInv'
    <2>1. CASE \E m \in Messages : ParseMessage(m)
      BY <1>2, <2>1, MessageKeeps
    <2>2. CASE found' = found
      BY <1>2, <2>2 DEF BehaviourInv, Gathered
    <2> QED
      BY <1>2, <2>1, <2>2 DEF BehaviourNext, bvars, NextLog, ParseStap, EndOfLog, BehaviourRun, GoOver
  <1>3. BehaviourInv => SummaryAgrees
    BY DEF BehaviourInv, Gathered, SummaryAgrees
  <1> QED
    BY <1>1, <1>2, <1>3, PTL DEF BehaviourSpec

-----------------------------------------------------------------------------
(* A pass over a log *)

ParserShape(ps) == DOMAIN ps = {"known", "pid", "wide", "buffer", "dead"}
EventShape(e) ==
    \/ e.type = "process" /\ DOMAIN e = {"type", "pid", "ppid"}
    \/ e.type = "apicall" /\ DOMAIN e = {"type", "pid", "api", "key", "val", "ok", "status", "wide", "buffer"}

(* A turn: nothing, or one event, is yielded; a call gives one when it fits what was said of
   its API, and what was said is not forgotten. *)
LEMMA Turn ==
  ASSUME NEW ps, ParserShape(ps), NEW m \in Messages
  PROVE  LET r == Read(ps, m) IN
         /\ ParserShape(r.ps)
         /\ DOMAIN ps.known \subseteq DOMAIN r.ps.known
         /\ DOMAIN r.ps.known \subseteq DOMAIN ps.known \union {m.api : x \in {y \in {m} : y.type = "info"}}
         /\ ~ ps.dead /\ m.type = "info" => m.api \in DOMAIN r.ps.known
         /\ r.ps.dead => ps.dead \/ m.type = "cut"
         /\ ~ ps.dead /\ m.type = "cut" => r.ps.dead
         /\ \/ r.out = << >>
            \/ r.out = <<ProcessEvent(m)>> /\ ~ ps.dead /\ m.type = "process"
            \/ r.out = <<CallEvent(ps, m)>> /\ ~ ps.dead /\ m.type = "call" /\ Understood(ps, m)
         /\ ~ ps.dead /\ m.type = "call" /\ Understood(ps, m) => r.out = <<CallEvent(ps, m)>>
         /\ r.ps.pid = ps.pid \/ (~ ps.dead /\ m.type = "process" /\ r.ps.pid = m.pid)
         /\ ~ ps.dead /\ m.type = "process" => r.out = <<ProcessEvent(m)>>
  <1> DEFINE r == Read(ps, m)
  <1>1. m.type \in MessageTypes
    BY BehaviourAssumption
  <1>2. CASE ps.dead
    BY <1>2 DEF Read
  <1>3. CASE ~ ps.dead /\ m.type = "cut"
    <2>1. r = [ps |-> [ps EXCEPT !.dead = TRUE], out |-> << >>]
      BY <1>3 DEF Read
    <2> HIDE DEF r
    <2> QED
      BY <1>3, <2>1 DEF ParserShape, r
  <1>4. CASE ~ ps.dead /\ m.type = "info"
    <2>1. r = [ps |-> [ps EXCEPT !.known = Put(ps.known, m.api, ps.wide)], out |-> << >>]
      BY <1>4 DEF Read, Explain
    <2>2. DOMAIN Put(ps.known, m.api, ps.wide) = DOMAIN ps.known \union {m.api}
      BY DEF Put
    <2> HIDE DEF r
    <2>3. r.ps.known = Put(ps.known, m.api, ps.wide) /\ r.ps.dead = ps.dead /\ r.ps.pid = ps.pid /\ r.out = << >> /\ ParserShape(r.ps)
      BY <2>1 DEF ParserShape
    <2> QED
      BY <1>4, <2>2, <2>3 DEF r
  <1>5. CASE ~ ps.dead /\ m.type = "buffer"
    <2>1. r = [ps |-> [ps EXCEPT !.buffer = m.val], out |-> << >>]
      BY <1>5 DEF Read, Remember
    <2> HIDE DEF r
    <2> QED
      BY <1>5, <2>1 DEF ParserShape, r
  <1>6. CASE ~ ps.dead /\ m.type = "process"
    <2> DEFINE w == ps.wide \/ m.wide
    <2>1. r = [ps |-> [ps EXCEPT !.pid = m.pid, !.wide = w], out |-> <<ProcessEvent(m)>>]
      BY <1>6 DEF Read, NewProcess
    <2> HIDE DEF r, w
    <2>2. r.ps.known = ps.known /\ r.ps.dead = ps.dead /\ r.ps.pid = m.pid
      BY <2>1 DEF ParserShape
    <2>3. ParserShape(r.ps) /\ r.out = <<ProcessEvent(m)>>
      BY <2>1 DEF ParserShape
    <2> QED
      BY <1>6, <2>2, <2>3 DEF r
  <1>7. CASE ~ ps.dead /\ m.type = "call"
    <2>1. CASE Understood(ps, m)
      <3>1. r = [ps |-> [ps EXCEPT !.buffer = None], out |-> <<CallEvent(ps, m)>>]
        BY <1>7, <2>1 DEF Read
      <3> HIDE DEF r
      <3> QED
        BY <1>7, <2>1, <3>1 DEF ParserShape, r
    <2>2. CASE ~ Understood(ps, m)
      <3>1. r = [ps |-> ps, out |-> << >>]
        BY <1>7, <2>2 DEF Read
      <3> HIDE DEF r
      <3> QED
        BY <1>7, <2>2, <3>1 DEF r
    <2> QED
      BY <2>1, <2>2
  <1> QED
    BY <1>1, <1>2, <1>3, <1>4, <1>5, <1>6, <1>7 DEF MessageTypes

LEMMA EventShapes ==
  ASSUME NEW ps, NEW m
  PROVE  /\ EventShape(ProcessEvent(m)) /\ ProcessEvent(m).type = "process"
         /\ EventShape(CallEvent(ps, m)) /\ CallEvent(ps, m).type = "apicall" /\ CallEvent(ps, m).api = m.api
         /\ CallEvent(ps, m).pid = ps.pid /\ ProcessEvent(m).pid = m.pid
  BY DEF EventShape, ProcessEvent, CallEvent

(* The turns of a pass. *)
Turned(s, m) == [ps |-> Read(s.ps, m).ps, out |-> s.out \o Read(s.ps, m).out]
Turns(f, k, ps, log) ==
    /\ DOMAIN f = 0..k /\ f[0] = [ps |-> Reopened(ps), out |-> << >>] /\ f = [n \in 0..k |-> f[n]]
    /\ \A n \in 1..k : f[n] = Turned(f[n - 1], log[n])

LEMMA PassTurns ==
  ASSUME NEW ps, NEW log, IsSeq(log)
  PROVE  \E f : Turns(f, Len(log), ps, log) /\ Pass(ps, log) = f[Len(log)]
  <1> DEFINE N == Len(log)
             T == {k \in 0..N : \E f : Turns(f, k, ps, log)}
             first == [ps |-> Reopened(ps), out |-> << >>]
             Unfolds(f) == f = [n \in 0..N |-> IF n = 0 THEN first ELSE Turned(f[n - 1], log[n])]
             go == CHOOSE f : Unfolds(f)
  <1>0. N \in Nat
    BY DEF IsSeq
  <1>1. Pass(ps, log) = go[N]
    BY DEF Pass, Turned
  <1> HIDE DEF N, first
  <1>2. 0 \in T
    <2> DEFINE f == [n \in 0..0 |-> first]
    <2>1. Turns(f, 0, ps, log)
      BY DEF Turns, first
    <2>2. 0 \in 0..N
      BY <1>0
    <2> HIDE DEF f
    <2> QED
      BY <2>1, <2>2
  <1>3. ASSUME NEW k \in 1..N, k - 1 \in T
        PROVE  k \in T
    <2>1. PICK f : Turns(f, k - 1, ps, log)
      BY <1>3
    <2> DEFINE g == [n \in 0..k |-> IF n = k THEN Turned(f[k - 1], log[k]) ELSE f[n]]
    <2>2. DOMAIN g = 0..k /\ g[0] = f[0] /\ g = [n \in 0..k |-> g[n]]
      BY <1>0
    <2>3. ASSUME NEW n \in 1..k
          PROVE  g[n] = Turned(g[n - 1], log[n])
      <3>1. CASE n = k
        <4>1. g[n] = Turned(f[k - 1], log[k]) /\ g[n - 1] = f[k - 1]
          BY <1>0, <3>1
        <4> QED
          BY <3>1, <4>1, Zenon
      <3>2. CASE n # k
        <4>1. n \in 1..k - 1 /\ g[n] = f[n] /\ g[n - 1] = f[n - 1]
          BY <1>0, <3>2
        <4>2. f[n] = Turned(f[n - 1], log[n])
          BY <2>1, <4>1 DEF Turns
        <4> QED
          BY <4>1, <4>2, Zenon
      <3> QED
        BY <3>1, <3>2
    <2> HIDE DEF g
    <2>4. Turns(g, k, ps, log)
      BY <2>1, <2>2, <2>3 DEF Turns
    <2>5. k \in 0..N
      BY <1>0
    <2> QED
      BY <2>4, <2>5
  <1> HIDE DEF T
  <1>4. N \in T
    <2>1. 0..N \subseteq T
      BY <1>0, <1>2, <1>3, Induction
    <2> QED
      BY <1>0, <2>1
  <1>5. PICK f : Turns(f, N, ps, log)
    BY <1>4 DEF T
  <1>6. Unfolds(f)
    <2>1. \A n \in 0..N : f[n] = IF n = 0 THEN first ELSE Turned(f[n - 1], log[n])
      <3>1. \A n \in 0..N : n # 0 => n \in 1..N
        BY <1>0
      <3> QED
        BY <1>5, <3>1 DEF Turns, first
    <2>2. f = [n \in 0..N |-> f[n]]
      BY <1>5 DEF Turns
    <2> QED
      BY <2>1, <2>2
  <1>7. Unfolds(go)
    BY <1>6
  <1> HIDE DEF go
  <1>8. \A n \in 0..N : go[n] = IF n = 0 THEN first ELSE Turned(go[n - 1], log[n])
    BY <1>7
  <1>9. Turns(go, N, ps, log)
    <2>1. DOMAIN go = 0..N /\ go = [n \in 0..N |-> go[n]]
      BY <1>7
    <2>2. go[0] = first /\ 0 \in 0..N
      BY <1>0, <1>8
    <2>3. \A n \in 1..N : n \in 0..N /\ n # 0
      BY <1>0
    <2> QED
      BY <1>8, <2>1, <2>2, <2>3 DEF Turns, first
  <1> QED
    BY <1>1, <1>9 DEF N

(* The calls of an API that the first pass over a log has counted. *)
Says(log, api) ==
    {n \in DOMAIN log : /\ log[n].type = "call" /\ log[n].api = api /\ log[n].fits
                        /\ \E j \in 1..n - 1 : log[j].type = "info" /\ log[j].api = api}
CutLast(log) == \A n \in DOMAIN log : log[n].type = "cut" => n = Len(log)
IsCall(out, api) == {i \in DOMAIN out : out[i].type = "apicall" /\ out[i].api = api}

(* Every pass, with whatever the parser has learnt before, yields all of these calls. *)
LEMMA PassYields ==
  ASSUME NEW ps, ParserShape(ps), NEW log \in Seq(Messages), CutLast(log), NEW api
  PROVE  /\ ParserShape(Pass(ps, log).ps) /\ IsSeq(Pass(ps, log).out)
         /\ \A i \in DOMAIN Pass(ps, log).out : EventShape(Pass(ps, log).out[i])
         /\ Embeds(Says(log, api), IsCall(Pass(ps, log).out, api))
  <1> DEFINE N == Len(log)
             In(n) == Says(log, api) \cap 1..n
             Into(n, s, f) == /\ f \in [In(n) -> IsCall(s.out, api)]
                              /\ \A x, y \in In(n) : f[x] = f[y] => x = y
             Good(n, s) ==
                 /\ ParserShape(s.ps) /\ IsSeq(s.out)
                 /\ \A i \in DOMAIN s.out : EventShape(s.out[i])
                 /\ \A j \in 1..n : log[j].type = "info" => log[j].api \in DOMAIN s.ps.known
                 /\ s.ps.dead => n = N
                 /\ \E f : Into(n, s, f)
  <1>0. IsSeq(log) /\ N \in Nat /\ DOMAIN log = 1..N /\ \A n \in 1..N : log[n] \in Messages
    BY SeqOfRange DEF IsSeq, ToSet
  <1>1. PICK go : Turns(go, N, ps, log) /\ Pass(ps, log) = go[N]
    BY <1>0, PassTurns
  <1>2. go[0] = [ps |-> Reopened(ps), out |-> << >>] /\ \A n \in 1..N : go[n] = Turned(go[n - 1], log[n])
    BY <1>1 DEF Turns
  <1>3. \A n \in 1..N : log[n].type = "cut" => n = N
    BY <1>0 DEF CutLast
  <1> HIDE DEF N
  <1> DEFINE T == {n \in 0..N : Good(n, go[n])}
  <1>4. 0 \in T
    <2>1. go[0].ps = Reopened(ps) /\ go[0].out = << >>
      BY <1>2
    <2>2. ParserShape(Reopened(ps)) /\ Reopened(ps).dead = FALSE
      BY DEF ParserShape, Reopened
    <2>3. IsSeq(<< >>) /\ DOMAIN << >> = {}
      BY DEF IsSeq
    <2>4. In(0) = {}
      OBVIOUS
    <2> DEFINE f == [x \in In(0) |-> x]
    <2>5. Into(0, go[0], f)
      BY <2>4
    <2>6. 0 \in 0..N /\ 1..0 = {}
      BY <1>0
    <2> HIDE DEF f, Into
    <2>7. Good(0, go[0])
      BY <2>1, <2>2, <2>3, <2>5, <2>6
    <2> HIDE DEF Good
    <2> QED
      BY <2>6, <2>7
  <1>5. ASSUME NEW n \in 1..N, n - 1 \in T
        PROVE  n \in T
    <2> DEFINE s == go[n - 1]  t == go[n]  m == log[n]  r == Read(s.ps, m)
    <2>0. n \in 0..N /\ n - 1 \in 0..N /\ m \in Messages /\ n - 1 # N /\ n \in Nat
      BY <1>0
    <2>1. Good(n - 1, s)
      BY <1>5
    <2>2. t = [ps |-> r.ps, out |-> s.out \o r.out]
      BY <1>2 DEF Turned
    <2>3. PICK f : Into(n - 1, s, f)
      BY <2>1
    <2> HIDE DEF Into
    <2>4. /\ ParserShape(s.ps) /\ IsSeq(s.out) /\ \A i \in DOMAIN s.out : EventShape(s.out[i])
          /\ \A j \in 1..n - 1 : log[j].type = "info" => log[j].api \in DOMAIN s.ps.known
          /\ ~ s.ps.dead
      BY <2>0, <2>1
    <2>5. /\ ParserShape(r.ps) /\ DOMAIN s.ps.known \subseteq DOMAIN r.ps.known
          /\ m.type = "info" => m.api \in DOMAIN r.ps.known
          /\ r.ps.dead => m.type = "cut"
          /\ \/ r.out = << >>
             \/ r.out = <<ProcessEvent(m)>>
             \/ r.out = <<CallEvent(s.ps, m)>>
          /\ m.type = "call" /\ Understood(s.ps, m) => r.out = <<CallEvent(s.ps, m)>>
      BY <2>0, <2>4, Turn
    <2>6. PICK e : /\ r.out = << >> \/ (r.out = <<e>> /\ EventShape(e))
                   /\ m.type = "call" /\ Understood(s.ps, m) =>
                          r.out = <<e>> /\ e.type = "apicall" /\ e.api = m.api
      <3>1. CASE r.out = <<CallEvent(s.ps, m)>>
        BY <3>1, EventShapes
      <3>2. CASE r.out = <<ProcessEvent(m)>> /\ ~ (m.type = "call" /\ Understood(s.ps, m))
        BY <3>2, EventShapes
      <3>3. CASE r.out = << >> /\ ~ (m.type = "call" /\ Understood(s.ps, m))
        BY <3>3
      <3> QED
        BY <2>5, <3>1, <3>2, <3>3
    <2> HIDE DEF s, t, r, Good
    <2>7. t.ps = r.ps /\ (t.out = s.out \/ (t.out = Append(s.out, e) /\ EventShape(e)))
          /\ (r.out = <<e>> => t.out = Append(s.out, e))
      <3>1. s.out \o << >> = s.out /\ s.out \o <<e>> = Append(s.out, e)
        BY <2>4, IsSeqAppend
      <3>2. t.ps = r.ps /\ t.out = s.out \o r.out
        BY <2>2
      <3>3. r.out = <<e>> => t.out = Append(s.out, e)
        BY <3>1, <3>2, Zenon
      <3>4. r.out = << >> => t.out = s.out
        BY <3>1, <3>2, Zenon
      <3>5. t.out = s.out \/ (t.out = Append(s.out, e) /\ EventShape(e))
        BY <2>6, <3>3, <3>4, Zenon
      <3> QED
        BY <3>2, <3>3, <3>5, Zenon
    <2>8. /\ IsSeq(Append(s.out, e)) /\ DOMAIN s.out = 1..Len(s.out) /\ Len(s.out) \in Nat
          /\ DOMAIN Append(s.out, e) = 1..Len(s.out) + 1
          /\ \A i \in 1..Len(s.out) : Append(s.out, e)[i] = s.out[i]
          /\ Append(s.out, e)[Len(s.out) + 1] = e
      BY <2>4, IsSeqAppend
    <2>9. IsSeq(t.out) /\ \A i \in DOMAIN t.out : EventShape(t.out[i])
      <3>1. CASE t.out = s.out
        BY <2>4, <3>1
      <3>2. CASE t.out = Append(s.out, e) /\ EventShape(e)
        BY <2>4, <2>8, <3>2
      <3> QED
        BY <2>7, <3>1, <3>2
    <2>10. IsCall(s.out, api) \subseteq IsCall(t.out, api) /\ IsCall(s.out, api) \subseteq 1..Len(s.out)
      <3>1. CASE t.out = s.out
        BY <2>8, <3>1 DEF IsCall
      <3>2. CASE t.out = Append(s.out, e)
        BY <2>8, <3>2 DEF IsCall
      <3> QED
        BY <2>7, <3>1, <3>2
    <2>11. n \in Says(log, api) => r.out = <<e>> /\ Len(s.out) + 1 \in IsCall(t.out, api)
      <3> SUFFICES ASSUME n \in Says(log, api) PROVE r.out = <<e>> /\ Len(s.out) + 1 \in IsCall(t.out, api)
        OBVIOUS
      <3>1. m.type = "call" /\ m.api = api /\ Understood(s.ps, m)
        BY <2>4 DEF Says, Understood
      <3>2. r.out = <<e>> /\ e.type = "apicall" /\ e.api = api
        BY <2>6, <3>1
      <3>3. t.out = Append(s.out, e)
        BY <2>7, <3>2
      <3> QED
        BY <2>8, <3>2, <3>3 DEF IsCall
    <2>12. In(n) = In(n - 1) \union (IF n \in Says(log, api) THEN {n} ELSE {}) /\ n \notin In(n - 1)
      BY <2>0
    <2> HIDE DEF In, m
    <2> DEFINE g == [x \in In(n) |-> IF x = n THEN Len(s.out) + 1 ELSE f[x]]
    <2>13. \A x \in In(n - 1) : f[x] \in IsCall(s.out, api)
      BY <2>3 DEF Into
    <2>14. \A x \in In(n) : (x = n => n \in Says(log, api)) /\ (x # n => x \in In(n - 1))
      BY <2>12
    <2>15. g \in [In(n) -> IsCall(t.out, api)]
      BY <2>10, <2>11, <2>13, <2>14
    <2>16. ASSUME NEW x \in In(n), NEW y \in In(n), g[x] = g[y] PROVE x = y
      <3>1. CASE x # n /\ y # n
        BY <2>3, <2>14, <2>16, <3>1 DEF Into
      <3>2. CASE x = n /\ y # n
        <4>1. f[y] \in 1..Len(s.out) /\ f[y] = Len(s.out) + 1
          BY <2>10, <2>13, <2>14, <2>16, <3>2
        <4> QED
          BY <2>8, <4>1
      <3>3. CASE x # n /\ y = n
        <4>1. f[x] \in 1..Len(s.out) /\ f[x] = Len(s.out) + 1
          BY <2>10, <2>13, <2>14, <2>16, <3>3
        <4> QED
          BY <2>8, <4>1
      <3> QED
        BY <3>1, <3>2, <3>3
    <2> HIDE DEF g
    <2>17. Into(n, t, g)
      BY <2>15, <2>16 DEF Into
    <2>18. \A j \in 1..n : log[j].type = "info" => log[j].api \in DOMAIN t.ps.known
      <3> SUFFICES ASSUME NEW j \in 1..n, log[j].type = "info" PROVE log[j].api \in DOMAIN t.ps.known
        OBVIOUS
      <3>1. CASE j = n
        BY <2>5, <2>7, <3>1 DEF m
      <3>2. CASE j # n
        <4>1. j \in 1..n - 1
          BY <2>0, <3>2
        <4> QED
          BY <2>4, <2>5, <2>7, <4>1
      <3> QED
        BY <3>1, <3>2
    <2>19. t.ps.dead => n = N
      BY <1>3, <2>5, <2>7 DEF m
    <2>20. Good(n, t)
      BY <2>5, <2>7, <2>9, <2>17, <2>18, <2>19 DEF Good
    <2> QED
      BY <2>0, <2>20 DEF t
  <1> HIDE DEF T, Good
  <1>6. N \in T
    <2>1. 0..N \subseteq T
      BY <1>0, <1>4, <1>5, Induction
    <2> QED
      BY <1>0, <2>1
  <1>7. Good(N, go[N])
    BY <1>6 DEF T
  <1>8. In(N) = Says(log, api)
    BY <1>0 DEF Says
  <1> QED
    BY <1>1, <1>7, <1>8 DEF Good, Embeds

(* What is shown of a pass has its calls of every API that is not left out. *)
OfApi(view, api) == {n \in DOMAIN view : view[n].api = api}
LEMMA ShownCalls ==
  ASSUME NEW out, IsSeq(out), \A i \in DOMAIN out : EventShape(out[i]), NEW api, api \notin Silent
  PROVE  Embeds(IsCall(out, api), OfApi(Shown(out), api)) /\ IsFiniteSet(DOMAIN Shown(out))
  <1> DEFINE K == {e \in ToSet(out) : e.type = "apicall"}
             S == {e \in K : e.api = api}
             heard == Those(out, K)
             places == [n \in DOMAIN heard |-> n]
             Loud == {n \in DOMAIN heard : ~ LeftOut(heard[n])}
             these == {n \in DOMAIN heard : heard[n] \in S}
             kept == Those(places, Loud)
  <1>1. IsCall(out, api) = {i \in DOMAIN out : out[i] \in S}
    BY DEF IsCall, ToSet
  <1>2. Embeds(IsCall(out, api), these)
    <2>1. S \subseteq K
      OBVIOUS
    <2> HIDE DEF K, S
    <2>2. Embeds({i \in DOMAIN out : out[i] \in S}, {i \in DOMAIN Those(out, K) : Those(out, K)[i] \in S})
      BY <2>1, EmbedsThose
    <2> QED
      BY <1>1, <2>2, Zenon
  <1>3. heard \in Seq(K)
    BY ThoseOf
  <1>4. \A e \in K : e.type = "apicall" /\ EventShape(e)
    BY DEF ToSet
  <1> HIDE DEF K, heard
  <1>5. DOMAIN heard = 1..Len(heard) /\ Len(heard) \in Nat /\ \A n \in DOMAIN heard : heard[n] \in K
    BY <1>3
  <1>6. \A n \in DOMAIN heard : heard[n].type = "apicall" /\ EventShape(heard[n])
    BY <1>4, <1>5
  <1>7. places \in Seq(1..Len(heard)) /\ DOMAIN places = DOMAIN heard
    BY <1>5
  <1>8. IsSeq(places)
    BY <1>7, SeqOfRange DEF IsSeq, ToSet
  <1>9. these \subseteq Loud
    BY DEF LeftOut
  <1>10. these = {i \in DOMAIN places : places[i] \in these}
    OBVIOUS
  <1> HIDE DEF places, these, Loud, kept
  <1>11. Embeds(these, {i \in DOMAIN kept : kept[i] \in these})
    <2>1. Embeds({i \in DOMAIN places : places[i] \in these}, {i \in DOMAIN Those(places, Loud) : Those(places, Loud)[i] \in these})
      BY <1>8, <1>9, EmbedsThose
    <2> QED
      BY <1>10, <2>1, Zenon DEF kept
  <1>12. kept \in Seq(Loud)
    BY <1>8, ThoseOf DEF kept
  <1> HIDE DEF kept, Loud
  <1>13. DOMAIN kept = 1..Len(kept) /\ Len(kept) \in Nat /\ \A i \in DOMAIN kept : kept[i] \in Loud
    BY <1>12
  <1>14. DOMAIN Shown(out) = DOMAIN kept
    BY DEF Shown, kept, Loud, places, heard, K
  <1>15. ASSUME NEW i \in DOMAIN kept
         PROVE  Shown(out)[i].api = heard[kept[i]].api
    <2>1. \E v : Shown(out)[i] = [heard[kept[i]] EXCEPT !.val = v] \/ Shown(out)[i] = heard[kept[i]]
      BY DEF Shown, kept, Loud, places, heard, K
    <2>2. kept[i] \in DOMAIN heard
      BY <1>13 DEF Loud
    <2>3. "api" \in DOMAIN heard[kept[i]]
      BY <1>6, <2>2 DEF EventShape
    <2> QED
      BY <2>1, <2>3
  <1>16. {i \in DOMAIN kept : kept[i] \in these} \subseteq OfApi(Shown(out), api)
    BY <1>14, <1>15 DEF OfApi, these
  <1>17. Embeds(these, OfApi(Shown(out), api))
    BY <1>11, <1>16, EmbedsPart, EmbedsThrough
  <1>18. IsFiniteSet(DOMAIN Shown(out))
    BY <1>13, <1>14, FS_Interval
  <1> QED
    BY <1>2, <1>17, <1>18, EmbedsThrough

-----------------------------------------------------------------------------
(* What has been counted *)

LogsIn(ps, pid) == {ps[i].log : i \in {j \in DOMAIN ps : ps[j].pid = pid}}
Counted(ls, ps, k) == Labelled([l \in LogsIn(ps, k[1]) |-> Says(ls[l], k[2])])

LEMMA CountedFinite ==
  ASSUME NEW ls \in [DOMAIN Files -> Seq(Messages)], NEW ps, NEW k,
         \A i \in DOMAIN ps : ps[i].log \in DOMAIN Files
  PROVE  IsFiniteSet(Counted(ls, ps, k))
  <1> DEFINE A == [l \in LogsIn(ps, k[1]) |-> Says(ls[l], k[2])]
  <1>1. LogsIn(ps, k[1]) \subseteq DOMAIN Files
    BY DEF LogsIn
  <1>2. IsFiniteSet(DOMAIN A)
    BY <1>1, BehaviourAssumption, FS_Subset
  <1>3. ASSUME NEW l \in DOMAIN A PROVE IsFiniteSet(A[l])
    <2>1. ls[l] \in Seq(Messages)
      BY <1>1
    <2>2. DOMAIN ls[l] = 1..Len(ls[l]) /\ Len(ls[l]) \in Nat
      BY <2>1
    <2>3. A[l] \subseteq 1..Len(ls[l]) /\ 1 \in Int /\ Len(ls[l]) \in Int
      BY <2>2 DEF Says
    <2>4. IsFiniteSet(1..Len(ls[l]))
      BY <2>3, FS_Interval
    <2> QED
      BY <2>3, <2>4, FS_Subset
  <1> HIDE DEF A
  <1> QED
    BY <1>2, <1>3, LabelledFinite DEF A, Counted

LEMMA SaysGrow ==
  ASSUME NEW log \in Seq(Messages), NEW m \in Messages
  PROVE  /\ Append(log, m) \in Seq(Messages)
         /\ \A api : Says(log, api) \subseteq Says(Append(log, m), api)
         /\ \A api : Says(log, api) \subseteq 1..Len(log)
         /\ (\E j \in DOMAIN log : log[j].type = "info" /\ log[j].api = m.api) /\ m.type = "call" /\ m.fits
               => Len(log) + 1 \in Says(Append(log, m), m.api)
         /\ CutLast(log) /\ (\A n \in DOMAIN log : log[n].type # "cut") => CutLast(Append(log, m))
         /\ Len(log) + 1 \notin 1..Len(log)
  <1> DEFINE more == Append(log, m)  N == Len(log)
  <1>1. /\ more \in Seq(Messages) /\ DOMAIN more = 1..N + 1 /\ DOMAIN log = 1..N /\ N \in Nat /\ Len(more) = N + 1
        /\ \A n \in 1..N : more[n] = log[n]
        /\ more[N + 1] = m
    BY AppendProperties
  <1> HIDE DEF more, N
  <1>2. ASSUME NEW api, NEW n \in Says(log, api)
        PROVE  n \in Says(more, api) /\ n \in 1..N
    BY <1>1 DEF Says
  <1>3. ASSUME NEW j \in DOMAIN log, log[j].type = "info", log[j].api = m.api, m.type = "call", m.fits
        PROVE  N + 1 \in Says(more, m.api)
    <2>1. j \in 1..N + 1 - 1 /\ more[j] = log[j]
      BY <1>1
    <2> QED
      BY <1>1, <1>3, <2>1 DEF Says
  <1>4. ASSUME \A n \in DOMAIN log : log[n].type # "cut" PROVE CutLast(more)
    BY <1>1, <1>4 DEF CutLast
  <1> QED
    BY <1>1, <1>2, <1>3, <1>4 DEF more, N

(* The handlers count a call, and take note of a process. *)
LEMMA SeenProcess ==
  ASSUME NEW f, DOMAIN f = FoundFields, NEW e
  PROVE  LET g == SeeProcess(f, e) IN
         /\ DOMAIN g = FoundFields /\ g.stats = f.stats
         /\ g.processes = Append(f.processes, [pid |-> e.pid, log |-> file])
         /\ DOMAIN g.files = DOMAIN f.files \union {e.pid}
  <1> DEFINE procs == Append(f.processes, [pid |-> e.pid, log |-> file])
             files == Put(f.files, e.pid, << >>)
             a == [f EXCEPT !.processes = procs, !.files = files]
             b == GenericProcess(a, e)
             c == TreeProcess(b, e)
             Same(x, y) == DOMAIN x = FoundFields /\ x.stats = y.stats /\ x.processes = y.processes /\ x.files = y.files
  <1>1. SeeProcess(f, e) = c
    BY DEF SeeProcess
  <1>2. DOMAIN files = DOMAIN f.files \union {e.pid}
    BY DEF Put
  <1> HIDE DEF procs, files
  <1>3. DOMAIN a = FoundFields /\ a.stats = f.stats /\ a.processes = procs /\ a.files = files
    BY DEF FoundFields
  <1> HIDE DEF a
  <1>4. Same(b, a)
    <2>1. b = a \/ b = [a EXCEPT !.generic = Put(a.generic, e.pid, {})]
      BY DEF GenericProcess
    <2> HIDE DEF b
    <2> QED
      BY <1>3, <2>1 DEF FoundFields
  <1> HIDE DEF b
  <1>5. Same(c, b)
    <2>1. c = b \/ c = [b EXCEPT !.tree = Put(b.tree, e.pid, e.ppid)]
      BY DEF TreeProcess
    <2> HIDE DEF c
    <2> QED
      BY <1>4, <2>1 DEF FoundFields
  <1> HIDE DEF c
  <1> QED
    BY <1>1, <1>2, <1>3, <1>4, <1>5 DEF procs

LEMMA SeenCall ==
  ASSUME NEW f, DOMAIN f = FoundFields, NEW e
  PROVE  LET g == SeeCall(f, e)  k == <<e.pid, e.api>> IN
         /\ DOMAIN g = FoundFields /\ g.processes = f.processes /\ DOMAIN g.files = DOMAIN f.files
         /\ g.stats = Put(f.stats, k, IF k \in DOMAIN f.stats THEN f.stats[k] + 1 ELSE 1)
  <1> DEFINE k == <<e.pid, e.api>>
             gs == ToSet(Generic(f.files[e.pid], e))
             a == GenericEvents(f, e.pid, gs)
             b == SummaryEvents(a, gs)
             files == [b.files EXCEPT ![e.pid] = Handles(b.files[e.pid], e)]
             c == [b EXCEPT !.files = files]
             more == Put(c.stats, k, IF k \in DOMAIN c.stats THEN c.stats[k] + 1 ELSE 1)
             Same(x, y) == DOMAIN x = FoundFields /\ x.stats = y.stats /\ x.processes = y.processes /\ x.files = y.files
  <1>1. SeeCall(f, e) = StatsCall(c, e)
    BY DEF SeeCall, Subevents
  <1> HIDE DEF gs
  <1>2. Same(a, f)
    <2>1. a = f \/ a = [f EXCEPT !.generic = [f.generic EXCEPT ![e.pid] = f.generic[e.pid] \union gs]]
      BY DEF GenericEvents
    <2> HIDE DEF a
    <2> QED
      BY <2>1 DEF FoundFields
  <1> HIDE DEF a
  <1>3. Same(b, a)
    <2>1. b = [a EXCEPT !.summary = a.summary \union gs]
      BY DEF SummaryEvents
    <2> HIDE DEF b
    <2> QED
      BY <1>2, <2>1 DEF FoundFields
  <1> HIDE DEF b
  <1>4. DOMAIN files = DOMAIN b.files
    OBVIOUS
  <1> HIDE DEF files
  <1>5. DOMAIN c = FoundFields /\ c.stats = b.stats /\ c.processes = b.processes /\ c.files = files
    BY <1>3 DEF FoundFields
  <1> HIDE DEF c
  <1>6. StatsCall(c, e) = [c EXCEPT !.stats = more]
    BY DEF StatsCall
  <1> HIDE DEF more
  <1>7. /\ DOMAIN StatsCall(c, e) = FoundFields /\ StatsCall(c, e).stats = more
        /\ StatsCall(c, e).processes = c.processes /\ StatsCall(c, e).files = c.files
    BY <1>5, <1>6 DEF FoundFields
  <1>8. c.stats = f.stats
    BY <1>2, <1>3, <1>5
  <1>9. more = Put(f.stats, k, IF k \in DOMAIN f.stats THEN f.stats[k] + 1 ELSE 1)
    BY <1>8, Zenon DEF more
  <1> HIDE DEF k
  <1> QED
    BY <1>1, <1>2, <1>3, <1>4, <1>5, <1>7, <1>9 DEF k

-----------------------------------------------------------------------------
(* The invariant *)

Said(log, api) == \E j \in DOMAIN log : log[j].type = "info" /\ log[j].api = api
(* What a parser has learnt is in its log, and its process was seen. *)
Learnt(l, log, ps, procs) ==
    /\ \A a \in DOMAIN ps.known : Said(log, a)
    /\ ps.pid = 0 \/ l \in LogsIn(procs, ps.pid)
    /\ ps.dead \/ (\A n \in DOMAIN log : log[n].type # "cut")
FromLog(view, log) == \E ps : ParserShape(ps) /\ view = Shown(Pass(ps, log).out)

CallsLogs ==
    /\ logs \in [DOMAIN Files -> Seq(Messages)]
    /\ \A l \in DOMAIN Files : CutLast(logs[l])
    /\ bstage = "parse" => file \in DOMAIN Files
CallsParsers ==
    /\ DOMAIN parsers = DOMAIN Files
    /\ \A l \in DOMAIN Files : ParserShape(parsers[l])
    /\ bstage # "results" => \A l \in DOMAIN Files : Learnt(l, logs[l], parsers[l], found.processes)
CallsFound ==
    /\ DOMAIN found = FoundFields /\ IsSeq(found.processes) /\ 0 \notin DOMAIN found.files
    /\ \A i \in DOMAIN found.processes : found.processes[i].log \in DOMAIN Files
    /\ \A k \in DOMAIN found.stats :
           found.stats[k] \in Nat /\ found.stats[k] <= Cardinality(Counted(logs, found.processes, k))
CallsViews ==
    bstage = "results" =>
        /\ DOMAIN views = DOMAIN found.processes
        /\ \A i \in DOMAIN views : IsSeq(views[i]) /\ \A j \in DOMAIN views[i] :
               FromLog(views[i][j], logs[found.processes[i].log])
CallsInv == CallsLogs /\ CallsParsers /\ CallsFound /\ CallsViews

LEMMA CallsFirst ==
  BehaviourInit => CallsInv
  <1> SUFFICES ASSUME BehaviourInit PROVE CallsInv
    OBVIOUS
  <1>1. << >> \in Seq(Messages) /\ DOMAIN << >> = {} /\ IsSeq(<< >>)
    BY DEF IsSeq
  <1>2. CallsLogs
    BY <1>1 DEF BehaviourInit, CallsLogs, CutLast
  <1>3. CallsParsers
    <2>1. DOMAIN NewParser.known = {} /\ NewParser.pid = 0 /\ ParserShape(NewParser)
      BY <1>1 DEF NewParser, ParserShape
    <2> HIDE DEF NewParser
    <2> QED
      BY <1>1, <2>1 DEF BehaviourInit, CallsParsers, Learnt
  <1>4. CallsFound
    BY <1>1 DEF BehaviourInit, CallsFound, FoundFields
  <1>5. CallsViews
    BY DEF BehaviourInit, CallsViews
  <1> QED
    BY <1>2, <1>3, <1>4, <1>5 DEF CallsInv

(* The calls that are counted grow with the log and with the processes. *)
LEMMA CountedGrow ==
  ASSUME NEW ls \in [DOMAIN Files -> Seq(Messages)], NEW l \in DOMAIN Files, NEW m \in Messages,
         NEW ps, NEW qs, \A i \in DOMAIN ps : ps[i].log \in DOMAIN Files,
         \A i \in DOMAIN qs : qs[i].log \in DOMAIN Files, NEW k,
         LogsIn(ps, k[1]) \subseteq LogsIn(qs, k[1])
  PROVE  LET more == [ls EXCEPT ![l] = Append(ls[l], m)] IN
         /\ Counted(ls, ps, k) \subseteq Counted(more, qs, k)
         /\ IsFiniteSet(Counted(ls, ps, k)) /\ IsFiniteSet(Counted(more, qs, k))
         /\ l \in LogsIn(qs, k[1]) /\ Said(ls[l], k[2]) /\ m.type = "call" /\ m.fits /\ m.api = k[2]
               => /\ <<l, Len(ls[l]) + 1>> \in Counted(more, qs, k)
                  /\ <<l, Len(ls[l]) + 1>> \notin Counted(ls, ps, k)
  <1> DEFINE more == [ls EXCEPT ![l] = Append(ls[l], m)]
             N == Len(ls[l])
  <1>1. /\ \A api : Says(ls[l], api) \subseteq Says(Append(ls[l], m), api)
        /\ Append(ls[l], m) \in Seq(Messages) /\ N + 1 \notin 1..N
        /\ \A api : Says(ls[l], api) \subseteq 1..N
        /\ Said(ls[l], m.api) /\ m.type = "call" /\ m.fits => N + 1 \in Says(Append(ls[l], m), m.api)
    <2>1. ls[l] \in Seq(Messages)
      OBVIOUS
    <2> QED
      BY <2>1, SaysGrow DEF Said
  <1>2. more \in [DOMAIN Files -> Seq(Messages)]
    BY <1>1
  <1>3. more[l] = Append(ls[l], m) /\ \A x \in DOMAIN Files : x # l => more[x] = ls[x]
    OBVIOUS
  <1> HIDE DEF more, N
  <1>4. \A x \in LogsIn(ps, k[1]) : x \in DOMAIN Files
    BY DEF LogsIn
  <1>5. IsFiniteSet(Counted(ls, ps, k)) /\ IsFiniteSet(Counted(more, qs, k))
    BY <1>2, CountedFinite
  <1>6. \A c : c \in Counted(ls, ps, k) <=> \E x \in LogsIn(ps, k[1]) : \E n \in Says(ls[x], k[2]) : c = <<x, n>>
    BY DEF Counted, Labelled
  <1>7. \A c : c \in Counted(more, qs, k) <=> \E x \in LogsIn(qs, k[1]) : \E n \in Says(more[x], k[2]) : c = <<x, n>>
    BY DEF Counted, Labelled
  <1>8. ASSUME NEW x \in LogsIn(ps, k[1]), NEW n \in Says(ls[x], k[2])
        PROVE  <<x, n>> \in Counted(more, qs, k)
    <2>1. n \in Says(more[x], k[2])
      BY <1>1, <1>3, <1>4
    <2> QED
      BY <1>7, <2>1
  <1>9. Counted(ls, ps, k) \subseteq Counted(more, qs, k)
    BY <1>6, <1>8
  <1>10. <<l, N + 1>> \notin Counted(ls, ps, k)
    <2>1. \A n : n \in Says(ls[l], k[2]) => n \in 1..N
      BY <1>1
    <2> QED
      BY <1>1, <1>6, <2>1
  <1>11. ASSUME l \in LogsIn(qs, k[1]), Said(ls[l], k[2]), m.type = "call", m.fits, m.api = k[2]
         PROVE  <<l, N + 1>> \in Counted(more, qs, k)
    BY <1>1, <1>3, <1>7, <1>11
  <1> QED
    BY <1>5, <1>9, <1>10, <1>11 DEF more, N

LEMMA LogsInAppend ==
  ASSUME NEW procs, IsSeq(procs), NEW p, NEW l
  PROVE  LET more == Append(procs, [pid |-> p, log |-> l]) IN
         /\ IsSeq(more) /\ l \in LogsIn(more, p)
         /\ \A q : LogsIn(procs, q) \subseteq LogsIn(more, q)
         /\ (\A i \in DOMAIN procs : procs[i].log \in DOMAIN Files) /\ l \in DOMAIN Files
                => \A i \in DOMAIN more : more[i].log \in DOMAIN Files
  <1> DEFINE x == [pid |-> p, log |-> l]  more == Append(procs, x)
  <1>1. /\ IsSeq(more) /\ Len(procs) \in Nat /\ DOMAIN procs = 1..Len(procs) /\ DOMAIN more = 1..Len(procs) + 1
        /\ \A i \in 1..Len(procs) : more[i] = procs[i]
        /\ more[Len(procs) + 1] = x
    BY IsSeqAppend
  <1> HIDE DEF more
  <1>2. l \in LogsIn(more, p)
    <2>1. Len(procs) + 1 \in DOMAIN more /\ more[Len(procs) + 1].pid = p /\ more[Len(procs) + 1].log = l
      BY <1>1
    <2> QED
      BY <2>1 DEF LogsIn
  <1>3. ASSUME NEW q, NEW i \in DOMAIN procs, procs[i].pid = q PROVE procs[i].log \in LogsIn(more, q)
    <2>1. i \in DOMAIN more /\ more[i] = procs[i]
      BY <1>1
    <2> QED
      BY <1>3, <2>1 DEF LogsIn
  <1>4. \A q : LogsIn(procs, q) \subseteq LogsIn(more, q)
    BY <1>3 DEF LogsIn
  <1>5. \A i \in DOMAIN more : i \in DOMAIN procs \/ i = Len(procs) + 1
    BY <1>1
  <1> QED
    BY <1>1, <1>2, <1>4, <1>5 DEF more

(* What is learnt of a log stays so when it grows, and its processes. *)
LEMMA LearntGrow ==
  ASSUME NEW l, NEW log \in Seq(Messages), NEW m \in Messages, NEW ps, NEW procs, NEW qs,
         Learnt(l, log, ps, procs), \A q : LogsIn(procs, q) \subseteq LogsIn(qs, q)
  PROVE  /\ Learnt(l, log, ps, qs)
         /\ ~ ps.dead => CutLast(Append(log, m))
         /\ ~ ps.dead /\ m.type # "cut" => \A n \in DOMAIN Append(log, m) : Append(log, m)[n].type # "cut"
         /\ \A a \in DOMAIN ps.known : Said(Append(log, m), a)
         /\ m.type = "info" => Said(Append(log, m), m.api)
  <1> DEFINE more == Append(log, m)  N == Len(log)
  <1>1. /\ DOMAIN more = 1..N + 1 /\ DOMAIN log = 1..N /\ N \in Nat /\ Len(more) = N + 1
        /\ \A n \in 1..N : more[n] = log[n]
        /\ more[N + 1] = m
    BY AppendProperties
  <1> HIDE DEF more, N
  <1>2. Learnt(l, log, ps, qs)
    BY DEF Learnt
  <1>3. ASSUME ~ ps.dead PROVE CutLast(more)
    <2>1. \A n \in 1..N : more[n].type # "cut"
      BY <1>1, <1>3 DEF Learnt
    <2> QED
      BY <1>1, <2>1 DEF CutLast
  <1>4. ASSUME ~ ps.dead, m.type # "cut" PROVE \A n \in DOMAIN more : more[n].type # "cut"
    <2>1. \A n \in 1..N : more[n].type # "cut"
      BY <1>1, <1>4 DEF Learnt
    <2> QED
      BY <1>1, <1>4, <2>1
  <1>5. ASSUME NEW a \in DOMAIN ps.known PROVE Said(more, a)
    <2>1. PICK j \in DOMAIN log : log[j].type = "info" /\ log[j].api = a
      BY DEF Learnt, Said
    <2>2. j \in DOMAIN more /\ more[j] = log[j]
      BY <1>1
    <2> QED
      BY <2>1, <2>2 DEF Said
  <1>6. ASSUME m.type = "info" PROVE Said(more, m.api)
    <2>1. N + 1 \in DOMAIN more
      BY <1>1
    <2> QED
      BY <1>1, <1>6, <2>1 DEF Said
  <1> QED
    BY <1>2, <1>3, <1>4, <1>5, <1>6 DEF more

(* What a message does to what was found. *)
Grown(f, g, l, m, ps, t) ==
    /\ DOMAIN g = FoundFields /\ IsSeq(g.processes) /\ 0 \notin DOMAIN g.files
    /\ \A i \in DOMAIN g.processes : g.processes[i].log \in DOMAIN Files
    /\ \A q : LogsIn(f.processes, q) \subseteq LogsIn(g.processes, q)
    /\ t.pid = 0 \/ l \in LogsIn(g.processes, t.pid)
    /\ \/ g.stats = f.stats
       \/ LET k == <<ps.pid, m.api>> IN
          /\ g.stats = Put(f.stats, k, IF k \in DOMAIN f.stats THEN f.stats[k] + 1 ELSE 1)
          /\ m.type = "call" /\ m.fits /\ m.api \in DOMAIN ps.known /\ l \in LogsIn(g.processes, ps.pid)

LEMMA FoundGrow ==
  ASSUME CallsInv, NEW m \in Messages, ParseMessage(m)
  PROVE  Grown(found, found', file, m, parsers[file], Read(parsers[file], m).ps)
  <1> DEFINE ps == parsers[file]  r == Read(ps, m)
  <1>1. bstage = "parse" /\ ~ ps.dead /\ file \in DOMAIN Files
    BY DEF ParseMessage, CallsInv, CallsLogs
  <1>2. ParserShape(ps) /\ (ps.pid = 0 \/ file \in LogsIn(found.processes, ps.pid))
    BY <1>1 DEF CallsInv, CallsParsers, Learnt
  <1>3. /\ DOMAIN found = FoundFields /\ IsSeq(found.processes) /\ 0 \notin DOMAIN found.files
        /\ \A i \in DOMAIN found.processes : found.processes[i].log \in DOMAIN Files
    BY DEF CallsInv, CallsFound
  <1>4. /\ IF r.out # << >> /\ Broken(found, r.out[1]) THEN found' = found
           ELSE found' = IF r.out = << >> THEN found ELSE See(found, r.out[1])
    BY DEF ParseMessage
  <1>5. /\ \/ r.out = << >>
           \/ r.out = <<ProcessEvent(m)>> /\ m.type = "process"
           \/ r.out = <<CallEvent(ps, m)>> /\ m.type = "call" /\ Understood(ps, m)
        /\ r.ps.pid = ps.pid \/ (m.type = "process" /\ r.ps.pid = m.pid)
        /\ m.type = "process" => r.out = <<ProcessEvent(m)>>
    BY <1>1, <1>2, Turn
  <1> HIDE DEF r, ps
  <1>6. CASE found' = found /\ r.ps.pid = ps.pid
    BY <1>2, <1>3, <1>6 DEF Grown, r, ps
  <1>7. CASE r.out = <<ProcessEvent(m)>> /\ m.type = "process"
    <2> DEFINE e == ProcessEvent(m)
    <2>1. e.type = "process" /\ e.pid = m.pid /\ m.pid # 0
      BY <1>7, EventShapes, BehaviourAssumption
    <2> HIDE DEF e
    <2>2. r.out # << >> /\ r.out[1] = e
      BY <1>7 DEF e
    <2>3. found' = SeeProcess(found, e)
      BY <1>4, <2>1, <2>2 DEF Broken, See
    <2>4. /\ DOMAIN found' = FoundFields /\ found'.stats = found.stats
          /\ found'.processes = Append(found.processes, [pid |-> m.pid, log |-> file])
          /\ DOMAIN found'.files = DOMAIN found.files \union {m.pid}
      BY <1>3, <2>1, <2>3, SeenProcess
    <2>5. /\ IsSeq(found'.processes) /\ file \in LogsIn(found'.processes, m.pid)
          /\ \A q : LogsIn(found.processes, q) \subseteq LogsIn(found'.processes, q)
          /\ \A i \in DOMAIN found'.processes : found'.processes[i].log \in DOMAIN Files
      BY <1>1, <1>3, <2>4, LogsInAppend
    <2>6. r.ps.pid = 0 \/ file \in LogsIn(found'.processes, r.ps.pid)
      BY <1>2, <1>5, <2>5
    <2> QED
      BY <1>3, <2>1, <2>4, <2>5, <2>6 DEF Grown, r, ps
  <1>8. CASE r.out = <<CallEvent(ps, m)>> /\ m.type = "call" /\ Understood(ps, m) /\ found' # found
    <2> DEFINE e == CallEvent(ps, m)  k == <<ps.pid, m.api>>
    <2>1. e.type = "apicall" /\ e.pid = ps.pid /\ e.api = m.api
      BY EventShapes
    <2> HIDE DEF e
    <2>2. r.out # << >> /\ r.out[1] = e
      BY <1>8 DEF e
    <2>3. found' = SeeCall(found, e) /\ e.pid \in DOMAIN found.files
      BY <1>4, <1>8, <2>1, <2>2 DEF Broken, See
    <2>4. /\ DOMAIN found' = FoundFields /\ found'.processes = found.processes /\ DOMAIN found'.files = DOMAIN found.files
          /\ found'.stats = Put(found.stats, k, IF k \in DOMAIN found.stats THEN found.stats[k] + 1 ELSE 1)
      BY <1>3, <2>1, <2>3, SeenCall
    <2>5. file \in LogsIn(found'.processes, ps.pid)
      BY <1>2, <1>3, <2>1, <2>3, <2>4
    <2>6. r.ps.pid = ps.pid
      BY <1>5, <1>8
    <2>7. m.fits /\ m.api \in DOMAIN ps.known
      BY <1>8 DEF Understood
    <2> QED
      BY <1>3, <1>8, <2>4, <2>5, <2>6, <2>7 DEF Grown, r, ps
  <1> QED
    BY <1>4, <1>5, <1>6, <1>7, <1>8

(* A message that is read leaves the invariant, as more is in the log. *)
LEMMA CallsParsed ==
  ASSUME CallsInv, NEW m \in Messages, ParseMessage(m)
  PROVE  CallsInv'
  <1> DEFINE ps == parsers[file]  r == Read(ps, m)  log == logs[file]  t == r.ps
  <1>1. bstage = "parse" /\ ~ ps.dead /\ file \in DOMAIN Files /\ bstage' \in {"parse", "failed"} /\ file' = file
    BY DEF ParseMessage, CallsInv, CallsLogs
  <1>2. /\ logs' = [logs EXCEPT ![file] = Append(log, m)]
        /\ parsers' = [parsers EXCEPT ![file] = t]
    BY DEF ParseMessage
  <1>3. Grown(found, found', file, m, ps, t)
    BY FoundGrow
  <1>4. /\ logs \in [DOMAIN Files -> Seq(Messages)] /\ \A l \in DOMAIN Files : CutLast(logs[l])
        /\ DOMAIN parsers = DOMAIN Files /\ \A l \in DOMAIN Files : ParserShape(parsers[l])
        /\ \A l \in DOMAIN Files : Learnt(l, logs[l], parsers[l], found.processes)
    BY <1>1 DEF CallsInv, CallsLogs, CallsParsers
  <1>5. /\ \A i \in DOMAIN found.processes : found.processes[i].log \in DOMAIN Files
        /\ \A k \in DOMAIN found.stats :
               found.stats[k] \in Nat /\ found.stats[k] <= Cardinality(Counted(logs, found.processes, k))
    BY DEF CallsInv, CallsFound
  <1>6. /\ ParserShape(ps) /\ Learnt(file, log, ps, found.processes) /\ log \in Seq(Messages)
    BY <1>1, <1>4
  <1>7. /\ ParserShape(t)
        /\ DOMAIN t.known \subseteq DOMAIN ps.known \union {m.api : x \in {y \in {m} : y.type = "info"}}
        /\ m.type = "cut" => t.dead
    BY <1>1, <1>6, Turn
  <1> HIDE DEF ps, r, log, t
  <1>8. /\ DOMAIN found' = FoundFields /\ IsSeq(found'.processes) /\ 0 \notin DOMAIN found'.files
        /\ \A i \in DOMAIN found'.processes : found'.processes[i].log \in DOMAIN Files
        /\ \A q : LogsIn(found.processes, q) \subseteq LogsIn(found'.processes, q)
        /\ t.pid = 0 \/ file \in LogsIn(found'.processes, t.pid)
    BY <1>3 DEF Grown
  <1>9. /\ CutLast(Append(log, m)) /\ Append(log, m) \in Seq(Messages)
        /\ m.type # "cut" => \A n \in DOMAIN Append(log, m) : Append(log, m)[n].type # "cut"
        /\ \A a \in DOMAIN ps.known : Said(Append(log, m), a)
        /\ m.type = "info" => Said(Append(log, m), m.api)
    <2>1. /\ ~ ps.dead => CutLast(Append(log, m))
          /\ ~ ps.dead /\ m.type # "cut" => \A n \in DOMAIN Append(log, m) : Append(log, m)[n].type # "cut"
          /\ \A a \in DOMAIN ps.known : Said(Append(log, m), a)
          /\ m.type = "info" => Said(Append(log, m), m.api)
      BY <1>6, <1>8, LearntGrow, Zenon
    <2>2. Append(log, m) \in Seq(Messages)
      BY <1>6
    <2> QED
      BY <1>1, <2>1, <2>2, Zenon
  <1>10. Learnt(file, Append(log, m), t, found'.processes)
    BY <1>7, <1>8, <1>9 DEF Learnt
  <1>11. CallsLogs'
    BY <1>1, <1>2, <1>4, <1>9 DEF CallsLogs
  <1>12. CallsParsers'
    <2>1. ASSUME NEW l \in DOMAIN Files
          PROVE  ParserShape(parsers'[l]) /\ Learnt(l, logs'[l], parsers'[l], found'.processes)
      <3>1. CASE l = file
        BY <1>1, <1>2, <1>4, <1>7, <1>10, <3>1
      <3>2. CASE l # file
        <4>1. logs'[l] = logs[l] /\ parsers'[l] = parsers[l] /\ logs[l] \in Seq(Messages)
          BY <1>2, <1>4, <3>2
        <4>2. ParserShape(parsers[l]) /\ Learnt(l, logs[l], parsers[l], found'.processes)
          BY <1>4, <1>8, <4>1, LearntGrow
        <4> QED
          BY <4>1, <4>2, Zenon
      <3> QED
        BY <3>1, <3>2
    <2>2. DOMAIN parsers' = DOMAIN Files
      BY <1>2, <1>4
    <2> QED
      BY <2>1, <2>2 DEF CallsParsers
  <1>13. CallsFound'
    <2>1. ASSUME NEW k \in DOMAIN found'.stats
          PROVE  found'.stats[k] \in Nat /\ found'.stats[k] <= Cardinality(Counted(logs', found'.processes, k))
      <3> DEFINE before == Counted(logs, found.processes, k)
                 after == Counted(logs', found'.processes, k)
                 place == <<file, Len(log) + 1>>
      <3>1. before \subseteq after /\ IsFiniteSet(before) /\ IsFiniteSet(after)
            /\ (file \in LogsIn(found'.processes, k[1]) /\ Said(log, k[2]) /\ m.type = "call" /\ m.fits /\ m.api = k[2]
                  => place \in after /\ place \notin before)
        BY <1>1, <1>2, <1>4, <1>5, <1>8, CountedGrow DEF log
      <3> HIDE DEF before, after, place
      <3>2. Cardinality(before) \in Nat /\ Cardinality(after) \in Nat /\ Cardinality(before) <= Cardinality(after)
        BY <3>1, FS_CardinalityType, FS_Subset
      <3>3. k \in DOMAIN found.stats => found.stats[k] \in Nat /\ found.stats[k] <= Cardinality(before)
        BY <1>5 DEF before
      <3>4. CASE k \in DOMAIN found.stats /\ found'.stats[k] = found.stats[k]
        BY <3>2, <3>3, <3>4 DEF after
      <3>5. CASE /\ k = <<ps.pid, m.api>>
                 /\ found'.stats[k] = IF k \in DOMAIN found.stats THEN found.stats[k] + 1 ELSE 1
                 /\ m.type = "call" /\ m.fits /\ m.api \in DOMAIN ps.known
                 /\ file \in LogsIn(found'.processes, ps.pid)
        <4>1. k[1] = ps.pid /\ k[2] = m.api /\ Said(log, m.api)
          BY <1>6, <3>5 DEF Learnt
        <4>2. place \in after /\ place \notin before
          BY <3>1, <3>5, <4>1
        <4>3. /\ IsFiniteSet(before \union {place})
              /\ Cardinality(before \union {place}) = Cardinality(before) + 1
          BY <3>1, <4>2, FS_AddElement
        <4>4. before \union {place} \subseteq after
          BY <3>1, <4>2
        <4>5. Cardinality(before) + 1 <= Cardinality(after)
          BY <3>1, <4>3, <4>4, FS_Subset
        <4>6. found'.stats[k] \in Nat /\ found'.stats[k] <= Cardinality(before) + 1
          BY <3>2, <3>3, <3>5
        <4> QED
          BY <3>2, <4>5, <4>6 DEF after
      <3> QED
        BY <1>3, <2>1, <3>4, <3>5 DEF Grown, Put
    <2> QED
      BY <1>8, <2>1 DEF CallsFound
  <1>14. CallsViews'
    BY <1>1 DEF CallsViews
  <1> QED
    BY <1>11, <1>12, <1>13, <1>14 DEF CallsInv

LEMMA CallsGoneOver ==
  ASSUME CallsInv, NEW i \in DOMAIN views, GoOver(i)
  PROVE  CallsInv'
  <1> DEFINE log == found.processes[i].log  pass == Pass(parsers[log], logs[log])
             view == Shown(pass.out)
  <1>1. /\ bstage = "results" /\ UNCHANGED <<bstage, file, left, logs, found>>
        /\ views' = [views EXCEPT ![i] = Append(views[i], view)]
        /\ parsers' = [parsers EXCEPT ![log] = pass.ps]
    BY DEF GoOver
  <1>2. log \in DOMAIN Files
    BY <1>1 DEF CallsInv, CallsViews, CallsFound
  <1>3. ParserShape(parsers[log]) /\ logs[log] \in Seq(Messages) /\ CutLast(logs[log])
    BY <1>2 DEF CallsInv, CallsLogs, CallsParsers
  <1>4. ParserShape(pass.ps)
    BY <1>3, PassYields
  <1>5. FromLog(view, logs[log])
    BY <1>3 DEF FromLog
  <1> HIDE DEF pass, view
  <1>6. CallsLogs'
    BY <1>1 DEF CallsInv, CallsLogs
  <1>7. CallsParsers'
    BY <1>1, <1>4 DEF CallsInv, CallsParsers
  <1>8. CallsFound'
    BY <1>1 DEF CallsInv, CallsFound
  <1>9. CallsViews'
    <2>1. DOMAIN views = DOMAIN found.processes /\ \A j \in DOMAIN views : IsSeq(views[j])
      BY <1>1 DEF CallsInv, CallsViews
    <2>2. ASSUME NEW j \in DOMAIN views
          PROVE  IsSeq(views'[j]) /\ \A n \in DOMAIN views'[j] : FromLog(views'[j][n], logs[found.processes[j].log])
      <3>0. IsSeq(views[j]) /\ \A n \in DOMAIN views[j] : FromLog(views[j][n], logs[found.processes[j].log])
        BY <1>1 DEF CallsInv, CallsViews
      <3>1. CASE j # i
        <4>1. views'[j] = views[j]
          BY <1>1, <3>1
        <4> QED
          BY <3>0, <4>1
      <3>2. CASE j = i
        <4>1. views'[j] = Append(views[j], view)
          BY <1>1, <3>2
        <4>2. /\ IsSeq(Append(views[j], view)) /\ DOMAIN Append(views[j], view) = 1..Len(views[j]) + 1
              /\ DOMAIN views[j] = 1..Len(views[j]) /\ Len(views[j]) \in Nat
              /\ \A n \in 1..Len(views[j]) : Append(views[j], view)[n] = views[j][n]
              /\ Append(views[j], view)[Len(views[j]) + 1] = view
          BY <3>0, IsSeqAppend
        <4>3. ASSUME NEW n \in DOMAIN Append(views[j], view)
              PROVE  FromLog(Append(views[j], view)[n], logs[found.processes[j].log])
          <5>1. CASE n = Len(views[j]) + 1
            BY <1>5, <3>2, <4>2, <5>1
          <5>2. CASE n # Len(views[j]) + 1
            <6>1. n \in DOMAIN views[j]
              BY <4>2, <5>2
            <6> QED
              BY <3>0, <4>2, <6>1
          <5> QED
            BY <5>1, <5>2
        <4> QED
          BY <4>1, <4>2, <4>3
      <3> QED
        BY <3>1, <3>2
    <2>3. DOMAIN views' = DOMAIN views
      BY <1>1
    <2> QED
      BY <1>1, <2>1, <2>2, <2>3 DEF CallsViews
  <1> QED
    BY <1>6, <1>7, <1>8, <1>9 DEF CallsInv

LEMMA CallsStep ==
  CallsInv /\ [BehaviourNext]_bvars => CallsInv'
  <1> SUFFICES ASSUME CallsInv, [BehaviourNext]_bvars PROVE CallsInv'
    OBVIOUS
  <1>1. ASSUME NEW f \in DOMAIN Files, NextLog(f) PROVE CallsInv'
    BY <1>1 DEF NextLog, CallsInv, CallsLogs, CallsParsers, CallsFound, CallsViews
  <1>2. ASSUME NEW f \in DOMAIN Files, ParseStap(f) PROVE CallsInv'
    BY <1>2 DEF ParseStap, CallsInv, CallsLogs, CallsParsers, CallsFound, CallsViews
  <1>3. ASSUME NEW m \in Messages, ParseMessage(m) PROVE CallsInv'
    BY <1>3, CallsParsed
  <1>4. CASE EndOfLog
    BY <1>4 DEF EndOfLog, CallsInv, CallsLogs, CallsParsers, CallsFound, CallsViews
  <1>5. CASE BehaviourRun
    <2>1. IsSeq(<< >>) /\ DOMAIN << >> = {}
      BY DEF IsSeq
    <2>2. CallsViews'
      BY <1>5, <2>1 DEF BehaviourRun, CallsViews
    <2>3. CallsLogs' /\ CallsParsers' /\ CallsFound'
      BY <1>5 DEF BehaviourRun, CallsInv, CallsLogs, CallsParsers, CallsFound
    <2> QED
      BY <2>2, <2>3 DEF CallsInv
  <1>6. ASSUME NEW i \in DOMAIN views, GoOver(i) PROVE CallsInv'
    BY <1>6, CallsGoneOver
  <1>7. CASE UNCHANGED bvars
    BY <1>7 DEF bvars, CallsInv, CallsLogs, CallsParsers, CallsFound, CallsViews
  <1> QED
    BY <1>1, <1>2, <1>3, <1>4, <1>5, <1>6, <1>7 DEF BehaviourNext

(* Whatever was counted is shown. *)
LEMMA CountedShown ==
  CallsInv => CallsKept
  <1> SUFFICES ASSUME CallsInv, bstage = "results", \A i \in DOMAIN views : views[i] # << >>,
                      NEW k \in DOMAIN found.stats, k[2] \notin Silent
               PROVE  found.stats[k] <= Cardinality(UNION {{<<l, n>> : n \in Shows(l, k[2])} : l \in LogsOf(k[1])})
    BY DEF CallsKept
  <1> DEFINE L == LogsIn(found.processes, k[1])
             A == [l \in L |-> Says(logs[l], k[2])]
             B == [l \in L |-> Shows(l, k[2])]
  <1>1. DOMAIN views = DOMAIN found.processes /\ LogsOf(k[1]) = L
    BY DEF CallsInv, CallsViews, LogsOf, LogsIn
  <1>2. ASSUME NEW l \in L
        PROVE  Embeds(Says(logs[l], k[2]), Shows(l, k[2])) /\ IsFiniteSet(Shows(l, k[2]))
    <2> DEFINE i == CHOOSE j \in DOMAIN views : found.processes[j].log = l
    <2>1. i \in DOMAIN views /\ found.processes[i].log = l
      BY <1>1 DEF LogsIn
    <2>2. Shows(l, k[2]) = OfApi(Last(views[i]), k[2])
      BY DEF Shows, OfApi
    <2> HIDE DEF i
    <2>3. l \in DOMAIN Files
      BY <1>1, <2>1 DEF CallsInv, CallsFound
    <2>4. logs[l] \in Seq(Messages) /\ CutLast(logs[l])
      BY <2>3 DEF CallsInv, CallsLogs
    <2>5. IsSeq(views[i]) /\ views[i] # << >> /\ \A j \in DOMAIN views[i] : FromLog(views[i][j], logs[l])
      BY <2>1 DEF CallsInv, CallsViews
    <2>6. Last(views[i]) = views[i][Len(views[i])] /\ Len(views[i]) \in DOMAIN views[i]
      BY <2>5, EmptySeq DEF Last, IsSeq
    <2>7. PICK ps : ParserShape(ps) /\ Last(views[i]) = Shown(Pass(ps, logs[l]).out)
      BY <2>5, <2>6 DEF FromLog
    <2> DEFINE out == Pass(ps, logs[l]).out
    <2>8. IsSeq(out) /\ (\A j \in DOMAIN out : EventShape(out[j])) /\ Embeds(Says(logs[l], k[2]), IsCall(out, k[2]))
      BY <2>4, <2>7, PassYields
    <2> HIDE DEF out
    <2>9. Embeds(IsCall(out, k[2]), OfApi(Shown(out), k[2])) /\ IsFiniteSet(DOMAIN Shown(out))
      BY <2>8, ShownCalls
    <2>10. OfApi(Shown(out), k[2]) \subseteq DOMAIN Shown(out)
      BY DEF OfApi
    <2>11. IsFiniteSet(OfApi(Shown(out), k[2])) /\ Embeds(Says(logs[l], k[2]), OfApi(Shown(out), k[2]))
      BY <2>8, <2>9, <2>10, FS_Subset, EmbedsThrough
    <2> QED
      BY <2>2, <2>7, <2>11, Zenon DEF out
  <1> HIDE DEF L
  <1>3. DOMAIN A = L /\ DOMAIN B = L /\ \A l \in L : Embeds(A[l], B[l]) /\ IsFiniteSet(B[l])
    BY <1>2
  <1>4. Counted(logs, found.processes, k) = Labelled(A)
    BY DEF Counted, L
  <1>5. Labelled(B) = UNION {{<<l, n>> : n \in Shows(l, k[2])} : l \in LogsOf(k[1])}
    BY <1>1 DEF Labelled
  <1> HIDE DEF A, B
  <1>6. IsFiniteSet(L)
    <2>1. L \subseteq DOMAIN Files
      BY DEF L, LogsIn, CallsInv, CallsFound
    <2> QED
      BY <2>1, BehaviourAssumption, FS_Subset
  <1>7. Embeds(Labelled(A), Labelled(B)) /\ IsFiniteSet(Labelled(B))
    BY <1>3, <1>6, EmbedsEach, LabelledFinite
  <1>8. Cardinality(Labelled(A)) <= Cardinality(Labelled(B)) /\ IsFiniteSet(Labelled(A))
    <2>1. Cardinality(Labelled(A)) <= Cardinality(Labelled(B))
      BY <1>7, EmbedsCounts
    <2>2. \A i \in DOMAIN found.processes : found.processes[i].log \in DOMAIN Files
      BY DEF CallsInv, CallsFound
    <2>3. IsFiniteSet(Counted(logs, found.processes, k))
      BY <2>2, CountedFinite DEF CallsInv, CallsLogs
    <2> QED
      BY <1>4, <2>1, <2>3
  <1>9. found.stats[k] \in Nat /\ found.stats[k] <= Cardinality(Labelled(A))
    BY <1>4 DEF CallsInv, CallsFound
  <1>10. Cardinality(Labelled(A)) \in Nat /\ Cardinality(Labelled(B)) \in Nat
    BY <1>7, <1>8, FS_CardinalityType
  <1>11. found.stats[k] <= Cardinality(Labelled(B))
    BY <1>8, <1>9, <1>10
  <1> QED
    BY <1>5, <1>11, Zenon

(* No call is lost between the pass that counts and the passes that show: a parser that goes
   over its log again knows at least what it knew the first time. *)
THEOREM CallsStay ==
  BehaviourSpec => []CallsKept
  <1>1. BehaviourSpec => []CallsInv
    BY CallsFirst, CallsStep, PTL DEF BehaviourSpec
  <1> QED
    BY <1>1, CountedShown, PTL

-----------------------------------------------------------------------------
(* Network: the streams of a capture that is sorted. *)

(* Min, of natural numbers. *)
LEMMA LeastOf ==
  ASSUME NEW S, S \subseteq Nat, S # {}
  PROVE  Min(S) \in S /\ \A y \in S : Min(S) <= y
  BY LeastNatural DEF Min

(* Of two beginnings, what is least in one and in the other of the same numbers is the same. *)
LEMMA SameLeast ==
  ASSUME NEW P, NEW i \in Nat, NEW j \in Nat, NEW a \in 1..i, NEW b \in 1..j, a \in P, b \in P,
         \A y \in 1..i : y \in P => a <= y, \A y \in 1..j : y \in P => b <= y
  PROVE  a = b
  <1>1. a \in Nat /\ b \in Nat /\ 1 <= a /\ a <= i /\ 1 <= b /\ b <= j
    OBVIOUS
  <1>2. CASE i <= j
    <2>1. a \in 1..j
      BY <1>1, <1>2
    <2>2. b <= a
      BY <2>1
    <2>3. b \in 1..i
      BY <1>1, <2>2
    <2>4. a <= b
      BY <2>3
    <2> QED
      BY <1>1, <2>2, <2>4
  <1>3. CASE j <= i
    <2>1. b \in 1..i
      BY <1>1, <1>3
    <2>2. a <= b
      BY <2>1
    <2>3. a \in 1..j
      BY <1>1, <2>2
    <2>4. b <= a
      BY <2>3
    <2> QED
      BY <1>1, <2>2, <2>4
  <1> QED
    BY <1>2, <1>3

(* The key of a packet is the rank of its connection in the direction first seen in the cap,
   the same for all its packets there, and its place in the capture. *)
LEMMA KeyOf ==
  ASSUME pcap \in Seq(Packets), NEW cap \in Seq(DOMAIN pcap), NEW i \in DOMAIN cap
  PROVE  /\ \E d \in {1, 2} : Key(cap, i) = <<FlowRank[pcap[cap[i]].conn][d], cap[i]>>
         /\ Key(cap, i) = <<Key(cap, i)[1], cap[i]>> /\ Key(cap, i)[1] \in Nat
         /\ pcap[cap[i]] \in Packets
         /\ \A j \in DOMAIN cap : pcap[cap[j]].conn = pcap[cap[i]].conn => Key(cap, j)[1] = Key(cap, i)[1]
  <1> DEFINE Same(j) == {x \in 1..j : pcap[cap[x]].conn = pcap[cap[j]].conn}
  <1>1. /\ DOMAIN cap = 1..Len(cap) /\ Len(cap) \in Nat /\ DOMAIN pcap = 1..Len(pcap)
        /\ \A j \in DOMAIN cap : cap[j] \in DOMAIN pcap /\ pcap[cap[j]] \in Packets
    OBVIOUS
  <1>2. ASSUME NEW j \in DOMAIN cap
        PROVE  /\ Min(Same(j)) \in 1..j /\ pcap[cap[Min(Same(j))]].conn = pcap[cap[j]].conn
               /\ \A y \in 1..j : pcap[cap[y]].conn = pcap[cap[j]].conn => Min(Same(j)) <= y
    <2>1. Same(j) \subseteq Nat /\ j \in Same(j)
      BY <1>1
    <2>2. Min(Same(j)) \in Same(j) /\ \A y \in Same(j) : Min(Same(j)) <= y
      <3> HIDE DEF Same
      <3> QED
        BY <2>1, LeastOf
    <2>3. \A y \in 1..j : pcap[cap[y]].conn = pcap[cap[j]].conn => y \in Same(j)
      OBVIOUS
    <2>4. Min(Same(j)) \in 1..j /\ pcap[cap[Min(Same(j))]].conn = pcap[cap[j]].conn
      BY <2>2
    <2> HIDE DEF Same
    <2> QED
      BY <2>2, <2>3, <2>4
  <1>3. ASSUME NEW j \in DOMAIN cap
        PROVE  SeenFirst(cap, j) = pcap[cap[Min(Same(j))]].dir /\ SeenFirst(cap, j) \in {0, 1}
    <2>1. SeenFirst(cap, j) = pcap[cap[Min(Same(j))]].dir
      BY DEF SeenFirst
    <2>2. Min(Same(j)) \in DOMAIN cap
      <3> HIDE DEF Same
      <3> QED
        BY <1>1, <1>2
    <2> HIDE DEF Same
    <2> QED
      BY <1>1, <2>1, <2>2, NetworkAssumption
  <1> HIDE DEF Same
  <1>4. ASSUME NEW j \in DOMAIN cap, pcap[cap[j]].conn = pcap[cap[i]].conn
        PROVE  Min(Same(j)) = Min(Same(i))
    <2> DEFINE a == Min(Same(i))  b == Min(Same(j))
    <2>1. /\ a \in 1..i /\ pcap[cap[a]].conn = pcap[cap[i]].conn
          /\ \A y \in 1..i : pcap[cap[y]].conn = pcap[cap[i]].conn => a <= y
      BY <1>2
    <2>2. /\ b \in 1..j /\ pcap[cap[b]].conn = pcap[cap[j]].conn
          /\ \A y \in 1..j : pcap[cap[y]].conn = pcap[cap[j]].conn => b <= y
      BY <1>2
    <2> DEFINE P == {y \in Nat : pcap[cap[y]].conn = pcap[cap[i]].conn}
    <2> HIDE DEF a, b
    <2>3. i \in Nat /\ j \in Nat
      BY <1>1
    <2>4. a \in P /\ \A y \in 1..i : y \in P => a <= y
      BY <2>1
    <2>5. b \in P /\ \A y \in 1..j : y \in P => b <= y
      BY <1>4, <2>2
    <2> HIDE DEF P
    <2>6. a = b
      BY <2>1, <2>2, <2>3, <2>4, <2>5, SameLeast
    <2> QED
      BY <2>6 DEF a, b
  <1>5. \A j \in DOMAIN cap : Key(cap, j) = <<FlowRank[pcap[cap[j]].conn][SeenFirst(cap, j) + 1], cap[j]>>
    BY DEF Key
  <1>6. \A j \in DOMAIN cap : SeenFirst(cap, j) + 1 \in {1, 2}
    BY <1>3
  <1>7. \A j \in DOMAIN cap : FlowRank[pcap[cap[j]].conn][SeenFirst(cap, j) + 1] \in Nat
    BY <1>1, <1>6, NetworkAssumption
  <1>8. ASSUME NEW j \in DOMAIN cap, pcap[cap[j]].conn = pcap[cap[i]].conn
        PROVE  Key(cap, j)[1] = Key(cap, i)[1]
    <2>1. SeenFirst(cap, j) = SeenFirst(cap, i)
      BY <1>3, <1>4, <1>8
    <2>2. Key(cap, j) = <<FlowRank[pcap[cap[i]].conn][SeenFirst(cap, i) + 1], cap[j]>>
      BY <1>5, <1>8, <2>1, Zenon
    <2>3. Key(cap, i) = <<FlowRank[pcap[cap[i]].conn][SeenFirst(cap, i) + 1], cap[i]>>
      BY <1>5
    <2> QED
      BY <2>2, <2>3
  <1>9. \E d \in {1, 2} : Key(cap, i) = <<FlowRank[pcap[cap[i]].conn][d], cap[i]>>
    BY <1>5, <1>6
  <1>10. Key(cap, i) = <<Key(cap, i)[1], cap[i]>> /\ Key(cap, i)[1] \in Nat
    <2> DEFINE rank == FlowRank[pcap[cap[i]].conn][SeenFirst(cap, i) + 1]
    <2>1. Key(cap, i) = <<rank, cap[i]>>
      BY <1>5, Zenon
    <2>2. rank \in Nat
      BY <1>7, Zenon
    <2> HIDE DEF rank
    <2> QED
      BY <2>1, <2>2
  <1> QED
    BY <1>1, <1>8, <1>9, <1>10, Zenon

(* Packets whose keys have the same rank are of one connection, in whichever files. *)
LEMMA KeysApart ==
  ASSUME pcap \in Seq(Packets), NEW cap \in Seq(DOMAIN pcap), NEW i \in DOMAIN cap,
         NEW other \in Seq(DOMAIN pcap), NEW j \in DOMAIN other, Key(cap, i)[1] = Key(other, j)[1]
  PROVE  pcap[cap[i]].conn = pcap[other[j]].conn
  <1>1. PICK d \in {1, 2} : Key(cap, i) = <<FlowRank[pcap[cap[i]].conn][d], cap[i]>>
    BY KeyOf
  <1>2. PICK e \in {1, 2} : Key(other, j) = <<FlowRank[pcap[other[j]].conn][e], other[j]>>
    BY KeyOf
  <1>3. pcap[cap[i]] \in Packets /\ pcap[other[j]] \in Packets
    BY KeyOf
  <1> DEFINE p == pcap[cap[i]]  q == pcap[other[j]]
  <1>4. p \in Packets /\ q \in Packets /\ FlowRank[p.conn][d] = FlowRank[q.conn][e]
    BY <1>1, <1>2, <1>3
  <1> HIDE DEF p, q
  <1>5. p.conn = q.conn
    BY <1>4, NetworkAssumption
  <1> QED
    BY <1>5 DEF p, q

(* Where the chunks begin and end. *)
LEMMA Multiples ==
  ASSUME NEW a \in Nat, NEW b \in Nat, NEW n \in Nat, a <= b
  PROVE  a * n <= b * n /\ a * n \in Nat
  <1> DEFINE T == {d \in 0..(b - a) : a * n <= (a + d) * n}
  <1>1. 0 \in T /\ b - a \in Nat /\ a * n \in Nat
    OBVIOUS
  <1>2. ASSUME NEW d \in 1..(b - a), d - 1 \in T PROVE d \in T
    <2>1. (a + d) * n = (a + (d - 1)) * n + n
      OBVIOUS
    <2>2. (a + (d - 1)) * n \in Nat /\ d \in 0..(b - a) /\ a * n <= (a + (d - 1)) * n
      BY <1>2
    <2> QED
      BY <1>1, <2>1, <2>2
  <1> HIDE DEF T
  <1>3. 0..(b - a) \subseteq T
    BY <1>1, <1>2, Induction
  <1>4. b - a \in T /\ a + (b - a) = b
    BY <1>1, <1>3
  <1> QED
    BY <1>1, <1>4 DEF T

(* A packet is read in one chunk. *)
LEMMA ChunksApart ==
  ASSUME NEW k \in Nat, NEW l \in Nat, NEW i \in ChunkOf(k), i \in ChunkOf(l), pcap \in Seq(Packets)
  PROVE  k = l
  <1>1. i \in Nat
    BY DEF ChunkOf
  <1>2. ASSUME NEW a \in Nat, NEW b \in Nat, a < b, i <= (a + 1) * ChunkSize, i > b * ChunkSize PROVE FALSE
    <2>1. (a + 1) * ChunkSize <= b * ChunkSize /\ (a + 1) * ChunkSize \in Nat /\ b * ChunkSize \in Nat
      BY <1>2, Multiples, NetworkAssumption
    <2> QED
      BY <1>1, <1>2, <2>1
  <1>3. i > k * ChunkSize /\ i <= (k + 1) * ChunkSize /\ i > l * ChunkSize /\ i <= (l + 1) * ChunkSize
    BY DEF ChunkOf
  <1> QED
    BY <1>2, <1>3

(* Of some packets one comes before the others, so that they can be sorted. *)
LEMMA Foremost ==
  ASSUME NEW H, H # {}, NEW r \in [H -> Nat], NEW p \in [H -> Nat], \A g, h \in H : p[g] = p[h] => g = h
  PROVE  \E h \in H : \A g \in H \ {h} : Before(<<r[h], p[h]>>, <<r[g], p[g]>>)
  <1> DEFINE R == {r[h] : h \in H}
  <1>1. R \subseteq Nat /\ R # {}
    OBVIOUS
  <1>2. PICK m \in R : \A x \in R : m <= x
    BY <1>1, LeastNatural
  <1> DEFINE A == {p[h] : h \in {g \in H : r[g] = m}}
  <1>3. A \subseteq Nat /\ A # {}
    BY <1>2
  <1>4. PICK n \in A : \A x \in A : n <= x
    BY <1>3, LeastNatural
  <1>5. PICK h \in H : r[h] = m /\ p[h] = n
    BY <1>4
  <1>6. ASSUME NEW g \in H \ {h}
        PROVE  Before(<<r[h], p[h]>>, <<r[g], p[g]>>)
    <2>1. m <= r[g] /\ m \in Nat /\ n \in Nat
      BY <1>1, <1>2, <1>3, <1>4
    <2>2. r[g] = m => n <= p[g]
      BY <1>4
    <2>3. p[g] # p[h]
      BY <1>6
    <2>4. r[h] < r[g] \/ (r[h] = r[g] /\ p[h] < p[g])
      BY <1>5, <2>1, <2>2, <2>3
    <2> QED
      BY <2>4 DEF Before
  <1> QED
    BY <1>6

(* Some packets, each with the rank of its connection, can be put in order. *)
LEMMA Sortable ==
  ASSUME NEW N \in Nat, NEW r \in [1..N -> Nat], NEW S \in SUBSET (1..N)
  PROVE  \E q \in [1..Cardinality(S) -> S] :
             \A j, k \in 1..Cardinality(S) : j < k => Before(<<r[q[j]], q[j]>>, <<r[q[k]], q[k]>>)
  <1> DEFINE Orders(q, n) == \A j, k \in 1..n : j < k => Before(<<r[q[j]], q[j]>>, <<r[q[k]], q[k]>>)
             Good(n) == \A X \in SUBSET (1..N) : Cardinality(X) = n => \E q \in [1..n -> X] : Orders(q, n)
             T == {n \in 0..N : Good(n)}
  <1>1. \A X \in SUBSET (1..N) : IsFiniteSet(X) /\ Cardinality(X) \in 0..N
    <2> SUFFICES ASSUME NEW X \in SUBSET (1..N) PROVE IsFiniteSet(X) /\ Cardinality(X) \in 0..N
      OBVIOUS
    <2>1. IsFiniteSet(1..N) /\ Cardinality(1..N) = IF 1 > N THEN 0 ELSE N - 1 + 1
      BY FS_Interval
    <2>2. IsFiniteSet(X) /\ Cardinality(X) <= Cardinality(1..N)
      BY <2>1, FS_Subset
    <2>3. Cardinality(X) \in Nat
      BY <2>2, FS_CardinalityType
    <2> QED
      BY <2>1, <2>2, <2>3
  <1>2. 0 \in T
    <2>1. ASSUME NEW X \in SUBSET (1..N), Cardinality(X) = 0
          PROVE  \E q \in [1..0 -> X] : Orders(q, 0)
      <3> DEFINE q == [k \in 1..0 |-> k]
      <3>1. q \in [1..0 -> X] /\ Orders(q, 0)
        OBVIOUS
      <3> QED
        BY <3>1
    <2> QED
      BY <2>1
  <1>3. ASSUME NEW n \in 1..N, n - 1 \in T
        PROVE  n \in T
    <2>1. ASSUME NEW X \in SUBSET (1..N), Cardinality(X) = n
          PROVE  \E q \in [1..n -> X] : Orders(q, n)
      <3>1. X # {} /\ n \in Nat
        <4>1. Cardinality({}) = 0
          BY FS_EmptySet
        <4>2. n \in Nat /\ n # 0
          OBVIOUS
        <4> QED
          BY <2>1, <4>1, <4>2
      <3> DEFINE rs == [x \in X |-> r[x]]  ps == [x \in X |-> x]
      <3>2. rs \in [X -> Nat] /\ ps \in [X -> Nat] /\ \A g, h \in X : ps[g] = ps[h] => g = h
        OBVIOUS
      <3>3. \A x \in X : rs[x] = r[x] /\ ps[x] = x
        OBVIOUS
      <3> HIDE DEF rs, ps
      <3>4. PICK x \in X : \A y \in X \ {x} : Before(<<rs[x], ps[x]>>, <<rs[y], ps[y]>>)
        BY <3>1, <3>2, Foremost
      <3>5. \A y \in X \ {x} : Before(<<r[x], x>>, <<r[y], y>>)
        BY <3>3, <3>4
      <3>6. Cardinality(X \ {x}) = n - 1
        BY <1>1, <2>1, FS_RemoveElement
      <3>7. PICK f \in [1..n - 1 -> X \ {x}] : Orders(f, n - 1)
        BY <1>3, <3>6
      <3> DEFINE q == [k \in 1..n |-> IF k = 1 THEN x ELSE f[k - 1]]
      <3>8. \A k \in 1..n : k # 1 => k - 1 \in 1..n - 1 /\ f[k - 1] \in X \ {x}
        BY <3>1
      <3>9. q \in [1..n -> X] /\ \A k \in 1..n : q[k] = IF k = 1 THEN x ELSE f[k - 1]
        BY <3>8
      <3> HIDE DEF q
      <3>10. ASSUME NEW j \in 1..n, NEW k \in 1..n, j < k
             PROVE  Before(<<r[q[j]], q[j]>>, <<r[q[k]], q[k]>>)
        <4>1. k # 1 /\ q[k] = f[k - 1] /\ f[k - 1] \in X \ {x} /\ k - 1 \in 1..n - 1
          BY <3>1, <3>8, <3>9, <3>10
        <4>2. CASE j = 1
          <5>1. q[j] = x
            BY <3>9, <4>2
          <5> QED
            BY <3>5, <4>1, <5>1
        <4>3. CASE j # 1
          <5>1. q[j] = f[j - 1] /\ j - 1 \in 1..n - 1 /\ j - 1 < k - 1
            BY <3>1, <3>8, <3>9, <3>10, <4>3
          <5>2. Before(<<r[f[j - 1]], f[j - 1]>>, <<r[f[k - 1]], f[k - 1]>>)
            BY <3>7, <4>1, <5>1
          <5> QED
            BY <4>1, <5>1, <5>2
        <4> QED
          BY <4>2, <4>3
      <3> QED
        BY <3>9, <3>10
    <2>2. n \in 0..N
      OBVIOUS
    <2> QED
      BY <2>1, <2>2
  <1> HIDE DEF T
  <1>4. 0..N \subseteq T
    BY <1>2, <1>3, Induction
  <1>5. Cardinality(S) \in T
    BY <1>1, <1>4
  <1> QED
    BY <1>5 DEF T

(* A chunk of the sort holds its packets, each once, in the order of their keys. *)
LEMMA ChunkSorts ==
  ASSUME pcap \in Seq(Packets), NEW n \in Nat
  PROVE  /\ SortedChunk(n) \in Seq(ChunkOf(n))
         /\ \A j, k \in DOMAIN SortedChunk(n) :
                j < k => Before(Key(All, SortedChunk(n)[j]), Key(All, SortedChunk(n)[k]))
         /\ \A j, k \in DOMAIN SortedChunk(n) : SortedChunk(n)[j] = SortedChunk(n)[k] => j = k
         /\ ChunkOf(n) \subseteq ToSet(SortedChunk(n))
  <1> DEFINE N == Len(pcap)  S == ChunkOf(n)
             r == [i \in 1..N |-> Key(All, i)[1]]
             Sorts(q) == \A j, k \in DOMAIN q : j < k => Before(Key(All, q[j]), Key(All, q[k]))
  <1>1. N \in Nat /\ DOMAIN pcap = 1..N /\ All \in Seq(DOMAIN pcap) /\ DOMAIN All = 1..N /\ \A i \in 1..N : All[i] = i
    BY DEF All
  <1>2. S \in SUBSET (1..N)
    BY <1>1 DEF ChunkOf
  <1>3. ASSUME NEW i \in 1..N PROVE Key(All, i) = <<Key(All, i)[1], i>> /\ Key(All, i)[1] \in Nat
    BY <1>1, KeyOf
  <1>4. r \in [1..N -> Nat] /\ \A i \in 1..N : Key(All, i) = <<r[i], i>>
    BY <1>3
  <1> HIDE DEF r, N, S
  <1>5. PICK q \in [1..Cardinality(S) -> S] :
            \A j, k \in 1..Cardinality(S) : j < k => Before(<<r[q[j]], q[j]>>, <<r[q[k]], q[k]>>)
    BY <1>1, <1>2, <1>4, Sortable
  <1>6. Sorts(q)
    <2>1. \A j \in DOMAIN q : q[j] \in 1..N /\ Key(All, q[j]) = <<r[q[j]], q[j]>>
      BY <1>2, <1>4, <1>5
    <2> QED
      BY <1>5, <2>1
  <1>7. SortedChunk(n) = CHOOSE f \in [1..Cardinality(S) -> S] : Sorts(f)
    BY DEF SortedChunk, S
  <1> HIDE DEF Sorts
  <1>8. SortedChunk(n) \in [1..Cardinality(S) -> S] /\ Sorts(SortedChunk(n))
    BY <1>5, <1>6, <1>7
  <1>9. Cardinality(S) \in Nat /\ IsFiniteSet(S)
    <2>1. IsFiniteSet(1..N)
      BY <1>1, FS_Interval
    <2> QED
      BY <1>2, <2>1, FS_Subset, FS_CardinalityType
  <1> DEFINE f == SortedChunk(n)  C == Cardinality(S)
  <1> HIDE DEF f, C
  <1>10. f \in [1..C -> S] /\ C \in Nat /\ \A j, k \in DOMAIN f : j < k => Before(Key(All, f[j]), Key(All, f[k]))
    BY <1>8, <1>9 DEF Sorts, f, C
  (* Nothing comes before itself: all are there, each once. *)
  <1>11. ASSUME NEW j \in 1..C, NEW k \in 1..C, j < k, f[j] = f[k] PROVE FALSE
    <2>1. f[j] \in 1..N /\ Before(Key(All, f[j]), Key(All, f[j]))
      BY <1>2, <1>10, <1>11
    <2>2. Key(All, f[j]) = <<r[f[j]], f[j]>> /\ r[f[j]] \in Nat /\ f[j] \in Nat
      BY <1>1, <1>4, <2>1
    <2> QED
      BY <2>1, <2>2 DEF Before
  <1>12. \A j, k \in 1..C : f[j] = f[k] => j = k
    <2> SUFFICES ASSUME NEW j \in 1..C, NEW k \in 1..C, f[j] = f[k] PROVE j = k
      OBVIOUS
    <2>1. j < k \/ k < j \/ j = k
      OBVIOUS
    <2> QED
      BY <1>11, <2>1
  <1>13. \A i \in S : \E j \in 1..C : f[j] = i
    <2>1. f \in Injection(1..C, S)
      BY <1>10, <1>12 DEF Injection, IsInjective
    <2>2. Cardinality(1..C) = C /\ C = Cardinality(S)
      <3>1. Cardinality(1..C) = IF 1 > C THEN 0 ELSE C - 1 + 1
        BY <1>10, FS_Interval
      <3> QED
        BY <1>10, <3>1 DEF C
    <2>3. f \in Surjection(1..C, S)
      BY <1>9, <2>1, <2>2, FS_Injection
    <2> QED
      BY <2>3 DEF Surjection
  <1>14. f \in Seq(S) /\ S \subseteq ToSet(f)
    BY <1>10, <1>13 DEF ToSet
  <1> QED
    BY <1>10, <1>12, <1>14 DEF f, S

-----------------------------------------------------------------------------
(* Merging *)

(* What the chunks are: of every packet its connection and the key it has there.  Packets of
   one connection have one rank in a chunk and follow one another in it. *)
Keyed(ky, cs) ==
    \A k \in DOMAIN cs : \A i \in DOMAIN cs[k] :
        ky[k][i] = <<ky[k][i][1], cs[k][i]>> /\ ky[k][i][1] \in Nat /\ cs[k][i] \in Nat
Ranked(cn, ky, cs) ==
    \A k \in DOMAIN cs : \A i, j \in DOMAIN cs[k] : cn[cs[k][i]] = cn[cs[k][j]] => ky[k][i][1] = ky[k][j][1]
Separate(cn, ky, cs) ==
    \A k, l \in DOMAIN cs : \A i \in DOMAIN cs[k], j \in DOMAIN cs[l] :
        /\ ky[k][i][1] = ky[l][j][1] => cn[cs[k][i]] = cn[cs[l][j]]
        /\ cs[k][i] = cs[l][j] => k = l
Following(cn, cs) ==
    \A k \in DOMAIN cs : \A x, y, z \in DOMAIN cs[k] :
        x <= y /\ y <= z /\ cn[cs[k][x]] = cn[cs[k][z]] => cn[cs[k][y]] = cn[cs[k][x]]
Laid(cn, ky, cs) ==
    cs \in Seq(Seq(DOMAIN cn)) /\ Keyed(ky, cs) /\ Ranked(cn, ky, cs) /\ Separate(cn, ky, cs) /\ Following(cn, cs)
HeadsOf(cs, tk) == {k \in DOMAIN cs : tk[k] < Len(cs[k])}
Ahead(ky, cs, tk, h) == \A g \in HeadsOf(cs, tk) \ {h} : Before(ky[h][tk[h] + 1], ky[g][tk[g] + 1])
Whole(cn, c, s) == \A i \in DOMAIN cn : cn[i] = c => i \in ToSet(s)
(* The last packet that was read from a chunk is not the last of its connection. *)
Pending(cn, cs, tk, k) ==
    /\ k \in HeadsOf(cs, tk) /\ tk[k] # 0
    /\ cn[cs[k][tk[k]]] = cn[cs[k][tk[k] + 1]] /\ Whole(cn, cn[cs[k][tk[k]]], cs[k])
Together(cn, c, st) ==
    \A x, y, z \in DOMAIN st : x <= y /\ y <= z /\ cn[st[x]] = c /\ cn[st[z]] = c => cn[st[y]] = c
Merged(cn, ky, cs, tk, st) ==
    /\ tk \in Seq(Nat) /\ Len(tk) = Len(cs) /\ \A k \in DOMAIN cs : tk[k] <= Len(cs[k])
    /\ st \in Seq(DOMAIN cn)
    /\ \A p \in DOMAIN st : \E k \in DOMAIN cs : \E j \in 1..tk[k] : st[p] = cs[k][j]
    /\ \A k \in DOMAIN cs : \A j \in 1..tk[k] : \E p \in DOMAIN st : st[p] = cs[k][j]
    /\ \A k \in DOMAIN cs : Pending(cn, cs, tk, k) =>
           st # << >> /\ st[Len(st)] = cs[k][tk[k]] /\ Ahead(ky, cs, tk, k)
    /\ \A k \in DOMAIN cs : \A c : Whole(cn, c, cs[k]) => Together(cn, c, st)

(* The least of the heads exists. *)
LEMMA LeastHead ==
  ASSUME NEW cn, NEW ky, NEW cs, NEW tk, Laid(cn, ky, cs), tk \in Seq(Nat), Len(tk) = Len(cs), HeadsOf(cs, tk) # {}
  PROVE  \E h \in HeadsOf(cs, tk) : Ahead(ky, cs, tk, h)
  <1> DEFINE H == HeadsOf(cs, tk)
             r == [h \in H |-> ky[h][tk[h] + 1][1]]
             p == [h \in H |-> cs[h][tk[h] + 1]]
  <1>1. \A h \in H : h \in DOMAIN cs /\ tk[h] + 1 \in DOMAIN cs[h]
    <2> SUFFICES ASSUME NEW h \in H PROVE h \in DOMAIN cs /\ tk[h] + 1 \in DOMAIN cs[h]
      OBVIOUS
    <2>1. h \in DOMAIN cs /\ cs[h] \in Seq(DOMAIN cn) /\ tk[h] \in Nat /\ tk[h] < Len(cs[h])
      BY DEF HeadsOf, Laid
    <2> QED
      BY <2>1
  <1>6. Keyed(ky, cs) /\ Separate(cn, ky, cs)
    BY DEF Laid
  <1>7. ASSUME NEW g \in H, NEW h \in H, p[g] = p[h] PROVE g = h
    <2>1. cs[g][tk[g] + 1] = cs[h][tk[h] + 1]
      BY <1>7
    <2> QED
      BY <1>1, <1>6, <2>1 DEF Separate
  <1>8. ASSUME NEW h \in H
        PROVE  ky[h][tk[h] + 1] = <<ky[h][tk[h] + 1][1], cs[h][tk[h] + 1]>> /\ ky[h][tk[h] + 1][1] \in Nat /\ cs[h][tk[h] + 1] \in Nat
    <2>1. h \in DOMAIN cs /\ tk[h] + 1 \in DOMAIN cs[h]
      BY <1>1
    <2> QED
      BY <1>6, <2>1 DEF Keyed
  <1>2. r \in [H -> Nat] /\ p \in [H -> Nat] /\ \A g, h \in H : p[g] = p[h] => g = h
    BY <1>7, <1>8
  <1>3. \A h \in H : ky[h][tk[h] + 1] = <<r[h], p[h]>>
    BY <1>8
  <1> HIDE DEF H, r, p
  <1>4. PICK h \in H : \A g \in H \ {h} : Before(<<r[h], p[h]>>, <<r[g], p[g]>>)
    BY <1>2, Foremost DEF H
  <1>5. Ahead(ky, cs, tk, h)
    BY <1>3, <1>4 DEF Ahead, H
  <1> QED
    BY <1>5 DEF H

(* The packets of a connection that is whole in one chunk are merged one after the other. *)
LEMMA MergeStep ==
  ASSUME NEW cn, NEW ky, NEW cs, NEW tk, NEW st, Laid(cn, ky, cs), Merged(cn, ky, cs, tk, st),
         NEW h \in HeadsOf(cs, tk), Ahead(ky, cs, tk, h)
  PROVE  Merged(cn, ky, cs, [tk EXCEPT ![h] = tk[h] + 1], Append(st, cs[h][tk[h] + 1]))
  <1> DEFINE e == cs[h][tk[h] + 1]  more == Append(st, e)  on == [tk EXCEPT ![h] = tk[h] + 1]  N == Len(st)
  <1>1. /\ h \in DOMAIN cs /\ tk[h] \in Nat /\ tk[h] < Len(cs[h]) /\ cs[h] \in Seq(DOMAIN cn)
        /\ \A k \in DOMAIN cs : cs[k] \in Seq(DOMAIN cn) /\ tk[k] \in Nat /\ tk[k] <= Len(cs[k]) /\ Len(cs[k]) \in Nat
        /\ DOMAIN cs = 1..Len(cs) /\ DOMAIN tk = 1..Len(cs)
    BY DEF HeadsOf, Laid, Merged
  <1>2. tk[h] + 1 \in DOMAIN cs[h] /\ e \in DOMAIN cn
    BY <1>1
  <1>3. /\ more \in Seq(DOMAIN cn) /\ Len(more) = N + 1 /\ N \in Nat /\ DOMAIN more = 1..N + 1 /\ DOMAIN st = 1..N
        /\ \A x \in 1..N : more[x] = st[x]
        /\ more[N + 1] = e
    <2>1. st \in Seq(DOMAIN cn)
      BY DEF Merged
    <2> HIDE DEF e
    <2> QED
      BY <1>2, <2>1, AppendProperties
  <1>4. /\ on \in Seq(Nat) /\ Len(on) = Len(cs) /\ on[h] = tk[h] + 1
        /\ \A k \in DOMAIN cs : k # h => on[k] = tk[k]
    <2>1. tk \in Seq(Nat) /\ Len(tk) = Len(cs) /\ tk[h] + 1 \in Nat
      BY <1>1 DEF Merged
    <2> QED
      BY <1>1, <2>1
  <1> HIDE DEF e, more, on, N
  <1>0. Keyed(ky, cs) /\ Ranked(cn, ky, cs) /\ Separate(cn, ky, cs) /\ Following(cn, cs)
    BY DEF Laid
  <1>11. \A k \in DOMAIN cs : on[k] \in Nat /\ tk[k] <= on[k]
    <2> SUFFICES ASSUME NEW k \in DOMAIN cs PROVE on[k] \in Nat /\ tk[k] <= on[k]
      OBVIOUS
    <2>1. CASE k = h
      BY <1>1, <1>4, <2>1
    <2>2. CASE k # h
      <3>1. on[k] = tk[k] /\ tk[k] \in Nat
        BY <1>1, <1>4, <2>2
      <3> QED
        BY <3>1
    <2> QED
      BY <2>1, <2>2
  <1>5. \A k \in DOMAIN cs : on[k] <= Len(cs[k])
    <2> SUFFICES ASSUME NEW k \in DOMAIN cs PROVE on[k] <= Len(cs[k])
      OBVIOUS
    <2>1. CASE k = h
      BY <1>1, <1>4, <2>1
    <2>2. CASE k # h
      BY <1>1, <1>4, <2>2
    <2> QED
      BY <2>1, <2>2
  <1>6. ASSUME NEW p \in DOMAIN more
        PROVE  \E k \in DOMAIN cs : \E j \in 1..on[k] : more[p] = cs[k][j]
    <2>1. CASE p = N + 1
      <3>1. tk[h] + 1 \in 1..on[h]
        BY <1>1, <1>4
      <3> QED
        BY <1>1, <1>3, <2>1, <3>1 DEF e
    <2>2. CASE p # N + 1
      <3>1. p \in DOMAIN st /\ more[p] = st[p]
        BY <1>3, <2>2
      <3>2. PICK k \in DOMAIN cs : \E j \in 1..tk[k] : st[p] = cs[k][j]
        BY <3>1 DEF Merged
      <3>3. 1..tk[k] \subseteq 1..on[k]
        BY <1>1, <1>11
      <3> QED
        BY <3>1, <3>2, <3>3
    <2> QED
      BY <2>1, <2>2
  <1>7. ASSUME NEW k \in DOMAIN cs, NEW j \in 1..on[k]
        PROVE  \E p \in DOMAIN more : more[p] = cs[k][j]
    <2>1. CASE k = h /\ j = tk[h] + 1
      BY <1>3, <2>1 DEF e
    <2>2. CASE ~ (k = h /\ j = tk[h] + 1)
      <3>1. j \in 1..tk[k]
        BY <1>1, <1>4, <2>2
      <3>2. PICK p \in DOMAIN st : st[p] = cs[k][j]
        BY <3>1 DEF Merged
      <3>3. p \in DOMAIN more /\ more[p] = st[p]
        BY <1>3
      <3> QED
        BY <3>2, <3>3
    <2> QED
      BY <2>1, <2>2
  (* Whichever chunk is in the middle of a connection is the one that is read. *)
  <1>8. ASSUME NEW k \in DOMAIN cs, Pending(cn, cs, tk, k)
        PROVE  k = h
    <2> SUFFICES ASSUME k # h PROVE FALSE
      OBVIOUS
    <2>1. Ahead(ky, cs, tk, k) /\ k \in HeadsOf(cs, tk)
      BY <1>8 DEF Merged, Pending
    <2>2. Before(ky[k][tk[k] + 1], ky[h][tk[h] + 1]) /\ Before(ky[h][tk[h] + 1], ky[k][tk[k] + 1])
      BY <2>1 DEF Ahead
    <2>3. tk[k] + 1 \in DOMAIN cs[k]
      BY <1>1, <2>1 DEF HeadsOf
    <2> DEFINE a == ky[k][tk[k] + 1]  b == ky[h][tk[h] + 1]
    <2>4. a[1] \in Nat /\ b[1] \in Nat /\ a = <<a[1], cs[k][tk[k] + 1]>> /\ b = <<b[1], cs[h][tk[h] + 1]>>
          /\ cs[k][tk[k] + 1] \in Nat /\ cs[h][tk[h] + 1] \in Nat
      BY <1>0, <1>1, <1>2, <2>3 DEF Keyed
    <2> HIDE DEF a, b
    <2>5. Before(a, b) /\ Before(b, a)
      BY <2>2 DEF a, b
    <2>6. a[2] \in Nat /\ b[2] \in Nat
      BY <2>4
    <2> QED
      BY <2>4, <2>5, <2>6 DEF Before
  <1>9. ASSUME NEW k \in DOMAIN cs, Pending(cn, cs, on, k)
        PROVE  more # << >> /\ more[Len(more)] = cs[k][on[k]] /\ Ahead(ky, cs, on, k)
    <2>1. k = h
      <3>1. k # h => Pending(cn, cs, tk, k)
        BY <1>4, <1>9 DEF Pending, HeadsOf
      <3> QED
        BY <1>8, <3>1
    <2>2. more # << >> /\ more[Len(more)] = cs[k][on[k]]
      <3>1. more[Len(more)] = e /\ e = cs[h][on[h]]
        BY <1>3, <1>4 DEF e
      <3>2. more # << >>
        BY <1>3
      <3> QED
        BY <2>1, <3>1, <3>2
    <2>3. on[h] + 1 \in DOMAIN cs[h] /\ on[h] \in DOMAIN cs[h]
          /\ cn[cs[h][on[h]]] = cn[cs[h][on[h] + 1]] /\ Whole(cn, cn[cs[h][on[h]]], cs[h])
      BY <1>1, <1>4, <1>9, <2>1 DEF Pending, HeadsOf
    <2>4. ASSUME NEW g \in HeadsOf(cs, on) \ {h}
          PROVE  Before(ky[h][on[h] + 1], ky[g][on[g] + 1])
      <3>1. g \in HeadsOf(cs, tk) /\ g \in DOMAIN cs /\ on[g] = tk[g] /\ tk[g] + 1 \in DOMAIN cs[g]
        <4>1. g \in DOMAIN cs /\ g # h /\ on[g] < Len(cs[g])
          BY DEF HeadsOf
        <4>2. on[g] = tk[g] /\ tk[g] \in Nat /\ Len(cs[g]) \in Nat /\ DOMAIN cs[g] = 1..Len(cs[g])
          BY <1>1, <1>4, <4>1
        <4> QED
          BY <4>1, <4>2 DEF HeadsOf
      <3> DEFINE a == ky[h][tk[h] + 1]  n == ky[h][on[h] + 1]  b == ky[g][tk[g] + 1]
      <3>2. Before(a, b)
        BY <3>1 DEF Ahead
      <3>3. a[1] = n[1]
        BY <1>0, <1>1, <1>2, <1>4, <2>3 DEF Ranked
      <3>4. a[1] # b[1]
        <4>1. cn[cs[g][tk[g] + 1]] # cn[cs[h][on[h]]]
          <5>1. cs[g][tk[g] + 1] \in DOMAIN cn /\ ~ (\E j \in DOMAIN cs[h] : cs[h][j] = cs[g][tk[g] + 1])
            <6>1. cs[g] \in Seq(DOMAIN cn) /\ g # h
              BY <1>1, <3>1
            <6> QED
              BY <1>0, <1>1, <3>1, <6>1 DEF Separate
          <5>2. cs[g][tk[g] + 1] \notin ToSet(cs[h])
            BY <5>1 DEF ToSet
          <5> QED
            BY <2>3, <5>1, <5>2 DEF Whole
        <4>2. cn[cs[h][tk[h] + 1]] = cn[cs[h][on[h]]]
          BY <1>4
        <4>3. h \in DOMAIN cs /\ g \in DOMAIN cs /\ tk[h] + 1 \in DOMAIN cs[h] /\ tk[g] + 1 \in DOMAIN cs[g]
          BY <1>1, <1>2, <3>1
        <4>4. ky[h][tk[h] + 1][1] = ky[g][tk[g] + 1][1] => cn[cs[h][tk[h] + 1]] = cn[cs[g][tk[g] + 1]]
          <5>1. \A u, v \in DOMAIN cs : \A i \in DOMAIN cs[u], j \in DOMAIN cs[v] :
                    ky[u][i][1] = ky[v][j][1] => cn[cs[u][i]] = cn[cs[v][j]]
            BY <1>0 DEF Separate
          <5>2. \A i \in DOMAIN cs[h], j \in DOMAIN cs[g] :
                    ky[h][i][1] = ky[g][j][1] => cn[cs[h][i]] = cn[cs[g][j]]
            BY <4>3, <5>1, Zenon
          <5> QED
            BY <4>3, <5>2, Zenon
        <4> QED
          BY <4>1, <4>2, <4>4, Zenon
      <3>5. a[1] \in Nat /\ b[1] \in Nat
        BY <1>0, <1>1, <1>2, <3>1 DEF Keyed
      <3> HIDE DEF a, b, n
      <3>6. Before(n, b)
        BY <3>2, <3>3, <3>4, <3>5 DEF Before
      <3> QED
        BY <3>1, <3>6 DEF n, b
    <2>5. Ahead(ky, cs, on, h)
      BY <2>4 DEF Ahead
    <2> QED
      BY <2>1, <2>2, <2>5
  <1>10. ASSUME NEW k \in DOMAIN cs, NEW c, Whole(cn, c, cs[k])
         PROVE  Together(cn, c, more)
    <2>1. Together(cn, c, st)
      BY <1>10 DEF Merged
    <2>2. SUFFICES ASSUME NEW x \in DOMAIN more, NEW y \in DOMAIN more, NEW z \in DOMAIN more,
                          x <= y, y <= z, cn[more[x]] = c, cn[more[z]] = c
                   PROVE  cn[more[y]] = c
      BY DEF Together
    <2>3. CASE z # N + 1
      <3>1. x \in DOMAIN st /\ y \in DOMAIN st /\ z \in DOMAIN st /\ more[x] = st[x] /\ more[y] = st[y] /\ more[z] = st[z]
        BY <1>3, <2>2, <2>3
      <3> QED
        BY <2>1, <2>2, <3>1 DEF Together
    <2>4. CASE z = N + 1 /\ (x = N + 1 \/ y = N + 1)
      <3>1. y = z
        BY <1>3, <2>2, <2>4
      <3> QED
        BY <2>2, <3>1
    <2>5. CASE z = N + 1 /\ x # N + 1 /\ y # N + 1
      <3>1. x \in 1..N /\ y \in 1..N /\ more[x] = st[x] /\ more[y] = st[y] /\ N \in 1..N
        BY <1>3, <2>2, <2>5
      <3>2. cn[e] = c /\ cn[st[x]] = c
        BY <1>3, <2>2, <2>5, <3>1
      (* The earlier packet is of the same chunk, which is in the middle of the connection. *)
      <3>3. k = h
        <4>1. e \in ToSet(cs[k])
          BY <1>2, <1>10, <3>2 DEF Whole
        <4>2. PICK j \in DOMAIN cs[k] : cs[k][j] = cs[h][tk[h] + 1]
          BY <4>1 DEF e, ToSet
        <4> QED
          BY <1>0, <1>1, <1>2, <4>2 DEF Separate
      <3>10. PICK g \in DOMAIN cs : \E j \in 1..tk[g] : st[x] = cs[g][j]
        BY <1>3, <3>1 DEF Merged
      <3>4. PICK j \in 1..tk[g] : st[x] = cs[g][j]
        BY <3>10
      <3>5. g = h
        <4>1. st[x] \in DOMAIN cn
          BY <1>3, <3>1 DEF Merged
        <4>2. st[x] \in ToSet(cs[h])
          BY <1>10, <3>2, <3>3, <4>1 DEF Whole
        <4>3. PICK i \in DOMAIN cs[h] : cs[h][i] = cs[g][j]
          BY <3>4, <4>2 DEF ToSet
        <4>4. j \in DOMAIN cs[g]
          BY <1>1, <3>4
        <4> QED
          BY <1>0, <1>1, <4>3, <4>4 DEF Separate
      <3>6. j \in DOMAIN cs[h] /\ tk[h] \in DOMAIN cs[h] /\ j <= tk[h] /\ tk[h] # 0
        BY <1>1, <3>4, <3>5
      <3>7. cn[cs[h][tk[h]]] = c
        <4>1. cn[cs[h][j]] = c /\ cn[cs[h][tk[h] + 1]] = c /\ tk[h] <= tk[h] + 1
          BY <1>1, <3>2, <3>4, <3>5 DEF e
        <4>2. cn[cs[h][tk[h]]] = cn[cs[h][j]]
          <5>1. /\ h \in DOMAIN cs /\ j \in DOMAIN cs[h] /\ tk[h] \in DOMAIN cs[h] /\ tk[h] + 1 \in DOMAIN cs[h]
                /\ j <= tk[h] /\ tk[h] <= tk[h] + 1 /\ cn[cs[h][j]] = cn[cs[h][tk[h] + 1]]
            BY <1>1, <1>2, <3>6, <4>1
          <5> QED
            BY <1>0, <5>1, Zenon DEF Following
        <4> QED
          BY <4>1, <4>2
      <3>8. Pending(cn, cs, tk, h)
        BY <1>10, <3>2, <3>3, <3>6, <3>7 DEF Pending, e
      <3>9. st[N] = cs[h][tk[h]]
        BY <1>1, <3>8 DEF Merged, N
      <3> QED
        BY <1>3, <2>1, <2>2, <3>1, <3>2, <3>7, <3>9 DEF Together
    <2> QED
      BY <2>3, <2>4, <2>5
  <1> QED
    BY <1>3, <1>4, <1>5, <1>6, <1>7, <1>9, <1>10 DEF Merged, more, on, e

(* Before the merge, when nothing is read of any chunk. *)
LEMMA MergedUnread ==
  ASSUME NEW cn, NEW ky, NEW cs, NEW tk \in Seq(Nat), Len(tk) = Len(cs), cs \in Seq(Seq(DOMAIN cn)),
         \A k \in DOMAIN cs : tk[k] = 0
  PROVE  Merged(cn, ky, cs, tk, << >>)
  <1>1. << >> \in Seq(DOMAIN cn) /\ DOMAIN << >> = {} /\ \A k \in DOMAIN cs : 1..tk[k] = {}
    OBVIOUS
  <1>2. \A k \in DOMAIN cs : tk[k] <= Len(cs[k])
    OBVIOUS
  <1>3. \A k \in DOMAIN cs : ~ Pending(cn, cs, tk, k)
    BY DEF Pending
  <1>4. \A c : Together(cn, c, << >>)
    BY <1>1 DEF Together
  <1> QED
    BY <1>1, <1>2, <1>3, <1>4 DEF Merged

(* What the chunks of the capture are. *)
Conns == [i \in DOMAIN pcap |-> pcap[i].conn]
HeadKeys == [k \in DOMAIN chunks |-> [j \in DOMAIN chunks[k] |-> Key(chunks[k], j)]]
ChunksInv ==
    /\ chunks \in Seq(Seq(DOMAIN pcap))
    /\ \A k \in DOMAIN chunks :
          /\ \A j \in DOMAIN chunks[k] : chunks[k][j] \in ChunkOf(k - 1)
          /\ \A x, y \in DOMAIN chunks[k] : x < y => Before(Key(All, chunks[k][x]), Key(All, chunks[k][y]))

(* The chunks of batch_sort are as the merge wants them. *)
LEMMA LaidOut ==
  ASSUME pcap \in Seq(Packets), ChunksInv
  PROVE  Laid(Conns, HeadKeys, chunks)
  <1>1. /\ chunks \in Seq(Seq(DOMAIN pcap)) /\ DOMAIN Conns = DOMAIN pcap
        /\ DOMAIN chunks = 1..Len(chunks) /\ Len(chunks) \in Nat
        /\ \A k \in DOMAIN chunks : chunks[k] \in Seq(DOMAIN pcap)
    BY DEF ChunksInv, Conns
  <1>2. \A k \in DOMAIN chunks : \A j \in DOMAIN chunks[k] :
            /\ HeadKeys[k][j] = Key(chunks[k], j) /\ chunks[k][j] \in DOMAIN pcap
            /\ Conns[chunks[k][j]] = pcap[chunks[k][j]].conn
    <2> SUFFICES ASSUME NEW k \in DOMAIN chunks, NEW j \in DOMAIN chunks[k]
                 PROVE  /\ HeadKeys[k][j] = Key(chunks[k], j) /\ chunks[k][j] \in DOMAIN pcap
                        /\ Conns[chunks[k][j]] = pcap[chunks[k][j]].conn
      OBVIOUS
    <2>1. chunks[k] \in Seq(DOMAIN pcap)
      BY <1>1
    <2>2. chunks[k][j] \in DOMAIN pcap
      BY <2>1
    <2> QED
      BY <2>2 DEF HeadKeys, Conns
  <1>3. Keyed(HeadKeys, chunks)
    <2> SUFFICES ASSUME NEW k \in DOMAIN chunks, NEW i \in DOMAIN chunks[k]
                 PROVE  /\ HeadKeys[k][i] = <<HeadKeys[k][i][1], chunks[k][i]>>
                        /\ HeadKeys[k][i][1] \in Nat /\ chunks[k][i] \in Nat
      BY DEF Keyed
    <2>1. Key(chunks[k], i) = <<Key(chunks[k], i)[1], chunks[k][i]>> /\ Key(chunks[k], i)[1] \in Nat
      BY <1>1, KeyOf
    <2>2. chunks[k][i] \in Nat
      BY <1>2
    <2> QED
      BY <1>2, <2>1, <2>2
  <1>4. Ranked(Conns, HeadKeys, chunks)
    <2> SUFFICES ASSUME NEW k \in DOMAIN chunks, NEW i \in DOMAIN chunks[k], NEW j \in DOMAIN chunks[k],
                        Conns[chunks[k][i]] = Conns[chunks[k][j]]
                 PROVE  HeadKeys[k][i][1] = HeadKeys[k][j][1]
      BY DEF Ranked
    <2>1. pcap[chunks[k][i]].conn = pcap[chunks[k][j]].conn
      BY <1>2
    <2>2. Key(chunks[k], i)[1] = Key(chunks[k], j)[1]
      BY <1>1, <2>1, KeyOf
    <2> QED
      BY <1>2, <2>2
  <1>5. Separate(Conns, HeadKeys, chunks)
    <2> SUFFICES ASSUME NEW k \in DOMAIN chunks, NEW l \in DOMAIN chunks, NEW i \in DOMAIN chunks[k], NEW j \in DOMAIN chunks[l]
                 PROVE  /\ HeadKeys[k][i][1] = HeadKeys[l][j][1] => Conns[chunks[k][i]] = Conns[chunks[l][j]]
                        /\ chunks[k][i] = chunks[l][j] => k = l
      BY DEF Separate
    <2>1. ASSUME HeadKeys[k][i][1] = HeadKeys[l][j][1] PROVE Conns[chunks[k][i]] = Conns[chunks[l][j]]
      <3>1. Key(chunks[k], i)[1] = Key(chunks[l], j)[1]
        BY <1>2, <2>1
      <3>2. pcap[chunks[k][i]].conn = pcap[chunks[l][j]].conn
        BY <1>1, <3>1, KeysApart
      <3> QED
        BY <1>2, <3>2
    <2>2. ASSUME chunks[k][i] = chunks[l][j] PROVE k = l
      <3>1. chunks[k][i] \in ChunkOf(k - 1) /\ chunks[k][i] \in ChunkOf(l - 1) /\ k - 1 \in Nat /\ l - 1 \in Nat
        <4>1. chunks[k][i] \in ChunkOf(k - 1) /\ chunks[l][j] \in ChunkOf(l - 1)
          BY Zenon DEF ChunksInv
        <4>2. k - 1 \in Nat /\ l - 1 \in Nat
          <5>1. k \in 1..Len(chunks) /\ l \in 1..Len(chunks)
            BY <1>1, Zenon
          <5> QED
            BY <5>1
        <4> QED
          BY <2>2, <4>1, <4>2, Zenon
      <3>2. k - 1 = l - 1
        BY <3>1, ChunksApart
      <3> QED
        BY <1>1, <3>2
    <2> QED
      BY <2>1, <2>2
  (* Sorted by their keys in the capture, the packets of a connection follow one another. *)
  <1>6. Following(Conns, chunks)
    <2> SUFFICES ASSUME NEW k \in DOMAIN chunks, NEW x \in DOMAIN chunks[k], NEW y \in DOMAIN chunks[k], NEW z \in DOMAIN chunks[k],
                        x <= y, y <= z, Conns[chunks[k][x]] = Conns[chunks[k][z]]
                 PROVE  Conns[chunks[k][y]] = Conns[chunks[k][x]]
      BY DEF Following
    <2> DEFINE a == chunks[k][x]  b == chunks[k][y]  c == chunks[k][z]
    <2>1. x \in Nat /\ y \in Nat /\ z \in Nat
      BY <1>1
    <2>2. CASE x = y \/ y = z
      BY <2>2
    <2>3. CASE x # y /\ y # z
      <3>1. x < y /\ y < z
        BY <2>1, <2>3
      <3>2. Before(Key(All, a), Key(All, b)) /\ Before(Key(All, b), Key(All, c))
        BY <3>1 DEF ChunksInv
      <3>3. a \in DOMAIN pcap /\ b \in DOMAIN pcap /\ c \in DOMAIN pcap /\ pcap[a].conn = pcap[c].conn
        BY <1>2
      <3> HIDE DEF a, b, c
      <3>4. All \in Seq(DOMAIN pcap) /\ DOMAIN All = DOMAIN pcap /\ \A i \in DOMAIN pcap : All[i] = i
        BY DEF All
      <3>5. Key(All, a)[1] = Key(All, c)[1] /\ Key(All, a)[1] \in Nat /\ Key(All, b)[1] \in Nat
        <4>1. pcap[All[a]].conn = pcap[All[c]].conn
          BY <3>3, <3>4
        <4>2. Key(All, c)[1] = Key(All, a)[1] /\ Key(All, a)[1] \in Nat
          BY <3>3, <3>4, <4>1, KeyOf
        <4>3. Key(All, b)[1] \in Nat
          BY <3>3, <3>4, KeyOf
        <4> QED
          BY <4>2, <4>3
      <3>6. Key(All, a)[1] = Key(All, b)[1]
        BY <3>2, <3>5 DEF Before
      <3>7. pcap[All[a]].conn = pcap[All[b]].conn
        BY <3>3, <3>4, <3>6, KeysApart
      <3>8. pcap[a].conn = pcap[b].conn
        BY <3>3, <3>4, <3>7
      <3> QED
        BY <1>2, <3>8 DEF a, b
    <2> QED
      BY <2>2, <2>3
  <1> QED
    BY <1>1, <1>3, <1>4, <1>5, <1>6 DEF Laid

-----------------------------------------------------------------------------
(* Dissecting *)

NetFields == {"hosts", "unique", "domains", "tcp", "udp", "seen", "last", "dead", "icmp", "http", "tls",
              "dns", "smtp", "irc", "offset", "reported"}
Keeping(g, n) == DOMAIN g = NetFields /\ g.tcp = n.tcp /\ g.udp = n.udp /\ g.seen = n.seen /\ g.offset = n.offset
(* A connection that is seen for the first time is listed. *)
Hears(g, n, p) ==
    /\ DOMAIN g = NetFields /\ g.offset = n.offset
    /\ IF p.kind \in {"tcp", "udp"} /\ p.conn \notin n.seen
       THEN /\ g.seen = n.seen \union {p.conn}
            /\ \/ g.tcp = Append(n.tcp, Listed(n, p)) /\ g.udp = n.udp
               \/ g.udp = Append(n.udp, Listed(n, p)) /\ g.tcp = n.tcp
       ELSE g.tcp = n.tcp /\ g.udp = n.udp /\ g.seen = n.seen

(* What changes nothing of the connections that are listed. *)
LEMMA KeptBy ==
  ASSUME NEW n, DOMAIN n = NetFields, NEW v, NEW w
  PROVE  /\ Keeping(n, n)
         /\ Keeping([n EXCEPT !.hosts = v], n) /\ Keeping([n EXCEPT !.hosts = v, !.unique = w], n)
         /\ Keeping([n EXCEPT !.http = v], n) /\ Keeping([n EXCEPT !.smtp = v], n) /\ Keeping([n EXCEPT !.irc = v], n)
         /\ Keeping([n EXCEPT !.tls = v], n) /\ Keeping([n EXCEPT !.domains = v], n) /\ Keeping([n EXCEPT !.dns = v], n)
         /\ Keeping([n EXCEPT !.icmp = v], n) /\ Keeping([n EXCEPT !.last = v, !.dead = w], n)
         /\ Keeping([n EXCEPT !.reported = v, !.smtp = w], n)
  BY DEF Keeping, NetFields

(* The addresses change nothing of them. *)
LEMMA HostsKept ==
  ASSUME NEW n, DOMAIN n = NetFields, NEW p
  PROVE  Keeping(AddHosts(n, p), n)
  <1> DEFINE a == AddSource(n, Src(p))  b == AddDest(a, Dst(p))
  <1>1. Keeping(a, n)
    <2>1. a = n \/ \E v : a = [n EXCEPT !.hosts = v]
      BY DEF AddSource
    <2> HIDE DEF a
    <2> QED
      BY <2>1, KeptBy
  <1> HIDE DEF a
  <1>2. DOMAIN a = NetFields
    BY <1>1 DEF Keeping
  <1>3. Keeping(b, a)
    <2>1. CASE Dst(p) \in ToSet(a.hosts)
      <3>1. b = a
        BY <2>1 DEF AddDest
      <3> QED
        BY <1>2, <3>1, KeptBy
    <2>2. CASE Dst(p) \notin ToSet(a.hosts)
      <3>1. PICK v, w : b = [a EXCEPT !.hosts = v, !.unique = w]
        BY <2>2 DEF AddDest
      <3> HIDE DEF b
      <3> QED
        BY <1>2, <3>1, KeptBy
    <2> QED
      BY <2>1, <2>2
  <1>4. AddHosts(n, p) = b
    BY DEF AddHosts, a
  <1> HIDE DEF b
  <1> QED
    BY <1>1, <1>3, <1>4 DEF Keeping

(* What is found in the payload of a TCP packet. *)
LEMMA TcpKept ==
  ASSUME NEW n, DOMAIN n = NetFields, NEW p
  PROVE  Keeping(TcpDissect(n, p), n)
  <1> DEFINE a == AddHttp(n, p)  b == Reassemble(a, p)  c == AddIrc(b, p)  d == HttpsIdentify(c, p)
  <1>1. Keeping(a, n)
    <2>1. a = n \/ \E v : a = [n EXCEPT !.http = v]
      BY DEF AddHttp
    <2> HIDE DEF a
    <2> QED
      BY <2>1, KeptBy
  <1> HIDE DEF a
  <1>2. DOMAIN a = NetFields
    BY <1>1 DEF Keeping
  <1>3. Keeping(b, a)
    <2>1. b = a \/ \E v : b = [a EXCEPT !.smtp = v]
      BY DEF Reassemble
    <2> HIDE DEF b
    <2> QED
      BY <1>2, <2>1, KeptBy
  <1> HIDE DEF b
  <1>4. DOMAIN b = NetFields
    BY <1>3 DEF Keeping
  <1>5. Keeping(c, b)
    <2>1. c = b \/ \E v : c = [b EXCEPT !.irc = v]
      BY DEF AddIrc
    <2> HIDE DEF c
    <2> QED
      BY <1>4, <2>1, KeptBy
  <1> HIDE DEF c
  <1>6. DOMAIN c = NetFields
    BY <1>5 DEF Keeping
  <1>7. Keeping(d, c)
    <2>1. d = c \/ \E v : d = [c EXCEPT !.tls = v]
      BY DEF HttpsIdentify
    <2> HIDE DEF d
    <2> QED
      BY <1>6, <2>1, KeptBy
  <1>8. TcpDissect(n, p) = d
    BY DEF TcpDissect, a, b, c
  <1> HIDE DEF d
  <1> QED
    BY <1>1, <1>3, <1>5, <1>7, <1>8 DEF Keeping

(* What is found in the payload of a UDP packet. *)
LEMMA UdpKept ==
  ASSUME NEW n, DOMAIN n = NetFields, NEW p
  PROVE  Keeping(UdpDissect(n, p), n)
  <1> DEFINE a == AddDomain(n, p.body)  b == AddDns(n, p)
  <1>1. Keeping(a, n)
    <2>1. a = n \/ \E v : a = [n EXCEPT !.domains = v]
      BY DEF AddDomain
    <2> HIDE DEF a
    <2> QED
      BY <2>1, KeptBy
  <1>2. DOMAIN a = NetFields
    BY <1>1 DEF Keeping
  <1>3. \E v : b = [a EXCEPT !.dns = v]
    BY DEF AddDns
  <1> HIDE DEF a, b
  <1>4. Keeping(b, a)
    BY <1>2, <1>3, KeptBy
  <1>5. Keeping(b, n)
    BY <1>1, <1>4 DEF Keeping
  <1>6. UdpDissect(n, p) = n \/ UdpDissect(n, p) = b
    BY DEF UdpDissect, b
  <1> QED
    BY <1>5, <1>6, KeptBy

(* What is found in a packet: nothing that has to do with the list of connections but, for
   the first data of one, its entry there. *)
LEMMA FoundHears ==
  ASSUME NEW n, DOMAIN n = NetFields, NEW p
  PROVE  Hears(Found(n, p), n, p)
  <1> DEFINE h == AddHosts(n, p)
  <1>1. DOMAIN h = NetFields /\ h.tcp = n.tcp /\ h.udp = n.udp /\ h.seen = n.seen /\ h.offset = n.offset
    BY HostsKept DEF Keeping
  <1> HIDE DEF h
  <1>2. CASE p.kind = "tcp"
    <2> DEFINE d == TcpDissect(h, p)
    <2>1. DOMAIN d = NetFields /\ d.tcp = h.tcp /\ d.udp = h.udp /\ d.seen = h.seen /\ d.offset = h.offset
      BY <1>1, TcpKept DEF Keeping
    <2>2. Found(n, p) = AddTcp(d, p)
      BY <1>2 DEF Found, h
    <2> HIDE DEF d
    <2>3. CASE p.conn \in n.seen
      <3>1. AddTcp(d, p) = d
        BY <1>1, <2>1, <2>3 DEF AddTcp
      <3> QED
        BY <1>1, <2>1, <2>2, <2>3, <3>1 DEF Hears
    <2>4. CASE p.conn \notin n.seen
      <3>1. Listed(d, p) = Listed(n, p)
        BY <1>1, <2>1 DEF Listed
      <3> DEFINE g == AddTcp(d, p)  e == Listed(d, p)
      <3>2. g = [d EXCEPT !.tcp = Append(d.tcp, e), !.seen = d.seen \union {p.conn}]
        BY <1>1, <2>1, <2>4 DEF AddTcp
      <3> HIDE DEF g, e
      <3>3. /\ DOMAIN g = NetFields /\ g.tcp = Append(n.tcp, e) /\ g.seen = n.seen \union {p.conn}
            /\ g.udp = n.udp /\ g.offset = n.offset
        BY <1>1, <2>1, <3>2 DEF NetFields
      <3>4. e = Listed(n, p) /\ Found(n, p) = g
        BY <2>2, <3>1 DEF e, g
      <3> QED
        BY <1>2, <2>4, <3>3, <3>4 DEF Hears
    <2> QED
      BY <2>3, <2>4
  <1>3. CASE p.kind = "udp"
    <2> DEFINE d == UdpDissect(h, p)
    <2>1. DOMAIN d = NetFields /\ d.tcp = h.tcp /\ d.udp = h.udp /\ d.seen = h.seen /\ d.offset = h.offset
      BY <1>1, UdpKept DEF Keeping
    <2>2. Found(n, p) = AddUdp(d, p)
      BY <1>3 DEF Found, h
    <2> HIDE DEF d
    <2>3. CASE p.conn \in n.seen
      <3>1. AddUdp(d, p) = d
        BY <1>1, <2>1, <2>3 DEF AddUdp
      <3> QED
        BY <1>1, <2>1, <2>2, <2>3, <3>1 DEF Hears
    <2>4. CASE p.conn \notin n.seen
      <3>1. Listed(d, p) = Listed(n, p)
        BY <1>1, <2>1 DEF Listed
      <3> DEFINE g == AddUdp(d, p)  e == Listed(d, p)
      <3>2. g = [d EXCEPT !.udp = Append(d.udp, e), !.seen = d.seen \union {p.conn}]
        BY <1>1, <2>1, <2>4 DEF AddUdp
      <3> HIDE DEF g, e
      <3>3. /\ DOMAIN g = NetFields /\ g.udp = Append(n.udp, e) /\ g.seen = n.seen \union {p.conn}
            /\ g.tcp = n.tcp /\ g.offset = n.offset
        BY <1>1, <2>1, <3>2 DEF NetFields
      <3>4. e = Listed(n, p) /\ Found(n, p) = g
        BY <2>2, <3>1 DEF e, g
      <3> QED
        BY <1>3, <2>4, <3>3, <3>4 DEF Hears
    <2> QED
      BY <2>3, <2>4
  <1>4. CASE p.kind = "syn"
    <2> DEFINE g == Retry(h, p)
    <2>1. PICK v, w : g = [h EXCEPT !.last = v, !.dead = w]
      BY DEF Retry
    <2>2. Found(n, p) = g
      BY <1>4 DEF Found, h
    <2> HIDE DEF g
    <2>3. Keeping(g, h)
      BY <1>1, <2>1, KeptBy
    <2> QED
      BY <1>1, <1>4, <2>2, <2>3 DEF Keeping, Hears
  <1>5. CASE p.kind = "icmp"
    <2> DEFINE g == IcmpDissect(h, p)
    <2>1. g = h \/ g = [h EXCEPT !.icmp = h.icmp + 1]
      BY DEF IcmpDissect
    <2>2. Found(n, p) = g
      BY <1>5 DEF Found, h
    <2> HIDE DEF g
    <2>3. Keeping(h, h) /\ Keeping([h EXCEPT !.icmp = h.icmp + 1], h)
      BY <1>1, KeptBy
    <2>4. Keeping(g, h)
      BY <2>1, <2>3
    <2> QED
      BY <1>1, <1>5, <2>2, <2>4 DEF Keeping, Hears
  <1>6. CASE p.kind \notin {"tcp", "udp", "syn", "icmp"}
    <2>1. Found(n, p) = n \/ Found(n, p) = h
      <3>1. CASE p.kind = "arp"
        BY <3>1 DEF Found
      <3>2. CASE p.kind # "arp"
        BY <1>6, <3>2 DEF Found, h
      <3> QED
        BY <3>1, <3>2
    <2> QED
      BY <1>1, <1>6, <2>1 DEF Hears
  <1> QED
    BY <1>2, <1>3, <1>4, <1>5, <1>6

(* What was found before packet a of a file: each connection with data is remembered, and
   each that is listed with the offset of its first data, unless the packet before could
   not be read. *)
HasData(p) == p.kind \in {"tcp", "udp"}
ListedAt(pc, st, a, s) ==
    \E q \in 1..a - 1 :
        /\ s.conn = pc[st[q]].conn /\ HasData(pc[st[q]])
        /\ \A x \in 1..q - 1 : HasData(pc[st[x]]) => pc[st[x]].conn # s.conn
        /\ s.offset = q \/ (q > 1 /\ Unreadable(pc[st[q - 1]]))
FoundSoFar(pc, st, a, n) ==
    /\ a \in Nat \ {0} /\ DOMAIN n = NetFields /\ IsSeq(n.tcp) /\ IsSeq(n.udp)
    /\ n.offset = a \/ (a > 1 /\ Unreadable(pc[st[a - 1]]))
    /\ \A q \in 1..a - 1 : HasData(pc[st[q]]) => pc[st[q]].conn \in n.seen
    /\ \A s \in ToSet(n.tcp) \union ToSet(n.udp) : ListedAt(pc, st, a, s)

(* Before the first packet it is the same for any file. *)
LEMMA AtFirst ==
  ASSUME NEW pc, NEW st, NEW n, FoundSoFar(pc, st, 1, n), NEW qc, NEW tt
  PROVE  FoundSoFar(qc, tt, 1, n)
  <1>1. 1..1 - 1 = {}
    OBVIOUS
  <1>2. /\ DOMAIN n = NetFields /\ IsSeq(n.tcp) /\ IsSeq(n.udp) /\ n.offset = 1
        /\ \A s \in ToSet(n.tcp) \union ToSet(n.udp) : ListedAt(pc, st, 1, s)
    BY DEF FoundSoFar
  <1>3. ToSet(n.tcp) \union ToSet(n.udp) = {}
    BY <1>1, <1>2 DEF ListedAt
  <1> QED
    BY <1>1, <1>2, <1>3 DEF FoundSoFar

(* It stays so when other things are found. *)
LEMMA FoundBy ==
  ASSUME NEW pc, NEW st, NEW a, NEW n, FoundSoFar(pc, st, a, n), NEW m, Keeping(m, n)
  PROVE  FoundSoFar(pc, st, a, m)
  BY DEF FoundSoFar, Keeping

(* It is so after one packet more. *)
LEMMA DissectStep ==
  ASSUME NEW pc, NEW st, NEW a, NEW n, FoundSoFar(pc, st, a, n), NEW p, p = pc[st[a]]
  PROVE  FoundSoFar(pc, st, a + 1, OffsetNoted(Found(n, p), p, a + 1))
  <1> DEFINE g == Found(n, p)  m == OffsetNoted(g, p, a + 1)
  <1>1. /\ a \in Nat \ {0} /\ DOMAIN n = NetFields /\ IsSeq(n.tcp) /\ IsSeq(n.udp)
        /\ n.offset = a \/ (a > 1 /\ Unreadable(pc[st[a - 1]]))
        /\ \A q \in 1..a - 1 : HasData(pc[st[q]]) => pc[st[q]].conn \in n.seen
        /\ \A s \in ToSet(n.tcp) \union ToSet(n.udp) : ListedAt(pc, st, a, s)
    BY DEF FoundSoFar
  <1>2. Hears(g, n, p)
    BY <1>1, FoundHears
  <1> HIDE DEF g
  <1>3. /\ DOMAIN m = NetFields /\ m.tcp = g.tcp /\ m.udp = g.udp /\ m.seen = g.seen
        /\ m.offset = a + 1 \/ Unreadable(p)
    <2>1. DOMAIN g = NetFields
      BY <1>2 DEF Hears
    <2>2. m = g \/ m = [g EXCEPT !.offset = a + 1]
      BY DEF OffsetNoted
    <2>3. ~ Unreadable(p) => m = [g EXCEPT !.offset = a + 1]
      BY DEF OffsetNoted
    <2> HIDE DEF m
    <2> QED
      BY <2>1, <2>2, <2>3 DEF NetFields
  <1> HIDE DEF m
  <1>4. m.offset = a + 1 \/ (a + 1 > 1 /\ Unreadable(pc[st[a + 1 - 1]]))
    <2>1. a + 1 > 1 /\ a + 1 - 1 = a
      BY <1>1
    <2> QED
      BY <1>3, <2>1
  <1>5. 1..a + 1 - 1 = 1..a - 1 \union {a} /\ a \notin 1..a - 1
    BY <1>1
  <1>6. ASSUME NEW s, ListedAt(pc, st, a, s) PROVE ListedAt(pc, st, a + 1, s)
    BY <1>5, <1>6 DEF ListedAt
  <1>7. ASSUME HasData(p) /\ p.conn \notin n.seen
        PROVE  FoundSoFar(pc, st, a + 1, m)
    <2> DEFINE e == Listed(n, p)
    <2>1. e.conn = p.conn /\ e.offset = n.offset
      BY DEF Listed
    <2> HIDE DEF e
    <2>2. /\ g.seen = n.seen \union {p.conn}
          /\ \/ g.tcp = Append(n.tcp, e) /\ g.udp = n.udp
             \/ g.udp = Append(n.udp, e) /\ g.tcp = n.tcp
      BY <1>2, <1>7 DEF Hears, HasData, e
    <2>3. ListedAt(pc, st, a + 1, e)
      <3>1. \A x \in 1..a - 1 : HasData(pc[st[x]]) => pc[st[x]].conn # e.conn
        BY <1>1, <1>7, <2>1
      <3>2. a \in 1..a + 1 - 1
        BY <1>5
      <3>3. e.conn = pc[st[a]].conn /\ HasData(pc[st[a]])
        BY <1>7, <2>1
      <3>4. e.offset = a \/ (a > 1 /\ Unreadable(pc[st[a - 1]]))
        BY <1>1, <2>1
      <3> QED
        BY <3>1, <3>2, <3>3, <3>4 DEF ListedAt
    <2>4. IsSeq(m.tcp) /\ IsSeq(m.udp)
      <3>1. IsSeq(Append(n.tcp, e)) /\ IsSeq(Append(n.udp, e))
        BY <1>1, IsSeqAppend
      <3> QED
        BY <1>1, <1>3, <2>2, <3>1
    <2>5. /\ ToSet(Append(n.tcp, e)) = ToSet(n.tcp) \union {e}
          /\ ToSet(Append(n.udp, e)) = ToSet(n.udp) \union {e}
      <3>1. ASSUME NEW z, IsSeq(z) PROVE ToSet(Append(z, e)) = ToSet(z) \union {e}
        <4> DEFINE Y == ToSet(z) \union {e}
        <4>1. z \in Seq(Y) /\ e \in Y
          BY <3>1 DEF IsSeq
        <4> HIDE DEF Y
        <4> QED
          BY <4>1, SetOfAppend
      <3> QED
        BY <1>1, <3>1
    <2>6. \A s \in ToSet(m.tcp) \union ToSet(m.udp) : s \in ToSet(n.tcp) \union ToSet(n.udp) \/ s = e
      BY <1>3, <2>2, <2>5
    <2>7. \A s \in ToSet(m.tcp) \union ToSet(m.udp) : ListedAt(pc, st, a + 1, s)
      BY <1>1, <1>6, <2>3, <2>6
    <2>8. \A q \in 1..a + 1 - 1 : HasData(pc[st[q]]) => pc[st[q]].conn \in m.seen
      BY <1>1, <1>3, <1>5, <2>2
    <2>9. a + 1 \in Nat \ {0}
      BY <1>1
    <2> QED
      BY <1>3, <1>4, <2>4, <2>7, <2>8, <2>9 DEF FoundSoFar
  <1>8. ASSUME ~ (HasData(p) /\ p.conn \notin n.seen)
        PROVE  FoundSoFar(pc, st, a + 1, m)
    <2>1. g.tcp = n.tcp /\ g.udp = n.udp /\ g.seen = n.seen
      BY <1>2, <1>8 DEF Hears, HasData
    <2>2. \A s \in ToSet(m.tcp) \union ToSet(m.udp) : ListedAt(pc, st, a + 1, s)
      BY <1>1, <1>3, <1>6, <2>1
    <2>3. \A q \in 1..a + 1 - 1 : HasData(pc[st[q]]) => pc[st[q]].conn \in m.seen
      BY <1>1, <1>3, <1>5, <1>8, <2>1
    <2>4. a + 1 \in Nat \ {0} /\ IsSeq(m.tcp) /\ IsSeq(m.udp)
      BY <1>1, <1>3, <2>1
    <2> QED
      BY <1>3, <1>4, <2>2, <2>3, <2>4 DEF FoundSoFar
  <1>9. FoundSoFar(pc, st, a + 1, m)
    BY <1>7, <1>8
  <1> QED
    BY <1>9 DEF m, g

-----------------------------------------------------------------------------
(* The same of a capture and of chunks that are given, so that it can be said of the next
   state as well. *)
ConnsIn(pc) == [i \in DOMAIN pc |-> pc[i].conn]
AllIn(pc) == [i \in DOMAIN pc |-> i]
KeyIn(pc, f, i) ==
    <<FlowRank[pc[f[i]].conn][pc[f[Min({j \in 1..i : pc[f[j]].conn = pc[f[i]].conn})]].dir + 1], f[i]>>
KeysIn(pc, cs) == [k \in DOMAIN cs |-> [j \in DOMAIN cs[k] |-> KeyIn(pc, cs[k], j)]]
Piece(pc, n) == {i \in DOMAIN pc : i > n * ChunkSize /\ i <= (n + 1) * ChunkSize}
InChunks(pc, cs) ==
    /\ cs \in Seq(Seq(DOMAIN pc))
    /\ \A k \in DOMAIN cs :
          /\ \A j \in DOMAIN cs[k] : cs[k][j] \in Piece(pc, k - 1)
          /\ \A x, y \in DOMAIN cs[k] : x < y => Before(KeyIn(pc, AllIn(pc), cs[k][x]), KeyIn(pc, AllIn(pc), cs[k][y]))

(* They are the ones of the state. *)
LEMMA Given ==
  /\ \A f, i : Key(f, i) = KeyIn(pcap, f, i)
  /\ All = AllIn(pcap) /\ Conns = ConnsIn(pcap) /\ HeadKeys = KeysIn(pcap, chunks)
  /\ \A n : ChunkOf(n) = Piece(pcap, n)
  /\ ChunksInv <=> InChunks(pcap, chunks)
  <1>1. \A f, i : Key(f, i) = KeyIn(pcap, f, i)
    BY DEF Key, SeenFirst, KeyIn
  <1>2. All = AllIn(pcap) /\ Conns = ConnsIn(pcap)
    BY DEF All, AllIn, Conns, ConnsIn
  <1>3. HeadKeys = KeysIn(pcap, chunks)
    BY <1>1 DEF HeadKeys, KeysIn
  <1>4. \A n : ChunkOf(n) = Piece(pcap, n)
    BY DEF ChunkOf, Piece
  <1>5. ChunksInv <=> InChunks(pcap, chunks)
    BY <1>1, <1>2, <1>4 DEF ChunksInv, InChunks
  <1> QED
    BY <1>1, <1>2, <1>3, <1>4, <1>5

(* A capture that is sorted: its chunks, how far they are merged, and what was found in it. *)
SortInv(pc, stage, cs, tk, st, a, n) ==
    /\ InChunks(pc, cs) /\ Merged(ConnsIn(pc), KeysIn(pc, cs), cs, tk, st)
    /\ stage = "capture" => cs = << >> /\ tk = << >>
    /\ stage = "sort" /\ Piece(pc, Len(cs)) # {} => \A k \in DOMAIN cs : tk[k] = 0
    /\ (\A k \in DOMAIN cs : tk[k] = 0) => st = << >>
    /\ stage \in {"dissect", "done"} => HeadsOf(cs, tk) = {}
    /\ stage \in {"capture", "sort", "failed"} => a = 1
    /\ FoundSoFar(pc, st, a, n)
NetInv == pcap \in Seq(Packets) /\ (sortIt => SortInv(pcap, nstage, chunks, taken, sorted, at, net))

(* Before the sort there are no chunks. *)
LEMMA Unsorted ==
  ASSUME NEW pc, NEW st, NEW n, FoundSoFar(pc, st, 1, n), NEW qc, NEW stage
  PROVE  SortInv(qc, stage, << >>, << >>, << >>, 1, n)
  <1>1. DOMAIN << >> = {} /\ Len(<< >>) = 0
    OBVIOUS
  <1>2. InChunks(qc, << >>)
    BY <1>1 DEF InChunks
  <1>3. Merged(ConnsIn(qc), KeysIn(qc, << >>), << >>, << >>, << >>)
    <2> DEFINE cn == ConnsIn(qc)  ky == KeysIn(qc, << >>)
    <2> HIDE DEF cn, ky
    <2>1. << >> \in Seq(Nat) /\ << >> \in Seq(Seq(DOMAIN cn))
      OBVIOUS
    <2>2. Merged(cn, ky, << >>, << >>, << >>)
      BY <1>1, <2>1, MergedUnread
    <2> QED
      BY <2>2 DEF cn, ky
  <1>4. HeadsOf(<< >>, << >>) = {}
    BY <1>1 DEF HeadsOf
  <1>5. FoundSoFar(qc, << >>, 1, n)
    BY AtFirst
  <1> QED
    BY <1>1, <1>2, <1>3, <1>4, <1>5 DEF SortInv

(* The invariant of the processing of a capture holds at first, and each step keeps it. *)
LEMMA NetBegins ==
  ASSUME NetworkInit
  PROVE  NetInv
  <1>1. IsSeq(<< >>) /\ ToSet(<< >>) = {} /\ 1..1 - 1 = {}
    BY DEF IsSeq, ToSet
  <1>2. /\ DOMAIN net = NetFields /\ net.tcp = << >> /\ net.udp = << >> /\ net.offset = 1
        /\ pcap = << >> /\ chunks = << >> /\ taken = << >> /\ sorted = << >> /\ at = 1
    BY DEF NetworkInit, NetFields
  <1>3. FoundSoFar(pcap, sorted, 1, net)
    BY <1>1, <1>2 DEF FoundSoFar
  <1>4. SortInv(pcap, nstage, << >>, << >>, << >>, 1, net)
    BY <1>3, Unsorted
  <1>5. pcap \in Seq(Packets)
    BY <1>2
  <1> QED
    BY <1>2, <1>4, <1>5 DEF NetInv

(* Packets are captured, and the analysis begins. *)
LEMMA CaptureStep ==
  ASSUME NetInv, (\E p \in Packets : Capture(p)) \/ Analyse
  PROVE  NetInv'
  <1>1. pcap' \in Seq(Packets)
    BY DEF NetInv, Capture, Analyse
  <1>2. ASSUME sortIt'
        PROVE  SortInv(pcap', nstage', chunks', taken', sorted', at', net')
    <2>1. sortIt /\ nstage = "capture" /\ UNCHANGED <<chunks, taken, at, net>> /\ (sorted' = sorted \/ sorted' = << >>)
      BY <1>2 DEF Capture, Analyse
    <2>2. SortInv(pcap, nstage, chunks, taken, sorted, at, net)
      BY <2>1 DEF NetInv
    <2>3. /\ chunks = << >> /\ taken = << >> /\ at = 1 /\ FoundSoFar(pcap, sorted, at, net)
          /\ (\A k \in DOMAIN chunks : taken[k] = 0) => sorted = << >>
      BY <2>1, <2>2 DEF SortInv
    <2>4. sorted = << >>
      <3>1. DOMAIN chunks = {}
        BY <2>3
      <3> QED
        BY <2>3, <3>1
    <2>5. SortInv(pcap', nstage', << >>, << >>, << >>, 1, net)
      BY <2>3, Unsorted
    <2> QED
      BY <2>1, <2>3, <2>4, <2>5
  <1> QED
    BY <1>1, <1>2 DEF NetInv

(* One chunk more, sorted. *)
LEMMA ChunksGrow ==
  ASSUME pcap \in Seq(Packets), InChunks(pcap, chunks)
  PROVE  InChunks(pcap, Append(chunks, SortedChunk(Len(chunks))))
  <1> DEFINE n == Len(chunks)  c == SortedChunk(n)  cs == Append(chunks, c)  D == DOMAIN pcap
             Good(k, q) == /\ \A j \in DOMAIN q : q[j] \in Piece(pcap, k - 1)
                           /\ \A x, y \in DOMAIN q :
                                 x < y => Before(KeyIn(pcap, AllIn(pcap), q[x]), KeyIn(pcap, AllIn(pcap), q[y]))
  <1>1. chunks \in Seq(Seq(D)) /\ n \in Nat /\ DOMAIN chunks = 1..n /\ \A k \in DOMAIN chunks : Good(k, chunks[k])
    BY DEF InChunks
  <1>2. /\ c \in Seq(ChunkOf(n))
        /\ \A j, k \in DOMAIN c : j < k => Before(Key(All, c[j]), Key(All, c[k]))
    BY <1>1, ChunkSorts
  <1>3. c \in Seq(D) /\ \A j \in DOMAIN c : c[j] \in Piece(pcap, n)
    <2>1. ChunkOf(n) = Piece(pcap, n) /\ Piece(pcap, n) \subseteq D
      BY Given DEF Piece
    <2> HIDE DEF c
    <2> QED
      BY <1>2, <2>1
  <1>4. \A j, k \in DOMAIN c : j < k => Before(KeyIn(pcap, AllIn(pcap), c[j]), KeyIn(pcap, AllIn(pcap), c[k]))
    BY <1>2, Given
  <1>5. n + 1 - 1 = n
    BY <1>1
  <1>6. Good(n + 1, c)
    BY <1>3, <1>4, <1>5
  <1> HIDE DEF c, Good
  <1>7. /\ cs \in Seq(Seq(D)) /\ DOMAIN cs = 1..n + 1 /\ cs[n + 1] = c
        /\ \A k \in 1..n : cs[k] = chunks[k]
    BY <1>1, <1>3, AppendProperties
  <1> HIDE DEF cs
  <1>8. \A k \in DOMAIN cs : Good(k, cs[k])
    <2>1. \A k \in 1..n + 1 : k \in 1..n \/ k = n + 1
      BY <1>1
    <2> QED
      BY <1>1, <1>6, <1>7, <2>1
  <1>9. InChunks(pcap, cs)
    BY <1>7, <1>8 DEF InChunks, Good
  <1> QED
    BY <1>9 DEF cs, c

(* A chunk is read and sorted, or the sort fails. *)
LEMMA ReadChunkStep ==
  ASSUME NetInv, ReadChunk
  PROVE  NetInv'
  <1>1. pcap \in Seq(Packets) /\ UNCHANGED <<pcap, sortIt, sorted, at, net>> /\ nstage = "sort"
    BY DEF NetInv, ReadChunk
  <1>2. ASSUME sortIt
        PROVE  SortInv(pcap, nstage', chunks', taken', sorted, at, net)
    <2>1. SortInv(pcap, nstage, chunks, taken, sorted, at, net)
      BY <1>2 DEF NetInv
    <2>2. /\ InChunks(pcap, chunks) /\ Merged(ConnsIn(pcap), KeysIn(pcap, chunks), chunks, taken, sorted)
          /\ (\A k \in DOMAIN chunks : taken[k] = 0) => sorted = << >>
          /\ at = 1 /\ FoundSoFar(pcap, sorted, at, net)
      BY <1>1, <2>1 DEF SortInv
    <2>3. Piece(pcap, Len(chunks)) # {}
      BY Given DEF ReadChunk
    <2>4. \A k \in DOMAIN chunks : taken[k] = 0
      BY <1>1, <2>1, <2>3 DEF SortInv
    <2>5. sorted = << >>
      BY <2>2, <2>4
    <2>6. CASE nstage' = "failed" /\ UNCHANGED <<chunks, taken>>
      BY <2>2, <2>6 DEF SortInv
    <2>7. CASE nstage' = nstage /\ chunks' = Append(chunks, SortedChunk(Len(chunks))) /\ taken' = Append(taken, 0)
      <3> DEFINE cs == Append(chunks, SortedChunk(Len(chunks)))  tk == Append(taken, 0)
                 cn == ConnsIn(pcap)  ky == KeysIn(pcap, cs)
      <3>1. InChunks(pcap, cs)
        BY <1>1, <2>2, ChunksGrow
      <3>2. cs \in Seq(Seq(DOMAIN cn)) /\ chunks \in Seq(Seq(DOMAIN cn)) /\ Len(chunks) \in Nat
        BY <2>2, <3>1 DEF InChunks, ConnsIn
      <3>3. taken \in Seq(Nat) /\ Len(taken) = Len(chunks)
        BY <2>2 DEF Merged
      <3>4. Len(cs) = Len(chunks) + 1 /\ DOMAIN cs = 1..Len(chunks) + 1 /\ DOMAIN chunks = 1..Len(chunks)
        BY <3>2
      <3> HIDE DEF cs
      <3>5. tk \in Seq(Nat) /\ Len(tk) = Len(cs) /\ \A k \in DOMAIN cs : tk[k] = 0
        <4>1. /\ tk \in Seq(Nat) /\ Len(tk) = Len(taken) + 1 /\ tk[Len(taken) + 1] = 0
              /\ \A k \in 1..Len(taken) : tk[k] = taken[k]
          BY <3>3, AppendProperties
        <4>2. \A k \in 1..Len(chunks) + 1 : k \in 1..Len(chunks) \/ k = Len(chunks) + 1
          BY <3>2
        <4> QED
          BY <2>4, <3>3, <3>4, <4>1, <4>2
      <3> HIDE DEF tk, cn, ky
      <3>6. Merged(cn, ky, cs, tk, << >>)
        BY <3>2, <3>5, MergedUnread
      <3>7. SortInv(pcap, "sort", cs, tk, sorted, at, net)
        BY <2>2, <2>5, <3>1, <3>5, <3>6 DEF SortInv, cn, ky
      <3> QED
        BY <1>1, <2>7, <3>7 DEF cs, tk
    <2> QED
      BY <2>6, <2>7 DEF ReadChunk
  <1> QED
    BY <1>1, <1>2 DEF NetInv

(* The key of the head of a chunk. *)
LEMMA HeadKeyIn ==
  ASSUME InChunks(pcap, chunks), taken \in Seq(Nat), Len(taken) = Len(chunks)
  PROVE  \A h \in Heads : HeadKey(h) = KeysIn(pcap, chunks)[h][taken[h] + 1]
  <1> SUFFICES ASSUME NEW h \in Heads PROVE HeadKey(h) = KeysIn(pcap, chunks)[h][taken[h] + 1]
    OBVIOUS
  <1>1. chunks \in Seq(Seq(DOMAIN pcap)) /\ h \in DOMAIN chunks /\ taken[h] < Len(chunks[h])
    BY DEF Heads, InChunks
  <1>2. taken[h] \in Nat /\ chunks[h] \in Seq(DOMAIN pcap)
    BY <1>1
  <1>3. taken[h] + 1 \in DOMAIN chunks[h]
    BY <1>1, <1>2
  <1>4. HeadKey(h) = KeyIn(pcap, chunks[h], taken[h] + 1)
    BY Given DEF HeadKey
  <1> QED
    BY <1>1, <1>3, <1>4 DEF KeysIn

(* The least of the heads is merged. *)
LEMMA MergesNext ==
  ASSUME NetInv, Merge
  PROVE  NetInv'
  <1>1. pcap \in Seq(Packets) /\ UNCHANGED <<pcap, nstage, sortIt, chunks, at, net>> /\ nstage = "sort"
    BY DEF NetInv, Merge
  <1>2. ASSUME sortIt
        PROVE  SortInv(pcap, nstage, chunks, taken', sorted', at, net)
    <2> DEFINE cn == ConnsIn(pcap)  ky == KeysIn(pcap, chunks)
               c == CHOOSE h \in Heads : \A g \in Heads \ {h} : Before(HeadKey(h), HeadKey(g))
               st == Append(sorted, chunks[c][taken[c] + 1])  tk == [taken EXCEPT ![c] = taken[c] + 1]
    <2>1. SortInv(pcap, nstage, chunks, taken, sorted, at, net)
      BY <1>2 DEF NetInv
    <2>2. /\ InChunks(pcap, chunks) /\ Merged(cn, ky, chunks, taken, sorted)
          /\ at = 1 /\ FoundSoFar(pcap, sorted, at, net)
      BY <1>1, <2>1 DEF SortInv
    <2>3. Laid(cn, ky, chunks)
      BY <1>1, <2>2, LaidOut, Given
    <2>4. Heads = HeadsOf(chunks, taken) /\ Heads # {}
      BY DEF Heads, HeadsOf, Merge
    <2>5. taken \in Seq(Nat) /\ Len(taken) = Len(chunks) /\ DOMAIN taken = DOMAIN chunks
      <3>1. taken \in Seq(Nat) /\ Len(taken) = Len(chunks) /\ chunks \in Seq(Seq(DOMAIN pcap))
        BY <2>2 DEF Merged, InChunks
      <3> QED
        BY <3>1
    <2>6. \A h \in Heads : HeadKey(h) = ky[h][taken[h] + 1]
      BY <2>2, <2>5, HeadKeyIn
    <2> HIDE DEF cn, ky
    <2>7. PICK h \in Heads : Ahead(ky, chunks, taken, h)
      BY <2>3, <2>4, <2>5, LeastHead
    <2>8. \A g \in Heads \ {h} : Before(HeadKey(h), HeadKey(g))
      BY <2>4, <2>6, <2>7 DEF Ahead
    <2>9. c \in Heads /\ \A g \in Heads \ {c} : Before(HeadKey(c), HeadKey(g))
      BY <2>8
    <2>10. taken' = tk /\ sorted' = st
      BY DEF Merge
    <2> HIDE DEF c
    <2>11. c \in HeadsOf(chunks, taken) /\ Ahead(ky, chunks, taken, c)
      BY <2>4, <2>6, <2>9 DEF Ahead
    <2>12. Merged(cn, ky, chunks, tk, st)
      BY <2>2, <2>3, <2>11, MergeStep
    <2>13. c \in DOMAIN chunks /\ tk[c] # 0
      BY <2>5, <2>11 DEF HeadsOf
    <2>14. Piece(pcap, Len(chunks)) = {}
      BY Given DEF Merge
    <2> HIDE DEF tk, st
    <2>15. FoundSoFar(pcap, st, 1, net)
      BY <2>2, AtFirst
    <2>16. SortInv(pcap, "sort", chunks, tk, st, 1, net)
      BY <2>2, <2>12, <2>13, <2>14, <2>15 DEF SortInv, cn, ky
    <2> QED
      BY <1>1, <2>2, <2>10, <2>16
  <1> QED
    BY <1>1, <1>2 DEF NetInv

(* The merge ends, and the packets are dissected. *)
LEMMA AfterMerge ==
  ASSUME NetInv, MergeEnds \/ Dissect \/ Finish
  PROVE  NetInv'
  <1>1. pcap \in Seq(Packets) /\ UNCHANGED <<pcap, sortIt, chunks, taken, sorted>>
    BY DEF NetInv, MergeEnds, Dissect, Finish
  <1>2. ASSUME sortIt
        PROVE  SortInv(pcap, nstage', chunks, taken, sorted, at', net')
    <2>1. SortInv(pcap, nstage, chunks, taken, sorted, at, net)
      BY <1>2 DEF NetInv
    <2>2. /\ InChunks(pcap, chunks) /\ Merged(ConnsIn(pcap), KeysIn(pcap, chunks), chunks, taken, sorted)
          /\ (\A k \in DOMAIN chunks : taken[k] = 0) => sorted = << >>
          /\ FoundSoFar(pcap, sorted, at, net)
      BY <2>1 DEF SortInv
    <2>3. HeadsOf(chunks, taken) = {} /\ nstage' \in {"dissect", "done"}
      <3>1. CASE MergeEnds
        BY <3>1 DEF MergeEnds, Heads, HeadsOf
      <3>2. CASE Dissect \/ Finish
        BY <2>1, <3>2 DEF SortInv, Dissect, Finish
      <3> QED
        BY <3>1, <3>2
    <2>4. FoundSoFar(pcap, sorted, at', net')
      <3>1. CASE MergeEnds
        BY <2>2, <3>1 DEF MergeEnds
      <3>2. CASE Dissect
        <4>1. at' = at + 1 /\ net' = OffsetNoted(Found(net, pcap[sorted[at]]), pcap[sorted[at]], at + 1)
          BY <3>2 DEF Dissect
        <4>2. FoundSoFar(pcap, sorted, at + 1, OffsetNoted(Found(net, pcap[sorted[at]]), pcap[sorted[at]], at + 1))
          BY <2>2, DissectStep
        <4> QED
          BY <4>1, <4>2
      <3>3. CASE Finish
        <4>1. PICK v, w : net' = [net EXCEPT !.reported = v, !.smtp = w]
          BY <3>3 DEF Finish
        <4>2. DOMAIN net = NetFields
          BY <2>2 DEF FoundSoFar
        <4>3. Keeping([net EXCEPT !.reported = v, !.smtp = w], net)
          BY <4>2, KeptBy
        <4>4. FoundSoFar(pcap, sorted, at, net')
          BY <2>2, <4>1, <4>3, FoundBy
        <4> QED
          BY <3>3, <4>4 DEF Finish
      <3> QED
        BY <3>1, <3>2, <3>3
    <2>5. nstage' \notin {"capture", "sort", "failed"}
      BY <2>3
    <2> QED
      BY <2>2, <2>3, <2>4, <2>5 DEF SortInv
  <1> QED
    BY <1>1, <1>2 DEF NetInv

(* The stream from a packet on holds every later packet of its connection, when those of the
   connection follow one another. *)
LEMMA StreamHolds ==
  ASSUME DOMAIN sorted = 1..Len(sorted), Len(sorted) \in Nat,
         NEW q \in DOMAIN sorted, NEW x \in DOMAIN sorted, q <= x,
         \A y \in q..x : pcap[sorted[y]].conn = pcap[sorted[q]].conn
  PROVE  sorted[x] \in StreamAt(q)
  <1> DEFINE N == Len(sorted)  B == Breaks(q)  end == IF B = {} THEN N ELSE Min(B) - 1
  <1>1. N \in Nat /\ DOMAIN sorted = 1..N
    OBVIOUS
  <1>2. B \subseteq q..N /\ B \subseteq Nat /\ \A y \in B : y \notin q..x
    BY <1>1 DEF Breaks
  <1>3. StreamAt(q) = {sorted[i] : i \in q..end}
    BY DEF StreamAt
  <1> HIDE DEF B
  <1>4. x <= end /\ x \in q..end
    <2>1. CASE B = {}
      BY <1>1, <2>1
    <2>2. CASE B # {}
      <3>1. Min(B) \in B
        BY <1>2, <2>2, LeastOf
      <3> DEFINE m == Min(B)
      <3>2. m \in q..N /\ m \notin q..x /\ m \in Nat
        BY <1>2, <3>1
      <3> HIDE DEF m
      <3>3. m > x
        BY <1>1, <3>2
      <3>4. end = m - 1
        BY <2>2 DEF m
      <3> QED
        BY <1>1, <3>2, <3>3, <3>4
    <2> QED
      BY <2>1, <2>2
  <1> HIDE DEF end
  <1> QED
    BY <1>3, <1>4

(* The invariant says what a stream holds. *)
LEMMA StreamsWhole ==
  ASSUME NetInv
  PROVE  StreamOfChunk
  <1> SUFFICES ASSUME nstage = "done", sortIt, NEW s \in Connections, InOneChunk(s.conn), ~ AfterUnreadable(s.conn),
                      NEW i \in PacketsOf(s.conn)
               PROVE  i \in StreamAt(s.offset)
    BY DEF StreamOfChunk
  <1> DEFINE c == s.conn  cn == ConnsIn(pcap)  ky == KeysIn(pcap, chunks)
  <1>1. /\ InChunks(pcap, chunks) /\ Merged(cn, ky, chunks, taken, sorted) /\ HeadsOf(chunks, taken) = {}
        /\ FoundSoFar(pcap, sorted, at, net)
    BY DEF NetInv, SortInv
  <1>2. pcap \in Seq(Packets) /\ DOMAIN cn = DOMAIN pcap /\ \A j \in DOMAIN pcap : cn[j] = pcap[j].conn
    BY DEF NetInv, ConnsIn
  <1> HIDE DEF cn, ky
  <1>3. /\ sorted \in Seq(DOMAIN pcap) /\ DOMAIN sorted = 1..Len(sorted) /\ Len(sorted) \in Nat
        /\ \A y \in DOMAIN sorted : sorted[y] \in DOMAIN pcap
    <2>1. sorted \in Seq(DOMAIN pcap)
      BY <1>1, <1>2 DEF Merged
    <2> QED
      BY <2>1
  (* The chunk of the connection, all of which has been merged. *)
  <1>4. PICK k \in DOMAIN chunks : {j \in DOMAIN pcap : pcap[j].conn = c} \subseteq ToSet(chunks[k])
    BY DEF InOneChunk
  <1>5. Together(cn, c, sorted)
    <2>1. Whole(cn, c, chunks[k])
      BY <1>2, <1>4 DEF Whole
    <2> QED
      BY <1>1, <2>1 DEF Merged
  <1>6. i \in DOMAIN pcap /\ pcap[i].conn = c /\ HasData(pcap[i])
    BY DEF PacketsOf, HasData
  <1>7. PICK x \in DOMAIN sorted : sorted[x] = i
    <2>1. PICK j \in DOMAIN chunks[k] : chunks[k][j] = i
      BY <1>4, <1>6 DEF ToSet
    <2>2. chunks[k] \in Seq(DOMAIN pcap) /\ taken[k] \in Nat /\ ~ (taken[k] < Len(chunks[k]))
      <3>1. chunks \in Seq(Seq(DOMAIN pcap)) /\ taken \in Seq(Nat) /\ Len(taken) = Len(chunks)
        BY <1>1 DEF InChunks, Merged
      <3>2. k \notin HeadsOf(chunks, taken)
        BY <1>1
      <3> QED
        BY <3>1, <3>2 DEF HeadsOf
    <2>3. j \in 1..taken[k]
      BY <2>1, <2>2
    <2> QED
      BY <1>1, <2>1, <2>3 DEF Merged
  (* Where its first data is in the sorted cap, it was listed. *)
  <1>8. PICK q \in 1..at - 1 :
            /\ c = pcap[sorted[q]].conn /\ HasData(pcap[sorted[q]])
            /\ \A y \in 1..q - 1 : HasData(pcap[sorted[y]]) => pcap[sorted[y]].conn # c
            /\ s.offset = q \/ (q > 1 /\ Unreadable(pcap[sorted[q - 1]]))
    BY <1>1 DEF FoundSoFar, ListedAt, Connections
  <1>9. q \in Nat /\ q >= 1
    BY <1>1 DEF FoundSoFar
  <1>10. q <= x
    <2>1. HasData(pcap[sorted[x]]) /\ pcap[sorted[x]].conn = c
      BY <1>6, <1>7
    <2>2. x \notin 1..q - 1
      BY <1>8, <2>1
    <2> QED
      BY <1>3, <1>9, <2>2
  <1>11. q \in DOMAIN sorted
    BY <1>3, <1>9, <1>10
  <1>12. s.offset = q
    <2>1. q > 1 => ~ Unreadable(pcap[sorted[q - 1]])
      BY <1>8, <1>9, <1>11 DEF AfterUnreadable
    <2> QED
      BY <1>8, <2>1
  <1>13. \A y \in q..x : pcap[sorted[y]].conn = pcap[sorted[q]].conn
    <2> SUFFICES ASSUME NEW y \in q..x PROVE pcap[sorted[y]].conn = pcap[sorted[q]].conn
      OBVIOUS
    <2>1. y \in DOMAIN sorted /\ q <= y /\ y <= x
      BY <1>3, <1>9
    <2>2. cn[sorted[q]] = c /\ cn[sorted[x]] = c /\ cn[sorted[y]] = pcap[sorted[y]].conn
      BY <1>2, <1>3, <1>6, <1>7, <1>8, <1>11, <2>1
    <2>3. cn[sorted[y]] = c
      BY <1>5, <1>11, <2>1, <2>2 DEF Together
    <2> QED
      BY <1>8, <2>2, <2>3
  <1>14. sorted[x] \in StreamAt(q)
    BY <1>3, <1>10, <1>11, <1>13, StreamHolds
  <1> QED
    BY <1>7, <1>12, <1>14

(* What packets_for_stream gives for a connection that fell in one chunk of the sort is all of
   it, whatever the packets, the size of the chunks and the order of the flows. *)
THEOREM StreamStays == NetworkSpec => []StreamOfChunk
  <1>1. NetworkInit => NetInv
    BY NetBegins
  <1>2. NetInv /\ [NetworkNext]_nvars => NetInv'
    <2> SUFFICES ASSUME NetInv, [NetworkNext]_nvars PROVE NetInv'
      OBVIOUS
    <2>1. CASE (\E p \in Packets : Capture(p)) \/ Analyse
      BY <2>1, CaptureStep
    <2>2. CASE ReadChunk
      BY <2>2, ReadChunkStep
    <2>3. CASE Merge
      BY <2>3, MergesNext
    <2>4. CASE MergeEnds \/ Dissect \/ Finish
      BY <2>4, AfterMerge
    <2>5. CASE UNCHANGED nvars
      <3>1. UNCHANGED <<pcap, nstage, sortIt, chunks, taken, sorted, at, net>>
        BY <2>5 DEF nvars
      <3> QED
        BY <3>1 DEF NetInv
    <2> QED
      BY <2>1, <2>2, <2>3, <2>4, <2>5 DEF NetworkNext
  <1>3. NetInv => StreamOfChunk
    BY StreamsWhole
  <1> QED
    BY <1>1, <1>2, <1>3, PTL DEF NetworkSpec

-----------------------------------------------------------------------------
(* The chunks of a sort hold every packet that was read, once, and the merge takes each of
   them once. *)
Onto(pc, cs) == \A k \in DOMAIN cs : Piece(pc, k - 1) \subseteq ToSet(cs[k])
Once(s) == \A i, j \in DOMAIN s : s[i] = s[j] => i = j
KeepInv(pc, stage, cs, st) ==
    /\ Onto(pc, cs) /\ (\A k \in DOMAIN cs : Once(cs[k])) /\ Once(st)
    /\ stage \in {"dissect", "done"} => Piece(pc, Len(cs)) = {}
AsItIs(pc, stage, st) ==
    /\ stage \in {"capture", "dissect", "done"}
    /\ stage # "capture" => st = AllIn(pc)
PacketsInv ==
    /\ NetInv
    /\ sortIt => KeepInv(pcap, nstage, chunks, sorted)
    /\ ~ sortIt => AsItIs(pcap, nstage, sorted)

(* When no chunk is left to read, the chunks before cover the capture. *)
LEMMA AllRead ==
  ASSUME NEW pc, pc \in Seq(Packets), NEW m \in Nat, Piece(pc, m) = {}
  PROVE  \A i \in DOMAIN pc : \E k \in 1..m : i \in Piece(pc, k - 1)
  <1> DEFINE N == Len(pc)
             T == {n \in 0..m : \A i \in 1..N : i <= n * ChunkSize => \E k \in 1..n : i \in Piece(pc, k - 1)}
  <1>1. N \in Nat /\ DOMAIN pc = 1..N /\ ChunkSize \in Nat /\ ChunkSize >= 1
    BY NetworkAssumption
  <1>2. N <= m * ChunkSize
    <2> SUFFICES ASSUME ~ (N <= m * ChunkSize) PROVE FALSE
      OBVIOUS
    <2>1. m * ChunkSize \in Nat /\ (m + 1) * ChunkSize = m * ChunkSize + ChunkSize
      BY <1>1
    <2>2. m * ChunkSize + 1 \in 1..N /\ m * ChunkSize + 1 > m * ChunkSize /\ m * ChunkSize + 1 <= (m + 1) * ChunkSize
      BY <1>1, <2>1
    <2>3. m * ChunkSize + 1 \in Piece(pc, m)
      BY <1>1, <2>2 DEF Piece
    <2> QED
      BY <2>3
  <1>3. 0 \in T
    <2>1. 0 * ChunkSize = 0
      BY <1>1
    <2> QED
      BY <1>1, <2>1
  <1>4. ASSUME NEW n \in 1..m, n - 1 \in T
        PROVE  n \in T
    <2> SUFFICES ASSUME NEW i \in 1..N, i <= n * ChunkSize PROVE \E k \in 1..n : i \in Piece(pc, k - 1)
      OBVIOUS
    <2>1. CASE i <= (n - 1) * ChunkSize
      <3>1. PICK k \in 1..n - 1 : i \in Piece(pc, k - 1)
        BY <1>4, <2>1
      <3> QED
        BY <3>1
    <2>2. CASE ~ (i <= (n - 1) * ChunkSize)
      <3>1. (n - 1) * ChunkSize \in Nat /\ i > (n - 1) * ChunkSize /\ n - 1 + 1 = n /\ n \in 1..n
        BY <1>1, <2>2
      <3>2. i \in Piece(pc, n - 1)
        BY <1>1, <3>1 DEF Piece
      <3> QED
        BY <3>1, <3>2
    <2> QED
      BY <2>1, <2>2
  <1> HIDE DEF T
  <1>5. 0..m \subseteq T
    BY <1>3, <1>4, Induction
  <1>6. m \in T
    BY <1>5
  <1> QED
    BY <1>1, <1>2, <1>6 DEF T

(* The packet that is merged was not merged before. *)
LEMMA OnceMore ==
  ASSUME NEW cn, NEW ky, NEW cs, NEW tk, NEW st, Laid(cn, ky, cs), Merged(cn, ky, cs, tk, st),
         \A k \in DOMAIN cs : Once(cs[k]), Once(st), NEW h \in HeadsOf(cs, tk)
  PROVE  Once(Append(st, cs[h][tk[h] + 1]))
  <1> DEFINE e == cs[h][tk[h] + 1]  more == Append(st, e)  N == Len(st)
  <1>1. /\ h \in DOMAIN cs /\ tk[h] \in Nat /\ tk[h] < Len(cs[h]) /\ cs[h] \in Seq(DOMAIN cn)
        /\ \A k \in DOMAIN cs : cs[k] \in Seq(DOMAIN cn) /\ tk[k] \in Nat /\ tk[k] <= Len(cs[k]) /\ Len(cs[k]) \in Nat
    BY DEF HeadsOf, Laid, Merged
  <1>2. tk[h] + 1 \in DOMAIN cs[h] /\ e \in DOMAIN cn
    BY <1>1
  <1>3. ASSUME NEW p \in DOMAIN st, st[p] = e
        PROVE  FALSE
    <2>1. PICK k \in DOMAIN cs : \E j \in 1..tk[k] : st[p] = cs[k][j]
      BY DEF Merged
    <2>2. PICK j \in 1..tk[k] : st[p] = cs[k][j]
      BY <2>1
    <2>3. j \in DOMAIN cs[k] /\ j \in Nat /\ j <= tk[k]
      BY <1>1, <2>2
    <2>4. cs[k][j] = cs[h][tk[h] + 1]
      BY <1>3, <2>2
    <2>5. k = h
      BY <1>1, <1>2, <2>3, <2>4 DEF Laid, Separate
    <2>6. j = tk[h] + 1
      BY <1>1, <1>2, <2>3, <2>4, <2>5 DEF Once
    <2> QED
      BY <1>1, <2>3, <2>5, <2>6
  <1> HIDE DEF e
  <1>4. /\ N \in Nat /\ DOMAIN st = 1..N /\ DOMAIN more = 1..N + 1 /\ more[N + 1] = e
        /\ \A x \in 1..N : more[x] = st[x]
    <2>1. st \in Seq(DOMAIN cn)
      BY DEF Merged
    <2> QED
      BY <1>2, <2>1, AppendProperties
  <1>5. \A x \in 1..N + 1 : x \in 1..N \/ x = N + 1
    BY <1>4
  <1> HIDE DEF more
  <1>6. Once(more)
    <2> SUFFICES ASSUME NEW x \in DOMAIN more, NEW y \in DOMAIN more, more[x] = more[y] PROVE x = y
      BY DEF Once
    <2>1. CASE x \in 1..N /\ y \in 1..N
      BY <1>4, <2>1 DEF Once
    <2>2. CASE x = N + 1 /\ y = N + 1
      BY <2>2
    <2>3. CASE x \in 1..N /\ y = N + 1
      BY <1>3, <1>4, <2>3
    <2>4. CASE x = N + 1 /\ y \in 1..N
      BY <1>3, <1>4, <2>4
    <2> QED
      BY <1>4, <1>5, <2>1, <2>2, <2>3, <2>4
  <1> QED
    BY <1>6 DEF more, e

(* Each step keeps the packets. *)
LEMMA PacketsBegin ==
  ASSUME NetworkInit
  PROVE  PacketsInv
  <1>1. NetInv
    BY NetBegins
  <1>2. chunks = << >> /\ sorted = << >> /\ nstage = "capture" /\ DOMAIN << >> = {}
    BY DEF NetworkInit
  <1> QED
    BY <1>1, <1>2 DEF PacketsInv, KeepInv, Onto, Once, AsItIs

(* Packets are captured, and the analysis begins. *)
LEMMA CaptureKeeps ==
  ASSUME PacketsInv, (\E p \in Packets : Capture(p)) \/ Analyse
  PROVE  PacketsInv'
  <1>1. NetInv'
    BY CaptureStep DEF PacketsInv
  <1>2. ASSUME sortIt'
        PROVE  KeepInv(pcap', nstage', chunks', sorted')
    <2>1. sortIt /\ nstage = "capture" /\ chunks' = chunks /\ (sorted' = sorted \/ sorted' = << >>)
      BY <1>2 DEF Capture, Analyse
    <2>2. SortInv(pcap, nstage, chunks, taken, sorted, at, net)
      BY <2>1 DEF PacketsInv, NetInv
    <2>3. chunks = << >> /\ ((\A k \in DOMAIN chunks : taken[k] = 0) => sorted = << >>)
      BY <2>1, <2>2 DEF SortInv
    <2>4. DOMAIN << >> = {}
      OBVIOUS
    <2>5. chunks' = << >> /\ sorted' = << >>
      BY <2>1, <2>3, <2>4
    <2>6. nstage' \in {"dissect", "done"} => pcap' = << >>
      <3>1. CASE \E p \in Packets : Capture(p)
        BY <2>1, <3>1 DEF Capture
      <3>2. CASE Analyse
        BY <2>1, <3>2 DEF Analyse
      <3> QED
        BY <3>1, <3>2
    <2>7. pcap' = << >> => Piece(pcap', Len(<< >>)) = {}
      BY <2>4 DEF Piece
    <2> QED
      BY <2>4, <2>5, <2>6, <2>7 DEF KeepInv, Onto, Once
  <1>3. ASSUME ~ sortIt'
        PROVE  AsItIs(pcap', nstage', sorted')
    <2>1. CASE \E p \in Packets : Capture(p)
      BY <2>1 DEF Capture, AsItIs
    <2>2. CASE Analyse
      <3>1. ~ sortIt
        BY <1>3, <2>2 DEF Analyse
      <3>2. sorted' = All /\ nstage' \in {"dissect", "done"} /\ pcap' = pcap
        BY <2>2, <3>1 DEF Analyse
      <3> QED
        BY <3>2, Given DEF AsItIs
    <2> QED
      BY <2>1, <2>2
  <1> QED
    BY <1>1, <1>2, <1>3 DEF PacketsInv

(* The packets of a chunk are there once it is read. *)
LEMMA ReadKeeps ==
  ASSUME PacketsInv, ReadChunk
  PROVE  PacketsInv'
  <1>1. NetInv' /\ pcap \in Seq(Packets)
    BY ReadChunkStep DEF PacketsInv, NetInv
  <1>2. UNCHANGED <<pcap, sortIt, sorted>> /\ nstage = "sort" /\ nstage' \in {"sort", "failed"}
    BY DEF ReadChunk
  <1>3. sortIt
    BY <1>2 DEF PacketsInv, AsItIs
  <1>4. KeepInv(pcap, nstage, chunks, sorted) /\ InChunks(pcap, chunks)
    BY <1>3 DEF PacketsInv, NetInv, SortInv
  <1>5. KeepInv(pcap, nstage', chunks', sorted)
    <2>1. CASE chunks' = chunks
      BY <1>2, <1>4, <2>1 DEF KeepInv
    <2>2. CASE chunks' = Append(chunks, SortedChunk(Len(chunks)))
      <3> DEFINE n == Len(chunks)  c == SortedChunk(n)  cs == Append(chunks, c)  D == DOMAIN pcap
      <3>1. chunks \in Seq(Seq(D)) /\ n \in Nat /\ DOMAIN chunks = 1..n
        BY <1>4 DEF InChunks
      <3>2. c \in Seq(ChunkOf(n)) /\ Once(c) /\ ChunkOf(n) \subseteq ToSet(c)
        BY <1>1, <3>1, ChunkSorts DEF Once
      <3>3. ChunkOf(n) = Piece(pcap, n) /\ Piece(pcap, n) \subseteq D
        BY Given DEF Piece
      <3> HIDE DEF c
      <3>4. c \in Seq(D) /\ Piece(pcap, n) \subseteq ToSet(c)
        BY <3>2, <3>3
      <3>5. /\ DOMAIN cs = 1..n + 1 /\ cs[n + 1] = c /\ n + 1 - 1 = n
            /\ \A k \in 1..n : cs[k] = chunks[k]
        BY <3>1, <3>4, AppendProperties
      <3>6. \A k \in 1..n + 1 : k \in 1..n \/ k = n + 1
        BY <3>1
      <3> HIDE DEF cs
      <3>7. Onto(pcap, cs)
        BY <1>4, <3>1, <3>4, <3>5, <3>6 DEF KeepInv, Onto
      <3>8. \A k \in DOMAIN cs : Once(cs[k])
        BY <1>4, <3>1, <3>2, <3>5, <3>6 DEF KeepInv
      <3>9. chunks' = cs
        BY <2>2 DEF cs, c
      <3> QED
        BY <1>2, <1>4, <3>7, <3>8, <3>9 DEF KeepInv
    <2> QED
      BY <2>1, <2>2 DEF ReadChunk
  <1> QED
    BY <1>1, <1>2, <1>3, <1>5 DEF PacketsInv

(* One packet more of them is merged. *)
LEMMA MergeKeeps ==
  ASSUME PacketsInv, Merge
  PROVE  PacketsInv'
  <1>1. NetInv' /\ pcap \in Seq(Packets)
    BY MergesNext DEF PacketsInv, NetInv
  <1>2. UNCHANGED <<pcap, nstage, sortIt, chunks>> /\ nstage = "sort"
    BY DEF Merge
  <1>3. sortIt
    BY <1>2 DEF PacketsInv, AsItIs
  <1> DEFINE cn == ConnsIn(pcap)  ky == KeysIn(pcap, chunks)
  <1>4. /\ KeepInv(pcap, nstage, chunks, sorted) /\ InChunks(pcap, chunks)
        /\ Merged(cn, ky, chunks, taken, sorted)
    BY <1>3 DEF PacketsInv, NetInv, SortInv
  <1>5. Laid(cn, ky, chunks)
    BY <1>1, <1>4, LaidOut, Given
  <1> HIDE DEF cn, ky
  <1> DEFINE Least(h) == \A g \in Heads \ {h} : Before(HeadKey(h), HeadKey(g))
             c == CHOOSE h \in Heads : Least(h)
  <1>6. c \in HeadsOf(chunks, taken)
    <2>1. \E h \in Heads : Least(h)
      <3>1. taken \in Seq(Nat) /\ Len(taken) = Len(chunks)
        BY <1>4 DEF Merged
      <3>2. Heads = HeadsOf(chunks, taken) /\ Heads # {}
        BY DEF Heads, HeadsOf, Merge
      <3>3. PICK h \in Heads : Ahead(ky, chunks, taken, h)
        BY <1>5, <3>1, <3>2, LeastHead
      <3>4. \A g \in Heads : HeadKey(g) = ky[g][taken[g] + 1]
        BY <1>1, <1>4, <3>1, HeadKeyIn DEF ky
      <3> QED
        BY <3>2, <3>3, <3>4 DEF Ahead
    <2>2. c \in Heads
      BY <2>1
    <2> QED
      BY <2>2 DEF Heads, HeadsOf
  <1>7. sorted' = Append(sorted, chunks[c][taken[c] + 1])
    BY DEF Merge
  <1> HIDE DEF c
  <1>8. Once(sorted')
    BY <1>4, <1>5, <1>6, <1>7, OnceMore DEF KeepInv
  <1>9. KeepInv(pcap, nstage, chunks, sorted')
    BY <1>2, <1>4, <1>8 DEF KeepInv
  <1> QED
    BY <1>1, <1>2, <1>3, <1>9 DEF PacketsInv

(* The merge ends when every chunk was read. *)
LEMMA RestKeeps ==
  ASSUME PacketsInv, MergeEnds \/ Dissect \/ Finish
  PROVE  PacketsInv'
  <1>1. NetInv'
    BY AfterMerge DEF PacketsInv
  <1>2. UNCHANGED <<pcap, sortIt, chunks, sorted>> /\ nstage' \in {"dissect", "done"}
    BY DEF MergeEnds, Dissect, Finish
  <1>3. ASSUME sortIt
        PROVE  KeepInv(pcap, nstage', chunks, sorted)
    <2>1. Piece(pcap, Len(chunks)) = {}
      <3>1. CASE MergeEnds
        BY <3>1, Given DEF MergeEnds
      <3>2. CASE Dissect \/ Finish
        BY <1>3, <3>2 DEF Dissect, Finish, PacketsInv, KeepInv
      <3> QED
        BY <3>1, <3>2
    <2> QED
      BY <1>3, <2>1 DEF PacketsInv, KeepInv
  <1>4. ASSUME ~ sortIt
        PROVE  AsItIs(pcap, nstage', sorted)
    <2>1. AsItIs(pcap, nstage, sorted)
      BY <1>4 DEF PacketsInv
    <2>2. nstage \in {"sort", "dissect"}
      BY DEF MergeEnds, Dissect, Finish
    <2> QED
      BY <1>2, <2>1, <2>2 DEF AsItIs
  <1> QED
    BY <1>1, <1>2, <1>3, <1>4 DEF PacketsInv

(* What the chunks held is what was merged. *)
LEMMA PacketsKept ==
  ASSUME PacketsInv
  PROVE  EachPacketOnce
  <1> SUFFICES ASSUME nstage \in {"dissect", "done"}
               PROVE  ToSet(sorted) = DOMAIN pcap /\ Once(sorted)
    BY DEF EachPacketOnce, Once
  <1>1. pcap \in Seq(Packets)
    BY DEF PacketsInv, NetInv
  <1>2. CASE ~ sortIt
    <2>1. sorted = AllIn(pcap)
      BY <1>2 DEF PacketsInv, AsItIs
    <2> QED
      BY <2>1 DEF AllIn, ToSet, Once
  <1>3. CASE sortIt
    <2> DEFINE cn == ConnsIn(pcap)  ky == KeysIn(pcap, chunks)
    <2>1. /\ Merged(cn, ky, chunks, taken, sorted) /\ InChunks(pcap, chunks) /\ HeadsOf(chunks, taken) = {}
          /\ KeepInv(pcap, nstage, chunks, sorted)
      BY <1>3 DEF PacketsInv, NetInv, SortInv
    <2>2. DOMAIN cn = DOMAIN pcap
      BY DEF ConnsIn
    <2> HIDE DEF cn, ky
    <2>3. sorted \in Seq(DOMAIN pcap)
      BY <2>1, <2>2 DEF Merged
    <2>4. chunks \in Seq(Seq(DOMAIN pcap)) /\ Len(chunks) \in Nat /\ DOMAIN chunks = 1..Len(chunks)
      BY <2>1 DEF InChunks
    <2>5. Once(sorted) /\ Onto(pcap, chunks) /\ Piece(pcap, Len(chunks)) = {}
      BY <2>1 DEF KeepInv
    <2>6. ASSUME NEW i \in DOMAIN pcap PROVE i \in ToSet(sorted)
      <3>1. PICK k \in DOMAIN chunks : i \in Piece(pcap, k - 1)
        BY <1>1, <2>4, <2>5, AllRead
      <3>2. PICK j \in DOMAIN chunks[k] : chunks[k][j] = i
        BY <2>5, <3>1 DEF Onto, ToSet
      <3>3. chunks[k] \in Seq(DOMAIN pcap) /\ taken[k] \in Nat /\ ~ (taken[k] < Len(chunks[k]))
        BY <2>1, <2>4 DEF Merged, HeadsOf
      <3>4. j \in 1..taken[k]
        BY <3>2, <3>3
      <3>5. \E p \in DOMAIN sorted : sorted[p] = i
        BY <2>1, <3>2, <3>4 DEF Merged
      <3> QED
        BY <3>5 DEF ToSet
    <2>7. ToSet(sorted) \subseteq DOMAIN pcap
      BY <2>3 DEF ToSet
    <2> QED
      BY <2>5, <2>6, <2>7
  <1> QED
    BY <1>2, <1>3

(* No packet of a capture is lost or dissected twice, for any capture, size of the chunks and
   order of the flows. *)
THEOREM PacketsStay == NetworkSpec => []EachPacketOnce
  <1>1. NetworkInit => PacketsInv
    BY PacketsBegin
  <1>2. PacketsInv /\ [NetworkNext]_nvars => PacketsInv'
    <2> SUFFICES ASSUME PacketsInv, [NetworkNext]_nvars PROVE PacketsInv'
      OBVIOUS
    <2>1. CASE (\E p \in Packets : Capture(p)) \/ Analyse
      BY <2>1, CaptureKeeps
    <2>2. CASE ReadChunk
      BY <2>2, ReadKeeps
    <2>3. CASE Merge
      BY <2>3, MergeKeeps
    <2>4. CASE MergeEnds \/ Dissect \/ Finish
      BY <2>4, RestKeeps
    <2>5. CASE UNCHANGED nvars
      <3>1. UNCHANGED <<pcap, nstage, sortIt, chunks, taken, sorted, at, net>>
        BY <2>5 DEF nvars
      <3> QED
        BY <3>1 DEF PacketsInv, NetInv
    <2> QED
      BY <2>1, <2>2, <2>3, <2>4, <2>5 DEF NetworkNext
  <1>3. PacketsInv => EachPacketOnce
    BY PacketsKept
  <1> QED
    BY <1>1, <1>2, <1>3, PTL DEF NetworkSpec
=============================================================================
