---------------------------- MODULE ResultServer ----------------------------
(***************************************************************************)
(* The ResultServer of lib/cuckoo/core/resultserver.py: the two tables that *)
(* AnalysisManager threads change with add_task and del_task, and one      *)
(* handler thread per connection of a guest, which reads both tables       *)
(* without a lock, registers itself, looks up where to store, and stores   *)
(* what one of the three protocols (BSON, FILE, LOG) delivers.             *)
(*                                                                         *)
(* Each access to a table, a list or the file system, each wait and each   *)
(* receive is a step.  A handler is named by its connection.               *)
(***************************************************************************)
EXTENDS Naturals, Sequences

CONSTANTS
    MaxTasks,      \* bound: how many analyses are registered
    MaxConns,      \* bound: how many connections are accepted
    Ips,           \* the addresses of the machines
    Files,         \* the paths guests upload to
    NoIp, NoFile,
    UploadMaxSize, \* cuckoo.conf upload_max_size, in chunks
    DiskErrors     \* whether opening and writing files may fail

ASSUME ResultServerAssumption ==
    /\ MaxTasks \in Nat /\ MaxConns \in Nat
    /\ NoIp \notin Ips /\ NoFile \notin Files
    /\ UploadMaxSize \in Nat \ {0}
    /\ DiskErrors \in BOOLEAN

Tasks  == 1..MaxTasks   \* in the order they are registered
Conns  == 1..MaxConns   \* in the order they are accepted
NoTask == 0
NoConn == 0

VARIABLES
    analysistasks,  \* ip -> the task added for it, if any
    known,          \* the keys of analysishandlers
    handlers,       \* task -> its list of handlers; del_task keeps the list it popped
    tpc,            \* task -> where its thread is between add_task and del_task
    ip,             \* task -> machine.ip
    at,             \* task -> how many handlers del_task has waited for
    pc,             \* handler -> where it is
    addr,           \* handler -> client_address[0]
    ctx,            \* handler -> the task get_ctx_for_ip gave register_handler
    path,           \* handler -> the task whose storage path it uses
    ended,          \* the handlers whose end_request is set
    name,           \* handler -> file_path of its upload
    polled,         \* the handlers past the look at end_request, waiting for data
    opened,         \* the handlers with an open file
    stored,         \* handler -> the chunks of its upload it has written
    failed,         \* the handlers whose exception is in the log ("FIXME")
    lock,           \* the handler that holds FileUpload.lock
    uploads,        \* the uploaded files that exist, with their task
    listed          \* the handlers whose upload is in files.json

taskVars    == <<tpc, ip, at>>
tableVars   == <<analysistasks, known, handlers>>
storeVars   == <<lock, uploads, listed>>
contentVars == <<name, polled, opened, stored, failed, storeVars>>
handlerVars == <<pc, addr, ctx, path, name, polled, opened, stored, failed>>
vars        == <<tableVars, taskVars, handlerVars, ended, storeVars>>

(* where a handler waits in wait_sock_or_end *)
Reading == {"negotiate", "bson", "header", "first", "chunks", "log"}

Locations == {"none", "setup", "list", "append", "dropped", "handle", "exists",
              "open", "lock", "filelog", "unlock", "finish", "close", "gone"}
             \cup Reading

(* done_event: finish() sets it before it closes the files *)
DoneEvent(c) == pc[c] \in {"close", "gone"}

(* from add_task to the first statement of del_task *)
Added(t) == tpc[t] \in {"adding", "running"}

TypeOK ==
    /\ analysistasks \in [Ips -> Tasks \cup {NoTask}]
    /\ known \subseteq Tasks
    /\ handlers \in [Tasks -> Seq(Conns)]
    /\ tpc \in [Tasks -> {"new", "adding", "running", "popping", "waiting",
                          "joining", "gone"}]
    /\ ip \in [Tasks -> Ips \cup {NoIp}]
    /\ at \in [Tasks -> Nat]
    /\ pc \in [Conns -> Locations]
    /\ addr \in [Conns -> Ips \cup {NoIp}]
    /\ ctx \in [Conns -> Tasks \cup {NoTask}]
    /\ path \in [Conns -> Tasks \cup {NoTask}]
    /\ name \in [Conns -> Files \cup {NoFile}]
    /\ ended \subseteq Conns
    /\ polled \subseteq Conns
    /\ opened \subseteq Conns
    /\ stored \in [Conns -> Nat]
    /\ failed \subseteq Conns
    /\ lock \in Conns \cup {NoConn}
    /\ uploads \subseteq Tasks \X Files
    /\ listed \subseteq Conns

Init ==
    /\ analysistasks = [i \in Ips |-> NoTask]
    /\ known = {}
    /\ handlers = [t \in Tasks |-> <<>>]
    /\ tpc = [t \in Tasks |-> "new"]
    /\ ip = [t \in Tasks |-> NoIp]
    /\ at = [t \in Tasks |-> 0]
    /\ pc = [c \in Conns |-> "none"]
    /\ addr = [c \in Conns |-> NoIp]
    /\ ctx = [c \in Conns |-> NoTask]
    /\ path = [c \in Conns |-> NoTask]
    /\ name = [c \in Conns |-> NoFile]
    /\ ended = {} /\ polled = {} /\ opened = {}
    /\ stored = [c \in Conns |-> 0]
    /\ failed = {}
    /\ lock = NoConn
    /\ uploads = {} /\ listed = {}

-----------------------------------------------------------------------------
(* The threads of the analyses: add_task, and later del_task *)

TaskGoto(t, from, to) == tpc[t] = from /\ tpc' = [tpc EXCEPT ![t] = to]

IsNext(x, where, first) == \A y \in 1..(x - 1) : where[y] # first

(* The scheduler gives a machine to one analysis at a time and takes it back
   after del_task (MutualExclusion and the order of AnalysisManager). *)
MachineFree(i) == \A t \in Tasks : ip[t] = i => tpc[t] = "gone"

(* Variant: the machine is given away before del_task has waited for its handlers. *)
AddTaskEarly(t, i) ==
    /\ \A u \in Tasks : ip[u] = i => ~Added(u)
    /\ IsNext(t, tpc, "new")
    /\ TaskGoto(t, "new", "adding")
    /\ ip' = [ip EXCEPT ![t] = i]
    /\ analysistasks' = [analysistasks EXCEPT ![i] = t]
    /\ UNCHANGED <<at, known, handlers, handlerVars, ended, storeVars>>

(* add_task: self.analysistasks[machine.ip] = task, machine ... *)
AddTask(t, i) ==
    /\ MachineFree(i) /\ IsNext(t, tpc, "new")
    /\ TaskGoto(t, "new", "adding")
    /\ ip' = [ip EXCEPT ![t] = i]
    /\ analysistasks' = [analysistasks EXCEPT ![i] = t]
    /\ UNCHANGED <<at, known, handlers, handlerVars, ended, storeVars>>

(* ... and self.analysishandlers[task.id] = [] *)
AddHandlers(t) ==
    /\ TaskGoto(t, "adding", "running")
    /\ known' = known \cup {t}
    /\ UNCHANGED <<ip, at, analysistasks, handlers, handlerVars, ended, storeVars>>

(* del_task: the address goes first, *)
DelTask(t) ==
    /\ TaskGoto(t, "running", "popping")
    /\ analysistasks' = [analysistasks EXCEPT ![ip[t]] = NoTask]
    /\ UNCHANGED <<ip, at, known, handlers, handlerVars, ended, storeVars>>

(* then the list of handlers *)
PopHandlers(t) ==
    /\ TaskGoto(t, "popping", "waiting")
    /\ known' = known \ {t}
    /\ UNCHANGED <<ip, at, analysistasks, handlers, handlerVars, ended, storeVars>>

(* for h in handlers: h.end_request.set() ...  (handlers may still be appended) *)
EndRequest(t) ==
    /\ at[t] < Len(handlers[t])
    /\ TaskGoto(t, "waiting", "joining")
    /\ ended' = ended \cup {handlers[t][at[t] + 1]}
    /\ UNCHANGED <<ip, at, tableVars, handlerVars, storeVars>>

(* ... h.done_event.wait() *)
WaitDone(t) ==
    /\ TaskGoto(t, "joining", "waiting")
    /\ DoneEvent(handlers[t][at[t] + 1])
    /\ at' = [at EXCEPT ![t] = @ + 1]
    /\ UNCHANGED <<ip, tableVars, handlerVars, ended, storeVars>>

DelReturn(t) ==
    /\ at[t] >= Len(handlers[t])
    /\ TaskGoto(t, "waiting", "gone")
    /\ UNCHANGED <<ip, at, tableVars, handlerVars, ended, storeVars>>

Deleting(t) == PopHandlers(t) \/ EndRequest(t) \/ WaitDone(t) \/ DelReturn(t)

Analysis(t) ==
    (\E i \in Ips : AddTask(t, i)) \/ AddHandlers(t) \/ DelTask(t) \/ Deleting(t)

-----------------------------------------------------------------------------
(* A handler: setup and the start of handle *)

Goto(c, from, to) == pc[c] \in from /\ pc' = [pc EXCEPT ![c] = to]

tablesKept == <<analysistasks, known, taskVars, ended>>

(* A connection is accepted and gets its thread.  Guests may connect, and threads
   be delayed, at any time: nothing ties them to the analysis. *)
Connect(c, i) ==
    /\ IsNext(c, pc, "none")
    /\ Goto(c, {"none"}, "setup")
    /\ addr' = [addr EXCEPT ![c] = i]
    /\ UNCHANGED <<tablesKept, handlers, ctx, path, contentVars>>

(* register_handler: its first access; what it returns is ignored by setup *)
GetContext(c) ==
    /\ Goto(c, {"setup"}, IF analysistasks[addr[c]] = NoTask THEN "handle" ELSE "list")
    /\ ctx' = [ctx EXCEPT ![c] = analysistasks[addr[c]]]
    /\ UNCHANGED <<tablesKept, handlers, addr, path, contentVars>>

(* self.analysishandlers[task.id]: a KeyError leaves setup, and SocketServer
   closes the connection without calling finish. *)
GetHandlers(c) ==
    /\ Goto(c, {"list"}, IF ctx[c] \in known THEN "append" ELSE "dropped")
    /\ UNCHANGED <<tablesKept, handlers, addr, ctx, path, contentVars>>

AppendHandler(c) ==
    /\ Goto(c, {"append"}, "handle")
    /\ handlers' = [handlers EXCEPT ![ctx[c]] = Append(@, c)]
    /\ UNCHANGED <<tablesKept, addr, ctx, path, contentVars>>

(* Variant: handle uses the task register_handler saw, if it saw one. *)
BuildStoragePathOnce(c) ==
    LET task == IF ctx[c] = NoTask THEN analysistasks[addr[c]] ELSE ctx[c] IN
    /\ Goto(c, {"handle"}, IF task = NoTask THEN "finish" ELSE "negotiate")
    /\ path' = [path EXCEPT ![c] = task]
    /\ UNCHANGED <<tablesKept, handlers, addr, ctx, contentVars>>

(* handle: build_storage_path looks the address up a second time *)
BuildStoragePath(c) ==
    /\ Goto(c, {"handle"},
            IF analysistasks[addr[c]] = NoTask THEN "finish" ELSE "negotiate")
    /\ path' = [path EXCEPT ![c] = analysistasks[addr[c]]]
    /\ UNCHANGED <<tablesKept, handlers, addr, ctx, contentVars>>

-----------------------------------------------------------------------------
(* A handler: wait_sock_or_end and what an exception does *)

kept == <<tablesKept, handlers, addr, ctx, path, failed>>

(* Variant: no `except` around the read_any of a file. *)
InterruptedAnywhere(c) == Goto(c, Reading, "finish")

(* An upload that has its first chunk treats an exception of read_any as the end
   of the file; elsewhere it ends the connection. *)
Interrupted(c) ==
    IF pc[c] = "chunks" THEN Goto(c, Reading, "lock") ELSE Goto(c, Reading, "finish")

(* end_request.isSet() *)
CheckEnd(c) ==
    /\ c \notin polled
    /\ IF c \in ended THEN Interrupted(c) /\ UNCHANGED polled
       ELSE pc[c] \in Reading /\ polled' = polled \cup {c} /\ UNCHANGED pc
    /\ UNCHANGED <<kept, name, opened, stored, storeVars>>

(* Variant: poll() without a timeout. *)
PollForever(c) ==
    /\ c \in polled /\ pc[c] \in Reading
    /\ UNCHANGED vars

(* poll(1000) sees nothing *)
PollTimeout(c) ==
    /\ c \in polled /\ pc[c] \in Reading
    /\ polled' = polled \ {c}
    /\ UNCHANGED <<kept, pc, name, opened, stored, storeVars>>

(* The guest closes the connection, or the socket fails. *)
Disconnect(c) ==
    /\ c \in polled
    /\ Interrupted(c)
    /\ polled' = polled \ {c}
    /\ UNCHANGED <<kept, name, opened, stored, storeVars>>

(* Something that makes the handler stop: an unknown command, a banned path, a
   message that cannot be decoded, a second process in one BSON stream. *)
Refuse(c) ==
    /\ c \in polled
    /\ Goto(c, {"negotiate", "bson", "header"}, "finish")
    /\ polled' = polled \ {c}
    /\ UNCHANGED <<kept, name, opened, stored, storeVars>>

(* open() or write() raises; nothing in FileUpload releases the lock then. *)
DiskError(c) ==
    /\ DiskErrors
    /\ c \in polled \/ pc[c] \in {"open", "filelog"}
    /\ Goto(c, (Reading \ {"header"}) \cup {"open", "filelog"}, "finish")
    /\ polled' = polled \ {c}
    /\ failed' = failed \cup {c}
    /\ UNCHANGED <<tablesKept, handlers, addr, ctx, path, name, opened, stored,
                   storeVars>>

(* Data arrives and the handler goes on. *)
Receive(c, from, to) ==
    /\ c \in polled
    /\ Goto(c, {from}, to)
    /\ polled' = polled \ {c}
    /\ UNCHANGED <<kept, lock, listed>>

-----------------------------------------------------------------------------
(* A handler: the protocols *)

(* negotiate_protocol and the init of the protocol; LogHandler opens its file,
   for appending when it exists. *)
StartBson(c) == Receive(c, "negotiate", "bson") /\ UNCHANGED <<name, opened, stored, uploads>>

StartFile(c) == Receive(c, "negotiate", "header") /\ UNCHANGED <<name, opened, stored, uploads>>

StartLog(c) ==
    /\ Receive(c, "negotiate", "log")
    /\ opened' = opened \cup {c}
    /\ UNCHANGED <<name, stored, uploads>>

(* BsonParser yields the process event: open_process_log *)
OpenProcessLog(c) ==
    /\ c \notin opened
    /\ Receive(c, "bson", "bson")
    /\ opened' = opened \cup {c}
    /\ UNCHANGED <<name, stored, uploads>>

(* any other message, and a line of a log *)
Message(c) ==
    /\ Receive(c, "bson", "bson") \/ Receive(c, "log", "log")
    /\ UNCHANGED <<name, opened, stored, uploads>>

(* FileUpload: the lines with the path and the pids *)
Header(c, f) ==
    /\ Receive(c, "header", "exists")
    /\ name' = [name EXCEPT ![c] = f]
    /\ UNCHANGED <<opened, stored, uploads>>

(* os.path.exists(file_path): for a file that exists the connection is closed *)
Exists(c) ==
    /\ Goto(c, {"exists"}, IF <<path[c], name[c]>> \in uploads THEN "finish" ELSE "open")
    /\ UNCHANGED <<kept, name, polled, opened, stored, storeVars>>

OpenFile(c) ==
    /\ Goto(c, {"open"}, "first")
    /\ uploads' = uploads \cup {<<path[c], name[c]>>}
    /\ opened' = opened \cup {c}
    /\ UNCHANGED <<kept, name, polled, stored, lock, listed>>

(* a chunk is written; at upload_max_size the upload is cut off *)
Chunk(c) ==
    /\ stored' = [stored EXCEPT ![c] = @ + 1]
    /\ \E from \in {"first", "chunks"} :
          Receive(c, from, IF stored[c] + 1 >= UploadMaxSize THEN "lock" ELSE "chunks")
    /\ UNCHANGED <<name, opened, uploads>>

TakeLock(c) ==
    /\ lock = NoConn
    /\ Goto(c, {"lock"}, "filelog")
    /\ lock' = c
    /\ UNCHANGED <<kept, name, polled, opened, stored, uploads, listed>>

(* one line is appended to files.json *)
AppendFilelog(c) ==
    /\ Goto(c, {"filelog"}, "unlock")
    /\ listed' = listed \cup {c}
    /\ UNCHANGED <<kept, name, polled, opened, stored, lock, uploads>>

ReleaseLock(c) ==
    /\ Goto(c, {"unlock"}, "finish")
    /\ lock' = NoConn
    /\ UNCHANGED <<kept, name, polled, opened, stored, uploads, listed>>

(* finish: done_event.set() ... *)
SetDone(c) ==
    /\ Goto(c, {"finish"}, "close")
    /\ UNCHANGED <<kept, name, polled, opened, stored, storeVars>>

(* ... and only then protocol.close() and rawlogfd.close() *)
CloseFiles(c) ==
    /\ Goto(c, {"close"}, "gone")
    /\ opened' = opened \ {c}
    /\ UNCHANGED <<kept, name, polled, stored, storeVars>>

(* what the thread does without the guest *)
Proceed(c) ==
    \/ GetContext(c) \/ GetHandlers(c) \/ AppendHandler(c) \/ BuildStoragePath(c)
    \/ CheckEnd(c) \/ PollTimeout(c)
    \/ Exists(c) \/ OpenFile(c)
    \/ TakeLock(c) \/ AppendFilelog(c) \/ ReleaseLock(c)
    \/ SetDone(c) \/ CloseFiles(c)

(* what the guest or the disk does *)
Guest(c) ==
    \/ \E i \in Ips : Connect(c, i)
    \/ Disconnect(c) \/ Refuse(c) \/ DiskError(c)
    \/ StartBson(c) \/ StartFile(c) \/ StartLog(c)
    \/ OpenProcessLog(c) \/ Message(c) \/ Chunk(c)
    \/ \E f \in Files : Header(c, f)

Next ==
    \/ \E t \in Tasks : Analysis(t)
    \/ \E c \in Conns : Proceed(c) \/ Guest(c)

Spec == Init /\ [][Next]_vars

(* Threads run; guests, disks and the start of a deletion are not fair. *)
FairSpec ==
    /\ Spec
    /\ \A t \in Tasks : WF_vars(Deleting(t))
    /\ \A c \in Conns : WF_vars(Proceed(c))

-----------------------------------------------------------------------------
(* Properties *)

(* Which guest a task's results come from: a handler stores for the task its
   client's address was registered for. *)
RightGuest ==
    \A c \in Conns : path[c] # NoTask => ip[path[c]] = addr[c]

(* del_task waits: once it has returned, no handler that registered with the
   task and stores under it reads from its guest any more, wherever it was
   between its two looks at the table when del_task began. *)
WaitedFor ==
    \A t \in Tasks, c \in Conns :
        tpc[t] = "gone" /\ ctx[c] = t /\ path[c] = t => DoneEvent(c)

(* The end of one analysis never cuts off a handler that stores for another,
   though both used the same address. *)
EndedByOwnTask ==
    \A c \in ended : path[c] # NoTask => ctx[c] = path[c]

(* An upload of which anything was stored is in files.json when its handler is
   done, also when del_task or the guest interrupted it, unless the disk failed. *)
UploadsListed ==
    \A c \in Conns :
        DoneEvent(c) /\ stored[c] > 0 /\ c \notin failed => c \in listed

(* del_task returns, except when a failed append to files.json left the lock of
   the uploads taken. *)
DelReturns ==
    \A t \in Tasks :
        tpc[t] = "popping" ~> tpc[t] = "gone" \/ (lock # NoConn /\ lock \in failed)

-----------------------------------------------------------------------------
(* The inductive invariants: of UploadsListed, *)
Storing == Reading \cup {"exists", "open", "lock", "filelog", "unlock"}

UploadInv ==
    \A c \in Conns :
        /\ pc[c] \in Storing => path[c] # NoTask
        /\ pc[c] \in {"exists", "open"} => name[c] # NoFile
        /\ pc[c] \notin {"chunks", "lock", "filelog", "unlock", "finish", "close", "gone"}
              => stored[c] = 0
        /\ pc[c] = "unlock" => c \in listed
        /\ pc[c] \in {"finish", "close", "gone"} /\ stored[c] > 0 /\ c \notin failed
              => c \in listed

(* and of RightGuest, WaitedFor and EndedByOwnTask: what the tables, the lists,
   the handlers and end_request say of each other. *)
Busy(t) == tpc[t] \notin {"new", "gone"}

RegisteredAt == {"handle", "finish", "close", "gone", "exists", "open", "lock",
                 "filelog", "unlock"} \cup Reading

TablesInv ==
    /\ \A t, u \in Tasks : Busy(t) /\ Busy(u) /\ ip[t] = ip[u] => t = u
    /\ \A t \in Tasks : tpc[t] = "new" <=> ip[t] = NoIp
    /\ \A t \in Tasks : Added(t) => analysistasks[ip[t]] = t
    /\ \A i \in Ips : analysistasks[i] # NoTask =>
          Added(analysistasks[i]) /\ ip[analysistasks[i]] = i

ListsInv ==
    /\ \A t \in Tasks : \A k \in 1..Len(handlers[t]) : ctx[handlers[t][k]] = t
    /\ \A t \in Tasks : at[t] <= Len(handlers[t])
    /\ \A t \in Tasks : tpc[t] = "joining" => at[t] < Len(handlers[t])
    /\ \A t \in Tasks : \A k \in 1..at[t] : DoneEvent(handlers[t][k])

HandlerInv ==
    /\ \A c \in Conns : pc[c] # "none" <=> addr[c] # NoIp
    /\ \A c \in Conns : pc[c] \in {"none", "setup"} => ctx[c] = NoTask
    /\ \A c \in Conns : ctx[c] # NoTask => ip[ctx[c]] = addr[c]
    /\ \A c \in Conns : pc[c] \in {"list", "append"} => ctx[c] # NoTask
    /\ \A c \in Conns : ctx[c] # NoTask /\ pc[c] \in RegisteredAt =>
          \E k \in 1..Len(handlers[ctx[c]]) : handlers[ctx[c]][k] = c
    /\ \A c \in Conns : path[c] # NoTask => pc[c] \in RegisteredAt \ {"handle"}
    /\ \A c \in Conns : path[c] # NoTask /\ ctx[c] # NoTask /\ path[c] # ctx[c] =>
          tpc[ctx[c]] = "gone"

EndedInv ==
    \A c \in ended :
        /\ ctx[c] # NoTask
        /\ ~DoneEvent(c) => /\ tpc[ctx[c]] = "joining"
                            /\ handlers[ctx[c]][at[ctx[c]] + 1] = c

IInv ==
    /\ TypeOK /\ UploadInv /\ TablesInv /\ ListsInv /\ HandlerInv /\ EndedInv
    /\ RightGuest /\ WaitedFor /\ EndedByOwnTask

=============================================================================
