------------------------- MODULE ResultServer_proofs -------------------------
(***************************************************************************)
(* Proofs about ResultServer, for any number of analyses, addresses,       *)
(* connections and paths: IInv is inductive.                               *)
(***************************************************************************)
EXTENDS ResultServer, TLAPS

(* The numbers 0 and the sentinels name nothing. *)
LEMMA Sentinels == NoTask \notin Tasks /\ NoConn \notin Conns /\ NoIp \notin Ips
  BY ResultServerAssumption DEF Tasks, Conns, NoTask, NoConn

(* Appending to a list of handlers keeps what was in it. *)
LEMMA Appended ==
  ASSUME NEW S, NEW q \in Seq(S), NEW e \in S
  PROVE  /\ Append(q, e) \in Seq(S)
         /\ Len(q) \in Nat /\ Len(Append(q, e)) = Len(q) + 1
         /\ \A k \in 1..Len(q) : q[k] \in S /\ Append(q, e)[k] = q[k]
         /\ Append(q, e)[Len(q) + 1] = e
  OBVIOUS

(* What the lists hold are handlers. *)
LEMMA Handlers ==
  ASSUME TypeOK
  PROVE  \A t \in Tasks : /\ Len(handlers[t]) \in Nat
                          /\ \A k \in 1..Len(handlers[t]) : handlers[t][k] \in Conns
  BY DEF TypeOK

(* A server that starts has no tasks and no connections. *)
LEMMA InitInv == Init => IInv
  <1> SUFFICES ASSUME Init PROVE IInv
    OBVIOUS
  <1> USE DEF Init
  <1>1. TypeOK
    BY DEF TypeOK, Locations, NoConn
  <1>2. UploadInv /\ TablesInv /\ ListsInv
    BY Sentinels DEF UploadInv, Storing, Reading, TablesInv, ListsInv, Busy, Added
  <1>3. HandlerInv /\ EndedInv
    BY DEF HandlerInv, EndedInv
  <1>4. RightGuest /\ WaitedFor /\ EndedByOwnTask
    BY Sentinels DEF RightGuest, WaitedFor, EndedByOwnTask
  <1> QED
    BY <1>1, <1>2, <1>3, <1>4 DEF IInv

(* HandlerInv looks at the analyses only for addresses and those that are gone. *)
LEMMA HandlerKept ==
  ASSUME TypeOK, HandlerInv, UNCHANGED <<pc, addr, ctx, path, ip, handlers>>,
         \A t \in Tasks : tpc[t] = "gone" => tpc'[t] = "gone"
  PROVE  HandlerInv'
  <1>1. \A c \in Conns : ctx[c] # NoTask => ctx[c] \in Tasks
    BY DEF TypeOK
  <1>2. \A c \in Conns : path[c] # NoTask /\ ctx[c] # NoTask /\ path[c] # ctx[c] =>
           tpc'[ctx[c]] = "gone"
    BY <1>1 DEF HandlerInv
  <1> QED
    BY <1>2 DEF HandlerInv

-----------------------------------------------------------------------------
(* What the steps of an analysis do to the invariant. *)
LEMMA AddTaskStep ==
  ASSUME IInv, NEW t \in Tasks, NEW i \in Ips, AddTask(t, i)
  PROVE  IInv'
  <1> USE DEF IInv, TypeOK, AddTask, TaskGoto, MachineFree, handlerVars, storeVars
  <1>1. TypeOK'
    BY DEF TypeOK
  <1>2. UploadInv'
    BY DEF UploadInv
  <1>3. TablesInv'
    BY Sentinels DEF TablesInv, Busy, Added
  <1>4. ListsInv'
    BY DEF ListsInv, DoneEvent
  <1>5. HandlerInv'
    BY Sentinels DEF HandlerInv, TablesInv
  <1>6. EndedInv'
    BY Sentinels DEF EndedInv, DoneEvent
  <1>7. RightGuest'
    <2> SUFFICES ASSUME NEW c \in Conns, path[c] # NoTask PROVE ip'[path[c]] = addr[c]
      BY DEF RightGuest
    <2>1. pc[c] # "none" /\ addr[c] # NoIp
      BY DEF HandlerInv, RegisteredAt, Reading
    <2>2. path[c] # t
      BY <2>1 DEF RightGuest, TablesInv
    <2> QED
      BY <2>2 DEF RightGuest
  <1>8. WaitedFor' /\ EndedByOwnTask'
    BY DEF WaitedFor, EndedByOwnTask, DoneEvent
  <1> QED
    BY <1>1, <1>2, <1>3, <1>4, <1>5, <1>6, <1>7, <1>8

(* The second assignment of add_task changes one key. *)
LEMMA AddHandlersStep ==
  ASSUME IInv, NEW t \in Tasks, AddHandlers(t)
  PROVE  IInv'
  <1> USE DEF IInv, TypeOK, TaskGoto, Goto, AddHandlers, handlerVars, storeVars, tableVars
  <1>1. TypeOK'
    BY Sentinels DEF TypeOK
  <1>2. UploadInv'
    BY Sentinels DEF UploadInv
  <1>3. TablesInv'
    BY Sentinels DEF TablesInv, Busy, Added
  <1>4. ListsInv'
    BY Sentinels DEF ListsInv, DoneEvent
  <1>5. HandlerInv'
    BY Sentinels DEF HandlerInv
  <1>6. EndedInv'
    BY Sentinels DEF EndedInv, DoneEvent
  <1>7. RightGuest'
    BY Sentinels DEF RightGuest
  <1>8. WaitedFor'
    BY Sentinels DEF WaitedFor, DoneEvent
  <1>9. EndedByOwnTask'
    BY Sentinels DEF EndedByOwnTask
  <1> QED
    BY <1>1, <1>2, <1>3, <1>4, <1>5, <1>6, <1>7, <1>8, <1>9

(* del_task frees the address. *)
LEMMA DelTaskStep ==
  ASSUME IInv, NEW t \in Tasks, DelTask(t)
  PROVE  IInv'
  <1> USE DEF IInv, TypeOK, TaskGoto, Goto, DelTask, handlerVars, storeVars, tableVars
  <1>1. TypeOK'
    BY Sentinels DEF TypeOK
  <1>2. UploadInv'
    BY Sentinels DEF UploadInv
  <1>3. TablesInv'
    BY Sentinels DEF TablesInv, Busy, Added
  <1>4. ListsInv'
    BY Sentinels DEF ListsInv, DoneEvent
  <1>5. HandlerInv'
    BY Sentinels DEF HandlerInv
  <1>6. EndedInv'
    BY Sentinels DEF EndedInv, DoneEvent
  <1>7. RightGuest'
    BY Sentinels DEF RightGuest
  <1>8. WaitedFor'
    BY Sentinels DEF WaitedFor, DoneEvent
  <1>9. EndedByOwnTask'
    BY Sentinels DEF EndedByOwnTask
  <1> QED
    BY <1>1, <1>2, <1>3, <1>4, <1>5, <1>6, <1>7, <1>8, <1>9

(* del_task takes the list out of the table. *)
LEMMA PopHandlersStep ==
  ASSUME IInv, NEW t \in Tasks, PopHandlers(t)
  PROVE  IInv'
  <1> USE DEF IInv, TypeOK, TaskGoto, Goto, PopHandlers, handlerVars, storeVars, tableVars
  <1>1. TypeOK'
    BY Sentinels DEF TypeOK
  <1>2. UploadInv'
    BY Sentinels DEF UploadInv
  <1>3. TablesInv'
    BY Sentinels DEF TablesInv, Busy, Added
  <1>4. ListsInv'
    BY Sentinels DEF ListsInv, DoneEvent
  <1>5. HandlerInv'
    BY Sentinels DEF HandlerInv
  <1>6. EndedInv'
    BY Sentinels DEF EndedInv, DoneEvent
  <1>7. RightGuest'
    BY Sentinels DEF RightGuest
  <1>8. WaitedFor'
    BY Sentinels DEF WaitedFor, DoneEvent
  <1>9. EndedByOwnTask'
    BY Sentinels DEF EndedByOwnTask
  <1> QED
    BY <1>1, <1>2, <1>3, <1>4, <1>5, <1>6, <1>7, <1>8, <1>9

(* del_task asks the next handler to end. *)
LEMMA EndRequestStep ==
  ASSUME IInv, NEW t \in Tasks, EndRequest(t)
  PROVE  IInv'
  <1> USE DEF IInv, TypeOK, TaskGoto, Goto, EndRequest, handlerVars, storeVars, tableVars
  <1>1. TypeOK'
    BY Sentinels DEF TypeOK
  <1>2. UploadInv'
    BY Sentinels DEF UploadInv
  <1>3. TablesInv'
    BY Sentinels DEF TablesInv, Busy, Added
  <1>4. ListsInv'
    BY Sentinels DEF ListsInv, DoneEvent
  <1>5. HandlerInv'
    BY HandlerKept
  <1> DEFINE h == handlers[t][at[t] + 1]
  <1>a. h \in Conns /\ ctx[h] = t /\ t # NoTask
    BY Handlers, Sentinels DEF ListsInv
  <1>6. EndedInv'
    <2>1. UNCHANGED <<pc, ctx, handlers, at>> /\ tpc'[t] = "joining"
      OBVIOUS
    <2>2. ASSUME NEW c \in ended
          PROVE  /\ ctx[c] # NoTask
                 /\ ~DoneEvent(c) =>
                      /\ tpc'[ctx[c]] = "joining"
                      /\ handlers[ctx[c]][at[ctx[c]] + 1] = c
      BY DEF EndedInv
    <2> QED
      BY <1>a, <2>1, <2>2 DEF EndedInv, DoneEvent
  <1>7. RightGuest'
    BY Sentinels DEF RightGuest
  <1>8. WaitedFor'
    <2>1. UNCHANGED <<ctx, path, pc>> /\ \A u \in Tasks : tpc'[u] = "gone" => tpc[u] = "gone"
      OBVIOUS
    <2> QED
      BY <2>1 DEF WaitedFor, DoneEvent
  <1>9. EndedByOwnTask'
    BY <1>a DEF EndedByOwnTask, HandlerInv
  <1> QED
    BY <1>1, <1>2, <1>3, <1>4, <1>5, <1>6, <1>7, <1>8, <1>9

(* del_task has waited for a handler. *)
LEMMA WaitDoneStep ==
  ASSUME IInv, NEW t \in Tasks, WaitDone(t)
  PROVE  IInv'
  <1> USE DEF IInv, TypeOK, TaskGoto, Goto, WaitDone, handlerVars, storeVars, tableVars
  <1>1. TypeOK'
    BY Sentinels DEF TypeOK
  <1>2. UploadInv'
    BY Sentinels DEF UploadInv
  <1>3. TablesInv'
    BY Sentinels DEF TablesInv, Busy, Added
  <1>4. ListsInv'
    BY Sentinels DEF ListsInv, DoneEvent
  <1>5. HandlerInv'
    BY Sentinels DEF HandlerInv
  <1>6. EndedInv'
    BY Sentinels DEF EndedInv, DoneEvent
  <1>7. RightGuest'
    BY Sentinels DEF RightGuest
  <1>8. WaitedFor'
    BY Sentinels DEF WaitedFor, DoneEvent
  <1>9. EndedByOwnTask'
    BY Sentinels DEF EndedByOwnTask
  <1> QED
    BY <1>1, <1>2, <1>3, <1>4, <1>5, <1>6, <1>7, <1>8, <1>9

(* del_task returns when it went through the list: each handler in it is done. *)
LEMMA DelReturnStep ==
  ASSUME IInv, NEW t \in Tasks, DelReturn(t)
  PROVE  IInv'
  <1> USE DEF IInv, TypeOK, TaskGoto, Goto, DelReturn, handlerVars, storeVars, tableVars
  <1>1. TypeOK'
    BY Sentinels DEF TypeOK
  <1>2. UploadInv'
    BY Sentinels DEF UploadInv
  <1>3. TablesInv'
    BY Sentinels DEF TablesInv, Busy, Added
  <1>4. ListsInv'
    BY Sentinels DEF ListsInv, DoneEvent
  <1>5. HandlerInv'
    BY Sentinels DEF HandlerInv
  <1>6. EndedInv'
    BY Sentinels DEF EndedInv, DoneEvent
  <1>7. RightGuest'
    BY Sentinels DEF RightGuest
  <1>8. WaitedFor'
    <2> SUFFICES ASSUME NEW u \in Tasks, NEW c \in Conns,
                        tpc'[u] = "gone", ctx[c] = u, path[c] = u
                 PROVE  DoneEvent(c)
      BY DEF WaitedFor, DoneEvent
    <2>1. CASE u # t
      BY <2>1 DEF WaitedFor
    <2>2. CASE u = t
      <3>0. pc[c] \in RegisteredAt /\ ctx[c] = t /\ t # NoTask
        BY <2>2, Sentinels DEF HandlerInv
      <3>1. PICK k \in 1..Len(handlers[t]) : handlers[t][k] = c
        BY <3>0 DEF HandlerInv
      <3>2. k \in 1..at[t]
        BY Len(handlers[t]) \in Nat
      <3> QED
        BY <3>1, <3>2 DEF ListsInv
    <2> QED
      BY <2>1, <2>2
  <1>9. EndedByOwnTask'
    BY Sentinels DEF EndedByOwnTask
  <1> QED
    BY <1>1, <1>2, <1>3, <1>4, <1>5, <1>6, <1>7, <1>8, <1>9

-----------------------------------------------------------------------------
(* The steps of the handlers.  All but AppendHandler leave this alone. *)
Frame ==
  /\ UNCHANGED <<analysistasks, handlers, tpc, ip, at, ended>>
  /\ \A d \in Conns : DoneEvent(d) => DoneEvent(d)'
  /\ \A d \in Conns : ctx[d] # NoTask => ctx'[d] = ctx[d]

(* so that the tables, the lists and end_request stay consistent. *)
LEMMA FrameKeeps ==
  ASSUME IInv, Frame
  PROVE  TablesInv' /\ ListsInv' /\ EndedInv'
  <1> USE DEF IInv, Frame
  <1>1. TablesInv'
    BY DEF TablesInv, Busy, Added
  <1>2. ListsInv'
    <2>1. \A t \in Tasks : \A k \in 1..Len(handlers[t]) : ctx'[handlers[t][k]] = t
      BY Handlers, Sentinels DEF ListsInv
    <2>2. \A t \in Tasks : \A k \in 1..at[t] : DoneEvent(handlers[t][k])'
      <3> SUFFICES ASSUME NEW t \in Tasks, NEW k \in 1..at[t]
                   PROVE  DoneEvent(handlers[t][k])'
        OBVIOUS
      <3>1. k \in 1..Len(handlers[t])
        BY Handlers DEF ListsInv, TypeOK
      <3>2. handlers[t][k] \in Conns /\ DoneEvent(handlers[t][k])
        BY <3>1, Handlers DEF ListsInv
      <3> QED
        BY <3>2 DEF DoneEvent
    <2> QED
      BY <2>1, <2>2 DEF ListsInv, DoneEvent
  <1>3. EndedInv'
    <2> SUFFICES ASSUME NEW c \in ended
                 PROVE  /\ ctx'[c] # NoTask
                        /\ ~DoneEvent(c)' =>
                             /\ tpc[ctx'[c]] = "joining"
                             /\ handlers[ctx'[c]][at[ctx'[c]] + 1] = c
      BY DEF EndedInv
    <2>1. c \in Conns /\ ctx'[c] = ctx[c] /\ ctx[c] # NoTask
      BY DEF EndedInv, TypeOK
    <2> QED
      BY <2>1 DEF EndedInv
  <1> QED
    BY <1>1, <1>2, <1>3

(* A handler between its second look at the table and its end: only pc moves. *)
Content == RegisteredAt \ {"handle"}

Moves(c) ==
  /\ UNCHANGED <<analysistasks, handlers, tpc, ip, at, ended, addr, ctx, path>>
  /\ \E to \in Content :
        /\ pc' = [pc EXCEPT ![c] = to]
        /\ DoneEvent(c) => to \in {"close", "gone"}
  /\ pc[c] \in Content

LEMMA MovesKeeps ==
  ASSUME IInv, NEW c \in Conns, Moves(c)
  PROVE  /\ TablesInv' /\ ListsInv' /\ HandlerInv' /\ EndedInv'
         /\ RightGuest' /\ WaitedFor' /\ EndedByOwnTask'
  <1> USE DEF IInv, Moves
  <1>1. \A d \in Conns : DoneEvent(d) => DoneEvent(d)'
    BY DEF DoneEvent, TypeOK
  <1>2. Frame
    BY <1>1 DEF Frame
  <1>3. TablesInv' /\ ListsInv' /\ EndedInv'
    BY <1>2, FrameKeeps
  <1>4. \A d \in Conns : \/ pc'[d] = pc[d]
                         \/ pc[d] \in RegisteredAt /\ pc'[d] \in Content
    BY DEF TypeOK, Content, RegisteredAt
  <1>5. HandlerInv'
    <2>1. \A d \in Conns : pc'[d] # pc[d] =>
             pc'[d] \notin {"none", "setup", "list", "append", "handle"}
      BY <1>4 DEF Content, RegisteredAt, Reading
    <2>2. \A d \in Conns : pc'[d] # pc[d] => pc[d] # "none"
      BY <1>4 DEF RegisteredAt, Reading
    <2>3. \A d \in Conns : /\ pc'[d] \in RegisteredAt => pc[d] \in RegisteredAt
                           /\ pc[d] \in Content => pc'[d] \in Content
      BY <1>4 DEF Content
    <2> QED
      BY <2>1, <2>2, <2>3 DEF HandlerInv, Content
  <1>6. RightGuest' /\ EndedByOwnTask'
    BY DEF RightGuest, EndedByOwnTask
  <1>7. WaitedFor'
    BY <1>1 DEF WaitedFor
  <1> QED
    BY <1>3, <1>5, <1>6, <1>7

(* A connection is accepted. *)
LEMMA ConnectStep ==
  ASSUME IInv, NEW c \in Conns, NEW i \in Ips, Connect(c, i)
  PROVE  /\ TablesInv' /\ ListsInv' /\ HandlerInv' /\ EndedInv'
         /\ RightGuest' /\ WaitedFor' /\ EndedByOwnTask'
  <1>1. /\ pc[c] = "none" /\ pc' = [pc EXCEPT ![c] = "setup"]
        /\ addr' = [addr EXCEPT ![c] = i]
        /\ UNCHANGED <<analysistasks, handlers, tpc, ip, at, ended, ctx, path>>
    BY DEF Connect, Goto, tablesKept, taskVars
  <1> USE DEF IInv
  <1>2. ctx[c] = NoTask /\ path[c] = NoTask
    BY <1>1 DEF HandlerInv, TypeOK, RegisteredAt, Reading
  <1>3. \A d \in Conns : DoneEvent(d) => DoneEvent(d)'
    BY <1>1 DEF DoneEvent, TypeOK
  <1>4. TablesInv' /\ ListsInv' /\ EndedInv'
    BY <1>1, <1>3, FrameKeeps DEF Frame
  <1>5. HandlerInv'
    <2>1. \A d \in Conns : d # c => pc'[d] = pc[d] /\ addr'[d] = addr[d]
      BY <1>1 DEF TypeOK
    <2>2. pc'[c] = "setup" /\ addr'[c] # NoIp
      BY <1>1, Sentinels DEF TypeOK
    <2>3. \A d \in Conns : pc'[d] \in RegisteredAt => d # c
      BY <2>2 DEF RegisteredAt, Reading
    <2> QED
      BY <1>1, <1>2, <2>1, <2>2, <2>3 DEF HandlerInv
  <1>6. RightGuest' /\ EndedByOwnTask'
    BY <1>1, <1>2 DEF RightGuest, EndedByOwnTask, TypeOK
  <1>7. WaitedFor'
    BY <1>1, <1>3 DEF WaitedFor
  <1> QED
    BY <1>4, <1>5, <1>6, <1>7

(* register_handler looks the address up. *)
LEMMA GetContextStep ==
  ASSUME IInv, NEW c \in Conns, GetContext(c)
  PROVE  /\ TablesInv' /\ ListsInv' /\ HandlerInv' /\ EndedInv'
         /\ RightGuest' /\ WaitedFor' /\ EndedByOwnTask'
  <1> DEFINE task == analysistasks[addr[c]]
  <1>1. /\ pc[c] = "setup"
        /\ pc' = [pc EXCEPT ![c] = IF task = NoTask THEN "handle" ELSE "list"]
        /\ ctx' = [ctx EXCEPT ![c] = task]
        /\ UNCHANGED <<analysistasks, handlers, tpc, ip, at, ended, addr, path>>
    BY DEF GetContext, Goto, tablesKept, taskVars
  <1> USE DEF IInv
  <1>2. ctx[c] = NoTask /\ path[c] = NoTask /\ addr[c] \in Ips
    <2>1. pc[c] \notin RegisteredAt
      BY <1>1 DEF RegisteredAt, Reading
    <2>2. addr[c] \in Ips \cup {NoIp}
      BY DEF TypeOK
    <2> QED
      BY <1>1, <2>1, <2>2 DEF HandlerInv
  <1>3. \A d \in Conns : DoneEvent(d) => DoneEvent(d)'
    BY <1>1 DEF DoneEvent, TypeOK
  <1>4. \A d \in Conns : d # c => pc'[d] = pc[d] /\ ctx'[d] = ctx[d]
    BY <1>1 DEF TypeOK
  <1>5. TablesInv' /\ ListsInv' /\ EndedInv'
    <2>1. \A d \in Conns : ctx[d] # NoTask => ctx'[d] = ctx[d]
      BY <1>2, <1>4
    <2> QED
      BY <1>1, <1>3, <2>1, FrameKeeps DEF Frame
  <1>6. HandlerInv'
    <2>1. /\ ctx'[c] = task /\ pc'[c] \in {"handle", "list"}
          /\ task = NoTask <=> pc'[c] = "handle"
      BY <1>1 DEF TypeOK
    <2>2. task # NoTask => ip[task] = addr[c]
      BY <1>2 DEF TablesInv
    <2>3. pc[c] # "none" /\ addr[c] # NoIp
      BY <1>1 DEF HandlerInv
    <2>4. task # NoTask => pc'[c] \notin RegisteredAt
      BY <2>1 DEF RegisteredAt, Reading
    <2> QED
      BY <1>1, <1>2, <1>4, <2>1, <2>2, <2>3, <2>4 DEF HandlerInv
  <1>7. RightGuest' /\ EndedByOwnTask' /\ WaitedFor'
    BY <1>1, <1>2, <1>3, <1>4, Sentinels DEF RightGuest, EndedByOwnTask, WaitedFor, TypeOK
  <1> QED
    BY <1>5, <1>6, <1>7

(* register_handler gets the list, or a KeyError. *)
LEMMA GetHandlersStep ==
  ASSUME IInv, NEW c \in Conns, GetHandlers(c)
  PROVE  /\ TablesInv' /\ ListsInv' /\ HandlerInv' /\ EndedInv'
         /\ RightGuest' /\ WaitedFor' /\ EndedByOwnTask'
  <1>1. /\ pc[c] = "list"
        /\ pc' = [pc EXCEPT ![c] = IF ctx[c] \in known THEN "append" ELSE "dropped"]
        /\ UNCHANGED <<analysistasks, handlers, tpc, ip, at, ended, addr, ctx, path>>
    BY DEF GetHandlers, Goto, tablesKept, taskVars
  <1> USE DEF IInv
  <1>2. \A d \in Conns : DoneEvent(d) => DoneEvent(d)'
    BY <1>1 DEF DoneEvent, TypeOK
  <1>3. TablesInv' /\ ListsInv' /\ EndedInv'
    BY <1>1, <1>2, FrameKeeps DEF Frame
  <1>4. HandlerInv'
    <2>1. \A d \in Conns : d # c => pc'[d] = pc[d]
      BY <1>1 DEF TypeOK
    <2>2. pc'[c] \in {"append", "dropped"} /\ pc'[c] \notin RegisteredAt
      BY <1>1 DEF TypeOK, RegisteredAt, Reading
    <2>3. pc[c] \notin RegisteredAt
      BY <1>1 DEF RegisteredAt, Reading
    <2> QED
      BY <1>1, <2>1, <2>2, <2>3 DEF HandlerInv
  <1>5. RightGuest' /\ EndedByOwnTask' /\ WaitedFor'
    BY <1>1, <1>2 DEF RightGuest, EndedByOwnTask, WaitedFor
  <1> QED
    BY <1>3, <1>4, <1>5

(* register_handler appends to the list, which del_task may have taken out of the
   table or even gone through. *)
LEMMA AppendHandlerStep ==
  ASSUME IInv, NEW c \in Conns, AppendHandler(c)
  PROVE  /\ TablesInv' /\ ListsInv' /\ HandlerInv' /\ EndedInv'
         /\ RightGuest' /\ WaitedFor' /\ EndedByOwnTask'
  <1> DEFINE t == ctx[c]
             q == handlers[t]
  <1>1. /\ pc[c] = "append" /\ pc' = [pc EXCEPT ![c] = "handle"]
        /\ handlers' = [handlers EXCEPT ![t] = Append(q, c)]
        /\ UNCHANGED <<analysistasks, tpc, ip, at, ended, addr, ctx, path>>
    BY DEF AppendHandler, Goto, tablesKept, taskVars
  <1> USE DEF IInv
  <1>2. t \in Tasks /\ q \in Seq(Conns) /\ path[c] = NoTask
    <2>1. pc[c] \notin RegisteredAt
      BY <1>1 DEF RegisteredAt, Reading
    <2>2. t \in Tasks
      BY <1>1 DEF HandlerInv, TypeOK
    <2> QED
      BY <2>1, <2>2 DEF HandlerInv, TypeOK
  <1>3. \A u \in Tasks : /\ Len(handlers[u]) \in Nat
                         /\ u # t => handlers'[u] = handlers[u]
    BY <1>1, <1>2, Handlers DEF TypeOK
  <1>4. /\ handlers'[t] = Append(q, c) /\ Len(handlers'[t]) = Len(q) + 1
        /\ \A k \in 1..Len(q) : handlers'[t][k] = q[k]
        /\ handlers'[t][Len(q) + 1] = c
    BY <1>1, <1>2, Appended DEF TypeOK
  <1>5. \A u \in Tasks : /\ Len(handlers'[u]) \in Nat
                         /\ Len(handlers[u]) <= Len(handlers'[u])
                         /\ \A k \in 1..Len(handlers[u]) : handlers'[u][k] = handlers[u][k]
    BY <1>2, <1>3, <1>4
  <1>6. \A d \in Conns : DoneEvent(d) => DoneEvent(d)'
    BY <1>1 DEF DoneEvent, TypeOK
  <1>7. \A d \in Conns : d # c => pc'[d] = pc[d]
    BY <1>1 DEF TypeOK
  <1>8. TablesInv'
    BY <1>1 DEF TablesInv, Busy, Added
  <1>9. ListsInv'
    <2>1. \A u \in Tasks : \A k \in 1..Len(handlers'[u]) : ctx[handlers'[u][k]] = u
      <3> SUFFICES ASSUME NEW u \in Tasks, NEW k \in 1..Len(handlers'[u])
                   PROVE  ctx[handlers'[u][k]] = u
        OBVIOUS
      <3>1. CASE k \in 1..Len(handlers[u])
        BY <3>1, <1>5 DEF ListsInv
      <3>2. CASE k \notin 1..Len(handlers[u])
        BY <3>2, <1>2, <1>3, <1>4
      <3> QED
        BY <3>1, <3>2
    <2>2. \A u \in Tasks : /\ at[u] <= Len(handlers'[u])
                           /\ tpc[u] = "joining" => at[u] < Len(handlers'[u])
      BY <1>3, <1>5 DEF ListsInv, TypeOK
    <2>3. \A u \in Tasks : \A k \in 1..at[u] : DoneEvent(handlers[u][k])'
      <3> SUFFICES ASSUME NEW u \in Tasks, NEW k \in 1..at[u]
                   PROVE  DoneEvent(handlers[u][k])'
        OBVIOUS
      <3>1. k \in 1..Len(handlers[u])
        BY <1>3 DEF ListsInv, TypeOK
      <3>2. handlers'[u][k] = handlers[u][k] /\ handlers[u][k] \in Conns
        BY <3>1, <1>5, Handlers
      <3>3. DoneEvent(handlers[u][k])
        BY DEF ListsInv
      <3> QED
        BY <3>2, <3>3, <1>6 DEF DoneEvent
    <2> QED
      BY <1>1, <2>1, <2>2, <2>3 DEF ListsInv
  <1>10. HandlerInv'
    <2>1. \A d \in Conns : ctx[d] # NoTask /\ pc'[d] \in RegisteredAt =>
             \E k \in 1..Len(handlers'[ctx[d]]) : handlers'[ctx[d]][k] = d
      <3> SUFFICES ASSUME NEW d \in Conns, ctx[d] # NoTask, pc'[d] \in RegisteredAt
                   PROVE  \E k \in 1..Len(handlers'[ctx[d]]) : handlers'[ctx[d]][k] = d
        OBVIOUS
      <3>0. ctx[d] \in Tasks
        BY DEF TypeOK
      <3>1. CASE d = c
        BY <3>1, <1>2, <1>3, <1>4
      <3>2. CASE d # c
        <4>1. PICK k \in 1..Len(handlers[ctx[d]]) : handlers[ctx[d]][k] = d
          BY <3>2, <1>7 DEF HandlerInv
        <4>2. k \in 1..Len(handlers'[ctx[d]]) /\ handlers'[ctx[d]][k] = d
          BY <3>0, <4>1, <1>3, <1>5
        <4> QED
          BY <4>2
      <3> QED
        BY <3>1, <3>2
    <2>2. pc'[c] = "handle" /\ pc[c] # "none"
      BY <1>1 DEF TypeOK
    <2> QED
      BY <1>1, <1>2, <1>7, <2>1, <2>2 DEF HandlerInv
  <1>11. EndedInv'
    <2> SUFFICES ASSUME NEW d \in ended
                 PROVE  /\ ctx[d] # NoTask
                        /\ ~DoneEvent(d)' =>
                             /\ tpc[ctx[d]] = "joining"
                             /\ handlers'[ctx[d]][at[ctx[d]] + 1] = d
      BY <1>1 DEF EndedInv
    <2>1. d \in Conns /\ ctx[d] # NoTask /\ ctx[d] \in Tasks
      BY DEF EndedInv, TypeOK
    <2>2. ASSUME ~DoneEvent(d)'
          PROVE  /\ tpc[ctx[d]] = "joining"
                 /\ handlers'[ctx[d]][at[ctx[d]] + 1] = d
      <3>1. /\ tpc[ctx[d]] = "joining"
            /\ handlers[ctx[d]][at[ctx[d]] + 1] = d
        BY <2>1, <2>2, <1>6 DEF EndedInv
      <3>2. at[ctx[d]] + 1 \in 1..Len(handlers[ctx[d]])
        BY <2>1, <3>1, <1>3 DEF ListsInv, TypeOK
      <3> QED
        BY <2>1, <3>1, <3>2, <1>5
    <2> QED
      BY <2>1, <2>2
  <1>12. RightGuest' /\ EndedByOwnTask' /\ WaitedFor'
    BY <1>1, <1>6 DEF RightGuest, EndedByOwnTask, WaitedFor
  <1> QED
    BY <1>8, <1>9, <1>10, <1>11, <1>12

(* handle looks the address up again: what it finds is not being deleted, so it is
   the task it registered with, or that one is gone. *)
LEMMA BuildStoragePathStep ==
  ASSUME IInv, NEW c \in Conns, BuildStoragePath(c)
  PROVE  /\ TablesInv' /\ ListsInv' /\ HandlerInv' /\ EndedInv'
         /\ RightGuest' /\ WaitedFor' /\ EndedByOwnTask'
  <1> DEFINE task == analysistasks[addr[c]]
             to == IF task = NoTask THEN "finish" ELSE "negotiate"
  <1>1. /\ pc[c] = "handle" /\ pc' = [pc EXCEPT ![c] = to]
        /\ path' = [path EXCEPT ![c] = task]
        /\ UNCHANGED <<analysistasks, handlers, tpc, ip, at, ended, addr, ctx>>
    BY DEF BuildStoragePath, Goto, tablesKept, taskVars
  <1> USE DEF IInv
  <1>2. addr[c] \in Ips /\ pc[c] \in RegisteredAt
    BY <1>1 DEF HandlerInv, TypeOK, RegisteredAt
  <1>3. \A d \in Conns : d # c => pc'[d] = pc[d] /\ path'[d] = path[d]
    BY <1>1 DEF TypeOK
  <1>4. pc'[c] = to /\ path'[c] = task
    BY <1>1 DEF TypeOK
  <1>5. \A d \in Conns : DoneEvent(d) => DoneEvent(d)'
    BY <1>1 DEF DoneEvent, TypeOK
  <1>6. TablesInv' /\ ListsInv' /\ EndedInv'
    BY <1>1, <1>5, FrameKeeps DEF Frame
  <1>7. task # NoTask =>
          /\ task \in Tasks /\ Added(task) /\ Busy(task) /\ ip[task] = addr[c]
          /\ tpc[task] \notin {"gone", "joining"}
    BY <1>2 DEF TablesInv, TypeOK, Added, Busy
  <1>8. ctx[c] # NoTask => /\ ctx[c] \in Tasks /\ ip[ctx[c]] = addr[c]
                           /\ tpc[ctx[c]] # "new"
    <2>1. ctx[c] # NoTask => ctx[c] \in Tasks /\ ip[ctx[c]] = addr[c]
      BY DEF HandlerInv, TypeOK
    <2> QED
      BY <1>2, <2>1, Sentinels DEF TablesInv
  <1>9. task # NoTask /\ ctx[c] # NoTask /\ task # ctx[c] => tpc[ctx[c]] = "gone"
    BY <1>7, <1>8 DEF TablesInv, Busy
  <1>10. HandlerInv'
    <2>1. to \in RegisteredAt \ {"handle"} /\ to \notin {"none", "setup", "list", "append"}
      BY DEF RegisteredAt, Reading
    <2> QED
      BY <1>1, <1>2, <1>3, <1>4, <1>9, <2>1 DEF HandlerInv
  <1>11. RightGuest'
    BY <1>1, <1>3, <1>4, <1>7 DEF RightGuest
  <1>12. WaitedFor'
    <2> SUFFICES ASSUME NEW t \in Tasks, NEW d \in Conns,
                        tpc[t] = "gone", ctx[d] = t, path'[d] = t
                 PROVE  DoneEvent(d)'
      BY <1>1 DEF WaitedFor
    <2>1. d # c
      BY <1>4, <1>7, Sentinels
    <2> QED
      BY <1>3, <1>5, <2>1 DEF WaitedFor
  <1>13. EndedByOwnTask'
    <2> SUFFICES ASSUME NEW d \in ended, path'[d] # NoTask
                 PROVE  ctx[d] = path'[d]
      BY <1>1 DEF EndedByOwnTask
    <2>1. CASE d = c
      <3>1. ctx[c] # NoTask /\ tpc[ctx[c]] = "joining"
        BY <1>1, <2>1 DEF EndedInv, DoneEvent
      <3> QED
        BY <2>1, <3>1, <1>4, <1>9
    <2>2. CASE d # c
      BY <2>2, <1>3 DEF EndedByOwnTask, TypeOK
    <2> QED
      BY <2>1, <2>2
  <1> QED
    BY <1>6, <1>10, <1>11, <1>12, <1>13

-----------------------------------------------------------------------------
(* Types, uploads, and the theorems *)

(* Every step of a handler keeps the types. *)
LEMMA HandlerTypes ==
  ASSUME IInv, NEW c \in Conns, Proceed(c) \/ Guest(c)
  PROVE  TypeOK'
  <1>a. /\ pc[c] = "setup" => addr[c] \in Ips
        /\ pc[c] = "append" => ctx[c] \in Tasks
        /\ pc[c] = "handle" => addr[c] \in Ips
        /\ pc[c] = "open" => path[c] \in Tasks /\ name[c] \in Files
    BY DEF IInv, TypeOK, HandlerInv, UploadInv, Storing
  <1>b. TypeOK
    BY DEF IInv
  <1> USE <1>b DEF TypeOK, Goto, Locations, Reading, tablesKept, kept, contentVars, taskVars, storeVars
  <1>1. ASSUME NEW i \in Ips, Connect(c, i) PROVE TypeOK'
    BY <1>1 DEF Connect
  <1>2. ASSUME GetContext(c) PROVE TypeOK'
    <2>1. analysistasks[addr[c]] \in Tasks \cup {NoTask}
      BY <1>a, <1>2 DEF GetContext
    <2>2. ctx' \in [Conns -> Tasks \cup {NoTask}]
      BY <2>1, <1>2 DEF GetContext
    <2> QED
      BY <2>2, <1>2 DEF GetContext
  <1>3. ASSUME GetHandlers(c) PROVE TypeOK'
    BY <1>3 DEF GetHandlers
  <1>4. ASSUME AppendHandler(c) PROVE TypeOK'
    <2>1. handlers' \in [Tasks -> Seq(Conns)]
      BY <1>a, <1>4, Appended DEF AppendHandler
    <2> QED
      BY <2>1, <1>4 DEF AppendHandler
  <1>5. ASSUME BuildStoragePath(c) PROVE TypeOK'
    <2>1. analysistasks[addr[c]] \in Tasks \cup {NoTask}
      BY <1>a, <1>5 DEF BuildStoragePath
    <2>2. path' \in [Conns -> Tasks \cup {NoTask}]
      BY <2>1, <1>5 DEF BuildStoragePath
    <2> QED
      BY <2>2, <1>5 DEF BuildStoragePath
  <1>6. ASSUME CheckEnd(c) PROVE TypeOK'
    BY <1>6 DEF CheckEnd, Interrupted
  <1>7. ASSUME PollTimeout(c) PROVE TypeOK'
    BY <1>7 DEF PollTimeout
  <1>8. ASSUME Disconnect(c) PROVE TypeOK'
    BY <1>8 DEF Disconnect, Interrupted
  <1>9. ASSUME Refuse(c) PROVE TypeOK'
    BY <1>9 DEF Refuse
  <1>10. ASSUME DiskError(c) PROVE TypeOK'
    BY <1>10 DEF DiskError
  <1>11. ASSUME StartBson(c) PROVE TypeOK'
    BY <1>11 DEF StartBson, Receive
  <1>12. ASSUME StartFile(c) PROVE TypeOK'
    BY <1>12 DEF StartFile, Receive
  <1>13. ASSUME StartLog(c) PROVE TypeOK'
    BY <1>13 DEF StartLog, Receive
  <1>14. ASSUME OpenProcessLog(c) PROVE TypeOK'
    BY <1>14 DEF OpenProcessLog, Receive
  <1>15. ASSUME Message(c) PROVE TypeOK'
    BY <1>15 DEF Message, Receive
  <1>16. ASSUME NEW f \in Files, Header(c, f) PROVE TypeOK'
    BY <1>16 DEF Header, Receive
  <1>17. ASSUME Exists(c) PROVE TypeOK'
    BY <1>17 DEF Exists
  <1>18. ASSUME OpenFile(c) PROVE TypeOK'
    <2>1. uploads' \subseteq Tasks \X Files
      BY <1>a, <1>18 DEF OpenFile
    <2> QED
      BY <2>1, <1>18 DEF OpenFile
  <1>19. ASSUME Chunk(c) PROVE TypeOK'
    BY <1>19 DEF Chunk, Receive
  <1>20. ASSUME TakeLock(c) PROVE TypeOK'
    BY <1>20 DEF TakeLock
  <1>21. ASSUME AppendFilelog(c) PROVE TypeOK'
    BY <1>21 DEF AppendFilelog
  <1>22. ASSUME ReleaseLock(c) PROVE TypeOK'
    BY <1>22 DEF ReleaseLock
  <1>23. ASSUME SetDone(c) PROVE TypeOK'
    BY <1>23 DEF SetDone
  <1>24. ASSUME CloseFiles(c) PROVE TypeOK'
    BY <1>24 DEF CloseFiles
  <1> QED
    BY <1>1, <1>2, <1>3, <1>4, <1>5, <1>6, <1>7, <1>8, <1>9, <1>10, <1>11, <1>12, <1>13, <1>14, <1>15, <1>16, <1>17, <1>18, <1>19, <1>20, <1>21, <1>22, <1>23, <1>24 DEF Proceed, Guest

(* Every step of a handler keeps what makes the list of uploads complete. *)
LEMMA HandlerUploads ==
  ASSUME TypeOK, UploadInv, NEW c \in Conns, Proceed(c) \/ Guest(c)
  PROVE  UploadInv'
  <1> USE DEF TypeOK, UploadInv, Storing, Goto, Reading, tablesKept, kept, contentVars, taskVars, storeVars
  <1>1. ASSUME NEW i \in Ips, Connect(c, i) PROVE UploadInv'
    BY <1>1 DEF Connect
  <1>2. ASSUME GetContext(c) PROVE UploadInv'
    BY <1>2 DEF GetContext
  <1>3. ASSUME GetHandlers(c) PROVE UploadInv'
    BY <1>3 DEF GetHandlers
  <1>4. ASSUME AppendHandler(c) PROVE UploadInv'
    BY <1>4 DEF AppendHandler
  <1>5. ASSUME BuildStoragePath(c) PROVE UploadInv'
    BY <1>5 DEF BuildStoragePath
  <1>6. ASSUME CheckEnd(c) PROVE UploadInv'
    <2>1. CASE c \in ended
      BY <1>6, <2>1 DEF CheckEnd, Interrupted
    <2>2. CASE c \notin ended
      BY <1>6, <2>2 DEF CheckEnd
    <2> QED
      BY <2>1, <2>2
  <1>7. ASSUME PollTimeout(c) PROVE UploadInv'
    BY <1>7 DEF PollTimeout
  <1>8. ASSUME Disconnect(c) PROVE UploadInv'
    BY <1>8 DEF Disconnect, Interrupted
  <1>9. ASSUME Refuse(c) PROVE UploadInv'
    BY <1>9 DEF Refuse
  <1>10. ASSUME DiskError(c) PROVE UploadInv'
    BY <1>10 DEF DiskError
  <1>11. ASSUME StartBson(c) PROVE UploadInv'
    BY <1>11 DEF StartBson, Receive
  <1>12. ASSUME StartFile(c) PROVE UploadInv'
    BY <1>12 DEF StartFile, Receive
  <1>13. ASSUME StartLog(c) PROVE UploadInv'
    BY <1>13 DEF StartLog, Receive
  <1>14. ASSUME OpenProcessLog(c) PROVE UploadInv'
    BY <1>14 DEF OpenProcessLog, Receive
  <1>15. ASSUME Message(c) PROVE UploadInv'
    BY <1>15 DEF Message, Receive
  <1>16. ASSUME NEW f \in Files, Header(c, f) PROVE UploadInv'
    <2>1. f # NoFile
      BY ResultServerAssumption
    <2> QED
      BY <1>16, <2>1 DEF Header, Receive
  <1>17. ASSUME Exists(c) PROVE UploadInv'
    BY <1>17 DEF Exists
  <1>18. ASSUME OpenFile(c) PROVE UploadInv'
    BY <1>18 DEF OpenFile
  <1>19. ASSUME Chunk(c) PROVE UploadInv'
    BY <1>19 DEF Chunk, Receive
  <1>20. ASSUME TakeLock(c) PROVE UploadInv'
    BY <1>20 DEF TakeLock
  <1>21. ASSUME AppendFilelog(c) PROVE UploadInv'
    BY <1>21 DEF AppendFilelog
  <1>22. ASSUME ReleaseLock(c) PROVE UploadInv'
    BY <1>22 DEF ReleaseLock
  <1>23. ASSUME SetDone(c) PROVE UploadInv'
    BY <1>23 DEF SetDone
  <1>24. ASSUME CloseFiles(c) PROVE UploadInv'
    BY <1>24 DEF CloseFiles
  <1> QED
    BY <1>1, <1>2, <1>3, <1>4, <1>5, <1>6, <1>7, <1>8, <1>9, <1>10, <1>11, <1>12, <1>13, <1>14, <1>15, <1>16, <1>17, <1>18, <1>19, <1>20, <1>21, <1>22, <1>23, <1>24 DEF Proceed, Guest

(* After its second look at the table a handler only moves. *)
LEMMA HandlerMoves ==
  ASSUME TypeOK, NEW c \in Conns, Proceed(c) \/ Guest(c), \A i \in Ips : ~Connect(c, i),
         ~GetContext(c), ~GetHandlers(c), ~AppendHandler(c), ~BuildStoragePath(c)
  PROVE  Moves(c)
  <1> USE DEF TypeOK, Moves, DoneEvent, Content, RegisteredAt, Goto, Reading, tablesKept, kept,
              contentVars, taskVars, storeVars
  <1>1. ASSUME CheckEnd(c) PROVE Moves(c)
    BY <1>1 DEF CheckEnd, Interrupted
  <1>2. ASSUME PollTimeout(c) PROVE Moves(c)
    BY <1>2 DEF PollTimeout
  <1>3. ASSUME Disconnect(c) PROVE Moves(c)
    BY <1>3 DEF Disconnect, Interrupted
  <1>4. ASSUME Refuse(c) PROVE Moves(c)
    BY <1>4 DEF Refuse
  <1>5. ASSUME DiskError(c) PROVE Moves(c)
    BY <1>5 DEF DiskError
  <1>6. ASSUME StartBson(c) PROVE Moves(c)
    BY <1>6 DEF StartBson, Receive
  <1>7. ASSUME StartFile(c) PROVE Moves(c)
    BY <1>7 DEF StartFile, Receive
  <1>8. ASSUME StartLog(c) PROVE Moves(c)
    BY <1>8 DEF StartLog, Receive
  <1>9. ASSUME OpenProcessLog(c) PROVE Moves(c)
    BY <1>9 DEF OpenProcessLog, Receive
  <1>10. ASSUME Message(c) PROVE Moves(c)
    BY <1>10 DEF Message, Receive
  <1>11. ASSUME NEW f \in Files, Header(c, f) PROVE Moves(c)
    BY <1>11 DEF Header, Receive
  <1>12. ASSUME Exists(c) PROVE Moves(c)
    BY <1>12 DEF Exists
  <1>13. ASSUME OpenFile(c) PROVE Moves(c)
    BY <1>13 DEF OpenFile
  <1>14. ASSUME Chunk(c) PROVE Moves(c)
    BY <1>14 DEF Chunk, Receive
  <1>15. ASSUME TakeLock(c) PROVE Moves(c)
    BY <1>15 DEF TakeLock
  <1>16. ASSUME AppendFilelog(c) PROVE Moves(c)
    BY <1>16 DEF AppendFilelog
  <1>17. ASSUME ReleaseLock(c) PROVE Moves(c)
    BY <1>17 DEF ReleaseLock
  <1>18. ASSUME SetDone(c) PROVE Moves(c)
    BY <1>18 DEF SetDone
  <1>19. ASSUME CloseFiles(c) PROVE Moves(c)
    BY <1>19 DEF CloseFiles
  <1> QED
    BY <1>1, <1>2, <1>3, <1>4, <1>5, <1>6, <1>7, <1>8, <1>9, <1>10, <1>11, <1>12, <1>13, <1>14, <1>15, <1>16, <1>17, <1>18, <1>19 DEF Proceed, Guest

(* Every step of a handler keeps the invariant. *)
LEMMA HandlerStep ==
  ASSUME IInv, NEW c \in Conns, Proceed(c) \/ Guest(c)
  PROVE  IInv'
  <1>1. TypeOK /\ UploadInv
    BY DEF IInv
  <1>2. TypeOK' /\ UploadInv'
    BY <1>1, HandlerTypes, HandlerUploads
  <1>3. /\ TablesInv' /\ ListsInv' /\ HandlerInv' /\ EndedInv'
        /\ RightGuest' /\ WaitedFor' /\ EndedByOwnTask'
    <2>1. CASE \E i \in Ips : Connect(c, i)
      BY <2>1, ConnectStep
    <2>2. CASE GetContext(c)
      BY <2>2, GetContextStep
    <2>3. CASE GetHandlers(c)
      BY <2>3, GetHandlersStep
    <2>4. CASE AppendHandler(c)
      BY <2>4, AppendHandlerStep
    <2>5. CASE BuildStoragePath(c)
      BY <2>5, BuildStoragePathStep
    <2>6. CASE /\ \A i \in Ips : ~Connect(c, i)
               /\ ~GetContext(c) /\ ~GetHandlers(c)
               /\ ~AppendHandler(c) /\ ~BuildStoragePath(c)
      <3>1. Moves(c)
        BY <1>1, <2>6, HandlerMoves
      <3> QED
        BY <3>1, MovesKeeps
    <2> QED
      BY <2>1, <2>2, <2>3, <2>4, <2>5, <2>6
  <1> QED
    BY <1>2, <1>3 DEF IInv

(* The inductive invariant holds in every state: the tables of the server, the lists of
   handlers, and where each handler and each deletion is, agree at every step of theirs. *)
THEOREM Invariance == Spec => []IInv
<1>1. IInv /\ [Next]_vars => IInv'
  <2> SUFFICES ASSUME IInv, [Next]_vars PROVE IInv'
    OBVIOUS
  <2>1. ASSUME NEW t \in Tasks, Analysis(t) PROVE IInv'
    BY <2>1, AddTaskStep, AddHandlersStep, DelTaskStep, PopHandlersStep,
       EndRequestStep, WaitDoneStep, DelReturnStep DEF Analysis, Deleting
  <2>2. ASSUME NEW c \in Conns, Proceed(c) \/ Guest(c) PROVE IInv'
    BY <2>2, HandlerStep
  <2>3. CASE UNCHANGED vars
    BY <2>3 DEF vars, tableVars, taskVars, handlerVars, storeVars, IInv, TypeOK,
       UploadInv, TablesInv, Busy, Added, ListsInv, DoneEvent, HandlerInv, EndedInv,
       RightGuest, WaitedFor, EndedByOwnTask
  <2> QED
    BY <2>1, <2>2, <2>3 DEF Next
<1> QED
  BY <1>1, InitInv, PTL DEF Spec

(* Results of a guest are stored for the analysis its address belongs to. *)
THEOREM StoredForItsGuest == Spec => []RightGuest
<1>1. IInv => RightGuest
  BY DEF IInv
<1> QED
  BY <1>1, Invariance, PTL

(* When del_task has returned, every handler that registered with the analysis and
   stores for it has set done_event, whatever the order in which the two looked at
   the tables. *)
THEOREM HandlersWaitedFor == Spec => []WaitedFor
<1>1. IInv => WaitedFor
  BY DEF IInv
<1> QED
  BY <1>1, Invariance, PTL

(* del_task never ends a handler that stores for another analysis. *)
THEOREM OthersUndisturbed == Spec => []EndedByOwnTask
<1>1. IInv => EndedByOwnTask
  BY DEF IInv
<1> QED
  BY <1>1, Invariance, PTL

(* No upload of which something was stored is missing in files.json, unless the
   disk failed. *)
THEOREM UploadsComplete == Spec => []UploadsListed
<1>1. IInv => UploadsListed
  BY DEF IInv, UploadInv, UploadsListed, DoneEvent
<1> QED
  BY <1>1, Invariance, PTL
=============================================================================
