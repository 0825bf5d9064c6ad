---------------------------- MODULE Guest_proofs ----------------------------
(* Proofs about both ends of the network between Cuckoo and a VM.  Guest: whatever the VM,
   its Agent and the other threads do, an analysis is called a success only when its end
   was seen or asked for.  Analyzer: inside the VM the followed processes stay on the list
   and no file is lost, however the threads of the analyzer and the sample interleave. *)
EXTENDS Guest, Analyzer, SequenceTheorems, FiniteSetTheorems, WellFoundedInduction, TLAPS

WithAgent == {"file", "url"}
Final == {"complete", "exception"}

(* Before the wait the row is what the manager wrote, or "stop"; a stranger's answer
   makes it "failed".  During the wait it is "running" or "stop". *)
RowInv ==
    /\ row = "stop" => stopAsked
    /\ manager \in {"available", "index", "waitinit", "ask", "mark"} => row \in {"starting", "stop"}
    /\ manager = "check" => row \in {"starting", "stop"} \/ (row = "failed" /\ agent = "other")
    /\ manager = "wait" => row \in {"running", "stop"}

(* The thread has an outcome only after guest_manage, so that nothing it does can take
   back the status it has seen. *)
SuccessInv ==
    /\ RowInv
    /\ outcome # "none" => manager = "over"
    /\ SuccessMeansEnded

LEMMA WorldKeeps == SuccessInv /\ World => SuccessInv'
  <1> SUFFICES ASSUME SuccessInv, World PROVE SuccessInv'
    OBVIOUS
  <1>0. UNCHANGED <<agent, category, manager, outcome>>
    BY DEF World, Boot, Break, Report, Tick, StopService, ThreadStays
  <1>1. stopAsked => stopAsked'
    BY DEF World, Boot, Break, Report, Tick, StopService
  <1>2. status \in Final => status' = status
    BY DEF World, Boot, Break, Report, Tick, StopService, Final
  <1>3. row' = row \/ (row' = "stop" /\ stopAsked')
    BY DEF World, Boot, Break, Report, Tick, StopService
  <1>4. RowInv'
    <2>1. CASE StopService
      BY <1>0, <2>1 DEF StopService, SuccessInv, RowInv
    <2>2. CASE Boot \/ Break \/ Report \/ Tick
      BY <1>0, <2>2 DEF Boot, Break, Report, Tick, SuccessInv, RowInv
    <2> QED BY <2>1, <2>2 DEF World
  <1> QED BY <1>0, <1>1, <1>2, <1>4 DEF SuccessInv, SuccessMeansEnded, Final

LEMMA ManagerKeeps == SuccessInv /\ ManagerStep => SuccessInv'
  <1> SUFFICES ASSUME SuccessInv, ManagerStep PROVE SuccessInv'
    OBVIOUS
  <1> USE DEF SuccessInv, RowInv, SuccessMeansEnded, WorldStays, Raise
  <1>1. CASE Enter
    BY <1>1 DEF Enter
  <1>2. CASE Available
    BY <1>2 DEF Available
  <1>3. CASE Index
    BY <1>3 DEF Index
  <1>4. CASE WaitInit
    BY <1>4 DEF WaitInit
  <1>5. CASE Granted
    BY <1>5 DEF Granted, GoOn
  <1>6. CASE Denied
    BY <1>6 DEF Denied, GoOn
  <1>7. CASE Broken
    BY <1>7 DEF Broken
  <1>8. CASE Check
    BY <1>8 DEF Check
  <1>9. CASE Mark
    BY <1>9 DEF Mark
  <1>10. CASE WaitStopped
    BY <1>10 DEF WaitStopped, Ended
  <1>11. CASE WaitLate
    BY <1>11 DEF WaitLate
  <1>12. CASE WaitStatus
    BY <1>12 DEF WaitStatus, Ended
  <1> QED
    BY <1>1, <1>2, <1>3, <1>4, <1>5, <1>6, <1>7, <1>8, <1>9, <1>10, <1>11, <1>12 DEF ManagerStep

(* launch_analysis is told of success only when the analyzer was heard to have ended,
   the row said "stop", or a stranger answered for the Agent. *)
THEOREM SuccessSeen == GuestSpec => []SuccessMeansEnded
  <1>1. GuestInit => SuccessInv
    BY DEF GuestInit, SuccessInv, RowInv, SuccessMeansEnded
  <1>2. SuccessInv /\ [GuestNext]_gvars => SuccessInv'
    <2>1. SuccessInv /\ UNCHANGED gvars => SuccessInv'
      BY DEF gvars, SuccessInv, RowInv, SuccessMeansEnded
    <2> QED BY <2>1, WorldKeeps, ManagerKeeps DEF GuestNext
  <1>3. SuccessInv => SuccessMeansEnded
    BY DEF SuccessInv
  <1> QED BY <1>1, <1>2, <1>3, PTL DEF GuestSpec

-----------------------------------------------------------------------------
(* The analyzer: its invariant *)

FileCommands == {"file_new", "file_del", "file_move"}
PathsOf(m) ==
    IF m.cmd = "file_move" THEN {m.path, m.to} ELSE IF m.cmd \in FileCommands THEN {m.path} ELSE {}

(* Before the time is up the counter is below the timeout. *)
TickInv == main \in {"setup", "package", "trace"} \/ InLoop => ticks < task.timeout

(* Only Windows has a monitor, and no two processes have announced work on the same path. *)
CommandInv ==
    /\ platform # "windows" => monitored = {} /\ \A p \in Pids : told[p] = NoCommand
    /\ \A p \in Pids :
          /\ handler[p] \in {"listed", "inject"} => told[p].cmd = "process"
          /\ handler[p] = "answer" => told[p] # NoCommand
    /\ \A p, q \in Pids : p # q => PathsOf(told[p]) \cap PathsOf(told[q]) = {}
    /\ main = "trace" => platform = "darwin"

(* There is no sample before the package starts it; and what was promised is followed. *)
FollowInv ==
    /\ main \in {"setup", "package"} =>
          alive = {} /\ promised = {} /\ monitored = {} /\ \A p \in Pids : told[p] = NoCommand
    /\ InLoop => promised \subseteq alive /\ promised \subseteq ToSet(pids)

Kept(f) == disk[f] \in dumped \cup failed \cup {NoFile}

(* A file whose deletion is answered was uploaded. *)
AnsweredInv ==
    missed = {} /\ \A p \in Pids : handler[p] = "answer" /\ told[p].cmd = "file_del" => Kept(told[p].path)

(* Of the files there were at the end, those the loop has gone past were, and the others
   are still listed. *)
DueInv ==
    /\ main \notin {"dump", "report", "over"} => due = {}
    /\ main = "dump" => due \subseteq files /\ \A f \in due \ todump : Kept(f)
    /\ main \in {"report", "over"} /\ why # "exception" => \A f \in due : Kept(f)
    /\ report = "complete" => main = "over" /\ why # "exception"

AnalyzerInv == AnalyzerTypeOK /\ TickInv /\ CommandInv /\ FollowInv /\ AnsweredInv /\ DueInv

-----------------------------------------------------------------------------
(* Lemmas about sequences.  Natural numbers are well-founded, which gives the first of the
   positions a value has in a list. *)

(* A set of natural numbers has a least element. *)
LEMMA LeastNatural ==
  ASSUME NEW S, S \subseteq Nat, S # {}
  PROVE  \E n \in S : \A m \in S : n <= m
  <1>1. IsWellFoundedOn(OpToRel(<, Nat), Nat)
    BY NatLessThanWellFounded
  <1> DEFINE R == OpToRel(<, Nat)
  <1>2. \A x, y \in Nat : x < y => <<x, y>> \in R
    BY DEF OpToRel
  <1> HIDE DEF R
  <1>3. PICK n \in S : \A m \in S : <<m, n>> \notin R
    BY <1>1, WFMin DEF R
  <1>4. \A m \in S : m \in Nat /\ n \in Nat /\ ~ (m < n)
    BY <1>2, <1>3
  <1>5. \A m \in S : n <= m
    BY <1>4
  <1> QED BY <1>5

(* What is in a concatenation is in one of its parts. *)
LEMMA SetOfConcat ==
  ASSUME NEW T, NEW s \in Seq(T), NEW t \in Seq(T)
  PROVE  s \o t \in Seq(T) /\ ToSet(s \o t) = ToSet(s) \cup ToSet(t)
  <1>1. /\ s \o t \in Seq(T) /\ Len(s \o t) = Len(s) + Len(t)
        /\ \A i \in 1..Len(s) + Len(t) : (s \o t)[i] = IF i <= Len(s) THEN s[i] ELSE t[i - Len(s)]
    BY ConcatProperties
  <1>2. /\ DOMAIN s = 1..Len(s) /\ DOMAIN t = 1..Len(t) /\ DOMAIN (s \o t) = 1..Len(s) + Len(t)
        /\ Len(s) \in Nat /\ Len(t) \in Nat
    BY <1>1, LenProperties
  <1> DEFINE st == s \o t
             m == Len(s)
             n == Len(t)
  <1>3. \A i \in 1..m : i \in 1..m + n /\ st[i] = s[i]
    BY <1>1, <1>2
  <1>4. \A i \in 1..n : i + m \in 1..m + n /\ st[i + m] = t[i]
    BY <1>1, <1>2
  <1>5. \A i \in 1..m + n : (i \in 1..m /\ st[i] = s[i]) \/ (i - m \in 1..n /\ st[i] = t[i - m])
    BY <1>1, <1>2
  <1>6. DOMAIN s = 1..m /\ DOMAIN t = 1..n /\ DOMAIN st = 1..m + n
    BY <1>2
  <1> HIDE DEF st, m, n
  <1>7. ToSet(s) = {s[i] : i \in 1..m} /\ ToSet(t) = {t[i] : i \in 1..n} /\ ToSet(st) = {st[i] : i \in 1..m + n}
    BY <1>6 DEF ToSet
  <1>8. ToSet(st) \subseteq ToSet(s) \cup ToSet(t)
    BY <1>5, <1>7
  <1>9. ToSet(s) \cup ToSet(t) \subseteq ToSet(st)
    BY <1>3, <1>4, <1>7
  <1> QED BY <1>1, <1>8, <1>9 DEF st

(* Removing the first occurrence of a value keeps every other value. *)
LEMMA RemoveFirstKeeps ==
  ASSUME NEW T, NEW s \in Seq(T), NEW e
  PROVE  /\ RemoveFirst(s, e) \in Seq(T)
         /\ ToSet(s) \ {e} \subseteq ToSet(RemoveFirst(s, e))
  <1>1. CASE ~ \E i \in 1..Len(s) : s[i] = e
    BY <1>1 DEF RemoveFirst, ToSet
  <1>2. CASE \E i \in 1..Len(s) : s[i] = e
    <2> DEFINE I == {i \in 1..Len(s) : s[i] = e}
               k == Min(I)
    <2>1. I # {} /\ I \subseteq Nat
      BY <1>2
    <2>2. k \in I
      <3>1. \E n \in I : \A m \in I : n <= m
        BY <2>1, LeastNatural
      <3> QED BY <3>1 DEF Min
    <2>3. RemoveFirst(s, e) = RemoveAt(s, k)
      BY <1>2, <2>1 DEF RemoveFirst, SelectInSeq
    <2> DEFINE left == SubSeq(s, 1, k - 1)
               right == SubSeq(s, k + 1, Len(s))
    <2>4. k \in 1..Len(s) /\ Len(s) \in Nat
      BY <2>2
    <2>11. left \in Seq(T) /\ Len(left) = k - 1 /\ \A i \in 1..k - 1 : left[i] = s[i]
      <3> HIDE DEF k
      <3> QED BY <2>4, SubSeqProperties
    <2>12. right \in Seq(T) /\ Len(right) = Len(s) - k /\ \A i \in 1..Len(s) - k : right[i] = s[i + k]
      <3> HIDE DEF k
      <3> QED BY <2>4, SubSeqProperties
    <2> HIDE DEF k, left, right
    <2>5. RemoveFirst(s, e) = left \o right
      BY <2>3 DEF RemoveAt, left, right
    <2>7. \A i \in 1..Len(s) : s[i] # e => i < k \/ i > k
      BY <2>2
    <2>13. left \o right \in Seq(T) /\ ToSet(left \o right) = ToSet(left) \cup ToSet(right)
      BY <2>11, <2>12, SetOfConcat
    <2>8. ASSUME NEW i \in 1..Len(s), s[i] # e PROVE s[i] \in ToSet(left \o right)
      <3>1. CASE i < k
        <4>1. i \in DOMAIN left /\ left[i] = s[i]
          BY <3>1, <2>4, <2>11
        <4> QED BY <4>1, <2>13 DEF ToSet
      <3>2. CASE i > k
        <4>1. i - k \in 1..Len(s) - k /\ right[i - k] = s[i]
          BY <3>2, <2>4, <2>12
        <4>2. i - k \in DOMAIN right
          BY <4>1, <2>4, <2>12
        <4> QED BY <4>1, <4>2, <2>13 DEF ToSet
      <3> QED BY <3>1, <3>2, <2>7, <2>8
    <2>9. \A x \in ToSet(s) : x # e => x \in ToSet(left \o right)
      <3>1. \A x \in ToSet(s) : \E i \in 1..Len(s) : s[i] = x
        BY DEF ToSet
      <3> QED BY <3>1, <2>8
    <2> QED BY <2>5, <2>13, <2>9
  <1> QED BY <1>1, <1>2

(* The sequence made of a finite set holds its elements. *)
LEMMA SetOfSequence ==
  ASSUME NEW S, IsFiniteSet(S)
  PROVE  SetToSeq(S) \in Seq(S) /\ ToSet(SetToSeq(S)) = S
  <1> DEFINE n == Cardinality(S)
  <1>1. n \in Nat /\ ExistsBijection(1..n, S)
    BY FS_CardinalityType
  <1>2. PICK f \in [1..n -> S] : \A a, b \in 1..n : f[a] = f[b] => a = b
    BY <1>1 DEF ExistsBijection, Bijection, Injection, IsInjective
  <1>3. SetToSeq(S) \in [1..n -> S] /\ IsInjective(SetToSeq(S))
    <2>1. IsInjective(f)
      BY <1>2 DEF IsInjective
    <2>2. \E g \in [1..n -> S] : IsInjective(g)
      BY <2>1
    <2> QED BY <2>2, Zenon DEF SetToSeq
  <1>4. SetToSeq(S) \in Injection(1..n, S)
    BY <1>3 DEF Injection, IsInjective
  <1>5. IsFiniteSet(1..n) /\ Cardinality(1..n) = n
    BY <1>1, FS_Interval
  <1>6. SetToSeq(S) \in Surjection(1..n, S)
    BY <1>4, <1>5, FS_Injection
  <1>7. DOMAIN SetToSeq(S) = 1..n /\ \A x \in S : \E i \in 1..n : SetToSeq(S)[i] = x
    BY <1>6 DEF Surjection
  <1>8. \A i \in 1..n : SetToSeq(S)[i] \in S
    BY <1>3
  <1> HIDE DEF n
  <1>9. SetToSeq(S) \in Seq(S)
    BY <1>1, <1>3
  <1>10. ToSet(SetToSeq(S)) = {SetToSeq(S)[i] : i \in 1..n}
    BY <1>7 DEF ToSet
  <1> QED BY <1>7, <1>8, <1>9, <1>10

(* Appending adds one element. *)
LEMMA SetOfAppend ==
  ASSUME NEW T, NEW s \in Seq(T), NEW e \in T
  PROVE  Append(s, e) \in Seq(T) /\ ToSet(Append(s, e)) = ToSet(s) \cup {e}
  <1>1. Append(s, e) = s \o <<e>> /\ <<e>> \in Seq(T) /\ ToSet(<<e>>) = {e}
    BY AppendIsConcat DEF ToSet
  <1>2. ToSet(s \o <<e>>) = ToSet(s) \cup ToSet(<<e>>)
    <2> DEFINE t == <<e>>
    <2>1. t \in Seq(T)
      BY <1>1
    <2> HIDE DEF t
    <2>2. ToSet(s \o t) = ToSet(s) \cup ToSet(t)
      BY <2>1, SetOfConcat
    <2> QED BY <2>2 DEF t
  <1>3. Append(s, e) \in Seq(T)
    OBVIOUS
  <1> QED BY <1>1, <1>2, <1>3

-----------------------------------------------------------------------------
(* Lemmas about commands *)

LEMMA CommandFields ==
  ASSUME NEW m \in MonitorCommands
  PROVE  /\ m.cmd = "none" => m = NoCommand
         /\ m.cmd = "process" => m.child \in Pids
         /\ m.cmd \in FileCommands => m.path \in Paths
         /\ m.cmd = "file_move" => m.to \in Paths
  BY DEF MonitorCommands, NoCommand, FileCommands

LEMMA NoPaths == PathsOf(NoCommand) = {}
  BY DEF PathsOf, NoCommand, FileCommands

(* Announcing something frees a process for nothing else, and takes it away from nobody. *)
LEMMA Announced ==
  ASSUME AnalyzerTypeOK, CommandInv, NEW p \in Pids, NEW m \in MonitorCommands, told[p] = NoCommand,
         \A f \in PathsOf(m) : Quiet(f), told' = [told EXCEPT ![p] = m]
  PROVE  /\ told' \in [Pids -> MonitorCommands]
         /\ \A q \in Pids : q # p => told'[q] = told[q]
         /\ told'[p] = m
         /\ \A q, r \in Pids : q # r => PathsOf(told'[q]) \cap PathsOf(told'[r]) = {}
  <1>1. /\ told' \in [Pids -> MonitorCommands] /\ told'[p] = m
        /\ \A q \in Pids : q # p => told'[q] = told[q]
    BY DEF AnalyzerTypeOK
  <1>2. \A q \in Pids : PathsOf(m) \cap PathsOf(told[q]) = {}
    BY DEF Quiet, PathsOf, FileCommands
  <1> QED BY <1>1, <1>2 DEF CommandInv

-----------------------------------------------------------------------------
(* Steps of the main thread that move it alone *)

LoopStep ==
    \/ WindowsSetup \/ LinuxSetup \/ AndroidSetup \/ DarwinSetup \/ DarwinEnd
    \/ WindowsTick \/ LinuxTick \/ AndroidTick \/ LookAtLock \/ CheckEmpty \/ CheckPackage
    \/ WindowsFinish \/ LinuxFinish \/ AndroidFinish \/ LinuxComplete \/ Complain \/ StopRequest

Before == {"setup", "package"}
Mains == {"setup", "package", "trace", "tick", "locked", "scan", "gather", "empty",
          "check", "finish", "terminate", "complete", "dump", "report", "over"}

LoopTypes ==
    /\ main' \in Mains /\ ticks' \in 0..task.timeout /\ pidCheck' \in BOOLEAN /\ doRun' \in BOOLEAN
    /\ cursor' \in Nat /\ why' \in {"", "timeout", "empty", "package", "stopped", "exception"}
    /\ report' \in {"none", "complete", "exception"}
LoopMoves ==
    /\ main' \in Before => main \in Before
    /\ InLoop' => InLoop
    /\ main' \in Before \cup {"trace"} \/ InLoop' => ticks' < task.timeout
    /\ main' = "trace" => main = "trace"
    /\ main' = "dump" => main = "dump"
    /\ main' = "report" => main = "report" \/ due = {}
    /\ main' = "over" => main = "over" \/ main = "report"
    /\ main = "dump" => main' = "dump"
    /\ main = "report" => main' \in {"report", "over"}
    /\ main = "over" => main' = "over"
    /\ main \in {"report", "over"} => why' = why
    /\ report' = "complete" => main' = "over" /\ why' # "exception"
LoopFrame == UNCHANGED <<platform, task, lists, processLock, sample, disk, store>>

LEMMA TimesOf == AnalyzerTypeOK => task.timeout \in Nat /\ task.timeout > 0 /\ ticks \in Nat
  <1> SUFFICES ASSUME AnalyzerTypeOK PROVE task.timeout \in Nat /\ task.timeout > 0 /\ ticks \in Nat
    OBVIOUS
  <1>1. task \in [timeout : Nat \ {0}, does : {"lists", "files"}]
    BY AnalyzerAssumption DEF AnalyzerAssumption, AnalyzerTypeOK
  <1>2. task.timeout \in Nat \ {0}
    BY <1>1
  <1>3. task.timeout \in Nat /\ task.timeout > 0
    BY <1>2
  <1>4. ticks \in 0..task.timeout
    BY DEF AnalyzerTypeOK
  <1> QED BY <1>3, <1>4

LEMMA OneMore == AnalyzerTypeOK /\ ticks < task.timeout =>
    ticks + 1 \in 0..task.timeout /\ (ticks + 1 # task.timeout => ticks + 1 < task.timeout)
  BY TimesOf

LEMMA LoopStepMoves ==
  ASSUME AnalyzerTypeOK, TickInv, AnsweredInv, DueInv, LoopStep
  PROVE  LoopTypes /\ LoopMoves /\ LoopFrame
  <1> USE DEF AnalyzerTypeOK, TickInv, InLoop, AnsweredInv, DueInv, MainOnly, LoopTypes, LoopMoves, LoopFrame, Before, Mains
  <1>0. task.timeout \in Nat /\ ticks \in Nat
    BY TimesOf
  <1>1. CASE WindowsSetup \/ LinuxSetup \/ AndroidSetup \/ DarwinSetup
    BY <1>1 DEF WindowsSetup, LinuxSetup, AndroidSetup, DarwinSetup, SetUp, Raises
  <1>2. CASE DarwinEnd
    BY <1>2 DEF DarwinEnd, Raises
  <1>3. CASE WindowsTick
    <2>1. ticks < task.timeout
      BY <1>3 DEF WindowsTick
    <2>2. ticks + 1 \in 0..task.timeout /\ (ticks + 1 # task.timeout => ticks + 1 < task.timeout)
      BY <2>1, OneMore
    <2> QED BY <1>0, <1>3, <2>1, <2>2 DEF WindowsTick, Tock, TickOnly, LeaveLoop
  <1>4. CASE LinuxTick
    <2>1. ticks < task.timeout
      BY <1>4 DEF LinuxTick
    <2>2. ticks + 1 \in 0..task.timeout /\ (ticks + 1 # task.timeout => ticks + 1 < task.timeout)
      BY <2>1, OneMore
    <2> QED BY <1>4, <2>1, <2>2 DEF LinuxTick, Tock, TickOnly, LeaveLoop
  <1>10. CASE AndroidTick
    <2>1. ticks < task.timeout
      BY <1>10 DEF AndroidTick
    <2>2. ticks + 1 \in 0..task.timeout /\ (ticks + 1 # task.timeout => ticks + 1 < task.timeout)
      BY <2>1, OneMore
    <2> QED BY <1>10, <2>1, <2>2 DEF AndroidTick, Tock, TickOnly, LeaveLoop
  <1>5. CASE LookAtLock
    BY <1>5 DEF LookAtLock
  <1>6. CASE CheckEmpty \/ CheckPackage
    BY <1>6 DEF CheckEmpty, CheckPackage, LeaveLoop
  <1>7. CASE WindowsFinish \/ LinuxFinish \/ AndroidFinish
    BY <1>7 DEF WindowsFinish, LinuxFinish, AndroidFinish, Finish
  <1>8. CASE LinuxComplete
    BY <1>8 DEF LinuxComplete
  <1>9. CASE Complain
    BY <1>9 DEF Complain
  <1>11. CASE StopRequest
    BY <1>11 DEF StopRequest
  <1> QED BY <1>1, <1>2, <1>3, <1>4, <1>5, <1>6, <1>7, <1>8, <1>9, <1>10, <1>11 DEF LoopStep

LEMMA LoopStepKeeps == AnalyzerInv /\ LoopStep => AnalyzerInv'
  <1> SUFFICES ASSUME AnalyzerInv, LoopStep PROVE AnalyzerInv'
    OBVIOUS
  <1>0. LoopTypes /\ LoopMoves /\ LoopFrame
    BY LoopStepMoves DEF AnalyzerInv
  <1>1. UNCHANGED <<platform, task, pids, notrack, seen, promised, processLock, alive, suspended, monitored,
                    known, told, handler, disk, files, todump, size, due, dumped, failed, missed>>
    BY <1>0 DEF LoopFrame, lists, sample, store
  <1>2. AnalyzerTypeOK'
    BY <1>0, <1>1 DEF AnalyzerInv, AnalyzerTypeOK, LoopTypes, Mains
  <1>3. TickInv'
    BY <1>0, <1>1 DEF LoopMoves, TickInv, Before
  <1>4. CommandInv'
    BY <1>0, <1>1 DEF AnalyzerInv, CommandInv, LoopMoves
  <1>5. FollowInv'
    BY <1>0, <1>1 DEF AnalyzerInv, FollowInv, LoopMoves, Before
  <1>6. AnsweredInv' /\ DueInv'
    BY <1>0, <1>1 DEF AnalyzerInv, AnsweredInv, DueInv, LoopMoves, Kept
  <1> QED BY <1>2, <1>3, <1>4, <1>5, <1>6 DEF AnalyzerInv

-----------------------------------------------------------------------------
(* The package starts the sample. *)

StartStep == WindowsStart \/ LinuxStart \/ AndroidStart \/ DarwinStart

(* What holds after each of them: the sample is there and followed, or not there. *)
StartMoves ==
    /\ main' \in {"tick", "trace", "report"} /\ why' \in {why, "exception"}
    /\ main' = "trace" => platform = "darwin"
    /\ main' = "report" => why' = "exception"
    /\ alive' \subseteq Pids /\ promised' \subseteq alive' /\ promised' \subseteq ToSet(pids') /\ pids' \in Seq(Pids)
    /\ seen' \subseteq Pids /\ pidCheck' \in BOOLEAN /\ monitored' \subseteq Pids
    /\ platform # "windows" => monitored' = {}

LEMMA OnlyFirst == <<FirstPid>> \in Seq(Pids) /\ ToSet(<<FirstPid>>) = {FirstPid} /\ FirstPid \in Pids
  BY AnalyzerAssumption DEF AnalyzerAssumption, ToSet

LEMMA StartStepKeeps == AnalyzerInv /\ StartStep => AnalyzerInv'
  <1> SUFFICES ASSUME AnalyzerInv, StartStep PROVE AnalyzerInv'
    OBVIOUS
  <1>0. main = "package" /\ alive = {} /\ promised = {} /\ monitored = {} /\ due = {} /\ missed = {}
        /\ \A p \in Pids : told[p] = NoCommand
    BY DEF AnalyzerInv, FollowInv, AnsweredInv, DueInv, StartStep, WindowsStart, LinuxStart, AndroidStart, DarwinStart
  <1>1. UNCHANGED <<platform, task, ticks, doRun, cursor, report, notrack, processLock, suspended, known, told,
                    handler, disk, files, todump, size, due, dumped, failed, missed>>
    BY DEF StartStep, WindowsStart, LinuxStart, AndroidStart, DarwinStart, StartOnly, store
  <1>2. StartMoves
    <2> USE <1>0, OnlyFirst DEF StartMoves, Started, NotStarted, Execute, Raises, AnalyzerInv, AnalyzerTypeOK
    <2>1. CASE WindowsStart
      BY <2>1 DEF WindowsStart
    <2>2. CASE LinuxStart
      BY <2>2 DEF LinuxStart
    <2>3. CASE AndroidStart
      BY <2>3 DEF AndroidStart
    <2>4. CASE DarwinStart
      BY <2>4 DEF DarwinStart
    <2> QED BY <2>1, <2>2, <2>3, <2>4 DEF StartStep
  <1>3. AnalyzerTypeOK'
    BY <1>1, <1>2 DEF AnalyzerInv, AnalyzerTypeOK, StartMoves
  <1>4. TickInv'
    BY <1>0, <1>1 DEF AnalyzerInv, TickInv
  <1>5. CommandInv'
    BY <1>1, <1>2 DEF AnalyzerInv, CommandInv, StartMoves
  <1>6. FollowInv'
    BY <1>2 DEF FollowInv, StartMoves, InLoop
  <1>7. AnsweredInv' /\ DueInv'
    BY <1>0, <1>1, <1>2 DEF AnalyzerInv, AnsweredInv, DueInv, StartMoves, Kept
  <1> QED BY <1>3, <1>4, <1>5, <1>6, <1>7 DEF AnalyzerInv

-----------------------------------------------------------------------------
(* The main loop changes the list of the processes it follows. *)

ScanStep == WindowsScan \/ LinuxScan \/ Gather

ScanMoves ==
    /\ main \in {"scan", "gather"} /\ main' \in {"scan", "gather", "empty"} /\ cursor' \in Nat
    /\ pids' \in Seq(Pids) /\ notrack' \subseteq Pids /\ seen' \subseteq Pids /\ promised' \subseteq alive
    /\ promised' \subseteq ToSet(pids')

LEMMA ScanStepKeeps == AnalyzerInv /\ ScanStep => AnalyzerInv'
  <1> SUFFICES ASSUME AnalyzerInv, ScanStep PROVE AnalyzerInv'
    OBVIOUS
  <1>1. main \in {"scan", "gather"}
        /\ UNCHANGED <<platform, task, ticks, pidCheck, doRun, why, report, processLock, alive, suspended, monitored,
                       known, told, handler, disk, files, todump, size, due, dumped, failed, missed>>
    BY DEF ScanStep, WindowsScan, LinuxScan, Gather, ScanOnly, AddPids, MainOnly, sample, store
  <1>2. /\ pids \in Seq(Pids) /\ notrack \subseteq Pids /\ seen \subseteq Pids /\ known \subseteq Pids /\ cursor \in Nat
        /\ alive \subseteq Pids /\ promised \subseteq alive /\ promised \subseteq ToSet(pids)
    BY <1>1 DEF AnalyzerInv, AnalyzerTypeOK, FollowInv, InLoop
  <1>3. ScanMoves
    <2>1. CASE WindowsScan
      <3>1. main' \in {"scan", "empty"} /\ cursor' \in Nat /\ UNCHANGED <<seen, promised>>
        BY <1>2, <2>1 DEF WindowsScan, ScanOnly
      <3>2. CASE UNCHANGED <<pids, notrack>>
        BY <1>1, <1>2, <3>1, <3>2 DEF ScanMoves
      <3>3. ASSUME pids[cursor] \notin alive, RemovePid(pids[cursor]) PROVE ScanMoves
        <4> DEFINE e == pids[cursor]
        <4>1. pids' = RemoveFirst(pids, e) /\ notrack' = notrack \ {e}
          BY <3>3 DEF RemovePid
        <4>2. pids' \in Seq(Pids) /\ ToSet(pids) \ {e} \subseteq ToSet(pids')
          BY <1>2, <4>1, RemoveFirstKeeps
        <4>3. e \notin promised
          BY <1>2, <3>3
        <4> QED BY <1>1, <1>2, <3>1, <4>1, <4>2, <4>3 DEF ScanMoves
      <3> QED BY <2>1, <3>2, <3>3 DEF WindowsScan
    <2>2. CASE LinuxScan
      <3> DEFINE left == ToSet(pids) \cap alive
      <3>1. pids' = SetToSeq(left) /\ main' = "gather" /\ UNCHANGED <<cursor, notrack, seen, promised>>
        BY <2>2 DEF LinuxScan, ScanOnly
      <3>2. IsFiniteSet(left) /\ left \subseteq Pids
        BY <1>2, AnalyzerAssumption, FS_Subset DEF AnalyzerAssumption
      <3>3. pids' \in Seq(left) /\ ToSet(pids') = left
        BY <3>1, <3>2, SetOfSequence
      <3>4. pids' \in Seq(Pids)
        BY <3>2, <3>3
      <3> QED BY <1>1, <1>2, <3>1, <3>3, <3>4 DEF ScanMoves
    <2>3. CASE Gather
      <3> DEFINE new == known \ seen
      <3>1. /\ pids' = pids \o SetToSeq(new) /\ seen' = seen \cup known
            /\ promised' = promised \cup (new \cap alive) /\ main' = "empty" /\ UNCHANGED <<notrack, cursor>>
        BY <2>3 DEF Gather, AddPids
      <3>2. IsFiniteSet(new) /\ new \subseteq Pids
        BY <1>2, AnalyzerAssumption, FS_Subset DEF AnalyzerAssumption
      <3>3. SetToSeq(new) \in Seq(new) /\ ToSet(SetToSeq(new)) = new
        BY <3>2, SetOfSequence
      <3>4. SetToSeq(new) \in Seq(Pids)
        BY <3>2, <3>3
      <3>5. pids' \in Seq(Pids) /\ ToSet(pids') = ToSet(pids) \cup new
        <4> DEFINE t == SetToSeq(new)
        <4>1. t \in Seq(Pids) /\ ToSet(t) = new /\ pids' = pids \o t
          BY <3>1, <3>3, <3>4
        <4> HIDE DEF t, new
        <4> QED BY <1>2, <4>1, SetOfConcat
      <3> QED BY <1>1, <1>2, <3>1, <3>5 DEF ScanMoves
    <2> QED BY <2>1, <2>2, <2>3 DEF ScanStep
  <1>4. AnalyzerTypeOK'
    BY <1>1, <1>2, <1>3 DEF AnalyzerInv, AnalyzerTypeOK, ScanMoves
  <1>5. TickInv'
    BY <1>1 DEF AnalyzerInv, TickInv, InLoop
  <1>6. CommandInv'
    BY <1>1, <1>3 DEF AnalyzerInv, CommandInv, ScanMoves
  <1>7. FollowInv'
    BY <1>1, <1>3 DEF FollowInv, ScanMoves
  <1>8. AnsweredInv' /\ DueInv'
    BY <1>1, <1>3 DEF AnalyzerInv, AnsweredInv, DueInv, ScanMoves, Kept
  <1> QED BY <1>4, <1>5, <1>6, <1>7, <1>8 DEF AnalyzerInv

-----------------------------------------------------------------------------
(* The end: processes are terminated, files uploaded. *)

EndStep == Terminate \/ WindowsComplete \/ WindowsDump \/ DarwinDump

LEMMA DumpedIsKept ==
  ASSUME NEW f, DumpFile(f) \/ DarwinUpload(f)
  PROVE  disk[f] \in dumped' \cup failed' \cup {NoFile} /\ dumped \subseteq dumped' /\ failed \subseteq failed'
  BY DEF DumpFile, DarwinUpload, Upload

LEMMA UploadTypes ==
  ASSUME AnalyzerTypeOK, NEW f \in Paths, DumpFile(f) \/ DarwinUpload(f)
  PROVE  dumped' \subseteq Contents /\ failed' \subseteq Contents
  <1>1. disk[f] \in Contents \cup {NoFile} /\ dumped \subseteq Contents /\ failed \subseteq Contents
    BY DEF AnalyzerTypeOK
  <1>2. \/ dumped' = dumped /\ failed' = failed
        \/ disk[f] # NoFile /\ dumped' = dumped \cup {disk[f]} /\ failed' = failed
        \/ disk[f] # NoFile /\ dumped' = dumped /\ failed' = failed \cup {disk[f]}
    BY DEF DumpFile, DarwinUpload, Upload
  <1> QED BY <1>1, <1>2

LEMMA TerminateKeeps == AnalyzerInv /\ Terminate => AnalyzerInv'
  <1> SUFFICES ASSUME AnalyzerInv, Terminate PROVE AnalyzerInv'
    OBVIOUS
  <1>1. /\ main = "terminate" /\ main' = "complete" /\ alive' \subseteq alive
        /\ UNCHANGED <<platform, task, ticks, pidCheck, doRun, cursor, why, report, pids, notrack, seen, promised,
                       processLock, suspended, monitored, known, told, handler, disk, files, todump, size, due,
                       dumped, failed, missed>>
    BY DEF Terminate, lists, store
  <1>2. AnalyzerTypeOK'
    BY <1>1 DEF AnalyzerInv, AnalyzerTypeOK
  <1>3. TickInv' /\ FollowInv'
    BY <1>1 DEF TickInv, FollowInv, InLoop
  <1>4. CommandInv'
    BY <1>1 DEF AnalyzerInv, CommandInv
  <1>5. AnsweredInv' /\ DueInv'
    BY <1>1 DEF AnalyzerInv, AnsweredInv, DueInv, Kept
  <1> QED BY <1>2, <1>3, <1>4, <1>5 DEF AnalyzerInv

LEMMA WindowsCompleteKeeps == AnalyzerInv /\ WindowsComplete => AnalyzerInv'
  <1> SUFFICES ASSUME AnalyzerInv, WindowsComplete PROVE AnalyzerInv'
    OBVIOUS
  <1>1. /\ main = "complete" /\ main' = "dump" /\ todump' = files /\ due' = files /\ size' = Cardinality(files)
        /\ UNCHANGED <<platform, task, ticks, pidCheck, doRun, cursor, why, report, pids, notrack, seen, promised,
                       processLock, alive, suspended, monitored, known, told, handler, disk, files,
                       dumped, failed, missed>>
    BY DEF WindowsComplete, lists, sample
  <1>2. size' \in Nat
    <2>1. IsFiniteSet(files)
      BY AnalyzerAssumption, FS_Subset DEF AnalyzerAssumption, AnalyzerInv, AnalyzerTypeOK
    <2> QED BY <1>1, <2>1, FS_CardinalityType
  <1>3. AnalyzerTypeOK'
    BY <1>1, <1>2 DEF AnalyzerInv, AnalyzerTypeOK
  <1>4. TickInv' /\ FollowInv'
    BY <1>1 DEF TickInv, FollowInv, InLoop
  <1>5. CommandInv'
    BY <1>1 DEF AnalyzerInv, CommandInv
  <1>6. AnsweredInv' /\ DueInv'
    BY <1>1 DEF AnalyzerInv, AnsweredInv, DueInv, Kept
  <1> QED BY <1>3, <1>4, <1>5, <1>6 DEF AnalyzerInv

LEMMA DumpKeeps == AnalyzerInv /\ (WindowsDump \/ DarwinDump) => AnalyzerInv'
  <1> SUFFICES ASSUME AnalyzerInv, WindowsDump \/ DarwinDump PROVE AnalyzerInv'
    OBVIOUS
  <1>1. /\ main = "dump"
        /\ UNCHANGED <<platform, task, ticks, pidCheck, doRun, cursor, report, pids, notrack, seen, promised,
                       processLock, alive, suspended, monitored, known, told, handler, disk, files, size, due,
                       missed>>
    BY DEF WindowsDump, DarwinDump, DumpOnly, lists, sample
  (* An exception, the end of the loop, or one more file *)
  <1>2. \/ main' = "report" /\ why' = "exception" /\ UNCHANGED <<todump, dumped, failed>>
        \/ main' = "report" /\ UNCHANGED <<why, todump, dumped, failed>> /\ (todump = {} \/ todump \cap files = {})
        \/ \E f \in todump : todump' = todump \ {f} /\ (DumpFile(f) \/ DarwinUpload(f)) /\ UNCHANGED <<main, why>>
    BY DEF WindowsDump, DarwinDump, Raises
  <1>3. dumped \subseteq dumped' /\ failed \subseteq failed' /\ dumped' \subseteq Contents /\ failed' \subseteq Contents
    <2>1. todump \subseteq Paths /\ dumped \subseteq Contents /\ failed \subseteq Contents
      BY DEF AnalyzerInv, AnalyzerTypeOK
    <2> QED BY <1>2, <2>1, DumpedIsKept, UploadTypes DEF AnalyzerInv
  <1>4. AnalyzerTypeOK'
    BY <1>1, <1>2, <1>3 DEF AnalyzerInv, AnalyzerTypeOK
  <1>5. TickInv' /\ FollowInv'
    BY <1>1, <1>2 DEF TickInv, FollowInv, InLoop
  <1>6. CommandInv'
    BY <1>1, <1>2 DEF AnalyzerInv, CommandInv
  <1>7. AnsweredInv'
    BY <1>1, <1>3 DEF AnalyzerInv, AnsweredInv, Kept
  <1>8. DueInv'
    <2>1. \A f : Kept(f) => Kept(f)'
      BY <1>1, <1>3 DEF Kept
    <2>2. due \subseteq files /\ report # "complete" /\ \A f \in due \ todump : Kept(f)
      BY <1>1 DEF AnalyzerInv, DueInv
    <2>3. CASE main' = "report" /\ why' = "exception"
      BY <1>1, <2>2, <2>3 DEF DueInv
    <2>4. CASE main' = "report" /\ (todump = {} \/ todump \cap files = {})
      BY <1>1, <2>1, <2>2, <2>4 DEF DueInv
    <2>5. ASSUME NEW f \in todump, todump' = todump \ {f}, DumpFile(f) \/ DarwinUpload(f), UNCHANGED <<main, why>>
          PROVE  DueInv'
      <3>1. Kept(f)'
        BY <1>1, <2>5, DumpedIsKept DEF Kept
      <3> QED BY <1>1, <2>1, <2>2, <2>5, <3>1 DEF DueInv
    <2> QED BY <1>2, <2>3, <2>4, <2>5
  <1> QED BY <1>4, <1>5, <1>6, <1>7, <1>8 DEF AnalyzerInv

-----------------------------------------------------------------------------
(* The dispatchers of the monitor's pipe *)

DispatcherFrame ==
    UNCHANGED <<platform, task, main, ticks, pidCheck, doRun, cursor, why, report, alive, suspended, known, told,
                disk, todump, size, missed, seen>>

(* The types in parts, since a step leaves most of the variables as they are. *)
MainTypes ==
    /\ platform \in Platforms /\ task \in Tasks
    /\ main \in {"setup", "package", "trace", "tick", "locked", "scan", "gather", "empty",
                 "check", "finish", "terminate", "complete", "dump", "report", "over"}
    /\ ticks \in 0..task.timeout /\ pidCheck \in BOOLEAN /\ doRun \in BOOLEAN /\ cursor \in Nat
    /\ why \in {"", "timeout", "empty", "package", "stopped", "exception"}
    /\ report \in {"none", "complete", "exception"}
ListTypes == pids \in Seq(Pids) /\ notrack \subseteq Pids /\ seen \subseteq Pids /\ processLock \in Pids \cup {NoLock}
FollowTypes ==
    /\ alive \subseteq Pids /\ suspended \subseteq Pids /\ monitored \subseteq Pids
    /\ known \subseteq Pids /\ promised \subseteq Pids
PipeTypes == told \in [Pids -> MonitorCommands] /\ handler \in [Pids -> {"idle", "listed", "inject", "answer"}]
FileTypes ==
    /\ disk \in [Paths -> Contents \cup {NoFile}]
    /\ files \subseteq Paths /\ todump \subseteq Paths /\ size \in Nat /\ due \subseteq Paths
    /\ dumped \subseteq Contents /\ failed \subseteq Contents /\ missed \subseteq Contents

LEMMA TypeParts == AnalyzerInv => MainTypes /\ ListTypes /\ FollowTypes /\ PipeTypes /\ FileTypes
  BY DEF AnalyzerInv, AnalyzerTypeOK, MainTypes, ListTypes, FollowTypes, PipeTypes, FileTypes

LEMMA TypesTogether ==
  ASSUME MainTypes', ListTypes', FollowTypes', PipeTypes', FileTypes'
  PROVE  AnalyzerTypeOK'
  BY DEF AnalyzerTypeOK, MainTypes, ListTypes, FollowTypes, PipeTypes, FileTypes

LEMMA DispatcherTypes ==
  ASSUME AnalyzerInv, DispatcherFrame, ListTypes', monitored' \subseteq Pids, promised' \subseteq Pids,
         handler' \in [Pids -> {"idle", "listed", "inject", "answer"}],
         files' \subseteq Paths, due' \subseteq Paths, dumped' \subseteq Contents, failed' \subseteq Contents
  PROVE  AnalyzerTypeOK'
  <1>1. MainTypes'
    BY TypeParts DEF MainTypes, DispatcherFrame
  <1>2. FollowTypes'
    BY TypeParts DEF FollowTypes, DispatcherFrame
  <1>3. PipeTypes'
    BY TypeParts DEF PipeTypes, DispatcherFrame
  <1>4. FileTypes'
    BY TypeParts DEF FileTypes, DispatcherFrame
  <1> QED BY <1>1, <1>2, <1>3, <1>4, TypesTogether

LEMMA DispatcherLeaves == \A p : Dispatcher(p) => DispatcherFrame
  BY DEF Dispatcher, HandleLoaded, InjectLock, Track, Inject, HandleFileNew, HandleFileDel, HandleFileMove,
         PipeOnly, DispatcherFrame, loop, lists, store

(* Only the monitor's commands have them do something. *)
LEMMA DispatcherServes ==
  ASSUME AnalyzerInv, NEW p \in Pids, Dispatcher(p)
  PROVE  platform = "windows" /\ told[p] \in MonitorCommands /\ told[p] # NoCommand /\ main \notin Before
         /\ handler \in [Pids -> {"idle", "listed", "inject", "answer"}]
  <1>1. told[p].cmd # "none" /\ told[p] \in MonitorCommands
    <2>1. told[p] \in MonitorCommands
      BY DEF AnalyzerInv, AnalyzerTypeOK
    <2> QED BY <2>1 DEF AnalyzerInv, CommandInv, Dispatcher, HandleLoaded, InjectLock, Track, Inject,
                        HandleFileNew, HandleFileDel, HandleFileMove, Received
  <1>2. told[p] # NoCommand
    BY <1>1 DEF NoCommand
  <1> QED BY <1>1, <1>2 DEF AnalyzerInv, CommandInv, FollowInv, AnalyzerTypeOK, Before

ListStep(p) == HandleLoaded(p) \/ InjectLock(p) \/ Track(p) \/ Inject(p)
FileStep(p) == HandleFileNew(p) \/ HandleFileDel(p) \/ HandleFileMove(p)

(* What is promised is put on the list. *)
LEMMA ListsKept ==
  ASSUME AnalyzerInv, NEW p \in Pids, ListStep(p)
  PROVE  /\ pids' \in Seq(Pids) /\ notrack' \subseteq Pids /\ promised' \subseteq Pids
         /\ processLock' \in Pids \cup {NoLock}
         /\ InLoop => promised' \subseteq alive /\ promised' \subseteq ToSet(pids')
  <1>0. /\ pids \in Seq(Pids) /\ notrack \subseteq Pids /\ promised \subseteq Pids
        /\ processLock \in Pids \cup {NoLock} /\ told[p] \in MonitorCommands
        /\ InLoop => promised \subseteq alive /\ promised \subseteq ToSet(pids)
    BY DEF AnalyzerInv, AnalyzerTypeOK, FollowInv
  <1>1. CASE HandleLoaded(p)
    <2>1. processLock' = processLock /\ promised' \in {promised, promised \cup {p}}
      BY <1>1 DEF HandleLoaded
    <2>2. promised' # promised => told[p].cmd = "loaded" /\ p \in alive /\ p \notin notrack
      BY <1>1 DEF HandleLoaded
    <2>3. pids' \in {pids, Append(pids, p)} /\ notrack' \in {notrack, notrack \cup {p}}
      BY <1>1 DEF HandleLoaded, AddPid
    <2>4. told[p].cmd = "loaded" /\ p \notin notrack => pids' = Append(pids, p) \/ p \in ToSet(pids')
      BY <1>1 DEF HandleLoaded, AddPid, Has
    <2>5. Append(pids, p) \in Seq(Pids) /\ ToSet(Append(pids, p)) = ToSet(pids) \cup {p}
      BY <1>0, SetOfAppend
    <2> QED BY <1>0, <2>1, <2>2, <2>3, <2>4, <2>5
  <1>2. CASE InjectLock(p)
    BY <1>0, <1>2 DEF InjectLock, lists
  <1>3. CASE Track(p)
    <2> DEFINE c == told[p].child
    <2>1. c \in Pids
      BY <1>0, <1>3, CommandFields DEF Track, AnalyzerInv, CommandInv
    <2>2. processLock' = NoLock /\ promised' = promised \cup ({c} \cap alive) /\ Follow(c)
      BY <1>3 DEF Track
    <2> HIDE DEF c
    <2>3. /\ pids' \in {pids, Append(pids, c)} /\ notrack' \subseteq notrack
          /\ pids' = Append(pids, c) \/ c \in ToSet(pids')
      BY <2>2 DEF Follow, AddPid, Has
    <2>4. Append(pids, c) \in Seq(Pids) /\ ToSet(Append(pids, c)) = ToSet(pids) \cup {c}
      BY <1>0, <2>1, SetOfAppend
    <2> QED BY <1>0, <2>1, <2>2, <2>3, <2>4
  <1>4. CASE Inject(p)
    BY <1>0, <1>4 DEF Inject, lists
  <1> QED BY <1>1, <1>2, <1>3, <1>4 DEF ListStep

LEMMA ListStepKeeps ==
  ASSUME AnalyzerInv, NEW p \in Pids, ListStep(p)
  PROVE  AnalyzerInv'
  <1>1. DispatcherFrame /\ UNCHANGED <<files, due, dumped, failed>>
    <2>1. Dispatcher(p)
      BY DEF ListStep, Dispatcher
    <2> QED BY <2>1, DispatcherLeaves DEF ListStep, HandleLoaded, InjectLock, Track, Inject, store
  <1>2. platform = "windows" /\ told[p] # NoCommand /\ main \notin Before
        /\ handler \in [Pids -> {"idle", "listed", "inject", "answer"}]
    BY DispatcherServes DEF ListStep, Dispatcher
  <1>3. PICK h \in {"listed", "inject", "answer"} :
            /\ handler' = [handler EXCEPT ![p] = h]
            /\ told[p].cmd # "process" => h = "answer"
            /\ told[p].cmd # "file_del"
    BY DEF ListStep, HandleLoaded, InjectLock, Track, Inject, Received, Answering, AnalyzerInv, CommandInv
  <1>4. monitored' \subseteq Pids
    <2>1. monitored \subseteq Pids /\ alive \subseteq Pids
      BY DEF AnalyzerInv, AnalyzerTypeOK
    <2> QED BY <2>1 DEF ListStep, HandleLoaded, InjectLock, Track, Inject
  <1>5. AnalyzerTypeOK'
    <2>1. /\ pids' \in Seq(Pids) /\ notrack' \subseteq Pids /\ promised' \subseteq Pids
          /\ processLock' \in Pids \cup {NoLock}
      BY ListsKept
    <2>2. handler' \in [Pids -> {"idle", "listed", "inject", "answer"}]
      BY <1>2, <1>3
    <2>3. ListTypes'
      BY <1>1, <2>1, TypeParts DEF ListTypes, DispatcherFrame
    <2>4. files' \subseteq Paths /\ due' \subseteq Paths /\ dumped' \subseteq Contents /\ failed' \subseteq Contents
      BY <1>1, TypeParts DEF FileTypes
    <2> QED BY <1>1, <1>4, <2>1, <2>2, <2>3, <2>4, DispatcherTypes
  <1>6. TickInv'
    BY <1>1 DEF AnalyzerInv, TickInv, InLoop, DispatcherFrame
  <1>7. CommandInv'
    BY <1>1, <1>2, <1>3 DEF AnalyzerInv, CommandInv, DispatcherFrame
  <1>8. FollowInv'
    BY <1>1, <1>2, ListsKept DEF FollowInv, InLoop, DispatcherFrame, Before
  <1>9. AnsweredInv'
    BY <1>1, <1>2, <1>3 DEF AnalyzerInv, AnsweredInv, Kept, DispatcherFrame
  <1>10. DueInv'
    BY <1>1 DEF AnalyzerInv, DueInv, Kept, DispatcherFrame
  <1> QED BY <1>5, <1>6, <1>7, <1>8, <1>9, <1>10 DEF AnalyzerInv

LEMMA FileStepKeeps ==
  ASSUME AnalyzerInv, NEW p \in Pids, FileStep(p)
  PROVE  AnalyzerInv'
  <1>1. DispatcherFrame /\ UNCHANGED <<pids, notrack, promised, processLock, monitored>>
    <2>1. Dispatcher(p)
      BY DEF FileStep, Dispatcher
    <2> QED BY <2>1, DispatcherLeaves DEF FileStep, HandleFileNew, HandleFileDel, HandleFileMove, lists
  <1>2. platform = "windows" /\ told[p] \in MonitorCommands /\ told[p] # NoCommand /\ main \notin Before
        /\ handler \in [Pids -> {"idle", "listed", "inject", "answer"}]
    BY DispatcherServes DEF FileStep, Dispatcher
  <1>3. handler' = [handler EXCEPT ![p] = "answer"] /\ told[p].cmd \in FileCommands
    BY DEF FileStep, HandleFileNew, HandleFileDel, HandleFileMove, Received, Answering, FileCommands
  <1>4. told[p].path \in Paths /\ (told[p].cmd = "file_move" => told[p].to \in Paths)
    BY <1>2, <1>3, CommandFields
  <1>5. files \subseteq Paths /\ due \subseteq Paths /\ dumped \subseteq Contents /\ failed \subseteq Contents
    BY DEF AnalyzerInv, AnalyzerTypeOK
  (* The entries of other files stay, and no file is forgotten without an upload. *)
  <1>6. /\ files' \subseteq Paths /\ due' \subseteq due /\ (due \subseteq files => due' \subseteq files')
        /\ dumped' \subseteq Contents /\ failed' \subseteq Contents /\ dumped \subseteq dumped' /\ failed \subseteq failed'
        /\ told[p].cmd = "file_del" => disk[told[p].path] \in dumped' \cup failed' \cup {NoFile}
    <2>1. CASE HandleFileNew(p)
      BY <1>4, <1>5, <2>1 DEF HandleFileNew, Received
    <2>2. CASE HandleFileDel(p)
      <3>1. /\ DumpFile(told[p].path) /\ files' = files \ {told[p].path} /\ due' = due \ {told[p].path}
        BY <2>2 DEF HandleFileDel, DeleteFile
      <3>2. dumped' \subseteq Contents /\ failed' \subseteq Contents
        BY <1>4, <3>1, UploadTypes DEF AnalyzerInv
      <3> QED BY <1>5, <3>1, <3>2, DumpedIsKept
    <2>3. CASE HandleFileMove(p)
      <3>1. told[p].cmd = "file_move" /\ files' = Moved(told[p].path, told[p].to)
            /\ due' = due \ {told[p].path, told[p].to} /\ UNCHANGED <<dumped, failed>>
        BY <2>3 DEF HandleFileMove, Received
      <3> QED BY <1>4, <1>5, <3>1 DEF Moved
    <2> QED BY <2>1, <2>2, <2>3 DEF FileStep
  <1>7. AnalyzerTypeOK'
    <2>1. ListTypes'
      BY <1>1, TypeParts DEF ListTypes, DispatcherFrame
    <2>2. monitored' \subseteq Pids /\ promised' \subseteq Pids
      BY <1>1, TypeParts DEF FollowTypes
    <2>3. handler' \in [Pids -> {"idle", "listed", "inject", "answer"}]
      BY <1>2, <1>3
    <2>4. due' \subseteq Paths
      BY <1>5, <1>6
    <2> QED BY <1>1, <1>6, <2>1, <2>2, <2>3, <2>4, DispatcherTypes
  <1>8. TickInv' /\ FollowInv'
    BY <1>1 DEF AnalyzerInv, TickInv, FollowInv, InLoop, DispatcherFrame
  <1>9. CommandInv'
    BY <1>1, <1>2, <1>3 DEF AnalyzerInv, CommandInv, DispatcherFrame
  <1>10. AnsweredInv'
    BY <1>1, <1>2, <1>3, <1>6 DEF AnalyzerInv, AnsweredInv, Kept, DispatcherFrame
  <1>11. DueInv'
    <2>1. \A f : Kept(f) => Kept(f)'
      BY <1>1, <1>6 DEF Kept, DispatcherFrame
    <2> QED BY <1>1, <1>6, <2>1 DEF AnalyzerInv, DueInv, DispatcherFrame
  <1> QED BY <1>7, <1>8, <1>9, <1>10, <1>11 DEF AnalyzerInv

-----------------------------------------------------------------------------
(* The sample *)

SampleFrame ==
    UNCHANGED <<platform, task, main, ticks, pidCheck, doRun, cursor, why, report, pids, notrack, seen, processLock>>

LEMMA SampleTypes ==
  ASSUME AnalyzerInv, SampleFrame, FollowTypes', PipeTypes', FileTypes'
  PROVE  AnalyzerTypeOK'
  <1>1. MainTypes'
    BY TypeParts DEF MainTypes, SampleFrame
  <1>2. ListTypes'
    BY TypeParts DEF ListTypes, SampleFrame
  <1> QED BY <1>1, <1>2, TypesTogether

LEMMA FreeIsIdle ==
  ASSUME AnalyzerInv, NEW p \in Pids, Free(p)
  PROVE  told[p] = NoCommand /\ handler[p] = "idle" /\ main \notin Before
  <1>1. told[p] = NoCommand /\ told[p].cmd = "none" /\ handler[p] \in {"idle", "listed", "inject", "answer"}
    <2>1. told[p] = NoCommand
      BY DEF Free
    <2>2. NoCommand.cmd = "none"
      BY DEF NoCommand
    <2> QED BY <2>1, <2>2 DEF AnalyzerInv, AnalyzerTypeOK
  <1> QED BY <1>1 DEF Free, AnalyzerInv, CommandInv, FollowInv, Before

(* A process announces something, perhaps after it has started a child. *)
LEMMA TellKeeps ==
  ASSUME AnalyzerInv, NEW p \in Pids, NEW m \in MonitorCommands, Tell(p, m), \A f \in PathsOf(m) : Quiet(f),
         alive \subseteq alive', alive' \subseteq Pids, suspended' \subseteq Pids
  PROVE  AnalyzerInv'
  <1>1. SampleFrame /\ Free(p) /\ told' = [told EXCEPT ![p] = m]
        /\ UNCHANGED <<promised, monitored, known, handler, disk, files, todump, size, due, dumped, failed, missed>>
    BY DEF Tell, SampleOnly, SampleFrame, loop, lists, store
  <1>2. told[p] = NoCommand /\ handler[p] = "idle" /\ main \notin Before
    BY <1>1, FreeIsIdle
  <1>3. platform = "windows"
    BY DEF Tell, AnalyzerInv, CommandInv
  <1>4. /\ told' \in [Pids -> MonitorCommands] /\ \A q \in Pids : q # p => told'[q] = told[q]
        /\ \A q, r \in Pids : q # r => PathsOf(told'[q]) \cap PathsOf(told'[r]) = {}
    BY <1>1, <1>2, Announced DEF AnalyzerInv
  <1>5. AnalyzerTypeOK'
    <2>1. FollowTypes'
      BY <1>1, TypeParts DEF FollowTypes
    <2>2. PipeTypes'
      BY <1>1, <1>4, TypeParts DEF PipeTypes
    <2>3. FileTypes'
      BY <1>1, TypeParts DEF FileTypes
    <2> QED BY <1>1, <2>1, <2>2, <2>3, SampleTypes
  <1>6. TickInv'
    BY <1>1 DEF AnalyzerInv, TickInv, InLoop, SampleFrame
  <1>7. CommandInv'
    BY <1>1, <1>2, <1>3, <1>4 DEF AnalyzerInv, CommandInv, SampleFrame
  <1>8. FollowInv'
    BY <1>1, <1>2 DEF AnalyzerInv, FollowInv, InLoop, Before, SampleFrame
  <1>9. AnsweredInv'
    BY <1>1, <1>2, <1>4 DEF AnalyzerInv, AnsweredInv, Kept, SampleFrame
  <1>10. DueInv'
    BY <1>1 DEF AnalyzerInv, DueInv, Kept, SampleFrame
  <1> QED BY <1>5, <1>6, <1>7, <1>8, <1>9, <1>10 DEF AnalyzerInv

LEMMA SampleAsksKeeps ==
  ASSUME AnalyzerInv, NEW p \in Pids, SampleAsks(p)
  PROVE  AnalyzerInv'
  <1>0. alive \subseteq Pids /\ suspended \subseteq Pids /\ files \subseteq Paths /\ UNCHANGED <<alive, suspended>>
    BY DEF AnalyzerInv, AnalyzerTypeOK, SampleAsks
  <1>2. ASSUME NEW m \in MonitorCommands, Tell(p, m), \A f \in PathsOf(m) : Quiet(f) PROVE AnalyzerInv'
    BY <1>0, <1>2, TellKeeps
  <1>3. CASE Tell(p, [cmd |-> "loaded"]) \/ Tell(p, [cmd |-> "loaded_notrack"])
    <2>1. \E m \in MonitorCommands : Tell(p, m) /\ PathsOf(m) = {}
      BY <1>3 DEF MonitorCommands, PathsOf, FileCommands
    <2> QED BY <1>2, <2>1
  <1>4. ASSUME NEW c \in Pids, Tell(p, [cmd |-> "process", child |-> c]) PROVE AnalyzerInv'
    <2> DEFINE m == [cmd |-> "process", child |-> c]
    <2>1. m \in MonitorCommands /\ PathsOf(m) = {}
      BY DEF MonitorCommands, PathsOf, FileCommands
    <2>2. Tell(p, m)
      BY <1>4
    <2> HIDE DEF m
    <2> QED BY <1>2, <2>1, <2>2
  <1>5. ASSUME NEW f \in Paths, Quiet(f), Tell(p, [cmd |-> "file_del", path |-> f]) PROVE AnalyzerInv'
    <2> DEFINE m == [cmd |-> "file_del", path |-> f]
    <2>1. m \in MonitorCommands /\ PathsOf(m) = {f}
      BY DEF MonitorCommands, PathsOf, FileCommands
    <2>2. Tell(p, m)
      BY <1>5
    <2> HIDE DEF m
    <2> QED BY <1>2, <1>5, <2>1, <2>2
  <1>6. ASSUME NEW f \in Paths, NEW g \in Paths, Quiet(f), Quiet(g), Tell(p, [cmd |-> "file_move", path |-> f, to |-> g])
        PROVE  AnalyzerInv'
    <2> DEFINE m == [cmd |-> "file_move", path |-> f, to |-> g]
    <2>1. m \in MonitorCommands /\ PathsOf(m) = {f, g}
      BY DEF MonitorCommands, PathsOf, FileCommands
    <2>2. Tell(p, m)
      BY <1>6
    <2> HIDE DEF m
    <2> QED BY <1>2, <1>6, <2>1, <2>2
  <1> QED BY <1>0, <1>3, <1>4, <1>5, <1>6 DEF SampleAsks

LEMMA CreateChildKeeps ==
  ASSUME AnalyzerInv, NEW p \in Pids, CreateChild(p)
  PROVE  AnalyzerInv'
  <1>1. PICK c \in Pids : alive' = alive \cup {c} /\ suspended' = suspended \cup {c}
                          /\ Tell(p, [cmd |-> "process", child |-> c])
    BY DEF CreateChild
  <1>2. [cmd |-> "process", child |-> c] \in MonitorCommands /\ PathsOf([cmd |-> "process", child |-> c]) = {}
    BY DEF MonitorCommands, PathsOf, FileCommands
  <1>3. alive \subseteq Pids /\ suspended \subseteq Pids
    BY DEF AnalyzerInv, AnalyzerTypeOK
  <1> QED BY <1>1, <1>2, <1>3, TellKeeps

LEMMA WriteFileKeeps ==
  ASSUME AnalyzerInv, NEW p \in Pids, platform = "windows", WriteFile(p)
  PROVE  AnalyzerInv'
  <1>1. PICK f \in Paths, c \in Contents :
            /\ Free(p) /\ disk[f] = NoFile /\ Quiet(f) /\ disk' = [disk EXCEPT ![f] = c] /\ due' = due \ {f}
            /\ told' = IF p \in monitored THEN [told EXCEPT ![p] = [cmd |-> "file_new", path |-> f]] ELSE told
    BY DEF WriteFile
  <1>2. SampleFrame
        /\ UNCHANGED <<promised, alive, suspended, monitored, known, handler, files, todump, size, dumped, failed, missed>>
    BY DEF WriteFile, SampleOnly, SampleFrame, loop, lists
  <1>3. told[p] = NoCommand /\ handler[p] = "idle" /\ main \notin Before
    BY <1>1, FreeIsIdle
  <1> DEFINE m == [cmd |-> "file_new", path |-> f]
  <1>4. m \in MonitorCommands /\ PathsOf(m) = {f}
    BY DEF MonitorCommands, PathsOf, FileCommands
  <1> HIDE DEF m
  <1>5. /\ told' \in [Pids -> MonitorCommands] /\ \A q \in Pids : q # p => told'[q] = told[q]
        /\ \A q, r \in Pids : q # r => PathsOf(told'[q]) \cap PathsOf(told'[r]) = {}
    <2>1. CASE told' = [told EXCEPT ![p] = m]
      BY <1>1, <1>3, <1>4, <2>1, Announced DEF AnalyzerInv
    <2>2. CASE told' = told
      BY <2>2 DEF AnalyzerInv, AnalyzerTypeOK, CommandInv
    <2> QED BY <1>1, <2>1, <2>2 DEF m
  <1>6. disk' \in [Paths -> Contents \cup {NoFile}] /\ \A g \in Paths : g # f => disk'[g] = disk[g]
    BY <1>1 DEF AnalyzerInv, AnalyzerTypeOK
  <1>7. AnalyzerTypeOK'
    <2>1. FollowTypes'
      BY <1>2, TypeParts DEF FollowTypes
    <2>2. PipeTypes'
      BY <1>2, <1>5, TypeParts DEF PipeTypes
    <2>3. FileTypes'
      BY <1>1, <1>2, <1>6, TypeParts DEF FileTypes
    <2> QED BY <1>2, <2>1, <2>2, <2>3, SampleTypes
  <1>8. TickInv'
    BY <1>2 DEF AnalyzerInv, TickInv, InLoop, SampleFrame
  <1>9. CommandInv'
    BY <1>2, <1>3, <1>5 DEF AnalyzerInv, CommandInv, SampleFrame
  <1>10. FollowInv'
    BY <1>2, <1>3 DEF AnalyzerInv, FollowInv, InLoop, Before, SampleFrame
  (* Nobody's deletion of the file is being answered. *)
  <1>11. AnsweredInv'
    <2>1. \A q \in Pids : told[q].cmd = "file_del" => told[q].path \in Paths /\ told[q].path # f
      BY <1>1, CommandFields DEF Quiet, FileCommands, AnalyzerInv, AnalyzerTypeOK
    <2> QED BY <1>2, <1>3, <1>5, <1>6, <2>1 DEF AnalyzerInv, AnsweredInv, Kept
  <1>12. DueInv'
    <2>1. due \subseteq Paths
      BY DEF AnalyzerInv, AnalyzerTypeOK
    <2> QED BY <1>1, <1>2, <1>6, <2>1 DEF AnalyzerInv, DueInv, Kept, SampleFrame
  <1> QED BY <1>7, <1>8, <1>9, <1>10, <1>11, <1>12 DEF AnalyzerInv

LEMMA AnswerKeeps ==
  ASSUME AnalyzerInv, NEW p \in Pids, Answer(p)
  PROVE  AnalyzerInv'
  <1> DEFINE m == told[p]
             acts == p \in alive
             deletes == acts /\ m.cmd = "file_del" /\ disk[m.path] # NoFile
             moves == acts /\ m.cmd = "file_move" /\ disk[m.path] # NoFile /\ disk[m.to] = NoFile
  <1>1. /\ handler[p] = "answer" /\ handler' = [handler EXCEPT ![p] = "idle"] /\ told' = [told EXCEPT ![p] = NoCommand]
        /\ suspended' = (IF acts /\ m.cmd = "process" THEN suspended \ {m.child} ELSE suspended)
        /\ disk' = (IF deletes THEN [disk EXCEPT ![m.path] = NoFile]
                    ELSE IF moves THEN [disk EXCEPT ![m.path] = NoFile, ![m.to] = disk[m.path]] ELSE disk)
        /\ missed' = (IF deletes THEN missed \cup ({disk[m.path]} \ (dumped \cup failed)) ELSE missed)
        /\ due' = (IF moves THEN due \ {m.to} ELSE due)
    BY DEF Answer
  <1>2. SampleFrame /\ UNCHANGED <<promised, alive, monitored, known, files, todump, size, dumped, failed>>
    BY DEF Answer, SampleOnly, SampleFrame, loop, lists
  <1>3. m \in MonitorCommands /\ m # NoCommand /\ disk \in [Paths -> Contents \cup {NoFile}] /\ told \in [Pids -> MonitorCommands]
        /\ handler \in [Pids -> {"idle", "listed", "inject", "answer"}] /\ suspended \subseteq Pids /\ due \subseteq Paths
    BY <1>1 DEF AnalyzerInv, AnalyzerTypeOK, CommandInv
  <1>4. m.cmd \in FileCommands => m.path \in Paths /\ (m.cmd = "file_move" => m.to \in Paths)
    BY <1>3, CommandFields
  <1>5. m.cmd = "file_del" => Kept(m.path)
    BY <1>1 DEF AnalyzerInv, AnsweredInv
  <1>6. NoCommand \in MonitorCommands /\ PathsOf(NoCommand) = {}
    BY NoPaths DEF MonitorCommands
  <1>7. missed' = {} /\ missed = {}
    BY <1>1, <1>5 DEF AnalyzerInv, AnsweredInv, Kept
  <1>8. /\ disk' \in [Paths -> Contents \cup {NoFile}] /\ due' \subseteq due
        /\ \A f \in Paths : f \notin PathsOf(m) => disk'[f] = disk[f]
        /\ \A f \in Paths : f \in due' => disk'[f] = disk[f] \/ disk'[f] = NoFile
    BY <1>1, <1>3, <1>4 DEF PathsOf, FileCommands
  <1>9. /\ told' \in [Pids -> MonitorCommands] /\ told'[p] = NoCommand /\ \A q \in Pids : q # p => told'[q] = told[q]
        /\ handler' \in [Pids -> {"idle", "listed", "inject", "answer"}] /\ handler'[p] = "idle"
        /\ \A q \in Pids : q # p => handler'[q] = handler[q]
    BY <1>1, <1>3, <1>6
  <1> HIDE DEF m, acts, deletes, moves
  <1>10. AnalyzerTypeOK'
    <2>0. suspended' \subseteq Pids
      BY <1>1, <1>3
    <2>1. FollowTypes'
      BY <1>2, <2>0, TypeParts DEF FollowTypes
    <2>2. PipeTypes'
      BY <1>9, TypeParts DEF PipeTypes
    <2>3. FileTypes'
      BY <1>2, <1>3, <1>7, <1>8, TypeParts DEF FileTypes
    <2> QED BY <1>2, <2>1, <2>2, <2>3, SampleTypes
  <1>11. TickInv'
    BY <1>2 DEF AnalyzerInv, TickInv, InLoop, SampleFrame
  <1>12. CommandInv'
    BY <1>2, <1>6, <1>9 DEF AnalyzerInv, CommandInv, SampleFrame
  <1>13. FollowInv'
    BY <1>2, <1>9 DEF AnalyzerInv, FollowInv, InLoop, SampleFrame
  (* What is done to a path is nothing to the commands of others. *)
  <1>14. AnsweredInv'
    <2>1. \A q \in Pids : q # p /\ told[q].cmd = "file_del" => told[q].path \in Paths /\ told[q].path \notin PathsOf(m)
      <3>1. \A q \in Pids : told[q].cmd = "file_del" => told[q].path \in Paths /\ told[q].path \in PathsOf(told[q])
        BY <1>3, CommandFields DEF PathsOf, FileCommands
      <3> QED BY <3>1 DEF AnalyzerInv, CommandInv, m
    <2> QED BY <1>2, <1>7, <1>8, <1>9, <2>1 DEF AnalyzerInv, AnsweredInv, Kept
  <1>15. DueInv'
    <2>1. ASSUME NEW f \in Paths, f \in due', Kept(f) PROVE Kept(f)'
      <3>0. dumped' = dumped /\ failed' = failed
        BY <1>2
      <3>1. disk'[f] = disk[f] \/ disk'[f] = NoFile
        BY <1>8, <2>1
      <3>2. disk[f] \in dumped \cup failed \cup {NoFile}
        BY <2>1 DEF Kept
      <3>3. disk'[f] \in dumped' \cup failed' \cup {NoFile}
        BY <3>0, <3>1, <3>2
      <3> QED BY <3>3 DEF Kept
    <2> QED BY <1>2, <1>3, <1>8, <2>1 DEF AnalyzerInv, DueInv, SampleFrame
  <1> QED BY <1>10, <1>11, <1>12, <1>13, <1>14, <1>15 DEF AnalyzerInv

LEMMA ForkKeeps ==
  ASSUME AnalyzerInv, NEW p \in Pids, Fork(p)
  PROVE  AnalyzerInv'
  <1>1. SampleFrame /\ Free(p) /\ alive \subseteq alive' /\ alive' \subseteq Pids
        /\ UNCHANGED <<promised, suspended, monitored, known, told, handler, disk, files, todump, size, due, dumped,
                       failed, missed>>
    BY DEF Fork, SampleOnly, SampleFrame, loop, lists, store, AnalyzerInv, AnalyzerTypeOK
  <1>2. main \notin Before
    BY <1>1, FreeIsIdle
  <1>3. AnalyzerTypeOK' /\ TickInv'
    <2>1. AnalyzerTypeOK'
      <3>1. FollowTypes'
        BY <1>1, TypeParts DEF FollowTypes
      <3>2. PipeTypes'
        BY <1>1, TypeParts DEF PipeTypes
      <3>3. FileTypes'
        BY <1>1, TypeParts DEF FileTypes
      <3> QED BY <1>1, <3>1, <3>2, <3>3, SampleTypes
    <2>2. TickInv'
      BY <1>1 DEF AnalyzerInv, TickInv, InLoop, SampleFrame
    <2> QED BY <2>1, <2>2
  <1>4. CommandInv'
    BY <1>1 DEF AnalyzerInv, CommandInv, SampleFrame
  <1>5. FollowInv'
    BY <1>1, <1>2 DEF AnalyzerInv, FollowInv, InLoop, Before, SampleFrame
  <1>6. AnsweredInv' /\ DueInv'
    BY <1>1 DEF AnalyzerInv, AnsweredInv, DueInv, Kept, SampleFrame
  <1> QED BY <1>3, <1>4, <1>5, <1>6 DEF AnalyzerInv

LEMMA ExitKeeps ==
  ASSUME AnalyzerInv, NEW p \in Pids, Exit(p)
  PROVE  AnalyzerInv'
  <1>1. SampleFrame /\ alive' = alive \ {p} /\ promised' = promised \ {p} /\ monitored' = monitored \ {p}
        /\ UNCHANGED <<suspended, known, told, handler, disk, files, todump, size, due, dumped, failed, missed>>
    BY DEF Exit, SampleFrame, loop, store
  <1>0. alive' \subseteq alive /\ promised' \subseteq promised /\ monitored' \subseteq monitored
    BY <1>1
  <1>2. AnalyzerTypeOK' /\ TickInv'
    <2>1. AnalyzerTypeOK'
      <3>1. FollowTypes'
        BY <1>0, <1>1, TypeParts DEF FollowTypes
      <3>2. PipeTypes'
        BY <1>1, TypeParts DEF PipeTypes
      <3>3. FileTypes'
        BY <1>1, TypeParts DEF FileTypes
      <3> QED BY <1>1, <3>1, <3>2, <3>3, SampleTypes
    <2>2. TickInv'
      BY <1>1 DEF AnalyzerInv, TickInv, InLoop, SampleFrame
    <2> QED BY <2>1, <2>2
  <1>3. CommandInv'
    BY <1>0, <1>1 DEF AnalyzerInv, CommandInv, SampleFrame
  <1>4. FollowInv'
    BY <1>0, <1>1 DEF AnalyzerInv, FollowInv, InLoop, SampleFrame
  <1>5. AnsweredInv' /\ DueInv'
    BY <1>1 DEF AnalyzerInv, AnsweredInv, DueInv, Kept, SampleFrame
  <1> QED BY <1>2, <1>3, <1>4, <1>5 DEF AnalyzerInv

LEMMA TracerSeesKeeps == AnalyzerInv /\ TracerSees => AnalyzerInv'
  <1> SUFFICES ASSUME AnalyzerInv, TracerSees PROVE AnalyzerInv'
    OBVIOUS
  <1>1. SampleFrame /\ known' \subseteq Pids
        /\ UNCHANGED <<promised, alive, suspended, monitored, told, handler, disk, files, todump, size, due, dumped,
                       failed, missed>>
    BY DEF TracerSees, SampleOnly, SampleFrame, loop, lists, store, AnalyzerInv, AnalyzerTypeOK
  <1>2. AnalyzerTypeOK' /\ TickInv'
    <2>1. AnalyzerTypeOK'
      <3>1. FollowTypes'
        BY <1>1, TypeParts DEF FollowTypes
      <3>2. PipeTypes'
        BY <1>1, TypeParts DEF PipeTypes
      <3>3. FileTypes'
        BY <1>1, TypeParts DEF FileTypes
      <3> QED BY <1>1, <3>1, <3>2, <3>3, SampleTypes
    <2>2. TickInv'
      BY <1>1 DEF AnalyzerInv, TickInv, InLoop, SampleFrame
    <2> QED BY <2>1, <2>2
  <1>3. CommandInv' /\ FollowInv'
    BY <1>1 DEF AnalyzerInv, CommandInv, FollowInv, InLoop, SampleFrame
  <1>4. AnsweredInv' /\ DueInv'
    BY <1>1 DEF AnalyzerInv, AnsweredInv, DueInv, Kept, SampleFrame
  <1> QED BY <1>2, <1>3, <1>4 DEF AnalyzerInv

LEMMA HandleFilesKeeps ==
  ASSUME AnalyzerInv, NEW p \in Pids, HandleFiles(p)
  PROVE  AnalyzerInv'
  <1>1. SampleFrame /\ main = "trace"
        /\ UNCHANGED <<promised, alive, suspended, monitored, known, told, handler, todump, size, due, dumped, failed,
                       missed>>
    BY DEF HandleFiles, SampleOnly, SampleFrame, loop, lists, sample
  <1>2. disk' \in [Paths -> Contents \cup {NoFile}] /\ files' \subseteq Paths
    <2>1. disk \in [Paths -> Contents \cup {NoFile}] /\ files \subseteq Paths
      BY DEF AnalyzerInv, AnalyzerTypeOK
    <2>2. PICK f \in Paths, g \in Paths :
            /\ \/ \E c \in Contents : disk' = [disk EXCEPT ![f] = c]
               \/ disk' = [disk EXCEPT ![f] = NoFile, ![g] = disk[f]]
               \/ disk' = [disk EXCEPT ![g] = disk[f]]
               \/ disk' = [disk EXCEPT ![f] = NoFile]
            /\ files' \subseteq files \cup {f, g}
      BY DEF HandleFiles, OpenFile, MoveFile, CopyFile
    <2> QED BY <2>1, <2>2
  <1>3. AnalyzerTypeOK' /\ TickInv'
    <2>1. AnalyzerTypeOK'
      <3>1. FollowTypes'
        BY <1>1, TypeParts DEF FollowTypes
      <3>2. PipeTypes'
        BY <1>1, TypeParts DEF PipeTypes
      <3>3. FileTypes'
        BY <1>1, <1>2, TypeParts DEF FileTypes
      <3> QED BY <1>1, <3>1, <3>2, <3>3, SampleTypes
    <2>2. TickInv'
      BY <1>1 DEF AnalyzerInv, TickInv, InLoop, SampleFrame
    <2> QED BY <2>1, <2>2
  <1>4. CommandInv' /\ FollowInv'
    BY <1>1 DEF AnalyzerInv, CommandInv, FollowInv, InLoop, SampleFrame
  (* dtrace tells of files, and nobody waits for an answer. *)
  <1>5. AnsweredInv'
    <2>1. \A q \in Pids : told[q].cmd # "file_del"
      BY <1>1 DEF AnalyzerInv, CommandInv, NoCommand
    <2> QED BY <1>1, <2>1 DEF AnalyzerInv, AnsweredInv
  <1>6. DueInv'
    BY <1>1 DEF AnalyzerInv, DueInv, SampleFrame
  <1> QED BY <1>3, <1>4, <1>5, <1>6 DEF AnalyzerInv

-----------------------------------------------------------------------------
(* The analyzer's invariant: its types, what every thread is at, what is followed, and
   which files are safe. *)
THEOREM AnalyzerInvariance == AnalyzerSpec => []AnalyzerInv
  <1>1. AnalyzerInit => AnalyzerInv
    <2> SUFFICES ASSUME AnalyzerInit PROVE AnalyzerInv
      OBVIOUS
    <2>1. task.timeout \in Nat /\ task.timeout > 0
      <3>1. task \in [timeout : Nat \ {0}, does : {"lists", "files"}]
        BY AnalyzerAssumption DEF AnalyzerAssumption, AnalyzerInit
      <3>2. task.timeout \in Nat \ {0}
        BY <3>1
      <3> QED BY <3>2
    <2>2. NoCommand \in MonitorCommands /\ PathsOf(NoCommand) = {} /\ << >> \in Seq(Pids)
      BY NoPaths DEF MonitorCommands
    <2>3. 0 \in 0..task.timeout /\ 0 < task.timeout
      BY <2>1
    <2>4. AnalyzerTypeOK
      BY <2>2, <2>3 DEF AnalyzerInit, AnalyzerTypeOK
    <2>5. TickInv /\ FollowInv
      BY <2>3 DEF AnalyzerInit, TickInv, FollowInv, InLoop
    <2>6. CommandInv
      BY <2>2 DEF AnalyzerInit, CommandInv
    <2>7. AnsweredInv /\ DueInv
      BY DEF AnalyzerInit, AnsweredInv, DueInv
    <2> QED BY <2>4, <2>5, <2>6, <2>7 DEF AnalyzerInv
  <1>2. AnalyzerInv /\ [AnalyzerNext]_avars => AnalyzerInv'
    <2> SUFFICES ASSUME AnalyzerInv, [AnalyzerNext]_avars PROVE AnalyzerInv'
      OBVIOUS
    <2>1. CASE MainStep
      BY <2>1, LoopStepKeeps, StartStepKeeps, ScanStepKeeps, TerminateKeeps, WindowsCompleteKeeps, DumpKeeps
         DEF MainStep, LoopStep, StartStep, ScanStep
    <2>2. CASE StopRequest
      BY <2>2, LoopStepKeeps DEF LoopStep
    <2>3. CASE TracerSees
      BY <2>3, TracerSeesKeeps
    <2>4. ASSUME NEW p \in Pids, Dispatcher(p) PROVE AnalyzerInv'
      BY <2>4, ListStepKeeps, FileStepKeeps DEF Dispatcher, ListStep, FileStep
    <2>5. ASSUME NEW p \in Pids, SampleStep(p) PROVE AnalyzerInv'
      BY <2>5, SampleAsksKeeps, CreateChildKeeps, WriteFileKeeps, AnswerKeeps, ForkKeeps, ExitKeeps, HandleFilesKeeps
         DEF SampleStep
    <2>6. CASE UNCHANGED avars
      <3>0. SampleFrame
            /\ UNCHANGED <<promised, alive, suspended, monitored, known, told, handler, disk, files, todump, size, due,
                           dumped, failed, missed>>
        BY <2>6 DEF avars, loop, lists, sample, store, SampleFrame
      <3>1. AnalyzerTypeOK' /\ TickInv'
        <4>1. AnalyzerTypeOK'
          <5>1. FollowTypes'
            BY <3>0, TypeParts DEF FollowTypes
          <5>2. PipeTypes'
            BY <3>0, TypeParts DEF PipeTypes
          <5>3. FileTypes'
            BY <3>0, TypeParts DEF FileTypes
          <5> QED BY <3>0, <5>1, <5>2, <5>3, SampleTypes
        <4>2. TickInv'
          BY <3>0 DEF AnalyzerInv, TickInv, InLoop, SampleFrame
        <4> QED BY <4>1, <4>2
      <3>2. CommandInv' /\ FollowInv'
        BY <3>0 DEF AnalyzerInv, CommandInv, FollowInv, InLoop, SampleFrame
      <3>3. AnsweredInv' /\ DueInv'
        BY <3>0 DEF AnalyzerInv, AnsweredInv, DueInv, Kept, SampleFrame
      <3> QED BY <3>1, <3>2, <3>3 DEF AnalyzerInv
    <2> QED BY <2>1, <2>2, <2>3, <2>4, <2>5, <2>6 DEF AnalyzerNext
  <1> QED BY <1>1, <1>2, PTL DEF AnalyzerSpec

(* Every variable of the analyzers keeps its type, for any number of processes, paths and
   contents, and any timeout. *)
THEOREM AnalyzerTypes == AnalyzerSpec => []AnalyzerTypeOK
  <1>1. AnalyzerInv => AnalyzerTypeOK
    BY DEF AnalyzerInv
  <1> QED BY <1>1, AnalyzerInvariance, PTL

(* As long as the analysis goes on every process the analyzer agreed to follow is in its
   list while it lives, whatever the handlers' threads and the main loop do to the lists. *)
THEOREM KeepsFollowing == AnalyzerSpec => []Followed
  <1>1. AnalyzerInv => Followed
    BY DEF AnalyzerInv, FollowInv, Followed
  <1> QED BY <1>1, AnalyzerInvariance, PTL

(* What is deleted was uploaded before, and "complete" is told only when what was listed
   at the end, and left alone since, was. *)
THEOREM NoFileLost == AnalyzerSpec => []FilesSaved
  <1>1. AnalyzerInv => FilesSaved
    <2> SUFFICES ASSUME AnalyzerInv PROVE FilesSaved
      OBVIOUS
    <2>1. report = "complete" => \A f \in due : Kept(f)
      BY DEF AnalyzerInv, DueInv
    <2> QED BY <2>1 DEF AnalyzerInv, AnsweredInv, FilesSaved, Kept
  <1> QED BY <1>1, AnalyzerInvariance, PTL
=============================================================================
