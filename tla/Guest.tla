------------------------------- MODULE Guest -------------------------------
(***************************************************************************)
(* One analysis as seen from its thread: guest_manage and wait_finish of   *)
(* the scheduler, GuestManager with its fall-back OldGuestManager, and the *)
(* Agent in the VM that starts the analyzer and hears from it.             *)
(*                                                                         *)
(* The guest's row in the database is the only way to end an analysis from *)
(* outside: another thread's Services writes "stop" to it at any moment.   *)
(***************************************************************************)
EXTENDS Naturals, Sequences

CONSTANTS Agents,      \* what may answer in the VM: "new", "old", "other"
          Categories   \* of tasks: "file", "url", "baseline", "noagent" for wait_finish

ASSUME GuestAssumption ==
    /\ Agents \subseteq {"new", "old", "other"}
    /\ Categories \subseteq {"file", "url", "baseline", "noagent"}

VARIABLES
    agent,      \* the kind of the Agent
    category,   \* of the task
    vm,         \* "boot", "up", "mute": connections are accepted, never answered; or "gone"
    row,        \* status of the guest
    manager,    \* where the thread is
    requests,   \* the requests it still has to make
    late,       \* time.time() > end
    status,     \* current_status of the Agent
    placed,     \* which Items have arrived in the VM
    outcome,    \* how the thread came out of guest_manage
    stopAsked   \* history: "stop" was written to the row

gvars == <<agent, category, vm, row, manager, requests, late, status, placed, outcome, stopAsked>>

(* Of what is uploaded, what the Agent asks for later. *)
Items == {"analyzer"}

GuestTypeOK ==
    /\ agent \in Agents /\ category \in Categories
    /\ vm \in {"boot", "up", "mute", "gone"}
    /\ row \in {"init", "starting", "running", "stopping", "failed", "stop"}
    /\ manager \in {"enter", "available", "index", "waitinit", "ask", "check", "mark", "wait", "over"}
    /\ requests \in Seq(STRING) /\ late \in BOOLEAN
    /\ status \in {"init", "running", "complete", "exception"}
    /\ placed \subseteq Items
    /\ outcome \in {"none", "ok", "guest_error", "foreign"} /\ stopAsked \in BOOLEAN

(* guest_start has just written the row, and the machine has been started. *)
GuestInit ==
    /\ agent \in Agents /\ category \in Categories /\ vm = "boot" /\ row = "init"
    /\ manager = "enter" /\ requests = << >> /\ late = FALSE
    /\ status = "init" /\ placed = {} /\ outcome = "none" /\ stopAsked = FALSE

-----------------------------------------------------------------------------
(* The world: the VM and the analyzer in it, the clock, the other threads *)

ThreadStays == UNCHANGED <<agent, category, manager, requests, outcome>>

Boot == vm = "boot" /\ vm' = "up" /\ UNCHANGED <<row, late, status, placed, stopAsked>> /\ ThreadStays

Break == /\ vm = "up" /\ vm' \in {"mute", "gone"}
         /\ UNCHANGED <<row, late, status, placed, stopAsked>> /\ ThreadStays

(* The analyzer reports to its Agent, with complete() or POST /status; it may also
   be killed and never do so. *)
Report ==
    /\ status = "running" /\ vm \in {"up", "mute"}
    /\ status' \in {"complete", "exception"}
    /\ UNCHANGED <<vm, row, late, placed, stopAsked>> /\ ThreadStays

Tick == ~late /\ late' = TRUE /\ UNCHANGED <<vm, row, status, placed, stopAsked>> /\ ThreadStays

StopService ==
    /\ row \in {"init", "starting", "running", "stopping"} /\ ~stopAsked
    /\ row' = "stop" /\ stopAsked' = TRUE
    /\ UNCHANGED <<vm, late, status, placed>> /\ ThreadStays

World == Boot \/ Break \/ Report \/ Tick \/ StopService

-----------------------------------------------------------------------------
WorldStays == UNCHANGED <<agent, category, vm, stopAsked>>

Raise(how) == manager' = "over" /\ outcome' = how

(* wait_finish, a baseline, or an Agent to talk to; what ends a baseline is the sleep. *)
Enter ==
    /\ manager = "enter"
    /\ CASE category = "noagent"  -> manager' = "wait" /\ row' = "running"
         [] category = "baseline" -> manager' = "over" /\ UNCHANGED row
         [] OTHER                 -> manager' = "available" /\ row' = "starting"
    /\ outcome' = IF category = "baseline" THEN "ok" ELSE outcome
    /\ late' = FALSE
    /\ WorldStays /\ UNCHANGED <<requests, status, placed>>

(* Variant: nobody looks at the clock. *)
AvailableUntimed ==
    /\ manager = "available"
    /\ manager' = IF row # "starting" THEN "check" ELSE "index"
    /\ row = "starting" => vm \in {"up", "mute"}
    /\ WorldStays /\ UNCHANGED <<row, requests, late, status, placed, outcome>>

(* wait_available: the loop ends with a connection or when the row is no longer
   "starting"; it is looked at once more after the loop. *)
Available ==
    /\ manager = "available"
    /\ \/ row # "starting" /\ manager' = "check" /\ UNCHANGED outcome
       \/ row = "starting" /\ vm \in {"up", "mute"} /\ manager' = "index" /\ UNCHANGED outcome
       \/ row = "starting" /\ late /\ Raise("guest_error")
    /\ WorldStays /\ UNCHANGED <<row, requests, late, status, placed>>

Sample == IF category = "file" THEN <<"sample">> ELSE << >>

NewRequests == <<"environ", "mkdtemp", "analyzer", "config">> \o Sample \o <<"execute">>
OldRequests == <<"analyzer", "config">> \o Sample \o <<"execute">>

(* GET /: no timeout.  501 is the old Agent; a stranger answers with another code, or
   without JSON. *)
Index ==
    /\ manager = "index" /\ vm # "mute"
    /\ \/ vm = "gone" /\ Raise("foreign") /\ UNCHANGED <<row, requests, late>>
       \/ vm = "up" /\ agent = "other" /\ manager' = "check" /\ row' = "failed"
          /\ UNCHANGED <<requests, late, outcome>>
       \/ vm = "up" /\ agent = "old" /\ manager' = "waitinit"
          /\ late' = FALSE /\ requests' = OldRequests /\ UNCHANGED <<row, outcome>>
       \/ vm = "up" /\ agent = "new" /\ manager' = "ask"
          /\ requests' = NewRequests /\ UNCHANGED <<row, late, outcome>>
    /\ WorldStays /\ UNCHANGED <<status, placed>>

(* OldGuestManager.wait: whatever get_status raises is ignored, and nobody looks at
   the row afterwards. *)
WaitInit ==
    /\ manager = "waitinit"
    /\ \/ row # "starting" /\ manager' = "ask" /\ UNCHANGED outcome
       \/ row = "starting" /\ vm = "up" /\ status = "init" /\ manager' = "ask" /\ UNCHANGED outcome
       \/ row = "starting" /\ late /\ Raise("guest_error")
    /\ WorldStays /\ UNCHANGED <<row, requests, late, status, placed>>

(* The request is over, and was not what made start_analysis fail. *)
GoOn == /\ requests' = Tail(requests)
        /\ manager' = IF Tail(requests) = << >> THEN "check" ELSE "ask"
        /\ UNCHANGED outcome

(* The Agent does what it is asked: execute of the old one only if there is an
   analyzer, the new one starts whatever the path names. *)
Granted ==
    /\ manager = "ask" /\ vm = "up"
    /\ placed' = placed \cup ({Head(requests)} \cap Items)
    /\ status' = IF Head(requests) = "execute" /\ "analyzer" \in placed THEN "running" ELSE status
    /\ GoOn
    /\ WorldStays /\ UNCHANGED <<row, late>>

(* It does not: an HTTP error, which the new manager looks at only where it needs the
   answer; False, which the old one never looks at; or a Fault of the old Agent. *)
Denied ==
    /\ manager = "ask" /\ vm = "up"
    /\ \/ agent = "new" /\ Head(requests) \in {"environ", "mkdtemp"}
          /\ Raise("foreign") /\ UNCHANGED requests
       \/ agent = "new" /\ Head(requests) \notin {"environ", "mkdtemp"} /\ GoOn
       \/ agent = "old" /\ GoOn
       \/ agent = "old" /\ Head(requests) \in {"analyzer", "execute"}
          /\ Raise("foreign") /\ UNCHANGED requests
       \/ agent = "old" /\ Head(requests) \in {"config", "sample"}
          /\ Raise("guest_error") /\ UNCHANGED requests
    /\ WorldStays /\ UNCHANGED <<row, late, status, placed>>

(* No connection, or the target is no longer there to be read: only the old manager
   makes it a CuckooGuestError. *)
Broken ==
    /\ manager = "ask" /\ (vm = "gone" \/ Head(requests) = "sample")
    /\ Raise(IF agent = "old" THEN "guest_error" ELSE "foreign")
    /\ WorldStays /\ UNCHANGED <<row, requests, late, status, placed>>

(* guest_manage: two accesses to the row; a "stop" between them is lost. *)
Check ==
    /\ manager = "check"
    /\ IF row = "starting" THEN manager' = "mark" /\ UNCHANGED <<row, outcome>>
       ELSE row' = "stopping" /\ Raise("ok")
    /\ WorldStays /\ UNCHANGED <<requests, late, status, placed>>

Mark ==
    /\ manager = "mark" /\ manager' = "wait" /\ row' = "running" /\ late' = FALSE
    /\ WorldStays /\ UNCHANGED <<requests, status, placed, outcome>>

Ended == manager' = "over" /\ outcome' = "ok" /\ row' = IF category = "noagent" THEN row ELSE "stopping"

(* The row is no longer "running". *)
WaitStopped ==
    /\ manager = "wait" /\ row # "running" /\ Ended
    /\ WorldStays /\ UNCHANGED <<requests, late, status, placed>>

WaitLate ==
    /\ manager = "wait" /\ row = "running" /\ late /\ category # "noagent"
    /\ Raise("guest_error")
    /\ WorldStays /\ UNCHANGED <<row, requests, late, status, placed>>

(* Variant: no answer is taken for the end. *)
WaitStatusAny ==
    /\ manager = "wait" /\ row = "running" /\ category # "noagent"
    /\ vm # "up" \/ status \in {"complete", "exception"}
    /\ Ended
    /\ WorldStays /\ UNCHANGED <<requests, late, status, placed>>

(* A status, if one comes: errors are tried again.  The failure of an analyzer is an
   error to the old manager, unless get_error breaks, and a normal end to the new one. *)
WaitStatus ==
    /\ manager = "wait" /\ row = "running" /\ category # "noagent"
    /\ vm = "up" /\ status \in {"complete", "exception"}
    /\ IF agent = "old" /\ status = "exception"
       THEN (\E how \in {"guest_error", "foreign"} : Raise(how)) /\ UNCHANGED row
       ELSE Ended
    /\ WorldStays /\ UNCHANGED <<requests, late, status, placed>>

ManagerStep == \/ Enter \/ Available \/ Index \/ WaitInit \/ Granted \/ Denied \/ Broken
               \/ Check \/ Mark \/ WaitStopped \/ WaitLate \/ WaitStatus

GuestNext == World \/ ManagerStep

GuestSpec == GuestInit /\ [][GuestNext]_gvars

GuestFair == WF_gvars(ManagerStep) /\ WF_gvars(Tick)

-----------------------------------------------------------------------------
(* A guest_manage that comes back without an exception has seen the analysis end, was
   told to stop, or has met a stranger: launch_analysis calls that success.  That the
   VM breaks down or the analyzer never reports is no success. *)
SuccessMeansEnded ==
    outcome = "ok" /\ category \in {"file", "url"} =>
        status \in {"complete", "exception"} \/ stopAsked \/ agent = "other"

(* The waits end, whatever the VM does: with the status, with the row, or with the
   critical timeout.  Not so wait_finish, and not the requests before the wait,
   which have no timeout: a mute Agent holds them for ever. *)
WaitEnds ==
    /\ (manager = "wait" /\ category # "noagent") ~> (manager = "over")
    /\ (manager = "available") ~> (manager = "over" \/ vm = "mute")
=============================================================================
