----------------------------- MODULE BackupMode -----------------------------
(***************************************************************************)
(* The backup window of Microtech: while a backup of its files runs, the    *)
(* wrapper stops the ERP's services, and GC-Bridge refuses work by a local   *)
(* flag with a deadline (microtech/services/backup_mode.py).  The window is  *)
(* opened and closed by maintenance jobs, which the admin view and a         *)
(* watchdog enqueue and a Celery worker carries out with one synchronous     *)
(* call (job_sentinel.py); stopping and starting the worker alone are        *)
(* maintenance jobs too.                                                     *)
(*                                                                          *)
(* A slot holds one maintenance job and the thread that works for it: a job  *)
(* has one enqueuer, then one message, then one submitter, never two at a    *)
(* time.  The slot of an ended job is used again, so jobs are not bounded.   *)
(* The names are those of no other module: MCBackground runs it beside others. *)
(***************************************************************************)
EXTENDS Naturals, FiniteSets

CONSTANTS
  Slots,        \* maintenance jobs that can exist at the same time
  MaxVisits,    \* bound: maintenance actions of people
  MaxOutages    \* bound: failing calls, refused messages, dying workers

ASSUME BackupAssumption == MaxVisits \in Nat /\ MaxOutages \in Nat

Operations == {"enter", "leave", "other"}     \* other: stop or start the worker

VARIABLES
  mjob,      \* per slot: the MicrotechGraphQLJob row of kind MAINTENANCE
  desk,      \* per slot: where the thread or message working for it stands
  window,    \* is the window open, as the wrapper knows it
  flag,      \* MicrotechSettings: backup_mode_active, is its deadline past
  met,       \* history: slots whose job was under way together with another
  doubt,     \* history: the last change of window or flag may be unknown to the other
  visits, outages

backupVars == <<mjob, desk, window, flag, met, doubt, visits, outages>>

-----------------------------------------------------------------------------
NoRow == [op |-> "other", status |-> "none"]
Places_ == {"free", "checked", "created", "sent", "calling", "marking", "finishing", "dead"}

BackupTypeOK ==
  /\ mjob \in [Slots -> [op : Operations,
                         status : {"none", "QUEUED", "SUBMITTED", "SUCCEEDED", "FAILED"}]]
  /\ desk \in [Slots -> Places_]
  /\ window \in BOOLEAN /\ doubt \in BOOLEAN
  /\ flag \in [active : BOOLEAN, overdue : BOOLEAN]
  /\ met \in SUBSET Slots
  /\ visits \in 0 .. MaxVisits /\ outages \in 0 .. MaxOutages

ActiveJob(s) == mjob[s].status \in {"QUEUED", "SUBMITTED"}
Stands(s, p) == desk[s] = p
UnderWay == {s \in Slots : desk[s] \in {"calling", "marking"}}
DeskGoesTo(s, p) == desk' = [desk EXCEPT ![s] = p]
Outage == outages < MaxOutages /\ outages' = outages + 1
Becomes(s, st) ==                   \* an UPDATE: nothing if the row is gone
  mjob' = IF mjob[s].status = "none" THEN mjob ELSE [mjob EXCEPT ![s].status = st]

BackupInit ==
  /\ mjob = [s \in Slots |-> NoRow]
  /\ desk = [s \in Slots |-> "free"]
  /\ window = FALSE
  /\ flag = [active |-> FALSE, overdue |-> FALSE]
  /\ met = {}
  /\ doubt = FALSE
  /\ visits = 0 /\ outages = 0

-----------------------------------------------------------------------------
(* enqueue_microtech_worker_operation.  Its select_for_update finds no row    *)
(* to lock when no job is active, so two enqueuers may both pass.            *)
Enqueue(s, op) ==
  /\ Stands(s, "free")
  /\ \A r \in Slots : ~ActiveJob(r)
  /\ mjob' = [mjob EXCEPT ![s] = [op |-> op, status |-> "none"]]
  /\ DeskGoesTo(s, "checked")

(* A person presses a button of the connection page.                         *)
PersonEnqueues(s, op) ==
  /\ visits < MaxVisits /\ visits' = visits + 1
  /\ Enqueue(s, op)
  /\ UNCHANGED <<window, flag, met, doubt, outages>>

MutantWatchdogIgnoresDeadline(s) ==
  /\ flag.active /\ flag.overdue /\ window
  /\ Enqueue(s, "enter")
  /\ UNCHANGED <<window, flag, met, doubt, visits, outages>>

(* backup_mode_watchdog, sent by beat: the deadline is past.                 *)
WatchdogEnqueues(s) ==
  /\ flag.active /\ flag.overdue
  /\ Enqueue(s, "leave")
  /\ UNCHANGED <<window, flag, met, doubt, visits, outages>>

CreateRow(s) ==
  /\ Stands(s, "checked")
  /\ mjob' = [mjob EXCEPT ![s].status = "QUEUED"]
  /\ DeskGoesTo(s, "created")
  /\ UNCHANGED <<window, flag, met, doubt, visits, outages>>

SendMessage(s) ==
  /\ Stands(s, "created")
  /\ DeskGoesTo(s, "sent")
  /\ UNCHANGED <<mjob, window, flag, met, doubt, visits, outages>>

SendRefused(s) ==
  /\ Stands(s, "created")
  /\ Outage
  /\ Becomes(s, "FAILED")
  /\ DeskGoesTo(s, "free")
  /\ UNCHANGED <<window, flag, met, doubt, visits>>

-----------------------------------------------------------------------------
(* submit_queued_microtech_worker_operation, in a Celery worker.             *)
ClaimQueued(s) ==
  /\ Stands(s, "sent")
  /\ IF mjob[s].status = "QUEUED"
     THEN /\ Becomes(s, "SUBMITTED") /\ DeskGoesTo(s, "calling")
          /\ met' = IF UnderWay \ {s} = {} THEN met \ {s} ELSE met \cup UnderWay \cup {s}
     ELSE UNCHANGED <<mjob, met>> /\ DeskGoesTo(s, "free")
  /\ UNCHANGED <<window, flag, doubt, visits, outages>>

(* What the wrapper makes of the operation of slot s.                        *)
WindowAfter(s) ==
  CASE mjob[s].op = "enter" -> TRUE
    [] mjob[s].op = "leave" -> FALSE
    [] OTHER -> window

CallConfirmed(s) ==
  /\ Stands(s, "calling")
  /\ window' = WindowAfter(s)
  /\ DeskGoesTo(s, "marking")
  /\ UNCHANGED <<mjob, flag, met, doubt, visits, outages>>

(* It raises: refused, or carried out while the answer timed out.            *)
CallRaises(s) ==
  /\ Stands(s, "calling")
  /\ Outage
  /\ \/ UNCHANGED <<window, doubt>>
     \/ window' = WindowAfter(s) /\ doubt' = (doubt \/ window' # window)
  /\ Becomes(s, "FAILED")
  /\ DeskGoesTo(s, "free")
  /\ UNCHANGED <<flag, met, visits>>

MutantMarkNothingOnLeave(s) ==
  /\ Stands(s, "marking")
  /\ flag' = IF mjob[s].op = "enter" THEN [active |-> TRUE, overdue |-> FALSE] ELSE flag
  /\ DeskGoesTo(s, "finishing")
  /\ UNCHANGED <<mjob, window, met, doubt, visits, outages>>

(* mark_entered and mark_left, after which there is no doubt, unless another  *)
(* job was under way at the same time.                                       *)
Mark(s) ==
  /\ Stands(s, "marking")
  /\ flag' = CASE mjob[s].op = "enter" -> [active |-> TRUE, overdue |-> FALSE]
               [] mjob[s].op = "leave" -> [active |-> FALSE, overdue |-> FALSE]
               [] OTHER -> flag
  /\ doubt' = IF mjob[s].op = "other" THEN doubt ELSE s \in met
  /\ DeskGoesTo(s, "finishing")
  /\ UNCHANGED <<mjob, window, met, visits, outages>>

MutantRecordRaw(s) ==                       \* the wrapper's own word
  /\ Stands(s, "finishing")
  /\ Becomes(s, "DONE")
  /\ DeskGoesTo(s, "free")
  /\ UNCHANGED <<window, flag, met, doubt, visits, outages>>

RecordSuccess(s) ==
  /\ Stands(s, "finishing")
  /\ Becomes(s, "SUCCEEDED")
  /\ DeskGoesTo(s, "free")
  /\ UNCHANGED <<window, flag, met, doubt, visits, outages>>

-----------------------------------------------------------------------------
(* cancel_job of a maintenance job: it has no external id, so nothing is     *)
(* cancelled or deleted remotely and the row goes.  A thread goes on.        *)
PersonCancels(s) ==
  /\ visits < MaxVisits /\ visits' = visits + 1
  /\ ActiveJob(s)
  /\ mjob' = [mjob EXCEPT ![s].status = "none"]
  /\ DeskGoesTo(s, IF Stands(s, "dead") THEN "free" ELSE desk[s])
  /\ UNCHANGED <<window, flag, met, doubt, outages>>

(* The worker or request dies.  In "calling" the wrapper may have acted.     *)
DeskDies(s) ==
  /\ desk[s] \notin {"free", "dead"}
  /\ Outage
  /\ window' \in IF Stands(s, "calling") THEN {window, WindowAfter(s)} ELSE {window}
  /\ doubt' = (doubt \/ window' # window \/ Stands(s, "marking"))
  /\ DeskGoesTo(s, IF ActiveJob(s) THEN "dead" ELSE "free")
  /\ UNCHANGED <<mjob, flag, met, visits>>

DeadlinePasses ==
  /\ flag.active /\ ~flag.overdue
  /\ flag' = [flag EXCEPT !.overdue = TRUE]
  /\ UNCHANGED <<mjob, desk, window, met, doubt, visits, outages>>

-----------------------------------------------------------------------------
DeskWorks(s) ==
  \/ CreateRow(s) \/ SendMessage(s) \/ SendRefused(s) \/ ClaimQueued(s)
  \/ CallConfirmed(s) \/ CallRaises(s) \/ Mark(s) \/ RecordSuccess(s)

BackupNext ==
  \/ DeadlinePasses
  \/ \E s \in Slots :
       \/ \E op \in Operations : PersonEnqueues(s, op)
       \/ WatchdogEnqueues(s)
       \/ DeskWorks(s)
       \/ PersonCancels(s)
       \/ DeskDies(s)

(* Threads finish, messages arrive, the time comes, and beat sends its task  *)
(* again and again, so that it finds a moment without a maintenance job.     *)
BackupFairness ==
  /\ WF_backupVars(DeadlinePasses)
  /\ \A s \in Slots : WF_backupVars(DeskWorks(s))
  /\ SF_backupVars(\E s \in Slots : WatchdogEnqueues(s))

BackupSpec == BackupInit /\ [][BackupNext]_backupVars /\ BackupFairness

-----------------------------------------------------------------------------
(* Properties                                                               *)

(* A job that nobody works for and that no status will free.                 *)
Stuck == \E s \in Slots : Stands(s, "dead")
AtRest == \A s \in Slots : Stands(s, "free")

(* When no maintenance job is under way, the flag tells whether Microtech is *)
(* open, unless two jobs met or one failed or died after its call; and a     *)
(* confirmed job that met no other ends such a doubt.                        *)
FlagTellsWindow == AtRest /\ ~doubt => flag.active = window

(* A flag that is set is cleared again without a person, unless a dead       *)
(* worker's job keeps the watchdog out.                                      *)
FlagIsCleared == flag.active ~> (~flag.active \/ Stuck)

(* What the watchdog is for: an overdue window does not stay (it does when   *)
(* a worker died with a maintenance job).                                    *)
OverdueFlagIsCleared == flag.active ~> ~flag.active
=============================================================================
