--------------------------- MODULE ProductAutoSync ---------------------------
(***************************************************************************)
(* ProductAutoSyncService (products/services/product_auto_sync.py): every   *)
(* committed change of a product is queued, per target system, as a         *)
(* ProductSyncJob; a Celery worker reads the product and writes it to the   *)
(* target.  A change that finds a queued job of the target joins it.        *)
(*                                                                          *)
(* One product; different products share nothing.  Its content is the       *)
(* number of changes committed so far, and a target holds the number of the *)
(* content last written to it.  Transactions, single statements and calls   *)
(* are atomic steps of threads that interleave.  changed_fields and trigger *)
(* only inform and are left out, so joining a job changes no state.  For    *)
(* MICROTECH "written" means handed to the sentinel.                        *)
(***************************************************************************)
EXTENDS Naturals, FiniteSets

CONSTANTS
  Threads,      \* web requests that save the product, and Celery workers
  Targets,      \* SHOPWARE, SHOPWARE5, MICROTECH
  NoTarget,     \* the target of a job not yet created
  MaxJobs,      \* bound: ProductSyncJob rows
  MaxChanges,   \* bound: changes of the product
  MaxFaults     \* bound: crashes, broker outages and failing sync commands

ASSUME ThreadAssumption == Threads # {}
ASSUME TargetAssumption == NoTarget \notin Targets
ASSUME BoundAssumption ==
  MaxJobs \in Nat /\ MaxChanges \in Nat /\ MaxFaults \in Nat

Jobs == 1 .. MaxJobs
NoJob == 0

VARIABLES
  content,   \* number of committed changes of the product
  job,       \* the ProductSyncJob rows
  messages,  \* process_product_sync_job messages in the broker, per job
  taken,     \* history: the newest content a job has read for each target
  target,    \* the content each target system holds
  mixed,     \* history: targets for which two jobs have run at the same time
  dropped,   \* history: targets whose enqueuing ended in DoesNotExist
  task,      \* what each thread is doing, with the values it has read
  faults

vars == <<content, job, messages, taken, target, mixed, dropped, task, faults>>

-----------------------------------------------------------------------------
Status == {"none", "QUEUED", "RUNNING", "SUCCEEDED", "FAILED"}
Row == [status : Status, target : Targets \cup {NoTarget},
        sent : BOOLEAN]                     \* celery_task_id is not empty

Places == {"idle", "get", "create", "retry", "again", "dispatch", "sent",
           "read", "write", "done", "failed"}
Task == [pc : Places,
         todo : SUBSET Targets,             \* targets still to be enqueued
         at : Targets \cup {NoTarget},      \* the one being enqueued or synced
         job : Jobs \cup {NoJob},
         has : 0 .. MaxChanges]             \* the content that was read

Idle == [pc |-> "idle", todo |-> {}, at |-> NoTarget, job |-> NoJob, has |-> 0]

At(t, p) == task[t].pc = p
Goto(t, r) == task' = [task EXCEPT ![t] = r]
Move(t, p) == Goto(t, [task[t] EXCEPT !.pc = p])

(* The loop of enqueue_product_sync goes on, or the callback returns.        *)
NextTarget(t) ==
  Goto(t, IF task[t].todo = {} THEN Idle
          ELSE [task[t] EXCEPT !.pc = "get", !.at = NoTarget, !.job = NoJob])

QueuedFor(x) == {j \in Jobs : job[j].status = "QUEUED" /\ job[j].target = x}
Running(x) == {j \in Jobs : job[j].status = "RUNNING" /\ job[j].target = x}

Fault == faults < MaxFaults /\ faults' = faults + 1

Init ==
  /\ content = 0
  /\ job = [j \in Jobs |-> [status |-> "none", target |-> NoTarget, sent |-> FALSE]]
  /\ messages = [j \in Jobs |-> 0]
  /\ taken = [x \in Targets |-> 0]
  /\ target = [x \in Targets |-> 0]
  /\ mixed = {} /\ dropped = {}
  /\ task = [t \in Threads |-> Idle]
  /\ faults = 0

-----------------------------------------------------------------------------
(* enqueue_product_sync, the on_commit callback of a save.                   *)

(* A save of the product, a price or the stock commits.                      *)
Change(t) ==
  /\ At(t, "idle")
  /\ content < MaxChanges
  /\ content' = content + 1
  /\ Goto(t, [Idle EXCEPT !.pc = "get", !.todo = Targets])
  /\ UNCHANGED <<job, messages, taken, target, mixed, dropped, faults>>

(* The job j that a get has returned: it is dispatched unless its task id    *)
(* says that this was done already.                                          *)
Joins(t, r, j) ==
  IF job[j].sent
  THEN Goto(t, IF r.todo = {} THEN Idle
               ELSE [r EXCEPT !.pc = "get", !.at = NoTarget, !.job = NoJob])
  ELSE Goto(t, [r EXCEPT !.pc = "dispatch", !.job = j])

(* Mutants are plausible bugs in the definition that follows; no definition  *)
(* uses them, the runs show that they would be noticed.                      *)
MutantJoinsRunning(t, x) ==
  /\ At(t, "get")
  /\ x \in task[t].todo
  /\ LET r == [task[t] EXCEPT !.todo = @ \ {x}, !.at = x]
         found == QueuedFor(x) \cup Running(x)
     IN  IF found = {} THEN Goto(t, [r EXCEPT !.pc = "create"])
         ELSE \E j \in found : Joins(t, r, j)
  /\ UNCHANGED <<content, job, messages, taken, target, mixed, dropped, faults>>

(* get_or_create looks for a queued job of a target; in which order they are *)
(* taken makes no difference.                                                *)
GetQueued(t, x) ==
  /\ At(t, "get")
  /\ x \in task[t].todo
  /\ LET r == [task[t] EXCEPT !.todo = @ \ {x}, !.at = x]
     IN  IF QueuedFor(x) = {} THEN Goto(t, [r EXCEPT !.pc = "create"])
         ELSE \E j \in QueuedFor(x) : Joins(t, r, j)
  /\ UNCHANGED <<content, job, messages, taken, target, mixed, dropped, faults>>

MutantMarkedSent(t, j) ==
  /\ At(t, "create")
  /\ QueuedFor(task[t].at) = {}
  /\ job[j].status = "none" /\ (j > 1 => job[j - 1].status # "none")
  /\ job' = [job EXCEPT ![j] = [status |-> "QUEUED", target |-> task[t].at, sent |-> TRUE]]
  /\ NextTarget(t)
  /\ UNCHANGED <<content, messages, taken, target, mixed, dropped, faults>>

(* There was none, and there still is none (uniq_queued_product_sync).       *)
Create(t, j) ==
  /\ At(t, "create")
  /\ QueuedFor(task[t].at) = {}
  /\ job[j].status = "none" /\ (j > 1 => job[j - 1].status # "none")
  /\ job' = [job EXCEPT ![j] = [status |-> "QUEUED", target |-> task[t].at, sent |-> FALSE]]
  /\ Goto(t, [task[t] EXCEPT !.pc = "dispatch", !.job = j])
  /\ UNCHANGED <<content, messages, taken, target, mixed, dropped, faults>>

(* Another request was faster: IntegrityError, and get_or_create gets again. *)
CreateCollides(t) ==
  /\ At(t, "create")
  /\ QueuedFor(task[t].at) # {}
  /\ Move(t, "retry")
  /\ UNCHANGED <<content, job, messages, taken, target, mixed, dropped, faults>>

(* If the job was claimed meanwhile, the error comes to _upsert_queued_job,  *)
(* which gets once more; the DoesNotExist of that ends the loop.             *)
GetAgain(t) ==
  /\ At(t, "retry") \/ At(t, "again")
  /\ LET x == task[t].at IN
       IF QueuedFor(x) # {}
       THEN (\E j \in QueuedFor(x) : Joins(t, task[t], j)) /\ UNCHANGED dropped
       ELSE IF At(t, "retry") THEN Move(t, "again") /\ UNCHANGED dropped
       ELSE Goto(t, Idle) /\ dropped' = dropped \cup task[t].todo \cup {x}
  /\ UNCHANGED <<content, job, messages, taken, target, mixed, faults>>

(* _dispatch_job: the broker takes the message, and its id is stored ...     *)
Dispatched(t) ==
  /\ At(t, "dispatch")
  /\ messages' = [messages EXCEPT ![task[t].job] = @ + 1]
  /\ Move(t, "sent")
  /\ UNCHANGED <<content, job, taken, target, mixed, dropped, faults>>

StoreTaskId(t) ==
  /\ At(t, "sent")
  /\ job' = [job EXCEPT ![task[t].job].sent = TRUE]
  /\ NextTarget(t)
  /\ UNCHANGED <<content, messages, taken, target, mixed, dropped, faults>>

(* ... or it does not, which is noted, and the next change tries again.      *)
DispatchFails(t) ==
  /\ At(t, "dispatch")
  /\ Fault
  /\ NextTarget(t)
  /\ UNCHANGED <<content, job, messages, taken, target, mixed, dropped>>

-----------------------------------------------------------------------------
(* process_job.                                                              *)

Claim(t, j) ==
  /\ At(t, "idle")
  /\ messages[j] > 0
  /\ messages' = [messages EXCEPT ![j] = @ - 1]
  /\ IF job[j].status = "QUEUED"
     THEN LET x == job[j].target IN
            /\ job' = [job EXCEPT ![j].status = "RUNNING"]
            /\ mixed' = IF Running(x) # {} THEN mixed \cup {x} ELSE mixed
            /\ Goto(t, [Idle EXCEPT !.pc = "read", !.at = x, !.job = j])
     ELSE UNCHANGED <<job, mixed, task>>
  /\ UNCHANGED <<content, taken, target, dropped, faults>>

(* The sync command reads the product ...                                    *)
ReadProduct(t) ==
  /\ At(t, "read")
  /\ taken' = [taken EXCEPT ![task[t].at] = content]
  /\ Goto(t, [task[t] EXCEPT !.pc = "write", !.has = content])
  /\ UNCHANGED <<content, job, messages, target, mixed, dropped, faults>>

(* ... and later writes what it read.                                        *)
WriteTarget(t) ==
  /\ At(t, "write")
  /\ target' = [target EXCEPT ![task[t].at] = task[t].has]
  /\ Move(t, "done")
  /\ UNCHANGED <<content, job, messages, taken, mixed, dropped, faults>>

(* It fails, before or after the target has taken the data.                  *)
CommandFails(t) ==
  /\ At(t, "read") \/ At(t, "write") \/ At(t, "done")
  /\ Fault
  /\ Move(t, "failed")
  /\ UNCHANGED <<content, job, messages, taken, target, mixed, dropped>>

Finish(t) ==
  /\ At(t, "done") \/ At(t, "failed")
  /\ job' = [job EXCEPT ![task[t].job].status =
               IF At(t, "done") THEN "SUCCEEDED" ELSE "FAILED"]
  /\ Goto(t, Idle)
  /\ UNCHANGED <<content, messages, taken, target, mixed, dropped, faults>>

(* A worker or a request dies; its message was acknowledged.                 *)
Crash(t) ==
  /\ ~ At(t, "idle")
  /\ Fault
  /\ Goto(t, Idle)
  /\ UNCHANGED <<content, job, messages, taken, target, mixed, dropped>>

(* A worker dies with a message in its hands, before it has claimed the job. *)
MessageLost(j) ==
  /\ messages[j] > 0
  /\ Fault
  /\ messages' = [messages EXCEPT ![j] = @ - 1]
  /\ UNCHANGED <<content, job, taken, target, mixed, dropped, task>>

-----------------------------------------------------------------------------
Continues(t) ==
  \/ \E x \in Targets : GetQueued(t, x)
  \/ \E j \in Jobs : Create(t, j)
  \/ CreateCollides(t) \/ GetAgain(t)
  \/ Dispatched(t) \/ StoreTaskId(t) \/ DispatchFails(t)
  \/ ReadProduct(t) \/ WriteTarget(t) \/ CommandFails(t) \/ Finish(t)

Next ==
  \/ \E t \in Threads :
       \/ Change(t) \/ Continues(t) \/ Crash(t)
       \/ \E j \in Jobs : Claim(t, j)
  \/ \E j \in Jobs : MessageLost(j)

Spec == Init /\ [][Next]_vars

(* Threads finish what they begin, the broker delivers in order.             *)
Fairness ==
  /\ \A t \in Threads : WF_vars(Continues(t))
  /\ \A j \in Jobs : SF_vars(\E t \in Threads : Claim(t, j))

FairSpec == Spec /\ Fairness

-----------------------------------------------------------------------------
(* Every variable keeps its type.                                            *)
TypeOK ==
  /\ content \in 0 .. MaxChanges
  /\ job \in [Jobs -> Row]
  /\ messages \in [Jobs -> Nat]
  /\ taken \in [Targets -> 0 .. MaxChanges]
  /\ target \in [Targets -> 0 .. MaxChanges]
  /\ mixed \subseteq Targets /\ dropped \subseteq Targets
  /\ task \in [Threads -> Task]
  /\ faults \in 0 .. MaxFaults

(* A thread will still enqueue target x, or a worker will still read for it. *)
OnItsWay(t, x) ==
  \/ x \in task[t].todo
  \/ task[t].at = x /\ task[t].pc \in {"create", "retry", "again", "read"}

(* No change of the product is forgotten: the newest content has been read   *)
(* for every target, or is about to be, or a job for it waits in the queue.  *)
(* A change that joins a queued job, while a worker claims that same job or  *)
(* another request creates it, is included in what the job will read.        *)
(* Excepted are failures (nothing is retried) and the targets that a         *)
(* DoesNotExist in _upsert_queued_job leaves without a job.                  *)
NoForgottenChange ==
  \A x \in Targets \ dropped :
    faults = 0 =>
      \/ taken[x] = content
      \/ QueuedFor(x) # {}
      \/ \E t \in Threads : OnItsWay(t, x)

(* A queued job is not stranded: it was sent, or a thread is about to.       *)
NoStrandedJob ==
  \A j \in Jobs :
    faults = 0 /\ job[j].status = "QUEUED" =>
      \/ messages[j] > 0
      \/ \E t \in Threads : At(t, "dispatch") /\ task[t].job = j

(* When all is quiet a target holds the newest content, unless a job failed  *)
(* or two jobs of that target have run at the same time.                     *)
QuietMeansCurrent ==
  \A x \in Targets \ (dropped \cup mixed) :
    faults = 0 /\ (\A t \in Threads : At(t, "idle")) /\ QueuedFor(x) = {}
      => target[x] = content

(* Every queued job is processed, as long as nothing fails.                  *)
QueuedIsProcessed ==
  \A j \in Jobs :
    job[j].status = "QUEUED" ~> job[j].status # "QUEUED" \/ faults > 0
=============================================================================
