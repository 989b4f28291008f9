-------------------------- MODULE OrderSyncWorkflow --------------------------
(***************************************************************************)
(* OrderSyncWorkflowService (orders/services/order_sync_workflow.py): the   *)
(* chain of Microtech jobs that writes one order's customer, addresses and  *)
(* Vorgang, driven by the continuations of the job sentinel.                *)
(*                                                                          *)
(* One order and its successive workflows; workflows of different orders    *)
(* share nothing.  Each transaction, UPDATE and call of the wrapper is one  *)
(* step; a thread keeps the step log it has read, as the Python object does.*)
(*                                                                          *)
(* Of a job there is what the chain sees: its status, and what the wrapper  *)
(* made of it.  JobSentinel models how that comes about.  A handler may be  *)
(* entered for any job that has SUCCEEDED; entering it again while nothing  *)
(* went wrong is a duplicate (JobSentinel!DispatchedOnce is violated).      *)
(***************************************************************************)
EXTENDS Naturals, Sequences, FiniteSets

CONSTANTS
  Threads,         \* Celery workers and admin requests
  MaxWorkflows,    \* bound: workflows of the order, one after the other
  MaxJobs,         \* bound: jobs submitted for them
  NewCustomer,     \* the erp_nr is provisional (is_new_customer)
  SameBilling,     \* billing_same_as_shipping
  OldShipping,     \* Microtech has another default shipping address ...
  OldBilling,      \* ... another default billing address
  MaxDups,         \* bound: continuations delivered twice
  MaxActs,         \* bound: aborts and resumes by a person
  MaxFaults        \* bound: crashes, refusals, unusable results, exhausted polls

ASSUME ThreadAssumption == Threads # {}
ASSUME BoundAssumption ==
  /\ MaxWorkflows \in Nat \ {0} /\ MaxJobs \in Nat \ {0}
  /\ MaxDups \in Nat /\ MaxActs \in Nat /\ MaxFaults \in Nat
ASSUME FactAssumption ==
  {NewCustomer, SameBilling, OldShipping, OldBilling} \subseteq BOOLEAN

Workflows == 1 .. MaxWorkflows
Jobs == 1 .. MaxJobs
NoJob == 0

VARIABLES
  wf,       \* the MicrotechOrderSyncWorkflow rows
  job,      \* the MicrotechGraphQLJob rows of the order
  remote,   \* what the wrapper made of each job
  heard,    \* jobs whose handler was entered and has not failed half-way
  told,     \* workflows that have written the AdrNr back to Shopware
  task,     \* what each thread is doing, with its copy of the workflow
  dups, acts, faults

vars == <<wf, job, remote, heard, told, task, dups, acts, faults>>

-----------------------------------------------------------------------------
(* The steps.                                                                *)

StepOrder == <<
  "write_customer", "writeback_adrnr", "shipping_address", "shipping_contact",
  "billing_address", "billing_contact", "clear_default_shipping_address",
  "clear_default_billing_address", "set_default_addresses", "write_vorgang">>

Steps == {StepOrder[i] : i \in DOMAIN StepOrder}
NoStep == "none"

(* What _is_step_applicable computes from the workflow's state.  The facts it *)
(* reads are known once the steps before the one asked about are completed.  *)
IsApplicable(step) ==
  CASE step \in {"billing_address", "billing_contact"} -> ~ SameBilling
    [] step = "writeback_adrnr" -> NewCustomer
    [] step = "clear_default_shipping_address" -> OldShipping
    [] step = "clear_default_billing_address" -> OldBilling
    [] OTHER -> TRUE

Missing(done) == {i \in DOMAIN StepOrder : StepOrder[i] \notin done /\ IsApplicable(StepOrder[i])}

NextStep(done) ==
  IF Missing(done) = {} THEN NoStep
  ELSE StepOrder[CHOOSE i \in Missing(done) : \A k \in Missing(done) : i <= k]

Before(step) ==
  {StepOrder[i] : i \in {i \in DOMAIN StepOrder :
     IsApplicable(StepOrder[i]) /\ \E k \in DOMAIN StepOrder : StepOrder[k] = step /\ i < k}}

-----------------------------------------------------------------------------
(* Rows, and the threads' copies of them.                                    *)

Active == {"running", "waiting", "failed"}
Kept == Active \cup {"succeeded", "cancelled"}
WfStatus == Kept \cup {"none", "deleted"}
Workflow == [status : WfStatus, step : Steps \cup {NoStep},
             job : Jobs \cup {NoJob}, done : SUBSET Steps]

Broken == {"FAILED", "CANCELLED", "DELETE_FAILED"}
JobStatus == {"none", "open", "SUCCEEDED", "gone"} \cup Broken
Job == [status : JobStatus, wf : Workflows \cup {0}, step : Steps \cup {NoStep}]

Places == {"idle", "apply", "finish", "writeback", "submit", "link", "blame",
           "erase", "unlink", "drop", "abort", "reconcile"}
Task == [pc : Places,
         wf : Workflows \cup {0},
         job : Jobs \cup {NoJob},      \* the job whose handler this is, if any
         done : SUBSET Steps,          \* completed steps in the copy of step_log
         step : Steps \cup {NoStep},   \* the step being submitted
         new : Jobs \cup {NoJob},      \* its job; the job an abort has read
         marks : BOOLEAN]              \* errors lead to _mark_step_failed

Idle == [pc |-> "idle", wf |-> 0, job |-> NoJob, done |-> {}, step |-> NoStep,
         new |-> NoJob, marks |-> TRUE]

At(t, p) == task[t].pc = p
Goto(t, r) == task' = [task EXCEPT ![t] = r]
Stop(t) == Goto(t, Idle)
Move(t, p) == Goto(t, [task[t] EXCEPT !.pc = p])

Stored(w) == wf[w].status \in Kept
Exists(j) == j # NoJob /\ job[j].status \notin {"none", "gone"}

(* An abort holds the row's lock from its read to its commit.                *)
Unlocked(w) == \A t \in Threads : ~ (At(t, "abort") /\ task[t].wf = w)

(* unique_active_order_sync_workflow                                         *)
MayBeActive(w) == \A v \in Workflows \ {w} : wf[v].status \notin Active

Fault == faults < MaxFaults /\ faults' = faults + 1

(* The thread goes on with the step that next_step finds in its copy.        *)
Proceed(t, r, done) ==
  LET s == NextStep(done) IN
  Goto(t, [r EXCEPT !.done = done, !.step = s,
             !.pc = CASE s = NoStep -> "finish"
                      [] s = "writeback_adrnr" -> "writeback"
                      [] OTHER -> "submit"])

(* The call chain returns to process_continuation, or to the admin's view.   *)
Returns(t) == IF task[t].job = NoJob THEN Stop(t) ELSE Move(t, "erase")
Raises(t) == IF task[t].job = NoJob THEN Stop(t) ELSE Move(t, "blame")

(* An exception in submit_step or the local step: _mark_step_failed, unless  *)
(* resume called it; its save fails on a deleted row or on the constraint.   *)
StepFails(t) ==
  LET w == task[t].wf
      r == [wf[w] EXCEPT !.status = "failed", !.step = task[t].step, !.done = task[t].done]
  IN  /\ Unlocked(w)
      /\ wf' = IF task[t].marks /\ Stored(w) /\ MayBeActive(w)
               THEN [wf EXCEPT ![w] = r] ELSE wf
      /\ Raises(t)

Init ==
  /\ wf = [w \in Workflows |->
             [status |-> "none", step |-> NoStep, job |-> NoJob, done |-> {}]]
  /\ job = [j \in Jobs |-> [status |-> "none", wf |-> 0, step |-> NoStep]]
  /\ remote = [j \in Jobs |-> "none"]
  /\ heard = {}
  /\ told = {}
  /\ task = [t \in Threads |-> Idle]
  /\ dups = 0 /\ acts = 0 /\ faults = 0

-----------------------------------------------------------------------------
(* start_for_order, and what _advance does with a copy of the workflow.      *)

StartForOrder(t, w) ==
  /\ At(t, "idle")
  /\ wf[w].status = "none" /\ (w > 1 => wf[w - 1].status # "none")
  /\ MayBeActive(w)
  /\ wf' = [wf EXCEPT ![w].status = "running"]
  /\ Proceed(t, [Idle EXCEPT !.wf = w], {})
  /\ UNCHANGED <<job, remote, heard, told, dups, acts, faults>>

(* No step is left.  Saving a row that was deleted raises.                   *)
Finish(t) ==
  /\ At(t, "finish")
  /\ LET w == task[t].wf IN
       /\ Unlocked(w)
       /\ wf' = IF Stored(w)
                THEN [wf EXCEPT ![w].status = "succeeded", ![w].step = NoStep,
                                ![w].job = NoJob]
                ELSE wf
       /\ IF Stored(w) THEN Returns(t) ELSE Raises(t)
  /\ UNCHANGED <<job, remote, heard, told, dups, acts, faults>>

(* writeback_adrnr, the local step: Shopware accepts the number ...          *)
Writeback(t) ==
  /\ At(t, "writeback")
  /\ LET w == task[t].wf
         done == task[t].done \cup {"writeback_adrnr"}
     IN  /\ Unlocked(w)
         /\ told' = told \cup {w}
         /\ wf' = IF Stored(w) THEN [wf EXCEPT ![w].done = done] ELSE wf
         /\ IF Stored(w) THEN Proceed(t, task[t], done) ELSE Raises(t)
  /\ UNCHANGED <<job, remote, heard, dups, acts, faults>>

(* ... or not.                                                               *)
WritebackFails(t) ==
  /\ At(t, "writeback")
  /\ Fault
  /\ StepFails(t)
  /\ UNCHANGED <<job, remote, heard, told, dups, acts>>

(* submit_step: submit_wrapper_job creates the row and hands it to the       *)
(* wrapper; until its id is stored nobody else can see the job.              *)
Fresh(j) == job[j].status = "none" /\ (j > 1 => job[j - 1].status # "none")

Submit(t, j) ==
  /\ At(t, "submit")
  /\ Fresh(j)
  /\ job' = [job EXCEPT ![j] = [status |-> "open", wf |-> task[t].wf, step |-> task[t].step]]
  /\ remote' = [remote EXCEPT ![j] = "open"]
  /\ Goto(t, [task[t] EXCEPT !.pc = "link", !.new = j])
  /\ UNCHANGED <<wf, heard, told, dups, acts, faults>>

(* Refused by the backup gate, by a missing number or by the wrapper, or     *)
(* accepted although the answer was lost.                                    *)
SubmitFails(t, j) ==
  /\ At(t, "submit")
  /\ Fresh(j)
  /\ Fault
  /\ job' = [job EXCEPT ![j] = [status |-> "FAILED", wf |-> task[t].wf, step |-> task[t].step]]
  /\ \E r \in {"none", "open"} : remote' = [remote EXCEPT ![j] = r]
  /\ StepFails(t)
  /\ UNCHANGED <<heard, told, dups, acts>>

(* ... and then saves status, step and current_job.  The save raises if the  *)
(* workflow or the job was deleted, or another workflow has become active.   *)
Link(t) ==
  /\ At(t, "link")
  /\ LET w == task[t].wf
         j == task[t].new
     IN  /\ Unlocked(w)
         /\ IF Stored(w) /\ Exists(j) /\ MayBeActive(w)
            THEN /\ wf' = [wf EXCEPT ![w].status = "waiting", ![w].step = task[t].step,
                                     ![w].job = j]
                 /\ Returns(t)
            ELSE StepFails(t)
  /\ UNCHANGED <<job, remote, heard, told, dups, acts, faults>>

-----------------------------------------------------------------------------
(* The continuation: advance(job), called by process_continuation.           *)

ContinuationStarts(t, j) ==
  /\ At(t, "idle")
  /\ job[j].status = "SUCCEEDED"
  /\ IF j \in heard THEN dups < MaxDups /\ dups' = dups + 1 ELSE dups' = dups
  /\ heard' = heard \cup {j}
  /\ Goto(t, [Idle EXCEPT !.pc = "apply", !.job = j, !.wf = job[j].wf])
  /\ UNCHANGED <<wf, job, remote, told, acts, faults>>

(* Mutants are plausible bugs in the definition that follows; no definition  *)
(* uses them, the runs show that they would be noticed.                      *)
MutantLate(t) == ~ Stored(task[t].wf)

(* A continuation for another step than the current one does nothing.        *)
Late(t) ==
  LET w == task[t].wf IN ~ Stored(w) \/ wf[w].step # job[task[t].job].step

ApplyIgnores(t) ==
  /\ At(t, "apply")
  /\ Unlocked(task[t].wf)
  /\ Late(t)
  /\ Returns(t)
  /\ UNCHANGED <<wf, job, remote, heard, told, dups, acts, faults>>

(* The locked transaction applies the result and commits; _advance goes on   *)
(* with the copy, without the lock.                                          *)
Apply(t) ==
  /\ At(t, "apply")
  /\ Unlocked(task[t].wf)
  /\ ~ Late(t)
  /\ LET w == task[t].wf
         done == wf[w].done \cup {job[task[t].job].step}
     IN  /\ wf' = [wf EXCEPT ![w].done = done]
         /\ Proceed(t, task[t], done)
  /\ UNCHANGED <<job, remote, heard, told, dups, acts, faults>>

(* The result cannot be used: FAILED, and advance returns as if all was well.*)
ApplyFails(t) ==
  /\ At(t, "apply")
  /\ Unlocked(task[t].wf)
  /\ ~ Late(t)
  /\ Fault
  /\ LET w == task[t].wf IN
       wf' = IF MayBeActive(w)
             THEN [wf EXCEPT ![w].status = "failed", ![w].step = job[task[t].job].step]
             ELSE wf
  /\ IF MayBeActive(task[t].wf) THEN Returns(t) ELSE Raises(t)
  /\ UNCHANGED <<job, remote, heard, told, dups, acts>>

(* process_continuation, when the handler has raised.                        *)
Blame(t) ==
  /\ At(t, "blame")
  /\ LET j == task[t].job IN
       job' = IF Exists(j) THEN [job EXCEPT ![j].status = "FAILED"] ELSE job
  /\ Stop(t)
  /\ UNCHANGED <<wf, remote, heard, told, dups, acts, faults>>

(* When it has returned: delete_job, first in the wrapper ...                *)
Erase(t) ==
  /\ At(t, "erase")
  /\ IF Exists(task[t].job) THEN Move(t, "unlink") ELSE Stop(t)
  /\ UNCHANGED <<wf, job, remote, heard, told, dups, acts, faults>>

MutantEraseForgets(t) ==
  /\ At(t, "erase")
  /\ Exists(task[t].job)
  /\ Fault
  /\ Stop(t)
  /\ UNCHANGED <<wf, job, remote, heard, told, dups, acts>>

(* (it refuses: DELETE_FAILED; the connection breaks: the job stays pending) *)
EraseFails(t) ==
  /\ At(t, "erase")
  /\ Exists(task[t].job)
  /\ Fault
  /\ \/ job' = [job EXCEPT ![task[t].job].status = "DELETE_FAILED"] /\ UNCHANGED heard
     \/ heard' = heard \ {task[t].job} /\ UNCHANGED job
  /\ Stop(t)
  /\ UNCHANGED <<wf, remote, told, dups, acts>>

(* ... then the workflows that refer to it ...                               *)
Unlink(t) ==
  /\ At(t, "unlink")
  /\ \A w \in Workflows : wf[w].job = task[t].job => Unlocked(w)
  /\ wf' = [w \in Workflows |->
              IF wf[w].job = task[t].job THEN [wf[w] EXCEPT !.status = "deleted", !.job = NoJob]
              ELSE wf[w]]
  /\ Move(t, "drop")
  /\ UNCHANGED <<job, remote, heard, told, dups, acts, faults>>

(* ... then the row, which clears the references made meanwhile.             *)
Drop(t) ==
  /\ At(t, "drop")
  /\ \A w \in Workflows : wf[w].job = task[t].job => Unlocked(w)
  /\ job' = [job EXCEPT ![task[t].job].status = "gone"]
  /\ wf' = [w \in Workflows |->
              IF wf[w].job = task[t].job THEN [wf[w] EXCEPT !.job = NoJob] ELSE wf[w]]
  /\ Stop(t)
  /\ UNCHANGED <<remote, heard, told, dups, acts, faults>>

-----------------------------------------------------------------------------
(* reconcile_failures, a beat task.  (A workflow is linked to a job only     *)
(* after the job's id is stored, and no step is a probe any more: the        *)
(* branches for these cases are not reached.)                                *)

MutantOrphanedByCancel(w) ==
  /\ wf[w].status = "waiting"
  /\ wf[w].job # NoJob => job[wf[w].job].status = "CANCELLED"

Orphaned(w) ==
  /\ wf[w].status = "waiting"
  /\ wf[w].job # NoJob => job[wf[w].job].status \in Broken

ReconcileReads(t, w) ==
  /\ At(t, "idle")
  /\ Orphaned(w)
  /\ Goto(t, [Idle EXCEPT !.pc = "reconcile", !.wf = w])
  /\ UNCHANGED <<wf, job, remote, heard, told, dups, acts, faults>>

(* The row is locked and read again, but its status is not looked at.        *)
ReconcileWrites(t) ==
  /\ At(t, "reconcile")
  /\ Unlocked(task[t].wf)
  /\ LET w == task[t].wf IN
       wf' = IF Stored(w) /\ MayBeActive(w)
             THEN [wf EXCEPT ![w].status = "failed"] ELSE wf
  /\ Stop(t)
  /\ UNCHANGED <<job, remote, heard, told, dups, acts, faults>>

-----------------------------------------------------------------------------
(* The admin's actions.  A restart is an abort followed by a start.          *)

Act == acts < MaxActs /\ acts' = acts + 1

AbortReads(t, w) ==
  /\ At(t, "idle")
  /\ Act
  /\ Unlocked(w)
  /\ wf[w].status \in Active
  /\ LET j == wf[w].job
         cancel == j # NoJob /\ job[j].status = "open"
     IN  Goto(t, [Idle EXCEPT !.pc = "abort", !.wf = w, !.new = IF cancel THEN j ELSE NoJob])
  /\ UNCHANGED <<wf, job, remote, heard, told, dups, faults>>

(* The job is saved as it was read, without a lock of its own; if its row    *)
(* has gone meanwhile the save raises and nothing is changed.                *)
AbortWrites(t) ==
  /\ At(t, "abort")
  /\ LET w == task[t].wf
         j == task[t].new
     IN  IF j # NoJob /\ ~ Exists(j) THEN UNCHANGED <<wf, job>>
         ELSE /\ job' = IF j = NoJob THEN job ELSE [job EXCEPT ![j].status = "CANCELLED"]
              /\ wf' = [wf EXCEPT ![w].status = "cancelled", ![w].job = NoJob]
  /\ Stop(t)
  /\ UNCHANGED <<remote, heard, told, dups, acts, faults>>

MutantResumeSkips(t, w) ==
  /\ At(t, "idle")
  /\ Act
  /\ wf[w].status = "failed"
  /\ Proceed(t, [Idle EXCEPT !.wf = w], wf[w].done \cup {wf[w].step})
  /\ UNCHANGED <<wf, job, remote, heard, told, dups, faults>>

(* resume reads a FAILED workflow without a lock.                            *)
Resume(t, w) ==
  /\ At(t, "idle")
  /\ Act
  /\ wf[w].status = "failed"
  /\ LET r == [Idle EXCEPT !.wf = w, !.done = wf[w].done]
         s == wf[w].step
     IN  IF s \in wf[w].done \cup {NoStep, "writeback_adrnr"}
         THEN Proceed(t, r, wf[w].done)
         ELSE Goto(t, [r EXCEPT !.pc = "submit", !.step = s, !.marks = FALSE])
  /\ UNCHANGED <<wf, job, remote, heard, told, dups, faults>>

-----------------------------------------------------------------------------
(* The wrapper and the sentinel, as far as the chain sees them.              *)

RemoteEnds(j) ==
  /\ remote[j] = "open"
  /\ \E v \in {"done", "failed"} : remote' = [remote EXCEPT ![j] = v]
  /\ UNCHANGED <<wf, job, heard, told, task, dups, acts, faults>>

MutantJobEndsRaw(j) ==
  /\ job[j].status = "open"
  /\ remote[j] \in {"done", "failed"}
  /\ job' = [job EXCEPT ![j].status = remote[j]]
  /\ UNCHANGED <<wf, remote, heard, told, task, dups, acts, faults>>

(* A webhook or a poll tells how the job ended.                              *)
JobEnds(j) ==
  /\ job[j].status = "open"
  /\ remote[j] \in {"done", "failed"}
  /\ job' = [job EXCEPT ![j].status = IF remote[j] = "done" THEN "SUCCEEDED" ELSE "FAILED"]
  /\ UNCHANGED <<wf, remote, heard, told, task, dups, acts, faults>>

(* The last attempt to poll fails: FAILED, whatever the row said.            *)
PollsExhausted(j) ==
  /\ job[j].status \in {"open", "SUCCEEDED"}
  /\ Fault
  /\ job' = [job EXCEPT ![j].status = "FAILED"]
  /\ UNCHANGED <<wf, remote, heard, told, task, dups, acts>>

(* A worker dies; the job stays pending and its continuation is sent again.  *)
Crash(t) ==
  /\ ~ At(t, "idle")
  /\ Fault
  /\ heard' = heard \ {task[t].job}
  /\ Stop(t)
  /\ UNCHANGED <<wf, job, remote, told, dups, acts>>

-----------------------------------------------------------------------------
Continues(t) ==
  \/ Finish(t) \/ Writeback(t) \/ WritebackFails(t)
  \/ \E j \in Jobs : Submit(t, j) \/ SubmitFails(t, j)
  \/ Link(t) \/ ApplyIgnores(t) \/ Apply(t) \/ ApplyFails(t) \/ Blame(t)
  \/ Erase(t) \/ EraseFails(t) \/ Unlink(t) \/ Drop(t)
  \/ ReconcileWrites(t) \/ AbortWrites(t)

Next ==
  \/ \E t \in Threads :
       \/ Continues(t) \/ Crash(t)
       \/ \E w \in Workflows :
            \/ StartForOrder(t, w) \/ ReconcileReads(t, w)
            \/ AbortReads(t, w) \/ Resume(t, w)
       \/ \E j \in Jobs : ContinuationStarts(t, j)
  \/ \E j \in Jobs : RemoteEnds(j) \/ JobEnds(j) \/ PollsExhausted(j)

Spec == Init /\ [][Next]_vars

(* A thread finishes what it has begun; the beat and the broker are served.  *)
(* That a job ends, and that its continuation is sent again until a handler  *)
(* has run, is what JobSentinel!TrackedJobSettles and ContinuationConcludes  *)
(* establish.                                                                *)
Fairness ==
  /\ \A t \in Threads : WF_vars(Continues(t))
  /\ \A w \in Workflows : SF_vars(\E t \in Threads : ReconcileReads(t, w))
  /\ WF_vars(\E j \in Jobs : RemoteEnds(j) \/ JobEnds(j))
  /\ SF_vars(\E t \in Threads, j \in Jobs : j \notin heard /\ ContinuationStarts(t, j))

FairSpec == Spec /\ Fairness

-----------------------------------------------------------------------------
(* Rows and threads keep their types.                                        *)
TypeOK ==
  /\ wf \in [Workflows -> Workflow]
  /\ job \in [Jobs -> Job]
  /\ remote \in [Jobs -> {"none", "open", "done", "failed"}]
  /\ heard \subseteq Jobs /\ told \subseteq Workflows
  /\ task \in [Threads -> Task]
  /\ dups \in 0 .. MaxDups /\ acts \in 0 .. MaxActs /\ faults \in 0 .. MaxFaults

(* The wrapper has carried out step s for workflow w.                        *)
CarriedOut(w, s) ==
  IF s = "writeback_adrnr" THEN w \in told
  ELSE \E j \in Jobs : job[j].wf = w /\ job[j].step = s /\ remote[j] = "done"

(* No step reaches Microtech before all the steps it depends on have really  *)
(* been carried out there and in Shopware: the Vorgang is never created for  *)
(* a customer or an address that is not yet written.  This holds whatever    *)
(* is delivered twice, aborted, resumed, reconciled or lost in a crash.      *)
StepsInOrder ==
  \A j \in Jobs : remote[j] # "none" =>
    \A s \in Before(job[j].step) : CarriedOut(job[j].wf, s)

(* A workflow shown as successful has carried out every applicable step.     *)
SucceededMeansDone ==
  \A w \in Workflows : wf[w].status = "succeeded" =>
    \A s \in Steps : IsApplicable(s) => CarriedOut(w, s)

(* Both, whatever advance, resume, abort and reconcile do to one another:     *)
(* at no moment is a step ahead of what it builds on, and success is earned.  *)
ChainIsCarriedOut == StepsInOrder /\ SucceededMeansDone

(* The order is created in Microtech once ("aktualisiert statt zu             *)
(* duplizieren", says the design of a resumed step).                         *)
CreatedOnce ==
  \A i, j \in Jobs :
    /\ job[i].step = "write_vorgang" /\ remote[i] = "done"
    /\ job[j].step = "write_vorgang" /\ remote[j] = "done"
    => i = j

(* As long as nothing is delivered twice and nothing fails on the way, no call *)
(* goes to the wrapper twice on its own, and one intervention of a person      *)
(* repeats one call at most (the Vorgang too: resume knows the steps that were  *)
(* applied, and not the job whose continuation came before its id was linked). *)
SameCall(i, j) == job[i].wf # 0 /\ job[i].wf = job[j].wf /\ job[i].step = job[j].step

OneCallRepeatedPerAct ==
  dups = 0 /\ faults = 0 /\ acts <= 1 =>
    \E k \in Jobs \cup {NoJob} :
      /\ acts = 0 => k = NoJob
      /\ \A i, j \in Jobs \ {k} : SameCall(i, j) => i = j

(* Whoever waits for a job can be told of its end: the job is with the wrapper, *)
(* it has failed (so that reconcile_failures will find the workflow), or its    *)
(* continuation is still to be delivered or in somebody's hands.  A job is      *)
(* deleted while submit_step may be about to link it, its handler may die or    *)
(* fail at any step, and the same continuation may run twice.                *)
InHand(j) == \E t \in Threads : ~ At(t, "idle") /\ task[t].job = j

CanBeTold(j) ==
  \/ job[j].status = "open" /\ remote[j] # "none"
  \/ job[j].status \in Broken
  \/ job[j].status = "SUCCEEDED" /\ (j \in heard => InHand(j))

NobodyWaitsInVain ==
  \A w \in Workflows : wf[w].status = "waiting" /\ wf[w].job # NoJob => CanBeTold(wf[w].job)

(* A workflow that was aborted stays so ("wird ein späterer Status ignoriert",*)
(* orders/admin.py).                                                         *)
AbortIsFinal ==
  [][\A w \in Workflows :
       wf[w].status = "cancelled" => wf'[w].status = "cancelled"]_vars

(* A workflow that is marked FAILED remains, to be resumed (_mark_step_failed).*)
FailedCanBeResumed ==
  [][\A w \in Workflows : wf[w].status = "failed" => wf'[w].status # "deleted"]_vars

(* No workflow waits for ever: its job's end, or reconcile_failures, ends it.*)
WaitingEnds ==
  \A w \in Workflows : wf[w].status = "waiting" ~> wf[w].status # "waiting"
=============================================================================
