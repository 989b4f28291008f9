----------------------------- MODULE JobSentinel -----------------------------
(***************************************************************************)
(* MicrotechJobSentinelService (microtech/services/job_sentinel.py): the    *)
(* life of a MicrotechGraphQLJob, the local record of one asynchronous job  *)
(* that the external Microtech wrapper executes.                            *)
(*                                                                          *)
(* Every database transaction, every single UPDATE, every call to the       *)
(* wrapper and every hand-over to the Celery broker is one atomic step; a   *)
(* thread (a Celery worker or a web request) interleaves with all others    *)
(* between two such steps, and keeps what it read in task[t].               *)
(*                                                                          *)
(* Abstractions.  Payloads are left out.  next_poll_at becomes "due" (null  *)
(* or in the past): an assignment of a future time clears it and Elapse(j)  *)
(* may set it again at any moment, so a timeout may always fire while the   *)
(* work it was meant to cover is still running.  next_step becomes          *)
(* "pending" (is it one of CONTINUATION_STEPS_PENDING?), the only thing the *)
(* code reads from it.  The batch limit of 50 is larger than any instance.  *)
(***************************************************************************)
EXTENDS Naturals, FiniteSets

CONSTANTS
  Jobs,         \* job rows that may ever be created
  Threads,      \* Celery workers and web requests
  NoJob,        \* the job of an idle thread
  Continued,    \* jobs created with a continuation
  Registered,   \* jobs whose continuation name is in CONTINUATIONS
  Disposable,   \* jobs created with delete_after_completion
  ByHand,       \* jobs a person may cancel or delete in the admin
  MaxAttempts,  \* MicrotechGraphQLJob.max_attempts
  MaxQueue,     \* bound: messages of one kind for one job in the broker
  MaxFaults     \* bound: worker crashes plus broker outages

ASSUME ThreadAssumption == Threads # {}
ASSUME JobAssumption == NoJob \notin Jobs
ASSUME KindAssumption ==
  Continued \subseteq Jobs /\ Registered \subseteq Continued
    /\ Disposable \subseteq Jobs /\ ByHand \subseteq Jobs
ASSUME BoundAssumption ==
  MaxAttempts \in Nat \ {0} /\ MaxQueue \in Nat \ {0} /\ MaxFaults \in Nat

VARIABLES
  row,      \* the MicrotechGraphQLJob table
  remote,   \* what the wrapper knows of the job
  erased,   \* jobs whose remote record deleteJob has removed
  pollQ,    \* poll_graphql_job messages in the broker
  contQ,    \* process_graphql_job_result messages in the broker
  task,     \* what each thread is doing, with the values it has read
  handled,  \* history: how often the continuation handler was entered, up to 2
  faults    \* crashes and outages so far

vars == <<row, remote, erased, pollQ, contQ, task, handled, faults>>

-----------------------------------------------------------------------------
(* The rows.  "none" and "gone" stand for a row not yet created and a row    *)
(* deleted.                                                                  *)

LocalActive == {"SUBMITTED", "RUNNING", "WAITING_WEBHOOK"}
Terminal == {"SUCCEEDED", "FAILED", "CANCELLED", "DELETE_FAILED"}
CanCancel == LocalActive \cup {"QUEUED"}
Stored == Terminal \cup CanCancel \cup {"CANCEL_REQUESTED"}
Status == Stored \cup {"none", "gone"}

Row == [status : Status, attempt : Nat, ext : BOOLEAN,
        pending : BOOLEAN, due : BOOLEAN]

(* The wrapper's side: "open" until it finishes, fails or cancels the job.   *)
Verdict == {"done", "failed", "cancelled"}
Remote == {"none", "open"} \cup Verdict

Exists(j) == row[j].status \in Stored

(* objects.filter(pk=j).update(...): nothing happens to a deleted row.       *)
Update(j, r) == row' = [row EXCEPT ![j] = IF Exists(j) THEN r ELSE @]

-----------------------------------------------------------------------------
(* The threads.                                                              *)

Places == {"idle", "submit", "save", "fetch", "apply", "after", "dispatch",
           "mark", "handle", "cancel", "delete", "erase", "drop", "polls", "conts"}

Task == [pc : Places, job : Jobs \cup {NoJob},
         says : {"none", "open"} \cup Verdict, \* remote status that was read
         tries : Nat,           \* the attempt number this poll took
         wipe : BOOLEAN,        \* delete_job's delete_remote, then: call it?
         cancels : BOOLEAN,     \* inside cancel_job, which turns errors into FAILED
         todo : SUBSET Jobs]    \* claimed, still to be handed to the broker

Idle == [pc |-> "idle", job |-> NoJob, says |-> "none", tries |-> 0,
         wipe |-> FALSE, cancels |-> FALSE, todo |-> {}]

At(t, p) == task[t].pc = p
Goto(t, r) == task' = [task EXCEPT ![t] = r]
Stop(t) == Goto(t, Idle)
Begin(t, p, j) == Goto(t, [Idle EXCEPT !.pc = p, !.job = j])
Move(t, p) == Goto(t, [task[t] EXCEPT !.pc = p])

(* delete_job is entered from five places; wipe is its delete_remote.        *)
DeleteTask(j, wipe, cancels) ==
  [Idle EXCEPT !.pc = "delete", !.job = j, !.wipe = wipe, !.cancels = cancels]

(* One more message for j in queue q; beyond MaxQueue they are not counted.  *)
Sent(q, j) == [q EXCEPT ![j] = IF @ < MaxQueue THEN @ + 1 ELSE @]

NewRow == [status |-> "QUEUED", attempt |-> 0, ext |-> FALSE,
           pending |-> FALSE, due |-> TRUE]

Init ==
  /\ row = [j \in Jobs |-> [NewRow EXCEPT !.status = "none"]]
  /\ remote = [j \in Jobs |-> "none"]
  /\ erased = {}
  /\ pollQ = [j \in Jobs |-> 0]
  /\ contQ = [j \in Jobs |-> 0]
  /\ task = [t \in Threads |-> Idle]
  /\ handled = [j \in Jobs |-> 0]
  /\ faults = 0

-----------------------------------------------------------------------------
(* submit_wrapper_job.  The backup gate may refuse before anything happens.  *)

Create(t, j) ==
  /\ At(t, "idle")
  /\ row[j].status = "none"
  /\ row' = [row EXCEPT ![j] = NewRow]
  /\ Begin(t, "submit", j)
  /\ UNCHANGED <<remote, erased, pollQ, contQ, handled, faults>>

(* The wrapper accepts the job and returns its id.                           *)
SubmitAccepted(t) ==
  /\ At(t, "submit")
  /\ remote' = [remote EXCEPT ![task[t].job] = "open"]
  /\ Move(t, "save")
  /\ UNCHANGED <<row, erased, pollQ, contQ, handled, faults>>

(* The call raises: refused, or accepted with the answer lost on the way.    *)
(* job.save(update_fields=...) on a row deleted meanwhile raises as well.    *)
SubmitRaises(t) ==
  /\ At(t, "submit")
  /\ \E r \in {"none", "open"} : remote' = [remote EXCEPT ![task[t].job] = r]
  /\ LET j == task[t].job IN Update(j, [row[j] EXCEPT !.status = "FAILED"])
  /\ Stop(t)
  /\ UNCHANGED <<erased, pollQ, contQ, handled, faults>>

SubmitSaved(t) ==
  /\ At(t, "save")
  /\ LET j == task[t].job IN
       Update(j, [row[j] EXCEPT !.status = "WAITING_WEBHOOK", !.ext = TRUE,
                                !.due = FALSE])
  /\ Stop(t)
  /\ UNCHANGED <<remote, erased, pollQ, contQ, handled, faults>>

-----------------------------------------------------------------------------
(* What a remote status does to a row (_apply_remote_status).                *)

(* Variants, marked "Mutant", of the definitions that follow are plausible    *)
(* bugs; no definition uses them, the runs show that they would be noticed.  *)
MutantAppliedFinished(j, says) ==
  [row[j] EXCEPT !.status = IF says = "open" THEN "RUNNING" ELSE "SUCCEEDED",
                 !.pending = j \in Continued]

Applied(j, says) ==
  CASE says = "done" ->
         [row[j] EXCEPT !.status = "SUCCEEDED", !.pending = j \in Continued]
    [] says = "cancelled" -> [row[j] EXCEPT !.status = "CANCELLED", !.pending = FALSE]
    [] says = "failed" -> [row[j] EXCEPT !.status = "FAILED", !.pending = FALSE]
    [] OTHER -> [row[j] EXCEPT !.status = "RUNNING"]

MutantWebhookReopens(t, j, says) ==
  /\ At(t, "idle")
  /\ remote[j] # "none"
  /\ says \in {"open"} \cup ({remote[j]} \cap Verdict)
  /\ Exists(j) /\ row[j].ext
  /\ row' = [row EXCEPT ![j] = Applied(j, says)]
  /\ Begin(t, "after", j)
  /\ UNCHANGED <<remote, erased, pollQ, contQ, handled, faults>>

(* A webhook for j reaches the server.  It reports the verdict, or that the  *)
(* job was running, which is always an earlier fact; it may come late, more  *)
(* than once, before the job id is stored (refused), or never.               *)
Webhook(t, j, says) ==
  /\ At(t, "idle")
  /\ remote[j] # "none"
  /\ says \in {"open"} \cup ({remote[j]} \cap Verdict)
  /\ Exists(j) /\ row[j].ext
  /\ row[j].status \notin Terminal
  /\ row' = [row EXCEPT ![j] = Applied(j, says)]
  /\ Begin(t, "after", j)
  /\ UNCHANGED <<remote, erased, pollQ, contQ, handled, faults>>

(* _after_terminal_update: what the new status asks for.                     *)
AfterUpdate(t) ==
  /\ At(t, "after")
  /\ LET j == task[t].job
         s == row[j].status
         delete == \/ s = "SUCCEEDED" /\ j \notin Continued /\ j \in Disposable
                   \/ s = "CANCELLED" /\ j \in Disposable
         dispatch == s = "SUCCEEDED" /\ j \in Continued
     IN  /\ IF delete THEN Goto(t, DeleteTask(j, TRUE, FALSE))
            ELSE IF dispatch THEN Move(t, "dispatch")
            ELSE Stop(t)
         /\ row' = [row EXCEPT ![j] =
              IF dispatch THEN [@ EXCEPT !.pending = TRUE, !.due = FALSE] ELSE @]
  /\ UNCHANGED <<remote, erased, pollQ, contQ, handled, faults>>

(* _dispatch_continuation, after its first UPDATE: the broker takes it ...   *)
Dispatched(t) ==
  /\ At(t, "dispatch")
  /\ LET j == task[t].job IN
       contQ' = Sent(contQ, j)
  /\ Stop(t)
  /\ UNCHANGED <<row, remote, erased, pollQ, handled, faults>>

(* ... or is down, and the row is left due for the next beat.                *)
DispatchFails(t) ==
  /\ At(t, "dispatch")
  /\ LET j == task[t].job IN
       Update(j, [row[j] EXCEPT !.pending = TRUE, !.due = TRUE])
  /\ Stop(t)
  /\ UNCHANGED <<remote, erased, pollQ, contQ, handled, faults>>

-----------------------------------------------------------------------------
(* The beat tick: poll_due_jobs claims and enqueues the due polls, then the  *)
(* pending continuations.                                                    *)

MutantBeatForgetsRunning(t) ==
  /\ At(t, "idle")
  /\ LET due == {j \in Jobs : row[j].status = "WAITING_WEBHOOK" /\ row[j].due}
     IN  /\ row' = [j \in Jobs |-> IF j \in due THEN [row[j] EXCEPT !.due = FALSE]
                                               ELSE row[j]]
         /\ Goto(t, [Idle EXCEPT !.pc = "polls", !.todo = due])
  /\ UNCHANGED <<remote, erased, pollQ, contQ, handled, faults>>

BeatClaimsPolls(t) ==
  /\ At(t, "idle")
  /\ LET due == {j \in Jobs : row[j].status \in LocalActive /\ row[j].due}
     IN  /\ row' = [j \in Jobs |-> IF j \in due THEN [row[j] EXCEPT !.due = FALSE]
                                               ELSE row[j]]
         /\ Goto(t, [Idle EXCEPT !.pc = "polls", !.todo = due])
  /\ UNCHANGED <<remote, erased, pollQ, contQ, handled, faults>>

EnqueuePoll(t, j) ==
  /\ At(t, "polls")
  /\ j \in task[t].todo
  /\ pollQ' = Sent(pollQ, j)
  /\ Goto(t, [task[t] EXCEPT !.todo = @ \ {j}])
  /\ UNCHANGED <<row, remote, erased, contQ, handled, faults>>

MutantBeatPollsOnly(t) ==
  /\ At(t, "polls")
  /\ task[t].todo = {}
  /\ Goto(t, [Idle EXCEPT !.pc = "conts"])
  /\ UNCHANGED <<row, remote, erased, pollQ, contQ, handled, faults>>

BeatClaimsContinuations(t) ==
  /\ At(t, "polls")
  /\ task[t].todo = {}
  /\ LET due == {j \in Jobs : /\ row[j].status = "SUCCEEDED"
                              /\ j \in Continued
                              /\ row[j].pending /\ row[j].due}
     IN  /\ row' = [j \in Jobs |-> IF j \in due THEN [row[j] EXCEPT !.due = FALSE]
                                               ELSE row[j]]
         /\ Goto(t, [Idle EXCEPT !.pc = "conts", !.todo = due])
  /\ UNCHANGED <<remote, erased, pollQ, contQ, handled, faults>>

EnqueueContinuation(t, j) ==
  /\ At(t, "conts")
  /\ j \in task[t].todo
  /\ contQ' = Sent(contQ, j)
  /\ Goto(t, [task[t] EXCEPT !.todo = @ \ {j}])
  /\ UNCHANGED <<row, remote, erased, pollQ, handled, faults>>

BeatEnds(t) ==
  /\ At(t, "conts")
  /\ task[t].todo = {}
  /\ Stop(t)
  /\ UNCHANGED <<row, remote, erased, pollQ, contQ, handled, faults>>

-----------------------------------------------------------------------------
(* poll_job_once.  Its two transactions enclose a call to the wrapper.       *)

(* The first transaction; a row that is gone, terminal or without a remote   *)
(* id is left alone.  (A row another transaction holds is skipped: as if     *)
(* this message had been lost.)                                              *)
PollStarts(t, j) ==
  /\ At(t, "idle")
  /\ pollQ[j] > 0
  /\ pollQ' = [pollQ EXCEPT ![j] = @ - 1]
  /\ IF Exists(j) /\ row[j].status \notin Terminal /\ row[j].ext
     THEN /\ row' = [row EXCEPT ![j].attempt = @ + 1]
          /\ Goto(t, [Idle EXCEPT !.pc = "fetch", !.job = j,
                                  !.tries = row[j].attempt + 1])
     ELSE UNCHANGED <<row, task>>
  /\ UNCHANGED <<remote, erased, contQ, handled, faults>>

Fetched(t) ==
  /\ At(t, "fetch")
  /\ task[t].job \notin erased
  /\ Goto(t, [task[t] EXCEPT !.pc = "apply", !.says = remote[task[t].job]])
  /\ UNCHANGED <<row, remote, erased, pollQ, contQ, handled, faults>>

(* _handle_poll_failure: an UPDATE that does not look at the row's status.   *)
FetchRaises(t) ==
  /\ At(t, "fetch")
  /\ LET j == task[t].job IN
       Update(j, IF task[t].tries >= MaxAttempts
                 THEN [row[j] EXCEPT !.status = "FAILED", !.pending = FALSE,
                                     !.due = TRUE]
                 ELSE [row[j] EXCEPT !.due = FALSE])
  /\ Stop(t)
  /\ UNCHANGED <<remote, erased, pollQ, contQ, handled, faults>>

(* The second transaction, which reads the row again.                        *)
MutantPollGivesUpEarly(t) ==
  LET j == task[t].job
      r == Applied(j, task[t].says)
  IN  IF r.status \in Terminal THEN r
      ELSE IF task[t].tries + 1 >= MaxAttempts
      THEN [r EXCEPT !.status = "FAILED", !.pending = FALSE, !.due = TRUE]
      ELSE [r EXCEPT !.due = FALSE]

PollResult(t) ==
  LET j == task[t].job
      r == Applied(j, task[t].says)
  IN  IF r.status \in Terminal THEN r
      ELSE IF task[t].tries >= MaxAttempts
      THEN [r EXCEPT !.status = "FAILED", !.pending = FALSE, !.due = TRUE]
      ELSE [r EXCEPT !.due = FALSE]

MutantPollTrustsFirstRead(t) ==
  /\ At(t, "apply")
  /\ LET j == task[t].job IN
       IF Exists(j)
       THEN row' = [row EXCEPT ![j] = PollResult(t)] /\ Move(t, "after")
       ELSE UNCHANGED row /\ Stop(t)
  /\ UNCHANGED <<remote, erased, pollQ, contQ, handled, faults>>

PollApplied(t) ==
  /\ At(t, "apply")
  /\ LET j == task[t].job IN
       IF Exists(j) /\ row[j].status \notin Terminal
       THEN row' = [row EXCEPT ![j] = PollResult(t)] /\ Move(t, "after")
       ELSE UNCHANGED row /\ Stop(t)
  /\ UNCHANGED <<remote, erased, pollQ, contQ, handled, faults>>

-----------------------------------------------------------------------------
(* process_continuation.                                                     *)

ContinuationStarts(t, j) ==
  /\ At(t, "idle")
  /\ contQ[j] > 0
  /\ contQ' = [contQ EXCEPT ![j] = @ - 1]
  /\ CASE row[j].status = "SUCCEEDED" /\ j \in Registered ->
             Begin(t, "mark", j) /\ UNCHANGED row
       [] row[j].status = "SUCCEEDED" /\ j \notin Registered ->
             row' = [row EXCEPT ![j].status = "FAILED"] /\ UNCHANGED task
       [] OTHER -> UNCHANGED <<row, task>>
  /\ UNCHANGED <<remote, erased, pollQ, handled, faults>>

(* The lock is released; one UPDATE, then the handler is entered.            *)
HandlerEntered(t) ==
  /\ At(t, "mark")
  /\ LET j == task[t].job IN
       /\ Update(j, [row[j] EXCEPT !.pending = TRUE, !.due = FALSE])
       /\ handled' = [handled EXCEPT ![j] = IF @ < 2 THEN @ + 1 ELSE 2]
  /\ Move(t, "handle")
  /\ UNCHANGED <<remote, erased, pollQ, contQ, faults>>

HandlerReturns(t) ==
  /\ At(t, "handle")
  /\ LET j == task[t].job IN
       IF j \in Disposable
       THEN Goto(t, DeleteTask(j, TRUE, FALSE)) /\ UNCHANGED row
       ELSE Stop(t) /\ Update(j, [row[j] EXCEPT !.pending = FALSE, !.due = TRUE])
  /\ UNCHANGED <<remote, erased, pollQ, contQ, handled, faults>>

HandlerRaises(t) ==
  /\ At(t, "handle")
  /\ LET j == task[t].job IN
       Update(j, [row[j] EXCEPT !.status = "FAILED", !.pending = FALSE, !.due = TRUE])
  /\ Stop(t)
  /\ UNCHANGED <<remote, erased, pollQ, contQ, handled, faults>>

-----------------------------------------------------------------------------
(* cancel_job, delete_job, cleanup_old_jobs.                                 *)

CancelRequested(t, j) ==
  /\ At(t, "idle")
  /\ j \in ByHand
  /\ row[j].status \in CanCancel
  /\ row' = [row EXCEPT ![j].status = "CANCEL_REQUESTED", ![j].pending = FALSE]
  /\ IF row[j].ext
     THEN Goto(t, [Idle EXCEPT !.pc = "cancel", !.job = j])
     ELSE Goto(t, DeleteTask(j, FALSE, TRUE))
  /\ UNCHANGED <<remote, erased, pollQ, contQ, handled, faults>>

(* The wrapper takes the request; a job it still runs may stop there.        *)
CancelAccepted(t) ==
  /\ At(t, "cancel")
  /\ LET j == task[t].job IN
       /\ \E r \in {remote[j], "cancelled"} :
            /\ r = remote[j] \/ remote[j] = "open"
            /\ remote' = [remote EXCEPT ![j] = r]
       /\ Goto(t, DeleteTask(j, TRUE, TRUE))
  /\ UNCHANGED <<row, erased, pollQ, contQ, handled, faults>>

CancelRaises(t) ==
  /\ At(t, "cancel")
  /\ LET j == task[t].job IN Update(j, [row[j] EXCEPT !.status = "FAILED"])
  /\ Stop(t)
  /\ UNCHANGED <<remote, erased, pollQ, contQ, handled, faults>>

(* The admin's delete actions; cleanup_old_jobs(terminal_only=False) too.    *)
DeleteByHand(t, j) ==
  /\ At(t, "idle")
  /\ j \in ByHand
  /\ Exists(j)
  /\ Goto(t, DeleteTask(j, TRUE, FALSE))
  /\ UNCHANGED <<row, remote, erased, pollQ, contQ, handled, faults>>

(* Thirty days are longer than anything else here takes: what the job was    *)
(* waiting for has happened, no message and no thread is concerned with it.  *)
OldEnough(j) ==
  /\ row[j].status \in Terminal
  /\ ~ (row[j].status = "SUCCEEDED" /\ row[j].pending)
  /\ pollQ[j] = 0 /\ contQ[j] = 0
  /\ \A t \in Threads : task[t].job # j /\ j \notin task[t].todo

CleanupOld(t, j) ==
  /\ At(t, "idle")
  /\ OldEnough(j)
  /\ Goto(t, DeleteTask(j, TRUE, FALSE))
  /\ UNCHANGED <<row, remote, erased, pollQ, contQ, handled, faults>>

MutantDeletesLocally(t) ==
  /\ At(t, "delete")
  /\ IF Exists(task[t].job) THEN Move(t, "drop") ELSE Stop(t)
  /\ UNCHANGED <<row, remote, erased, pollQ, contQ, handled, faults>>

DeleteReads(t) ==
  /\ At(t, "delete")
  /\ LET j == task[t].job IN
       IF ~ Exists(j) THEN Stop(t)
       ELSE IF task[t].wipe /\ row[j].ext THEN Move(t, "erase")
       ELSE Move(t, "drop")
  /\ UNCHANGED <<row, remote, erased, pollQ, contQ, handled, faults>>

EraseAccepted(t) ==
  /\ At(t, "erase")
  /\ erased' = erased \cup {task[t].job}
  /\ Move(t, "drop")
  /\ UNCHANGED <<row, remote, pollQ, contQ, handled, faults>>

(* GraphQLMicrotechError: DELETE_FAILED, which cancel_job turns into FAILED. *)
EraseRefused(t) ==
  /\ At(t, "erase")
  /\ LET j == task[t].job IN
       Update(j, [row[j] EXCEPT !.status = IF task[t].cancels THEN "FAILED"
                                           ELSE "DELETE_FAILED"])
  /\ Stop(t)
  /\ UNCHANGED <<remote, erased, pollQ, contQ, handled, faults>>

(* Any other exception, a connection that breaks for one: the row is left as *)
(* it was, and the wrapper may or may not have removed its record.           *)
EraseBreaks(t) ==
  /\ At(t, "erase")
  /\ faults < MaxFaults
  /\ faults' = faults + 1
  /\ LET j == task[t].job IN
       /\ erased' \in {erased, erased \cup {j}}
       /\ Update(j, IF task[t].cancels THEN [row[j] EXCEPT !.status = "FAILED"]
                    ELSE row[j])
  /\ Stop(t)
  /\ UNCHANGED <<remote, pollQ, contQ, handled>>

Dropped(t) ==
  /\ At(t, "drop")
  /\ LET j == task[t].job IN Update(j, [row[j] EXCEPT !.status = "gone"])
  /\ Stop(t)
  /\ UNCHANGED <<remote, erased, pollQ, contQ, handled, faults>>

-----------------------------------------------------------------------------
(* The environment.                                                          *)

(* A worker dies, or the broker refuses what a beat tick wanted to enqueue;  *)
(* Celery has acknowledged the message already, so the work is lost.         *)
Crash(t) ==
  /\ ~ At(t, "idle")
  /\ faults < MaxFaults
  /\ faults' = faults + 1
  /\ Stop(t)
  /\ UNCHANGED <<row, remote, erased, pollQ, contQ, handled>>

(* next_poll_at passes.                                                      *)
Elapse(j) ==
  /\ Exists(j)
  /\ ~ row[j].due
  /\ row' = [row EXCEPT ![j].due = TRUE]
  /\ UNCHANGED <<remote, erased, pollQ, contQ, task, handled, faults>>

RemoteEnds(j) ==
  /\ remote[j] = "open"
  /\ j \notin erased
  /\ \E v \in Verdict : remote' = [remote EXCEPT ![j] = v]
  /\ UNCHANGED <<row, erased, pollQ, contQ, task, handled, faults>>

-----------------------------------------------------------------------------
(* What thread t does once it has started; it is never blocked for good.     *)
Continues(t) ==
  \/ SubmitAccepted(t) \/ SubmitRaises(t) \/ SubmitSaved(t)
  \/ AfterUpdate(t) \/ Dispatched(t) \/ DispatchFails(t)
  \/ \E j \in Jobs : EnqueuePoll(t, j) \/ EnqueueContinuation(t, j)
  \/ BeatClaimsContinuations(t) \/ BeatEnds(t)
  \/ Fetched(t) \/ FetchRaises(t) \/ PollApplied(t)
  \/ HandlerEntered(t) \/ HandlerReturns(t) \/ HandlerRaises(t)
  \/ CancelAccepted(t) \/ CancelRaises(t)
  \/ DeleteReads(t) \/ EraseAccepted(t) \/ EraseRefused(t) \/ Dropped(t)

Starts(t) ==
  \/ BeatClaimsPolls(t)
  \/ \E j \in Jobs :
       \/ Create(t, j) \/ PollStarts(t, j) \/ ContinuationStarts(t, j)
       \/ CancelRequested(t, j) \/ DeleteByHand(t, j) \/ CleanupOld(t, j)
       \/ \E says \in {"open"} \cup Verdict : Webhook(t, j, says)

Next ==
  \/ \E t \in Threads : Starts(t) \/ Continues(t) \/ EraseBreaks(t) \/ Crash(t)
  \/ \E j \in Jobs : Elapse(j) \/ RemoteEnds(j)

Spec == Init /\ [][Next]_vars

(* Workers finish what they start; the broker's queues are served in order,  *)
(* so no message and no beat tick waits for ever for a free thread; time     *)
(* passes.  The wrapper promises nothing, nor do webhooks.                   *)
Fairness ==
  /\ \A t \in Threads : WF_vars(Continues(t))
  /\ SF_vars(\E t \in Threads : BeatClaimsPolls(t))
  /\ \A j \in Jobs : /\ SF_vars(\E t \in Threads : PollStarts(t, j))
                     /\ SF_vars(\E t \in Threads : ContinuationStarts(t, j))
                     /\ WF_vars(Elapse(j))

FairSpec == Spec /\ Fairness

-----------------------------------------------------------------------------
(* Every variable keeps its type: rows, messages, the values threads hold.   *)
TypeOK ==
  /\ row \in [Jobs -> Row]
  /\ remote \in [Jobs -> Remote]
  /\ erased \in SUBSET Jobs
  /\ pollQ \in [Jobs -> Nat]
  /\ contQ \in [Jobs -> Nat]
  /\ task \in [Threads -> Task]
  /\ handled \in [Jobs -> 0 .. 2]
  /\ faults \in Nat

(* The work that depends on a job (advancing an order, writing prices) is    *)
(* only ever entered after the wrapper has really completed that job, in     *)
(* whatever order webhooks, polls, retries and cancellations arrive.         *)
ContinuationNeedsSuccess ==
  \A j \in Jobs : handled[j] > 0 => remote[j] = "done"

(* The wrapper's record of a finished job is removed before the local row    *)
(* is: deleting leaves no job behind in the wrapper that nobody knows of.    *)
(* Jobs that a person cancels or deletes are excepted: see the README.       *)
NoForgottenRemoteJob ==
  \A j \in Jobs \ ByHand :
    row[j].status = "gone" /\ row[j].ext => j \in erased

(* A job is not given up early: one marked FAILED although the wrapper still *)
(* works on it has used up all its attempts.                                 *)
GivenUpOnlyWhenExhausted ==
  \A j \in Jobs \ ByHand :
    row[j].status = "FAILED" /\ row[j].ext /\ remote[j] = "open"
      => row[j].attempt >= MaxAttempts

(* A terminal status is never left for an active one, and only errors        *)
(* replace it; a deleted row never comes back.  A late webhook, a stale poll *)
(* or a slow submit cannot reopen a job.                                     *)
StaysTerminal(j) ==
  /\ row[j].status \in Terminal =>
       row'[j].status \in {row[j].status, "FAILED", "DELETE_FAILED", "gone"}
  /\ row[j].status = "gone" => row'[j].status = "gone"

NoResurrection == [][\A j \in Jobs : StaysTerminal(j)]_vars

(* The sentinel keeps the promise stated in JobPromise: none of its          *)
(* interleavings of transactions, calls and messages shows anything else.    *)
PhaseOf(status) ==
  CASE status = "none" -> "new"
    [] status \in CanCancel \cup {"CANCEL_REQUESTED"} -> "open"
    [] status = "SUCCEEDED" -> "succeeded"
    [] status \in {"FAILED", "CANCELLED", "DELETE_FAILED"} -> "closed"
    [] status = "gone" -> "gone"

Promise == INSTANCE JobPromise WITH
  phase <- [j \in Jobs |-> PhaseOf(row[j].status)],
  verdict <- remote,
  runs <- handled

KeepsPromise == Promise!PromiseSpec

(* The claim in the table keeps a job from being dispatched twice, says the  *)
(* design (docs/superpowers/specs/2026-07-02-sentinel-orders-customers-      *)
(* design.md:173).  It does not: a beat tick may claim the job between the   *)
(* commit of SUCCEEDED and the dispatch, and the claim lapses after 120 s.   *)
DispatchedOnce == \A j \in Jobs : handled[j] <= 1

(* A job that was handed to the wrapper does not stay active for ever: a     *)
(* webhook, a poll or the exhausted attempts end it, or it is cancelled.     *)
TrackedJobSettles ==
  \A j \in Jobs :
    row[j].status \in LocalActive ~> row[j].status \notin LocalActive

(* The continuation of a successful job is not lost: not by a crash between  *)
(* the commit and the dispatch, not by a lost message or a broker outage.    *)
ContinuationConcludes ==
  \A j \in Jobs :
    row[j].status = "SUCCEEDED" /\ row[j].pending
      ~> row[j].status # "SUCCEEDED" \/ ~ row[j].pending
=============================================================================
