----------------------------- MODULE OrderProofs -----------------------------
(***************************************************************************)
(* What holds of OrderSyncWorkflow for any number of threads, workflows, jobs, *)
(* duplicates, acts and faults, of VorgangUpsert for any number of commands,   *)
(* BelegNr, jobs and changes in Microtech, and of OrderRules for any           *)
(* conditions, any number of saved pages and any list of actions.            *)
(***************************************************************************)
EXTENDS OrderSyncWorkflow, VorgangUpsert, OrderRules, FiniteSetTheorems,
  WellFoundedInduction, Integers, TLAPS

-----------------------------------------------------------------------------
(* The chain of jobs.  What is carried out remains so (Grows); so it is enough *)
(* that whatever is written down anywhere, in a row, in a thread's copy or in a *)
(* job, was carried out when it was written: the steps said to be completed,    *)
(* and the steps before the one that is under way.                           *)
RemoteSteps == Steps \ {"writeback_adrnr"}
Ready(w, S) == \A s \in S : CarriedOut(w, s)
AllDone(w) == \A s \in Steps : IsApplicable(s) => CarriedOut(w, s)

(* What may be said of a row of a workflow, of a thread's copy, and of a job.  *)
RowGood(w, r) ==
  /\ Ready(w, r.done)
  /\ r.step \in Steps => Ready(w, Before(r.step))
  /\ r.status = "succeeded" => AllDone(w)

HasJob == {"apply", "blame", "erase", "unlink", "drop"}
TaskGood(r) ==
  /\ r.pc # "idle" => r.wf \in Workflows
  /\ Ready(r.wf, r.done)
  /\ r.pc \in {"submit", "link"} => r.step \in RemoteSteps
  /\ r.pc = "writeback" => r.step = "writeback_adrnr"
  /\ r.pc \in {"submit", "link", "writeback"} => Ready(r.wf, Before(r.step))
  /\ r.pc = "finish" => Missing(r.done) = {}
  /\ r.pc = "apply" => remote[r.job] = "done" /\ job[r.job].wf = r.wf
  /\ r.pc \in HasJob => r.job \in Jobs
  /\ r.pc = "link" => r.new \in Jobs

JobGood(j) ==
  /\ job[j].status = "none" => remote[j] = "none"
  /\ job[j].status = "SUCCEEDED" => remote[j] = "done"
  /\ remote[j] # "none" => /\ job[j].wf \in Workflows /\ job[j].step \in RemoteSteps
                           /\ Ready(job[j].wf, Before(job[j].step))

ChainIInv ==
  /\ TypeOK
  /\ \A w \in Workflows : RowGood(w, wf[w])
  /\ \A t \in Threads : TaskGood(task[t])
  /\ \A j \in Jobs : JobGood(j)

(* What is carried out remains so.                                           *)
Grows ==
  /\ told \subseteq told'
  /\ \A j \in Jobs : remote[j] # "none" =>
       /\ job'[j].wf = job[j].wf /\ job'[j].step = job[j].step
       /\ remote[j] = "done" => remote'[j] = "done"

LEMMA StepFacts ==
  /\ \A i \in 1 .. 10 : StepOrder[i] \in Steps
  /\ DOMAIN StepOrder = 1 .. 10
  /\ Steps = {StepOrder[i] : i \in 1 .. 10}
  /\ NoStep \notin Steps /\ "writeback_adrnr" \in Steps
<1>1. DOMAIN StepOrder = 1 .. 10
  BY DEF StepOrder
<1>2. Steps = {StepOrder[i] : i \in 1 .. 10}
  BY <1>1 DEF Steps
<1>3. StepOrder[2] = "writeback_adrnr"
  BY DEF StepOrder
<1>4. \A i \in 1 .. 10 : StepOrder[i] # NoStep
  BY DEF StepOrder, NoStep
<1> QED
  BY <1>1, <1>2, <1>3, <1>4

LEMMA DifferentSteps == \A i, k \in 1 .. 10 : StepOrder[i] = StepOrder[k] => i = k
  BY DEF StepOrder

LEMMA BeforeSteps == \A s \in Steps : Before(s) \subseteq Steps
  BY StepFacts DEF Before

LEMMA LeastOf ==
  ASSUME NEW M \in SUBSET (1 .. 10), M # {}
  PROVE  \E i \in M : \A k \in M : i <= k
<1> DEFINE Least(n) == (\E m \in M : m <= n) => \E i \in M : \A k \in M : i <= k
<1>1. Least(0)
  OBVIOUS
<1>2. \A n \in 0 .. 9 : Least(n) => Least(n + 1)
  <2> SUFFICES ASSUME NEW n \in 0 .. 9, Least(n), NEW m \in M, m <= n + 1, \A l \in M : ~(l <= n)
               PROVE  \E i \in M : \A k \in M : i <= k
    OBVIOUS
  <2>1. \A k \in M : m <= k
    OBVIOUS
  <2> QED
    BY <2>1
<1>3. Least(10)
  <2> HIDE DEF Least
  <2>1. Least(1) /\ Least(2) /\ Least(3)
    BY <1>1, <1>2
  <2>2. Least(4) /\ Least(5) /\ Least(6)
    BY <2>1, <1>2
  <2>3. Least(7) /\ Least(8) /\ Least(9)
    BY <2>2, <1>2
  <2> QED
    BY <2>3, <1>2
<1>4. PICK m \in M : TRUE
  OBVIOUS
<1>5. m \in M /\ m <= 10
  BY <1>4
<1> QED
  BY <1>3, <1>5

(* A thread that goes on finds a step all of whose predecessors are done.    *)
LEMMA NextStepFacts ==
  ASSUME NEW done \in SUBSET Steps
  PROVE  /\ Missing(done) = {} => NextStep(done) = NoStep
         /\ Missing(done) # {} => NextStep(done) \in Steps /\ Before(NextStep(done)) \subseteq done
<1> DEFINE M == Missing(done)
<1>1. M \subseteq 1 .. 10
  BY StepFacts DEF Missing
<1>2. CASE M = {}
  BY <1>2 DEF NextStep
<1>3. CASE M # {}
  <2>1. \E i \in M : \A k \in M : i <= k
    BY <1>1, <1>3, LeastOf
  <2> DEFINE i == CHOOSE i \in M : \A k \in M : i <= k
  <2>2. i \in M /\ \A k \in M : i <= k
    <3> HIDE DEF M
    <3> QED BY <2>1
  <2>3. NextStep(done) = StepOrder[i]
    BY <1>3 DEF NextStep
  <2> HIDE DEF i
  <2>4. StepOrder[i] \in Steps
    BY <1>1, <2>2, StepFacts
  <2>5. Before(StepOrder[i]) \subseteq done
    <3> SUFFICES ASSUME NEW k \in 1 .. 10, IsApplicable(StepOrder[k]), NEW n \in 1 .. 10, StepOrder[n] = StepOrder[i], k < n
                 PROVE  StepOrder[k] \in done
      BY StepFacts DEF Before
    <3>1. n = i
      BY DifferentSteps, <1>1, <2>2
    <3>2. k \notin M
      BY <3>1, <2>2, <1>1
    <3> QED
      BY <3>2, StepFacts DEF Missing
  <2> QED
    BY <1>3, <2>3, <2>4, <2>5
<1> QED
  BY <1>2, <1>3

-----------------------------------------------------------------------------
LEMMA CarriedGrows ==
  ASSUME Grows, NEW w, NEW s, CarriedOut(w, s)
  PROVE  CarriedOut(w, s)'
<1>1. CASE s = "writeback_adrnr"
  BY <1>1 DEF Grows, CarriedOut
<1>2. CASE s # "writeback_adrnr"
  <2>1. PICK j \in Jobs : job[j].wf = w /\ job[j].step = s /\ remote[j] = "done"
    BY <1>2 DEF CarriedOut
  <2>2. job'[j].wf = w /\ job'[j].step = s /\ remote'[j] = "done"
    BY <2>1 DEF Grows
  <2> QED
    BY <1>2, <2>2 DEF CarriedOut
<1> QED
  BY <1>1, <1>2

LEMMA ReadyGrows ==
  ASSUME Grows, NEW w, NEW S, Ready(w, S)
  PROVE  Ready(w, S)'
  BY CarriedGrows DEF Ready

LEMMA RowGrows ==
  ASSUME Grows, NEW w, NEW r, RowGood(w, r)
  PROVE  RowGood(w, r)'
  BY CarriedGrows, ReadyGrows DEF RowGood, AllDone

LEMMA TaskGrows ==
  ASSUME Grows, NEW r, r.pc \in HasJob => r.job \in Jobs, TaskGood(r)
  PROVE  TaskGood(r)'
<1>1. Ready(r.wf, r.done)' /\ (r.pc \in {"submit", "link", "writeback"} => Ready(r.wf, Before(r.step))')
  BY ReadyGrows DEF TaskGood
<1>2. r.pc = "apply" => remote'[r.job] = "done" /\ job'[r.job].wf = r.wf
  BY DEF Grows, TaskGood, HasJob
<1> QED
  BY <1>1, <1>2 DEF TaskGood

(* The rows, the threads and the jobs after a step, judged by what was carried *)
(* out before it.                                                            *)
RowsKept == wf' \in [Workflows -> Workflow] /\ \A w \in Workflows : RowGood(w, wf'[w])
TasksKept == task' \in [Threads -> Task] /\ \A t \in Threads : TaskGood(task'[t])
JobsKept ==
  /\ job' \in [Jobs -> Job] /\ remote' \in [Jobs -> {"none", "open", "done", "failed"}]
  /\ \A j \in Jobs : JobGood(j)'
CountsKept ==
  /\ heard' \subseteq Jobs /\ told' \subseteq Workflows
  /\ dups' \in 0 .. MaxDups /\ acts' \in 0 .. MaxActs /\ faults' \in 0 .. MaxFaults

LEMMA AllKept ==
  ASSUME ChainIInv, Grows, RowsKept, TasksKept, JobsKept, CountsKept
  PROVE  ChainIInv'
<1>1. TypeOK'
  BY DEF RowsKept, TasksKept, JobsKept, CountsKept, TypeOK
<1>2. (\A w \in Workflows : RowGood(w, wf[w]))'
  BY RowGrows DEF RowsKept
<1>3. (\A t \in Threads : TaskGood(task[t]))'
  BY TaskGrows DEF TasksKept, TaskGood
<1>4. (\A j \in Jobs : JobGood(j))'
  BY DEF JobsKept
<1> QED
  BY <1>1, <1>2, <1>3, <1>4 DEF ChainIInv

LEMMA SameRows ==
  ASSUME ChainIInv, wf' = wf
  PROVE  RowsKept
  BY DEF ChainIInv, TypeOK, RowsKept

LEMMA OneRow ==
  ASSUME ChainIInv, NEW w \in Workflows, NEW r \in Workflow, RowGood(w, r), wf' = [wf EXCEPT ![w] = r]
  PROVE  RowsKept
  BY DEF ChainIInv, TypeOK, RowsKept

LEMMA SameTasks ==
  ASSUME ChainIInv, task' = task
  PROVE  TasksKept
  BY DEF ChainIInv, TypeOK, TasksKept

LEMMA OneTask ==
  ASSUME ChainIInv, NEW t \in Threads, NEW r \in Task, TaskGood(r), Goto(t, r)
  PROVE  TasksKept
  BY DEF ChainIInv, TypeOK, TasksKept, Goto

LEMMA IdleGood == Idle \in Task /\ TaskGood(Idle)
  BY DEF Idle, Task, Places, NoJob, TaskGood, Ready, HasJob

LEMMA StopGood ==
  ASSUME ChainIInv, NEW t \in Threads, Stop(t)
  PROVE  TasksKept
  BY IdleGood, OneTask DEF Stop

LEMMA TaskFacts ==
  ASSUME ChainIInv, NEW t \in Threads
  PROVE  task[t] \in Task /\ TaskGood(task[t])
  BY DEF ChainIInv, TypeOK

LEMMA MoveGood ==
  ASSUME ChainIInv, NEW t \in Threads, NEW p \in {"erase", "blame", "unlink", "drop"},
         ~At(t, "idle"), task[t].job \in Jobs, Move(t, p)
  PROVE  TasksKept
<1> DEFINE r == [task[t] EXCEPT !.pc = p]
<1>1. /\ r \in Task /\ r.pc = p /\ r.wf = task[t].wf /\ r.job = task[t].job
      /\ r.done = task[t].done
  BY TaskFacts DEF Task, Places
<1>2. Goto(t, r)
  BY DEF Move
<1> HIDE DEF r
<1>3. TaskGood(r)
  BY <1>1, TaskFacts DEF TaskGood, HasJob, At
<1> QED
  BY <1>1, <1>2, <1>3, OneTask

LEMMA ReturnGood ==
  ASSUME ChainIInv, NEW t \in Threads, ~At(t, "idle"), Returns(t) \/ Raises(t)
  PROVE  TasksKept
<1>1. CASE task[t].job = NoJob
  <2>1. Stop(t)
    BY <1>1 DEF Returns, Raises
  <2> QED
    BY <2>1, StopGood
<1>2. CASE task[t].job # NoJob
  <2>1. task[t].job \in Jobs
    BY <1>2, TaskFacts DEF Task
  <2>2. Move(t, "erase") \/ Move(t, "blame")
    BY <1>2 DEF Returns, Raises
  <2> QED
    BY <2>1, <2>2, MoveGood
<1> QED
  BY <1>1, <1>2

(* Where a thread goes that goes on with its copy.                           *)
GoesOn(r, w, j, done) ==
  /\ r.wf = w /\ r.done = done /\ r.job = j
  /\ \/ r.pc = "finish" /\ Missing(done) = {}
     \/ r.pc = "writeback" /\ r.step = "writeback_adrnr" /\ Before(r.step) \subseteq done
     \/ r.pc = "submit" /\ r.step \in RemoteSteps /\ Before(r.step) \subseteq done

LEMMA ProceedGoesOn ==
  ASSUME NEW t \in Threads, NEW q \in Task, NEW done \in SUBSET Steps, Proceed(t, q, done)
  PROVE  \E r \in Task : Goto(t, r) /\ GoesOn(r, q.wf, q.job, done)
<1> DEFINE s == NextStep(done)
           p == CASE s = NoStep -> "finish" [] s = "writeback_adrnr" -> "writeback" [] OTHER -> "submit"
           r == [q EXCEPT !.done = done, !.step = s, !.pc = p]
<1>1. Goto(t, r)
  BY DEF Proceed
<1>2. s \in Steps \cup {NoStep}
  BY NextStepFacts
<1>3. p \in Places
  BY DEF Places
<1> HIDE DEF p
<1>4. r \in Task /\ r.wf = q.wf /\ r.job = q.job /\ r.done = done /\ r.step = s /\ r.pc = p
  BY <1>2, <1>3 DEF Task
<1>7. p = IF s = NoStep THEN "finish" ELSE IF s = "writeback_adrnr" THEN "writeback" ELSE "submit"
  BY Zenon DEF p, NoStep
<1>5. CASE Missing(done) = {}
  <2>0. s = NoStep
    BY <1>5, NextStepFacts
  <2>1. p = "finish"
    BY <1>7, <2>0
  <2> QED
    BY <1>1, <1>4, <1>5, <2>1 DEF GoesOn
<1>6. CASE Missing(done) # {}
  <2>1. s \in Steps /\ Before(s) \subseteq done
    BY <1>6, NextStepFacts
  <2>2. s # NoStep
    BY <2>1, StepFacts
  <2> HIDE DEF s
  <2>3. \/ s = "writeback_adrnr" /\ p = "writeback"
        \/ s \in RemoteSteps /\ p = "submit"
    BY <1>7, <2>1, <2>2 DEF RemoteSteps
  <2> QED
    BY <1>1, <1>4, <2>1, <2>3 DEF GoesOn
<1> QED
  BY <1>5, <1>6

LEMMA GoesOnGood ==
  ASSUME NEW r, NEW w \in Workflows, NEW j, NEW done, GoesOn(r, w, j, done), Ready(w, done)
  PROVE  TaskGood(r)
  BY DEF GoesOn, TaskGood, HasJob, Ready

LEMMA ProceedGood ==
  ASSUME ChainIInv, NEW t \in Threads, NEW q \in Task, NEW done \in SUBSET Steps, Proceed(t, q, done),
         q.wf \in Workflows, Ready(q.wf, done)
  PROVE  TasksKept
<1>1. PICK r \in Task : Goto(t, r) /\ GoesOn(r, q.wf, q.job, done)
  BY ProceedGoesOn
<1>2. TaskGood(r)
  BY <1>1, GoesOnGood
<1> QED
  BY <1>1, <1>2, OneTask

LEMMA StepFailsGood ==
  ASSUME ChainIInv, NEW t \in Threads, At(t, "submit") \/ At(t, "link") \/ At(t, "writeback"), StepFails(t)
  PROVE  RowsKept /\ TasksKept
<1> DEFINE w == task[t].wf
           r == [wf[w] EXCEPT !.status = "failed", !.step = task[t].step, !.done = task[t].done]
<1>1. w \in Workflows /\ wf[w] \in Workflow
  BY TaskFacts DEF At, TaskGood, ChainIInv, TypeOK
<1>2. r \in Workflow /\ r.status = "failed" /\ r.step = task[t].step /\ r.done = task[t].done
  BY <1>1, TaskFacts DEF Task, Workflow, WfStatus, Kept, Active
<1>3. wf' = wf \/ wf' = [wf EXCEPT ![w] = r]
  BY DEF StepFails
<1> HIDE DEF r
<1>4. RowGood(w, r)
  BY <1>2, TaskFacts DEF RowGood, TaskGood, At
<1>5. RowsKept
  BY <1>1, <1>2, <1>3, <1>4, OneRow, SameRows
<1>6. TasksKept
  BY ReturnGood DEF StepFails, At
<1> QED
  BY <1>5, <1>6

LEMMA SameJobs ==
  ASSUME ChainIInv, UNCHANGED <<job, remote, told>>
  PROVE  Grows /\ JobsKept
<1>1. Grows
  BY DEF Grows
<1>2. \A j \in Jobs : JobGood(j)'
  BY <1>1, ReadyGrows DEF ChainIInv, JobGood
<1> QED
  BY <1>1, <1>2 DEF JobsKept, ChainIInv, TypeOK

LEMMA JobMarked ==
  ASSUME ChainIInv, NEW j \in Jobs, NEW s \in JobStatus \ {"none"}, s = "SUCCEEDED" => remote[j] = "done",
         job' = [job EXCEPT ![j].status = s], UNCHANGED <<remote, told>>
  PROVE  Grows /\ JobsKept
<1>1. /\ job' \in [Jobs -> Job]
      /\ \A i \in Jobs : job'[i].wf = job[i].wf /\ job'[i].step = job[i].step
      /\ \A i \in Jobs \ {j} : job'[i].status = job[i].status
      /\ job'[j].status = s
  BY DEF ChainIInv, TypeOK, Job
<1>2. Grows
  BY <1>1 DEF Grows
<1>3. \A i \in Jobs : JobGood(i)'
  BY <1>1, <1>2, ReadyGrows DEF ChainIInv, JobGood
<1> QED
  BY <1>1, <1>2, <1>3 DEF JobsKept, ChainIInv, TypeOK

-----------------------------------------------------------------------------
LEMMA SameCounts ==
  ASSUME ChainIInv, UNCHANGED <<heard, told, dups, acts>>, faults' = faults \/ Fault
  PROVE  CountsKept
  BY BoundAssumption DEF ChainIInv, TypeOK, CountsKept, Fault

LEMMA StartKeepsChain ==
  ASSUME ChainIInv, NEW t \in Threads, NEW w \in Workflows, StartForOrder(t, w)
  PROVE  ChainIInv'
<1> USE DEF StartForOrder
<1> DEFINE r == [wf[w] EXCEPT !.status = "running"]
           q == [Idle EXCEPT !.wf = w]
<1>1. wf[w] \in Workflow /\ RowGood(w, wf[w])
  BY DEF ChainIInv, TypeOK
<1>2. r \in Workflow /\ r.done = wf[w].done /\ r.step = wf[w].step /\ r.status = "running"
  BY <1>1 DEF Workflow, WfStatus, Kept, Active
<1>3. wf' = [wf EXCEPT ![w] = r]
  OBVIOUS
<1> HIDE DEF r
<1>4. RowsKept
  BY <1>1, <1>2, <1>3, OneRow DEF RowGood
<1>5. q \in Task /\ q.wf = w
  BY IdleGood DEF Task, Idle
<1>6. Proceed(t, q, {}) /\ Ready(q.wf, {})
  BY DEF Ready
<1> HIDE DEF q
<1>7. TasksKept
  BY <1>5, <1>6, ProceedGood
<1> QED
  BY <1>4, <1>7, SameJobs, SameCounts, AllKept

LEMMA FinishKeeps ==
  ASSUME ChainIInv, NEW t \in Threads, Finish(t)
  PROVE  ChainIInv'
<1> USE DEF Finish
<1> DEFINE w == task[t].wf
           r == [wf[w] EXCEPT !.status = "succeeded", !.step = NoStep, !.job = NoJob]
<1>1. w \in Workflows /\ wf[w] \in Workflow /\ RowGood(w, wf[w])
  BY TaskFacts DEF At, TaskGood, ChainIInv, TypeOK
<1>2. r \in Workflow /\ r.done = wf[w].done /\ r.step = NoStep
  BY <1>1 DEF Workflow, WfStatus, Kept, NoJob
<1>3. wf' = [wf EXCEPT ![w] = r] \/ wf' = wf
  OBVIOUS
<1> HIDE DEF r
<1>4. AllDone(w)
  <2>1. Missing(task[t].done) = {} /\ Ready(w, task[t].done)
    BY TaskFacts DEF At, TaskGood
  <2>2. \A s \in Steps : IsApplicable(s) => s \in task[t].done
    BY <2>1, StepFacts DEF Missing
  <2> QED
    BY <2>1, <2>2 DEF AllDone, Ready
<1>5. RowsKept
  BY <1>1, <1>2, <1>3, <1>4, OneRow, SameRows, StepFacts DEF RowGood
<1>6. TasksKept
  BY ReturnGood DEF At
<1> QED
  BY <1>5, <1>6, SameJobs, SameCounts, AllKept

LEMMA WritebackFailsKeeps ==
  ASSUME ChainIInv, NEW t \in Threads, WritebackFails(t)
  PROVE  ChainIInv'
  BY StepFailsGood, SameJobs, SameCounts, AllKept DEF WritebackFails

(* A new job is for a step whose predecessors are carried out.               *)
LEMMA JobAdded ==
  ASSUME ChainIInv, NEW j \in Jobs, Fresh(j), NEW w \in Workflows, NEW s \in RemoteSteps, Ready(w, Before(s)),
         NEW st \in {"open", "FAILED"}, NEW re \in {"none", "open"},
         job' = [job EXCEPT ![j] = [status |-> st, wf |-> w, step |-> s]],
         remote' = [remote EXCEPT ![j] = re], told' = told
  PROVE  Grows /\ JobsKept
<1> DEFINE r == [status |-> st, wf |-> w, step |-> s]
<1>1. r \in Job /\ r.status = st /\ r.wf = w /\ r.step = s
  BY DEF Job, RemoteSteps, JobStatus, Broken
<1>2. job' = [job EXCEPT ![j] = r]
  OBVIOUS
<1> HIDE DEF r
<1>3. /\ job' \in [Jobs -> Job] /\ remote' \in [Jobs -> {"none", "open", "done", "failed"}]
      /\ \A i \in Jobs \ {j} : job'[i] = job[i] /\ remote'[i] = remote[i]
      /\ job'[j] = r /\ remote'[j] = re /\ remote[j] = "none"
  BY <1>1, <1>2 DEF ChainIInv, TypeOK, Fresh, JobGood
<1>4. Grows
  BY <1>3 DEF Grows
<1>5. \A i \in Jobs \ {j} : JobGood(i)'
  BY <1>3, <1>4, ReadyGrows DEF ChainIInv, JobGood
<1>6. JobGood(j)'
  BY <1>1, <1>3, <1>4, ReadyGrows DEF JobGood
<1> QED
  BY <1>3, <1>4, <1>5, <1>6 DEF JobsKept

LEMMA SubmitKeepsChain ==
  ASSUME ChainIInv, NEW t \in Threads, NEW j \in Jobs, Submit(t, j)
  PROVE  ChainIInv'
<1> USE DEF Submit
<1> DEFINE r == [task[t] EXCEPT !.pc = "link", !.new = j]
<1>1. /\ task[t] \in Task /\ TaskGood(task[t]) /\ task[t].pc = "submit"
      /\ task[t].wf \in Workflows /\ task[t].step \in RemoteSteps /\ Ready(task[t].wf, Before(task[t].step))
  BY TaskFacts DEF At, TaskGood
<1>2. Grows /\ JobsKept
  BY <1>1, JobAdded
<1>3. /\ r \in Task /\ r.pc = "link" /\ r.new = j /\ r.wf = task[t].wf /\ r.done = task[t].done
      /\ r.step = task[t].step /\ r.job = task[t].job
  BY <1>1 DEF Task, Places
<1>4. Goto(t, r)
  OBVIOUS
<1> HIDE DEF r
<1>5. TaskGood(r)
  BY <1>1, <1>3 DEF TaskGood, HasJob
<1>6. TasksKept
  BY <1>3, <1>4, <1>5, OneTask
<1> QED
  BY <1>2, <1>6, SameRows, SameCounts, AllKept

LEMMA SubmitFailsKeeps ==
  ASSUME ChainIInv, NEW t \in Threads, NEW j \in Jobs, SubmitFails(t, j)
  PROVE  ChainIInv'
<1> USE DEF SubmitFails
<1>1. task[t].wf \in Workflows /\ task[t].step \in RemoteSteps /\ Ready(task[t].wf, Before(task[t].step))
  BY TaskFacts DEF At, TaskGood
<1>2. Grows /\ JobsKept
  BY <1>1, JobAdded
<1> QED
  BY <1>2, StepFailsGood, SameCounts, AllKept

LEMMA LinkKeeps ==
  ASSUME ChainIInv, NEW t \in Threads, Link(t)
  PROVE  ChainIInv'
<1> USE DEF Link
<1> DEFINE w == task[t].wf
           r == [wf[w] EXCEPT !.status = "waiting", !.step = task[t].step, !.job = task[t].new]
<1>1. CASE StepFails(t)
  BY <1>1, StepFailsGood, SameJobs, SameCounts, AllKept
<1>2. CASE Returns(t) /\ wf' = [wf EXCEPT ![w].status = "waiting", ![w].step = task[t].step, ![w].job = task[t].new]
  <2>1. w \in Workflows /\ wf[w] \in Workflow /\ RowGood(w, wf[w])
    BY TaskFacts DEF At, TaskGood, ChainIInv, TypeOK
  <2>2. r \in Workflow /\ r.done = wf[w].done /\ r.step = task[t].step /\ r.status = "waiting"
    BY <2>1, TaskFacts DEF Workflow, WfStatus, Kept, Active, Task
  <2>3. wf' = [wf EXCEPT ![w] = r]
    BY <1>2, <2>1 DEF ChainIInv, TypeOK
  <2> HIDE DEF r
  <2>4. RowGood(w, r)
    BY <2>1, <2>2, TaskFacts DEF RowGood, TaskGood, At
  <2>5. RowsKept
    BY <2>1, <2>2, <2>3, <2>4, OneRow
  <2>6. TasksKept
    BY <1>2, ReturnGood DEF At
  <2> QED
    BY <2>5, <2>6, SameJobs, SameCounts, AllKept
<1> QED
  BY <1>1, <1>2

LEMMA ContinuationStartsKeeps ==
  ASSUME ChainIInv, NEW t \in Threads, NEW j \in Jobs, ContinuationStarts(t, j)
  PROVE  ChainIInv'
<1> USE DEF ContinuationStarts
<1> DEFINE r == [Idle EXCEPT !.pc = "apply", !.job = j, !.wf = job[j].wf]
<1>1. remote[j] = "done" /\ job[j].wf \in Workflows
  BY DEF ChainIInv, JobGood
<1>2. r \in Task /\ r.pc = "apply" /\ r.job = j /\ r.wf = job[j].wf /\ r.done = {}
  BY <1>1, IdleGood DEF Task, Places, Idle
<1>3. Goto(t, r)
  OBVIOUS
<1> HIDE DEF r
<1>4. TaskGood(r)
  BY <1>1, <1>2 DEF TaskGood, HasJob, Ready
<1>5. TasksKept
  BY <1>2, <1>3, <1>4, OneTask
<1>6. CountsKept
  BY BoundAssumption DEF ChainIInv, TypeOK, CountsKept
<1> QED
  BY <1>5, <1>6, SameRows, SameJobs, AllKept

LEMMA ApplyIgnoresKeeps ==
  ASSUME ChainIInv, NEW t \in Threads, ApplyIgnores(t)
  PROVE  ChainIInv'
  BY ReturnGood, SameRows, SameJobs, SameCounts, AllKept DEF ApplyIgnores, At

(* What an applied result says is carried out.                               *)
LEMMA ApplyFacts ==
  ASSUME ChainIInv, NEW t \in Threads, At(t, "apply"), ~Late(t)
  PROVE  /\ task[t].wf \in Workflows /\ task[t].job \in Jobs
         /\ job[task[t].job].step \in Steps /\ CarriedOut(task[t].wf, job[task[t].job].step)
         /\ Ready(task[t].wf, Before(job[task[t].job].step))
<1>1. task[t].wf \in Workflows /\ task[t].job \in Jobs /\ remote[task[t].job] = "done"
      /\ job[task[t].job].wf = task[t].wf
  BY TaskFacts DEF At, TaskGood, HasJob
<1>2. job[task[t].job].step \in RemoteSteps /\ Ready(job[task[t].job].wf, Before(job[task[t].job].step))
  BY <1>1 DEF ChainIInv, JobGood
<1> QED
  BY <1>1, <1>2 DEF RemoteSteps, CarriedOut

LEMMA ApplyKeeps ==
  ASSUME ChainIInv, NEW t \in Threads, Apply(t)
  PROVE  ChainIInv'
<1> USE DEF Apply
<1> DEFINE w == task[t].wf
           done == wf[w].done \cup {job[task[t].job].step}
           r == [wf[w] EXCEPT !.done = done]
<1>1. w \in Workflows /\ wf[w] \in Workflow /\ RowGood(w, wf[w])
  BY ApplyFacts DEF ChainIInv, TypeOK
<1>2. done \in SUBSET Steps /\ Ready(w, done)
  BY <1>1, ApplyFacts DEF Workflow, RowGood, Ready
<1>3. Proceed(t, task[t], done) /\ wf' = [wf EXCEPT ![w] = r]
  OBVIOUS
<1> HIDE DEF done
<1>4. r \in Workflow /\ r.done = done /\ r.step = wf[w].step /\ r.status = wf[w].status
  BY <1>1, <1>2 DEF Workflow
<1> HIDE DEF r
<1>5. RowsKept
  BY <1>1, <1>2, <1>3, <1>4, OneRow DEF RowGood
<1>6. TasksKept
  BY <1>1, <1>2, <1>3, TaskFacts, ProceedGood
<1> QED
  BY <1>5, <1>6, SameJobs, SameCounts, AllKept

LEMMA ApplyFailsKeeps ==
  ASSUME ChainIInv, NEW t \in Threads, ApplyFails(t)
  PROVE  ChainIInv'
<1> USE DEF ApplyFails
<1> DEFINE w == task[t].wf
           s == job[task[t].job].step
           r == [wf[w] EXCEPT !.status = "failed", !.step = s]
<1>1. w \in Workflows /\ wf[w] \in Workflow /\ RowGood(w, wf[w]) /\ s \in Steps /\ Ready(w, Before(s))
  BY ApplyFacts DEF ChainIInv, TypeOK
<1>2. wf' = wf \/ wf' = [wf EXCEPT ![w] = r]
  OBVIOUS
<1> HIDE DEF s
<1>3. r \in Workflow /\ r.done = wf[w].done /\ r.step = s /\ r.status = "failed"
  BY <1>1 DEF Workflow, WfStatus, Kept, Active
<1> HIDE DEF r
<1>4. RowsKept
  BY <1>1, <1>2, <1>3, OneRow, SameRows DEF RowGood
<1>5. TasksKept
  BY ReturnGood DEF At
<1> QED
  BY <1>4, <1>5, SameJobs, SameCounts, AllKept

LEMMA BlameKeeps ==
  ASSUME ChainIInv, NEW t \in Threads, Blame(t)
  PROVE  ChainIInv'
<1>1. task[t].job \in Jobs
  BY TaskFacts DEF Blame, At, TaskGood, HasJob
<1>2. Grows /\ JobsKept
  BY <1>1, JobMarked, SameJobs DEF Blame, JobStatus, Broken
<1> QED
  BY <1>2, StopGood, SameRows, SameCounts, AllKept DEF Blame

LEMMA EraseKeeps ==
  ASSUME ChainIInv, NEW t \in Threads, Erase(t)
  PROVE  ChainIInv'
<1>1. task[t].job \in Jobs /\ ~At(t, "idle")
  BY TaskFacts DEF Erase, At, TaskGood, HasJob
<1>2. TasksKept
  BY <1>1, MoveGood, StopGood DEF Erase
<1> QED
  BY <1>2, SameRows, SameJobs, SameCounts, AllKept DEF Erase

LEMMA EraseFailsKeeps ==
  ASSUME ChainIInv, NEW t \in Threads, EraseFails(t)
  PROVE  ChainIInv'
<1>1. task[t].job \in Jobs
  BY TaskFacts DEF EraseFails, At, TaskGood, HasJob
<1>2. Grows /\ JobsKept
  <2>1. CASE job' = [job EXCEPT ![task[t].job].status = "DELETE_FAILED"] /\ UNCHANGED <<remote, told>>
    <3>1. "DELETE_FAILED" \in JobStatus \ {"none"}
      BY DEF JobStatus, Broken
    <3> QED
      BY <1>1, <2>1, <3>1, JobMarked
  <2>2. CASE UNCHANGED <<job, remote, told>>
    BY <2>2, SameJobs
  <2> QED
    BY <2>1, <2>2 DEF EraseFails
<1>3. CountsKept
  BY BoundAssumption DEF EraseFails, ChainIInv, TypeOK, CountsKept, Fault
<1> QED
  BY <1>2, <1>3, StopGood, SameRows, AllKept DEF EraseFails

LEMMA UnlinkKeeps ==
  ASSUME ChainIInv, NEW t \in Threads, Unlink(t)
  PROVE  ChainIInv'
<1>1. task[t].job \in Jobs /\ ~At(t, "idle")
  BY TaskFacts DEF Unlink, At, TaskGood, HasJob
<1>2. TasksKept
  BY <1>1, MoveGood DEF Unlink
<1>3. ASSUME NEW w \in Workflows
      PROVE  wf'[w] \in Workflow /\ RowGood(w, wf'[w])
  <2> DEFINE r == [wf[w] EXCEPT !.status = "deleted", !.job = NoJob]
  <2>1. wf[w] \in Workflow /\ RowGood(w, wf[w])
    BY DEF ChainIInv, TypeOK
  <2>2. r \in Workflow /\ r.done = wf[w].done /\ r.step = wf[w].step /\ r.status = "deleted"
    BY <2>1 DEF Workflow, WfStatus, NoJob
  <2>3. wf'[w] = r \/ wf'[w] = wf[w]
    BY DEF Unlink
  <2> HIDE DEF r
  <2> QED
    BY <2>1, <2>2, <2>3 DEF RowGood
<1>4. RowsKept
  BY <1>3 DEF RowsKept, Unlink
<1> QED
  BY <1>2, <1>4, SameJobs, SameCounts, AllKept DEF Unlink

LEMMA DropKeeps ==
  ASSUME ChainIInv, NEW t \in Threads, Drop(t)
  PROVE  ChainIInv'
<1>1. task[t].job \in Jobs
  BY TaskFacts DEF Drop, At, TaskGood, HasJob
<1>2. Grows /\ JobsKept
  <2>1. job' = [job EXCEPT ![task[t].job].status = "gone"] /\ UNCHANGED <<remote, told>>
    BY DEF Drop
  <2>2. "gone" \in JobStatus \ {"none"}
    BY DEF JobStatus, Broken
  <2> QED
    BY <1>1, <2>1, <2>2, JobMarked
<1>3. ASSUME NEW w \in Workflows
      PROVE  wf'[w] \in Workflow /\ RowGood(w, wf'[w])
  <2> DEFINE r == [wf[w] EXCEPT !.job = NoJob]
  <2>1. wf[w] \in Workflow /\ RowGood(w, wf[w])
    BY DEF ChainIInv, TypeOK
  <2>2. r \in Workflow /\ r.done = wf[w].done /\ r.step = wf[w].step /\ r.status = wf[w].status
    BY <2>1 DEF Workflow, NoJob
  <2>3. wf'[w] = r \/ wf'[w] = wf[w]
    BY DEF Drop
  <2> HIDE DEF r
  <2> QED
    BY <2>1, <2>2, <2>3 DEF RowGood
<1>4. RowsKept
  BY <1>3 DEF RowsKept, Drop
<1> QED
  BY <1>2, <1>4, StopGood, SameCounts, AllKept DEF Drop

LEMMA ReconcileReadsKeeps ==
  ASSUME ChainIInv, NEW t \in Threads, NEW w \in Workflows, ReconcileReads(t, w)
  PROVE  ChainIInv'
<1> DEFINE r == [Idle EXCEPT !.pc = "reconcile", !.wf = w]
<1>1. r \in Task /\ r.pc = "reconcile" /\ r.wf = w /\ r.done = {}
  BY IdleGood DEF Task, Places, Idle
<1>2. Goto(t, r)
  BY DEF ReconcileReads
<1> HIDE DEF r
<1>3. TasksKept
  BY <1>1, <1>2, OneTask DEF TaskGood, HasJob, Ready
<1> QED
  BY <1>3, SameRows, SameJobs, SameCounts, AllKept DEF ReconcileReads

LEMMA ReconcileWritesKeeps ==
  ASSUME ChainIInv, NEW t \in Threads, ReconcileWrites(t)
  PROVE  ChainIInv'
<1> DEFINE w == task[t].wf
           r == [wf[w] EXCEPT !.status = "failed"]
<1>1. w \in Workflows /\ wf[w] \in Workflow /\ RowGood(w, wf[w])
  BY TaskFacts DEF ReconcileWrites, At, TaskGood, ChainIInv, TypeOK
<1>2. r \in Workflow /\ r.done = wf[w].done /\ r.step = wf[w].step /\ r.status = "failed"
  BY <1>1 DEF Workflow, WfStatus, Kept, Active
<1>3. wf' = [wf EXCEPT ![w] = r] \/ wf' = wf
  BY DEF ReconcileWrites
<1> HIDE DEF r
<1>4. RowsKept
  BY <1>1, <1>2, <1>3, OneRow, SameRows DEF RowGood
<1> QED
  BY <1>4, StopGood, SameJobs, SameCounts, AllKept DEF ReconcileWrites

LEMMA AbortReadsKeeps ==
  ASSUME ChainIInv, NEW t \in Threads, NEW w \in Workflows, AbortReads(t, w)
  PROVE  ChainIInv'
<1> USE DEF AbortReads
<1>1. PICK k \in Jobs \cup {NoJob} : Goto(t, [Idle EXCEPT !.pc = "abort", !.wf = w, !.new = k])
  <2>1. wf[w].job \in Jobs \cup {NoJob}
    BY DEF ChainIInv, TypeOK, Workflow
  <2> QED
    BY <2>1
<1> DEFINE r == [Idle EXCEPT !.pc = "abort", !.wf = w, !.new = k]
<1>2. r \in Task /\ r.pc = "abort" /\ r.wf = w /\ r.done = {}
  BY IdleGood DEF Task, Places, Idle
<1>3. Goto(t, r)
  BY <1>1
<1> HIDE DEF r
<1>4. TasksKept
  BY <1>2, <1>3, OneTask DEF TaskGood, HasJob, Ready
<1>5. CountsKept
  BY BoundAssumption DEF ChainIInv, TypeOK, CountsKept, Act
<1> QED
  BY <1>4, <1>5, SameRows, SameJobs, AllKept

LEMMA AbortWritesKeeps ==
  ASSUME ChainIInv, NEW t \in Threads, AbortWrites(t)
  PROVE  ChainIInv'
<1> USE DEF AbortWrites
<1> DEFINE w == task[t].wf
           j == task[t].new
           r == [wf[w] EXCEPT !.status = "cancelled", !.job = NoJob]
<1>1. w \in Workflows /\ wf[w] \in Workflow /\ RowGood(w, wf[w]) /\ j \in Jobs \cup {NoJob}
  BY TaskFacts DEF At, TaskGood, ChainIInv, TypeOK, Task
<1>2. wf' = wf \/ wf' = [wf EXCEPT ![w].status = "cancelled", ![w].job = NoJob]
  OBVIOUS
<1>3. wf' = wf \/ wf' = [wf EXCEPT ![w] = r]
  BY <1>1, <1>2 DEF ChainIInv, TypeOK
<1>4. r \in Workflow /\ r.done = wf[w].done /\ r.step = wf[w].step /\ r.status = "cancelled"
  BY <1>1 DEF Workflow, WfStatus, Kept, Active, NoJob
<1> HIDE DEF r
<1>5. RowsKept
  BY <1>1, <1>3, <1>4, OneRow, SameRows DEF RowGood
<1>6. Grows /\ JobsKept
  <2>1. CASE UNCHANGED <<job, remote, told>>
    BY <2>1, SameJobs
  <2>2. CASE j # NoJob /\ job' = [job EXCEPT ![j].status = "CANCELLED"] /\ UNCHANGED <<remote, told>>
    <3>1. "CANCELLED" \in JobStatus \ {"none"}
      BY DEF JobStatus, Broken
    <3> QED
      BY <1>1, <2>2, <3>1, JobMarked
  <2> QED
    BY <2>1, <2>2
<1> QED
  BY <1>5, <1>6, StopGood, SameCounts, AllKept

LEMMA ResumeKeeps ==
  ASSUME ChainIInv, NEW t \in Threads, NEW w \in Workflows, Resume(t, w)
  PROVE  ChainIInv'
<1> USE DEF Resume
<1> DEFINE q == [Idle EXCEPT !.wf = w, !.done = wf[w].done]
           s == wf[w].step
           r == [q EXCEPT !.pc = "submit", !.step = s, !.marks = FALSE]
<1>1. wf[w] \in Workflow /\ RowGood(w, wf[w])
  BY DEF ChainIInv, TypeOK
<1>2. wf[w].done \in SUBSET Steps /\ s \in Steps \cup {NoStep} /\ Ready(w, wf[w].done)
      /\ (s \in Steps => Ready(w, Before(s)))
  BY <1>1 DEF Workflow, RowGood
<1>3. q \in Task /\ q.wf = w /\ q.done = wf[w].done
  BY <1>2, IdleGood DEF Task, Idle
<1>4. TasksKept
  <2>1. CASE Proceed(t, q, wf[w].done)
    <3> HIDE DEF q
    <3> QED
      BY <1>2, <1>3, <2>1, ProceedGood
  <2>2. CASE s \notin wf[w].done \cup {NoStep, "writeback_adrnr"} /\ Goto(t, r)
    <3>1. s \in RemoteSteps
      BY <1>2, <2>2 DEF RemoteSteps
    <3> HIDE DEF q, s
    <3>2. r \in Task /\ r.pc = "submit" /\ r.wf = w /\ r.done = wf[w].done /\ r.step = s
      BY <1>2, <1>3 DEF Task, Places
    <3> HIDE DEF r
    <3>3. TaskGood(r)
      BY <1>2, <3>1, <3>2 DEF TaskGood, HasJob, RemoteSteps
    <3> QED
      BY <2>2, <3>2, <3>3, OneTask
  <2> QED
    BY <2>1, <2>2
<1>5. CountsKept
  BY BoundAssumption DEF ChainIInv, TypeOK, CountsKept, Act
<1> QED
  BY <1>4, <1>5, SameRows, SameJobs, AllKept

LEMMA RemoteEndsKeeps ==
  ASSUME ChainIInv, NEW j \in Jobs, RemoteEnds(j)
  PROVE  ChainIInv'
<1>1. PICK v \in {"done", "failed"} : remote' = [remote EXCEPT ![j] = v]
  BY DEF RemoteEnds
<1>2. /\ remote[j] = "open" /\ remote'[j] = v /\ UNCHANGED <<job, told>>
      /\ \A i \in Jobs \ {j} : remote'[i] = remote[i]
      /\ remote' \in [Jobs -> {"none", "open", "done", "failed"}]
  BY <1>1 DEF RemoteEnds, ChainIInv, TypeOK
<1>3. Grows
  BY <1>2 DEF Grows
<1>4. \A i \in Jobs : JobGood(i)'
  BY <1>2, <1>3, ReadyGrows DEF ChainIInv, JobGood
<1>5. JobsKept
  BY <1>2, <1>4 DEF JobsKept, ChainIInv, TypeOK
<1> QED
  BY <1>3, <1>5, SameRows, SameTasks, SameCounts, AllKept DEF RemoteEnds

LEMMA JobEndsKeeps ==
  ASSUME ChainIInv, NEW j \in Jobs, JobEnds(j)
  PROVE  ChainIInv'
<1>1. Grows /\ JobsKept
  <2>1. CASE remote[j] = "done"
    <3>1. job' = [job EXCEPT ![j].status = "SUCCEEDED"] /\ UNCHANGED <<remote, told>>
      BY <2>1 DEF JobEnds
    <3>2. "SUCCEEDED" \in JobStatus \ {"none"}
      BY DEF JobStatus, Broken
    <3> QED
      BY <2>1, <3>1, <3>2, JobMarked
  <2>2. CASE remote[j] # "done"
    <3>1. job' = [job EXCEPT ![j].status = "FAILED"] /\ UNCHANGED <<remote, told>>
      BY <2>2 DEF JobEnds
    <3>2. "FAILED" \in JobStatus \ {"none"}
      BY DEF JobStatus, Broken
    <3> QED
      BY <3>1, <3>2, JobMarked
  <2> QED
    BY <2>1, <2>2
<1> QED
  BY <1>1, SameRows, SameTasks, SameCounts, AllKept DEF JobEnds

LEMMA PollsExhaustedKeeps ==
  ASSUME ChainIInv, NEW j \in Jobs, PollsExhausted(j)
  PROVE  ChainIInv'
<1>1. PICK s \in {"FAILED"} : job' = [job EXCEPT ![j].status = s] /\ UNCHANGED <<remote, told>>
  BY DEF PollsExhausted
<1>2. s \in JobStatus \ {"none"}
  BY DEF JobStatus, Broken
<1>3. Grows /\ JobsKept
  BY <1>1, <1>2, JobMarked
<1> QED
  BY <1>3, SameRows, SameTasks, SameCounts, AllKept DEF PollsExhausted

LEMMA CrashKeeps ==
  ASSUME ChainIInv, NEW t \in Threads, Crash(t)
  PROVE  ChainIInv'
<1>1. CountsKept
  BY BoundAssumption DEF Crash, ChainIInv, TypeOK, CountsKept, Fault
<1> QED
  BY <1>1, StopGood, SameRows, SameJobs, AllKept DEF Crash

(* The one step that makes something carried out that was not.               *)
LEMMA WrittenBack ==
  ASSUME Grows, NEW w, w \in told', NEW S, Ready(w, S)
  PROVE  Ready(w, S \cup {"writeback_adrnr"})'
  BY CarriedGrows DEF Ready, CarriedOut

LEMMA WrittenRow ==
  ASSUME Grows, NEW w, NEW q, NEW r, RowGood(w, q), Ready(w, r.done)', r.step = q.step, r.status = q.status
  PROVE  RowGood(w, r)'
  BY CarriedGrows, ReadyGrows DEF RowGood, AllDone

LEMMA WrittenTask ==
  ASSUME NEW r, NEW w \in Workflows, NEW j, NEW done, GoesOn(r, w, j, done), Ready(w, done)'
  PROVE  TaskGood(r)'
  BY DEF GoesOn, TaskGood, HasJob, Ready

LEMMA WritebackKeeps ==
  ASSUME ChainIInv, NEW t \in Threads, Writeback(t)
  PROVE  ChainIInv'
<1> USE DEF Writeback
<1>1. /\ task[t].wf \in Workflows /\ task[t] \in Task /\ TaskGood(task[t]) /\ task[t].pc = "writeback"
  BY TaskFacts DEF At, TaskGood
<1>2. PICK w \in Workflows, done \in SUBSET Steps :
        w = task[t].wf /\ done = task[t].done \cup {"writeback_adrnr"}
  BY <1>1, StepFacts DEF Task
<1>3. wf[w] \in Workflow /\ RowGood(w, wf[w])
  BY DEF ChainIInv, TypeOK
<1>4. Grows /\ told' = told \cup {w} /\ UNCHANGED <<job, remote>>
  BY <1>2 DEF Grows
<1>5. Ready(w, done)'
  BY <1>1, <1>2, <1>4, WrittenBack DEF TaskGood
<1>6. /\ wf' \in [Workflows -> Workflow] /\ \A v \in Workflows \ {w} : wf'[v] = wf[v]
      /\ \/ wf'[w] = wf[w]
         \/ wf'[w].done = done /\ wf'[w].step = wf[w].step /\ wf'[w].status = wf[w].status
  <2> DEFINE r == [wf[w] EXCEPT !.done = done]
  <2>1. r \in Workflow /\ r.done = done /\ r.step = wf[w].step /\ r.status = wf[w].status
    BY <1>3 DEF Workflow
  <2>2. wf' = [wf EXCEPT ![w] = r] \/ wf' = wf
    BY <1>2
  <2> HIDE DEF r
  <2> QED
    BY <2>1, <2>2 DEF ChainIInv, TypeOK
<1>7. (\A v \in Workflows : RowGood(v, wf[v]))'
  <2>1. ASSUME NEW v \in Workflows, wf'[v] = wf[v]
        PROVE  RowGood(v, wf[v])'
    BY <2>1, <1>4, RowGrows DEF ChainIInv
  <2>2. RowGood(w, wf[w])'
    <3>1. PICK q, r : q = wf[w] /\ r = wf'[w]
      OBVIOUS
    <3>2. CASE r.done = done /\ r.step = q.step /\ r.status = q.status
      <4>1. RowGood(w, r)'
        BY <1>3, <1>4, <1>5, <3>1, <3>2, WrittenRow
      <4> QED
        BY <3>1, <4>1
    <3> QED
      BY <1>6, <2>1, <3>1, <3>2
  <2> QED
    BY <1>6, <2>1, <2>2
<1>8. Proceed(t, task[t], done) \/ TasksKept
  BY <1>1, <1>2, ReturnGood DEF At
<1>9. task' \in [Threads -> Task] /\ (\A u \in Threads : TaskGood(task[u]))'
  <2>1. CASE TasksKept
    BY <2>1, <1>4, TaskGrows DEF TasksKept, TaskGood
  <2>2. CASE Proceed(t, task[t], done)
    <3>1. PICK r \in Task : Goto(t, r) /\ GoesOn(r, w, task[t].job, done)
      BY <1>1, <1>2, <2>2, ProceedGoesOn
    <3>2. TaskGood(r)'
      BY <1>5, <3>1, WrittenTask
    <3>3. /\ task' \in [Threads -> Task] /\ task'[t] = r
          /\ \A u \in Threads \ {t} : task'[u] = task[u]
      BY <3>1 DEF Goto, ChainIInv, TypeOK
    <3>4. \A u \in Threads \ {t} : TaskGood(task[u])'
      BY <3>3, <1>4, TaskFacts, TaskGrows DEF TaskGood
    <3> QED
      BY <3>2, <3>3, <3>4
  <2> QED
    BY <1>8, <2>1, <2>2
<1>10. JobsKept
  <2>1. \A j \in Jobs : JobGood(j)'
    BY <1>4, ReadyGrows DEF ChainIInv, JobGood
  <2> QED
    BY <2>1 DEF JobsKept, ChainIInv, TypeOK
<1>11. TypeOK'
  BY <1>4, <1>6, <1>9 DEF ChainIInv, TypeOK
<1> QED
  BY <1>7, <1>9, <1>10, <1>11 DEF ChainIInv, JobsKept

-----------------------------------------------------------------------------
LEMMA ChainInit == Init => ChainIInv
<1> SUFFICES ASSUME Init PROVE ChainIInv
  OBVIOUS
<1> USE DEF Init
<1>1. TypeOK
  BY IdleGood, BoundAssumption, StepFacts DEF TypeOK, Workflow, WfStatus, Kept, Job, JobStatus, NoJob
<1>2. \A w \in Workflows : RowGood(w, wf[w])
  BY StepFacts DEF RowGood, Ready
<1>3. \A t \in Threads : TaskGood(task[t])
  BY IdleGood
<1>4. \A j \in Jobs : JobGood(j)
  BY DEF JobGood
<1> QED
  BY <1>1, <1>2, <1>3, <1>4 DEF ChainIInv

LEMMA ChainNext == ChainIInv /\ [Next]_vars => ChainIInv'
<1> SUFFICES ASSUME ChainIInv, [Next]_vars PROVE ChainIInv'
  OBVIOUS
<1>1. CASE UNCHANGED vars
  BY <1>1, SameRows, SameTasks, SameJobs, SameCounts, AllKept DEF vars
<1>2. ASSUME NEW t \in Threads, Continues(t)
      PROVE  ChainIInv'
  BY <1>2, FinishKeeps, WritebackKeeps, WritebackFailsKeeps, SubmitKeepsChain, SubmitFailsKeeps, LinkKeeps,
     ApplyIgnoresKeeps, ApplyKeeps, ApplyFailsKeeps, BlameKeeps, EraseKeeps, EraseFailsKeeps, UnlinkKeeps,
     DropKeeps, ReconcileWritesKeeps, AbortWritesKeeps, Zenon DEF Continues
<1>3. ASSUME NEW t \in Threads, NEW w \in Workflows,
             StartForOrder(t, w) \/ ReconcileReads(t, w) \/ AbortReads(t, w) \/ Resume(t, w)
      PROVE  ChainIInv'
  BY <1>3, StartKeepsChain, ReconcileReadsKeeps, AbortReadsKeeps, ResumeKeeps, Zenon
<1>4. ASSUME NEW j \in Jobs, RemoteEnds(j) \/ JobEnds(j) \/ PollsExhausted(j)
      PROVE  ChainIInv'
  BY <1>4, RemoteEndsKeeps, JobEndsKeeps, PollsExhaustedKeeps, Zenon
<1> QED
  BY <1>1, <1>2, <1>3, <1>4, ContinuationStartsKeeps, CrashKeeps, Zenon DEF Next

(* Workflows, jobs and threads keep their types, for any number of each.      *)
THEOREM WorkflowTypeCorrect == Spec => []TypeOK
<1>1. ChainIInv => TypeOK
  BY DEF ChainIInv
<1> QED
  BY <1>1, ChainInit, ChainNext, PTL DEF Spec

(* OrderSyncWorkflowService, however continuations, aborts, resumes,           *)
(* reconciliations, refusals and crashes of any number of threads interleave:  *)
(* no step of the chain is ahead of the steps it builds on, and a workflow     *)
(* that says it succeeded has carried out every applicable one.               *)
THEOREM ChainIsAlwaysCarriedOut == Spec => []ChainIsCarriedOut
<1>1. ChainIInv => ChainIsCarriedOut
  BY DEF ChainIInv, ChainIsCarriedOut, StepsInOrder, SucceededMeansDone, JobGood, RowGood, AllDone, Ready
<1> QED
  BY <1>1, ChainInit, ChainNext, PTL DEF Spec

-----------------------------------------------------------------------------
(* Nobody waits in vain.  A job that is open was handed to the wrapper; one    *)
(* whose handler was entered has ended, and while it counts as successful the   *)
(* handler is still at work; no row refers to a job that is gone; and who       *)
(* reconciles or aborts has no job in hand that he could let go.             *)
OpenIsSent == \A j \in Jobs : job[j].status = "open" => remote[j] # "none"
HeardHasEnded == \A j \in heard : job[j].status \notin {"none", "open"}
HeardIsInHand == \A j \in heard : job[j].status = "SUCCEEDED" => InHand(j)
LinksExist == \A w \in Workflows : wf[w].job # NoJob => Exists(wf[w].job)
ErrandsWithoutJob == \A t \in Threads : task[t].pc \in {"reconcile", "abort"} => task[t].job = NoJob
WaitInv == OpenIsSent /\ HeardHasEnded /\ HeardIsInHand /\ LinksExist /\ ErrandsWithoutJob

(* What a step of one thread keeps in hand.                                  *)
HandsKept == \A j \in Jobs : InHand(j) => InHand(j)' \/ job'[j].status # "SUCCEEDED" \/ j \notin heard'
LinksKept == \A w \in Workflows : wf'[w].job \in {wf[w].job, NoJob}

LEMMA OthersHold ==
  ASSUME ChainIInv, NEW t \in Threads, NEW r \in Task, Goto(t, r), NEW j \in Jobs, InHand(j),
         ~At(t, "idle") /\ task[t].job = j => r.pc # "idle" /\ r.job = j
  PROVE  InHand(j)'
<1>1. PICK u \in Threads : task[u].pc # "idle" /\ task[u].job = j
  BY DEF InHand, At
<1>2. task'[u] = IF u = t THEN r ELSE task[u]
  BY DEF Goto, ChainIInv, TypeOK
<1>3. task'[u].pc # "idle" /\ task'[u].job = j
  BY <1>1, <1>2 DEF At
<1> QED
  BY <1>3 DEF InHand, At

LEMMA ErrandsKept ==
  ASSUME ChainIInv, WaitInv, NEW t \in Threads, NEW r, Goto(t, r),
         r.pc \in {"reconcile", "abort"} => r.job = NoJob
  PROVE  ErrandsWithoutJob'
  BY DEF ChainIInv, TypeOK, WaitInv, ErrandsWithoutJob, Goto

(* A thread that goes on with the job it has, if it has one.                   *)
LEMMA GoesOnWith ==
  ASSUME ChainIInv, WaitInv, NEW t \in Threads, NEW r \in Task, Goto(t, r),
         ~At(t, "idle") /\ task[t].job # NoJob => r.pc # "idle" /\ r.job = task[t].job,
         r.pc \in {"reconcile", "abort"} => r.job = NoJob
  PROVE  HandsKept /\ ErrandsWithoutJob'
<1>1. ErrandsWithoutJob'
  BY ErrandsKept
<1>2. ASSUME NEW j \in Jobs, InHand(j) PROVE InHand(j)'
  BY <1>2, OthersHold DEF Jobs, NoJob
<1> QED
  BY <1>1, <1>2 DEF HandsKept

(* A thread that ends: the job it had is not successful, or will be told again. *)
LEMMA StopsHolding ==
  ASSUME ChainIInv, WaitInv, NEW t \in Threads, Stop(t),
         task[t].job \in Jobs => At(t, "idle") \/ job'[task[t].job].status # "SUCCEEDED" \/ task[t].job \notin heard'
  PROVE  HandsKept /\ ErrandsWithoutJob'
<1>0. Goto(t, Idle) /\ Idle \in Task /\ Idle.pc = "idle"
  BY IdleGood DEF Stop, Idle
<1>1. ErrandsWithoutJob'
  BY <1>0, ErrandsKept
<1>2. ASSUME NEW j \in Jobs, InHand(j), ~(job'[j].status # "SUCCEEDED" \/ j \notin heard') PROVE InHand(j)'
  BY <1>0, <1>2, OthersHold
<1> QED
  BY <1>1, <1>2 DEF HandsKept

LEMMA MovesOn ==
  ASSUME ChainIInv, WaitInv, NEW t \in Threads, ~At(t, "idle"), NEW p \in Places \ {"idle", "reconcile", "abort"}, Move(t, p)
  PROVE  HandsKept /\ ErrandsWithoutJob'
<1> DEFINE r == [task[t] EXCEPT !.pc = p]
<1>1. r \in Task /\ r.pc = p /\ r.job = task[t].job
  BY TaskFacts DEF Task
<1>2. Goto(t, r)
  BY DEF Move
<1> HIDE DEF r
<1> QED
  BY <1>1, <1>2, GoesOnWith

LEMMA ReturnHolds ==
  ASSUME ChainIInv, WaitInv, NEW t \in Threads, ~At(t, "idle"), Returns(t) \/ Raises(t)
  PROVE  HandsKept /\ ErrandsWithoutJob'
<1>1. CASE task[t].job = NoJob
  <2>1. Stop(t) /\ task[t].job \notin Jobs
    BY <1>1 DEF Returns, Raises, NoJob, Jobs
  <2> QED
    BY <2>1, StopsHolding
<1>2. CASE task[t].job # NoJob
  <2>1. Move(t, "erase") \/ Move(t, "blame")
    BY <1>2 DEF Returns, Raises
  <2> QED
    BY <2>1, MovesOn DEF Places
<1> QED
  BY <1>1, <1>2

LEMMA ProceedHolds ==
  ASSUME ChainIInv, WaitInv, NEW t \in Threads, NEW q \in Task, NEW done \in SUBSET Steps, Proceed(t, q, done),
         At(t, "idle") \/ q.job = task[t].job
  PROVE  HandsKept /\ ErrandsWithoutJob'
<1>1. PICK r \in Task : Goto(t, r) /\ GoesOn(r, q.wf, q.job, done)
  BY ProceedGoesOn
<1> QED
  BY <1>1, GoesOnWith DEF GoesOn

(* A step that leaves the jobs alone.                                        *)
LEMMA JobsWait ==
  ASSUME ChainIInv, WaitInv, UNCHANGED <<job, remote, heard>>, HandsKept, LinksKept, ErrandsWithoutJob'
  PROVE  WaitInv'
<1>1. OpenIsSent' /\ HeardHasEnded'
  BY DEF WaitInv, OpenIsSent, HeardHasEnded
<1>2. HeardIsInHand'
  BY DEF WaitInv, HeardIsInHand, HandsKept, ChainIInv, TypeOK
<1>3. LinksExist'
  BY DEF WaitInv, LinksExist, LinksKept, Exists
<1> QED
  BY <1>1, <1>2, <1>3 DEF WaitInv

(* A step that gives one job another status, and lets go of none of the others. *)
LEMMA OneJobEnds ==
  ASSUME ChainIInv, WaitInv, NEW j \in Jobs, NEW s \in JobStatus \ {"none", "gone", "open", "SUCCEEDED"},
         job' = [job EXCEPT ![j].status = s], remote' = remote, heard' = heard,
         HandsKept, LinksKept, ErrandsWithoutJob'
  PROVE  WaitInv'
<1>0. /\ heard \subseteq Jobs
      /\ \A i \in Jobs : job'[i].status = IF i = j THEN s ELSE job[i].status
  BY DEF ChainIInv, TypeOK, Job
<1>1. OpenIsSent' /\ HeardHasEnded'
  BY <1>0 DEF WaitInv, OpenIsSent, HeardHasEnded
<1>2. HeardIsInHand'
  BY <1>0 DEF WaitInv, HeardIsInHand, HandsKept
<1>3. LinksExist'
  <2> SUFFICES ASSUME NEW w \in Workflows, wf'[w].job # NoJob PROVE Exists(wf[w].job)'
    BY DEF LinksExist
  <2>1. wf'[w].job = wf[w].job /\ Exists(wf[w].job) /\ wf[w].job \in Jobs
    BY DEF WaitInv, LinksExist, LinksKept, ChainIInv, TypeOK, Workflow
  <2> QED
    BY <2>1, <1>0 DEF Exists
<1> QED
  BY <1>1, <1>2, <1>3 DEF WaitInv

LEMMA StepFailsHolds ==
  ASSUME ChainIInv, WaitInv, NEW t \in Threads, ~At(t, "idle"), StepFails(t)
  PROVE  HandsKept /\ ErrandsWithoutJob' /\ LinksKept
<1>1. HandsKept /\ ErrandsWithoutJob'
  BY ReturnHolds DEF StepFails
<1>2. LinksKept
  BY TaskFacts DEF StepFails, LinksKept, ChainIInv, TypeOK, Workflow, Task
<1> QED
  BY <1>1, <1>2

-----------------------------------------------------------------------------
LEMMA FinishWaits ==
  ASSUME ChainIInv, WaitInv, NEW t \in Threads, Finish(t)
  PROVE  WaitInv'
<1>1. HandsKept /\ ErrandsWithoutJob'
  BY ReturnHolds DEF Finish, At
<1>2. LinksKept
  BY DEF Finish, LinksKept, ChainIInv, TypeOK, Workflow
<1> QED
  BY <1>1, <1>2, JobsWait DEF Finish

LEMMA WritebackWaits ==
  ASSUME ChainIInv, WaitInv, NEW t \in Threads, Writeback(t)
  PROVE  WaitInv'
<1> DEFINE done == task[t].done \cup {"writeback_adrnr"}
<1>0. done \in SUBSET Steps /\ task[t] \in Task
  BY TaskFacts, StepFacts DEF Task
<1>1. Proceed(t, task[t], done) \/ Raises(t)
  BY DEF Writeback
<1>2. HandsKept /\ ErrandsWithoutJob'
  <2> HIDE DEF done
  <2> QED
    BY <1>0, <1>1, ReturnHolds, ProceedHolds DEF Writeback, At
<1>3. LinksKept
  BY DEF Writeback, LinksKept, ChainIInv, TypeOK, Workflow
<1> QED
  BY <1>2, <1>3, JobsWait DEF Writeback

LEMMA WritebackFailsWaits ==
  ASSUME ChainIInv, WaitInv, NEW t \in Threads, WritebackFails(t)
  PROVE  WaitInv'
  BY StepFailsHolds, JobsWait DEF WritebackFails, At

LEMMA SubmitWaits ==
  ASSUME ChainIInv, WaitInv, NEW t \in Threads, NEW j \in Jobs, Submit(t, j)
  PROVE  WaitInv'
<1> DEFINE r == [task[t] EXCEPT !.pc = "link", !.new = j]
<1>1. r \in Task /\ r.pc = "link" /\ r.job = task[t].job
  BY TaskFacts DEF Task, Places
<1>2. Goto(t, r)
  BY DEF Submit
<1>3. HandsKept /\ ErrandsWithoutJob'
  <2> HIDE DEF r
  <2> QED
    BY <1>1, <1>2, GoesOnWith
<1>4. /\ heard' = heard /\ wf' = wf /\ heard \subseteq Jobs
      /\ \A i \in Jobs : i # j => job'[i] = job[i] /\ remote'[i] = remote[i]
      /\ job[j].status = "none" /\ job'[j].status = "open" /\ remote'[j] = "open"
  BY DEF Submit, Fresh, ChainIInv, TypeOK
<1>5. OpenIsSent' /\ HeardHasEnded' /\ HeardIsInHand'
  BY <1>3, <1>4 DEF WaitInv, OpenIsSent, HeardHasEnded, HeardIsInHand, HandsKept
<1>6. LinksExist'
  BY <1>4 DEF WaitInv, LinksExist, Exists, ChainIInv, TypeOK, Workflow
<1> QED
  BY <1>3, <1>5, <1>6 DEF WaitInv

LEMMA SubmitFailsWaits ==
  ASSUME ChainIInv, WaitInv, NEW t \in Threads, NEW j \in Jobs, SubmitFails(t, j)
  PROVE  WaitInv'
<1>3. HandsKept /\ ErrandsWithoutJob' /\ LinksKept
  BY StepFailsHolds DEF SubmitFails, At
<1>4. /\ heard' = heard /\ heard \subseteq Jobs
      /\ \A i \in Jobs : i # j => job'[i] = job[i] /\ remote'[i] = remote[i]
      /\ job[j].status = "none" /\ job'[j].status = "FAILED"
  BY DEF SubmitFails, Fresh, ChainIInv, TypeOK
<1>5. OpenIsSent' /\ HeardHasEnded' /\ HeardIsInHand'
  BY <1>3, <1>4 DEF WaitInv, OpenIsSent, HeardHasEnded, HeardIsInHand, HandsKept
<1>6. LinksExist'
  BY <1>3, <1>4 DEF WaitInv, LinksExist, LinksKept, Exists, ChainIInv, TypeOK, Workflow
<1> QED
  BY <1>3, <1>5, <1>6 DEF WaitInv

(* The job that is linked exists, as submit_step has found.                    *)
LEMMA LinkWaits ==
  ASSUME ChainIInv, WaitInv, NEW t \in Threads, Link(t)
  PROVE  WaitInv'
<1> DEFINE w == task[t].wf
           j == task[t].new
<1>1. CASE Stored(w) /\ Exists(j) /\ MayBeActive(w)
  <2>1. HandsKept /\ ErrandsWithoutJob'
    BY <1>1, ReturnHolds DEF Link, At
  <2>2. /\ UNCHANGED <<job, remote, heard>> /\ heard \subseteq Jobs
        /\ \A v \in Workflows : wf'[v].job \in {wf[v].job, j}
    BY <1>1 DEF Link, ChainIInv, TypeOK, Workflow
  <2>3. OpenIsSent' /\ HeardHasEnded' /\ HeardIsInHand'
    BY <2>1, <2>2 DEF WaitInv, OpenIsSent, HeardHasEnded, HeardIsInHand, HandsKept
  <2>4. LinksExist'
    <3> HIDE DEF j
    <3> QED
      BY <1>1, <2>2 DEF WaitInv, LinksExist, Exists
  <2> QED
    BY <2>1, <2>3, <2>4 DEF WaitInv
<1>2. CASE ~(Stored(w) /\ Exists(j) /\ MayBeActive(w))
  BY <1>2, StepFailsHolds, JobsWait DEF Link, At
<1> QED
  BY <1>1, <1>2

LEMMA ContinuationStartsWaits ==
  ASSUME ChainIInv, WaitInv, NEW t \in Threads, NEW j \in Jobs, ContinuationStarts(t, j)
  PROVE  WaitInv'
<1> DEFINE r == [Idle EXCEPT !.pc = "apply", !.job = j, !.wf = job[j].wf]
<1>1. r \in Task /\ r.pc = "apply" /\ r.job = j
  BY IdleGood DEF Task, Places, Idle, ContinuationStarts, ChainIInv, TypeOK, Job
<1>2. Goto(t, r)
  BY DEF ContinuationStarts
<1> HIDE DEF r
<1>3. HandsKept /\ ErrandsWithoutJob'
  BY <1>1, <1>2, GoesOnWith DEF ContinuationStarts
<1>4. /\ UNCHANGED <<wf, job, remote>> /\ heard' = heard \cup {j} /\ heard \subseteq Jobs
      /\ job[j].status = "SUCCEEDED"
  BY DEF ContinuationStarts, ChainIInv, TypeOK
<1>5. InHand(j)'
  <2>1. task'[t] = r
    BY <1>2 DEF Goto, ChainIInv, TypeOK
  <2> QED
    BY <1>1, <2>1 DEF InHand, At
<1>6. OpenIsSent' /\ HeardHasEnded' /\ LinksExist'
  BY <1>4 DEF WaitInv, OpenIsSent, HeardHasEnded, LinksExist, Exists
<1>7. HeardIsInHand'
  BY <1>3, <1>4, <1>5 DEF WaitInv, HeardIsInHand, HandsKept
<1> QED
  BY <1>3, <1>6, <1>7 DEF WaitInv

LEMMA ApplyIgnoresWaits ==
  ASSUME ChainIInv, WaitInv, NEW t \in Threads, ApplyIgnores(t)
  PROVE  WaitInv'
  BY ReturnHolds, JobsWait DEF ApplyIgnores, At, LinksKept

LEMMA ApplyWaits ==
  ASSUME ChainIInv, WaitInv, NEW t \in Threads, Apply(t)
  PROVE  WaitInv'
<1> DEFINE w == task[t].wf
           done == wf[w].done \cup {job[task[t].job].step}
<1>0. At(t, "apply")
  BY DEF Apply
<1>1. done \in SUBSET Steps /\ task[t] \in Task
  BY <1>0, TaskFacts DEF ChainIInv, TypeOK, Workflow, Job, TaskGood, At, HasJob, JobGood, RemoteSteps
<1>2. Proceed(t, task[t], done)
  BY DEF Apply
<1>3. HandsKept /\ ErrandsWithoutJob'
  <2> HIDE DEF done
  <2> QED
    BY <1>1, <1>2, ProceedHolds
<1>4. LinksKept
  BY DEF Apply, LinksKept, ChainIInv, TypeOK, Workflow
<1> QED
  BY <1>3, <1>4, JobsWait DEF Apply

LEMMA ApplyFailsWaits ==
  ASSUME ChainIInv, WaitInv, NEW t \in Threads, ApplyFails(t)
  PROVE  WaitInv'
<1>1. HandsKept /\ ErrandsWithoutJob'
  BY ReturnHolds DEF ApplyFails, At
<1>2. LinksKept
  BY DEF ApplyFails, LinksKept, ChainIInv, TypeOK, Workflow
<1> QED
  BY <1>1, <1>2, JobsWait DEF ApplyFails

LEMMA BlameWaits ==
  ASSUME ChainIInv, WaitInv, NEW t \in Threads, Blame(t)
  PROVE  WaitInv'
<1> DEFINE j == task[t].job
<1>0. j \in Jobs /\ Stop(t) /\ UNCHANGED <<wf, remote, heard>>
  BY TaskFacts DEF Blame, TaskGood, HasJob, At
<1>1. LinksKept
  BY <1>0 DEF LinksKept
<1>2. CASE Exists(j)
  <2>1. job' = [job EXCEPT ![j].status = "FAILED"]
    BY <1>2 DEF Blame
  <2>2. job'[j].status = "FAILED"
    BY <1>0, <2>1 DEF ChainIInv, TypeOK, Job
  <2>3. HandsKept /\ ErrandsWithoutJob'
    BY <1>0, <2>2, StopsHolding
  <2> HIDE DEF j
  <2> QED
    BY <1>0, <1>1, <2>1, <2>3, OneJobEnds DEF JobStatus, Broken
<1>3. CASE ~Exists(j)
  <2>1. job' = job /\ job[j].status # "SUCCEEDED"
    BY <1>0, <1>3 DEF Blame, Exists, Jobs, NoJob
  <2>2. HandsKept /\ ErrandsWithoutJob'
    BY <1>0, <2>1, StopsHolding
  <2> QED
    BY <1>0, <1>1, <2>1, <2>2, JobsWait
<1> QED
  BY <1>2, <1>3

LEMMA EraseWaits ==
  ASSUME ChainIInv, WaitInv, NEW t \in Threads, Erase(t)
  PROVE  WaitInv'
<1>0. task[t].job \in Jobs /\ ~At(t, "idle")
  BY TaskFacts DEF Erase, TaskGood, HasJob, At
<1>1. CASE Exists(task[t].job)
  BY <1>0, <1>1, MovesOn, JobsWait DEF Erase, LinksKept, Places
<1>2. CASE ~Exists(task[t].job)
  <2>1. job' = job /\ job[task[t].job].status # "SUCCEEDED" /\ Stop(t)
    BY <1>0, <1>2 DEF Erase, Exists, Jobs, NoJob
  <2>2. HandsKept /\ ErrandsWithoutJob'
    BY <2>1, StopsHolding
  <2> QED
    BY <2>2, JobsWait DEF Erase, LinksKept
<1> QED
  BY <1>1, <1>2

(* Either the job says so, or its continuation will come again.                *)
LEMMA Unheard ==
  ASSUME ChainIInv, WaitInv, NEW t \in Threads, Stop(t), heard' = heard \ {task[t].job}, UNCHANGED <<wf, job, remote>>
  PROVE  WaitInv'
<1>1. HandsKept /\ ErrandsWithoutJob'
  BY StopsHolding
<1>2. OpenIsSent' /\ HeardHasEnded' /\ LinksExist'
  BY DEF WaitInv, OpenIsSent, HeardHasEnded, LinksExist, Exists
<1>3. HeardIsInHand'
  BY <1>1 DEF WaitInv, HeardIsInHand, HandsKept, ChainIInv, TypeOK
<1> QED
  BY <1>1, <1>2, <1>3 DEF WaitInv

LEMMA EraseFailsWaits ==
  ASSUME ChainIInv, WaitInv, NEW t \in Threads, EraseFails(t)
  PROVE  WaitInv'
<1> DEFINE j == task[t].job
<1>0. j \in Jobs /\ Stop(t) /\ UNCHANGED <<wf, remote>>
  BY TaskFacts DEF EraseFails, TaskGood, HasJob, At
<1>1. CASE job' = [job EXCEPT ![j].status = "DELETE_FAILED"] /\ heard' = heard
  <2>1. job'[j].status = "DELETE_FAILED"
    BY <1>0, <1>1 DEF ChainIInv, TypeOK, Job
  <2>2. HandsKept /\ ErrandsWithoutJob' /\ LinksKept
    BY <1>0, <2>1, StopsHolding DEF LinksKept
  <2> HIDE DEF j
  <2> QED
    BY <1>0, <1>1, <2>2, OneJobEnds DEF JobStatus, Broken
<1>2. CASE heard' = heard \ {j} /\ job' = job
  BY <1>0, <1>2, Unheard
<1> QED
  BY <1>1, <1>2 DEF EraseFails

LEMMA UnlinkWaits ==
  ASSUME ChainIInv, WaitInv, NEW t \in Threads, Unlink(t)
  PROVE  WaitInv'
<1>1. HandsKept /\ ErrandsWithoutJob'
  BY MovesOn DEF Unlink, At, Places
<1>2. LinksKept
  BY DEF Unlink, LinksKept, ChainIInv, TypeOK, Workflow
<1> QED
  BY <1>1, <1>2, JobsWait DEF Unlink

LEMMA DropWaits ==
  ASSUME ChainIInv, WaitInv, NEW t \in Threads, Drop(t)
  PROVE  WaitInv'
<1> DEFINE j == task[t].job
<1>0. j \in Jobs /\ Stop(t) /\ UNCHANGED <<remote, heard>> /\ heard \subseteq Jobs
  BY TaskFacts DEF Drop, TaskGood, HasJob, At, ChainIInv, TypeOK
<1>1. \A i \in Jobs : job'[i].status = IF i = j THEN "gone" ELSE job[i].status
  BY <1>0 DEF Drop, ChainIInv, TypeOK, Job
<1>2. \A w \in Workflows : wf'[w].job = IF wf[w].job = j THEN NoJob ELSE wf[w].job
  BY DEF Drop, ChainIInv, TypeOK, Workflow
<1>3. HandsKept /\ ErrandsWithoutJob'
  BY <1>0, <1>1, StopsHolding
<1> HIDE DEF j
<1>4. OpenIsSent' /\ HeardHasEnded' /\ HeardIsInHand'
  BY <1>0, <1>1, <1>3 DEF WaitInv, OpenIsSent, HeardHasEnded, HeardIsInHand, HandsKept
<1>5. LinksExist'
  <2> SUFFICES ASSUME NEW w \in Workflows, wf'[w].job # NoJob PROVE Exists(wf[w].job)'
    BY DEF LinksExist
  <2>1. wf'[w].job = wf[w].job /\ wf[w].job # j /\ Exists(wf[w].job) /\ wf[w].job \in Jobs
    BY <1>2 DEF WaitInv, LinksExist, ChainIInv, TypeOK, Workflow
  <2> QED
    BY <1>1, <2>1 DEF Exists
<1> QED
  BY <1>3, <1>4, <1>5 DEF WaitInv

-----------------------------------------------------------------------------
LEMMA StartWaits ==
  ASSUME ChainIInv, WaitInv, NEW t \in Threads, NEW w \in Workflows, StartForOrder(t, w)
  PROVE  WaitInv'
<1> DEFINE q == [Idle EXCEPT !.wf = w]
<1>1. q \in Task
  BY IdleGood DEF Task
<1>2. Proceed(t, q, {}) /\ At(t, "idle")
  BY DEF StartForOrder
<1> HIDE DEF q
<1>3. HandsKept /\ ErrandsWithoutJob'
  BY <1>1, <1>2, ProceedHolds
<1>4. LinksKept
  BY DEF StartForOrder, LinksKept, ChainIInv, TypeOK, Workflow
<1> QED
  BY <1>3, <1>4, JobsWait DEF StartForOrder

(* An errand begins with nothing in hand.                                     *)
LEMMA SetsOut ==
  ASSUME ChainIInv, WaitInv, NEW t \in Threads, NEW r \in Task, At(t, "idle"), r.job = NoJob, Goto(t, r),
         UNCHANGED <<wf, job, remote, heard>>
  PROVE  WaitInv'
  BY GoesOnWith, JobsWait DEF LinksKept

LEMMA ReconcileReadsWaits ==
  ASSUME ChainIInv, WaitInv, NEW t \in Threads, NEW w \in Workflows, ReconcileReads(t, w)
  PROVE  WaitInv'
<1> DEFINE r == [Idle EXCEPT !.pc = "reconcile", !.wf = w]
<1>1. r \in Task /\ r.job = NoJob
  BY IdleGood DEF Task, Places, Idle
<1>2. Goto(t, r)
  BY DEF ReconcileReads
<1> HIDE DEF r
<1> QED
  BY <1>1, <1>2, SetsOut DEF ReconcileReads

LEMMA ReconcileWritesWaits ==
  ASSUME ChainIInv, WaitInv, NEW t \in Threads, ReconcileWrites(t)
  PROVE  WaitInv'
<1>1. task[t].job \notin Jobs
  BY DEF ReconcileWrites, At, WaitInv, ErrandsWithoutJob, NoJob, Jobs
<1>2. HandsKept /\ ErrandsWithoutJob'
  BY <1>1, StopsHolding DEF ReconcileWrites
<1>3. LinksKept
  BY DEF ReconcileWrites, LinksKept, ChainIInv, TypeOK, Workflow
<1> QED
  BY <1>2, <1>3, JobsWait DEF ReconcileWrites

LEMMA AbortReadsWaits ==
  ASSUME ChainIInv, WaitInv, NEW t \in Threads, NEW w \in Workflows, AbortReads(t, w)
  PROVE  WaitInv'
<1> DEFINE j == wf[w].job
           c == j # NoJob /\ job[j].status = "open"
           r == [Idle EXCEPT !.pc = "abort", !.wf = w, !.new = IF c THEN j ELSE NoJob]
<1>1. r \in Task /\ r.job = NoJob
  BY IdleGood DEF Task, Places, Idle, ChainIInv, TypeOK, Workflow
<1>2. Goto(t, r)
  BY DEF AbortReads
<1> HIDE DEF r
<1> QED
  BY <1>1, <1>2, SetsOut DEF AbortReads

LEMMA AbortWritesWaits ==
  ASSUME ChainIInv, WaitInv, NEW t \in Threads, AbortWrites(t)
  PROVE  WaitInv'
<1> DEFINE w == task[t].wf
           j == task[t].new
<1>1. task[t].job \notin Jobs
  BY DEF AbortWrites, At, WaitInv, ErrandsWithoutJob, NoJob, Jobs
<1>2. HandsKept /\ ErrandsWithoutJob'
  BY <1>1, StopsHolding DEF AbortWrites
<1>3. LinksKept
  BY DEF AbortWrites, LinksKept, ChainIInv, TypeOK, Workflow
<1>4. CASE job' = job
  BY <1>2, <1>3, <1>4, JobsWait DEF AbortWrites
<1>5. CASE j # NoJob /\ job' = [job EXCEPT ![j].status = "CANCELLED"]
  <2>1. j \in Jobs
    BY <1>5, TaskFacts DEF Task
  <2> HIDE DEF j
  <2> QED
    BY <1>2, <1>3, <1>5, <2>1, OneJobEnds DEF AbortWrites, JobStatus, Broken
<1> QED
  BY <1>4, <1>5 DEF AbortWrites

LEMMA ResumeWaits ==
  ASSUME ChainIInv, WaitInv, NEW t \in Threads, NEW w \in Workflows, Resume(t, w)
  PROVE  WaitInv'
<1> DEFINE q == [Idle EXCEPT !.wf = w, !.done = wf[w].done]
           s == wf[w].step
           r == [q EXCEPT !.pc = "submit", !.step = s, !.marks = FALSE]
<1>1. q \in Task /\ r \in Task /\ r.job = NoJob /\ r.pc = "submit" /\ wf[w].done \in SUBSET Steps /\ At(t, "idle")
  BY IdleGood DEF Task, Places, Idle, ChainIInv, TypeOK, Workflow, Resume
<1>2. Proceed(t, q, wf[w].done) \/ Goto(t, r)
  BY DEF Resume
<1>3. LinksKept /\ UNCHANGED <<wf, job, remote, heard>>
  BY DEF Resume, LinksKept
<1> HIDE DEF q, r
<1>4. CASE Proceed(t, q, wf[w].done)
  <2>1. HandsKept /\ ErrandsWithoutJob'
    BY <1>1, <1>4, ProceedHolds
  <2> QED
    BY <2>1, <1>3, JobsWait
<1>5. CASE Goto(t, r)
  BY <1>1, <1>3, <1>5, SetsOut
<1> QED
  BY <1>2, <1>4, <1>5

LEMMA SameHands ==
  ASSUME WaitInv, task' = task
  PROVE  HandsKept /\ ErrandsWithoutJob'
  BY DEF HandsKept, InHand, At, WaitInv, ErrandsWithoutJob

LEMMA RemoteEndsWaits ==
  ASSUME ChainIInv, WaitInv, NEW j \in Jobs, RemoteEnds(j)
  PROVE  WaitInv'
<1>1. \A i \in Jobs : remote[i] # "none" => remote'[i] # "none"
  BY DEF RemoteEnds, ChainIInv, TypeOK
<1>2. OpenIsSent' /\ HeardHasEnded' /\ LinksExist'
  BY <1>1 DEF RemoteEnds, WaitInv, OpenIsSent, HeardHasEnded, LinksExist, Exists
<1>3. HeardIsInHand'
  BY SameHands DEF RemoteEnds, WaitInv, HeardIsInHand, HandsKept, ChainIInv, TypeOK
<1> QED
  BY <1>2, <1>3, SameHands DEF WaitInv, RemoteEnds

(* A job that ends has not been told of before.                                *)
LEMMA JobEndsWaits ==
  ASSUME ChainIInv, WaitInv, NEW j \in Jobs, JobEnds(j)
  PROVE  WaitInv'
<1>1. /\ UNCHANGED <<wf, remote, heard, task>> /\ heard \subseteq Jobs /\ j \notin heard
      /\ \A i \in Jobs \ {j} : job'[i] = job[i]
      /\ job'[j].status \in {"SUCCEEDED", "FAILED"}
  BY DEF JobEnds, ChainIInv, TypeOK, Job, WaitInv, HeardHasEnded
<1>2. OpenIsSent' /\ HeardHasEnded'
  BY <1>1 DEF WaitInv, OpenIsSent, HeardHasEnded
<1>3. LinksExist'
  BY <1>1 DEF WaitInv, LinksExist, Exists, ChainIInv, TypeOK, Workflow
<1>4. HeardIsInHand'
  BY <1>1, SameHands DEF WaitInv, HeardIsInHand, HandsKept
<1> QED
  BY <1>1, <1>2, <1>3, <1>4, SameHands DEF WaitInv

LEMMA PollsExhaustedWaits ==
  ASSUME ChainIInv, WaitInv, NEW j \in Jobs, PollsExhausted(j)
  PROVE  WaitInv'
  BY SameHands, OneJobEnds DEF PollsExhausted, LinksKept, JobStatus, Broken

LEMMA CrashWaits ==
  ASSUME ChainIInv, WaitInv, NEW t \in Threads, Crash(t)
  PROVE  WaitInv'
  BY Unheard DEF Crash

LEMMA WaitInit == Init => WaitInv
<1> SUFFICES ASSUME Init PROVE WaitInv
  OBVIOUS
<1> QED
  BY DEF Init, WaitInv, OpenIsSent, HeardHasEnded, HeardIsInHand, LinksExist, ErrandsWithoutJob, Idle

LEMMA WaitNext == ChainIInv /\ WaitInv /\ [Next]_vars => WaitInv'
<1> SUFFICES ASSUME ChainIInv, WaitInv, [Next]_vars PROVE WaitInv'
  OBVIOUS
<1>1. CASE UNCHANGED vars
  BY <1>1, SameHands, JobsWait DEF vars, LinksKept
<1>2. ASSUME NEW t \in Threads, Continues(t)
      PROVE  WaitInv'
  BY <1>2, FinishWaits, WritebackWaits, WritebackFailsWaits, SubmitWaits, SubmitFailsWaits, LinkWaits,
     ApplyIgnoresWaits, ApplyWaits, ApplyFailsWaits, BlameWaits, EraseWaits, EraseFailsWaits, UnlinkWaits,
     DropWaits, ReconcileWritesWaits, AbortWritesWaits, Zenon DEF Continues
<1>3. ASSUME NEW t \in Threads, NEW w \in Workflows,
             StartForOrder(t, w) \/ ReconcileReads(t, w) \/ AbortReads(t, w) \/ Resume(t, w)
      PROVE  WaitInv'
  BY <1>3, StartWaits, ReconcileReadsWaits, AbortReadsWaits, ResumeWaits, Zenon
<1>4. ASSUME NEW j \in Jobs, RemoteEnds(j) \/ JobEnds(j) \/ PollsExhausted(j)
      PROVE  WaitInv'
  BY <1>4, RemoteEndsWaits, JobEndsWaits, PollsExhaustedWaits, Zenon
<1> QED
  BY <1>1, <1>2, <1>3, <1>4, ContinuationStartsWaits, CrashWaits, Zenon DEF Next

(* reconcile_failures looks at workflows that wait, and only at those whose job  *)
(* is missing or has failed.  The others must be told: whatever crashes, is     *)
(* refused, deleted, delivered twice or aborted, the job that a workflow waits   *)
(* for is with the wrapper, or has failed, or its continuation is still to      *)
(* come or at work.  It is the safety half of WaitingEnds.                    *)
THEOREM WaitersAreTold == Spec => []NobodyWaitsInVain
<1>1. ChainIInv /\ WaitInv => NobodyWaitsInVain
  <2> SUFFICES ASSUME ChainIInv, WaitInv, NEW w \in Workflows, wf[w].job # NoJob
               PROVE  CanBeTold(wf[w].job)
    BY DEF NobodyWaitsInVain
  <2>1. wf[w].job \in Jobs /\ Exists(wf[w].job)
    BY DEF ChainIInv, TypeOK, Workflow, WaitInv, LinksExist
  <2> QED
    BY <2>1 DEF CanBeTold, Exists, ChainIInv, TypeOK, Job, JobStatus, WaitInv, OpenIsSent, HeardIsInHand
<1> QED
  BY <1>1, ChainInit, ChainNext, WaitInit, WaitNext, PTL DEF Spec

-----------------------------------------------------------------------------
(* One baton.  As long as nothing was delivered twice, nothing failed on the    *)
(* way and a person intervened once at most, each workflow has one carrier: a   *)
(* job whose handler was not entered yet, or the thread that goes on from one.  *)
(* (A thread that links the job it has submitted carries nothing any more.)    *)
Calm == dups = 0 /\ faults = 0 /\ acts <= 1
Rank(s) == IF s = NoStep THEN 0 ELSE CHOOSE i \in 1 .. 10 : StepOrder[i] = s

Carries(t, w) == task[t].pc \in {"apply", "finish", "writeback", "submit"} /\ task[t].wf = w
Links(t, w) == task[t].pc = "link" /\ task[t].wf = w
Handles(t, j) == task[t].pc = "apply" /\ task[t].job = j
Pending(j, w) == job[j].status \in {"open", "SUCCEEDED"} /\ j \notin heard /\ job[j].wf = w

OneCarrier ==
  \A w \in Workflows :
    /\ \A t, u \in Threads : Carries(t, w) /\ Carries(u, w) => t = u
    /\ \A i, j \in Jobs : Pending(i, w) /\ Pending(j, w) => i = j
    /\ \A t \in Threads, j \in Jobs : ~ (Carries(t, w) /\ Pending(j, w))

HandlersApart ==
  /\ \A t, u \in Threads : task[t].job = task[u].job /\ task[t].job # NoJob => t = u
  /\ \A t \in Threads : task[t].job # NoJob => task[t].job \in heard /\ job[task[t].job].status # "gone"
  /\ \A j \in heard : job[j].status \notin {"none", "open"}
  /\ \A j \in Jobs : job[j].status = "none" => job[j].wf = 0

Untouched ==
  \A w \in Workflows : wf[w].status = "none" =>
    /\ wf[w].step = NoStep /\ wf[w].done = {} /\ wf[w].job = NoJob
    /\ \A t \in Threads : ~ Carries(t, w) /\ ~ Links(t, w)
    /\ \A j \in Jobs : job[j].wf # w

Upto(w, n, k) == \A i \in Jobs \ {k} : job[i].wf = w => Rank(job[i].step) <= n
JobStands(j, w, k) == Upto(w, Rank(job[j].step), k) /\ Before(job[j].step) \subseteq wf[w].done

TaskStands(r, k) ==
  /\ r.pc \in {"submit", "writeback"} =>
       /\ Upto(r.wf, Rank(r.step) - 1, k) /\ Before(r.step) \subseteq r.done
       /\ r.marks => Rank(wf[r.wf].step) < Rank(r.step)
  /\ r.pc = "submit" => Before(r.step) \subseteq wf[r.wf].done
  /\ r.pc = "apply" => JobStands(r.job, r.wf, k)

LinkStands(t, k) ==
  LET r == task[t] IN
  r.pc = "link" =>
    /\ r.new # k /\ job[r.new].wf = r.wf /\ job[r.new].step = r.step /\ job[r.new].status # "none"
    /\ \A u \in Threads : task[u].pc = "link" /\ task[u].new = r.new => u = t
    /\ r.marks =>
         /\ wf[r.wf].step # r.step
         /\ \A u \in Threads : Carries(u, r.wf) => Handles(u, r.new)
         /\ \A i \in Jobs : Pending(i, r.wf) => i = r.new

Calls(k) ==
  /\ k # NoJob => job[k].status # "none"
  /\ \A i, j \in Jobs \ {k} : SameCall(i, j) => i = j
TasksStand(k) == \A t \in Threads : TaskStands(task[t], k)
LinksStand(k) == \A t \in Threads : LinkStands(t, k)
PendingStand(k) == \A w \in Workflows, j \in Jobs : Pending(j, w) => JobStands(j, w, k)
Stands(k) == Calls(k) /\ TasksStand(k) /\ LinksStand(k) /\ PendingStand(k)

(* Nobody has intervened yet: where the carrier of a workflow is, is known      *)
(* from its row, and a workflow to be reconciled or resumed has no carrier.     *)
AloneTask(r) ==
  /\ r.pc # "abort" /\ r.marks
  /\ r.job # NoJob => job[r.job].status = "SUCCEEDED"
  /\ r.pc \in {"finish", "writeback", "submit", "link"} =>
       \/ r.job = NoJob /\ wf[r.wf].status = "running" /\ wf[r.wf].job = NoJob
       \/ r.job # NoJob /\ wf[r.wf].status = "waiting" /\ wf[r.wf].job = r.job
  /\ r.pc = "link" => /\ Upto(r.wf, Rank(r.step), NoJob)
                      /\ Before(r.step) \subseteq wf[r.wf].done \cap r.done
TasksAlone == \A t \in Threads : AloneTask(task[t])
LinksAlone == \A w \in Workflows : \A t, u \in Threads : Links(t, w) /\ Links(u, w) => t = u
ActiveAlone == \A v, w \in Workflows : wf[v].status \in Active /\ wf[w].status \in Active => v = w

LinkedBy(j, w) == \E u \in Threads : Links(u, w) /\ task[u].new = j
WaitsFor(w, j) == wf[w].status = "waiting" /\ wf[w].job = j /\ wf[w].step = job[j].step
CarrierKnown ==
  \A w \in Workflows, j \in Jobs :
    Pending(j, w) \/ (job[j].wf = w /\ \E u \in Threads : Handles(u, j)) => LinkedBy(j, w) \/ WaitsFor(w, j)

Stuck(w) == wf[w].status = "failed" \/ \E u \in Threads : task[u].pc = "reconcile" /\ task[u].wf = w
StuckAlone ==
  \A w \in Workflows : Stuck(w) =>
    /\ wf[w].status \in {"waiting", "failed", "deleted"}
    /\ \A t \in Threads : ~ Carries(t, w) /\ ~ Links(t, w)
    /\ \A j \in Jobs : ~ Pending(j, w)

RowFront(w) ==
  /\ wf[w].step \in RemoteSteps /\ Before(wf[w].step) \subseteq wf[w].done
  /\ \A i \in Jobs : job[i].wf = w => Rank(job[i].step) <= Rank(wf[w].step) \/ LinkedBy(i, w)
RowsStand == \A w \in Workflows : wf[w].status \in {"waiting", "failed"} => RowFront(w)

Alone == TasksAlone /\ LinksAlone /\ ActiveAlone /\ CarrierKnown /\ StuckAlone /\ RowsStand

Baton ==
  /\ OneCarrier /\ HandlersApart /\ Untouched
  /\ \E k \in Jobs \cup {NoJob} : Stands(k) /\ (acts = 0 => k = NoJob)
  /\ acts = 0 => Alone

-----------------------------------------------------------------------------
LEMMA RankFacts ==
  /\ \A s \in Steps : Rank(s) \in 1 .. 10 /\ StepOrder[Rank(s)] = s
  /\ Rank(NoStep) = 0
<1>1. ASSUME NEW s \in Steps PROVE Rank(s) \in 1 .. 10 /\ StepOrder[Rank(s)] = s
  <2>1. \E i \in 1 .. 10 : StepOrder[i] = s
    BY StepFacts
  <2>2. s # NoStep
    BY StepFacts
  <2>3. Rank(s) = CHOOSE i \in 1 .. 10 : StepOrder[i] = s
    BY <2>2, Zenon DEF Rank
  <2> QED
    BY <2>1, <2>3, Zenon
<1>2. Rank(NoStep) = 0
  BY Zenon DEF Rank
<1> QED
  BY <1>1, <1>2, Zenon

LEMMA RankBefore ==
  ASSUME NEW s \in Steps
  PROVE  /\ \A a \in Before(s) : a \in Steps /\ IsApplicable(a) /\ Rank(a) < Rank(s)
         /\ \A a \in Steps : IsApplicable(a) /\ Rank(a) < Rank(s) => a \in Before(s)
<1>1. ASSUME NEW a \in Before(s) PROVE a \in Steps /\ IsApplicable(a) /\ Rank(a) < Rank(s)
  <2>1. PICK i \in 1 .. 10 : StepOrder[i] = a /\ IsApplicable(StepOrder[i]) /\ \E k \in 1 .. 10 : StepOrder[k] = s /\ i < k
    BY <1>1, StepFacts DEF Before
  <2>2. PICK k \in 1 .. 10 : StepOrder[k] = s /\ i < k
    BY <2>1
  <2>3. a \in Steps
    BY <2>1, StepFacts
  <2>4. Rank(a) = i /\ Rank(s) = k
    BY <2>1, <2>2, <2>3, RankFacts, DifferentSteps
  <2>5. IsApplicable(a)
    BY <2>1, Zenon
  <2> QED
    BY <2>2, <2>3, <2>4, <2>5, Zenon
<1>2. ASSUME NEW a \in Steps, IsApplicable(a), Rank(a) < Rank(s) PROVE a \in Before(s)
  <2>1. PICK i \in 1 .. 10, k \in 1 .. 10 : i = Rank(a) /\ k = Rank(s) /\ StepOrder[i] = a /\ StepOrder[k] = s
    BY RankFacts, Zenon
  <2>2. i \in DOMAIN StepOrder /\ k \in DOMAIN StepOrder /\ i < k
    BY <1>2, <2>1, StepFacts, Zenon
  <2>3. IsApplicable(StepOrder[i])
    BY <1>2, <2>1, Zenon
  <2> QED
    BY <2>1, <2>2, <2>3, Zenon DEF Before
<1> QED
  BY <1>1, <1>2, Zenon

LEMMA SameRank == \A a, b \in Steps : Rank(a) = Rank(b) => a = b
  BY RankFacts, Zenon

LEMMA BeforeGrows ==
  ASSUME NEW a \in Steps, NEW b \in Steps, Rank(a) <= Rank(b)
  PROVE  Before(a) \subseteq Before(b)
<1> SUFFICES ASSUME NEW s \in Before(a) PROVE s \in Before(b)
  OBVIOUS
<1>1. s \in Steps /\ IsApplicable(s) /\ Rank(s) < Rank(a)
  BY RankBefore, Zenon
<1>2. Rank(s) \in Int /\ Rank(a) \in Int /\ Rank(b) \in Int
  BY <1>1, RankFacts
<1>3. Rank(s) < Rank(b)
  BY <1>1, <1>2
<1> QED
  BY <1>1, <1>3, RankBefore, Zenon

(* The next step comes after every step up to which everything is done.       *)
LEMMA NextAhead ==
  ASSUME NEW done \in SUBSET Steps, NEW a \in done, Before(a) \subseteq done, NEW s, s = NextStep(done), s # NoStep
  PROVE  s \in Steps /\ Before(s) \subseteq done /\ Rank(a) < Rank(s) /\ Rank(s) \in 1 .. 10 /\ Rank(a) \in 1 .. 10
<1>1. Missing(done) # {} /\ s \in Steps /\ Before(s) \subseteq done
  BY NextStepFacts
<1>2. s \notin done /\ IsApplicable(s)
  <2>1. \A i \in Missing(done) : i \in 1 .. 10 /\ StepOrder[i] \notin done /\ IsApplicable(StepOrder[i])
    BY StepFacts DEF Missing
  <2>2. \E i \in Missing(done) : \A k \in Missing(done) : i <= k
    <3>1. Missing(done) \in SUBSET (1 .. 10)
      BY <2>1
    <3> QED
      BY <1>1, <3>1, LeastOf
  <2>3. \E i \in Missing(done) : s = StepOrder[i]
    BY <1>1, <2>2, Zenon DEF NextStep
  <2> QED
    BY <2>1, <2>3, Zenon
<1>3. a \in Steps
  OBVIOUS
<1>4. ~(Rank(s) < Rank(a))
  BY <1>1, <1>2, <1>3, RankBefore, Zenon
<1>5. s # a
  BY <1>2
<1>6. Rank(s) \in 1 .. 10 /\ Rank(a) \in 1 .. 10 /\ Rank(s) # Rank(a)
  BY <1>1, <1>3, <1>5, RankFacts, SameRank, Zenon
<1> QED
  BY <1>1, <1>4, <1>6

-----------------------------------------------------------------------------
Driving == {"apply", "finish", "writeback", "submit", "link"}
OnCopy == {"finish", "writeback", "submit"}

(* Steps after which the jobs and the rows say no more than before, and the     *)
(* threads that are not in T carry or link only what they carried before.      *)
ThinRows ==
  /\ \A j \in Jobs : /\ job'[j].wf = job[j].wf /\ job'[j].step = job[j].step
                     /\ job'[j].status = "none" <=> job[j].status = "none"
                     /\ job'[j].status \in {"open", "SUCCEEDED"} => job[j].status \in {"open", "SUCCEEDED"}
  /\ heard' = heard
  /\ \A w \in Workflows : /\ wf'[w].step \in {wf[w].step, NoStep}
                          /\ wf'[w].status = "none" => wf'[w] = wf[w]
  /\ acts' = 0 => acts = 0
Thins(T) ==
  /\ ThinRows
  /\ \A u \in Threads \ T : task'[u] = task[u] \/ task'[u].pc \notin Driving
  /\ \A w \in Workflows : wf[w].done \subseteq wf'[w].done \/ \E u \in T : Carries(u, w)

(* The one in T, if any, goes on with what it carried, or with what nobody does. *)
Free(w) == (\A v \in Threads : ~ Carries(v, w)) /\ (\A j \in Jobs : ~ Pending(j, w))
Takes(T) ==
  /\ \A u, v \in T : u = v
  /\ \A u \in T : task'[u].pc \notin {"apply", "link"}
  /\ \A u \in T, w \in Workflows : Carries(u, w)' =>
       /\ Carries(u, w) \/ Free(w)
       /\ \A v \in Threads : Links(v, w) => ~ task[v].marks
       /\ wf'[w].status # "none"

LEMMA ThinFacts ==
  ASSUME NEW T \in SUBSET Threads, Thins(T), Takes(T)
  PROVE  /\ \A u \in Threads \ T, w \in Workflows : Carries(u, w)' => Carries(u, w) /\ task'[u] = task[u]
         /\ \A u \in Threads, w \in Workflows : Links(u, w)' => u \notin T /\ Links(u, w) /\ task'[u] = task[u]
         /\ \A j \in Jobs, w \in Workflows : Pending(j, w)' => Pending(j, w)
<1>1. \A u \in Threads \ T, w \in Workflows : Carries(u, w)' => Carries(u, w) /\ task'[u] = task[u]
  BY Zenon DEF Thins, Carries, Driving
<1>2. \A u \in Threads, w \in Workflows : Links(u, w)' => u \notin T /\ Links(u, w) /\ task'[u] = task[u]
  BY Zenon DEF Thins, Takes, Links, Driving
<1>3. \A j \in Jobs, w \in Workflows : Pending(j, w)' => Pending(j, w)
  BY Zenon DEF Thins, ThinRows, Pending
<1> QED
  BY <1>1, <1>2, <1>3, Zenon

LEMMA ThinCarrier ==
  ASSUME NEW T \in SUBSET Threads, Thins(T), Takes(T), OneCarrier
  PROVE  OneCarrier'
<1> SUFFICES ASSUME NEW w \in Workflows
             PROVE  /\ \A t, u \in Threads : Carries(t, w)' /\ Carries(u, w)' => t = u
                    /\ \A i, j \in Jobs : Pending(i, w)' /\ Pending(j, w)' => i = j
                    /\ \A t \in Threads, j \in Jobs : ~ (Carries(t, w)' /\ Pending(j, w)')
  BY Zenon DEF OneCarrier
<1>1. /\ \A t, u \in Threads : Carries(t, w) /\ Carries(u, w) => t = u
      /\ \A i, j \in Jobs : Pending(i, w) /\ Pending(j, w) => i = j
      /\ \A t \in Threads, j \in Jobs : ~ (Carries(t, w) /\ Pending(j, w))
  BY Zenon DEF OneCarrier
<1>2. \A u \in T : Carries(u, w)' => Carries(u, w) \/ Free(w)
  BY Zenon DEF Takes
<1>3. \A u \in Threads \ T : Carries(u, w)' => Carries(u, w)
  BY ThinFacts, Zenon
<1>4. \A u, v \in T : u = v
  BY Zenon DEF Takes
<1>5. \A j \in Jobs : Pending(j, w)' => Pending(j, w)
  BY ThinFacts, Zenon
<1>6. \A t, u \in Threads : Carries(t, w)' /\ Carries(u, w)' => t = u
  BY <1>1, <1>2, <1>3, <1>4, Zenon DEF Free
<1>7. \A t \in Threads, j \in Jobs : ~ (Carries(t, w)' /\ Pending(j, w)')
  BY <1>1, <1>2, <1>3, <1>5, Zenon DEF Free
<1> QED
  BY <1>1, <1>5, <1>6, <1>7, Zenon

LEMMA ThinUntouched ==
  ASSUME NEW T \in SUBSET Threads, Thins(T), Takes(T), Untouched
  PROVE  Untouched'
<1> SUFFICES ASSUME NEW w \in Workflows, wf'[w].status = "none"
             PROVE  /\ wf'[w].step = NoStep /\ wf'[w].done = {} /\ wf'[w].job = NoJob
                    /\ \A t \in Threads : ~ Carries(t, w)' /\ ~ Links(t, w)'
                    /\ \A j \in Jobs : job'[j].wf # w
  BY Zenon DEF Untouched
<1>1. wf'[w] = wf[w]
  BY Zenon DEF Thins, ThinRows
<1>2. /\ wf[w].step = NoStep /\ wf[w].done = {} /\ wf[w].job = NoJob
      /\ \A t \in Threads : ~ Carries(t, w) /\ ~ Links(t, w)
      /\ \A j \in Jobs : job[j].wf # w
  BY <1>1, Zenon DEF Untouched
<1>3. \A j \in Jobs : job'[j].wf # w
  BY <1>2, Zenon DEF Thins, ThinRows
<1>4. \A t \in Threads : ~ Carries(t, w)'
  BY <1>2, ThinFacts, Zenon DEF Takes
<1> QED
  BY <1>1, <1>2, <1>3, <1>4, ThinFacts, Zenon

LEMMA ThinUpto ==
  ASSUME ThinRows, NEW w, NEW n, NEW k, Upto(w, n, k)
  PROVE  Upto(w, n, k)'
  BY Zenon DEF Upto, ThinRows

LEMMA ThinJob ==
  ASSUME ThinRows, NEW w \in Workflows, NEW j \in Jobs, NEW k, JobStands(j, w, k),
         wf[w].done \subseteq wf'[w].done
  PROVE  JobStands(j, w, k)'
<1>1. Upto(w, Rank(job[j].step), k) /\ Before(job[j].step) \subseteq wf[w].done
  BY Zenon DEF JobStands
<1>2. PICK s, n : s = job[j].step /\ n = Rank(s)
  OBVIOUS
<1>3. job'[j].step = s /\ Rank(job'[j].step) = n
  BY <1>2, Zenon DEF ThinRows
<1>4. Upto(w, n, k)'
  BY <1>1, <1>2, ThinUpto, Zenon
<1>5. Before(s) \subseteq wf'[w].done
  BY <1>1, <1>2
<1> QED
  BY <1>2, <1>3, <1>4, <1>5, Zenon DEF JobStands

LEMMA ThinTask ==
  ASSUME ThinRows, NEW r, NEW k, r.wf \in Workflows, r.step \in Steps \cup {NoStep}, r.pc = "apply" => r.job \in Jobs,
         r.pc \in {"submit", "writeback"} => r.step \in Steps,
         r.pc \in {"submit", "apply"} => wf[r.wf].done \subseteq wf'[r.wf].done, TaskStands(r, k)
  PROVE  TaskStands(r, k)'
<1>1. CASE r.pc \in {"submit", "writeback"}
  <2>1. Upto(r.wf, Rank(r.step) - 1, k)'
    BY <1>1, ThinUpto, Zenon DEF TaskStands
  <2>2. ASSUME r.marks PROVE Rank(wf'[r.wf].step) < Rank(r.step)
    <3>1. Rank(wf[r.wf].step) < Rank(r.step)
      BY <1>1, <2>2, Zenon DEF TaskStands
    <3>2. 0 < Rank(r.step)
      BY <1>1, RankFacts
    <3>3. wf'[r.wf].step = wf[r.wf].step \/ wf'[r.wf].step = NoStep
      BY Zenon DEF ThinRows
    <3> QED
      BY <3>1, <3>2, <3>3, RankFacts, Zenon
  <2>4. r.pc = "submit" => Before(r.step) \subseteq wf'[r.wf].done
    <3>1. r.pc = "submit" => Before(r.step) \subseteq wf[r.wf].done
      BY Zenon DEF TaskStands
    <3> QED
      BY <3>1
  <2>5. r.pc # "apply"
    BY <1>1
  <2> QED
    BY <1>1, <2>1, <2>2, <2>4, <2>5, Zenon DEF TaskStands
<1>2. CASE r.pc = "apply"
  <2>0. wf[r.wf].done \subseteq wf'[r.wf].done
    BY <1>2
  <2>1. JobStands(r.job, r.wf, k)'
    BY <1>2, <2>0, ThinJob, Zenon DEF TaskStands
  <2>2. r.pc \notin {"submit", "writeback"} /\ r.pc # "submit"
    BY <1>2
  <2> QED
    BY <2>1, <2>2, Zenon DEF TaskStands
<1>3. CASE r.pc \notin {"submit", "writeback", "apply"}
  <2>1. r.pc \notin {"submit", "writeback"} /\ r.pc # "submit" /\ r.pc # "apply"
    BY <1>3
  <2> QED
    BY <2>1, Zenon DEF TaskStands
<1> QED
  BY <1>1, <1>2, <1>3

(* What ChainIInv says of the parts of a thread that stand for something.     *)
LEMMA DriverFacts ==
  ASSUME ChainIInv, NEW t \in Threads
  PROVE  /\ task[t].pc \in Driving => task[t].wf \in Workflows
         /\ task[t].pc = "apply" => task[t].job \in Jobs
         /\ task[t].pc \in {"submit", "writeback", "link"} => task[t].step \in Steps
         /\ task[t].step \in Steps \cup {NoStep} /\ task[t].done \in SUBSET Steps
         /\ task[t].pc = "link" => task[t].new \in Jobs
  BY TaskFacts, StepFacts DEF TaskGood, HasJob, RemoteSteps, Driving, Task

LEMMA RestingStands ==
  ASSUME NEW t, NEW k, task'[t].pc \notin Driving
  PROVE  TaskStands(task[t], k)'
<1>1. PICK r : r = task'[t]
  OBVIOUS
<1>2. r.pc \notin {"submit", "writeback"} /\ r.pc # "submit" /\ r.pc # "apply"
  BY <1>1 DEF Driving
<1> QED
  BY <1>1, <1>2, Zenon DEF TaskStands

LEMMA ThinFront ==
  ASSUME ChainIInv, NEW T \in SUBSET Threads, Thins(T), Takes(T), OneCarrier,
         NEW k \in Jobs \cup {NoJob}, Stands(k),
         \A t \in T : TaskStands(task[t], k)'
  PROVE  Stands(k)'
<1>0. ThinRows
  BY Zenon DEF Thins
<1>1. Calls(k)'
  <2>1. (\A i, j \in Jobs \ {k} : SameCall(i, j) => i = j)'
    BY <1>0, Zenon DEF ThinRows, SameCall, Stands, Calls
  <2>3. k # NoJob => job'[k].status # "none"
    BY <1>0, Zenon DEF ThinRows, Stands, Calls
  <2> QED
    BY <2>1, <2>3, Zenon DEF Calls
<1>2. TasksStand(k)'
  <2> SUFFICES ASSUME NEW t \in Threads PROVE TaskStands(task[t], k)'
    BY Zenon DEF TasksStand
  <2>1. CASE t \in T
    BY <2>1
  <2>2. CASE task'[t].pc \notin Driving
    BY <2>2, RestingStands, Zenon
  <2>3. CASE t \notin T /\ task'[t] = task[t] /\ task[t].pc \in Driving
    <3>1. PICK r : r = task[t]
      OBVIOUS
    <3>2. TaskStands(r, k)
      BY <3>1, Zenon DEF Stands, TasksStand
    <3>3. r.wf \in Workflows /\ r.step \in Steps \cup {NoStep} /\ (r.pc = "apply" => r.job \in Jobs)
          /\ (r.pc \in {"submit", "writeback"} => r.step \in Steps)
      BY <2>3, <3>1, DriverFacts
    <3>5. r.pc \in {"submit", "apply"} => wf[r.wf].done \subseteq wf'[r.wf].done
      <4>1. ASSUME r.pc \in {"submit", "apply"}, NEW u \in T, Carries(u, r.wf) PROVE FALSE
        <5>1. Carries(t, r.wf)
          BY <3>1, <4>1 DEF Carries
        <5> QED
          BY <2>3, <3>3, <4>1, <5>1, Zenon DEF OneCarrier
      <4> QED
        BY <3>3, <4>1, Zenon DEF Thins
    <3>4. TaskStands(r, k)'
      BY <1>0, <3>2, <3>3, <3>5, ThinTask, Zenon
    <3> QED
      BY <2>3, <3>1, <3>4, Zenon DEF TaskStands
  <2> QED
    BY <2>1, <2>2, <2>3, Zenon DEF Thins
<1>3. LinksStand(k)'
  <2> SUFFICES ASSUME NEW t \in Threads, task'[t].pc = "link" PROVE LinkStands(t, k)'
    BY Zenon DEF LinksStand, LinkStands
  <2>1. t \notin T /\ task'[t] = task[t] /\ task[t].pc = "link"
    BY Zenon DEF Thins, Takes, Driving
  <2>2. task[t].wf \in Workflows /\ task[t].new \in Jobs /\ task[t].step \in Steps
    BY <2>1, DriverFacts DEF Driving
  <2>3. PICK r : r = task[t]
    OBVIOUS
  <2>4. LinkStands(t, k)
    BY Zenon DEF Stands, LinksStand
  <2>5. /\ r.new # k /\ job[r.new].wf = r.wf /\ job[r.new].step = r.step /\ job[r.new].status # "none"
        /\ \A u \in Threads : task[u].pc = "link" /\ task[u].new = r.new => u = t
    BY <2>1, <2>3, <2>4, Zenon DEF LinkStands
  <2>6. job'[r.new].wf = r.wf /\ job'[r.new].step = r.step /\ job'[r.new].status # "none"
    BY <1>0, <2>2, <2>3, <2>5, Zenon DEF ThinRows
  <2>7. \A u \in Threads : task'[u].pc = "link" /\ task'[u].new = r.new => u = t
    BY <2>5, Zenon DEF Thins, Takes, Driving
  <2>8. ASSUME r.marks
        PROVE  /\ wf'[r.wf].step # r.step
               /\ \A u \in Threads : Carries(u, r.wf)' => Handles(u, r.new)'
               /\ \A i \in Jobs : Pending(i, r.wf)' => i = r.new
    <3>1. /\ wf[r.wf].step # r.step
          /\ \A u \in Threads : Carries(u, r.wf) => Handles(u, r.new)
          /\ \A i \in Jobs : Pending(i, r.wf) => i = r.new
      BY <2>1, <2>3, <2>4, <2>8, Zenon DEF LinkStands
    <3>2. wf'[r.wf].step # r.step
      BY <1>0, <2>2, <2>3, <3>1, StepFacts, Zenon DEF ThinRows
    <3>3. \A u \in T : ~ Carries(u, r.wf)'
      BY <2>1, <2>2, <2>3, <2>8, Zenon DEF Takes, Links
    <3>4. \A u \in Threads : Carries(u, r.wf)' => Handles(u, r.new)'
      <4> SUFFICES ASSUME NEW u \in Threads, Carries(u, r.wf)' PROVE Handles(u, r.new)'
        OBVIOUS
      <4>1. u \in Threads \ T
        BY <3>3
      <4>2. Carries(u, r.wf) /\ task'[u] = task[u]
        BY <2>2, <2>3, <4>1, ThinFacts
      <4>3. Handles(u, r.new)
        BY <3>1, <4>2
      <4> QED
        BY <4>2, <4>3, Zenon DEF Handles
    <3> QED
      BY <2>2, <2>3, <3>1, <3>2, <3>4, ThinFacts, Zenon
  <2> QED
    BY <2>1, <2>3, <2>5, <2>6, <2>7, <2>8, Zenon DEF LinkStands
<1>4. PendingStand(k)'
  <2> SUFFICES ASSUME NEW w \in Workflows, NEW j \in Jobs, Pending(j, w)' PROVE JobStands(j, w, k)'
    BY Zenon DEF PendingStand
  <2>1. Pending(j, w)
    BY ThinFacts, Zenon
  <2>2. wf[w].done \subseteq wf'[w].done
    BY <2>1, Zenon DEF Thins, OneCarrier
  <2> QED
    BY <1>0, <2>1, <2>2, ThinJob, Zenon DEF Stands, PendingStand
<1> QED
  BY <1>1, <1>2, <1>3, <1>4, Zenon DEF Stands

(* Without a thread of its own a step only thins.                             *)
LEMMA NobodyTakes == Takes({})
  BY DEF Takes

(* Handlers stay apart as long as no job is revived, and none goes whose        *)
(* handler goes on.                                                          *)
HandlersHold ==
  /\ \A u \in Threads : task'[u].job # NoJob => task'[u].job = task[u].job
  /\ heard' = heard
  /\ \A j \in Jobs : /\ job'[j].status = "gone" => job[j].status = "gone" \/ \A u \in Threads : task'[u].job # j
                     /\ job'[j].status = "open" => job[j].status = "open"

LEMMA HandlersKeep ==
  ASSUME ChainIInv, ThinRows, HandlersHold, HandlersApart
  PROVE  HandlersApart'
<1>1. \A u \in Threads : task'[u].job # NoJob => task'[u].job = task[u].job
  BY Zenon DEF HandlersHold
<1>2. \A u, v \in Threads : task'[u].job = task'[v].job /\ task'[u].job # NoJob => u = v
  BY <1>1, Zenon DEF HandlersApart
<1>3. ASSUME NEW u \in Threads, task'[u].job # NoJob
      PROVE  task'[u].job \in heard' /\ job'[task'[u].job].status # "gone"
  <2>1. PICK j : j = task'[u].job
    OBVIOUS
  <2>2. j = task[u].job /\ j # NoJob
    BY <1>1, <1>3, <2>1, Zenon
  <2>3. j \in heard /\ job[j].status # "gone"
    BY <2>2, Zenon DEF HandlersApart
  <2>4. j \in Jobs
    BY <2>3 DEF ChainIInv, TypeOK
  <2>5. job'[j].status # "gone"
    BY <2>1, <2>3, <2>4, Zenon DEF HandlersHold
  <2> QED
    BY <2>1, <2>3, <2>5, Zenon DEF HandlersHold
<1>4. ASSUME NEW j \in heard' PROVE job'[j].status \notin {"none", "open"}
  <2>1. j \in heard /\ j \in Jobs
    BY <1>4 DEF HandlersHold, ChainIInv, TypeOK
  <2>2. job[j].status # "none" /\ job[j].status # "open"
    BY <2>1, Zenon DEF HandlersApart
  <2> QED
    BY <2>1, <2>2, Zenon DEF ThinRows, HandlersHold
<1>5. \A j \in Jobs : job'[j].status = "none" => job'[j].wf = 0
  BY Zenon DEF HandlersApart, ThinRows
<1> QED
  BY <1>2, <1>3, <1>4, <1>5, Zenon DEF HandlersApart

(* What is left of the invariant when a step only thins.                      *)
LEMMA ThinKeeps ==
  ASSUME ChainIInv, Baton, NEW T \in SUBSET Threads, Thins(T), Takes(T), HandlersHold,
         \A k \in Jobs \cup {NoJob}, t \in T : Stands(k) => TaskStands(task[t], k)',
         acts' = 0 => Alone'
  PROVE  Baton'
<1>1. OneCarrier /\ HandlersApart /\ Untouched /\ ThinRows
  BY Zenon DEF Baton, Thins
<1>2. PICK k \in Jobs \cup {NoJob} : Stands(k) /\ (acts = 0 => k = NoJob)
  BY Zenon DEF Baton
<1>3. Stands(k)'
  BY <1>1, <1>2, ThinFront, Zenon
<1>5. acts' = 0 => k = NoJob
  BY <1>1, <1>2, Zenon DEF ThinRows
<1>4. OneCarrier' /\ Untouched' /\ HandlersApart'
  BY <1>1, ThinCarrier, ThinUntouched, HandlersKeep
<1> QED
  BY <1>3, <1>4, <1>5, Zenon DEF Baton

-----------------------------------------------------------------------------
(* A step after which the threads in T rest, and the others are where they were. *)
LettingGo == {"idle", "erase", "unlink", "drop", "blame", "reconcile"}
Still(w) ==
  /\ wf[w].status \in {"waiting", "failed", "deleted"}
  /\ \A t \in Threads : ~ Carries(t, w) /\ ~ Links(t, w)
  /\ \A j \in Jobs : ~ Pending(j, w)
LetsGo(u) ==
  /\ task[u].pc # "link" /\ task'[u].pc \in LettingGo
  /\ task'[u].pc = "reconcile" => Still(task'[u].wf)
  /\ task'[u].marks = TRUE \/ task'[u].marks = task[u].marks
  /\ task'[u].job # NoJob => task'[u].job = task[u].job
KeepsSuccess ==
  \A u \in Threads : task'[u].job # NoJob /\ job[task[u].job].status = "SUCCEEDED"
                       => job'[task[u].job].status = "SUCCEEDED"

(* A row that changes is one with which no thread goes on, or ends there.      *)
Answered(j, w) == Pending(j, w) \/ (job[j].wf = w /\ \E u \in Threads : Handles(u, j))
Settled(T, w) ==
  /\ \A u \in Threads \ T : ~ (task[u].pc \in OnCopy \cup {"link"} /\ task[u].wf = w)
  /\ wf'[w].status \in Active => wf[w].status \in Active
  /\ wf'[w].status = "failed" => Still(w)
  /\ Still(w) => wf'[w].status \in {"waiting", "failed", "deleted"}
  /\ wf'[w].status \in {"waiting", "failed"} =>
       wf[w].status \in {"waiting", "failed"} /\ wf'[w].step = wf[w].step /\ wf'[w].done = wf[w].done
  /\ \A j \in Jobs : Answered(j, w)' => ~ WaitsFor(w, j) \/ WaitsFor(w, j)'
Settles(T) ==
  /\ \A u \in T : LetsGo(u)
  /\ \A u \in Threads \ T : task'[u] = task[u]
  /\ KeepsSuccess
  /\ \A w \in Workflows : wf'[w] = wf[w] \/ Settled(T, w)

LEMMA SettleFacts ==
  ASSUME NEW T \in SUBSET Threads, ThinRows, Settles(T)
  PROVE  /\ \A u \in Threads : task'[u].pc \in Driving \cup {"abort"} => u \notin T /\ task'[u] = task[u]
         /\ \A u \in Threads, w \in Workflows : Carries(u, w)' => Carries(u, w)
         /\ \A u \in Threads, w \in Workflows : Links(u, w)' <=> Links(u, w)
         /\ \A u \in Threads, w \in Workflows : Links(u, w) => task'[u] = task[u]
         /\ \A j \in Jobs, w \in Workflows : Pending(j, w)' => Pending(j, w)
         /\ \A u \in Threads, j \in Jobs : Handles(u, j)' => Handles(u, j)
         /\ \A j \in Jobs, w \in Workflows : LinkedBy(j, w) => LinkedBy(j, w)'
<1>1. \A u \in Threads : task'[u].pc \in Driving \cup {"abort"} => u \notin T /\ task'[u] = task[u]
  BY DEF Settles, LetsGo, LettingGo, Driving
<1>2. \A u \in Threads, w \in Workflows : Carries(u, w)' => Carries(u, w)
  BY <1>1, Zenon DEF Carries, Driving
<1>3. \A u \in Threads, w \in Workflows : Links(u, w) => task'[u] = task[u]
  BY Zenon DEF Links, Settles, LetsGo
<1>4. \A u \in Threads, w \in Workflows : Links(u, w)' <=> Links(u, w)
  BY <1>1, <1>3, Zenon DEF Links, Driving
<1>5. \A j \in Jobs, w \in Workflows : Pending(j, w)' => Pending(j, w)
  BY Zenon DEF Pending, ThinRows
<1>6. \A u \in Threads, j \in Jobs : Handles(u, j)' => Handles(u, j)
  BY <1>1, Zenon DEF Handles, Driving
<1>7. \A j \in Jobs, w \in Workflows : LinkedBy(j, w) => LinkedBy(j, w)'
  BY <1>3, <1>4, Zenon DEF LinkedBy
<1> QED
  BY <1>1, <1>2, <1>3, <1>4, <1>5, <1>6, <1>7, Zenon

LEMMA SettleTask ==
  ASSUME ChainIInv, NEW T \in SUBSET Threads, ThinRows, Settles(T), TasksAlone, NEW u \in Threads
  PROVE  AloneTask(task[u])'
<1>1. CASE u \in T
  <2>1. PICK r : r = task'[u]
    OBVIOUS
  <2>2. LetsGo(u)
    BY <1>1, Zenon DEF Settles
  <2>3. /\ r.pc # "abort" /\ r.pc \notin {"finish", "writeback", "submit", "link"} /\ r.pc # "link"
    BY <2>1, <2>2 DEF LetsGo, LettingGo
  <2>4. r.marks
    BY <2>1, <2>2, Zenon DEF LetsGo, TasksAlone, AloneTask
  <2>5. r.job # NoJob => job'[r.job].status = "SUCCEEDED"
    <3>1. r.job # NoJob => r.job = task[u].job
      BY <2>1, <2>2, Zenon DEF LetsGo
    <3>2. task[u].job # NoJob => job[task[u].job].status = "SUCCEEDED"
      BY Zenon DEF TasksAlone, AloneTask
    <3> QED
      BY <2>1, <3>1, <3>2, Zenon DEF Settles, KeepsSuccess
  <2> QED
    BY <2>1, <2>3, <2>4, <2>5, Zenon DEF AloneTask
<1>2. CASE u \notin T
  <2>1. PICK r : r = task[u] /\ r = task'[u]
    BY <1>2, Zenon DEF Settles
  <2>2. AloneTask(r)
    BY <2>1, Zenon DEF TasksAlone
  <2>3. r.job # NoJob => job'[r.job].status = "SUCCEEDED"
    BY <2>1, <2>2, Zenon DEF AloneTask, Settles, KeepsSuccess
  <2>4. r.pc \in {"finish", "writeback", "submit", "link"} => r.wf \in Workflows
    BY <2>1, DriverFacts DEF Driving
  <2>5. r.pc \in {"finish", "writeback", "submit", "link"} => wf'[r.wf] = wf[r.wf]
    <3>1. r.pc \in {"finish", "writeback", "submit", "link"} => r.pc \in OnCopy \cup {"link"}
      BY DEF OnCopy
    <3> QED
      BY <1>2, <2>1, <2>4, <3>1, Zenon DEF Settles, Settled
  <2>6. ASSUME r.pc = "link" PROVE Upto(r.wf, Rank(r.step), NoJob)'
    BY <2>2, <2>6, Zenon DEF AloneTask, Upto, ThinRows
  <2>7. r.pc = "link" => r.pc \in {"finish", "writeback", "submit", "link"}
    OBVIOUS
  <2> QED
    BY <2>1, <2>2, <2>3, <2>5, <2>6, <2>7, Zenon DEF AloneTask
<1> QED
  BY <1>1, <1>2

LEMMA SettleAlone ==
  ASSUME ChainIInv, NEW T \in SUBSET Threads, ThinRows, Settles(T), Alone
  PROVE  Alone'
<1>1. TasksAlone'
  BY SettleTask, Zenon DEF TasksAlone, Alone
<1>2. LinksAlone'
  BY SettleFacts, Zenon DEF Alone, LinksAlone
<1>3. ActiveAlone'
  <2>1. \A w \in Workflows : wf'[w].status \in Active => wf[w].status \in Active
    BY Zenon DEF Settles, Settled
  <2> QED
    BY <2>1, Zenon DEF Alone, ActiveAlone
<1>4. CarrierKnown'
  <2> SUFFICES ASSUME NEW w \in Workflows, NEW j \in Jobs, Answered(j, w)'
               PROVE  LinkedBy(j, w)' \/ WaitsFor(w, j)'
    BY Zenon DEF CarrierKnown, Answered
  <2>1. Answered(j, w)
    BY SettleFacts, Zenon DEF Answered, ThinRows
  <2>2. LinkedBy(j, w) \/ WaitsFor(w, j)
    BY <2>1, Zenon DEF Alone, CarrierKnown, Answered
  <2>3. WaitsFor(w, j) => WaitsFor(w, j)'
    <3>1. job'[j].step = job[j].step
      BY Zenon DEF ThinRows
    <3>2. CASE wf'[w] = wf[w]
      BY <3>1, <3>2, Zenon DEF WaitsFor
    <3>3. CASE Settled(T, w)
      BY <3>3, Zenon DEF Settled
    <3> QED
      BY <3>2, <3>3, Zenon DEF Settles
  <2> QED
    BY <2>2, <2>3, SettleFacts, Zenon
<1>5. StuckAlone'
  <2>0. \A w \in Workflows : Stuck(w) => Still(w)
    BY Zenon DEF Alone, StuckAlone, Still
  <2> SUFFICES ASSUME NEW w \in Workflows, Stuck(w)'
               PROVE  /\ wf'[w].status \in {"waiting", "failed", "deleted"}
                      /\ \A u \in Threads : ~ Carries(u, w)' /\ ~ Links(u, w)'
                      /\ \A j \in Jobs : ~ Pending(j, w)'
    BY Zenon DEF StuckAlone
  <2>1. wf'[w].status = "failed" => Still(w)
    BY <2>0, Zenon DEF Settles, Settled, Stuck
  <2>2. Still(w)
    <3>1. ASSUME NEW u \in Threads, task'[u].pc = "reconcile", task'[u].wf = w PROVE Still(w)
      <4>1. CASE task'[u] = task[u]
        BY <2>0, <3>1, <4>1, Zenon DEF Stuck
      <4>2. CASE LetsGo(u)
        BY <3>1, <4>2, Zenon DEF LetsGo
      <4> QED
        BY <4>1, <4>2, Zenon DEF Settles
    <3> QED
      BY <2>1, <3>1, Zenon DEF Stuck
  <2>3. /\ wf[w].status \in {"waiting", "failed", "deleted"}
        /\ \A u \in Threads : ~ Carries(u, w) /\ ~ Links(u, w)
        /\ \A j \in Jobs : ~ Pending(j, w)
    BY <2>2, Zenon DEF Still
  <2>4. wf'[w].status \in {"waiting", "failed", "deleted"}
    BY <2>2, <2>3, Zenon DEF Settles, Settled
  <2> QED
    BY <2>3, <2>4, SettleFacts, Zenon
<1>6. RowsStand'
  <2> SUFFICES ASSUME NEW w \in Workflows, wf'[w].status \in {"waiting", "failed"} PROVE RowFront(w)'
    BY Zenon DEF RowsStand
  <2>1. wf[w].status \in {"waiting", "failed"} /\ wf'[w].step = wf[w].step /\ wf'[w].done = wf[w].done
    BY Zenon DEF Settles, Settled
  <2>2. RowFront(w)
    BY <2>1, Zenon DEF Alone, RowsStand
  <2>3. PICK s, done : s = wf[w].step /\ done = wf[w].done
    OBVIOUS
  <2>4. \A i \in Jobs : job[i].wf = w => Rank(job[i].step) <= Rank(s) \/ LinkedBy(i, w)
    BY <2>2, <2>3, Zenon DEF RowFront
  <2>5. \A i \in Jobs : job'[i].wf = w => Rank(job'[i].step) <= Rank(s) \/ LinkedBy(i, w)'
    BY <2>4, SettleFacts, Zenon DEF ThinRows
  <2>6. s \in RemoteSteps /\ Before(s) \subseteq done
    BY <2>2, <2>3, Zenon DEF RowFront
  <2> QED
    BY <2>1, <2>3, <2>5, <2>6, Zenon DEF RowFront
<1> QED
  BY <1>1, <1>2, <1>3, <1>4, <1>5, <1>6, Zenon DEF Alone

(* A step that thins what there is and lets go of what is settled keeps all.   *)
LEMMA SettleKeeps ==
  ASSUME ChainIInv, Baton, NEW T \in SUBSET Threads, ThinRows, HandlersHold,
         \A u \in Threads : task'[u] = task[u] \/ task'[u].pc \notin Driving,
         \A w \in Workflows : wf[w].done \subseteq wf'[w].done,
         acts' = 0 => Settles(T)
  PROVE  Baton'
<1>1. Thins({}) /\ Takes({})
  BY NobodyTakes, Zenon DEF Thins
<1>2. acts' = 0 => Alone'
  BY SettleAlone, Zenon DEF Baton, ThinRows
<1>3. {} \in SUBSET Threads
  OBVIOUS
<1>4. \A k \in Jobs \cup {NoJob}, t \in {} : Stands(k) => TaskStands(task[t], k)'
  OBVIOUS
<1> QED
  BY <1>1, <1>2, <1>3, <1>4, ThinKeeps

-----------------------------------------------------------------------------
(* The steps, one by one.                                                    *)
LEMMA NoFault ==
  ASSUME ChainIInv, Calm', Fault
  PROVE  FALSE
  BY BoundAssumption DEF ChainIInv, TypeOK, Fault, Calm

LEMMA OneGoes ==
  ASSUME ChainIInv, NEW t \in Threads, NEW r, Goto(t, r)
  PROVE  task'[t] = r /\ \A u \in Threads \ {t} : task'[u] = task[u]
  BY DEF ChainIInv, TypeOK, Goto

LEMMA IdleFields == Idle.pc = "idle" /\ Idle.job = NoJob /\ Idle.marks = TRUE
  BY DEF Idle

(* A thread that leaves the chain.                                           *)
Rests(t) ==
  /\ \A u \in Threads \ {t} : task'[u] = task[u]
  /\ task'[t].pc \in LettingGo
  /\ task'[t].marks = TRUE \/ task'[t].marks = task[t].marks
  /\ task'[t].job # NoJob => task'[t].job = task[t].job

LEMMA StopRests ==
  ASSUME ChainIInv, NEW t \in Threads, Stop(t)
  PROVE  Rests(t) /\ task'[t].job = NoJob /\ task'[t].pc = "idle"
<1>1. task'[t] = Idle /\ \A u \in Threads \ {t} : task'[u] = task[u]
  BY OneGoes DEF Stop
<1>2. task'[t].pc = "idle" /\ task'[t].job = NoJob /\ task'[t].marks = TRUE
  BY <1>1, IdleFields, Zenon
<1> QED
  BY <1>1, <1>2 DEF Rests, LettingGo

LEMMA MoveRests ==
  ASSUME ChainIInv, NEW t \in Threads, NEW p \in {"erase", "blame", "unlink", "drop"}, Move(t, p)
  PROVE  Rests(t) /\ task'[t].pc = p
<1>1. PICK r : r = [task[t] EXCEPT !.pc = p]
  OBVIOUS
<1>2. task'[t] = r /\ \A u \in Threads \ {t} : task'[u] = task[u]
  BY <1>1, OneGoes DEF Move
<1>3. r.pc = p /\ r.job = task[t].job
  BY <1>1, TaskFacts DEF Task
<1>4. r.marks = task[t].marks
  <2>1. PICK q \in Task : q = task[t]
    BY TaskFacts
  <2>2. "marks" \in DOMAIN q
    BY DEF Task
  <2> QED
    BY <1>1, <2>1, <2>2, Zenon
<1>5. p \in LettingGo
  BY DEF LettingGo
<1> QED
  BY <1>2, <1>3, <1>4, <1>5, Zenon DEF Rests

LEMMA ReturnRests ==
  ASSUME ChainIInv, NEW t \in Threads, Returns(t) \/ Raises(t)
  PROVE  Rests(t) /\ task'[t].pc # "reconcile"
<1>1. CASE Stop(t)
  BY <1>1, StopRests
<1>2. CASE Move(t, "erase") \/ Move(t, "blame")
  BY <1>2, MoveRests
<1> QED
  BY <1>1, <1>2 DEF Returns, Raises

(* Rows that change, change their step to nothing if at all.                 *)
LEMMA RowsThin ==
  ASSUME job' = job, heard' = heard, acts' = acts,
         \A w \in Workflows : wf'[w] = wf[w] \/ (wf'[w].status # "none" /\ wf'[w].step \in {wf[w].step, NoStep})
  PROVE  ThinRows
  BY Zenon DEF ThinRows

LEMMA RestHolds ==
  ASSUME NEW t \in Threads, Rests(t), job' = job, heard' = heard
  PROVE  /\ HandlersHold
         /\ \A u \in Threads : task'[u] = task[u] \/ task'[u].pc \notin Driving
<1>1. task'[t].pc \notin Driving
  BY DEF Rests, LettingGo, Driving
<1> QED
  BY <1>1, Zenon DEF Rests, HandlersHold

LEMMA RestSettles ==
  ASSUME NEW t \in Threads, Rests(t), task[t].pc # "link", task'[t].pc = "reconcile" => Still(task'[t].wf), job' = job,
         \A w \in Workflows : wf'[w] = wf[w] \/ Settled({t}, w)
  PROVE  Settles({t})
  BY Zenon DEF Rests, LetsGo, Settles, KeepsSuccess

(* A thread that goes and leaves everything as it was.                       *)
LEMMA RestKeeps ==
  ASSUME ChainIInv, Baton, NEW t \in Threads, Rests(t), UNCHANGED <<wf, job, heard>>, acts' = acts \/ acts' # 0,
         acts' = 0 => task[t].pc # "link" /\ (task'[t].pc = "reconcile" => Still(task'[t].wf))
  PROVE  Baton'
<1>1. wf' = wf /\ job' = job /\ heard' = heard
  OBVIOUS
<1>2. ThinRows
  BY <1>1, Zenon DEF ThinRows
<1>3. \A w \in Workflows : wf[w].done \subseteq wf'[w].done
  BY <1>1
<1>4. acts' = 0 => Settles({t})
  BY <1>1, RestSettles, Zenon
<1>5. {t} \in SUBSET Threads
  OBVIOUS
<1> QED
  BY <1>1, <1>2, <1>3, <1>4, <1>5, RestHolds, SettleKeeps

LEMMA ApplyIgnoresPasses ==
  ASSUME ChainIInv, Baton, NEW t \in Threads, ApplyIgnores(t)
  PROVE  Baton'
<1>1. task[t].pc = "apply" /\ Returns(t) /\ UNCHANGED <<wf, job, heard, acts>>
  BY DEF ApplyIgnores, At
<1>2. task[t].pc # "link"
  BY <1>1
<1> QED
  BY <1>1, <1>2, ReturnRests, RestKeeps

LEMMA ErasePasses ==
  ASSUME ChainIInv, Baton, NEW t \in Threads, Erase(t)
  PROVE  Baton'
<1>1. task[t].pc = "erase" /\ (Move(t, "unlink") \/ Stop(t)) /\ UNCHANGED <<wf, job, heard, acts>>
  BY DEF Erase, At
<1>2. task[t].pc # "link"
  BY <1>1
<1>3. Rests(t) /\ task'[t].pc # "reconcile"
  BY <1>1, StopRests, MoveRests
<1> QED
  BY <1>1, <1>2, <1>3, RestKeeps

LEMMA AbortReadsPasses ==
  ASSUME ChainIInv, Baton, NEW t \in Threads, NEW w \in Workflows, AbortReads(t, w)
  PROVE  Baton'
<1>1. acts' # 0 /\ UNCHANGED <<wf, job, heard>>
  BY BoundAssumption DEF AbortReads, Act, ChainIInv, TypeOK
<1>2. PICK n \in Jobs \cup {NoJob} : Goto(t, [Idle EXCEPT !.pc = "abort", !.wf = w, !.new = n])
  <2>1. wf[w].job \in Jobs \cup {NoJob}
    BY DEF ChainIInv, TypeOK, Workflow
  <2> QED
    BY <2>1 DEF AbortReads
<1> DEFINE r == [Idle EXCEPT !.pc = "abort", !.wf = w, !.new = n]
<1>3. Goto(t, r) /\ r.pc = "abort" /\ r.job = NoJob
  BY <1>2 DEF Idle
<1> HIDE DEF r
<1>4. task'[t] = r /\ \A u \in Threads \ {t} : task'[u] = task[u]
  BY <1>3, OneGoes
<1>5. \A u \in Threads : task'[u] = task[u] \/ task'[u].pc \notin Driving
  BY <1>3, <1>4 DEF Driving
<1>6. HandlersHold
  BY <1>1, <1>3, <1>4, Zenon DEF HandlersHold
<1>7. ThinRows
  BY <1>1, Zenon DEF ThinRows
<1>8. \A v \in Workflows : wf[v].done \subseteq wf'[v].done
  BY <1>1
<1>9. {t} \in SUBSET Threads
  OBVIOUS
<1> QED
  BY <1>1, <1>5, <1>6, <1>7, <1>8, <1>9, SettleKeeps

LEMMA BlamePasses ==
  ASSUME ChainIInv, Baton, NEW t \in Threads, Blame(t)
  PROVE  Baton'
<1>1. /\ task[t].job \in Jobs /\ task[t].pc = "blame" /\ wf' = wf /\ heard' = heard /\ acts' = acts
      /\ \/ job' = [job EXCEPT ![task[t].job].status = "FAILED"] /\ Exists(task[t].job)
         \/ job' = job
  BY TaskFacts DEF Blame, At, TaskGood, HasJob
<1>2. PICK j \in Jobs : j = task[t].job
  BY <1>1
<1>3. /\ \A i \in Jobs : job'[i].wf = job[i].wf /\ job'[i].step = job[i].step
      /\ \A i \in Jobs \ {j} : job'[i].status = job[i].status
      /\ job'[j].status = job[j].status \/ (job'[j].status = "FAILED" /\ job[j].status # "none")
  BY <1>1, <1>2 DEF ChainIInv, TypeOK, Job, Exists
<1>4. Rests(t) /\ task'[t].job = NoJob /\ task'[t].pc = "idle"
  BY StopRests DEF Blame
<1>5. ThinRows
  BY <1>1, <1>3 DEF ThinRows
<1>6. HandlersHold
  BY <1>1, <1>3, <1>4 DEF HandlersHold, Rests
<1>7. \A u \in Threads : task'[u] = task[u] \/ task'[u].pc \notin Driving
  BY <1>4 DEF Rests, Driving
<1>8. Settles({t})
  <2>1. KeepsSuccess
    <3> SUFFICES ASSUME NEW u \in Threads, task'[u].job # NoJob, job[task[u].job].status = "SUCCEEDED"
                 PROVE  job'[task[u].job].status = "SUCCEEDED"
      BY DEF KeepsSuccess
    <3>1. u # t /\ task[u].job # NoJob
      BY <1>4 DEF Rests
    <3>2. task[u].job # j /\ task[u].job \in Jobs
      BY <1>2, <3>1, TaskFacts DEF Baton, HandlersApart, Task
    <3> QED
      BY <1>3, <3>2
  <2>2. LetsGo(t)
    BY <1>1, <1>4 DEF LetsGo, Rests
  <2> QED
    BY <1>1, <1>4, <2>1, <2>2 DEF Settles, Rests
<1>9. \A w \in Workflows : wf[w].done \subseteq wf'[w].done
  BY <1>1
<1>10. {t} \in SUBSET Threads
  OBVIOUS
<1> QED
  BY <1>5, <1>6, <1>7, <1>8, <1>9, <1>10, SettleKeeps

(* The handler's job, and the workflow that waits for it, have nobody else.    *)
LEMMA NobodyElse ==
  ASSUME ChainIInv, Baton, acts = 0, NEW t \in Threads, task[t].pc \notin Driving, task[t].job \in Jobs,
         \A u \in Threads \ {t} : task'[u] = task[u], task'[t].pc \in LettingGo, heard' = heard,
         NEW w \in Workflows, wf[w].job = task[t].job
  PROVE  /\ \A u \in Threads \ {t} : ~ (task[u].pc \in OnCopy \cup {"link"} /\ task[u].wf = w)
         /\ \A j \in Jobs : Answered(j, w)' => ~ WaitsFor(w, j)
<1>1. task[t].job # NoJob /\ task[t].job \in heard
  BY DEF Baton, HandlersApart, Jobs, NoJob
<1>2. \A u \in Threads \ {t} : task[u].job # task[t].job
  BY <1>1, Zenon DEF Baton, HandlersApart
<1>3. ASSUME NEW u \in Threads \ {t}, task[u].pc \in OnCopy \cup {"link"}, task[u].wf = w PROVE FALSE
  <2>1. AloneTask(task[u])
    BY Zenon DEF Baton, Alone, TasksAlone
  <2>2. task[u].pc \in {"finish", "writeback", "submit", "link"}
    BY <1>3 DEF OnCopy
  <2>3. wf[w].job = NoJob \/ wf[w].job = task[u].job
    BY <1>3, <2>1, <2>2, Zenon DEF AloneTask
  <2> QED
    BY <1>1, <1>2, <2>3
<1>4. ASSUME NEW j \in Jobs, Answered(j, w)', WaitsFor(w, j) PROVE FALSE
  <2>1. j = task[t].job
    BY <1>4, Zenon DEF WaitsFor
  <2>2. j \in heard'
    BY <1>1, <2>1
  <2>3. PICK u \in Threads : Handles(u, j)'
    BY <1>4, <2>2, Zenon DEF Answered, Pending
  <2>4. u # t
    BY <2>3 DEF Handles, LettingGo
  <2> QED
    BY <1>2, <2>1, <2>3, <2>4 DEF Handles
<1> QED
  BY <1>3, <1>4

LEMMA UnlinkPasses ==
  ASSUME ChainIInv, Baton, NEW t \in Threads, Unlink(t)
  PROVE  Baton'
<1>1. /\ task[t].job \in Jobs /\ task[t].pc = "unlink" /\ job' = job /\ heard' = heard /\ acts' = acts
  BY TaskFacts DEF Unlink, At, TaskGood, HasJob
<1>2. \A w \in Workflows :
        IF wf[w].job = task[t].job
        THEN wf'[w].status = "deleted" /\ wf'[w].step = wf[w].step /\ wf'[w].done = wf[w].done
        ELSE wf'[w] = wf[w]
  BY DEF Unlink, ChainIInv, TypeOK, Workflow
<1>3. Rests(t) /\ task'[t].pc = "drop"
  BY MoveRests DEF Unlink
<1>4. ThinRows
  <2>1. \A w \in Workflows : wf'[w] = wf[w] \/ (wf'[w].status # "none" /\ wf'[w].step \in {wf[w].step, NoStep})
    BY <1>2
  <2> QED
    BY <1>1, <2>1, RowsThin
<1>5. acts' = 0 => Settles({t})
  <2> SUFFICES ASSUME acts = 0, NEW w \in Workflows, wf[w].job = task[t].job PROVE Settled({t}, w)
    BY <1>1, <1>2, <1>3, RestSettles
  <2>1. task[t].pc \notin Driving
    BY <1>1 DEF Driving
  <2>2. /\ \A u \in Threads \ {t} : ~ (task[u].pc \in OnCopy \cup {"link"} /\ task[u].wf = w)
        /\ \A j \in Jobs : Answered(j, w)' => ~ WaitsFor(w, j)
    BY <1>1, <1>3, <2>1, NobodyElse, Zenon DEF Rests
  <2>3. wf'[w].status = "deleted" /\ wf'[w].step = wf[w].step /\ wf'[w].done = wf[w].done
    BY <1>2
  <2>4. /\ wf'[w].status \notin Active /\ wf'[w].status # "failed" /\ wf'[w].status \in {"waiting", "failed", "deleted"}
        /\ wf'[w].status \notin {"waiting", "failed"}
    BY <2>3 DEF Active
  <2> QED
    BY <2>2, <2>3, <2>4, Zenon DEF Settled
<1>6. \A w \in Workflows : wf[w].done \subseteq wf'[w].done
  BY <1>2
<1>7. {t} \in SUBSET Threads
  OBVIOUS
<1> QED
  BY <1>1, <1>3, <1>4, <1>5, <1>6, <1>7, RestHolds, SettleKeeps

LEMMA DropPasses ==
  ASSUME ChainIInv, Baton, NEW t \in Threads, Drop(t)
  PROVE  Baton'
<1>1. /\ task[t].job \in Jobs /\ task[t].pc = "drop" /\ heard' = heard /\ acts' = acts
      /\ job' = [job EXCEPT ![task[t].job].status = "gone"]
  BY TaskFacts DEF Drop, At, TaskGood, HasJob
<1>2. PICK j \in Jobs : j = task[t].job
  BY <1>1
<1>3. /\ \A i \in Jobs : job'[i].wf = job[i].wf /\ job'[i].step = job[i].step
      /\ \A i \in Jobs \ {j} : job'[i].status = job[i].status
      /\ job'[j].status = "gone"
  BY <1>1, <1>2 DEF ChainIInv, TypeOK, Job
<1>4. Rests(t) /\ task'[t].job = NoJob /\ task'[t].pc = "idle"
  BY StopRests DEF Drop
<1>5. job[j].status # "none" /\ \A u \in Threads \ {t} : task[u].job # j
  BY <1>2 DEF Baton, HandlersApart, Jobs, NoJob
<1>6. \A w \in Workflows : /\ wf'[w].status = wf[w].status /\ wf'[w].step = wf[w].step /\ wf'[w].done = wf[w].done
                           /\ wf[w].job # j => wf'[w] = wf[w]
  BY <1>2 DEF Drop, ChainIInv, TypeOK, Workflow
<1>7. ThinRows
  <2>1. \A w \in Workflows : /\ wf'[w].step \in {wf[w].step, NoStep}
                             /\ wf'[w].status = "none" => wf'[w] = wf[w]
    <3> SUFFICES ASSUME NEW w \in Workflows, wf'[w].status = "none" PROVE wf'[w] = wf[w]
      BY <1>6
    <3>1. wf[w].job = NoJob
      BY <1>6 DEF Baton, Untouched
    <3> QED
      BY <1>6, <3>1 DEF Jobs, NoJob
  <2>2. \A i \in Jobs : /\ job'[i].status = "none" <=> job[i].status = "none"
                        /\ job'[i].status \in {"open", "SUCCEEDED"} => job[i].status \in {"open", "SUCCEEDED"}
    BY <1>3, <1>5
  <2> QED
    BY <1>1, <1>3, <2>1, <2>2, Zenon DEF ThinRows
<1>8. HandlersHold
  BY <1>1, <1>3, <1>4, <1>5 DEF HandlersHold, Rests, Jobs, NoJob
<1>9. \A u \in Threads : task'[u] = task[u] \/ task'[u].pc \notin Driving
  BY <1>4 DEF Rests, Driving
<1>10. acts' = 0 => Settles({t})
  <2> SUFFICES ASSUME acts = 0 PROVE Settles({t})
    BY <1>1
  <2>1. KeepsSuccess
    <3> SUFFICES ASSUME NEW u \in Threads, task'[u].job # NoJob, job[task[u].job].status = "SUCCEEDED"
                 PROVE  job'[task[u].job].status = "SUCCEEDED"
      BY DEF KeepsSuccess
    <3>1. u # t /\ task[u].job # NoJob
      BY <1>4 DEF Rests
    <3>2. task[u].job # j /\ task[u].job \in Jobs
      BY <1>5, <3>1, TaskFacts DEF Task
    <3> QED
      BY <1>3, <3>2
  <2>2. LetsGo(t)
    BY <1>1, <1>4 DEF LetsGo, Rests
  <2>3. ASSUME NEW w \in Workflows, wf[w].job = j PROVE Settled({t}, w)
    <3>1. task[t].pc \notin Driving
      BY <1>1 DEF Driving
    <3>2. /\ \A u \in Threads \ {t} : ~ (task[u].pc \in OnCopy \cup {"link"} /\ task[u].wf = w)
          /\ \A i \in Jobs : Answered(i, w)' => ~ WaitsFor(w, i)
      BY <1>1, <1>2, <1>4, <2>3, <3>1, NobodyElse, Zenon DEF Rests
    <3>3. wf[w].status = "failed" => Still(w)
      BY Zenon DEF Baton, Alone, StuckAlone, Stuck, Still
    <3>4. Still(w) => wf[w].status \in {"waiting", "failed", "deleted"}
      BY Zenon DEF Still
    <3> QED
      BY <1>6, <3>2, <3>3, <3>4, Zenon DEF Settled
  <2>4. \A u \in Threads \ {t} : task'[u] = task[u]
    BY <1>4 DEF Rests
  <2>5. \A w \in Workflows : wf'[w] = wf[w] \/ Settled({t}, w)
    BY <1>6, <2>3, Zenon
  <2> QED
    BY <2>1, <2>2, <2>4, <2>5, Zenon DEF Settles
<1>11. \A w \in Workflows : wf[w].done \subseteq wf'[w].done
  BY <1>6
<1>12. {t} \in SUBSET Threads
  OBVIOUS
<1> QED
  BY <1>7, <1>8, <1>9, <1>10, <1>11, <1>12, SettleKeeps

(* A row that a thread marks, with which nobody else goes on.                *)
LEMMA MarkKeeps ==
  ASSUME ChainIInv, Baton, NEW t \in Threads, Rests(t), task[t].pc # "link", task'[t].pc # "reconcile",
         UNCHANGED <<job, heard, acts>>, NEW w \in Workflows, \A v \in Workflows \ {w} : wf'[v] = wf[v],
         wf'[w].status # "none", wf'[w].step \in {wf[w].step, NoStep}, wf'[w].done = wf[w].done,
         acts = 0 => Settled({t}, w)
  PROVE  Baton'
<1>1. job' = job /\ heard' = heard /\ acts' = acts
  OBVIOUS
<1>2. \A v \in Workflows : wf'[v] = wf[v] \/ v = w
  OBVIOUS
<1>3. ThinRows
  BY <1>1, <1>2, RowsThin, Zenon
<1>4. acts' = 0 => Settles({t})
  BY <1>1, <1>2, RestSettles, Zenon
<1>5. \A v \in Workflows : wf[v].done \subseteq wf'[v].done
  BY <1>2
<1>6. {t} \in SUBSET Threads
  OBVIOUS
<1> QED
  BY <1>1, <1>3, <1>4, <1>5, <1>6, RestHolds, SettleKeeps

LEMMA HandlerCarries ==
  ASSUME ChainIInv, NEW u \in Threads, NEW j \in Jobs, Handles(u, j)
  PROVE  Carries(u, job[j].wf)
  BY TaskFacts DEF Handles, Carries, TaskGood

(* Where a thread goes on with a copy, no other does, and no job is awaited.   *)
LEMMA CopyAlone ==
  ASSUME ChainIInv, Baton, acts = 0, NEW t \in Threads, NEW w \in Workflows, Carries(t, w), task[t].pc # "apply"
  PROVE  /\ \A u \in Threads \ {t} : ~ (task[u].pc \in OnCopy \cup {"link"} /\ task[u].wf = w)
         /\ \A j \in Jobs : ~ Answered(j, w)
         /\ ~ Still(w)
<1>1. ASSUME NEW u \in Threads \ {t}, task[u].pc \in OnCopy, task[u].wf = w PROVE FALSE
  BY <1>1 DEF Baton, OneCarrier, Carries, OnCopy
<1>2. ASSUME NEW u \in Threads, task[u].pc = "link", task[u].wf = w PROVE FALSE
  <2>1. PICK k \in Jobs \cup {NoJob} : LinkStands(u, k)
    BY Zenon DEF Baton, Stands, LinksStand
  <2>2. task[u].marks
    BY Zenon DEF Baton, Alone, TasksAlone, AloneTask
  <2>3. PICK r : r = task[u]
    OBVIOUS
  <2>4. Handles(t, r.new)
    BY <1>2, <2>1, <2>2, <2>3, Zenon DEF LinkStands
  <2> QED
    BY <2>4 DEF Handles
<1>3. ASSUME NEW j \in Jobs, Answered(j, w) PROVE FALSE
  <2>1. ~ Pending(j, w)
    BY Zenon DEF Baton, OneCarrier
  <2>2. PICK u \in Threads : Handles(u, j) /\ job[j].wf = w
    BY <1>3, <2>1, Zenon DEF Answered
  <2>3. Carries(u, w)
    BY <2>2, HandlerCarries
  <2>4. u = t
    BY <2>3, Zenon DEF Baton, OneCarrier
  <2> QED
    BY <2>2, <2>4 DEF Handles
<1>4. ~ Still(w)
  BY Zenon DEF Still
<1> QED
  BY <1>1, <1>2, <1>3, <1>4, Zenon

LEMMA FinishPasses ==
  ASSUME ChainIInv, Baton, NEW t \in Threads, Finish(t)
  PROVE  Baton'
<1>1. task[t].pc = "finish" /\ task[t].wf \in Workflows /\ UNCHANGED <<job, heard, acts>>
  BY TaskFacts DEF Finish, At, TaskGood
<1>2. Rests(t) /\ task'[t].pc # "reconcile" /\ task[t].pc # "link"
  BY <1>1, ReturnRests DEF Finish
<1>3. CASE wf' = wf
  BY <1>1, <1>2, <1>3, RestKeeps
<1>4. CASE wf' # wf
  <2>1. PICK w \in Workflows : w = task[t].wf
    BY <1>1
  <2>2. /\ \A v \in Workflows \ {w} : wf'[v] = wf[v]
        /\ wf'[w].status = "succeeded" /\ wf'[w].step = NoStep /\ wf'[w].done = wf[w].done
    BY <1>4, <2>1 DEF Finish, ChainIInv, TypeOK, Workflow
  <2>3. acts = 0 => Settled({t}, w)
    <3>1. Carries(t, w) /\ task[t].pc # "apply"
      BY <1>1, <2>1 DEF Carries
    <3>2. wf'[w].status \notin Active /\ wf'[w].status # "failed" /\ wf'[w].status \notin {"waiting", "failed"}
      BY <2>2 DEF Active
    <3>3. \A j \in Jobs : Answered(j, w)' => Answered(j, w)
      BY <1>1, <1>2 DEF Answered, Pending, Handles, Rests, LettingGo
    <3> QED
      BY <3>1, <3>2, <3>3, CopyAlone, Zenon DEF Settled
  <2>4. wf'[w].status # "none"
    BY <2>2
  <2> QED
    BY <1>1, <1>2, <2>2, <2>3, <2>4, MarkKeeps
<1> QED
  BY <1>3, <1>4

LEMMA ReconcileWritesPasses ==
  ASSUME ChainIInv, Baton, NEW t \in Threads, ReconcileWrites(t)
  PROVE  Baton'
<1>1. task[t].pc = "reconcile" /\ task[t].wf \in Workflows /\ UNCHANGED <<job, heard, acts>>
  BY TaskFacts DEF ReconcileWrites, At, TaskGood
<1>2. Rests(t) /\ task'[t].pc # "reconcile" /\ task[t].pc # "link" /\ task'[t].pc = "idle"
  BY <1>1, StopRests DEF ReconcileWrites
<1>3. CASE wf' = wf
  BY <1>1, <1>2, <1>3, RestKeeps
<1>4. CASE wf' # wf
  <2>1. PICK w \in Workflows : w = task[t].wf
    BY <1>1
  <2>2. /\ \A v \in Workflows \ {w} : wf'[v] = wf[v]
        /\ wf'[w].status = "failed" /\ wf'[w].step = wf[w].step /\ wf'[w].done = wf[w].done
        /\ Stored(w)
    BY <1>4, <2>1 DEF ReconcileWrites, ChainIInv, TypeOK, Workflow
  <2>3. ASSUME acts = 0 PROVE Settled({t}, w)
    <3>1. Still(w)
      BY <1>1, <2>1, <2>3, Zenon DEF Baton, Alone, StuckAlone, Stuck, Still
    <3>2. /\ \A u \in Threads : ~ Carries(u, w) /\ ~ Links(u, w)
          /\ \A j \in Jobs : ~ Pending(j, w)
          /\ wf[w].status \in {"waiting", "failed", "deleted"}
      BY <3>1, Zenon DEF Still
    <3>3. \A u \in Threads : ~ (task[u].pc \in OnCopy \cup {"link"} /\ task[u].wf = w)
      BY <3>2 DEF Carries, Links, OnCopy
    <3>4. wf[w].status \in {"waiting", "failed"} /\ wf[w].status \in Active
      BY <2>2, <3>2 DEF Stored, Kept, Active
    <3>5. \A j \in Jobs : ~ Answered(j, w)'
      <4>1. \A j \in Jobs : Answered(j, w)' => Answered(j, w)
        BY <1>1, <1>2 DEF Answered, Pending, Handles, Rests
      <4>2. \A j \in Jobs : ~ Answered(j, w)
        BY <3>2, HandlerCarries, Zenon DEF Answered
      <4> QED
        BY <4>1, <4>2
    <3>6. wf'[w].status \in {"waiting", "failed", "deleted"}
      BY <2>2
    <3> QED
      BY <2>2, <3>1, <3>3, <3>4, <3>5, <3>6, Zenon DEF Settled
  <2>4. wf'[w].status # "none"
    BY <2>2
  <2> QED
    BY <1>1, <1>2, <2>2, <2>3, <2>4, MarkKeeps
<1> QED
  BY <1>3, <1>4

LEMMA AbortWritesPasses ==
  ASSUME ChainIInv, Baton, NEW t \in Threads, AbortWrites(t)
  PROVE  Baton'
<1>1. task[t].pc = "abort" /\ task[t].wf \in Workflows /\ heard' = heard /\ acts' = acts
  BY TaskFacts DEF AbortWrites, At, TaskGood
<1>2. Rests(t) /\ task'[t].pc = "idle" /\ task'[t].job = NoJob
  BY StopRests DEF AbortWrites
<1>3. PICK w \in Workflows, j \in Jobs \cup {NoJob} : w = task[t].wf /\ j = task[t].new
  BY <1>1, TaskFacts DEF Task
<1>4. /\ \A i \in Jobs : job'[i].wf = job[i].wf /\ job'[i].step = job[i].step
      /\ \A i \in Jobs : job'[i].status = job[i].status \/ (job'[i].status = "CANCELLED" /\ job[i].status # "none")
  BY <1>3 DEF AbortWrites, ChainIInv, TypeOK, Job, Exists
<1>5. \A v \in Workflows : /\ wf'[v].step = wf[v].step /\ wf'[v].done = wf[v].done
                           /\ wf'[v] = wf[v] \/ wf'[v].status = "cancelled"
  BY <1>3 DEF AbortWrites, ChainIInv, TypeOK, Workflow
<1>6. ThinRows
  BY <1>1, <1>4, <1>5 DEF ThinRows
<1>7. HandlersHold
  BY <1>1, <1>2, <1>4 DEF HandlersHold, Rests
<1>8. \A u \in Threads : task'[u] = task[u] \/ task'[u].pc \notin Driving
  BY <1>2 DEF Rests, Driving
<1>9. acts # 0
  BY <1>1, Zenon DEF Baton, Alone, TasksAlone, AloneTask
<1>10. \A v \in Workflows : wf[v].done \subseteq wf'[v].done
  BY <1>5
<1>11. {t} \in SUBSET Threads
  OBVIOUS
<1> QED
  BY <1>1, <1>6, <1>7, <1>8, <1>9, <1>10, <1>11, SettleKeeps

LEMMA ReconcileReadsPasses ==
  ASSUME ChainIInv, Baton, NEW t \in Threads, NEW w \in Workflows, ReconcileReads(t, w)
  PROVE  Baton'
<1>1. task[t].pc = "idle" /\ Orphaned(w) /\ UNCHANGED <<wf, job, heard, acts>>
  BY DEF ReconcileReads, At
<1> DEFINE r == [Idle EXCEPT !.pc = "reconcile", !.wf = w]
<1>2. Goto(t, r) /\ r.pc = "reconcile" /\ r.job = NoJob /\ r.wf = w /\ r.marks = TRUE
  BY DEF ReconcileReads, Idle
<1> HIDE DEF r
<1>3. task'[t] = r /\ \A u \in Threads \ {t} : task'[u] = task[u]
  BY <1>2, OneGoes
<1>4. Rests(t) /\ task'[t].wf = w
  BY <1>2, <1>3 DEF Rests, LettingGo
<1>5. ASSUME acts = 0 PROVE Still(w)
  <2> USE <1>5
  <2>1. wf[w].status = "waiting" /\ (wf[w].job # NoJob => job[wf[w].job].status \in Broken)
    BY <1>1 DEF Orphaned
  <2>2. \A u \in Threads : AloneTask(task[u])
    BY Zenon DEF Baton, Alone, TasksAlone
  <2>3. \A j \in Jobs : j # NoJob
    BY DEF Jobs, NoJob
  <2>4. "SUCCEEDED" \notin Broken /\ "open" \notin Broken
    BY DEF Broken
  <2>5. ASSUME NEW u \in Threads, task[u].pc \in OnCopy \cup {"link"}, task[u].wf = w PROVE FALSE
    <3>1. task[u].pc \in {"finish", "writeback", "submit", "link"}
      BY <2>5 DEF OnCopy
    <3>2. task[u].job # NoJob /\ wf[w].job = task[u].job /\ job[task[u].job].status = "SUCCEEDED"
      <4>1. PICK q : q = task[u]
        OBVIOUS
      <4>2. /\ q.job # NoJob => job[q.job].status = "SUCCEEDED"
            /\ \/ q.job = NoJob /\ wf[q.wf].status = "running" /\ wf[q.wf].job = NoJob
               \/ q.job # NoJob /\ wf[q.wf].status = "waiting" /\ wf[q.wf].job = q.job
        BY <2>2, <3>1, <4>1, Zenon DEF AloneTask
      <4> QED
        BY <2>1, <2>5, <4>1, <4>2
    <3> QED
      BY <2>1, <2>4, <3>2
  <2>6. \A u \in Threads : ~ Links(u, w)
    BY <2>5 DEF Links
  <2>7. \A j \in Jobs : ~ LinkedBy(j, w)
    BY <2>6, Zenon DEF LinkedBy
  <2>8. ASSUME NEW j \in Jobs, Answered(j, w), job[j].status \in {"open", "SUCCEEDED"} PROVE FALSE
    <3>1. WaitsFor(w, j)
      BY <2>7, <2>8, Zenon DEF Baton, Alone, CarrierKnown, Answered
    <3> QED
      BY <2>1, <2>3, <2>4, <2>8, <3>1 DEF WaitsFor
  <2>9. \A j \in Jobs : ~ Pending(j, w)
    BY <2>8, Zenon DEF Pending, Answered
  <2>10. ASSUME NEW u \in Threads, Carries(u, w) PROVE FALSE
    <3>1. task[u].pc = "apply" /\ task[u].wf = w
      BY <2>5, <2>10 DEF Carries, OnCopy
    <3>2. task[u].job \in Jobs /\ job[task[u].job].wf = w
      BY <3>1, TaskFacts DEF TaskGood, HasJob
    <3>3. job[task[u].job].status = "SUCCEEDED"
      BY <2>2, <2>3, <3>2, Zenon DEF AloneTask
    <3>4. Answered(task[u].job, w)
      BY <3>1, <3>2, Zenon DEF Answered, Handles
    <3> QED
      BY <2>8, <3>2, <3>3, <3>4
  <2> QED
    BY <2>1, <2>6, <2>9, <2>10, Zenon DEF Still
<1>6. task[t].pc # "link"
  BY <1>1
<1> QED
  BY <1>1, <1>4, <1>5, <1>6, RestKeeps

LEMMA JobEndsPasses ==
  ASSUME ChainIInv, Baton, NEW j \in Jobs, JobEnds(j)
  PROVE  Baton'
<1>1. /\ UNCHANGED <<wf, heard, task, acts>>
      /\ \A i \in Jobs : job'[i].wf = job[i].wf /\ job'[i].step = job[i].step
      /\ \A i \in Jobs \ {j} : job'[i].status = job[i].status
      /\ job[j].status = "open" /\ job'[j].status \in {"SUCCEEDED", "FAILED"}
  BY DEF JobEnds, ChainIInv, TypeOK, Job
<1>2. ThinRows
  BY <1>1 DEF ThinRows
<1>3. HandlersHold
  BY <1>1 DEF HandlersHold
<1>4. Settles({})
  <2>1. KeepsSuccess
    <3> SUFFICES ASSUME NEW u \in Threads, task'[u].job # NoJob, job[task[u].job].status = "SUCCEEDED"
                 PROVE  job'[task[u].job].status = "SUCCEEDED"
      BY DEF KeepsSuccess
    <3>1. task[u].job \in Jobs
      BY <1>1, TaskFacts DEF Task
    <3> QED
      BY <1>1, <3>1
  <2> QED
    BY <1>1, <2>1 DEF Settles
<1>5. /\ {} \in SUBSET Threads
      /\ \A u \in Threads : task'[u] = task[u]
      /\ \A w \in Workflows : wf[w].done \subseteq wf'[w].done
  BY <1>1
<1> QED
  BY <1>2, <1>3, <1>4, <1>5, SettleKeeps

(* A thread that finds its next step, and has everything up to step a done.   *)
LEMMA ProceedFinds ==
  ASSUME ChainIInv, NEW t \in Threads, NEW q \in Task, NEW done \in SUBSET Steps, Proceed(t, q, done)
  PROVE  \E r \in Task : /\ task'[t] = r /\ \A u \in Threads \ {t} : task'[u] = task[u]
                         /\ GoesOn(r, q.wf, q.job, done) /\ r.marks = q.marks /\ r.step = NextStep(done)
<1>1. PICK r \in Task : Goto(t, r) /\ GoesOn(r, q.wf, q.job, done)
  BY ProceedGoesOn
<1> DEFINE s == NextStep(done)
           p == CASE s = NoStep -> "finish" [] s = "writeback_adrnr" -> "writeback" [] OTHER -> "submit"
           m == [q EXCEPT !.done = done, !.step = s, !.pc = p]
<1>2. Goto(t, m)
  BY DEF Proceed
<1> HIDE DEF p
<1>3. m.marks = q.marks /\ m.step = s
  BY DEF Task
<1> HIDE DEF m, s
<1>4. r = m /\ task'[t] = r /\ \A u \in Threads \ {t} : task'[u] = task[u]
  <2>1. task'[t] = r /\ \A u \in Threads \ {t} : task'[u] = task[u]
    BY <1>1, OneGoes
  <2>2. task'[t] = m
    BY <1>2, OneGoes
  <2> QED
    BY <2>1, <2>2
<1> QED
  BY <1>1, <1>3, <1>4, Zenon DEF s

LEMMA OnwardStands ==
  ASSUME ChainIInv, ThinRows, NEW w \in Workflows, NEW r \in Task, NEW k, NEW done \in SUBSET Steps,
         GoesOn(r, w, r.job, done), r.step = NextStep(done), NEW a \in done, Before(a) \subseteq done,
         Upto(w, Rank(a), k), r.marks => Rank(wf[w].step) <= Rank(a), wf'[w].done = done
  PROVE  TaskStands(r, k)'
<1>1. CASE r.pc \in {"submit", "writeback"}
  <2>1. r.wf = w /\ r.step \in Steps /\ Before(r.step) \subseteq done /\ r.step # NoStep
    BY <1>1, StepFacts DEF GoesOn, RemoteSteps
  <2>2. Rank(a) < Rank(r.step) /\ Rank(r.step) \in 1 .. 10 /\ Rank(a) \in 1 .. 10
    BY <2>1, NextAhead
  <2>3. Upto(w, Rank(r.step) - 1, k)
    <3> SUFFICES ASSUME NEW i \in Jobs \ {k}, job[i].wf = w PROVE Rank(job[i].step) <= Rank(r.step) - 1
      BY DEF Upto
    <3>1. Rank(job[i].step) <= Rank(a)
      BY Zenon DEF Upto
    <3>2. Rank(job[i].step) \in 0 .. 10
      <4>1. job[i].step \in Steps \cup {NoStep}
        BY DEF ChainIInv, TypeOK, Job
      <4> QED
        BY <4>1, RankFacts
    <3> QED
      BY <2>2, <3>1, <3>2
  <2>4. Upto(w, Rank(r.step) - 1, k)'
    BY <2>3, ThinUpto, Zenon
  <2>5. ASSUME r.marks PROVE Rank(wf'[w].step) < Rank(r.step)
    <3>1. wf[w].step \in Steps \cup {NoStep}
      BY DEF ChainIInv, TypeOK, Workflow
    <3>2. Rank(wf[w].step) \in 0 .. 10 /\ Rank(NoStep) = 0
      BY <3>1, RankFacts
    <3>3. Rank(wf[w].step) <= Rank(a)
      BY <2>5
    <3>4. wf'[w].step = wf[w].step \/ wf'[w].step = NoStep
      BY Zenon DEF ThinRows
    <3> QED
      BY <2>2, <3>2, <3>3, <3>4
  <2>6. r.pc # "apply" /\ r.done = done
    BY <1>1 DEF GoesOn
  <2> QED
    BY <2>1, <2>4, <2>5, <2>6, Zenon DEF TaskStands
<1>2. CASE r.pc \notin {"submit", "writeback"}
  <2>1. r.pc # "submit" /\ r.pc # "apply"
    BY <1>2 DEF GoesOn
  <2> QED
    BY <1>2, <2>1, Zenon DEF TaskStands
<1> QED
  BY <1>1, <1>2

LEMMA GoOnAlone ==
  ASSUME ChainIInv, Alone, NEW t \in Threads, NEW w \in Workflows, job' = job, heard' = heard,
         \A u \in Threads \ {t} : task'[u] = task[u], task[t].pc # "link",
         task'[t].wf = w, task'[t].pc \in OnCopy, AloneTask(task[t])',
         \A v \in Workflows \ {w} : wf'[v] = wf[v],
         \A u \in Threads \ {t} : ~ (task[u].pc \in OnCopy \cup {"link"} /\ task[u].wf = w),
         \A j \in Jobs : ~ Answered(j, w)',
         ~ Stuck(w), wf'[w].status # "failed",
         wf'[w].status \in Active => \A v \in Workflows \ {w} : wf[v].status \notin Active,
         wf'[w].status = "waiting" => RowFront(w)'
  PROVE  Alone'
<1>0. task'[t].pc \notin {"link", "apply", "reconcile"}
  BY DEF OnCopy
<1>1. TasksAlone'
  <2> SUFFICES ASSUME NEW u \in Threads \ {t} PROVE AloneTask(task[u])'
    BY Zenon DEF TasksAlone
  <2>1. PICK r : r = task[u] /\ r = task'[u]
    OBVIOUS
  <2>2. AloneTask(r)
    BY <2>1, Zenon DEF Alone, TasksAlone
  <2>3. ASSUME r.pc \in {"finish", "writeback", "submit", "link"} PROVE wf'[r.wf] = wf[r.wf]
    <3>1. r.pc \in OnCopy \cup {"link"}
      BY <2>3 DEF OnCopy
    <3>2. r.wf \in Workflows
      BY <2>1, <2>3, DriverFacts DEF Driving
    <3> QED
      BY <2>1, <3>1, <3>2
  <2>4. r.pc = "link" => r.pc \in {"finish", "writeback", "submit", "link"}
    OBVIOUS
  <2>5. ASSUME r.pc = "link" PROVE Upto(r.wf, Rank(r.step), NoJob)'
    BY <2>2, <2>5, Zenon DEF AloneTask, Upto
  <2> QED
    BY <2>1, <2>2, <2>3, <2>4, <2>5, Zenon DEF AloneTask
<1>2. \A u \in Threads, v \in Workflows : Links(u, v)' <=> Links(u, v)
  BY <1>0, Zenon DEF Links
<1>3. \A j \in Jobs, v \in Workflows : LinkedBy(j, v)' <=> LinkedBy(j, v)
  BY <1>0, Zenon DEF LinkedBy, Links
<1>4. LinksAlone'
  BY <1>2, Zenon DEF LinksAlone, Alone
<1>5. ActiveAlone'
  <2> SUFFICES ASSUME NEW u \in Workflows, NEW v \in Workflows, wf'[u].status \in Active, wf'[v].status \in Active
               PROVE  u = v
    BY Zenon DEF ActiveAlone
  <2> QED
    BY DEF Alone, ActiveAlone
<1>6. CarrierKnown'
  <2> SUFFICES ASSUME NEW v \in Workflows, NEW j \in Jobs, Answered(j, v)'
               PROVE  LinkedBy(j, v)' \/ WaitsFor(v, j)'
    BY Zenon DEF CarrierKnown, Answered
  <2>1. v # w /\ wf'[v] = wf[v]
    OBVIOUS
  <2>2. Answered(j, v)
    BY <1>0, Zenon DEF Answered, Pending, Handles
  <2>3. LinkedBy(j, v) \/ WaitsFor(v, j)
    BY <2>2, Zenon DEF Alone, CarrierKnown, Answered
  <2> QED
    BY <1>3, <2>1, <2>3, Zenon DEF WaitsFor
<1>7. StuckAlone'
  <2> SUFFICES ASSUME NEW v \in Workflows, Stuck(v)'
               PROVE  /\ wf'[v].status \in {"waiting", "failed", "deleted"}
                      /\ \A u \in Threads : ~ Carries(u, v)' /\ ~ Links(u, v)'
                      /\ \A j \in Jobs : ~ Pending(j, v)'
    BY Zenon DEF StuckAlone
  <2>1. v # w
    BY <1>0, Zenon DEF Stuck
  <2>2. wf'[v] = wf[v] /\ Stuck(v)
    BY <1>0, <2>1, Zenon DEF Stuck
  <2>3. /\ wf[v].status \in {"waiting", "failed", "deleted"}
        /\ \A u \in Threads : ~ Carries(u, v) /\ ~ Links(u, v)
        /\ \A j \in Jobs : ~ Pending(j, v)
    BY <2>2, Zenon DEF Alone, StuckAlone
  <2>4. \A u \in Threads : ~ Carries(u, v)'
    BY <2>1, <2>3, Zenon DEF Carries
  <2>5. \A j \in Jobs : ~ Pending(j, v)'
    BY <2>3, Zenon DEF Pending
  <2> QED
    BY <1>2, <2>2, <2>3, <2>4, <2>5, Zenon
<1>8. RowsStand'
  <2> SUFFICES ASSUME NEW v \in Workflows \ {w}, wf'[v].status \in {"waiting", "failed"} PROVE RowFront(v)'
    BY Zenon DEF RowsStand
  <2>1. RowFront(v)
    BY Zenon DEF Alone, RowsStand
  <2> QED
    BY <1>3, <2>1, Zenon DEF RowFront
<1> QED
  BY <1>1, <1>4, <1>5, <1>6, <1>7, <1>8, Zenon DEF Alone

LEMMA RowOfKept ==
  ASSUME NEW w \in Workflows, RowFront(w), job' = job, wf'[w].step = wf[w].step, Before(wf[w].step) \subseteq wf'[w].done,
         \A j \in Jobs : LinkedBy(j, w)' <=> LinkedBy(j, w)
  PROVE  RowFront(w)'
<1>1. PICK s, done : s = wf[w].step /\ done = wf'[w].done
  OBVIOUS
<1>2. s \in RemoteSteps /\ Before(s) \subseteq done /\ wf'[w].step = s
  BY <1>1, Zenon DEF RowFront
<1>3. \A i \in Jobs : job[i].wf = w => Rank(job[i].step) <= Rank(s) \/ LinkedBy(i, w)
  BY <1>1, Zenon DEF RowFront
<1> QED
  BY <1>1, <1>2, <1>3, Zenon DEF RowFront

LEMMA StartPasses ==
  ASSUME ChainIInv, Baton, NEW t \in Threads, NEW w \in Workflows, StartForOrder(t, w)
  PROVE  Baton'
<1>1. /\ task[t].pc = "idle" /\ wf[w].status = "none" /\ MayBeActive(w)
      /\ wf' = [wf EXCEPT ![w].status = "running"] /\ job' = job /\ heard' = heard /\ acts' = acts
  BY DEF StartForOrder, At
<1>2. /\ wf[w].step = NoStep /\ wf[w].done = {} /\ wf[w].job = NoJob
      /\ \A u \in Threads : ~ Carries(u, w) /\ ~ Links(u, w)
      /\ \A j \in Jobs : job[j].wf # w
  BY <1>1, Zenon DEF Baton, Untouched
<1>3. /\ \A v \in Workflows \ {w} : wf'[v] = wf[v]
      /\ wf'[w].status = "running" /\ wf'[w].step = NoStep /\ wf'[w].done = {} /\ wf'[w].job = NoJob
  BY <1>1, <1>2 DEF ChainIInv, TypeOK, Workflow
<1> DEFINE q == [Idle EXCEPT !.wf = w]
<1>4. q \in Task /\ q.wf = w /\ q.job = NoJob /\ q.marks = TRUE
  BY IdleGood DEF Task, Idle
<1>5. Proceed(t, q, {})
  BY DEF StartForOrder
<1> HIDE DEF q
<1>6. {} \in SUBSET Steps
  OBVIOUS
<1>7. PICK r \in Task : /\ task'[t] = r /\ \A u \in Threads \ {t} : task'[u] = task[u]
                        /\ GoesOn(r, w, NoJob, {}) /\ r.marks = TRUE
  <2>1. \E r \in Task : /\ task'[t] = r /\ \A u \in Threads \ {t} : task'[u] = task[u]
                        /\ GoesOn(r, q.wf, q.job, {}) /\ r.marks = q.marks /\ r.step = NextStep({})
    BY <1>4, <1>5, <1>6, ProceedFinds
  <2> QED
    BY <1>4, <2>1
<1>8. r.wf = w /\ r.job = NoJob /\ r.done = {} /\ r.pc \in OnCopy
  BY <1>7 DEF GoesOn, OnCopy
<1>9. ThinRows
  <2>1. \A v \in Workflows : wf'[v] = wf[v] \/ (wf'[v].status # "none" /\ wf'[v].step \in {wf[v].step, NoStep})
    BY <1>3
  <2> QED
    BY <1>1, <2>1, RowsThin
<1>10. Thins({t})
  <2>1. \A v \in Workflows : wf[v].done \subseteq wf'[v].done
    BY <1>2, <1>3
  <2> QED
    BY <1>7, <1>9, <2>1, Zenon DEF Thins
<1>11. Takes({t})
  <2>1. task'[t].pc \notin {"apply", "link"}
    BY <1>7, <1>8 DEF OnCopy
  <2>2. \A v \in Workflows : Carries(t, v)' => v = w
    BY <1>7, <1>8 DEF Carries
  <2>3. Free(w)
    BY <1>2, Zenon DEF Free, Pending
  <2>4. wf'[w].status # "none"
    BY <1>3
  <2> QED
    BY <1>2, <2>1, <2>2, <2>3, <2>4 DEF Takes
<1>12. HandlersHold
  BY <1>1, <1>7, <1>8, Zenon DEF HandlersHold
<1>13. \A k \in Jobs \cup {NoJob} : TaskStands(task[t], k)'
  <2> SUFFICES ASSUME NEW k PROVE TaskStands(r, k)'
    BY <1>7, Zenon DEF TaskStands
  <2>1. \A n : Upto(w, n, k)'
    BY <1>1, <1>2, Zenon DEF Upto
  <2>2. r.pc \in {"submit", "writeback"} => Before(r.step) \subseteq {} /\ r.step \in Steps
    BY <1>7, StepFacts DEF GoesOn, RemoteSteps
  <2>3. r.pc \in {"submit", "writeback"} => Rank(wf'[w].step) < Rank(r.step)
    BY <1>3, <2>2, RankFacts
  <2>4. r.pc # "apply" /\ (r.pc = "submit" => r.pc \in {"submit", "writeback"})
    BY <1>8 DEF OnCopy
  <2> QED
    BY <1>3, <1>8, <2>1, <2>2, <2>3, <2>4, Zenon DEF TaskStands
<1>14. ASSUME acts = 0 PROVE Alone'
  <2>1. Alone
    BY <1>14, Zenon DEF Baton
  <2>2. AloneTask(task[t])'
    <3>1. r.pc # "abort" /\ r.pc # "link"
      BY <1>8 DEF OnCopy
    <3>2. AloneTask(r)'
      BY <1>3, <1>7, <1>8, <3>1, Zenon DEF AloneTask
    <3> QED
      BY <1>7, <3>2, Zenon DEF AloneTask
  <2>3. \A u \in Threads \ {t} : ~ (task[u].pc \in OnCopy \cup {"link"} /\ task[u].wf = w)
    BY <1>2 DEF Carries, Links, OnCopy
  <2>4. \A j \in Jobs : ~ Answered(j, w)'
    BY <1>1, <1>2, Zenon DEF Answered, Pending
  <2>5. ~ Stuck(w)
    <3>1. wf[w].status \notin {"waiting", "failed", "deleted"}
      BY <1>1
    <3> QED
      BY <2>1, <3>1, Zenon DEF Alone, StuckAlone
  <2>6. wf'[w].status # "failed" /\ wf'[w].status # "waiting" /\ task[t].pc # "link"
    BY <1>1, <1>3
  <2>7. \A v \in Workflows \ {w} : wf[v].status \notin Active
    BY <1>1 DEF MayBeActive
  <2> QED
    BY <1>1, <1>3, <1>7, <1>8, <2>1, <2>2, <2>3, <2>4, <2>5, <2>6, <2>7, GoOnAlone
<1>15. {t} \in SUBSET Threads
  OBVIOUS
<1> QED
  BY <1>1, <1>10, <1>11, <1>12, <1>13, <1>14, <1>15, ThinKeeps

(* A thread that goes on holds what nobody else does, and no link is marked    *)
(* before it: the one it applies is linked, or it has its copy already.       *)
LEMMA NoMarkedLink ==
  ASSUME ChainIInv, Baton, NEW t \in Threads, NEW w \in Workflows, Carries(t, w),
         task[t].pc = "apply" => ~ Late(t)
  PROVE  \A v \in Threads : Links(v, w) => ~ task[v].marks
<1> SUFFICES ASSUME NEW v \in Threads, Links(v, w), task[v].marks PROVE FALSE
  OBVIOUS
<1>1. PICK k \in Jobs \cup {NoJob} : LinkStands(v, k)
  BY Zenon DEF Baton, Stands, LinksStand
<1>2. PICK r : r = task[v]
  OBVIOUS
<1>3. r.pc = "link" /\ r.wf = w /\ r.marks
  BY <1>2 DEF Links
<1>4. wf[w].step # r.step /\ Handles(t, r.new) /\ job[r.new].step = r.step
  BY <1>1, <1>2, <1>3, Zenon DEF LinkStands
<1>5. task[t].pc = "apply" /\ task[t].job = r.new /\ task[t].wf = w
  BY <1>4 DEF Handles, Carries
<1>6. wf[w].step = job[r.new].step
  BY <1>5 DEF Late
<1> QED
  BY <1>4, <1>6

LEMMA WritebackPasses ==
  ASSUME ChainIInv, Baton, NEW t \in Threads, Writeback(t)
  PROVE  Baton'
<1>1. /\ task[t].pc = "writeback" /\ task[t].wf \in Workflows /\ task[t].step = "writeback_adrnr"
      /\ job' = job /\ heard' = heard /\ acts' = acts
  BY TaskFacts DEF Writeback, At, TaskGood
<1>2. CASE ~ Stored(task[t].wf)
  <2>1. Raises(t) /\ wf' = wf
    BY <1>2 DEF Writeback
  <2>2. Rests(t) /\ task'[t].pc # "reconcile" /\ task[t].pc # "link"
    BY <1>1, <2>1, ReturnRests
  <2> QED
    BY <1>1, <2>1, <2>2, RestKeeps
<1>3. CASE Stored(task[t].wf)
  <2>1. PICK w \in Workflows, a \in Steps, done \in SUBSET Steps :
          w = task[t].wf /\ a = "writeback_adrnr" /\ done = task[t].done \cup {a}
    <3>1. "writeback_adrnr" \in Steps /\ task[t].done \in SUBSET Steps
      BY TaskFacts, StepFacts DEF Task
    <3>2. task[t].done \cup {"writeback_adrnr"} \in SUBSET Steps
      BY <3>1
    <3> QED
      BY <1>1, <3>1, <3>2
  <2>2. /\ \A v \in Workflows \ {w} : wf'[v] = wf[v]
        /\ wf'[w].status = wf[w].status /\ wf'[w].step = wf[w].step /\ wf'[w].job = wf[w].job /\ wf'[w].done = done
        /\ wf[w].status # "none"
    BY <1>3, <2>1 DEF Writeback, ChainIInv, TypeOK, Workflow, Stored, Kept, Active
  <2>3. Proceed(t, task[t], done) /\ task[t] \in Task
    BY <1>3, <2>1, TaskFacts DEF Writeback
  <2>4. PICK r \in Task : /\ task'[t] = r /\ \A u \in Threads \ {t} : task'[u] = task[u]
                          /\ GoesOn(r, w, task[t].job, done) /\ r.marks = task[t].marks /\ r.step = NextStep(done)
    <3>1. \E r \in Task : /\ task'[t] = r /\ \A u \in Threads \ {t} : task'[u] = task[u]
                          /\ GoesOn(r, task[t].wf, task[t].job, done) /\ r.marks = task[t].marks /\ r.step = NextStep(done)
      BY <2>3, ProceedFinds
    <3> QED
      BY <2>1, <3>1
  <2>5. r.wf = w /\ r.job = task[t].job /\ r.pc \in OnCopy
    BY <2>4 DEF GoesOn, OnCopy
  <2>6. ThinRows
    <3>1. \A v \in Workflows : wf'[v] = wf[v] \/ (wf'[v].status # "none" /\ wf'[v].step \in {wf[v].step, NoStep})
      BY <2>2
    <3> QED
      BY <1>1, <3>1, RowsThin
  <2>7. Carries(t, w)
    BY <1>1, <2>1 DEF Carries
  <2>8. \A u \in Threads : Links(u, w) => ~ task[u].marks
    BY <1>1, <2>7, NoMarkedLink
  <2>9. Thins({t})
    BY <2>2, <2>4, <2>6, <2>7 DEF Thins
  <2>10. Takes({t})
    <3>1. task'[t].pc \notin {"apply", "link"}
      BY <2>4, <2>5 DEF OnCopy
    <3>2. \A v \in Workflows : Carries(t, v)' => v = w
      BY <2>4, <2>5 DEF Carries
    <3>3. wf'[w].status # "none"
      BY <2>2
    <3> QED
      BY <2>7, <2>8, <3>1, <3>2, <3>3 DEF Takes
  <2>11. HandlersHold
    BY <1>1, <2>4, <2>5, Zenon DEF HandlersHold
  <2>12. ASSUME NEW k \in Jobs \cup {NoJob}, Stands(k)
         PROVE  /\ TaskStands(task[t], k)'
                /\ task[t].marks => Rank(wf[w].step) < Rank(a)
                /\ Before(a) \subseteq task[t].done
    <3>1. TaskStands(task[t], k)
      BY <2>12, Zenon DEF Stands, TasksStand
    <3>2. PICK m : m = task[t]
      OBVIOUS
    <3>3. m.pc = "writeback" /\ m.wf = w /\ m.step = a
      BY <1>1, <2>1, <3>2
    <3>4. Upto(w, Rank(a) - 1, k) /\ Before(a) \subseteq m.done /\ (m.marks => Rank(wf[w].step) < Rank(a))
      BY <3>1, <3>2, <3>3, Zenon DEF TaskStands
    <3>5. Upto(w, Rank(a), k)
      <4> SUFFICES ASSUME NEW i \in Jobs \ {k}, job[i].wf = w PROVE Rank(job[i].step) <= Rank(a)
        BY DEF Upto
      <4>1. Rank(job[i].step) <= Rank(a) - 1
        BY <3>4, Zenon DEF Upto
      <4>2. Rank(job[i].step) \in 0 .. 10 /\ Rank(a) \in 1 .. 10
        <5>1. job[i].step \in Steps \cup {NoStep}
          BY DEF ChainIInv, TypeOK, Job
        <5> QED
          BY <5>1, RankFacts
      <4> QED
        BY <4>1, <4>2
    <3>6. r.marks => Rank(wf[w].step) <= Rank(a)
      <4>1. wf[w].step \in Steps \cup {NoStep}
        BY DEF ChainIInv, TypeOK, Workflow
      <4>2. Rank(wf[w].step) \in Int /\ Rank(a) \in Int
        BY <4>1, RankFacts
      <4>3. r.marks => Rank(wf[w].step) < Rank(a)
        BY <2>4, <3>2, <3>4, Zenon
      <4> QED
        BY <4>2, <4>3
    <3>7. a \in done /\ Before(a) \subseteq done
      BY <2>1, <3>2, <3>4
    <3>8. GoesOn(r, w, r.job, done)
      BY <2>4, <2>5
    <3>9. TaskStands(r, k)'
      BY <2>2, <2>4, <2>6, <3>5, <3>6, <3>7, <3>8, OnwardStands, Zenon
    <3> QED
      BY <2>4, <3>2, <3>4, <3>9, Zenon DEF TaskStands
  <2>13. ASSUME acts = 0 PROVE Alone'
    <3>1. Alone /\ AloneTask(task[t])
      BY <2>13, Zenon DEF Baton, Alone, TasksAlone
    <3>2. task[t].pc # "apply"
      BY <1>1
    <3>3. /\ \A u \in Threads \ {t} : ~ (task[u].pc \in OnCopy \cup {"link"} /\ task[u].wf = w)
          /\ \A j \in Jobs : ~ Answered(j, w)
          /\ ~ Still(w)
      BY <2>7, <2>13, <3>2, CopyAlone
    <3>4. PICK m : m = task[t]
      OBVIOUS
    <3>5. /\ m.marks /\ (m.job # NoJob => job[m.job].status = "SUCCEEDED")
          /\ \/ m.job = NoJob /\ wf[w].status = "running" /\ wf[w].job = NoJob
             \/ m.job # NoJob /\ wf[w].status = "waiting" /\ wf[w].job = m.job
      <4>1. m.pc \in {"finish", "writeback", "submit", "link"} /\ m.wf = w
        BY <1>1, <2>1, <3>4
      <4> QED
        BY <3>1, <3>4, <4>1, Zenon DEF AloneTask
    <3>6. AloneTask(task[t])'
      <4>1. r.pc # "abort" /\ r.pc # "link" /\ r.job = m.job /\ r.marks
        BY <2>4, <2>5, <3>4, <3>5 DEF OnCopy
      <4>2. AloneTask(r)'
        BY <1>1, <2>2, <2>5, <3>5, <4>1, Zenon DEF AloneTask
      <4> QED
        BY <2>4, <4>2, Zenon DEF AloneTask
    <3>7. \A j \in Jobs : ~ Answered(j, w)'
      <4>1. task'[t].pc # "apply"
        BY <2>4, <2>5 DEF OnCopy
      <4> QED
        BY <1>1, <2>4, <3>3, <4>1, Zenon DEF Answered, Pending, Handles
    <3>8. ~ Stuck(w)
      BY <3>1, <3>3, Zenon DEF Alone, StuckAlone, Still
    <3>9. wf'[w].status # "failed" /\ wf[w].status \in Active
      BY <2>2, <3>5 DEF Active
    <3>10. \A v \in Workflows \ {w} : wf[v].status \notin Active
      BY <3>1, <3>9 DEF Alone, ActiveAlone
    <3>11. ASSUME wf'[w].status = "waiting" PROVE RowFront(w)'
      <4>1. RowFront(w)
        BY <2>2, <3>1, <3>11, Zenon DEF Alone, RowsStand
      <4>2. PICK k \in Jobs \cup {NoJob} : Stands(k)
        BY Zenon DEF Baton
      <4>3. wf[w].step \in Steps /\ Rank(wf[w].step) < Rank(a)
        BY <2>12, <3>4, <3>5, <4>1, <4>2 DEF RowFront, RemoteSteps
      <4>4. Before(wf[w].step) \subseteq Before(a)
        <5>1. Rank(wf[w].step) <= Rank(a)
          BY <4>3, RankFacts
        <5> QED
          BY <4>3, <5>1, BeforeGrows
      <4>5. Before(wf[w].step) \subseteq wf'[w].done
        BY <2>1, <2>2, <2>12, <4>2, <4>4
      <4>6. \A j \in Jobs : LinkedBy(j, w)' <=> LinkedBy(j, w)
        <5>1. task[t].pc # "link" /\ task'[t].pc # "link"
          BY <1>1, <2>4, <2>5 DEF OnCopy
        <5> QED
          BY <2>4, <5>1, Zenon DEF LinkedBy, Links
      <4> QED
        BY <1>1, <2>2, <4>1, <4>5, <4>6, RowOfKept
    <3>12. task[t].pc # "link"
      BY <1>1
    <3> QED
      BY <1>1, <2>2, <2>4, <2>5, <3>1, <3>3, <3>6, <3>7, <3>8, <3>9, <3>10, <3>11, <3>12, GoOnAlone
  <2>14. {t} \in SUBSET Threads
    OBVIOUS
  <2> QED
    BY <1>1, <2>9, <2>10, <2>11, <2>12, <2>13, <2>14, ThinKeeps
<1> QED
  BY <1>2, <1>3

LEMMA ApplyPasses ==
  ASSUME ChainIInv, Baton, NEW t \in Threads, Apply(t)
  PROVE  Baton'
<1>1. task[t].pc = "apply" /\ ~ Late(t) /\ job' = job /\ heard' = heard /\ acts' = acts
  BY DEF Apply, At
<1>2. /\ task[t].wf \in Workflows /\ task[t].job \in Jobs /\ job[task[t].job].step \in Steps
      /\ job[task[t].job].wf = task[t].wf
  BY <1>1, ApplyFacts, TaskFacts DEF At, TaskGood
<1>3. PICK w \in Workflows, j \in Jobs, a \in Steps : w = task[t].wf /\ j = task[t].job /\ a = job[j].step
  BY <1>2
<1>4. Stored(w) /\ wf[w].step = a /\ job[j].wf = w
  BY <1>1, <1>2, <1>3 DEF Late
<1>5. PICK done \in SUBSET Steps : done = wf[w].done \cup {a}
  <2>1. wf[w].done \in SUBSET Steps
    BY DEF ChainIInv, TypeOK, Workflow
  <2>2. wf[w].done \cup {a} \in SUBSET Steps
    BY <2>1
  <2> QED
    BY <2>2
<1>6. /\ \A v \in Workflows \ {w} : wf'[v] = wf[v]
      /\ wf'[w].status = wf[w].status /\ wf'[w].step = wf[w].step /\ wf'[w].job = wf[w].job /\ wf'[w].done = done
      /\ wf[w].status # "none"
  BY <1>3, <1>4, <1>5 DEF Apply, ChainIInv, TypeOK, Workflow, Stored, Kept, Active
<1>7. PICK r \in Task : /\ task'[t] = r /\ \A u \in Threads \ {t} : task'[u] = task[u]
                        /\ GoesOn(r, w, j, done) /\ r.marks = task[t].marks /\ r.step = NextStep(done)
  <2>1. Proceed(t, task[t], done) /\ task[t] \in Task
    BY <1>3, <1>5, TaskFacts DEF Apply
  <2>2. \E r \in Task : /\ task'[t] = r /\ \A u \in Threads \ {t} : task'[u] = task[u]
                        /\ GoesOn(r, task[t].wf, task[t].job, done) /\ r.marks = task[t].marks /\ r.step = NextStep(done)
    BY <2>1, ProceedFinds
  <2> QED
    BY <1>3, <2>2
<1>8. r.wf = w /\ r.job = j /\ r.pc \in OnCopy
  BY <1>7 DEF GoesOn, OnCopy
<1>9. ThinRows
  <2>1. \A v \in Workflows : wf'[v] = wf[v] \/ (wf'[v].status # "none" /\ wf'[v].step \in {wf[v].step, NoStep})
    BY <1>6
  <2> QED
    BY <1>1, <2>1, RowsThin
<1>10. Carries(t, w)
  BY <1>1, <1>3 DEF Carries
<1>11. \A u \in Threads : Links(u, w) => ~ task[u].marks
  BY <1>1, <1>10, NoMarkedLink
<1>12. Thins({t})
  BY <1>6, <1>7, <1>9, <1>10 DEF Thins
<1>13. Takes({t})
  <2>1. task'[t].pc \notin {"apply", "link"}
    BY <1>7, <1>8 DEF OnCopy
  <2>2. \A v \in Workflows : Carries(t, v)' => v = w
    BY <1>7, <1>8 DEF Carries
  <2>3. wf'[w].status # "none"
    BY <1>6
  <2> QED
    BY <1>10, <1>11, <2>1, <2>2, <2>3 DEF Takes
<1>14. HandlersHold
  BY <1>1, <1>3, <1>7, <1>8, Zenon DEF HandlersHold
<1>15. ASSUME NEW k \in Jobs \cup {NoJob}, Stands(k) PROVE TaskStands(task[t], k)'
  <2>1. JobStands(j, w, k)
    <3>1. TaskStands(task[t], k)
      BY <1>15, Zenon DEF Stands, TasksStand
    <3> QED
      BY <1>1, <1>3, <3>1, Zenon DEF TaskStands
  <2>2. Upto(w, Rank(a), k) /\ Before(a) \subseteq wf[w].done
    BY <1>3, <2>1, Zenon DEF JobStands
  <2>3. a \in done /\ Before(a) \subseteq done
    BY <1>5, <2>2
  <2>4. Rank(wf[w].step) <= Rank(a)
    BY <1>4, RankFacts
  <2>5. GoesOn(r, w, r.job, done)
    BY <1>7, <1>8
  <2>6. TaskStands(r, k)'
    BY <1>6, <1>7, <1>9, <2>2, <2>3, <2>4, <2>5, OnwardStands
  <2> QED
    BY <1>7, <2>6, Zenon DEF TaskStands
<1>16. ASSUME acts = 0 PROVE Alone'
  <2>1. Alone /\ AloneTask(task[t]) /\ OneCarrier
    BY <1>16, Zenon DEF Baton, Alone, TasksAlone
  <2>2. PICK m : m = task[t]
    OBVIOUS
  <2>3. m.marks /\ job[j].status = "SUCCEEDED" /\ j # NoJob
    <3>1. j # NoJob
      BY DEF Jobs, NoJob
    <3> QED
      BY <1>3, <2>1, <2>2, <3>1, Zenon DEF AloneTask
  <2>4. \A u \in Threads : ~ Links(u, w)
    BY <1>11, <2>1, Zenon DEF Alone, TasksAlone, AloneTask
  <2>5. WaitsFor(w, j)
    <3>1. Answered(j, w)
      BY <1>1, <1>3, <1>4, Zenon DEF Answered, Handles
    <3> QED
      BY <2>1, <2>4, <3>1, Zenon DEF Alone, CarrierKnown, Answered, LinkedBy
  <2>6. wf[w].status = "waiting" /\ wf[w].job = j
    BY <2>5, Zenon DEF WaitsFor
  <2>7. AloneTask(task[t])'
    <3>1. r.pc # "abort" /\ r.pc # "link" /\ r.marks
      BY <1>7, <1>8, <2>2, <2>3 DEF OnCopy
    <3>2. AloneTask(r)'
      BY <1>1, <1>6, <1>8, <2>3, <2>6, <3>1, Zenon DEF AloneTask
    <3> QED
      BY <1>7, <3>2, Zenon DEF AloneTask
  <2>8. \A u \in Threads \ {t} : ~ (task[u].pc \in OnCopy \cup {"link"} /\ task[u].wf = w)
    <3>1. \A u \in Threads \ {t} : ~ Carries(u, w)
      BY <1>10, <2>1, Zenon DEF OneCarrier
    <3> QED
      BY <2>4, <3>1 DEF Carries, Links, OnCopy
  <2>9. ASSUME NEW i \in Jobs, Answered(i, w)' PROVE FALSE
    <3>1. ~ Pending(i, w)'
      BY <1>1, <1>10, <2>1, Zenon DEF OneCarrier, Pending
    <3>2. PICK u \in Threads : Handles(u, i)' /\ job[i].wf = w
      BY <1>1, <2>9, <3>1, Zenon DEF Answered
    <3>3. u # t
      BY <1>7, <1>8, <3>2 DEF Handles, OnCopy
    <3>4. Handles(u, i)
      BY <1>7, <3>2, <3>3, Zenon DEF Handles
    <3>5. Carries(u, w)
      BY <3>2, <3>4, HandlerCarries
    <3> QED
      BY <1>10, <2>1, <3>3, <3>5, Zenon DEF OneCarrier
  <2>10. ~ Stuck(w)
    BY <1>10, <2>1, Zenon DEF Alone, StuckAlone
  <2>11. wf'[w].status # "failed" /\ wf[w].status \in Active
    BY <1>6, <2>6 DEF Active
  <2>12. \A v \in Workflows \ {w} : wf[v].status \notin Active
    BY <2>1, <2>11 DEF Alone, ActiveAlone
  <2>13. RowFront(w)'
    <3>1. RowFront(w)
      BY <2>1, <2>6, Zenon DEF Alone, RowsStand
    <3>2. Before(wf[w].step) \subseteq wf'[w].done
      BY <1>5, <1>6, <3>1 DEF RowFront
    <3>3. \A i \in Jobs : LinkedBy(i, w)' <=> LinkedBy(i, w)
      <4>1. task[t].pc # "link" /\ task'[t].pc # "link"
        BY <1>1, <1>7, <1>8 DEF OnCopy
      <4> QED
        BY <1>7, <4>1, Zenon DEF LinkedBy, Links
    <3> QED
      BY <1>1, <1>6, <3>1, <3>2, <3>3, RowOfKept
  <2>14. task[t].pc # "link"
    BY <1>1
  <2> QED
    BY <1>1, <1>6, <1>7, <1>8, <2>1, <2>7, <2>8, <2>9, <2>10, <2>11, <2>12, <2>13, <2>14, GoOnAlone
<1>17. {t} \in SUBSET Threads
  OBVIOUS
<1> QED
  BY <1>1, <1>12, <1>13, <1>14, <1>15, <1>16, <1>17, ThinKeeps

(* Without the job that is repeated the rest stands as well.                   *)
LEMMA StandsWithout ==
  ASSUME Stands(NoJob), NEW k \in Jobs, job[k].status # "none",
         \A u \in Threads : task[u].pc = "link" => task[u].new # k
  PROVE  Stands(k)
<1>0. NoJob \notin Jobs
  BY DEF Jobs, NoJob
<1>1. \A w, n : Upto(w, n, NoJob) => Upto(w, n, k)
  BY <1>0, Zenon DEF Upto
<1>2. \A j, w : JobStands(j, w, NoJob) => JobStands(j, w, k)
  BY <1>1, Zenon DEF JobStands
<1>3. Calls(k)
  BY <1>0, Zenon DEF Stands, Calls
<1>4. TasksStand(k)
  BY <1>1, <1>2, Zenon DEF Stands, TasksStand, TaskStands
<1>5. LinksStand(k)
  BY Zenon DEF Stands, LinksStand, LinkStands
<1>6. PendingStand(k)
  BY <1>2, Zenon DEF Stands, PendingStand
<1> QED
  BY <1>3, <1>4, <1>5, <1>6, Zenon DEF Stands

(* Resume: nobody goes on with a failed workflow, and of the jobs submitted    *)
(* for it one at most is for the step that is submitted again.                *)
LEMMA ResumePasses ==
  ASSUME ChainIInv, Baton, NEW t \in Threads, NEW w \in Workflows, Calm', Resume(t, w)
  PROVE  Baton'
<1>1. /\ task[t].pc = "idle" /\ wf[w].status = "failed" /\ acts' # 0 /\ acts = 0
      /\ UNCHANGED <<wf, job, heard>>
  BY BoundAssumption DEF Resume, Act, At, Calm, ChainIInv, TypeOK
<1>2. Alone /\ Stands(NoJob) /\ OneCarrier /\ HandlersApart /\ Untouched
  BY <1>1, Zenon DEF Baton
<1>3. /\ \A u \in Threads : ~ Carries(u, w) /\ ~ Links(u, w)
      /\ \A j \in Jobs : ~ Pending(j, w)
  BY <1>1, <1>2, Zenon DEF Alone, StuckAlone, Stuck
<1>4. RowFront(w)
  BY <1>1, <1>2, Zenon DEF Alone, RowsStand
<1>5. PICK s \in RemoteSteps, done \in SUBSET Steps : s = wf[w].step /\ done = wf[w].done
  BY <1>4 DEF RowFront, ChainIInv, TypeOK, Workflow
<1>6. s \in Steps /\ Before(s) \subseteq done /\ s # NoStep /\ s # "writeback_adrnr"
  BY <1>4, <1>5, StepFacts DEF RowFront, RemoteSteps
<1>7. \A i \in Jobs : job[i].wf = w => Rank(job[i].step) <= Rank(s)
  <2>1. \A i \in Jobs : ~ LinkedBy(i, w)
    BY <1>3, Zenon DEF LinkedBy
  <2> QED
    BY <1>4, <1>5, <2>1, Zenon DEF RowFront
<1>8. PICK k \in Jobs \cup {NoJob} : Stands(k) /\ \A i \in Jobs \ {k} : ~ (job[i].wf = w /\ job[i].step = s)
  <2>1. CASE \E i \in Jobs : job[i].wf = w /\ job[i].step = s
    <3>1. PICK k \in Jobs : job[k].wf = w /\ job[k].step = s
      BY <2>1
    <3>2. w # 0 /\ NoJob \notin Jobs
      BY DEF Workflows, Jobs, NoJob
    <3>3. \A i \in Jobs \ {k} : ~ (job[i].wf = w /\ job[i].step = s)
      <4>1. \A i \in Jobs : SameCall(i, k) => i = k
        BY <1>2, <3>2, Zenon DEF Stands, Calls
      <4> QED
        BY <3>1, <3>2, <4>1, Zenon DEF SameCall
    <3>4. job[k].status # "none"
      BY <1>2, <3>1, <3>2, Zenon DEF HandlersApart
    <3>5. ASSUME NEW u \in Threads, task[u].pc = "link", task[u].new = k PROVE FALSE
      <4>1. PICK r : r = task[u]
        OBVIOUS
      <4>2. r.pc = "link" /\ r.new = k
        BY <3>5, <4>1
      <4>3. job[r.new].wf = r.wf
        BY <1>2, <4>1, <4>2, Zenon DEF Stands, LinksStand, LinkStands
      <4>4. r.wf = w
        BY <3>1, <4>2, <4>3
      <4> QED
        BY <1>3, <4>1, <4>2, <4>4, Zenon DEF Links
    <3> QED
      BY <1>2, <3>3, <3>4, <3>5, StandsWithout
  <2>2. CASE ~ \E i \in Jobs : job[i].wf = w /\ job[i].step = s
    BY <1>2, <2>2
  <2> QED
    BY <2>1, <2>2
<1>9. ThinRows
  BY <1>1, Zenon DEF ThinRows
<1>10. \E r \in Task : /\ task'[t] = r /\ \A u \in Threads \ {t} : task'[u] = task[u]
                       /\ r.wf = w /\ r.job = NoJob /\ r.pc \in OnCopy /\ TaskStands(r, k)'
  <2> DEFINE q == [Idle EXCEPT !.wf = w, !.done = wf[w].done]
  <2>1. q \in Task /\ q.wf = w /\ q.done = done /\ q.job = NoJob /\ q.pc = "idle"
    BY <1>5, IdleGood DEF Task, Idle
  <2>2. CASE s \in done
    <3>1. Proceed(t, q, done)
      BY <1>5, <2>2 DEF Resume
    <3> HIDE DEF q
    <3>2. PICK r \in Task : /\ task'[t] = r /\ \A u \in Threads \ {t} : task'[u] = task[u]
                            /\ GoesOn(r, q.wf, q.job, done) /\ r.marks = q.marks /\ r.step = NextStep(done)
      BY <2>1, <3>1, ProceedFinds
    <3>3. r.wf = w /\ r.job = NoJob /\ r.pc \in OnCopy /\ GoesOn(r, w, r.job, done)
      BY <2>1, <3>2 DEF GoesOn, OnCopy
    <3>4. Upto(w, Rank(s), k)
      BY <1>7, Zenon DEF Upto
    <3>5. Rank(wf[w].step) <= Rank(s) /\ wf'[w].done = done
      BY <1>1, <1>5, <1>6, RankFacts
    <3>6. TaskStands(r, k)'
      BY <1>6, <1>9, <2>2, <3>2, <3>3, <3>4, <3>5, OnwardStands
    <3> QED
      BY <3>2, <3>3, <3>6
  <2>3. CASE s \notin done
    <3> DEFINE m == [q EXCEPT !.pc = "submit", !.step = s, !.marks = FALSE]
    <3>1. Goto(t, m)
      <4>1. s \notin wf[w].done \cup {NoStep, "writeback_adrnr"}
        BY <1>5, <1>6, <2>3
      <4> QED
        BY <1>5, <4>1 DEF Resume
    <3> HIDE DEF q
    <3>0. /\ m \in Task /\ m.wf = w /\ m.job = NoJob /\ m.pc = "submit" /\ m.step = s /\ m.done = done
          /\ m.marks = FALSE
      BY <1>6, <2>1 DEF Task, Places
    <3> HIDE DEF m
    <3>2. PICK r \in Task : /\ task'[t] = r /\ r.wf = w /\ r.job = NoJob /\ r.pc = "submit" /\ r.step = s
                            /\ r.done = done /\ r.marks = FALSE
      BY <3>0, <3>1, OneGoes
    <3>3. \A u \in Threads \ {t} : task'[u] = task[u]
      BY <3>1, OneGoes
    <3>4. Upto(w, Rank(s) - 1, k)
      <4> SUFFICES ASSUME NEW i \in Jobs \ {k}, job[i].wf = w PROVE Rank(job[i].step) <= Rank(s) - 1
        BY DEF Upto
      <4>1. Rank(job[i].step) <= Rank(s)
        BY <1>7
      <4>2. job[i].step \in Steps \cup {NoStep} /\ job[i].step # s
        BY <1>8 DEF ChainIInv, TypeOK, Job
      <4>3. Rank(job[i].step) \in 0 .. 10 /\ Rank(s) \in 1 .. 10 /\ Rank(job[i].step) # Rank(s)
        BY <1>6, <4>2, RankFacts, SameRank
      <4> QED
        BY <4>1, <4>3
    <3>5. Upto(w, Rank(s) - 1, k)'
      BY <1>9, <3>4, ThinUpto
    <3>6. Before(s) \subseteq wf'[w].done /\ Before(s) \subseteq done
      BY <1>1, <1>5, <1>6
    <3>7. r.pc # "apply" /\ ~ r.marks
      BY <3>2
    <3>8. TaskStands(r, k)'
      <4>1. Upto(r.wf, Rank(r.step) - 1, k)' /\ Before(r.step) \subseteq wf'[r.wf].done /\ Before(r.step) \subseteq r.done
        BY <3>2, <3>5, <3>6
      <4> QED
        BY <3>7, <4>1, Zenon DEF TaskStands
    <3>9. r.pc \in OnCopy
      BY <3>2 DEF OnCopy
    <3> QED
      BY <3>2, <3>3, <3>8, <3>9
  <2> QED
    BY <2>2, <2>3
<1>11. PICK r \in Task : /\ task'[t] = r /\ \A u \in Threads \ {t} : task'[u] = task[u]
                         /\ r.wf = w /\ r.job = NoJob /\ r.pc \in OnCopy /\ TaskStands(r, k)'
  BY <1>10
<1>12. Thins({t})
  <2>1. \A v \in Workflows : wf[v].done \subseteq wf'[v].done
    BY <1>1
  <2> QED
    BY <1>9, <1>11, <2>1, Zenon DEF Thins
<1>13. Takes({t})
  <2>1. task'[t].pc \notin {"apply", "link"}
    BY <1>11 DEF OnCopy
  <2>2. \A v \in Workflows : Carries(t, v)' => v = w
    BY <1>11 DEF Carries
  <2>3. Free(w)
    BY <1>3, Zenon DEF Free
  <2>4. wf'[w].status # "none"
    BY <1>1
  <2> QED
    BY <1>3, <2>1, <2>2, <2>3, <2>4 DEF Takes
<1>14. HandlersHold
  BY <1>1, <1>11, Zenon DEF HandlersHold
<1>15. TaskStands(task[t], k)'
  BY <1>11, Zenon DEF TaskStands
<1>16. Stands(k)'
  BY <1>2, <1>8, <1>12, <1>13, <1>15, ThinFront
<1>17. OneCarrier' /\ Untouched' /\ HandlersApart'
  BY <1>2, <1>9, <1>12, <1>13, <1>14, ThinCarrier, ThinUntouched, HandlersKeep
<1> QED
  BY <1>1, <1>16, <1>17, Zenon DEF Baton

(* A job is submitted: the thread hands over what it carried.                 *)
SubmitsFor(t, j, w, s, r) ==
  /\ task[t].pc = "submit" /\ task[t].wf = w /\ task[t].step = s
  /\ job[j].status = "none" /\ wf' = wf /\ heard' = heard /\ acts' = acts
  /\ \A i \in Jobs \ {j} : job'[i].status = job[i].status /\ job'[i].wf = job[i].wf /\ job'[i].step = job[i].step
  /\ job'[j].status = "open" /\ job'[j].wf = w /\ job'[j].step = s
  /\ task'[t] = r /\ \A u \in Threads \ {t} : task'[u] = task[u]
  /\ r.pc = "link" /\ r.new = j /\ r.wf = w /\ r.step = s
  /\ r.done = task[t].done /\ r.job = task[t].job /\ r.marks = task[t].marks

LEMMA SubmitEffect ==
  ASSUME ChainIInv, NEW t \in Threads, NEW j \in Jobs, Submit(t, j)
  PROVE  \E w \in Workflows, s \in RemoteSteps, r \in Task : SubmitsFor(t, j, w, s, r)
<1>1. /\ task[t] \in Task /\ task[t].pc = "submit" /\ task[t].wf \in Workflows /\ task[t].step \in RemoteSteps
      /\ job[j].status = "none" /\ wf' = wf /\ heard' = heard /\ acts' = acts
  BY TaskFacts DEF Submit, At, TaskGood, Fresh
<1>2. PICK w \in Workflows, s \in RemoteSteps : w = task[t].wf /\ s = task[t].step
  BY <1>1
<1>3. /\ \A i \in Jobs \ {j} : job'[i] = job[i]
      /\ job'[j].status = "open" /\ job'[j].wf = w /\ job'[j].step = s
  BY <1>2 DEF Submit, ChainIInv, TypeOK, Job
<1> DEFINE m == [task[t] EXCEPT !.pc = "link", !.new = j]
<1>4. Goto(t, m)
  BY DEF Submit
<1>5. /\ m \in Task /\ m.pc = "link" /\ m.new = j /\ m.wf = w /\ m.step = s
      /\ m.done = task[t].done /\ m.job = task[t].job
  BY <1>1, <1>2 DEF Task, Places
<1>6. m.marks = task[t].marks
  <2>1. PICK q \in Task : q = task[t]
    BY <1>1
  <2>2. "marks" \in DOMAIN q
    BY DEF Task
  <2> QED
    BY <2>1, <2>2, Zenon
<1> HIDE DEF m
<1>7. task'[t] = m /\ \A u \in Threads \ {t} : task'[u] = task[u]
  BY <1>4, OneGoes
<1> QED
  BY <1>1, <1>2, <1>3, <1>5, <1>6, <1>7, Zenon DEF SubmitsFor

LEMMA SubmitFacts ==
  ASSUME ChainIInv, OneCarrier, HandlersApart, Untouched,
         NEW t \in Threads, NEW j \in Jobs, NEW w \in Workflows, NEW s \in RemoteSteps, NEW r \in Task, SubmitsFor(t, j, w, s, r)
  PROVE  /\ j \notin heard /\ job[j].wf = 0 /\ Carries(t, w) /\ wf[w].status # "none"
         /\ \A u \in Threads \ {t} : ~ Carries(u, w)
         /\ \A i \in Jobs : ~ Pending(i, w)
         /\ \A u \in Threads, v \in Workflows : Carries(u, v)' <=> u # t /\ Carries(u, v)
         /\ \A u \in Threads, v \in Workflows : Links(u, v)' <=> (u = t /\ v = w) \/ Links(u, v)
         /\ \A i \in Jobs, v \in Workflows : Pending(i, v)' <=> (i = j /\ v = w) \/ Pending(i, v)
         /\ \A u \in Threads, i \in Jobs : Handles(u, i)' <=> Handles(u, i)
<1>1. j \notin heard /\ job[j].wf = 0
  BY Zenon DEF SubmitsFor, HandlersApart
<1>2. Carries(t, w)
  BY DEF SubmitsFor, Carries
<1>3. wf[w].status # "none" /\ (\A u \in Threads \ {t} : ~ Carries(u, w)) /\ (\A i \in Jobs : ~ Pending(i, w))
  BY <1>2, Zenon DEF OneCarrier, Untouched
<1>4. \A u \in Threads, v \in Workflows : Carries(u, v)' <=> u # t /\ Carries(u, v)
  BY DEF SubmitsFor, Carries
<1>5. \A u \in Threads, v \in Workflows : Links(u, v)' <=> (u = t /\ v = w) \/ Links(u, v)
  BY DEF SubmitsFor, Links
<1>6. \A i \in Jobs, v \in Workflows : Pending(i, v)' <=> (i = j /\ v = w) \/ Pending(i, v)
  BY <1>1 DEF SubmitsFor, Pending, Workflows
<1>7. \A u \in Threads, i \in Jobs : Handles(u, i)' <=> Handles(u, i)
  BY DEF SubmitsFor, Handles
<1> QED
  BY <1>1, <1>2, <1>3, <1>4, <1>5, <1>6, <1>7, Zenon

LEMMA SubmitUpto ==
  ASSUME NEW t, NEW j \in Jobs, NEW w \in Workflows, NEW s, NEW r, SubmitsFor(t, j, w, s, r),
         NEW v, NEW n, NEW k, Upto(v, n, k), v = w => Rank(s) <= n
  PROVE  Upto(v, n, k)'
<1> SUFFICES ASSUME NEW i \in Jobs \ {k}, job'[i].wf = v PROVE Rank(job'[i].step) <= n
  BY DEF Upto
<1>1. CASE i = j
  BY <1>1, Zenon DEF SubmitsFor
<1>2. CASE i # j
  BY <1>2, Zenon DEF SubmitsFor, Upto
<1> QED
  BY <1>1, <1>2

LEMMA SubmitStands ==
  ASSUME ChainIInv, OneCarrier, HandlersApart, Untouched,
         NEW t \in Threads, NEW j \in Jobs, NEW w \in Workflows, NEW s \in RemoteSteps, NEW r \in Task, SubmitsFor(t, j, w, s, r),
         NEW k \in Jobs \cup {NoJob}, Stands(k)
  PROVE  Stands(k)' /\ Upto(w, Rank(s), k)' /\ Before(s) \subseteq wf[w].done \cap r.done
<1>0. /\ j \notin heard /\ job[j].wf = 0 /\ Carries(t, w) /\ wf[w].status # "none"
      /\ \A u \in Threads \ {t} : ~ Carries(u, w)
      /\ \A i \in Jobs : ~ Pending(i, w)
      /\ \A u \in Threads, v \in Workflows : Carries(u, v)' <=> u # t /\ Carries(u, v)
      /\ \A i \in Jobs, v \in Workflows : Pending(i, v)' <=> (i = j /\ v = w) \/ Pending(i, v)
      /\ \A u \in Threads, i \in Jobs : Handles(u, i)' <=> Handles(u, i)
  BY SubmitFacts
<1>1. k # j
  BY DEF SubmitsFor, Stands, Calls, Jobs, NoJob
<1>2. Upto(w, Rank(s) - 1, k) /\ Before(s) \subseteq wf[w].done /\ Before(s) \subseteq r.done
      /\ (r.marks => Rank(wf[w].step) < Rank(s))
  <2>1. PICK q : q = task[t]
    OBVIOUS
  <2>2. TaskStands(q, k)
    BY <2>1, Zenon DEF Stands, TasksStand
  <2>3. q.pc = "submit" /\ q.wf = w /\ q.step = s /\ r.done = q.done /\ r.marks = q.marks
    BY <2>1, Zenon DEF SubmitsFor
  <2>4. q.pc \in {"submit", "writeback"}
    BY <2>3
  <2> QED
    BY <2>2, <2>3, <2>4, Zenon DEF TaskStands
<1>3. Rank(s) \in 1 .. 10 /\ \A i \in Jobs : Rank(job[i].step) \in 0 .. 10
  <2>1. s \in Steps /\ \A i \in Jobs : job[i].step \in Steps \cup {NoStep}
    BY DEF ChainIInv, TypeOK, Job, RemoteSteps
  <2> QED
    BY <2>1, RankFacts
<1>4. Upto(w, Rank(s), k)
  <2> SUFFICES ASSUME NEW i \in Jobs \ {k}, job[i].wf = w PROVE Rank(job[i].step) <= Rank(s)
    BY DEF Upto
  <2>1. Rank(job[i].step) <= Rank(s) - 1
    BY <1>2, Zenon DEF Upto
  <2> QED
    BY <1>3, <2>1
<1>5. Upto(w, Rank(s), k)'
  <2>1. Rank(s) <= Rank(s)
    BY <1>3
  <2> QED
    BY <1>4, <2>1, SubmitUpto
<1>6. \A v \in Workflows \ {w} : \A n : Upto(v, n, k) => Upto(v, n, k)'
  BY SubmitUpto
<1>7. Calls(k)'
  <2>1. k # NoJob => job'[k].status # "none"
    BY <1>1 DEF SubmitsFor, Stands, Calls
  <2>2. ASSUME NEW i \in Jobs \ {k}, job[i].wf = w, job[i].step = s PROVE FALSE
    <3>1. Rank(s) <= Rank(s) - 1
      BY <1>2, <2>2, Zenon DEF Upto
    <3> QED
      BY <1>3, <3>1
  <2>3. ASSUME NEW a \in Jobs \ {k}, NEW b \in Jobs \ {k}, SameCall(a, b)' PROVE a = b
    <3>1. CASE a # j /\ b # j
      BY <2>3, <3>1, Zenon DEF SubmitsFor, SameCall, Stands, Calls
    <3>2. CASE a = j /\ b # j
      BY <2>2, <2>3, <3>2, Zenon DEF SubmitsFor, SameCall
    <3>3. CASE a # j /\ b = j
      BY <2>2, <2>3, <3>3, Zenon DEF SubmitsFor, SameCall
    <3> QED
      BY <3>1, <3>2, <3>3
  <2> QED
    BY <2>1, <2>3, Zenon DEF Calls
<1>8. \A i \in Jobs, v \in Workflows \ {w} : i # j /\ JobStands(i, v, k) => JobStands(i, v, k)'
  <2> SUFFICES ASSUME NEW i \in Jobs \ {j}, NEW v \in Workflows \ {w}, JobStands(i, v, k) PROVE JobStands(i, v, k)'
    OBVIOUS
  <2>1. PICK n : n = Rank(job[i].step)
    OBVIOUS
  <2>2. Upto(v, n, k)'
    BY <1>6, <2>1, Zenon DEF JobStands
  <2> QED
    BY <2>1, <2>2, Zenon DEF SubmitsFor, JobStands
<1>9. TasksStand(k)'
  <2> SUFFICES ASSUME NEW u \in Threads PROVE TaskStands(task[u], k)'
    BY Zenon DEF TasksStand
  <2>1. CASE task'[u].pc \notin {"submit", "writeback", "apply"}
    <3>1. PICK q : q = task'[u]
      OBVIOUS
    <3>2. q.pc \notin {"submit", "writeback"} /\ q.pc # "submit" /\ q.pc # "apply"
      BY <2>1, <3>1
    <3> QED
      BY <3>1, <3>2, Zenon DEF TaskStands
  <2>2. CASE task'[u].pc \in {"submit", "writeback", "apply"}
    <3>1. u # t
      BY <2>2 DEF SubmitsFor
    <3>2. PICK q : q = task[u] /\ q = task'[u]
      BY <3>1, Zenon DEF SubmitsFor
    <3>3. q.wf \in Workflows /\ (q.pc = "apply" => q.job \in Jobs /\ q.job \in heard)
      <4>1. q.wf \in Workflows /\ (q.pc = "apply" => q.job \in Jobs)
        BY <2>2, <3>2, DriverFacts DEF Driving
      <4>2. q.job \in Jobs => q.job \in heard
        <5>1. q.job \in Jobs => q.job # NoJob
          BY DEF Jobs, NoJob
        <5> QED
          BY <3>2, <5>1, Zenon DEF HandlersApart
      <4> QED
        BY <4>1, <4>2
    <3>4. Carries(u, q.wf)
      BY <2>2, <3>2 DEF Carries
    <3>5. q.wf # w /\ (q.pc = "apply" => q.job # j)
      BY <1>0, <3>1, <3>3, <3>4
    <3>6. TaskStands(q, k)
      BY <3>2, Zenon DEF Stands, TasksStand
    <3>7. TaskStands(q, k)'
      <4>1. q.pc = "apply" => JobStands(q.job, q.wf, k)'
        BY <1>8, <3>3, <3>5, <3>6, Zenon DEF TaskStands
      <4>2. q.pc \in {"submit", "writeback"} => Upto(q.wf, Rank(q.step) - 1, k)'
        BY <1>6, <3>3, <3>5, <3>6, Zenon DEF TaskStands
      <4>3. wf' = wf
        BY Zenon DEF SubmitsFor
      <4> QED
        BY <3>6, <4>1, <4>2, <4>3, Zenon DEF TaskStands
    <3> QED
      BY <3>2, <3>7, Zenon DEF TaskStands
  <2> QED
    BY <2>1, <2>2
<1>10. LinksStand(k)'
  <2> SUFFICES ASSUME NEW u \in Threads, task'[u].pc = "link" PROVE LinkStands(u, k)'
    BY Zenon DEF LinksStand, LinkStands
  <2>00. \A x \in Threads \ {t} : task'[x] = task[x]
    BY Zenon DEF SubmitsFor
  <2>0. \A x \in Threads \ {t} : task[x].pc = "link" => task[x].new # j
    <3> SUFFICES ASSUME NEW x \in Threads \ {t}, task[x].pc = "link", task[x].new = j PROVE FALSE
      OBVIOUS
    <3>1. PICK q : q = task[x]
      OBVIOUS
    <3>2. job[q.new].status # "none"
      BY <3>1, Zenon DEF Stands, LinksStand, LinkStands
    <3> QED
      BY <3>1, <3>2, Zenon DEF SubmitsFor
  <2>1. CASE u = t
    <3>1. \A x \in Threads : task'[x].pc = "link" /\ task'[x].new = j => x = t
      BY <2>0, <2>00
    <3>2. ASSUME r.marks
          PROVE  /\ wf'[w].step # s
                 /\ \A x \in Threads : ~ Carries(x, w)'
                 /\ \A i \in Jobs : Pending(i, w)' => i = j
      <4>1. wf[w].step # s
        <5>1. Rank(wf[w].step) < Rank(s)
          BY <1>2, <3>2
        <5> QED
          BY <1>3, <5>1
      <4> QED
        <5>1. wf'[w].step # s
          BY <4>1, Zenon DEF SubmitsFor
        <5>2. \A x \in Threads : ~ Carries(x, w)'
          BY <1>0, Zenon
        <5>3. \A i \in Jobs : Pending(i, w)' => i = j
          BY <1>0, Zenon
        <5> QED
          BY <5>1, <5>2, <5>3, Zenon
    <3>3. task'[t] = r /\ r.pc = "link" /\ r.new = j /\ r.wf = w /\ r.step = s
          /\ job'[j].wf = w /\ job'[j].step = s /\ job'[j].status # "none"
      BY DEF SubmitsFor
    <3> QED
      BY <1>1, <2>1, <3>1, <3>2, <3>3, Zenon DEF LinkStands
  <2>2. CASE u # t
    <3>1. PICK q : q = task[u] /\ q = task'[u]
      BY <2>2, Zenon DEF SubmitsFor
    <3>2. q.pc = "link" /\ q.wf \in Workflows /\ q.new \in Jobs /\ q.new # j
      BY <2>0, <2>2, <3>1, DriverFacts DEF Driving
    <3>3. /\ q.new # k /\ job[q.new].wf = q.wf /\ job[q.new].step = q.step /\ job[q.new].status # "none"
          /\ \A x \in Threads : task[x].pc = "link" /\ task[x].new = q.new => x = u
          /\ q.marks =>
               /\ wf[q.wf].step # q.step
               /\ \A x \in Threads : Carries(x, q.wf) => Handles(x, q.new)
               /\ \A i \in Jobs : Pending(i, q.wf) => i = q.new
      <4>1. LinkStands(u, k)
        BY Zenon DEF Stands, LinksStand
      <4> QED
        BY <3>1, <3>2, <4>1, Zenon DEF LinkStands
    <3>4. /\ job'[q.new].status = job[q.new].status /\ job'[q.new].wf = job[q.new].wf
          /\ job'[q.new].step = job[q.new].step /\ wf' = wf
      BY <3>2, Zenon DEF SubmitsFor
    <3>5. \A x \in Threads : task'[x].pc = "link" /\ task'[x].new = q.new => x = u
      <4>1. task'[t].pc = "link" => task'[t].new = j
        BY Zenon DEF SubmitsFor
      <4> QED
        BY <2>00, <3>2, <3>3, <4>1
    <3>6. q.marks => q.wf # w
      <4>1. ~ Handles(t, q.new)
        BY DEF SubmitsFor, Handles
      <4> QED
        BY <1>0, <3>3, <4>1, Zenon
    <3>7. q.marks =>
            /\ \A x \in Threads : Carries(x, q.wf)' => Handles(x, q.new)'
            /\ \A i \in Jobs : Pending(i, q.wf)' => i = q.new
      <4> SUFFICES ASSUME q.marks
                   PROVE  /\ \A x \in Threads : Carries(x, q.wf)' => Handles(x, q.new)'
                          /\ \A i \in Jobs : Pending(i, q.wf)' => i = q.new
        OBVIOUS
      <4>1. q.wf # w
        BY <3>6
      <4>2. \A x \in Threads : Carries(x, q.wf)' => Carries(x, q.wf)
        BY <1>0, <3>2, Zenon
      <4>3. \A x \in Threads : Handles(x, q.new) => Handles(x, q.new)'
        BY <1>0, <3>2, Zenon
      <4>4. \A i \in Jobs : Pending(i, q.wf)' => Pending(i, q.wf)
        BY <1>0, <3>2, <4>1, Zenon
      <4> QED
        BY <3>3, <4>2, <4>3, <4>4
    <3> QED
      BY <3>1, <3>3, <3>4, <3>5, <3>7, Zenon DEF LinkStands
  <2> QED
    BY <2>1, <2>2
<1>11. PendingStand(k)'
  <2> SUFFICES ASSUME NEW v \in Workflows, NEW i \in Jobs, Pending(i, v)' PROVE JobStands(i, v, k)'
    BY Zenon DEF PendingStand
  <2>1. CASE i = j /\ v = w
    <3>1. PICK n : n = Rank(s)
      OBVIOUS
    <3>2. job'[j].step = s /\ Rank(job'[j].step) = n /\ wf'[w].done = wf[w].done
      BY <3>1, Zenon DEF SubmitsFor
    <3>3. Upto(w, n, k)' /\ Before(s) \subseteq wf'[w].done
      BY <1>2, <1>5, <3>1, <3>2
    <3> QED
      BY <2>1, <3>2, <3>3, Zenon DEF JobStands
  <2>2. CASE Pending(i, v)
    <3>1. v # w
      BY <1>0, <2>2, Zenon
    <3>2. i # j
      BY <2>2 DEF SubmitsFor, Pending
    <3>3. JobStands(i, v, k)
      BY <2>2, Zenon DEF Stands, PendingStand
    <3> QED
      BY <1>8, <3>1, <3>2, <3>3
  <2> QED
    BY <1>0, <2>1, <2>2, Zenon
<1> QED
  BY <1>2, <1>5, <1>7, <1>9, <1>10, <1>11, Zenon DEF Stands

LEMMA SubmitAlone ==
  ASSUME ChainIInv, OneCarrier, HandlersApart, Untouched, Alone, Stands(NoJob),
         NEW t \in Threads, NEW j \in Jobs, NEW w \in Workflows, NEW s \in RemoteSteps, NEW r \in Task, SubmitsFor(t, j, w, s, r)
  PROVE  Alone'
<1>0. /\ j \notin heard /\ job[j].wf = 0 /\ Carries(t, w)
      /\ \A u \in Threads \ {t} : ~ Carries(u, w)
      /\ \A i \in Jobs : ~ Pending(i, w)
      /\ \A u \in Threads, v \in Workflows : Carries(u, v)' <=> u # t /\ Carries(u, v)
      /\ \A u \in Threads, v \in Workflows : Links(u, v)' <=> (u = t /\ v = w) \/ Links(u, v)
      /\ \A i \in Jobs, v \in Workflows : Pending(i, v)' <=> (i = j /\ v = w) \/ Pending(i, v)
      /\ \A u \in Threads, i \in Jobs : Handles(u, i)' <=> Handles(u, i)
  BY SubmitFacts
<1>1. \A u \in Threads \ {t} : task'[u] = task[u]
  BY Zenon DEF SubmitsFor
<1>2. /\ wf' = wf /\ heard' = heard /\ task'[t] = r
      /\ \A i \in Jobs \ {j} : job'[i].status = job[i].status /\ job'[i].wf = job[i].wf /\ job'[i].step = job[i].step
      /\ job'[j].status = "open" /\ job'[j].wf = w /\ job'[j].step = s
      /\ r.pc = "link" /\ r.new = j /\ r.wf = w /\ r.step = s
      /\ task[t].pc = "submit" /\ task[t].wf = w
  BY Zenon DEF SubmitsFor
<1>3. \A u \in Threads : ~ Links(u, w)
  <2> SUFFICES ASSUME NEW u \in Threads, Links(u, w) PROVE FALSE
    OBVIOUS
  <2>1. task[u].marks
    BY Zenon DEF Alone, TasksAlone, AloneTask
  <2>2. task[t].pc # "apply"
    BY <1>2
  <2>3. LinkStands(u, NoJob)
    BY Zenon DEF Stands, LinksStand
  <2>4. PICK q : q = task[u]
    OBVIOUS
  <2>5. q.pc = "link" /\ q.wf = w
    BY <2>4 DEF Links
  <2>6. Handles(t, q.new)
    BY <1>0, <2>1, <2>3, <2>4, <2>5, Zenon DEF LinkStands
  <2> QED
    BY <2>2, <2>6 DEF Handles
<1>4. Upto(w, Rank(s), NoJob)' /\ Before(s) \subseteq wf[w].done \cap r.done
  <2>1. NoJob \in Jobs \cup {NoJob}
    OBVIOUS
  <2> QED
    BY <2>1, SubmitStands
<1>5. \A u \in Threads : task[u].job # NoJob => task[u].job \in Jobs \ {j}
  BY <1>0, TaskFacts DEF HandlersApart, Task
<1>6. \A i \in Jobs, v \in Workflows : LinkedBy(i, v) => LinkedBy(i, v)'
  <2> SUFFICES ASSUME NEW i \in Jobs, NEW v \in Workflows, NEW u \in Threads, Links(u, v), task[u].new = i
               PROVE  LinkedBy(i, v)'
    BY DEF LinkedBy
  <2>1. u # t
    BY <1>2 DEF Links
  <2>2. Links(u, v)' /\ task'[u].new = i
    BY <1>0, <1>1, <2>1
  <2> QED
    BY <2>2, Zenon DEF LinkedBy
<1>7. LinkedBy(j, w)'
  <2>1. Links(t, w)' /\ task'[t].new = j
    BY <1>0, <1>2
  <2> QED
    BY <2>1, Zenon DEF LinkedBy
<1>8. TasksAlone'
  <2> SUFFICES ASSUME NEW u \in Threads PROVE AloneTask(task[u])'
    BY Zenon DEF TasksAlone
  <2>1. CASE u = t
    <3>1. PICK q : q = task[t]
      OBVIOUS
    <3>2. AloneTask(q)
      BY <3>1, Zenon DEF Alone, TasksAlone
    <3>3. q.pc = "submit" /\ q.wf = w /\ r.job = q.job /\ r.marks = q.marks
      BY <3>1, Zenon DEF SubmitsFor
    <3>4. /\ q.marks /\ (q.job # NoJob => job[q.job].status = "SUCCEEDED")
          /\ \/ q.job = NoJob /\ wf[w].status = "running" /\ wf[w].job = NoJob
             \/ q.job # NoJob /\ wf[w].status = "waiting" /\ wf[w].job = q.job
      <4>1. q.pc \in {"finish", "writeback", "submit", "link"}
        BY <3>3
      <4> QED
        BY <3>2, <3>3, <4>1, Zenon DEF AloneTask
    <3>5. r.job # NoJob => job'[r.job].status = "SUCCEEDED"
      BY <1>2, <1>5, <3>1, <3>3, <3>4
    <3>6. r.pc # "abort" /\ r.marks /\ Before(s) \subseteq wf'[w].done \cap r.done
      BY <1>2, <1>4, <3>3, <3>4
    <3>7. \/ r.job = NoJob /\ wf'[w].status = "running" /\ wf'[w].job = NoJob
          \/ r.job # NoJob /\ wf'[w].status = "waiting" /\ wf'[w].job = r.job
      BY <1>2, <3>3, <3>4
    <3>8. AloneTask(r)'
      BY <1>2, <1>4, <3>5, <3>6, <3>7, Zenon DEF AloneTask
    <3> QED
      BY <1>2, <2>1, <3>8, Zenon DEF AloneTask
  <2>2. CASE u # t
    <3>1. PICK q : q = task[u] /\ q = task'[u]
      BY <1>1, <2>2
    <3>2. AloneTask(q)
      BY <3>1, Zenon DEF Alone, TasksAlone
    <3>3. q.job # NoJob => job'[q.job].status = "SUCCEEDED"
      <4>1. q.job # NoJob => job[q.job].status = "SUCCEEDED"
        BY <3>2, Zenon DEF AloneTask
      <4> QED
        BY <1>2, <1>5, <3>1, <4>1
    <3>4. ASSUME q.pc = "link" PROVE Upto(q.wf, Rank(q.step), NoJob)'
      <4>1. q.wf # w
        BY <1>3, <3>1, <3>4 DEF Links
      <4>2. Upto(q.wf, Rank(q.step), NoJob)
        BY <3>2, <3>4, Zenon DEF AloneTask
      <4> QED
        BY <4>1, <4>2, SubmitUpto
    <3> QED
      BY <1>2, <3>1, <3>2, <3>3, <3>4, Zenon DEF AloneTask
  <2> QED
    BY <2>1, <2>2
<1>9. LinksAlone'
  <2> SUFFICES ASSUME NEW v \in Workflows, NEW x \in Threads, NEW u \in Threads, Links(x, v)', Links(u, v)'
               PROVE  x = u
    BY Zenon DEF LinksAlone
  <2>1. Links(x, v) /\ Links(u, v) => x = u
    BY Zenon DEF Alone, LinksAlone
  <2>2. (x = t /\ v = w) \/ Links(x, v)
    BY <1>0, Zenon
  <2>3. (u = t /\ v = w) \/ Links(u, v)
    BY <1>0, Zenon
  <2> QED
    BY <1>3, <2>1, <2>2, <2>3, Zenon
<1>10. ActiveAlone'
  BY <1>2, Zenon DEF Alone, ActiveAlone
<1>11. CarrierKnown'
  <2> SUFFICES ASSUME NEW v \in Workflows, NEW i \in Jobs, Answered(i, v)'
               PROVE  LinkedBy(i, v)' \/ WaitsFor(v, i)'
    BY Zenon DEF CarrierKnown, Answered
  <2>1. CASE i = j
    <3>1. ~ \E u \in Threads : Handles(u, j)
      BY <1>0, <1>5 DEF Handles, HandlersApart, Jobs, NoJob
    <3>2. job[j].status = "none"
      BY Zenon DEF SubmitsFor
    <3>3. ~ Pending(j, v)
      BY <3>2 DEF Pending
    <3>4. v = w
      BY <1>0, <2>1, <3>1, <3>3, Zenon DEF Answered
    <3> QED
      BY <1>7, <2>1, <3>4
  <2>2. CASE i # j
    <3>1. job'[i].wf = job[i].wf /\ job'[i].step = job[i].step
      BY <1>2, <2>2
    <3>2. Answered(i, v)
      BY <1>0, <2>2, <3>1, Zenon DEF Answered
    <3>3. LinkedBy(i, v) \/ WaitsFor(v, i)
      BY <3>2, Zenon DEF Alone, CarrierKnown, Answered
    <3>4. WaitsFor(v, i) => WaitsFor(v, i)'
      BY <1>2, <3>1, Zenon DEF WaitsFor
    <3> QED
      BY <1>6, <3>3, <3>4
  <2> QED
    BY <2>1, <2>2
<1>12. StuckAlone'
  <2> SUFFICES ASSUME NEW v \in Workflows, Stuck(v)'
               PROVE  /\ wf'[v].status \in {"waiting", "failed", "deleted"}
                      /\ \A u \in Threads : ~ Carries(u, v)' /\ ~ Links(u, v)'
                      /\ \A i \in Jobs : ~ Pending(i, v)'
    BY Zenon DEF StuckAlone
  <2>1. Stuck(v)
    <3>1. task'[t].pc # "reconcile"
      BY <1>2
    <3> QED
      BY <1>1, <1>2, <3>1, Zenon DEF Stuck
  <2>2. /\ wf[v].status \in {"waiting", "failed", "deleted"}
        /\ \A u \in Threads : ~ Carries(u, v) /\ ~ Links(u, v)
        /\ \A i \in Jobs : ~ Pending(i, v)
    BY <2>1, Zenon DEF Alone, StuckAlone
  <2>3. v # w
    BY <1>0, <2>2
  <2> QED
    BY <1>0, <1>2, <2>2, <2>3
<1>13. RowsStand'
  <2> SUFFICES ASSUME NEW v \in Workflows, wf'[v].status \in {"waiting", "failed"} PROVE RowFront(v)'
    BY Zenon DEF RowsStand
  <2>1. RowFront(v)
    BY <1>2, Zenon DEF Alone, RowsStand
  <2>2. PICK a, done : a = wf[v].step /\ done = wf[v].done
    OBVIOUS
  <2>3. a \in RemoteSteps /\ Before(a) \subseteq done /\ wf'[v].step = a /\ wf'[v].done = done
    BY <1>2, <2>1, <2>2, Zenon DEF RowFront
  <2>4. \A i \in Jobs : job'[i].wf = v => Rank(job'[i].step) <= Rank(a) \/ LinkedBy(i, v)'
    <3> SUFFICES ASSUME NEW i \in Jobs, job'[i].wf = v PROVE Rank(job'[i].step) <= Rank(a) \/ LinkedBy(i, v)'
      OBVIOUS
    <3>1. CASE i = j
      BY <1>2, <1>7, <3>1
    <3>2. CASE i # j
      <4>1. job'[i].wf = job[i].wf /\ job'[i].step = job[i].step
        BY <1>2, <3>2
      <4>2. Rank(job[i].step) <= Rank(a) \/ LinkedBy(i, v)
        BY <2>1, <2>2, <4>1, Zenon DEF RowFront
      <4> QED
        BY <1>6, <4>1, <4>2
    <3> QED
      BY <3>1, <3>2
  <2> QED
    BY <2>3, <2>4, Zenon DEF RowFront
<1> QED
  BY <1>8, <1>9, <1>10, <1>11, <1>12, <1>13, Zenon DEF Alone

LEMMA SubmitPasses ==
  ASSUME ChainIInv, Baton, NEW t \in Threads, NEW j \in Jobs, Submit(t, j)
  PROVE  Baton'
<1>1. PICK w \in Workflows, s \in RemoteSteps, r \in Task : SubmitsFor(t, j, w, s, r)
  BY SubmitEffect
<1>2. OneCarrier /\ HandlersApart /\ Untouched
  BY Zenon DEF Baton
<1>3. PICK k \in Jobs \cup {NoJob} : Stands(k) /\ (acts = 0 => k = NoJob)
  BY Zenon DEF Baton
<1>4. Stands(k)'
  BY <1>1, <1>2, <1>3, SubmitStands
<1>0. /\ j \notin heard /\ job[j].wf = 0 /\ Carries(t, w) /\ wf[w].status # "none"
      /\ \A u \in Threads \ {t} : ~ Carries(u, w)
      /\ \A i \in Jobs : ~ Pending(i, w)
      /\ \A u \in Threads, v \in Workflows : Carries(u, v)' <=> u # t /\ Carries(u, v)
      /\ \A u \in Threads, v \in Workflows : Links(u, v)' <=> (u = t /\ v = w) \/ Links(u, v)
      /\ \A i \in Jobs, v \in Workflows : Pending(i, v)' <=> (i = j /\ v = w) \/ Pending(i, v)
  BY <1>1, <1>2, SubmitFacts
<1>5. OneCarrier'
  <2> SUFFICES ASSUME NEW v \in Workflows
               PROVE  /\ \A x, u \in Threads : Carries(x, v)' /\ Carries(u, v)' => x = u
                      /\ \A i, l \in Jobs : Pending(i, v)' /\ Pending(l, v)' => i = l
                      /\ \A x \in Threads, i \in Jobs : ~ (Carries(x, v)' /\ Pending(i, v)')
    BY Zenon DEF OneCarrier
  <2>1. /\ \A x, u \in Threads : Carries(x, v) /\ Carries(u, v) => x = u
        /\ \A i, l \in Jobs : Pending(i, v) /\ Pending(l, v) => i = l
        /\ \A x \in Threads, i \in Jobs : ~ (Carries(x, v) /\ Pending(i, v))
    BY <1>2, Zenon DEF OneCarrier
  <2> QED
    BY <1>0, <2>1
<1>6. /\ wf' = wf /\ heard' = heard /\ acts' = acts
      /\ \A i \in Jobs \ {j} : job'[i].status = job[i].status /\ job'[i].wf = job[i].wf
      /\ job'[j].status = "open" /\ job'[j].wf = w
      /\ \A u \in Threads : task'[u].job = task[u].job
  BY <1>1, Zenon DEF SubmitsFor
<1>7. HandlersApart'
  <2>1. ASSUME NEW x \in Threads, NEW u \in Threads, task'[x].job = task'[u].job, task'[x].job # NoJob
        PROVE  x = u
    <3>1. task[x].job = task[u].job /\ task[x].job # NoJob
      BY <1>6, <2>1
    <3> QED
      BY <1>2, <3>1, Zenon DEF HandlersApart
  <2>2. ASSUME NEW u \in Threads, task'[u].job # NoJob
        PROVE  task'[u].job \in heard' /\ job'[task'[u].job].status # "gone"
    <3>1. PICK i : i = task[u].job
      OBVIOUS
    <3>2. i \in heard /\ job[i].status # "gone" /\ task'[u].job = i
      BY <1>2, <1>6, <2>2, <3>1, Zenon DEF HandlersApart
    <3>3. i \in Jobs \ {j}
      BY <1>0, <3>2 DEF ChainIInv, TypeOK
    <3> QED
      BY <1>6, <3>2, <3>3
  <2>3. ASSUME NEW i \in heard' PROVE job'[i].status \notin {"none", "open"}
    <3>1. i \in heard /\ i \in Jobs \ {j}
      BY <1>0, <1>6, <2>3 DEF ChainIInv, TypeOK
    <3>2. job[i].status \notin {"none", "open"}
      BY <1>2, <3>1, Zenon DEF HandlersApart
    <3> QED
      BY <1>6, <3>1, <3>2
  <2>4. ASSUME NEW i \in Jobs, job'[i].status = "none" PROVE job'[i].wf = 0
    <3>1. i # j
      BY <1>6, <2>4
    <3> QED
      BY <1>2, <1>6, <2>4, <3>1, Zenon DEF HandlersApart
  <2> QED
    BY <2>1, <2>2, <2>3, <2>4, Zenon DEF HandlersApart
<1>8. Untouched'
  <2> SUFFICES ASSUME NEW v \in Workflows, wf'[v].status = "none"
               PROVE  /\ wf'[v].step = NoStep /\ wf'[v].done = {} /\ wf'[v].job = NoJob
                      /\ \A u \in Threads : ~ Carries(u, v)' /\ ~ Links(u, v)'
                      /\ \A i \in Jobs : job'[i].wf # v
    BY Zenon DEF Untouched
  <2>1. v # w /\ wf[v].status = "none"
    BY <1>0, <1>6
  <2>2. /\ wf[v].step = NoStep /\ wf[v].done = {} /\ wf[v].job = NoJob
        /\ \A u \in Threads : ~ Carries(u, v) /\ ~ Links(u, v)
        /\ \A i \in Jobs : job[i].wf # v
    BY <1>2, <2>1, Zenon DEF Untouched
  <2>3. \A i \in Jobs : job'[i].wf # v
    BY <1>6, <2>1, <2>2
  <2> QED
    BY <1>0, <1>6, <2>1, <2>2, <2>3
<1>9. acts' = 0 => Alone'
  <2> SUFFICES ASSUME acts = 0 PROVE Alone'
    BY <1>6
  <2>1. Alone /\ Stands(NoJob)
    BY <1>3, Zenon DEF Baton
  <2> QED
    BY <1>1, <1>2, <2>1, SubmitAlone
<1> QED
  BY <1>3, <1>4, <1>5, <1>6, <1>7, <1>8, <1>9, Zenon DEF Baton

(* A handler is entered: what was pending is carried now.                     *)
Enters(t, j, w, r) ==
  /\ task[t].pc = "idle" /\ job[j].status = "SUCCEEDED" /\ job[j].wf = w /\ j \notin heard
  /\ wf' = wf /\ job' = job /\ heard' = heard \cup {j} /\ acts' = acts
  /\ task'[t] = r /\ \A u \in Threads \ {t} : task'[u] = task[u]
  /\ r.pc = "apply" /\ r.job = j /\ r.wf = w /\ r.marks = TRUE

LEMMA EnterEffect ==
  ASSUME ChainIInv, Calm', NEW t \in Threads, NEW j \in Jobs, ContinuationStarts(t, j)
  PROVE  \E w \in Workflows, r \in Task : Enters(t, j, w, r)
<1>1. /\ task[t].pc = "idle" /\ job[j].status = "SUCCEEDED" /\ wf' = wf /\ job' = job
      /\ heard' = heard \cup {j} /\ acts' = acts
  BY DEF ContinuationStarts, At
<1>2. j \notin heard
  BY BoundAssumption DEF ContinuationStarts, Calm, ChainIInv, TypeOK
<1>3. PICK w \in Workflows : w = job[j].wf
  BY <1>1 DEF ChainIInv, JobGood
<1> DEFINE m == [Idle EXCEPT !.pc = "apply", !.job = j, !.wf = job[j].wf]
<1>4. Goto(t, m)
  BY DEF ContinuationStarts
<1>5. m \in Task /\ m.pc = "apply" /\ m.job = j /\ m.wf = w
  BY <1>3 DEF Idle, Task, Places, NoJob, NoStep
<1>6. m.marks = TRUE
  BY DEF Idle
<1> HIDE DEF m
<1>7. task'[t] = m /\ \A u \in Threads \ {t} : task'[u] = task[u]
  BY <1>4, OneGoes
<1> QED
  BY <1>1, <1>2, <1>3, <1>5, <1>6, <1>7, Zenon DEF Enters

LEMMA EnterFacts ==
  ASSUME ChainIInv, OneCarrier, HandlersApart, Untouched,
         NEW t \in Threads, NEW j \in Jobs, NEW w \in Workflows, NEW r \in Task, Enters(t, j, w, r)
  PROVE  /\ Pending(j, w) /\ wf[w].status # "none"
         /\ \A i \in Jobs : Pending(i, w) => i = j
         /\ \A u \in Threads : ~ Carries(u, w)
         /\ \A u \in Threads : task[u].job # j
         /\ \A u \in Threads, v \in Workflows : Carries(u, v)' <=> (u = t /\ v = w) \/ Carries(u, v)
         /\ \A u \in Threads, v \in Workflows : Links(u, v)' <=> Links(u, v)
         /\ \A u \in Threads, v \in Workflows : Links(u, v) => task'[u] = task[u]
         /\ \A i \in Jobs, v \in Workflows : Pending(i, v)' <=> i # j /\ Pending(i, v)
         /\ \A u \in Threads, i \in Jobs : Handles(u, i)' <=> (u = t /\ i = j) \/ Handles(u, i)
<1>1. Pending(j, w)
  BY DEF Enters, Pending
<1>2. wf[w].status # "none"
  BY Zenon DEF Enters, Untouched
<1>3. (\A i \in Jobs : Pending(i, w) => i = j) /\ \A u \in Threads : ~ Carries(u, w)
  BY <1>1, Zenon DEF OneCarrier
<1>4. \A u \in Threads : task[u].job # j
  <2>1. j # NoJob
    BY DEF Jobs, NoJob
  <2> QED
    BY <2>1, Zenon DEF Enters, HandlersApart
<1>5. \A u \in Threads, v \in Workflows : Carries(u, v)' <=> (u = t /\ v = w) \/ Carries(u, v)
  BY DEF Enters, Carries
<1>6. \A u \in Threads, v \in Workflows : Links(u, v)' <=> Links(u, v)
  BY DEF Enters, Links
<1>7. \A u \in Threads, v \in Workflows : Links(u, v) => task'[u] = task[u]
  BY DEF Enters, Links
<1>8. \A i \in Jobs, v \in Workflows : Pending(i, v)' <=> i # j /\ Pending(i, v)
  BY DEF Enters, Pending
<1>9. \A u \in Threads, i \in Jobs : Handles(u, i)' <=> (u = t /\ i = j) \/ Handles(u, i)
  BY DEF Enters, Handles
<1> QED
  BY <1>1, <1>2, <1>3, <1>4, <1>5, <1>6, <1>7, <1>8, <1>9, Zenon

LEMMA EnterStands ==
  ASSUME ChainIInv, OneCarrier, HandlersApart, Untouched,
         NEW t \in Threads, NEW j \in Jobs, NEW w \in Workflows, NEW r \in Task, Enters(t, j, w, r),
         NEW k \in Jobs \cup {NoJob}, Stands(k)
  PROVE  Stands(k)'
<1>0. /\ Pending(j, w)
      /\ \A u \in Threads, v \in Workflows : Carries(u, v)' <=> (u = t /\ v = w) \/ Carries(u, v)
      /\ \A i \in Jobs, v \in Workflows : Pending(i, v)' <=> i # j /\ Pending(i, v)
      /\ \A u \in Threads, i \in Jobs : Handles(u, i)' <=> (u = t /\ i = j) \/ Handles(u, i)
  BY EnterFacts
<1>1. /\ wf' = wf /\ job' = job /\ task'[t] = r /\ \A u \in Threads \ {t} : task'[u] = task[u]
      /\ r.pc = "apply" /\ r.job = j /\ r.wf = w
  BY Zenon DEF Enters
<1>2. \A v, n : Upto(v, n, k) => Upto(v, n, k)'
  BY <1>1, Zenon DEF Upto
<1>3. \A i, v : JobStands(i, v, k) => JobStands(i, v, k)'
  BY <1>1, <1>2, Zenon DEF JobStands
<1>4. Calls(k)'
  BY <1>1, Zenon DEF Stands, Calls, SameCall
<1>5. TasksStand(k)'
  <2> SUFFICES ASSUME NEW u \in Threads PROVE TaskStands(task[u], k)'
    BY Zenon DEF TasksStand
  <2>1. CASE u = t
    <3>1. JobStands(j, w, k)'
      BY <1>0, <1>3, Zenon DEF Stands, PendingStand
    <3>2. r.pc \notin {"submit", "writeback"} /\ r.pc # "submit"
      BY <1>1
    <3> QED
      BY <1>1, <2>1, <3>1, <3>2, Zenon DEF TaskStands
  <2>2. CASE u # t
    <3>1. PICK q : q = task[u] /\ q = task'[u]
      BY <1>1, <2>2
    <3>2. TaskStands(q, k)
      BY <3>1, Zenon DEF Stands, TasksStand
    <3> QED
      BY <1>1, <1>2, <1>3, <3>1, <3>2, Zenon DEF TaskStands
  <2> QED
    BY <2>1, <2>2
<1>6. LinksStand(k)'
  <2> SUFFICES ASSUME NEW u \in Threads, task'[u].pc = "link" PROVE LinkStands(u, k)'
    BY Zenon DEF LinksStand, LinkStands
  <2>0. u # t
    BY <1>1
  <2>1. PICK q : q = task[u] /\ q = task'[u]
    BY <1>1, <2>0
  <2>2. q.pc = "link" /\ q.wf \in Workflows /\ q.new \in Jobs
    BY <2>1, DriverFacts DEF Driving
  <2>3. /\ q.new # k /\ job[q.new].wf = q.wf /\ job[q.new].step = q.step /\ job[q.new].status # "none"
        /\ \A x \in Threads : task[x].pc = "link" /\ task[x].new = q.new => x = u
        /\ q.marks =>
             /\ wf[q.wf].step # q.step
             /\ \A x \in Threads : Carries(x, q.wf) => Handles(x, q.new)
             /\ \A i \in Jobs : Pending(i, q.wf) => i = q.new
    <3>1. LinkStands(u, k)
      BY Zenon DEF Stands, LinksStand
    <3> QED
      BY <2>1, <2>2, <3>1, Zenon DEF LinkStands
  <2>4. \A x \in Threads : task'[x].pc = "link" /\ task'[x].new = q.new => x = u
    <3>1. task'[t].pc # "link"
      BY <1>1
    <3> QED
      BY <1>1, <2>3, <3>1
  <2>5. ASSUME q.marks
        PROVE  /\ \A x \in Threads : Carries(x, q.wf)' => Handles(x, q.new)'
               /\ \A i \in Jobs : Pending(i, q.wf)' => i = q.new
    <3>1. \A i \in Jobs : Pending(i, q.wf) => i = q.new
      BY <2>3, <2>5
    <3>2. \A x \in Threads : Carries(x, q.wf) => Handles(x, q.new)'
      BY <1>0, <2>2, <2>3, <2>5, Zenon
    <3>3. q.wf = w => Handles(t, q.new)'
      BY <1>0, <3>1, Zenon
    <3>4. \A x \in Threads : Carries(x, q.wf)' => (x = t /\ q.wf = w) \/ Carries(x, q.wf)
      BY <1>0, <2>2, Zenon
    <3>5. \A i \in Jobs : Pending(i, q.wf)' => i = q.new
      BY <1>0, <2>2, <3>1, Zenon
    <3> QED
      BY <3>2, <3>3, <3>4, <3>5, Zenon
  <2> QED
    BY <1>1, <2>1, <2>3, <2>4, <2>5, Zenon DEF LinkStands
<1>7. PendingStand(k)'
  <2> SUFFICES ASSUME NEW v \in Workflows, NEW i \in Jobs, Pending(i, v)' PROVE JobStands(i, v, k)'
    BY Zenon DEF PendingStand
  <2>1. Pending(i, v)
    BY <1>0, Zenon
  <2> QED
    BY <1>3, <2>1, Zenon DEF Stands, PendingStand
<1> QED
  BY <1>4, <1>5, <1>6, <1>7, Zenon DEF Stands

LEMMA EnterAlone ==
  ASSUME ChainIInv, OneCarrier, HandlersApart, Untouched, Alone,
         NEW t \in Threads, NEW j \in Jobs, NEW w \in Workflows, NEW r \in Task, Enters(t, j, w, r)
  PROVE  Alone'
<1>0. /\ Pending(j, w)
      /\ \A u \in Threads, v \in Workflows : Carries(u, v)' <=> (u = t /\ v = w) \/ Carries(u, v)
      /\ \A u \in Threads, v \in Workflows : Links(u, v)' <=> Links(u, v)
      /\ \A u \in Threads, v \in Workflows : Links(u, v) => task'[u] = task[u]
      /\ \A i \in Jobs, v \in Workflows : Pending(i, v)' <=> i # j /\ Pending(i, v)
      /\ \A u \in Threads, i \in Jobs : Handles(u, i)' <=> (u = t /\ i = j) \/ Handles(u, i)
  BY EnterFacts
<1>1. /\ wf' = wf /\ job' = job /\ task'[t] = r /\ \A u \in Threads \ {t} : task'[u] = task[u]
      /\ r.pc = "apply" /\ r.job = j /\ r.wf = w /\ r.marks /\ job[j].status = "SUCCEEDED" /\ job[j].wf = w
  BY Zenon DEF Enters
<1>2. \A i \in Jobs, v \in Workflows : LinkedBy(i, v) => LinkedBy(i, v)'
  <2> SUFFICES ASSUME NEW i \in Jobs, NEW v \in Workflows, NEW u \in Threads, Links(u, v), task[u].new = i
               PROVE  LinkedBy(i, v)'
    BY DEF LinkedBy
  <2>1. Links(u, v)' /\ task'[u].new = i
    BY <1>0
  <2> QED
    BY <2>1, Zenon DEF LinkedBy
<1>3. TasksAlone'
  <2> SUFFICES ASSUME NEW u \in Threads PROVE AloneTask(task[u])'
    BY Zenon DEF TasksAlone
  <2>1. CASE u = t
    <3>1. r.pc # "abort" /\ r.pc # "link" /\ r.pc \notin {"finish", "writeback", "submit", "link"}
      BY <1>1
    <3>2. AloneTask(r)'
      BY <1>1, <3>1, Zenon DEF AloneTask
    <3> QED
      BY <1>1, <2>1, <3>2, Zenon DEF AloneTask
  <2>2. CASE u # t
    <3>1. PICK q : q = task[u] /\ q = task'[u]
      BY <1>1, <2>2
    <3>2. AloneTask(q)
      BY <3>1, Zenon DEF Alone, TasksAlone
    <3>3. Upto(q.wf, Rank(q.step), NoJob) => Upto(q.wf, Rank(q.step), NoJob)'
      BY <1>1, Zenon DEF Upto
    <3> QED
      BY <1>1, <3>1, <3>2, <3>3, Zenon DEF AloneTask
  <2> QED
    BY <2>1, <2>2
<1>4. LinksAlone'
  BY <1>0, Zenon DEF Alone, LinksAlone
<1>5. ActiveAlone'
  BY <1>1, Zenon DEF Alone, ActiveAlone
<1>6. CarrierKnown'
  <2> SUFFICES ASSUME NEW v \in Workflows, NEW i \in Jobs, Answered(i, v)'
               PROVE  LinkedBy(i, v)' \/ WaitsFor(v, i)'
    BY Zenon DEF CarrierKnown, Answered
  <2>1. job[i].wf = v
    BY <1>1 DEF Answered, Pending
  <2>2. Answered(i, v)
    <3>1. CASE i = j
      BY <1>0, <1>1, <2>1, <3>1, Zenon DEF Answered
    <3>2. CASE i # j
      BY <1>0, <2>1, <3>2, Zenon DEF Answered
    <3> QED
      BY <3>1, <3>2
  <2>3. LinkedBy(i, v) \/ WaitsFor(v, i)
    BY <2>2, Zenon DEF Alone, CarrierKnown, Answered
  <2>4. WaitsFor(v, i) => WaitsFor(v, i)'
    BY <1>1, Zenon DEF WaitsFor
  <2> QED
    BY <1>2, <2>3, <2>4
<1>7. StuckAlone'
  <2> SUFFICES ASSUME NEW v \in Workflows, Stuck(v)'
               PROVE  /\ wf'[v].status \in {"waiting", "failed", "deleted"}
                      /\ \A u \in Threads : ~ Carries(u, v)' /\ ~ Links(u, v)'
                      /\ \A i \in Jobs : ~ Pending(i, v)'
    BY Zenon DEF StuckAlone
  <2>1. Stuck(v)
    <3>1. task'[t].pc # "reconcile"
      BY <1>1
    <3> QED
      BY <1>1, <3>1, Zenon DEF Stuck
  <2>2. /\ wf[v].status \in {"waiting", "failed", "deleted"}
        /\ \A u \in Threads : ~ Carries(u, v) /\ ~ Links(u, v)
        /\ \A i \in Jobs : ~ Pending(i, v)
    BY <2>1, Zenon DEF Alone, StuckAlone
  <2>3. v # w
    BY <1>0, <2>2
  <2> QED
    BY <1>0, <1>1, <2>2, <2>3
<1>8. RowsStand'
  <2> SUFFICES ASSUME NEW v \in Workflows, wf'[v].status \in {"waiting", "failed"} PROVE RowFront(v)'
    BY Zenon DEF RowsStand
  <2>1. RowFront(v)
    BY <1>1, Zenon DEF Alone, RowsStand
  <2> QED
    BY <1>1, <1>2, <2>1, Zenon DEF RowFront
<1> QED
  BY <1>3, <1>4, <1>5, <1>6, <1>7, <1>8, Zenon DEF Alone

LEMMA ContinuationStartsPasses ==
  ASSUME ChainIInv, Baton, NEW t \in Threads, NEW j \in Jobs, Calm', ContinuationStarts(t, j)
  PROVE  Baton'
<1>1. PICK w \in Workflows, r \in Task : Enters(t, j, w, r)
  BY EnterEffect
<1>2. OneCarrier /\ HandlersApart /\ Untouched
  BY Zenon DEF Baton
<1>3. PICK k \in Jobs \cup {NoJob} : Stands(k) /\ (acts = 0 => k = NoJob)
  BY Zenon DEF Baton
<1>4. Stands(k)'
  BY <1>1, <1>2, <1>3, EnterStands
<1>0. /\ Pending(j, w) /\ wf[w].status # "none"
      /\ \A i \in Jobs : Pending(i, w) => i = j
      /\ \A u \in Threads : ~ Carries(u, w)
      /\ \A u \in Threads : task[u].job # j
      /\ \A u \in Threads, v \in Workflows : Carries(u, v)' <=> (u = t /\ v = w) \/ Carries(u, v)
      /\ \A u \in Threads, v \in Workflows : Links(u, v)' <=> Links(u, v)
      /\ \A i \in Jobs, v \in Workflows : Pending(i, v)' <=> i # j /\ Pending(i, v)
  BY <1>1, <1>2, EnterFacts
<1>5. OneCarrier'
  <2> SUFFICES ASSUME NEW v \in Workflows
               PROVE  /\ \A x, u \in Threads : Carries(x, v)' /\ Carries(u, v)' => x = u
                      /\ \A i, l \in Jobs : Pending(i, v)' /\ Pending(l, v)' => i = l
                      /\ \A x \in Threads, i \in Jobs : ~ (Carries(x, v)' /\ Pending(i, v)')
    BY Zenon DEF OneCarrier
  <2>1. /\ \A x, u \in Threads : Carries(x, v) /\ Carries(u, v) => x = u
        /\ \A i, l \in Jobs : Pending(i, v) /\ Pending(l, v) => i = l
        /\ \A x \in Threads, i \in Jobs : ~ (Carries(x, v) /\ Pending(i, v))
    BY <1>2, Zenon DEF OneCarrier
  <2> QED
    BY <1>0, <2>1
<1>6. /\ wf' = wf /\ heard' = heard \cup {j} /\ acts' = acts /\ job' = job
      /\ job[j].status = "SUCCEEDED" /\ task'[t].job = j
      /\ \A u \in Threads \ {t} : task'[u] = task[u]
  BY <1>1, Zenon DEF Enters
<1>7. HandlersApart'
  <2>1. ASSUME NEW x \in Threads, NEW u \in Threads, task'[x].job = task'[u].job, task'[x].job # NoJob
        PROVE  x = u
    <3>1. CASE x = t \/ u = t
      BY <1>0, <1>6, <2>1, <3>1
    <3>2. CASE x # t /\ u # t
      <4>1. task[x].job = task[u].job /\ task[x].job # NoJob
        BY <1>6, <2>1, <3>2
      <4> QED
        BY <1>2, <4>1, Zenon DEF HandlersApart
    <3> QED
      BY <3>1, <3>2
  <2>2. ASSUME NEW u \in Threads, task'[u].job # NoJob
        PROVE  task'[u].job \in heard' /\ job'[task'[u].job].status # "gone"
    <3>1. CASE u = t
      BY <1>6, <3>1
    <3>2. CASE u # t
      <4>1. PICK i : i = task[u].job /\ i = task'[u].job
        BY <1>6, <3>2
      <4>2. i \in heard /\ job[i].status # "gone"
        BY <1>2, <2>2, <4>1, Zenon DEF HandlersApart
      <4> QED
        BY <1>6, <4>1, <4>2
    <3> QED
      BY <3>1, <3>2
  <2>3. ASSUME NEW i \in heard' PROVE job'[i].status \notin {"none", "open"}
    <3>1. CASE i = j
      BY <1>6, <3>1
    <3>2. CASE i \in heard
      <4>1. job[i].status \notin {"none", "open"}
        BY <1>2, <3>2, Zenon DEF HandlersApart
      <4> QED
        BY <1>6, <4>1
    <3> QED
      BY <1>6, <2>3, <3>1, <3>2
  <2>4. ASSUME NEW i \in Jobs, job'[i].status = "none" PROVE job'[i].wf = 0
    BY <1>2, <1>6, <2>4, Zenon DEF HandlersApart
  <2> QED
    BY <2>1, <2>2, <2>3, <2>4, Zenon DEF HandlersApart
<1>8. Untouched'
  <2> SUFFICES ASSUME NEW v \in Workflows, wf'[v].status = "none"
               PROVE  /\ wf'[v].step = NoStep /\ wf'[v].done = {} /\ wf'[v].job = NoJob
                      /\ \A u \in Threads : ~ Carries(u, v)' /\ ~ Links(u, v)'
                      /\ \A i \in Jobs : job'[i].wf # v
    BY Zenon DEF Untouched
  <2>1. v # w /\ wf[v].status = "none"
    BY <1>0, <1>6
  <2>2. /\ wf[v].step = NoStep /\ wf[v].done = {} /\ wf[v].job = NoJob
        /\ \A u \in Threads : ~ Carries(u, v) /\ ~ Links(u, v)
        /\ \A i \in Jobs : job[i].wf # v
    BY <1>2, <2>1, Zenon DEF Untouched
  <2> QED
    BY <1>0, <1>6, <2>1, <2>2
<1>9. acts' = 0 => Alone'
  <2> SUFFICES ASSUME acts = 0 PROVE Alone'
    BY <1>6
  <2>1. Alone
    BY Zenon DEF Baton
  <2> QED
    BY <1>1, <1>2, <2>1, EnterAlone
<1> QED
  BY <1>3, <1>4, <1>5, <1>6, <1>7, <1>8, <1>9, Zenon DEF Baton

(* The row is told of the job: it waits for it, or, as the job has gone        *)
(* meanwhile, it is marked as failed.                                         *)
Linked(t, w, s, n) ==
  /\ task[t].pc = "link" /\ task[t].wf = w /\ task[t].step = s /\ task[t].new = n
  /\ job' = job /\ heard' = heard /\ acts' = acts
  /\ \A v \in Workflows \ {w} : wf'[v] = wf[v]
  /\ wf'[w].step = s /\ wf[w].status # "none" /\ MayBeActive(w)
  /\ \/ wf'[w].status = "waiting" /\ wf'[w].job = n /\ wf'[w].done = wf[w].done
     \/ wf'[w].status = "failed" /\ wf'[w].done = task[t].done /\ job[n].status \in {"none", "gone"} /\ task[t].marks
  /\ \A u \in Threads \ {t} : task'[u] = task[u]
  /\ task'[t].pc \in LettingGo \ {"reconcile"}
  /\ task'[t].marks = TRUE \/ task'[t].marks = task[t].marks
  /\ task'[t].job # NoJob => task'[t].job = task[t].job

LEMMA LinkEffect ==
  ASSUME ChainIInv, NEW t \in Threads, Link(t)
  PROVE  \/ UNCHANGED wf /\ ~ (task[t].marks /\ Stored(task[t].wf) /\ MayBeActive(task[t].wf))
         \/ \E w \in Workflows, s \in RemoteSteps, n \in Jobs : Linked(t, w, s, n)
<1>1. /\ task[t].pc = "link" /\ job' = job /\ heard' = heard /\ acts' = acts
      /\ task[t].wf \in Workflows /\ task[t].step \in RemoteSteps /\ task[t].new \in Jobs
      /\ task[t].done \in SUBSET Steps
  BY TaskFacts DEF Link, At, TaskGood, Task
<1>2. PICK w \in Workflows, s \in RemoteSteps, n \in Jobs : w = task[t].wf /\ s = task[t].step /\ n = task[t].new
  BY <1>1
<1>3. Returns(t) \/ Raises(t)
  BY DEF Link, StepFails
<1>4. Rests(t) /\ task'[t].pc # "reconcile"
  BY <1>3, ReturnRests
<1>5. wf[w] \in Workflow /\ wf \in [Workflows -> Workflow]
  BY DEF ChainIInv, TypeOK
<1>6. CASE Stored(w) /\ Exists(n) /\ MayBeActive(w)
  <2> DEFINE x == [wf[w] EXCEPT !.status = "waiting", !.step = s, !.job = n]
  <2>1. wf' = [wf EXCEPT ![w] = x]
    BY <1>2, <1>5, <1>6 DEF Link, Workflow
  <2>2. x.status = "waiting" /\ x.step = s /\ x.job = n /\ x.done = wf[w].done
    BY <1>5 DEF Workflow
  <2> HIDE DEF x
  <2>3. wf'[w] = x /\ \A v \in Workflows \ {w} : wf'[v] = wf[v]
    BY <1>5, <2>1
  <2>4. wf[w].status # "none"
    BY <1>6 DEF Stored, Kept, Active
  <2>5. Linked(t, w, s, n)
    BY <1>1, <1>2, <1>4, <1>6, <2>2, <2>3, <2>4, Zenon DEF Linked, Rests
  <2> QED
    BY <2>5
<1>7. CASE ~ (Stored(w) /\ Exists(n) /\ MayBeActive(w))
  <2>1. StepFails(t)
    BY <1>2, <1>7, Zenon DEF Link
  <2>2. CASE ~ (task[t].marks /\ Stored(w) /\ MayBeActive(w))
    <3>1. wf' = wf
      BY <1>2, <2>1, <2>2, Zenon DEF StepFails
    <3> QED
      BY <1>2, <2>2, <3>1, Zenon
  <2>3. CASE task[t].marks /\ Stored(w) /\ MayBeActive(w)
    <3> DEFINE x == [wf[w] EXCEPT !.status = "failed", !.step = s, !.done = task[t].done]
    <3>1. wf' = [wf EXCEPT ![w] = x]
      BY <1>2, <2>1, <2>3, Zenon DEF StepFails
    <3>2. x.status = "failed" /\ x.step = s /\ x.done = task[t].done
      BY <1>5 DEF Workflow
    <3> HIDE DEF x
    <3>3. wf'[w] = x /\ \A v \in Workflows \ {w} : wf'[v] = wf[v]
      BY <1>5, <3>1
    <3>4. wf[w].status # "none"
      BY <2>3 DEF Stored, Kept, Active
    <3>5. job[n].status \in {"none", "gone"}
      <4>1. ~ Exists(n)
        BY <1>7, <2>3
      <4> QED
        BY <4>1 DEF Exists, Jobs, NoJob
    <3>6. Linked(t, w, s, n)
      BY <1>1, <1>2, <1>4, <2>3, <3>2, <3>3, <3>4, <3>5, Zenon DEF Linked, Rests
    <3> QED
      BY <3>6
  <2> QED
    BY <2>2, <2>3
<1> QED
  BY <1>6, <1>7

LEMMA LinkFacts ==
  ASSUME NEW t \in Threads, NEW w \in Workflows, NEW s \in RemoteSteps, NEW n \in Jobs, Linked(t, w, s, n)
  PROVE  /\ Links(t, w)
         /\ \A u \in Threads, v \in Workflows : Carries(u, v)' <=> Carries(u, v)
         /\ \A u \in Threads, v \in Workflows : Links(u, v)' <=> u # t /\ Links(u, v)
         /\ \A i \in Jobs, v \in Workflows : Pending(i, v)' <=> Pending(i, v)
         /\ \A u \in Threads, i \in Jobs : Handles(u, i)' <=> Handles(u, i)
         /\ \A v \in Workflows : wf'[v].status = "none" => wf'[v] = wf[v] /\ v # w
<1>1. Links(t, w)
  BY DEF Linked, Links
<1>2. \A u \in Threads, v \in Workflows : Carries(u, v)' <=> Carries(u, v)
  BY DEF Linked, Carries, LettingGo
<1>3. \A u \in Threads, v \in Workflows : Links(u, v)' <=> u # t /\ Links(u, v)
  BY DEF Linked, Links, LettingGo
<1>4. \A i \in Jobs, v \in Workflows : Pending(i, v)' <=> Pending(i, v)
  BY DEF Linked, Pending
<1>5. \A u \in Threads, i \in Jobs : Handles(u, i)' <=> Handles(u, i)
  BY DEF Linked, Handles, LettingGo
<1>6. \A v \in Workflows : wf'[v].status = "none" => wf'[v] = wf[v] /\ v # w
  BY DEF Linked
<1> QED
  BY <1>1, <1>2, <1>3, <1>4, <1>5, <1>6, Zenon

(* Who carries on, if anybody, is still in the handler of the job linked; where *)
(* the job has gone there is nobody.                                           *)
LEMMA LinkLast ==
  ASSUME ChainIInv, HandlersApart, NEW t \in Threads, NEW w \in Workflows, NEW s \in RemoteSteps, NEW n \in Jobs, Linked(t, w, s, n),
         NEW k \in Jobs \cup {NoJob}, Stands(k)
  PROVE  /\ n # k /\ job[n].wf = w /\ job[n].step = s /\ job[n].status # "none"
         /\ \A u \in Threads : task[u].pc = "link" /\ task[u].new = n => u = t
         /\ task[t].marks => /\ \A u \in Threads : Carries(u, w) => Handles(u, n)
                             /\ \A i \in Jobs : Pending(i, w) => i = n
         /\ \/ wf'[w].done = wf[w].done /\ wf'[w].status = "waiting" /\ wf'[w].job = n
            \/ /\ wf'[w].status = "failed" /\ wf'[w].done = task[t].done
               /\ \A u \in Threads : ~ Carries(u, w)
               /\ \A i \in Jobs : ~ Pending(i, w)
<1>1. PICK q : q = task[t]
  OBVIOUS
<1>2. q.pc = "link" /\ q.wf = w /\ q.step = s /\ q.new = n
  BY <1>1, Zenon DEF Linked
<1>3. LinkStands(t, k)
  BY Zenon DEF Stands, LinksStand
<1>4. /\ n # k /\ job[n].wf = w /\ job[n].step = s /\ job[n].status # "none"
      /\ \A u \in Threads : task[u].pc = "link" /\ task[u].new = n => u = t
      /\ q.marks => /\ \A u \in Threads : Carries(u, w) => Handles(u, n)
                    /\ \A i \in Jobs : Pending(i, w) => i = n
  BY <1>1, <1>2, <1>3, Zenon DEF LinkStands
<1>5. ASSUME job[n].status = "gone", q.marks
      PROVE  /\ \A u \in Threads : ~ Carries(u, w)
             /\ \A i \in Jobs : ~ Pending(i, w)
  <2>1. \A u \in Threads : ~ Handles(u, n)
    <3> SUFFICES ASSUME NEW u \in Threads, Handles(u, n) PROVE FALSE
      OBVIOUS
    <3>1. task[u].job = n /\ n # NoJob
      BY DEF Handles, Jobs, NoJob
    <3>2. job[n].status # "gone"
      BY <3>1, Zenon DEF HandlersApart
    <3> QED
      BY <1>5, <3>2
  <2>2. ~ Pending(n, w)
    BY <1>5 DEF Pending
  <2> QED
    BY <1>4, <1>5, <2>1, <2>2
<1>6. \/ wf'[w].done = wf[w].done /\ wf'[w].status = "waiting" /\ wf'[w].job = n
      \/ wf'[w].status = "failed" /\ wf'[w].done = q.done /\ job[n].status \in {"none", "gone"} /\ q.marks
  BY <1>1, Zenon DEF Linked
<1>7. job[n].status \in {"none", "gone"} => job[n].status = "gone"
  BY <1>4
<1> QED
  BY <1>1, <1>4, <1>5, <1>6, <1>7, Zenon

LEMMA LinkedStands ==
  ASSUME ChainIInv, HandlersApart, NEW t \in Threads, NEW w \in Workflows, NEW s \in RemoteSteps, NEW n \in Jobs, Linked(t, w, s, n),
         NEW k \in Jobs \cup {NoJob}, Stands(k)
  PROVE  Stands(k)'
<1>0. /\ \A u \in Threads, v \in Workflows : Carries(u, v)' <=> Carries(u, v)
      /\ \A i \in Jobs, v \in Workflows : Pending(i, v)' <=> Pending(i, v)
      /\ \A u \in Threads, i \in Jobs : Handles(u, i)' <=> Handles(u, i)
  BY LinkFacts
<1>1. /\ n # k /\ job[n].wf = w /\ job[n].step = s
      /\ \A u \in Threads : task[u].pc = "link" /\ task[u].new = n => u = t
      /\ \/ wf'[w].done = wf[w].done
         \/ /\ \A u \in Threads : ~ Carries(u, w)
            /\ \A i \in Jobs : ~ Pending(i, w)
  BY LinkLast
<1>2. /\ job' = job /\ \A v \in Workflows \ {w} : wf'[v] = wf[v]
      /\ wf'[w].step = s /\ task'[t].pc \notin Driving /\ \A u \in Threads \ {t} : task'[u] = task[u]
  BY DEF Linked, LettingGo, Driving
<1>3. \A v, m : Upto(v, m, k) => Upto(v, m, k)'
  BY <1>2, Zenon DEF Upto
<1>4. \A i, v : wf'[v].done = wf[v].done /\ JobStands(i, v, k) => JobStands(i, v, k)'
  BY <1>2, <1>3, Zenon DEF JobStands
<1>5. Calls(k)'
  BY <1>2, Zenon DEF Stands, Calls, SameCall
<1>6. Rank(s) \in 1 .. 10
  BY RankFacts DEF RemoteSteps
<1>7. TasksStand(k)'
  <2> SUFFICES ASSUME NEW u \in Threads PROVE TaskStands(task[u], k)'
    BY Zenon DEF TasksStand
  <2>1. CASE task'[u].pc \notin Driving
    BY <2>1, RestingStands
  <2>2. CASE task'[u].pc = "link"
    <3>1. PICK q : q = task'[u]
      OBVIOUS
    <3>2. q.pc \notin {"submit", "writeback"} /\ q.pc # "submit" /\ q.pc # "apply"
      BY <2>2, <3>1
    <3> QED
      BY <3>1, <3>2, Zenon DEF TaskStands
  <2>3. CASE task'[u].pc \in Driving \ {"link"}
    <3>1. u # t
      BY <1>2, <2>3
    <3>2. PICK q : q = task[u] /\ q = task'[u]
      BY <1>2, <3>1
    <3>3. q.pc \in Driving \ {"link"} /\ q.wf \in Workflows /\ (q.pc \in {"submit", "writeback"} => q.step \in Steps)
      BY <2>3, <3>2, DriverFacts
    <3>4. Carries(u, q.wf)
      BY <3>2, <3>3 DEF Driving, Carries
    <3>5. wf'[q.wf].done = wf[q.wf].done
      BY <1>1, <1>2, <3>3, <3>4
    <3>6. TaskStands(q, k)
      BY <3>2, Zenon DEF Stands, TasksStand
    <3>7. ASSUME q.pc \in {"submit", "writeback"}, q.marks PROVE Rank(wf'[q.wf].step) < Rank(q.step)
      <4>1. Upto(q.wf, Rank(q.step) - 1, k) /\ Rank(wf[q.wf].step) < Rank(q.step)
        BY <3>6, <3>7, Zenon DEF TaskStands
      <4>2. CASE q.wf = w
        <5>1. Rank(s) <= Rank(q.step) - 1
          BY <1>1, <4>1, <4>2, Zenon DEF Upto
        <5>2. Rank(q.step) \in 1 .. 10
          BY <3>3, <3>7, RankFacts
        <5> QED
          BY <1>2, <1>6, <4>2, <5>1, <5>2
      <4>3. CASE q.wf # w
        BY <1>2, <3>3, <4>1, <4>3
      <4> QED
        BY <4>2, <4>3
    <3>8. TaskStands(q, k)'
      BY <1>3, <1>4, <3>5, <3>6, <3>7, Zenon DEF TaskStands
    <3> QED
      BY <3>2, <3>8, Zenon DEF TaskStands
  <2> QED
    BY <2>1, <2>2, <2>3
<1>8. LinksStand(k)'
  <2> SUFFICES ASSUME NEW u \in Threads, task'[u].pc = "link" PROVE LinkStands(u, k)'
    BY Zenon DEF LinksStand, LinkStands
  <2>0. u # t
    BY <1>2 DEF Driving
  <2>1. PICK q : q = task[u] /\ q = task'[u]
    BY <1>2, <2>0
  <2>2. q.pc = "link" /\ q.wf \in Workflows /\ q.new \in Jobs
    BY <2>1, DriverFacts DEF Driving
  <2>3. /\ q.new # k /\ job[q.new].wf = q.wf /\ job[q.new].step = q.step /\ job[q.new].status # "none"
        /\ \A x \in Threads : task[x].pc = "link" /\ task[x].new = q.new => x = u
        /\ q.marks =>
             /\ wf[q.wf].step # q.step
             /\ \A x \in Threads : Carries(x, q.wf) => Handles(x, q.new)
             /\ \A i \in Jobs : Pending(i, q.wf) => i = q.new
    <3>1. LinkStands(u, k)
      BY Zenon DEF Stands, LinksStand
    <3> QED
      BY <2>1, <2>2, <3>1, Zenon DEF LinkStands
  <2>4. \A x \in Threads : task'[x].pc = "link" /\ task'[x].new = q.new => x = u
    <3>1. task'[t].pc # "link"
      BY <1>2 DEF Driving
    <3> QED
      BY <1>2, <2>3, <3>1
  <2>5. ASSUME q.marks
        PROVE  /\ \A x \in Threads : Carries(x, q.wf)' => Handles(x, q.new)'
               /\ \A i \in Jobs : Pending(i, q.wf)' => i = q.new
    <3>1. \A i \in Jobs : Pending(i, q.wf)' => i = q.new
      BY <1>0, <2>2, <2>3, <2>5, Zenon
    <3>2. \A x \in Threads : Carries(x, q.wf)' => Handles(x, q.new)'
      BY <1>0, <2>2, <2>3, <2>5, Zenon
    <3> QED
      BY <3>1, <3>2
  <2>6. ASSUME q.marks PROVE wf'[q.wf].step # q.step
    <3>1. CASE q.wf = w
      <4>0. w # 0
        BY DEF Workflows
      <4>1. w # 0 /\ q.new # n
        BY <1>1, <2>0, <2>1, <2>2, <4>0, Zenon
      <4>2. ~ SameCall(q.new, n)
        BY <1>1, <2>2, <2>3, <4>1, Zenon DEF Stands, Calls
      <4>3. q.step # s
        BY <1>1, <2>3, <3>1, <4>1, <4>2, Zenon DEF SameCall
      <4> QED
        BY <1>2, <3>1, <4>3
    <3>2. CASE q.wf # w
      BY <1>2, <2>2, <2>3, <2>6, <3>2
    <3> QED
      BY <3>1, <3>2
  <2> QED
    BY <1>2, <2>1, <2>3, <2>4, <2>5, <2>6, Zenon DEF LinkStands
<1>9. PendingStand(k)'
  <2> SUFFICES ASSUME NEW v \in Workflows, NEW i \in Jobs, Pending(i, v)' PROVE JobStands(i, v, k)'
    BY Zenon DEF PendingStand
  <2>1. Pending(i, v)
    BY <1>0, Zenon
  <2>2. wf'[v].done = wf[v].done
    BY <1>1, <1>2, <2>1
  <2>3. JobStands(i, v, k)
    BY <2>1, Zenon DEF Stands, PendingStand
  <2> QED
    BY <1>4, <2>2, <2>3
<1> QED
  BY <1>5, <1>7, <1>8, <1>9, Zenon DEF Stands

LEMMA LinkedAlone ==
  ASSUME ChainIInv, HandlersApart, Alone, Stands(NoJob),
         NEW t \in Threads, NEW w \in Workflows, NEW s \in RemoteSteps, NEW n \in Jobs, Linked(t, w, s, n)
  PROVE  Alone'
<1>0. /\ Links(t, w)
      /\ \A u \in Threads, v \in Workflows : Carries(u, v)' <=> Carries(u, v)
      /\ \A u \in Threads, v \in Workflows : Links(u, v)' <=> u # t /\ Links(u, v)
      /\ \A i \in Jobs, v \in Workflows : Pending(i, v)' <=> Pending(i, v)
      /\ \A u \in Threads, i \in Jobs : Handles(u, i)' <=> Handles(u, i)
  BY LinkFacts
<1>1. /\ job' = job /\ \A v \in Workflows \ {w} : wf'[v] = wf[v]
      /\ wf'[w].step = s /\ task'[t].pc \in LettingGo \ {"reconcile"} /\ \A u \in Threads \ {t} : task'[u] = task[u]
      /\ task'[t].job # NoJob => task'[t].job = task[t].job
      /\ MayBeActive(w)
  BY Zenon DEF Linked
<1>2. NoJob \in Jobs \cup {NoJob}
  OBVIOUS
<1>3. PICK q : q = task[t]
  OBVIOUS
<1>4. q.pc = "link" /\ q.wf = w /\ q.step = s /\ q.new = n
  BY <1>3, Zenon DEF Linked
<1>5. /\ q.marks /\ (q.job # NoJob => job[q.job].status = "SUCCEEDED")
      /\ Upto(w, Rank(s), NoJob) /\ Before(s) \subseteq wf[w].done \cap q.done
  <2>1. AloneTask(q)
    BY <1>3, Zenon DEF Alone, TasksAlone
  <2> QED
    BY <1>4, <2>1, Zenon DEF AloneTask
<1>6. /\ job[n].wf = w /\ job[n].step = s
      /\ \A u \in Threads : Carries(u, w) => Handles(u, n)
      /\ \A i \in Jobs : Pending(i, w) => i = n
      /\ \/ wf'[w].done = wf[w].done /\ wf'[w].status = "waiting" /\ wf'[w].job = n
         \/ /\ wf'[w].status = "failed" /\ wf'[w].done = q.done
            /\ \A u \in Threads : ~ Carries(u, w)
            /\ \A i \in Jobs : ~ Pending(i, w)
  BY <1>2, <1>3, <1>5, LinkLast
<1>7. \A u \in Threads \ {t} : ~ Links(u, w)
  BY <1>0, Zenon DEF Alone, LinksAlone
<1>8. \A i \in Jobs, v \in Workflows \ {w} : LinkedBy(i, v) => LinkedBy(i, v)'
  <2> SUFFICES ASSUME NEW i \in Jobs, NEW v \in Workflows \ {w}, NEW u \in Threads, Links(u, v), task[u].new = i
               PROVE  LinkedBy(i, v)'
    BY DEF LinkedBy
  <2>1. u # t
    BY <1>3, <1>4 DEF Links
  <2>2. Links(u, v)' /\ task'[u].new = i
    BY <1>0, <1>1, <2>1
  <2> QED
    BY <2>2, Zenon DEF LinkedBy
<1>9. ~ Stuck(w)
  BY <1>0, Zenon DEF Alone, StuckAlone
<1>10. TasksAlone'
  <2> SUFFICES ASSUME NEW u \in Threads PROVE AloneTask(task[u])'
    BY Zenon DEF TasksAlone
  <2>1. CASE u = t
    <3>1. PICK r : r = task'[t]
      OBVIOUS
    <3>2. r.pc # "abort" /\ r.pc # "link" /\ r.pc \notin {"finish", "writeback", "submit", "link"}
      BY <1>1, <3>1 DEF LettingGo
    <3>3. r.marks
      BY <1>3, <1>5, <3>1, Zenon DEF Linked
    <3>4. r.job # NoJob => job'[r.job].status = "SUCCEEDED"
      BY <1>1, <1>3, <1>5, <3>1, Zenon
    <3>5. AloneTask(r)'
      BY <3>2, <3>3, <3>4, Zenon DEF AloneTask
    <3> QED
      BY <2>1, <3>1, <3>5, Zenon DEF AloneTask
  <2>2. CASE u # t
    <3>1. PICK r : r = task[u] /\ r = task'[u]
      BY <1>1, <2>2
    <3>2. AloneTask(r)
      BY <3>1, Zenon DEF Alone, TasksAlone
    <3>3. Upto(r.wf, Rank(r.step), NoJob) => Upto(r.wf, Rank(r.step), NoJob)'
      BY <1>1, Zenon DEF Upto
    <3>4. r.pc \in {"finish", "writeback", "submit", "link"} => wf'[r.wf] = wf[r.wf]
      <4> SUFFICES ASSUME r.pc \in {"finish", "writeback", "submit", "link"} PROVE wf'[r.wf] = wf[r.wf]
        OBVIOUS
      <4>1. r.wf \in Workflows
        BY <3>1, DriverFacts DEF Driving
      <4>2. r.wf = w => Carries(u, w) \/ Links(u, w)
        BY <3>1 DEF Carries, Links
      <4>3. ~ Handles(u, n)
        BY <3>1 DEF Handles
      <4>4. r.wf # w
        BY <1>6, <1>7, <2>2, <4>2, <4>3, Zenon
      <4> QED
        BY <1>1, <4>1, <4>4
    <3>5. r.pc = "link" => r.pc \in {"finish", "writeback", "submit", "link"}
      OBVIOUS
    <3>6. AloneTask(r)'
      BY <1>1, <3>2, <3>3, <3>4, <3>5, Zenon DEF AloneTask
    <3> QED
      BY <3>1, <3>6, Zenon DEF AloneTask
  <2> QED
    BY <2>1, <2>2
<1>11. LinksAlone'
  BY <1>0, Zenon DEF Alone, LinksAlone
<1>12. ActiveAlone'
  <2> SUFFICES ASSUME NEW x \in Workflows, NEW v \in Workflows, wf'[x].status \in Active, wf'[v].status \in Active
               PROVE  x = v
    BY Zenon DEF ActiveAlone
  <2>1. \A y \in Workflows \ {w} : wf'[y].status \notin Active
    BY <1>1 DEF MayBeActive
  <2> QED
    BY <2>1
<1>13. CarrierKnown'
  <2> SUFFICES ASSUME NEW v \in Workflows, NEW i \in Jobs, Answered(i, v)'
               PROVE  LinkedBy(i, v)' \/ WaitsFor(v, i)'
    BY Zenon DEF CarrierKnown, Answered
  <2>1. Answered(i, v)
    BY <1>0, <1>1, Zenon DEF Answered
  <2>2. CASE v # w
    <3>1. LinkedBy(i, v) \/ WaitsFor(v, i)
      BY <2>1, Zenon DEF Alone, CarrierKnown, Answered
    <3>2. wf'[v] = wf[v]
      BY <1>1, <2>2
    <3>3. WaitsFor(v, i) => WaitsFor(v, i)'
      BY <1>1, <3>2, Zenon DEF WaitsFor
    <3> QED
      BY <1>8, <2>2, <3>1, <3>3
  <2>3. CASE v = w
    <3>1. i = n /\ (Pending(n, w) \/ \E u \in Threads : Carries(u, w))
      <4>1. CASE Pending(i, w)
        BY <1>6, <4>1
      <4>2. CASE job[i].wf = w /\ \E u \in Threads : Handles(u, i)
        <5>1. PICK u \in Threads : Handles(u, i)
          BY <4>2
        <5>2. Carries(u, w)
          BY <4>2, <5>1, HandlerCarries
        <5>3. i = n
          BY <1>6, <5>1, <5>2 DEF Handles
        <5> QED
          BY <5>2, <5>3
      <4> QED
        BY <2>1, <2>3, <4>1, <4>2 DEF Answered
    <3>2. wf'[w].status = "waiting" /\ wf'[w].job = n
      BY <1>6, <3>1
    <3>3. WaitsFor(w, n)'
      BY <1>1, <1>6, <3>2, Zenon DEF WaitsFor
    <3> QED
      BY <2>3, <3>1, <3>3
  <2> QED
    BY <2>2, <2>3
<1>14. StuckAlone'
  <2> SUFFICES ASSUME NEW v \in Workflows, Stuck(v)'
               PROVE  /\ wf'[v].status \in {"waiting", "failed", "deleted"}
                      /\ \A u \in Threads : ~ Carries(u, v)' /\ ~ Links(u, v)'
                      /\ \A i \in Jobs : ~ Pending(i, v)'
    BY Zenon DEF StuckAlone
  <2>1. CASE v # w
    <3>1. Stuck(v)
      <4>1. wf'[v] = wf[v] /\ task'[t].pc # "reconcile"
        BY <1>1, <2>1
      <4> QED
        BY <1>1, <4>1, Zenon DEF Stuck
    <3>2. /\ wf[v].status \in {"waiting", "failed", "deleted"}
          /\ \A u \in Threads : ~ Carries(u, v) /\ ~ Links(u, v)
          /\ \A i \in Jobs : ~ Pending(i, v)
      BY <3>1, Zenon DEF Alone, StuckAlone
    <3> QED
      BY <1>0, <1>1, <2>1, <3>2
  <2>2. CASE v = w
    <3>1. wf'[w].status = "failed"
      <4>1. task'[t].pc # "reconcile"
        BY <1>1
      <4> QED
        BY <1>1, <1>9, <2>2, <4>1, Zenon DEF Stuck
    <3>2. /\ \A u \in Threads : ~ Carries(u, w)
          /\ \A i \in Jobs : ~ Pending(i, w)
      BY <1>6, <3>1
    <3> QED
      BY <1>0, <1>7, <2>2, <3>1, <3>2
  <2> QED
    BY <2>1, <2>2
<1>15. RowsStand'
  <2> SUFFICES ASSUME NEW v \in Workflows, wf'[v].status \in {"waiting", "failed"} PROVE RowFront(v)'
    BY Zenon DEF RowsStand
  <2>1. CASE v # w
    <3>1. wf'[v] = wf[v]
      BY <1>1, <2>1
    <3>2. RowFront(v)
      BY <3>1, Zenon DEF Alone, RowsStand
    <3> QED
      BY <1>1, <1>8, <2>1, <3>1, <3>2, Zenon DEF RowFront
  <2>2. CASE v = w
    <3>1. Before(s) \subseteq wf'[w].done
      BY <1>5, <1>6
    <3>2. \A i \in Jobs : job'[i].wf = w => Rank(job'[i].step) <= Rank(s)
      <4>1. \A i \in Jobs : i \in Jobs \ {NoJob}
        BY DEF Jobs, NoJob
      <4> QED
        BY <1>1, <1>5, <4>1, Zenon DEF Upto
    <3>3. RowFront(w)'
      BY <1>1, <3>1, <3>2, Zenon DEF RowFront
    <3> QED
      BY <2>2, <3>3
  <2> QED
    BY <2>1, <2>2
<1> QED
  BY <1>10, <1>11, <1>12, <1>13, <1>14, <1>15, Zenon DEF Alone

LEMMA LinkPasses ==
  ASSUME ChainIInv, Baton, NEW t \in Threads, Link(t)
  PROVE  Baton'
<1>1. CASE UNCHANGED wf /\ ~ (task[t].marks /\ Stored(task[t].wf) /\ MayBeActive(task[t].wf))
  <2>1. Returns(t) \/ Raises(t)
    BY DEF Link, StepFails
  <2>2. Rests(t) /\ task'[t].pc # "reconcile"
    BY <2>1, ReturnRests
  <2>3. UNCHANGED <<wf, job, heard>> /\ acts' = acts /\ task[t].pc = "link"
    BY <1>1 DEF Link, At
  <2>4. acts # 0
    <3> SUFFICES ASSUME acts = 0 PROVE FALSE
      OBVIOUS
    <3>1. Alone
      BY Zenon DEF Baton
    <3>2. PICK q : q = task[t]
      OBVIOUS
    <3>3. AloneTask(q) /\ q.pc \in {"finish", "writeback", "submit", "link"}
      BY <2>3, <3>1, <3>2, Zenon DEF Alone, TasksAlone
    <3>4. q.marks /\ wf[q.wf].status \in {"running", "waiting"}
      BY <3>3, Zenon DEF AloneTask
    <3>5. Stored(q.wf) /\ wf[q.wf].status \in Active
      BY <3>4 DEF Stored, Kept, Active
    <3>6. q.wf \in Workflows
      BY <2>3, <3>2, DriverFacts DEF Driving
    <3>7. MayBeActive(q.wf)
      BY <3>1, <3>5, <3>6 DEF Alone, ActiveAlone, MayBeActive
    <3> QED
      BY <1>1, <3>2, <3>4, <3>5, <3>7, Zenon
  <2> QED
    BY <2>2, <2>3, <2>4, RestKeeps
<1>2. CASE \E w \in Workflows, s \in RemoteSteps, n \in Jobs : Linked(t, w, s, n)
  <2>1. PICK w \in Workflows, s \in RemoteSteps, n \in Jobs : Linked(t, w, s, n)
    BY <1>2
  <2>2. OneCarrier /\ HandlersApart /\ Untouched
    BY Zenon DEF Baton
  <2>3. PICK k \in Jobs \cup {NoJob} : Stands(k) /\ (acts = 0 => k = NoJob)
    BY Zenon DEF Baton
  <2>4. Stands(k)'
    BY <2>1, <2>2, <2>3, LinkedStands
  <2>5. /\ \A u \in Threads, v \in Workflows : Carries(u, v)' <=> Carries(u, v)
        /\ \A u \in Threads, v \in Workflows : Links(u, v)' <=> u # t /\ Links(u, v)
        /\ \A i \in Jobs, v \in Workflows : Pending(i, v)' <=> Pending(i, v)
        /\ \A v \in Workflows : wf'[v].status = "none" => wf'[v] = wf[v] /\ v # w
    BY <2>1, LinkFacts
  <2>6. /\ job' = job /\ heard' = heard /\ acts' = acts
        /\ \A u \in Threads \ {t} : task'[u] = task[u]
        /\ task'[t].job # NoJob => task'[t].job = task[t].job
        /\ wf'[w].step = s /\ \A v \in Workflows \ {w} : wf'[v] = wf[v]
    BY <2>1, Zenon DEF Linked
  <2>7. OneCarrier'
    BY <2>2, <2>5, Zenon DEF OneCarrier
  <2>8. HandlersApart'
    <3>1. \A u \in Threads : task'[u].job # NoJob => task'[u].job = task[u].job
      BY <2>6
    <3>2. ASSUME NEW x \in Threads, NEW u \in Threads, task'[x].job = task'[u].job, task'[x].job # NoJob
          PROVE  x = u
      <4>1. task[x].job = task[u].job /\ task[x].job # NoJob
        BY <3>1, <3>2
      <4> QED
        BY <2>2, <4>1, Zenon DEF HandlersApart
    <3>3. ASSUME NEW u \in Threads, task'[u].job # NoJob
          PROVE  task'[u].job \in heard' /\ job'[task'[u].job].status # "gone"
      <4>1. PICK i : i = task[u].job /\ i = task'[u].job
        BY <3>1, <3>3
      <4>2. i \in heard /\ job[i].status # "gone"
        BY <2>2, <3>3, <4>1, Zenon DEF HandlersApart
      <4> QED
        BY <2>6, <4>1, <4>2
    <3>4. /\ \A i \in heard' : job'[i].status \notin {"none", "open"}
          /\ \A i \in Jobs : job'[i].status = "none" => job'[i].wf = 0
      BY <2>2, <2>6, Zenon DEF HandlersApart
    <3> QED
      BY <3>2, <3>3, <3>4, Zenon DEF HandlersApart
  <2>9. Untouched'
    <3> SUFFICES ASSUME NEW v \in Workflows, wf'[v].status = "none"
                 PROVE  /\ wf'[v].step = NoStep /\ wf'[v].done = {} /\ wf'[v].job = NoJob
                        /\ \A u \in Threads : ~ Carries(u, v)' /\ ~ Links(u, v)'
                        /\ \A i \in Jobs : job'[i].wf # v
      BY Zenon DEF Untouched
    <3>1. wf'[v] = wf[v]
      BY <2>5
    <3>2. /\ wf[v].step = NoStep /\ wf[v].done = {} /\ wf[v].job = NoJob
          /\ \A u \in Threads : ~ Carries(u, v) /\ ~ Links(u, v)
          /\ \A i \in Jobs : job[i].wf # v
      BY <2>2, <3>1, Zenon DEF Untouched
    <3> QED
      BY <2>5, <2>6, <3>1, <3>2
  <2>10. acts' = 0 => Alone'
    <3> SUFFICES ASSUME acts = 0 PROVE Alone'
      BY <2>6
    <3>1. Alone /\ Stands(NoJob)
      BY <2>3, Zenon DEF Baton
    <3> QED
      BY <2>1, <2>2, <3>1, LinkedAlone
  <2> QED
    BY <2>3, <2>4, <2>6, <2>7, <2>8, <2>9, <2>10, Zenon DEF Baton
<1> QED
  BY <1>1, <1>2, LinkEffect

-----------------------------------------------------------------------------
(* All steps.                                                                *)
CountsGrow == dups <= dups' /\ faults <= faults' /\ acts <= acts'

LEMMA SameCountsGrow ==
  ASSUME ChainIInv, dups' = dups, faults' = faults \/ Fault, acts' = acts \/ Act
  PROVE  CountsGrow
  BY BoundAssumption DEF ChainIInv, TypeOK, CountsGrow, Fault, Act

LEMMA StepsCount ==
  ASSUME ChainIInv, [Next]_vars
  PROVE  CountsGrow
<1>1. CASE UNCHANGED vars
  BY <1>1, SameCountsGrow, Zenon DEF vars
<1>2. ASSUME NEW t \in Threads, Continues(t)
      PROVE  CountsGrow
  <2>1. CASE Finish(t) \/ Writeback(t) \/ WritebackFails(t) \/ Link(t) \/ ApplyIgnores(t) \/ Apply(t)
             \/ ApplyFails(t) \/ Blame(t) \/ Erase(t)
    BY <2>1, SameCountsGrow, Zenon DEF Finish, Writeback, WritebackFails, Link, ApplyIgnores, Apply, ApplyFails, Blame, Erase
  <2>2. CASE EraseFails(t) \/ Unlink(t) \/ Drop(t) \/ ReconcileWrites(t) \/ AbortWrites(t)
    BY <2>2, SameCountsGrow, Zenon DEF EraseFails, Unlink, Drop, ReconcileWrites, AbortWrites
  <2>3. ASSUME NEW j \in Jobs, Submit(t, j) \/ SubmitFails(t, j) PROVE CountsGrow
    BY <2>3, SameCountsGrow, Zenon DEF Submit, SubmitFails
  <2> QED
    BY <1>2, <2>1, <2>2, <2>3, Zenon DEF Continues
<1>3. ASSUME NEW t \in Threads, NEW w \in Workflows,
             StartForOrder(t, w) \/ ReconcileReads(t, w) \/ AbortReads(t, w) \/ Resume(t, w)
      PROVE  CountsGrow
  BY <1>3, SameCountsGrow, Zenon DEF StartForOrder, ReconcileReads, AbortReads, Resume
<1>4. ASSUME NEW j \in Jobs, RemoteEnds(j) \/ JobEnds(j) \/ PollsExhausted(j)
      PROVE  CountsGrow
  BY <1>4, SameCountsGrow, Zenon DEF RemoteEnds, JobEnds, PollsExhausted
<1>5. ASSUME NEW t \in Threads, Crash(t) PROVE CountsGrow
  BY <1>5, SameCountsGrow, Zenon DEF Crash
<1>6. ASSUME NEW t \in Threads, NEW j \in Jobs, ContinuationStarts(t, j) PROVE CountsGrow
  BY <1>6 DEF ContinuationStarts, ChainIInv, TypeOK, CountsGrow
<1> QED
  BY <1>1, <1>2, <1>3, <1>4, <1>5, <1>6, Zenon DEF Next

LEMMA CalmBefore ==
  ASSUME ChainIInv, [Next]_vars, Calm'
  PROVE  Calm
<1>1. ChainIInv'
  BY ChainNext
<1>2. /\ dups \in Nat /\ faults \in Nat /\ acts \in Nat
      /\ dups' \in Nat /\ faults' \in Nat /\ acts' \in Nat
  BY <1>1, BoundAssumption DEF ChainIInv, TypeOK
<1>3. dups <= dups' /\ faults <= faults' /\ acts <= acts'
  BY StepsCount, Zenon DEF CountsGrow
<1>4. dups' = 0 /\ faults' = 0 /\ acts' <= 1
  BY DEF Calm
<1> QED
  BY <1>2, <1>3, <1>4 DEF Calm

LEMMA SamePasses ==
  ASSUME ChainIInv, Baton, UNCHANGED <<wf, job, heard, task>>, acts' = acts
  PROVE  Baton'
<1>1. ThinRows
  BY Zenon DEF ThinRows
<1>2. HandlersHold
  BY Zenon DEF HandlersHold
<1>3. \A w \in Workflows : wf[w].done \subseteq wf'[w].done
  OBVIOUS
<1>4. Settles({})
  <2>1. KeepsSuccess
    BY Zenon DEF KeepsSuccess
  <2> QED
    BY <2>1, Zenon DEF Settles
<1> QED
  BY <1>1, <1>2, <1>3, <1>4, SettleKeeps

LEMMA BatonInit == Init => Baton
<1> SUFFICES ASSUME Init PROVE Baton
  OBVIOUS
<1>1. /\ \A w \in Workflows : wf[w].status = "none" /\ wf[w].step = NoStep /\ wf[w].job = NoJob /\ wf[w].done = {}
      /\ \A j \in Jobs : job[j].status = "none" /\ job[j].wf = 0
      /\ heard = {} /\ acts = 0
      /\ \A t \in Threads : task[t].pc = "idle" /\ task[t].job = NoJob /\ task[t].marks = TRUE
  BY IdleFields DEF Init
<1>2. /\ \A t \in Threads, w \in Workflows : ~ Carries(t, w) /\ ~ Links(t, w)
      /\ \A j \in Jobs, w \in Workflows : ~ Pending(j, w)
      /\ \A t \in Threads, j \in Jobs : ~ Handles(t, j)
  BY <1>1 DEF Carries, Links, Pending, Handles
<1>3. OneCarrier
  BY <1>2, Zenon DEF OneCarrier
<1>4. HandlersApart
  BY <1>1 DEF HandlersApart
<1>5. Untouched
  <2>1. \A w \in Workflows : w # 0
    BY DEF Workflows
  <2> QED
    BY <1>1, <1>2, <2>1, Zenon DEF Untouched
<1>6. Stands(NoJob)
  <2>1. Calls(NoJob)
    BY <1>1 DEF Calls, SameCall
  <2>2. TasksStand(NoJob)
    BY <1>1 DEF TasksStand, TaskStands
  <2>3. LinksStand(NoJob)
    BY <1>1 DEF LinksStand, LinkStands
  <2>4. PendingStand(NoJob)
    BY <1>2, Zenon DEF PendingStand
  <2> QED
    BY <2>1, <2>2, <2>3, <2>4, Zenon DEF Stands
<1>7. Alone
  <2>1. TasksAlone
    <3> SUFFICES ASSUME NEW t \in Threads PROVE AloneTask(task[t])
      BY Zenon DEF TasksAlone
    <3>1. PICK r : r = task[t]
      OBVIOUS
    <3>2. r.marks /\ r.job = NoJob
      BY <1>1, <3>1, Zenon
    <3>3. r.pc # "abort" /\ r.pc # "link" /\ r.pc \notin {"finish", "writeback", "submit", "link"}
      BY <1>1, <3>1
    <3> QED
      BY <3>1, <3>2, <3>3, Zenon DEF AloneTask
  <2>2. LinksAlone
    BY <1>2, Zenon DEF LinksAlone
  <2>3. ActiveAlone
    BY <1>1 DEF ActiveAlone, Active
  <2>4. CarrierKnown
    BY <1>2, Zenon DEF CarrierKnown
  <2>5. StuckAlone
    BY <1>1 DEF StuckAlone, Stuck
  <2>6. RowsStand
    BY <1>1 DEF RowsStand
  <2> QED
    BY <2>1, <2>2, <2>3, <2>4, <2>5, <2>6, Zenon DEF Alone
<1>8. NoJob \in Jobs \cup {NoJob}
  OBVIOUS
<1> QED
  BY <1>3, <1>4, <1>5, <1>6, <1>7, <1>8, Zenon DEF Baton

BatonIInv == ChainIInv /\ (Calm => Baton)

LEMMA BatonNext == BatonIInv /\ [Next]_vars => BatonIInv'
<1> SUFFICES ASSUME ChainIInv, Calm => Baton, [Next]_vars PROVE BatonIInv'
  BY DEF BatonIInv
<1>1. ChainIInv'
  BY ChainNext
<1> SUFFICES ASSUME Calm', Baton PROVE Baton'
  BY <1>1, CalmBefore, Zenon DEF BatonIInv
<1>2. CASE UNCHANGED vars
  BY <1>2, SamePasses, Zenon DEF vars
<1>3. ASSUME NEW t \in Threads, Continues(t)
      PROVE  Baton'
  <2>1. ~ WritebackFails(t) /\ ~ ApplyFails(t) /\ ~ EraseFails(t) /\ \A j \in Jobs : ~ SubmitFails(t, j)
    BY NoFault, Zenon DEF WritebackFails, ApplyFails, EraseFails, SubmitFails
  <2> QED
    BY <1>3, <2>1, FinishPasses, WritebackPasses, SubmitPasses, LinkPasses, ApplyIgnoresPasses, ApplyPasses,
       BlamePasses, ErasePasses, UnlinkPasses, DropPasses, ReconcileWritesPasses, AbortWritesPasses,
       Zenon DEF Continues
<1>4. ASSUME NEW t \in Threads, NEW w \in Workflows,
             StartForOrder(t, w) \/ ReconcileReads(t, w) \/ AbortReads(t, w) \/ Resume(t, w)
      PROVE  Baton'
  BY <1>4, StartPasses, ReconcileReadsPasses, AbortReadsPasses, ResumePasses, Zenon
<1>5. ASSUME NEW j \in Jobs, RemoteEnds(j) \/ JobEnds(j) \/ PollsExhausted(j)
      PROVE  Baton'
  <2>1. CASE RemoteEnds(j)
    BY <2>1, SamePasses, Zenon DEF RemoteEnds
  <2>2. ~ PollsExhausted(j)
    BY NoFault, Zenon DEF PollsExhausted
  <2> QED
    BY <1>5, <2>1, <2>2, JobEndsPasses, Zenon
<1>6. ASSUME NEW t \in Threads, Crash(t) PROVE Baton'
  BY <1>6, NoFault, Zenon DEF Crash
<1> QED
  BY <1>2, <1>3, <1>4, <1>5, <1>6, ContinuationStartsPasses, Zenon DEF Next

(* OrderSyncWorkflowService, however many threads, workflows and jobs there     *)
(* are, and whatever the order in which continuations, reconciliations and the *)
(* deletion of jobs meet: while nothing is delivered twice and nothing fails,  *)
(* no step of a workflow is submitted to the wrapper twice, and an abort, a     *)
(* restart or a resume by a person repeats one call at most.                  *)
THEOREM OneCallPerStep == Spec => []OneCallRepeatedPerAct
<1>1. Init => BatonIInv
  BY ChainInit, BatonInit DEF BatonIInv
<1>2. BatonIInv => OneCallRepeatedPerAct
  BY Zenon DEF BatonIInv, Baton, Calm, Stands, Calls, OneCallRepeatedPerAct
<1> QED
  BY <1>1, <1>2, BatonNext, PTL DEF Spec

-----------------------------------------------------------------------------
(* The direct upsert of an order.  As long as no two processes have           *)
(* overlapped, a job somebody waits for is the last one in the queue, and a   *)
(* create job stands for a Vorgang that does not exist and nobody else makes. *)
JobRecords == [kind : JobKinds, beleg : 0 .. MaxBelege, by : Commands \cup {"nobody"}]
CommandPlaces == {"off", "refresh", "wait read", "found", "gone", "wait search",
                  "none", "write", "wait create", "wait update", "done"}
CommandRecords == [pc : CommandPlaces, beleg : 0 .. MaxBelege, writes : BOOLEAN]

WaitFor(kind) == CASE kind = "read" -> "wait read" [] kind = "search" -> "wait search"
                   [] kind = "create" -> "wait create" [] OTHER -> "wait update"

Waits(c) == command[c].pc \in {"wait read", "wait search", "wait create", "wait update"}

OneAtATime == \A c, d \in Commands : ~At_(c, "off") /\ ~At_(d, "off") => c = d

WaitedForLast ==
  \A i \in 1 .. Len(jobs) :
    jobs[i].by \in Commands => i = Len(jobs) /\ At_(jobs[i].by, WaitFor(jobs[i].kind))

CreatesOnce ==
  \A i \in 1 .. Len(jobs) :
    jobs[i].kind = "create" =>
      belege = {} /\ \A k \in 1 .. Len(jobs) : jobs[k].kind = "create" => k = i

NoneFoundNoneComing ==
  \A c \in Commands :
    At_(c, "none") => belege = {} /\ \A i \in 1 .. Len(jobs) : jobs[i].kind # "create"

AtMostOne == \A x, y \in belege : x = y

VorgangInv ==
  OneAtATime /\ WaitedForLast /\ CreatesOnce /\ NoneFoundNoneComing /\ AtMostOne

VorgangIInv == VorgangTypeOK /\ (~overlapped => VorgangInv)

VorgangCounts ==
  /\ belege \subseteq Belege /\ given \in 0 .. MaxBelege
  /\ stored \in 0 .. MaxBelege /\ inShop \in 0 .. MaxBelege
  /\ starts \in 0 .. MaxStarts /\ changes \in 0 .. MaxChanges
VorgangRecords == /\ jobs \in Seq(JobRecords) /\ Len(jobs) <= MaxOutcomes
                  /\ command \in [Commands -> CommandRecords]

VorgangFlag == overlapped \in BOOLEAN

LEMMA VorgangTypeParts == VorgangTypeOK <=> VorgangCounts /\ VorgangRecords /\ VorgangFlag
  BY Zenon DEF VorgangTypeOK, VorgangFlag, VorgangCounts, VorgangRecords, JobRecords, CommandRecords, CommandPlaces

LEMMA JobFacts ==
  ASSUME VorgangRecords
  PROVE  /\ Len(jobs) \in Nat
         /\ \A i \in 1 .. Len(jobs) : jobs[i] \in JobRecords /\ jobs[i].kind \in JobKinds
<1>1. Len(jobs) \in Nat /\ \A i \in 1 .. Len(jobs) : jobs[i] \in JobRecords
  BY DEF VorgangRecords
<1>2. \A j \in JobRecords : j.kind \in JobKinds
  BY DEF JobRecords
<1>3. QED
  BY <1>1, <1>2

LEMMA VorgangInitInv == VorgangInit => VorgangIInv
<1> SUFFICES ASSUME VorgangInit PROVE VorgangIInv
  OBVIOUS
<1>1. VorgangCounts
  BY VorgangBounds DEF VorgangInit, VorgangCounts
<1>2. Off \in CommandRecords /\ Off.pc = "off"
  BY VorgangBounds DEF Off, CommandRecords, CommandPlaces
<1>3. VorgangRecords /\ overlapped \in BOOLEAN
  <2>1. jobs = << >> /\ command = [c \in Commands |-> Off]
    BY DEF VorgangInit
  <2>2. << >> \in Seq(JobRecords) /\ Len(<< >>) <= MaxOutcomes
    BY VorgangBounds
  <2>3. VorgangRecords
    BY <1>2, <2>1, <2>2 DEF VorgangRecords
  <2>4. overlapped \in BOOLEAN
    BY Zenon DEF VorgangInit
  <2>5. QED
    BY <2>3, <2>4
<1>4. VorgangInv
  BY <1>2 DEF VorgangInit, VorgangInv, OneAtATime, WaitedForLast, CreatesOnce, NoneFoundNoneComing, AtMostOne, At_
<1>5. QED
  BY <1>1, <1>3, <1>4, VorgangTypeParts DEF VorgangIInv, VorgangFlag

LEMMA VorgangStep ==
  ASSUME VorgangCounts', VorgangRecords', overlapped' \in BOOLEAN, ~overlapped' => VorgangInv'
  PROVE  VorgangIInv'
<1>1. VorgangFlag'
  BY DEF VorgangFlag
<1>2. VorgangTypeOK'
  BY <1>1, VorgangTypeParts, PTL
<1>3. QED
  BY <1>2 DEF VorgangIInv

LEMMA StepEffect ==
  ASSUME VorgangRecords, NEW c \in Commands, NEW p \in CommandPlaces, NEW b \in 0 .. MaxBelege, Step(c, p, b)
  PROVE  /\ command' \in [Commands -> CommandRecords]
         /\ command'[c].pc = p
         /\ \A d \in Commands \ {c} : command'[d] = command[d]
<1>1. [command[c] EXCEPT !.pc = p, !.beleg = b] \in CommandRecords
      /\ [command[c] EXCEPT !.pc = p, !.beleg = b].pc = p
  BY DEF VorgangRecords, CommandRecords
<1>2. command' = [command EXCEPT ![c] = [command[c] EXCEPT !.pc = p, !.beleg = b]]
  BY DEF Step, VorgangRecords
<1>3. QED
  BY <1>1, <1>2 DEF VorgangRecords

LEMMA WaitForPlaces ==
  /\ \A kind \in JobKinds : WaitFor(kind) \in CommandPlaces
  /\ \A kind \in JobKinds : WaitFor(kind) \in {"wait read", "wait search", "wait create", "wait update"}
  BY DEF WaitFor, CommandPlaces, JobKinds

(* A process that does not wait moves on without touching queue or Vorgaenge. *)
LEMMA MoverKeeps ==
  ASSUME VorgangIInv, NEW c \in Commands, ~At_(c, "off"),
         ~Waits(c),
         jobs' = jobs, belege' = belege, overlapped' = overlapped,
         \A d \in Commands \ {c} : command'[d] = command[d],
         ~At_(c, "none")'
  PROVE  ~overlapped' => VorgangInv'
<1> SUFFICES ASSUME ~overlapped PROVE VorgangInv'
  OBVIOUS
<1>1. VorgangInv /\ VorgangRecords
  BY VorgangTypeParts DEF VorgangIInv, VorgangFlag
<1>2. OneAtATime'
  BY <1>1 DEF VorgangInv, OneAtATime, At_
<1>3. WaitedForLast'
  <2>1. ASSUME NEW i \in 1 .. Len(jobs), jobs[i].by \in Commands
        PROVE  i = Len(jobs) /\ command'[jobs[i].by].pc = WaitFor(jobs[i].kind)
    <3>1. jobs[i].kind \in JobKinds
      BY <1>1, JobFacts
    <3>2. i = Len(jobs) /\ command[jobs[i].by].pc = WaitFor(jobs[i].kind)
      BY <1>1, <2>1 DEF VorgangInv, WaitedForLast, At_
    <3>3. jobs[i].by # c
      BY <3>1, <3>2, WaitForPlaces DEF Waits
    <3>4. QED
      BY <2>1, <3>2, <3>3
  <2>2. QED
    BY <2>1 DEF WaitedForLast, At_
<1>4. NoneFoundNoneComing'
  BY <1>1 DEF VorgangInv, NoneFoundNoneComing, At_
<1>5. QED
  BY <1>1, <1>2, <1>3, <1>4 DEF VorgangInv, CreatesOnce, AtMostOne

(* A process hands a job to the wrapper and waits.                           *)
LEMMA SubmitKeeps ==
  ASSUME VorgangIInv, NEW c \in Commands, ~At_(c, "off"),
         ~Waits(c),
         NEW kind \in JobKinds, NEW b \in 0 .. MaxBelege, Submits(c, kind, b),
         kind = "create" => At_(c, "none"),
         belege' = belege, overlapped' = overlapped
  PROVE  VorgangRecords' /\ (~overlapped' => VorgangInv')
<1>1. VorgangRecords
  BY VorgangTypeParts DEF VorgangIInv, VorgangFlag
<1> DEFINE j == [kind |-> kind, beleg |-> b, by |-> c]
<1>2. j \in JobRecords /\ j.kind = kind /\ j.by = c
  BY DEF JobRecords
<1>3. jobs' = Append(jobs, j) /\ Len(jobs) < MaxOutcomes /\ Step(c, WaitFor(kind), b)
  BY DEF Submits, WaitFor
<1>4. /\ command' \in [Commands -> CommandRecords] /\ command'[c].pc = WaitFor(kind)
      /\ \A d \in Commands \ {c} : command'[d] = command[d]
  BY <1>1, <1>3, StepEffect, WaitForPlaces
<1> HIDE DEF j
<1>5. /\ jobs' \in Seq(JobRecords) /\ Len(jobs') = Len(jobs) + 1 /\ jobs'[Len(jobs) + 1] = j
      /\ \A i \in 1 .. Len(jobs) : jobs'[i] = jobs[i]
  BY <1>1, <1>2, <1>3 DEF VorgangRecords
<1>6. Len(jobs) \in Nat
  BY <1>1, JobFacts
<1>7. VorgangRecords'
  BY <1>3, <1>4, <1>5, <1>6, VorgangBounds DEF VorgangRecords
<1>8. ASSUME ~overlapped PROVE VorgangInv'
  <2>1. VorgangInv
    BY <1>8 DEF VorgangIInv
  <2>2. OneAtATime'
    BY <1>4, <2>1 DEF VorgangInv, OneAtATime, At_
  <2>3. \A i \in 1 .. Len(jobs) : jobs[i].by \notin Commands
    <3>1. SUFFICES ASSUME NEW i \in 1 .. Len(jobs), jobs[i].by \in Commands PROVE FALSE
      OBVIOUS
    <3>2. jobs[i].kind \in JobKinds
      BY <1>1, JobFacts
    <3>3. command[jobs[i].by].pc = WaitFor(jobs[i].kind)
      BY <2>1, <3>1 DEF VorgangInv, WaitedForLast, At_
    <3>4. command[jobs[i].by].pc # "off"
      BY <3>2, <3>3, WaitForPlaces
    <3>5. jobs[i].by = c
      BY <2>1, <3>1, <3>4 DEF VorgangInv, OneAtATime, At_
    <3>6. QED
      BY <3>2, <3>3, <3>5, WaitForPlaces DEF Waits
  <2>4. WaitedForLast'
    <3>1. ASSUME NEW i \in 1 .. Len(jobs'), jobs'[i].by \in Commands
          PROVE  i = Len(jobs') /\ command'[jobs'[i].by].pc = WaitFor(jobs'[i].kind)
      <4>1. i = Len(jobs) + 1
        BY <1>5, <1>6, <2>3, <3>1
      <4>2. QED
        BY <1>2, <1>4, <1>5, <4>1
    <3>2. QED
      BY <3>1 DEF WaitedForLast, At_
  <2>5. CASE kind # "create"
    <3>1. \A i \in 1 .. Len(jobs') : jobs'[i].kind = "create" => i \in 1 .. Len(jobs) /\ jobs[i].kind = "create"
      BY <1>2, <1>5, <1>6, <2>5
    <3>2. CreatesOnce'
      BY <2>1, <3>1 DEF VorgangInv, CreatesOnce
    <3>3. NoneFoundNoneComing'
      <4>1. WaitFor(kind) # "none"
        BY WaitForPlaces
      <4>2. QED
        BY <1>4, <2>1, <3>1, <4>1 DEF VorgangInv, NoneFoundNoneComing, At_
    <3>4. QED
      BY <2>1, <2>2, <2>4, <3>2, <3>3 DEF VorgangInv, AtMostOne
  <2>6. CASE kind = "create"
    <3>1. belege = {} /\ \A i \in 1 .. Len(jobs) : jobs[i].kind # "create"
      BY <2>1, <2>6 DEF VorgangInv, NoneFoundNoneComing
    <3>2. \A i \in 1 .. Len(jobs') : jobs'[i].kind = "create" => i = Len(jobs) + 1
      BY <1>5, <1>6, <3>1
    <3>3. CreatesOnce'
      BY <3>1, <3>2 DEF CreatesOnce
    <3>4. \A d \in Commands : command'[d].pc # "none"
      <4>1. WaitFor(kind) # "none"
        BY WaitForPlaces
      <4>2. \A d \in Commands \ {c} : command[d].pc = "off"
        BY <2>1 DEF VorgangInv, OneAtATime, At_
      <4>3. QED
        BY <1>4, <4>1, <4>2
    <3>5. NoneFoundNoneComing'
      BY <3>4 DEF NoneFoundNoneComing, At_
    <3>6. QED
      BY <2>2, <2>4, <3>1, <3>3, <3>5 DEF VorgangInv, AtMostOne
  <2>7. QED
    BY <2>5, <2>6
<1>9. QED
  BY <1>7, <1>8

(* Microtech gives a BelegNr, or takes one away.                             *)
LEMMA StartKeeps ==
  ASSUME VorgangIInv, NEW c \in Commands, NEW writes \in BOOLEAN, Start(c, writes)
  PROVE  VorgangIInv'
<1>1. VorgangCounts /\ VorgangRecords /\ overlapped \in BOOLEAN
  BY VorgangTypeParts DEF VorgangIInv, VorgangFlag
<1> DEFINE r == [pc |-> "refresh", beleg |-> stored, writes |-> writes]
<1>2. r \in CommandRecords /\ r.pc = "refresh"
  BY <1>1 DEF CommandRecords, CommandPlaces, VorgangCounts
<1>3. command' = [command EXCEPT ![c] = r] /\ jobs' = jobs /\ belege' = belege
  BY DEF Start
<1> HIDE DEF r
<1>4. VorgangRecords' /\ command'[c].pc = "refresh" /\ \A d \in Commands \ {c} : command'[d] = command[d]
  BY <1>1, <1>2, <1>3 DEF VorgangRecords
<1>5. VorgangCounts'
  BY <1>1, VorgangBounds DEF Start, VorgangCounts
<1>6. overlapped' \in BOOLEAN /\ (~overlapped' => ~overlapped /\ \A d \in Commands : At_(d, "off"))
  BY Zenon DEF Start
<1>7. ASSUME ~overlapped' PROVE VorgangInv'
  <2>1. VorgangInv /\ \A d \in Commands : command[d].pc = "off"
    BY <1>6, <1>7 DEF VorgangIInv, At_
  <2>2. OneAtATime' /\ NoneFoundNoneComing'
    BY <1>4, <2>1 DEF OneAtATime, NoneFoundNoneComing, At_
  <2>3. \A i \in 1 .. Len(jobs) : jobs[i].by \notin Commands
    <3>1. SUFFICES ASSUME NEW i \in 1 .. Len(jobs), jobs[i].by \in Commands PROVE FALSE
      OBVIOUS
    <3>2. jobs[i].kind \in JobKinds
      BY <1>1, JobFacts
    <3>3. command[jobs[i].by].pc = WaitFor(jobs[i].kind)
      BY <2>1, <3>1 DEF VorgangInv, WaitedForLast, At_
    <3>4. QED
      BY <2>1, <3>1, <3>2, <3>3, WaitForPlaces
  <2>4. QED
    BY <1>3, <2>1, <2>2, <2>3 DEF VorgangInv, WaitedForLast, CreatesOnce, AtMostOne
<1>8. QED
  BY <1>4, <1>5, <1>6, <1>7, VorgangStep

(* The other steps of a process.                                             *)
LEMMA CommandKeeps ==
  ASSUME VorgangIInv, NEW c \in Commands,
         \/ AsksForStored(c) \/ Clears(c) \/ Searches(c) \/ Persists(c)
         \/ Updates(c) \/ Creates(c) \/ Ends(c)
  PROVE  VorgangIInv'
<1>1. VorgangCounts /\ VorgangRecords /\ overlapped \in BOOLEAN
  BY VorgangTypeParts DEF VorgangIInv, VorgangFlag
<1>2. command[c].beleg \in 0 .. MaxBelege /\ 0 \in 0 .. MaxBelege
  BY <1>1, VorgangBounds DEF VorgangRecords, CommandRecords
<1>3. overlapped' = overlapped /\ belege' = belege
  BY DEF AsksForStored, Clears, Searches, Persists, Updates, Creates, Ends
<1>4. {"refresh", "write", "done", "off"} \subseteq CommandPlaces
      /\ {"read", "search", "create", "update"} \subseteq JobKinds
  BY DEF CommandPlaces, JobKinds
<1>5. VorgangCounts'
  BY <1>1, <1>2 DEF AsksForStored, Clears, Searches, Persists, Updates, Creates, Ends, VorgangCounts
<1>6. CASE \/ AsksForStored(c) \/ Searches(c) \/ Updates(c)
  <2>1. \E kind \in {"read", "search", "update"}, b \in 0 .. MaxBelege : Submits(c, kind, b)
    BY <1>2, <1>6 DEF AsksForStored, Searches, Updates
  <2>2. command[c].pc \in {"refresh", "write"}
    BY <1>6 DEF AsksForStored, Searches, Updates, At_
  <2>3. VorgangRecords' /\ (~overlapped' => VorgangInv')
    BY <1>3, <1>4, <2>1, <2>2, SubmitKeeps DEF At_, Waits
  <2>4. QED
    BY <1>1, <1>3, <1>5, <2>3, VorgangStep
<1>7. CASE Creates(c) /\ command[c].writes
  <2>1. Submits(c, "create", 0) /\ At_(c, "none")
    BY <1>7 DEF Creates
  <2>2. VorgangRecords' /\ (~overlapped' => VorgangInv')
    BY <1>2, <1>3, <1>4, <2>1, SubmitKeeps DEF At_, Waits
  <2>3. QED
    BY <1>1, <1>3, <1>5, <2>2, VorgangStep
<1>8. ASSUME command[c].pc \in {"gone", "found", "none", "done"}, jobs' = jobs,
             NEW p \in {"refresh", "write", "done"}, NEW b \in 0 .. MaxBelege, Step(c, p, b)
      PROVE  VorgangIInv'
  <2>1. /\ command' \in [Commands -> CommandRecords] /\ command'[c].pc = p
        /\ \A d \in Commands \ {c} : command'[d] = command[d]
    BY <1>1, <1>4, <1>8, StepEffect
  <2>2. ~overlapped' => VorgangInv'
    BY <1>3, <1>8, <2>1, MoverKeeps DEF At_, Waits
  <2>3. VorgangRecords'
    BY <1>1, <1>8, <2>1 DEF VorgangRecords
  <2>4. QED
    BY <1>1, <1>3, <1>5, <2>2, <2>3, VorgangStep
<1>9. CASE Clears(c)
  BY <1>2, <1>8, <1>9 DEF Clears, At_
<1>10. CASE Persists(c)
  <2>1. \E p \in {"write", "done"} : Step(c, p, command[c].beleg)
    BY <1>10 DEF Persists
  <2>2. QED
    BY <1>2, <1>8, <1>10, <2>1 DEF Persists, At_
<1>11. CASE Creates(c) /\ ~command[c].writes
  BY <1>2, <1>8, <1>11 DEF Creates, At_
<1>12. CASE Ends(c)
  <2>1. Off \in CommandRecords /\ Off.pc = "off"
    BY VorgangBounds DEF Off, CommandRecords, CommandPlaces
  <2>2. /\ command' \in [Commands -> CommandRecords] /\ command'[c].pc = "off"
        /\ \A d \in Commands \ {c} : command'[d] = command[d] /\ jobs' = jobs
        /\ command[c].pc = "done" /\ jobs' = jobs
    BY <1>1, <1>12, <2>1 DEF Ends, VorgangRecords, At_
  <2>3. ~overlapped' => VorgangInv'
    BY <1>3, <2>2, MoverKeeps DEF At_, Waits
  <2>4. VorgangRecords'
    BY <1>1, <2>2 DEF VorgangRecords
  <2>5. QED
    BY <1>1, <1>3, <1>5, <2>3, <2>4, VorgangStep
<1>13. QED
  BY <1>6, <1>7, <1>9, <1>10, <1>11, <1>12

(* A call that breaks leaves its job behind, which nobody waits for.         *)
LEMMA BreakKeeps ==
  ASSUME VorgangIInv, NEW c \in Commands, Breaks(c)
  PROVE  VorgangIInv'
<1>1. VorgangCounts /\ VorgangRecords /\ overlapped \in BOOLEAN
  BY VorgangTypeParts DEF VorgangIInv, VorgangFlag
<1>2. Off \in CommandRecords /\ Off.pc = "off"
  BY VorgangBounds DEF Off, CommandRecords, CommandPlaces
<1>3. /\ command' \in [Commands -> CommandRecords] /\ command'[c].pc = "off"
      /\ \A d \in Commands \ {c} : command'[d] = command[d]
  BY <1>1, <1>2 DEF Breaks, VorgangRecords
<1>4. ASSUME NEW i \in 1 .. Len(jobs)
      PROVE  LET j == IF jobs[i].by = c THEN [jobs[i] EXCEPT !.by = "nobody"] ELSE jobs[i] IN
             j \in JobRecords /\ j.kind = jobs[i].kind /\ (j.by = jobs[i].by \/ j.by = "nobody")
             /\ j.by # c
  <2>1. jobs[i] \in JobRecords
    BY <1>1 DEF VorgangRecords
  <2>2. QED
    BY <2>1, VorgangBounds DEF JobRecords
<1>5. /\ jobs' \in Seq(JobRecords) /\ Len(jobs') = Len(jobs)
      /\ \A i \in 1 .. Len(jobs) : jobs'[i].kind = jobs[i].kind /\ jobs'[i].by # c
            /\ (jobs'[i].by = jobs[i].by \/ jobs'[i].by = "nobody")
  <2>1. jobs' = [i \in 1 .. Len(jobs) |-> IF jobs[i].by = c THEN [jobs[i] EXCEPT !.by = "nobody"] ELSE jobs[i]]
    BY <1>1 DEF Breaks, VorgangRecords
  <2>2. QED
    BY <1>1, <1>4, <2>1 DEF VorgangRecords
<1>6. VorgangRecords'
  BY <1>1, <1>3, <1>5 DEF VorgangRecords
<1>7. VorgangCounts' /\ overlapped' = overlapped /\ belege' = belege
  BY <1>1 DEF Breaks, VorgangCounts
<1>8. ASSUME ~overlapped PROVE VorgangInv'
  <2>1. VorgangInv
    BY <1>8 DEF VorgangIInv
  <2>2. OneAtATime' /\ AtMostOne'
    BY <1>3, <1>7, <2>1 DEF VorgangInv, OneAtATime, AtMostOne, At_
  <2>3. WaitedForLast'
    BY <1>3, <1>5, <2>1, VorgangBounds DEF VorgangInv, WaitedForLast, At_
  <2>4. CreatesOnce' /\ NoneFoundNoneComing'
    BY <1>3, <1>5, <1>7, <2>1 DEF VorgangInv, CreatesOnce, NoneFoundNoneComing, At_
  <2>5. QED
    BY <2>1, <2>2, <2>3, <2>4 DEF VorgangInv
<1>9. QED
  BY <1>1, <1>6, <1>7, <1>8, VorgangStep

(* What the wrapper does with the first job, and what it answers.            *)
LEMMA WorkerEffect ==
  ASSUME VorgangIInv, WorkerTakes
  PROVE  LET j == Head(jobs) IN
         /\ VorgangCounts' /\ VorgangRecords' /\ overlapped' = overlapped
         /\ 1 \in 1 .. Len(jobs) /\ j = jobs[1] /\ j \in JobRecords
         /\ Len(jobs') = Len(jobs) - 1 /\ \A i \in 1 .. Len(jobs') : jobs'[i] = jobs[i + 1]
         /\ \A d \in Commands : d # j.by => command'[d] = command[d]
         /\ \/ belege' = belege
            \/ j.kind = "create" /\ \E b : belege' = belege \cup {b}
         /\ j.by \in Commands /\ command'[j.by].pc = "none" => j.kind = "search" /\ belege = {}
<1>1. VorgangCounts /\ VorgangRecords /\ overlapped \in BOOLEAN
  BY VorgangTypeParts DEF VorgangIInv, VorgangFlag
<1> DEFINE j == Head(jobs)
<1>2. /\ 1 \in 1 .. Len(jobs) /\ j = jobs[1] /\ j \in JobRecords /\ jobs' \in Seq(JobRecords)
      /\ Len(jobs') = Len(jobs) - 1 /\ \A i \in 1 .. Len(jobs') : jobs'[i] = jobs[i + 1]
  BY <1>1 DEF WorkerTakes, VorgangRecords
<1>3. overlapped' = overlapped /\ stored' = stored /\ inShop' = inShop /\ starts' = starts /\ changes' = changes
  BY DEF WorkerTakes
<1>4. Len(jobs') <= MaxOutcomes
  BY <1>1, <1>2, VorgangBounds DEF VorgangRecords
<1> HIDE DEF j
<1>5. j.beleg \in 0 .. MaxBelege /\ j.by \in Commands \cup {"nobody"} /\ 0 \in 0 .. MaxBelege
  BY <1>2, VorgangBounds DEF JobRecords
<1>6. {"found", "gone", "none"} \subseteq CommandPlaces
  BY DEF CommandPlaces
<1>7. ASSUME NEW p \in {"found", "gone", "none"}, NEW b \in 0 .. MaxBelege, Answer_(j.by, p, b)
      PROVE  /\ command' \in [Commands -> CommandRecords]
             /\ \A d \in Commands : d # j.by => command'[d] = command[d]
             /\ j.by \in Commands => command'[j.by].pc = p
  <2>1. CASE j.by = "nobody"
    BY <1>1, <1>7, <2>1, VorgangBounds DEF Answer_, VorgangRecords
  <2>2. CASE j.by \in Commands
    <3>1. Step(j.by, p, b)
      BY <1>7, <2>2, VorgangBounds DEF Answer_
    <3>2. QED
      BY <1>1, <1>6, <2>2, <3>1, StepEffect
  <2>3. QED
    BY <1>5, <2>1, <2>2
<1>8. CASE WorkerReads(j)
  <2>1. \E p \in {"found", "gone"} : Answer_(j.by, p, j.beleg)
    BY <1>8 DEF WorkerReads
  <2>2. belege' = belege /\ given' = given
    BY <1>8 DEF WorkerReads
  <2>3. QED
    BY <1>1, <1>2, <1>3, <1>4, <1>5, <1>7, <2>1, <2>2 DEF VorgangCounts, VorgangRecords, j
<1>9. CASE WorkerSearches(j)
  <2>1. (belege = {} /\ Answer_(j.by, "none", 0)) \/ \E b \in belege : Answer_(j.by, "found", b)
    BY <1>9 DEF WorkerSearches
  <2>2. belege' = belege /\ given' = given /\ j.kind = "search" /\ belege \subseteq 0 .. MaxBelege
    BY <1>1, <1>9 DEF WorkerSearches, VorgangCounts, Belege
  <2>3. QED
    BY <1>1, <1>2, <1>3, <1>4, <1>5, <1>7, <2>1, <2>2 DEF VorgangCounts, VorgangRecords, j
<1>10. ASSUME j.by \in Commands => \E r \in CommandRecords : r.pc \in {"found", "off"}
                                     /\ command' = [command EXCEPT ![j.by] = r],
              j.by = "nobody" => command' = command
       PROVE  /\ command' \in [Commands -> CommandRecords]
              /\ \A d \in Commands : d # j.by => command'[d] = command[d]
              /\ j.by \in Commands => command'[j.by].pc # "none"
  BY <1>1, <1>5, <1>10, VorgangBounds DEF VorgangRecords
<1>11. CASE WorkerCreates(j)
  <2>1. given' \in 0 .. MaxBelege /\ given' \in Belege /\ belege' = belege \cup {given'} /\ j.kind = "create"
    BY <1>1, <1>11, VorgangBounds DEF WorkerCreates, VorgangCounts, Belege
  <2>2. [pc |-> "found", beleg |-> given', writes |-> FALSE] \in CommandRecords
    BY <2>1 DEF CommandRecords, CommandPlaces
  <2>3. /\ command' \in [Commands -> CommandRecords]
        /\ \A d \in Commands : d # j.by => command'[d] = command[d]
        /\ j.by \in Commands => command'[j.by].pc # "none"
    BY <1>10, <1>11, <2>2, VorgangBounds DEF WorkerCreates
  <2>4. VorgangCounts' /\ VorgangRecords'
    BY <1>1, <1>2, <1>3, <1>4, <2>1, <2>3 DEF VorgangCounts, VorgangRecords
  <2>5. QED
    BY <1>2, <1>3, <2>1, <2>3, <2>4 DEF j
<1>12. CASE WorkerUpdates(j)
  <2>1. belege' = belege /\ given' = given
    BY <1>12 DEF WorkerUpdates
  <2>2. [pc |-> "found", beleg |-> j.beleg, writes |-> FALSE] \in CommandRecords /\ Off \in CommandRecords /\ Off.pc = "off"
    BY <1>5 DEF CommandRecords, CommandPlaces, Off
  <2>3. /\ command' \in [Commands -> CommandRecords]
        /\ \A d \in Commands : d # j.by => command'[d] = command[d]
        /\ j.by \in Commands => command'[j.by].pc # "none"
    <3>1. CASE j.by = "nobody"
      BY <1>10, <1>12, <3>1, VorgangBounds DEF WorkerUpdates
    <3>2. CASE j.by \in Commands
      <4>1. command' = [command EXCEPT ![j.by] = [pc |-> "found", beleg |-> j.beleg, writes |-> FALSE]]
            \/ command' = [command EXCEPT ![j.by] = Off]
        BY <1>12, <3>2, VorgangBounds DEF WorkerUpdates
      <4>2. j.by # "nobody"
        BY <3>2, VorgangBounds
      <4>3. QED
        BY <1>10, <2>2, <4>1, <4>2
    <3>3. QED
      BY <1>5, <3>1, <3>2
  <2>4. VorgangCounts' /\ VorgangRecords'
    BY <1>1, <1>2, <1>3, <1>4, <2>1, <2>3 DEF VorgangCounts, VorgangRecords
  <2>5. QED
    BY <1>2, <1>3, <2>1, <2>3, <2>4 DEF j
<1>13. QED
  BY <1>8, <1>9, <1>11, <1>12 DEF WorkerTakes, j

(* An answer reaches a process whose job was the last one: what it learns is  *)
(* still so, nothing is queued that could change it.                          *)
LEMMA WorkerKeeps ==
  ASSUME VorgangIInv, WorkerTakes
  PROVE  VorgangIInv'
<1> DEFINE j == Head(jobs)
<1>1. VorgangCounts /\ VorgangRecords /\ overlapped \in BOOLEAN
  BY VorgangTypeParts DEF VorgangIInv, VorgangFlag
<1>2. /\ VorgangCounts' /\ VorgangRecords' /\ overlapped' = overlapped
      /\ 1 \in 1 .. Len(jobs) /\ j = jobs[1] /\ j \in JobRecords
      /\ Len(jobs') = Len(jobs) - 1 /\ \A i \in 1 .. Len(jobs') : jobs'[i] = jobs[i + 1]
      /\ \A d \in Commands : d # j.by => command'[d] = command[d]
      /\ \/ belege' = belege
         \/ j.kind = "create" /\ \E b : belege' = belege \cup {b}
      /\ j.by \in Commands /\ command'[j.by].pc = "none" => j.kind = "search" /\ belege = {}
  BY WorkerEffect
<1>3. Len(jobs) \in Nat
  BY <1>1, JobFacts
<1> HIDE DEF j
<1>4. ASSUME ~overlapped PROVE VorgangInv'
  <2>1. VorgangInv
    BY <1>4 DEF VorgangIInv
  <2>2. j.by \in Commands => Len(jobs) = 1 /\ command[j.by].pc # "off" /\ command[j.by].pc # "none"
    BY <1>2, <2>1, WaitForPlaces DEF VorgangInv, WaitedForLast, At_, JobRecords
  <2>3. OneAtATime'
    BY <1>2, <2>1, <2>2 DEF VorgangInv, OneAtATime, At_
  <2>4. \A i \in 1 .. Len(jobs') : i + 1 \in 1 .. Len(jobs) /\ i + 1 # 1 /\ jobs'[i] = jobs[i + 1]
    BY <1>2, <1>3
  <2>5. WaitedForLast'
    <3>1. ASSUME NEW i \in 1 .. Len(jobs'), jobs'[i].by \in Commands
          PROVE  i = Len(jobs') /\ command'[jobs'[i].by].pc = WaitFor(jobs'[i].kind)
      <4>1. i + 1 = Len(jobs) /\ command[jobs[i + 1].by].pc = WaitFor(jobs[i + 1].kind)
        BY <2>1, <2>4, <3>1 DEF VorgangInv, WaitedForLast, At_
      <4>2. j.by \notin Commands
        BY <1>2, <2>2, <3>1
      <4>3. QED
        BY <1>2, <1>3, <2>4, <3>1, <4>1, <4>2
    <3>2. QED
      BY <3>1 DEF WaitedForLast, At_
  <2>6. j.kind = "create" => belege = {} /\ \A i \in 1 .. Len(jobs') : jobs'[i].kind # "create"
    BY <1>2, <2>1, <2>4 DEF VorgangInv, CreatesOnce
  <2>7. CreatesOnce'
    <3>1. CASE j.kind = "create"
      BY <2>6, <3>1 DEF CreatesOnce
    <3>2. CASE j.kind # "create"
      <4>1. ASSUME NEW i \in 1 .. Len(jobs'), jobs'[i].kind = "create"
            PROVE  belege' = {} /\ \A k \in 1 .. Len(jobs') : jobs'[k].kind = "create" => k = i
        <5>1. belege = {} /\ \A k \in 1 .. Len(jobs) : jobs[k].kind = "create" => k = i + 1
          BY <2>1, <2>4, <4>1 DEF VorgangInv, CreatesOnce
        <5>2. \A k \in 1 .. Len(jobs') : jobs'[k].kind = "create" => k + 1 = i + 1
          BY <2>4, <5>1
        <5>3. QED
          BY <1>2, <3>2, <5>1, <5>2
      <4>2. QED
        BY <4>1 DEF CreatesOnce
    <3>3. QED
      BY <3>1, <3>2
  <2>8. NoneFoundNoneComing'
    <3>1. ASSUME NEW d \in Commands, command'[d].pc = "none"
          PROVE  belege' = {} /\ \A i \in 1 .. Len(jobs') : jobs'[i].kind # "create"
      <4>1. CASE d = j.by
        BY <1>2, <1>3, <2>2, <3>1, <4>1
      <4>2. CASE d # j.by
        <5>1. command[d].pc = "none"
          BY <1>2, <3>1, <4>2
        <5>2. belege = {} /\ \A i \in 1 .. Len(jobs) : jobs[i].kind # "create"
          BY <2>1, <5>1 DEF VorgangInv, NoneFoundNoneComing, At_
        <5>3. QED
          BY <1>2, <2>4, <5>2
      <4>3. QED
        BY <4>1, <4>2
    <3>2. QED
      BY <3>1 DEF NoneFoundNoneComing, At_
  <2>9. AtMostOne'
    BY <1>2, <2>1, <2>6 DEF VorgangInv, AtMostOne
  <2>10. QED
    BY <2>3, <2>5, <2>7, <2>8, <2>9 DEF VorgangInv
<1>5. QED
  BY <1>1, <1>2, <1>4, VorgangStep

LEMMA ChangeKeeps ==
  ASSUME VorgangIInv, NEW b \in Belege, ChangedInMicrotech(b)
  PROVE  VorgangIInv'
<1>1. VorgangCounts /\ VorgangRecords /\ overlapped \in BOOLEAN
  BY VorgangTypeParts DEF VorgangIInv, VorgangFlag
<1>2. VorgangCounts'
  <2>1. /\ stored' = stored /\ inShop' = inShop /\ starts' = starts
        /\ changes < MaxChanges /\ changes' = changes + 1
    BY DEF ChangedInMicrotech
  <2>2. given' \in 0 .. MaxBelege /\ belege' \subseteq Belege
    <3>1. CASE belege' = belege \ {b} /\ given' = given
      BY <1>1, <3>1 DEF VorgangCounts
    <3>2. CASE given < MaxBelege /\ given' = given + 1 /\ belege' = (belege \ {b}) \cup {given'}
      BY <1>1, <3>2, VorgangBounds DEF VorgangCounts, Belege
    <3>3. QED
      BY <3>1, <3>2 DEF ChangedInMicrotech
  <2>3. QED
    BY <1>1, <2>1, <2>2, VorgangBounds DEF VorgangCounts
<1>3. jobs' = jobs /\ command' = command /\ overlapped' = overlapped /\ b \in belege
  BY DEF ChangedInMicrotech
<1>4. VorgangRecords'
  BY <1>1, <1>3 DEF VorgangRecords
<1>5. (\E g : belege' = (belege \ {b}) \cup {g}) \/ belege' = belege \ {b}
  BY DEF ChangedInMicrotech
<1>6. ~overlapped => VorgangInv'
  BY <1>3, <1>5 DEF VorgangIInv, VorgangInv, OneAtATime, WaitedForLast, CreatesOnce, NoneFoundNoneComing,
     AtMostOne, At_
<1>7. QED
  BY <1>1, <1>2, <1>3, <1>4, <1>6, VorgangStep

LEMMA VorgangNextKeeps == VorgangIInv /\ [VorgangNext]_vorgangVars => VorgangIInv'
<1>1. VorgangIInv /\ VorgangNext => VorgangIInv'
  BY WorkerKeeps, ChangeKeeps, StartKeeps, CommandKeeps, BreakKeeps DEF VorgangNext
<1>2. VorgangIInv /\ UNCHANGED vorgangVars => VorgangIInv'
  <2> SUFFICES ASSUME VorgangIInv, UNCHANGED vorgangVars PROVE VorgangIInv'
    OBVIOUS
  <2>1. /\ belege' = belege /\ given' = given /\ stored' = stored /\ inShop' = inShop /\ jobs' = jobs
        /\ command' = command /\ overlapped' = overlapped /\ starts' = starts /\ changes' = changes
    BY Zenon DEF vorgangVars
  <2>2. QED
    BY <2>1, Zenon DEF VorgangIInv, VorgangTypeOK, VorgangInv, OneAtATime, WaitedForLast, CreatesOnce,
       NoneFoundNoneComing, AtMostOne, At_
<1>3. QED
  BY <1>1, <1>2

(* The queue, the processes and the numbers keep their types.                *)
THEOREM VorgangTypeCorrect == VorgangSpec => []VorgangTypeOK
<1>1. VorgangIInv => VorgangTypeOK
  BY DEF VorgangIInv
<1>2. QED
  BY <1>1, VorgangInitInv, VorgangNextKeeps, PTL DEF VorgangSpec

(* However often an upsert times out, dies and is tried again, in a queue of   *)
(* any length: an order has one Vorgang (_upsert_order_graphql behind          *)
(* _refresh_erp_order_id_graphql).                                           *)
THEOREM OrderHasOneVorgang == VorgangSpec => []OneVorgang
<1>1. VorgangIInv => OneVorgang
  <2> SUFFICES ASSUME VorgangIInv, ~overlapped PROVE Cardinality(belege) <= 1
    BY DEF OneVorgang
  <2>1. AtMostOne
    BY DEF VorgangIInv, VorgangInv
  <2>2. CASE belege = {}
    BY <2>2, FS_EmptySet
  <2>3. ASSUME NEW x \in belege PROVE Cardinality(belege) <= 1
    <3>1. belege = {x}
      BY <2>1, <2>3 DEF AtMostOne
    <3>2. Cardinality({x}) = 1
      BY FS_Singleton
    <3>3. QED
      BY <3>1, <3>2
  <2>4. QED
    BY <2>2, <2>3
<1>2. QED
  BY <1>1, VorgangInitInv, VorgangNextKeeps, PTL DEF VorgangSpec
-----------------------------------------------------------------------------
(* The rules of an order.  As long as no page was saved that only one engine   *)
(* sees, the tree is the flat list: every condition is in an active root that  *)
(* combines like the rule, and a group below a root that needs any is off.    *)
ChildUnderRoot == child.here => root.here

SameRule ==
  /\ root.here /\ root.on /\ root.logic = logic
  /\ \A c \in Conditions : conditions[c].here => conditions[c].group = "root"
  /\ child.here /\ child.on => root.logic = "all"

ConditionRecords == [here : BOOLEAN, on : BOOLEAN, group : {"none", "root"}]

RuleRecords ==
  /\ logic \in Logics /\ conditions \in [Conditions -> ConditionRecords]
  /\ root \in Groups /\ child \in Groups
RuleActions == actions \in Seq(Actions) /\ Len(actions) <= saves /\ saves \in 0 .. MaxSaves /\ order \in Orders_
RuleFlag == parted \in BOOLEAN

RuleIInv == RuleRecords /\ RuleActions /\ RuleFlag /\ ChildUnderRoot /\ (~parted => SameRule)

LEMMA RuleIInvTypes == RuleIInv => RuleTypeOK
<1> SUFFICES ASSUME RuleIInv PROVE RuleTypeOK
  OBVIOUS
<1>1. Len(actions) <= MaxSaves
  <2>1. Len(actions) \in Nat /\ Len(actions) <= saves /\ saves \in 0 .. MaxSaves
    BY DEF RuleIInv, RuleActions
  <2>2. QED
    BY <2>1, RuleBound
<1>2. QED
  BY <1>1, Zenon DEF RuleIInv, RuleRecords, RuleActions, RuleFlag, RuleTypeOK, ConditionRecords

LEMMA RecordsTyped ==
  /\ NoGroup \in Groups /\ NoCondition \in ConditionRecords
  /\ ~NoGroup.here /\ ~NoCondition.here
  BY DEF NoGroup, NoCondition, Groups, ConditionRecords, Logics

LEMMA RuleInitInv == RuleInit => RuleIInv
<1> SUFFICES ASSUME RuleInit PROVE RuleIInv
  OBVIOUS
<1>1. RuleActions
  BY RuleBound DEF RuleInit, RuleActions
<1>2. conditions \in [Conditions -> ConditionRecords]
  <2>1. [here : {TRUE}, on : BOOLEAN, group : {"none"}] \cup {NoCondition} \subseteq ConditionRecords
    BY RecordsTyped DEF ConditionRecords
  <2>2. QED
    BY <2>1 DEF RuleInit
<1>3. RuleRecords /\ ChildUnderRoot
  BY <1>2, RecordsTyped DEF RuleInit, RuleRecords, ChildUnderRoot
<1>4. RuleFlag /\ parted
  BY Zenon DEF RuleInit, RuleFlag
<1>5. QED
  BY <1>1, <1>3, <1>4 DEF RuleIInv

(* The migration makes the two agree.                                        *)
LEMMA BackfillKeeps ==
  ASSUME RuleIInv, Backfill
  PROVE  RuleIInv'
<1>1. RuleRecords /\ ChildUnderRoot /\ RuleActions
  BY DEF RuleIInv
<1> DEFINE r == [here |-> TRUE, on |-> TRUE, logic |-> logic]
<1>2. r \in Groups /\ r.here /\ r.on /\ r.logic = logic
  BY <1>1 DEF RuleRecords, Groups
<1>3. root' = r /\ child' = child /\ logic' = logic /\ ~root.here
  BY DEF Backfill
<1> HIDE DEF r
<1>4. ~child.here
  BY <1>1, <1>3, Zenon DEF ChildUnderRoot
<1>5. \A c \in Conditions : /\ conditions'[c] \in ConditionRecords
                            /\ conditions'[c].here => conditions'[c].group = "root"
  <2>1. ASSUME NEW c \in Conditions
        PROVE  /\ conditions'[c] \in ConditionRecords
               /\ conditions'[c].here => conditions'[c].group = "root"
    <3>1. conditions'[c] = IF conditions[c].here THEN [conditions[c] EXCEPT !.group = "root"] ELSE conditions[c]
      BY DEF Backfill
    <3>2. conditions[c] \in ConditionRecords
      BY <1>1 DEF RuleRecords
    <3>3. QED
      BY <3>1, <3>2 DEF ConditionRecords
  <2>2. QED
    BY <2>1
<1>6. conditions' \in [Conditions -> ConditionRecords]
  <2>1. conditions' = [c \in Conditions |-> conditions'[c]]
    BY DEF Backfill
  <2>2. QED
    BY <1>5, <2>1
<1>7. RuleRecords'
  BY <1>1, <1>2, <1>3, <1>6 DEF RuleRecords
<1>8. SameRule' /\ ChildUnderRoot'
  BY <1>2, <1>3, <1>4, <1>5, Zenon DEF SameRule, ChildUnderRoot
<1>9. RuleFlag'
  BY Zenon DEF Backfill, RuleFlag
<1>10. RuleActions'
  BY <1>1 DEF Backfill, RuleActions
<1>11. QED
  BY <1>7, <1>8, <1>9, <1>10 DEF RuleIInv

LEMMA SavedCounts ==
  ASSUME RuleActions, Saved, actions' = actions \/ \E a \in Actions : actions' = Append(actions, a),
         order' = order
  PROVE  RuleActions'
  BY RuleBound DEF RuleActions, Saved

(* A condition's own page.                                                   *)
LEMMA ConditionKeeps ==
  ASSUME RuleIInv, NEW c \in Conditions, ConditionAdded(c) \/ ConditionToggled(c) \/ ConditionDeleted(c)
  PROVE  RuleIInv'
<1>1. RuleRecords /\ ChildUnderRoot /\ RuleActions /\ RuleFlag
  BY DEF RuleIInv
<1>2. RuleActions'
  BY <1>1, SavedCounts DEF ConditionAdded, ConditionToggled, ConditionDeleted
<1>3. logic' = logic /\ root' = root /\ child' = child
  BY DEF ConditionAdded, ConditionToggled, ConditionDeleted
<1>4. ChildUnderRoot'
  BY <1>1, <1>3, Zenon DEF ChildUnderRoot
<1>5. CASE ConditionAdded(c)
  <2>1. [here |-> TRUE, on |-> TRUE, group |-> "none"] \in ConditionRecords
    BY DEF ConditionRecords
  <2>2. RuleRecords'
    BY <1>1, <1>3, <1>5, <2>1 DEF ConditionAdded, RuleRecords
  <2>3. RuleFlag' /\ parted'
    BY <1>5, Zenon DEF ConditionAdded, RuleFlag
  <2>4. QED
    BY <1>2, <1>4, <2>2, <2>3 DEF RuleIInv
<1>6. ASSUME NEW r \in ConditionRecords, r.here => conditions[c].here /\ r.group = conditions[c].group,
             conditions' = [conditions EXCEPT ![c] = r], parted' = parted
      PROVE  RuleIInv'
  <2>1. RuleRecords'
    BY <1>1, <1>3, <1>6 DEF RuleRecords
  <2>2. conditions'[c] = r /\ \A d \in Conditions : d # c => conditions'[d] = conditions[d]
    BY <1>1, <1>6 DEF RuleRecords
  <2>3. SameRule => SameRule'
    BY <1>3, <1>6, <2>2, Zenon DEF SameRule
  <2>4. QED
    BY <1>1, <1>2, <1>4, <1>6, <2>1, <2>3, Zenon DEF RuleIInv, RuleFlag
<1>7. CASE ConditionToggled(c)
  <2> DEFINE r == [conditions[c] EXCEPT !.on = ~@]
  <2>1. conditions[c] \in ConditionRecords
    BY <1>1 DEF RuleRecords
  <2>2. r \in ConditionRecords /\ r.here = conditions[c].here /\ r.group = conditions[c].group
    BY <2>1 DEF ConditionRecords
  <2>3. conditions' = [conditions EXCEPT ![c] = r] /\ parted' = parted
    BY <1>7 DEF ConditionToggled
  <2> HIDE DEF r
  <2>4. r.here => conditions[c].here
    BY <2>2
  <2>5. QED
    BY <1>6, <2>2, <2>3, <2>4
<1>8. CASE ConditionDeleted(c)
  BY <1>6, <1>8, RecordsTyped DEF ConditionDeleted
<1>9. QED
  BY <1>5, <1>7, <1>8

(* The pages of the groups.                                                  *)
LEMMA GroupKeeps ==
  ASSUME RuleIInv, GroupAdded \/ RootChanged \/ RootDeleted
  PROVE  RuleIInv'
<1>1. RuleRecords /\ ChildUnderRoot /\ RuleActions /\ RuleFlag
  BY DEF RuleIInv
<1>2. RuleActions'
  BY <1>1, SavedCounts DEF GroupAdded, RootChanged, RootDeleted
<1>3. [here : {TRUE}, on : BOOLEAN, logic : Logics] \subseteq Groups
      /\ \A g \in [here : {TRUE}, on : BOOLEAN, logic : Logics] : g.here
  BY DEF Groups
<1>4. CASE GroupAdded
  <2>1. root' = root /\ root.here /\ logic' = logic /\ conditions' = conditions /\ child' \in Groups
    BY <1>3, <1>4 DEF GroupAdded
  <2>2. RuleRecords' /\ ChildUnderRoot'
    BY <1>1, <2>1, Zenon DEF RuleRecords, ChildUnderRoot
  <2>3. RuleFlag' /\ (~parted' => ~parted /\ ~(child'.on /\ root.logic = "any"))
    BY <1>4, Zenon DEF GroupAdded, RuleFlag
  <2>4. root.logic \in {"all", "any"}
    BY <1>1 DEF RuleRecords, Groups, Logics
  <2>5. ASSUME ~parted' PROVE SameRule'
    <3>1. SameRule
      BY <2>3, <2>5 DEF RuleIInv
    <3>2. child'.on => root.logic = "all"
      BY <2>3, <2>4, <2>5
    <3>3. QED
      BY <2>1, <3>1, <3>2, Zenon DEF SameRule
  <2>6. QED
    BY <1>2, <2>2, <2>3, <2>5 DEF RuleIInv
<1>5. CASE RootChanged
  <2>1. root' \in Groups /\ root'.here /\ child' = child /\ logic' = logic /\ conditions' = conditions
    BY <1>3, <1>5 DEF RootChanged
  <2>2. RuleRecords' /\ ChildUnderRoot'
    BY <1>1, <2>1, Zenon DEF RuleRecords, ChildUnderRoot
  <2>3. RuleFlag' /\ parted'
    BY <1>5, Zenon DEF RootChanged, RuleFlag
  <2>4. QED
    BY <1>2, <2>2, <2>3 DEF RuleIInv
<1>6. CASE RootDeleted
  <2>1. conditions' \in [Conditions -> ConditionRecords]
    BY <1>1, <1>6, RecordsTyped DEF RootDeleted, RuleRecords
  <2>2. RuleRecords' /\ ChildUnderRoot'
    BY <1>1, <1>6, <2>1, RecordsTyped, Zenon DEF RootDeleted, RuleRecords, ChildUnderRoot
  <2>3. RuleFlag' /\ parted'
    BY <1>6, Zenon DEF RootDeleted, RuleFlag
  <2>4. QED
    BY <1>2, <2>2, <2>3 DEF RuleIInv
<1>7. QED
  BY <1>4, <1>5, <1>6

LEMMA RulePageKeeps ==
  ASSUME RuleIInv, LogicChanged \/ \E a \in Actions : ActionAdded(a)
  PROVE  RuleIInv'
<1>1. RuleRecords /\ ChildUnderRoot /\ RuleActions /\ RuleFlag
  BY DEF RuleIInv
<1>2. RuleActions'
  BY <1>1, SavedCounts DEF LogicChanged, ActionAdded
<1>3. conditions' = conditions /\ root' = root /\ child' = child
  BY DEF LogicChanged, ActionAdded
<1>4. ChildUnderRoot'
  BY <1>1, <1>3, Zenon DEF ChildUnderRoot
<1>5. CASE LogicChanged
  <2>1. logic' \in Logics
    BY <1>5 DEF LogicChanged, Logics
  <2>2. RuleRecords'
    BY <1>1, <1>3, <2>1 DEF RuleRecords
  <2>3. RuleFlag' /\ parted'
    BY <1>5, Zenon DEF LogicChanged, RuleFlag
  <2>4. QED
    BY <1>2, <1>4, <2>2, <2>3 DEF RuleIInv
<1>6. CASE \E a \in Actions : ActionAdded(a)
  <2>1. logic' = logic /\ parted' = parted
    BY <1>6, Zenon DEF ActionAdded
  <2>2. RuleRecords' /\ RuleFlag'
    BY <1>1, <1>3, <2>1, Zenon DEF RuleRecords, RuleFlag
  <2>3. SameRule => SameRule'
    BY <1>3, <2>1, Zenon DEF SameRule
  <2>4. QED
    BY <1>2, <1>4, <2>1, <2>2, <2>3, Zenon DEF RuleIInv
<1>7. QED
  BY <1>5, <1>6

LEMMA RuleNextKeeps == RuleIInv /\ [RuleNext]_ruleVars => RuleIInv'
<1>1. RuleIInv /\ RuleNext => RuleIInv'
  BY BackfillKeeps, ConditionKeeps, GroupKeeps, RulePageKeeps DEF RuleNext
<1>2. RuleIInv /\ UNCHANGED ruleVars => RuleIInv'
  <2> SUFFICES ASSUME RuleIInv, UNCHANGED ruleVars PROVE RuleIInv'
    OBVIOUS
  <2>1. /\ logic' = logic /\ conditions' = conditions /\ root' = root /\ child' = child
        /\ parted' = parted /\ actions' = actions /\ order' = order /\ saves' = saves
    BY Zenon DEF ruleVars
  <2>2. QED
    BY <2>1, Zenon DEF RuleIInv, RuleRecords, RuleActions, RuleFlag, ChildUnderRoot, SameRule
<1>3. QED
  BY <1>1, <1>2

(* Combining: the outcome TRUE of a neutral group changes nothing where all    *)
(* must hold.                                                                *)
LEMMA NeutralGroup ==
  ASSUME NEW results
  PROVE  Combine("all", results \cup {TRUE}) <=> Combine("all", results)
  BY Zenon DEF Combine

(* Rules, conditions, groups and actions keep their types.                    *)
THEOREM RuleTypeCorrect == RuleSpec => []RuleTypeOK
  BY RuleInitInv, RuleNextKeeps, RuleIInvTypes, PTL DEF RuleSpec

(* OrderRuleResolverService._matches_rule and rule_engine.rule_matches say the  *)
(* same of every order, for any number of conditions and any outcome of them,  *)
(* from the migration on and until a page is saved that only one of them sees. *)
THEOREM EnginesAgreeAlways == RuleSpec => []EnginesAgree
<1>1. RuleIInv => EnginesAgree
  <2> SUFFICES ASSUME RuleIInv, ~parted, NEW holds \in [Conditions -> BOOLEAN]
               PROVE  FlatMatches(holds) <=> TreeMatches(holds)
    BY DEF EnginesAgree
  <2>1. SameRule
    BY DEF RuleIInv
  <2>2. {d \in ActiveRule : conditions[d].group = "root"} = ActiveRule
    BY <2>1, Zenon DEF SameRule, ActiveRule
  <2> DEFINE results == {holds[c] : c \in ActiveRule}
  <2>3. RootResults(holds) = results \cup ChildResults
    BY <2>2, Zenon DEF RootResults
  <2>4. results = {} <=> ActiveRule = {}
    BY Zenon
  <2>5. TreeMatches(holds) <=> (results \cup ChildResults = {} \/ Combine(logic, results \cup ChildResults))
    BY <2>1, <2>3, Zenon DEF TreeMatches, EvaluateRoot, SameRule
  <2>6. FlatMatches(holds) <=> (results = {} \/ Combine(logic, results))
    BY <2>4, Zenon DEF FlatMatches
  <2> HIDE DEF results
  <2>7. CASE child.here /\ child.on
    <3>1. logic = "all"
      BY <2>1, <2>7 DEF SameRule
    <3>2. ChildResults = {TRUE}
      BY <2>7, Zenon DEF ChildResults
    <3>3. Combine("all", results \cup {TRUE}) <=> Combine("all", results)
      BY NeutralGroup
    <3>4. results = {} => Combine("all", results)
      BY Zenon DEF Combine
    <3>5. QED
      BY <2>5, <2>6, <3>1, <3>2, <3>3, <3>4, Zenon
  <2>8. CASE ~(child.here /\ child.on)
    <3>1. results \cup ChildResults = results
      BY <2>8, Zenon DEF ChildResults
    <3>2. QED
      BY <2>5, <2>6, <3>1, Zenon
  <2>9. QED
    BY <2>7, <2>8
<1>2. QED
  BY <1>1, RuleInitInv, RuleNextKeeps, PTL DEF RuleSpec

-----------------------------------------------------------------------------
(* Folds over a list, unfolded from left to right.  A fold is a recursive      *)
(* function on the sets of places; that there is one is shown by the least     *)
(* number of places for which there is none.                                *)
LEMMA SomeLeast ==
  ASSUME NEW S, S \subseteq Nat, S # {}
  PROVE  \E x \in S : \A y \in S : x <= y
<1>1. PICK R : R = OpToRel(<, Nat)
  OBVIOUS
<1>2. R = {ss \in Nat \X Nat : ss[1] < ss[2]}
  BY <1>1, Zenon DEF OpToRel
<1>3. IsWellFoundedOn(R, Nat)
  BY <1>1, NatLessThanWellFounded, Zenon
<1>4. PICK x \in S : \A y \in S : ~ (<<y, x>> \in R)
  BY <1>3, WFMin
<1>5. \A y \in S : x <= y
  <2> SUFFICES ASSUME NEW y \in S PROVE x <= y
    OBVIOUS
  <2>1. x \in Nat /\ y \in Nat
    OBVIOUS
  <2>2. y < x => <<y, x>> \in R
    BY <1>2, <2>1
  <2> QED
    BY <1>4, <2>1, <2>2
<1> QED
  BY <1>4, <1>5

LEMMA MaxIs ==
  ASSUME NEW N \in Nat, NEW s \in SUBSET (1 .. N), s # {}
  PROVE  Max(s) \in s /\ \A y \in s : Max(s) >= y
<1> DEFINE above == {n \in Nat : \A y \in s : y <= n}
<1>1. above \subseteq Nat /\ N \in above
  OBVIOUS
<1>2. PICK m \in above : \A n \in above : m <= n
  <2> HIDE DEF above
  <2> QED
    BY <1>1, SomeLeast
<1>3. m \in s
  <2> SUFFICES ASSUME m \notin s PROVE FALSE
    OBVIOUS
  <2>1. m \in Nat /\ \A y \in s : y <= m /\ y # m /\ y \in 1 .. N
    BY <1>2
  <2>4. PICK y \in s : TRUE
    OBVIOUS
  <2>2. m # 0 /\ \A x \in s : x <= m - 1
    BY <2>1, <2>4
  <2>3. m - 1 \in above
    BY <2>1, <2>2
  <2> QED
    BY <1>2, <2>1, <2>3
<1>4. \A y \in s : m >= y
  BY <1>2
<1>5. \E x \in s : \A y \in s : x >= y
  BY <1>3, <1>4
<1> HIDE DEF above
<1> QED
  BY <1>5, Zenon DEF Max

LEMMA MaxOfPrefix ==
  ASSUME NEW n \in Nat, n # 0
  PROVE  Max(1 .. n) = n /\ (1 .. n) \ {Max(1 .. n)} = 1 .. (n - 1) /\ 1 .. n # {}
<1>1. 1 .. n # {} /\ 1 .. n \in SUBSET (1 .. n) /\ n \in 1 .. n
  OBVIOUS
<1>2. Max(1 .. n) \in 1 .. n /\ \A y \in 1 .. n : Max(1 .. n) >= y
  BY <1>1, MaxIs, Zenon
<1>3. Max(1 .. n) = n
  BY <1>1, <1>2
<1>4. (1 .. n) \ {n} = 1 .. (n - 1)
  OBVIOUS
<1> QED
  BY <1>1, <1>3, <1>4, Zenon

IsFold(f, N, V, base, step) ==
  /\ f \in [SUBSET (1 .. N) -> V]
  /\ f[{}] = base
  /\ \A s \in SUBSET (1 .. N) : s # {} => f[s] = step[Max(s)][f[s \ {Max(s)}]]

LEMMA FoldExists ==
  ASSUME NEW N \in Nat, NEW V, NEW base \in V, NEW step \in [1 .. N -> [V -> V]]
  PROVE  \E f : IsFold(f, N, V, base, step)
<1> DEFINE Bad == {n \in Nat : n <= N /\ ~ \E f : IsFold(f, n, V, base, step)}
<1>1. Bad = {}
  <2> SUFFICES ASSUME Bad # {} PROVE FALSE
    OBVIOUS
  <2>1. PICK m \in Bad : \A n \in Bad : m <= n
    <3>1. Bad \subseteq Nat
      OBVIOUS
    <3> HIDE DEF Bad
    <3> QED
      BY <3>1, SomeLeast
  <2>2. m \in Nat /\ m <= N /\ ~ \E f : IsFold(f, m, V, base, step)
    BY <2>1
  <2>3. CASE m = 0
    <3>1. PICK f : f = [s \in SUBSET (1 .. 0) |-> base]
      OBVIOUS
    <3>2. SUBSET (1 .. 0) = {{}}
      OBVIOUS
    <3>3. IsFold(f, 0, V, base, step)
      BY <3>1, <3>2 DEF IsFold
    <3> QED
      BY <2>2, <2>3, <3>3
  <2>4. CASE m # 0
    <3>1. m - 1 \in Nat /\ m - 1 <= N /\ m - 1 \notin Bad
      BY <2>1, <2>2, <2>4
    <3>2. PICK f : IsFold(f, m - 1, V, base, step)
      BY <3>1
    <3>3. /\ f \in [SUBSET (1 .. (m - 1)) -> V]
          /\ f[{}] = base
          /\ \A s \in SUBSET (1 .. (m - 1)) : s # {} => f[s] = step[Max(s)][f[s \ {Max(s)}]]
      BY <3>2 DEF IsFold
    <3>4. PICK g : g = [s \in SUBSET (1 .. m) |-> IF m \in s THEN step[m][f[s \ {m}]] ELSE f[s]]
      OBVIOUS
    <3>5. \A s \in SUBSET (1 .. m) : IF m \in s THEN s \ {m} \in SUBSET (1 .. (m - 1)) ELSE s \in SUBSET (1 .. (m - 1))
      BY <2>2
    <3>6. step[m] \in [V -> V]
      BY <2>2, <2>4
    <3>7. g \in [SUBSET (1 .. m) -> V]
      <4>1. \A s \in SUBSET (1 .. m) : g[s] \in V
        BY <3>3, <3>4, <3>5, <3>6
      <4> QED
        BY <3>4, <4>1
    <3>8. g[{}] = base
      BY <2>2, <3>3, <3>4
    <3>9. ASSUME NEW s \in SUBSET (1 .. m), s # {} PROVE g[s] = step[Max(s)][g[s \ {Max(s)}]]
      <4>1. Max(s) \in s /\ \A y \in s : Max(s) >= y
        BY <2>2, <3>9, MaxIs
      <4>2. CASE m \in s
        <5>4. Max(s) \in 1 .. m /\ Max(s) >= m
          BY <4>1, <4>2
        <5>1. Max(s) = m
          BY <2>2, <5>4
        <5>2. g[s \ {m}] = f[s \ {m}]
          BY <3>4, <3>5
        <5>3. g[s] = step[m][f[s \ {m}]]
          BY <3>4, <4>2
        <5> QED
          BY <5>1, <5>2, <5>3, Zenon
      <4>3. CASE m \notin s
        <5>1. s \in SUBSET (1 .. (m - 1)) /\ s \ {Max(s)} \in SUBSET (1 .. m) /\ m \notin s \ {Max(s)}
          BY <3>5, <4>3
        <5>2. g[s] = f[s] /\ g[s \ {Max(s)}] = f[s \ {Max(s)}]
          BY <3>4, <4>3, <5>1
        <5>3. f[s] = step[Max(s)][f[s \ {Max(s)}]]
          BY <3>3, <3>9, <5>1, Zenon
        <5> QED
          BY <5>2, <5>3, Zenon
      <4> QED
        BY <4>2, <4>3
    <3>10. IsFold(g, m, V, base, step)
      BY <3>7, <3>8, <3>9, Zenon DEF IsFold
    <3> QED
      BY <2>2, <3>10
  <2> QED
    BY <2>3, <2>4
<1> QED
  BY <1>1

(* Induction up to a number, over the numbers in a set.                       *)
LEMMA Upwards ==
  ASSUME NEW N \in Nat, NEW S, 0 \in S, \A n \in 1 .. N : n - 1 \in S => n \in S
  PROVE  \A n \in 0 .. N : n \in S
<1> DEFINE Bad == {n \in 0 .. N : n \notin S}
<1> SUFFICES ASSUME Bad # {} PROVE FALSE
  OBVIOUS
<1>1. PICK m \in Bad : \A n \in Bad : m <= n
  <2>1. Bad \subseteq Nat
    OBVIOUS
  <2> HIDE DEF Bad
  <2> QED
    BY <2>1, SomeLeast
<1>2. m \in 0 .. N /\ m \notin S /\ m # 0
  BY <1>1
<1>3. m \in 1 .. N /\ m - 1 \in 0 .. N /\ m - 1 \notin Bad
  BY <1>1, <1>2
<1>4. m - 1 \in S
  BY <1>3
<1> QED
  BY <1>2, <1>3, <1>4

LEMMA SequenceFacts ==
  ASSUME NEW A, NEW list \in Seq(A)
  PROVE  Len(list) \in Nat /\ DOMAIN list = 1 .. Len(list) /\ \A i \in 1 .. Len(list) : list[i] \in A
OBVIOUS

(* What is kept of a list is a list of the same.                              *)
LEMMA FilteredType ==
  ASSUME NEW A, NEW list \in Seq(A), NEW wanted
  PROVE  Filtered(list, wanted) \in Seq(A)
<1> DEFINE N == Len(list)
           V == Seq(A)
           Op(v, i) == IF list[i] \in wanted THEN Append(v, list[i]) ELSE v
<1>1. N \in Nat /\ DOMAIN list = 1 .. N /\ \A i \in 1 .. N : list[i] \in A
  BY SequenceFacts, Zenon
<1>2. \A i \in 1 .. N, v \in V : Op(v, i) \in V
  BY <1>1
<1>3. PICK g : g = CHOOSE f : f = [s \in SUBSET (1 .. N) |-> IF s = {} THEN <<>> ELSE Op(f[s \ {Max(s)}], Max(s))]
  OBVIOUS
<1>4. Filtered(list, wanted) = g[1 .. N]
  BY <1>1, <1>3, Zenon DEF Filtered, FoldLeft, MapThenFoldSet
<1>5. <<>> \in V
  OBVIOUS
<1> HIDE DEF Op, V, N
<1>6. \E f : f = [s \in SUBSET (1 .. N) |-> IF s = {} THEN <<>> ELSE Op(f[s \ {Max(s)}], Max(s))]
  <2>1. PICK step : step = [i \in 1 .. N |-> [v \in V |-> Op(v, i)]]
    OBVIOUS
  <2>2. step \in [1 .. N -> [V -> V]] /\ \A i \in 1 .. N : \A v \in V : step[i][v] = Op(v, i)
    BY <1>2, <2>1
  <2>3. PICK f : IsFold(f, N, V, <<>>, step)
    BY <1>1, <1>5, <2>2, FoldExists
  <2>4. /\ f \in [SUBSET (1 .. N) -> V] /\ f[{}] = <<>>
        /\ \A s \in SUBSET (1 .. N) : s # {} => f[s] = step[Max(s)][f[s \ {Max(s)}]]
    BY <2>3 DEF IsFold
  <2>5. \A s \in SUBSET (1 .. N) : s # {} => Max(s) \in 1 .. N /\ s \ {Max(s)} \in SUBSET (1 .. N) /\ f[s \ {Max(s)}] \in V
    BY <1>1, <2>4, MaxIs
  <2>6. \A s \in SUBSET (1 .. N) : s # {} => f[s] = Op(f[s \ {Max(s)}], Max(s))
    BY <2>2, <2>4, <2>5, Zenon
  <2>7. PICK h : h = [s \in SUBSET (1 .. N) |-> IF s = {} THEN <<>> ELSE Op(f[s \ {Max(s)}], Max(s))]
    OBVIOUS
  <2>8. \A s \in SUBSET (1 .. N) : f[s] = h[s]
    BY <2>4, <2>6, <2>7
  <2>9. f = h
    BY <2>4, <2>7, <2>8
  <2> QED
    BY <2>7, <2>9, Zenon
<1>7. g = [s \in SUBSET (1 .. N) |-> IF s = {} THEN <<>> ELSE Op(g[s \ {Max(s)}], Max(s))]
  BY <1>3, <1>6, Zenon
<1>8. /\ g[1 .. 0] = <<>>
      /\ \A n \in 1 .. N : g[1 .. n] = Op(g[1 .. (n - 1)], n)
  <2>1. PICK h : h = [s \in SUBSET (1 .. N) |-> IF s = {} THEN <<>> ELSE Op(g[s \ {Max(s)}], Max(s))]
    OBVIOUS
  <2>2. g = h
    BY <1>7, <2>1, Zenon
  <2>3. h[{}] = <<>> /\ \A s \in SUBSET (1 .. N) : s # {} => h[s] = Op(g[s \ {Max(s)}], Max(s))
    BY <2>1
  <2>4. 1 .. 0 = {} /\ \A n \in 1 .. N : 1 .. n \in SUBSET (1 .. N) /\ n \in Nat /\ n # 0
    BY <1>1
  <2> QED
    BY <2>2, <2>3, <2>4, MaxOfPrefix, Zenon
<1>9. \A n \in 0 .. N : n \in {m \in 0 .. N : g[1 .. m] \in V}
  <2>1. 0 \in {m \in 0 .. N : g[1 .. m] \in V}
    BY <1>1, <1>5, <1>8
  <2>2. \A n \in 1 .. N : n - 1 \in {m \in 0 .. N : g[1 .. m] \in V} => n \in {m \in 0 .. N : g[1 .. m] \in V}
    BY <1>1, <1>2, <1>8
  <2> QED
    BY <1>1, <2>1, <2>2, Upwards, Zenon
<1>10. N \in 0 .. N
  BY <1>1
<1> QED
  BY <1>4, <1>9, <1>10, Zenon DEF V

(* One action, on both paths.                                               *)
Articles == {"", "a", "e", "V", "F", "Vorgang", "VorgangPosition", ShippingArticle}
Postings == [articles : Seq(Articles), seen : SUBSET Articles, written : SUBSET Nat]
ExtraAdded(created, a) ==
  IF a.type # "extra" \/ a.target \in ToSet(created) THEN created ELSE Append(created, a.target)

Agrees(created, posted, begins) ==
  /\ created \in Seq(Articles) /\ posted \in Postings
  /\ posted.articles = begins \o created /\ posted.seen = ToSet(created)
  /\ \A i \in posted.written : i > Len(begins)

LEMMA ActionTargets == \A a \in Actions : a.target \in Articles
  BY DEF Actions, Articles

LEMMA ToSetOf ==
  ASSUME NEW A, NEW s \in Seq(A), NEW x \in A
  PROVE  /\ ToSet(s) \in SUBSET A /\ ToSet(Append(s, x)) = ToSet(s) \cup {x}
         /\ ToSet(s) # {} => Len(s) > 0
<1>1. ToSet(s) = {s[i] : i \in 1 .. Len(s)}
  BY DEF ToSet
<1>2. ToSet(Append(s, x)) = {Append(s, x)[i] : i \in 1 .. (Len(s) + 1)}
  BY DEF ToSet
<1>3. /\ Append(s, x)[Len(s) + 1] = x /\ Len(s) \in Nat
      /\ \A i \in 1 .. Len(s) : Append(s, x)[i] = s[i]
      /\ \A i \in 1 .. Len(s) : s[i] \in A
  OBVIOUS
<1>4. ToSet(Append(s, x)) = ToSet(s) \cup {x}
  BY <1>1, <1>2, <1>3
<1> QED
  BY <1>1, <1>3, <1>4

LEMMA PostingTypes ==
  ASSUME NEW v \in Postings, NEW a \in Actions
  PROVE  ComActs(v, a) \in Postings
<1>1. /\ v.articles \in Seq(Articles) /\ v.seen \in SUBSET Articles /\ v.written \in SUBSET Nat
      /\ v = [articles |-> v.articles, seen |-> v.seen, written |-> v.written]
  BY DEF Postings
<1>2. a.target \in Articles
  BY ActionTargets
<1>3. Len(v.articles) \in Nat /\ Append(v.articles, a.target) \in Seq(Articles)
  BY <1>1, <1>2
<1>4. CASE a.type = "extra" /\ a.target \notin v.seen
  <2>1. ComActs(v, a) = [articles |-> Append(v.articles, a.target), seen |-> v.seen \cup {a.target}, written |-> v.written]
    BY <1>1, <1>4 DEF ComActs, Added
  <2> QED
    BY <1>1, <1>2, <1>3, <2>1 DEF Postings
<1>5. CASE ~(a.type = "extra" /\ a.target \notin v.seen) /\ a.type = "set field" /\ a.target = "VorgangPosition" /\ v.seen # {}
  <2>1. ComActs(v, a) = [articles |-> v.articles, seen |-> v.seen, written |-> v.written \cup {Len(v.articles)}]
    BY <1>1, <1>5 DEF ComActs
  <2> QED
    BY <1>1, <1>3, <2>1 DEF Postings
<1>6. CASE ~(a.type = "extra" /\ a.target \notin v.seen) /\ ~(a.type = "set field" /\ a.target = "VorgangPosition" /\ v.seen # {})
  <2>1. ComActs(v, a) = v
    BY <1>6 DEF ComActs
  <2> QED
    BY <2>1
<1> QED
  BY <1>4, <1>5, <1>6

LEMMA ActionAgrees ==
  ASSUME NEW begins \in Seq(Articles), NEW created, NEW posted, Agrees(created, posted, begins), NEW a \in Actions
  PROVE  Agrees(ExtraAdded(created, a), ComActs(posted, a), begins)
<1>1. /\ created \in Seq(Articles) /\ posted \in Postings
      /\ posted.articles = begins \o created /\ posted.seen = ToSet(created)
      /\ \A i \in posted.written : i > Len(begins)
  BY Zenon DEF Agrees
<1>2. a.target \in Articles
  BY ActionTargets
<1>3. ComActs(posted, a) \in Postings
  BY <1>1, PostingTypes, Zenon
<1>4. /\ posted = [articles |-> posted.articles, seen |-> posted.seen, written |-> posted.written]
      /\ posted.articles \in Seq(Articles)
  BY <1>1 DEF Postings
<1>5. CASE a.type = "extra" /\ a.target \notin posted.seen
  <2>1. ComActs(posted, a) = [articles |-> Append(posted.articles, a.target), seen |-> posted.seen \cup {a.target}, written |-> posted.written]
    BY <1>4, <1>5 DEF ComActs, Added
  <2>2. ExtraAdded(created, a) = Append(created, a.target)
    BY <1>1, <1>5, Zenon DEF ExtraAdded
  <2>3. Append(begins \o created, a.target) = begins \o Append(created, a.target)
    <3>1. PICK A : A = Articles
      OBVIOUS
    <3>2. PICK t : t = a.target
      OBVIOUS
    <3>3. begins \in Seq(A) /\ created \in Seq(A) /\ t \in A
      BY <1>1, <1>2, <3>1, <3>2, Zenon
    <3>4. Append(begins \o created, t) = begins \o Append(created, t)
      BY <3>3
    <3> QED
      BY <3>2, <3>4, Zenon
  <2>4. ToSet(Append(created, a.target)) = ToSet(created) \cup {a.target}
    BY <1>1, <1>2, ToSetOf
  <2>5. Append(created, a.target) \in Seq(Articles)
    BY <1>1, <1>2
  <2>6. /\ ComActs(posted, a).articles = Append(posted.articles, a.target)
        /\ ComActs(posted, a).seen = posted.seen \cup {a.target}
        /\ ComActs(posted, a).written = posted.written
    BY <2>1
  <2> QED
    BY <1>1, <1>3, <2>2, <2>3, <2>4, <2>5, <2>6, Zenon DEF Agrees
<1>6. CASE ~(a.type = "extra" /\ a.target \notin posted.seen)
  <2>1. ExtraAdded(created, a) = created
    BY <1>1, <1>6, Zenon DEF ExtraAdded
  <2>2. CASE a.type = "set field" /\ a.target = "VorgangPosition" /\ posted.seen # {}
    <3>1. ComActs(posted, a) = [articles |-> posted.articles, seen |-> posted.seen, written |-> posted.written \cup {Len(posted.articles)}]
      BY <1>4, <1>6, <2>2 DEF ComActs
    <3>2. /\ ComActs(posted, a).articles = posted.articles
          /\ ComActs(posted, a).seen = posted.seen
          /\ ComActs(posted, a).written = posted.written \cup {Len(posted.articles)}
      BY <3>1
    <3>3. Len(created) > 0
      BY <1>1, <1>2, <2>2, ToSetOf
    <3>4. Len(begins \o created) > Len(begins)
      BY <1>1, <3>3
    <3>5. \A i \in posted.written \cup {Len(posted.articles)} : i > Len(begins)
      BY <1>1, <3>4
    <3> QED
      BY <1>1, <1>3, <2>1, <3>2, <3>5, Zenon DEF Agrees
  <2>3. CASE ~(a.type = "set field" /\ a.target = "VorgangPosition" /\ posted.seen # {})
    <3>1. ComActs(posted, a) = posted
      BY <1>6, <2>3 DEF ComActs
    <3> QED
      BY <1>1, <2>1, <3>1, Zenon DEF Agrees
  <2> QED
    BY <2>2, <2>3
<1> QED
  BY <1>5, <1>6

(* Both paths, action by action.                                            *)
LEMMA ExtrasUnfold ==
  ASSUME Collected \in Seq(Actions)
  PROVE  \E g : /\ Extras = g[1 .. Len(Collected)] /\ g[1 .. 0] = <<>>
                /\ \A n \in 1 .. Len(Collected) : g[1 .. n] = ExtraAdded(g[1 .. (n - 1)], Collected[n])
<1> DEFINE N == Len(Collected)
           V == Seq(Articles)
           Op(v, i) == ExtraAdded(v, Collected[i])
<1>1. N \in Nat /\ DOMAIN Collected = 1 .. N /\ \A i \in 1 .. N : Collected[i] \in Actions
  BY SequenceFacts, Zenon
<1>2. \A i \in 1 .. N, v \in V : Op(v, i) \in V
  <2> SUFFICES ASSUME NEW i \in 1 .. N, NEW v \in V PROVE Op(v, i) \in V
    OBVIOUS
  <2>1. Collected[i].target \in Articles
    BY <1>1, ActionTargets
  <2>2. Append(v, Collected[i].target) \in V
    BY <2>1
  <2> QED
    BY <2>2, Zenon DEF ExtraAdded
<1>3. PICK g : g = CHOOSE f : f = [s \in SUBSET (1 .. N) |-> IF s = {} THEN <<>> ELSE Op(f[s \ {Max(s)}], Max(s))]
  OBVIOUS
<1>4. Extras = g[1 .. N]
  BY <1>1, <1>3, Zenon DEF Extras, ExtraAdded, FoldLeft, MapThenFoldSet
<1>5. <<>> \in V
  OBVIOUS
<1> HIDE DEF Op, V, N
<1>6. \E f : f = [s \in SUBSET (1 .. N) |-> IF s = {} THEN <<>> ELSE Op(f[s \ {Max(s)}], Max(s))]
  <2>1. PICK step : step = [i \in 1 .. N |-> [v \in V |-> Op(v, i)]]
    OBVIOUS
  <2>2. step \in [1 .. N -> [V -> V]] /\ \A i \in 1 .. N : \A v \in V : step[i][v] = Op(v, i)
    BY <1>2, <2>1
  <2>3. PICK f : IsFold(f, N, V, <<>>, step)
    BY <1>1, <1>5, <2>2, FoldExists
  <2>4. /\ f \in [SUBSET (1 .. N) -> V] /\ f[{}] = <<>>
        /\ \A s \in SUBSET (1 .. N) : s # {} => f[s] = step[Max(s)][f[s \ {Max(s)}]]
    BY <2>3 DEF IsFold
  <2>5. \A s \in SUBSET (1 .. N) : s # {} => Max(s) \in 1 .. N /\ s \ {Max(s)} \in SUBSET (1 .. N) /\ f[s \ {Max(s)}] \in V
    BY <1>1, <2>4, MaxIs
  <2>6. \A s \in SUBSET (1 .. N) : s # {} => f[s] = Op(f[s \ {Max(s)}], Max(s))
    BY <2>2, <2>4, <2>5, Zenon
  <2>7. PICK h : h = [s \in SUBSET (1 .. N) |-> IF s = {} THEN <<>> ELSE Op(f[s \ {Max(s)}], Max(s))]
    OBVIOUS
  <2>8. \A s \in SUBSET (1 .. N) : f[s] = h[s]
    BY <2>4, <2>6, <2>7
  <2>9. f = h
    BY <2>4, <2>7, <2>8
  <2> QED
    BY <2>7, <2>9, Zenon
<1>7. g = [s \in SUBSET (1 .. N) |-> IF s = {} THEN <<>> ELSE Op(g[s \ {Max(s)}], Max(s))]
  BY <1>3, <1>6, Zenon
<1>8. /\ g[1 .. 0] = <<>>
      /\ \A n \in 1 .. N : g[1 .. n] = Op(g[1 .. (n - 1)], n)
  <2>1. PICK h : h = [s \in SUBSET (1 .. N) |-> IF s = {} THEN <<>> ELSE Op(g[s \ {Max(s)}], Max(s))]
    OBVIOUS
  <2>2. g = h
    BY <1>7, <2>1, Zenon
  <2>3. h[{}] = <<>> /\ \A s \in SUBSET (1 .. N) : s # {} => h[s] = Op(g[s \ {Max(s)}], Max(s))
    BY <2>1
  <2>4. 1 .. 0 = {} /\ \A n \in 1 .. N : 1 .. n \in SUBSET (1 .. N) /\ n \in Nat /\ n # 0
    BY <1>1
  <2> QED
    BY <2>2, <2>3, <2>4, MaxOfPrefix, Zenon
<1> QED
  BY <1>4, <1>8, Zenon DEF N, Op

LEMMA PostedUnfold ==
  ASSUME Collected \in Seq(Actions), ComBegins \in Postings
  PROVE  \E g : /\ ComPosted = g[1 .. Len(Collected)] /\ g[1 .. 0] = ComBegins
                /\ \A n \in 1 .. Len(Collected) : g[1 .. n] = ComActs(g[1 .. (n - 1)], Collected[n])
<1> DEFINE N == Len(Collected)
           V == Postings
           Op(v, i) == ComActs(v, Collected[i])
<1>1. N \in Nat /\ DOMAIN Collected = 1 .. N /\ \A i \in 1 .. N : Collected[i] \in Actions
  BY SequenceFacts, Zenon
<1>2. \A i \in 1 .. N, v \in V : Op(v, i) \in V
  BY <1>1, PostingTypes, Zenon
<1>3. PICK g : g = CHOOSE f : f = [s \in SUBSET (1 .. N) |-> IF s = {} THEN ComBegins ELSE Op(f[s \ {Max(s)}], Max(s))]
  OBVIOUS
<1>4. ComPosted = g[1 .. N]
  BY <1>1, <1>3, Zenon DEF ComPosted, FoldLeft, MapThenFoldSet
<1>5. ComBegins \in V
  OBVIOUS
<1> HIDE DEF Op, V, N
<1>6. \E f : f = [s \in SUBSET (1 .. N) |-> IF s = {} THEN ComBegins ELSE Op(f[s \ {Max(s)}], Max(s))]
  <2>1. PICK step : step = [i \in 1 .. N |-> [v \in V |-> Op(v, i)]]
    OBVIOUS
  <2>2. step \in [1 .. N -> [V -> V]] /\ \A i \in 1 .. N : \A v \in V : step[i][v] = Op(v, i)
    BY <1>2, <2>1
  <2>3. PICK f : IsFold(f, N, V, ComBegins, step)
    BY <1>1, <1>5, <2>2, FoldExists
  <2>4. /\ f \in [SUBSET (1 .. N) -> V] /\ f[{}] = ComBegins
        /\ \A s \in SUBSET (1 .. N) : s # {} => f[s] = step[Max(s)][f[s \ {Max(s)}]]
    BY <2>3 DEF IsFold
  <2>5. \A s \in SUBSET (1 .. N) : s # {} => Max(s) \in 1 .. N /\ s \ {Max(s)} \in SUBSET (1 .. N) /\ f[s \ {Max(s)}] \in V
    BY <1>1, <2>4, MaxIs
  <2>6. \A s \in SUBSET (1 .. N) : s # {} => f[s] = Op(f[s \ {Max(s)}], Max(s))
    BY <2>2, <2>4, <2>5, Zenon
  <2>7. PICK h : h = [s \in SUBSET (1 .. N) |-> IF s = {} THEN ComBegins ELSE Op(f[s \ {Max(s)}], Max(s))]
    OBVIOUS
  <2>8. \A s \in SUBSET (1 .. N) : f[s] = h[s]
    BY <2>4, <2>6, <2>7
  <2>9. f = h
    BY <2>4, <2>7, <2>8
  <2> QED
    BY <2>7, <2>9, Zenon
<1>7. g = [s \in SUBSET (1 .. N) |-> IF s = {} THEN ComBegins ELSE Op(g[s \ {Max(s)}], Max(s))]
  BY <1>3, <1>6, Zenon
<1>8. /\ g[1 .. 0] = ComBegins
      /\ \A n \in 1 .. N : g[1 .. n] = Op(g[1 .. (n - 1)], n)
  <2>1. PICK h : h = [s \in SUBSET (1 .. N) |-> IF s = {} THEN ComBegins ELSE Op(g[s \ {Max(s)}], Max(s))]
    OBVIOUS
  <2>2. g = h
    BY <1>7, <2>1, Zenon
  <2>3. h[{}] = ComBegins /\ \A s \in SUBSET (1 .. N) : s # {} => h[s] = Op(g[s \ {Max(s)}], Max(s))
    BY <2>1
  <2>4. 1 .. 0 = {} /\ \A n \in 1 .. N : 1 .. n \in SUBSET (1 .. N) /\ n \in Nat /\ n # 0
    BY <1>1
  <2> QED
    BY <2>2, <2>3, <2>4, MaxOfPrefix, Zenon
<1> QED
  BY <1>4, <1>8, Zenon DEF N, Op

LEMMA BeginsType ==
  ASSUME order \in Orders_
  PROVE  ComBegins \in Postings /\ ComBegins.articles \in Seq(Articles) /\ ComBegins.seen = {} /\ ComBegins.written = {}
<1>1. order.details \in Seq(Articles)
  <2>1. order.details = <<>> \/ order.details = <<"", "a", "e">>
    BY DEF Orders_
  <2>2. "" \in Articles /\ "a" \in Articles /\ "e" \in Articles
    BY DEF Articles
  <2>3. <<>> \in Seq(Articles) /\ <<"", "a", "e">> \in Seq(Articles)
    <3>1. PICK x, y, z : x = "" /\ y = "a" /\ z = "e"
      OBVIOUS
    <3>2. PICK A : A = Articles
      OBVIOUS
    <3>3. x \in A /\ y \in A /\ z \in A
      BY <2>2, <3>1, <3>2, Zenon
    <3>4. PICK s : s = <<x, y, z>>
      OBVIOUS
    <3>5. Len(s) = 3 /\ s[1] = x /\ s[2] = y /\ s[3] = z /\ s \in Seq({x, y, z})
      BY <3>4
    <3>6. <<>> \in Seq(A) /\ s \in Seq(A)
      BY <3>3, <3>5
    <3> QED
      BY <3>1, <3>2, <3>4, <3>6, Zenon
  <2> QED
    BY <2>1, <2>3, Zenon
<1>3. Named \in Seq(Articles)
  BY <1>1, FilteredType, Zenon DEF Named
<1>4. <<ShippingArticle>> \in Seq(Articles) /\ <<>> \in Seq(Articles)
  BY DEF Articles
<1>5. PICK b : b = Named \o (IF order.costs THEN <<ShippingArticle>> ELSE <<>>)
  OBVIOUS
<1>6. b \in Seq(Articles)
  BY <1>3, <1>4, <1>5
<1>7. ComBegins = [articles |-> b, seen |-> {}, written |-> {}]
  BY <1>5, Zenon DEF ComBegins
<1> QED
  BY <1>6, <1>7 DEF Postings

LEMMA PathsMeet ==
  ASSUME order \in Orders_, actions \in Seq(Actions)
  PROVE  PathsAgree
<1>1. Collected \in Seq(Actions)
  BY FilteredType, Zenon DEF Collected
<1>2. ComBegins \in Postings /\ ComBegins.articles \in Seq(Articles) /\ ComBegins.seen = {} /\ ComBegins.written = {}
  BY BeginsType, Zenon
<1>3. PICK e : /\ Extras = e[1 .. Len(Collected)] /\ e[1 .. 0] = <<>>
               /\ \A n \in 1 .. Len(Collected) : e[1 .. n] = ExtraAdded(e[1 .. (n - 1)], Collected[n])
  BY <1>1, ExtrasUnfold, Zenon
<1>4. PICK posted : /\ ComPosted = posted[1 .. Len(Collected)] /\ posted[1 .. 0] = ComBegins
                    /\ \A n \in 1 .. Len(Collected) : posted[1 .. n] = ComActs(posted[1 .. (n - 1)], Collected[n])
  BY <1>1, <1>2, PostedUnfold, Zenon
<1>5. PICK N \in Nat : N = Len(Collected)
  BY <1>1
<1> DEFINE Met == {n \in 0 .. N : Agrees(e[1 .. n], posted[1 .. n], ComBegins.articles)}
<1>6. 0 \in Met
  <2>1. /\ <<>> \in Seq(Articles) /\ ToSet(<<>>) = {} /\ ComBegins.articles = ComBegins.articles \o <<>>
    BY <1>2 DEF ToSet
  <2>2. Agrees(<<>>, ComBegins, ComBegins.articles)
    BY <1>2, <2>1 DEF Agrees
  <2>3. Agrees(e[1 .. 0], posted[1 .. 0], ComBegins.articles)
    BY <1>3, <1>4, <2>2, Zenon
  <2>4. 0 \in 0 .. N
    OBVIOUS
  <2> QED
    BY <2>3, <2>4
<1>7. \A n \in 1 .. N : n - 1 \in Met => n \in Met
  <2> SUFFICES ASSUME NEW n \in 1 .. N, n - 1 \in Met PROVE n \in Met
    OBVIOUS
  <2>1. Agrees(e[1 .. (n - 1)], posted[1 .. (n - 1)], ComBegins.articles) /\ n \in 0 .. N
    OBVIOUS
  <2>2. Collected[n] \in Actions
    BY <1>1, <1>5, SequenceFacts
  <2>3. Agrees(ExtraAdded(e[1 .. (n - 1)], Collected[n]), ComActs(posted[1 .. (n - 1)], Collected[n]), ComBegins.articles)
    BY <1>2, <2>1, <2>2, ActionAgrees, Zenon
  <2>4. Agrees(e[1 .. n], posted[1 .. n], ComBegins.articles)
    BY <1>3, <1>4, <1>5, <2>3, Zenon
  <2> QED
    BY <2>1, <2>4
<1> HIDE DEF Met
<1>8. N \in Met
  <2>1. \A n \in 0 .. N : n \in Met
    BY <1>5, <1>6, <1>7, Upwards, Zenon
  <2>2. N \in 0 .. N
    BY <1>5
  <2> QED
    BY <2>1, <2>2, Zenon
<1>9. Agrees(Extras, ComPosted, ComBegins.articles)
  <2>1. Agrees(e[1 .. N], posted[1 .. N], ComBegins.articles)
    BY <1>8 DEF Met
  <2> QED
    BY <1>3, <1>4, <1>5, <2>1, Zenon
<1>10. ComBegins.articles \o Extras = GraphqlPositions
  <2>1. PICK named : named = Named
    OBVIOUS
  <2>2. PICK costs : costs = IF order.costs THEN <<ShippingArticle>> ELSE <<>>
    OBVIOUS
  <2>3. ComBegins.articles = named \o costs
    BY <2>1, <2>2 DEF ComBegins
  <2>4. GraphqlPositions = named \o costs \o Extras
    BY <2>1, <2>2, Zenon DEF GraphqlPositions
  <2> QED
    BY <2>3, <2>4, Zenon
<1> QED
  BY <1>9, <1>10, Zenon DEF Agrees, PathsAgree

(* order_sync_workflow and graphql_client carry out the actions of a rule one   *)
(* after the other: over COM and over GraphQL the order gets the same articles, *)
(* in the same order, whatever the rule's actions are and however many, and no  *)
(* position field is written on an article of the order or on its shipping      *)
(* position.                                                                  *)
THEOREM PathsAlwaysAgree == RuleSpec => []PathsAgree
<1>1. RuleIInv => PathsAgree
  BY PathsMeet, Zenon DEF RuleIInv, RuleActions
<1> QED
  BY <1>1, RuleInitInv, RuleNextKeeps, PTL DEF RuleSpec
=============================================================================
