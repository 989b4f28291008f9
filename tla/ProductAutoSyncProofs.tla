----------------------- MODULE ProductAutoSyncProofs ------------------------
(***************************************************************************)
(* What holds of ProductAutoSync for any number of threads, targets, jobs,  *)
(* changes and faults.  NoForgottenChange and NoStrandedJob are nearly      *)
(* inductive: what they lack is that a thread that processes a job has      *)
(* taken it out of the queue and has nothing else to enqueue (Workers).     *)
(***************************************************************************)
EXTENDS ProductAutoSync, TLAPS

Processing == {"read", "write", "done", "failed"}

(* A job in the table belongs to a target.                                   *)
Rows == \A j \in Jobs : job[j].status # "none" => job[j].target \in Targets

Worker(t) ==
  /\ task[t].pc \in Processing \cup {"idle"} => task[t].todo = {}
  /\ task[t].pc \in Processing =>
       /\ task[t].job \in Jobs
       /\ job[task[t].job].status \notin {"none", "QUEUED"}
  /\ task[t].pc \in {"create", "retry", "again"} => task[t].at \in Targets

Workers == \A t \in Threads : Worker(t)

IInv == TypeOK /\ Rows /\ Workers /\ NoForgottenChange /\ NoStrandedJob

-----------------------------------------------------------------------------
(* Who moves, and what a step leaves of its plans.                           *)

(* No thread but t moves.                                                    *)
Only(t) == \A u \in Threads \ {t} : task'[u] = task[u]

LEMMA GotoEffect ==
  ASSUME TypeOK, NEW t \in Threads, NEW r \in Task, Goto(t, r)
  PROVE  task'[t] = r /\ Only(t) /\ task' \in [Threads -> Task]
  BY DEF Goto, TypeOK, Only

LEMMA IdleType == Idle \in Task /\ Idle.pc = "idle" /\ Idle.todo = {}
  BY BoundAssumption DEF Idle, Task, Places, NoJob

LEMMA MoveEffect ==
  ASSUME TypeOK, NEW t \in Threads, NEW p \in Places, Move(t, p)
  PROVE  /\ task'[t].pc = p /\ task'[t].todo = task[t].todo
         /\ task'[t].at = task[t].at /\ task'[t].job = task[t].job
         /\ Only(t) /\ task' \in [Threads -> Task]
<1> DEFINE r == [task[t] EXCEPT !.pc = p]
<1>1. task[t] \in Task
  BY DEF TypeOK
<1>2. /\ r \in Task /\ r.pc = p /\ r.todo = task[t].todo
      /\ r.at = task[t].at /\ r.job = task[t].job
  BY <1>1 DEF Task
<1>3. Goto(t, r)
  BY DEF Move
<1> HIDE DEF r
<1>4. QED
  BY <1>2, <1>3, GotoEffect

(* The thread t goes back to the loop with what is left of s to enqueue.     *)
BackToLoop(t, s) ==
  /\ task'[t].pc \in {"idle", "get"} /\ task'[t].todo = s
  /\ task'[t].pc = "idle" => s = {}

LEMMA LoopEffect ==
  ASSUME TypeOK, NEW t \in Threads, NEW r \in Task,
         Goto(t, IF r.todo = {} THEN Idle
                 ELSE [r EXCEPT !.pc = "get", !.at = NoTarget, !.job = NoJob])
  PROVE  BackToLoop(t, r.todo) /\ Only(t) /\ task' \in [Threads -> Task]
<1> DEFINE n == [r EXCEPT !.pc = "get", !.at = NoTarget, !.job = NoJob]
<1>1. n \in Task /\ n.pc = "get" /\ n.todo = r.todo
  BY DEF Task, Places
<1>2. CASE r.todo = {}
  <2>1. Goto(t, Idle)
    BY <1>2
  <2>2. QED
    BY <1>2, <2>1, GotoEffect, IdleType DEF BackToLoop
<1>3. CASE r.todo # {}
  <2>1. Goto(t, n)
    BY <1>3
  <2> HIDE DEF n
  <2>2. QED
    BY <1>1, <1>3, <2>1, GotoEffect DEF BackToLoop
<1>4. QED
  BY <1>2, <1>3

LEMMA NextTargetEffect ==
  ASSUME TypeOK, NEW t \in Threads, NextTarget(t)
  PROVE  BackToLoop(t, task[t].todo) /\ Only(t) /\ task' \in [Threads -> Task]
<1>1. task[t] \in Task
  BY DEF TypeOK
<1>2. QED
  BY <1>1, LoopEffect DEF NextTarget

LEMMA JoinsEffect ==
  ASSUME TypeOK, NEW t \in Threads, NEW r \in Task, NEW j \in Jobs, Joins(t, r, j)
  PROVE  /\ BackToLoop(t, r.todo) \/ (task'[t].pc = "dispatch" /\ task'[t].todo = r.todo)
         /\ Only(t) /\ task' \in [Threads -> Task]
<1>1. CASE job[j].sent
  BY <1>1, LoopEffect DEF Joins
<1>2. CASE ~ job[j].sent
  <2> DEFINE n == [r EXCEPT !.pc = "dispatch", !.job = j]
  <2>1. n \in Task /\ n.pc = "dispatch" /\ n.todo = r.todo
    BY DEF Task, Places
  <2>2. Goto(t, n)
    BY <1>2 DEF Joins
  <2> HIDE DEF n
  <2>3. QED
    BY <2>1, <2>2, GotoEffect
<1>3. QED
  BY <1>1, <1>2

-----------------------------------------------------------------------------
(* How each action's proof ends.                                             *)

(* A job once taken out of the queue does not come back to it.               *)
StaysOut(j) ==
  job[j].status \notin {"none", "QUEUED"} => job'[j].status \notin {"none", "QUEUED"}

(* What was going to bring the newest content to x still is, if it was the   *)
(* queue or t.                                                               *)
StillComes(t, x) ==
  faults' = 0 /\ (QueuedFor(x) # {} \/ OnItsWay(t, x)) =>
    taken'[x] = content' \/ QueuedFor(x)' # {} \/ OnItsWay(t, x)'

Dispatches(t, j) == At(t, "dispatch") /\ task[t].job = j

(* A queued job is served now, or it was before and not by t.                *)
StillServed(t, j) ==
  faults' = 0 /\ job'[j].status = "QUEUED" =>
    \/ messages'[j] > 0 \/ Dispatches(t, j)'
    \/ job[j].status = "QUEUED" /\ messages'[j] = messages[j] /\ ~ Dispatches(t, j)

LEMMA Preserve ==
  ASSUME IInv, TypeOK', Rows', NEW t \in Threads, Only(t), Worker(t)',
         faults' = 0 => faults = 0,
         content' = content, dropped \subseteq dropped',
         \A x \in Targets : taken[x] = content => taken'[x] = content,
         \A j \in Jobs : StaysOut(j) /\ StillServed(t, j),
         \A x \in Targets \ dropped' : StillComes(t, x)
  PROVE  IInv'
<1>1. Workers'
  BY DEF Workers, Worker, IInv, Only, StaysOut
<1>2. NoForgottenChange'
  <2>1. SUFFICES ASSUME NEW x \in Targets \ dropped', faults' = 0
                 PROVE  \/ taken'[x] = content' \/ QueuedFor(x)' # {}
                        \/ \E u \in Threads : OnItsWay(u, x)'
    BY DEF NoForgottenChange
  <2>2. \/ taken[x] = content \/ QueuedFor(x) # {}
        \/ \E u \in Threads : OnItsWay(u, x)
    BY <2>1 DEF IInv, NoForgottenChange
  <2>3. \A u \in Threads \ {t} : OnItsWay(u, x) => OnItsWay(u, x)'
    BY DEF OnItsWay, Only
  <2>4. StillComes(t, x)
    OBVIOUS
  <2>5. QED
    BY <2>1, <2>2, <2>3, <2>4 DEF StillComes
<1>3. NoStrandedJob'
  <2>1. SUFFICES ASSUME NEW j \in Jobs, faults' = 0, job'[j].status = "QUEUED"
                 PROVE  messages'[j] > 0 \/ \E u \in Threads : Dispatches(u, j)'
    BY DEF NoStrandedJob, Dispatches, At
  <2>2. job[j].status = "QUEUED" =>
          messages[j] > 0 \/ \E u \in Threads : Dispatches(u, j)
    BY <2>1 DEF IInv, NoStrandedJob, Dispatches
  <2>3. \A u \in Threads \ {t} : Dispatches(u, j) => Dispatches(u, j)'
    BY DEF Dispatches, At, Only
  <2>4. StillServed(t, j)
    OBVIOUS
  <2>5. QED
    BY <2>1, <2>2, <2>3, <2>4 DEF StillServed
<1>4. QED
  BY <1>1, <1>2, <1>3 DEF IInv

(* Steps that change no job, message or content: only the plans matter.      *)
LEMMA PlansOnly ==
  ASSUME IInv, NEW t \in Threads, Only(t), Worker(t)',
         task' \in [Threads -> Task], dropped' \in SUBSET Targets,
         faults' \in 0 .. MaxFaults, faults' = 0 => faults = 0,
         UNCHANGED <<content, job, messages, taken, target, mixed>>,
         dropped \subseteq dropped',
         At(t, "dispatch") => faults' # 0,
         faults' = 0 => \A x \in Targets \ dropped' :
           OnItsWay(t, x) => QueuedFor(x) # {} \/ OnItsWay(t, x)'
  PROVE  IInv'
<1>1. TypeOK' /\ Rows'
  BY DEF IInv, TypeOK, Rows
<1>2. \A j \in Jobs : StaysOut(j) /\ StillServed(t, j)
  BY DEF StaysOut, StillServed, Dispatches
<1>3. \A x \in Targets : QueuedFor(x)' = QueuedFor(x)
  BY DEF QueuedFor
<1>4. \A x \in Targets \ dropped' : StillComes(t, x)
  BY <1>3 DEF StillComes
<1>5. QED
  BY <1>1, <1>2, <1>4, Preserve

LEMMA Failing ==
  ASSUME TypeOK, Fault
  PROVE  faults' \in 0 .. MaxFaults /\ faults' # 0
  BY BoundAssumption DEF TypeOK, Fault

-----------------------------------------------------------------------------
(* Enqueuing.                                                                *)

LEMMA ChangePreserves ==
  ASSUME IInv, NEW t \in Threads, Change(t)
  PROVE  IInv'
<1> DEFINE r == [Idle EXCEPT !.pc = "get", !.todo = Targets]
<1>1. TypeOK
  BY DEF IInv
<1>2. r \in Task /\ r.pc = "get" /\ r.todo = Targets
  BY IdleType DEF Idle, Task, Places
<1>3. Goto(t, r) /\ content' = content + 1 /\ content < MaxChanges
  BY DEF Change
<1> HIDE DEF r
<1>4. task'[t] = r /\ Only(t) /\ task' \in [Threads -> Task]
  BY <1>1, <1>2, <1>3, GotoEffect
<1>5. UNCHANGED <<job, messages, taken, target, mixed, dropped, faults>>
  BY DEF Change
<1>6. TypeOK' /\ Rows'
  BY <1>3, <1>4, <1>5, BoundAssumption DEF IInv, TypeOK, Rows
<1>7. Workers'
  BY <1>2, <1>4, <1>5 DEF IInv, Workers, Worker, Only, Processing
<1>8. NoForgottenChange'
  BY <1>2, <1>4 DEF NoForgottenChange, OnItsWay
<1>9. NoStrandedJob'
  <2>1. At(t, "idle")
    BY DEF Change
  <2>2. QED
    BY <1>4, <1>5, <2>1 DEF IInv, NoStrandedJob, Only, At
<1>10. QED
  BY <1>6, <1>7, <1>8, <1>9 DEF IInv

(* Where a get leads that has found the queued job j of target x.            *)
LEMMA JoinsPreserves ==
  ASSUME IInv, NEW t \in Threads, NEW r \in Task, NEW j \in Jobs, Joins(t, r, j),
         NEW x \in Targets, j \in QueuedFor(x), ~ At(t, "dispatch"), ~ At(t, "read"),
         task[t].todo \subseteq r.todo \cup {x},
         task[t].pc \in {"create", "retry", "again"} => task[t].at = x,
         UNCHANGED <<content, job, messages, taken, target, mixed, dropped, faults>>
  PROVE  IInv'
<1>1. TypeOK
  BY DEF IInv
<1>2. /\ BackToLoop(t, r.todo) \/ (task'[t].pc = "dispatch" /\ task'[t].todo = r.todo)
      /\ Only(t) /\ task' \in [Threads -> Task]
  BY <1>1, JoinsEffect
<1>3. Worker(t)'
  BY <1>2 DEF Worker, BackToLoop, Processing
<1>4. \A y \in Targets : OnItsWay(t, y) => QueuedFor(y) # {} \/ OnItsWay(t, y)'
  BY <1>2 DEF OnItsWay, BackToLoop, At
<1>5. dropped' \in SUBSET Targets /\ faults' \in 0 .. MaxFaults
  BY <1>1 DEF TypeOK
<1>6. QED
  BY <1>2, <1>3, <1>4, <1>5, PlansOnly

LEMMA GetQueuedPreserves ==
  ASSUME IInv, NEW t \in Threads, NEW x \in Targets, GetQueued(t, x)
  PROVE  IInv'
<1> DEFINE r == [task[t] EXCEPT !.todo = @ \ {x}, !.at = x]
           c == [r EXCEPT !.pc = "create"]
<1>1. TypeOK /\ task[t] \in Task /\ task[t].pc = "get"
  BY DEF IInv, TypeOK, GetQueued, At
<1>2. r \in Task /\ r.todo = task[t].todo \ {x}
  BY <1>1 DEF Task
<1>3. c \in Task /\ c.pc = "create" /\ c.todo = task[t].todo \ {x} /\ c.at = x
  BY <1>1 DEF Task, Places
<1>4. UNCHANGED <<content, job, messages, taken, target, mixed, dropped, faults>>
  BY DEF GetQueued
<1>5. CASE QueuedFor(x) = {}
  <2>1. Goto(t, c)
    BY <1>5 DEF GetQueued
  <2> HIDE DEF c
  <2>2. task'[t] = c /\ Only(t) /\ task' \in [Threads -> Task]
    BY <1>1, <1>3, <2>1, GotoEffect
  <2>3. Worker(t)'
    BY <1>3, <2>2 DEF Worker, Processing
  <2>4. \A y \in Targets : OnItsWay(t, y) => OnItsWay(t, y)'
    BY <1>1, <1>3, <2>2 DEF OnItsWay
  <2>5. dropped' \in SUBSET Targets /\ faults' \in 0 .. MaxFaults
    BY <1>1, <1>4 DEF TypeOK
  <2>6. QED
    BY <1>1, <1>4, <2>2, <2>3, <2>4, <2>5, PlansOnly DEF At
<1>6. CASE QueuedFor(x) # {}
  <2>1. PICK j \in QueuedFor(x) : Joins(t, r, j)
    BY <1>6 DEF GetQueued
  <2>2. j \in Jobs
    BY DEF QueuedFor
  <2> HIDE DEF r
  <2>3. QED
    BY <1>1, <1>2, <1>4, <2>1, <2>2, JoinsPreserves DEF At
<1>7. QED
  BY <1>5, <1>6

LEMMA CreatePreserves ==
  ASSUME IInv, NEW t \in Threads, NEW j \in Jobs, Create(t, j)
  PROVE  IInv'
<1> DEFINE r == [task[t] EXCEPT !.pc = "dispatch", !.job = j]
           x == task[t].at
           n == [status |-> "QUEUED", target |-> x, sent |-> FALSE]
<1>1. TypeOK /\ task[t] \in Task /\ task[t].pc = "create"
  BY DEF IInv, TypeOK, Create, At
<1>2. r \in Task /\ r.pc = "dispatch" /\ r.todo = task[t].todo /\ r.job = j
  BY <1>1 DEF Task, Places
<1>3. x \in Targets
  BY <1>1 DEF IInv, Workers, Worker
<1>4. job' = [job EXCEPT ![j] = n] /\ Goto(t, r) /\ job[j].status = "none"
  BY DEF Create
<1>5. UNCHANGED <<content, messages, taken, target, mixed, dropped, faults>>
  BY DEF Create
<1>6. n \in Row /\ n.status = "QUEUED" /\ n.target = x
  BY <1>3 DEF Row, Status
<1> HIDE DEF r, n
<1>7. task'[t] = r /\ Only(t) /\ task' \in [Threads -> Task]
  BY <1>1, <1>2, <1>4, GotoEffect
<1>8. /\ job'[j] = n /\ \A k \in Jobs \ {j} : job'[k] = job[k]
      /\ job' \in [Jobs -> Row]
  BY <1>1, <1>4, <1>6 DEF TypeOK
<1>9. TypeOK' /\ Rows'
  BY <1>1, <1>3, <1>5, <1>6, <1>7, <1>8 DEF IInv, TypeOK, Rows
<1>10. Worker(t)'
  BY <1>2, <1>7 DEF Worker, Processing
<1>11. \A k \in Jobs : StaysOut(k) /\ StillServed(t, k)
  BY <1>1, <1>2, <1>4, <1>5, <1>7, <1>8 DEF StaysOut, StillServed, Dispatches, At
<1>12. \A y \in Targets : StillComes(t, y)
  <2>1. \A y \in Targets : QueuedFor(y) # {} => QueuedFor(y)' # {}
    BY <1>4, <1>8 DEF QueuedFor
  <2>2. \A y \in Targets : y = x => QueuedFor(y)' # {}
    BY <1>6, <1>8 DEF QueuedFor
  <2>3. \A y \in Targets : OnItsWay(t, y) => y = x \/ OnItsWay(t, y)'
    BY <1>1, <1>2, <1>7 DEF OnItsWay
  <2>4. QED
    BY <2>1, <2>2, <2>3 DEF StillComes
<1>13. QED
  BY <1>5, <1>7, <1>9, <1>10, <1>11, <1>12, Preserve

LEMMA CreateCollidesPreserves ==
  ASSUME IInv, NEW t \in Threads, CreateCollides(t)
  PROVE  IInv'
<1>1. TypeOK /\ task[t].pc = "create" /\ Move(t, "retry")
  BY DEF IInv, CreateCollides, At
<1>2. /\ task'[t].pc = "retry" /\ task'[t].todo = task[t].todo
      /\ task'[t].at = task[t].at /\ Only(t) /\ task' \in [Threads -> Task]
  BY <1>1, MoveEffect DEF Places
<1>3. UNCHANGED <<content, job, messages, taken, target, mixed, dropped, faults>>
  BY DEF CreateCollides
<1>4. Worker(t)'
  BY <1>1, <1>2 DEF IInv, Workers, Worker, Processing
<1>5. \A y \in Targets : OnItsWay(t, y) => OnItsWay(t, y)'
  BY <1>1, <1>2 DEF OnItsWay
<1>6. dropped' \in SUBSET Targets /\ faults' \in 0 .. MaxFaults
  BY <1>1, <1>3 DEF TypeOK
<1>7. QED
  BY <1>1, <1>2, <1>3, <1>4, <1>5, <1>6, PlansOnly DEF At

LEMMA GetAgainPreserves ==
  ASSUME IInv, NEW t \in Threads, GetAgain(t)
  PROVE  IInv'
<1> DEFINE x == task[t].at
<1>1. TypeOK /\ task[t] \in Task /\ task[t].pc \in {"retry", "again"}
  BY DEF IInv, TypeOK, GetAgain, At
<1>2. x \in Targets /\ task[t].todo \in SUBSET Targets
  BY <1>1 DEF IInv, Workers, Worker, Task
<1>3. UNCHANGED <<content, job, messages, taken, target, mixed, faults>>
  BY DEF GetAgain
<1>4. dropped \in SUBSET Targets /\ faults' \in 0 .. MaxFaults
  BY <1>1, <1>3 DEF TypeOK
<1>5. CASE QueuedFor(x) # {}
  <2>1. PICK j \in QueuedFor(x) : Joins(t, task[t], j)
    BY <1>5 DEF GetAgain
  <2>2. j \in Jobs /\ dropped' = dropped
    BY <1>5 DEF QueuedFor, GetAgain
  <2>3. QED
    BY <1>1, <1>2, <1>3, <2>1, <2>2, JoinsPreserves DEF At
<1>6. CASE QueuedFor(x) = {} /\ At(t, "retry")
  <2>1. Move(t, "again") /\ dropped' = dropped
    BY <1>6 DEF GetAgain
  <2>2. /\ task'[t].pc = "again" /\ task'[t].todo = task[t].todo
        /\ task'[t].at = x /\ Only(t) /\ task' \in [Threads -> Task]
    BY <1>1, <2>1, MoveEffect DEF Places
  <2>3. Worker(t)'
    BY <1>2, <2>2 DEF Worker, Processing
  <2>4. \A y \in Targets : OnItsWay(t, y) => OnItsWay(t, y)'
    BY <1>1, <2>2 DEF OnItsWay
  <2>5. QED
    BY <1>1, <1>3, <1>4, <2>1, <2>2, <2>3, <2>4, PlansOnly DEF At
<1>7. CASE QueuedFor(x) = {} /\ ~ At(t, "retry")
  <2>1. Goto(t, Idle) /\ dropped' = dropped \cup task[t].todo \cup {x}
    BY <1>7 DEF GetAgain
  <2>2. task'[t] = Idle /\ Only(t) /\ task' \in [Threads -> Task]
    BY <1>1, <2>1, GotoEffect, IdleType
  <2>3. Worker(t)'
    BY <2>2, IdleType DEF Worker, Processing
  <2>4. \A y \in Targets \ dropped' : ~ OnItsWay(t, y)
    BY <2>1 DEF OnItsWay
  <2>5. QED
    BY <1>1, <1>2, <1>3, <1>4, <2>1, <2>2, <2>3, <2>4, PlansOnly DEF At
<1>8. QED
  BY <1>5, <1>6, <1>7

LEMMA DispatchedPreserves ==
  ASSUME IInv, NEW t \in Threads, Dispatched(t)
  PROVE  IInv'
<1> DEFINE i == task[t].job
<1>1. TypeOK /\ task[t].pc = "dispatch" /\ Move(t, "sent")
  BY DEF IInv, Dispatched, At
<1>2. /\ task'[t].pc = "sent" /\ task'[t].todo = task[t].todo
      /\ Only(t) /\ task' \in [Threads -> Task]
  BY <1>1, MoveEffect DEF Places
<1>3. /\ UNCHANGED <<content, job, taken, target, mixed, dropped, faults>>
      /\ messages' = [messages EXCEPT ![i] = @ + 1]
  BY DEF Dispatched
<1>4. TypeOK' /\ Rows'
  <2>1. messages \in [Jobs -> Nat]
    BY <1>1 DEF TypeOK
  <2>2. \A j \in Jobs : messages[j] + 1 \in Nat
    BY <2>1
  <2>3. messages' \in [Jobs -> Nat]
    BY <1>3, <2>1, <2>2
  <2>4. QED
    BY <1>1, <1>2, <1>3, <2>3 DEF IInv, TypeOK, Rows
<1>5. Worker(t)'
  BY <1>2 DEF Worker, Processing
<1>6. \A j \in Jobs : StaysOut(j) /\ StillServed(t, j)
  BY <1>1, <1>3 DEF StaysOut, StillServed, Dispatches, TypeOK, IInv, NoStrandedJob
<1>7. \A x \in Targets : StillComes(t, x)
  BY <1>1, <1>2, <1>3 DEF StillComes, OnItsWay, QueuedFor
<1>8. QED
  BY <1>2, <1>3, <1>4, <1>5, <1>6, <1>7, Preserve

LEMMA StoreTaskIdPreserves ==
  ASSUME IInv, NEW t \in Threads, StoreTaskId(t)
  PROVE  IInv'
<1>1. TypeOK /\ task[t].pc = "sent" /\ NextTarget(t)
  BY DEF IInv, StoreTaskId, At
<1>2. BackToLoop(t, task[t].todo) /\ Only(t) /\ task' \in [Threads -> Task]
  BY <1>1, NextTargetEffect
<1>3. /\ UNCHANGED <<content, messages, taken, target, mixed, dropped, faults>>
      /\ job' = [job EXCEPT ![task[t].job].sent = TRUE]
  BY DEF StoreTaskId
<1>4. /\ job' \in [Jobs -> Row]
      /\ \A j \in Jobs : job'[j].status = job[j].status /\ job'[j].target = job[j].target
  BY <1>1, <1>3 DEF TypeOK, Row
<1>5. TypeOK' /\ Rows'
  BY <1>1, <1>2, <1>3, <1>4 DEF IInv, TypeOK, Rows
<1>6. Worker(t)'
  BY <1>2 DEF Worker, Processing, BackToLoop
<1>7. \A j \in Jobs : StaysOut(j) /\ StillServed(t, j)
  BY <1>1, <1>3, <1>4 DEF StaysOut, StillServed, Dispatches, At
<1>8. \A x \in Targets : StillComes(t, x)
  BY <1>1, <1>2, <1>4 DEF StillComes, OnItsWay, QueuedFor, BackToLoop
<1>9. QED
  BY <1>2, <1>3, <1>5, <1>6, <1>7, <1>8, Preserve

LEMMA DispatchFailsPreserves ==
  ASSUME IInv, NEW t \in Threads, DispatchFails(t)
  PROVE  IInv'
<1>1. TypeOK /\ NextTarget(t) /\ Fault
  BY DEF IInv, DispatchFails
<1>2. BackToLoop(t, task[t].todo) /\ Only(t) /\ task' \in [Threads -> Task]
  BY <1>1, NextTargetEffect
<1>3. UNCHANGED <<content, job, messages, taken, target, mixed, dropped>>
  BY DEF DispatchFails
<1>4. Worker(t)'
  BY <1>2 DEF Worker, Processing, BackToLoop
<1>5. dropped' \in SUBSET Targets
  BY <1>1, <1>3 DEF TypeOK
<1>6. QED
  BY <1>1, <1>2, <1>3, <1>4, <1>5, Failing, PlansOnly

-----------------------------------------------------------------------------
(* Processing.                                                               *)

LEMMA ClaimPreserves ==
  ASSUME IInv, NEW t \in Threads, NEW j \in Jobs, Claim(t, j)
  PROVE  IInv'
<1> DEFINE x == job[j].target
           r == [Idle EXCEPT !.pc = "read", !.at = x, !.job = j]
<1>1. TypeOK /\ task[t].pc = "idle" /\ task[t].todo = {}
  BY DEF IInv, Workers, Worker, Claim, At
<1>2. /\ messages[j] > 0 /\ messages' = [messages EXCEPT ![j] = @ - 1]
      /\ UNCHANGED <<content, taken, target, dropped, faults>>
  BY DEF Claim
<1>3. /\ messages' \in [Jobs -> Nat]
      /\ \A k \in Jobs \ {j} : messages'[k] = messages[k]
  BY <1>1, <1>2 DEF TypeOK
<1>4. CASE job[j].status = "QUEUED"
  <2>1. x \in Targets
    BY <1>4 DEF IInv, Rows
  <2>2. r \in Task /\ r.pc = "read" /\ r.at = x /\ r.job = j /\ r.todo = {}
    BY <2>1, IdleType DEF Task, Places, Idle
  <2>3. Goto(t, r) /\ job' = [job EXCEPT ![j].status = "RUNNING"]
    BY <1>4 DEF Claim
  <2>4. mixed' \in SUBSET Targets
    BY <1>1, <1>4, <2>1 DEF Claim, TypeOK
  <2> HIDE DEF r
  <2>5. task'[t] = r /\ Only(t) /\ task' \in [Threads -> Task]
    BY <1>1, <2>2, <2>3, GotoEffect
  <2>6. /\ job' \in [Jobs -> Row]
        /\ job'[j].status = "RUNNING" /\ job'[j].target = x
        /\ \A k \in Jobs \ {j} : job'[k] = job[k]
    BY <1>1, <2>3 DEF TypeOK, Row, Status
  <2>7. TypeOK' /\ Rows'
    BY <1>1, <1>2, <1>3, <2>1, <2>4, <2>5, <2>6 DEF IInv, TypeOK, Rows
  <2>8. Worker(t)'
    BY <2>2, <2>5, <2>6 DEF Worker, Processing
  <2>9. \A k \in Jobs : StaysOut(k) /\ StillServed(t, k)
    BY <1>1, <1>3, <2>6 DEF StaysOut, StillServed, Dispatches, At
  <2>10. \A y \in Targets : StillComes(t, y)
    <3>1. \A y \in Targets \ {x} : QueuedFor(y) # {} => QueuedFor(y)' # {}
      BY <2>6 DEF QueuedFor
    <3>2. \A y \in Targets : y = x => OnItsWay(t, y)'
      BY <2>2, <2>5 DEF OnItsWay
    <3>3. \A y \in Targets : ~ OnItsWay(t, y)
      BY <1>1 DEF OnItsWay
    <3>4. QED
      BY <3>1, <3>2, <3>3 DEF StillComes
  <2>11. QED
    BY <1>2, <2>5, <2>7, <2>8, <2>9, <2>10, Preserve
<1>5. CASE job[j].status # "QUEUED"
  <2>1. UNCHANGED <<job, mixed, task>>
    BY <1>5 DEF Claim
  <2>2. TypeOK' /\ Rows' /\ Only(t) /\ Worker(t)'
    BY <1>1, <1>2, <1>3, <2>1 DEF IInv, TypeOK, Rows, Only, Worker, Workers
  <2>3. \A k \in Jobs : StaysOut(k) /\ StillServed(t, k)
    BY <1>1, <1>3, <1>5, <2>1 DEF StaysOut, StillServed, Dispatches, At
  <2>4. \A y \in Targets : StillComes(t, y)
    BY <2>1 DEF StillComes, OnItsWay, QueuedFor
  <2>5. QED
    BY <1>2, <2>2, <2>3, <2>4, Preserve
<1>6. QED
  BY <1>4, <1>5

LEMMA ReadProductPreserves ==
  ASSUME IInv, NEW t \in Threads, ReadProduct(t)
  PROVE  IInv'
<1> DEFINE x == task[t].at
           r == [task[t] EXCEPT !.pc = "write", !.has = content]
<1>1. TypeOK /\ task[t] \in Task /\ task[t].pc = "read"
  BY DEF IInv, TypeOK, ReadProduct, At
<1>2. /\ r \in Task /\ r.pc = "write" /\ r.todo = task[t].todo
      /\ r.job = task[t].job
  BY <1>1 DEF Task, Places, TypeOK
<1>3. /\ Goto(t, r) /\ taken' = [taken EXCEPT ![x] = content]
      /\ UNCHANGED <<content, job, messages, target, mixed, dropped, faults>>
  BY DEF ReadProduct
<1> HIDE DEF r
<1>4. task'[t] = r /\ Only(t) /\ task' \in [Threads -> Task]
  BY <1>1, <1>2, <1>3, GotoEffect
<1>5. /\ taken' \in [Targets -> 0 .. MaxChanges]
      /\ \A y \in Targets : taken'[y] = IF y = x THEN content ELSE taken[y]
  BY <1>1, <1>3 DEF TypeOK
<1>6. TypeOK' /\ Rows'
  BY <1>1, <1>3, <1>4, <1>5 DEF IInv, TypeOK, Rows
<1>7. Worker(t)' /\ task[t].todo = {}
  BY <1>1, <1>2, <1>3, <1>4 DEF IInv, Workers, Worker, Processing
<1>8. \A j \in Jobs : StaysOut(j) /\ StillServed(t, j)
  BY <1>1, <1>3 DEF StaysOut, StillServed, Dispatches, At
<1>9. \A y \in Targets : StillComes(t, y)
  BY <1>1, <1>3, <1>5, <1>7 DEF StillComes, OnItsWay, QueuedFor
<1>10. QED
  BY <1>3, <1>4, <1>5, <1>6, <1>7, <1>8, <1>9, Preserve

LEMMA WriteTargetPreserves ==
  ASSUME IInv, NEW t \in Threads, WriteTarget(t)
  PROVE  IInv'
<1>1. TypeOK /\ task[t] \in Task /\ task[t].pc = "write" /\ Move(t, "done")
  BY DEF IInv, TypeOK, WriteTarget, At
<1>2. /\ task'[t].pc = "done" /\ task'[t].todo = task[t].todo
      /\ task'[t].job = task[t].job /\ Only(t) /\ task' \in [Threads -> Task]
  BY <1>1, MoveEffect DEF Places
<1>3. /\ target' = [target EXCEPT ![task[t].at] = task[t].has]
      /\ UNCHANGED <<content, job, messages, taken, mixed, dropped, faults>>
  BY DEF WriteTarget
<1>4. target' \in [Targets -> 0 .. MaxChanges]
  BY <1>1, <1>3 DEF TypeOK, Task
<1>5. TypeOK' /\ Rows'
  BY <1>1, <1>2, <1>3, <1>4 DEF IInv, TypeOK, Rows
<1>6. Worker(t)' /\ task[t].todo = {}
  BY <1>1, <1>2, <1>3 DEF IInv, Workers, Worker, Processing
<1>7. \A j \in Jobs : StaysOut(j) /\ StillServed(t, j)
  BY <1>1, <1>3 DEF StaysOut, StillServed, Dispatches, At
<1>8. \A y \in Targets : StillComes(t, y)
  BY <1>1, <1>3, <1>6 DEF StillComes, OnItsWay, QueuedFor
<1>9. QED
  BY <1>2, <1>3, <1>5, <1>6, <1>7, <1>8, Preserve

LEMMA CommandFailsPreserves ==
  ASSUME IInv, NEW t \in Threads, CommandFails(t)
  PROVE  IInv'
<1>1. TypeOK /\ task[t].pc \in {"read", "write", "done"} /\ Move(t, "failed") /\ Fault
  BY DEF IInv, CommandFails, At
<1>2. /\ task'[t].pc = "failed" /\ task'[t].todo = task[t].todo
      /\ task'[t].job = task[t].job /\ Only(t) /\ task' \in [Threads -> Task]
  BY <1>1, MoveEffect DEF Places
<1>3. UNCHANGED <<content, job, messages, taken, target, mixed, dropped>>
  BY DEF CommandFails
<1>4. Worker(t)'
  BY <1>1, <1>2, <1>3 DEF IInv, Workers, Worker, Processing
<1>5. dropped' \in SUBSET Targets
  BY <1>1, <1>3 DEF TypeOK
<1>6. QED
  BY <1>1, <1>2, <1>3, <1>4, <1>5, Failing, PlansOnly

LEMMA FinishPreserves ==
  ASSUME IInv, NEW t \in Threads, Finish(t)
  PROVE  IInv'
<1> DEFINE i == task[t].job
           e == IF At(t, "done") THEN "SUCCEEDED" ELSE "FAILED"
<1>1. TypeOK /\ task[t].pc \in {"done", "failed"}
  BY DEF IInv, Finish, At
<1>2. i \in Jobs /\ job[i].status \notin {"none", "QUEUED"} /\ task[t].todo = {}
  BY <1>1 DEF IInv, Workers, Worker, Processing
<1>3. /\ Goto(t, Idle) /\ job' = [job EXCEPT ![i].status = e]
      /\ UNCHANGED <<content, messages, taken, target, mixed, dropped, faults>>
  BY DEF Finish
<1>4. task'[t] = Idle /\ Only(t) /\ task' \in [Threads -> Task]
  BY <1>1, <1>3, GotoEffect, IdleType
<1>5. /\ job' \in [Jobs -> Row]
      /\ job'[i].status \in {"SUCCEEDED", "FAILED"} /\ job'[i].target = job[i].target
      /\ \A k \in Jobs \ {i} : job'[k] = job[k]
  BY <1>1, <1>2, <1>3 DEF TypeOK, Row, Status
<1>6. TypeOK' /\ Rows'
  BY <1>1, <1>2, <1>3, <1>4, <1>5 DEF IInv, TypeOK, Rows
<1>7. Worker(t)'
  BY <1>4, IdleType DEF Worker, Processing
<1>8. \A k \in Jobs : StaysOut(k) /\ StillServed(t, k)
  BY <1>1, <1>3, <1>5 DEF StaysOut, StillServed, Dispatches, At
<1>9. \A y \in Targets : StillComes(t, y)
  <2>1. \A y \in Targets : QueuedFor(y) # {} => QueuedFor(y)' # {}
    BY <1>2, <1>5 DEF QueuedFor
  <2>2. \A y \in Targets : ~ OnItsWay(t, y)
    BY <1>1, <1>2 DEF OnItsWay
  <2>3. QED
    BY <2>1, <2>2 DEF StillComes
<1>10. QED
  BY <1>3, <1>4, <1>6, <1>7, <1>8, <1>9, Preserve

-----------------------------------------------------------------------------
(* Failures.                                                                 *)

LEMMA CrashPreserves ==
  ASSUME IInv, NEW t \in Threads, Crash(t)
  PROVE  IInv'
<1>1. TypeOK /\ Goto(t, Idle) /\ Fault
  BY DEF IInv, Crash
<1>2. task'[t] = Idle /\ Only(t) /\ task' \in [Threads -> Task]
  BY <1>1, GotoEffect, IdleType
<1>3. UNCHANGED <<content, job, messages, taken, target, mixed, dropped>>
  BY DEF Crash
<1>4. Worker(t)'
  BY <1>2, IdleType DEF Worker, Processing
<1>5. dropped' \in SUBSET Targets
  BY <1>1, <1>3 DEF TypeOK
<1>6. QED
  BY <1>1, <1>2, <1>3, <1>4, <1>5, Failing, PlansOnly

LEMMA MessageLostPreserves ==
  ASSUME IInv, NEW j \in Jobs, MessageLost(j)
  PROVE  IInv'
<1>1. TypeOK /\ faults' \in 0 .. MaxFaults /\ faults' # 0
  BY Failing DEF IInv, MessageLost
<1>2. /\ messages[j] > 0 /\ messages' = [messages EXCEPT ![j] = @ - 1]
      /\ UNCHANGED <<content, job, taken, target, mixed, dropped, task>>
  BY DEF MessageLost
<1>3. messages' \in [Jobs -> Nat]
  BY <1>1, <1>2 DEF TypeOK
<1>4. QED
  BY <1>1, <1>2, <1>3
     DEF IInv, TypeOK, Rows, Workers, Worker, NoForgottenChange, NoStrandedJob

-----------------------------------------------------------------------------
LEMMA InitIInv == Init => IInv
<1>1. SUFFICES ASSUME Init
               PROVE  IInv
  OBVIOUS
<1>2. TypeOK
  BY <1>1, BoundAssumption, IdleType DEF Init, TypeOK, Row, Status
<1>3. Rows /\ NoStrandedJob
  BY <1>1 DEF Init, Rows, NoStrandedJob
<1>4. Workers
  BY <1>1, IdleType DEF Init, Workers, Worker, Processing
<1>5. NoForgottenChange
  BY <1>1 DEF Init, NoForgottenChange
<1>6. QED
  BY <1>2, <1>3, <1>4, <1>5 DEF IInv

LEMMA NextIInv == IInv /\ [Next]_vars => IInv'
<1>1. SUFFICES ASSUME IInv, [Next]_vars
               PROVE  IInv'
  OBVIOUS
<1>2. ASSUME NEW t \in Threads, Continues(t)
      PROVE  IInv'
  BY <1>1, <1>2, GetQueuedPreserves, CreatePreserves, CreateCollidesPreserves,
     GetAgainPreserves, DispatchedPreserves, StoreTaskIdPreserves,
     DispatchFailsPreserves, ReadProductPreserves, WriteTargetPreserves,
     CommandFailsPreserves, FinishPreserves DEF Continues
<1>3. ASSUME NEW t \in Threads,
             Change(t) \/ Crash(t) \/ \E j \in Jobs : Claim(t, j)
      PROVE  IInv'
  BY <1>1, <1>3, ChangePreserves, CrashPreserves, ClaimPreserves
<1>4. ASSUME NEW j \in Jobs, MessageLost(j)
      PROVE  IInv'
  BY <1>1, <1>4, MessageLostPreserves
<1>5. CASE UNCHANGED vars
  BY <1>1, <1>5 DEF vars, IInv, TypeOK, Rows, Workers, Worker, NoForgottenChange,
     NoStrandedJob, QueuedFor, OnItsWay, At
<1>6. QED
  BY <1>1, <1>2, <1>3, <1>4, <1>5 DEF Next

LEMMA Invariance == Spec => []IInv
<1>1. Init => IInv
  BY InitIInv
<1>2. IInv /\ [Next]_vars => IInv'
  BY NextIInv
<1>3. QED
  BY <1>1, <1>2, PTL DEF Spec

(* The rows, the messages and what the threads hold keep their types.        *)
THEOREM TypeCorrect == Spec => []TypeOK
<1>1. IInv => TypeOK
  BY DEF IInv
<1>2. QED
  BY <1>1, Invariance, PTL

(* enqueue_product_sync and process_job together lose no change, however     *)
(* many requests and workers meet: what a change finds queued will read it.  *)
THEOREM ChangesReachAJob == Spec => []NoForgottenChange
<1>1. IInv => NoForgottenChange
  BY DEF IInv
<1>2. QED
  BY <1>1, Invariance, PTL

(* The check of celery_task_id never leaves a queued job without a message.  *)
THEOREM QueuedIsDispatched == Spec => []NoStrandedJob
<1>1. IInv => NoStrandedJob
  BY DEF IInv
<1>2. QED
  BY <1>1, Invariance, PTL

-----------------------------------------------------------------------------
(* Quiet.  A worker's job is running until the worker lets it go; so a second  *)
(* worker for the same target is noticed when it claims its job, and what a     *)
(* target misses of the content that was read last is in the hands of the one   *)
(* worker it has.                                                            *)
Works(t, x) == task[t].pc \in Processing /\ task[t].at = x

Hands ==
  \A t \in Threads : task[t].pc \in Processing =>
    /\ task[t].at \in Targets /\ task[t].job \in Jobs
    /\ job[task[t].job].status = "RUNNING" /\ job[task[t].job].target = task[t].at
    /\ \A u \in Threads \ {t} : task[u].pc \in Processing => task[u].job # task[t].job

OneWorker == \A x \in Targets \ mixed : \A t, u \in Threads : Works(t, x) /\ Works(u, x) => t = u

Holds(t, x) ==
  /\ task[t].pc = "write" => task[t].has = taken[x]
  /\ task[t].pc = "done" => target[x] = taken[x]
  /\ task[t].pc # "failed"

NothingMissing ==
  faults = 0 => \A x \in Targets \ mixed :
    /\ \A t \in Threads : Works(t, x) => Holds(t, x)
    /\ target[x] = taken[x] \/ \E t \in Threads : Works(t, x)

QuietInv == Hands /\ OneWorker /\ NothingMissing

(* A step of a thread that processes no job.                                 *)
LEMMA NoWorkerMoves ==
  ASSUME QuietInv, NEW t \in Threads, Only(t), task[t].pc \notin Processing, task'[t].pc \notin Processing,
         UNCHANGED <<taken, target, mixed>>, faults' = 0 => faults = 0,
         \A j \in Jobs : job[j].status = "RUNNING" => job'[j].status = "RUNNING" /\ job'[j].target = job[j].target
  PROVE  QuietInv'
<1>1. \A u \in Threads : task'[u].pc \in Processing => u # t /\ task'[u] = task[u]
  BY DEF Only
<1>2. \A x : \A u \in Threads : Works(u, x) <=> Works(u, x)'
  BY <1>1 DEF Works, Only
<1>3. Hands'
  BY <1>1 DEF QuietInv, Hands
<1>4. OneWorker'
  BY <1>2 DEF QuietInv, OneWorker
<1>5. \A u \in Threads, x \in Targets : Works(u, x)' /\ Holds(u, x) => Holds(u, x)'
  BY <1>1 DEF Works, Holds
<1>6. NothingMissing'
  BY <1>2, <1>5 DEF QuietInv, NothingMissing
<1> QED
  BY <1>3, <1>4, <1>6 DEF QuietInv

(* A step of the worker t, from r to another step of its job.                *)
LEMMA WorkerMoves ==
  ASSUME QuietInv, TypeOK, NEW t \in Threads, Only(t), task[t].pc \in Processing, task'[t].pc \in Processing,
         task'[t].job = task[t].job, task'[t].at = task[t].at,
         UNCHANGED <<job, mixed>>, faults' = 0 => faults = 0,
         \A x \in Targets \ {task[t].at} : taken'[x] = taken[x] /\ target'[x] = target[x],
         faults' = 0 /\ task[t].at \notin mixed => Holds(t, task[t].at)'
  PROVE  QuietInv'
<1>1. \A u \in Threads : /\ task'[u].pc \in Processing <=> task[u].pc \in Processing
                         /\ task[u].pc \in Processing => task'[u].job = task[u].job /\ task'[u].at = task[u].at
  BY DEF Only
<1>2. \A x : \A u \in Threads : Works(u, x) <=> Works(u, x)'
  BY <1>1 DEF Works
<1>3. Hands'
  BY <1>1 DEF QuietInv, Hands
<1>4. OneWorker'
  BY <1>2 DEF QuietInv, OneWorker
<1>5. ASSUME faults' = 0, NEW x \in Targets \ mixed
      PROVE  /\ \A u \in Threads : Works(u, x)' => Holds(u, x)'
             /\ target'[x] = taken'[x] \/ \E u \in Threads : Works(u, x)'
  <2>1. CASE x = task[t].at
    <3>1. Works(t, x) /\ \A u \in Threads : Works(u, x) => u = t
      BY <2>1 DEF Works, QuietInv, OneWorker
    <3>2. Holds(t, task[t].at)'
      BY <1>5, <2>1
    <3>3. \A u \in Threads : Works(u, x)' => Holds(u, x)'
      BY <1>1, <1>2, <2>1, <3>1, <3>2 DEF Holds
    <3> QED
      BY <1>2, <3>1, <3>3
  <2>2. CASE x # task[t].at
    <3>1. \A u \in Threads : Works(u, x) => u # t
      BY <2>2 DEF Works
    <3>2. \A u \in Threads : Works(u, x) /\ Holds(u, x) => Holds(u, x)'
      BY <2>2, <3>1 DEF Holds, Only
    <3> QED
      BY <1>2, <1>5, <2>2, <3>2 DEF QuietInv, NothingMissing
  <2> QED
    BY <2>1, <2>2
<1>6. NothingMissing'
  BY <1>5 DEF NothingMissing
<1> QED
  BY <1>3, <1>4, <1>6 DEF QuietInv

(* A worker lets its job go.                                                 *)
LEMMA WorkerStops ==
  ASSUME QuietInv, NEW t \in Threads, Only(t), task'[t].pc \notin Processing,
         UNCHANGED <<taken, target, mixed>>, faults' = 0 => faults = 0,
         \A j \in Jobs : (task[t].pc \in Processing => j # task[t].job) => job'[j] = job[j],
         faults' = 0 /\ task[t].pc \in Processing => task[t].pc \in {"done", "failed"}
  PROVE  QuietInv'
<1>1. \A u \in Threads : task'[u].pc \in Processing => u # t /\ task'[u] = task[u]
  BY DEF Only
<1>2. Hands'
  BY <1>1 DEF QuietInv, Hands
<1>3. \A x : \A u \in Threads : Works(u, x)' => Works(u, x) /\ u # t
  BY <1>1 DEF Works
<1>4. OneWorker'
  BY <1>3 DEF QuietInv, OneWorker
<1>5. \A u \in Threads, x \in Targets : Works(u, x)' /\ Holds(u, x) => Holds(u, x)'
  BY <1>1 DEF Works, Holds
<1>6. ASSUME faults' = 0, NEW x \in Targets \ mixed
      PROVE  target'[x] = taken'[x] \/ \E u \in Threads : Works(u, x)'
  <2>1. CASE Works(t, x)
    BY <1>6, <2>1 DEF QuietInv, NothingMissing, Holds, Works
  <2>2. CASE ~ Works(t, x)
    <3>1. \A u \in Threads : Works(u, x) => Works(u, x)'
      BY <2>2 DEF Only, Works
    <3> QED
      BY <1>6, <3>1 DEF QuietInv, NothingMissing
  <2> QED
    BY <2>1, <2>2
<1>7. NothingMissing'
  BY <1>3, <1>5, <1>6 DEF QuietInv, NothingMissing
<1> QED
  BY <1>2, <1>4, <1>7 DEF QuietInv

-----------------------------------------------------------------------------
LEMMA JoinsIsQuiet ==
  ASSUME QuietInv, TypeOK, NEW t \in Threads, NEW r \in Task, NEW j \in Jobs, Joins(t, r, j), task[t].pc \notin Processing,
         UNCHANGED <<job, taken, target, mixed, faults>>
  PROVE  QuietInv'
<1>1. Only(t) /\ task'[t].pc \notin Processing
  BY JoinsEffect DEF BackToLoop, Processing
<1> QED
  BY <1>1, NoWorkerMoves

LEMMA EnqueuingIsQuiet ==
  ASSUME IInv, QuietInv, NEW t \in Threads,
         \/ Change(t) \/ \E x \in Targets : GetQueued(t, x)
         \/ \E j \in Jobs : Create(t, j)
         \/ CreateCollides(t) \/ GetAgain(t) \/ Dispatched(t) \/ StoreTaskId(t) \/ DispatchFails(t)
  PROVE  QuietInv'
<1>1. TypeOK /\ task[t] \in Task
  BY DEF IInv, TypeOK
<1>2. CASE Change(t)
  <2>1. PICK r : r = [Idle EXCEPT !.pc = "get", !.todo = Targets]
    OBVIOUS
  <2>2. r \in Task /\ r.pc = "get"
    BY <2>1, IdleType DEF Idle, Task, Places
  <2>3. Goto(t, r) /\ task[t].pc = "idle" /\ UNCHANGED <<job, taken, target, mixed, faults>>
    BY <1>2, <2>1 DEF Change, At
  <2>4. task'[t] = r /\ Only(t)
    BY <1>1, <2>2, <2>3, GotoEffect
  <2> QED
    BY <2>2, <2>3, <2>4, NoWorkerMoves DEF Processing
<1>3. ASSUME NEW x \in Targets, GetQueued(t, x)
      PROVE  QuietInv'
  <2>1. PICK r : r = [task[t] EXCEPT !.todo = @ \ {x}, !.at = x]
    OBVIOUS
  <2>2. r \in Task
    BY <1>1, <2>1 DEF Task
  <2>3. PICK c : c = [r EXCEPT !.pc = "create"]
    OBVIOUS
  <2>4. c \in Task /\ c.pc = "create"
    BY <2>2, <2>3 DEF Task, Places
  <2>5. task[t].pc = "get" /\ UNCHANGED <<job, taken, target, mixed, faults>>
    BY <1>3 DEF GetQueued, At
  <2>6. CASE QueuedFor(x) = {}
    <3>1. Goto(t, c)
      BY <1>3, <2>1, <2>3, <2>6 DEF GetQueued
    <3>2. task'[t] = c /\ Only(t)
      BY <1>1, <2>4, <3>1, GotoEffect
    <3> QED
      BY <2>4, <2>5, <3>2, NoWorkerMoves DEF Processing
  <2>7. CASE QueuedFor(x) # {}
    <3>1. PICK j \in QueuedFor(x) : Joins(t, r, j)
      BY <1>3, <2>1, <2>7 DEF GetQueued
    <3>2. j \in Jobs /\ task[t].pc \notin Processing
      BY <2>5 DEF QueuedFor, Processing
    <3> QED
      BY <1>1, <2>2, <2>5, <3>1, <3>2, JoinsIsQuiet
  <2> QED
    BY <2>6, <2>7
<1>4. ASSUME NEW j \in Jobs, Create(t, j)
      PROVE  QuietInv'
  <2>1. PICK r : r = [task[t] EXCEPT !.pc = "dispatch", !.job = j]
    OBVIOUS
  <2>2. r \in Task /\ r.pc = "dispatch"
    BY <1>1, <2>1 DEF Task, Places
  <2>3. Goto(t, r) /\ task[t].pc = "create" /\ UNCHANGED <<taken, target, mixed, faults>>
    BY <1>4, <2>1 DEF Create, At
  <2>4. task'[t] = r /\ Only(t)
    BY <1>1, <2>2, <2>3, GotoEffect
  <2>5. \A k \in Jobs : job[k].status = "RUNNING" => job'[k] = job[k]
    BY <1>1, <1>4 DEF Create, TypeOK
  <2> QED
    BY <2>2, <2>3, <2>4, <2>5, NoWorkerMoves DEF Processing
<1>5. CASE CreateCollides(t)
  <2>1. Move(t, "retry") /\ task[t].pc = "create" /\ UNCHANGED <<job, taken, target, mixed, faults>>
    BY <1>5 DEF CreateCollides, At
  <2>2. task'[t].pc = "retry" /\ Only(t)
    BY <1>1, <2>1, MoveEffect DEF Places
  <2> QED
    BY <2>1, <2>2, NoWorkerMoves DEF Processing
<1>6. CASE GetAgain(t)
  <2>1. task[t].pc \in {"retry", "again"} /\ UNCHANGED <<job, taken, target, mixed, faults>>
    BY <1>6 DEF GetAgain, At
  <2>2. CASE \E j \in QueuedFor(task[t].at) : Joins(t, task[t], j)
    <3>1. PICK j \in Jobs : Joins(t, task[t], j)
      BY <2>2 DEF QueuedFor
    <3> QED
      BY <1>1, <2>1, <3>1, JoinsIsQuiet DEF Processing
  <2>3. CASE Move(t, "again")
    <3>1. task'[t].pc = "again" /\ Only(t)
      BY <1>1, <2>3, MoveEffect DEF Places
    <3> QED
      BY <2>1, <3>1, NoWorkerMoves DEF Processing
  <2>4. CASE Goto(t, Idle)
    <3>1. task'[t].pc = "idle" /\ Only(t)
      BY <1>1, <2>4, GotoEffect, IdleType
    <3> QED
      BY <2>1, <3>1, NoWorkerMoves DEF Processing
  <2> QED
    BY <1>6, <2>2, <2>3, <2>4 DEF GetAgain
<1>7. CASE Dispatched(t)
  <2>1. Move(t, "sent") /\ task[t].pc = "dispatch" /\ UNCHANGED <<job, taken, target, mixed, faults>>
    BY <1>7 DEF Dispatched, At
  <2>2. task'[t].pc = "sent" /\ Only(t)
    BY <1>1, <2>1, MoveEffect DEF Places
  <2> QED
    BY <2>1, <2>2, NoWorkerMoves DEF Processing
<1>8. CASE StoreTaskId(t)
  <2>1. NextTarget(t) /\ task[t].pc = "sent" /\ UNCHANGED <<taken, target, mixed, faults>>
        /\ job' = [job EXCEPT ![task[t].job].sent = TRUE]
    BY <1>8 DEF StoreTaskId, At
  <2>2. task'[t].pc \in {"idle", "get"} /\ Only(t)
    BY <1>1, <2>1, NextTargetEffect DEF BackToLoop
  <2>3. \A k \in Jobs : job'[k].status = job[k].status /\ job'[k].target = job[k].target
    BY <1>1, <2>1 DEF TypeOK, Row
  <2> QED
    BY <2>1, <2>2, <2>3, NoWorkerMoves DEF Processing
<1>9. CASE DispatchFails(t)
  <2>1. NextTarget(t) /\ task[t].pc = "dispatch" /\ UNCHANGED <<job, taken, target, mixed>> /\ faults' # 0
    BY <1>1, <1>9, Failing DEF DispatchFails, At
  <2>2. task'[t].pc \in {"idle", "get"} /\ Only(t)
    BY <1>1, <2>1, NextTargetEffect DEF BackToLoop
  <2> QED
    BY <2>1, <2>2, NoWorkerMoves DEF Processing
<1> QED
  BY <1>2, <1>3, <1>4, <1>5, <1>6, <1>7, <1>8, <1>9

LEMMA ClaimIsQuiet ==
  ASSUME IInv, QuietInv, NEW t \in Threads, NEW j \in Jobs, Claim(t, j)
  PROVE  QuietInv'
<1>1. TypeOK /\ task[t].pc = "idle" /\ UNCHANGED <<taken, target, faults>>
  BY DEF Claim, At, IInv
<1>2. CASE job[j].status # "QUEUED"
  <2>1. UNCHANGED <<job, mixed, task>>
    BY <1>2 DEF Claim
  <2> QED
    BY <1>1, <2>1, NoWorkerMoves DEF Only, Processing
<1>3. CASE job[j].status = "QUEUED"
  <2>1. PICK x : x = job[j].target
    OBVIOUS
  <2>2. x \in Targets
    BY <1>3, <2>1 DEF IInv, Rows
  <2>3. PICK r : r = [Idle EXCEPT !.pc = "read", !.at = x, !.job = j]
    OBVIOUS
  <2>4. r \in Task /\ r.pc = "read" /\ r.at = x /\ r.job = j
    BY <2>2, <2>3, IdleType DEF Task, Places
  <2>5. /\ job' = [job EXCEPT ![j].status = "RUNNING"]
        /\ mixed' = IF Running(x) # {} THEN mixed \cup {x} ELSE mixed
        /\ Goto(t, r)
    BY <1>3, <2>1, <2>3 DEF Claim
  <2>6. task'[t] = r /\ Only(t)
    BY <1>1, <2>4, <2>5, GotoEffect
  <2>7. /\ job'[j].status = "RUNNING" /\ job'[j].target = x
        /\ \A k \in Jobs \ {j} : job'[k] = job[k]
    BY <1>1, <2>1, <2>5 DEF TypeOK, Row
  <2>8. \A u \in Threads \ {t} : task[u].pc \in Processing => task[u].job \in Jobs \ {j}
    BY <1>3 DEF QuietInv, Hands
  <2>9. Hands'
    BY <2>2, <2>4, <2>6, <2>7, <2>8 DEF QuietInv, Hands, Only
  <2>10. \A y : \A u \in Threads \ {t} : Works(u, y) <=> Works(u, y)'
    BY <2>6 DEF Works, Only
  <2>11. \A y : Works(t, y)' <=> y = x
    BY <2>4, <2>6 DEF Works, Processing
  <2>12. \A u \in Threads \ {t} : Works(u, x) => Running(x) # {}
    BY DEF Works, QuietInv, Hands, Running
  <2>13. \A y : y \notin mixed' => y \notin mixed /\ (y = x => Running(x) = {})
    BY <2>5
  <2>14. OneWorker'
    BY <2>10, <2>11, <2>12, <2>13 DEF QuietInv, OneWorker
  <2>15. \A u \in Threads \ {t}, y \in Targets : Works(u, y) /\ Holds(u, y) => Holds(u, y)'
    BY <1>1, <2>6 DEF Holds, Only
  <2>16. \A y \in Targets : Holds(t, y)'
    BY <2>4, <2>6 DEF Holds
  <2>17. ~ \E y : Works(t, y)
    BY <1>1 DEF Works, Processing
  <2>18. NothingMissing'
    <3> SUFFICES ASSUME faults' = 0, NEW y \in Targets \ mixed'
                 PROVE  /\ \A u \in Threads : Works(u, y)' => Holds(u, y)'
                        /\ target'[y] = taken'[y] \/ \E u \in Threads : Works(u, y)'
      BY DEF NothingMissing
    <3>1. /\ \A u \in Threads : Works(u, y) => Holds(u, y)
          /\ target[y] = taken[y] \/ \E u \in Threads : Works(u, y)
      BY <1>1, <2>13 DEF QuietInv, NothingMissing
    <3> QED
      BY <1>1, <2>10, <2>15, <2>16, <2>17, <3>1
  <2> QED
    BY <2>9, <2>14, <2>18 DEF QuietInv
<1> QED
  BY <1>2, <1>3

LEMMA ProcessingIsQuiet ==
  ASSUME IInv, QuietInv, NEW t \in Threads,
         ReadProduct(t) \/ WriteTarget(t) \/ CommandFails(t) \/ Finish(t) \/ Crash(t)
  PROVE  QuietInv'
<1>1. TypeOK /\ task[t] \in Task
  BY DEF IInv, TypeOK
<1>2. CASE ReadProduct(t)
  <2>1. PICK r : r = [task[t] EXCEPT !.pc = "write", !.has = content]
    OBVIOUS
  <2>2. r \in Task /\ r.pc = "write" /\ r.has = content /\ r.at = task[t].at /\ r.job = task[t].job
    BY <1>1, <2>1 DEF Task, Places, TypeOK
  <2>3. Goto(t, r) /\ task[t].pc = "read" /\ UNCHANGED <<job, target, mixed, faults>>
        /\ taken' = [taken EXCEPT ![task[t].at] = content]
    BY <1>2, <2>1 DEF ReadProduct, At
  <2>4. task'[t] = r /\ Only(t)
    BY <1>1, <2>2, <2>3, GotoEffect
  <2>5. task[t].at \in Targets
    BY <2>3 DEF QuietInv, Hands, Processing
  <2>6. taken'[task[t].at] = content /\ \A x \in Targets \ {task[t].at} : taken'[x] = taken[x]
    BY <1>1, <2>3, <2>5 DEF TypeOK
  <2>7. Holds(t, task[t].at)'
    BY <2>2, <2>4, <2>6 DEF Holds
  <2> QED
    BY <1>1, <2>2, <2>3, <2>4, <2>6, <2>7, WorkerMoves DEF Processing
<1>3. CASE WriteTarget(t)
  <2>1. Move(t, "done") /\ task[t].pc = "write" /\ UNCHANGED <<job, taken, mixed, faults>>
        /\ target' = [target EXCEPT ![task[t].at] = task[t].has]
    BY <1>3 DEF WriteTarget, At
  <2>2. task'[t].pc = "done" /\ task'[t].at = task[t].at /\ task'[t].job = task[t].job /\ Only(t)
    BY <1>1, <2>1, MoveEffect DEF Places
  <2>3. task[t].at \in Targets
    BY <2>1 DEF QuietInv, Hands, Processing
  <2>4. target'[task[t].at] = task[t].has /\ \A x \in Targets \ {task[t].at} : target'[x] = target[x]
    BY <1>1, <2>1, <2>3 DEF TypeOK
  <2>5. faults = 0 /\ task[t].at \notin mixed => task[t].has = taken[task[t].at]
    BY <2>1, <2>3 DEF QuietInv, NothingMissing, Works, Holds, Processing
  <2>6. faults' = 0 /\ task[t].at \notin mixed => Holds(t, task[t].at)'
    BY <2>1, <2>2, <2>4, <2>5 DEF Holds
  <2> QED
    BY <1>1, <2>1, <2>2, <2>4, <2>6, WorkerMoves DEF Processing
<1>4. CASE CommandFails(t)
  <2>1. Move(t, "failed") /\ task[t].pc \in {"read", "write", "done"} /\ UNCHANGED <<job, taken, target, mixed>> /\ faults' # 0
    BY <1>1, <1>4, Failing DEF CommandFails, At
  <2>2. task'[t].pc = "failed" /\ task'[t].at = task[t].at /\ task'[t].job = task[t].job /\ Only(t)
    BY <1>1, <2>1, MoveEffect DEF Places
  <2> QED
    BY <1>1, <2>1, <2>2, WorkerMoves DEF Processing
<1>5. CASE Finish(t)
  <2>1. Goto(t, Idle) /\ task[t].pc \in {"done", "failed"} /\ UNCHANGED <<taken, target, mixed, faults>>
    BY <1>5 DEF Finish, At
  <2>2. task'[t].pc = "idle" /\ Only(t)
    BY <1>1, <2>1, GotoEffect, IdleType
  <2>3. \A j \in Jobs : j # task[t].job => job'[j] = job[j]
    BY <1>1, <1>5 DEF Finish, TypeOK
  <2> QED
    BY <2>1, <2>2, <2>3, WorkerStops DEF Processing
<1>6. CASE Crash(t)
  <2>1. Goto(t, Idle) /\ faults' # 0 /\ UNCHANGED <<job, taken, target, mixed>>
    BY <1>1, <1>6, Failing DEF Crash
  <2>2. task'[t].pc = "idle" /\ Only(t)
    BY <1>1, <2>1, GotoEffect, IdleType
  <2> QED
    BY <2>1, <2>2, WorkerStops DEF Processing
<1> QED
  BY <1>2, <1>3, <1>4, <1>5, <1>6

LEMMA NextQuiet == IInv /\ QuietInv /\ [Next]_vars => QuietInv'
<1> SUFFICES ASSUME IInv, QuietInv, [Next]_vars
             PROVE  QuietInv'
  OBVIOUS
<1>1. ASSUME NEW t \in Threads, Change(t) \/ Continues(t) \/ Crash(t) \/ \E j \in Jobs : Claim(t, j)
      PROVE  QuietInv'
  BY <1>1, EnqueuingIsQuiet, ProcessingIsQuiet, ClaimIsQuiet DEF Continues
<1>2. ASSUME NEW j \in Jobs, MessageLost(j)
      PROVE  QuietInv'
  <2>1. faults' # 0 /\ UNCHANGED <<job, taken, target, mixed, task>>
    BY <1>2, Failing DEF MessageLost, IInv
  <2> QED
    BY <2>1 DEF QuietInv, Hands, OneWorker, NothingMissing, Works
<1>3. CASE UNCHANGED vars
  BY <1>3 DEF vars, QuietInv, Hands, OneWorker, NothingMissing, Works, Holds
<1> QED
  BY <1>1, <1>2, <1>3 DEF Next

LEMMA InitQuiet == Init => QuietInv
  BY IdleType DEF Init, QuietInv, Hands, OneWorker, NothingMissing, Works, Processing

(* When nobody works on a product any more, every target holds what was saved  *)
(* last: the content was read for the target, by its only worker, who wrote    *)
(* what it read (process_job).                                              *)
THEOREM QuietIsCurrent == Spec => []QuietMeansCurrent
<1>1. IInv /\ QuietInv => QuietMeansCurrent
  BY DEF IInv, Workers, Worker, NoForgottenChange, QuietInv, NothingMissing, QuietMeansCurrent, Works, OnItsWay, At, Processing
<1>2. IInv /\ QuietInv /\ [Next]_vars => (IInv /\ QuietInv)'
  BY NextIInv, NextQuiet
<1>3. Init => IInv /\ QuietInv
  BY InitIInv, InitQuiet
<1> QED
  BY <1>1, <1>2, <1>3, PTL DEF Spec
=============================================================================
