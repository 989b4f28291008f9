-------------------------- MODULE JobSentinelProofs --------------------------
(***************************************************************************)
(* What holds of JobSentinel for any number of jobs, threads, attempts and   *)
(* faults.  The properties are not inductive: a row alone does not say what *)
(* the threads that read it earlier are about to do to it.  IInv adds it.   *)
(***************************************************************************)
EXTENDS JobSentinel, TLAPS

Submitting == {"submit", "save"}

(* A row and the wrapper: before it is created there is nothing; a status    *)
(* the wrapper had a part in implies a stored id; SUCCEEDED is its verdict.  *)
RowInv(j) ==
  /\ row[j].status = "none" => remote[j] = "none" /\ ~ row[j].ext
  /\ row[j].status \in LocalActive \cup {"SUCCEEDED", "CANCELLED"} => row[j].ext
  /\ row[j].status = "SUCCEEDED" => remote[j] = "done"
  /\ handled[j] > 0 => remote[j] = "done"
  /\ row[j].status = "gone" /\ row[j].ext /\ j \notin ByHand => j \in erased

(* A thread and the row of its job.                                          *)
TaskInv(t) ==
  LET j == task[t].job IN
  ~ At(t, "idle") /\ ~ At(t, "polls") /\ ~ At(t, "conts") =>
    /\ j \in Jobs
    /\ row[j].status # "none"
    /\ task[t].pc \in Submitting =>
         ~ row[j].ext /\ row[j].status \in {"QUEUED", "CANCEL_REQUESTED", "gone"}
    /\ At(t, "submit") => remote[j] = "none"
    /\ task[t].pc \in {"fetch", "apply", "after", "dispatch", "mark", "handle",
                       "cancel", "erase"} => row[j].ext
    /\ At(t, "apply") /\ task[t].says = "done" => remote[j] = "done"
    /\ task[t].pc \in {"mark", "handle"} =>
         remote[j] = "done" /\ row[j].status \in Terminal \cup {"gone"}
    /\ At(t, "cancel") \/ task[t].cancels => j \in ByHand
    /\ task[t].pc \in {"delete", "erase", "drop"} /\ j \notin ByHand =>
         row[j].status \in Terminal \cup {"gone"}
    /\ At(t, "delete") /\ j \notin ByHand => task[t].wipe
    /\ At(t, "drop") /\ j \notin ByHand => ~ row[j].ext \/ j \in erased

(* Only the thread that created a job submits it.                            *)
OneSubmitter ==
  \A t, u \in Threads :
    /\ task[t].pc \in Submitting /\ task[u].pc \in Submitting
    /\ task[t].job = task[u].job
    => t = u

IInv ==
  /\ TypeOK
  /\ \A j \in Jobs : RowInv(j)
  /\ \A t \in Threads : TaskInv(t)
  /\ OneSubmitter

-----------------------------------------------------------------------------
(* The building blocks keep their types.                                     *)

LEMMA AppliedType ==
  ASSUME NEW j \in Jobs, NEW says, row[j] \in Row
  PROVE  /\ Applied(j, says) \in Row
         /\ Applied(j, says).status \in {"SUCCEEDED", "CANCELLED", "FAILED", "RUNNING"}
         /\ Applied(j, says).status = "SUCCEEDED" => says = "done"
         /\ Applied(j, says).ext = row[j].ext
<1> DEFINE r == Applied(j, says)
<1>1. CASE says = "done"
  <2>1. r = [row[j] EXCEPT !.status = "SUCCEEDED", !.pending = j \in Continued]
    BY <1>1 DEF Applied
  <2>2. (j \in Continued) \in BOOLEAN
    OBVIOUS
  <2>3. QED
    BY <1>1, <2>1, <2>2 DEF Row, Status, Stored, Terminal, CanCancel
<1>2. CASE says = "cancelled"
  BY <1>2 DEF Applied, Row, Status, Stored, Terminal, CanCancel
<1>3. CASE says = "failed"
  BY <1>3 DEF Applied, Row, Status, Stored, Terminal, CanCancel
<1>4. CASE says \notin {"done", "cancelled", "failed"}
  <2>1. r = [row[j] EXCEPT !.status = "RUNNING"]
    BY <1>4 DEF Applied
  <2>2. QED
    BY <2>1 DEF Row, Status, Stored, Terminal, CanCancel, LocalActive
<1>5. QED
  BY <1>1, <1>2, <1>3, <1>4

LEMMA PollResultType ==
  ASSUME TypeOK, NEW t \in Threads, task[t].job \in Jobs
  PROVE  /\ PollResult(t) \in Row
         /\ PollResult(t).status \in {"SUCCEEDED", "CANCELLED", "FAILED", "RUNNING"}
         /\ PollResult(t).status = "SUCCEEDED" => task[t].says = "done"
         /\ PollResult(t).ext = row[task[t].job].ext
<1> DEFINE j == task[t].job
           r == Applied(j, task[t].says)
<1>1. /\ r \in Row
      /\ r.status \in {"SUCCEEDED", "CANCELLED", "FAILED", "RUNNING"}
      /\ r.status = "SUCCEEDED" => task[t].says = "done"
      /\ r.ext = row[j].ext
  BY AppliedType DEF TypeOK
<1>2. PollResult(t) \in {r, [r EXCEPT !.status = "FAILED", !.pending = FALSE, !.due = TRUE],
                         [r EXCEPT !.due = FALSE]}
  BY DEF PollResult
<1> HIDE DEF r
<1>3. QED
  BY <1>1, <1>2 DEF Row, Status, Stored, Terminal, CanCancel, LocalActive

-----------------------------------------------------------------------------
(* Who moves where, and what an UPDATE leaves.                               *)

LEMMA GotoEffect ==
  ASSUME TypeOK, NEW t \in Threads, NEW r, Goto(t, r)
  PROVE  /\ task'[t] = r
         /\ \A u \in Threads \ {t} : task'[u] = task[u]
         /\ r \in Task => task' \in [Threads -> Task]
  BY DEF Goto, TypeOK

LEMMA UpdateEffect ==
  ASSUME TypeOK, NEW j \in Jobs, NEW r, Update(j, r)
  PROVE  /\ row'[j] = IF Exists(j) THEN r ELSE row[j]
         /\ \A k \in Jobs \ {j} : row'[k] = row[k]
         /\ r \in Row => row' \in [Jobs -> Row]
  BY DEF Update, TypeOK

LEMMA SentType ==
  ASSUME NEW q \in [Jobs -> Nat], NEW j \in Jobs
  PROVE  Sent(q, j) \in [Jobs -> Nat]
  BY DEF Sent

LEMMA IdleType == Idle \in Task /\ Idle.pc = "idle"
  BY DEF Idle, Task, Places

LEMMA MoveType ==
  ASSUME NEW r \in Task, NEW p \in Places
  PROVE  LET m == [r EXCEPT !.pc = p] IN
         /\ m \in Task
         /\ m.pc = p /\ m.job = r.job /\ m.says = r.says /\ m.tries = r.tries
         /\ m.wipe = r.wipe /\ m.cancels = r.cancels /\ m.todo = r.todo
  BY DEF Task

LEMMA BeginType ==
  ASSUME NEW j \in Jobs, NEW p \in Places
  PROVE  LET b == [Idle EXCEPT !.pc = p, !.job = j] IN
         b \in Task /\ b.pc = p /\ b.job = j /\ b.cancels = FALSE
  BY IdleType DEF Task, Places, Idle

LEMMA DeleteType ==
  ASSUME NEW j \in Jobs, NEW w \in BOOLEAN, NEW c \in BOOLEAN
  PROVE  LET d == DeleteTask(j, w, c) IN
         d \in Task /\ d.pc = "delete" /\ d.job = j /\ d.wipe = w /\ d.cancels = c
  BY DEF DeleteTask, Task, Places, Idle

-----------------------------------------------------------------------------
(* What every step does to a row, and what a thread that is still submitting *)
(* may rely on.                                                              *)

Ended == Terminal \cup {"gone"}

Grows(k) ==
  /\ row[k].status # "none" => row'[k].status # "none"
  /\ row[k].ext => row'[k].ext
  /\ row[k].status \in Ended => row'[k].status \in Ended /\ (row'[k].ext => row[k].ext)
  /\ remote[k] = "done" => remote'[k] = "done"
  /\ k \in erased => k \in erased'

HeldBack(k) ==
  /\ ~ row'[k].ext
  /\ row'[k].status \in {"QUEUED", "CANCEL_REQUESTED", "gone"}
  /\ remote[k] = "none" => remote'[k] = "none"

(* A thread that does not move keeps its invariant.                          *)
LEMMA OthersKeep ==
  ASSUME IInv, NEW u \in Threads, task'[u] = task[u],
         \A k \in Jobs : Grows(k),
         task[u].pc \in Submitting => HeldBack(task[u].job)
  PROVE  TaskInv(u)'
  BY DEF IInv, TaskInv, Grows, HeldBack, At, Submitting, Ended

(* How each action's proof ends.                                             *)
LEMMA Preserve ==
  ASSUME IInv, TypeOK', NEW t \in Threads,
         \A k \in Jobs : Grows(k) /\ RowInv(k)',
         \A u \in Threads \ {t} : task'[u] = task[u],
         \A u \in Threads \ {t} :
           task[u].pc \in Submitting => HeldBack(task[u].job),
         TaskInv(t)',
         task'[t].pc \in Submitting =>
           task[t].pc \in Submitting /\ task'[t].job = task[t].job
  PROVE  IInv'
<1>1. \A u \in Threads : TaskInv(u)'
  BY OthersKeep
<1>2. OneSubmitter'
  BY DEF OneSubmitter, IInv
<1>3. QED
  BY <1>1, <1>2 DEF IInv

(* Steps that touch no status, no id and no verdict.                         *)
SameRows ==
  /\ \A k \in Jobs : row'[k].status = row[k].status /\ row'[k].ext = row[k].ext
  /\ remote' = remote /\ handled' = handled /\ erased \subseteq erased'

LEMMA Quiet ==
  ASSUME IInv, TypeOK', NEW t \in Threads, SameRows,
         \A u \in Threads \ {t} : task'[u] = task[u],
         TaskInv(t)', task'[t].pc \notin Submitting
  PROVE  IInv'
<1>1. \A k \in Jobs : Grows(k) /\ RowInv(k)'
  BY DEF SameRows, Grows, RowInv, IInv
<1>2. \A u \in Threads : task[u].pc \in Submitting => HeldBack(task[u].job)
  BY DEF IInv, SameRows, HeldBack, TaskInv, At, Submitting
<1>3. QED
  BY <1>1, <1>2, Preserve

(* Steps that change the status of one row whose id is stored.               *)
OneRow(j) ==
  /\ row'[j].ext /\ row[j].ext
  /\ \A k \in Jobs \ {j} : row'[k] = row[k]
  /\ remote' = remote /\ handled' = handled /\ erased \subseteq erased'

LEMMA StatusStep ==
  ASSUME IInv, TypeOK', NEW t \in Threads, NEW j \in Jobs, OneRow(j),
         row[j].status # "none", row'[j].status # "none",
         row[j].status \in Ended => row'[j].status \in Ended,
         row'[j].status = "SUCCEEDED" => remote[j] = "done",
         row'[j].status = "gone" /\ j \notin ByHand => j \in erased',
         \A u \in Threads \ {t} : task'[u] = task[u],
         TaskInv(t)', task'[t].pc \notin Submitting
  PROVE  IInv'
<1>1. \A k \in Jobs : Grows(k) /\ RowInv(k)'
  BY DEF OneRow, Grows, RowInv, IInv
<1>2. \A u \in Threads : task[u].pc \in Submitting => HeldBack(task[u].job)
  BY DEF IInv, OneRow, HeldBack, TaskInv, At, Submitting
<1>3. QED
  BY <1>1, <1>2, Preserve

-----------------------------------------------------------------------------
(* The four ways a thread moves on.                                          *)

LEMMA StopEffect ==
  ASSUME TypeOK, NEW t \in Threads, Stop(t)
  PROVE  /\ task' \in [Threads -> Task]
         /\ \A u \in Threads \ {t} : task'[u] = task[u]
         /\ TaskInv(t)' /\ task'[t].pc \notin Submitting
<1>1. /\ task'[t] = Idle /\ task' \in [Threads -> Task]
      /\ \A u \in Threads \ {t} : task'[u] = task[u]
  BY GotoEffect, IdleType DEF Stop
<1>2. QED
  BY <1>1, IdleType DEF TaskInv, At, Submitting

LEMMA MoveEffect ==
  ASSUME TypeOK, NEW t \in Threads, NEW p \in Places, Move(t, p)
  PROVE  /\ task' \in [Threads -> Task]
         /\ \A u \in Threads \ {t} : task'[u] = task[u]
         /\ task'[t].pc = p /\ task'[t].job = task[t].job
         /\ task'[t].says = task[t].says /\ task'[t].wipe = task[t].wipe
         /\ task'[t].cancels = task[t].cancels
<1> DEFINE m == [task[t] EXCEPT !.pc = p]
<1>1. /\ m \in Task
      /\ m.pc = p /\ m.job = task[t].job /\ m.says = task[t].says
      /\ m.wipe = task[t].wipe /\ m.cancels = task[t].cancels
  BY MoveType DEF TypeOK
<1>2. Goto(t, m)
  BY DEF Move
<1> HIDE DEF m
<1>3. QED
  BY <1>1, <1>2, GotoEffect

LEMMA BeginEffect ==
  ASSUME TypeOK, NEW t \in Threads, NEW p \in Places, NEW j \in Jobs, Begin(t, p, j)
  PROVE  /\ task' \in [Threads -> Task]
         /\ \A u \in Threads \ {t} : task'[u] = task[u]
         /\ task'[t].pc = p /\ task'[t].job = j /\ task'[t].cancels = FALSE
<1> DEFINE b == [Idle EXCEPT !.pc = p, !.job = j]
<1>1. b \in Task /\ b.pc = p /\ b.job = j /\ b.cancels = FALSE
  BY BeginType
<1>2. Goto(t, b)
  BY DEF Begin
<1> HIDE DEF b
<1>3. QED
  BY <1>1, <1>2, GotoEffect

LEMMA DeleteEffect ==
  ASSUME TypeOK, NEW t \in Threads, NEW j \in Jobs, NEW w \in BOOLEAN,
         NEW c \in BOOLEAN, Goto(t, DeleteTask(j, w, c))
  PROVE  /\ task' \in [Threads -> Task]
         /\ \A u \in Threads \ {t} : task'[u] = task[u]
         /\ task'[t].pc = "delete" /\ task'[t].job = j
         /\ task'[t].wipe = w /\ task'[t].cancels = c
  BY GotoEffect, DeleteType

-----------------------------------------------------------------------------
(* submit_wrapper_job                                                        *)

LEMMA StepCreate ==
  ASSUME IInv, NEW t \in Threads, NEW j \in Jobs, Create(t, j)
  PROVE  IInv'
<1>1. /\ task' \in [Threads -> Task]
      /\ \A u \in Threads \ {t} : task'[u] = task[u]
      /\ task'[t].pc = "submit" /\ task'[t].job = j /\ task'[t].cancels = FALSE
  BY BeginEffect DEF Create, IInv, Places
<1>2. NewRow \in Row /\ NewRow.status = "QUEUED" /\ NewRow.ext = FALSE
  BY DEF NewRow, Row, Status, Stored, CanCancel
<1>3. /\ row' \in [Jobs -> Row]
      /\ row'[j] = NewRow
      /\ \A k \in Jobs \ {j} : row'[k] = row[k]
  BY <1>2 DEF Create, IInv, TypeOK
<1>4. TypeOK'
  BY <1>1, <1>3 DEF Create, IInv, TypeOK
<1>5. row[j].status = "none" /\ remote[j] = "none" /\ ~ row[j].ext /\ ~ handled[j] > 0
  BY DEF Create, IInv, RowInv
<1>6. \A k \in Jobs : Grows(k) /\ RowInv(k)'
  BY <1>2, <1>3, <1>5 DEF Create, IInv, RowInv, Grows, Ended, Terminal, LocalActive
<1>7. \A u \in Threads \ {t} : task[u].pc \in Submitting => HeldBack(task[u].job)
  BY <1>3, <1>5 DEF Create, IInv, TaskInv, HeldBack, At, Submitting
<1>8. TaskInv(t)'
  BY <1>1, <1>2, <1>3, <1>5 DEF Create, TaskInv, At, Submitting
<1>9. \A u \in Threads \ {t} :
        ~ (task[u].pc \in Submitting /\ task[u].job = j)
  BY <1>5 DEF IInv, TaskInv, At, Submitting
<1>10. OneSubmitter'
  BY <1>1, <1>9 DEF OneSubmitter, IInv
<1>11. \A u \in Threads : TaskInv(u)'
  BY <1>1, <1>6, <1>7, <1>8, OthersKeep
<1>12. QED
  BY <1>4, <1>6, <1>10, <1>11 DEF IInv

LEMMA StepSubmitAccepted ==
  ASSUME IInv, NEW t \in Threads, SubmitAccepted(t)
  PROVE  IInv'
<1> DEFINE j == task[t].job
<1>1. /\ task' \in [Threads -> Task]
      /\ \A u \in Threads \ {t} : task'[u] = task[u]
      /\ task'[t].pc = "save" /\ task'[t].job = j
      /\ task'[t].cancels = task[t].cancels
  BY MoveEffect DEF SubmitAccepted, IInv, Places
<1>2. At(t, "submit") /\ j \in Jobs /\ TaskInv(t)
  BY DEF SubmitAccepted, IInv, TaskInv, At
<1>3. /\ remote' \in [Jobs -> Remote]
      /\ remote[j] = "none"
      /\ \A k \in Jobs \ {j} : remote'[k] = remote[k]
  BY <1>2 DEF SubmitAccepted, IInv, TypeOK, Remote, TaskInv, At
<1>4. TypeOK'
  BY <1>1, <1>3 DEF SubmitAccepted, IInv, TypeOK
<1>5. \A k \in Jobs : Grows(k) /\ RowInv(k)'
  BY <1>2, <1>3 DEF SubmitAccepted, IInv, RowInv, Grows, TaskInv, At, Submitting
<1>6. \A u \in Threads \ {t} : task[u].pc \in Submitting => HeldBack(task[u].job)
  BY <1>2, <1>3 DEF SubmitAccepted, IInv, OneSubmitter, TaskInv, HeldBack, At, Submitting
<1>7. TaskInv(t)'
  BY <1>1, <1>2 DEF SubmitAccepted, TaskInv, At, Submitting
<1>8. QED
  BY <1>1, <1>2, <1>4, <1>5, <1>6, <1>7, Preserve DEF At, Submitting

(* Marking the row of a job that was never submitted FAILED.                 *)
LEMMA StepSubmitRaises ==
  ASSUME IInv, NEW t \in Threads, SubmitRaises(t)
  PROVE  IInv'
<1> DEFINE j == task[t].job
           r == [row[j] EXCEPT !.status = "FAILED"]
<1>1. At(t, "submit") /\ j \in Jobs /\ TaskInv(t)
  BY DEF SubmitRaises, IInv, TaskInv, At
<1>2. r \in Row /\ r.status = "FAILED" /\ ~ r.ext
  BY <1>1 DEF IInv, TypeOK, Row, Status, Stored, Terminal, TaskInv, At, Submitting
<1>3. /\ row'[j] = IF Exists(j) THEN r ELSE row[j]
      /\ \A k \in Jobs \ {j} : row'[k] = row[k]
      /\ row' \in [Jobs -> Row]
  BY <1>1, <1>2, UpdateEffect DEF SubmitRaises, IInv
<1> HIDE DEF r
<1>4. /\ remote' \in [Jobs -> Remote]
      /\ remote[j] = "none"
      /\ \A k \in Jobs \ {j} : remote'[k] = remote[k]
  BY <1>1 DEF SubmitRaises, IInv, TypeOK, Remote, TaskInv, At
<1>5. /\ task' \in [Threads -> Task]
      /\ \A u \in Threads \ {t} : task'[u] = task[u]
      /\ TaskInv(t)' /\ task'[t].pc \notin Submitting
  BY StopEffect DEF SubmitRaises, IInv
<1>6. TypeOK'
  BY <1>3, <1>4, <1>5 DEF SubmitRaises, IInv, TypeOK
<1>7. \A k \in Jobs : Grows(k) /\ RowInv(k)'
  <2>1. ~ row[j].ext /\ row[j].status \in {"QUEUED", "CANCEL_REQUESTED", "gone"}
    BY <1>1 DEF TaskInv, At, Submitting
  <2>2. /\ ~ row'[j].ext
        /\ row'[j].status \in {"FAILED", "gone"}
        /\ row[j].status = "gone" => row'[j].status = "gone"
    BY <1>2, <1>3, <2>1 DEF Exists, Stored, Terminal, CanCancel, LocalActive
  <2>3. ~ handled'[j] > 0 /\ erased' = erased
    BY <1>1, <1>4 DEF SubmitRaises, IInv, RowInv
  <2>4. ASSUME NEW k \in Jobs, k = j PROVE Grows(k) /\ RowInv(k)'
    <3>1. Grows(k)
      BY <1>4, <2>1, <2>2, <2>3, <2>4 DEF Grows, Ended, Terminal
    <3>2. RowInv(k)'
      BY <2>2, <2>3, <2>4 DEF RowInv, LocalActive
    <3>3. QED
      BY <3>1, <3>2
  <2>5. ASSUME NEW k \in Jobs \ {j} PROVE Grows(k) /\ RowInv(k)'
    BY <1>3, <1>4 DEF SubmitRaises, IInv, RowInv, Grows
  <2>6. QED
    BY <2>4, <2>5
<1>8. \A u \in Threads \ {t} : task[u].pc \in Submitting => HeldBack(task[u].job)
  BY <1>1, <1>3, <1>4 DEF IInv, OneSubmitter, TaskInv, HeldBack, At, Submitting
<1>9. QED
  BY <1>5, <1>6, <1>7, <1>8, Preserve

LEMMA StepSubmitSaved ==
  ASSUME IInv, NEW t \in Threads, SubmitSaved(t)
  PROVE  IInv'
<1> DEFINE j == task[t].job
           r == [row[j] EXCEPT !.status = "WAITING_WEBHOOK", !.ext = TRUE, !.due = FALSE]
<1>1. At(t, "save") /\ j \in Jobs /\ TaskInv(t)
  BY DEF SubmitSaved, IInv, TaskInv, At
<1>2. r \in Row /\ r.status = "WAITING_WEBHOOK" /\ r.ext
  BY <1>1 DEF IInv, TypeOK, Row, Status, Stored, CanCancel, LocalActive
<1>3. /\ row'[j] = IF Exists(j) THEN r ELSE row[j]
      /\ \A k \in Jobs \ {j} : row'[k] = row[k]
      /\ row' \in [Jobs -> Row]
  BY <1>1, <1>2, UpdateEffect DEF SubmitSaved, IInv
<1>4. /\ task' \in [Threads -> Task]
      /\ \A u \in Threads \ {t} : task'[u] = task[u]
      /\ TaskInv(t)' /\ task'[t].pc \notin Submitting
  BY StopEffect DEF SubmitSaved, IInv
<1>5. TypeOK'
  BY <1>3, <1>4 DEF SubmitSaved, IInv, TypeOK
<1> HIDE DEF r
<1>6. \A k \in Jobs : Grows(k) /\ RowInv(k)'
  <2> SUFFICES ASSUME NEW k \in Jobs PROVE Grows(k) /\ RowInv(k)'
    OBVIOUS
  <2>1. CASE row'[k] = row[k]
    BY <2>1 DEF SubmitSaved, IInv, RowInv, Grows
  <2>2. CASE k = j /\ Exists(k) /\ row'[k] = r
    <3>1. Grows(k)
      BY <1>1, <1>2, <2>2
         DEF SubmitSaved, Grows, TaskInv, At, Submitting, Exists, Stored, Ended, Terminal, CanCancel, LocalActive
    <3>2. RowInv(k)'
      BY <1>1, <1>2, <2>2
         DEF SubmitSaved, IInv, RowInv, TaskInv, At, Submitting, Exists, Stored, Ended, Terminal, CanCancel, LocalActive
    <3> QED
      BY <3>1, <3>2
  <2> QED
    BY <1>1, <1>3, <2>1, <2>2
<1>7. \A u \in Threads \ {t} : task[u].pc \in Submitting => HeldBack(task[u].job)
  BY <1>1, <1>3 DEF SubmitSaved, IInv, OneSubmitter, TaskInv, HeldBack, At, Submitting
<1>8. QED
  BY <1>4, <1>5, <1>6, <1>7, Preserve

-----------------------------------------------------------------------------
(* UPDATEs that leave the status and the id alone, and those that set one.   *)

LEMMA SameEffect ==
  ASSUME TypeOK, NEW j \in Jobs, NEW p \in BOOLEAN, NEW d \in BOOLEAN,
         Update(j, [row[j] EXCEPT !.pending = p, !.due = d])
  PROVE  /\ row' \in [Jobs -> Row]
         /\ \A k \in Jobs : row'[k].status = row[k].status /\ row'[k].ext = row[k].ext
<1> DEFINE r == [row[j] EXCEPT !.pending = p, !.due = d]
<1>1. r \in Row /\ r.status = row[j].status /\ r.ext = row[j].ext
  BY DEF TypeOK, Row
<1>2. Update(j, r)
  OBVIOUS
<1> HIDE DEF r
<1>3. QED
  BY <1>1, <1>2, UpdateEffect

LEMMA StatusEffect ==
  ASSUME TypeOK, NEW j \in Jobs, NEW r \in Row, Update(j, r), row[j].ext, r.ext
  PROVE  /\ row' \in [Jobs -> Row]
         /\ row'[j].ext
         /\ row'[j].status = IF Exists(j) THEN r.status ELSE row[j].status
         /\ \A k \in Jobs \ {j} : row'[k] = row[k]
  BY UpdateEffect

(* A row whose id is stored and that is marked as failed, by thread t, which *)
(* then stops: five actions end like this.                                   *)
LEMMA FailsAndStops ==
  ASSUME IInv, NEW t \in Threads, NEW j \in Jobs, NEW r \in Row,
         Update(j, r), row[j].ext, r.ext, r.status \in {"FAILED", "DELETE_FAILED"},
         Stop(t), remote' = remote, handled' = handled, erased' \in SUBSET Jobs,
         erased \subseteq erased', pollQ' = pollQ, contQ' = contQ, faults' \in Nat
  PROVE  IInv'
<1>1. /\ row' \in [Jobs -> Row] /\ row'[j].ext
      /\ row'[j].status = IF Exists(j) THEN r.status ELSE row[j].status
      /\ \A k \in Jobs \ {j} : row'[k] = row[k]
  BY StatusEffect DEF IInv
<1>2. /\ task' \in [Threads -> Task]
      /\ \A u \in Threads \ {t} : task'[u] = task[u]
      /\ TaskInv(t)' /\ task'[t].pc \notin Submitting
  BY StopEffect DEF IInv
<1>3. TypeOK'
  BY <1>1, <1>2 DEF IInv, TypeOK
<1>4. /\ row[j].status # "none"
      /\ row[j].status = "gone" /\ j \notin ByHand => j \in erased
      /\ row[j].status = "SUCCEEDED" => remote[j] = "done"
  BY DEF IInv, RowInv
<1>5. OneRow(j)
  BY <1>1 DEF OneRow
<1>6. /\ row'[j].status \in {"FAILED", "DELETE_FAILED", row[j].status}
      /\ row[j].status \in Ended => row'[j].status \in Ended
      /\ row'[j].status = "SUCCEEDED" => row[j].status = "SUCCEEDED"
      /\ row'[j].status = "gone" => row[j].status = "gone"
  BY <1>1 DEF Exists, Stored, Terminal, Ended
<1>7. QED
  BY <1>2, <1>3, <1>4, <1>5, <1>6, StatusStep

-----------------------------------------------------------------------------
(* Webhooks and the dispatch of continuations                                *)

LEMMA StepWebhook ==
  ASSUME IInv, NEW t \in Threads, NEW j \in Jobs,
         NEW says \in {"open"} \cup Verdict, Webhook(t, j, says)
  PROVE  IInv'
<1> DEFINE r == Applied(j, says)
<1>1. /\ r \in Row
      /\ r.status \in {"SUCCEEDED", "CANCELLED", "FAILED", "RUNNING"}
      /\ r.status = "SUCCEEDED" => says = "done"
      /\ r.ext = row[j].ext
  BY AppliedType DEF IInv, TypeOK
<1>2. /\ row' \in [Jobs -> Row] /\ row'[j] = r
      /\ \A k \in Jobs \ {j} : row'[k] = row[k]
  BY <1>1 DEF Webhook, IInv, TypeOK
<1> HIDE DEF r
<1>3. /\ task' \in [Threads -> Task]
      /\ \A u \in Threads \ {t} : task'[u] = task[u]
      /\ task'[t].pc = "after" /\ task'[t].job = j /\ task'[t].cancels = FALSE
  BY BeginEffect DEF Webhook, IInv, Places
<1>4. TypeOK'
  BY <1>2, <1>3 DEF Webhook, IInv, TypeOK
<1>5. row[j].ext /\ row[j].status # "none" /\ row[j].status \notin Ended
  BY DEF Webhook, Exists, Stored, Ended, Terminal, CanCancel, LocalActive
<1>6. says = "done" => remote[j] = "done"
  BY DEF Webhook, Verdict
<1>7. OneRow(j)
  BY <1>1, <1>2, <1>5 DEF OneRow, Webhook
<1>8. TaskInv(t)'
  BY <1>1, <1>2, <1>3, <1>5 DEF TaskInv, At, Submitting
<1>9. QED
  BY <1>1, <1>2, <1>3, <1>4, <1>5, <1>6, <1>7, <1>8, StatusStep DEF Submitting

LEMMA StepAfterUpdate ==
  ASSUME IInv, NEW t \in Threads, AfterUpdate(t)
  PROVE  IInv'
<1> DEFINE j == task[t].job
           s == row[j].status
           delete == \/ s = "SUCCEEDED" /\ j \notin Continued /\ j \in Disposable
                     \/ s = "CANCELLED" /\ j \in Disposable
           dispatch == s = "SUCCEEDED" /\ j \in Continued
           r == [row[j] EXCEPT !.pending = TRUE, !.due = FALSE]
<1>1. At(t, "after") /\ j \in Jobs /\ TaskInv(t) /\ row[j].ext /\ s # "none"
      /\ (task[t].cancels => j \in ByHand)
  BY DEF AfterUpdate, IInv, TaskInv, At
<1>2. r \in Row /\ r.status = s /\ r.ext = row[j].ext
  BY <1>1 DEF IInv, TypeOK, Row
<1>3. row' = [row EXCEPT ![j] = IF dispatch THEN r ELSE row[j]]
  BY DEF AfterUpdate
<1> HIDE DEF r
<1>4. /\ row' \in [Jobs -> Row]
      /\ \A k \in Jobs : row'[k].status = row[k].status /\ row'[k].ext = row[k].ext
  BY <1>1, <1>2, <1>3 DEF IInv, TypeOK
<1>5. SameRows
  BY <1>4 DEF SameRows, AfterUpdate
<1>6. CASE delete
  <2>1. Goto(t, DeleteTask(j, TRUE, FALSE)) /\ s \in Ended
    BY <1>6 DEF AfterUpdate, Ended, Terminal
  <2>2. /\ task' \in [Threads -> Task]
        /\ \A u \in Threads \ {t} : task'[u] = task[u]
        /\ task'[t].pc = "delete" /\ task'[t].job = j
        /\ task'[t].wipe = TRUE /\ task'[t].cancels = FALSE
    BY <1>1, <2>1, DeleteEffect DEF IInv
  <2>3. TaskInv(t)'
    BY <1>1, <1>4, <2>1, <2>2 DEF TaskInv, At, Submitting, Ended
  <2>4. TypeOK'
    BY <1>4, <2>2 DEF AfterUpdate, IInv, TypeOK
  <2>5. QED
    BY <1>5, <2>2, <2>3, <2>4, Quiet DEF Submitting
<1>7. CASE ~ delete /\ dispatch
  <2>1. Move(t, "dispatch")
    BY <1>7 DEF AfterUpdate
  <2>2. /\ task' \in [Threads -> Task]
        /\ \A u \in Threads \ {t} : task'[u] = task[u]
        /\ task'[t].pc = "dispatch" /\ task'[t].job = j
        /\ task'[t].cancels = task[t].cancels
    BY <2>1, MoveEffect DEF IInv, Places
  <2>3. TaskInv(t)'
    BY <1>1, <1>4, <2>2 DEF TaskInv, At, Submitting
  <2>4. TypeOK'
    BY <1>4, <2>2 DEF AfterUpdate, IInv, TypeOK
  <2>5. QED
    BY <1>5, <2>2, <2>3, <2>4, Quiet DEF Submitting
<1>8. CASE ~ delete /\ ~ dispatch
  <2>1. Stop(t)
    BY <1>8 DEF AfterUpdate
  <2>2. /\ task' \in [Threads -> Task]
        /\ \A u \in Threads \ {t} : task'[u] = task[u]
        /\ TaskInv(t)' /\ task'[t].pc \notin Submitting
    BY <2>1, StopEffect DEF IInv
  <2>3. TypeOK'
    BY <1>4, <2>2 DEF AfterUpdate, IInv, TypeOK
  <2>4. QED
    BY <1>5, <2>2, <2>3, Quiet
<1>9. QED
  BY <1>6, <1>7, <1>8

LEMMA StepDispatched ==
  ASSUME IInv, NEW t \in Threads, Dispatched(t)
  PROVE  IInv'
<1>1. task[t].job \in Jobs
  BY DEF Dispatched, IInv, TaskInv, At
<1>2. /\ task' \in [Threads -> Task]
      /\ \A u \in Threads \ {t} : task'[u] = task[u]
      /\ TaskInv(t)' /\ task'[t].pc \notin Submitting
  BY StopEffect DEF Dispatched, IInv
<1>3. TypeOK'
  BY <1>1, <1>2, SentType DEF Dispatched, IInv, TypeOK
<1>4. QED
  BY <1>2, <1>3, Quiet DEF Dispatched, SameRows

LEMMA StepDispatchFails ==
  ASSUME IInv, NEW t \in Threads, DispatchFails(t)
  PROVE  IInv'
<1>1. task[t].job \in Jobs
  BY DEF DispatchFails, IInv, TaskInv, At
<1>2. /\ row' \in [Jobs -> Row]
      /\ \A k \in Jobs : row'[k].status = row[k].status /\ row'[k].ext = row[k].ext
  BY <1>1, SameEffect DEF DispatchFails, IInv
<1>3. /\ task' \in [Threads -> Task]
      /\ \A u \in Threads \ {t} : task'[u] = task[u]
      /\ TaskInv(t)' /\ task'[t].pc \notin Submitting
  BY StopEffect DEF DispatchFails, IInv
<1>4. TypeOK'
  BY <1>2, <1>3 DEF DispatchFails, IInv, TypeOK
<1>5. QED
  BY <1>2, <1>3, <1>4, Quiet DEF DispatchFails, SameRows

-----------------------------------------------------------------------------
(* The beat tick                                                             *)

(* Claiming clears "due" and nothing else.                                   *)
LEMMA ClaimEffect ==
  ASSUME TypeOK, NEW S,
         row' = [j \in Jobs |-> IF j \in S THEN [row[j] EXCEPT !.due = FALSE] ELSE row[j]]
  PROVE  /\ row' \in [Jobs -> Row]
         /\ \A k \in Jobs : row'[k].status = row[k].status /\ row'[k].ext = row[k].ext
<1>1. ASSUME NEW j \in Jobs
      PROVE  LET r == [row[j] EXCEPT !.due = FALSE] IN
             r \in Row /\ r.status = row[j].status /\ r.ext = row[j].ext
  BY DEF TypeOK, Row
<1>2. QED
  BY <1>1 DEF TypeOK

LEMMA ClaimType ==
  ASSUME NEW p \in Places, NEW S \in SUBSET Jobs
  PROVE  LET e == [Idle EXCEPT !.pc = p, !.todo = S] IN e \in Task /\ e.pc = p
  BY IdleType DEF Task, Idle, Places

LEMMA TodoType ==
  ASSUME NEW r \in Task, NEW S \in SUBSET Jobs
  PROVE  LET d == [r EXCEPT !.todo = S] IN d \in Task /\ d.pc = r.pc
  BY DEF Task

LEMMA StepBeatClaimsPolls ==
  ASSUME IInv, NEW t \in Threads, BeatClaimsPolls(t)
  PROVE  IInv'
<1> DEFINE due == {j \in Jobs : row[j].status \in LocalActive /\ row[j].due}
           e == [Idle EXCEPT !.pc = "polls", !.todo = due]
<1>1. e \in Task /\ e.pc = "polls"
  BY ClaimType DEF Places
<1>2. Goto(t, e)
  BY DEF BeatClaimsPolls
<1> HIDE DEF e
<1>3. /\ row' \in [Jobs -> Row]
      /\ \A k \in Jobs : row'[k].status = row[k].status /\ row'[k].ext = row[k].ext
  BY ClaimEffect DEF BeatClaimsPolls, IInv
<1>4. /\ task' \in [Threads -> Task] /\ task'[t].pc = "polls"
      /\ \A u \in Threads \ {t} : task'[u] = task[u]
  BY <1>1, <1>2, GotoEffect DEF IInv
<1>5. TypeOK'
  BY <1>3, <1>4 DEF BeatClaimsPolls, IInv, TypeOK
<1>6. TaskInv(t)'
  BY <1>4 DEF TaskInv, At
<1>7. QED
  BY <1>3, <1>4, <1>5, <1>6, Quiet DEF BeatClaimsPolls, SameRows, Submitting

LEMMA StepBeatClaimsContinuations ==
  ASSUME IInv, NEW t \in Threads, BeatClaimsContinuations(t)
  PROVE  IInv'
<1> DEFINE due == {j \in Jobs : /\ row[j].status = "SUCCEEDED"
                                /\ j \in Continued
                                /\ row[j].pending /\ row[j].due}
           e == [Idle EXCEPT !.pc = "conts", !.todo = due]
<1>1. e \in Task /\ e.pc = "conts"
  BY ClaimType DEF Places
<1>2. Goto(t, e)
  BY DEF BeatClaimsContinuations
<1> HIDE DEF e
<1>3. /\ row' \in [Jobs -> Row]
      /\ \A k \in Jobs : row'[k].status = row[k].status /\ row'[k].ext = row[k].ext
  BY ClaimEffect DEF BeatClaimsContinuations, IInv
<1>4. /\ task' \in [Threads -> Task] /\ task'[t].pc = "conts"
      /\ \A u \in Threads \ {t} : task'[u] = task[u]
  BY <1>1, <1>2, GotoEffect DEF IInv
<1>5. TypeOK'
  BY <1>3, <1>4 DEF BeatClaimsContinuations, IInv, TypeOK
<1>6. TaskInv(t)'
  BY <1>4 DEF TaskInv, At
<1>7. QED
  BY <1>3, <1>4, <1>5, <1>6, Quiet DEF BeatClaimsContinuations, SameRows, Submitting

(* Both kinds of messages a beat tick enqueues.                              *)
LEMMA StepEnqueue ==
  ASSUME IInv, NEW t \in Threads, NEW j \in Jobs,
         EnqueuePoll(t, j) \/ EnqueueContinuation(t, j)
  PROVE  IInv'
<1> DEFINE S == task[t].todo \ {j}
           d == [task[t] EXCEPT !.todo = S]
<1>1. task[t] \in Task /\ S \in SUBSET Jobs
  BY DEF IInv, TypeOK, Task
<1>2. d \in Task /\ d.pc = task[t].pc
  BY <1>1, TodoType
<1>3. Goto(t, d) /\ task[t].pc \in {"polls", "conts"}
  BY DEF EnqueuePoll, EnqueueContinuation, At
<1> HIDE DEF d
<1>4. /\ task' \in [Threads -> Task] /\ task'[t].pc \in {"polls", "conts"}
      /\ \A u \in Threads \ {t} : task'[u] = task[u]
  BY <1>2, <1>3, GotoEffect DEF IInv
<1>5. TypeOK'
  BY <1>4, SentType DEF EnqueuePoll, EnqueueContinuation, IInv, TypeOK
<1>6. TaskInv(t)'
  BY <1>4 DEF TaskInv, At
<1>7. QED
  BY <1>4, <1>5, <1>6, Quiet DEF EnqueuePoll, EnqueueContinuation, SameRows, Submitting

(* Steps that only give up what the thread was doing.                        *)
LEMMA StepGivesUp ==
  ASSUME IInv, NEW t \in Threads, BeatEnds(t) \/ Crash(t)
  PROVE  IInv'
<1>1. /\ task' \in [Threads -> Task]
      /\ \A u \in Threads \ {t} : task'[u] = task[u]
      /\ TaskInv(t)' /\ task'[t].pc \notin Submitting
  BY StopEffect DEF BeatEnds, Crash, IInv
<1>2. TypeOK'
  BY <1>1 DEF BeatEnds, Crash, IInv, TypeOK
<1>3. QED
  BY <1>1, <1>2, Quiet DEF BeatEnds, Crash, SameRows

-----------------------------------------------------------------------------
(* poll_job_once                                                             *)

LEMMA StepPollStarts ==
  ASSUME IInv, NEW t \in Threads, NEW j \in Jobs, PollStarts(t, j)
  PROVE  IInv'
<1>1. pollQ' \in [Jobs -> Nat]
  BY DEF PollStarts, IInv, TypeOK
<1>2. CASE Exists(j) /\ row[j].status \notin Terminal /\ row[j].ext
  <2> DEFINE n == row[j].attempt + 1
             r == [row[j] EXCEPT !.attempt = n]
             f == [Idle EXCEPT !.pc = "fetch", !.job = j, !.tries = n]
  <2>1. n \in Nat /\ r \in Row /\ r.status = row[j].status /\ r.ext = row[j].ext
    BY DEF IInv, TypeOK, Row
  <2>2. f \in Task /\ f.pc = "fetch" /\ f.job = j /\ f.cancels = FALSE
    BY <2>1, IdleType DEF Task, Idle, Places
  <2>3. row' = [row EXCEPT ![j] = r] /\ Goto(t, f)
    BY <1>2 DEF PollStarts
  <2> HIDE DEF n, r, f
  <2>4. /\ row' \in [Jobs -> Row]
        /\ \A k \in Jobs : row'[k].status = row[k].status /\ row'[k].ext = row[k].ext
    BY <2>1, <2>3 DEF IInv, TypeOK
  <2>5. /\ task' \in [Threads -> Task] /\ task'[t] = f
        /\ \A u \in Threads \ {t} : task'[u] = task[u]
    BY <2>2, <2>3, GotoEffect DEF IInv
  <2>6. TypeOK'
    BY <1>1, <2>4, <2>5 DEF PollStarts, IInv, TypeOK
  <2>7. TaskInv(t)'
    BY <1>2, <2>2, <2>4, <2>5
       DEF TaskInv, At, Submitting, Exists, Stored, Terminal, CanCancel, LocalActive
  <2>8. QED
    BY <2>2, <2>4, <2>5, <2>6, <2>7, Quiet DEF PollStarts, SameRows, Submitting
<1>3. CASE ~ (Exists(j) /\ row[j].status \notin Terminal /\ row[j].ext)
  <2>1. row' = row /\ task' = task
    BY <1>3 DEF PollStarts
  <2>2. TypeOK'
    BY <1>1, <2>1 DEF PollStarts, IInv, TypeOK
  <2>3. At(t, "idle")
    BY DEF PollStarts
  <2>4. TaskInv(t)' /\ task'[t].pc \notin Submitting
    BY <2>1, <2>3 DEF TaskInv, At, Submitting
  <2>5. QED
    BY <2>1, <2>2, <2>4, Quiet DEF PollStarts, SameRows
<1>4. QED
  BY <1>2, <1>3

LEMMA StepFetched ==
  ASSUME IInv, NEW t \in Threads, Fetched(t)
  PROVE  IInv'
<1> DEFINE j == task[t].job
           f == [task[t] EXCEPT !.pc = "apply", !.says = remote[j]]
<1>1. At(t, "fetch") /\ j \in Jobs /\ TaskInv(t) /\ row[j].status # "none" /\ row[j].ext
  BY DEF Fetched, IInv, TaskInv, At
<1>2. /\ f \in Task /\ f.pc = "apply" /\ f.job = j /\ f.says = remote[j]
      /\ f.cancels = task[t].cancels
  BY <1>1 DEF IInv, TypeOK, Task, Places, Remote
<1>3. Goto(t, f)
  BY DEF Fetched
<1> HIDE DEF f
<1>4. /\ task' \in [Threads -> Task] /\ task'[t] = f
      /\ \A u \in Threads \ {t} : task'[u] = task[u]
  BY <1>2, <1>3, GotoEffect DEF IInv
<1>5. TypeOK'
  BY <1>4 DEF Fetched, IInv, TypeOK
<1>6. task[t].cancels => j \in ByHand
  BY <1>1 DEF TaskInv, At
<1>7. TaskInv(t)'
  BY <1>1, <1>2, <1>4, <1>6 DEF Fetched, TaskInv, At, Submitting
<1>8. QED
  BY <1>2, <1>4, <1>5, <1>7, Quiet DEF Fetched, SameRows, Submitting

LEMMA StepFetchRaises ==
  ASSUME IInv, NEW t \in Threads, FetchRaises(t)
  PROVE  IInv'
<1> DEFINE j == task[t].job
           f == [row[j] EXCEPT !.status = "FAILED", !.pending = FALSE, !.due = TRUE]
           w == [row[j] EXCEPT !.due = FALSE]
<1>1. j \in Jobs /\ row[j].ext /\ row[j] \in Row
  BY DEF FetchRaises, IInv, TypeOK, TaskInv, At
<1>2. CASE task[t].tries >= MaxAttempts
  <2>1. f \in Row /\ f.status = "FAILED" /\ f.ext
    BY <1>1 DEF Row, Status, Stored, Terminal
  <2>2. Update(j, f)
    BY <1>2 DEF FetchRaises
  <2> HIDE DEF f
  <2>3. QED
    BY <1>1, <2>1, <2>2, FailsAndStops DEF FetchRaises, IInv, TypeOK
<1>3. CASE ~ task[t].tries >= MaxAttempts
  <2>1. w \in Row /\ w.status = row[j].status /\ w.ext = row[j].ext
    BY <1>1 DEF Row
  <2>2. Update(j, w)
    BY <1>3 DEF FetchRaises
  <2> HIDE DEF w
  <2>3. /\ row' \in [Jobs -> Row]
        /\ \A k \in Jobs : row'[k].status = row[k].status /\ row'[k].ext = row[k].ext
    BY <1>1, <2>1, <2>2, UpdateEffect DEF IInv
  <2>4. /\ task' \in [Threads -> Task]
        /\ \A u \in Threads \ {t} : task'[u] = task[u]
        /\ TaskInv(t)' /\ task'[t].pc \notin Submitting
    BY StopEffect DEF FetchRaises, IInv
  <2>5. TypeOK'
    BY <2>3, <2>4 DEF FetchRaises, IInv, TypeOK
  <2>6. QED
    BY <2>3, <2>4, <2>5, Quiet DEF FetchRaises, SameRows
<1>4. QED
  BY <1>2, <1>3

LEMMA StepPollApplied ==
  ASSUME IInv, NEW t \in Threads, PollApplied(t)
  PROVE  IInv'
<1> DEFINE j == task[t].job
           r == PollResult(t)
<1>1. At(t, "apply") /\ j \in Jobs /\ TaskInv(t)
  BY DEF PollApplied, IInv, TaskInv, At
<1>2. /\ row[j].ext /\ row[j].status # "none"
      /\ task[t].says = "done" => remote[j] = "done"
      /\ task[t].cancels => j \in ByHand
  BY <1>1 DEF TaskInv, At
<1>3. CASE Exists(j) /\ row[j].status \notin Terminal
  <2>1. /\ r \in Row
        /\ r.status \in {"SUCCEEDED", "CANCELLED", "FAILED", "RUNNING"}
        /\ r.status = "SUCCEEDED" => task[t].says = "done"
        /\ r.ext = row[j].ext
    BY <1>1, PollResultType DEF IInv
  <2>2. row' = [row EXCEPT ![j] = r] /\ Move(t, "after")
    BY <1>3 DEF PollApplied
  <2> HIDE DEF r
  <2>3. /\ row' \in [Jobs -> Row] /\ row'[j] = r
        /\ \A k \in Jobs \ {j} : row'[k] = row[k]
    BY <1>1, <2>1, <2>2 DEF IInv, TypeOK
  <2>4. /\ task' \in [Threads -> Task]
        /\ \A u \in Threads \ {t} : task'[u] = task[u]
        /\ task'[t].pc = "after" /\ task'[t].job = j
        /\ task'[t].cancels = task[t].cancels
    BY <2>2, MoveEffect DEF IInv, Places
  <2>5. TypeOK'
    BY <2>3, <2>4 DEF PollApplied, IInv, TypeOK
  <2>6. row[j].status \notin Ended
    BY <1>3 DEF Exists, Stored, Ended, Terminal, CanCancel, LocalActive
  <2>7. OneRow(j)
    BY <1>2, <2>1, <2>3 DEF OneRow, PollApplied
  <2>8. TaskInv(t)'
    BY <1>1, <1>2, <2>1, <2>3, <2>4 DEF TaskInv, At, Submitting
  <2>9. QED
    BY <1>1, <1>2, <2>1, <2>3, <2>4, <2>5, <2>6, <2>7, <2>8, StatusStep DEF Submitting
<1>4. CASE ~ (Exists(j) /\ row[j].status \notin Terminal)
  <2>1. row' = row /\ Stop(t)
    BY <1>4 DEF PollApplied
  <2>2. /\ task' \in [Threads -> Task]
        /\ \A u \in Threads \ {t} : task'[u] = task[u]
        /\ TaskInv(t)' /\ task'[t].pc \notin Submitting
    BY <2>1, StopEffect DEF IInv
  <2>3. TypeOK'
    BY <2>1, <2>2 DEF PollApplied, IInv, TypeOK
  <2>4. QED
    BY <2>1, <2>2, <2>3, Quiet DEF PollApplied, SameRows
<1>5. QED
  BY <1>3, <1>4

-----------------------------------------------------------------------------
(* process_continuation                                                      *)

LEMMA StepContinuationStarts ==
  ASSUME IInv, NEW t \in Threads, NEW j \in Jobs, ContinuationStarts(t, j)
  PROVE  IInv'
<1>1. contQ' \in [Jobs -> Nat]
  BY DEF ContinuationStarts, IInv, TypeOK
<1>2. row[j].status = "SUCCEEDED" => row[j].ext /\ remote[j] = "done"
  BY DEF IInv, RowInv
<1>3. CASE row[j].status = "SUCCEEDED" /\ j \in Registered
  <2>1. Begin(t, "mark", j) /\ row' = row
    BY <1>3 DEF ContinuationStarts
  <2>2. /\ task' \in [Threads -> Task]
        /\ \A u \in Threads \ {t} : task'[u] = task[u]
        /\ task'[t].pc = "mark" /\ task'[t].job = j /\ task'[t].cancels = FALSE
    BY <2>1, BeginEffect DEF IInv, Places
  <2>3. TypeOK'
    BY <1>1, <2>1, <2>2 DEF ContinuationStarts, IInv, TypeOK
  <2>4. TaskInv(t)'
    BY <1>2, <1>3, <2>1, <2>2 DEF ContinuationStarts, TaskInv, At, Submitting, Terminal
  <2>5. QED
    BY <2>1, <2>2, <2>3, <2>4, Quiet DEF ContinuationStarts, SameRows, Submitting
<1>4. CASE row[j].status = "SUCCEEDED" /\ j \notin Registered
  <2> DEFINE r == [row[j] EXCEPT !.status = "FAILED"]
  <2>1. r \in Row /\ r.status = "FAILED" /\ r.ext = row[j].ext
    BY DEF IInv, TypeOK, Row, Status, Stored, Terminal
  <2>2. row' = [row EXCEPT ![j] = r] /\ task' = task
    BY <1>4 DEF ContinuationStarts
  <2> HIDE DEF r
  <2>3. /\ row' \in [Jobs -> Row] /\ row'[j] = r
        /\ \A k \in Jobs \ {j} : row'[k] = row[k]
    BY <2>1, <2>2 DEF IInv, TypeOK
  <2>4. TypeOK'
    BY <1>1, <2>2, <2>3 DEF ContinuationStarts, IInv, TypeOK
  <2>5. TaskInv(t)' /\ task'[t].pc \notin Submitting
    BY <2>2 DEF ContinuationStarts, TaskInv, At, Submitting
  <2>6. OneRow(j) /\ row'[j].status \in Ended
    BY <1>2, <1>4, <2>1, <2>3 DEF ContinuationStarts, OneRow, Ended, Terminal
  <2>7. QED
    BY <1>4, <2>1, <2>2, <2>3, <2>4, <2>5, <2>6, StatusStep
<1>5. CASE row[j].status # "SUCCEEDED"
  <2>1. row' = row /\ task' = task
    BY <1>5 DEF ContinuationStarts
  <2>2. TypeOK'
    BY <1>1, <2>1 DEF ContinuationStarts, IInv, TypeOK
  <2>3. TaskInv(t)' /\ task'[t].pc \notin Submitting
    BY <2>1 DEF ContinuationStarts, TaskInv, At, Submitting
  <2>4. QED
    BY <2>1, <2>2, <2>3, Quiet DEF ContinuationStarts, SameRows
<1>6. QED
  BY <1>3, <1>4, <1>5

LEMMA StepHandlerEntered ==
  ASSUME IInv, NEW t \in Threads, HandlerEntered(t)
  PROVE  IInv'
<1> DEFINE j == task[t].job
<1>1. At(t, "mark") /\ j \in Jobs /\ TaskInv(t)
  BY DEF HandlerEntered, IInv, TaskInv, At
<1>2. /\ row[j].ext /\ remote[j] = "done" /\ row[j].status \in Ended
      /\ task[t].cancels => j \in ByHand
  BY <1>1 DEF TaskInv, At, Ended
<1>3. /\ row' \in [Jobs -> Row]
      /\ \A k \in Jobs : row'[k].status = row[k].status /\ row'[k].ext = row[k].ext
  BY <1>1, SameEffect DEF HandlerEntered, IInv
<1>4. /\ task' \in [Threads -> Task]
      /\ \A u \in Threads \ {t} : task'[u] = task[u]
      /\ task'[t].pc = "handle" /\ task'[t].job = j
      /\ task'[t].cancels = task[t].cancels
  BY MoveEffect DEF HandlerEntered, IInv, Places
<1>5. /\ handled' \in [Jobs -> 0 .. 2]
      /\ \A k \in Jobs \ {j} : handled'[k] = handled[k]
  BY <1>1 DEF HandlerEntered, IInv, TypeOK
<1>6. TypeOK'
  BY <1>3, <1>4, <1>5 DEF HandlerEntered, IInv, TypeOK
<1>7. remote' = remote /\ erased' = erased
  BY DEF HandlerEntered
<1>8. \A k \in Jobs : Grows(k) /\ RowInv(k)'
  BY <1>2, <1>3, <1>5, <1>7 DEF IInv, RowInv, Grows
<1>9. \A u \in Threads \ {t} : task[u].pc \in Submitting => HeldBack(task[u].job)
  BY <1>3, <1>7 DEF IInv, TaskInv, HeldBack, At, Submitting
<1>10. TaskInv(t)'
  BY <1>1, <1>2, <1>3, <1>4, <1>7 DEF TaskInv, At, Submitting, Ended, Terminal
<1>11. QED
  BY <1>4, <1>6, <1>8, <1>9, <1>10, Preserve DEF Submitting

LEMMA StepHandlerReturns ==
  ASSUME IInv, NEW t \in Threads, HandlerReturns(t)
  PROVE  IInv'
<1> DEFINE j == task[t].job
<1>1. At(t, "handle") /\ j \in Jobs /\ row[j].status \in Ended /\ row[j].status # "none"
  BY DEF HandlerReturns, IInv, TaskInv, At, Ended
<1>2. CASE j \in Disposable
  <2>1. Goto(t, DeleteTask(j, TRUE, FALSE)) /\ row' = row
    BY <1>2 DEF HandlerReturns
  <2>2. /\ task' \in [Threads -> Task]
        /\ \A u \in Threads \ {t} : task'[u] = task[u]
        /\ task'[t].pc = "delete" /\ task'[t].job = j
        /\ task'[t].wipe = TRUE /\ task'[t].cancels = FALSE
    BY <1>1, <2>1, DeleteEffect DEF IInv
  <2>3. TaskInv(t)'
    BY <1>1, <2>1, <2>2 DEF TaskInv, At, Submitting, Ended
  <2>4. TypeOK'
    BY <2>1, <2>2 DEF HandlerReturns, IInv, TypeOK
  <2>5. QED
    BY <2>1, <2>2, <2>3, <2>4, Quiet DEF HandlerReturns, SameRows, Submitting
<1>3. CASE j \notin Disposable
  <2>1. Stop(t) /\ Update(j, [row[j] EXCEPT !.pending = FALSE, !.due = TRUE])
    BY <1>3 DEF HandlerReturns
  <2>2. /\ row' \in [Jobs -> Row]
        /\ \A k \in Jobs : row'[k].status = row[k].status /\ row'[k].ext = row[k].ext
    BY <1>1, <2>1, SameEffect DEF IInv
  <2>3. /\ task' \in [Threads -> Task]
        /\ \A u \in Threads \ {t} : task'[u] = task[u]
        /\ TaskInv(t)' /\ task'[t].pc \notin Submitting
    BY <2>1, StopEffect DEF IInv
  <2>4. TypeOK'
    BY <2>2, <2>3 DEF HandlerReturns, IInv, TypeOK
  <2>5. QED
    BY <2>2, <2>3, <2>4, Quiet DEF HandlerReturns, SameRows
<1>4. QED
  BY <1>2, <1>3

LEMMA StepHandlerRaises ==
  ASSUME IInv, NEW t \in Threads, HandlerRaises(t)
  PROVE  IInv'
<1> DEFINE j == task[t].job
           r == [row[j] EXCEPT !.status = "FAILED", !.pending = FALSE, !.due = TRUE]
<1>1. j \in Jobs /\ row[j].ext /\ row[j] \in Row
  BY DEF HandlerRaises, IInv, TypeOK, TaskInv, At
<1>2. r \in Row /\ r.status = "FAILED" /\ r.ext
  BY <1>1 DEF Row, Status, Stored, Terminal
<1>3. Update(j, r)
  BY DEF HandlerRaises
<1> HIDE DEF r
<1>4. QED
  BY <1>1, <1>2, <1>3, FailsAndStops DEF HandlerRaises, IInv, TypeOK

-----------------------------------------------------------------------------
(* cancel_job, delete_job, cleanup_old_jobs                                  *)

LEMMA StepCancelRequested ==
  ASSUME IInv, NEW t \in Threads, NEW j \in Jobs, CancelRequested(t, j)
  PROVE  IInv'
<1> DEFINE r == [row[j] EXCEPT !.status = "CANCEL_REQUESTED", !.pending = FALSE]
<1>1. r \in Row /\ r.status = "CANCEL_REQUESTED" /\ r.ext = row[j].ext
  BY DEF IInv, TypeOK, Row, Status, Stored
<1>2. row' = [row EXCEPT ![j] = r]
  BY DEF CancelRequested
<1> HIDE DEF r
<1>3. /\ row' \in [Jobs -> Row] /\ row'[j] = r
      /\ \A k \in Jobs \ {j} : row'[k] = row[k]
  BY <1>1, <1>2 DEF IInv, TypeOK
<1>4. row[j].status \notin Ended \cup {"none"} /\ j \in ByHand
  BY DEF CancelRequested, CanCancel, LocalActive, Ended, Terminal
<1>5. \A k \in Jobs : Grows(k) /\ RowInv(k)'
  BY <1>1, <1>3, <1>4 DEF CancelRequested, IInv, RowInv, Grows, LocalActive
<1>6. \A u \in Threads \ {t} : task[u].pc \in Submitting => HeldBack(task[u].job)
  BY <1>1, <1>3 DEF CancelRequested, IInv, TaskInv, HeldBack, At, Submitting
<1>7. CASE row[j].ext
  <2> DEFINE c == [Idle EXCEPT !.pc = "cancel", !.job = j]
  <2>0. "cancel" \in Places
    BY DEF Places
  <2>1. c \in Task /\ c.pc = "cancel" /\ c.job = j /\ c.cancels = FALSE
    BY <2>0, BeginType
  <2>2. Goto(t, c)
    BY <1>7 DEF CancelRequested
  <2> HIDE DEF c
  <2>3. /\ task' \in [Threads -> Task] /\ task'[t] = c
        /\ \A u \in Threads \ {t} : task'[u] = task[u]
    BY <2>1, <2>2, GotoEffect DEF IInv
  <2>4. TypeOK'
    BY <1>3, <2>3 DEF CancelRequested, IInv, TypeOK
  <2>5. TaskInv(t)'
    BY <1>1, <1>3, <1>4, <1>7, <2>1, <2>3 DEF TaskInv, At, Submitting
  <2>6. QED
    BY <1>5, <1>6, <2>1, <2>3, <2>4, <2>5, Preserve DEF Submitting
<1>8. CASE ~ row[j].ext
  <2>1. Goto(t, DeleteTask(j, FALSE, TRUE))
    BY <1>8 DEF CancelRequested
  <2>2. /\ task' \in [Threads -> Task]
        /\ \A u \in Threads \ {t} : task'[u] = task[u]
        /\ task'[t].pc = "delete" /\ task'[t].job = j
        /\ task'[t].wipe = FALSE /\ task'[t].cancels = TRUE
    BY <2>1, DeleteEffect DEF IInv
  <2>3. TypeOK'
    BY <1>3, <2>2 DEF CancelRequested, IInv, TypeOK
  <2>4. TaskInv(t)'
    BY <1>1, <1>3, <1>4, <2>2 DEF TaskInv, At, Submitting
  <2>5. QED
    BY <1>5, <1>6, <2>2, <2>3, <2>4, Preserve DEF Submitting
<1>9. QED
  BY <1>7, <1>8

LEMMA StepCancelAccepted ==
  ASSUME IInv, NEW t \in Threads, CancelAccepted(t)
  PROVE  IInv'
<1> DEFINE j == task[t].job
<1>1. At(t, "cancel") /\ j \in Jobs /\ TaskInv(t)
  BY DEF CancelAccepted, IInv, TaskInv, At
<1>2. j \in ByHand /\ row[j].ext /\ row[j].status # "none"
  BY <1>1 DEF TaskInv, At
<1>3. PICK r \in {remote[j], "cancelled"} :
        (r = remote[j] \/ remote[j] = "open") /\ remote' = [remote EXCEPT ![j] = r]
  BY DEF CancelAccepted
<1>4. /\ remote' \in [Jobs -> Remote]
      /\ \A k \in Jobs \ {j} : remote'[k] = remote[k]
      /\ remote[j] = "done" => remote'[j] = "done"
  BY <1>1, <1>3 DEF IInv, TypeOK, Remote, Verdict
<1>5. Goto(t, DeleteTask(j, TRUE, TRUE))
  BY DEF CancelAccepted
<1>6. /\ task' \in [Threads -> Task]
      /\ \A u \in Threads \ {t} : task'[u] = task[u]
      /\ task'[t].pc = "delete" /\ task'[t].job = j
      /\ task'[t].wipe = TRUE /\ task'[t].cancels = TRUE
  BY <1>1, <1>5, DeleteEffect DEF IInv
<1>7. row' = row /\ handled' = handled /\ erased' = erased
  BY DEF CancelAccepted
<1>8. TypeOK'
  BY <1>4, <1>6, <1>7 DEF CancelAccepted, IInv, TypeOK
<1>9. \A k \in Jobs : Grows(k) /\ RowInv(k)'
  BY <1>2, <1>4, <1>7 DEF IInv, RowInv, Grows
<1>10. \A u \in Threads \ {t} : task[u].pc \in Submitting => HeldBack(task[u].job)
  BY <1>2, <1>4, <1>7 DEF IInv, TaskInv, HeldBack, At, Submitting
<1>11. TaskInv(t)'
  BY <1>1, <1>2, <1>6, <1>7 DEF TaskInv, At, Submitting
<1>12. QED
  BY <1>6, <1>8, <1>9, <1>10, <1>11, Preserve DEF Submitting

LEMMA StepCancelRaises ==
  ASSUME IInv, NEW t \in Threads, CancelRaises(t)
  PROVE  IInv'
<1> DEFINE j == task[t].job
           r == [row[j] EXCEPT !.status = "FAILED"]
<1>1. j \in Jobs /\ row[j].ext /\ row[j] \in Row
  BY DEF CancelRaises, IInv, TypeOK, TaskInv, At
<1>2. r \in Row /\ r.status = "FAILED" /\ r.ext
  BY <1>1 DEF Row, Status, Stored, Terminal
<1>3. Update(j, r)
  BY DEF CancelRaises
<1> HIDE DEF r
<1>4. QED
  BY <1>1, <1>2, <1>3, FailsAndStops DEF CancelRaises, IInv, TypeOK

(* delete_job entered for a job a person chose, or one that has ended.       *)
LEMMA StepDeleteBegins ==
  ASSUME IInv, NEW t \in Threads, NEW j \in Jobs,
         DeleteByHand(t, j) \/ CleanupOld(t, j)
  PROVE  IInv'
<1>1. /\ row[j].status # "none"
      /\ j \in ByHand \/ row[j].status \in Terminal
      /\ row' = row /\ remote' = remote /\ handled' = handled /\ erased' = erased
  BY DEF DeleteByHand, CleanupOld, OldEnough, Exists, Stored, Terminal, CanCancel, LocalActive
<1>2. Goto(t, DeleteTask(j, TRUE, FALSE))
  BY DEF DeleteByHand, CleanupOld
<1>3. /\ task' \in [Threads -> Task]
      /\ \A u \in Threads \ {t} : task'[u] = task[u]
      /\ task'[t].pc = "delete" /\ task'[t].job = j
      /\ task'[t].wipe = TRUE /\ task'[t].cancels = FALSE
  BY <1>2, DeleteEffect DEF IInv
<1>4. TypeOK'
  BY <1>3 DEF DeleteByHand, CleanupOld, IInv, TypeOK
<1>5. TaskInv(t)'
  BY <1>1, <1>3 DEF TaskInv, At, Submitting
<1>6. QED
  BY <1>1, <1>3, <1>4, <1>5, Quiet DEF SameRows, Submitting

LEMMA StepDeleteReads ==
  ASSUME IInv, NEW t \in Threads, DeleteReads(t)
  PROVE  IInv'
<1> DEFINE j == task[t].job
<1>1. At(t, "delete") /\ j \in Jobs /\ TaskInv(t)
  BY DEF DeleteReads, IInv, TaskInv, At
<1>2. row' = row /\ remote' = remote /\ handled' = handled /\ erased' = erased
  BY DEF DeleteReads
<1>3. CASE ~ Exists(j)
  <2>1. Stop(t)
    BY <1>3 DEF DeleteReads
  <2>2. /\ task' \in [Threads -> Task]
        /\ \A u \in Threads \ {t} : task'[u] = task[u]
        /\ TaskInv(t)' /\ task'[t].pc \notin Submitting
    BY <2>1, StopEffect DEF IInv
  <2>3. TypeOK'
    BY <2>2 DEF DeleteReads, IInv, TypeOK
  <2>4. QED
    BY <1>2, <2>2, <2>3, Quiet DEF SameRows
<1>4. CASE Exists(j)
  <2>1. PICK p \in {"erase", "drop"} :
          /\ Move(t, p)
          /\ p = "erase" => row[j].ext
          /\ p = "drop" => ~ (task[t].wipe /\ row[j].ext)
    BY <1>4 DEF DeleteReads
  <2>2. /\ task' \in [Threads -> Task]
        /\ \A u \in Threads \ {t} : task'[u] = task[u]
        /\ task'[t].pc = p /\ task'[t].job = j
        /\ task'[t].cancels = task[t].cancels
    BY <2>1, MoveEffect DEF IInv, Places
  <2>3. TypeOK'
    BY <2>2 DEF DeleteReads, IInv, TypeOK
  <2>4. TaskInv(t)'
    BY <1>1, <1>2, <2>1, <2>2 DEF TaskInv, At, Submitting
  <2>5. QED
    BY <1>2, <2>2, <2>3, <2>4, Quiet DEF SameRows, Submitting
<1>5. QED
  BY <1>3, <1>4

LEMMA StepEraseAccepted ==
  ASSUME IInv, NEW t \in Threads, EraseAccepted(t)
  PROVE  IInv'
<1> DEFINE j == task[t].job
<1>1. At(t, "erase") /\ j \in Jobs /\ TaskInv(t)
  BY DEF EraseAccepted, IInv, TaskInv, At
<1>2. /\ row' = row /\ remote' = remote /\ handled' = handled
      /\ erased' = erased \cup {j}
  BY DEF EraseAccepted
<1>3. /\ task' \in [Threads -> Task]
      /\ \A u \in Threads \ {t} : task'[u] = task[u]
      /\ task'[t].pc = "drop" /\ task'[t].job = j
      /\ task'[t].cancels = task[t].cancels
  BY MoveEffect DEF EraseAccepted, IInv, Places
<1>4. TypeOK'
  BY <1>1, <1>2, <1>3 DEF EraseAccepted, IInv, TypeOK
<1>5. TaskInv(t)'
  BY <1>1, <1>2, <1>3 DEF TaskInv, At, Submitting
<1>6. QED
  BY <1>2, <1>3, <1>4, <1>5, Quiet DEF SameRows, Submitting

LEMMA StepEraseRefused ==
  ASSUME IInv, NEW t \in Threads, EraseRefused(t)
  PROVE  IInv'
<1> DEFINE j == task[t].job
           s == IF task[t].cancels THEN "FAILED" ELSE "DELETE_FAILED"
           r == [row[j] EXCEPT !.status = s]
<1>1. j \in Jobs /\ row[j].ext /\ row[j] \in Row
  BY DEF EraseRefused, IInv, TypeOK, TaskInv, At
<1>2. s \in {"FAILED", "DELETE_FAILED"}
  OBVIOUS
<1> HIDE DEF s
<1>3. r \in Row /\ r.status \in {"FAILED", "DELETE_FAILED"} /\ r.ext
  BY <1>1, <1>2 DEF Row, Status, Stored, Terminal
<1>4. Update(j, r)
  BY DEF EraseRefused, s
<1> HIDE DEF r
<1>5. QED
  BY <1>1, <1>3, <1>4, FailsAndStops DEF EraseRefused, IInv, TypeOK

LEMMA StepEraseBreaks ==
  ASSUME IInv, NEW t \in Threads, EraseBreaks(t)
  PROVE  IInv'
<1> DEFINE j == task[t].job
           f == [row[j] EXCEPT !.status = "FAILED"]
<1>1. j \in Jobs /\ row[j].ext /\ row[j] \in Row
  BY DEF EraseBreaks, IInv, TypeOK, TaskInv, At
<1>2. /\ Stop(t) /\ remote' = remote /\ handled' = handled
      /\ pollQ' = pollQ /\ contQ' = contQ /\ faults' \in Nat
      /\ erased' \in SUBSET Jobs /\ erased \subseteq erased'
  BY <1>1 DEF EraseBreaks, IInv, TypeOK
<1>3. CASE task[t].cancels
  <2>1. f \in Row /\ f.status = "FAILED" /\ f.ext
    BY <1>1 DEF Row, Status, Stored, Terminal
  <2>2. Update(j, f)
    BY <1>3 DEF EraseBreaks
  <2> HIDE DEF f
  <2>3. QED
    BY <1>1, <1>2, <2>1, <2>2, FailsAndStops
<1>4. CASE ~ task[t].cancels
  <2>1. Update(j, row[j])
    BY <1>4 DEF EraseBreaks
  <2>2. row' = row
    BY <2>1 DEF Update, IInv, TypeOK
  <2>3. /\ task' \in [Threads -> Task]
        /\ \A u \in Threads \ {t} : task'[u] = task[u]
        /\ TaskInv(t)' /\ task'[t].pc \notin Submitting
    BY <1>2, StopEffect DEF IInv
  <2>4. TypeOK'
    BY <1>2, <2>2, <2>3 DEF IInv, TypeOK
  <2>5. QED
    BY <1>2, <2>2, <2>3, <2>4, Quiet DEF SameRows
<1>5. QED
  BY <1>3, <1>4

LEMMA StepDropped ==
  ASSUME IInv, NEW t \in Threads, Dropped(t)
  PROVE  IInv'
<1> DEFINE j == task[t].job
           r == [row[j] EXCEPT !.status = "gone"]
<1>1. At(t, "drop") /\ j \in Jobs /\ TaskInv(t)
  BY DEF Dropped, IInv, TaskInv, At
<1>2. r \in Row /\ r.status = "gone" /\ r.ext = row[j].ext
  BY <1>1 DEF IInv, TypeOK, Row, Status
<1>3. Update(j, r)
  BY DEF Dropped
<1> HIDE DEF r
<1>4. /\ row' \in [Jobs -> Row]
      /\ row'[j] = IF Exists(j) THEN r ELSE row[j]
      /\ \A k \in Jobs \ {j} : row'[k] = row[k]
  BY <1>1, <1>2, <1>3, UpdateEffect DEF IInv
<1>5. /\ row[j].status # "none"
      /\ j \notin ByHand => ~ row[j].ext \/ j \in erased
  BY <1>1 DEF TaskInv, At
<1>6. row'[j].status = "gone" /\ row'[j].ext = row[j].ext
  BY <1>1, <1>2, <1>4, <1>5 DEF IInv, TypeOK, Row, Status, Exists
<1>7. /\ task' \in [Threads -> Task]
      /\ \A u \in Threads \ {t} : task'[u] = task[u]
      /\ TaskInv(t)' /\ task'[t].pc \notin Submitting
  BY StopEffect DEF Dropped, IInv
<1>8. TypeOK'
  BY <1>4, <1>7 DEF Dropped, IInv, TypeOK
<1>9. \A k \in Jobs : Grows(k) /\ RowInv(k)'
  BY <1>4, <1>5, <1>6 DEF Dropped, IInv, RowInv, Grows, Ended, LocalActive
<1>10. \A u \in Threads \ {t} : task[u].pc \in Submitting => HeldBack(task[u].job)
  BY <1>4, <1>6 DEF Dropped, IInv, TaskInv, HeldBack, At, Submitting
<1>11. QED
  BY <1>7, <1>8, <1>9, <1>10, Preserve

-----------------------------------------------------------------------------
(* The environment.                                                          *)

(* Steps no thread takes.                                                    *)
LEMMA Outside ==
  ASSUME IInv, TypeOK', task' = task,
         \A k \in Jobs : Grows(k) /\ RowInv(k)',
         \A u \in Threads : task[u].pc \in Submitting => HeldBack(task[u].job)
  PROVE  IInv'
<1>1. \A u \in Threads : TaskInv(u)'
  BY OthersKeep
<1>2. OneSubmitter'
  BY DEF OneSubmitter, IInv
<1>3. QED
  BY <1>1, <1>2 DEF IInv

LEMMA StepElapse ==
  ASSUME IInv, NEW j \in Jobs, Elapse(j)
  PROVE  IInv'
<1> DEFINE r == [row[j] EXCEPT !.due = TRUE]
<1>1. r \in Row /\ r.status = row[j].status /\ r.ext = row[j].ext
  BY DEF IInv, TypeOK, Row
<1>2. row' = [row EXCEPT ![j] = r]
  BY DEF Elapse
<1> HIDE DEF r
<1>3. /\ row' \in [Jobs -> Row]
      /\ \A k \in Jobs : row'[k].status = row[k].status /\ row'[k].ext = row[k].ext
  BY <1>1, <1>2 DEF IInv, TypeOK
<1>4. TypeOK'
  BY <1>3 DEF Elapse, IInv, TypeOK
<1>5. \A k \in Jobs : Grows(k) /\ RowInv(k)'
  BY <1>3 DEF Elapse, IInv, RowInv, Grows
<1>6. \A u \in Threads : task[u].pc \in Submitting => HeldBack(task[u].job)
  BY <1>3 DEF Elapse, IInv, TaskInv, HeldBack, At, Submitting
<1>7. QED
  BY <1>4, <1>5, <1>6, Outside DEF Elapse

LEMMA StepRemoteEnds ==
  ASSUME IInv, NEW j \in Jobs, RemoteEnds(j)
  PROVE  IInv'
<1>1. PICK v \in Verdict : remote' = [remote EXCEPT ![j] = v]
  BY DEF RemoteEnds
<1>2. /\ remote' \in [Jobs -> Remote]
      /\ remote[j] = "open"
      /\ \A k \in Jobs \ {j} : remote'[k] = remote[k]
  BY <1>1 DEF RemoteEnds, IInv, TypeOK, Remote
<1>3. TypeOK'
  BY <1>2 DEF RemoteEnds, IInv, TypeOK
<1>4. \A k \in Jobs : Grows(k) /\ RowInv(k)'
  BY <1>2 DEF RemoteEnds, IInv, RowInv, Grows
<1>5. \A u \in Threads : task[u].pc \in Submitting => HeldBack(task[u].job)
  BY <1>2 DEF RemoteEnds, IInv, TaskInv, HeldBack, At, Submitting
<1>6. QED
  BY <1>3, <1>4, <1>5, Outside DEF RemoteEnds

-----------------------------------------------------------------------------
(* IInv is inductive.                                                        *)

LEMMA InitInv == Init => IInv
<1> SUFFICES ASSUME Init PROVE IInv
  OBVIOUS
<1>1. NewRow \in Row
  BY DEF NewRow, Row, Status, Stored, CanCancel
<1>2. [NewRow EXCEPT !.status = "none"] \in Row
  BY <1>1 DEF Row, Status
<1>3. TypeOK
  BY <1>2, IdleType, BoundAssumption DEF Init, TypeOK, Remote
<1>4. \A j \in Jobs : RowInv(j)
  BY DEF Init, RowInv, NewRow, LocalActive
<1>5. \A t \in Threads : TaskInv(t)
  BY DEF Init, TaskInv, At, Idle
<1>6. OneSubmitter
  BY DEF Init, OneSubmitter, Submitting, Idle
<1>7. QED
  BY <1>3, <1>4, <1>5, <1>6 DEF IInv

LEMMA StartsKeep ==
  ASSUME IInv, NEW t \in Threads, Starts(t)
  PROVE  IInv'
<1>1. CASE BeatClaimsPolls(t)
  BY <1>1, StepBeatClaimsPolls
<1>2. ASSUME NEW j \in Jobs,
             \/ Create(t, j) \/ PollStarts(t, j) \/ ContinuationStarts(t, j)
             \/ CancelRequested(t, j) \/ DeleteByHand(t, j) \/ CleanupOld(t, j)
      PROVE  IInv'
  BY <1>2, StepCreate, StepPollStarts, StepContinuationStarts, StepCancelRequested,
     StepDeleteBegins
<1>3. ASSUME NEW j \in Jobs, NEW says \in {"open"} \cup Verdict, Webhook(t, j, says)
      PROVE  IInv'
  BY <1>3, StepWebhook
<1>4. QED
  BY <1>1, <1>2, <1>3 DEF Starts

LEMMA ContinuesKeep ==
  ASSUME IInv, NEW t \in Threads, Continues(t)
  PROVE  IInv'
<1>1. CASE \/ SubmitAccepted(t) \/ SubmitRaises(t) \/ SubmitSaved(t)
           \/ AfterUpdate(t) \/ Dispatched(t) \/ DispatchFails(t)
  BY <1>1, StepSubmitAccepted, StepSubmitRaises, StepSubmitSaved, StepAfterUpdate,
     StepDispatched, StepDispatchFails
<1>2. CASE \/ \E j \in Jobs : EnqueuePoll(t, j) \/ EnqueueContinuation(t, j)
           \/ BeatClaimsContinuations(t) \/ BeatEnds(t)
  BY <1>2, StepEnqueue, StepBeatClaimsContinuations, StepGivesUp
<1>3. CASE \/ Fetched(t) \/ FetchRaises(t) \/ PollApplied(t)
           \/ HandlerEntered(t) \/ HandlerReturns(t) \/ HandlerRaises(t)
  BY <1>3, StepFetched, StepFetchRaises, StepPollApplied, StepHandlerEntered,
     StepHandlerReturns, StepHandlerRaises
<1>4. CASE \/ CancelAccepted(t) \/ CancelRaises(t)
           \/ DeleteReads(t) \/ EraseAccepted(t) \/ EraseRefused(t) \/ Dropped(t)
  BY <1>4, StepCancelAccepted, StepCancelRaises, StepDeleteReads, StepEraseAccepted,
     StepEraseRefused, StepDropped
<1>5. QED
  BY <1>1, <1>2, <1>3, <1>4 DEF Continues

LEMMA NextKeeps == IInv /\ [Next]_vars => IInv'
<1> SUFFICES ASSUME IInv, [Next]_vars PROVE IInv'
  OBVIOUS
<1>1. ASSUME NEW t \in Threads,
             Starts(t) \/ Continues(t) \/ EraseBreaks(t) \/ Crash(t)
      PROVE  IInv'
  BY <1>1, StartsKeep, ContinuesKeep, StepEraseBreaks, StepGivesUp
<1>2. ASSUME NEW j \in Jobs, Elapse(j) \/ RemoteEnds(j)
      PROVE  IInv'
  BY <1>2, StepElapse, StepRemoteEnds
<1>3. CASE UNCHANGED vars
  BY <1>3 DEF vars, IInv, TypeOK, RowInv, TaskInv, OneSubmitter, At
<1>4. QED
  BY <1>1, <1>2, <1>3 DEF Next

(* The inductive invariant holds in every reachable state.                   *)
THEOREM Invariance == Spec => []IInv
<1>1. Init => IInv
  BY InitInv
<1>2. IInv /\ [Next]_vars => IInv'
  BY NextKeeps
<1>3. QED
  BY <1>1, <1>2, PTL DEF Spec

(* Every variable keeps its type, for any number of jobs and threads.        *)
THEOREM TypeCorrect == Spec => []TypeOK
<1>1. IInv => TypeOK
  BY DEF IInv
<1>2. QED
  BY <1>1, Invariance, PTL

(* No handler is entered for a job the wrapper has not completed.            *)
THEOREM NoEarlyContinuation == Spec => []ContinuationNeedsSuccess
<1>1. IInv => ContinuationNeedsSuccess
  BY DEF IInv, RowInv, ContinuationNeedsSuccess
<1>2. QED
  BY <1>1, Invariance, PTL

(* A row that the program deletes on its own leaves no remote job behind.    *)
THEOREM NothingForgotten == Spec => []NoForgottenRemoteJob
<1>1. IInv => NoForgottenRemoteJob
  BY DEF IInv, RowInv, NoForgottenRemoteJob
<1>2. QED
  BY <1>1, Invariance, PTL

-----------------------------------------------------------------------------
(* No step reopens a job.                                                    *)

Errors == {"FAILED", "DELETE_FAILED", "gone"}

(* An UPDATE that keeps the status or reports an error.                      *)
LEMMA UpdateStays ==
  ASSUME IInv, NEW k \in Jobs, NEW r, Update(k, r),
         r.status \in Errors \cup {row[k].status}, NEW j \in Jobs
  PROVE  StaysTerminal(j)
<1>1. CASE j = k
  BY <1>1, UpdateEffect DEF IInv, StaysTerminal, Errors, Exists, Stored, Terminal,
     CanCancel, LocalActive
<1>2. CASE j # k
  BY <1>2, UpdateEffect DEF IInv, StaysTerminal
<1>3. QED
  BY <1>1, <1>2

(* A step that writes one row, of a job that is open or new.                 *)
LEMMA OpenStays ==
  ASSUME IInv, NEW k \in Jobs, row[k].status \notin Ended,
         \A i \in Jobs \ {k} : row'[i] = row[i], NEW j \in Jobs
  PROVE  StaysTerminal(j)
  BY DEF StaysTerminal, Ended

LEMMA SameStays ==
  ASSUME NEW j \in Jobs, row'[j].status = row[j].status
  PROVE  StaysTerminal(j)
  BY DEF StaysTerminal

LEMMA StartsStay ==
  ASSUME IInv, NEW t \in Threads, Starts(t), NEW j \in Jobs
  PROVE  StaysTerminal(j)
<1>1. CASE BeatClaimsPolls(t)
  BY <1>1, ClaimEffect, SameStays DEF BeatClaimsPolls, IInv
<1>2. ASSUME NEW k \in Jobs, Create(t, k) PROVE StaysTerminal(j)
  <2>1. \A i \in Jobs \ {k} : row'[i] = row[i]
    BY <1>2 DEF Create, IInv, TypeOK
  <2>2. row[k].status \notin Ended
    BY <1>2 DEF Create, Ended, Terminal
  <2>3. QED
    BY <2>1, <2>2, OpenStays
<1>3. ASSUME NEW k \in Jobs, PollStarts(t, k) PROVE StaysTerminal(j)
  <2>1. row'[j] = row[j] \/ row'[j] = [row[j] EXCEPT !.attempt = @ + 1]
    BY <1>3 DEF PollStarts, IInv, TypeOK
  <2>2. QED
    BY <2>1, SameStays DEF IInv, TypeOK, Row
<1>4. ASSUME NEW k \in Jobs, ContinuationStarts(t, k) PROVE StaysTerminal(j)
  <2>1. row'[j] = row[j] \/ row'[j] = [row[j] EXCEPT !.status = "FAILED"]
    BY <1>4 DEF ContinuationStarts, IInv, TypeOK
  <2>2. j = k \/ row'[j] = row[j]
    BY <1>4 DEF ContinuationStarts, IInv, TypeOK
  <2>3. row'[k] = row[k] \/ row[k].status = "SUCCEEDED"
    BY <1>4 DEF ContinuationStarts
  <2>4. QED
    BY <2>1, <2>2, <2>3 DEF StaysTerminal, IInv, TypeOK, Row
<1>5. ASSUME NEW k \in Jobs, CancelRequested(t, k) PROVE StaysTerminal(j)
  <2>1. \A i \in Jobs \ {k} : row'[i] = row[i]
    BY <1>5 DEF CancelRequested, IInv, TypeOK
  <2>2. row[k].status \notin Ended
    BY <1>5 DEF CancelRequested, CanCancel, LocalActive, Ended, Terminal
  <2>3. QED
    BY <2>1, <2>2, OpenStays
<1>6. ASSUME NEW k \in Jobs, DeleteByHand(t, k) \/ CleanupOld(t, k)
      PROVE  StaysTerminal(j)
  BY <1>6, SameStays DEF DeleteByHand, CleanupOld
<1>7. ASSUME NEW k \in Jobs, NEW says \in {"open"} \cup Verdict, Webhook(t, k, says)
      PROVE  StaysTerminal(j)
  <2>1. \A i \in Jobs \ {k} : row'[i] = row[i]
    BY <1>7 DEF Webhook, IInv, TypeOK
  <2>2. row[k].status \notin Ended
    BY <1>7 DEF Webhook, Exists, Stored, CanCancel, LocalActive, Ended, Terminal
  <2>3. QED
    BY <2>1, <2>2, OpenStays
<1>8. QED
  BY <1>1, <1>2, <1>3, <1>4, <1>5, <1>6, <1>7 DEF Starts

(* The actions in which a thread writes the row of its job.                  *)
LEMMA UpdatesStay ==
  ASSUME IInv, NEW t \in Threads, NEW j \in Jobs,
         \/ SubmitRaises(t) \/ DispatchFails(t) \/ FetchRaises(t)
         \/ HandlerEntered(t) \/ HandlerReturns(t) \/ HandlerRaises(t)
         \/ CancelRaises(t) \/ EraseRefused(t) \/ EraseBreaks(t) \/ Dropped(t)
  PROVE  StaysTerminal(j)
<1> DEFINE k == task[t].job
<1>1. k \in Jobs /\ row[k] \in Row
  BY DEF IInv, TypeOK, TaskInv, At, SubmitRaises, DispatchFails, FetchRaises,
     HandlerEntered, HandlerReturns, HandlerRaises, CancelRaises, EraseRefused,
     EraseBreaks, Dropped
<1>2. ASSUME NEW s \in Errors, Update(k, [row[k] EXCEPT !.status = s])
      PROVE  StaysTerminal(j)
  <2>1. [row[k] EXCEPT !.status = s].status = s
    BY <1>1 DEF Row
  <2>2. QED
    BY <1>1, <1>2, <2>1, UpdateStays
<1>3. ASSUME Update(k, [row[k] EXCEPT !.status = "FAILED", !.pending = FALSE, !.due = TRUE])
      PROVE  StaysTerminal(j)
  <2>1. [row[k] EXCEPT !.status = "FAILED", !.pending = FALSE, !.due = TRUE].status \in Errors
    BY <1>1 DEF Row, Errors
  <2>2. QED
    BY <1>1, <1>3, <2>1, UpdateStays
<1>4. ASSUME NEW p \in BOOLEAN, NEW d \in BOOLEAN,
             Update(k, [row[k] EXCEPT !.pending = p, !.due = d])
      PROVE  StaysTerminal(j)
  BY <1>1, <1>4, SameEffect, SameStays DEF IInv
<1>5. CASE SubmitRaises(t) \/ CancelRaises(t) \/ Dropped(t)
  BY <1>2, <1>5 DEF SubmitRaises, CancelRaises, Dropped, Errors
<1>6. CASE EraseRefused(t)
  BY <1>2, <1>6 DEF EraseRefused, Errors
<1>7. CASE EraseBreaks(t)
  <2>1. CASE task[t].cancels
    BY <1>2, <1>7, <2>1 DEF EraseBreaks, Errors
  <2>2. CASE ~ task[t].cancels
    BY <1>1, <1>7, <2>2, UpdateStays DEF EraseBreaks
  <2>3. QED
    BY <2>1, <2>2
<1>8. CASE FetchRaises(t)
  <2>1. CASE task[t].tries >= MaxAttempts
    BY <1>3, <1>8, <2>1 DEF FetchRaises
  <2>2. CASE ~ task[t].tries >= MaxAttempts
    <3>1. Update(k, [row[k] EXCEPT !.due = FALSE])
      BY <1>8, <2>2 DEF FetchRaises
    <3>2. [row[k] EXCEPT !.due = FALSE].status = row[k].status
      BY <1>1 DEF Row
    <3>3. QED
      BY <1>1, <3>1, <3>2, UpdateStays
  <2>3. QED
    BY <2>1, <2>2
<1>9. CASE HandlerRaises(t)
  BY <1>3, <1>9 DEF HandlerRaises
<1>10. CASE DispatchFails(t) \/ HandlerEntered(t)
  BY <1>4, <1>10 DEF DispatchFails, HandlerEntered
<1>11. CASE HandlerReturns(t)
  <2>1. row' = row \/ Update(k, [row[k] EXCEPT !.pending = FALSE, !.due = TRUE])
    BY <1>11 DEF HandlerReturns
  <2>2. QED
    BY <1>4, <2>1, SameStays
<1>12. QED
  BY <1>5, <1>6, <1>7, <1>8, <1>9, <1>10, <1>11

LEMMA ContinuesStay ==
  ASSUME IInv, NEW t \in Threads, Continues(t), NEW j \in Jobs
  PROVE  StaysTerminal(j)
<1>1. CASE \/ SubmitRaises(t) \/ DispatchFails(t) \/ FetchRaises(t)
           \/ HandlerEntered(t) \/ HandlerReturns(t) \/ HandlerRaises(t)
           \/ CancelRaises(t) \/ EraseRefused(t) \/ Dropped(t)
  BY <1>1, UpdatesStay
<1>2. CASE SubmitSaved(t)
  <2> DEFINE k == task[t].job
             r == [row[k] EXCEPT !.status = "WAITING_WEBHOOK", !.ext = TRUE, !.due = FALSE]
  <2>1. k \in Jobs /\ row[k].status \in {"QUEUED", "CANCEL_REQUESTED", "gone"}
    BY <1>2 DEF SubmitSaved, IInv, TaskInv, At, Submitting
  <2>2. Update(k, r)
    BY <1>2 DEF SubmitSaved
  <2> HIDE DEF r
  <2>3. /\ row'[k] = IF Exists(k) THEN r ELSE row[k]
        /\ \A i \in Jobs \ {k} : row'[i] = row[i]
    BY <2>1, <2>2, UpdateEffect DEF IInv
  <2>4. CASE j = k
    BY <2>1, <2>3, <2>4
       DEF StaysTerminal, Exists, Stored, Terminal, CanCancel, LocalActive
  <2>5. CASE j # k
    BY <2>3, <2>5, SameStays
  <2>6. QED
    BY <2>4, <2>5
<1>3. CASE AfterUpdate(t)
  <2> DEFINE k == task[t].job
             r == [row[k] EXCEPT !.pending = TRUE, !.due = FALSE]
  <2>1. r.status = row[k].status
    BY <1>3 DEF AfterUpdate, IInv, TypeOK, Row, TaskInv, At
  <2>2. row' = [row EXCEPT ![k] = r] \/ row' = [row EXCEPT ![k] = row[k]]
    BY <1>3 DEF AfterUpdate
  <2> HIDE DEF r
  <2>3. row'[j].status = row[j].status
    BY <2>1, <2>2 DEF IInv, TypeOK
  <2>4. QED
    BY <2>3, SameStays
<1>4. CASE BeatClaimsContinuations(t)
  BY <1>4, ClaimEffect, SameStays DEF BeatClaimsContinuations, IInv
<1>5. CASE PollApplied(t)
  <2> DEFINE k == task[t].job
  <2>1. k \in Jobs
    BY <1>5 DEF PollApplied, IInv, TaskInv, At
  <2>2. row' = row \/ (row[k].status \notin Ended /\ \A i \in Jobs \ {k} : row'[i] = row[i])
    BY <1>5, <2>1 DEF PollApplied, IInv, TypeOK, Exists, Stored, Ended, Terminal,
       CanCancel, LocalActive
  <2>3. QED
    BY <2>1, <2>2, OpenStays, SameStays
<1>6. CASE \/ SubmitAccepted(t) \/ Dispatched(t) \/ BeatEnds(t) \/ Fetched(t)
           \/ CancelAccepted(t) \/ DeleteReads(t) \/ EraseAccepted(t)
           \/ \E k \in Jobs : EnqueuePoll(t, k) \/ EnqueueContinuation(t, k)
  <2>1. row' = row
    BY <1>6 DEF SubmitAccepted, Dispatched, BeatEnds, Fetched, CancelAccepted,
       DeleteReads, EraseAccepted, EnqueuePoll, EnqueueContinuation
  <2>2. QED
    BY <2>1, SameStays
<1>7. QED
  BY <1>1, <1>2, <1>3, <1>4, <1>5, <1>6 DEF Continues

(* No webhook, poll, submit or retry, however late, reopens a job that has   *)
(* ended or brings back one that was deleted.                                *)
THEOREM EndedStaysEnded == Spec => NoResurrection
<1>1. ASSUME IInv, [Next]_vars, NEW j \in Jobs
      PROVE  StaysTerminal(j)
  <2>1. ASSUME NEW t \in Threads,
               Starts(t) \/ Continues(t) \/ EraseBreaks(t) \/ Crash(t)
        PROVE  StaysTerminal(j)
    <3>1. CASE Crash(t)
      BY <3>1, SameStays DEF Crash
    <3>2. QED
      BY <1>1, <2>1, <3>1, StartsStay, ContinuesStay, UpdatesStay
  <2>2. ASSUME NEW k \in Jobs, Elapse(k) \/ RemoteEnds(k)
        PROVE  StaysTerminal(j)
    <3>1. row'[j] = row[j] \/ row'[j] = [row[j] EXCEPT !.due = TRUE]
      BY <1>1, <2>2 DEF Elapse, RemoteEnds, IInv, TypeOK
    <3>2. QED
      BY <1>1, <3>1, SameStays DEF IInv, TypeOK, Row
  <2>3. CASE UNCHANGED vars
    BY <2>3, SameStays DEF vars
  <2>4. QED
    BY <1>1, <2>1, <2>2, <2>3 DEF Next
<1>2. IInv /\ [Next]_vars => [\A j \in Jobs : StaysTerminal(j)]_vars
  BY <1>1
<1>3. QED
  BY <1>2, Invariance, PTL DEF Spec, NoResurrection

-----------------------------------------------------------------------------
(* The sentinel implements JobPromise: every step shows as one of its steps  *)
(* or as none.                                                              *)
Shown == [Promise!PromiseNext]_(Promise!promiseVars)

LEMMA PhaseCases ==
  /\ PhaseOf("none") = "new" /\ PhaseOf("gone") = "gone" /\ PhaseOf("SUCCEEDED") = "succeeded"
  /\ \A s \in CanCancel \cup {"CANCEL_REQUESTED"} : PhaseOf(s) = "open"
  /\ \A s \in {"FAILED", "CANCELLED", "DELETE_FAILED"} : PhaseOf(s) = "closed"
  BY DEF PhaseOf, CanCancel, LocalActive

(* Statuses a row may go through without the wrapper or a handler taking part. *)
Opened == CanCancel \cup {"CANCEL_REQUESTED"}
Closing == {"FAILED", "CANCELLED", "DELETE_FAILED"}

Goes(j) ==
  LET from == row[j].status
      to == row'[j].status
  IN  \/ to = from
      \/ from \in Opened \cup {"none"} /\ to \in Opened
      \/ from \in Opened /\ to = "SUCCEEDED" /\ remote[j] = "done"
      \/ from \in Opened \cup Closing \cup {"SUCCEEDED"} /\ to \in Closing
      \/ from # "none" /\ to = "gone"

LEMMA OneGoes ==
  ASSUME TypeOK, NEW j \in Jobs, Goes(j), remote' = remote, handled' = handled,
         \A k \in Jobs \ {j} : row'[k].status = row[k].status
  PROVE  Shown
<1> DEFINE old == [k \in Jobs |-> PhaseOf(row[k].status)]
           new == [k \in Jobs |-> PhaseOf(row'[k].status)]
<1>1. new = [old EXCEPT ![j] = PhaseOf(row'[j].status)]
  OBVIOUS
<1>2. row[j].status \in Opened \cup Closing \cup {"none", "SUCCEEDED", "gone"}
  BY DEF TypeOK, Row, Status, Stored, Terminal, Opened, Closing
<1>3. \/ new[j] = old[j]
      \/ old[j] = "new" /\ new[j] = "open"
      \/ old[j] = "open" /\ new[j] = "succeeded" /\ remote[j] = "done"
      \/ old[j] \in {"open", "succeeded"} /\ new[j] = "closed"
      \/ old[j] \in {"open", "succeeded", "closed"} /\ new[j] = "gone"
  BY <1>2, PhaseCases DEF Goes, Opened, Closing
<1> HIDE DEF old, new
<1>4. CASE new[j] = old[j]
  <2>1. new = old
    BY <1>1, <1>4 DEF old, new
  <2>2. QED
    BY <2>1 DEF Shown, Promise!promiseVars, old, new
<1>5. CASE \/ old[j] = "new" /\ new[j] = "open"
           \/ old[j] = "open" /\ new[j] = "succeeded" /\ remote[j] = "done"
           \/ old[j] \in {"open", "succeeded"} /\ new[j] = "closed"
           \/ old[j] \in {"open", "succeeded", "closed"} /\ new[j] = "gone"
  <2>1. new = [old EXCEPT ![j] = new[j]]
    BY <1>1 DEF old, new
  <2>2. Promise!OpenJob(j) \/ Promise!SucceedJob(j) \/ Promise!CloseJob(j) \/ Promise!RemoveJob(j)
    BY <1>5, <2>1 DEF Promise!OpenJob, Promise!SucceedJob, Promise!CloseJob, Promise!RemoveJob,
       Promise!Becomes, old, new
  <2>3. QED
    BY <2>2 DEF Shown, Promise!PromiseNext
<1>6. QED
  BY <1>3, <1>4, <1>5

LEMMA NoneGoes ==
  ASSUME \A k \in Jobs : row'[k].status = row[k].status, remote' = remote, handled' = handled
  PROVE  Shown
  BY DEF Shown, Promise!promiseVars

(* An UPDATE that keeps the status, or reports an error or a deletion.       *)
LEMMA UpdateShows ==
  ASSUME IInv, NEW k \in Jobs, NEW r, Update(k, r),
         r.status \in Errors \cup {row[k].status}, remote' = remote, handled' = handled
  PROVE  Shown
<1>1. /\ row'[k] = IF Exists(k) THEN r ELSE row[k]
      /\ \A j \in Jobs \ {k} : row'[j] = row[j]
  BY UpdateEffect DEF IInv
<1>2. Goes(k)
  BY <1>1 DEF Goes, Errors, Exists, Stored, Terminal, CanCancel, LocalActive, Opened, Closing
<1>3. QED
  BY <1>1, <1>2, OneGoes DEF IInv

(* A step that changes one open row, by what the wrapper or a person says.    *)
LEMMA OpenShows ==
  ASSUME IInv, NEW k \in Jobs, row[k].status \in Opened \cup {"none"},
         \A i \in Jobs \ {k} : row'[i] = row[i], remote' = remote, handled' = handled,
         \/ row'[k].status \in Opened
         \/ row[k].status \in Opened /\ row'[k].status \in Closing
         \/ row[k].status \in Opened /\ row'[k].status = "SUCCEEDED" /\ remote[k] = "done"
  PROVE  Shown
<1>1. Goes(k)
  BY DEF Goes
<1>2. QED
  BY <1>1, OneGoes DEF IInv

(* The wrapper decides, and no row says anything else.                       *)
LEMMA WrapperShows ==
  ASSUME NEW j \in Jobs, \A k \in Jobs : row'[k].status = row[k].status, handled' = handled,
         NEW v, remote' = [remote EXCEPT ![j] = v],
         \/ v = remote[j] /\ remote \in [Jobs -> Remote]
         \/ remote[j] = "open" /\ v \in Verdict
         \/ remote[j] = "none" /\ v = "open" /\ row[j].status \in Opened \cup {"gone"}
  PROVE  Shown
<1>1. CASE v = remote[j] /\ remote \in [Jobs -> Remote]
  <2>1. remote' = remote
    BY <1>1
  <2>2. QED
    BY <2>1, NoneGoes
<1>2. CASE remote[j] = "open" /\ v \in Verdict
  <2>1. Promise!WrapperEnds(j)
    BY <1>2 DEF Promise!WrapperEnds, Promise!Outcome, Verdict
  <2>2. QED
    BY <2>1 DEF Shown, Promise!PromiseNext
<1>3. CASE remote[j] = "none" /\ v = "open" /\ row[j].status \in Opened \cup {"gone"}
  <2>1. PhaseOf(row[j].status) # "new"
    BY <1>3, PhaseCases DEF Opened
  <2>2. Promise!WrapperTakes(j)
    BY <1>3, <2>1 DEF Promise!WrapperTakes
  <2>3. QED
    BY <2>2 DEF Shown, Promise!PromiseNext
<1>4. QED
  BY <1>1, <1>2, <1>3

LEMMA WebhookShows ==
  ASSUME IInv, NEW t \in Threads, NEW k \in Jobs, NEW says \in {"open"} \cup Verdict,
         Webhook(t, k, says)
  PROVE  Shown
<1>1. /\ Applied(k, says).status \in {"SUCCEEDED", "CANCELLED", "FAILED", "RUNNING"}
      /\ Applied(k, says).status = "SUCCEEDED" => says = "done"
  BY AppliedType DEF IInv, TypeOK
<1>2. /\ \A i \in Jobs \ {k} : row'[i] = row[i]
      /\ row'[k] = Applied(k, says)
      /\ remote' = remote /\ handled' = handled
  BY DEF Webhook, IInv, TypeOK
<1>3. row[k].status \in Opened
  BY DEF Webhook, Exists, Stored, Opened
<1>4. says = "done" => remote[k] = "done"
  BY DEF Webhook
<1>5. QED
  BY <1>1, <1>2, <1>3, <1>4, OpenShows DEF Opened, Closing, CanCancel, LocalActive

LEMMA StartsShow ==
  ASSUME IInv, NEW t \in Threads, Starts(t)
  PROVE  Shown
<1>1. CASE BeatClaimsPolls(t)
  BY <1>1, ClaimEffect, NoneGoes DEF BeatClaimsPolls, IInv
<1>2. ASSUME NEW k \in Jobs, Create(t, k) PROVE Shown
  <2>1. /\ \A i \in Jobs \ {k} : row'[i] = row[i]
        /\ row[k].status = "none" /\ row'[k].status = "QUEUED"
        /\ remote' = remote /\ handled' = handled
    BY <1>2 DEF Create, IInv, TypeOK, NewRow
  <2>2. QED
    BY <2>1, OpenShows DEF Opened, CanCancel
<1>3. ASSUME NEW k \in Jobs, PollStarts(t, k) PROVE Shown
  <2>1. \A j \in Jobs : row'[j] = row[j] \/ row'[j] = [row[j] EXCEPT !.attempt = @ + 1]
    BY <1>3 DEF PollStarts, IInv, TypeOK
  <2>2. remote' = remote /\ handled' = handled
    BY <1>3 DEF PollStarts
  <2>3. QED
    BY <2>1, <2>2, NoneGoes DEF IInv, TypeOK, Row
<1>4. ASSUME NEW k \in Jobs, ContinuationStarts(t, k) PROVE Shown
  <2>1. remote' = remote /\ handled' = handled
    BY <1>4 DEF ContinuationStarts
  <2>2. \A i \in Jobs \ {k} : row'[i] = row[i]
    BY <1>4 DEF ContinuationStarts, IInv, TypeOK
  <2>3. row'[k].status = row[k].status \/ (row[k].status = "SUCCEEDED" /\ row'[k].status = "FAILED")
    BY <1>4 DEF ContinuationStarts, IInv, TypeOK, Row
  <2>4. Goes(k)
    BY <2>3 DEF Goes, Closing
  <2>5. QED
    BY <2>1, <2>2, <2>4, OneGoes DEF IInv
<1>5. ASSUME NEW k \in Jobs, CancelRequested(t, k) PROVE Shown
  <2>1. /\ \A i \in Jobs \ {k} : row'[i] = row[i]
        /\ row[k].status \in CanCancel /\ row'[k].status = "CANCEL_REQUESTED"
        /\ remote' = remote /\ handled' = handled
    BY <1>5 DEF CancelRequested, IInv, TypeOK, Row
  <2>2. QED
    BY <2>1, OpenShows DEF Opened
<1>6. ASSUME NEW k \in Jobs, DeleteByHand(t, k) \/ CleanupOld(t, k)
      PROVE  Shown
  BY <1>6, NoneGoes DEF DeleteByHand, CleanupOld
<1>7. ASSUME NEW k \in Jobs, NEW says \in {"open"} \cup Verdict, Webhook(t, k, says)
      PROVE  Shown
  BY <1>7, WebhookShows
<1>8. QED
  BY <1>1, <1>2, <1>3, <1>4, <1>5, <1>6, <1>7 DEF Starts

(* The UPDATEs of a thread on the row of its job.                            *)
LEMMA UpdatesShow ==
  ASSUME IInv, NEW t \in Threads,
         \/ DispatchFails(t) \/ FetchRaises(t) \/ HandlerReturns(t) \/ HandlerRaises(t)
         \/ CancelRaises(t) \/ EraseRefused(t) \/ EraseBreaks(t) \/ Dropped(t)
  PROVE  Shown
<1> DEFINE k == task[t].job
<1>1. k \in Jobs /\ row[k] \in Row
  BY DEF IInv, TypeOK, TaskInv, At, DispatchFails, FetchRaises, HandlerReturns, HandlerRaises,
     CancelRaises, EraseRefused, EraseBreaks, Dropped
<1>2. remote' = remote /\ handled' = handled
  BY DEF DispatchFails, FetchRaises, HandlerReturns, HandlerRaises,
     CancelRaises, EraseRefused, EraseBreaks, Dropped
<1>3. CASE row' = row
  BY <1>2, <1>3, NoneGoes
<1>4. ASSUME NEW r, Update(k, r), r.status \in Errors \cup {row[k].status} PROVE Shown
  BY <1>1, <1>2, <1>4, UpdateShows
<1>5. ASSUME NEW s \in Errors, NEW p \in BOOLEAN, NEW d \in BOOLEAN
      PROVE  /\ [row[k] EXCEPT !.status = s].status \in Errors
             /\ [row[k] EXCEPT !.status = s, !.pending = p, !.due = d].status \in Errors
             /\ [row[k] EXCEPT !.pending = p, !.due = d].status = row[k].status
             /\ [row[k] EXCEPT !.due = d].status = row[k].status
  BY <1>1 DEF Row
<1>6. CASE CancelRaises(t) \/ Dropped(t) \/ EraseRefused(t)
  BY <1>4, <1>5, <1>6 DEF CancelRaises, Dropped, EraseRefused, Errors
<1>7. CASE EraseBreaks(t)
  BY <1>4, <1>5, <1>7 DEF EraseBreaks, Errors
<1>8. CASE FetchRaises(t)
  BY <1>4, <1>5, <1>8 DEF FetchRaises, Errors
<1>9. CASE HandlerRaises(t) \/ DispatchFails(t)
  BY <1>4, <1>5, <1>9 DEF HandlerRaises, DispatchFails, Errors
<1>10. CASE HandlerReturns(t)
  <2>1. row' = row \/ Update(k, [row[k] EXCEPT !.pending = FALSE, !.due = TRUE])
    BY <1>10 DEF HandlerReturns
  <2>2. [row[k] EXCEPT !.pending = FALSE, !.due = TRUE].status = row[k].status
    BY <1>1 DEF Row
  <2>3. QED
    BY <1>3, <1>4, <2>1, <2>2
<1>11. QED
  BY <1>6, <1>7, <1>8, <1>9, <1>10

LEMMA ContinuesShow ==
  ASSUME IInv, NEW t \in Threads, Continues(t)
  PROVE  Shown
<1>1. CASE \/ DispatchFails(t) \/ FetchRaises(t) \/ HandlerReturns(t) \/ HandlerRaises(t)
           \/ CancelRaises(t) \/ EraseRefused(t) \/ Dropped(t)
  BY <1>1, UpdatesShow
<1>2. CASE SubmitAccepted(t)
  <2> DEFINE j == task[t].job
  <2>1. j \in Jobs /\ remote[j] = "none" /\ row[j].status \in Opened \cup {"gone"}
    BY <1>2 DEF SubmitAccepted, IInv, TaskInv, At, Submitting, Opened, CanCancel
  <2>2. remote' = [remote EXCEPT ![j] = "open"] /\ row' = row /\ handled' = handled
    BY <1>2 DEF SubmitAccepted
  <2>3. QED
    BY <2>1, <2>2, WrapperShows
<1>3. CASE SubmitRaises(t)
  <2> DEFINE j == task[t].job
             r == [row[j] EXCEPT !.status = "FAILED"]
  <2>1. /\ j \in Jobs /\ remote[j] = "none" /\ row[j] \in Row
        /\ row[j].status \in Opened \cup {"gone"}
    BY <1>3 DEF SubmitRaises, IInv, TypeOK, TaskInv, At, Submitting, Opened, CanCancel
  <2>2. PICK v \in {"none", "open"} : remote' = [remote EXCEPT ![j] = v]
    BY <1>3 DEF SubmitRaises
  <2>3. Update(j, r) /\ handled' = handled
    BY <1>3 DEF SubmitRaises
  <2>4. r.status = "FAILED"
    BY <2>1
  <2> HIDE DEF r
  <2>5. CASE v = "none"
    <3>1. remote' = remote
      BY <2>1, <2>2, <2>5 DEF IInv, TypeOK
    <3>2. QED
      BY <2>1, <2>3, <2>4, <3>1, UpdateShows DEF Errors
  <2>6. CASE v = "open"
    <3>1. row'[j] = (IF Exists(j) THEN r ELSE row[j]) /\ \A k \in Jobs \ {j} : row'[k] = row[k]
      BY <2>1, <2>3, UpdateEffect DEF IInv
    <3> DEFINE old == [k \in Jobs |-> PhaseOf(row[k].status)]
               new == [k \in Jobs |-> PhaseOf(row'[k].status)]
    <3>2. new \in {old, [old EXCEPT ![j] = IF @ = "open" THEN "closed" ELSE @]}
      <4>1. CASE Exists(j)
        <5>1. old[j] = "open" /\ new[j] = "closed"
          BY <2>1, <2>4, <3>1, <4>1, PhaseCases DEF Opened, Exists, Stored, Terminal, CanCancel, LocalActive
        <5>2. \A k \in Jobs \ {j} : new[k] = old[k]
          BY <3>1
        <5>3. new = [old EXCEPT ![j] = IF @ = "open" THEN "closed" ELSE @]
          BY <5>1, <5>2
        <5>4. QED
          BY <5>3
      <4>2. CASE ~ Exists(j)
        <5>1. new = old
          BY <3>1, <4>2
        <5>2. QED
          BY <5>1
      <4>3. QED
        BY <4>1, <4>2
    <3>3. old[j] # "new"
      BY <2>1, PhaseCases DEF Opened
    <3>4. Promise!WrapperTakes(j)
      BY <2>1, <2>2, <2>3, <2>6, <3>2, <3>3 DEF Promise!WrapperTakes
    <3>5. QED
      BY <2>1, <3>4 DEF Shown, Promise!PromiseNext
  <2>7. QED
    BY <2>2, <2>5, <2>6
<1>4. CASE SubmitSaved(t)
  <2> DEFINE k == task[t].job
             r == [row[k] EXCEPT !.status = "WAITING_WEBHOOK", !.ext = TRUE, !.due = FALSE]
  <2>1. /\ k \in Jobs /\ row[k] \in Row
        /\ row[k].status \in {"QUEUED", "CANCEL_REQUESTED", "gone"}
    BY <1>4 DEF SubmitSaved, IInv, TypeOK, TaskInv, At, Submitting
  <2>2. Update(k, r) /\ remote' = remote /\ handled' = handled
    BY <1>4 DEF SubmitSaved
  <2>3. r.status = "WAITING_WEBHOOK"
    BY <2>1 DEF Row
  <2> HIDE DEF r
  <2>4. /\ row'[k] = IF Exists(k) THEN r ELSE row[k]
        /\ \A i \in Jobs \ {k} : row'[i] = row[i]
    BY <2>1, <2>2, UpdateEffect DEF IInv
  <2>5. Goes(k)
    BY <2>1, <2>3, <2>4 DEF Goes, Exists, Stored, Opened, CanCancel, LocalActive, Terminal
  <2>6. QED
    BY <2>1, <2>2, <2>4, <2>5, OneGoes DEF IInv
<1>5. CASE AfterUpdate(t)
  <2> DEFINE k == task[t].job
             r == [row[k] EXCEPT !.pending = TRUE, !.due = FALSE]
  <2>1. r.status = row[k].status
    BY <1>5 DEF AfterUpdate, IInv, TypeOK, Row, TaskInv, At
  <2>2. row' = [row EXCEPT ![k] = r] \/ row' = [row EXCEPT ![k] = row[k]]
    BY <1>5 DEF AfterUpdate
  <2> HIDE DEF r
  <2>3. \A j \in Jobs : row'[j].status = row[j].status
    BY <2>1, <2>2 DEF IInv, TypeOK
  <2>4. QED
    BY <1>5, <2>3, NoneGoes DEF AfterUpdate
<1>6. CASE BeatClaimsContinuations(t)
  BY <1>6, ClaimEffect, NoneGoes DEF BeatClaimsContinuations, IInv
<1>7. CASE PollApplied(t)
  <2> DEFINE k == task[t].job
  <2>1. k \in Jobs /\ (task[t].says = "done" => remote[k] = "done")
    BY <1>7 DEF PollApplied, IInv, TaskInv, At
  <2>2. remote' = remote /\ handled' = handled
    BY <1>7 DEF PollApplied
  <2>3. CASE Exists(k) /\ row[k].status \notin Terminal
    <3>1. row'[k] = PollResult(t) /\ \A i \in Jobs \ {k} : row'[i] = row[i]
      BY <1>7, <2>1, <2>3 DEF PollApplied, IInv, TypeOK
    <3>2. /\ PollResult(t).status \in {"SUCCEEDED", "CANCELLED", "FAILED", "RUNNING"}
          /\ PollResult(t).status = "SUCCEEDED" => task[t].says = "done"
      BY <2>1, PollResultType DEF IInv
    <3>3. row[k].status \in Opened
      BY <2>3 DEF Exists, Stored, Opened
    <3>4. QED
      BY <2>1, <2>2, <3>1, <3>2, <3>3, OpenShows DEF Opened, Closing, CanCancel, LocalActive
  <2>4. CASE ~ (Exists(k) /\ row[k].status \notin Terminal)
    BY <1>7, <2>2, <2>4, NoneGoes DEF PollApplied
  <2>5. QED
    BY <2>3, <2>4
<1>8. CASE HandlerEntered(t)
  <2> DEFINE k == task[t].job
  <2>1. /\ k \in Jobs /\ remote[k] = "done" /\ row[k].status \in Terminal \cup {"gone"}
    BY <1>8 DEF HandlerEntered, IInv, TaskInv, At
  <2>2. \A j \in Jobs : row'[j].status = row[j].status
    BY <1>8, <2>1, SameEffect DEF HandlerEntered, IInv
  <2>3. PhaseOf(row[k].status) \in {"succeeded", "closed", "gone"}
    BY <2>1, PhaseCases DEF Terminal
  <2>4. Promise!RunContinuation(k)
    BY <1>8, <2>1, <2>2, <2>3 DEF HandlerEntered, Promise!RunContinuation
  <2>5. QED
    BY <2>1, <2>4 DEF Shown, Promise!PromiseNext
<1>9. CASE CancelAccepted(t)
  <2> DEFINE j == task[t].job
  <2>1. j \in Jobs
    BY <1>9 DEF CancelAccepted, IInv, TaskInv, At
  <2>2. PICK v \in {remote[j], "cancelled"} :
          (v = remote[j] \/ remote[j] = "open") /\ remote' = [remote EXCEPT ![j] = v]
    BY <1>9 DEF CancelAccepted
  <2>3. row' = row /\ handled' = handled
    BY <1>9 DEF CancelAccepted
  <2>4. QED
    BY <2>1, <2>2, <2>3, WrapperShows DEF IInv, TypeOK, Verdict
<1>10. CASE \/ Dispatched(t) \/ BeatEnds(t) \/ Fetched(t) \/ DeleteReads(t) \/ EraseAccepted(t)
            \/ \E k \in Jobs : EnqueuePoll(t, k) \/ EnqueueContinuation(t, k)
  <2>1. row' = row /\ remote' = remote /\ handled' = handled
    BY <1>10 DEF Dispatched, BeatEnds, Fetched, DeleteReads, EraseAccepted, EnqueuePoll,
       EnqueueContinuation
  <2>2. QED
    BY <2>1, NoneGoes
<1>11. QED
  BY <1>1, <1>2, <1>3, <1>4, <1>5, <1>6, <1>7, <1>8, <1>9, <1>10 DEF Continues

(* Whatever transactions, calls and messages interleave, the sentinel shows   *)
(* only what JobPromise allows (submit_wrapper_job to cleanup_old_jobs).      *)
THEOREM PromiseIsKept == Spec => KeepsPromise
<1>1. Init => Promise!PromiseInit
  BY PhaseCases DEF Init, Promise!PromiseInit, NewRow
<1>2. ASSUME IInv, [Next]_vars PROVE Shown
  <2>1. ASSUME NEW t \in Threads,
               Starts(t) \/ Continues(t) \/ EraseBreaks(t) \/ Crash(t)
        PROVE  Shown
    <3>1. CASE Crash(t)
      BY <3>1, NoneGoes DEF Crash
    <3>2. QED
      BY <1>2, <2>1, <3>1, StartsShow, ContinuesShow, UpdatesShow
  <2>2. ASSUME NEW j \in Jobs, Elapse(j) PROVE Shown
    <3>1. \A k \in Jobs : row'[k] = row[k] \/ row'[k] = [row[k] EXCEPT !.due = TRUE]
      BY <1>2, <2>2 DEF Elapse, IInv, TypeOK
    <3>2. QED
      BY <1>2, <2>2, <3>1, NoneGoes DEF Elapse, IInv, TypeOK, Row
  <2>3. ASSUME NEW j \in Jobs, RemoteEnds(j) PROVE Shown
    <3>1. PICK v \in Verdict : remote' = [remote EXCEPT ![j] = v]
      BY <2>3 DEF RemoteEnds
    <3>2. QED
      BY <2>3, <3>1, WrapperShows DEF RemoteEnds
  <2>4. CASE UNCHANGED vars
    BY <2>4, NoneGoes DEF vars
  <2>5. QED
    BY <1>2, <2>1, <2>2, <2>3, <2>4 DEF Next
<1>3. QED
  BY <1>1, <1>2, Invariance, PTL DEF Spec, KeepsPromise, Promise!PromiseSpec, Shown

-----------------------------------------------------------------------------
(* A job that is given up has used its attempts.  What a poll has read stays  *)
(* true while it works: attempts only grow, a verdict is final.              *)
PollInv(t) ==
  LET j == task[t].job IN
  /\ task[t].pc \in {"fetch", "apply"} => task[t].tries <= row[j].attempt
  /\ At(t, "apply") /\ task[t].says \in Verdict => remote[j] = task[t].says

GivesUpInv ==
  /\ IInv
  /\ \A t \in Threads : PollInv(t)
  /\ GivenUpOnlyWhenExhausted

Doomed(j) == j \notin ByHand /\ row[j].status = "FAILED" /\ row[j].ext /\ remote[j] = "open"

(* What every step leaves true of every row.                                 *)
Ages(j) ==
  /\ row[j].status # "none" => row'[j].attempt >= row[j].attempt
  /\ remote[j] \in Verdict => remote'[j] = remote[j]
  /\ Doomed(j)' => Doomed(j) \/ row'[j].attempt >= MaxAttempts

LEMMA AgesKeep ==
  ASSUME GivesUpInv, IInv', \A j \in Jobs : Ages(j),
         \A t \in Threads : task'[t] = task[t] \/ PollInv(t)'
  PROVE  GivesUpInv'
<1>1. ASSUME NEW u \in Threads, task'[u] = task[u] PROVE PollInv(u)'
  <2> DEFINE j == task[u].job
  <2>1. CASE task[u].pc \in {"fetch", "apply"}
    <3>1. j \in Jobs /\ row[j].status # "none" /\ row[j] \in Row /\ row'[j] \in Row /\ task[u].tries \in Nat
      BY <2>1 DEF GivesUpInv, IInv, TaskInv, TypeOK, Task, At
    <3>2. task[u].tries <= row[j].attempt /\ row[j].attempt <= row'[j].attempt
      BY <2>1, <3>1 DEF GivesUpInv, PollInv, Ages, Row
    <3>3. task[u].tries <= row'[j].attempt
      BY <3>1, <3>2 DEF Row
    <3>4. At(u, "apply") /\ task[u].says \in Verdict => remote'[j] = task[u].says
      BY <3>1 DEF GivesUpInv, PollInv, Ages
    <3>5. QED
      BY <1>1, <3>3, <3>4 DEF PollInv, At
  <2>2. CASE task[u].pc \notin {"fetch", "apply"}
    BY <1>1, <2>2 DEF PollInv, At
  <2>3. QED
    BY <2>1, <2>2
<1>2. ASSUME NEW j \in Jobs, Doomed(j)' PROVE row'[j].attempt >= MaxAttempts
  <2>1. \/ row[j].status # "none" /\ row[j].attempt >= MaxAttempts
        \/ row'[j].attempt >= MaxAttempts
    BY <1>2 DEF Ages, Doomed, GivesUpInv, GivenUpOnlyWhenExhausted
  <2>2. row[j] \in Row /\ row'[j] \in Row /\ MaxAttempts \in Nat
    BY BoundAssumption DEF GivesUpInv, IInv, TypeOK
  <2>3. QED
    BY <2>1, <2>2 DEF Ages, Row
<1>3. QED
  BY <1>1, <1>2 DEF GivesUpInv, GivenUpOnlyWhenExhausted, Doomed

LEMMA SameAges ==
  ASSUME IInv, \A j \in Jobs : row'[j].status = row[j].status /\ row'[j].ext = row[j].ext
                               /\ row'[j].attempt = row[j].attempt,
         remote' = remote
  PROVE  \A j \in Jobs : Ages(j)
<1>1. \A j \in Jobs : row[j].attempt \in Nat
  BY DEF IInv, TypeOK, Row
<1>2. QED
  BY <1>1 DEF Ages, Doomed

(* A write to one row that fails the job only for a reason.                  *)
LEMMA OneAges ==
  ASSUME IInv, NEW k \in Jobs, \A j \in Jobs \ {k} : row'[j] = row[j], remote' = remote,
         row[k].status = "none" \/ (row'[k].attempt \in Nat /\ row'[k].attempt >= row[k].attempt),
         row'[k].status = "FAILED" /\ row'[k].ext =>
           \/ k \in ByHand \/ remote[k] # "open"
           \/ row[k].status = "FAILED" /\ row[k].ext
           \/ row'[k].attempt >= MaxAttempts
  PROVE  \A j \in Jobs : Ages(j)
<1>1. \A j \in Jobs : row[j].attempt \in Nat
  BY DEF IInv, TypeOK, Row
<1>2. Ages(k)
  BY DEF Ages, Doomed
<1>3. ASSUME NEW j \in Jobs \ {k} PROVE Ages(j)
  BY <1>1 DEF Ages, Doomed
<1>4. QED
  BY <1>2, <1>3

LEMMA UpdateAges ==
  ASSUME IInv, NEW k \in Jobs, NEW r, Update(k, r), remote' = remote,
         r.attempt = row[k].attempt,
         r.status = "FAILED" /\ r.ext =>
           \/ k \in ByHand \/ remote[k] # "open"
           \/ row[k].status = "FAILED" /\ row[k].ext
           \/ row[k].attempt >= MaxAttempts
  PROVE  \A j \in Jobs : Ages(j)
<1>1. /\ row'[k] = IF Exists(k) THEN r ELSE row[k]
      /\ \A j \in Jobs \ {k} : row'[j] = row[j]
  BY UpdateEffect DEF IInv
<1>2. row[k].attempt \in Nat
  BY DEF IInv, TypeOK, Row
<1>3. QED
  BY <1>1, <1>2, OneAges

(* Only the wrapper changes, and not what it has decided.                    *)
LEMMA WrapperAges ==
  ASSUME IInv, NEW k \in Jobs, NEW v, remote' = [remote EXCEPT ![k] = v],
         v = remote[k] \/ remote[k] = "open" \/ (remote[k] = "none" /\ ~ row'[k].ext),
         \A j \in Jobs \ {k} : row'[j] = row[j],
         row'[k].attempt = row[k].attempt,
         (row'[k].status = row[k].status /\ row'[k].ext = row[k].ext) \/ ~ row'[k].ext
  PROVE  \A j \in Jobs : Ages(j)
<1>1. \A j \in Jobs : row[j].attempt \in Nat
  BY DEF IInv, TypeOK, Row
<1>2. ASSUME NEW j \in Jobs \ {k} PROVE Ages(j)
  BY <1>1 DEF Ages, Doomed, IInv, TypeOK
<1>3. Ages(k)
  BY <1>1 DEF Ages, Doomed, IInv, TypeOK, Verdict
<1>4. QED
  BY <1>2, <1>3
LEMMA AppliedKeeps ==
  ASSUME NEW j \in Jobs, NEW says, row[j] \in Row
  PROVE  /\ Applied(j, says).attempt = row[j].attempt
         /\ Applied(j, says).status = "FAILED" => says = "failed"
<1> DEFINE r == Applied(j, says)
<1>1. CASE says = "done"
  <2>1. r = [row[j] EXCEPT !.status = "SUCCEEDED", !.pending = j \in Continued]
    BY <1>1 DEF Applied
  <2>2. QED
    BY <2>1 DEF Row
<1>2. CASE says = "cancelled"
  BY <1>2 DEF Applied, Row
<1>3. CASE says = "failed"
  BY <1>3 DEF Applied, Row
<1>4. CASE says \notin {"done", "cancelled", "failed"}
  <2>1. r = [row[j] EXCEPT !.status = "RUNNING"]
    BY <1>4 DEF Applied
  <2>2. QED
    BY <2>1 DEF Row
<1>5. QED
  BY <1>1, <1>2, <1>3, <1>4

LEMMA ResultFails ==
  ASSUME IInv, NEW t \in Threads, At(t, "apply"), PollInv(t)
  PROVE  LET k == task[t].job IN
         /\ PollResult(t).attempt = row[k].attempt
         /\ PollResult(t).status = "FAILED" => remote[k] # "open" \/ row[k].attempt >= MaxAttempts
<1> DEFINE k == task[t].job
           r == Applied(k, task[t].says)
<1>1. k \in Jobs /\ row[k] \in Row /\ task[t].tries \in Nat /\ MaxAttempts \in Nat
  BY BoundAssumption DEF IInv, TypeOK, TaskInv, At, Task
<1>2. /\ r.attempt = row[k].attempt /\ r \in Row
      /\ r.status = "FAILED" => task[t].says = "failed"
  BY <1>1, AppliedKeeps, AppliedType
<1>3. task[t].says = "failed" => remote[k] # "open"
  BY DEF PollInv, Verdict
<1>4. task[t].tries >= MaxAttempts => row[k].attempt >= MaxAttempts
  BY <1>1 DEF PollInv, At, Row
<1> HIDE DEF r
<1>5. \/ PollResult(t) = r
      \/ /\ task[t].tries >= MaxAttempts
         /\ PollResult(t) = [r EXCEPT !.status = "FAILED", !.pending = FALSE, !.due = TRUE]
      \/ r.status \notin Terminal /\ PollResult(t) = [r EXCEPT !.due = FALSE]
  BY DEF PollResult, r
<1>6. QED
  BY <1>1, <1>2, <1>3, <1>4, <1>5 DEF Row, Terminal

LEMMA WebhookAges ==
  ASSUME IInv, NEW t \in Threads, NEW k \in Jobs, NEW says \in {"open"} \cup Verdict,
         Webhook(t, k, says)
  PROVE  \A j \in Jobs : Ages(j)
<1>1. /\ \A i \in Jobs \ {k} : row'[i] = row[i]
      /\ row'[k] = Applied(k, says)
      /\ remote' = remote /\ row[k] \in Row
  BY DEF Webhook, IInv, TypeOK
<1>2. says = "failed" => remote[k] # "open"
  BY DEF Webhook
<1>3. row'[k].attempt = row[k].attempt /\ (row'[k].status = "FAILED" => says = "failed")
  BY <1>1, AppliedKeeps
<1>4. row[k].attempt \in Nat
  BY <1>1 DEF Row
<1>5. QED
  BY <1>1, <1>2, <1>3, <1>4, OneAges

LEMMA StartsAge ==
  ASSUME IInv, NEW t \in Threads, Starts(t)
  PROVE  \A j \in Jobs : Ages(j)
<1>1. CASE BeatClaimsPolls(t)
  <2>1. \A j \in Jobs : row'[j] = row[j] \/ row'[j] = [row[j] EXCEPT !.due = FALSE]
    BY <1>1 DEF BeatClaimsPolls
  <2>2. QED
    BY <1>1, <2>1, SameAges DEF BeatClaimsPolls, IInv, TypeOK, Row
<1>2. ASSUME NEW k \in Jobs, Create(t, k) PROVE \A j \in Jobs : Ages(j)
  <2>1. /\ \A i \in Jobs \ {k} : row'[i] = row[i]
        /\ row[k].status = "none" /\ row'[k].status = "QUEUED" /\ remote' = remote
    BY <1>2 DEF Create, IInv, TypeOK, NewRow
  <2>2. QED
    BY <2>1, OneAges
<1>3. ASSUME NEW k \in Jobs, PollStarts(t, k) PROVE \A j \in Jobs : Ages(j)
  <2>1. /\ \A i \in Jobs \ {k} : row'[i] = row[i]
        /\ row'[k] = row[k] \/ row'[k] = [row[k] EXCEPT !.attempt = @ + 1]
        /\ remote' = remote /\ row[k] \in Row
    BY <1>3 DEF PollStarts, IInv, TypeOK
  <2>2. /\ row'[k].status = row[k].status /\ row'[k].ext = row[k].ext
        /\ row'[k].attempt \in Nat /\ row'[k].attempt >= row[k].attempt
    BY <2>1 DEF Row
  <2>3. QED
    BY <2>1, <2>2, OneAges
<1>4. ASSUME NEW k \in Jobs, ContinuationStarts(t, k) PROVE \A j \in Jobs : Ages(j)
  <2>1. /\ \A i \in Jobs \ {k} : row'[i] = row[i]
        /\ remote' = remote /\ row[k] \in Row
    BY <1>4 DEF ContinuationStarts, IInv, TypeOK
  <2>2. \/ row'[k] = row[k]
        \/ row[k].status = "SUCCEEDED" /\ row'[k] = [row[k] EXCEPT !.status = "FAILED"]
    BY <1>4 DEF ContinuationStarts, IInv, TypeOK
  <2>3. row[k].status = "SUCCEEDED" => remote[k] # "open"
    BY DEF IInv, RowInv
  <2>4. row'[k].attempt = row[k].attempt /\ row[k].attempt \in Nat
    BY <2>1, <2>2 DEF Row
  <2>5. QED
    BY <2>1, <2>2, <2>3, <2>4, OneAges
<1>5. ASSUME NEW k \in Jobs, CancelRequested(t, k) PROVE \A j \in Jobs : Ages(j)
  <2>1. /\ \A i \in Jobs \ {k} : row'[i] = row[i]
        /\ row'[k].attempt = row[k].attempt /\ row[k].attempt \in Nat
        /\ k \in ByHand /\ remote' = remote
    BY <1>5 DEF CancelRequested, IInv, TypeOK, Row
  <2>2. QED
    BY <2>1, OneAges
<1>6. ASSUME NEW k \in Jobs, DeleteByHand(t, k) \/ CleanupOld(t, k)
      PROVE  \A j \in Jobs : Ages(j)
  BY <1>6, SameAges DEF DeleteByHand, CleanupOld
<1>7. ASSUME NEW k \in Jobs, NEW says \in {"open"} \cup Verdict, Webhook(t, k, says)
      PROVE  \A j \in Jobs : Ages(j)
  BY <1>7, WebhookAges
<1>8. QED
  BY <1>1, <1>2, <1>3, <1>4, <1>5, <1>6, <1>7 DEF Starts

LEMMA UpdatesAge ==
  ASSUME IInv, NEW t \in Threads, PollInv(t),
         \/ DispatchFails(t) \/ FetchRaises(t) \/ HandlerReturns(t) \/ HandlerRaises(t)
         \/ HandlerEntered(t) \/ CancelRaises(t) \/ EraseRefused(t) \/ EraseBreaks(t)
         \/ Dropped(t) \/ SubmitSaved(t)
  PROVE  \A j \in Jobs : Ages(j)
<1> DEFINE k == task[t].job
<1>1. k \in Jobs /\ row[k] \in Row /\ TaskInv(t) /\ task[t].tries \in Nat
  BY DEF IInv, TypeOK, TaskInv, At, Task, DispatchFails, FetchRaises, HandlerReturns, HandlerRaises,
     HandlerEntered, CancelRaises, EraseRefused, EraseBreaks, Dropped, SubmitSaved
<1>2. remote' = remote
  BY DEF DispatchFails, FetchRaises, HandlerReturns, HandlerRaises, HandlerEntered,
     CancelRaises, EraseRefused, EraseBreaks, Dropped, SubmitSaved
<1>3. CASE row' = row
  BY <1>2, <1>3, SameAges
<1>4. ASSUME NEW r, Update(k, r), r.attempt = row[k].attempt,
             r.status = "FAILED" /\ r.ext =>
               \/ k \in ByHand \/ remote[k] # "open"
               \/ row[k].status = "FAILED" /\ row[k].ext
               \/ row[k].attempt >= MaxAttempts
      PROVE  \A j \in Jobs : Ages(j)
  BY <1>1, <1>2, <1>4, UpdateAges
<1>5. ASSUME NEW s \in Status, NEW p \in BOOLEAN, NEW d \in BOOLEAN, NEW e \in BOOLEAN
      PROVE  /\ [row[k] EXCEPT !.status = s].attempt = row[k].attempt
             /\ [row[k] EXCEPT !.status = s].status = s
             /\ [row[k] EXCEPT !.status = s, !.pending = p, !.due = d].attempt = row[k].attempt
             /\ [row[k] EXCEPT !.status = s, !.ext = e, !.due = d].attempt = row[k].attempt
             /\ [row[k] EXCEPT !.status = s, !.ext = e, !.due = d].status = s
             /\ [row[k] EXCEPT !.pending = p, !.due = d].attempt = row[k].attempt
             /\ [row[k] EXCEPT !.pending = p, !.due = d].status = row[k].status
             /\ [row[k] EXCEPT !.pending = p, !.due = d].ext = row[k].ext
             /\ [row[k] EXCEPT !.due = d].attempt = row[k].attempt
             /\ [row[k] EXCEPT !.due = d].status = row[k].status
             /\ [row[k] EXCEPT !.due = d].ext = row[k].ext
  BY <1>1 DEF Row
<1>6. {"FAILED", "DELETE_FAILED", "gone", "WAITING_WEBHOOK"} \subseteq Status
  BY DEF Status, Stored, Terminal, CanCancel, LocalActive
<1>7. CASE Dropped(t)
  BY <1>4, <1>5, <1>6, <1>7 DEF Dropped
<1>8. CASE SubmitSaved(t)
  BY <1>4, <1>5, <1>6, <1>8 DEF SubmitSaved
<1>9. CASE CancelRaises(t)
  <2>1. k \in ByHand
    BY <1>1, <1>9 DEF CancelRaises, TaskInv, At
  <2>2. QED
    BY <1>4, <1>5, <1>6, <1>9, <2>1 DEF CancelRaises
<1>10. CASE EraseRefused(t)
  <2>1. task[t].cancels => k \in ByHand
    BY <1>1, <1>10 DEF EraseRefused, TaskInv, At
  <2>2. QED
    BY <1>4, <1>5, <1>6, <1>10, <2>1 DEF EraseRefused
<1>11. CASE EraseBreaks(t)
  <2>1. task[t].cancels => k \in ByHand
    BY <1>1, <1>11 DEF EraseBreaks, TaskInv, At
  <2>2. Update(k, IF task[t].cancels THEN [row[k] EXCEPT !.status = "FAILED"] ELSE row[k])
    BY <1>11 DEF EraseBreaks
  <2>3. QED
    BY <1>4, <1>5, <1>6, <2>1, <2>2
<1>12. CASE FetchRaises(t)
  <2>1. task[t].tries >= MaxAttempts => row[k].attempt >= MaxAttempts
    BY <1>1, <1>12, BoundAssumption DEF FetchRaises, PollInv, At, Row
  <2>2. Update(k, IF task[t].tries >= MaxAttempts
                  THEN [row[k] EXCEPT !.status = "FAILED", !.pending = FALSE, !.due = TRUE]
                  ELSE [row[k] EXCEPT !.due = FALSE])
    BY <1>12 DEF FetchRaises
  <2>3. CASE task[t].tries >= MaxAttempts
    <3> DEFINE r == [row[k] EXCEPT !.status = "FAILED", !.pending = FALSE, !.due = TRUE]
    <3>1. Update(k, r)
      BY <2>2, <2>3
    <3>2. r.attempt = row[k].attempt
      BY <1>1 DEF Row
    <3>3. QED
      BY <1>4, <2>1, <2>3, <3>1, <3>2
  <2>4. CASE ~ (task[t].tries >= MaxAttempts)
    <3> DEFINE r == [row[k] EXCEPT !.due = FALSE]
    <3>1. Update(k, r)
      BY <2>2, <2>4
    <3>2. r.attempt = row[k].attempt /\ r.status = row[k].status /\ r.ext = row[k].ext
      BY <1>1 DEF Row
    <3>3. QED
      BY <1>4, <3>1, <3>2
  <2>5. QED
    BY <2>3, <2>4
<1>13. CASE HandlerRaises(t)
  <2>1. remote[k] # "open"
    BY <1>1, <1>13 DEF HandlerRaises, TaskInv, At
  <2>2. QED
    BY <1>4, <1>5, <1>6, <1>13, <2>1 DEF HandlerRaises
<1>14. CASE DispatchFails(t) \/ HandlerEntered(t) \/ HandlerReturns(t)
  <2>1. row' = row \/ \E p, d \in BOOLEAN : Update(k, [row[k] EXCEPT !.pending = p, !.due = d])
    BY <1>14 DEF DispatchFails, HandlerEntered, HandlerReturns
  <2>2. ASSUME NEW p \in BOOLEAN, NEW d \in BOOLEAN,
               Update(k, [row[k] EXCEPT !.pending = p, !.due = d])
        PROVE  \A j \in Jobs : Ages(j)
    <3> DEFINE r == [row[k] EXCEPT !.pending = p, !.due = d]
    <3>1. r.attempt = row[k].attempt /\ r.status = row[k].status /\ r.ext = row[k].ext
      BY <1>1 DEF Row
    <3>2. Update(k, r)
      BY <2>2
    <3> HIDE DEF r
    <3>3. QED
      BY <1>4, <3>1, <3>2
  <2>3. QED
    BY <1>3, <2>1, <2>2
<1>15. QED
  BY <1>7, <1>8, <1>9, <1>10, <1>11, <1>12, <1>13, <1>14

LEMMA ContinuesAge ==
  ASSUME IInv, NEW t \in Threads, PollInv(t), Continues(t)
  PROVE  \A j \in Jobs : Ages(j)
<1>1. CASE \/ DispatchFails(t) \/ FetchRaises(t) \/ HandlerReturns(t) \/ HandlerRaises(t)
           \/ HandlerEntered(t) \/ CancelRaises(t) \/ EraseRefused(t) \/ Dropped(t)
           \/ SubmitSaved(t)
  BY <1>1, UpdatesAge
<1>2. CASE SubmitAccepted(t)
  <2> DEFINE j == task[t].job
  <2>1. j \in Jobs /\ remote[j] = "none" /\ ~ row[j].ext
    BY <1>2 DEF SubmitAccepted, IInv, TaskInv, At, Submitting
  <2>2. remote' = [remote EXCEPT ![j] = "open"] /\ row' = row
    BY <1>2 DEF SubmitAccepted
  <2>3. QED
    BY <2>1, <2>2, WrapperAges
<1>3. CASE SubmitRaises(t)
  <2> DEFINE j == task[t].job
             r == [row[j] EXCEPT !.status = "FAILED"]
  <2>1. j \in Jobs /\ remote[j] = "none" /\ row[j] \in Row /\ ~ row[j].ext
    BY <1>3 DEF SubmitRaises, IInv, TypeOK, TaskInv, At, Submitting
  <2>2. PICK v \in {"none", "open"} : remote' = [remote EXCEPT ![j] = v]
    BY <1>3 DEF SubmitRaises
  <2>3. Update(j, r)
    BY <1>3 DEF SubmitRaises
  <2>4. r.attempt = row[j].attempt /\ ~ r.ext
    BY <2>1 DEF Row
  <2>5. (row'[j] = IF Exists(j) THEN r ELSE row[j]) /\ \A k \in Jobs \ {j} : row'[k] = row[k]
    BY <2>1, <2>3, UpdateEffect DEF IInv
  <2> HIDE DEF r
  <2>6. row'[j].attempt = row[j].attempt /\ ~ row'[j].ext
    BY <2>1, <2>4, <2>5
  <2>7. QED
    BY <2>1, <2>2, <2>5, <2>6, WrapperAges
<1>4. CASE AfterUpdate(t)
  <2> DEFINE k == task[t].job
             r == [row[k] EXCEPT !.pending = TRUE, !.due = FALSE]
  <2>1. r.status = row[k].status /\ r.ext = row[k].ext /\ r.attempt = row[k].attempt
    BY <1>4 DEF AfterUpdate, IInv, TypeOK, Row, TaskInv, At
  <2>2. row' = [row EXCEPT ![k] = r] \/ row' = [row EXCEPT ![k] = row[k]]
    BY <1>4 DEF AfterUpdate
  <2> HIDE DEF r
  <2>3. \A j \in Jobs : row'[j].status = row[j].status /\ row'[j].ext = row[j].ext
                         /\ row'[j].attempt = row[j].attempt
    BY <2>1, <2>2 DEF IInv, TypeOK
  <2>4. QED
    BY <1>4, <2>3, SameAges DEF AfterUpdate
<1>5. CASE BeatClaimsContinuations(t)
  <2>1. \A j \in Jobs : row'[j] = row[j] \/ row'[j] = [row[j] EXCEPT !.due = FALSE]
    BY <1>5 DEF BeatClaimsContinuations
  <2>2. QED
    BY <1>5, <2>1, SameAges DEF BeatClaimsContinuations, IInv, TypeOK, Row
<1>6. CASE PollApplied(t)
  <2> DEFINE k == task[t].job
  <2>1. k \in Jobs /\ remote' = remote /\ row[k].attempt \in Nat
    BY <1>6 DEF PollApplied, IInv, TaskInv, At, TypeOK, Row
  <2>2. CASE Exists(k) /\ row[k].status \notin Terminal
    <3>1. row'[k] = PollResult(t) /\ \A i \in Jobs \ {k} : row'[i] = row[i]
      BY <1>6, <2>1, <2>2 DEF PollApplied, IInv, TypeOK
    <3>2. /\ PollResult(t).attempt = row[k].attempt
          /\ PollResult(t).status = "FAILED" => remote[k] # "open" \/ row[k].attempt >= MaxAttempts
      BY <1>6, ResultFails DEF PollApplied
    <3>3. QED
      BY <2>1, <3>1, <3>2, OneAges
  <2>3. CASE ~ (Exists(k) /\ row[k].status \notin Terminal)
    BY <1>6, <2>1, <2>3, SameAges DEF PollApplied
  <2>4. QED
    BY <2>2, <2>3
<1>7. CASE CancelAccepted(t)
  <2> DEFINE j == task[t].job
  <2>1. j \in Jobs
    BY <1>7 DEF CancelAccepted, IInv, TaskInv, At
  <2>2. PICK v \in {remote[j], "cancelled"} :
          (v = remote[j] \/ remote[j] = "open") /\ remote' = [remote EXCEPT ![j] = v]
    BY <1>7 DEF CancelAccepted
  <2>3. row' = row
    BY <1>7 DEF CancelAccepted
  <2>4. QED
    BY <2>1, <2>2, <2>3, WrapperAges
<1>8. CASE \/ Dispatched(t) \/ BeatEnds(t) \/ Fetched(t) \/ DeleteReads(t) \/ EraseAccepted(t)
           \/ \E k \in Jobs : EnqueuePoll(t, k) \/ EnqueueContinuation(t, k)
  <2>1. row' = row /\ remote' = remote
    BY <1>8 DEF Dispatched, BeatEnds, Fetched, DeleteReads, EraseAccepted, EnqueuePoll,
       EnqueueContinuation
  <2>2. QED
    BY <2>1, SameAges
<1>9. QED
  BY <1>1, <1>2, <1>3, <1>4, <1>5, <1>6, <1>7, <1>8 DEF Continues

(* What the moving thread itself has read.                                   *)
LEMMA MoverPolls ==
  ASSUME IInv, NEW t \in Threads, PollInv(t), Starts(t) \/ Continues(t) \/ EraseBreaks(t) \/ Crash(t)
  PROVE  PollInv(t)'
<1>1. CASE Fetched(t)
  <2>1. /\ task'[t] = [task[t] EXCEPT !.pc = "apply", !.says = remote[task[t].job]]
        /\ remote' = remote /\ row' = row /\ task[t] \in Task /\ At(t, "fetch")
    BY <1>1, GotoEffect DEF Fetched, IInv, TypeOK
  <2>2. task'[t].job = task[t].job /\ task'[t].tries = task[t].tries
        /\ task'[t].says = remote[task[t].job]
    BY <2>1 DEF Task
  <2>3. QED
    BY <2>1, <2>2 DEF PollInv, At
<1>2. ASSUME NEW k \in Jobs, PollStarts(t, k), task' # task PROVE PollInv(t)'
  <2>1. /\ row'[k] = [row[k] EXCEPT !.attempt = @ + 1]
        /\ task'[t] = [Idle EXCEPT !.pc = "fetch", !.job = k, !.tries = row[k].attempt + 1]
        /\ row[k] \in Row
    BY <1>2, GotoEffect DEF PollStarts, IInv, TypeOK
  <2>2. row'[k].attempt = row[k].attempt + 1 /\ row[k].attempt \in Nat
    BY <2>1 DEF Row
  <2>3. task'[t].pc = "fetch" /\ task'[t].job = k /\ task'[t].tries = row[k].attempt + 1
    BY <2>1 DEF Idle
  <2>4. QED
    BY <2>2, <2>3 DEF PollInv, At
<1>3. CASE task'[t] = task[t] /\ task[t].pc \notin {"fetch", "apply"}
  BY <1>3 DEF PollInv, At
<1>4. CASE task'[t].pc \notin {"fetch", "apply"}
  BY <1>4 DEF PollInv, At
<1>5. task[t] \in Task /\ task \in [Threads -> Task]
  BY DEF IInv, TypeOK
<1>6. ASSUME NEW p \in Places \ {"fetch", "apply"}, Move(t, p) PROVE task'[t].pc \notin {"fetch", "apply"}
  BY <1>5, <1>6, MoveType DEF Move, Goto
<1>7. ASSUME NEW p \in Places \ {"fetch", "apply"}, NEW k \in Jobs, Begin(t, p, k)
      PROVE  task'[t].pc \notin {"fetch", "apply"}
  BY <1>5, <1>7, BeginType DEF Begin, Goto
<1>8. ASSUME Stop(t) PROVE task'[t].pc \notin {"fetch", "apply"}
  BY <1>5, <1>8 DEF Stop, Goto, Idle
<1>9. ASSUME NEW k, NEW w, NEW c, Goto(t, DeleteTask(k, w, c))
      PROVE  task'[t].pc \notin {"fetch", "apply"}
  BY <1>5, <1>9 DEF Goto, DeleteTask, Idle
<1>10. {"submit", "save", "after", "dispatch", "mark", "handle", "cancel", "delete", "erase", "drop"}
         \subseteq Places \ {"fetch", "apply"}
  BY DEF Places
<1>11. CASE \/ BeatClaimsPolls(t) \/ BeatClaimsContinuations(t)
            \/ \E k \in Jobs : EnqueuePoll(t, k) \/ EnqueueContinuation(t, k)
  <2>1. CASE BeatClaimsPolls(t) \/ BeatClaimsContinuations(t)
    BY <1>4, <1>5, <2>1 DEF BeatClaimsPolls, BeatClaimsContinuations, Goto, Idle
  <2>2. ASSUME NEW k \in Jobs, EnqueuePoll(t, k) \/ EnqueueContinuation(t, k)
        PROVE  PollInv(t)'
    <3>1. task'[t] = [task[t] EXCEPT !.todo = @ \ {k}] /\ task[t].pc \in {"polls", "conts"}
      BY <1>5, <2>2 DEF EnqueuePoll, EnqueueContinuation, Goto, At
    <3>2. task'[t].pc = task[t].pc
      BY <1>5, <3>1 DEF Task
    <3>3. QED
      BY <1>4, <3>1, <3>2
  <2>3. QED
    BY <1>11, <2>1, <2>2
<1>12. ASSUME NEW k \in Jobs, Create(t, k) \/ DeleteByHand(t, k) \/ CleanupOld(t, k)
       PROVE  PollInv(t)'
  BY <1>4, <1>7, <1>9, <1>10, <1>12 DEF Create, DeleteByHand, CleanupOld
<1>13. ASSUME NEW k \in Jobs, PollStarts(t, k) PROVE PollInv(t)'
  BY <1>2, <1>3, <1>13 DEF PollStarts, At
<1>14. ASSUME NEW k \in Jobs, ContinuationStarts(t, k) PROVE PollInv(t)'
  <2>1. Begin(t, "mark", k) \/ task' = task
    BY <1>14 DEF ContinuationStarts
  <2>2. QED
    BY <1>3, <1>4, <1>7, <1>10, <1>14, <2>1 DEF ContinuationStarts, At
<1>15. ASSUME NEW k \in Jobs, CancelRequested(t, k) PROVE PollInv(t)'
  <2>1. Begin(t, "cancel", k) \/ Goto(t, DeleteTask(k, FALSE, TRUE))
    BY <1>15 DEF CancelRequested, Begin
  <2>2. QED
    BY <1>4, <1>7, <1>9, <1>10, <2>1
<1>16. ASSUME NEW k \in Jobs, NEW says, Webhook(t, k, says) PROVE PollInv(t)'
  BY <1>4, <1>7, <1>10, <1>16 DEF Webhook
<1>17. CASE \/ SubmitAccepted(t) \/ SubmitRaises(t) \/ SubmitSaved(t) \/ Dispatched(t)
            \/ DispatchFails(t) \/ BeatEnds(t) \/ FetchRaises(t) \/ HandlerEntered(t)
            \/ HandlerRaises(t) \/ CancelRaises(t) \/ EraseAccepted(t) \/ EraseRefused(t)
            \/ EraseBreaks(t) \/ Dropped(t) \/ Crash(t)
  <2>1. Stop(t) \/ \E p \in Places \ {"fetch", "apply"} : Move(t, p)
    BY <1>10, <1>17 DEF SubmitAccepted, SubmitRaises, SubmitSaved, Dispatched, DispatchFails, BeatEnds,
       FetchRaises, HandlerEntered, HandlerRaises, CancelRaises, EraseAccepted, EraseRefused,
       EraseBreaks, Dropped, Crash
  <2>2. QED
    BY <1>4, <1>6, <1>8, <2>1
<1>18. CASE \/ AfterUpdate(t) \/ PollApplied(t) \/ HandlerReturns(t) \/ CancelAccepted(t)
            \/ DeleteReads(t)
  <2>1. \/ Stop(t) \/ \E p \in Places \ {"fetch", "apply"} : Move(t, p)
        \/ \E k, w, c : Goto(t, DeleteTask(k, w, c))
    BY <1>10, <1>18 DEF AfterUpdate, PollApplied, HandlerReturns, CancelAccepted, DeleteReads
  <2>2. QED
    BY <1>4, <1>6, <1>8, <1>9, <2>1
<1>19. QED
  BY <1>1, <1>11, <1>12, <1>13, <1>14, <1>15, <1>16, <1>17, <1>18 DEF Starts, Continues

LEMMA MovesAlone ==
  ASSUME IInv, NEW t \in Threads, Starts(t) \/ Continues(t) \/ EraseBreaks(t) \/ Crash(t)
  PROVE  \A u \in Threads \ {t} : task'[u] = task[u]
<1>1. task' = task \/ \E r : Goto(t, r)
  <2>1. CASE Starts(t)
    BY <2>1 DEF Starts, BeatClaimsPolls, Create, PollStarts, ContinuationStarts, CancelRequested,
       DeleteByHand, CleanupOld, Webhook, Begin
  <2>2. CASE \/ SubmitAccepted(t) \/ SubmitRaises(t) \/ SubmitSaved(t)
             \/ AfterUpdate(t) \/ Dispatched(t) \/ DispatchFails(t)
             \/ \E j \in Jobs : EnqueuePoll(t, j) \/ EnqueueContinuation(t, j)
             \/ BeatClaimsContinuations(t) \/ BeatEnds(t)
    BY <2>2 DEF SubmitAccepted, SubmitRaises, SubmitSaved, AfterUpdate, Dispatched, DispatchFails,
       EnqueuePoll, EnqueueContinuation, BeatClaimsContinuations, BeatEnds, Move, Stop
  <2>3. CASE \/ Fetched(t) \/ FetchRaises(t) \/ PollApplied(t)
             \/ HandlerEntered(t) \/ HandlerReturns(t) \/ HandlerRaises(t)
             \/ CancelAccepted(t) \/ CancelRaises(t)
             \/ DeleteReads(t) \/ EraseAccepted(t) \/ EraseRefused(t) \/ Dropped(t)
             \/ EraseBreaks(t) \/ Crash(t)
    BY <2>3 DEF Fetched, FetchRaises, PollApplied, HandlerEntered, HandlerReturns, HandlerRaises,
       CancelAccepted, CancelRaises, DeleteReads, EraseAccepted, EraseRefused, Dropped, EraseBreaks,
       Crash, Move, Stop
  <2>4. QED
    BY <2>1, <2>2, <2>3 DEF Continues
<1>2. QED
  BY <1>1, GotoEffect DEF IInv

LEMMA GivesUpNext == GivesUpInv /\ [Next]_vars => GivesUpInv'
<1> SUFFICES ASSUME GivesUpInv, [Next]_vars PROVE GivesUpInv'
  OBVIOUS
<1>1. IInv /\ IInv'
  BY NextKeeps DEF GivesUpInv
<1>2. ASSUME NEW t \in Threads, Starts(t) \/ Continues(t) \/ EraseBreaks(t) \/ Crash(t)
      PROVE  GivesUpInv'
  <2>1. PollInv(t) /\ PollInv(t)'
    BY <1>1, <1>2, MoverPolls DEF GivesUpInv
  <2>2. \A u \in Threads \ {t} : task'[u] = task[u]
    BY <1>1, <1>2, MovesAlone
  <2>3. \A j \in Jobs : Ages(j)
    <3>1. CASE Starts(t)
      BY <1>1, <3>1, StartsAge
    <3>2. CASE Continues(t)
      BY <1>1, <2>1, <3>2, ContinuesAge
    <3>3. CASE EraseBreaks(t)
      BY <1>1, <2>1, <3>3, UpdatesAge
    <3>4. CASE Crash(t)
      BY <1>1, <3>4, SameAges DEF Crash
    <3>5. QED
      BY <1>2, <3>1, <3>2, <3>3, <3>4
  <2>4. QED
    BY <1>1, <2>1, <2>2, <2>3, AgesKeep
<1>3. ASSUME NEW j \in Jobs, Elapse(j) PROVE GivesUpInv'
  <2>1. \A k \in Jobs : row'[k] = row[k] \/ row'[k] = [row[k] EXCEPT !.due = TRUE]
    BY <1>1, <1>3 DEF Elapse, IInv, TypeOK
  <2>2. \A k \in Jobs : Ages(k)
    BY <1>1, <1>3, <2>1, SameAges DEF Elapse, IInv, TypeOK, Row
  <2>3. task' = task
    BY <1>3 DEF Elapse
  <2>4. QED
    BY <1>1, <2>2, <2>3, AgesKeep
<1>4. ASSUME NEW j \in Jobs, RemoteEnds(j) PROVE GivesUpInv'
  <2>1. PICK v \in Verdict : remote' = [remote EXCEPT ![j] = v]
    BY <1>4 DEF RemoteEnds
  <2>2. row' = row /\ task' = task /\ remote[j] = "open"
    BY <1>4 DEF RemoteEnds
  <2>3. \A k \in Jobs : Ages(k)
    BY <1>1, <2>1, <2>2, WrapperAges
  <2>4. QED
    BY <1>1, <2>2, <2>3, AgesKeep
<1>5. CASE UNCHANGED vars
  BY <1>5 DEF vars, GivesUpInv, IInv, PollInv, At, GivenUpOnlyWhenExhausted, TypeOK, RowInv, TaskInv,
     OneSubmitter
<1>6. QED
  BY <1>2, <1>3, <1>4, <1>5 DEF Next

(* A job the wrapper still works on is marked FAILED only after MaxAttempts   *)
(* polls, however polls, webhooks, retries and crashes interleave             *)
(* (_handle_poll_failure and the attempt limit of poll_job_once).             *)
THEOREM GivenUpRightly == Spec => []GivenUpOnlyWhenExhausted
<1>1. Init => GivesUpInv
  <2>1. Init => IInv
    BY InitInv
  <2>2. Init => (\A t \in Threads : PollInv(t)) /\ GivenUpOnlyWhenExhausted
    BY DEF Init, PollInv, At, Idle, NewRow, GivenUpOnlyWhenExhausted
  <2>3. QED
    BY <2>1, <2>2 DEF GivesUpInv
<1>2. GivesUpInv => GivenUpOnlyWhenExhausted
  BY DEF GivesUpInv
<1>3. QED
  BY <1>1, <1>2, GivesUpNext, PTL DEF Spec
=============================================================================
