-------------------------- MODULE BackupModeProofs --------------------------
(***************************************************************************)
(* What holds of BackupMode for any number of maintenance jobs, visits and    *)
(* outages.  FlagTellsWindow speaks of moments at which nothing is under way; *)
(* it stands on what a thread that is about to mark the flag may rely on:     *)
(* the window is as its call has left it, unless another job was under way    *)
(* at the same time, which both have been remembered for (met).               *)
(***************************************************************************)
EXTENDS BackupMode, TLAPS

(* Two jobs under way have met.                                              *)
Meetings == \A s, r \in UnderWay : s # r => s \in met /\ r \in met

(* Who has met nobody marks what is true.                                    *)
MarksTruth ==
  \A s \in Slots : Stands(s, "marking") /\ s \notin met =>
    /\ mjob[s].op = "enter" => window = TRUE
    /\ mjob[s].op = "leave" => window = FALSE

(* Without a doubt the flag tells the window, or somebody is about to set it. *)
FlagOrMark ==
  doubt = FALSE =>
    flag.active = window \/ \E s \in Slots : Stands(s, "marking") /\ mjob[s].op # "other"

IInv == BackupTypeOK /\ Meetings /\ MarksTruth /\ FlagOrMark

-----------------------------------------------------------------------------
(* Slot s goes to place p; the jobs' operations stay.                        *)
Goes(s, p) ==
  /\ desk'[s] = p
  /\ \A r \in Slots \ {s} : desk'[r] = desk[r]
  /\ \A r \in Slots : mjob'[r].op = mjob[r].op

LEMMA GoesEffect ==
  ASSUME BackupTypeOK, NEW s \in Slots, NEW p \in Places_, DeskGoesTo(s, p)
  PROVE  /\ desk' \in [Slots -> Places_] /\ desk'[s] = p
         /\ \A r \in Slots \ {s} : desk'[r] = desk[r]
  BY DEF BackupTypeOK, DeskGoesTo

LEMMA BecomesEffect ==
  ASSUME BackupTypeOK, NEW s \in Slots, Becomes(s, "SUBMITTED") \/ Becomes(s, "SUCCEEDED") \/ Becomes(s, "FAILED")
  PROVE  /\ mjob' \in [Slots -> [op : Operations,
                                 status : {"none", "QUEUED", "SUBMITTED", "SUCCEEDED", "FAILED"}]]
         /\ \A r \in Slots : mjob'[r].op = mjob[r].op
  BY DEF BackupTypeOK, Becomes

LEMMA OutageType ==
  ASSUME BackupTypeOK, Outage PROVE outages' \in 0 .. MaxOutages
  BY BackupAssumption DEF BackupTypeOK, Outage

(* A slot that is not marking goes where it is not under way, and nothing    *)
(* happens to window, flag, met and doubt.                                   *)
LEMMA Aside ==
  ASSUME IInv, NEW s \in Slots, desk[s] # "marking",
         desk'[s] \notin {"calling", "marking"},
         \A r \in Slots \ {s} : desk'[r] = desk[r] /\ mjob'[r].op = mjob[r].op,
         flag'.active = flag.active, UNCHANGED <<window, met, doubt>>
  PROVE  (Meetings /\ MarksTruth /\ FlagOrMark)'
<1>1. Meetings'
  BY DEF IInv, Meetings, UnderWay
<1>2. MarksTruth'
  BY DEF IInv, MarksTruth, Stands
<1>3. FlagOrMark'
  BY DEF IInv, FlagOrMark, Stands
<1>4. QED
  BY <1>1, <1>2, <1>3

(* Nobody goes anywhere, and only statuses or the deadline change.           *)
LEMMA Still ==
  ASSUME IInv, \A r \in Slots : mjob'[r].op = mjob[r].op,
         flag'.active = flag.active, UNCHANGED <<desk, window, met, doubt>>
  PROVE  (Meetings /\ MarksTruth /\ FlagOrMark)'
  BY DEF IInv, Meetings, MarksTruth, FlagOrMark, UnderWay, Stands

-----------------------------------------------------------------------------
LEMMA InitCase == BackupInit => IInv
<1> SUFFICES ASSUME BackupInit PROVE IInv
  OBVIOUS
<1>1. BackupTypeOK
  <2>1. window \in BOOLEAN /\ doubt \in BOOLEAN
    BY DEF BackupInit
  <2>2. flag \in [active : BOOLEAN, overdue : BOOLEAN]
    BY DEF BackupInit
  <2>3. QED
    BY <2>1, <2>2, BackupAssumption DEF BackupInit, BackupTypeOK, NoRow, Operations, Places_
<1>2. \A s \in Slots : desk[s] = "free"
  BY DEF BackupInit
<1>3. flag.active = window
  BY DEF BackupInit
<1>4. QED
  BY <1>1, <1>2, <1>3 DEF IInv, Meetings, MarksTruth, FlagOrMark, UnderWay, Stands

LEMMA EnqueueCase ==
  ASSUME IInv, NEW s \in Slots, NEW op \in Operations, Enqueue(s, op),
         visits' \in 0 .. MaxVisits, UNCHANGED <<window, flag, met, doubt, outages>>
  PROVE  IInv'
<1>1. /\ desk' \in [Slots -> Places_] /\ desk'[s] = "checked"
      /\ \A r \in Slots \ {s} : desk'[r] = desk[r]
  BY GoesEffect DEF IInv, Enqueue, Places_
<1>2. BackupTypeOK'
  BY <1>1 DEF IInv, BackupTypeOK, Enqueue, Operations
<1>3. \A r \in Slots \ {s} : mjob'[r].op = mjob[r].op
  BY DEF IInv, BackupTypeOK, Enqueue
<1>4. desk[s] # "marking"
  BY DEF Enqueue, Stands
<1>5. QED
  BY <1>1, <1>2, <1>3, <1>4, Aside DEF IInv

LEMMA PersonEnqueuesCase ==
  ASSUME IInv, NEW s \in Slots, NEW op \in Operations, PersonEnqueues(s, op)
  PROVE  IInv'
<1>1. visits' \in 0 .. MaxVisits
  BY BackupAssumption DEF IInv, BackupTypeOK, PersonEnqueues
<1>2. QED
  BY <1>1, EnqueueCase DEF PersonEnqueues

LEMMA WatchdogEnqueuesCase ==
  ASSUME IInv, NEW s \in Slots, WatchdogEnqueues(s) PROVE IInv'
<1>1. visits' \in 0 .. MaxVisits
  BY DEF IInv, BackupTypeOK, WatchdogEnqueues
<1>2. QED
  BY <1>1, EnqueueCase DEF WatchdogEnqueues, Operations

LEMMA CreateRowCase ==
  ASSUME IInv, NEW s \in Slots, CreateRow(s) PROVE IInv'
<1>1. /\ desk' \in [Slots -> Places_] /\ desk'[s] = "created"
      /\ \A r \in Slots \ {s} : desk'[r] = desk[r]
  BY GoesEffect DEF IInv, CreateRow, Places_
<1>2. BackupTypeOK'
  BY <1>1 DEF IInv, BackupTypeOK, CreateRow
<1>3. \A r \in Slots : mjob'[r].op = mjob[r].op
  BY DEF IInv, BackupTypeOK, CreateRow
<1>4. QED
  BY <1>1, <1>2, <1>3, Aside DEF IInv, CreateRow, Stands

LEMMA SendMessageCase ==
  ASSUME IInv, NEW s \in Slots, SendMessage(s) PROVE IInv'
<1>1. /\ desk' \in [Slots -> Places_] /\ desk'[s] = "sent"
      /\ \A r \in Slots \ {s} : desk'[r] = desk[r]
  BY GoesEffect DEF IInv, SendMessage, Places_
<1>2. BackupTypeOK'
  BY <1>1 DEF IInv, BackupTypeOK, SendMessage
<1>3. QED
  BY <1>1, <1>2, Aside DEF IInv, SendMessage, Stands

LEMMA SendRefusedCase ==
  ASSUME IInv, NEW s \in Slots, SendRefused(s) PROVE IInv'
<1>1. /\ desk' \in [Slots -> Places_] /\ desk'[s] = "free"
      /\ \A r \in Slots \ {s} : desk'[r] = desk[r]
  BY GoesEffect DEF IInv, SendRefused, Places_
<1>2. BackupTypeOK'
  BY <1>1, BecomesEffect, OutageType DEF IInv, BackupTypeOK, SendRefused
<1>3. QED
  BY <1>1, <1>2, BecomesEffect, Aside DEF IInv, SendRefused, Stands

LEMMA RecordSuccessCase ==
  ASSUME IInv, NEW s \in Slots, RecordSuccess(s) PROVE IInv'
<1>1. /\ desk' \in [Slots -> Places_] /\ desk'[s] = "free"
      /\ \A r \in Slots \ {s} : desk'[r] = desk[r]
  BY GoesEffect DEF IInv, RecordSuccess, Places_
<1>2. BackupTypeOK'
  BY <1>1, BecomesEffect DEF IInv, BackupTypeOK, RecordSuccess
<1>3. QED
  BY <1>1, <1>2, BecomesEffect, Aside DEF IInv, RecordSuccess, Stands

-----------------------------------------------------------------------------
(* Who begins a call while another is under way has met it.                  *)
LEMMA ClaimQueuedCase ==
  ASSUME IInv, NEW s \in Slots, ClaimQueued(s) PROVE IInv'
<1>1. CASE mjob[s].status = "QUEUED"
  <2>1. /\ desk' \in [Slots -> Places_] /\ desk'[s] = "calling"
        /\ \A r \in Slots \ {s} : desk'[r] = desk[r]
    BY <1>1, GoesEffect DEF IInv, ClaimQueued, Places_
  <2>2. /\ mjob' \in [Slots -> [op : Operations,
                                status : {"none", "QUEUED", "SUBMITTED", "SUCCEEDED", "FAILED"}]]
        /\ \A r \in Slots : mjob'[r].op = mjob[r].op
    BY <1>1, BecomesEffect DEF IInv, ClaimQueued
  <2>3. met' = IF UnderWay \ {s} = {} THEN met \ {s} ELSE met \cup UnderWay \cup {s}
    BY <1>1 DEF ClaimQueued
  <2>4. BackupTypeOK'
    BY <2>1, <2>2, <2>3 DEF IInv, BackupTypeOK, ClaimQueued, UnderWay
  <2>5. UnderWay' \subseteq UnderWay \cup {s}
    BY <2>1 DEF UnderWay
  <2>6. Meetings'
    BY <2>3, <2>5 DEF Meetings
  <2>7. MarksTruth'
    <3>1. SUFFICES ASSUME NEW r \in Slots, desk'[r] = "marking", r \notin met'
                   PROVE  /\ mjob[r].op = "enter" => window = TRUE
                          /\ mjob[r].op = "leave" => window = FALSE
      BY <2>2 DEF MarksTruth, Stands, ClaimQueued
    <3>2. r # s /\ desk[r] = "marking"
      BY <2>1, <3>1
    <3>3. r \in UnderWay \ {s}
      BY <3>2 DEF UnderWay
    <3>4. FALSE
      BY <2>3, <3>1, <3>3
    <3>5. QED
      BY <3>4
  <2>8. FlagOrMark'
    BY <2>1, <2>2 DEF IInv, FlagOrMark, Stands, ClaimQueued
  <2>9. QED
    BY <2>4, <2>6, <2>7, <2>8 DEF IInv
<1>2. CASE mjob[s].status # "QUEUED"
  <2>1. /\ desk' \in [Slots -> Places_] /\ desk'[s] = "free"
        /\ \A r \in Slots \ {s} : desk'[r] = desk[r]
    BY <1>2, GoesEffect DEF IInv, ClaimQueued, Places_
  <2>2. BackupTypeOK'
    BY <1>2, <2>1 DEF IInv, BackupTypeOK, ClaimQueued
  <2>3. QED
    BY <1>2, <2>1, <2>2, Aside DEF IInv, ClaimQueued, Stands
<1>3. QED
  BY <1>1, <1>2

(* Whoever stands between call and mark while s is calling has met it.       *)
LEMMA CallersMeet ==
  ASSUME IInv, NEW s \in Slots, desk[s] = "calling"
  PROVE  \A r \in Slots : desk[r] = "marking" => r \in met
  BY DEF IInv, Meetings, UnderWay

LEMMA WindowType ==
  ASSUME IInv, NEW s \in Slots PROVE WindowAfter(s) \in BOOLEAN
  BY DEF IInv, BackupTypeOK, WindowAfter

LEMMA CallConfirmedCase ==
  ASSUME IInv, NEW s \in Slots, CallConfirmed(s) PROVE IInv'
<1>1. /\ desk' \in [Slots -> Places_] /\ desk'[s] = "marking"
      /\ \A r \in Slots \ {s} : desk'[r] = desk[r]
  BY GoesEffect DEF IInv, CallConfirmed, Places_
<1>2. BackupTypeOK'
  BY <1>1, WindowType DEF IInv, BackupTypeOK, CallConfirmed
<1>3. desk[s] = "calling" /\ mjob' = mjob /\ met' = met /\ flag' = flag /\ doubt' = doubt
  BY DEF CallConfirmed, Stands
<1>4. Meetings'
  BY <1>1, <1>3 DEF IInv, Meetings, UnderWay
<1>5. MarksTruth'
  <2>1. /\ mjob[s].op = "enter" => window' = TRUE
        /\ mjob[s].op = "leave" => window' = FALSE
    BY DEF CallConfirmed, WindowAfter
  <2>2. \A r \in Slots \ {s} : desk'[r] = "marking" => r \in met'
    BY <1>1, <1>3, CallersMeet
  <2>3. QED
    BY <1>3, <2>1, <2>2 DEF MarksTruth, Stands
<1>6. FlagOrMark'
  <2>1. CASE mjob[s].op = "other"
    <3>1. window' = window
      BY <2>1 DEF CallConfirmed, WindowAfter
    <3>2. QED
      BY <1>1, <1>3, <3>1 DEF IInv, FlagOrMark, Stands
  <2>2. CASE mjob[s].op # "other"
    BY <1>1, <1>3, <2>2 DEF FlagOrMark, Stands
  <2>3. QED
    BY <2>1, <2>2
<1>7. QED
  BY <1>2, <1>4, <1>5, <1>6 DEF IInv

(* A call that ends without a mark: window may have changed, which leaves a   *)
(* doubt, and whoever is marking has met it.                                 *)
LEMMA Unmarked ==
  ASSUME IInv, NEW s \in Slots, desk[s] # "marking",
         desk'[s] \notin {"calling", "marking"},
         \A r \in Slots \ {s} : desk'[r] = desk[r],
         \A r \in Slots : mjob'[r].op = mjob[r].op,
         window' # window => desk[s] = "calling" /\ doubt' = TRUE,
         window' = window => doubt' = doubt,
         UNCHANGED <<flag, met>>
  PROVE  (Meetings /\ MarksTruth /\ FlagOrMark)'
<1>1. CASE window' = window
  BY <1>1, Aside
<1>2. CASE window' # window
  <2>1. Meetings'
    BY DEF IInv, Meetings, UnderWay
  <2>2. MarksTruth'
    BY <1>2, CallersMeet DEF MarksTruth, Stands
  <2>3. FlagOrMark'
    BY <1>2 DEF FlagOrMark
  <2>4. QED
    BY <2>1, <2>2, <2>3
<1>3. QED
  BY <1>1, <1>2

LEMMA CallRaisesCase ==
  ASSUME IInv, NEW s \in Slots, CallRaises(s) PROVE IInv'
<1>1. /\ desk' \in [Slots -> Places_] /\ desk'[s] = "free"
      /\ \A r \in Slots \ {s} : desk'[r] = desk[r]
  BY GoesEffect DEF IInv, CallRaises, Places_
<1>2. /\ mjob' \in [Slots -> [op : Operations,
                              status : {"none", "QUEUED", "SUBMITTED", "SUCCEEDED", "FAILED"}]]
      /\ \A r \in Slots : mjob'[r].op = mjob[r].op
  BY BecomesEffect DEF IInv, CallRaises
<1>3. window' \in BOOLEAN /\ doubt' \in BOOLEAN
  BY WindowType DEF IInv, BackupTypeOK, CallRaises
<1>4. /\ window' # window => doubt' = TRUE
      /\ window' = window => doubt' = doubt
  BY DEF IInv, BackupTypeOK, CallRaises
<1>5. BackupTypeOK'
  BY <1>1, <1>2, <1>3, OutageType DEF IInv, BackupTypeOK, CallRaises
<1>6. desk[s] = "calling" /\ flag' = flag /\ met' = met
  BY DEF CallRaises, Stands
<1>7. QED
  BY <1>1, <1>2, <1>4, <1>5, <1>6, Unmarked DEF IInv

LEMMA MarkCase ==
  ASSUME IInv, NEW s \in Slots, Mark(s) PROVE IInv'
<1>1. /\ desk' \in [Slots -> Places_] /\ desk'[s] = "finishing"
      /\ \A r \in Slots \ {s} : desk'[r] = desk[r]
  BY GoesEffect DEF IInv, Mark, Places_
<1>2. BackupTypeOK'
  <2>1. doubt' \in BOOLEAN
    <3>1. CASE mjob[s].op = "other"
      BY <3>1 DEF IInv, BackupTypeOK, Mark
    <3>2. CASE mjob[s].op # "other"
      <4>1. CASE s \in met
        <5>1. doubt' = TRUE
          BY <3>2, <4>1 DEF Mark
        <5>2. QED
          BY <5>1
      <4>2. CASE s \notin met
        <5>1. doubt' = (s \in met)
          BY <3>2 DEF Mark
        <5>2. (s \in met) = FALSE
          BY <4>2
        <5>3. doubt' = FALSE
          BY <5>1, <5>2, Zenon
        <5>4. QED
          BY <5>3
      <4>3. QED
        BY <4>1, <4>2
    <3>3. QED
      BY <3>1, <3>2
  <2>2. flag' \in [active : BOOLEAN, overdue : BOOLEAN]
    BY DEF IInv, BackupTypeOK, Mark
  <2>3. QED
    BY <1>1, <2>1, <2>2 DEF IInv, BackupTypeOK, Mark
<1>3. desk[s] = "marking" /\ mjob' = mjob /\ met' = met /\ window' = window
  BY DEF Mark, Stands
<1>4. Meetings'
  BY <1>1, <1>3 DEF IInv, Meetings, UnderWay
<1>5. MarksTruth'
  BY <1>1, <1>3 DEF IInv, MarksTruth, Stands
<1>6. FlagOrMark'
  <2>1. CASE mjob[s].op = "other"
    <3>1. flag' = flag /\ doubt' = doubt
      BY <2>1 DEF Mark
    <3>2. QED
      BY <1>1, <1>3, <2>1, <3>1 DEF IInv, FlagOrMark, Stands
  <2>2. CASE mjob[s].op = "enter"
    <3>1. flag'.active = TRUE /\ doubt' = (s \in met)
      BY <2>2 DEF Mark
    <3>2. s \notin met => window = TRUE
      BY <1>3, <2>2 DEF IInv, MarksTruth, Stands
    <3>3. QED
      BY <1>3, <3>1, <3>2 DEF FlagOrMark
  <2>3. CASE mjob[s].op = "leave"
    <3>1. flag'.active = FALSE /\ doubt' = (s \in met)
      BY <2>3 DEF Mark
    <3>2. s \notin met => window = FALSE
      BY <1>3, <2>3 DEF IInv, MarksTruth, Stands
    <3>3. QED
      BY <1>3, <3>1, <3>2 DEF FlagOrMark
  <2>4. mjob[s].op \in {"enter", "leave", "other"}
    BY DEF IInv, BackupTypeOK, Operations
  <2>5. QED
    BY <2>1, <2>2, <2>3, <2>4
<1>7. QED
  BY <1>2, <1>4, <1>5, <1>6 DEF IInv

-----------------------------------------------------------------------------
LEMMA PersonCancelsCase ==
  ASSUME IInv, NEW s \in Slots, PersonCancels(s) PROVE IInv'
<1>1. /\ mjob' \in [Slots -> [op : Operations,
                              status : {"none", "QUEUED", "SUBMITTED", "SUCCEEDED", "FAILED"}]]
      /\ \A r \in Slots : mjob'[r].op = mjob[r].op
  BY DEF IInv, BackupTypeOK, PersonCancels
<1>2. desk' \in [Slots -> Places_]
  BY DEF IInv, BackupTypeOK, PersonCancels, DeskGoesTo, Places_
<1>3. visits' \in 0 .. MaxVisits
  BY BackupAssumption DEF IInv, BackupTypeOK, PersonCancels
<1>4. BackupTypeOK'
  BY <1>1, <1>2, <1>3 DEF IInv, BackupTypeOK, PersonCancels
<1>5. CASE desk[s] = "dead"
  <2>1. desk'[s] = "free" /\ \A r \in Slots \ {s} : desk'[r] = desk[r]
    BY <1>5 DEF IInv, BackupTypeOK, PersonCancels, DeskGoesTo, Stands
  <2>2. QED
    BY <1>1, <1>4, <1>5, <2>1, Aside DEF IInv, PersonCancels
<1>6. CASE desk[s] # "dead"
  <2>1. desk' = desk
    BY <1>6 DEF IInv, BackupTypeOK, PersonCancels, DeskGoesTo, Stands
  <2>2. QED
    BY <1>1, <1>4, <2>1, Still DEF IInv, PersonCancels
<1>7. QED
  BY <1>5, <1>6

LEMMA DeskDiesCase ==
  ASSUME IInv, NEW s \in Slots, DeskDies(s) PROVE IInv'
<1>1. PICK p \in {"free", "dead"} : DeskGoesTo(s, p)
  BY DEF DeskDies
<1>2. /\ desk' \in [Slots -> Places_] /\ desk'[s] = p
      /\ \A r \in Slots \ {s} : desk'[r] = desk[r]
  BY <1>1, GoesEffect DEF IInv, Places_
<1>3. window' \in BOOLEAN /\ doubt' \in BOOLEAN
  BY WindowType DEF IInv, BackupTypeOK, DeskDies
<1>4. BackupTypeOK'
  BY <1>2, <1>3, OutageType DEF IInv, BackupTypeOK, DeskDies
<1>5. mjob' = mjob /\ flag' = flag /\ met' = met
  BY DEF DeskDies
<1>6. CASE desk[s] = "marking"
  <2>1. window' = window /\ doubt' = TRUE
    BY <1>6 DEF DeskDies, Stands
  <2>2. Meetings'
    BY <1>1, <1>2, <1>5 DEF IInv, Meetings, UnderWay
  <2>3. MarksTruth'
    BY <1>1, <1>2, <1>5, <2>1 DEF IInv, MarksTruth, Stands
  <2>4. FlagOrMark'
    BY <2>1 DEF FlagOrMark
  <2>5. QED
    BY <1>4, <2>2, <2>3, <2>4 DEF IInv
<1>7. CASE desk[s] # "marking"
  <2>1. /\ window' # window => desk[s] = "calling" /\ doubt' = TRUE
        /\ window' = window => doubt' = doubt
    BY <1>7 DEF IInv, BackupTypeOK, DeskDies, Stands
  <2>2. QED
    BY <1>1, <1>2, <1>4, <1>5, <1>7, <2>1, Unmarked DEF IInv
<1>8. QED
  BY <1>6, <1>7

LEMMA DeadlinePassesCase ==
  ASSUME IInv, DeadlinePasses PROVE IInv'
<1>1. flag' \in [active : BOOLEAN, overdue : BOOLEAN] /\ flag'.active = flag.active
  BY DEF IInv, BackupTypeOK, DeadlinePasses
<1>2. BackupTypeOK'
  BY <1>1 DEF IInv, BackupTypeOK, DeadlinePasses
<1>3. QED
  BY <1>1, <1>2, Still DEF IInv, DeadlinePasses

-----------------------------------------------------------------------------
LEMMA StepCase == IInv /\ [BackupNext]_backupVars => IInv'
<1> SUFFICES ASSUME IInv, [BackupNext]_backupVars PROVE IInv'
  OBVIOUS
<1>1. CASE DeadlinePasses
  BY <1>1, DeadlinePassesCase
<1>2. ASSUME NEW s \in Slots, NEW op \in Operations, PersonEnqueues(s, op) PROVE IInv'
  BY <1>2, PersonEnqueuesCase
<1>3. ASSUME NEW s \in Slots, WatchdogEnqueues(s) PROVE IInv'
  BY <1>3, WatchdogEnqueuesCase
<1>4. ASSUME NEW s \in Slots, DeskWorks(s) PROVE IInv'
  BY <1>4, CreateRowCase, SendMessageCase, SendRefusedCase, ClaimQueuedCase,
     CallConfirmedCase, CallRaisesCase, MarkCase, RecordSuccessCase DEF DeskWorks
<1>5. ASSUME NEW s \in Slots, PersonCancels(s) PROVE IInv'
  BY <1>5, PersonCancelsCase
<1>6. ASSUME NEW s \in Slots, DeskDies(s) PROVE IInv'
  BY <1>6, DeskDiesCase
<1>7. CASE UNCHANGED backupVars
  <2>1. BackupTypeOK'
    BY <1>7 DEF IInv, BackupTypeOK, backupVars
  <2>2. QED
    BY <1>7, <2>1, Still DEF IInv, backupVars
<1>8. QED
  BY <1>1, <1>2, <1>3, <1>4, <1>5, <1>6, <1>7 DEF BackupNext

(* Type correctness: every variable keeps its type, for any number of jobs.  *)
THEOREM TypeCorrect == BackupSpec => []BackupTypeOK
<1>1. IInv => BackupTypeOK
  BY DEF IInv
<1>2. QED
  BY <1>1, InitCase, StepCase, PTL DEF BackupSpec

(* When no maintenance job is under way, the flag that keeps GC-Bridge from   *)
(* Microtech tells whether the wrapper's window is open (mark_entered and     *)
(* mark_left against the synchronous call), unless a doubt is left by jobs    *)
(* that met or by one that failed after its call.                            *)
THEOREM FlagIsRight == BackupSpec => []FlagTellsWindow
<1>1. IInv => FlagTellsWindow
  <2>1. SUFFICES ASSUME IInv, AtRest, ~doubt PROVE flag.active = window
    BY DEF FlagTellsWindow
  <2>2. doubt = FALSE
    BY <2>1 DEF IInv, BackupTypeOK
  <2>3. \A s \in Slots : desk[s] # "marking"
    BY <2>1 DEF AtRest, Stands
  <2>4. QED
    BY <2>1, <2>2, <2>3 DEF IInv, FlagOrMark, Stands
<1>2. QED
  BY <1>1, InitCase, StepCase, PTL DEF BackupSpec
=============================================================================
