---------------------------- MODULE AiTranslation ----------------------------
(***************************************************************************)
(* AITranslationService (ai/services/translation.py) and its Celery tasks    *)
(* (ai/tasks.py): a scan finds the fields whose source text or configuration *)
(* has changed, marks their AITranslationState PENDING and sends a message;  *)
(* a worker claims the state, asks the AI without holding a lock, and stores *)
(* the answer if nothing has changed meanwhile.                              *)
(*                                                                          *)
(* One field of one object in one target language: its state row, the text  *)
(* it is translated from and the text in the target language.  A hash of    *)
(* source and configuration is the pair of both; a translation is the hash   *)
(* it was made from.  Archiving and celery_task_id decide nothing and are    *)
(* left out; messages of one chain are independent of each other here.       *)
(***************************************************************************)
EXTENDS Naturals, FiniteSets

CONSTANTS
  Clerks,      \* Celery workers and requests
  Texts,       \* source texts
  EmptyText,   \* the empty one
  Setups,      \* versions of the configuration
  Clearing,    \* those that clear the target when the source is empty
  Retries,     \* max_retries of the task
  MaxSent,     \* bound: undelivered messages that are told apart
  MaxEdits,    \* bound: changes by people
  MaxMishaps   \* bound: failing calls, refused messages, dying workers

ASSUME AiAssumption ==
  /\ EmptyText \in Texts /\ Setups # {}
  /\ Retries \in Nat /\ MaxSent \in Nat \ {0} /\ MaxEdits \in Nat /\ MaxMishaps \in Nat

Fingerprint == [text : Texts, setup : Setups]
Untouched == [text |-> EmptyText, setup |-> 0]       \* not translated, or cleared
ByHand == [text |-> EmptyText, setup |-> 1]          \* written by a person

VARIABLES
  source,    \* the text in the source language
  setup,     \* the configuration
  enabled,   \* is the configuration active
  entry,     \* the AITranslationState row
  english,   \* the text in the target language
  told,      \* the text the shop has been sent
  queue,     \* per number of retries: run_ai_translation_state messages
  clerk,     \* what each clerk is doing, with what it has read
  edits, mishaps

aiVars == <<source, setup, enabled, entry, english, told, queue, clerk, edits, mishaps>>

-----------------------------------------------------------------------------
State == [status : {"none", "PENDING", "RUNNING", "SUCCEEDED", "FAILED", "CANCELLED"},
          hash : Fingerprint]
Current == [text |-> source, setup |-> setup]
NoRowSeen == [status |-> "none", hash |-> [text |-> EmptyText, setup |-> CHOOSE n \in Setups : TRUE]]
ClerkAt(p, n, row, h) == [pc |-> p, try |-> n, seen |-> row, hash |-> h]
Waiting == ClerkAt("idle", 0, NoRowSeen, NoRowSeen.hash)

AiTypeOK ==
  /\ source \in Texts /\ setup \in Setups /\ enabled \in BOOLEAN
  /\ entry \in State
  /\ english \in Fingerprint \cup {Untouched, ByHand}
  /\ told \in Fingerprint \cup {Untouched, ByHand}
  /\ queue \in [0 .. Retries -> 0 .. MaxSent]
  /\ clerk \in [Clerks -> [pc : {"idle", "scanned", "compared", "send", "asking",
                                  "retry", "announce"},
                           try : 0 .. Retries, seen : State, hash : Fingerprint]]
  /\ edits \in 0 .. MaxEdits /\ mishaps \in 0 .. MaxMishaps

Does(c, p) == clerk[c].pc = p
Turns(c, r) == clerk' = [clerk EXCEPT ![c] = r]
Idles(c) == Turns(c, Waiting)
Mishap == mishaps < MaxMishaps /\ mishaps' = mishaps + 1
Sends(n) == queue' = [queue EXCEPT ![n] = IF @ < MaxSent THEN @ + 1 ELSE @]

AiInit ==
  /\ source \in Texts /\ setup \in Setups /\ enabled = TRUE
  /\ entry = [status |-> "none", hash |-> Current]
  /\ english = Untouched /\ told = Untouched
  /\ queue = [n \in 0 .. Retries |-> 0]
  /\ clerk = [c \in Clerks |-> Waiting]
  /\ edits = 0 /\ mishaps = 0

-----------------------------------------------------------------------------
(* queue_pending_translations.  The rows of a model are read before its      *)
(* objects, and both long before they are compared.                          *)
ScanReadsRows(c) ==
  /\ Does(c, "idle") /\ enabled
  /\ Turns(c, ClerkAt("scanned", 0, entry, Current))
  /\ UNCHANGED <<source, setup, enabled, entry, english, told, queue, edits, mishaps>>

ScanReadsObject(c) ==
  /\ Does(c, "scanned")
  /\ Turns(c, [clerk[c] EXCEPT !.pc = "compared", !.hash.text = source])
  /\ UNCHANGED <<source, setup, enabled, entry, english, told, queue, edits, mishaps>>

MutantScanIgnoresSetup(e, h) ==
  e.hash.text = h.text /\ e.status \in {"SUCCEEDED", "RUNNING"}

(* Does _queue_state_if_needed leave state e alone?                          *)
UpToDate(e, h) == e.hash = h /\ e.status \in {"SUCCEEDED", "RUNNING"}

(* Where no row was seen, get_or_create looks again; otherwise the row is    *)
(* overwritten as it was seen.                                               *)
ScanSaves(c) ==
  LET h == clerk[c].hash
      e == IF clerk[c].seen.status = "none" THEN entry ELSE clerk[c].seen
      skips == UpToDate(e, h) \/ (h.text = EmptyText /\ clerk[c].seen.status = "none")
      keeps == h.text = EmptyText /\ h.setup \notin Clearing
  IN  /\ Does(c, "compared")
      /\ entry' = IF skips THEN entry
                  ELSE [status |-> IF keeps THEN "SUCCEEDED" ELSE "PENDING", hash |-> h]
      /\ IF skips \/ keeps THEN Idles(c) ELSE Turns(c, [Waiting EXCEPT !.pc = "send"])
      /\ UNCHANGED <<source, setup, enabled, english, told, queue, edits, mishaps>>

(* queue_ai_translation_scan sends the chain, retry_translation_detail one.   *)
MessageSent(c) ==
  /\ Does(c, "send")
  /\ Sends(0)
  /\ Idles(c)
  /\ UNCHANGED <<source, setup, enabled, entry, english, told, edits, mishaps>>

MessageRefused(c) ==
  /\ Does(c, "send")
  /\ Mishap
  /\ entry' = [entry EXCEPT !.status = "FAILED"]
  /\ Idles(c)
  /\ UNCHANGED <<source, setup, enabled, english, told, queue, edits>>

(* retry_translation_detail, in the admin.                                   *)
RetryByHand(c) ==
  /\ Does(c, "idle")
  /\ entry.status \notin {"none", "RUNNING"}
  /\ edits < MaxEdits /\ edits' = edits + 1
  /\ entry' = [entry EXCEPT !.status = "PENDING"]
  /\ Turns(c, [Waiting EXCEPT !.pc = "send"])
  /\ UNCHANGED <<source, setup, enabled, english, told, queue, mishaps>>

-----------------------------------------------------------------------------
(* run_ai_translation_state: the first transaction of translate_state.       *)
TakeUp(c, n) ==
  /\ Does(c, "idle")
  /\ queue[n] > 0 /\ queue' = [queue EXCEPT ![n] = @ - 1]
  /\ IF entry.status \notin {"PENDING", "FAILED"} THEN UNCHANGED <<entry, clerk>>
     ELSE IF ~enabled THEN /\ entry' = [entry EXCEPT !.status = "CANCELLED"]
                           /\ UNCHANGED clerk
     ELSE /\ entry' = [status |-> "RUNNING", hash |-> Current]
          /\ Turns(c, ClerkAt("asking", n, NoRowSeen, Current))
  /\ UNCHANGED <<source, setup, enabled, english, told, edits, mishaps>>

(* The second transaction: the answer to clerk[c].hash has come.             *)
Answer(h) == IF h.text # EmptyText THEN {h}
             ELSE IF h.setup \in Clearing THEN {Untouched} ELSE {}

StillValid(h) == entry.hash = h /\ Current = h

StoreAnswer(c) ==
  LET h == clerk[c].hash IN
  /\ Does(c, "asking")
  /\ StillValid(h)
  /\ entry' = [entry EXCEPT !.status = "SUCCEEDED"]
  /\ english' \in IF Answer(h) = {} THEN {english} ELSE Answer(h)
  /\ Turns(c, [Waiting EXCEPT !.pc = IF english' = english THEN "idle" ELSE "announce"])
  /\ UNCHANGED <<source, setup, enabled, told, queue, edits, mishaps>>

MutantRejectForgets(c) ==
  /\ Does(c, "asking")
  /\ ~StillValid(clerk[c].hash)
  /\ entry' = [status |-> "SUCCEEDED", hash |-> Current]
  /\ Turns(c, [Waiting EXCEPT !.pc = "retry", !.try = clerk[c].try])
  /\ UNCHANGED <<source, setup, enabled, english, told, queue, edits, mishaps>>

RejectAnswer(c) ==
  /\ Does(c, "asking")
  /\ ~StillValid(clerk[c].hash)
  /\ entry' = [status |-> "PENDING", hash |-> Current]
  /\ Turns(c, [Waiting EXCEPT !.pc = "retry", !.try = clerk[c].try])
  /\ UNCHANGED <<source, setup, enabled, english, told, queue, edits, mishaps>>

(* _mark_failed, whatever the status is by now.                              *)
AskFails(c) ==
  /\ Does(c, "asking")
  /\ Mishap
  /\ entry' = [entry EXCEPT !.status = "FAILED"]
  /\ Turns(c, [Waiting EXCEPT !.pc = "retry", !.try = clerk[c].try])
  /\ UNCHANGED <<source, setup, enabled, english, told, queue, edits>>

(* The end of the task: self.retry, unless max_retries is reached.           *)
RetryOrGiveUp(c) ==
  /\ Does(c, "retry")
  /\ IF clerk[c].try < Retries THEN Sends(clerk[c].try + 1) ELSE UNCHANGED queue
  /\ Idles(c)
  /\ UNCHANGED <<source, setup, enabled, entry, english, told, edits, mishaps>>

(* The on_commit callback: enqueue_product_sync or the category's own task,  *)
(* which send what the target holds then.                                    *)
MutantAnnounceNothing(c) ==
  /\ Does(c, "announce")
  /\ told' = IF entry.status = "SUCCEEDED" THEN told ELSE english
  /\ Idles(c)
  /\ UNCHANGED <<source, setup, enabled, entry, english, queue, edits, mishaps>>

Announce(c) ==
  /\ Does(c, "announce")
  /\ told' = english
  /\ Idles(c)
  /\ UNCHANGED <<source, setup, enabled, entry, english, queue, edits, mishaps>>

(* The broker refuses the category's message: only a warning is logged.      *)
AnnounceRefused(c) ==
  /\ Does(c, "announce")
  /\ Mishap
  /\ Idles(c)
  /\ UNCHANGED <<source, setup, enabled, entry, english, told, queue, edits>>

-----------------------------------------------------------------------------
(* People and faults.                                                        *)
ByPeople == edits < MaxEdits /\ edits' = edits + 1

SourceEdited ==
  /\ ByPeople
  /\ source' \in Texts \ {source}
  /\ UNCHANGED <<setup, enabled, entry, english, told, queue, clerk, mishaps>>

TranslationEdited ==                  \* an ordinary save, with its own sync
  /\ ByPeople
  /\ english' = ByHand /\ told' = ByHand
  /\ UNCHANGED <<source, setup, enabled, entry, queue, clerk, mishaps>>

SetupChanged ==
  /\ ByPeople
  /\ \/ setup' \in Setups \ {setup} /\ UNCHANGED enabled
     \/ enabled' = ~enabled /\ UNCHANGED setup
  /\ UNCHANGED <<source, entry, english, told, queue, clerk, mishaps>>

ClerkDies(c) ==
  /\ ~Does(c, "idle")
  /\ Mishap
  /\ Idles(c)
  /\ UNCHANGED <<source, setup, enabled, entry, english, told, queue, edits>>

-----------------------------------------------------------------------------
ClerkWorks(c) ==
  \/ ScanReadsObject(c) \/ ScanSaves(c) \/ MessageSent(c) \/ MessageRefused(c)
  \/ StoreAnswer(c) \/ RejectAnswer(c) \/ AskFails(c) \/ RetryOrGiveUp(c)
  \/ Announce(c) \/ AnnounceRefused(c)

AiNext ==
  \/ SourceEdited \/ TranslationEdited \/ SetupChanged
  \/ \E c \in Clerks :
       \/ ScanReadsRows(c) \/ ClerkWorks(c) \/ RetryByHand(c) \/ ClerkDies(c)
       \/ \E n \in 0 .. Retries : TakeUp(c, n)

(* Workers finish, a message that stays is taken, beat scans again.          *)
AiFairness ==
  /\ \A c \in Clerks : WF_aiVars(ClerkWorks(c))
  /\ \A n \in 0 .. Retries : SF_aiVars(\E c \in Clerks : TakeUp(c, n))
  /\ SF_aiVars(\E c \in Clerks : ScanReadsRows(c))

AiSpec == AiInit /\ [][AiNext]_aiVars /\ AiFairness

-----------------------------------------------------------------------------
(* Properties                                                               *)

(* A state that the scan passes over for good needs no work: a SUCCEEDED row *)
(* with the current hash has the translation of the current source in the    *)
(* target, or a person's, unless an empty source is to leave it alone.       *)
SkippedIsTranslated ==
  entry = [status |-> "SUCCEEDED", hash |-> Current] =>
    english \in Answer(Current) \cup {ByHand} \/ Answer(Current) = {}

(* The shop has been sent what the AI has written, or a worker is about to   *)
(* send it, unless a broker or a worker failed.                              *)
ShopIsTold == mishaps = 0 => told = english \/ \E c \in Clerks : Does(c, "announce")

(* A row that a dead worker has left RUNNING: the scan passes over it, the   *)
(* admin refuses to retry it.                                                *)
Abandoned == /\ entry = [status |-> "RUNNING", hash |-> Current]
             /\ \A c \in Clerks : ~Does(c, "asking")

(* Beat's scans translate every change in the end, unless a worker died      *)
(* while it was asking or the configuration is switched off.                 *)
Settled == \/ entry = [status |-> "SUCCEEDED", hash |-> Current]
           \/ entry.status = "none" /\ source = EmptyText

ChangesAreTranslated == ~Settled ~> (Settled \/ Abandoned \/ ~enabled)
=============================================================================
