------------------------- MODULE AiTranslationProofs -------------------------
(***************************************************************************)
(* What holds of AiTranslation for any number of clerks, texts, configurations, *)
(* retries, edits and mishaps: the types, that a row the scan passes over is    *)
(* translated, and that the shop hears of every translation.  The first is      *)
(* inductive when it is said of the row's own hash (Translated) instead of the  *)
(* current one, which may come back to it.                                   *)
(***************************************************************************)
EXTENDS AiTranslation, TLAPS

(* A row that has succeeded tells the truth about the hash it names.         *)
Translated ==
  entry.status = "SUCCEEDED" =>
    english \in Answer(entry.hash) \cup {ByHand} \/ Answer(entry.hash) = {}

IInv == AiTypeOK /\ Translated /\ ShopIsTold

Desk == [pc : {"idle", "scanned", "compared", "send", "asking", "retry", "announce"},
         try : 0 .. Retries, seen : State, hash : Fingerprint]

-----------------------------------------------------------------------------
LEMMA CurrentType == AiTypeOK => Current \in Fingerprint
  BY DEF AiTypeOK, Current, Fingerprint

LEMMA WaitingType ==
  /\ NoRowSeen \in State /\ Waiting \in Desk /\ Waiting.pc = "idle" /\ 0 \in 0 .. Retries
<1>1. (CHOOSE n \in Setups : TRUE) \in Setups
  BY AiAssumption
<1>2. NoRowSeen \in State
  BY <1>1, AiAssumption DEF NoRowSeen, State, Fingerprint
<1>3. 0 \in 0 .. Retries /\ NoRowSeen.hash \in Fingerprint
  BY <1>1, AiAssumption DEF NoRowSeen, Fingerprint
<1>4. QED
  BY <1>2, <1>3 DEF Waiting, ClerkAt, Desk

(* Clerk c turns to r; the others go on with what they do.                   *)
Turned(c, r) ==
  /\ clerk' \in [Clerks -> Desk] /\ clerk'[c] = r
  /\ \A d \in Clerks \ {c} : clerk'[d] = clerk[d]

LEMMA TurnsEffect ==
  ASSUME AiTypeOK, NEW c \in Clerks, NEW r \in Desk, Turns(c, r) PROVE Turned(c, r)
  BY DEF AiTypeOK, Turns, Turned, Desk

LEMMA IdlesEffect ==
  ASSUME AiTypeOK, NEW c \in Clerks, Idles(c) PROVE Turned(c, Waiting)
  BY TurnsEffect, WaitingType DEF Idles

(* A clerk who was not announcing takes nobody's announcement away.          *)
LEMMA ToldStays ==
  ASSUME ShopIsTold, NEW c \in Clerks, NEW r, Turned(c, r), ~Does(c, "announce"),
         UNCHANGED <<english, told>>, mishaps' = 0 => mishaps = 0
  PROVE  ShopIsTold'
  BY DEF ShopIsTold, Turned, Does

LEMMA SendsType ==
  ASSUME AiTypeOK, NEW n \in 0 .. Retries, Sends(n)
  PROVE  queue' \in [0 .. Retries -> 0 .. MaxSent]
<1>1. \A q \in 0 .. MaxSent : q < MaxSent => q + 1 \in 0 .. MaxSent
  BY AiAssumption
<1>2. QED
  BY <1>1 DEF AiTypeOK, Sends

LEMMA MishapEffect ==
  ASSUME AiTypeOK, Mishap PROVE mishaps' \in 0 .. MaxMishaps /\ mishaps' # 0
  BY AiAssumption DEF AiTypeOK, Mishap

-----------------------------------------------------------------------------
LEMMA InitCase == AiInit => IInv
<1> SUFFICES ASSUME AiInit PROVE IInv
  OBVIOUS
<1>1. /\ source \in Texts /\ setup \in Setups /\ enabled = TRUE /\ mishaps = 0 /\ edits = 0
      /\ entry = [status |-> "none", hash |-> Current] /\ english = Untouched /\ told = Untouched
      /\ clerk = [c \in Clerks |-> Waiting] /\ queue = [n \in 0 .. Retries |-> 0]
  BY DEF AiInit
<1>2. entry \in State
  BY <1>1 DEF State, Current, Fingerprint
<1>3. clerk \in [Clerks -> Desk]
  BY <1>1, WaitingType
<1>4. 0 \in 0 .. MaxSent /\ 0 \in 0 .. MaxEdits /\ 0 \in 0 .. MaxMishaps
  BY AiAssumption
<1>5. AiTypeOK
  BY <1>1, <1>2, <1>3, <1>4 DEF AiTypeOK, Desk
<1>6. QED
  BY <1>1, <1>5 DEF IInv, Translated, ShopIsTold

LEMMA ScanReadsRowsCase ==
  ASSUME IInv, NEW c \in Clerks, ScanReadsRows(c) PROVE IInv'
<1> DEFINE r == ClerkAt("scanned", 0, entry, Current)
<1>1. r \in Desk
  BY CurrentType, WaitingType DEF IInv, AiTypeOK, ClerkAt, Desk
<1> HIDE DEF r
<1>2. Turned(c, r)
  BY <1>1, TurnsEffect DEF IInv, ScanReadsRows, r
<1>3. ShopIsTold'
  BY <1>2, ToldStays DEF IInv, ScanReadsRows, Does
<1>4. QED
  BY <1>2, <1>3 DEF IInv, ScanReadsRows, Turned, AiTypeOK, Desk, Translated

LEMMA ScanReadsObjectCase ==
  ASSUME IInv, NEW c \in Clerks, ScanReadsObject(c) PROVE IInv'
<1> DEFINE r == [clerk[c] EXCEPT !.pc = "compared", !.hash.text = source]
<1>1. r \in Desk
  BY DEF IInv, AiTypeOK, Desk, Fingerprint
<1> HIDE DEF r
<1>2. Turned(c, r)
  BY <1>1, TurnsEffect DEF IInv, ScanReadsObject, r
<1>3. ShopIsTold'
  BY <1>2, ToldStays DEF IInv, ScanReadsObject, Does
<1>4. QED
  BY <1>2, <1>3 DEF IInv, ScanReadsObject, Turned, AiTypeOK, Desk, Translated

(* A scan leaves the row, marks it PENDING, or has nothing to ask.           *)
LEMMA ScanSavesCase ==
  ASSUME IInv, NEW c \in Clerks, ScanSaves(c) PROVE IInv'
<1> DEFINE h == clerk[c].hash
           sending == [Waiting EXCEPT !.pc = "send"]
           keeps == h.text = EmptyText /\ h.setup \notin Clearing
<1>1. h \in Fingerprint /\ sending \in Desk
  BY WaitingType DEF IInv, AiTypeOK, Desk
<1>2. \/ entry' = entry
      \/ entry' = [status |-> "SUCCEEDED", hash |-> h] /\ keeps
      \/ entry' = [status |-> "PENDING", hash |-> h]
  BY DEF ScanSaves
<1>3. PICK r \in Desk : Turned(c, r)
  <2>1. Idles(c) \/ Turns(c, sending)
    BY DEF ScanSaves
  <2>2. QED
    BY <1>1, <2>1, IdlesEffect, TurnsEffect, WaitingType DEF IInv
<1>4. ShopIsTold'
  BY <1>3, ToldStays DEF IInv, ScanSaves, Does
<1>5. entry' \in State
  BY <1>1, <1>2 DEF IInv, AiTypeOK, State
<1>6. Translated'
  <2>1. keeps => Answer(h) = {}
    BY DEF Answer
  <2>2. english' = english /\ (entry' = entry => Translated')
    BY DEF IInv, Translated, ScanSaves
  <2> HIDE DEF h, keeps
  <2>3. QED
    BY <1>2, <2>1, <2>2 DEF Translated
<1>7. QED
  BY <1>3, <1>4, <1>5, <1>6 DEF IInv, ScanSaves, Turned, AiTypeOK, Desk

LEMMA MessageSentCase ==
  ASSUME IInv, NEW c \in Clerks, MessageSent(c) PROVE IInv'
<1>1. Turned(c, Waiting) /\ queue' \in [0 .. Retries -> 0 .. MaxSent]
  BY IdlesEffect, SendsType, WaitingType DEF IInv, MessageSent
<1>2. ShopIsTold'
  BY <1>1, ToldStays DEF IInv, MessageSent, Does
<1>3. QED
  BY <1>1, <1>2 DEF IInv, MessageSent, Turned, AiTypeOK, Desk, Translated

LEMMA MessageRefusedCase ==
  ASSUME IInv, NEW c \in Clerks, MessageRefused(c) PROVE IInv'
<1>1. Turned(c, Waiting) /\ mishaps' \in 0 .. MaxMishaps /\ mishaps' # 0
  BY IdlesEffect, MishapEffect DEF IInv, MessageRefused
<1>2. entry' \in State /\ entry'.status = "FAILED"
  BY DEF IInv, MessageRefused, AiTypeOK, State
<1>3. QED
  BY <1>1, <1>2 DEF IInv, MessageRefused, Turned, AiTypeOK, Desk, Translated, ShopIsTold

LEMMA RetryByHandCase ==
  ASSUME IInv, NEW c \in Clerks, RetryByHand(c) PROVE IInv'
<1> DEFINE sending == [Waiting EXCEPT !.pc = "send"]
<1>1. Turned(c, sending)
  BY WaitingType, TurnsEffect DEF IInv, RetryByHand, Desk
<1>2. entry' \in State /\ entry'.status = "PENDING"
  <2>1. entry \in State /\ entry' = [entry EXCEPT !.status = "PENDING"]
    BY DEF IInv, RetryByHand, AiTypeOK
  <2>2. QED
    BY <2>1 DEF State
<1>4. edits' \in 0 .. MaxEdits
  <2>1. edits \in 0 .. MaxEdits /\ edits < MaxEdits /\ edits' = edits + 1
    BY DEF IInv, RetryByHand, AiTypeOK
  <2>2. QED
    BY <2>1, AiAssumption
<1> HIDE DEF sending
<1>3. ShopIsTold'
  BY <1>1, ToldStays DEF IInv, RetryByHand, Does
<1>5. QED
  BY <1>1, <1>2, <1>3, <1>4 DEF IInv, RetryByHand, Turned, AiTypeOK, Desk, Translated

LEMMA TakeUpCase ==
  ASSUME IInv, NEW c \in Clerks, NEW n \in 0 .. Retries, TakeUp(c, n) PROVE IInv'
<1>1. queue' \in [0 .. Retries -> 0 .. MaxSent]
  BY AiAssumption DEF IInv, TakeUp, AiTypeOK
<1>2. CASE UNCHANGED <<entry, clerk>>
  BY <1>1, <1>2 DEF IInv, TakeUp, AiTypeOK, Translated, ShopIsTold, Does
<1>3. CASE entry' = [entry EXCEPT !.status = "CANCELLED"] /\ UNCHANGED clerk
  <2>1. entry' \in State /\ entry'.status = "CANCELLED"
    BY <1>3 DEF IInv, AiTypeOK, State
  <2>2. QED
    BY <1>1, <1>3, <2>1 DEF IInv, TakeUp, AiTypeOK, Translated, ShopIsTold, Does
<1>4. CASE entry' = [status |-> "RUNNING", hash |-> Current] /\ Turns(c, ClerkAt("asking", n, NoRowSeen, Current))
  <2> DEFINE r == ClerkAt("asking", n, NoRowSeen, Current)
  <2>1. r \in Desk
    BY CurrentType, WaitingType DEF IInv, ClerkAt, Desk
  <2>2. entry' \in State /\ entry'.status = "RUNNING"
    BY <1>4, CurrentType DEF IInv, State
  <2> HIDE DEF r
  <2>3. Turned(c, r)
    BY <1>4, <2>1, TurnsEffect DEF IInv, r
  <2>4. ShopIsTold'
    BY <2>3, ToldStays DEF IInv, TakeUp, Does
  <2>5. QED
    BY <1>1, <2>2, <2>3, <2>4 DEF IInv, TakeUp, Turned, AiTypeOK, Desk, Translated
<1>5. QED
  BY <1>2, <1>3, <1>4 DEF TakeUp

(* What is stored answers the hash of the row; what it changes is announced.  *)
LEMMA StoreAnswerCase ==
  ASSUME IInv, NEW c \in Clerks, StoreAnswer(c) PROVE IInv'
<1> DEFINE h == clerk[c].hash
           r == [Waiting EXCEPT !.pc = IF english' = english THEN "idle" ELSE "announce"]
<1>1. h \in Fingerprint /\ entry.hash = h
  BY DEF IInv, AiTypeOK, Desk, StoreAnswer, StillValid
<1>2. entry' \in State /\ entry'.status = "SUCCEEDED" /\ entry'.hash = h
  BY <1>1 DEF IInv, AiTypeOK, State, StoreAnswer
<1>3. english' \in IF Answer(h) = {} THEN {english} ELSE Answer(h)
  BY DEF StoreAnswer
<1>4. english' \in Fingerprint \cup {Untouched, ByHand}
  BY <1>1, <1>3 DEF Answer, IInv, AiTypeOK
<1>5. Translated'
  <2> HIDE DEF h
  <2>1. QED
    BY <1>2, <1>3 DEF Translated
<1>6. r \in Desk /\ r.pc = (IF english' = english THEN "idle" ELSE "announce")
  BY WaitingType DEF Desk
<1> HIDE DEF r
<1>7. Turned(c, r)
  BY <1>6, TurnsEffect DEF IInv, StoreAnswer, r
<1>8. ShopIsTold'
  <2>1. CASE english' = english
    BY <1>7, <2>1, ToldStays DEF IInv, StoreAnswer, Does
  <2>2. CASE english' # english
    BY <1>6, <1>7, <2>2 DEF ShopIsTold, Turned, Does
  <2>3. QED
    BY <2>1, <2>2
<1>9. QED
  BY <1>2, <1>4, <1>5, <1>7, <1>8 DEF IInv, StoreAnswer, Turned, AiTypeOK, Desk

LEMMA RejectAnswerCase ==
  ASSUME IInv, NEW c \in Clerks, RejectAnswer(c) PROVE IInv'
<1> DEFINE r == [Waiting EXCEPT !.pc = "retry", !.try = clerk[c].try]
<1>1. r \in Desk
  BY WaitingType DEF IInv, AiTypeOK, Desk
<1>2. entry' \in State /\ entry'.status = "PENDING"
  BY CurrentType DEF IInv, RejectAnswer, State
<1> HIDE DEF r
<1>3. Turned(c, r)
  BY <1>1, TurnsEffect DEF IInv, RejectAnswer, r
<1>4. ShopIsTold'
  BY <1>3, ToldStays DEF IInv, RejectAnswer, Does
<1>5. QED
  BY <1>2, <1>3, <1>4 DEF IInv, RejectAnswer, Turned, AiTypeOK, Desk, Translated

LEMMA AskFailsCase ==
  ASSUME IInv, NEW c \in Clerks, AskFails(c) PROVE IInv'
<1> DEFINE r == [Waiting EXCEPT !.pc = "retry", !.try = clerk[c].try]
<1>1. r \in Desk /\ mishaps' \in 0 .. MaxMishaps /\ mishaps' # 0
  BY WaitingType, MishapEffect DEF IInv, AskFails, AiTypeOK, Desk
<1>2. entry' \in State /\ entry'.status = "FAILED"
  BY DEF IInv, AskFails, AiTypeOK, State
<1> HIDE DEF r
<1>3. Turned(c, r)
  BY <1>1, TurnsEffect DEF IInv, AskFails, r
<1>4. QED
  BY <1>1, <1>2, <1>3 DEF IInv, AskFails, Turned, AiTypeOK, Desk, Translated, ShopIsTold

LEMMA RetryOrGiveUpCase ==
  ASSUME IInv, NEW c \in Clerks, RetryOrGiveUp(c) PROVE IInv'
<1>1. clerk[c].try \in 0 .. Retries
  BY DEF IInv, AiTypeOK
<1>2. clerk[c].try < Retries => clerk[c].try + 1 \in 0 .. Retries
  BY <1>1, AiAssumption
<1>3. Turned(c, Waiting) /\ queue' \in [0 .. Retries -> 0 .. MaxSent]
  BY <1>2, IdlesEffect, SendsType DEF IInv, AiTypeOK, RetryOrGiveUp
<1>4. ShopIsTold'
  BY <1>3, ToldStays DEF IInv, RetryOrGiveUp, Does
<1>5. QED
  BY <1>3, <1>4 DEF IInv, RetryOrGiveUp, Turned, AiTypeOK, Desk, Translated

LEMMA AnnounceCase ==
  ASSUME IInv, NEW c \in Clerks, Announce(c) PROVE IInv'
<1>1. Turned(c, Waiting) /\ told' = english /\ english' = english
  BY IdlesEffect DEF IInv, Announce
<1>2. ShopIsTold'
  BY <1>1 DEF ShopIsTold
<1>3. QED
  BY <1>1, <1>2 DEF IInv, Announce, Turned, AiTypeOK, Desk, Translated

(* Where the broker refuses or a clerk dies there has been a mishap.         *)
LEMMA MishapsExcuse ==
  ASSUME IInv, NEW c \in Clerks, AnnounceRefused(c) \/ ClerkDies(c) PROVE IInv'
<1>1. /\ Turned(c, Waiting) /\ mishaps' \in 0 .. MaxMishaps /\ mishaps' # 0
      /\ UNCHANGED <<source, setup, enabled, entry, english, told, queue, edits>>
  BY IdlesEffect, MishapEffect DEF IInv, AnnounceRefused, ClerkDies
<1>2. QED
  BY <1>1 DEF IInv, Turned, AiTypeOK, Desk, Translated, ShopIsTold

LEMMA PeopleCase ==
  ASSUME IInv, SourceEdited \/ TranslationEdited \/ SetupChanged PROVE IInv'
<1>1. edits' \in 0 .. MaxEdits /\ UNCHANGED <<entry, queue, clerk, mishaps>>
  BY AiAssumption DEF IInv, AiTypeOK, SourceEdited, TranslationEdited, SetupChanged, ByPeople
<1>2. CASE SourceEdited
  BY <1>1, <1>2 DEF SourceEdited, IInv, AiTypeOK, Translated, ShopIsTold, Does
<1>3. CASE TranslationEdited
  BY <1>1, <1>3 DEF TranslationEdited, IInv, AiTypeOK, Translated, ShopIsTold, Does
<1>4. CASE SetupChanged
  <2>1. setup' \in Setups /\ enabled' \in BOOLEAN
    BY <1>4 DEF SetupChanged, IInv, AiTypeOK
  <2>2. QED
    BY <1>1, <1>4, <2>1 DEF SetupChanged, IInv, AiTypeOK, Translated, ShopIsTold, Does
<1>5. QED
  BY <1>2, <1>3, <1>4

-----------------------------------------------------------------------------
LEMMA StepCase == IInv /\ [AiNext]_aiVars => IInv'
<1> SUFFICES ASSUME IInv, [AiNext]_aiVars PROVE IInv'
  OBVIOUS
<1>1. CASE UNCHANGED aiVars
  BY <1>1 DEF aiVars, IInv, AiTypeOK, Current, Translated, ShopIsTold, Does
<1>2. ASSUME NEW c \in Clerks, ClerkWorks(c) PROVE IInv'
  BY <1>2, ScanReadsObjectCase, ScanSavesCase, MessageSentCase, MessageRefusedCase, StoreAnswerCase,
     RejectAnswerCase, AskFailsCase, RetryOrGiveUpCase, AnnounceCase, MishapsExcuse DEF ClerkWorks
<1>3. QED
  BY <1>1, <1>2, PeopleCase, ScanReadsRowsCase, RetryByHandCase, TakeUpCase, MishapsExcuse DEF AiNext

LEMMA Invariance == AiSpec => []IInv
  BY InitCase, StepCase, PTL DEF AiSpec

(* Rows, texts, messages and clerks keep their types.                        *)
THEOREM TypeCorrect == AiSpec => []AiTypeOK
<1>1. IInv => AiTypeOK
  BY DEF IInv
<1>2. QED
  BY <1>1, Invariance, PTL

(* A SUCCEEDED row with the current hash, which the scan passes over, has the  *)
(* translation of the current source or a person's, however scans, answers,     *)
(* retries and edits overlap (queue_pending_translations, translate_state).     *)
THEOREM PassedOverIsTranslated == AiSpec => []SkippedIsTranslated
<1>1. IInv => SkippedIsTranslated
  BY DEF IInv, Translated, SkippedIsTranslated
<1>2. QED
  BY <1>1, Invariance, PTL

(* As long as no call fails, no message is refused and no worker dies, the shop *)
(* has the English text or a worker is about to send it (_queue_target_sync).   *)
THEOREM ShopHears == AiSpec => []ShopIsTold
<1>1. IInv => ShopIsTold
  BY DEF IInv
<1>2. QED
  BY <1>1, Invariance, PTL
=============================================================================
