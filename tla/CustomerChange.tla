--------------------------- MODULE CustomerChange ---------------------------
(***************************************************************************)
(* OrderCustomerChangeService (orders/services/order_customer_change.py):   *)
(* an administrator gives an order another Microtech customer.  A request is *)
(* a job of the sentinel, which reads the customer; its continuation imports *)
(* the customer and links the order to it, unless a later request has        *)
(* superseded it.                                                           *)
(*                                                                          *)
(* One order; a request is numbered by its creation.  Of the sentinel only   *)
(* what JobPromise says remains: a job ends, the continuation of one that    *)
(* succeeded runs, again after a crash, and may run twice.  The import       *)
(* itself is in AddressBook.                                                 *)
(***************************************************************************)
EXTENDS Naturals, FiniteSets

CONSTANTS
  Agents,      \* web requests and Celery workers
  MaxRequests, \* bound: requests for the order
  MaxAgain,    \* bound: continuations that are sent twice
  MaxBreaks    \* bound: failing calls and dying workers

ASSUME ChangeAssumption == MaxRequests \in Nat

Requests == 1 .. MaxRequests

VARIABLES
  read,      \* per request: the CUSTOMER_READ job
  sends,     \* per request: continuations still to be run
  linked,    \* the request whose customer the order is linked to, 0 at first
  agent,     \* what each agent is doing, and for which request
  applied,   \* history: requests whose customer has been linked
  crossed,   \* history: a request came while an older one was being applied, or
             \* failed although it had been or was being applied (by another agent)
  again, breaks

changeVars == <<read, sends, linked, agent, applied, crossed, again, breaks>>

-----------------------------------------------------------------------------
ChangeTypeOK ==
  /\ read \in [Requests -> {"none", "OPEN", "SUCCEEDED", "FAILED"}]
  /\ sends \in [Requests -> 0 .. MaxAgain + 1]
  /\ linked \in 0 .. MaxRequests
  /\ agent \in [Agents -> [pc : {"free", "asked", "created", "checked", "linked"},
                           req : 0 .. MaxRequests]]
  /\ applied \in SUBSET Requests /\ crossed \in BOOLEAN
  /\ again \in 0 .. MaxAgain /\ breaks \in 0 .. MaxBreaks

Is(a, p) == agent[a].pc = p
To(a, p, r) == agent' = [agent EXCEPT ![a] = [pc |-> p, req |-> r]]
Leaves(a) == To(a, "free", 0)
Break == breaks < MaxBreaks /\ breaks' = breaks + 1
Applying(p) == {r \in Requests : \E a \in Agents : agent[a] = [pc |-> p, req |-> r]}

ChangeInit ==
  /\ read = [r \in Requests |-> "none"]
  /\ sends = [r \in Requests |-> 0]
  /\ linked = 0
  /\ agent = [a \in Agents |-> [pc |-> "free", req |-> 0]]
  /\ applied = {} /\ crossed = FALSE
  /\ again = 0 /\ breaks = 0

-----------------------------------------------------------------------------
(* request_change: no request of the order is active ...                     *)
RequestChecks(a) ==
  /\ Is(a, "free")
  /\ \A r \in Requests : read[r] # "OPEN"
  /\ To(a, "asked", 0)
  /\ UNCHANGED <<read, sends, linked, applied, crossed, again, breaks>>

(* ... and submit_wrapper_job creates one, which nothing serializes with     *)
(* the check.                                                                *)
RequestCreates(a) ==
  /\ Is(a, "asked")
  /\ \E r \in Requests :
       /\ read[r] = "none" /\ (r > 1 => read[r - 1] # "none")
       /\ read' = [read EXCEPT ![r] = "OPEN"]
       /\ To(a, "created", r)
  /\ crossed' = (crossed \/ Applying("checked") # {})
  /\ UNCHANGED <<sends, linked, applied, again, breaks>>

Submitted(a) ==
  /\ Is(a, "created")
  /\ Leaves(a)
  /\ UNCHANGED <<read, sends, linked, applied, crossed, again, breaks>>

SubmitRefused(a) ==
  /\ Is(a, "created")
  /\ Break
  /\ read' = [read EXCEPT ![agent[a].req] = "FAILED"]
  /\ Leaves(a)
  /\ UNCHANGED <<sends, linked, applied, crossed, again>>

MutantReadEndsRaw(r) ==                     \* the wrapper's own word
  /\ read[r] = "OPEN" /\ r \notin Applying("created")
  /\ read' = [read EXCEPT ![r] = "DONE"] /\ sends' = [sends EXCEPT ![r] = 1]
  /\ UNCHANGED <<linked, agent, applied, crossed, again, breaks>>

(* The sentinel: the job ends, and its continuation is sent.                 *)
ReadEnds(r) ==
  /\ read[r] = "OPEN" /\ r \notin Applying("created")
  /\ \/ read' = [read EXCEPT ![r] = "SUCCEEDED"] /\ sends' = [sends EXCEPT ![r] = 1]
     \/ read' = [read EXCEPT ![r] = "FAILED"] /\ UNCHANGED sends
  /\ UNCHANGED <<linked, agent, applied, crossed, again, breaks>>

SentTwice(r) ==
  /\ read[r] = "SUCCEEDED"
  /\ again < MaxAgain /\ again' = again + 1
  /\ sends' = [sends EXCEPT ![r] = @ + 1]
  /\ UNCHANGED <<read, linked, agent, applied, crossed, breaks>>

-----------------------------------------------------------------------------
(* apply_result, run by process_continuation for a job that has SUCCEEDED: is *)
(* there a later request that is active or has succeeded?                    *)
MutantSuperseded(r) == \E n \in Requests : n > r /\ read[n] = "OPEN"

Superseded(r) == \E n \in Requests : n > r /\ read[n] \in {"OPEN", "SUCCEEDED"}

ApplyChecks(a, r) ==
  /\ Is(a, "free")
  /\ sends[r] > 0 /\ sends' = [sends EXCEPT ![r] = @ - 1]
  /\ IF read[r] # "SUCCEEDED" \/ Superseded(r) THEN UNCHANGED agent ELSE To(a, "checked", r)
  /\ UNCHANGED <<read, linked, applied, crossed, again, breaks>>

(* The answer is not the customer asked for; process_continuation fails the  *)
(* job.                                                                      *)
ApplyRejects(a) ==
  /\ Is(a, "checked")
  /\ Break
  /\ read' = [read EXCEPT ![agent[a].req] = "FAILED"]
  /\ crossed' = \/ crossed
                \/ agent[a].req \in applied
                \/ \E b \in Agents \ {a} : agent[b] = agent[a]
  /\ Leaves(a)
  /\ UNCHANGED <<sends, linked, applied, again>>

(* The transaction; it does not look for later requests again.               *)
ApplyCommits(a) ==
  /\ Is(a, "checked")
  /\ linked' = agent[a].req
  /\ applied' = applied \cup {agent[a].req}
  /\ To(a, "linked", agent[a].req)
  /\ UNCHANGED <<read, sends, crossed, again, breaks>>

ApplyEnds(a) ==
  /\ Is(a, "linked")
  /\ Leaves(a)
  /\ UNCHANGED <<read, sends, linked, applied, crossed, again, breaks>>

(* The save of next_step raises, and the job that was applied is FAILED.     *)
NoteFails(a) ==
  /\ Is(a, "linked")
  /\ Break
  /\ read' = [read EXCEPT ![agent[a].req] = "FAILED"]
  /\ crossed' = TRUE
  /\ Leaves(a)
  /\ UNCHANGED <<sends, linked, applied, again>>

(* A worker dies; the sentinel sends the continuation again.                 *)
AgentDies(a) ==
  /\ agent[a].pc \in {"checked", "linked"}
  /\ Break
  /\ sends' = [sends EXCEPT ![agent[a].req] = IF @ > MaxAgain THEN @ ELSE @ + 1]
  /\ Leaves(a)
  /\ UNCHANGED <<read, linked, applied, crossed, again>>

-----------------------------------------------------------------------------
ChangeNext ==
  \/ \E r \in Requests : ReadEnds(r) \/ SentTwice(r)
  \/ \E a \in Agents :
       \/ RequestChecks(a) \/ RequestCreates(a) \/ Submitted(a) \/ SubmitRefused(a)
       \/ ApplyRejects(a) \/ ApplyCommits(a) \/ ApplyEnds(a) \/ NoteFails(a) \/ AgentDies(a)
       \/ \E r \in Requests : ApplyChecks(a, r)

ChangeSpec == ChangeInit /\ [][ChangeNext]_changeVars

-----------------------------------------------------------------------------
(* Properties                                                               *)

(* The order is linked to the customer of the latest of the requests that    *)
(* were applied, however late or often an older answer comes, unless a       *)
(* request was made while an older one was being applied.                    *)
LatestRequestWins ==
  ~crossed => \A r \in applied : r <= linked
=============================================================================
