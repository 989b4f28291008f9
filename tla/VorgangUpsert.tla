---------------------------- MODULE VorgangUpsert ----------------------------
(***************************************************************************)
(* OrderUpsertMicrotechService (orders/services/order_upsert_microtech.py),  *)
(* the direct way of writing an order to Microtech: a command waits in a     *)
(* blocking call for every answer of the wrapper.  The order's number        *)
(* (AuftrNr) and the stored BelegNr are what it finds an existing Vorgang    *)
(* by, after a timeout, a crash or a change in Microtech.                    *)
(*                                                                          *)
(* One order, which has an order number and a customer.  The wrapper is       *)
(* external: its one COM worker takes jobs in the order they came, whether   *)
(* or not anybody waits for the answer any longer.  The positions are in     *)
(* OrderRules, the customer's own upsert comes first and is left out.        *)
(***************************************************************************)
EXTENDS Naturals, Sequences, FiniteSets

CONSTANTS
  Commands,    \* processes: the command microtech_order_upsert, the customs export
  MaxBelege,   \* bound: BelegNr that Microtech gives
  MaxOutcomes, \* bound: jobs waiting in the wrapper
  MaxStarts,   \* bound: upserts and refreshes
  MaxChanges   \* bound: what people do in Microtech

ASSUME VorgangBounds ==
  /\ "nobody" \notin Commands
  /\ MaxBelege \in Nat /\ MaxOutcomes \in Nat /\ MaxStarts \in Nat /\ MaxChanges \in Nat

Belege == 1 .. MaxBelege

VARIABLES
  belege,      \* the Vorgaenge in Microtech with this order's AuftrNr
  given,       \* the BelegNr given so far are 1 .. given
  stored,      \* Order.erp_order_id, 0 when empty
  inShop,      \* the number that was last written to the Shopware order
  jobs,        \* the wrapper's queue
  command,     \* per process: what it is doing, with what number, is it an upsert
  overlapped,  \* history: a process started while another was running
  starts, changes

vorgangVars == <<belege, given, stored, inShop, jobs, command, overlapped, starts, changes>>

-----------------------------------------------------------------------------
JobKinds == {"read", "search", "create", "update"}
Off == [pc |-> "off", beleg |-> 0, writes |-> FALSE]

VorgangTypeOK ==
  /\ belege \subseteq Belege /\ given \in 0 .. MaxBelege
  /\ stored \in 0 .. MaxBelege /\ inShop \in 0 .. MaxBelege
  /\ jobs \in Seq([kind : JobKinds, beleg : 0 .. MaxBelege, by : Commands \cup {"nobody"}])
  /\ Len(jobs) <= MaxOutcomes
  /\ command \in [Commands -> [pc : {"off", "refresh", "wait read", "found", "gone", "wait search",
                                     "none", "write", "wait create", "wait update", "done"},
                               beleg : 0 .. MaxBelege, writes : BOOLEAN]]
  /\ overlapped \in BOOLEAN
  /\ starts \in 0 .. MaxStarts /\ changes \in 0 .. MaxChanges

At_(c, p) == command[c].pc = p
Step(c, p, b) == command' = [command EXCEPT ![c].pc = p, ![c].beleg = b]
Submits(c, kind, b) ==
  /\ Len(jobs) < MaxOutcomes
  /\ jobs' = Append(jobs, [kind |-> kind, beleg |-> b, by |-> c])
  /\ Step(c, CASE kind = "read" -> "wait read" [] kind = "search" -> "wait search"
               [] kind = "create" -> "wait create" [] OTHER -> "wait update", b)

VorgangInit ==
  /\ belege = {} /\ given = 0 /\ stored = 0 /\ inShop = 0
  /\ jobs = <<>> /\ command = [c \in Commands |-> Off]
  /\ overlapped = FALSE /\ starts = 0 /\ changes = 0

-----------------------------------------------------------------------------
(* upsert_order (writes) or refresh_erp_order_id; the order is read now.     *)
Start(c, writes) ==
  /\ At_(c, "off")
  /\ starts < MaxStarts /\ starts' = starts + 1
  /\ command' = [command EXCEPT ![c] = [pc |-> "refresh", beleg |-> stored, writes |-> writes]]
  /\ overlapped' = (overlapped \/ \E d \in Commands : ~At_(d, "off"))
  /\ UNCHANGED <<belege, given, stored, inShop, jobs, changes>>

(* _refresh_erp_order_id_graphql: ask for the stored number, if any ...      *)
AsksForStored(c) ==
  /\ At_(c, "refresh") /\ command[c].beleg # 0
  /\ Submits(c, "read", command[c].beleg)
  /\ UNCHANGED <<belege, given, stored, inShop, overlapped, starts, changes>>

MutantClears(c) ==
  /\ At_(c, "gone")
  /\ stored' = IF command[c].beleg # 0 THEN 0 ELSE stored
  /\ Step(c, "none", 0)
  /\ UNCHANGED <<belege, given, inShop, jobs, overlapped, starts, changes>>

(* ... clear it when Microtech does not know it ...                          *)
Clears(c) ==
  /\ At_(c, "gone")
  /\ stored' = IF command[c].beleg # 0 THEN 0 ELSE stored
  /\ Step(c, "refresh", 0)
  /\ UNCHANGED <<belege, given, inShop, jobs, overlapped, starts, changes>>

(* ... and search by AuftrNr.                                                *)
Searches(c) ==
  /\ At_(c, "refresh") /\ command[c].beleg = 0
  /\ Submits(c, "search", 0)
  /\ UNCHANGED <<belege, given, stored, inShop, overlapped, starts, changes>>

(* _persist_erp_order_id: the order, and the Shopware order, whose failure    *)
(* is only logged.                                                           *)
Persists(c) ==
  /\ At_(c, "found")
  /\ stored' = command[c].beleg
  /\ inShop' \in {inShop, command[c].beleg}
  /\ Step(c, IF command[c].writes THEN "write" ELSE "done", command[c].beleg)
  /\ UNCHANGED <<belege, given, jobs, overlapped, starts, changes>>

(* _upsert_order_graphql: update_vorgang of what was found, else              *)
(* create_vorgang; a refresh ends here.                                      *)
Updates(c) ==
  /\ At_(c, "write")
  /\ Submits(c, "update", command[c].beleg)
  /\ UNCHANGED <<belege, given, stored, inShop, overlapped, starts, changes>>

Creates(c) ==
  /\ At_(c, "none")
  /\ IF command[c].writes THEN Submits(c, "create", 0)
     ELSE Step(c, "done", 0) /\ UNCHANGED jobs
  /\ UNCHANGED <<belege, given, stored, inShop, overlapped, starts, changes>>

Ends(c) ==
  /\ At_(c, "done")
  /\ command' = [command EXCEPT ![c] = Off]
  /\ UNCHANGED <<belege, given, stored, inShop, jobs, overlapped, starts, changes>>

(* GraphQLMicrotechTimeout, a refused call, a job that failed (the waiting    *)
(* process raises), or the process dies.  A job that was accepted stays.     *)
Breaks(c) ==
  /\ ~At_(c, "off")
  /\ command' = [command EXCEPT ![c] = Off]
  /\ jobs' = [i \in DOMAIN jobs |-> IF jobs[i].by = c THEN [jobs[i] EXCEPT !.by = "nobody"] ELSE jobs[i]]
  /\ UNCHANGED <<belege, given, stored, inShop, overlapped, starts, changes>>

-----------------------------------------------------------------------------
(* The wrapper and Microtech.  Of several Vorgaenge with the AuftrNr any may  *)
(* be the one the search takes (the customer's first, else the first).       *)
Answer_(c, p, b) == IF c = "nobody" THEN UNCHANGED command ELSE Step(c, p, b)

WorkerReads(j) ==
  /\ j.kind = "read"
  /\ Answer_(j.by, IF j.beleg \in belege THEN "found" ELSE "gone", j.beleg)
  /\ UNCHANGED <<belege, given>>

WorkerSearches(j) ==
  /\ j.kind = "search"
  /\ IF belege = {} THEN Answer_(j.by, "none", 0)
     ELSE \E b \in belege : Answer_(j.by, "found", b)
  /\ UNCHANGED <<belege, given>>

WorkerCreates(j) ==
  /\ j.kind = "create" /\ given < MaxBelege
  /\ given' = given + 1 /\ belege' = belege \cup {given'}
  /\ IF j.by = "nobody" THEN UNCHANGED command
     ELSE command' = [command EXCEPT ![j.by] = [pc |-> "found", beleg |-> given', writes |-> FALSE]]

(* The answer tells the number again; a Vorgang that is gone raises.         *)
WorkerUpdates(j) ==
  /\ j.kind = "update"
  /\ IF j.by = "nobody" THEN UNCHANGED command
     ELSE command' = [command EXCEPT ![j.by] =
            IF j.beleg \in belege THEN [pc |-> "found", beleg |-> j.beleg, writes |-> FALSE] ELSE Off]
  /\ UNCHANGED <<belege, given>>

WorkerTakes ==
  /\ jobs # <<>> /\ jobs' = Tail(jobs)
  /\ LET j == Head(jobs) IN WorkerReads(j) \/ WorkerSearches(j) \/ WorkerCreates(j) \/ WorkerUpdates(j)
  /\ UNCHANGED <<stored, inShop, overlapped, starts, changes>>

(* A Vorgang gets another BelegNr (it becomes a delivery note), or is deleted. *)
ChangedInMicrotech(b) ==
  /\ b \in belege
  /\ changes < MaxChanges /\ changes' = changes + 1
  /\ \/ /\ given < MaxBelege /\ given' = given + 1
        /\ belege' = (belege \ {b}) \cup {given'}
     \/ belege' = belege \ {b} /\ UNCHANGED given
  /\ UNCHANGED <<stored, inShop, jobs, command, overlapped, starts>>

-----------------------------------------------------------------------------
VorgangNext ==
  \/ WorkerTakes
  \/ \E b \in Belege : ChangedInMicrotech(b)
  \/ \E c \in Commands :
       \/ \E writes \in BOOLEAN : Start(c, writes)
       \/ AsksForStored(c) \/ Clears(c) \/ Searches(c) \/ Persists(c)
       \/ Updates(c) \/ Creates(c) \/ Ends(c) \/ Breaks(c)

VorgangSpec == VorgangInit /\ [][VorgangNext]_vorgangVars

-----------------------------------------------------------------------------
(* Properties                                                               *)

(* An order has one Vorgang at most, whatever calls time out or are lost and *)
(* however often the upsert is tried again: a retry's search waits behind    *)
(* the create job of the attempt before.  Two processes at once may make two. *)
OneVorgang == ~overlapped => Cardinality(belege) <= 1
=============================================================================
