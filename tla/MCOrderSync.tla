----------------------------- MODULE MCOrderSync -----------------------------
(* Small instances of OrderSyncWorkflow.  The chain has at least five remote *)
(* steps; to afford duplicates, faults and interventions together, some runs *)
(* begin where a person finds a workflow that has failed late in the chain:  *)
(* Microtech refused FailedStep after everything before it was carried out.  *)
EXTENDS OrderSyncWorkflow

CONSTANTS t1, t2

FailedStep == "set_default_addresses"

Past == SelectSeq(StepOrder, LAMBDA s : s \in Before(FailedStep) \ {"writeback_adrnr"})

LateInit ==
  LET n == Len(Past) IN
  /\ wf = [w \in Workflows |->
             IF w = 1 THEN [status |-> "failed", step |-> FailedStep, job |-> n + 1,
                            done |-> Before(FailedStep)]
             ELSE [status |-> "none", step |-> NoStep, job |-> NoJob, done |-> {}]]
  /\ job = [j \in Jobs |->
              CASE j <= n -> [status |-> "gone", wf |-> 1, step |-> Past[j]]
                [] j = n + 1 -> [status |-> "FAILED", wf |-> 1, step |-> FailedStep]
                [] OTHER -> [status |-> "none", wf |-> 0, step |-> NoStep]]
  /\ remote = [j \in Jobs |->
                 CASE j <= n -> "done" [] j = n + 1 -> "failed" [] OTHER -> "none"]
  /\ heard = 1 .. n
  /\ told = IF NewCustomer THEN {1} ELSE {}
  /\ task = [t \in Threads |-> Idle]
  /\ dups = 0 /\ acts = 0 /\ faults = 0

LateSpec == LateInit /\ [][Next]_vars

-----------------------------------------------------------------------------
(* The short runs that need the whole chain: nothing has begun, or Shopware   *)
(* refused the number of a customer whom Microtech has just created.  Neither *)
(* allows a duplicate call, the first allows nothing that is not the chain.   *)

NoTask == [t \in Threads |-> Idle]

FreshInit ==
  /\ wf = [w \in Workflows |-> [status |-> "none", step |-> NoStep, job |-> NoJob, done |-> {}]]
  /\ job = [j \in Jobs |-> [status |-> "none", wf |-> 0, step |-> NoStep]]
  /\ remote = [j \in Jobs |-> "none"]
  /\ heard = {} /\ told = {} /\ task = NoTask
  /\ dups = MaxDups /\ acts = MaxActs /\ faults = MaxFaults

EarlyInit ==
  /\ wf = [w \in Workflows |->
             IF w = 1 THEN [status |-> "failed", step |-> "writeback_adrnr", job |-> NoJob,
                            done |-> {"write_customer"}]
             ELSE [status |-> "none", step |-> NoStep, job |-> NoJob, done |-> {}]]
  /\ job = [j \in Jobs |->
              IF j = 1 THEN [status |-> "gone", wf |-> 1, step |-> "write_customer"]
              ELSE [status |-> "none", wf |-> 0, step |-> NoStep]]
  /\ remote = [j \in Jobs |-> IF j = 1 THEN "done" ELSE "none"]
  /\ heard = {1} /\ told = {} /\ task = NoTask
  /\ dups = MaxDups /\ acts = 0 /\ faults = 0

LiveSpec == (FreshInit \/ EarlyInit \/ LateInit) /\ [][Next]_vars /\ Fairness

(* A workflow in the middle of the chain, waiting for WaitedStep, from where     *)
(* nothing is delivered twice, nothing fails and a person intervenes once at    *)
(* most; after an abort a second workflow begins the chain.                  *)
WaitedStep == "clear_default_billing_address"

Preceding == SelectSeq(StepOrder, LAMBDA s : s \in Before(WaitedStep) \ {"writeback_adrnr"})

MiddleInit ==
  LET n == Len(Preceding) IN
  /\ wf = [w \in Workflows |->
             IF w = 1 THEN [status |-> "waiting", step |-> WaitedStep, job |-> n + 1,
                            done |-> Before(WaitedStep)]
             ELSE [status |-> "none", step |-> NoStep, job |-> NoJob, done |-> {}]]
  /\ job = [j \in Jobs |->
              CASE j <= n -> [status |-> "gone", wf |-> 1, step |-> Preceding[j]]
                [] j = n + 1 -> [status |-> "open", wf |-> 1, step |-> WaitedStep]
                [] OTHER -> [status |-> "none", wf |-> 0, step |-> NoStep]]
  /\ remote = [j \in Jobs |->
                 CASE j <= n -> "done" [] j = n + 1 -> "open" [] OTHER -> "none"]
  /\ heard = 1 .. n
  /\ told = IF NewCustomer THEN {1} ELSE {}
  /\ task = NoTask
  /\ dups = 0 /\ acts = 0 /\ faults = 0

CalmNext == Next /\ dups' = 0 /\ faults' = 0 /\ acts' <= 1
=============================================================================
