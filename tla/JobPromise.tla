----------------------------- MODULE JobPromise ------------------------------
(***************************************************************************)
(* What the job sentinel promises the rest of the program, without threads, *)
(* transactions, messages, polls and webhooks: a job is opened once; it     *)
(* succeeds only if the wrapper really completed it; the continuation runs  *)
(* only for such a job; a job that was closed or removed stays so.          *)
(* JobSentinel implements this specification (JobSentinel!Promise).         *)
(***************************************************************************)
EXTENDS Naturals

CONSTANT Jobs

VARIABLES
  phase,    \* of each job: "new", "open", "succeeded", "closed" or "gone"
  verdict,  \* what the wrapper has made of it: "none", "open" or the outcome
  runs      \* how often its continuation was entered: never, once, more often

promiseVars == <<phase, verdict, runs>>

Phase == {"new", "open", "succeeded", "closed", "gone"}
Outcome == {"done", "failed", "cancelled"}

PromiseInit ==
  /\ phase = [j \in Jobs |-> "new"]
  /\ verdict = [j \in Jobs |-> "none"]
  /\ runs = [j \in Jobs |-> 0]

Becomes(j, from, to) ==
  /\ phase[j] \in from
  /\ phase' = [phase EXCEPT ![j] = to]
  /\ UNCHANGED <<verdict, runs>>

OpenJob(j) == Becomes(j, {"new"}, "open")
SucceedJob(j) == verdict[j] = "done" /\ Becomes(j, {"open"}, "succeeded")
CloseJob(j) == Becomes(j, {"open", "succeeded"}, "closed")
RemoveJob(j) == Becomes(j, {"open", "succeeded", "closed"}, "gone")

(* The submit call may fail for the caller and reach the wrapper all the     *)
(* same: the job is then closed here and open there.                         *)
WrapperTakes(j) ==
  /\ verdict[j] = "none" /\ phase[j] # "new"
  /\ verdict' = [verdict EXCEPT ![j] = "open"]
  /\ phase' \in {phase, [phase EXCEPT ![j] = IF @ = "open" THEN "closed" ELSE @]}
  /\ UNCHANGED runs

WrapperEnds(j) ==
  /\ verdict[j] = "open"
  /\ \E o \in Outcome : verdict' = [verdict EXCEPT ![j] = o]
  /\ UNCHANGED <<phase, runs>>

RunContinuation(j) ==
  /\ verdict[j] = "done"
  /\ phase[j] \in {"succeeded", "closed", "gone"}
  /\ runs' = [runs EXCEPT ![j] = IF @ < 2 THEN @ + 1 ELSE 2]
  /\ UNCHANGED <<phase, verdict>>

PromiseNext ==
  \E j \in Jobs :
    \/ OpenJob(j) \/ SucceedJob(j) \/ CloseJob(j) \/ RemoveJob(j)
    \/ WrapperTakes(j) \/ WrapperEnds(j) \/ RunContinuation(j)

PromiseSpec == PromiseInit /\ [][PromiseNext]_promiseVars
=============================================================================
