------------------------------ MODULE Delivery ------------------------------
(***************************************************************************)
(* What the outbox promises whoever enqueues a job (internal/worker),      *)
(* without workers, statements, locks or clocks: at least one publication, *)
(* at most one more for each time the job was taken back from a worker,    *)
(* and one fate.  Module Outbox implements it.                             *)
(***************************************************************************)
EXTENDS Naturals

CONSTANT Jobs

VARIABLES
  fate,             \* job -> what has become of it
  published,        \* job -> how often it was published
  allowance         \* job -> how often it may have been published by now

vars == <<fate, published, allowance>>

\* A job that is known and has no fate yet.
Waiting(j) == fate[j] = "waiting"

Submit(j) ==
  /\ fate[j] = "absent"
  /\ fate' = [fate EXCEPT ![j] = "waiting"]
  /\ UNCHANGED <<published, allowance>>

\* A late worker publishes a job that has its fate already.
Publish(j) ==
  /\ fate[j] # "absent"
  /\ published[j] < allowance[j]
  /\ published' = [published EXCEPT ![j] = @ + 1]
  /\ UNCHANGED <<fate, allowance>>

Deliver(j) ==
  /\ Waiting(j)
  /\ published[j] > 0
  /\ fate' = [fate EXCEPT ![j] = "delivered"]
  /\ UNCHANGED <<published, allowance>>

\* The attempts are used up, whether or not a publication got through.
GiveUp(j) ==
  /\ Waiting(j)
  /\ fate' = [fate EXCEPT ![j] = "failed"]
  /\ UNCHANGED <<published, allowance>>

\* Jobs are taken back from their workers, and some of them given up.
TakeBack(jobs, failing) ==
  /\ \A j \in jobs : Waiting(j)
  /\ failing \subseteq jobs
  /\ fate' = [j \in Jobs |-> IF j \in failing THEN "failed" ELSE fate[j]]
  /\ allowance' = [j \in Jobs |->
                     IF j \in jobs THEN allowance[j] + 1 ELSE allowance[j]]
  /\ UNCHANGED published

Purge(j) ==
  /\ fate[j] = "delivered"
  /\ fate' = [fate EXCEPT ![j] = "deleted"]
  /\ UNCHANGED <<published, allowance>>

Init ==
  /\ fate = [j \in Jobs |-> "absent"]
  /\ published = [j \in Jobs |-> 0]
  /\ allowance = [j \in Jobs |-> 1]

Next ==
  \/ \E j \in Jobs : Submit(j) \/ Publish(j) \/ Deliver(j) \/ GiveUp(j) \/ Purge(j)
  \/ \E jobs \in SUBSET Jobs, failing \in SUBSET Jobs : TakeBack(jobs, failing)

Spec == Init /\ [][Next]_vars
=============================================================================
