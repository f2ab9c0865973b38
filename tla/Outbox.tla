------------------------------- MODULE Outbox -------------------------------
(***************************************************************************)
(* Delivery of the outbox (internal/worker: outbox.go, policy.go,          *)
(* recovery.go).  Workers poll table outbox_jobs, claim a batch, publish   *)
(* each job and write its fate; a recovery pass takes back the jobs whose  *)
(* worker has held them for too long.  A worker talks to the database one  *)
(* statement at a time, so everything may happen between two of them.      *)
(*                                                                         *)
(* Time is relative: a job carries how long it still has to wait, a lock   *)
(* and a batch how old they are, and Tick ages them all.  RunOnce reads    *)
(* the clock once, so `age' is what makes its `now' stale.                 *)
(***************************************************************************)
EXTENDS Integers, FiniteSets

CONSTANTS
  Jobs,             \* ids of the jobs the workflow enqueues
  Workers,          \* running instances of worker.Outbox
  WorkerIDs,        \* ways to assign the text each writes into locked_by
  Batch,            \* how many jobs a worker claims at once
  MaximumAttempts, InitialBackoff, MaximumBackoff, LockTimeout,
  MaxDelay,         \* how far ahead a job may be enqueued (a bound)
  MaxFaults         \* how many batches are lost or outlive their lock (a bound)

\* RetryPolicy.Validate
ValidPolicy ==
  /\ MaximumAttempts \in 1 .. 100
  /\ InitialBackoff \in Nat \ {0}
  /\ MaximumBackoff \in Nat /\ MaximumBackoff >= InitialBackoff
  /\ LockTimeout \in Nat \ {0}

\* RunOnce takes the default when Batch is not positive.
ASSUME PolicyAssumption ==
  /\ ValidPolicy
  /\ Batch \in Nat \ {0}
  /\ MaxDelay \in Nat /\ MaxFaults \in Nat

VARIABLES
  id,               \* worker -> its WorkerID, given when it is started
  job,              \* table outbox_jobs: id -> row
  worker,           \* worker -> what its RunOnce holds in memory
  published,        \* id -> how often the publisher took it
  recovered,        \* id -> how often its lock was taken back
  faults            \* batches lost or late so far

vars == <<id, job, worker, published, recovered, faults>>

-----------------------------------------------------------------------------
\* An empty locked_by.  RunOnce never works under an empty WorkerID.
Unlocked == "none"
ASSUME WorkerAssumption ==
  /\ IsFiniteSet(Workers)
  /\ \A ids \in WorkerIDs : \A w \in Workers : ids[w] # Unlocked

Statuses == {"absent", "pending", "running", "retry", "delivered", "failed",
             "deleted"}
Claimable == {"pending", "retry"}
Settled == {"delivered", "failed", "deleted"}

\* Ages are counted up to the horizon, beyond which none makes a difference.
Horizon == LockTimeout + MaximumBackoff + 1
Older(age) == IF age < Horizon THEN age + 1 ELSE Horizon

Rows ==
  [status : Statuses, attempts : Nat, wait : Int,
   lockedBy : {id[w] : w \in Workers} \cup {Unlocked}, lockAge : Nat]

Idle == [step |-> "idle", todo |-> {}, age |-> 0]
Busy ==
  [step : {"publish"}, todo : SUBSET Jobs, age : Nat]
    \cup [step : {"lookup"}, todo : SUBSET Jobs, age : Nat, current : Jobs]
    \cup [step : {"finish"}, todo : SUBSET Jobs, age : Nat, current : Jobs,
          status : {"delivered", "retry", "failed"}, wait : Int]

TypeOK ==
  /\ id \in WorkerIDs
  /\ job \in [Jobs -> Rows]
  /\ worker \in [Workers -> Busy \cup {Idle}]
  /\ published \in [Jobs -> Nat]
  /\ recovered \in [Jobs -> Nat]
  /\ faults \in 0 .. MaxFaults

-----------------------------------------------------------------------------
(***************************************************************************)
(* policy.go.  The worker passes the entropy 0.5, which cancels the jitter.*)
(***************************************************************************)
Backoff(attempt) ==
  LET exponent == IF attempt - 1 > 30 THEN 30 ELSE attempt - 1
      base == InitialBackoff * 2 ^ exponent
  IN IF base > MaximumBackoff THEN MaximumBackoff ELSE base

\* Fault: one attempt too many.
StatusOneMore(attempt) ==
  IF attempt > MaximumAttempts THEN "failed" ELSE "retry"
StatusAfterFailure(attempt) ==
  IF attempt >= MaximumAttempts THEN "failed" ELSE "retry"

-----------------------------------------------------------------------------
(***************************************************************************)
(* The workflow's side: a committed request has inserted the job.          *)
(***************************************************************************)
Enqueue(j, delay) ==
  /\ job[j].status = "absent"
  /\ job' = [job EXCEPT ![j].status = "pending", ![j].wait = delay]
  /\ UNCHANGED <<id, worker, published, recovered, faults>>

(***************************************************************************)
(* RunOnce.  The claim is one statement; `lag' is how old the clock        *)
(* reading is by then.  The claimed jobs come back in no particular order. *)
(***************************************************************************)
Eligible(lag) ==
  {j \in Jobs : job[j].status \in Claimable /\ job[j].wait <= -lag}

\* The LIMIT, in the order of available_at.
FirstOf(claimed, eligible) ==
  /\ claimed \subseteq eligible
  /\ Cardinality(claimed) =
       IF Cardinality(eligible) < Batch THEN Cardinality(eligible) ELSE Batch
  /\ \A j \in claimed, k \in eligible \ claimed : job[j].wait <= job[k].wait

Claim(w, lag) ==
  /\ worker[w] = Idle
  /\ \E claimed \in SUBSET Jobs :
       /\ claimed # {}
       /\ FirstOf(claimed, Eligible(lag))
       /\ job' = [j \in Jobs |->
                    IF j \in claimed
                      THEN [job[j] EXCEPT !.status = "running",
                                          !.lockedBy = id[w],
                                          !.lockAge = lag]
                      ELSE job[j]]
       /\ worker' = [worker EXCEPT ![w] =
                       [step |-> "publish", todo |-> claimed, age |-> lag]]
  /\ UNCHANGED <<id, published, recovered, faults>>

\* The publisher takes the next job: the fate to write is "delivered".
PublishOK(w, j) ==
  /\ worker[w].step = "publish"
  /\ j \in worker[w].todo
  /\ published' = [published EXCEPT ![j] = @ + 1]
  /\ worker' = [worker EXCEPT ![w] =
                  [step |-> "finish", todo |-> @.todo \ {j}, age |-> @.age,
                   current |-> j, status |-> "delivered", wait |-> -@.age]]
  /\ UNCHANGED <<id, job, recovered, faults>>

\* The publisher returns an error: the attempts have to be looked up.
PublishError(w, j) ==
  /\ worker[w].step = "publish"
  /\ j \in worker[w].todo
  /\ worker' = [worker EXCEPT ![w] =
                  [step |-> "lookup", todo |-> @.todo \ {j}, age |-> @.age,
                   current |-> j]]
  /\ UNCHANGED <<id, job, published, recovered, faults>>

\* Fault: WHERE id = current.
HoldsAny(w, j) == job[j].status # "deleted"

\* WHERE id = current AND locked_by = this worker.
Holds(w, j) == job[j].status # "deleted" /\ job[j].lockedBy = id[w]

\* SELECT attempts+1.  No row is an error, and RunOnce returns with the rest
\* of its batch still marked as running.
Lookup(w) ==
  LET t == worker[w]
      attempts == job[t.current].attempts + 1
  IN /\ t.step = "lookup"
     /\ worker' = [worker EXCEPT ![w] =
          IF Holds(w, t.current)
            THEN [step |-> "finish", todo |-> t.todo, age |-> t.age,
                  current |-> t.current, status |-> StatusAfterFailure(attempts),
                  wait |-> Backoff(attempts) - t.age]
            ELSE Idle]
     /\ UNCHANGED <<id, job, published, recovered, faults>>

\* Fault: locked_by is left as it is.
FateLocked(row, t) ==
  [row EXCEPT !.status = t.status, !.attempts = @ + 1, !.wait = t.wait,
              !.lockAge = 0]

\* The last UPDATE; that it matched no row goes unnoticed.
Fate(row, t) ==
  [row EXCEPT !.status = t.status, !.attempts = @ + 1, !.wait = t.wait,
              !.lockedBy = Unlocked, !.lockAge = 0]
Finish(w) ==
  LET t == worker[w] IN
  /\ t.step = "finish"
  /\ job' = IF Holds(w, t.current)
              THEN [job EXCEPT ![t.current] = Fate(@, t)] ELSE job
  /\ worker' = [worker EXCEPT ![w] =
                  IF t.todo = {} THEN Idle
                  ELSE [step |-> "publish", todo |-> t.todo, age |-> t.age]]
  /\ UNCHANGED <<id, published, recovered, faults>>

\* The process is killed or told to stop, or a statement fails: the batch is
\* forgotten where it stands and the polling starts afresh.
Abandon(w) ==
  /\ worker[w] # Idle
  /\ faults < MaxFaults
  /\ faults' = faults + 1
  /\ worker' = [worker EXCEPT ![w] = Idle]
  /\ UNCHANGED <<id, job, published, recovered>>

-----------------------------------------------------------------------------
(***************************************************************************)
(* Recovery.                                                               *)
(***************************************************************************)
\* Fault: the wrong status.
ExpiredRetries ==
  {j \in Jobs : job[j].status = "retry" /\ job[j].lockAge > LockTimeout}
Expired == {j \in Jobs : job[j].status = "running" /\ job[j].lockAge > LockTimeout}

Recover(row) ==
  [row EXCEPT !.status = IF row.attempts >= MaximumAttempts
                           THEN "failed" ELSE "retry",
              !.lockedBy = Unlocked, !.lockAge = 0, !.wait = 0]
RecoverExpiredLocks ==
  /\ Expired # {}
  /\ job' = [j \in Jobs |-> IF j \in Expired THEN Recover(job[j]) ELSE job[j]]
  /\ recovered' = [j \in Jobs |->
                     IF j \in Expired THEN recovered[j] + 1 ELSE recovered[j]]
  /\ UNCHANGED <<id, worker, published, faults>>

\* The cutoff and the batch are the caller's, so any delivered job may go.
DeleteDeliveredBefore(j) ==
  /\ job[j].status = "delivered"
  /\ job' = [job EXCEPT ![j].status = "deleted"]
  /\ UNCHANGED <<id, worker, published, recovered, faults>>

-----------------------------------------------------------------------------
\* A unit of time passes.  It is a fault if a live batch outlives its lock.
Outlived == \E w \in Workers :
              worker[w] # Idle /\ worker[w].age = LockTimeout
Tick ==
  /\ Outlived => faults < MaxFaults
  /\ faults' = IF Outlived THEN faults + 1 ELSE faults
  /\ job' = [j \in Jobs |->
       [job[j] EXCEPT
          !.wait = IF job[j].status \in Claimable /\ @ > -Horizon THEN @ - 1 ELSE @,
          !.lockAge = IF job[j].status = "running" THEN Older(@) ELSE @]]
  /\ worker' = [w \in Workers |->
       IF worker[w] = Idle THEN Idle
       ELSE [worker[w] EXCEPT !.age = Older(@)]]
  /\ UNCHANGED <<id, published, recovered>>

NewJob == [status |-> "absent", attempts |-> 0, wait |-> 0,
           lockedBy |-> Unlocked, lockAge |-> 0]

Init ==
  /\ id \in WorkerIDs
  /\ job = [j \in Jobs |-> NewJob]
  /\ worker = [w \in Workers |-> Idle]
  /\ published = [j \in Jobs |-> 0]
  /\ recovered = [j \in Jobs |-> 0]
  /\ faults = 0

Poll(w) == \E lag \in 0 .. LockTimeout : Claim(w, lag)
Publish(w) == \E j \in Jobs : PublishOK(w, j) \/ PublishError(w, j)
Work(w) == Poll(w) \/ Publish(w) \/ Lookup(w) \/ Finish(w)

\* What cmd/server starts: workers, but no recovery and no cleanup.
ServerNext ==
  \/ \E j \in Jobs, delay \in 0 .. MaxDelay : Enqueue(j, delay)
  \/ \E w \in Workers : Work(w) \/ Abandon(w)
  \/ Tick

\* The whole package at work.
Next ==
  \/ ServerNext
  \/ RecoverExpiredLocks
  \/ \E j \in Jobs : DeleteDeliveredBefore(j)

\* The worker's goroutine is woken by its ticker for ever, and time passes.
ServerFairness == WF_vars(Tick) /\ \A w \in Workers : WF_vars(Work(w))

Spec == Init /\ [][Next]_vars
FairSpec == Spec /\ ServerFairness /\ WF_vars(RecoverExpiredLocks)
ServerSpec == Init /\ [][ServerNext]_vars /\ ServerFairness

-----------------------------------------------------------------------------
\* No two workers write the same text into locked_by.
OwnIDs == \A w, x \in Workers : id[w] = id[x] => w = x

\* What the outbox looks like from outside: a job waits until it has its fate,
\* and every lock that is taken back allows one more publication.
D == INSTANCE Delivery WITH
       fate <- [j \in Jobs |-> IF job[j].status \in Claimable \cup {"running"}
                                THEN "waiting" ELSE job[j].status],
       allowance <- [j \in Jobs |-> 1 + recovered[j]]

\* Workers, recovery and cleanup implement Delivery, whatever ids the workers
\* have: a job is recorded as delivered only if the publisher has taken it, it
\* is published more than once only if its lock was taken back, and its fate is
\* final.  No UPDATE of RunOnce looks at the status it overwrites; what
\* protects a delivered or failed job from a late worker is locked_by.
DeliveryPromise == D!Spec

\* The retry limit holds although the attempts are looked up in one statement
\* and counted in another, if no two workers have the same id: a job that may
\* still be claimed or is being published has attempts left, one that has failed
\* for good has used up exactly all of them, and no job is tried more often.
AttemptsBounded ==
  OwnIDs => \A j \in Jobs :
    /\ job[j].attempts <= MaximumAttempts
    /\ job[j].status \in Claimable \cup {"running"} =>
         job[j].attempts < MaximumAttempts
    /\ job[j].status = "failed" => job[j].attempts = MaximumAttempts

\* Every job that is enqueued is in the end delivered or given up, provided
\* that only finitely many batches are lost or late.
EveryJobSettles ==
  \A j \in Jobs : job[j].status = "pending" ~> job[j].status \in Settled

\* A job does not stay locked: whatever becomes of the worker that claimed
\* it, it is not marked as running for ever.
LocksReleased ==
  \A j \in Jobs : job[j].status = "running" ~> job[j].status # "running"
=============================================================================
