---------------------------- MODULE OutboxProofs ----------------------------
(***************************************************************************)
(* Outbox implements Delivery, for any number of jobs and workers, for any *)
(* retry policy that RetryPolicy.Validate accepts and any worker ids.      *)
(***************************************************************************)
EXTENDS Outbox, FiniteSetTheorems, TLAPS

(***************************************************************************)
(* The inductive invariant.  Whoever carries a job in memory may publish   *)
(* it, or has failed to and may make it claimable once more.  Publications *)
(* are bounded because neither a claim nor a failure creates a chance to   *)
(* publish: it moves between the row and a worker.  Only recovery adds one.*)
(***************************************************************************)
Carries(w, j) ==
  \/ j \in worker[w].todo
  \/ worker[w].step = "lookup" /\ worker[w].current = j
  \/ /\ worker[w].step = "finish" /\ worker[w].status # "delivered"
     /\ worker[w].current = j
Carriers(j) == {w \in Workers : Carries(w, j)}
Spare(j) == IF job[j].status \in {"absent", "pending", "retry"} THEN 1 ELSE 0
PublicationsBounded ==
  \A j \in Jobs :
    published[j] + Cardinality(Carriers(j)) + Spare(j) <= 1 + recovered[j]

\* Only a running job is locked, a worker knows enqueued jobs only, it works
\* on one job at a time, and it reports as delivered what it published.
LocksRunning ==
  \A j \in Jobs : job[j].lockedBy # Unlocked => job[j].status = "running"
CarriedKnown ==
  \A w \in Workers, j \in Jobs : Carries(w, j) => job[j].status # "absent"
CurrentApart ==
  \A w \in Workers : worker[w].step \in {"lookup", "finish"} =>
    worker[w].current \notin worker[w].todo
ReportsTrue ==
  \A w \in Workers :
    worker[w].step = "finish" /\ worker[w].status = "delivered" =>
      published[worker[w].current] > 0
PublishInv ==
  PublicationsBounded /\ LocksRunning /\ CarriedKnown /\ CurrentApart
    /\ ReportsTrue

\* With ids of their own, a worker that still holds the job it looked up
\* finds the attempts it has counted.
Counted(w) ==
  /\ worker[w].step = "finish" /\ worker[w].status # "delivered"
  /\ Holds(w, worker[w].current)
  => worker[w].status = StatusAfterFailure(job[worker[w].current].attempts + 1)
\* What AttemptsBounded says of a job, and that a new one was never tried.
Tried(j) ==
  /\ job[j].attempts <= MaximumAttempts
  /\ job[j].status \in Claimable \cup {"running"} =>
       job[j].attempts < MaximumAttempts
  /\ job[j].status = "failed" => job[j].attempts = MaximumAttempts
  /\ job[j].status = "absent" => job[j].attempts = 0
AttemptsInv ==
  OwnIDs => (\A j \in Jobs : Tried(j)) /\ (\A w \in Workers : Counted(w))

OutboxInv == TypeOK /\ PublishInv /\ AttemptsInv

-----------------------------------------------------------------------------
(***************************************************************************)
(* Rows and workers.                                                       *)
(***************************************************************************)
Outcomes == {"delivered", "retry", "failed"}

\* What a worker holds in memory at each of its steps.
LEMMA WorkerFields ==
  ASSUME TypeOK, NEW w \in Workers
  PROVE  /\ worker[w].step \in {"idle", "publish", "lookup", "finish"}
         /\ worker[w].todo \subseteq Jobs /\ worker[w].age \in Nat
         /\ worker[w].step = "idle" <=> worker[w] = Idle
         /\ worker[w].step \in {"idle", "publish"} \/ worker[w].current \in Jobs
         /\ worker[w].step = "finish" =>
              worker[w].status \in Outcomes /\ worker[w].wait \in Int
<1>1. worker[w] \in Busy \cup {Idle}
  BY DEF TypeOK
<1> QED
  BY <1>1 DEF Busy, Idle, Outcomes

\* An idle worker holds nothing.
LEMMA IdleFields == Idle.step = "idle" /\ Idle.todo = {} /\ Idle.age = 0
BY DEF Idle

\* The columns of a row.
LEMMA RowFields ==
  ASSUME TypeOK, NEW j \in Jobs
  PROVE  /\ job[j] \in Rows
         /\ job[j].status \in Statuses /\ job[j].attempts \in Nat
         /\ job[j].wait \in Int /\ job[j].lockAge \in Nat
         /\ published[j] \in Nat /\ recovered[j] \in Nat
<1>1. job[j] \in Rows /\ published[j] \in Nat /\ recovered[j] \in Nat
  BY DEF TypeOK
<1> QED
  BY <1>1 DEF Rows

\* RetryPolicy.Backoff returns a duration.
LEMMA BackoffType ==
  ASSUME NEW attempt \in Nat, attempt >= 1
  PROVE  Backoff(attempt) \in Int
<1> DEFINE exponent == IF attempt - 1 > 30 THEN 30 ELSE attempt - 1
<1>1. exponent \in Nat
  OBVIOUS
<1>2. \A n \in Nat : 2 ^ n \in Int
  OBVIOUS
<1>3. 2 ^ exponent \in Int
  BY <1>1, <1>2
<1> HIDE DEF exponent
<1>4. InitialBackoff * 2 ^ exponent \in Int /\ MaximumBackoff \in Int
  BY <1>3, PolicyAssumption DEF ValidPolicy
<1> QED
  BY <1>4 DEF Backoff, exponent

\* Ages stay natural numbers.
LEMMA OlderType ==
  ASSUME NEW age \in Nat
  PROVE  Older(age) \in Nat
BY PolicyAssumption DEF Older, Horizon, ValidPolicy

-----------------------------------------------------------------------------
(***************************************************************************)
(* What each statement does to the rows and to its worker.                 *)
(***************************************************************************)
\* A committed request inserts a job that nobody has seen.
LEMMA EnqueueEffect ==
  ASSUME TypeOK, NEW j \in Jobs, NEW delay \in Nat, Enqueue(j, delay)
  PROVE  /\ job[j].status = "absent" /\ job'[j].status = "pending"
         /\ job'[j].attempts = job[j].attempts
         /\ job'[j].lockedBy = job[j].lockedBy
         /\ \A k \in Jobs \ {j} : job'[k] = job[k]
         /\ UNCHANGED <<id, worker, published, recovered, faults>>
         /\ TypeOK'
<1> DEFINE new == [job[j] EXCEPT !.status = "pending", !.wait = delay]
<1>1. job[j] \in Rows /\ delay \in Int /\ "pending" \in Statuses
  BY RowFields DEF Statuses
<1>2. /\ new \in Rows /\ new.status = "pending"
      /\ new.attempts = job[j].attempts /\ new.lockedBy = job[j].lockedBy
  BY <1>1 DEF Rows
<1>3. job' = [job EXCEPT ![j] = new]
  BY DEF Enqueue, TypeOK
<1>4. job[j].status = "absent" /\ UNCHANGED <<id, worker, published, recovered, faults>>
  BY DEF Enqueue
<1> HIDE DEF new
<1>5. job' \in [Jobs -> Rows]
  BY <1>2, <1>3 DEF TypeOK
<1>6. TypeOK'
  BY <1>4, <1>5 DEF TypeOK, Rows
<1> QED
  BY <1>2, <1>3, <1>4, <1>6 DEF TypeOK

\* A claim marks jobs that were claimable and gives them to one idle worker.
LEMMA ClaimEffect ==
  ASSUME TypeOK, NEW w \in Workers, NEW lag \in Nat, Claim(w, lag)
  PROVE  /\ worker[w] = Idle
         /\ worker'[w].step = "publish"
         /\ worker'[w].todo \subseteq Jobs
         /\ \A x \in Workers \ {w} : worker'[x] = worker[x]
         /\ \A j \in worker'[w].todo :
              /\ job[j].status \in Claimable
              /\ job'[j].status = "running" /\ job'[j].lockedBy = id[w]
              /\ job'[j].attempts = job[j].attempts
         /\ \A j \in Jobs \ worker'[w].todo : job'[j] = job[j]
         /\ UNCHANGED <<id, published, recovered, faults>>
         /\ TypeOK'
<1>1. PICK claimed \in SUBSET Jobs :
        /\ FirstOf(claimed, Eligible(lag))
        /\ job' = [j \in Jobs |->
                     IF j \in claimed
                       THEN [job[j] EXCEPT !.status = "running",
                                           !.lockedBy = id[w],
                                           !.lockAge = lag]
                       ELSE job[j]]
        /\ worker' = [worker EXCEPT ![w] =
                        [step |-> "publish", todo |-> claimed, age |-> lag]]
  BY DEF Claim
<1>2. worker[w] = Idle /\ UNCHANGED <<id, published, recovered, faults>>
  BY DEF Claim
<1> DEFINE new == [step |-> "publish", todo |-> claimed, age |-> lag]
<1>3. new \in Busy /\ new.step = "publish" /\ new.todo = claimed
  BY DEF Busy
<1>4. worker' = [worker EXCEPT ![w] = new]
  BY <1>1
<1> HIDE DEF new
<1>5. /\ worker' \in [Workers -> Busy \cup {Idle}]
      /\ worker'[w] = new /\ \A x \in Workers \ {w} : worker'[x] = worker[x]
  BY <1>3, <1>4 DEF TypeOK
<1>6. ASSUME NEW j \in claimed
      PROVE  /\ job'[j] \in Rows
             /\ job'[j].status = "running" /\ job'[j].lockedBy = id[w]
             /\ job'[j].attempts = job[j].attempts
  <2>1. job[j] \in Rows
    BY RowFields
  <2>2. job'[j] = [job[j] EXCEPT !.status = "running", !.lockedBy = id[w],
                                 !.lockAge = lag]
    BY <1>1
  <2> QED
    BY <2>1, <2>2 DEF Rows, Statuses
<1>7. \A j \in Jobs \ claimed : job'[j] = job[j]
  BY <1>1
<1>8. job' \in [Jobs -> Rows]
  BY <1>1, <1>6, <1>7, RowFields
<1>9. TypeOK'
  BY <1>2, <1>5, <1>8 DEF TypeOK, Rows
<1>10. \A j \in claimed : job[j].status \in Claimable
  BY <1>1 DEF FirstOf, Eligible
<1> QED
  BY <1>2, <1>3, <1>5, <1>6, <1>7, <1>9, <1>10

\* The publisher takes a job of the batch.
LEMMA PublishOKEffect ==
  ASSUME TypeOK, NEW w \in Workers, NEW j \in Jobs, PublishOK(w, j)
  PROVE  /\ worker[w].step = "publish" /\ j \in worker[w].todo
         /\ worker'[w].step = "finish" /\ worker'[w].status = "delivered"
         /\ worker'[w].current = j /\ worker'[w].todo = worker[w].todo \ {j}
         /\ \A x \in Workers \ {w} : worker'[x] = worker[x]
         /\ published'[j] = published[j] + 1
         /\ \A k \in Jobs \ {j} : published'[k] = published[k]
         /\ UNCHANGED <<id, job, recovered, faults>>
         /\ TypeOK'
<1> DEFINE new == [step |-> "finish", todo |-> worker[w].todo \ {j},
                   age |-> worker[w].age, current |-> j,
                   status |-> "delivered", wait |-> -worker[w].age]
<1>1. worker[w].todo \subseteq Jobs /\ worker[w].age \in Nat
  BY WorkerFields
<1>2. new \in Busy /\ new.step = "finish" /\ new.status = "delivered"
        /\ new.current = j /\ new.todo = worker[w].todo \ {j}
  BY <1>1 DEF Busy
<1>3. /\ worker' = [worker EXCEPT ![w] = new]
      /\ published' = [published EXCEPT ![j] = @ + 1]
      /\ worker[w].step = "publish" /\ j \in worker[w].todo
      /\ UNCHANGED <<id, job, recovered, faults>>
  BY DEF PublishOK
<1> HIDE DEF new
<1>4. worker' \in [Workers -> Busy \cup {Idle}]
  BY <1>2, <1>3 DEF TypeOK
<1>5. /\ published' \in [Jobs -> Nat] /\ published'[j] = published[j] + 1
      /\ \A k \in Jobs \ {j} : published'[k] = published[k]
  BY <1>3 DEF TypeOK
<1>6. TypeOK'
  BY <1>3, <1>4, <1>5 DEF TypeOK, Rows
<1> QED
  BY <1>2, <1>3, <1>5, <1>6 DEF TypeOK

\* The publisher refuses a job of the batch.
LEMMA PublishErrorEffect ==
  ASSUME TypeOK, NEW w \in Workers, NEW j \in Jobs, PublishError(w, j)
  PROVE  /\ worker[w].step = "publish" /\ j \in worker[w].todo
         /\ worker'[w].step = "lookup" /\ worker'[w].current = j
         /\ worker'[w].todo = worker[w].todo \ {j}
         /\ \A x \in Workers \ {w} : worker'[x] = worker[x]
         /\ UNCHANGED <<id, job, published, recovered, faults>>
         /\ TypeOK'
<1> DEFINE new == [step |-> "lookup", todo |-> worker[w].todo \ {j},
                   age |-> worker[w].age, current |-> j]
<1>1. worker[w].todo \subseteq Jobs /\ worker[w].age \in Nat
  BY WorkerFields
<1>2. new \in Busy /\ new.step = "lookup"
        /\ new.current = j /\ new.todo = worker[w].todo \ {j}
  BY <1>1 DEF Busy
<1>3. /\ worker' = [worker EXCEPT ![w] = new]
      /\ worker[w].step = "publish" /\ j \in worker[w].todo
      /\ UNCHANGED <<id, job, published, recovered, faults>>
  BY DEF PublishError
<1> HIDE DEF new
<1>4. worker' \in [Workers -> Busy \cup {Idle}]
  BY <1>2, <1>3 DEF TypeOK
<1>5. TypeOK'
  BY <1>3, <1>4 DEF TypeOK, Rows
<1> QED
  BY <1>2, <1>3, <1>5 DEF TypeOK

\* The attempts are looked up, or the batch is dropped.
LEMMA LookupEffect ==
  ASSUME TypeOK, NEW w \in Workers, Lookup(w)
  PROVE  /\ worker[w].step = "lookup"
         /\ \/ /\ worker'[w].step = "finish"
               /\ worker'[w].status =
                    StatusAfterFailure(job[worker[w].current].attempts + 1)
               /\ worker'[w].current = worker[w].current
               /\ worker'[w].todo = worker[w].todo
            \/ worker'[w] = Idle
         /\ \A x \in Workers \ {w} : worker'[x] = worker[x]
         /\ UNCHANGED <<id, job, published, recovered, faults>>
         /\ TypeOK'
<1> DEFINE t == worker[w]
           attempts == job[t.current].attempts + 1
           new == [step |-> "finish", todo |-> t.todo, age |-> t.age,
                   current |-> t.current, status |-> StatusAfterFailure(attempts),
                   wait |-> Backoff(attempts) - t.age]
<1>1. t.step = "lookup" /\ UNCHANGED <<id, job, published, recovered, faults>>
  BY DEF Lookup
<1>2. t.todo \subseteq Jobs /\ t.age \in Nat /\ t.current \in Jobs
  BY <1>1, WorkerFields
<1>3. attempts \in Nat /\ attempts >= 1
  BY <1>2, RowFields
<1>4. Backoff(attempts) - t.age \in Int
  BY <1>2, <1>3, BackoffType
<1>5. StatusAfterFailure(attempts) \in {"retry", "failed"}
  BY DEF StatusAfterFailure
<1>6. worker' = [worker EXCEPT ![w] = IF Holds(w, t.current) THEN new ELSE Idle]
  BY DEF Lookup
<1> HIDE DEF attempts, t
<1>7. new \in Busy /\ new.step = "finish"
        /\ new.status = StatusAfterFailure(attempts)
        /\ new.current = t.current /\ new.todo = t.todo
  BY <1>2, <1>4, <1>5 DEF Busy
<1> HIDE DEF new
<1>8. worker' \in [Workers -> Busy \cup {Idle}]
  BY <1>6, <1>7 DEF TypeOK
<1>9. worker'[w] = new \/ worker'[w] = Idle
  BY <1>6 DEF TypeOK
<1>10. \A x \in Workers \ {w} : worker'[x] = worker[x]
  BY <1>6 DEF TypeOK
<1>11. TypeOK'
  BY <1>1, <1>8 DEF TypeOK, Rows
<1> QED
  BY <1>1, <1>7, <1>9, <1>10, <1>11 DEF t, attempts

\* The fate is written if the worker still holds the job, and the batch goes on.
LEMMA FinishEffect ==
  ASSUME TypeOK, NEW w \in Workers, Finish(w)
  PROVE  /\ worker[w].step = "finish"
         /\ worker[w].current \in Jobs /\ worker[w].status \in Outcomes
         /\ \/ worker'[w] = Idle /\ worker[w].todo = {}
            \/ worker'[w].step = "publish" /\ worker'[w].todo = worker[w].todo
         /\ \A x \in Workers \ {w} : worker'[x] = worker[x]
         /\ \/ ~Holds(w, worker[w].current) /\ job' = job
            \/ /\ Holds(w, worker[w].current)
               /\ job'[worker[w].current].status = worker[w].status
               /\ job'[worker[w].current].attempts =
                    job[worker[w].current].attempts + 1
               /\ job'[worker[w].current].lockedBy = Unlocked
               /\ \A k \in Jobs \ {worker[w].current} : job'[k] = job[k]
         /\ UNCHANGED <<id, published, recovered, faults>>
         /\ TypeOK'
<1> DEFINE t == worker[w]
           row == job[t.current]
           new == [step |-> "publish", todo |-> t.todo, age |-> t.age]
<1>1. t.step = "finish" /\ UNCHANGED <<id, published, recovered, faults>>
  BY DEF Finish
<1>2. /\ t.todo \subseteq Jobs /\ t.age \in Nat /\ t.current \in Jobs
      /\ t.status \in Outcomes /\ t.wait \in Int
  BY <1>1, WorkerFields
<1>3. row \in Rows /\ row.attempts + 1 \in Nat
  BY <1>2, RowFields
<1>4. /\ worker' = [worker EXCEPT ![w] = IF t.todo = {} THEN Idle ELSE new]
      /\ job' = IF Holds(w, t.current)
                  THEN [job EXCEPT ![t.current] = Fate(row, t)] ELSE job
  BY DEF Finish
<1> HIDE DEF t
<1>5. new \in Busy /\ new.step = "publish" /\ new.todo = t.todo
  BY <1>2 DEF Busy
<1> HIDE DEF row, new
<1>6. /\ Fate(row, t) \in Rows /\ Fate(row, t).status = t.status
      /\ Fate(row, t).attempts = row.attempts + 1
      /\ Fate(row, t).lockedBy = Unlocked
  BY <1>2, <1>3 DEF Fate, Rows, Statuses, Outcomes
<1>7. /\ worker' \in [Workers -> Busy \cup {Idle}]
      /\ worker'[w] = IF t.todo = {} THEN Idle ELSE new
      /\ \A x \in Workers \ {w} : worker'[x] = worker[x]
  BY <1>4, <1>5 DEF TypeOK
<1>8. job' \in [Jobs -> Rows]
  BY <1>4, <1>6 DEF TypeOK
<1>9. Holds(w, t.current) => /\ job'[t.current] = Fate(row, t)
                             /\ \A k \in Jobs \ {t.current} : job'[k] = job[k]
  BY <1>2, <1>4 DEF TypeOK
<1>10. TypeOK'
  BY <1>1, <1>7, <1>8 DEF TypeOK, Rows
<1> QED
  BY <1>1, <1>2, <1>4, <1>5, <1>6, <1>7, <1>9, <1>10 DEF t, row

\* A batch is forgotten.
LEMMA AbandonEffect ==
  ASSUME TypeOK, NEW w \in Workers, Abandon(w)
  PROVE  /\ worker'[w] = Idle
         /\ \A x \in Workers \ {w} : worker'[x] = worker[x]
         /\ UNCHANGED <<id, job, published, recovered>>
         /\ TypeOK'
<1>1. /\ worker' = [worker EXCEPT ![w] = Idle]
      /\ UNCHANGED <<id, job, published, recovered>>
      /\ faults < MaxFaults /\ faults' = faults + 1
  BY DEF Abandon
<1>2. faults' \in 0 .. MaxFaults
  BY <1>1, PolicyAssumption DEF TypeOK
<1>3. TypeOK'
  BY <1>1, <1>2 DEF TypeOK, Rows
<1> QED
  BY <1>1, <1>3 DEF TypeOK

\* Recovery takes back running jobs, whoever locked them.
LEMMA RecoverEffect ==
  ASSUME TypeOK, RecoverExpiredLocks
  PROVE  /\ \A j \in Expired :
              /\ j \in Jobs /\ job[j].status = "running"
              /\ job'[j].status = IF job[j].attempts >= MaximumAttempts
                                    THEN "failed" ELSE "retry"
              /\ job'[j].attempts = job[j].attempts
              /\ job'[j].lockedBy = Unlocked
              /\ recovered'[j] = recovered[j] + 1
         /\ \A j \in Jobs \ Expired :
              job'[j] = job[j] /\ recovered'[j] = recovered[j]
         /\ UNCHANGED <<id, worker, published, faults>>
         /\ TypeOK'
<1>1. /\ job' = [j \in Jobs |-> IF j \in Expired THEN Recover(job[j]) ELSE job[j]]
      /\ recovered' = [j \in Jobs |->
                     IF j \in Expired THEN recovered[j] + 1 ELSE recovered[j]]
      /\ UNCHANGED <<id, worker, published, faults>>
  BY DEF RecoverExpiredLocks
<1>2. ASSUME NEW j \in Jobs
      PROVE  /\ Recover(job[j]) \in Rows
             /\ Recover(job[j]).status = IF job[j].attempts >= MaximumAttempts
                                           THEN "failed" ELSE "retry"
             /\ Recover(job[j]).attempts = job[j].attempts
             /\ Recover(job[j]).lockedBy = Unlocked
  <2> DEFINE status == IF job[j].attempts >= MaximumAttempts
                         THEN "failed" ELSE "retry"
  <2>1. job[j] \in Rows /\ status \in Statuses /\ 0 \in Int /\ 0 \in Nat
    BY RowFields DEF Statuses
  <2>2. Recover(job[j]) = [job[j] EXCEPT !.status = status, !.lockedBy = Unlocked,
                                         !.lockAge = 0, !.wait = 0]
    BY DEF Recover
  <2> HIDE DEF status
  <2>3. /\ Recover(job[j]) \in Rows /\ Recover(job[j]).status = status
        /\ Recover(job[j]).attempts = job[j].attempts
        /\ Recover(job[j]).lockedBy = Unlocked
    BY <2>1, <2>2 DEF Rows
  <2> QED
    BY <2>3 DEF status
<1>3. job' \in [Jobs -> Rows]
  BY <1>1, <1>2, RowFields
<1>4. recovered' \in [Jobs -> Nat]
  BY <1>1 DEF TypeOK
<1>5. TypeOK'
  BY <1>1, <1>3, <1>4 DEF TypeOK, Rows
<1>6. Expired \subseteq Jobs /\ \A j \in Expired : job[j].status = "running"
  BY DEF Expired
<1> QED
  BY <1>1, <1>2, <1>5, <1>6

\* A delivered job may be deleted.
LEMMA DeleteEffect ==
  ASSUME TypeOK, NEW j \in Jobs, DeleteDeliveredBefore(j)
  PROVE  /\ job[j].status = "delivered" /\ job'[j].status = "deleted"
         /\ job'[j].attempts = job[j].attempts
         /\ job'[j].lockedBy = job[j].lockedBy
         /\ \A k \in Jobs \ {j} : job'[k] = job[k]
         /\ UNCHANGED <<id, worker, published, recovered, faults>>
         /\ TypeOK'
<1> DEFINE new == [job[j] EXCEPT !.status = "deleted"]
<1>1. job[j] \in Rows
  BY RowFields
<1>2. /\ new \in Rows /\ new.status = "deleted"
      /\ new.attempts = job[j].attempts /\ new.lockedBy = job[j].lockedBy
  BY <1>1 DEF Rows, Statuses
<1>3. /\ job' = [job EXCEPT ![j] = new] /\ job[j].status = "delivered"
      /\ UNCHANGED <<id, worker, published, recovered, faults>>
  BY DEF DeleteDeliveredBefore
<1> HIDE DEF new
<1>4. job' \in [Jobs -> Rows]
  BY <1>2, <1>3 DEF TypeOK
<1>5. TypeOK'
  BY <1>3, <1>4 DEF TypeOK, Rows
<1> QED
  BY <1>2, <1>3, <1>5 DEF TypeOK

\* Time ages locks and batches and changes nothing else.
LEMMA TickEffect ==
  ASSUME TypeOK, Tick
  PROVE  /\ \A j \in Jobs : /\ job'[j].status = job[j].status
                            /\ job'[j].attempts = job[j].attempts
                            /\ job'[j].lockedBy = job[j].lockedBy
         /\ \A w \in Workers :
              /\ worker'[w].step = worker[w].step
              /\ worker'[w].todo = worker[w].todo
              /\ worker[w].step \in {"lookup", "finish"} =>
                   worker'[w].current = worker[w].current
              /\ worker[w].step = "finish" => worker'[w].status = worker[w].status
         /\ UNCHANGED <<id, published, recovered>>
         /\ TypeOK'
<1>1. /\ job' = [j \in Jobs |->
           [job[j] EXCEPT
              !.wait = IF job[j].status \in Claimable /\ @ > -Horizon
                         THEN @ - 1 ELSE @,
              !.lockAge = IF job[j].status = "running" THEN Older(@) ELSE @]]
      /\ worker' = [w \in Workers |->
           IF worker[w] = Idle THEN Idle
           ELSE [worker[w] EXCEPT !.age = Older(@)]]
      /\ UNCHANGED <<id, published, recovered>>
      /\ Outlived => faults < MaxFaults
      /\ faults' = IF Outlived THEN faults + 1 ELSE faults
  BY DEF Tick
<1>2. ASSUME NEW j \in Jobs
      PROVE  /\ job'[j] \in Rows
             /\ job'[j].status = job[j].status
             /\ job'[j].attempts = job[j].attempts
             /\ job'[j].lockedBy = job[j].lockedBy
  <2> DEFINE wait == IF job[j].status \in Claimable /\ job[j].wait > -Horizon
                       THEN job[j].wait - 1 ELSE job[j].wait
             lockAge == IF job[j].status = "running" THEN Older(job[j].lockAge)
                                                     ELSE job[j].lockAge
  <2>1. job[j] \in Rows /\ wait \in Int /\ lockAge \in Nat
    BY RowFields, OlderType
  <2>2. job'[j] = [job[j] EXCEPT !.wait = wait, !.lockAge = lockAge]
    BY <1>1
  <2> HIDE DEF wait, lockAge
  <2> QED
    BY <2>1, <2>2 DEF Rows
<1>3. ASSUME NEW w \in Workers
      PROVE  /\ worker'[w] \in Busy \cup {Idle}
             /\ worker'[w].step = worker[w].step
             /\ worker'[w].todo = worker[w].todo
             /\ worker[w].step \in {"lookup", "finish"} =>
                  worker'[w].current = worker[w].current
             /\ worker[w].step = "finish" => worker'[w].status = worker[w].status
  <2>1. CASE worker[w] = Idle
    BY <1>1, <2>1 DEF Idle
  <2>2. CASE worker[w] # Idle
    <3> DEFINE age == Older(worker[w].age)
    <3>1. age \in Nat
      BY WorkerFields, OlderType
    <3>2. worker'[w] = [worker[w] EXCEPT !.age = age]
      BY <1>1, <2>2
    <3>3. worker[w] \in Busy
      BY <2>2 DEF TypeOK
    <3> HIDE DEF age
    <3> QED
      BY <3>1, <3>2, <3>3 DEF Busy
  <2> QED
    BY <2>1, <2>2
<1>4. faults' \in 0 .. MaxFaults
  <2>1. faults \in 0 .. MaxFaults /\ MaxFaults \in Nat
    BY PolicyAssumption DEF TypeOK
  <2>2. faults' = faults \/ (faults < MaxFaults /\ faults' = faults + 1)
    BY Zenon DEF Tick
  <2> QED
    BY <2>1, <2>2
<1>5. job' \in [Jobs -> Rows] /\ worker' \in [Workers -> Busy \cup {Idle}]
  BY <1>1, <1>2, <1>3
<1>6. UNCHANGED <<id, published, recovered>>
  BY <1>1
<1>7. TypeOK'
  BY <1>4, <1>5, <1>6 DEF TypeOK, Rows
<1> QED
  BY <1>2, <1>3, <1>6, <1>7

-----------------------------------------------------------------------------
(***************************************************************************)
(* Who carries a job.                                                      *)
(***************************************************************************)
\* Sets of workers that differ by one.
LEMMA WorkersCount ==
  ASSUME NEW S \in SUBSET Workers, NEW T \in SUBSET Workers
  PROVE  /\ Cardinality(S) \in Nat /\ Cardinality(T) \in Nat
         /\ T \subseteq S => Cardinality(T) <= Cardinality(S)
         /\ \A w : T \subseteq S \cup {w} => Cardinality(T) <= Cardinality(S) + 1
         /\ \A w \in S : T \subseteq S \ {w} => Cardinality(T) <= Cardinality(S) - 1
<1>1. IsFiniteSet(S) /\ IsFiniteSet(T)
  BY WorkerAssumption, FS_Subset
<1>2. Cardinality(S) \in Nat /\ Cardinality(T) \in Nat
  BY <1>1, FS_CardinalityType
<1>3. T \subseteq S => Cardinality(T) <= Cardinality(S)
  BY <1>1, FS_Subset
<1>4. ASSUME NEW w, T \subseteq S \cup {w}
      PROVE  Cardinality(T) <= Cardinality(S) + 1
  <2>1. /\ IsFiniteSet(S \cup {w})
        /\ Cardinality(S \cup {w}) = Cardinality(S)
           \/ Cardinality(S \cup {w}) = Cardinality(S) + 1
    BY <1>1, FS_AddElement
  <2>2. Cardinality(T) <= Cardinality(S \cup {w})
    BY <1>4, <2>1, FS_Subset
  <2> QED
    BY <1>2, <2>1, <2>2
<1>5. ASSUME NEW w \in S, T \subseteq S \ {w}
      PROVE  Cardinality(T) <= Cardinality(S) - 1
  <2>1. IsFiniteSet(S \ {w}) /\ Cardinality(S \ {w}) = Cardinality(S) - 1
    BY <1>1, FS_RemoveElement
  <2>2. Cardinality(T) <= Cardinality(S \ {w})
    BY <1>5, <2>1, FS_Subset
  <2> QED
    BY <2>1, <2>2
<1> QED
  BY <1>2, <1>3, <1>4, <1>5

\* A step of one worker concerns its own jobs only.
LEMMA CarriersFrame ==
  ASSUME NEW w \in Workers, NEW k,
         \A x \in Workers \ {w} : worker'[x] = worker[x]
  PROVE  /\ \A x \in Workers \ {w} : x \in Carriers(k)' <=> x \in Carriers(k)
         /\ w \in Carriers(k)' <=> Carries(w, k)'
         /\ w \in Carriers(k) <=> Carries(w, k)
         /\ Carriers(k) \subseteq Workers /\ Carriers(k)' \subseteq Workers
BY DEF Carriers, Carries

\* The budget of a job that nobody picks up anew.
LEMMA BudgetKept ==
  ASSUME TypeOK, TypeOK', PublicationsBounded, NEW k \in Jobs,
         Carriers(k)' \subseteq Carriers(k),
         published'[k] + Spare(k)' + recovered[k] <=
           published[k] + Spare(k) + recovered'[k]
  PROVE  published'[k] + Cardinality(Carriers(k)') + Spare(k)' <= 1 + recovered'[k]
<1>1. Cardinality(Carriers(k)') <= Cardinality(Carriers(k))
        /\ Cardinality(Carriers(k)) \in Nat /\ Cardinality(Carriers(k)') \in Nat
  BY WorkersCount DEF Carriers
<1>2. published[k] \in Nat /\ published'[k] \in Nat
        /\ recovered[k] \in Nat /\ recovered'[k] \in Nat
  BY DEF TypeOK
<1>3. Spare(k) \in Nat /\ Spare(k)' \in Nat
  BY DEF Spare
<1>4. published[k] + Cardinality(Carriers(k)) + Spare(k) <= 1 + recovered[k]
  BY DEF PublicationsBounded
<1> QED
  BY <1>1, <1>2, <1>3, <1>4

\* The budget of a job that a worker takes up: the row has one chance less.
LEMMA BudgetTaken ==
  ASSUME TypeOK, TypeOK', PublicationsBounded, NEW k \in Jobs, NEW w \in Workers,
         Carriers(k)' \subseteq Carriers(k) \cup {w},
         published'[k] = published[k], recovered'[k] = recovered[k],
         Spare(k) = 1, Spare(k)' = 0
  PROVE  published'[k] + Cardinality(Carriers(k)') + Spare(k)' <= 1 + recovered'[k]
<1>1. Cardinality(Carriers(k)') <= Cardinality(Carriers(k)) + 1
        /\ Cardinality(Carriers(k)) \in Nat /\ Cardinality(Carriers(k)') \in Nat
  BY WorkersCount DEF Carriers
<1>2. published[k] \in Nat /\ recovered[k] \in Nat
  BY DEF TypeOK
<1>3. published[k] + Cardinality(Carriers(k)) + Spare(k) <= 1 + recovered[k]
  BY DEF PublicationsBounded
<1> QED
  BY <1>1, <1>2, <1>3

\* The budget of a job that a worker lets go of: its chance is used or given back.
LEMMA BudgetSpent ==
  ASSUME TypeOK, TypeOK', PublicationsBounded, NEW k \in Jobs,
         NEW w \in Carriers(k), Carriers(k)' \subseteq Carriers(k) \ {w},
         published'[k] + Spare(k)' <= published[k] + Spare(k) + 1,
         recovered'[k] = recovered[k]
  PROVE  published'[k] + Cardinality(Carriers(k)') + Spare(k)' <= 1 + recovered'[k]
<1>1. Cardinality(Carriers(k)') <= Cardinality(Carriers(k)) - 1
        /\ Cardinality(Carriers(k)) \in Nat /\ Cardinality(Carriers(k)') \in Nat
  BY WorkersCount DEF Carriers
<1>2. published[k] \in Nat /\ published'[k] \in Nat /\ recovered[k] \in Nat
  BY DEF TypeOK
<1>3. Spare(k) \in Nat /\ Spare(k)' \in Nat
  BY DEF Spare
<1>4. published[k] + Cardinality(Carriers(k)) + Spare(k) <= 1 + recovered[k]
  BY DEF PublicationsBounded
<1> QED
  BY <1>1, <1>2, <1>3, <1>4

-----------------------------------------------------------------------------
(***************************************************************************)
(* Every statement preserves PublishInv.                                   *)
(***************************************************************************)
\* Steps of which the workers take no notice.
MemoryKept ==
  \A w \in Workers :
    /\ worker'[w].step = worker[w].step
    /\ worker'[w].todo = worker[w].todo
    /\ worker[w].step \in {"lookup", "finish"} =>
         worker'[w].current = worker[w].current
    /\ worker[w].step = "finish" => worker'[w].status = worker[w].status

\* They keep what is said about the workers, unless a job disappears.
LEMMA MemoryFrame ==
  ASSUME PublishInv, MemoryKept, UNCHANGED published,
         \A j \in Jobs : job'[j].status = "absent" => job[j].status = "absent"
  PROVE  /\ \A k : Carriers(k)' = Carriers(k)
         /\ CarriedKnown' /\ CurrentApart' /\ ReportsTrue'
<1>1. ASSUME NEW w \in Workers, NEW k
      PROVE  Carries(w, k)' <=> Carries(w, k)
  BY DEF MemoryKept, Carries
<1>2. \A k : Carriers(k)' = Carriers(k)
  BY <1>1 DEF Carriers
<1>3. CarriedKnown'
  BY <1>1 DEF PublishInv, CarriedKnown
<1>4. CurrentApart' /\ ReportsTrue'
  BY DEF PublishInv, CurrentApart, ReportsTrue, MemoryKept
<1> QED
  BY <1>2, <1>3, <1>4

\* Steps that move no chance from a row to a worker or back.
LEMMA ChancesKept ==
  ASSUME TypeOK, TypeOK', PublishInv, MemoryKept, UNCHANGED <<published, recovered>>,
         \A k \in Jobs : /\ Spare(k)' = Spare(k)
                         /\ job'[k].status = "absent" => job[k].status = "absent"
                         /\ job'[k].lockedBy = job[k].lockedBy
                         /\ job[k].status = "running" => job'[k].status = "running"
  PROVE  PublishInv'
<1>1. /\ \A k : Carriers(k)' = Carriers(k)
      /\ CarriedKnown' /\ CurrentApart' /\ ReportsTrue'
  BY MemoryFrame
<1>2. PublicationsBounded'
  <2> SUFFICES ASSUME NEW k \in Jobs
               PROVE published'[k] + Cardinality(Carriers(k)') + Spare(k)' <= 1 + recovered'[k]
    BY DEF PublicationsBounded
  <2>1. published'[k] = published[k] /\ recovered'[k] = recovered[k]
          /\ Spare(k)' = Spare(k) /\ Spare(k) \in Nat
    BY DEF Spare
  <2>2. published[k] \in Nat /\ recovered[k] \in Nat
    BY RowFields
  <2> QED
    BY <1>1, <2>1, <2>2, BudgetKept DEF PublishInv
<1>3. LocksRunning'
  BY DEF PublishInv, LocksRunning
<1> QED
  BY <1>1, <1>2, <1>3 DEF PublishInv

\* Enqueue: the new row has the chance that the missing one had.
LEMMA EnqueuePublish ==
  ASSUME TypeOK, PublishInv, NEW j \in Jobs, NEW delay \in Nat, Enqueue(j, delay)
  PROVE  PublishInv'
<1>1. /\ job[j].status = "absent" /\ job'[j].status = "pending"
      /\ job'[j].lockedBy = job[j].lockedBy
      /\ \A k \in Jobs \ {j} : job'[k] = job[k]
      /\ UNCHANGED <<worker, published, recovered>>
      /\ TypeOK'
  BY EnqueueEffect
<1>2. MemoryKept
  BY <1>1 DEF MemoryKept
<1>3. \A k \in Jobs : Spare(k)' = Spare(k)
  BY <1>1 DEF Spare
<1> QED
  BY <1>1, <1>2, <1>3, ChancesKept

\* DeleteDeliveredBefore: a delivered row has no chance left and no lock.
LEMMA DeletePublish ==
  ASSUME TypeOK, PublishInv, NEW j \in Jobs, DeleteDeliveredBefore(j)
  PROVE  PublishInv'
<1>1. /\ job[j].status = "delivered" /\ job'[j].status = "deleted"
      /\ job'[j].lockedBy = job[j].lockedBy
      /\ \A k \in Jobs \ {j} : job'[k] = job[k]
      /\ UNCHANGED <<worker, published, recovered>>
      /\ TypeOK'
  BY DeleteEffect
<1>2. MemoryKept
  BY <1>1 DEF MemoryKept
<1>3. \A k \in Jobs : Spare(k)' = Spare(k)
  BY <1>1 DEF Spare
<1> QED
  BY <1>1, <1>2, <1>3, ChancesKept

\* Tick: time takes no chance away and adds none.
LEMMA TickPublish ==
  ASSUME TypeOK, PublishInv, Tick
  PROVE  PublishInv'
<1>1. /\ \A j \in Jobs : /\ job'[j].status = job[j].status
                         /\ job'[j].lockedBy = job[j].lockedBy
      /\ MemoryKept /\ UNCHANGED <<published, recovered>> /\ TypeOK'
  BY TickEffect DEF MemoryKept
<1>2. \A k \in Jobs : Spare(k)' = Spare(k)
  BY <1>1 DEF Spare
<1> QED
  BY <1>1, <1>2, ChancesKept

\* RecoverExpiredLocks: each lock taken back may bring one publication more.
LEMMA RecoverPublish ==
  ASSUME TypeOK, PublishInv, RecoverExpiredLocks
  PROVE  PublishInv'
<1>1. /\ \A j \in Expired :
           /\ job[j].status = "running" /\ job'[j].status \in {"failed", "retry"}
           /\ job'[j].lockedBy = Unlocked /\ recovered'[j] = recovered[j] + 1
      /\ \A j \in Jobs \ Expired :
           job'[j] = job[j] /\ recovered'[j] = recovered[j]
      /\ UNCHANGED <<id, worker, published, faults>>
      /\ TypeOK'
  BY RecoverEffect
<1>2. /\ \A k : Carriers(k)' = Carriers(k)
      /\ CarriedKnown' /\ CurrentApart' /\ ReportsTrue'
  <2>1. MemoryKept
    BY <1>1 DEF MemoryKept
  <2>2. UNCHANGED published
          /\ \A k \in Jobs : job'[k].status = "absent" => job[k].status = "absent"
    BY <1>1
  <2> QED
    BY <2>1, <2>2, MemoryFrame
<1>3. PublicationsBounded'
  <2> SUFFICES ASSUME NEW k \in Jobs
               PROVE published'[k] + Cardinality(Carriers(k)') + Spare(k)' <= 1 + recovered'[k]
    BY DEF PublicationsBounded
  <2>1. Spare(k)' + recovered[k] <= Spare(k) + recovered'[k]
    BY <1>1, RowFields DEF Spare
  <2>2. published'[k] = published[k] /\ Spare(k) \in Nat /\ Spare(k)' \in Nat
    BY <1>1 DEF Spare
  <2>3. published[k] \in Nat /\ recovered[k] \in Nat /\ recovered'[k] \in Nat
    BY <1>1, RowFields DEF TypeOK
  <2> QED
    BY <1>1, <1>2, <2>1, <2>2, <2>3, BudgetKept DEF PublishInv
<1>4. LocksRunning'
  BY <1>1 DEF PublishInv, LocksRunning
<1> QED
  BY <1>2, <1>3, <1>4 DEF PublishInv

\* Claim: the chance moves from the row to the worker.
LEMMA ClaimPublish ==
  ASSUME TypeOK, PublishInv, NEW w \in Workers, NEW lag \in Nat, Claim(w, lag)
  PROVE  PublishInv'
<1> DEFINE claimed == worker'[w].todo
<1>1. /\ worker[w] = Idle
      /\ worker'[w].step = "publish" /\ claimed \subseteq Jobs
      /\ \A x \in Workers \ {w} : worker'[x] = worker[x]
      /\ \A j \in claimed : /\ job[j].status \in Claimable
                            /\ job'[j].status = "running"
      /\ \A j \in Jobs \ claimed : job'[j] = job[j]
      /\ UNCHANGED <<id, published, recovered, faults>>
      /\ TypeOK'
  BY ClaimEffect
<1>2. \A k : /\ Carries(w, k)' <=> k \in claimed
             /\ ~Carries(w, k)
  BY <1>1, IdleFields DEF Carries
<1> HIDE DEF claimed
<1>3. PublicationsBounded'
  <2> SUFFICES ASSUME NEW k \in Jobs
               PROVE published'[k] + Cardinality(Carriers(k)') + Spare(k)' <= 1 + recovered'[k]
    BY DEF PublicationsBounded
  <2>1. /\ \A x \in Workers \ {w} : x \in Carriers(k)' <=> x \in Carriers(k)
        /\ w \in Carriers(k)' <=> Carries(w, k)'
        /\ Carriers(k)' \subseteq Workers
    BY <1>1, CarriersFrame
  <2>2. published'[k] = published[k] /\ recovered'[k] = recovered[k]
    BY <1>1
  <2>3. CASE k \in claimed
    <3>1. Spare(k) = 1 /\ Spare(k)' = 0
      BY <1>1, <2>3 DEF Spare, Claimable
    <3>2. Carriers(k)' \subseteq Carriers(k) \cup {w}
      BY <2>1
    <3> QED
      BY <1>1, <2>2, <3>1, <3>2, BudgetTaken DEF PublishInv
  <2>4. CASE k \notin claimed
    <3>1. Spare(k) = Spare(k)' /\ Spare(k) \in Nat
      BY <1>1, <2>4 DEF Spare
    <3>2. Carriers(k)' \subseteq Carriers(k)
      BY <1>2, <2>1, <2>4
    <3>3. published[k] \in Nat /\ recovered[k] \in Nat
      BY RowFields
    <3> QED
      BY <1>1, <2>2, <3>1, <3>2, <3>3, BudgetKept DEF PublishInv
  <2> QED
    BY <2>3, <2>4
<1>4. LocksRunning'
  BY <1>1 DEF PublishInv, LocksRunning
<1>5. CarriedKnown'
  <2> SUFFICES ASSUME NEW x \in Workers, NEW k \in Jobs, Carries(x, k)'
               PROVE  job'[k].status # "absent"
    BY DEF CarriedKnown
  <2>1. CASE k \in claimed
    BY <1>1, <2>1
  <2>2. CASE k \notin claimed
    <3>1. x # w
      BY <1>2, <2>2
    <3>2. Carries(x, k)
      BY <1>1, <3>1 DEF Carries
    <3> QED
      BY <1>1, <2>2, <3>2 DEF PublishInv, CarriedKnown
  <2> QED
    BY <2>1, <2>2
<1>6. CurrentApart' /\ ReportsTrue'
  BY <1>1 DEF PublishInv, CurrentApart, ReportsTrue
<1> QED
  BY <1>3, <1>4, <1>5, <1>6 DEF PublishInv

\* PublishOK: the worker uses its chance.
LEMMA PublishOKPublish ==
  ASSUME TypeOK, PublishInv, NEW w \in Workers, NEW j \in Jobs, PublishOK(w, j)
  PROVE  PublishInv'
<1>1. /\ worker[w].step = "publish" /\ j \in worker[w].todo
      /\ worker'[w].step = "finish" /\ worker'[w].status = "delivered"
      /\ worker'[w].current = j /\ worker'[w].todo = worker[w].todo \ {j}
      /\ \A x \in Workers \ {w} : worker'[x] = worker[x]
      /\ published'[j] = published[j] + 1
      /\ \A k \in Jobs \ {j} : published'[k] = published[k]
      /\ UNCHANGED <<id, job, recovered, faults>>
      /\ TypeOK'
  BY PublishOKEffect
<1>2. \A k : Carries(w, k)' <=> Carries(w, k) /\ k # j
  BY <1>1 DEF Carries
<1>3. Carries(w, j)
  BY <1>1 DEF Carries
<1>4. PublicationsBounded'
  <2> SUFFICES ASSUME NEW k \in Jobs
               PROVE published'[k] + Cardinality(Carriers(k)') + Spare(k)' <= 1 + recovered'[k]
    BY DEF PublicationsBounded
  <2>1. /\ \A x \in Workers \ {w} : x \in Carriers(k)' <=> x \in Carriers(k)
        /\ w \in Carriers(k)' <=> Carries(w, k)'
        /\ w \in Carriers(k) <=> Carries(w, k)
        /\ Carriers(k)' \subseteq Workers
    BY <1>1, CarriersFrame
  <2>2. Spare(k) = Spare(k)' /\ Spare(k) \in Nat /\ recovered'[k] = recovered[k]
    BY <1>1 DEF Spare
  <2>3. published[k] \in Nat /\ recovered[k] \in Nat
    BY RowFields
  <2>4. CASE k = j
    <3>1. w \in Carriers(k) /\ Carriers(k)' \subseteq Carriers(k) \ {w}
      BY <1>2, <1>3, <2>1, <2>4
    <3>2. published'[k] = published[k] + 1
      BY <1>1, <2>4
    <3> QED
      BY <1>1, <2>2, <2>3, <3>1, <3>2, BudgetSpent DEF PublishInv
  <2>5. CASE k # j
    <3>1. Carriers(k)' \subseteq Carriers(k) /\ published'[k] = published[k]
      BY <1>1, <1>2, <2>1, <2>5
    <3> QED
      BY <1>1, <2>2, <2>3, <3>1, BudgetKept DEF PublishInv
  <2> QED
    BY <2>4, <2>5
<1>5. LocksRunning'
  BY <1>1 DEF PublishInv, LocksRunning
<1>6. CarriedKnown'
  BY <1>1, <1>2 DEF PublishInv, CarriedKnown, Carries
<1>7. CurrentApart'
  BY <1>1 DEF PublishInv, CurrentApart
<1>8. ReportsTrue'
  <2> SUFFICES ASSUME NEW x \in Workers, worker'[x].step = "finish",
                      worker'[x].status = "delivered"
               PROVE  published'[worker'[x].current] > 0
    BY DEF ReportsTrue
  <2>1. CASE x = w
    BY <1>1, <2>1, RowFields
  <2>2. CASE x # w
    <3>1. worker[x].current \in Jobs
      BY <1>1, <2>2, WorkerFields
    <3>2. published[worker[x].current] > 0
      BY <1>1, <2>2 DEF PublishInv, ReportsTrue
    <3>3. published'[worker[x].current] >= published[worker[x].current]
      BY <1>1, <3>1, RowFields
    <3>4. published[worker[x].current] \in Nat /\ published'[worker[x].current] \in Nat
      BY <1>1, <3>1 DEF TypeOK
    <3> QED
      BY <1>1, <2>2, <3>2, <3>3, <3>4
  <2> QED
    BY <2>1, <2>2
<1> QED
  BY <1>4, <1>5, <1>6, <1>7, <1>8 DEF PublishInv

\* Steps of one worker that touch no row and publish nothing.
LEMMA MemoryShrinks ==
  ASSUME TypeOK, TypeOK', PublishInv, NEW w \in Workers,
         \A x \in Workers \ {w} : worker'[x] = worker[x],
         \A k \in Jobs : Carries(w, k)' => Carries(w, k),
         worker'[w].step \in {"lookup", "finish"} =>
           worker'[w].current \notin worker'[w].todo,
         ~(worker'[w].step = "finish" /\ worker'[w].status = "delivered"),
         UNCHANGED <<job, published, recovered>>
  PROVE  PublishInv'
<1>1. PublicationsBounded'
  <2> SUFFICES ASSUME NEW k \in Jobs
               PROVE published'[k] + Cardinality(Carriers(k)') + Spare(k)' <= 1 + recovered'[k]
    BY DEF PublicationsBounded
  <2>1. Carriers(k)' \subseteq Carriers(k)
    BY CarriersFrame
  <2>2. published'[k] = published[k] /\ recovered'[k] = recovered[k]
          /\ Spare(k)' = Spare(k) /\ Spare(k) \in Nat
    BY DEF Spare
  <2>3. published[k] \in Nat /\ recovered[k] \in Nat
    BY RowFields
  <2> QED
    BY <2>1, <2>2, <2>3, BudgetKept DEF PublishInv
<1>2. LocksRunning'
  BY DEF PublishInv, LocksRunning
<1>3. CarriedKnown'
  <2> SUFFICES ASSUME NEW x \in Workers, NEW k \in Jobs, Carries(x, k)'
               PROVE  job'[k].status # "absent"
    BY DEF CarriedKnown
  <2>1. Carries(x, k)
    BY DEF Carries
  <2> QED
    BY <2>1 DEF PublishInv, CarriedKnown
<1>4. CurrentApart' /\ ReportsTrue'
  BY DEF PublishInv, CurrentApart, ReportsTrue
<1> QED
  BY <1>1, <1>2, <1>3, <1>4 DEF PublishInv

\* PublishError and Lookup: the worker keeps its chance, or drops its batch.
LEMMA FailurePublish ==
  ASSUME TypeOK, PublishInv, NEW w \in Workers,
         (\E j \in Jobs : PublishError(w, j)) \/ Lookup(w) \/ Abandon(w)
  PROVE  PublishInv'
<1>1. ASSUME NEW j \in Jobs, PublishError(w, j)
      PROVE  PublishInv'
  <2>1. /\ worker[w].step = "publish" /\ j \in worker[w].todo
        /\ worker'[w].step = "lookup" /\ worker'[w].current = j
        /\ worker'[w].todo = worker[w].todo \ {j}
        /\ \A x \in Workers \ {w} : worker'[x] = worker[x]
        /\ UNCHANGED <<job, published, recovered>>
        /\ TypeOK'
    BY <1>1, PublishErrorEffect
  <2>2. \A k \in Jobs : Carries(w, k)' => Carries(w, k)
    BY <2>1 DEF Carries
  <2> QED
    BY <2>1, <2>2, MemoryShrinks
<1>2. ASSUME TypeOK', worker'[w] = Idle, UNCHANGED <<job, published, recovered>>,
             \A x \in Workers \ {w} : worker'[x] = worker[x]
      PROVE  PublishInv'
  <2>1. worker'[w].step = "idle" /\ worker'[w].todo = {}
    BY <1>2, IdleFields
  <2>2. \A k \in Jobs : Carries(w, k)' => Carries(w, k)
    BY <2>1 DEF Carries
  <2> QED
    BY <1>2, <2>1, <2>2, MemoryShrinks
<1>3. CASE Lookup(w)
  <2>1. /\ worker[w].step = "lookup"
        /\ \/ /\ worker'[w].step = "finish"
              /\ worker'[w].status =
                   StatusAfterFailure(job[worker[w].current].attempts + 1)
              /\ worker'[w].current = worker[w].current
              /\ worker'[w].todo = worker[w].todo
           \/ worker'[w] = Idle
        /\ \A x \in Workers \ {w} : worker'[x] = worker[x]
        /\ UNCHANGED <<job, published, recovered>>
        /\ TypeOK'
    BY <1>3, LookupEffect
  <2>2. CASE worker'[w] = Idle
    BY <1>2, <2>1, <2>2
  <2>3. CASE worker'[w] # Idle
    <3>1. worker'[w].status # "delivered"
      BY <2>1, <2>3 DEF StatusAfterFailure
    <3>2. \A k \in Jobs : Carries(w, k)' => Carries(w, k)
      BY <2>1, <2>3 DEF Carries
    <3>3. worker'[w].current \notin worker'[w].todo
      BY <2>1, <2>3 DEF PublishInv, CurrentApart
    <3> QED
      BY <2>1, <3>1, <3>2, <3>3, MemoryShrinks
  <2> QED
    BY <2>2, <2>3
<1>4. CASE Abandon(w)
  BY <1>2, <1>4, AbandonEffect
<1> QED
  BY <1>1, <1>3, <1>4

\* Finish: the worker gives its chance back to the row, or gives it up.
LEMMA FinishPublish ==
  ASSUME TypeOK, PublishInv, NEW w \in Workers, Finish(w)
  PROVE  PublishInv'
<1> DEFINE j == worker[w].current
<1>1. /\ worker[w].step = "finish"
      /\ j \in Jobs /\ worker[w].status \in Outcomes
      /\ \A x \in Workers \ {w} : worker'[x] = worker[x]
      /\ \/ ~Holds(w, j) /\ job' = job
         \/ /\ Holds(w, j) /\ job'[j].status = worker[w].status
            /\ job'[j].lockedBy = Unlocked
            /\ \A k \in Jobs \ {j} : job'[k] = job[k]
      /\ UNCHANGED <<id, published, recovered, faults>>
      /\ TypeOK'
  BY FinishEffect
<1>2. worker'[w].step \in {"idle", "publish"} /\ worker'[w].todo = worker[w].todo
  BY FinishEffect, IdleFields
<1>3. j \notin worker[w].todo
  BY <1>1 DEF PublishInv, CurrentApart
<1>4. /\ \A k : Carries(w, k)' => Carries(w, k) /\ k # j
      /\ worker[w].status # "delivered" => Carries(w, j)
  BY <1>1, <1>2, <1>3 DEF Carries
<1>5. Holds(w, j) => job[j].status = "running"
  BY <1>1, WorkerAssumption DEF TypeOK, Holds, PublishInv, LocksRunning
<1> HIDE DEF j
<1>6. PublicationsBounded'
  <2> SUFFICES ASSUME NEW k \in Jobs
               PROVE published'[k] + Cardinality(Carriers(k)') + Spare(k)' <= 1 + recovered'[k]
    BY DEF PublicationsBounded
  <2>1. /\ \A x \in Workers \ {w} : x \in Carriers(k)' <=> x \in Carriers(k)
        /\ w \in Carriers(k)' <=> Carries(w, k)'
        /\ w \in Carriers(k) <=> Carries(w, k)
        /\ Carriers(k)' \subseteq Workers
    BY <1>1, CarriersFrame
  <2>2. published'[k] = published[k] /\ recovered'[k] = recovered[k]
          /\ published[k] \in Nat /\ recovered[k] \in Nat
    BY <1>1, RowFields
  <2>3. Spare(k) \in {0, 1} /\ Spare(k)' \in {0, 1}
    BY DEF Spare
  <2>4. CASE k = j /\ Holds(w, j) /\ worker[w].status # "delivered"
    <3>1. w \in Carriers(k) /\ Carriers(k)' \subseteq Carriers(k) \ {w}
      BY <1>4, <2>1, <2>4
    <3> QED
      BY <1>1, <2>2, <2>3, <3>1, BudgetSpent DEF PublishInv
  <2>5. CASE ~(k = j /\ Holds(w, j) /\ worker[w].status # "delivered")
    <3>1. Carriers(k)' \subseteq Carriers(k)
      BY <1>4, <2>1
    <3>2. job'[k] = job[k] \/ job'[k].status = "delivered"
      BY <1>1, <2>5
    <3>3. Spare(k)' <= Spare(k)
      BY <3>2 DEF Spare
    <3> QED
      BY <1>1, <2>2, <2>3, <3>1, <3>3, BudgetKept DEF PublishInv
  <2> QED
    BY <2>4, <2>5
<1>7. LocksRunning'
  BY <1>1 DEF PublishInv, LocksRunning
<1>8. CarriedKnown'
  <2> SUFFICES ASSUME NEW x \in Workers, NEW k \in Jobs, Carries(x, k)'
               PROVE  job'[k].status # "absent"
    BY DEF CarriedKnown
  <2>1. Carries(x, k)
    BY <1>1, <1>4 DEF Carries
  <2>2. job[k].status # "absent"
    BY <2>1 DEF PublishInv, CarriedKnown
  <2> QED
    BY <1>1, <2>2 DEF Outcomes
<1>9. CurrentApart' /\ ReportsTrue'
  BY <1>1, <1>2 DEF PublishInv, CurrentApart, ReportsTrue
<1> QED
  BY <1>6, <1>7, <1>8, <1>9 DEF PublishInv

-----------------------------------------------------------------------------
(***************************************************************************)
(* Every statement preserves AttemptsInv.  Only the worker whose id is in  *)
(* locked_by changes the attempts of a job, which is why the ids matter.   *)
(***************************************************************************)
\* A job whose attempts and status stay.
LEMMA TriedKept ==
  ASSUME NEW k, Tried(k), job'[k].attempts = job[k].attempts,
         job'[k].status = job[k].status
  PROVE  Tried(k)'
BY DEF Tried

\* A worker that stays as it is, and gains no lock.
LEMMA CountedKept ==
  ASSUME NEW x \in Workers, Counted(x), NEW k,
         worker[x].step = "finish" => worker[x].current = k,
         worker'[x].step = worker[x].step,
         worker[x].step = "finish" =>
           worker'[x].status = worker[x].status /\ worker'[x].current = k,
         Holds(x, k)' => Holds(x, k) /\ job'[k].attempts = job[k].attempts
  PROVE  Counted(x)'
<1> SUFFICES ASSUME worker'[x].step = "finish", worker'[x].status # "delivered",
                    Holds(x, worker[x].current)'
             PROVE  worker'[x].status =
                      StatusAfterFailure(job'[worker'[x].current].attempts + 1)
  BY DEF Counted, StatusAfterFailure
<1>1. worker'[x].current = k /\ worker[x].current = k
  OBVIOUS
<1>2. Holds(x, k)'
  BY <1>1 DEF Holds
<1>3. Holds(x, worker[x].current)
  BY <1>1, <1>2
<1>4. worker[x].status = StatusAfterFailure(job[worker[x].current].attempts + 1)
  BY <1>3 DEF Counted
<1> QED
  BY <1>1, <1>2, <1>4 DEF StatusAfterFailure

\* A worker that has nothing to report, or a success.
LEMMA CountedTrivially ==
  ASSUME NEW x, worker'[x].step # "finish" \/ worker'[x].status = "delivered"
  PROVE  Counted(x)'
BY DEF Counted

\* Steps of one worker that touch no row.
LEMMA OthersCounted ==
  ASSUME NEW w \in Workers, \A x \in Workers : Counted(x),
         \A x \in Workers \ {w} : worker'[x] = worker[x], UNCHANGED <<id, job>>
  PROVE  \A x \in Workers \ {w} : Counted(x)'
BY DEF Counted, Holds, StatusAfterFailure

\* Steps of one worker that touch no row: no attempt is counted.
LEMMA RowsUntouched ==
  ASSUME \A j \in Jobs : Tried(j), UNCHANGED job
  PROVE  \A j \in Jobs : Tried(j)'
BY DEF Tried

\* The premises of AttemptsInv do not change.
LEMMA OwnIDsKept ==
  ASSUME UNCHANGED id
  PROVE  OwnIDs' <=> OwnIDs
BY DEF OwnIDs

\* Finish: the attempt is counted by the worker that looked the attempts up.
LEMMA FinishAttempts ==
  ASSUME TypeOK, PublishInv, OwnIDs, \A j \in Jobs : Tried(j),
         \A x \in Workers : Counted(x), NEW w \in Workers, Finish(w)
  PROVE  (\A j \in Jobs : Tried(j)') /\ (\A x \in Workers : Counted(x)')
<1> DEFINE j == worker[w].current
<1>1. /\ worker[w].step = "finish" /\ j \in Jobs /\ worker[w].status \in Outcomes
      /\ \A x \in Workers \ {w} : worker'[x] = worker[x]
      /\ \/ ~Holds(w, j) /\ job' = job
         \/ /\ Holds(w, j)
            /\ job'[j].status = worker[w].status
            /\ job'[j].attempts = job[j].attempts + 1
            /\ job'[j].lockedBy = Unlocked
            /\ \A k \in Jobs \ {j} : job'[k] = job[k]
      /\ UNCHANGED id /\ TypeOK'
  BY FinishEffect
<1>2. worker'[w].step # "finish"
  BY FinishEffect, IdleFields
<1>3. CASE ~Holds(w, j)
  <2>1. UNCHANGED job
    BY <1>1, <1>3
  <2> QED
    BY <1>1, <1>2, <2>1, OthersCounted, RowsUntouched, CountedTrivially
<1>4. CASE Holds(w, j)
  <2>1. job[j].status = "running"
    BY <1>1, <1>4, WorkerAssumption DEF TypeOK, Holds, PublishInv, LocksRunning
  <2>2. job[j].attempts \in Nat /\ job[j].attempts < MaximumAttempts
          /\ MaximumAttempts \in Nat
    BY <1>1, <2>1, RowFields, PolicyAssumption DEF Tried, ValidPolicy
  <2>3. worker[w].status # "delivered" =>
          worker[w].status = StatusAfterFailure(job[j].attempts + 1)
    BY <1>1, <1>4 DEF Counted
  <2>4. ASSUME NEW k \in Jobs
        PROVE  Tried(k)'
    <3>1. CASE k = j
      <4>1. job'[k].attempts = job[j].attempts + 1
              /\ job'[k].status \in Outcomes /\ job'[k].status = worker[w].status
        BY <1>1, <1>4, <3>1
      <4>2. job'[k].status = "failed" => job[j].attempts + 1 >= MaximumAttempts
        BY <2>3, <4>1 DEF StatusAfterFailure
      <4>3. job'[k].status = "retry" => job[j].attempts + 1 < MaximumAttempts
        BY <2>2, <2>3, <4>1 DEF StatusAfterFailure
      <4> QED
        BY <2>2, <4>1, <4>2, <4>3 DEF Tried, Outcomes, Claimable
    <3>2. CASE k # j
      BY <1>1, <1>4, <3>2, TriedKept
    <3> QED
      BY <3>1, <3>2
  <2>5. ASSUME NEW x \in Workers
        PROVE  Counted(x)'
    <3>1. CASE x = w \/ worker[x].step # "finish"
      BY <1>1, <1>2, <3>1, CountedTrivially
    <3>2. CASE x # w /\ worker[x].step = "finish"
      <4>1. PICK k \in Jobs : k = worker[x].current
        BY <3>2, WorkerFields
      <4>2. worker'[x] = worker[x]
        BY <1>1, <3>2
      <4>3. k # j /\ Holds(x, k)' =>
              Holds(x, k) /\ job'[k].attempts = job[k].attempts
        BY <1>1, <1>4 DEF Holds
      <4>4. k = j => ~Holds(x, k)'
        BY <1>1, <1>4, WorkerAssumption DEF Holds, TypeOK
      <4> QED
        BY <4>1, <4>2, <4>3, <4>4, CountedKept
    <3> QED
      BY <3>1, <3>2
  <2> QED
    BY <2>4, <2>5
<1> QED
  BY <1>3, <1>4

\* Claim: nobody else holds what is claimed, so no count goes stale.
LEMMA ClaimAttempts ==
  ASSUME TypeOK, OwnIDs, \A j \in Jobs : Tried(j), \A x \in Workers : Counted(x),
         NEW w \in Workers, NEW lag \in Nat, Claim(w, lag)
  PROVE  (\A j \in Jobs : Tried(j)') /\ (\A x \in Workers : Counted(x)')
<1> DEFINE claimed == worker'[w].todo
<1>1. /\ worker'[w].step = "publish" /\ claimed \subseteq Jobs
      /\ \A x \in Workers \ {w} : worker'[x] = worker[x]
      /\ \A j \in claimed : /\ job[j].status \in Claimable
                            /\ job'[j].status = "running" /\ job'[j].lockedBy = id[w]
                            /\ job'[j].attempts = job[j].attempts
      /\ \A j \in Jobs \ claimed : job'[j] = job[j]
      /\ UNCHANGED id
  BY ClaimEffect
<1> HIDE DEF claimed
<1>2. ASSUME NEW k \in Jobs
      PROVE  Tried(k)'
  <2>1. CASE k \in claimed
    BY <1>1, <2>1 DEF Tried, Claimable
  <2>2. CASE k \notin claimed
    BY <1>1, <2>2, TriedKept
  <2> QED
    BY <2>1, <2>2
<1>3. ASSUME NEW x \in Workers
      PROVE  Counted(x)'
  <2>1. CASE x = w \/ worker[x].step # "finish"
    BY <1>1, <2>1, CountedTrivially
  <2>2. CASE x # w /\ worker[x].step = "finish"
    <3>1. PICK k \in Jobs : k = worker[x].current
      BY <2>2, WorkerFields
    <3>2. worker'[x] = worker[x] /\ id[x] # id[w]
      BY <1>1, <2>2 DEF OwnIDs
    <3>3. k \notin claimed /\ Holds(x, k)' =>
            Holds(x, k) /\ job'[k].attempts = job[k].attempts
      BY <1>1 DEF Holds
    <3>4. k \in claimed => ~Holds(x, k)'
      BY <1>1, <3>2 DEF Holds
    <3> QED
      BY <3>1, <3>2, <3>3, <3>4, CountedKept
  <2> QED
    BY <2>1, <2>2
<1> QED
  BY <1>2, <1>3

\* PublishOK, PublishError, Lookup and Abandon read rows and write none.
LEMMA ReadersAttempts ==
  ASSUME TypeOK, \A j \in Jobs : Tried(j), \A x \in Workers : Counted(x),
         NEW w \in Workers, Publish(w) \/ Lookup(w) \/ Abandon(w)
  PROVE  (\A j \in Jobs : Tried(j)') /\ (\A x \in Workers : Counted(x)')
<1>1. ASSUME UNCHANGED <<id, job>>, \A x \in Workers \ {w} : worker'[x] = worker[x],
             Counted(w)'
      PROVE  (\A j \in Jobs : Tried(j)') /\ (\A x \in Workers : Counted(x)')
  BY <1>1, OthersCounted, RowsUntouched
<1>2. CASE Publish(w)
  <2>1. PICK j \in Jobs : PublishOK(w, j) \/ PublishError(w, j)
    BY <1>2 DEF Publish
  <2>2. CASE PublishOK(w, j)
    BY <1>1, <2>2, PublishOKEffect, CountedTrivially
  <2>3. CASE PublishError(w, j)
    <3>1. worker'[w].step = "lookup" /\ UNCHANGED <<id, job>>
            /\ \A x \in Workers \ {w} : worker'[x] = worker[x]
      BY <2>3, PublishErrorEffect
    <3> QED
      BY <1>1, <3>1, CountedTrivially
  <2> QED
    BY <2>1, <2>2, <2>3
<1>3. CASE Lookup(w)
  <2>1. /\ \/ /\ worker'[w].step = "finish"
              /\ worker'[w].status =
                   StatusAfterFailure(job[worker[w].current].attempts + 1)
              /\ worker'[w].current = worker[w].current
           \/ worker'[w] = Idle
        /\ \A x \in Workers \ {w} : worker'[x] = worker[x]
        /\ UNCHANGED <<id, job>>
    BY <1>3, LookupEffect
  <2>2. CASE worker'[w] = Idle
    BY <1>1, <2>1, <2>2, IdleFields, CountedTrivially
  <2>3. CASE worker'[w] # Idle
    <3>1. Counted(w)'
      BY <2>1, <2>3 DEF Counted, StatusAfterFailure
    <3> QED
      BY <1>1, <2>1, <3>1
  <2> QED
    BY <2>2, <2>3
<1>4. CASE Abandon(w)
  BY <1>1, <1>4, AbandonEffect, IdleFields, CountedTrivially
<1> QED
  BY <1>2, <1>3, <1>4

\* Enqueue, RecoverExpiredLocks, DeleteDeliveredBefore and Tick: no attempt is
\* counted, no lock is gained, and a recovered job has attempts left.
LEMMA OthersAttempts ==
  ASSUME TypeOK, \A j \in Jobs : Tried(j), \A x \in Workers : Counted(x),
         \/ \E j \in Jobs, delay \in Nat : Enqueue(j, delay)
         \/ RecoverExpiredLocks
         \/ \E j \in Jobs : DeleteDeliveredBefore(j)
         \/ Tick
  PROVE  (\A j \in Jobs : Tried(j)') /\ (\A x \in Workers : Counted(x)')
<1>1. ASSUME MemoryKept,
             \A k \in Jobs, x \in Workers :
               Holds(x, k)' => Holds(x, k) /\ job'[k].attempts = job[k].attempts
      PROVE  \A x \in Workers : Counted(x)'
  <2> SUFFICES ASSUME NEW x \in Workers
               PROVE  Counted(x)'
    OBVIOUS
  <2>1. CASE worker[x].step # "finish"
    BY <1>1, <2>1, CountedTrivially DEF MemoryKept
  <2>2. CASE worker[x].step = "finish"
    <3>1. PICK k \in Jobs : k = worker[x].current
      BY <2>2, WorkerFields
    <3> QED
      BY <1>1, <2>2, <3>1, CountedKept DEF MemoryKept
  <2> QED
    BY <2>1, <2>2
<1>2. ASSUME NEW j \in Jobs, NEW delay \in Nat, Enqueue(j, delay)
      PROVE  (\A k \in Jobs : Tried(k)') /\ (\A x \in Workers : Counted(x)')
  <2>1. /\ job[j].status = "absent" /\ job'[j].status = "pending"
        /\ job'[j].attempts = job[j].attempts
        /\ job'[j].lockedBy = job[j].lockedBy
        /\ \A k \in Jobs \ {j} : job'[k] = job[k]
        /\ UNCHANGED <<id, worker>>
    BY <1>2, EnqueueEffect
  <2>2. Tried(j)'
    BY <2>1, PolicyAssumption DEF Tried, ValidPolicy
  <2>3. \A k \in Jobs \ {j} : Tried(k)'
    BY <2>1, TriedKept
  <2>4. MemoryKept
    BY <2>1 DEF MemoryKept
  <2>5. \A k \in Jobs, x \in Workers :
          Holds(x, k)' => Holds(x, k) /\ job'[k].attempts = job[k].attempts
    BY <2>1 DEF Holds
  <2> QED
    BY <1>1, <2>2, <2>3, <2>4, <2>5
<1>3. CASE RecoverExpiredLocks
  <2>1. /\ \A j \in Expired :
             /\ job[j].status = "running"
             /\ job'[j].status = IF job[j].attempts >= MaximumAttempts
                                   THEN "failed" ELSE "retry"
             /\ job'[j].attempts = job[j].attempts
             /\ job'[j].lockedBy = Unlocked
        /\ \A j \in Jobs \ Expired : job'[j] = job[j]
        /\ UNCHANGED <<id, worker>>
    BY <1>3, RecoverEffect
  <2>2. ASSUME NEW k \in Jobs
        PROVE  Tried(k)'
    <3>1. job[k].attempts \in Nat /\ MaximumAttempts \in Nat
      BY RowFields, PolicyAssumption DEF ValidPolicy
    <3>2. CASE k \in Expired
      <4>1. job[k].attempts < MaximumAttempts
        BY <2>1, <3>2 DEF Tried
      <4>2. job'[k].status = "retry" /\ job'[k].attempts = job[k].attempts
        BY <2>1, <3>1, <3>2, <4>1
      <4> QED
        BY <3>1, <4>1, <4>2 DEF Tried
    <3>3. CASE k \notin Expired
      BY <2>1, <3>3, TriedKept
    <3> QED
      BY <3>2, <3>3
  <2>3. MemoryKept
    BY <2>1 DEF MemoryKept
  <2>4. \A k \in Jobs, x \in Workers :
          Holds(x, k)' => Holds(x, k) /\ job'[k].attempts = job[k].attempts
    BY <2>1, WorkerAssumption DEF Holds, TypeOK
  <2> QED
    BY <1>1, <2>2, <2>3, <2>4
<1>4. ASSUME NEW j \in Jobs, DeleteDeliveredBefore(j)
      PROVE  (\A k \in Jobs : Tried(k)') /\ (\A x \in Workers : Counted(x)')
  <2>1. /\ job'[j].status = "deleted"
        /\ job'[j].attempts = job[j].attempts
        /\ job'[j].lockedBy = job[j].lockedBy
        /\ \A k \in Jobs \ {j} : job'[k] = job[k]
        /\ UNCHANGED <<id, worker>>
    BY <1>4, DeleteEffect
  <2>2. Tried(j)'
    BY <2>1 DEF Tried, Claimable
  <2>3. \A k \in Jobs \ {j} : Tried(k)'
    BY <2>1, TriedKept
  <2>4. MemoryKept
    BY <2>1 DEF MemoryKept
  <2>5. \A k \in Jobs, x \in Workers :
          Holds(x, k)' => Holds(x, k) /\ job'[k].attempts = job[k].attempts
    BY <2>1 DEF Holds
  <2> QED
    BY <1>1, <2>2, <2>3, <2>4, <2>5
<1>5. CASE Tick
  <2>1. /\ \A j \in Jobs : /\ job'[j].status = job[j].status
                           /\ job'[j].attempts = job[j].attempts
                           /\ job'[j].lockedBy = job[j].lockedBy
        /\ MemoryKept /\ UNCHANGED id
    BY <1>5, TickEffect DEF MemoryKept
  <2>2. \A k \in Jobs : Tried(k)'
    BY <2>1, TriedKept
  <2>3. \A k \in Jobs, x \in Workers :
          Holds(x, k)' => Holds(x, k) /\ job'[k].attempts = job[k].attempts
    BY <2>1 DEF Holds
  <2> QED
    BY <1>1, <2>1, <2>2, <2>3
<1> QED
  BY <1>2, <1>3, <1>4, <1>5

-----------------------------------------------------------------------------
(***************************************************************************)
(* The inductive invariant, and the retry limit.                           *)
(***************************************************************************)
LEMMA OutboxInvInit == Init => OutboxInv
<1> SUFFICES ASSUME Init
             PROVE  OutboxInv
  OBVIOUS
<1>1. /\ NewJob.status = "absent" /\ NewJob.attempts = 0 /\ NewJob.wait = 0
      /\ NewJob.lockedBy = Unlocked /\ NewJob.lockAge = 0 /\ NewJob \in Rows
  BY DEF NewJob, Rows, Statuses
<1>2. /\ \A j \in Jobs : job[j] = NewJob /\ published[j] = 0 /\ recovered[j] = 0
      /\ \A w \in Workers : worker[w] = Idle
  BY DEF Init
<1>3. TypeOK
  BY <1>1, PolicyAssumption DEF Init, TypeOK
<1>4. \A w \in Workers : worker[w].step = "idle" /\ worker[w].todo = {}
  BY <1>2, IdleFields
<1>5. \A w \in Workers : \A j : ~Carries(w, j)
  BY <1>4 DEF Carries
<1>6. PublicationsBounded
  <2> SUFFICES ASSUME NEW j \in Jobs
               PROVE  published[j] + Cardinality(Carriers(j)) + Spare(j)
                        <= 1 + recovered[j]
    BY DEF PublicationsBounded
  <2>1. Carriers(j) = {}
    BY <1>5 DEF Carriers
  <2>2. Cardinality(Carriers(j)) = 0
    BY <2>1, FS_EmptySet
  <2>3. Spare(j) = 1
    BY <1>1, <1>2 DEF Spare
  <2> QED
    BY <1>2, <2>2, <2>3
<1>7. LocksRunning /\ CarriedKnown /\ CurrentApart /\ ReportsTrue
  BY <1>1, <1>2, <1>4, <1>5
  DEF LocksRunning, CarriedKnown, CurrentApart, ReportsTrue
<1>8. \A j \in Jobs : Tried(j)
  BY <1>1, <1>2, PolicyAssumption DEF Tried, ValidPolicy, Claimable
<1>9. \A w \in Workers : Counted(w)
  BY <1>4 DEF Counted
<1> QED
  BY <1>3, <1>6, <1>7, <1>8, <1>9 DEF OutboxInv, PublishInv, AttemptsInv

\* One conjunct after the other, action by action.
LEMMA OutboxInvStep == OutboxInv /\ [Next]_vars => OutboxInv'
<1> SUFFICES ASSUME OutboxInv, [Next]_vars
             PROVE  OutboxInv'
  OBVIOUS
<1>1. TypeOK /\ PublishInv
  BY DEF OutboxInv
<1>2. ASSUME UNCHANGED id,
             OwnIDs /\ (\A j \in Jobs : Tried(j)) /\ (\A x \in Workers : Counted(x))
               => (\A j \in Jobs : Tried(j)') /\ (\A x \in Workers : Counted(x)')
      PROVE  AttemptsInv'
  <2>1. AttemptsInv
    BY DEF OutboxInv
  <2>2. OwnIDs' <=> OwnIDs
    BY <1>2, OwnIDsKept
  <2> QED
    BY <1>2, <2>1, <2>2 DEF AttemptsInv
<1>3. ASSUME NEW j \in Jobs, NEW delay \in 0 .. MaxDelay, Enqueue(j, delay)
      PROVE  OutboxInv'
  <2>1. delay \in Nat
    BY PolicyAssumption
  <2>2. UNCHANGED id /\ TypeOK'
    BY <1>1, <1>3, <2>1, EnqueueEffect
  <2>3. PublishInv'
    BY <1>1, <1>3, <2>1, EnqueuePublish
  <2>4. AttemptsInv'
    BY <1>1, <1>2, <1>3, <2>1, <2>2, OthersAttempts
  <2> QED
    BY <2>2, <2>3, <2>4 DEF OutboxInv
<1>4. ASSUME NEW w \in Workers, Poll(w)
      PROVE  OutboxInv'
  <2>1. PICK lag \in 0 .. LockTimeout : Claim(w, lag)
    BY <1>4 DEF Poll
  <2>2. lag \in Nat
    BY PolicyAssumption DEF ValidPolicy
  <2>3. UNCHANGED id /\ TypeOK'
    BY <1>1, <2>1, <2>2, ClaimEffect
  <2>4. PublishInv'
    BY <1>1, <2>1, <2>2, ClaimPublish
  <2>5. AttemptsInv'
    BY <1>1, <1>2, <2>1, <2>2, <2>3, ClaimAttempts
  <2> QED
    BY <2>3, <2>4, <2>5 DEF OutboxInv
<1>5. ASSUME NEW w \in Workers, Publish(w)
      PROVE  OutboxInv'
  <2>1. PICK j \in Jobs : PublishOK(w, j) \/ PublishError(w, j)
    BY <1>5 DEF Publish
  <2>2. UNCHANGED id /\ TypeOK'
    BY <1>1, <2>1, PublishOKEffect, PublishErrorEffect
  <2>3. PublishInv'
    BY <1>1, <2>1, PublishOKPublish, FailurePublish
  <2>4. AttemptsInv'
    BY <1>1, <1>2, <1>5, <2>2, ReadersAttempts
  <2> QED
    BY <2>2, <2>3, <2>4 DEF OutboxInv
<1>6. ASSUME NEW w \in Workers, Lookup(w) \/ Abandon(w)
      PROVE  OutboxInv'
  <2>1. UNCHANGED id /\ TypeOK'
    BY <1>1, <1>6, LookupEffect, AbandonEffect
  <2>2. PublishInv'
    BY <1>1, <1>6, FailurePublish
  <2>3. AttemptsInv'
    BY <1>1, <1>2, <1>6, <2>1, ReadersAttempts
  <2> QED
    BY <2>1, <2>2, <2>3 DEF OutboxInv
<1>7. ASSUME NEW w \in Workers, Finish(w)
      PROVE  OutboxInv'
  <2>1. UNCHANGED id /\ TypeOK'
    BY <1>1, <1>7, FinishEffect
  <2>2. PublishInv'
    BY <1>1, <1>7, FinishPublish
  <2>3. AttemptsInv'
    BY <1>1, <1>2, <1>7, <2>1, FinishAttempts
  <2> QED
    BY <2>1, <2>2, <2>3 DEF OutboxInv
<1>8. CASE Tick
  <2>1. UNCHANGED id /\ TypeOK'
    BY <1>1, <1>8, TickEffect
  <2>2. PublishInv'
    BY <1>1, <1>8, TickPublish
  <2>3. AttemptsInv'
    BY <1>1, <1>2, <1>8, <2>1, OthersAttempts
  <2> QED
    BY <2>1, <2>2, <2>3 DEF OutboxInv
<1>9. CASE RecoverExpiredLocks
  <2>1. UNCHANGED id /\ TypeOK'
    BY <1>1, <1>9, RecoverEffect
  <2>2. PublishInv'
    BY <1>1, <1>9, RecoverPublish
  <2>3. AttemptsInv'
    BY <1>1, <1>2, <1>9, <2>1, OthersAttempts
  <2> QED
    BY <2>1, <2>2, <2>3 DEF OutboxInv
<1>10. ASSUME NEW j \in Jobs, DeleteDeliveredBefore(j)
       PROVE  OutboxInv'
  <2>1. UNCHANGED id /\ TypeOK'
    BY <1>1, <1>10, DeleteEffect
  <2>2. PublishInv'
    BY <1>1, <1>10, DeletePublish
  <2>3. AttemptsInv'
    BY <1>1, <1>2, <1>10, <2>1, OthersAttempts
  <2> QED
    BY <2>1, <2>2, <2>3 DEF OutboxInv
<1>11. CASE UNCHANGED vars
  BY <1>11 DEF OutboxInv, vars, TypeOK, Rows, PublishInv, PublicationsBounded,
     LocksRunning, CarriedKnown, CurrentApart, ReportsTrue, Carries, Carriers,
     Spare, AttemptsInv, OwnIDs, Tried, Counted, Holds, StatusAfterFailure
<1> QED
  BY <1>3, <1>4, <1>5, <1>6, <1>7, <1>8, <1>9, <1>10, <1>11
  DEF Next, ServerNext, Work

\* It holds throughout.
LEMMA OutboxInvAlways == Spec => []OutboxInv
BY OutboxInvInit, OutboxInvStep, PTL DEF Spec

\* The rows and what the workers hold in memory stay well formed, whatever is
\* published, refused, lost, late, recovered or deleted.
THEOREM OutboxTypeCorrect == Spec => []TypeOK
<1>1. OutboxInv => TypeOK
  BY DEF OutboxInv
<1> QED
  BY <1>1, OutboxInvAlways, PTL

\* RetryPolicy.MaximumAttempts is never exceeded, for any number of workers with
\* ids of their own and any number of lost or late batches: RunOnce looks the
\* attempts up in one statement and counts them in another, and recovery may
\* run in between.
THEOREM AttemptsNeverExceeded == Spec => []AttemptsBounded
<1>1. OutboxInv => AttemptsBounded
  BY DEF OutboxInv, AttemptsInv, AttemptsBounded, Tried
<1> QED
  BY <1>1, OutboxInvAlways, PTL

-----------------------------------------------------------------------------
(***************************************************************************)
(* The refinement.  A claim, a refusal, a lookup, a lost batch and the     *)
(* passage of time leave a job's fate and its allowance alone.             *)
(***************************************************************************)
FateOf(j) == IF job[j].status \in Claimable \cup {"running"}
               THEN "waiting" ELSE job[j].status
Fates == [j \in Jobs |-> FateOf(j)]
Allowances == [j \in Jobs |-> 1 + recovered[j]]

\* A step that changes no fate, no count and no allowance is a stutter.
LEMMA DeliveryStutter ==
  ASSUME \A j \in Jobs : FateOf(j)' = FateOf(j), UNCHANGED <<published, recovered>>
  PROVE  UNCHANGED D!vars
<1>1. Fates' = Fates /\ Allowances' = Allowances
  BY DEF Fates, Allowances
<1> QED
  BY <1>1 DEF D!vars, Fates, Allowances, FateOf

\* Init implements Delivery's.
LEMMA DeliveryInit == Init => D!Init
<1> SUFFICES ASSUME Init
             PROVE  D!Init
  OBVIOUS
<1>1. NewJob.status = "absent"
  BY DEF NewJob
<1>2. \A j \in Jobs : job[j].status = "absent"
  BY <1>1 DEF Init
<1>3. Fates = [j \in Jobs |-> "absent"]
  BY <1>2 DEF Fates, FateOf, Claimable
<1>4. Allowances = [j \in Jobs |-> 1]
  BY DEF Init, Allowances
<1> QED
  BY <1>3, <1>4 DEF D!Init, Init, Fates, FateOf, Allowances

\* A fate that is written is written once: the row was waiting.
LEMMA FinishDelivers ==
  ASSUME TypeOK, PublishInv, NEW w \in Workers, Finish(w)
  PROVE  D!Next \/ UNCHANGED D!vars
<1> PICK j \in Jobs : j = worker[w].current
  BY FinishEffect
<1>1. /\ worker[w].step = "finish" /\ worker[w].status \in Outcomes
      /\ \/ ~Holds(w, j) /\ job' = job
         \/ /\ Holds(w, j) /\ job'[j].status = worker[w].status
            /\ \A k \in Jobs \ {j} : job'[k] = job[k]
      /\ UNCHANGED <<id, published, recovered, faults>>
  BY FinishEffect
<1>2. CASE ~Holds(w, j) \/ worker[w].status = "retry"
  <2>1. Holds(w, j) => job[j].status = "running"
    BY <1>1, WorkerAssumption DEF TypeOK, Holds, PublishInv, LocksRunning
  <2>2. \A k \in Jobs : FateOf(k)' = FateOf(k)
    BY <1>1, <1>2, <2>1 DEF FateOf, Claimable
  <2> QED
    BY <1>1, <2>2, DeliveryStutter
<1>3. CASE Holds(w, j) /\ worker[w].status # "retry"
  <2>1. job[j].status = "running"
    BY <1>1, <1>3, WorkerAssumption DEF TypeOK, Holds, PublishInv, LocksRunning
  <2>2. FateOf(j) = "waiting" /\ FateOf(j)' = worker[w].status
    BY <1>1, <1>3, <2>1 DEF FateOf, Claimable, Outcomes
  <2>3. Fates' = [Fates EXCEPT ![j] = worker[w].status] /\ Fates[j] = "waiting"
    <3>1. \A k \in Jobs \ {j} : FateOf(k)' = FateOf(k)
      BY <1>1, <1>3 DEF FateOf
    <3> QED
      BY <2>2, <3>1 DEF Fates
  <2>4. UNCHANGED <<published, Allowances>>
    BY <1>1 DEF Allowances
  <2>5. CASE worker[w].status = "delivered"
    <3>1. published[j] > 0
      BY <1>1, <2>5 DEF PublishInv, ReportsTrue
    <3>2. D!Deliver(j)
      BY <2>3, <2>4, <2>5, <3>1
      DEF D!Deliver, D!Waiting, Fates, FateOf, Allowances
    <3> QED
      BY <3>2 DEF D!Next
  <2>6. CASE worker[w].status = "failed"
    <3>1. D!GiveUp(j)
      BY <2>3, <2>4, <2>6
      DEF D!GiveUp, D!Waiting, Fates, FateOf, Allowances
    <3> QED
      BY <3>1 DEF D!Next
  <2> QED
    BY <1>1, <1>3, <2>5, <2>6 DEF Outcomes
<1> QED
  BY <1>2, <1>3

\* The publisher takes a job only while it has an allowance.
LEMMA PublishOKDelivers ==
  ASSUME TypeOK, PublishInv, NEW w \in Workers, NEW j \in Jobs, PublishOK(w, j)
  PROVE  D!Next
<1>1. /\ j \in worker[w].todo
      /\ published' = [published EXCEPT ![j] = @ + 1]
      /\ UNCHANGED <<job, recovered>>
  BY DEF PublishOK
<1>2. Carries(w, j) /\ w \in Carriers(j)
  BY <1>1 DEF Carries, Carriers
<1>3. Cardinality(Carriers(j)) \in Nat /\ Cardinality(Carriers(j)) # 0
  <2>1. IsFiniteSet(Carriers(j))
    BY WorkerAssumption, FS_Subset DEF Carriers
  <2> QED
    BY <1>2, <2>1, FS_CardinalityType, FS_EmptySet
<1>4. published[j] < 1 + recovered[j]
  <2>1. published[j] + Cardinality(Carriers(j)) + Spare(j) <= 1 + recovered[j]
    BY DEF PublishInv, PublicationsBounded
  <2>2. Spare(j) \in Nat /\ published[j] \in Nat /\ recovered[j] \in Nat
    BY RowFields DEF Spare
  <2> QED
    BY <1>3, <2>1, <2>2
<1>5. published[j] < Allowances[j]
  BY <1>4 DEF Allowances
<1>6. Fates[j] # "absent"
  BY <1>2 DEF PublishInv, CarriedKnown, Fates, FateOf
<1>7. UNCHANGED <<Fates, Allowances>>
  BY <1>1 DEF Fates, FateOf, Allowances
<1>8. D!Publish(j)
  BY <1>1, <1>5, <1>6, <1>7 DEF D!Publish, Fates, FateOf, Allowances
<1> QED
  BY <1>8 DEF D!Next

\* Recovery takes jobs back and may give some of them up.
LEMMA RecoverDelivers ==
  ASSUME TypeOK, RecoverExpiredLocks
  PROVE  D!Next
<1> DEFINE failing == {j \in Expired : job'[j].status = "failed"}
<1>1. /\ Expired \subseteq Jobs
      /\ \A j \in Expired :
           /\ job[j].status = "running" /\ job'[j].status \in {"failed", "retry"}
           /\ recovered'[j] = recovered[j] + 1
      /\ \A j \in Jobs \ Expired :
           job'[j] = job[j] /\ recovered'[j] = recovered[j]
      /\ UNCHANGED published
  BY RecoverEffect
<1>2. \A j \in Expired : Fates[j] = "waiting"
  BY <1>1 DEF Fates, FateOf
<1>3. Fates' = [j \in Jobs |-> IF j \in failing THEN "failed" ELSE Fates[j]]
  <2>1. ASSUME NEW j \in Jobs
        PROVE  FateOf(j)' = IF j \in failing THEN "failed" ELSE FateOf(j)
    BY <1>1 DEF FateOf, Claimable
  <2> QED
    BY <2>1 DEF Fates
<1>4. Allowances' = [j \in Jobs |->
                       IF j \in Expired THEN Allowances[j] + 1 ELSE Allowances[j]]
  BY <1>1, RowFields DEF Allowances
<1>5. failing \subseteq Expired
  OBVIOUS
<1> HIDE DEF failing
<1>6. \A S, F \in SUBSET Jobs : S = Expired /\ F = failing => D!TakeBack(S, F)
  BY <1>1, <1>2, <1>3, <1>4, <1>5
  DEF D!TakeBack, D!Waiting, Fates, FateOf, Allowances
<1>7. Expired \in SUBSET Jobs /\ failing \in SUBSET Jobs
  BY <1>1, <1>5
<1> QED
  BY <1>6, <1>7 DEF D!Next

\* Every step implements a step of Delivery or leaves it where it is.
LEMMA DeliveryStep ==
  ASSUME OutboxInv, [Next]_vars
  PROVE  D!Next \/ UNCHANGED D!vars
<1>1. TypeOK /\ PublishInv
  BY DEF OutboxInv
<1>2. ASSUME NEW j \in Jobs, NEW delay \in 0 .. MaxDelay, Enqueue(j, delay)
      PROVE  D!Next
  <2>1. delay \in Nat
    BY PolicyAssumption
  <2>2. /\ job[j].status = "absent" /\ job'[j].status = "pending"
        /\ \A k \in Jobs \ {j} : job'[k] = job[k]
        /\ UNCHANGED <<published, recovered>>
    BY <1>1, <1>2, <2>1, EnqueueEffect
  <2>3. Fates' = [Fates EXCEPT ![j] = "waiting"] /\ Fates[j] = "absent"
    BY <2>2 DEF Fates, FateOf, Claimable
  <2>4. UNCHANGED <<published, Allowances>>
    BY <2>2 DEF Allowances
  <2>5. D!Submit(j)
    BY <2>3, <2>4 DEF D!Submit, Fates, FateOf, Allowances
  <2> QED
    BY <2>5 DEF D!Next
<1>3. ASSUME NEW w \in Workers, Poll(w)
      PROVE  UNCHANGED D!vars
  <2>1. PICK lag \in 0 .. LockTimeout : Claim(w, lag)
    BY <1>3 DEF Poll
  <2>2. lag \in Nat
    BY PolicyAssumption DEF ValidPolicy
  <2>3. /\ \A j \in worker'[w].todo :
             job[j].status \in Claimable /\ job'[j].status = "running"
        /\ \A j \in Jobs \ worker'[w].todo : job'[j] = job[j]
        /\ UNCHANGED <<published, recovered>>
    BY <1>1, <2>1, <2>2, ClaimEffect
  <2>4. \A j \in Jobs : FateOf(j)' = FateOf(j)
    BY <2>3 DEF FateOf
  <2> QED
    BY <2>3, <2>4, DeliveryStutter
<1>4. ASSUME NEW w \in Workers, Publish(w)
      PROVE  D!Next \/ UNCHANGED D!vars
  <2>1. PICK j \in Jobs : PublishOK(w, j) \/ PublishError(w, j)
    BY <1>4 DEF Publish
  <2>2. CASE PublishOK(w, j)
    BY <1>1, <2>2, PublishOKDelivers
  <2>3. CASE PublishError(w, j)
    <3>1. UNCHANGED <<job, published, recovered>>
      BY <2>3 DEF PublishError
    <3> QED
      BY <3>1, DeliveryStutter DEF FateOf
  <2> QED
    BY <2>1, <2>2, <2>3
<1>5. ASSUME NEW w \in Workers, Lookup(w) \/ Abandon(w)
      PROVE  UNCHANGED D!vars
  <2>1. UNCHANGED <<job, published, recovered>>
    BY <1>1, <1>5, LookupEffect, AbandonEffect
  <2> QED
    BY <2>1, DeliveryStutter DEF FateOf
<1>6. ASSUME NEW w \in Workers, Finish(w)
      PROVE  D!Next \/ UNCHANGED D!vars
  BY <1>1, <1>6, FinishDelivers
<1>7. CASE Tick
  <2>1. /\ \A j \in Jobs : job'[j].status = job[j].status
        /\ UNCHANGED <<published, recovered>>
    BY <1>1, <1>7, TickEffect
  <2>2. \A j \in Jobs : FateOf(j)' = FateOf(j)
    BY <2>1 DEF FateOf
  <2> QED
    BY <2>1, <2>2, DeliveryStutter
<1>8. CASE RecoverExpiredLocks
  BY <1>1, <1>8, RecoverDelivers
<1>9. ASSUME NEW j \in Jobs, DeleteDeliveredBefore(j)
      PROVE  D!Next
  <2>1. /\ job[j].status = "delivered" /\ job'[j].status = "deleted"
        /\ \A k \in Jobs \ {j} : job'[k] = job[k]
        /\ UNCHANGED <<published, recovered>>
    BY <1>1, <1>9, DeleteEffect
  <2>2. Fates' = [Fates EXCEPT ![j] = "deleted"] /\ Fates[j] = "delivered"
    BY <2>1 DEF Fates, FateOf, Claimable
  <2>3. UNCHANGED <<published, Allowances>>
    BY <2>1 DEF Allowances
  <2>4. D!Purge(j)
    BY <2>2, <2>3 DEF D!Purge, Fates, FateOf, Allowances
  <2> QED
    BY <2>4 DEF D!Next
<1>10. CASE UNCHANGED vars
  BY <1>10, DeliveryStutter DEF vars, FateOf
<1> QED
  BY <1>2, <1>3, <1>4, <1>5, <1>6, <1>7, <1>8, <1>9, <1>10
  DEF Next, ServerNext, Work

\* The outbox implements Delivery for any jobs, workers, worker ids and retry
\* policy: a job is recorded as delivered only after a publication, is published
\* at most once more than its lock was taken back, and keeps the fate it was given
\* although no UPDATE of RunOnce looks at the status it overwrites.
THEOREM OutboxImplementsDelivery == Spec => DeliveryPromise
<1>1. OutboxInv /\ [Next]_vars => [D!Next]_(D!vars)
  BY DeliveryStep
<1> QED
  BY <1>1, DeliveryInit, OutboxInvAlways, PTL DEF Spec, DeliveryPromise, D!Spec

=============================================================================
