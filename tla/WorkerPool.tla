----------------------------- MODULE WorkerPool -----------------------------
(***************************************************************************)
(* The pool of goroutines that sends notifications (notification           *)
(* Dispatcher.Dispatch) and declares batches (service DeclareBatch).  The  *)
(* two are the same program around a different task: a caller hands the    *)
(* indexes of a slice to workers over an unbuffered channel, workers write *)
(* their results into a shared slice without a lock, and a cancelled       *)
(* context makes the caller stop and fill in what it did not hand out.     *)
(***************************************************************************)
EXTENDS Integers

CONSTANTS
  Size,           \* how many tasks there are
  Workers,        \* the goroutines, as many as the clamped concurrency
  CanSend         \* the tasks that have a sender for their channel

\* DeclareBatch refuses an empty batch, and raises the concurrency to one.
ValidBatch == Size \in Nat \ {0} /\ Workers # {}

ASSUME PoolAssumption == ValidBatch /\ CanSend \subseteq 1 .. Size

VARIABLES
  cancelled,      \* whether the caller's context is done
  caller,         \* "loop", "wait" after close(jobs), "returned"
  index,          \* the loop variable
  worker,         \* worker -> the task it has, and how that went
  results,        \* the shared slice
  effects         \* the tasks that took effect

poolVars == <<cancelled, caller, index, worker, results, effects>>

Tasks == 1 .. Size
Outcomes == {"sent", "error"}
NoResult == "none"       \* the zero value of the slice

Receiving == [step |-> "receiving"]

-----------------------------------------------------------------------------
\* Whoever made the context cancels it, at any time.
CancelPool ==
  /\ ~cancelled
  /\ cancelled' = TRUE
  /\ UNCHANGED <<caller, index, worker, results, effects>>

\* case jobs <- index: caller and worker meet, also on a cancelled context.
HandOut(w) ==
  /\ caller = "loop" /\ index <= Size
  /\ worker[w] = Receiving
  /\ worker' = [worker EXCEPT ![w] = [step |-> "task", task |-> index]]
  /\ index' = index + 1
  /\ UNCHANGED <<cancelled, caller, results, effects>>

\* case <-ctx.Done(): close(jobs), with the current index not handed out.
StopEarly ==
  /\ caller = "loop" /\ index <= Size
  /\ cancelled
  /\ caller' = "wait"
  /\ UNCHANGED <<cancelled, index, worker, results, effects>>

\* The loop is over: close(jobs).
CloseJobs ==
  /\ caller = "loop" /\ index = Size + 1
  /\ caller' = "wait"
  /\ UNCHANGED <<cancelled, index, worker, results, effects>>

\* The task takes effect, or it fails: there is no sender, the sender or the
\* coordinator returns an error, the context is done.  It may also do both: a
\* declaration commits, and completing its idempotency record fails.
DoTask(w) ==
  LET t == worker[w] IN
  /\ t.step = "task"
  /\ \E outcome \in Outcomes :
       /\ worker' = [worker EXCEPT ![w] =
            [step |-> "record", task |-> t.task, outcome |-> outcome]]
       /\ \/ /\ t.task \in CanSend
             /\ effects' = effects \cup {t.task}
          \/ /\ outcome = "error"
             /\ effects' = effects
  /\ UNCHANGED <<cancelled, caller, index, results>>

\* results[index] = result, and the next receive.
Record(w) ==
  LET t == worker[w] IN
  /\ t.step = "record"
  /\ results' = [results EXCEPT ![t.task] = t.outcome]
  /\ worker' = [worker EXCEPT ![w] = Receiving]
  /\ UNCHANGED <<cancelled, caller, index, effects>>

\* Fault: the channel is closed after the wait.
ExitAfterReturn(w) ==
  /\ worker[w] = Receiving
  /\ caller = "returned"
  /\ worker' = [worker EXCEPT ![w] = [step |-> "exited"]]
  /\ UNCHANGED <<cancelled, caller, index, results, effects>>

\* range jobs ends when the channel is closed.
Exit(w) ==
  /\ worker[w] = Receiving
  /\ caller # "loop"
  /\ worker' = [worker EXCEPT ![w] = [step |-> "exited"]]
  /\ UNCHANGED <<cancelled, caller, index, results, effects>>

\* Faults: nobody waits; the rest begins one too early.
NoWait == TRUE
UnsentAndOne == index - 1 .. Size

\* Wait, then fill in the rest, if the loop was left early, and return.
AllExited == \A w \in Workers : worker[w].step = "exited"
Unsent == index .. Size
ReturnResults ==
  /\ caller = "wait"
  /\ AllExited
  /\ caller' = "returned"
  /\ results' = [i \in Tasks |-> IF i \in Unsent THEN "cancelled" ELSE results[i]]
  /\ UNCHANGED <<cancelled, index, worker, effects>>

PoolInit ==
  /\ cancelled = FALSE
  /\ caller = "loop"
  /\ index = 1
  /\ worker = [w \in Workers |-> Receiving]
  /\ results = [i \in Tasks |-> NoResult]
  /\ effects = {}

Work(w) == DoTask(w) \/ Record(w) \/ Exit(w)
Call == StopEarly \/ CloseJobs \/ ReturnResults \/ \E w \in Workers : HandOut(w)

PoolNext == CancelPool \/ Call \/ \E w \in Workers : Work(w)

\* Goroutines that can run do run; every task ends.
Fairness == WF_poolVars(Call) /\ \A w \in Workers : WF_poolVars(Work(w))

PoolSpec == PoolInit /\ [][PoolNext]_poolVars /\ Fairness

-----------------------------------------------------------------------------
\* What the caller gets is true: when the function returns every task has a
\* result, a task reported as sent took effect, one reported as cancelled was
\* never seen by a worker and did not.  Only of a task reported as an error is
\* it open: a declaration may have committed before the error.
ReportTrue ==
  caller = "returned" =>
    /\ \A i \in Tasks : results[i] # NoResult
    /\ \A i \in Tasks : results[i] = "sent" => i \in effects
    /\ \A i \in Tasks : results[i] = "cancelled" => i >= index /\ i \notin effects

\* The slice needs no lock: no two workers have the same task, a worker at a
\* task is the first to write its result, and once the function has returned
\* there is none left that could.
SliceNeedsNoLock ==
  /\ \A w \in Workers : worker[w].step \in {"task", "record"} =>
       /\ caller # "returned"
       /\ results[worker[w].task] = NoResult
  /\ \A v, w \in Workers :
       /\ v # w
       /\ worker[v].step \in {"task", "record"}
       /\ worker[w].step \in {"task", "record"}
       => worker[v].task # worker[w].task

\* The call returns, cancelled or not: closing the channel lets every worker
\* out, and nobody waits for somebody who waits for him.
CallReturns == <>(caller = "returned")
=============================================================================
