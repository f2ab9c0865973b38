------------------------------ MODULE Customs ------------------------------
(***************************************************************************)
(* Submitting a voyage to the customs gateway (service/customs.go over     *)
(* customs/client.go and customs/retry.go).  The gateway is outside: a     *)
(* request may reach it late, or never, and its answer may be lost after   *)
(* it has decided, so a submission that is retried can meet itself.        *)
(*                                                                         *)
(* Lengths of time are machine integers of Width bits: the pause between   *)
(* two attempts is a shift that can overflow.                              *)
(***************************************************************************)
EXTENDS Integers, FiniteSets

CONSTANTS
  Calls,            \* calls of CustomsSubmission.Submit
  Declared,         \* the voyages that have a manifest
  Decisions,        \* what a gateway may decide: accepted, review, rejected
  Policies,         \* retry policies as configured, zero and negative ones too
  DefaultAttempts, DefaultBackoff, DefaultMaximum,
  Width             \* bits of a time.Duration: 64 in the code

ASSUME CustomsAssumption ==
  /\ Width \in Nat \ {0}
  /\ DefaultAttempts \in Nat \ {0}
  /\ DefaultBackoff \in Nat \ {0} /\ DefaultMaximum \in Nat \ {0}
  /\ Policies \subseteq [attempts : Int, backoff : Int, maximum : Int]

VARIABLES
  policy,           \* what Submit makes of the configured policy
  done,             \* the calls whose context is done
  call,             \* call -> how far it has got
  wire,             \* requests <<call, attempt>> that may still arrive
  answer,           \* call -> the answer to the request it waits for
  decided           \* the gateway: voyage -> its decision, and whose request

vars == <<policy, done, call, wire, answer, decided>>

-----------------------------------------------------------------------------
None == "none"
Idle == [step |-> "idle"]
NoAnswer == [status |-> None]
Undecided == [decision |-> None, by |-> None]
NoPause == 0

Active(c) == call[c].step \in {"send", "wait", "pause"}

\* What Submit returns is a decision or an error, and never both.
Errors == {"refused", "conflict", "forbidden", "invalid", "unavailable",
           "timeout", "cancelled"}
ASSUME DecisionsAssumption == Decisions \cap (Errors \cup {None}) = {}

-----------------------------------------------------------------------------
(***************************************************************************)
(* customs/retry.go                                                        *)
(***************************************************************************)
Effective(p) ==
  LET backoff == IF p.backoff <= 0 THEN DefaultBackoff ELSE p.backoff IN
  [attempts |-> IF p.attempts <= 0 THEN DefaultAttempts ELSE p.attempts,
   backoff |-> backoff,
   maximum |-> IF p.maximum < backoff THEN DefaultMaximum ELSE p.maximum]

\* The value of n in Width bits, signed.
Wrap(n) ==
  LET low == n % 2 ^ Width IN
  IF low >= 2 ^ (Width - 1) THEN low - 2 ^ Width ELSE low

\* Fault: the backoff grows without its maximum.
PauseUncapped(attempt) == Wrap(policy.backoff * 2 ^ (attempt - 1))

\* The pause after an attempt.  The timer of a pause that is not positive
\* fires at once.
Pause(attempt) ==
  LET backoff == Wrap(policy.backoff * 2 ^ (attempt - 1)) IN
  IF backoff > policy.maximum THEN policy.maximum ELSE backoff

\* retryable: everything but a context that is done, and three domain errors.
Retryable(result) == result = "unavailable"

-----------------------------------------------------------------------------
(***************************************************************************)
(* service/customs.go                                                      *)
(***************************************************************************)
Return(c, result) ==
  /\ call' = [call EXCEPT ![c] = [step |-> "returned", voyage |-> @.voyage,
                                  attempt |-> @.attempt, result |-> result]]
  /\ answer' = [answer EXCEPT ![c] = NoAnswer]

\* The actor may not, the voyage is not found or has no manifest.
Refuse(c) ==
  /\ call[c] = Idle
  /\ call' = [call EXCEPT ![c] = [step |-> "returned", voyage |-> None,
                                  attempt |-> 0, result |-> "refused"]]
  /\ UNCHANGED <<policy, done, wire, answer, decided>>

\* The voyage is read once, and one declaration is made for all attempts.
Submit(c, v) ==
  /\ call[c] = Idle
  /\ call' = [call EXCEPT ![c] = [step |-> "send", voyage |-> v,
                                  attempt |-> 1, pause |-> NoPause]]
  /\ UNCHANGED <<policy, done, wire, answer, decided>>

-----------------------------------------------------------------------------
(***************************************************************************)
(* An attempt: HTTPClient.Submit.  Do does not send on a context that is   *)
(* done.                                                                   *)
(***************************************************************************)
Send(c) ==
  /\ call[c].step = "send"
  /\ c \notin done
  /\ wire' = wire \cup {<<c, call[c].attempt>>}
  /\ call' = [call EXCEPT ![c].step = "wait"]
  /\ UNCHANGED <<policy, done, answer, decided>>

\* Fault: one attempt too many.
LastIsMore(c) == call[c].attempt > policy.attempts
LastAttempt(c) == call[c].attempt = policy.attempts

\* An error of the attempt: the loop is left, or it pauses.
Fail(c, result) ==
  IF Retryable(result) /\ ~LastAttempt(c)
    THEN /\ call' = [call EXCEPT ![c].step = "pause",
                                 ![c].pause = Pause(call[c].attempt)]
         /\ answer' = [answer EXCEPT ![c] = NoAnswer]
    ELSE Return(c, result)

\* Fault: the decision is not validated.
OutcomeUnchecked(a) ==
  CASE a.status = "409" -> "conflict"
    [] a.status \in {"401", "403"} -> "forbidden"
    [] a.status = "200" /\ a.body # "garbled" -> "decision"
    [] OTHER -> "unavailable"

\* The status decides before the body is looked at.  A body that cannot be
\* decoded is an error like a 5xx status and is retried; one that decodes but
\* fails validateDecision (no reference, no date, a rejection without its
\* reason, an unknown status) is invalid, and is not.
Outcome(a) ==
  CASE a.status = "409" -> "conflict"
    [] a.status \in {"401", "403"} -> "forbidden"
    [] a.status = "200" /\ a.body = "complete" -> "decision"
    [] a.status = "200" /\ a.body = "incomplete" -> "invalid"
    [] OTHER -> "unavailable"

Receive(c) ==
  /\ call[c].step = "wait"
  /\ answer[c] # NoAnswer
  /\ LET outcome == Outcome(answer[c]) IN
     IF outcome = "decision" THEN Return(c, answer[c].decision)
     ELSE Fail(c, outcome)
  /\ UNCHANGED <<policy, done, wire, decided>>

\* The connection breaks; the request may still arrive, or has arrived.
Break(c) ==
  /\ call[c].step = "wait"
  /\ Fail(c, "unavailable")
  /\ UNCHANGED <<policy, done, wire, decided>>

\* Fault: a client without a limit.
TimeoutNever(c) == FALSE /\ UNCHANGED vars

\* The client's own limit of five seconds: the error counts as a deadline
\* exceeded, and is not retried.
Timeout(c) ==
  /\ call[c].step = "wait"
  /\ Fail(c, "timeout")
  /\ UNCHANGED <<policy, done, wire, decided>>

-----------------------------------------------------------------------------
(***************************************************************************)
(* The pause, and the context.                                             *)
(***************************************************************************)
\* The timer; also if the context is done, as select chooses at random.
Wake(c) ==
  /\ call[c].step = "pause"
  /\ call' = [call EXCEPT ![c].step = "send", ![c].attempt = @ + 1]
  /\ UNCHANGED <<policy, done, wire, answer, decided>>

\* <-ctx.Done() during the pause, Do on a context that is done.
Cancelled(c) ==
  /\ Active(c)
  /\ c \in done
  /\ Return(c, "cancelled")
  /\ UNCHANGED <<policy, done, wire, decided>>

CancelContext(c) ==
  /\ Active(c) /\ c \notin done
  /\ done' = done \cup {c}
  /\ UNCHANGED <<policy, call, wire, answer, decided>>

-----------------------------------------------------------------------------
(***************************************************************************)
(* The gateway, which is outside: it decides once on a voyage and answers  *)
(* as it likes, also with an error after having decided.                   *)
(***************************************************************************)
Answer(status, body, d) == [status |-> status, body |-> body, decision |-> d]

Reply(c, attempt, a) ==
  answer' = IF call[c].step = "wait" /\ call[c].attempt = attempt
              THEN [answer EXCEPT ![c] = a] ELSE answer

Decide(c, attempt, d) ==
  /\ decided[call[c].voyage] = Undecided
  /\ decided' = [decided EXCEPT ![call[c].voyage] = [decision |-> d, by |-> c]]
  /\ \/ Reply(c, attempt, Answer("200", "complete", d))
     \/ Reply(c, attempt, Answer("200", "garbled", None))
     \/ Reply(c, attempt, Answer("200", "incomplete", None))

Repeated(c, attempt) ==
  /\ decided[call[c].voyage] # Undecided
  /\ \/ Reply(c, attempt, Answer("409", "complete", None))
     \/ Reply(c, attempt,
              Answer("200", "complete", decided[call[c].voyage].decision))
  /\ UNCHANGED decided

Arrive(c, attempt) ==
  /\ <<c, attempt>> \in wire
  /\ wire' = wire \ {<<c, attempt>>}
  /\ \/ \E d \in Decisions : Decide(c, attempt, d)
     \/ Repeated(c, attempt)
     \/ /\ \E status \in {"403", "500"} :
             Reply(c, attempt, Answer(status, "garbled", None))
        /\ UNCHANGED decided
  /\ UNCHANGED <<policy, done, call>>

-----------------------------------------------------------------------------
Init ==
  /\ policy \in {Effective(p) : p \in Policies}
  /\ done = {}
  /\ call = [c \in Calls |-> Idle]
  /\ wire = {}
  /\ answer = [c \in Calls |-> NoAnswer]
  /\ decided = [v \in Declared |-> Undecided]

\* What the calling goroutine does by itself once it has begun; a connection
\* need not break.
Step(c) == Send(c) \/ Receive(c) \/ Timeout(c) \/ Wake(c) \/ Cancelled(c)

Next ==
  \E c \in Calls :
    \/ Refuse(c)
    \/ \E v \in Declared : Submit(c, v)
    \/ Step(c)
    \/ Break(c)
    \/ CancelContext(c)
    \/ \E attempt \in 1 .. policy.attempts : Arrive(c, attempt)

\* Timers fire and a goroutine that can run does: an attempt ends at the
\* latest with its timeout.
Spec == Init /\ [][Next]_vars /\ \A c \in Calls : WF_vars(Step(c))

-----------------------------------------------------------------------------
Returned(c, results) == call[c].step = "returned" /\ call[c].result \in results

\* The requests of a call that were ever sent: none twice.
Attempts(c) == IF call[c] = Idle THEN 0 ELSE call[c].attempt

\* What a result tells about the gateway, with answers lost, late requests and
\* other calls for the same voyage: a decision is the one the gateway has
\* made; a refusal before the first request leaves nothing behind; and a
\* conflict means that there is a decision, by another call if it was the
\* answer to the first attempt.  Only a submission that was retried can be
\* told of a conflict with itself.
ResultMeans ==
  \A c \in Calls :
    LET v == call[c].voyage IN
    /\ Returned(c, Decisions \cup {None}) =>
         decided[v] # Undecided /\ decided[v].decision = call[c].result
    /\ Returned(c, {"refused"}) => \A m \in wire : m[1] # c
    /\ Returned(c, {"conflict"}) =>
         /\ decided[v] # Undecided
         /\ call[c].attempt = 1 => decided[v].by # c

\* The gateway hears of a submission at most as often as the policy allows,
\* and nothing more of it goes out once its context is done or the call has
\* returned, although the select of the pause may choose the timer.
StopsSending ==
  [][\A c \in Calls :
       /\ Attempts(c)' <= policy.attempts
       /\ c \in done \/ call[c].step = "returned" =>
            \A m \in wire' \ wire : m[1] # c]_vars

\* For as long as the doubled backoff fits into a Duration the pauses of a
\* call are positive and never shrink below the policy's own first pause, and
\* no pause is ever longer than the maximum.  Beyond, the shift wraps around
\* and the next attempt may follow at once.
Fits(attempt) == policy.backoff * 2 ^ (attempt - 1) < 2 ^ (Width - 1)
PausesBounded ==
  \A c \in Calls : call[c].step = "pause" =>
    /\ call[c].pause <= policy.maximum
    /\ Fits(call[c].attempt) =>
         call[c].pause >= IF policy.backoff < policy.maximum
                            THEN policy.backoff ELSE policy.maximum

\* Every submission returns: the attempts are bounded and none waits for the
\* gateway for ever.
SubmissionReturns ==
  \A c \in Calls : call[c].step = "send" ~> call[c].step = "returned"
=============================================================================
