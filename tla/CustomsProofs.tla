--------------------------- MODULE CustomsProofs ---------------------------
(***************************************************************************)
(* What the result of a submission means and when it stops sending, for    *)
(* any calls, voyages and retry policy.                                    *)
(***************************************************************************)
EXTENDS Customs, FiniteSetTheorems, TLAPS

Pauses == {Pause(attempt) : attempt \in Nat} \cup {NoPause}
Results == Decisions \cup Errors
Live ==
  [step : {"send", "wait", "pause"}, voyage : Declared, attempt : Nat,
   pause : Pauses]
Over ==
  [step : {"returned"}, voyage : Declared \cup {None}, attempt : Nat,
   result : Results]
Answers ==
  [status : {"200", "409", "403", "500"},
   body : {"complete", "garbled", "incomplete"}, decision : Decisions \cup {None}]
Verdicts == [decision : Decisions, by : Calls]

CustomsTypeOK ==
  /\ policy.attempts \in Nat \ {0}
  /\ call \in [Calls -> Live \cup Over \cup {Idle}]
  /\ wire \subseteq Calls \X Nat
  /\ answer \in [Calls -> Answers \cup {NoAnswer}]
  /\ decided \in [Declared -> Verdicts \cup {Undecided}]

(***************************************************************************)
(* The inductive invariant.  A request is on the wire or has been          *)
(* answered, never both, and an answer is what the gateway knows.  What a  *)
(* call may be told of its own decision depends on how often it asked.     *)
(***************************************************************************)
Settled(v) == decided[v] # Undecided
DecidedBy(c) == \E v \in Declared : Settled(v) /\ decided[v].by = c

Sent(c, k) ==
  /\ call[c] # Idle
  /\ call[c].voyage \in Declared
  /\ k <= call[c].attempt
  /\ k = call[c].attempt => call[c].step # "send"
  /\ ~Returned(c, {"refused"})
WireInv == \A c \in Calls, k \in Nat : <<c, k>> \in wire => Sent(c, k)

AttemptInv ==
  \A c \in Calls : call[c] # Idle =>
    /\ call[c].attempt <= policy.attempts
    /\ Active(c) => call[c].attempt >= 1
    /\ call[c].step = "pause" => call[c].attempt < policy.attempts

Meant(c) ==
  answer[c] # NoAnswer =>
    LET v == call[c].voyage IN
    /\ call[c].step = "wait"
    /\ <<c, call[c].attempt>> \notin wire
    /\ Outcome(answer[c]) = "decision" =>
         Settled(v) /\ answer[c].decision = decided[v].decision
    /\ Outcome(answer[c]) = "conflict" => Settled(v)
AnswerInv == \A c \in Calls : Meant(c)

Told(c) ==
  LET v == call[c].voyage IN
  /\ Returned(c, Decisions) =>
       v \in Declared /\ Settled(v) /\ decided[v].decision = call[c].result
  /\ Returned(c, {"conflict"}) =>
       v \in Declared /\ Settled(v) /\ <<c, call[c].attempt>> \notin wire
ResultInv == \A c \in Calls : Told(c)

Own(c) ==
  DecidedBy(c) =>
    /\ call[c] # Idle
    /\ call[c].attempt = 1 =>
         /\ call[c].step # "send"
         /\ <<c, 1>> \notin wire
         /\ answer[c].status # "409"
         /\ ~Returned(c, {"conflict"})
OwnInv == \A c \in Calls : Own(c)

CustomsInv ==
  CustomsTypeOK /\ WireInv /\ AttemptInv /\ AnswerInv /\ ResultInv /\ OwnInv

-----------------------------------------------------------------------------
\* How far a call has got decides which fields it has.
LEMMA CallFields ==
  ASSUME CustomsTypeOK, NEW c \in Calls
  PROVE  /\ call[c].step \in {"idle", "send", "wait", "pause", "returned"}
         /\ call[c].step = "idle" <=> call[c] = Idle
         /\ Active(c) <=> call[c] \in Live
         /\ Active(c) => call[c].voyage \in Declared
         /\ call[c].step = "returned" => call[c] \in Over /\ call[c].result \in Results
         /\ call[c] # Idle => call[c].attempt \in Nat
<1>1. call[c] \in Live \cup Over \cup {Idle}
  BY DEF CustomsTypeOK
<1> QED
  BY <1>1 DEF Live, Over, Idle, Active

\* An answer of the gateway.
LEMMA AnswerFields ==
  ASSUME NEW status, NEW body, NEW d
  PROVE  /\ Answer(status, body, d).status = status
         /\ Answer(status, body, d).body = body
         /\ Answer(status, body, d).decision = d
BY DEF Answer

\* No answer is not an answer, and says nothing.
LEMMA NoAnswerFields ==
  NoAnswer.status = None /\ NoAnswer \notin Answers /\ None # "409"
<1>1. NoAnswer.status = None /\ None # "409"
  BY DEF NoAnswer, None
<1>2. ASSUME NEW a \in Answers
      PROVE  a # NoAnswer
  <2>1. a.status \in {"200", "409", "403", "500"}
    BY DEF Answers
  <2> QED
    BY <1>1, <2>1 DEF None
<1> QED
  BY <1>1, <1>2

\* A verdict is not the lack of one.
LEMMA VerdictSettles ==
  ASSUME NEW a \in Verdicts
  PROVE  a # Undecided /\ a.decision \in Decisions
<1>1. a.decision \in Decisions /\ Undecided.decision = None
  BY DEF Verdicts, Undecided
<1> QED
  BY <1>1, DecisionsAssumption

\* Steps of the loop that leave the gateway and the wire alone and settle one
\* call, which returns or pauses without an answer.
LEMMA CallSettles ==
  ASSUME CustomsInv, NEW c \in Calls, NEW new \in Live \cup Over, call[c] \in Live,
         call' = [call EXCEPT ![c] = new], answer' = [answer EXCEPT ![c] = NoAnswer],
         UNCHANGED <<policy, wire, decided>>,
         new.voyage = call[c].voyage, new.attempt = call[c].attempt,
         \/ /\ new \in Live /\ new.step = "pause"
            /\ call[c].attempt < policy.attempts
         \/ /\ new \in Over /\ new.result # "refused"
            /\ new.result \in Decisions =>
                 /\ Settled(call[c].voyage)
                 /\ decided[call[c].voyage].decision = new.result
            /\ new.result = "conflict" =>
                 /\ Settled(call[c].voyage) /\ <<c, call[c].attempt>> \notin wire
                 /\ DecidedBy(c) => call[c].attempt # 1
  PROVE  CustomsInv'
<1>1. /\ call'[c] = new /\ \A x \in Calls \ {c} : call'[x] = call[x]
      /\ answer'[c] = NoAnswer /\ \A x \in Calls \ {c} : answer'[x] = answer[x]
  BY DEF CustomsInv, CustomsTypeOK
<1>2. CustomsTypeOK'
  BY <1>1 DEF CustomsInv, CustomsTypeOK, Live, Pauses, Pause
<1>3. new.step \in {"pause", "returned"} /\ new # Idle
  BY DEF Live, Over, Idle
<1>4. call[c] # Idle /\ call[c].voyage \in Declared /\ Active(c)
  BY DEF Live, Idle, Active
<1>5. WireInv'
  <2> SUFFICES ASSUME NEW x \in Calls, NEW k \in Nat, <<x, k>> \in wire
               PROVE  Sent(x, k)'
    BY DEF WireInv
  <2>1. Sent(x, k)
    BY DEF CustomsInv, WireInv
  <2>2. CASE x = c
    BY <1>1, <1>3, <1>4, <2>1, <2>2 DEF Sent, Returned, Live, Over
  <2>3. CASE x # c
    BY <1>1, <2>1, <2>3 DEF Sent, Returned
  <2> QED
    BY <2>2, <2>3
<1>6. AttemptInv'
  <2>1. call[c].attempt <= policy.attempts /\ call[c].attempt >= 1
    BY <1>4 DEF CustomsInv, AttemptInv
  <2> QED
    BY <1>1, <1>3, <2>1 DEF CustomsInv, AttemptInv, Active, Live, Over
<1>7. AnswerInv'
  <2> SUFFICES ASSUME NEW x \in Calls
               PROVE  Meant(x)'
    BY DEF AnswerInv
  <2>1. CASE x = c
    BY <1>1, <2>1 DEF Meant
  <2>2. CASE x # c
    BY <1>1, <2>2 DEF CustomsInv, AnswerInv, Meant, Settled, Outcome
  <2> QED
    BY <2>1, <2>2
<1>8. ResultInv'
  <2> SUFFICES ASSUME NEW x \in Calls
               PROVE  Told(x)'
    BY DEF ResultInv
  <2>1. CASE x = c
    BY <1>1, <1>3, <1>4, <2>1 DEF Told, Returned, Settled, Live, Over
  <2>2. CASE x # c
    BY <1>1, <2>2 DEF CustomsInv, ResultInv, Told, Returned, Settled
  <2> QED
    BY <2>1, <2>2
<1>9. OwnInv'
  <2> SUFFICES ASSUME NEW x \in Calls, DecidedBy(x)'
               PROVE  Own(x)'
    BY DEF OwnInv, Own
  <2>1. DecidedBy(x)
    BY DEF DecidedBy, Settled
  <2>2. Own(x)
    BY DEF CustomsInv, OwnInv
  <2>3. CASE x = c
    BY <1>1, <1>3, <2>1, <2>2, <2>3, NoAnswerFields DEF Own, Returned, Live, Over
  <2>4. CASE x # c
    BY <1>1, <2>1, <2>2, <2>4 DEF Own, Returned
  <2> QED
    BY <2>3, <2>4
<1> QED
  BY <1>2, <1>5, <1>6, <1>7, <1>8, <1>9 DEF CustomsInv

\* A call that returns: what it may return depends on what it was told.
LEMMA ReturnSettles ==
  ASSUME CustomsInv, NEW c \in Calls, Active(c), NEW result \in Results,
         Return(c, result), UNCHANGED <<policy, wire, decided>>,
         result # "refused",
         result \in Decisions =>
           /\ Settled(call[c].voyage)
           /\ decided[call[c].voyage].decision = result,
         result = "conflict" =>
           /\ Settled(call[c].voyage) /\ <<c, call[c].attempt>> \notin wire
           /\ DecidedBy(c) => call[c].attempt # 1
  PROVE  CustomsInv'
<1> DEFINE new == [step |-> "returned", voyage |-> call[c].voyage,
                   attempt |-> call[c].attempt, result |-> result]
<1>1. call[c] \in Live
  BY CallFields DEF CustomsInv
<1>2. /\ new.voyage = call[c].voyage /\ new.attempt = call[c].attempt
      /\ new.result = result
  OBVIOUS
<1>3. new \in Over
  BY <1>1 DEF Live, Over
<1>4. /\ call' = [call EXCEPT ![c] = new]
      /\ answer' = [answer EXCEPT ![c] = NoAnswer]
  BY DEF Return
<1> HIDE DEF new
<1> QED
  BY <1>1, <1>2, <1>3, <1>4, CallSettles

\* The fields of a call that pauses.
LEMMA PauseFields ==
  ASSUME NEW x \in Live, NEW p
  PROVE  [x EXCEPT !.step = "pause", !.pause = p]
           = [step |-> "pause", voyage |-> x.voyage, attempt |-> x.attempt, pause |-> p]
<1>1. DOMAIN x = {"step", "voyage", "attempt", "pause"}
  BY DEF Live
<1>2. [x EXCEPT !.step = "pause", !.pause = p]
        = [f \in {"step", "voyage", "attempt", "pause"} |->
             IF f = "step" THEN "pause" ELSE IF f = "pause" THEN p ELSE x[f]]
  BY <1>1
<1> QED
  BY <1>2

\* An attempt that failed.
LEMMA FailSettles ==
  ASSUME CustomsInv, NEW c \in Calls, call[c].step = "wait",
         NEW result \in Errors \ {"refused"},
         Fail(c, result), UNCHANGED <<policy, wire, decided>>,
         result = "conflict" =>
           /\ Settled(call[c].voyage) /\ <<c, call[c].attempt>> \notin wire
           /\ DecidedBy(c) => call[c].attempt # 1
  PROVE  CustomsInv'
<1>1. CASE Retryable(result) /\ ~LastAttempt(c)
  <2> DEFINE new == [step |-> "pause", voyage |-> call[c].voyage,
                     attempt |-> call[c].attempt, pause |-> Pause(call[c].attempt)]
  <2>1. Active(c) /\ call[c] \in Live /\ call[c] # Idle
    BY CallFields DEF CustomsInv, Active, Live, Idle
  <2>2. /\ new.voyage = call[c].voyage /\ new.attempt = call[c].attempt
        /\ new.step = "pause"
    OBVIOUS
  <2>3. new \in Live
    BY <2>1 DEF Live, Pauses
  <2>4. new = [call[c] EXCEPT !.step = "pause", !.pause = Pause(call[c].attempt)]
    BY <2>1, PauseFields
  <2>5. /\ call' = [call EXCEPT ![c] = new]
        /\ answer' = [answer EXCEPT ![c] = NoAnswer]
    BY <1>1, <2>4 DEF Fail
  <2>6. call[c].attempt < policy.attempts
    <3>1. call[c].attempt \in Nat /\ policy.attempts \in Nat
      BY <2>1 DEF Live, CustomsInv, CustomsTypeOK
    <3> QED
      BY <1>1, <2>1, <3>1 DEF CustomsInv, AttemptInv, LastAttempt
  <2> HIDE DEF new
  <2> QED
    BY <2>1, <2>2, <2>3, <2>5, <2>6, CallSettles
<1>2. CASE ~(Retryable(result) /\ ~LastAttempt(c))
  <2>1. Return(c, result) /\ result \in Results /\ result \notin Decisions
    BY <1>2, DecisionsAssumption DEF Fail, Results
  <2>2. Active(c)
    BY DEF Active
  <2> QED
    BY <2>1, <2>2, ReturnSettles
<1> QED
  BY <1>1, <1>2

\* Receive: a decision is handed on, any other answer fails the attempt.
LEMMA ReceiveStep ==
  ASSUME CustomsInv, NEW c \in Calls, Receive(c)
  PROVE  CustomsInv'
<1> DEFINE outcome == Outcome(answer[c])
<1>1. /\ call[c].step = "wait" /\ Active(c) /\ answer[c] # NoAnswer
      /\ UNCHANGED <<policy, wire, decided>>
      /\ outcome = "decision" => Return(c, answer[c].decision)
      /\ outcome # "decision" => Fail(c, outcome)
  BY DEF Receive, Active
<1>2. Meant(c) /\ Own(c) /\ answer[c] \in Answers
  BY <1>1 DEF CustomsInv, AnswerInv, OwnInv, CustomsTypeOK
<1>3. call[c].voyage \in Declared
  BY <1>1, CallFields DEF CustomsInv
<1>4. outcome \in {"conflict", "forbidden", "decision", "invalid", "unavailable"}
  BY DEF Outcome
<1>5. CASE outcome = "decision"
  <2>1. /\ Settled(call[c].voyage)
        /\ answer[c].decision = decided[call[c].voyage].decision
    BY <1>1, <1>2, <1>5 DEF Meant
  <2>2. decided[call[c].voyage] \in Verdicts
    BY <1>3, <2>1 DEF CustomsInv, CustomsTypeOK, Settled
  <2>3. answer[c].decision \in Decisions
    BY <2>1, <2>2, VerdictSettles
  <2>4. answer[c].decision \in Results /\ answer[c].decision \notin {"refused", "conflict"}
    BY <2>3, DecisionsAssumption DEF Results, Errors
  <2> QED
    BY <1>1, <1>5, <2>1, <2>4, ReturnSettles
<1>6. CASE outcome # "decision"
  <2>1. outcome \in Errors \ {"refused"}
    BY <1>4, <1>6 DEF Errors
  <2>2. outcome = "conflict" => answer[c].status = "409"
    BY DEF Outcome
  <2>3. outcome = "conflict" =>
          /\ Settled(call[c].voyage) /\ <<c, call[c].attempt>> \notin wire
          /\ DecidedBy(c) => call[c].attempt # 1
    BY <1>1, <1>2, <2>2 DEF Meant, Own
  <2> HIDE DEF outcome
  <2> QED
    BY <1>1, <1>6, <2>1, <2>3, FailSettles
<1> QED
  BY <1>5, <1>6

\* Break, Timeout and Cancelled end an attempt without an answer.
LEMMA EndStep ==
  ASSUME CustomsInv, NEW c \in Calls, Break(c) \/ Timeout(c) \/ Cancelled(c)
  PROVE  CustomsInv'
<1>1. {"unavailable", "timeout"} \subseteq Errors \ {"refused", "conflict"}
  BY DEF Errors
<1>2. CASE Break(c)
  BY <1>1, <1>2, FailSettles DEF Break
<1>3. CASE Timeout(c)
  BY <1>1, <1>3, FailSettles DEF Timeout
<1>4. CASE Cancelled(c)
  <2>1. "cancelled" \in Results /\ "cancelled" \notin Decisions
    BY DecisionsAssumption DEF Errors, Results
  <2> QED
    BY <1>4, <2>1, ReturnSettles DEF Cancelled
<1> QED
  BY <1>2, <1>3, <1>4

-----------------------------------------------------------------------------
\* A call that has not begun left nothing behind.
LEMMA IdleIsNew ==
  ASSUME CustomsInv, NEW c \in Calls, call[c] = Idle
  PROVE  /\ answer[c] = NoAnswer /\ ~DecidedBy(c)
         /\ \A k \in Nat : <<c, k>> \notin wire
<1>1. call[c].step # "wait"
  BY DEF Idle
<1>2. answer[c] = NoAnswer
  BY <1>1 DEF CustomsInv, AnswerInv, Meant
<1>3. ~DecidedBy(c)
  BY DEF CustomsInv, OwnInv, Own
<1>4. \A k \in Nat : <<c, k>> \notin wire
  BY DEF CustomsInv, WireInv, Sent
<1> QED
  BY <1>2, <1>3, <1>4

\* Refuse and Submit: a call begins, and may be over at once.
LEMMA BeginStep ==
  ASSUME CustomsInv, NEW c \in Calls, Refuse(c) \/ \E v \in Declared : Submit(c, v)
  PROVE  CustomsInv'
<1>1. PICK new \in Live \cup Over :
        /\ call' = [call EXCEPT ![c] = new]
        /\ \/ new \in Live /\ new.step = "send" /\ new.attempt = 1
           \/ new \in Over /\ new.attempt = 0 /\ new.result = "refused"
  <2>1. CASE Refuse(c)
    <3> DEFINE over == [step |-> "returned", voyage |-> None,
                        attempt |-> 0, result |-> "refused"]
    <3>1. over \in Over /\ over.attempt = 0 /\ over.result = "refused"
      BY DEF Over, Results, Errors
    <3>2. call' = [call EXCEPT ![c] = over]
      BY <2>1 DEF Refuse
    <3> HIDE DEF over
    <3> QED
      BY <3>1, <3>2
  <2>2. ASSUME NEW v \in Declared, Submit(c, v)
        PROVE  \E new \in Live :
                 /\ call' = [call EXCEPT ![c] = new]
                 /\ new.step = "send" /\ new.attempt = 1
    <3> DEFINE live == [step |-> "send", voyage |-> v, attempt |-> 1, pause |-> NoPause]
    <3>1. live \in Live /\ live.step = "send" /\ live.attempt = 1
      BY DEF Live, Pauses
    <3>2. call' = [call EXCEPT ![c] = live]
      BY <2>2 DEF Submit
    <3> HIDE DEF live
    <3> QED
      BY <3>1, <3>2
  <2> QED
    BY <2>1, <2>2
<1>2. call[c] = Idle /\ UNCHANGED <<policy, wire, answer, decided>>
  BY DEF Refuse, Submit
<1>3. /\ answer[c] = NoAnswer /\ ~DecidedBy(c)
      /\ \A k \in Nat : <<c, k>> \notin wire
  BY <1>2, IdleIsNew
<1>4. call'[c] = new /\ \A x \in Calls \ {c} : call'[x] = call[x]
  BY <1>1 DEF CustomsInv, CustomsTypeOK
<1>5. CustomsTypeOK'
  BY <1>1, <1>2 DEF CustomsInv, CustomsTypeOK, Live, Pauses, Pause
<1>6. WireInv'
  BY <1>2, <1>3, <1>4 DEF CustomsInv, WireInv, Sent, Returned
<1>7. AttemptInv'
  <2>1. policy.attempts \in Nat \ {0}
    BY DEF CustomsInv, CustomsTypeOK
  <2>2. new.step \in {"send", "returned"} /\ new.attempt <= policy.attempts
        /\ (new.step = "send" => new.attempt = 1)
    BY <1>1, <2>1 DEF Live, Over
  <2> QED
    BY <1>2, <1>4, <2>1, <2>2 DEF CustomsInv, AttemptInv, Active
<1>8. AnswerInv'
  <2> SUFFICES ASSUME NEW x \in Calls
               PROVE  Meant(x)'
    BY DEF AnswerInv
  <2>1. CASE x = c
    BY <1>2, <1>3, <2>1 DEF Meant
  <2>2. CASE x # c
    BY <1>2, <1>4, <2>2 DEF CustomsInv, AnswerInv, Meant, Settled, Outcome
  <2> QED
    BY <2>1, <2>2
<1>9. ResultInv'
  <2> SUFFICES ASSUME NEW x \in Calls
               PROVE  Told(x)'
    BY DEF ResultInv
  <2>1. CASE x = c
    <3>1. "refused" \notin Decisions
      BY DecisionsAssumption DEF Errors
    <3>2. new.step = "send" \/ new.result = "refused"
      BY <1>1
    <3> QED
      BY <1>4, <2>1, <3>1, <3>2 DEF Told, Returned
  <2>2. CASE x # c
    BY <1>2, <1>4, <2>2 DEF CustomsInv, ResultInv, Told, Returned, Settled
  <2> QED
    BY <2>1, <2>2
<1>10. OwnInv'
  <2> SUFFICES ASSUME NEW x \in Calls, DecidedBy(x)
               PROVE  Own(x)'
    BY <1>2 DEF OwnInv, Own, DecidedBy, Settled
  <2>1. x # c
    BY <1>3
  <2> QED
    BY <1>2, <1>4, <2>1 DEF CustomsInv, OwnInv, Own, Returned
<1> QED
  BY <1>5, <1>6, <1>7, <1>8, <1>9, <1>10 DEF CustomsInv

\* Send: the request goes onto the wire before any answer to it.
LEMMA SendStep ==
  ASSUME CustomsInv, NEW c \in Calls, Send(c)
  PROVE  CustomsInv'
<1> DEFINE new == [call[c] EXCEPT !.step = "wait"]
<1>1. /\ call[c].step = "send" /\ call[c] \in Live /\ Active(c) /\ call[c] # Idle
      /\ call[c].attempt \in Nat
  BY CallFields DEF CustomsInv, Send, Active, Live, Idle
<1>2. /\ new \in Live /\ new.step = "wait"
      /\ new.voyage = call[c].voyage /\ new.attempt = call[c].attempt
  BY <1>1 DEF Live
<1>3. call' = [call EXCEPT ![c] = new]
  BY DEF Send
<1>4. /\ wire' = wire \cup {<<c, call[c].attempt>>}
      /\ UNCHANGED <<policy, answer, decided>>
  BY DEF Send
<1>5. new # Idle /\ new.voyage \in Declared
  BY <1>2 DEF Live, Idle
<1> HIDE DEF new
<1>6. call'[c] = new /\ \A x \in Calls \ {c} : call'[x] = call[x]
  BY <1>3 DEF CustomsInv, CustomsTypeOK
<1>7. answer[c] = NoAnswer
  BY <1>1 DEF CustomsInv, AnswerInv, Meant
<1>8. CustomsTypeOK'
  BY <1>1, <1>2, <1>3, <1>4 DEF CustomsInv, CustomsTypeOK, Live, Pauses, Pause
<1>9. WireInv'
  <2> SUFFICES ASSUME NEW x \in Calls, NEW k \in Nat, <<x, k>> \in wire'
               PROVE  Sent(x, k)'
    BY DEF WireInv
  <2>1. <<x, k>> \in wire => Sent(x, k)
    BY DEF CustomsInv, WireInv
  <2>2. CASE x = c
    BY <1>1, <1>2, <1>4, <1>5, <1>6, <2>1, <2>2 DEF Sent, Returned
  <2>3. CASE x # c
    BY <1>4, <1>6, <2>1, <2>3 DEF Sent, Returned
  <2> QED
    BY <2>2, <2>3
<1>10. AttemptInv'
  BY <1>1, <1>2, <1>4, <1>6 DEF CustomsInv, AttemptInv, Active
<1>11. AnswerInv'
  <2> SUFFICES ASSUME NEW x \in Calls
               PROVE  Meant(x)'
    BY DEF AnswerInv
  <2>1. CASE x = c
    BY <1>4, <1>7, <2>1 DEF Meant
  <2>2. CASE x # c
    BY <1>4, <1>6, <2>2 DEF CustomsInv, AnswerInv, Meant, Settled, Outcome
  <2> QED
    BY <2>1, <2>2
<1>12. ResultInv'
  <2> SUFFICES ASSUME NEW x \in Calls
               PROVE  Told(x)'
    BY DEF ResultInv
  <2>1. CASE x = c
    BY <1>2, <1>6, <2>1 DEF Told, Returned
  <2>2. CASE x # c
    BY <1>4, <1>6, <2>2 DEF CustomsInv, ResultInv, Told, Returned, Settled
  <2> QED
    BY <2>1, <2>2
<1>13. OwnInv'
  <2> SUFFICES ASSUME NEW x \in Calls, DecidedBy(x)
               PROVE  Own(x)'
    BY <1>4 DEF OwnInv, Own, DecidedBy, Settled
  <2>1. Own(x)
    BY DEF CustomsInv, OwnInv
  <2>2. CASE x = c
    BY <1>1, <1>2, <1>5, <1>6, <2>1, <2>2 DEF Own
  <2>3. CASE x # c
    BY <1>4, <1>6, <2>1, <2>3 DEF Own, Returned
  <2> QED
    BY <2>2, <2>3
<1> QED
  BY <1>8, <1>9, <1>10, <1>11, <1>12, <1>13 DEF CustomsInv

\* The fields of a call that tries again.
LEMMA WakeFields ==
  ASSUME NEW x \in Live
  PROVE  [x EXCEPT !.step = "send", !.attempt = @ + 1]
           = [step |-> "send", voyage |-> x.voyage, attempt |-> x.attempt + 1,
              pause |-> x.pause]
<1>1. DOMAIN x = {"step", "voyage", "attempt", "pause"}
  BY DEF Live
<1>2. [x EXCEPT !.step = "send", !.attempt = @ + 1]
        = [f \in {"step", "voyage", "attempt", "pause"} |->
             IF f = "step" THEN "send"
             ELSE IF f = "attempt" THEN x.attempt + 1 ELSE x[f]]
  BY <1>1
<1> QED
  BY <1>2

\* Wake: the next attempt begins, and there is one left.
LEMMA WakeStep ==
  ASSUME CustomsInv, NEW c \in Calls, Wake(c)
  PROVE  CustomsInv'
<1> DEFINE new == [step |-> "send", voyage |-> call[c].voyage,
                   attempt |-> call[c].attempt + 1, pause |-> call[c].pause]
<1>1. /\ call[c].step = "pause" /\ call[c] \in Live /\ Active(c) /\ call[c] # Idle
      /\ call[c].attempt \in Nat
  BY CallFields DEF CustomsInv, Wake, Active, Live, Idle
<1>2. /\ new \in Live /\ new.step = "send"
      /\ new.voyage = call[c].voyage /\ new.attempt = call[c].attempt + 1
  BY <1>1 DEF Live
<1>3. call' = [call EXCEPT ![c] = new] /\ UNCHANGED <<policy, wire, answer, decided>>
  <2>1. [call[c] EXCEPT !.step = "send", !.attempt = @ + 1] = new
    BY <1>1, WakeFields
  <2> QED
    BY <2>1 DEF Wake
<1>4. new # Idle /\ new.voyage \in Declared
  BY <1>2 DEF Live, Idle
<1> HIDE DEF new
<1>5. call'[c] = new /\ \A x \in Calls \ {c} : call'[x] = call[x]
  BY <1>3 DEF CustomsInv, CustomsTypeOK
<1>6. answer[c] = NoAnswer
  BY <1>1 DEF CustomsInv, AnswerInv, Meant
<1>7. /\ call[c].attempt >= 1 /\ call[c].attempt < policy.attempts
      /\ policy.attempts \in Nat
  BY <1>1 DEF CustomsInv, AttemptInv, CustomsTypeOK
<1>8. CustomsTypeOK'
  BY <1>2, <1>3 DEF CustomsInv, CustomsTypeOK, Live, Pauses, Pause
<1>9. WireInv'
  <2> SUFFICES ASSUME NEW x \in Calls, NEW k \in Nat, <<x, k>> \in wire
               PROVE  Sent(x, k)'
    BY <1>3 DEF WireInv
  <2>1. Sent(x, k)
    BY DEF CustomsInv, WireInv
  <2>2. CASE x = c
    BY <1>1, <1>2, <1>4, <1>5, <2>1, <2>2 DEF Sent, Returned
  <2>3. CASE x # c
    BY <1>5, <2>1, <2>3 DEF Sent, Returned
  <2> QED
    BY <2>2, <2>3
<1>10. AttemptInv'
  BY <1>1, <1>2, <1>3, <1>5, <1>7 DEF CustomsInv, AttemptInv, Active
<1>11. AnswerInv'
  <2> SUFFICES ASSUME NEW x \in Calls
               PROVE  Meant(x)'
    BY DEF AnswerInv
  <2>1. CASE x = c
    BY <1>3, <1>6, <2>1 DEF Meant
  <2>2. CASE x # c
    BY <1>3, <1>5, <2>2 DEF CustomsInv, AnswerInv, Meant, Settled, Outcome
  <2> QED
    BY <2>1, <2>2
<1>12. ResultInv'
  <2> SUFFICES ASSUME NEW x \in Calls
               PROVE  Told(x)'
    BY DEF ResultInv
  <2>1. CASE x = c
    BY <1>2, <1>5, <2>1 DEF Told, Returned
  <2>2. CASE x # c
    BY <1>3, <1>5, <2>2 DEF CustomsInv, ResultInv, Told, Returned, Settled
  <2> QED
    BY <2>1, <2>2
<1>13. OwnInv'
  <2> SUFFICES ASSUME NEW x \in Calls, DecidedBy(x)
               PROVE  Own(x)'
    BY <1>3 DEF OwnInv, Own, DecidedBy, Settled
  <2>1. Own(x)
    BY DEF CustomsInv, OwnInv
  <2>2. CASE x = c
    BY <1>1, <1>2, <1>4, <1>5, <1>7, <2>2 DEF Own
  <2>3. CASE x # c
    BY <1>3, <1>5, <2>1, <2>3 DEF Own, Returned
  <2> QED
    BY <2>2, <2>3
<1> QED
  BY <1>8, <1>9, <1>10, <1>11, <1>12, <1>13 DEF CustomsInv

-----------------------------------------------------------------------------
Hears(c, k) == call[c].step = "wait" /\ call[c].attempt = k

\* Arrive: the gateway decides at most once on a voyage, and its answer is
\* heard by a call that waits for this very request.
LEMMA ArriveMeans ==
  ASSUME CustomsInv, NEW c \in Calls, NEW k \in Nat, Arrive(c, k)
  PROVE  LET v == call[c].voyage IN
         /\ v \in Declared
         /\ decided' \in [Declared -> Verdicts \cup {Undecided}]
         /\ \A u \in Declared : Settled(u) => decided'[u] = decided[u]
         /\ \A u \in Declared :
              decided'[u] # decided[u] => u = v /\ decided'[u].by = c
         /\ \E a \in Answers :
              /\ answer' = IF Hears(c, k) THEN [answer EXCEPT ![c] = a] ELSE answer
              /\ Outcome(a) = "decision" =>
                   Settled(v)' /\ a.decision = decided'[v].decision
              /\ a.status = "409" => Settled(v) /\ UNCHANGED decided
<1> DEFINE v == call[c].voyage
<1>1. v \in Declared
  BY DEF CustomsInv, WireInv, Sent, Arrive
<1>2. decided \in [Declared -> Verdicts \cup {Undecided}]
  BY DEF CustomsInv, CustomsTypeOK
<1>3. ASSUME NEW status \in {"200", "409", "403", "500"},
             NEW body \in {"complete", "garbled", "incomplete"},
             NEW d \in Decisions \cup {None}
      PROVE  Answer(status, body, d) \in Answers
  BY DEF Answer, Answers
<1>4. ASSUME NEW status, NEW body \in {"garbled", "incomplete"}, NEW d
      PROVE  Outcome(Answer(status, body, d)) # "decision"
  BY AnswerFields DEF Outcome
<1>5. CASE \E d \in Decisions : Decide(c, k, d)
  <2>1. PICK d \in Decisions : Decide(c, k, d)
    BY <1>5
  <2> DEFINE verdict == [decision |-> d, by |-> c]
  <2>2. verdict \in Verdicts /\ verdict.decision = d /\ verdict.by = c
    BY DEF Verdicts
  <2>3. decided[v] = Undecided /\ decided' = [decided EXCEPT ![v] = verdict]
    BY <2>1 DEF Decide
  <2>4. PICK a \in Answers :
          /\ Reply(c, k, a) /\ a.status = "200"
          /\ Outcome(a) = "decision" => a.decision = d
    <3>1. CASE Reply(c, k, Answer("200", "complete", d))
      BY <1>3, <3>1, AnswerFields
    <3>2. CASE Reply(c, k, Answer("200", "garbled", None))
      BY <1>3, <1>4, <3>2, AnswerFields
    <3>3. CASE Reply(c, k, Answer("200", "incomplete", None))
      BY <1>3, <1>4, <3>3, AnswerFields
    <3> QED
      BY <2>1, <3>1, <3>2, <3>3 DEF Decide
  <2> HIDE DEF verdict
  <2>5. /\ decided'[v] = verdict /\ verdict # Undecided
        /\ \A u \in Declared \ {v} : decided'[u] = decided[u]
        /\ decided' \in [Declared -> Verdicts \cup {Undecided}]
    BY <1>1, <1>2, <2>2, <2>3, VerdictSettles
  <2>6. Settled(v)'
    BY <2>5 DEF Settled, Arrive
  <2> QED
    BY <1>1, <2>2, <2>3, <2>4, <2>5, <2>6 DEF Settled, Reply, Hears
<1>6. CASE Repeated(c, k)
  <2>1. Settled(v) /\ UNCHANGED decided /\ Settled(v)'
    BY <1>6 DEF Repeated, Settled, Arrive
  <2>2. decided[v].decision \in Decisions
    BY <1>1, <1>2, <2>1, VerdictSettles DEF Settled
  <2>3. PICK a \in Answers :
          /\ Reply(c, k, a)
          /\ Outcome(a) = "decision" => a.decision = decided[v].decision
    <3>1. CASE Reply(c, k, Answer("409", "complete", None))
      <4>1. Outcome(Answer("409", "complete", None)) # "decision"
        BY AnswerFields DEF Outcome
      <4> QED
        BY <1>3, <3>1, <4>1
    <3>2. CASE Reply(c, k, Answer("200", "complete", decided[v].decision))
      BY <1>3, <2>2, <3>2, AnswerFields
    <3> QED
      BY <1>6, <3>1, <3>2 DEF Repeated
  <2> QED
    BY <1>1, <1>2, <2>1, <2>3 DEF Reply, Hears
<1>7. CASE /\ \E status \in {"403", "500"} :
                Reply(c, k, Answer(status, "garbled", None))
           /\ UNCHANGED decided
  <2>1. PICK status \in {"403", "500"} : Reply(c, k, Answer(status, "garbled", None))
    BY <1>7
  <2>2. /\ Answer(status, "garbled", None) \in Answers
        /\ Outcome(Answer(status, "garbled", None)) # "decision"
        /\ Answer(status, "garbled", None).status # "409"
    BY <1>3, <1>4, AnswerFields
  <2> QED
    BY <1>1, <1>2, <1>7, <2>1, <2>2 DEF Reply, Hears
<1> QED
  BY <1>5, <1>6, <1>7 DEF Arrive

\* What the gateway then knows and says keeps the invariant.
LEMMA ArriveStep ==
  ASSUME CustomsInv, NEW c \in Calls, NEW k \in 1 .. policy.attempts, Arrive(c, k)
  PROVE  CustomsInv'
<1>0. k \in Nat /\ k >= 1
  BY DEF CustomsInv, CustomsTypeOK
<1>1. /\ <<c, k>> \in wire /\ wire' = wire \ {<<c, k>>}
      /\ UNCHANGED <<policy, call>>
  BY DEF Arrive
<1>2. Sent(c, k)
  BY <1>0, <1>1 DEF CustomsInv, WireInv
<1>3. /\ call[c].voyage \in Declared
      /\ decided' \in [Declared -> Verdicts \cup {Undecided}]
      /\ \A u \in Declared : Settled(u) => decided'[u] = decided[u]
      /\ \A u \in Declared : decided'[u] # decided[u] =>
           u = call[c].voyage /\ decided'[u].by = c
  BY <1>0, ArriveMeans
<1>4. PICK a \in Answers :
        /\ answer' = IF Hears(c, k) THEN [answer EXCEPT ![c] = a] ELSE answer
        /\ Outcome(a) = "decision" =>
             /\ Settled(call[c].voyage)'
             /\ a.decision = decided'[call[c].voyage].decision
        /\ a.status = "409" => Settled(call[c].voyage) /\ UNCHANGED decided
  BY <1>0, ArriveMeans
<1>5. /\ \A x \in Calls \ {c} : answer'[x] = answer[x]
      /\ Hears(c, k) => answer'[c] = a
      /\ ~Hears(c, k) => answer'[c] = answer[c]
      /\ answer' \in [Calls -> Answers \cup {NoAnswer}]
  BY <1>4 DEF CustomsInv, CustomsTypeOK
<1>6. \A u \in Declared : Settled(u) => Settled(u)' /\ decided'[u] = decided[u]
  BY <1>3 DEF Settled
<1>7. CustomsTypeOK'
  BY <1>1, <1>3, <1>5 DEF CustomsInv, CustomsTypeOK, Live, Pauses, Pause
<1>8. WireInv' /\ AttemptInv'
  BY <1>1 DEF CustomsInv, WireInv, Sent, Returned, AttemptInv, Active
<1>9. AnswerInv'
  <2> SUFFICES ASSUME NEW x \in Calls, answer'[x] # NoAnswer
               PROVE  Meant(x)'
    BY DEF AnswerInv, Meant
  <2>1. CASE x = c /\ Hears(c, k)
    <3>1. answer'[c] = a
      BY <1>5, <2>1
    <3>2. call'[c].step = "wait" /\ <<c, call'[c].attempt>> \notin wire'
      BY <1>1, <2>1 DEF Hears
    <3>3. Outcome(a) = "conflict" => a.status = "409"
      BY DEF Outcome
    <3>4. Outcome(a) = "conflict" => Settled(call[c].voyage)'
      BY <1>1, <1>3, <1>4, <1>6, <3>3 DEF Settled
    <3> QED
      BY <1>1, <1>4, <2>1, <3>1, <3>2, <3>4 DEF Meant, Outcome, Settled
  <2>2. CASE ~(x = c /\ Hears(c, k))
    <3>1. answer'[x] = answer[x] /\ Meant(x)
      BY <1>5, <2>2 DEF CustomsInv, AnswerInv
    <3>2. call[x].step = "wait" /\ call[x].voyage \in Declared
      BY <3>1, CallFields DEF CustomsInv, Meant, Active
    <3> QED
      BY <1>1, <1>6, <3>1, <3>2 DEF Meant, Outcome, Settled
  <2> QED
    BY <2>1, <2>2
<1>10. ResultInv'
  <2> SUFFICES ASSUME NEW x \in Calls
               PROVE  Told(x)'
    BY DEF ResultInv
  <2>1. Told(x)
    BY DEF CustomsInv, ResultInv
  <2> QED
    BY <1>1, <1>6, <2>1 DEF Told, Returned, Settled
<1>11. OwnInv'
  <2> SUFFICES ASSUME NEW x \in Calls, DecidedBy(x)'
               PROVE  Own(x)'
    BY DEF OwnInv, Own
  <2>1. CASE DecidedBy(x)
    <3>1. Own(x)
      BY DEF CustomsInv, OwnInv
    <3>2. x = c /\ Hears(c, k) => call[x].attempt # 1
      BY <1>1, <2>1, <3>1 DEF Own, Hears
    <3> QED
      BY <1>1, <1>5, <2>1, <3>1, <3>2 DEF Own, Returned
  <2>2. CASE ~DecidedBy(x)
    <3>1. PICK u \in Declared : Settled(u)' /\ decided'[u].by = x
      BY DEF DecidedBy
    <3>2. decided'[u] # decided[u]
      BY <2>2, <3>1 DEF DecidedBy, Settled
    <3>3. x = c
      BY <1>3, <3>1, <3>2
    <3>4. a.status # "409"
      BY <1>4, <3>2
    <3>5. ASSUME call[c].attempt = 1
          PROVE  /\ call[c].step # "send" /\ <<c, 1>> \notin wire'
                 /\ answer'[c].status # "409" /\ ~Returned(c, {"conflict"})
      <4>1. k = 1 /\ call[c].step # "send"
        BY <1>0, <1>2, <3>5 DEF Sent
      <4>2. answer'[c].status # "409"
        <5>1. ~Hears(c, k) => answer[c] = NoAnswer
          BY <3>5, <4>1 DEF Hears, CustomsInv, AnswerInv, Meant
        <5> QED
          BY <1>5, <3>4, <5>1, NoAnswerFields
      <4>3. ~Returned(c, {"conflict"})
        BY <1>1, <3>5, <4>1 DEF CustomsInv, ResultInv, Told
      <4> QED
        BY <1>1, <4>1, <4>2, <4>3
    <3>6. call[c] # Idle
      BY <1>2 DEF Sent
    <3> QED
      BY <1>1, <3>3, <3>5, <3>6 DEF Own, Returned
  <2> QED
    BY <2>1, <2>2
<1> QED
  BY <1>7, <1>8, <1>9, <1>10, <1>11 DEF CustomsInv

-----------------------------------------------------------------------------
\* The invariant holds before any call.
LEMMA CustomsInvInit == Init => CustomsInv
<1> SUFFICES ASSUME Init PROVE CustomsInv
  OBVIOUS
<1>1. policy.attempts \in Nat \ {0}
  <2>1. PICK p \in Policies : policy = Effective(p)
    BY DEF Init
  <2>2. p.attempts \in Int
    BY CustomsAssumption
  <2>3. policy.attempts = IF p.attempts <= 0 THEN DefaultAttempts ELSE p.attempts
    BY <2>1 DEF Effective
  <2> QED
    BY <2>2, <2>3, CustomsAssumption
<1>2. /\ \A c \in Calls : call[c] = Idle /\ answer[c] = NoAnswer
      /\ wire = {} /\ \A v \in Declared : ~Settled(v)
  BY DEF Init, Settled
<1>3. CustomsTypeOK
  BY <1>1 DEF Init, CustomsTypeOK
<1>4. Idle.step = "idle"
  BY DEF Idle
<1> QED
  BY <1>2, <1>3, <1>4 DEF CustomsInv, WireInv, AttemptInv, AnswerInv, Meant,
     ResultInv, Told, Returned, OwnInv, Own, DecidedBy

\* Every step of the calls and of the gateway keeps it.
LEMMA CustomsInvStep == CustomsInv /\ [Next]_vars => CustomsInv'
<1> SUFFICES ASSUME CustomsInv, [Next]_vars
             PROVE  CustomsInv'
  OBVIOUS
<1>1. ASSUME UNCHANGED <<policy, call, wire, answer, decided>>
      PROVE  CustomsInv'
  BY <1>1 DEF CustomsInv, CustomsTypeOK, Live, Pauses, Pause, WireInv, Sent, AttemptInv,
     Active, AnswerInv, Meant, Outcome, ResultInv, Told, Returned, OwnInv, Own, DecidedBy,
     Settled
<1>2. CASE UNCHANGED vars
  BY <1>1, <1>2 DEF vars
<1>3. ASSUME NEW c \in Calls, CancelContext(c)
      PROVE  CustomsInv'
  BY <1>1, <1>3 DEF CancelContext
<1>4. ASSUME NEW c \in Calls, Step(c)
      PROVE  CustomsInv'
  BY <1>4, SendStep, ReceiveStep, EndStep, WakeStep DEF Step
<1> QED
  BY <1>2, <1>3, <1>4, BeginStep, EndStep, ArriveStep DEF Next

\* It always holds.
LEMMA CustomsInvAlways == Spec => []CustomsInv
BY CustomsInvInit, CustomsInvStep, PTL DEF Spec

-----------------------------------------------------------------------------
\* A result of Submit (service/customs.go) tells the truth about the gateway,
\* for any number of calls and attempts, answers lost and requests late: a
\* decision is the gateway's own, a refusal has sent nothing, and a conflict
\* on the first attempt is with another call.
THEOREM ResultsAreMeant == Spec => []ResultMeans
<1>1. CustomsInv => ResultMeans
  <2> SUFFICES ASSUME CustomsInv, NEW c \in Calls
               PROVE  LET v == call[c].voyage IN
                      /\ Returned(c, Decisions \cup {None}) =>
                           decided[v] # Undecided /\ decided[v].decision = call[c].result
                      /\ Returned(c, {"refused"}) => \A m \in wire : m[1] # c
                      /\ Returned(c, {"conflict"}) =>
                           /\ decided[v] # Undecided
                           /\ call[c].attempt = 1 => decided[v].by # c
    BY DEF ResultMeans
  <2>1. Told(c) /\ Own(c)
    BY DEF CustomsInv, ResultInv, OwnInv
  <2>2. Returned(c, Decisions \cup {None}) => Returned(c, Decisions)
    <3>1. None \notin Results
      BY DecisionsAssumption DEF Results, Errors, None
    <3>2. call[c].step = "returned" => call[c].result \in Results
      BY CallFields DEF CustomsInv
    <3> QED
      BY <3>1, <3>2 DEF Returned
  <2>3. ASSUME Returned(c, {"refused"}), NEW m \in wire
        PROVE  m[1] # c
    <3>1. PICK x \in Calls, k \in Nat : m = <<x, k>>
      BY DEF CustomsInv, CustomsTypeOK
    <3>2. Sent(x, k)
      BY <3>1 DEF CustomsInv, WireInv
    <3> QED
      BY <2>3, <3>1, <3>2 DEF Sent
  <2>4. Returned(c, {"conflict"}) /\ call[c].attempt = 1 =>
          decided[call[c].voyage].by # c
    BY <2>1 DEF Told, Own, DecidedBy
  <2> QED
    BY <2>1, <2>2, <2>3, <2>4 DEF Told, Settled
<1> QED
  BY <1>1, CustomsInvAlways, PTL

\* WithRetry (customs/retry.go) sends a submission no more often than its
\* policy says, whatever the policy, and a call whose context is done or that
\* has returned sends nothing more.
THEOREM SendingStops == Spec => StopsSending
<1>1. CustomsInv /\ CustomsInv' /\ [Next]_vars =>
        [\A c \in Calls :
           /\ Attempts(c)' <= policy.attempts
           /\ c \in done \/ call[c].step = "returned" =>
                \A m \in wire' \ wire : m[1] # c]_vars
  <2> SUFFICES ASSUME CustomsInv, CustomsInv', Next, NEW c \in Calls
               PROVE  /\ Attempts(c)' <= policy.attempts
                      /\ c \in done \/ call[c].step = "returned" =>
                           \A m \in wire' \ wire : m[1] # c
    OBVIOUS
  <2>1. Attempts(c)' <= policy.attempts
    <3>1. policy' = policy
      BY DEF Next, Refuse, Submit, Step, Send, Receive, Timeout, Wake, Cancelled, Break,
         CancelContext, Arrive
    <3>2. policy.attempts \in Nat \ {0}
      BY DEF CustomsInv, CustomsTypeOK
    <3> QED
      BY <3>1, <3>2 DEF Attempts, CustomsInv, AttemptInv
  <2>2. ASSUME c \in done \/ call[c].step = "returned", NEW m \in wire' \ wire
        PROVE  m[1] # c
    <3>1. PICK x \in Calls : Send(x)
      BY <2>2 DEF Next, Refuse, Submit, Step, Receive, Timeout, Wake, Cancelled, Break,
         CancelContext, Arrive
    <3> QED
      BY <2>2, <3>1 DEF Send
  <2> QED
    BY <2>1, <2>2
<1> QED
  BY <1>1, CustomsInvAlways, PTL DEF Spec, StopsSending

-----------------------------------------------------------------------------
(***************************************************************************)
(* The pauses.  A power of two is the number of subsets of a set.          *)
(***************************************************************************)
\* Powers of two are positive and grow.
LEMMA PowerOfTwo ==
  ASSUME NEW n \in Nat
  PROVE  2 ^ n \in Nat /\ 2 ^ n >= 1 /\ \A m \in 0 .. n : 2 ^ m <= 2 ^ n
<1>1. ASSUME NEW m \in Nat
      PROVE  /\ IsFiniteSet(SUBSET (1 .. m)) /\ Cardinality(SUBSET (1 .. m)) = 2 ^ m
             /\ 2 ^ m \in Nat
  <2>1. IsFiniteSet(1 .. m) /\ Cardinality(1 .. m) = m
    BY FS_Interval
  <2>2. IsFiniteSet(SUBSET (1 .. m)) /\ Cardinality(SUBSET (1 .. m)) = 2 ^ m
    BY <2>1, FS_SUBSET
  <2>3. Cardinality(SUBSET (1 .. m)) \in Nat
    BY <2>2, FS_CardinalityType
  <2> QED
    BY <2>2, <2>3
<1>2. 2 ^ n >= 1
  <2>1. SUBSET (1 .. n) # {}
    OBVIOUS
  <2>2. Cardinality(SUBSET (1 .. n)) # 0
    BY <1>1, <2>1, FS_EmptySet
  <2>3. Cardinality(SUBSET (1 .. n)) = 2 ^ n /\ 2 ^ n \in Nat
    BY <1>1
  <2> QED
    BY <2>2, <2>3
<1>3. ASSUME NEW m \in 0 .. n
      PROVE  2 ^ m <= 2 ^ n
  <2>1. m \in Nat /\ SUBSET (1 .. m) \subseteq SUBSET (1 .. n)
    OBVIOUS
  <2>2. Cardinality(SUBSET (1 .. m)) <= Cardinality(SUBSET (1 .. n))
    BY <1>1, <2>1, FS_Subset
  <2> QED
    BY <1>1, <2>1, <2>2
<1> QED
  BY <1>1, <1>2, <1>3

\* A product with a positive factor is no smaller than the other one.
LEMMA ProductGrows ==
  ASSUME NEW a \in Nat, NEW b \in Nat, b >= 1
  PROVE  a * b \in Nat /\ a * b >= a
OBVIOUS

\* A remainder, of a number below the modulus and of any.
LEMMA Remainder ==
  ASSUME NEW n \in Int, NEW m \in Nat, m >= 1
  PROVE  n % m \in Int /\ (0 <= n /\ n < m => n % m = n)
OBVIOUS

\* What fits into Width bits is not changed by them, and everything is cut to
\* an integer.
LEMMA WrapFits ==
  ASSUME NEW n \in Int
  PROVE  Wrap(n) \in Int /\ (0 <= n /\ n < 2 ^ (Width - 1) => Wrap(n) = n)
<1>1. Width \in Nat /\ Width - 1 \in Nat /\ Width - 1 \in 0 .. Width
  BY CustomsAssumption
<1>2. /\ 2 ^ Width \in Nat /\ 2 ^ Width >= 1
      /\ 2 ^ (Width - 1) \in Nat /\ 2 ^ (Width - 1) <= 2 ^ Width
  BY <1>1, PowerOfTwo
<1>3. n % 2 ^ Width \in Int /\ (0 <= n /\ n < 2 ^ Width => n % 2 ^ Width = n)
  BY <1>2, Remainder
<1> QED
  BY <1>2, <1>3 DEF Wrap

\* The policy in force has positive lengths, and a call that pauses does so
\* for what the policy gives for its attempt.
PauseInv ==
  /\ policy.backoff \in Nat \ {0} /\ policy.maximum \in Nat \ {0}
  /\ \A c \in Calls : call[c].step = "pause" => call[c].pause = Pause(call[c].attempt)

LEMMA PauseInvInit == Init => PauseInv
<1> SUFFICES ASSUME Init PROVE PauseInv
  OBVIOUS
<1>1. PICK p \in Policies : policy = Effective(p)
  BY DEF Init
<1>2. p.backoff \in Int /\ p.maximum \in Int
  BY CustomsAssumption
<1>3. /\ policy.backoff = IF p.backoff <= 0 THEN DefaultBackoff ELSE p.backoff
      /\ policy.maximum = IF p.maximum < policy.backoff THEN DefaultMaximum ELSE p.maximum
  BY <1>1 DEF Effective
<1>4. policy.backoff \in Nat \ {0} /\ policy.maximum \in Nat \ {0}
  BY <1>2, <1>3, CustomsAssumption
<1> QED
  BY <1>4 DEF Init, PauseInv, Idle

\* A step changes one call, which does not pause or pauses as it should.
LEMMA PauseKept ==
  ASSUME CustomsInv, PauseInv, UNCHANGED policy, NEW c \in Calls,
         \A x \in Calls \ {c} : call'[x] = call[x],
         \/ call'[c].step # "pause"
         \/ call'[c] = call[c]
         \/ call'[c].pause = Pause(call[c].attempt) /\ call'[c].attempt = call[c].attempt
  PROVE  PauseInv'
<1>1. ASSUME NEW x \in Calls, call'[x].step = "pause"
      PROVE  call'[x].pause = Pause(call'[x].attempt)
  BY <1>1 DEF PauseInv
<1> QED
  BY <1>1 DEF PauseInv, Pause

\* An attempt that fails pauses or returns.
LEMMA FailPauses ==
  ASSUME CustomsInv, NEW c \in Calls, call[c].step = "wait", NEW result, Fail(c, result)
  PROVE  /\ \A x \in Calls \ {c} : call'[x] = call[x]
         /\ \/ call'[c].step # "pause"
            \/ /\ call'[c].pause = Pause(call[c].attempt)
               /\ call'[c].attempt = call[c].attempt
<1>1. call \in [Calls -> Live \cup Over \cup {Idle}]
  BY DEF CustomsInv, CustomsTypeOK
<1>2. CASE Retryable(result) /\ ~LastAttempt(c)
  <2> DEFINE new == [step |-> "pause", voyage |-> call[c].voyage,
                     attempt |-> call[c].attempt, pause |-> Pause(call[c].attempt)]
  <2>1. call[c] \in Live
    BY CallFields DEF CustomsInv, Active
  <2>2. new.attempt = call[c].attempt /\ new.pause = Pause(call[c].attempt)
    OBVIOUS
  <2>3. new = [call[c] EXCEPT !.step = "pause", !.pause = Pause(call[c].attempt)]
    BY <2>1, PauseFields
  <2>4. call' = [call EXCEPT ![c] = new]
    BY <1>2, <2>3 DEF Fail
  <2> HIDE DEF new
  <2> QED
    BY <1>1, <2>2, <2>4
<1>3. CASE ~(Retryable(result) /\ ~LastAttempt(c))
  BY <1>1, <1>3 DEF Fail, Return
<1> QED
  BY <1>2, <1>3

\* Every step keeps it.
LEMMA PauseInvStep == CustomsInv /\ PauseInv /\ [Next]_vars => PauseInv'
<1> SUFFICES ASSUME CustomsInv, PauseInv, [Next]_vars
             PROVE  PauseInv'
  OBVIOUS
<1>0. call \in [Calls -> Live \cup Over \cup {Idle}]
  BY DEF CustomsInv, CustomsTypeOK
<1>1. ASSUME UNCHANGED <<policy, call>>
      PROVE  PauseInv'
  BY <1>1 DEF PauseInv, Pause
<1>2. ASSUME NEW c \in Calls, NEW new, call' = [call EXCEPT ![c] = new], UNCHANGED policy,
             new.step # "pause"
      PROVE  PauseInv'
  <2>1. call'[c] = new /\ \A x \in Calls \ {c} : call'[x] = call[x]
    BY <1>0, <1>2
  <2> QED
    BY <1>2, <2>1, PauseKept
<1>3. ASSUME NEW c \in Calls, NEW result, Fail(c, result), call[c].step = "wait",
             UNCHANGED policy
      PROVE  PauseInv'
  BY <1>3, FailPauses, PauseKept
<1>4. ASSUME NEW c \in Calls, Refuse(c)
      PROVE  PauseInv'
  <2> DEFINE new == [step |-> "returned", voyage |-> None, attempt |-> 0,
                     result |-> "refused"]
  <2>1. new.step # "pause"
    OBVIOUS
  <2>2. call' = [call EXCEPT ![c] = new] /\ UNCHANGED policy
    BY <1>4 DEF Refuse
  <2> HIDE DEF new
  <2> QED
    BY <1>2, <2>1, <2>2
<1>5. ASSUME NEW c \in Calls, NEW v \in Declared, Submit(c, v)
      PROVE  PauseInv'
  <2> DEFINE new == [step |-> "send", voyage |-> v, attempt |-> 1,
                     pause |-> NoPause]
  <2>1. new.step # "pause"
    OBVIOUS
  <2>2. call' = [call EXCEPT ![c] = new] /\ UNCHANGED policy
    BY <1>5 DEF Submit
  <2> HIDE DEF new
  <2> QED
    BY <1>2, <2>1, <2>2
<1>6. ASSUME NEW c \in Calls, Send(c)
      PROVE  PauseInv'
  <2>1. call[c] \in Live
    BY <1>6, CallFields DEF CustomsInv, Send, Active
  <2>2. [call[c] EXCEPT !.step = "wait"].step = "wait"
    BY <2>1 DEF Live
  <2>3. call' = [call EXCEPT ![c] = [call[c] EXCEPT !.step = "wait"]] /\ UNCHANGED policy
    BY <1>6 DEF Send
  <2> QED
    BY <1>2, <2>2, <2>3
<1>7. ASSUME NEW c \in Calls, NEW result, Return(c, result), UNCHANGED policy
      PROVE  PauseInv'
  <2> DEFINE new == [step |-> "returned", voyage |-> call[c].voyage,
                     attempt |-> call[c].attempt, result |-> result]
  <2>1. new.step # "pause"
    OBVIOUS
  <2>2. call' = [call EXCEPT ![c] = new] /\ UNCHANGED policy
    BY <1>7 DEF Return
  <2> HIDE DEF new
  <2> QED
    BY <1>2, <2>1, <2>2
<1>8. ASSUME NEW c \in Calls, Receive(c)
      PROVE  PauseInv'
  BY <1>3, <1>7, <1>8 DEF Receive
<1>9. ASSUME NEW c \in Calls, Timeout(c) \/ Break(c)
      PROVE  PauseInv'
  BY <1>3, <1>9 DEF Timeout, Break
<1>10. ASSUME NEW c \in Calls, Wake(c)
       PROVE  PauseInv'
  <2> DEFINE new == [step |-> "send", voyage |-> call[c].voyage,
                     attempt |-> call[c].attempt + 1, pause |-> call[c].pause]
  <2>1. call[c] \in Live
    BY <1>10, CallFields DEF CustomsInv, Wake, Active
  <2>2. new = [call[c] EXCEPT !.step = "send", !.attempt = @ + 1]
    BY <2>1, WakeFields
  <2>3. new.step # "pause"
    OBVIOUS
  <2>4. call' = [call EXCEPT ![c] = new] /\ UNCHANGED policy
    BY <1>10, <2>2 DEF Wake
  <2> HIDE DEF new
  <2> QED
    BY <1>2, <2>3, <2>4
<1>11. ASSUME NEW c \in Calls, Cancelled(c)
       PROVE  PauseInv'
  BY <1>7, <1>11 DEF Cancelled
<1>12. ASSUME NEW c \in Calls, CancelContext(c)
       PROVE  PauseInv'
  BY <1>1, <1>12 DEF CancelContext
<1>13. ASSUME NEW c \in Calls, NEW attempt, Arrive(c, attempt)
       PROVE  PauseInv'
  BY <1>1, <1>13 DEF Arrive
<1>14. CASE UNCHANGED vars
  BY <1>1, <1>14 DEF vars
<1> QED
  BY <1>4, <1>5, <1>6, <1>8, <1>9, <1>10, <1>11, <1>12, <1>13, <1>14 DEF Next, Step

\* The pauses of WithRetry (customs/retry.go), for any policy as configured
\* and any width of a Duration: none is longer than the maximum, and as long
\* as the shifted backoff fits, none is shorter than the first, so that the
\* wrap-around is the only way to an attempt that follows at once.
THEOREM PausesAreBounded == Spec => []PausesBounded
<1>1. CustomsInv /\ PauseInv => PausesBounded
  <2> SUFFICES ASSUME CustomsInv, PauseInv, NEW c \in Calls, call[c].step = "pause"
               PROVE  /\ call[c].pause <= policy.maximum
                      /\ Fits(call[c].attempt) =>
                           call[c].pause >= IF policy.backoff < policy.maximum
                                              THEN policy.backoff ELSE policy.maximum
    BY DEF PausesBounded
  <2> DEFINE k == call[c].attempt
             product == policy.backoff * 2 ^ (k - 1)
  <2>1. k \in Nat /\ k - 1 \in Nat
    <3>1. call[c] # Idle /\ Active(c)
      BY CallFields DEF CustomsInv, Active, Idle
    <3> QED
      BY <3>1, CallFields DEF CustomsInv, AttemptInv
  <2>2. policy.backoff \in Nat \ {0} /\ policy.maximum \in Nat \ {0}
    BY DEF PauseInv
  <2>3. 2 ^ (k - 1) \in Nat /\ 2 ^ (k - 1) >= 1
    BY <2>1, PowerOfTwo
  <2>4. product \in Nat /\ product >= policy.backoff
    <3> HIDE DEF k
    <3> QED
      BY <2>2, <2>3, ProductGrows
  <2>5. Wrap(product) \in Int /\ (Fits(k) => Wrap(product) = product)
    <3>1. Fits(k) <=> product < 2 ^ (Width - 1)
      BY DEF Fits
    <3>2. product \in Int /\ 0 <= product
      BY <2>4
    <3> HIDE DEF product
    <3> QED
      BY <3>1, <3>2, WrapFits
  <2>6. call[c].pause = IF Wrap(product) > policy.maximum THEN policy.maximum
                        ELSE Wrap(product)
    BY DEF PauseInv, Pause
  <2> HIDE DEF product
  <2> QED
    BY <2>2, <2>4, <2>5, <2>6
<1> QED
  BY <1>1, PauseInvInit, PauseInvStep, CustomsInvAlways, PTL DEF Spec

=============================================================================
