----------------------------- MODULE Idempotency -----------------------------
(***************************************************************************)
(* Idempotent declarations (service.Coordinator.Declare over               *)
(* internal/idempotency and store/idempotency.go).  A call takes the       *)
(* record of its key in one transaction, declares the voyage in another    *)
(* and writes the outcome in a third statement, so calls with the same key *)
(* overlap, die in between and overtake one another.                       *)
(*                                                                         *)
(* A call is made once: what a client retries is another call.  The        *)
(* commands stand for their fingerprints.                                  *)
(***************************************************************************)
EXTENDS Integers

CONSTANTS
  Calls,          \* calls of Coordinator.Declare with an idempotency key
  Keys,           \* pairs of tenant and key
  Commands,       \* bodies of declarations
  Voyages,
  VoyageOf,       \* the voyage id in each command
  RecordTTL,
  StaleAfter,     \* 0 if a call in progress is never overtaken
  MaxTime         \* how far the clock runs (a bound)

ASSUME CommandAssumption == VoyageOf \in [Commands -> Voyages]
ASSUME ClockAssumption ==
  RecordTTL \in Nat \ {0} /\ StaleAfter \in Nat /\ MaxTime \in Nat

VARIABLES
  now,            \* the clock
  record,         \* table idempotency_records: key -> row
  declared,       \* voyage -> the command it was declared with
  call            \* call -> how far it has got

vars == <<now, record, declared, call>>

-----------------------------------------------------------------------------
None == "none"
ASSUME NoneAssumption == None \notin Commands

NoRecord == [status |-> "absent", version |-> 0]
Records ==
  [request : Commands, status : {"processing", "completed", "failed"},
   response : Commands \cup {None}, updatedAt : Nat, expiresAt : Nat,
   version : Nat]

\* A call that waits to be made, has read the clock, owns a record, knows
\* what the workflow answered, or has returned.
Waiting == [step |-> "waiting"]
CallStates ==
  [step : {"begin"}, key : Keys, command : Commands, createdAt : Nat]
    \cup [step : {"declare", "complete", "fail"}, key : Keys,
          command : Commands, stored : Records]
    \cup [step : {"returned"}, command : Commands,
          result : {"created", "replayed", "busy", "conflict", "error"}]

TypeOK ==
  /\ now \in 0 .. MaxTime
  /\ record \in [Keys -> Records \cup {NoRecord}]
  /\ declared \in [Voyages -> Commands \cup {None}]
  /\ call \in [Calls -> CallStates \cup {Waiting}]

-----------------------------------------------------------------------------
(***************************************************************************)
(* internal/idempotency.                                                   *)
(***************************************************************************)
NewRecord(command, at, version) ==
  [request |-> command, status |-> "processing", response |-> None,
   updatedAt |-> at, expiresAt |-> at + RecordTTL, version |-> version]

Alive(row, at) == row.status # "absent" /\ row.expiresAt > at

Stale(row, at) == StaleAfter > 0 /\ row.updatedAt + StaleAfter <= at

\* Fault: the fingerprint is not compared.
DecideAnyBody(row, command, at) ==
  CASE row.status = "completed" -> "replay"
    [] row.status = "failed" -> "start"
    [] row.status = "processing" -> IF Stale(row, at) THEN "start" ELSE "busy"

\* Decide, for a record that is alive.
Decide(row, command, at) ==
  CASE row.request # command -> "conflict"
    [] row.request = command /\ row.status = "completed" -> "replay"
    [] row.request = command /\ row.status = "failed" -> "start"
    [] row.request = command /\ row.status = "processing" ->
         IF Stale(row, at) THEN "start" ELSE "busy"

Complete(row, command, at) ==
  [row EXCEPT !.status = "completed", !.response = command, !.updatedAt = at,
              !.version = @ + 1]
Fail(row, at) ==
  [row EXCEPT !.status = "failed", !.response = None, !.updatedAt = at,
              !.version = @ + 1]
\* Fault: the version stays.
RestartUnversioned(row, at) ==
  [row EXCEPT !.status = "processing", !.response = None, !.updatedAt = at]
Restart(row, at) ==
  [row EXCEPT !.status = "processing", !.response = None, !.updatedAt = at,
              !.version = @ + 1]

-----------------------------------------------------------------------------
(***************************************************************************)
(* Coordinator.Declare, one step per statement of the database.            *)
(***************************************************************************)
Return(p, result) ==
  call' = [call EXCEPT ![p] =
             [step |-> "returned", command |-> @.command, result |-> result]]

\* The clock is read before the transaction that will use the reading.
Start(p, key, command) ==
  /\ call[p] = Waiting
  /\ call' = [call EXCEPT ![p] = [step |-> "begin", key |-> key,
                                  command |-> command, createdAt |-> now]]
  /\ UNCHANGED <<now, record, declared>>

\* The record is the call's from now on.
Own(p, row) ==
  /\ record' = [record EXCEPT ![call[p].key] = row]
  /\ call' = [call EXCEPT ![p] = [step |-> "declare", key |-> @.key,
                                  command |-> @.command, stored |-> row]]
  /\ UNCHANGED <<now, declared>>

\* BeginIdempotent: the row is read FOR UPDATE in a transaction of its own.
\* There is none, or it has expired: insert it, or take it over.
BeginFresh(p) ==
  LET c == call[p]  row == record[c.key] IN
  /\ c.step = "begin"
  /\ ~Alive(row, c.createdAt)
  /\ Own(p, NewRecord(c.command, c.createdAt, row.version + 1))

\* The row is alive, and Decide lets the call start over.
BeginRestart(p) ==
  LET c == call[p]  row == record[c.key] IN
  /\ c.step = "begin"
  /\ Alive(row, c.createdAt)
  /\ Decide(row, c.command, c.createdAt) = "start"
  /\ Own(p, Restart(row, c.createdAt))

\* The row is alive, and the call returns at once.
Answer(decision) == CASE decision = "replay" -> "replayed"
                      [] decision = "busy" -> "busy"
                      [] decision = "conflict" -> "conflict"
BeginAnswered(p) ==
  LET c == call[p]  row == record[c.key] IN
  /\ c.step = "begin"
  /\ Alive(row, c.createdAt)
  /\ Decide(row, c.command, c.createdAt) # "start"
  /\ Return(p, Answer(Decide(row, c.command, c.createdAt)))
  /\ UNCHANGED <<now, record, declared>>

\* The workflow declares the voyage, whose id must be new; an acknowledgement
\* of the commit that is lost is an error to the call ...
DeclareCommits(p) ==
  LET v == VoyageOf[call[p].command] IN
  /\ call[p].step = "declare"
  /\ declared[v] = None
  /\ declared' = [declared EXCEPT ![v] = call[p].command]
  /\ \E next \in {"complete", "fail"} : call' = [call EXCEPT ![p].step = next]
  /\ UNCHANGED <<now, record>>

\* ... or refuses it, for that reason or another.
DeclareError(p) ==
  /\ call[p].step = "declare"
  /\ call' = [call EXCEPT ![p].step = "fail"]
  /\ UNCHANGED <<now, record, declared>>

\* Fault: the version is not compared.
OwnedAlways(p) == TRUE

\* The UPDATE ... WHERE version: it must find the row as the call left it.
Owned(p) == record[call[p].key].version = call[p].stored.version

CompleteIdempotent(p) ==
  LET c == call[p] IN
  /\ c.step = "complete"
  /\ IF Owned(p)
       THEN /\ record' = [record EXCEPT ![c.key] =
                            Complete(c.stored, c.command, now)]
            /\ Return(p, "created")
       ELSE Return(p, "error") /\ UNCHANGED record
  /\ UNCHANGED <<now, declared>>

FailIdempotent(p) ==
  LET c == call[p] IN
  /\ c.step = "fail"
  /\ record' = IF Owned(p)
                 THEN [record EXCEPT ![c.key] = Fail(c.stored, now)] ELSE record
  /\ Return(p, "error")
  /\ UNCHANGED <<now, declared>>

\* The context is cancelled, a statement fails or the process dies.
Die(p) ==
  /\ call[p].step \notin {"waiting", "returned"}
  /\ Return(p, "error")
  /\ UNCHANGED <<now, record, declared>>

Tick ==
  /\ now < MaxTime
  /\ now' = now + 1
  /\ UNCHANGED <<record, declared, call>>

Init ==
  /\ now = 0
  /\ record = [key \in Keys |-> NoRecord]
  /\ declared = [v \in Voyages |-> None]
  /\ call = [p \in Calls |-> Waiting]

Step(p) ==
  \/ \E key \in Keys, command \in Commands : Start(p, key, command)
  \/ BeginFresh(p) \/ BeginRestart(p) \/ BeginAnswered(p)
  \/ DeclareCommits(p) \/ DeclareError(p)
  \/ CompleteIdempotent(p) \/ FailIdempotent(p)
  \/ Die(p)

Next == Tick \/ \E p \in Calls : Step(p)

Spec == Init /\ [][Next]_vars

-----------------------------------------------------------------------------
\* The calls that work on a record, and can still write its outcome.
Working(p) == call[p].step \in {"declare", "complete", "fail"}

\* Of all the calls at work on a key, overtaken ones included, at most one
\* can write its outcome, and while it can the record says so: it is in
\* progress, for that call's command.
OneOwner ==
  \A p \in Calls : Working(p) /\ Owned(p) =>
    /\ record[call[p].key] = call[p].stored
    /\ record[call[p].key].status = "processing"
    /\ record[call[p].key].request = call[p].command
    /\ \A q \in Calls : /\ Working(q) /\ Owned(q)
                        /\ call[q].key = call[p].key
                        => q = p

\* No answer is ever wrong: a completed record carries the response of its own
\* command, and the voyage was declared with that command; every success
\* reported to a caller is a declaration with the caller's own command, and
\* only one call in all is told that it made it.
AnswersTrue ==
  /\ \A key \in Keys : record[key].status = "completed" =>
       /\ record[key].response = record[key].request
       /\ declared[VoyageOf[record[key].request]] = record[key].request
  /\ \A p \in Calls :
       call[p].step = "returned" /\ call[p].result \in {"created", "replayed"}
       => declared[VoyageOf[call[p].command]] = call[p].command
  /\ \A p, q \in Calls :
       /\ call[p].step = "returned" /\ call[q].step = "returned"
       /\ call[p].result = "created" /\ call[q].result = "created"
       /\ VoyageOf[call[p].command] = VoyageOf[call[q].command]
       => p = q

\* For as long as it lives a key belongs to one request, and its record is
\* guarded: a completed one does not change at all, and one in progress that
\* is not stale is written by the call that owns it or by none, whatever calls
\* are still at work.
Guarded(key) ==
  Alive(record[key], now) /\ record'[key] # record[key] =>
    /\ record'[key].request = record[key].request
    /\ record[key].status # "completed"
    /\ record[key].status = "processing" /\ ~Stale(record[key], now) =>
         \E p \in Calls : /\ Working(p) /\ call[p].key = key /\ Owned(p)
                          /\ call'[p].step = "returned"
RecordGuarded == [][\A key \in Keys : Guarded(key)]_vars
=============================================================================
