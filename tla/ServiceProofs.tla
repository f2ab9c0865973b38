--------------------------- MODULE ServiceProofs ----------------------------
(***************************************************************************)
(* Proofs about internal/service: idempotent declarations, for any number  *)
(* of calls, keys, commands and voyages and any lifetime of the records;   *)
(* and the pool of goroutines of the batches, which dispatches             *)
(* notifications too, for any number of tasks and of goroutines.           *)
(***************************************************************************)
EXTENDS Idempotency, WorkerPool, TLAPS

-----------------------------------------------------------------------------
(***************************************************************************)
(* Idempotency.                                                            *)
(***************************************************************************)

(***************************************************************************)
(* The inductive invariant.  The version of a record only grows, so it     *)
(* tells the calls that wrote it apart: a call whose stored version is     *)
(* still the record's version has not been overtaken, and what it stored   *)
(* is what the record says.                                                *)
(***************************************************************************)
Stored ==
  \A p \in Calls : Working(p) =>
    LET c == call[p] IN
    /\ c.stored.status = "processing"
    /\ c.stored.request = c.command
    /\ c.stored.version <= record[c.key].version
    /\ c.stored.version = record[c.key].version => record[c.key] = c.stored
VersionsApart ==
  \A p, q \in Calls :
    /\ Working(p) /\ Working(q) /\ call[p].key = call[q].key
    /\ call[p].stored.version = call[q].stored.version
    => p = q
OwnersInv == Stored /\ VersionsApart

\* The declarations that calls have made or reported.
Made(p) ==
  \/ call[p].step = "complete"
  \/ call[p].step = "returned" /\ call[p].result = "created"
CompletedTrue ==
  \A key \in Keys : record[key].status = "completed" =>
    /\ record[key].response = record[key].request
    /\ declared[VoyageOf[record[key].request]] = record[key].request
MadeTrue ==
  \A p \in Calls :
    Made(p) \/ (call[p].step = "returned" /\ call[p].result = "replayed")
    => declared[VoyageOf[call[p].command]] = call[p].command
MadeOnce ==
  \A p, q \in Calls :
    Made(p) /\ Made(q) /\ VoyageOf[call[p].command] = VoyageOf[call[q].command]
    => p = q
DeclaredInv == CompletedTrue /\ MadeTrue /\ MadeOnce

\* A call never carries a reading of the clock from the future.
ClockRead == \A p \in Calls : call[p].step = "begin" => call[p].createdAt <= now

IdempotencyInv == TypeOK /\ OwnersInv /\ DeclaredInv /\ ClockRead

-----------------------------------------------------------------------------
(***************************************************************************)
(* The rows and the calls.                                                 *)
(***************************************************************************)
\* What a call carries at each of its steps.
LEMMA CallFields ==
  ASSUME TypeOK, NEW p \in Calls
  PROVE  /\ call[p].step = "begin" =>
              /\ call[p].key \in Keys /\ call[p].command \in Commands
              /\ call[p].createdAt \in Nat
         /\ Working(p) =>
              /\ call[p].key \in Keys /\ call[p].command \in Commands
              /\ call[p].stored \in Records
         /\ call[p].step = "returned" => call[p].command \in Commands
         /\ call[p].step # "waiting" => call[p].command \in Commands
<1>1. call[p] \in CallStates \cup {Waiting}
  BY DEF TypeOK
<1> QED
  BY <1>1 DEF CallStates, Waiting, Working

\* Every record has a version, a missing one has version 0.
LEMMA RecordFields ==
  ASSUME TypeOK, NEW key \in Keys
  PROVE  /\ record[key].version \in Nat
         /\ record[key].status # "absent" => record[key] \in Records
BY DEF TypeOK, Records, NoRecord

\* New and Restart in internal/idempotency: in progress, for the command given.
LEMMA NewRow ==
  ASSUME NEW command \in Commands, NEW at \in Nat, NEW version \in Nat
  PROVE  LET row == NewRecord(command, at, version) IN
         /\ row \in Records /\ row.status = "processing"
         /\ row.request = command /\ row.version = version
<1>1. at + RecordTTL \in Nat
  BY ClockAssumption
<1> QED
  BY <1>1 DEF NewRecord, Records

\* A restart keeps the request and raises the version.
LEMMA RestartRow ==
  ASSUME NEW row \in Records, NEW at \in Nat
  PROVE  LET new == Restart(row, at) IN
         /\ new \in Records /\ new.status = "processing"
         /\ new.request = row.request /\ new.version = row.version + 1
<1>1. row.version + 1 \in Nat
  BY DEF Records
<1> QED
  BY <1>1 DEF Restart, Records

\* Completing keeps the request, stores the response and raises the version.
LEMMA CompleteRow ==
  ASSUME NEW row \in Records, NEW command \in Commands, NEW at \in Nat
  PROVE  LET new == Complete(row, command, at) IN
         /\ new \in Records /\ new.status = "completed"
         /\ new.request = row.request /\ new.response = command
         /\ new.version = row.version + 1
<1>1. row.version + 1 \in Nat
  BY DEF Records
<1> QED
  BY <1>1 DEF Complete, Records

\* Failing keeps the request and raises the version.
LEMMA FailRow ==
  ASSUME NEW row \in Records, NEW at \in Nat
  PROVE  LET new == Fail(row, at) IN
         /\ new \in Records /\ new.status = "failed"
         /\ new.request = row.request /\ new.version = row.version + 1
<1>1. row.version + 1 \in Nat
  BY DEF Records
<1> QED
  BY <1>1 DEF Fail, Records

Results == {"created", "replayed", "busy", "conflict", "error"}

\* A call that returns touches no other call.
LEMMA ReturnEffect ==
  ASSUME TypeOK, NEW p \in Calls, call[p].step # "waiting",
         NEW result \in Results, Return(p, result)
  PROVE  /\ call'[p].step = "returned" /\ call'[p].result = result
         /\ call'[p].command = call[p].command
         /\ \A q \in Calls \ {p} : call'[q] = call[q]
         /\ call' \in [Calls -> CallStates \cup {Waiting}]
<1> DEFINE new == [step |-> "returned", command |-> call[p].command,
                   result |-> result]
<1>1. /\ new.step = "returned" /\ new.result = result
      /\ new.command = call[p].command
  OBVIOUS
<1>2. new \in CallStates
  BY CallFields DEF CallStates, Results
<1>3. call' = [call EXCEPT ![p] = new]
  BY DEF Return
<1> HIDE DEF new
<1> QED
  BY <1>1, <1>2, <1>3 DEF TypeOK

\* BeginIdempotent returns the row it wrote, and the call carries it.
LEMMA OwnEffect ==
  ASSUME TypeOK, NEW p \in Calls, call[p].step = "begin", NEW row \in Records,
         Own(p, row)
  PROVE  /\ call'[p].step = "declare" /\ call'[p].key = call[p].key
         /\ call'[p].command = call[p].command /\ call'[p].stored = row
         /\ \A q \in Calls \ {p} : call'[q] = call[q]
         /\ record'[call[p].key] = row
         /\ \A key \in Keys \ {call[p].key} : record'[key] = record[key]
         /\ UNCHANGED <<now, declared>>
         /\ TypeOK'
<1> DEFINE new == [step |-> "declare", key |-> call[p].key,
                   command |-> call[p].command, stored |-> row]
<1>1. /\ new.step = "declare" /\ new.key = call[p].key
      /\ new.command = call[p].command /\ new.stored = row
  OBVIOUS
<1>2. new \in CallStates
  BY CallFields DEF CallStates
<1>3. call' = [call EXCEPT ![p] = new]
  BY DEF Own
<1> HIDE DEF new
<1>4. call[p].key \in Keys
  BY CallFields
<1>5. record' = [record EXCEPT ![call[p].key] = row] /\ UNCHANGED <<now, declared>>
  BY DEF Own
<1> QED
  BY <1>1, <1>2, <1>3, <1>4, <1>5 DEF TypeOK

-----------------------------------------------------------------------------
(***************************************************************************)
(* What a step does to the record of its key: it takes it, settles it or   *)
(* leaves it alone.                                                        *)
(***************************************************************************)
Takes(p, row) ==
  /\ call[p].step = "begin"
  /\ row \in Records /\ row.status = "processing"
  /\ row.request = call[p].command
  /\ row.version = record[call[p].key].version + 1
  /\ LET old == record[call[p].key] IN
     Alive(old, call[p].createdAt) =>
       /\ old.request = call[p].command
       /\ \/ old.status = "failed"
          \/ old.status = "processing" /\ Stale(old, call[p].createdAt)
  /\ Own(p, row)
Settles(p, row, result) ==
  /\ Working(p) /\ Owned(p)
  /\ row \in Records /\ row.request = call[p].stored.request
  /\ row.version = call[p].stored.version + 1
  /\ \/ /\ call[p].step = "complete" /\ result = "created"
        /\ row.status = "completed" /\ row.response = call[p].command
     \/ call[p].step = "fail" /\ result = "error" /\ row.status = "failed"
  /\ record' = [record EXCEPT ![call[p].key] = row]
  /\ Return(p, result)
  /\ UNCHANGED <<now, declared>>
Quits(p, result) ==
  /\ call[p].step # "waiting"
  /\ result \in Results \ {"created"}
  /\ result = "replayed" =>
       \E key \in Keys : /\ record[key].status = "completed"
                         /\ record[key].request = call[p].command
  /\ Return(p, result)
  /\ UNCHANGED <<now, record, declared>>

\* A record that is alive says "replay" only to its own command, once it is
\* completed, and "start" only if it failed or is stale.
LEMMA DecideIs ==
  ASSUME NEW row \in Records, NEW command, NEW at
  PROVE  /\ Decide(row, command, at) \in {"conflict", "replay", "start", "busy"}
         /\ Decide(row, command, at) = "replay" =>
              row.request = command /\ row.status = "completed"
         /\ Decide(row, command, at) = "start" =>
              /\ row.request = command
              /\ \/ row.status = "failed"
                 \/ row.status = "processing" /\ Stale(row, at)
<1>1. row.status \in {"processing", "completed", "failed"}
  BY DEF Records
<1> QED
  BY <1>1 DEF Decide

\* Every step of a call is one of these.
LEMMA StepCases ==
  ASSUME TypeOK, NEW p \in Calls, Step(p)
  PROVE  \/ \E key \in Keys, command \in Commands : Start(p, key, command)
         \/ \E row : Takes(p, row)
         \/ \E row, result : Settles(p, row, result)
         \/ \E result : Quits(p, result)
         \/ DeclareCommits(p)
         \/ DeclareError(p)
<1>1. ASSUME BeginFresh(p) PROVE \E row : Takes(p, row)
  <2>1. call[p].step = "begin"
    BY <1>1 DEF BeginFresh
  <2>2. record[call[p].key].version + 1 \in Nat
    BY <2>1, CallFields, RecordFields
  <2> DEFINE row == NewRecord(call[p].command, call[p].createdAt,
                              record[call[p].key].version + 1)
  <2>3. /\ row \in Records /\ row.status = "processing"
        /\ row.request = call[p].command
        /\ row.version = record[call[p].key].version + 1
    BY <2>1, <2>2, CallFields, NewRow
  <2>4. Own(p, row) /\ ~Alive(record[call[p].key], call[p].createdAt)
    BY <1>1 DEF BeginFresh
  <2> QED
    BY <2>1, <2>3, <2>4, Zenon DEF Takes
<1>2. ASSUME BeginRestart(p) PROVE \E row : Takes(p, row)
  <2> DEFINE old == record[call[p].key]
             row == Restart(old, call[p].createdAt)
  <2>1. call[p].step = "begin" /\ Alive(old, call[p].createdAt)
    BY <1>2 DEF BeginRestart
  <2>2. old \in Records
    BY <2>1, CallFields, RecordFields DEF Alive
  <2>3. Decide(old, call[p].command, call[p].createdAt) = "start"
    BY <1>2 DEF BeginRestart
  <2>4. /\ old.request = call[p].command
        /\ \/ old.status = "failed"
           \/ old.status = "processing" /\ Stale(old, call[p].createdAt)
    BY <2>2, <2>3, DecideIs
  <2>5. /\ row \in Records /\ row.status = "processing"
        /\ row.request = old.request /\ row.version = old.version + 1
    BY <2>1, <2>2, CallFields, RestartRow
  <2>6. Own(p, row)
    BY <1>2 DEF BeginRestart
  <2> QED
    BY <2>1, <2>4, <2>5, <2>6, Zenon DEF Takes
<1>3. ASSUME BeginAnswered(p) PROVE \E result : Quits(p, result)
  <2> DEFINE old == record[call[p].key]
             decision == Decide(old, call[p].command, call[p].createdAt)
  <2>1. call[p].step = "begin" /\ Alive(old, call[p].createdAt)
    BY <1>3 DEF BeginAnswered
  <2>2. call[p].key \in Keys /\ old \in Records
    BY <2>1, CallFields, RecordFields DEF Alive
  <2>3. /\ decision # "start" /\ Return(p, Answer(decision))
        /\ UNCHANGED <<now, record, declared>>
    BY <1>3 DEF BeginAnswered
  <2>4. /\ decision \in {"conflict", "replay", "busy"}
        /\ decision = "replay" =>
             old.request = call[p].command /\ old.status = "completed"
    BY <2>2, <2>3, DecideIs
  <2> HIDE DEF decision
  <2>5. /\ Answer(decision) \in Results \ {"created"}
        /\ Answer(decision) = "replayed" => decision = "replay"
    BY <2>4 DEF Answer, Results
  <2>6. Quits(p, Answer(decision))
    BY <2>1, <2>2, <2>3, <2>4, <2>5 DEF Quits
  <2> QED
    BY <2>6, Zenon
<1>4. ASSUME CompleteIdempotent(p)
      PROVE  \/ \E row, result : Settles(p, row, result)
             \/ \E result : Quits(p, result)
  <2>1. call[p].step = "complete" /\ Working(p)
    BY <1>4 DEF CompleteIdempotent, Working
  <2>2. CASE Owned(p)
    <3> DEFINE row == Complete(call[p].stored, call[p].command, now)
    <3>1. now \in Nat
      BY ClockAssumption DEF TypeOK
    <3>2. /\ row \in Records /\ row.status = "completed"
          /\ row.request = call[p].stored.request
          /\ row.response = call[p].command
          /\ row.version = call[p].stored.version + 1
      BY <2>1, <3>1, CallFields, CompleteRow
    <3>3. /\ record' = [record EXCEPT ![call[p].key] = row]
          /\ Return(p, "created") /\ UNCHANGED <<now, declared>>
      BY <1>4, <2>2 DEF CompleteIdempotent
    <3>4. Settles(p, row, "created")
      BY <2>1, <2>2, <3>2, <3>3, Zenon DEF Settles
    <3> QED
      BY <3>4, Zenon
  <2>3. CASE ~Owned(p)
    <3>1. Quits(p, "error")
      BY <1>4, <2>1, <2>3 DEF CompleteIdempotent, Quits, Results
    <3> QED
      BY <3>1, Zenon
  <2> QED
    BY <2>2, <2>3
<1>5. ASSUME FailIdempotent(p)
      PROVE  \/ \E row, result : Settles(p, row, result)
             \/ \E result : Quits(p, result)
  <2>1. call[p].step = "fail" /\ Working(p)
    BY <1>5 DEF FailIdempotent, Working
  <2>2. CASE Owned(p)
    <3> DEFINE row == Fail(call[p].stored, now)
    <3>1. now \in Nat
      BY ClockAssumption DEF TypeOK
    <3>2. /\ row \in Records /\ row.status = "failed"
          /\ row.request = call[p].stored.request
          /\ row.version = call[p].stored.version + 1
      BY <2>1, <3>1, CallFields, FailRow
    <3>3. /\ record' = [record EXCEPT ![call[p].key] = row]
          /\ Return(p, "error") /\ UNCHANGED <<now, declared>>
      BY <1>5, <2>2 DEF FailIdempotent
    <3>4. Settles(p, row, "error")
      BY <2>1, <2>2, <3>2, <3>3, Zenon DEF Settles
    <3> QED
      BY <3>4, Zenon
  <2>3. CASE ~Owned(p)
    <3>1. Quits(p, "error")
      BY <1>5, <2>1, <2>3 DEF FailIdempotent, Quits, Results
    <3> QED
      BY <3>1, Zenon
  <2> QED
    BY <2>2, <2>3
<1>6. ASSUME Die(p) PROVE \E result : Quits(p, result)
  <2>1. Quits(p, "error")
    BY <1>6 DEF Die, Quits, Results
  <2> QED
    BY <2>1, Zenon
<1> QED
  BY <1>1, <1>2, <1>3, <1>4, <1>5, <1>6, Zenon DEF Step

\* A settled record: the call that owns it returns, the others stay.
LEMMA SettlesEffect ==
  ASSUME TypeOK, NEW p \in Calls, NEW row, NEW result, Settles(p, row, result)
  PROVE  /\ call'[p].step = "returned" /\ call'[p].result = result
         /\ call'[p].command = call[p].command
         /\ \A q \in Calls \ {p} : call'[q] = call[q]
         /\ record'[call[p].key] = row
         /\ \A key \in Keys \ {call[p].key} : record'[key] = record[key]
         /\ UNCHANGED <<now, declared>>
         /\ TypeOK'
<1>1. call[p].step # "waiting" /\ result \in Results /\ Return(p, result)
  BY DEF Settles, Working, Results
<1>2. call[p].key \in Keys /\ row \in Records
  BY CallFields DEF Settles
<1>3. /\ record' = [record EXCEPT ![call[p].key] = row]
      /\ UNCHANGED <<now, declared>>
  BY DEF Settles
<1>4. /\ call'[p].step = "returned" /\ call'[p].result = result
      /\ call'[p].command = call[p].command
      /\ \A q \in Calls \ {p} : call'[q] = call[q]
      /\ call' \in [Calls -> CallStates \cup {Waiting}]
  BY <1>1, ReturnEffect
<1> QED
  BY <1>2, <1>3, <1>4 DEF TypeOK

\* The declaration moves a call on, and keeps what it carries.
LEMMA DeclareEffect ==
  ASSUME TypeOK, NEW p \in Calls, NEW step \in {"complete", "fail"},
         call[p].step = "declare", call' = [call EXCEPT ![p].step = step]
  PROVE  /\ call'[p].step = step /\ call'[p].key = call[p].key
         /\ call'[p].command = call[p].command
         /\ call'[p].stored = call[p].stored
         /\ \A q \in Calls \ {p} : call'[q] = call[q]
         /\ call' \in [Calls -> CallStates \cup {Waiting}]
<1>1. call[p] \in [step : {"declare", "complete", "fail"}, key : Keys,
                   command : Commands, stored : Records]
  BY DEF TypeOK, CallStates, Waiting
<1> DEFINE new == [call[p] EXCEPT !.step = step]
<1>2. /\ new \in [step : {"declare", "complete", "fail"}, key : Keys,
                  command : Commands, stored : Records]
      /\ new.step = step /\ new.key = call[p].key
      /\ new.command = call[p].command /\ new.stored = call[p].stored
  BY <1>1
<1>3. new \in CallStates
  BY <1>2 DEF CallStates
<1>4. call' = [call EXCEPT ![p] = new]
  OBVIOUS
<1> HIDE DEF new
<1> QED
  BY <1>2, <1>3, <1>4 DEF TypeOK

\* Start reads the clock.
LEMMA StartEffect ==
  ASSUME TypeOK, NEW p \in Calls, NEW key \in Keys, NEW command \in Commands,
         Start(p, key, command)
  PROVE  /\ call'[p].step = "begin" /\ call'[p].createdAt = now
         /\ \A q \in Calls \ {p} : call'[q] = call[q]
         /\ UNCHANGED <<now, record, declared>>
         /\ TypeOK'
<1> DEFINE new == [step |-> "begin", key |-> key, command |-> command,
                   createdAt |-> now]
<1>1. now \in Nat
  BY ClockAssumption DEF TypeOK
<1>2. new \in CallStates /\ new.step = "begin" /\ new.createdAt = now
  BY <1>1 DEF CallStates
<1>3. call' = [call EXCEPT ![p] = new] /\ UNCHANGED <<now, record, declared>>
  BY DEF Start
<1> HIDE DEF new
<1> QED
  BY <1>2, <1>3 DEF TypeOK

-----------------------------------------------------------------------------
(***************************************************************************)
(* The steps, one lemma per conjunct of the invariant.                     *)
(***************************************************************************)
\* Every step of a call keeps the types.
LEMMA CallTypeStep ==
  ASSUME TypeOK, NEW p \in Calls, Step(p)
  PROVE  TypeOK'
<1>1. ASSUME NEW key \in Keys, NEW command \in Commands, Start(p, key, command)
      PROVE  TypeOK'
  BY <1>1, StartEffect
<1>2. ASSUME NEW row, Takes(p, row)
      PROVE  TypeOK'
  BY <1>2, OwnEffect DEF Takes
<1>3. ASSUME NEW row, NEW result, Settles(p, row, result)
      PROVE  TypeOK'
  BY <1>3, SettlesEffect
<1>4. ASSUME NEW result, Quits(p, result)
      PROVE  TypeOK'
  <2>1. call' \in [Calls -> CallStates \cup {Waiting}]
    BY <1>4, ReturnEffect DEF Quits
  <2> QED
    BY <1>4, <2>1 DEF Quits, TypeOK
<1>5. ASSUME DeclareCommits(p)
      PROVE  TypeOK'
  <2>1. call' \in [Calls -> CallStates \cup {Waiting}]
    BY <1>5, DeclareEffect DEF DeclareCommits
  <2>2. call[p].command \in Commands
    BY <1>5, CallFields DEF DeclareCommits
  <2>3. declared' \in [Voyages -> Commands \cup {None}]
    BY <1>5, <2>2, CommandAssumption DEF DeclareCommits, TypeOK
  <2> QED
    BY <1>5, <2>1, <2>3 DEF DeclareCommits, TypeOK
<1>6. ASSUME DeclareError(p)
      PROVE  TypeOK'
  <2>1. call' \in [Calls -> CallStates \cup {Waiting}]
    BY <1>6, DeclareEffect DEF DeclareError
  <2> QED
    BY <1>6, <2>1 DEF DeclareError, TypeOK
<1> QED
  BY <1>1, <1>2, <1>3, <1>4, <1>5, <1>6, StepCases, Zenon

\* A step that leaves the record alone, and in which no call gets to work
\* that was not at work, keeps the owners apart.
LEMMA OwnersFrame ==
  ASSUME OwnersInv, UNCHANGED record,
         \A q \in Calls : Working(q)' =>
           /\ Working(q)
           /\ call'[q].key = call[q].key /\ call'[q].command = call[q].command
           /\ call'[q].stored = call[q].stored
  PROVE  OwnersInv'
<1>1. Stored'
  BY DEF OwnersInv, Stored
<1>2. VersionsApart'
  BY DEF OwnersInv, VersionsApart
<1> QED
  BY <1>1, <1>2 DEF OwnersInv

\* Whoever takes or settles a record raises its version above all the stored
\* ones, so that every call at work on it but the taker is overtaken.
LEMMA OwnersStep ==
  ASSUME TypeOK, OwnersInv, NEW p \in Calls, Step(p)
  PROVE  OwnersInv'
<1>1. ASSUME NEW key \in Keys, NEW command \in Commands, Start(p, key, command)
      PROVE  OwnersInv'
  <2>1. /\ call'[p].step = "begin"
        /\ \A q \in Calls \ {p} : call'[q] = call[q]
        /\ record' = record
    BY <1>1, StartEffect
  <2> QED
    BY <2>1, OwnersFrame DEF Working
<1>2. ASSUME NEW row, Takes(p, row)
      PROVE  OwnersInv'
  <2> DEFINE key == call[p].key
  <2>1. /\ call'[p].step = "declare" /\ call'[p].key = key
        /\ call'[p].command = call[p].command /\ call'[p].stored = row
        /\ \A q \in Calls \ {p} : call'[q] = call[q]
        /\ record'[key] = row
        /\ \A k \in Keys \ {key} : record'[k] = record[k]
    BY <1>2, OwnEffect DEF Takes
  <2>2. /\ row.status = "processing" /\ row.request = call[p].command
        /\ row.version = record[key].version + 1
        /\ key \in Keys /\ record[key].version \in Nat
    BY <1>2, CallFields, RecordFields DEF Takes
  <2>3. ASSUME NEW q \in Calls \ {p}, Working(q)'
        PROVE  /\ Working(q) /\ call'[q] = call[q] /\ call[q].key \in Keys
               /\ call[q].stored.version \in Nat
               /\ call[q].stored.version <= record[call[q].key].version
    BY <2>1, <2>3, CallFields DEF Working, OwnersInv, Stored, Records
  <2> HIDE DEF key
  <2>4. Stored'
    <3>1. ASSUME NEW q \in Calls, Working(q)'
          PROVE  /\ call'[q].stored.status = "processing"
                 /\ call'[q].stored.request = call'[q].command
                 /\ call'[q].stored.version <= record'[call'[q].key].version
                 /\ call'[q].stored.version = record'[call'[q].key].version =>
                      record'[call'[q].key] = call'[q].stored
      <4>1. CASE q = p
        BY <2>1, <2>2, <4>1
      <4>2. CASE q # p /\ call[q].key = key
        BY <2>1, <2>2, <2>3, <3>1, <4>2 DEF OwnersInv, Stored
      <4>3. CASE q # p /\ call[q].key # key
        BY <2>1, <2>3, <3>1, <4>3 DEF OwnersInv, Stored
      <4> QED
        BY <4>1, <4>2, <4>3
    <3> QED
      BY <3>1 DEF Stored
  <2>5. VersionsApart'
    <3>1. ASSUME NEW q \in Calls \ {p}, Working(q)', call'[q].key = key
          PROVE  call'[q].stored.version # row.version
      BY <2>2, <2>3, <3>1
    <3> QED
      BY <2>1, <2>3, <3>1 DEF OwnersInv, VersionsApart
  <2> QED
    BY <2>4, <2>5 DEF OwnersInv
<1>3. ASSUME NEW row, NEW result, Settles(p, row, result)
      PROVE  OwnersInv'
  <2> DEFINE key == call[p].key
  <2>1. /\ call'[p].step = "returned"
        /\ \A q \in Calls \ {p} : call'[q] = call[q]
        /\ record'[key] = row
        /\ \A k \in Keys \ {key} : record'[k] = record[k]
    BY <1>3, SettlesEffect
  <2>2. /\ key \in Keys /\ record[key].version \in Nat
        /\ row.version = record[key].version + 1
    BY <1>3, CallFields, RecordFields DEF Settles, Owned
  <2>3. ASSUME NEW q \in Calls, Working(q)'
        PROVE  /\ q # p /\ Working(q) /\ call'[q] = call[q]
               /\ call[q].key \in Keys
               /\ call[q].stored.version \in Nat
               /\ call[q].stored.version <= record[call[q].key].version
    BY <2>1, <2>3, CallFields DEF Working, OwnersInv, Stored, Records
  <2> HIDE DEF key
  <2>4. Stored'
    <3>1. ASSUME NEW q \in Calls, Working(q)'
          PROVE  /\ call'[q].stored.status = "processing"
                 /\ call'[q].stored.request = call'[q].command
                 /\ call'[q].stored.version <= record'[call'[q].key].version
                 /\ call'[q].stored.version = record'[call'[q].key].version =>
                      record'[call'[q].key] = call'[q].stored
      <4>1. CASE call[q].key = key
        BY <2>1, <2>2, <2>3, <3>1, <4>1 DEF OwnersInv, Stored
      <4>2. CASE call[q].key # key
        BY <2>1, <2>3, <3>1, <4>2 DEF OwnersInv, Stored
      <4> QED
        BY <4>1, <4>2
    <3> QED
      BY <3>1 DEF Stored
  <2>5. VersionsApart'
    BY <2>3 DEF OwnersInv, VersionsApart
  <2> QED
    BY <2>4, <2>5 DEF OwnersInv
<1>4. ASSUME NEW result, Quits(p, result)
      PROVE  OwnersInv'
  <2>1. /\ call'[p].step = "returned"
        /\ \A q \in Calls \ {p} : call'[q] = call[q]
    BY <1>4, ReturnEffect DEF Quits
  <2> QED
    BY <1>4, <2>1, OwnersFrame DEF Working, Quits
<1>5. ASSUME DeclareCommits(p) \/ DeclareError(p)
      PROVE  OwnersInv'
  <2>1. /\ call[p].step = "declare" /\ record' = record
        /\ call'[p].key = call[p].key /\ call'[p].command = call[p].command
        /\ call'[p].stored = call[p].stored
        /\ \A q \in Calls \ {p} : call'[q] = call[q]
    BY <1>5, DeclareEffect DEF DeclareCommits, DeclareError
  <2> QED
    BY <2>1, OwnersFrame DEF Working
<1> QED
  BY <1>1, <1>2, <1>3, <1>4, <1>5, StepCases, Zenon

\* A declared voyage stays declared with its command, one voyage is declared
\* by one call, and only a declared command completes a record.
LEMMA DeclaredStep ==
  ASSUME TypeOK, OwnersInv, DeclaredInv, NEW p \in Calls, Step(p)
  PROVE  DeclaredInv'
<1>1. ASSUME UNCHANGED <<record, declared>>, ~Made(p)',
             \A q \in Calls \ {p} : call'[q] = call[q],
             call'[p].step = "returned" /\ call'[p].result = "replayed" =>
               declared[VoyageOf[call'[p].command]] = call'[p].command
      PROVE  DeclaredInv'
  <2>1. CompletedTrue'
    BY <1>1 DEF DeclaredInv, CompletedTrue
  <2>2. MadeTrue'
    BY <1>1 DEF DeclaredInv, MadeTrue, Made
  <2>3. MadeOnce'
    BY <1>1 DEF DeclaredInv, MadeOnce, Made
  <2> QED
    BY <2>1, <2>2, <2>3 DEF DeclaredInv
<1>2. ASSUME NEW key \in Keys, NEW command \in Commands, Start(p, key, command)
      PROVE  DeclaredInv'
  <2>1. /\ call'[p].step = "begin"
        /\ \A q \in Calls \ {p} : call'[q] = call[q]
        /\ UNCHANGED <<record, declared>>
    BY <1>2, StartEffect
  <2> QED
    BY <1>1, <2>1 DEF Made
<1>3. ASSUME NEW row, Takes(p, row)
      PROVE  DeclaredInv'
  <2>1. /\ call'[p].step = "declare"
        /\ \A q \in Calls \ {p} : call'[q] = call[q]
        /\ record'[call[p].key] = row /\ row.status = "processing"
        /\ \A k \in Keys \ {call[p].key} : record'[k] = record[k]
        /\ declared' = declared
    BY <1>3, OwnEffect DEF Takes
  <2>2. CompletedTrue'
    BY <2>1 DEF DeclaredInv, CompletedTrue
  <2>3. MadeTrue' /\ MadeOnce'
    BY <2>1 DEF DeclaredInv, MadeTrue, MadeOnce, Made
  <2> QED
    BY <2>2, <2>3 DEF DeclaredInv
<1>4. ASSUME NEW row, NEW result, Settles(p, row, result)
      PROVE  DeclaredInv'
  <2>1. /\ call'[p].step = "returned" /\ call'[p].result = result
        /\ call'[p].command = call[p].command
        /\ \A q \in Calls \ {p} : call'[q] = call[q]
        /\ record'[call[p].key] = row
        /\ \A k \in Keys \ {call[p].key} : record'[k] = record[k]
        /\ declared' = declared
    BY <1>4, SettlesEffect
  <2>2. /\ row.request = call[p].command
        /\ \/ /\ call[p].step = "complete" /\ result = "created"
              /\ row.response = call[p].command
           \/ call[p].step = "fail" /\ result = "error" /\ row.status = "failed"
    BY <1>4 DEF Settles, OwnersInv, Stored
  <2>3. call[p].step = "complete" =>
          declared[VoyageOf[call[p].command]] = call[p].command
    BY DEF DeclaredInv, MadeTrue, Made
  <2>4. CompletedTrue'
    BY <2>1, <2>2, <2>3 DEF DeclaredInv, CompletedTrue
  <2>5. /\ Made(p)' => Made(p)
        /\ \A q \in Calls \ {p} : Made(q)' => Made(q)
        /\ ~(call'[p].step = "returned" /\ call'[p].result = "replayed")
    BY <2>1, <2>2 DEF Made
  <2>6. MadeTrue'
    BY <2>1, <2>5 DEF DeclaredInv, MadeTrue
  <2>7. MadeOnce'
    BY <2>1, <2>5 DEF DeclaredInv, MadeOnce
  <2> QED
    BY <2>4, <2>6, <2>7 DEF DeclaredInv
<1>5. ASSUME NEW result, Quits(p, result)
      PROVE  DeclaredInv'
  <2>1. /\ call'[p].step = "returned" /\ call'[p].result = result
        /\ call'[p].command = call[p].command
        /\ \A q \in Calls \ {p} : call'[q] = call[q]
    BY <1>5, ReturnEffect DEF Quits
  <2>2. result # "created" /\ UNCHANGED <<record, declared>>
    BY <1>5 DEF Quits
  <2>3. result = "replayed" =>
          declared[VoyageOf[call[p].command]] = call[p].command
    BY <1>5 DEF Quits, DeclaredInv, CompletedTrue
  <2> QED
    BY <1>1, <2>1, <2>2, <2>3 DEF Made
<1>6. ASSUME DeclareCommits(p)
      PROVE  DeclaredInv'
  <2> DEFINE command == call[p].command
             v == VoyageOf[command]
  <2>1. /\ call[p].step = "declare" /\ declared[v] = None
        /\ declared' = [declared EXCEPT ![v] = command]
        /\ record' = record
    BY <1>6 DEF DeclareCommits
  <2>2. /\ call'[p].step \in {"complete", "fail"} /\ call'[p].command = command
        /\ \A q \in Calls \ {p} : call'[q] = call[q]
    BY <1>6, DeclareEffect DEF DeclareCommits
  <2>3. command \in Commands /\ v \in Voyages
    BY <2>1, CallFields, CommandAssumption
  <2>4. /\ declared'[v] = command
        /\ \A w \in Voyages \ {v} : declared'[w] = declared[w]
    BY <2>1, <2>3 DEF TypeOK
  <2> HIDE DEF command, v
  <2>5. \A c \in Commands : declared[VoyageOf[c]] = c =>
          VoyageOf[c] # v /\ declared'[VoyageOf[c]] = c
    BY <2>1, <2>4, CommandAssumption, NoneAssumption
  <2>6. CompletedTrue'
    <3>1. \A key \in Keys : record[key].status = "completed" =>
            record[key].request \in Commands
      BY RecordFields DEF Records
    <3> QED
      BY <2>1, <2>5, <3>1 DEF DeclaredInv, CompletedTrue
  <2>7. \A q \in Calls \ {p} : Made(q) =>
          /\ call[q].command \in Commands
          /\ declared[VoyageOf[call[q].command]] = call[q].command
    BY CallFields DEF DeclaredInv, MadeTrue, Made
  <2>8. \A q \in Calls \ {p} :
          call[q].step = "returned" /\ call[q].result = "replayed" =>
          /\ call[q].command \in Commands
          /\ declared[VoyageOf[call[q].command]] = call[q].command
    BY CallFields DEF DeclaredInv, MadeTrue
  <2>9. \A q \in Calls \ {p} : Made(q)' => Made(q)
    BY <2>2 DEF Made
  <2>10. MadeTrue'
    <3>1. declared'[VoyageOf[call'[p].command]] = call'[p].command
      BY <2>2, <2>4 DEF v
    <3>2. ASSUME NEW q \in Calls \ {p},
                 Made(q)' \/ (call'[q].step = "returned"
                                /\ call'[q].result = "replayed")
          PROVE  declared'[VoyageOf[call'[q].command]] = call'[q].command
      BY <2>2, <2>5, <2>7, <2>8, <2>9, <3>2
    <3> QED
      BY <3>1, <3>2 DEF MadeTrue
  <2>11. MadeOnce'
    <3>1. ASSUME NEW q \in Calls \ {p}, Made(q)'
          PROVE  VoyageOf[call'[q].command] # v
      BY <2>2, <2>5, <2>7, <2>9, <3>1
    <3>2. VoyageOf[call'[p].command] = v
      BY <2>2 DEF v
    <3> QED
      BY <2>2, <2>9, <3>1, <3>2 DEF DeclaredInv, MadeOnce
  <2> QED
    BY <2>6, <2>10, <2>11 DEF DeclaredInv
<1>7. ASSUME DeclareError(p)
      PROVE  DeclaredInv'
  <2>1. /\ call'[p].step = "fail"
        /\ \A q \in Calls \ {p} : call'[q] = call[q]
        /\ UNCHANGED <<record, declared>>
    BY <1>7, DeclareEffect DEF DeclareError
  <2> QED
    BY <1>1, <2>1 DEF Made
<1> QED
  BY <1>2, <1>3, <1>4, <1>5, <1>6, <1>7, StepCases, Zenon

\* Only Start brings a call to its transaction, with the clock of the moment.
LEMMA ClockStep ==
  ASSUME TypeOK, ClockRead, NEW p \in Calls, Step(p)
  PROVE  ClockRead'
<1>1. now \in Int
  BY ClockAssumption DEF TypeOK
<1>2. ASSUME NEW key \in Keys, NEW command \in Commands, Start(p, key, command)
      PROVE  ClockRead'
  <2>1. /\ call'[p].createdAt = now /\ now' = now
        /\ \A q \in Calls \ {p} : call'[q] = call[q]
    BY <1>2, StartEffect
  <2> QED
    BY <1>1, <2>1 DEF ClockRead
<1>3. ASSUME call'[p].step # "begin", now' = now,
             \A q \in Calls \ {p} : call'[q] = call[q]
      PROVE  ClockRead'
  BY <1>3 DEF ClockRead
<1>4. ASSUME NEW row, Takes(p, row)
      PROVE  ClockRead'
  BY <1>3, <1>4, OwnEffect DEF Takes
<1>5. ASSUME NEW row, NEW result, Settles(p, row, result)
      PROVE  ClockRead'
  BY <1>3, <1>5, SettlesEffect
<1>6. ASSUME NEW result, Quits(p, result)
      PROVE  ClockRead'
  BY <1>3, <1>6, ReturnEffect DEF Quits
<1>7. ASSUME DeclareCommits(p) \/ DeclareError(p)
      PROVE  ClockRead'
  BY <1>3, <1>7, DeclareEffect DEF DeclareCommits, DeclareError
<1> QED
  BY <1>2, <1>4, <1>5, <1>6, <1>7, StepCases, Zenon

\* A record that is alive now was alive when the call read the clock, and one
\* that was stale then is stale now.
LEMMA EarlierClock ==
  ASSUME NEW row \in Records, NEW at \in Nat, NEW later \in Nat, at <= later
  PROVE  /\ Alive(row, later) => Alive(row, at)
         /\ Stale(row, at) => Stale(row, later)
BY ClockAssumption DEF Records, Alive, Stale

\* A live record is written by a restart, of a failed or stale one, or by the
\* call whose version it carries.
LEMMA GuardedStep ==
  ASSUME IdempotencyInv, NEW p \in Calls, Step(p)
  PROVE  \A key \in Keys : Guarded(key)
<1> USE DEF IdempotencyInv
<1>1. ASSUME record' = record
      PROVE  \A key \in Keys : Guarded(key)
  BY <1>1 DEF Guarded
<1>2. ASSUME NEW row, Takes(p, row)
      PROVE  \A key \in Keys : Guarded(key)
  <2> DEFINE key == call[p].key
  <2>1. /\ record'[key] = row
        /\ \A k \in Keys \ {key} : record'[k] = record[k]
    BY <1>2, OwnEffect DEF Takes
  <2>2. /\ call[p].step = "begin"
        /\ row.request = call[p].command
        /\ Alive(record[key], call[p].createdAt) =>
             /\ record[key].request = call[p].command
             /\ \/ record[key].status = "failed"
                \/ /\ record[key].status = "processing"
                   /\ Stale(record[key], call[p].createdAt)
    BY <1>2 DEF Takes
  <2>3. now \in Nat
    BY ClockAssumption DEF TypeOK
  <2>4. key \in Keys /\ call[p].createdAt \in Nat /\ call[p].createdAt <= now
    BY <2>2, CallFields DEF ClockRead
  <2>5. Alive(record[key], now) => record[key] \in Records
    BY <2>4, RecordFields DEF Alive
  <2>6. Alive(record[key], now) =>
          /\ record[key].request = row.request
          /\ \/ record[key].status = "failed"
             \/ record[key].status = "processing" /\ Stale(record[key], now)
    BY <2>2, <2>3, <2>4, <2>5, EarlierClock
  <2> HIDE DEF key
  <2> QED
    BY <2>1, <2>6 DEF Guarded
<1>3. ASSUME NEW row, NEW result, Settles(p, row, result)
      PROVE  \A key \in Keys : Guarded(key)
  <2> DEFINE key == call[p].key
  <2>1. /\ call'[p].step = "returned"
        /\ record'[key] = row
        /\ \A k \in Keys \ {key} : record'[k] = record[k]
    BY <1>3, SettlesEffect
  <2>2. /\ Working(p) /\ Owned(p) /\ row.request = call[p].stored.request
        /\ call[p].stored.version = record[key].version
    BY <1>3 DEF Settles, Owned
  <2>3. /\ record[key] = call[p].stored
        /\ record[key].status = "processing"
    BY <2>2 DEF OwnersInv, Stored
  <2> QED
    BY <2>1, <2>2, <2>3 DEF Guarded
<1>4. ASSUME NEW key \in Keys, NEW command \in Commands, Start(p, key, command)
      PROVE  record' = record
  BY <1>4 DEF Start
<1>5. ASSUME NEW result, Quits(p, result)
      PROVE  record' = record
  BY <1>5 DEF Quits
<1>6. ASSUME DeclareCommits(p) \/ DeclareError(p)
      PROVE  record' = record
  BY <1>6 DEF DeclareCommits, DeclareError
<1> QED
  BY <1>1, <1>2, <1>3, <1>4, <1>5, <1>6, StepCases, Zenon

-----------------------------------------------------------------------------
(***************************************************************************)
(* The theorems.                                                           *)
(***************************************************************************)
LEMMA IdempotencyInvStep ==
  ASSUME IdempotencyInv, [Next]_vars
  PROVE  IdempotencyInv'
<1> USE DEF IdempotencyInv
<1>1. ASSUME NEW p \in Calls, Step(p)
      PROVE  IdempotencyInv'
  BY <1>1, CallTypeStep, OwnersStep, DeclaredStep, ClockStep
<1>2. CASE Tick
  <2>1. UNCHANGED <<record, declared, call>> /\ now' = now + 1 /\ now < MaxTime
    BY <1>2 DEF Tick
  <2>2. now \in Nat /\ now' \in 0 .. MaxTime
    BY <2>1, ClockAssumption DEF TypeOK
  <2>3. TypeOK'
    BY <2>1, <2>2 DEF TypeOK
  <2>4. OwnersInv' /\ DeclaredInv'
    BY <2>1 DEF OwnersInv, Stored, VersionsApart, Working, DeclaredInv,
                CompletedTrue, MadeTrue, MadeOnce, Made
  <2>5. ClockRead'
    BY <2>1, <2>2, CallFields DEF ClockRead
  <2> QED
    BY <2>3, <2>4, <2>5
<1>3. CASE UNCHANGED vars
  BY <1>3 DEF vars, TypeOK, OwnersInv, Stored, VersionsApart, Working,
              DeclaredInv, CompletedTrue, MadeTrue, MadeOnce, Made, ClockRead
<1> QED
  BY <1>1, <1>2, <1>3 DEF Next

\* It holds before the first call.
LEMMA IdempotencyInvInit == Init => IdempotencyInv
<1> SUFFICES ASSUME Init PROVE IdempotencyInv
  OBVIOUS
<1>1. TypeOK
  BY ClockAssumption DEF Init, TypeOK
<1>2. /\ \A p \in Calls : call[p].step = "waiting"
      /\ \A key \in Keys : record[key].status = "absent"
  BY DEF Init, Waiting, NoRecord
<1>3. OwnersInv /\ DeclaredInv /\ ClockRead
  BY <1>2 DEF OwnersInv, Stored, VersionsApart, Working, DeclaredInv,
              CompletedTrue, MadeTrue, MadeOnce, Made, ClockRead
<1> QED
  BY <1>1, <1>3 DEF IdempotencyInv

\* It always holds.
LEMMA IdempotencyInvAlways == Spec => []IdempotencyInv
<1>1. IdempotencyInv /\ [Next]_vars => IdempotencyInv'
  BY IdempotencyInvStep
<1> QED
  BY <1>1, IdempotencyInvInit, PTL DEF Spec

\* However many calls with one key overlap, die or overtake one another, at
\* most one can still write the outcome of the record, and the record is then
\* in progress for that call's own command (the version compared by
\* CompleteIdempotent and FailIdempotent).
THEOREM RecordHasOneOwner == Spec => []OneOwner
<1>1. IdempotencyInv => OneOwner
  BY DEF IdempotencyInv, OwnersInv, Stored, VersionsApart, OneOwner, Owned
<1> QED
  BY <1>1, IdempotencyInvAlways, PTL

\* No caller is ever told a declaration that did not happen or that another
\* command made, and no two are told that they made the same one.
THEOREM DeclareAnswersTrue == Spec => []AnswersTrue
<1>1. IdempotencyInv => AnswersTrue
  BY DEF IdempotencyInv, DeclaredInv, CompletedTrue, MadeTrue, MadeOnce, Made,
         AnswersTrue
<1> QED
  BY <1>1, IdempotencyInvAlways, PTL

\* While a record lives its key belongs to one request, a completed one never
\* changes, and one in progress that is not stale is written by its owner only.
THEOREM LiveRecordGuarded == Spec => RecordGuarded
<1>1. ASSUME IdempotencyInv, [Next]_vars
      PROVE  [\A key \in Keys : Guarded(key)]_vars
  <2>1. ASSUME NEW p \in Calls, Step(p)
        PROVE  \A key \in Keys : Guarded(key)
    BY <1>1, <2>1, GuardedStep
  <2>2. CASE Tick
    BY <2>2 DEF Tick, Guarded
  <2> QED
    BY <1>1, <2>1, <2>2 DEF Next
<1> QED
  BY <1>1, IdempotencyInvAlways, PTL DEF Spec, RecordGuarded

-----------------------------------------------------------------------------
(***************************************************************************)
(* The worker pool.                                                        *)
(***************************************************************************)

Exited == [step |-> "exited"]
States ==
  [step : {"task"}, task : Tasks]
    \cup [step : {"record"}, task : Tasks, outcome : Outcomes]
    \cup {Receiving, Exited}

PoolTypeOK ==
  /\ caller \in {"loop", "wait", "returned"}
  /\ index \in 1 .. Size + 1
  /\ worker \in [Workers -> States]
  /\ results \in [Tasks -> Outcomes \cup {NoResult, "cancelled"}]
  /\ effects \subseteq Tasks

(***************************************************************************)
(* The inductive invariant.  A task below the index is with exactly one    *)
(* worker or has its result; one at or above it is untouched until the     *)
(* function returns; a task recorded as sent, or about to be recorded so   *)
(* by its worker, took effect; and only tasks below the index did.         *)
(***************************************************************************)
Busy(w) == worker[w].step \in {"task", "record"}
Has(w, i) == Busy(w) /\ worker[w].task = i

WorkersApart ==
  /\ \A w \in Workers : Busy(w) =>
       /\ caller # "returned"
       /\ worker[w].task < index
       /\ results[worker[w].task] = NoResult
  /\ \A v, w \in Workers :
       Busy(v) /\ Busy(w) /\ worker[v].task = worker[w].task => v = w
Accounted ==
  \A i \in Tasks :
    IF i < index THEN results[i] \in Outcomes \/ \E w \in Workers : Has(w, i)
    ELSE results[i] = IF caller = "returned" THEN "cancelled" ELSE NoResult
AboutToSend(w, i) ==
  Has(w, i) /\ worker[w].step = "record" /\ worker[w].outcome = "sent"
EffectsKnown ==
  \A i \in Tasks :
    /\ results[i] = "sent" => i \in effects
    /\ \A w \in Workers : AboutToSend(w, i) => i \in effects
    /\ i \in effects => i < index
NeverCancelled == \A i \in Tasks : i < index => results[i] # "cancelled"
PoolInv ==
  PoolTypeOK /\ WorkersApart /\ Accounted /\ EffectsKnown /\ NeverCancelled

-----------------------------------------------------------------------------
\* The fields a goroutine has at each of its steps.
LEMMA WorkerFields ==
  ASSUME PoolTypeOK, NEW w \in Workers
  PROVE  /\ worker[w].step \in {"receiving", "exited", "task", "record"}
         /\ Busy(w) => worker[w].task \in Tasks
         /\ worker[w].step = "record" => worker[w].outcome \in Outcomes
         /\ worker[w] = Receiving => worker[w].step = "receiving"
<1>1. worker[w] \in States
  BY DEF PoolTypeOK
<1> QED
  BY <1>1 DEF States, Busy, Receiving, Exited

\* The invariant holds at the start.
LEMMA PoolInvInit == PoolInit => PoolInv
<1> SUFFICES ASSUME PoolInit
             PROVE  PoolInv
  OBVIOUS
<1>1. Size \in Nat \ {0}
  BY PoolAssumption DEF ValidBatch
<1>2. PoolTypeOK
  BY <1>1 DEF PoolInit, PoolTypeOK, States, Tasks
<1>3. \A w \in Workers : ~Busy(w)
  BY DEF PoolInit, Busy, Receiving
<1>4. \A i \in Tasks : results[i] = NoResult /\ ~(i < index)
  BY <1>1 DEF PoolInit, Tasks
<1> QED
  BY <1>2, <1>3, <1>4
  DEF PoolInit, PoolInv, WorkersApart, Accounted, EffectsKnown, AboutToSend,
      NeverCancelled, Has, NoResult

\* The caller closes the channel and nothing else changes.
LEMMA CloseStep ==
  ASSUME PoolInv, caller = "loop", caller' = "wait",
         UNCHANGED <<index, worker, results, effects>>
  PROVE  PoolInv'
<1>1. PoolTypeOK'
  BY DEF PoolInv, PoolTypeOK
<1>2. WorkersApart'
  BY DEF PoolInv, WorkersApart, Busy
<1>3. Accounted'
  BY DEF PoolInv, Accounted, Busy, Has
<1>4. EffectsKnown' /\ NeverCancelled'
  BY DEF PoolInv, EffectsKnown, AboutToSend, NeverCancelled, Busy, Has
<1> QED
  BY <1>1, <1>2, <1>3, <1>4 DEF PoolInv

\* HandOut: the task at the index passes to the worker that receives it.
LEMMA HandOutStep ==
  ASSUME PoolInv, NEW w \in Workers, HandOut(w)
  PROVE  PoolInv'
<1> DEFINE new == [step |-> "task", task |-> index]
<1>1. /\ caller = "loop" /\ index <= Size /\ worker[w] = Receiving
      /\ worker' = [worker EXCEPT ![w] = new] /\ index' = index + 1
      /\ UNCHANGED <<caller, results, effects>>
  BY DEF HandOut
<1>2. Size \in Nat /\ index \in Tasks /\ PoolTypeOK
  BY <1>1, PoolAssumption DEF ValidBatch, PoolInv, PoolTypeOK, Tasks
<1>3. new \in States /\ new.step = "task" /\ new.task = index
  BY <1>2 DEF States
<1> HIDE DEF new
<1>4. /\ worker'[w].step = "task" /\ worker'[w].task = index
      /\ \A x \in Workers \ {w} : worker'[x] = worker[x]
  BY <1>1, <1>2, <1>3 DEF PoolTypeOK
<1>5. PoolTypeOK'
  BY <1>1, <1>2, <1>3 DEF PoolTypeOK, Tasks
<1>6. ~Busy(w)
  BY <1>1, <1>2, WorkerFields DEF Busy
<1>7. results[index] = NoResult
  BY <1>1, <1>2 DEF PoolInv, Accounted, Tasks
<1>8. WorkersApart'
  <2>1. \A x \in Workers : Busy(x)' => caller' # "returned" /\ worker'[x].task < index'
                              /\ results'[worker'[x].task] = NoResult
    <3> SUFFICES ASSUME NEW x \in Workers, Busy(x)'
                 PROVE  caller' # "returned" /\ worker'[x].task < index'
                          /\ results'[worker'[x].task] = NoResult
      OBVIOUS
    <3>1. CASE x = w
      BY <1>1, <1>2, <1>4, <1>7, <3>1 DEF Tasks
    <3>2. CASE x # w
      <4>1. Busy(x) /\ worker'[x] = worker[x] /\ worker[x].task \in Tasks
        BY <1>2, <1>4, <3>2, WorkerFields DEF Busy
      <4>2. worker[x].task < index /\ results[worker[x].task] = NoResult
        BY <4>1 DEF PoolInv, WorkersApart
      <4> QED
        BY <1>1, <1>2, <4>1, <4>2 DEF Tasks
    <3> QED
      BY <3>1, <3>2
  <2>2. \A x \in Workers \ {w} : Busy(x)' => worker'[x].task # index
    <3> SUFFICES ASSUME NEW x \in Workers \ {w}, Busy(x)'
                 PROVE  worker'[x].task # index
      OBVIOUS
    <3>1. Busy(x) /\ worker'[x] = worker[x] /\ worker[x].task \in Tasks
      BY <1>2, <1>4, WorkerFields DEF Busy
    <3>2. worker[x].task < index
      BY <3>1 DEF PoolInv, WorkersApart
    <3> QED
      BY <1>2, <3>1, <3>2 DEF Tasks
  <2>3. \A x, y \in Workers :
          Busy(x)' /\ Busy(y)' /\ worker'[x].task = worker'[y].task => x = y
    BY <1>4, <2>2 DEF PoolInv, WorkersApart, Busy
  <2> QED
    BY <2>1, <2>3 DEF WorkersApart, Busy
<1>9. Accounted'
  <2> SUFFICES ASSUME NEW i \in Tasks
               PROVE  IF i < index' THEN results'[i] \in Outcomes \/ \E x \in Workers : Has(x, i)'
                      ELSE results'[i] = IF caller' = "returned" THEN "cancelled" ELSE NoResult
    BY DEF Accounted, Has, Busy
  <2>1. CASE i = index
    <3>1. Has(w, i)'
      BY <1>4, <2>1 DEF Has, Busy
    <3> QED
      BY <1>1, <1>2, <2>1, <3>1 DEF Tasks
  <2>2. CASE i # index
    <3>1. i < index' <=> i < index
      BY <1>1, <1>2, <2>2 DEF Tasks
    <3>2. \A x \in Workers : Has(x, i) => Has(x, i)'
      BY <1>4, <1>6 DEF Has, Busy
    <3> QED
      BY <1>1, <3>1, <3>2 DEF PoolInv, Accounted
  <2> QED
    BY <2>1, <2>2
<1>10. EffectsKnown'
  <2>1. \A x \in Workers, k \in Tasks : AboutToSend(x, k)' => AboutToSend(x, k)
    BY <1>4, <1>6 DEF AboutToSend, Has, Busy
  <2>2. \A k \in Tasks : k < index => k < index'
    BY <1>1, <1>2 DEF Tasks
  <2> QED
    BY <1>1, <2>1, <2>2 DEF PoolInv, EffectsKnown
<1>11. NeverCancelled'
  <2> SUFFICES ASSUME NEW i \in Tasks, i < index'
               PROVE  results'[i] # "cancelled"
    BY DEF NeverCancelled
  <2>1. i < index \/ i = index
    BY <1>1, <1>2 DEF Tasks
  <2> QED
    BY <1>1, <1>7, <2>1 DEF PoolInv, NeverCancelled, NoResult
<1> QED
  BY <1>5, <1>8, <1>9, <1>10, <1>11 DEF PoolInv

\* DoTask: the worker keeps its task and knows how it went.
LEMMA DoTaskStep ==
  ASSUME PoolInv, NEW w \in Workers, DoTask(w)
  PROVE  PoolInv'
<1> PICK i \in Tasks : i = worker[w].task
  BY WorkerFields DEF DoTask, Busy, PoolInv
<1>1. PICK outcome \in Outcomes :
        /\ worker[w].step = "task"
        /\ worker' = [worker EXCEPT ![w] =
                        [step |-> "record", task |-> i, outcome |-> outcome]]
        /\ \/ effects' = effects \cup {i}
           \/ outcome = "error" /\ effects' = effects
        /\ UNCHANGED <<caller, index, results>>
  BY DEF DoTask
<1> DEFINE new == [step |-> "record", task |-> i, outcome |-> outcome]
<1>2. new \in States /\ new.step = "record" /\ new.task = i /\ new.outcome = outcome
  BY DEF States
<1>3. worker' = [worker EXCEPT ![w] = new]
  BY <1>1
<1> HIDE DEF new
<1>4. /\ worker'[w].step = "record" /\ worker'[w].task = i
      /\ worker'[w].outcome = outcome
      /\ \A x \in Workers \ {w} : worker'[x] = worker[x]
  BY <1>2, <1>3 DEF PoolInv, PoolTypeOK
<1>5. PoolTypeOK'
  BY <1>1, <1>2, <1>3 DEF PoolInv, PoolTypeOK
<1>6. \A x \in Workers : /\ Busy(x)' <=> Busy(x)
                         /\ Busy(x) => worker'[x].task = worker[x].task
  BY <1>1, <1>4 DEF Busy
<1>7. WorkersApart'
  BY <1>1, <1>6 DEF PoolInv, WorkersApart
<1>8. \A x \in Workers, k \in Tasks : Has(x, k)' <=> Has(x, k)
  BY <1>6 DEF Has
<1>9. Accounted' /\ NeverCancelled'
  BY <1>1, <1>8 DEF PoolInv, Accounted, NeverCancelled
<1>10. EffectsKnown'
  <2>1. i < index
    BY <1>1 DEF PoolInv, WorkersApart, Busy
  <2>2. \A x \in Workers, k \in Tasks :
          AboutToSend(x, k)' => AboutToSend(x, k) \/ (k = i /\ outcome = "sent")
    BY <1>4, <1>8 DEF AboutToSend, Has
  <2> QED
    BY <1>1, <2>1, <2>2 DEF PoolInv, EffectsKnown
<1> QED
  BY <1>5, <1>7, <1>9, <1>10 DEF PoolInv

\* Record: the result is written where there was none.
LEMMA RecordStep ==
  ASSUME PoolInv, NEW w \in Workers, Record(w)
  PROVE  PoolInv'
<1> PICK i \in Tasks : i = worker[w].task
  BY WorkerFields DEF Record, Busy, PoolInv
<1>1. /\ worker[w].step = "record" /\ worker' = [worker EXCEPT ![w] = Receiving]
      /\ results' = [results EXCEPT ![i] = worker[w].outcome]
      /\ UNCHANGED <<caller, index, effects>>
  BY DEF Record
<1>2. worker[w].outcome \in Outcomes /\ "cancelled" \notin Outcomes
  BY <1>1, WorkerFields DEF PoolInv, Outcomes
<1>3. PoolTypeOK'
  BY <1>1, <1>2 DEF PoolInv, PoolTypeOK, States
<1>4. worker'[w].step = "receiving" /\ \A x \in Workers \ {w} : worker'[x] = worker[x]
  BY <1>1 DEF PoolInv, PoolTypeOK, Receiving
<1>5. results'[i] = worker[w].outcome /\ \A k \in Tasks \ {i} : results'[k] = results[k]
  BY <1>1 DEF PoolInv, PoolTypeOK
<1>6. /\ Has(w, i) /\ results[i] = NoResult /\ i < index
      /\ \A x \in Workers : Has(x, i) => x = w
  BY <1>1 DEF PoolInv, WorkersApart, Has, Busy
<1>7. \A x \in Workers, k \in Tasks : Has(x, k)' <=> Has(x, k) /\ x # w
  BY <1>4 DEF Has, Busy
<1>8. WorkersApart'
  <2> SUFFICES ASSUME NEW x \in Workers, Busy(x)'
               PROVE  /\ caller' # "returned" /\ worker'[x].task < index'
                      /\ results'[worker'[x].task] = NoResult
                      /\ \A y \in Workers :
                           Busy(y)' /\ worker'[x].task = worker'[y].task => x = y
    BY DEF WorkersApart, Busy
  <2>1. x # w /\ Busy(x) /\ worker'[x] = worker[x] /\ worker[x].task \in Tasks
    BY <1>4, WorkerFields DEF Busy, PoolInv
  <2>2. worker[x].task # i
    BY <1>6, <2>1 DEF Has
  <2>3. \A y \in Workers : Busy(y)' => Busy(y) /\ worker'[y] = worker[y]
    BY <1>4 DEF Busy
  <2> QED
    BY <1>1, <1>5, <2>1, <2>2, <2>3 DEF PoolInv, WorkersApart
<1>9. Accounted'
  <2> SUFFICES ASSUME NEW k \in Tasks
               PROVE  IF k < index' THEN results'[k] \in Outcomes \/ \E x \in Workers : Has(x, k)'
                      ELSE results'[k] = IF caller' = "returned" THEN "cancelled" ELSE NoResult
    BY DEF Accounted, Has, Busy
  <2>1. CASE k = i
    BY <1>1, <1>2, <1>5, <1>6, <2>1
  <2>2. CASE k # i
    <3>1. \A x \in Workers : Has(x, k)' <=> Has(x, k)
      BY <1>6, <1>7, <2>2 DEF Has
    <3> QED
      BY <1>1, <1>5, <2>2, <3>1 DEF PoolInv, Accounted
  <2> QED
    BY <2>1, <2>2
<1>10. EffectsKnown'
  <2>1. worker[w].outcome = "sent" => i \in effects
    BY <1>1, <1>6 DEF PoolInv, EffectsKnown, AboutToSend
  <2>2. \A x \in Workers, k \in Tasks : AboutToSend(x, k)' => AboutToSend(x, k)
    BY <1>4, <1>7 DEF AboutToSend
  <2> QED
    BY <1>1, <1>5, <2>1, <2>2 DEF PoolInv, EffectsKnown
<1>11. NeverCancelled'
  BY <1>1, <1>2, <1>5 DEF PoolInv, NeverCancelled
<1> QED
  BY <1>3, <1>8, <1>9, <1>10, <1>11 DEF PoolInv

\* Exit: a worker without a task leaves.
LEMMA ExitStep ==
  ASSUME PoolInv, NEW w \in Workers, Exit(w)
  PROVE  PoolInv'
<1>1. /\ worker[w] = Receiving /\ worker' = [worker EXCEPT ![w] = Exited]
      /\ UNCHANGED <<caller, index, results, effects>>
  BY DEF Exit, Exited
<1>2. PoolTypeOK'
  BY <1>1 DEF PoolInv, PoolTypeOK, States
<1>3. worker'[w].step = "exited" /\ \A x \in Workers \ {w} : worker'[x] = worker[x]
  BY <1>1 DEF PoolInv, PoolTypeOK, Exited
<1>4. ~Busy(w) /\ ~Busy(w)'
  BY <1>1, <1>3 DEF Busy, Receiving
<1>5. \A x \in Workers : Busy(x)' <=> Busy(x)
  BY <1>3, <1>4 DEF Busy
<1>6. \A x \in Workers : Busy(x) => worker'[x] = worker[x]
  BY <1>3, <1>4
<1>7. WorkersApart'
  BY <1>1, <1>5, <1>6 DEF PoolInv, WorkersApart
<1>8. \A x \in Workers, k \in Tasks : Has(x, k)' <=> Has(x, k)
  BY <1>5, <1>6 DEF Has
<1>9. Accounted' /\ NeverCancelled'
  BY <1>1, <1>8 DEF PoolInv, Accounted, NeverCancelled
<1>10. EffectsKnown'
  BY <1>1, <1>6, <1>8 DEF PoolInv, EffectsKnown, AboutToSend, Has
<1> QED
  BY <1>2, <1>7, <1>9, <1>10 DEF PoolInv

\* ReturnResults: when all have left, only what was not handed out has no result.
LEMMA ReturnStep ==
  ASSUME PoolInv, ReturnResults
  PROVE  PoolInv'
<1>1. /\ caller = "wait" /\ caller' = "returned" /\ AllExited
      /\ results' = [i \in Tasks |-> IF i \in Unsent THEN "cancelled" ELSE results[i]]
      /\ UNCHANGED <<index, worker, effects>>
  BY DEF ReturnResults
<1>2. \A w \in Workers : ~Busy(w) /\ ~Busy(w)'
  BY <1>1 DEF AllExited, Busy
<1>3. \A i \in Tasks : i \in Unsent <=> ~(i < index)
  BY PoolAssumption DEF Unsent, Tasks, PoolInv, PoolTypeOK, ValidBatch
<1>4. PoolTypeOK'
  BY <1>1 DEF PoolInv, PoolTypeOK
<1>5. WorkersApart'
  BY <1>2 DEF WorkersApart
<1>6. Accounted' /\ NeverCancelled'
  BY <1>1, <1>2, <1>3 DEF PoolInv, Accounted, NeverCancelled, Has
<1>7. \A i \in Tasks : results'[i] = "sent" <=> results[i] = "sent"
  BY <1>1, <1>3 DEF PoolInv, Accounted, NoResult
<1>8. EffectsKnown'
  BY <1>1, <1>2, <1>7 DEF PoolInv, EffectsKnown, AboutToSend, Has
<1> QED
  BY <1>4, <1>5, <1>6, <1>8 DEF PoolInv

\* Every step of the caller and the workers keeps it.
LEMMA PoolInvStep == PoolInv /\ [PoolNext]_poolVars => PoolInv'
<1> SUFFICES ASSUME PoolInv, [PoolNext]_poolVars
             PROVE  PoolInv'
  OBVIOUS
<1>1. CASE UNCHANGED <<caller, index, worker, results, effects>>
  BY <1>1 DEF PoolInv, PoolTypeOK, WorkersApart, Accounted, EffectsKnown,
     NeverCancelled, AboutToSend, Has, Busy
<1>2. CASE StopEarly \/ CloseJobs
  BY <1>2, CloseStep DEF StopEarly, CloseJobs
<1> QED
  BY <1>1, <1>2, HandOutStep, DoTaskStep, RecordStep, ExitStep, ReturnStep
  DEF PoolNext, CancelPool, Call, Work, poolVars

\* It always holds.
LEMMA PoolInvAlways == PoolSpec => []PoolInv
BY PoolInvInit, PoolInvStep, PTL DEF PoolSpec

\* What Dispatch and DeclareBatch return is true for any number of tasks and
\* goroutines, however the context's cancellation falls among the sends on the
\* channel: every task has a result, those reported as sent took effect, and
\* those reported as cancelled were never handed out and did not.
THEOREM ReportIsTrue == PoolSpec => []ReportTrue
<1>1. PoolInv => ReportTrue
  <2> SUFFICES ASSUME PoolInv, caller = "returned", NEW i \in Tasks
               PROVE  /\ results[i] # NoResult
                      /\ results[i] = "sent" => i \in effects
                      /\ results[i] = "cancelled" => i >= index /\ i \notin effects
    BY DEF ReportTrue
  <2>1. \A w \in Workers : ~Busy(w)
    BY DEF PoolInv, WorkersApart
  <2>2. IF i < index THEN results[i] \in Outcomes ELSE results[i] = "cancelled"
    BY <2>1 DEF PoolInv, Accounted, Has
  <2>3. i \in Int /\ index \in Int
    BY DEF PoolInv, PoolTypeOK, Tasks
  <2> QED
    BY <2>2, <2>3 DEF PoolInv, EffectsKnown, Outcomes, NoResult
<1> QED
  BY <1>1, PoolInvAlways, PTL

\* The goroutines may write the shared slice without a lock: no two of them ever
\* have the same index, each is the first to write there, and after the return
\* none is left that writes.
THEOREM SliceIsUnshared == PoolSpec => []SliceNeedsNoLock
<1>1. PoolInv => SliceNeedsNoLock
  BY DEF PoolInv, WorkersApart, SliceNeedsNoLock, Busy
<1> QED
  BY <1>1, PoolInvAlways, PTL
=============================================================================
