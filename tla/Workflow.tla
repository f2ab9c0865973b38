------------------------------ MODULE Workflow ------------------------------
(***************************************************************************)
(* The requests of AtomicWorkflow as the code runs them: each is a         *)
(* database transaction (store.Database.WithTx) that reads a snapshot,     *)
(* decides on it, and commits while others have committed in between.      *)
(*                                                                         *)
(* Begin... is the callback up to its last read.  It records the inputs    *)
(* and the rows it read; the instant `at' was taken by the HTTP handler or *)
(* sent by the caller before that, so it bears no relation to the order of *)
(* the transactions.  Commit... makes the writes visible.  It is possible  *)
(* only if PostgreSQL lets every statement through, and that is all the    *)
(* model asks of the database:                                             *)
(*   - a row that was read FOR UPDATE has not changed since the snapshot   *)
(*     (error 40001 otherwise; after it is read it stays locked);          *)
(*   - the keys and the UNIQUE and EXCLUDE constraints of the migrations   *)
(*     hold against what is committed.                                     *)
(* The predicate locks of SERIALIZABLE may only turn a commit into an      *)
(* abort, which Abort allows at any time, so nothing here relies on them.  *)
(* Abort is every other end of a transaction: an error of a rule or a      *)
(* constraint, a cancelled context, a crash.  WithTx never retries.        *)
(***************************************************************************)
EXTENDS AtomicWorkflow

CONSTANTS Requests    \* the requests that may run at the same time

VARIABLES tx          \* request -> what its open transaction has read

vars == <<tables, tx>>

Idle == [op |-> "idle"]

\* What an open transaction carries: its inputs and the rows it read.
Previous == Events \cup {NoEvent}
DeclareTx ==
  [op : {"declare"}, tenant : Tenants, v : VoyageIDs, at : Instants,
   previous : Previous]
OpenTx ==
  [op : {"open"}, tenant : Tenants, v : VoyageIDs, i : InspectionIDs,
   kind : Kinds, at : Instants, voyage : Voyages, previous : Previous]
ReleaseTx ==
  [op : {"release"}, tenant : Tenants, v : VoyageIDs, i : InspectionIDs,
   at : Instants, voyage : Voyages, inspection : Inspections, previous : Previous]
ReserveTx ==
  [op : {"reserve"}, tenant : Tenants, v : VoyageIDs, r : ReservationIDs,
   chamber : Chambers, starts : WindowTimes, ends : WindowTimes, at : Instants,
   voyage : Voyages, previous : Previous]
MoveTx ==
  [op : {"move"}, tenant : Tenants, r : ReservationIDs, next : SlotStatuses,
   at : Instants, reservation : Reservations, previous : Previous]

TxTypeOK ==
  tx \in [Requests -> DeclareTx \cup OpenTx \cup ReleaseTx \cup ReserveTx
                        \cup MoveTx \cup {Idle}]

-----------------------------------------------------------------------------
(***************************************************************************)
(* Beginning: the checks on the snapshot.                                  *)
(***************************************************************************)
\* appendAuditTx reads the predecessor from the snapshot: the advisory lock
\* it takes first may make it wait, but does not renew the snapshot.
BeginDeclareVoyage(p, user, v, at) ==
  /\ tx[p] = Idle
  /\ CanDeclare(user, v, at)
  /\ \E previous \in LastEvent(user.tenant) :
       /\ AppendOK(previous, user.tenant, at)
       /\ tx' = [tx EXCEPT ![p] =
                   [op |-> "declare", tenant |-> user.tenant, v |-> v, at |-> at,
                    previous |-> previous]]
  /\ UNCHANGED tables

BeginOpenInspection(p, user, v, i, kind, at) ==
  /\ tx[p] = Idle
  /\ CanOpenInspection(user, v, i, at)
  /\ \E previous \in LastEvent(user.tenant) :
       /\ AppendOK(previous, user.tenant, at)
       /\ tx' = [tx EXCEPT ![p] =
                   [op |-> "open", tenant |-> user.tenant, v |-> v, i |-> i,
                    kind |-> kind, at |-> at, voyage |-> voyages[v],
                    previous |-> previous]]
  /\ UNCHANGED tables

BeginPassInspection(p, user, v, i, at) ==
  /\ tx[p] = Idle
  /\ CanRelease(user, v, i, at)
  /\ \E previous \in LastEvent(user.tenant) :
       /\ AppendOK(previous, user.tenant, at)
       /\ tx' = [tx EXCEPT ![p] =
                   [op |-> "release", tenant |-> user.tenant, v |-> v, i |-> i,
                    at |-> at, voyage |-> voyages[v],
                    inspection |-> inspections[i], previous |-> previous]]
  /\ UNCHANGED tables

BeginReservePassage(p, user, v, r, chamber, starts, ends, at) ==
  /\ tx[p] = Idle
  /\ CanReserve(user, v, r, chamber, starts, ends, at)
  /\ \E previous \in LastEvent(user.tenant) :
       /\ AppendOK(previous, user.tenant, at)
       /\ tx' = [tx EXCEPT ![p] =
                   [op |-> "reserve", tenant |-> user.tenant, v |-> v, r |-> r,
                    chamber |-> chamber, starts |-> starts, ends |-> ends,
                    at |-> at, voyage |-> voyages[v], previous |-> previous]]
  /\ UNCHANGED tables

BeginMovePassage(p, user, r, next, at) ==
  /\ tx[p] = Idle
  /\ CanMove(user, r, next, at)
  /\ \E previous \in LastEvent(user.tenant) :
       /\ AppendOK(previous, user.tenant, at)
       /\ tx' = [tx EXCEPT ![p] =
                   [op |-> "move", tenant |-> user.tenant, r |-> r, next |-> next,
                    at |-> at, reservation |-> reservations[r],
                    previous |-> previous]]
  /\ UNCHANGED tables

-----------------------------------------------------------------------------
(***************************************************************************)
(* Committing: the database's conditions, then the writes.                 *)
(***************************************************************************)
\* The rows read FOR UPDATE are still the ones of the snapshot.
VoyageUnchanged(v, voyage) == voyages[v] = voyage
InspectionUnchanged(i, inspection) == inspections[i] = inspection
ReservationUnchanged(r, reservation) == reservations[r] = reservation

\* The primary keys of the rows a request inserts.
VoyageKeyFree(v) == ~Present(voyages[v])
InspectionKeyFree(i) == ~Present(inspections[i])
ReservationKeyFree(r) == ~Present(reservations[r])

\* Fault: the table has no such constraint.
NoExclusion(chamber, starts, ends) == TRUE

\* EXCLUDE USING gist (chamber_id WITH =, tstzrange(...) WITH &&).
NoExclusionConflict(chamber, starts, ends) ==
  \A r \in ReservationIDs :
    /\ Present(reservations[r])
    /\ reservations[r].chamber = chamber
    /\ reservations[r].status # "cancelled"
    => reservations[r].ends <= starts \/ ends <= reservations[r].starts

\* Fault: the key alone.
AuditIDFree(previous, id, tenant) == \A e \in audit : e.id # id

\* audit_events: the key and UNIQUE (tenant_id, sequence).
AuditKeysFree(previous, id, tenant) ==
  \A e \in audit : e.id # id /\ ~(e.tenant = tenant /\ e.seq = previous.seq + 1)

\* outbox_jobs: the key.
JobKeyFree(id) == \A job \in outbox : job.id # id

\* passage_movements: UNIQUE (reservation_id, status).
MovementKeyFree(r, next) ==
  \A m \in movements : ~(m.reservation = r /\ m.status = next)

End(p) == tx' = [tx EXCEPT ![p] = Idle]

CommitDeclareVoyage(p) ==
  LET t == tx[p] IN
  /\ t.op = "declare"
  /\ VoyageKeyFree(t.v)
  /\ AuditKeysFree(t.previous, <<"declare", t.v>>, t.tenant)
  /\ JobKeyFree(<<"declare", t.v>>)
  /\ WriteDeclare(t.v, t.tenant, t.at, t.previous)
  /\ End(p)

CommitOpenInspection(p) ==
  LET t == tx[p] IN
  /\ t.op = "open"
  /\ VoyageUnchanged(t.v, t.voyage)
  /\ InspectionKeyFree(t.i)
  /\ AuditKeysFree(t.previous, <<"inspection-open", t.i>>, t.tenant)
  /\ WriteOpenInspection(t.v, t.i, t.kind, t.tenant, t.at, t.voyage,
                         t.previous)
  /\ End(p)

CommitPassInspection(p) ==
  LET t == tx[p] IN
  /\ t.op = "release"
  /\ VoyageUnchanged(t.v, t.voyage)
  /\ InspectionUnchanged(t.i, t.inspection)
  /\ AuditKeysFree(t.previous, <<"release", t.v>>, t.tenant)
  /\ JobKeyFree(<<"release", t.v>>)
  /\ WriteRelease(t.v, t.i, t.tenant, t.at, t.voyage, t.inspection,
                  t.previous)
  /\ End(p)

CommitReservePassage(p) ==
  LET t == tx[p] IN
  /\ t.op = "reserve"
  /\ VoyageUnchanged(t.v, t.voyage)
  /\ ReservationKeyFree(t.r)
  /\ NoExclusionConflict(t.chamber, t.starts, t.ends)
  /\ AuditKeysFree(t.previous, <<"reserve", t.r>>, t.tenant)
  /\ WriteReserve(t.v, t.r, t.tenant, t.chamber, t.starts, t.ends, t.at,
                  t.voyage, t.previous)
  /\ End(p)

CommitMovePassage(p) ==
  LET t == tx[p] IN
  /\ t.op = "move"
  /\ ReservationUnchanged(t.r, t.reservation)
  /\ MovementKeyFree(t.r, t.next)
  /\ AuditKeysFree(t.previous, <<t.next, t.r>>, t.tenant)
  /\ WriteMove(t.r, t.next, t.tenant, t.at, t.reservation, t.previous)
  /\ End(p)

Abort(p) ==
  /\ tx[p] # Idle
  /\ End(p)
  /\ UNCHANGED tables

-----------------------------------------------------------------------------
Init == AtomicInit /\ tx = [p \in Requests |-> Idle]

Begin(p) ==
  \E at \in Instants :
    \/ \E user \in Declarers, v \in VoyageIDs :
         BeginDeclareVoyage(p, user, v, at)
    \/ \E user \in Officers, v \in VoyageIDs, i \in InspectionIDs,
          kind \in Kinds : BeginOpenInspection(p, user, v, i, kind, at)
    \/ \E user \in Officers, v \in VoyageIDs, i \in InspectionIDs :
         BeginPassInspection(p, user, v, i, at)
    \/ \E user \in Dispatchers, v \in VoyageIDs, r \in ReservationIDs,
          chamber \in Chambers, starts \in WindowTimes, ends \in WindowTimes :
         BeginReservePassage(p, user, v, r, chamber, starts, ends, at)
    \/ \E user \in LockOperators, r \in ReservationIDs, next \in SlotStatuses :
         BeginMovePassage(p, user, r, next, at)

Commit(p) ==
  \/ CommitDeclareVoyage(p)
  \/ CommitOpenInspection(p)
  \/ CommitPassInspection(p)
  \/ CommitReservePassage(p)
  \/ CommitMovePassage(p)

Next == \E p \in Requests : Begin(p) \/ Commit(p) \/ Abort(p)

Spec == Init /\ [][Next]_vars

-----------------------------------------------------------------------------
\* The workflow is serializable with no help from the predicate locks of the
\* isolation level: whatever has committed since its snapshot, a transaction
\* that gets through the row locks and the constraints writes what the whole
\* request would have written had it run alone at the moment of its commit.
Serializable == [][AtomicNext]_tables

=============================================================================
