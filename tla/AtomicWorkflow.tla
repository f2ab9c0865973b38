--------------------------- MODULE AtomicWorkflow ---------------------------
(***************************************************************************)
(* What the workflow half of CanalClear promises (internal/store           *)
(* workflow.go and passage_operations.go over internal/clearance,          *)
(* internal/passage and internal/audit): every request that succeeds takes *)
(* effect at one instant, on the tables as they are at that instant.       *)
(*                                                                         *)
(* The tables are the state.  The rules of the domain packages are pairs   *)
(* of operators: XxxOK is the condition under which the Go function        *)
(* returns no error and Xxx the row it then returns.  A request that fails *)
(* writes nothing, so it is no step.  Module Workflow runs the same        *)
(* requests as concurrent database transactions and implements this one.   *)
(***************************************************************************)
EXTENDS Integers, FiniteSets

CONSTANTS
  Tenants,        \* tenant ids
  VoyageIDs,      \* ids a carrier may declare; the key spans the tenants
  InspectionIDs,
  ReservationIDs,
  Chambers,       \* lock chambers, shared by the tenants
  Kinds,          \* kinds of inspection
  MaxTime,        \* the latest instant a request may carry (a bound)
  MaxWindow,      \* the latest instant a reserved window reaches (a bound)
  EntryLead,      \* how early a vessel may enter: 15 minutes in the code
  MaxPassage,     \* the longest passage: 3 hours in the code
  Maintenance     \* the maintenance windows of each chamber

ASSUME TimeAssumption ==
  /\ MaxTime \in Nat /\ MaxWindow \in Nat
  /\ EntryLead \in Nat /\ MaxPassage \in Nat

ASSUME MaintenanceAssumption ==
  Maintenance \in [Chambers -> SUBSET [from : Nat, to : Nat]]

VARIABLES
  voyages,        \* table voyages: id -> row, with its manifests row
  inspections,    \* table inspections: id -> row
  reservations,   \* table passage_reservations: id -> row
  movements,      \* table passage_movements: the set of rows
  audit,          \* table audit_events: the set of rows
  outbox          \* table outbox_jobs: the set of jobs ever enqueued

tables == <<voyages, inspections, reservations, movements, audit, outbox>>

-----------------------------------------------------------------------------
(***************************************************************************)
(* Rows.  Times are numbers and 0 is Go's zero time, or NULL.  The tuple   *)
(* <<action, id>> stands for the text "audit-<action>-<id>".               *)
(***************************************************************************)
ZeroTime == 0
Instants == 0 .. MaxTime
WindowTimes == 0 .. MaxWindow

Roles == {"carrier", "dispatcher", "customs", "lock", "auditor"}
Users == [tenant : Tenants, role : Roles]
\* Who passes the role check with which a request starts.
Declarers == {user \in Users : user.role \in {"carrier", "dispatcher"}}
Officers == {user \in Users : user.role = "customs"}
Dispatchers == {user \in Users : user.role = "dispatcher"}
LockOperators == {user \in Users : user.role = "lock"}

VoyageStatuses == {"draft", "declared", "held", "cleared", "scheduled",
                   "in_transit", "completed", "cancelled"}
SlotStatuses == {"reserved", "confirmed", "entered", "exited", "cancelled"}

\* Rows of the tables, and the absence of one.
NoRow == [status |-> "absent"]
Present(row) == row.status # "absent"

Voyages ==
  [tenant : Tenants, status : VoyageStatuses, manifest : {"none", "hash"},
   declaredAt : Nat, clearedAt : Nat, version : Nat]
Inspections ==
  [voyage : VoyageIDs, kind : Kinds, status : {"open", "passed", "failed"},
   openedAt : Nat, closedAt : Nat, version : Nat]
Reservations ==
  [voyage : VoyageIDs, tenant : Tenants, chamber : Chambers,
   starts : Nat, ends : Nat, status : SlotStatuses, version : Nat]
Movements ==
  [reservation : ReservationIDs, status : SlotStatuses, at : Nat]

EventIDs ==
  ({"declare", "release"} \X VoyageIDs)
    \cup ({"inspection-open"} \X InspectionIDs)
    \cup (({"reserve"} \cup SlotStatuses) \X ReservationIDs)
\* The zero Event's empty ID and hash, the predecessor of a first event.
NoID == <<"none", "none">>
Events ==
  [id : EventIDs, tenant : Tenants, seq : Nat, prev : EventIDs \cup {NoID},
   at : Nat]
NoEvent == [id |-> NoID, seq |-> 0, at |-> ZeroTime]
Jobs == [id : {"declare", "release"} \X VoyageIDs, tenant : Tenants,
         availableAt : Nat]

TypeOK ==
  /\ voyages \in [VoyageIDs -> Voyages \cup {NoRow}]
  /\ inspections \in [InspectionIDs -> Inspections \cup {NoRow}]
  /\ reservations \in [ReservationIDs -> Reservations \cup {NoRow}]
  /\ movements \subseteq Movements
  /\ audit \subseteq Events
  /\ outbox \subseteq Jobs

-----------------------------------------------------------------------------
(***************************************************************************)
(* The rules of internal/clearance.                                        *)
(*                                                                         *)
(* A definition marked "Fault" is a plausible bug in the code that the     *)
(* next definition models.  The specification does not use it: put in the  *)
(* place of that definition it must make a property fail.                  *)
(***************************************************************************)
NewVoyage(tenant) ==
  [tenant |-> tenant, status |-> "draft", manifest |-> "none",
   declaredAt |-> ZeroTime, clearedAt |-> ZeroTime, version |-> 1]

DeclareOK(voyage, at) == voyage.status = "draft" /\ at # ZeroTime
Declare(voyage, at) ==
  [voyage EXCEPT !.status = "declared", !.manifest = "hash",
                 !.declaredAt = at, !.version = @ + 1]

\* Fault: a released voyage may be inspected again.
OpenInspectionReopens(voyage, at) ==
  voyage.status \in {"declared", "cleared"} /\ at # ZeroTime
OpenInspectionOK(voyage, at) == voyage.status = "declared" /\ at # ZeroTime
NewInspection(v, kind, at) ==
  [voyage |-> v, kind |-> kind, status |-> "open", openedAt |-> at,
   closedAt |-> ZeroTime, version |-> 1]
Hold(voyage) == [voyage EXCEPT !.status = "held", !.version = @ + 1]

CloseInspectionOK(inspection, at) ==
  inspection.status = "open" /\ at >= inspection.openedAt
\* Fault: a status the table does not know.
CloseInspectionClosed(inspection, at) ==
  [inspection EXCEPT !.status = "closed", !.closedAt = at, !.version = @ + 1]
\* The workflow only ever closes with passed = true.
CloseInspection(inspection, at) ==
  [inspection EXCEPT !.status = "passed", !.closedAt = at, !.version = @ + 1]

\* The inspections of voyage v, which listInspectionsTx reads.
InspectionsOf(v) ==
  {i \in InspectionIDs : Present(inspections[i]) /\ inspections[i].voyage = v}

\* Inspection i of the list is read back as the transaction just wrote it.
ReleaseOK(voyage, list, i) ==
  /\ voyage.status \in {"declared", "held"}
  /\ voyage.manifest # "none"
  /\ list # {}
  /\ \A j \in list \ {i} : inspections[j].status = "passed"
Release(voyage, at) ==
  [voyage EXCEPT !.status = "cleared", !.clearedAt = at, !.version = @ + 1]

\* Which status may follow which (the table of clearance.Transition).
Allowed ==
  {<<"draft", "declared">>, <<"draft", "cancelled">>,
   <<"declared", "held">>, <<"declared", "cleared">>,
   <<"declared", "cancelled">>, <<"held", "cleared">>,
   <<"held", "cancelled">>, <<"cleared", "scheduled">>,
   <<"cleared", "cancelled">>, <<"scheduled", "in_transit">>,
   <<"scheduled", "cancelled">>, <<"in_transit", "completed">>}
TransitionOK(voyage, next, at) ==
  <<voyage.status, next>> \in Allowed /\ at # ZeroTime
Transition(voyage, next) ==
  [voyage EXCEPT !.status = next, !.version = @ + 1]

-----------------------------------------------------------------------------
(***************************************************************************)
(* The rules of internal/passage.                                          *)
(***************************************************************************)
Overlaps(leftStart, leftEnd, rightStart, rightEnd) ==
  leftStart < rightEnd /\ rightStart < leftEnd

\* The rows listReservationsTx reads: every tenant's, cancelled ones not.
ListReservations(chamber, starts, ends) ==
  {r \in ReservationIDs :
     /\ Present(reservations[r])
     /\ reservations[r].chamber = chamber
     /\ reservations[r].status # "cancelled"
     /\ reservations[r].starts < ends
     /\ reservations[r].ends > starts}

\* Reserve, for a vessel that fits the chamber.
WindowOK(chamber, starts, ends) ==
  /\ ends > starts
  /\ ends - starts <= MaxPassage
  /\ \A w \in Maintenance[chamber] : ~Overlaps(starts, ends, w.from, w.to)
ReserveOK(chamber, starts, ends, existing) ==
  /\ WindowOK(chamber, starts, ends)
  /\ \A r \in existing :
       ~Overlaps(starts, ends, reservations[r].starts, reservations[r].ends)
Reserve(v, tenant, chamber, starts, ends) ==
  [voyage |-> v, tenant |-> tenant, chamber |-> chamber, starts |-> starts,
   ends |-> ends, status |-> "reserved", version |-> 1]
Confirm(reservation) ==
  [reservation EXCEPT !.status = "confirmed", !.version = @ + 1]

\* Fault: the beginning of the window is not compared.
EnterAnyTime(reservation, at) ==
  reservation.status = "confirmed" /\ at < reservation.ends
EnterOK(reservation, at) ==
  /\ reservation.status = "confirmed"
  /\ at >= reservation.starts - EntryLead
  /\ at < reservation.ends
ExitOK(reservation, at) ==
  reservation.status = "entered" /\ at >= reservation.starts
CancelOK(reservation, at) ==
  /\ reservation.status \in {"reserved", "confirmed"}
  /\ at < reservation.starts
\* BuildMovement: the rule of the requested status, any other is invalid.
MoveOK(reservation, next, at) ==
  /\ at # ZeroTime
  /\ \/ next = "entered" /\ EnterOK(reservation, at)
     \/ next = "exited" /\ ExitOK(reservation, at)
     \/ next = "cancelled" /\ CancelOK(reservation, at)
Move(reservation, next) ==
  [reservation EXCEPT !.status = next, !.version = @ + 1]

-----------------------------------------------------------------------------
(***************************************************************************)
(* The rules of internal/audit.  An event's id is its table's key, so it   *)
(* stands for the event's hash: the link to the predecessor is its id.     *)
(***************************************************************************)
\* The row appendAuditTx reads: the tenant's event of highest sequence.
LastEvent(tenant) ==
  IF \A e \in audit : e.tenant # tenant
    THEN {NoEvent}
    ELSE {e \in audit : /\ e.tenant = tenant
                        /\ \A f \in audit : f.tenant = tenant => f.seq <= e.seq}

\* Fault: the time of the predecessor is not compared.
AppendAnyTime(previous, tenant, at) ==
  at # ZeroTime /\ (previous # NoEvent => previous.tenant = tenant)
AppendOK(previous, tenant, at) ==
  /\ at # ZeroTime
  /\ previous # NoEvent => previous.tenant = tenant /\ at >= previous.at
AppendEvent(previous, id, tenant, at) ==
  [id |-> id, tenant |-> tenant, seq |-> previous.seq + 1,
   prev |-> previous.id, at |-> at]

-----------------------------------------------------------------------------
(***************************************************************************)
(* The writes of each request, from the rows it read.  Everything a        *)
(* transaction writes becomes visible in this one step.                    *)
(***************************************************************************)
\* Fault: the voyage is looked up by its id alone.
VoyageOfAnyTenant(tenant, v) == Present(voyages[v])

\* getVoyageTx and getReservationTx find rows of the caller's tenant only.
VoyageFound(tenant, v) == Present(voyages[v]) /\ voyages[v].tenant = tenant
ReservationFound(tenant, r) ==
  Present(reservations[r]) /\ reservations[r].tenant = tenant

AppendAudit(previous, id, tenant, at) ==
  audit' = audit \cup {AppendEvent(previous, id, tenant, at)}
Enqueue(id, tenant, at) ==
  outbox' = outbox \cup {[id |-> id, tenant |-> tenant, availableAt |-> at]}

WriteDeclare(v, tenant, at, previous) ==
  /\ voyages' = [voyages EXCEPT ![v] = Declare(NewVoyage(tenant), at)]
  /\ AppendAudit(previous, <<"declare", v>>, tenant, at)
  /\ Enqueue(<<"declare", v>>, tenant, at)
  /\ UNCHANGED <<inspections, reservations, movements>>

WriteOpenInspection(v, i, kind, tenant, at, voyage, previous) ==
  /\ voyages' = [voyages EXCEPT ![v] = Hold(voyage)]
  /\ inspections' = [inspections EXCEPT ![i] = NewInspection(v, kind, at)]
  /\ AppendAudit(previous, <<"inspection-open", i>>, tenant, at)
  /\ UNCHANGED <<reservations, movements, outbox>>

\* Fault: no job is enqueued for the release.
WriteReleaseSilent(v, i, tenant, at, voyage, inspection, previous) ==
  /\ voyages' = [voyages EXCEPT ![v] = Release(voyage, at)]
  /\ inspections' = [inspections EXCEPT ![i] = CloseInspection(inspection, at)]
  /\ AppendAudit(previous, <<"release", v>>, tenant, at)
  /\ UNCHANGED <<reservations, movements, outbox>>

WriteRelease(v, i, tenant, at, voyage, inspection, previous) ==
  /\ voyages' = [voyages EXCEPT ![v] = Release(voyage, at)]
  /\ inspections' = [inspections EXCEPT ![i] = CloseInspection(inspection, at)]
  /\ AppendAudit(previous, <<"release", v>>, tenant, at)
  /\ Enqueue(<<"release", v>>, tenant, at)
  /\ UNCHANGED <<reservations, movements>>

\* Fault: the voyage is not saved after its transition.
WriteReserveOnly(v, r, tenant, chamber, starts, ends, at, voyage, previous) ==
  /\ reservations' = [reservations EXCEPT ![r] =
                        Confirm(Reserve(v, tenant, chamber, starts, ends))]
  /\ AppendAudit(previous, <<"reserve", r>>, tenant, at)
  /\ UNCHANGED <<voyages, inspections, movements, outbox>>

WriteReserve(v, r, tenant, chamber, starts, ends, at, voyage, previous) ==
  /\ voyages' = [voyages EXCEPT ![v] = Transition(voyage, "scheduled")]
  /\ reservations' = [reservations EXCEPT ![r] =
                        Confirm(Reserve(v, tenant, chamber, starts, ends))]
  /\ AppendAudit(previous, <<"reserve", r>>, tenant, at)
  /\ UNCHANGED <<inspections, movements, outbox>>

WriteMove(r, next, tenant, at, reservation, previous) ==
  /\ reservations' = [reservations EXCEPT ![r] = Move(reservation, next)]
  /\ movements' = movements \cup
                    {[reservation |-> r, status |-> next, at |-> at]}
  /\ AppendAudit(previous, <<next, r>>, tenant, at)
  /\ UNCHANGED <<voyages, inspections, outbox>>

-----------------------------------------------------------------------------
(***************************************************************************)
(* The conditions each request checks before it appends its audit event.   *)
(***************************************************************************)
CanDeclare(user, v, at) ==
  /\ DeclareOK(NewVoyage(user.tenant), at)
  /\ ~Present(voyages[v])

CanOpenInspection(user, v, i, at) ==
  /\ VoyageFound(user.tenant, v)
  /\ OpenInspectionOK(voyages[v], at)
  /\ ~Present(inspections[i])

CanRelease(user, v, i, at) ==
  /\ Present(inspections[i])
  /\ v = inspections[i].voyage
  /\ VoyageFound(user.tenant, v)
  /\ CloseInspectionOK(inspections[i], at)
  /\ ReleaseOK(voyages[v], InspectionsOf(v), i)

CanReserve(user, v, r, chamber, starts, ends, at) ==
  /\ at # ZeroTime
  /\ VoyageFound(user.tenant, v)
  /\ voyages[v].status = "cleared"
  /\ ReserveOK(chamber, starts, ends, ListReservations(chamber, starts, ends))
  /\ ~Present(reservations[r])
  /\ TransitionOK(voyages[v], "scheduled", starts)

CanMove(user, r, next, at) ==
  /\ ReservationFound(user.tenant, r)
  /\ MoveOK(reservations[r], next, at)

-----------------------------------------------------------------------------
(***************************************************************************)
(* The requests.                                                           *)
(***************************************************************************)
DeclareVoyage(user, v, at) ==
  /\ CanDeclare(user, v, at)
  /\ \E previous \in LastEvent(user.tenant) :
       /\ AppendOK(previous, user.tenant, at)
       /\ WriteDeclare(v, user.tenant, at, previous)

OpenInspection(user, v, i, kind, at) ==
  /\ CanOpenInspection(user, v, i, at)
  /\ \E previous \in LastEvent(user.tenant) :
       /\ AppendOK(previous, user.tenant, at)
       /\ WriteOpenInspection(v, i, kind, user.tenant, at, voyages[v], previous)

PassInspectionAndRelease(user, v, i, at) ==
  /\ CanRelease(user, v, i, at)
  /\ \E previous \in LastEvent(user.tenant) :
       /\ AppendOK(previous, user.tenant, at)
       /\ WriteRelease(v, i, user.tenant, at, voyages[v], inspections[i], previous)

ReservePassage(user, v, r, chamber, starts, ends, at) ==
  /\ CanReserve(user, v, r, chamber, starts, ends, at)
  /\ \E previous \in LastEvent(user.tenant) :
       /\ AppendOK(previous, user.tenant, at)
       /\ WriteReserve(v, r, user.tenant, chamber, starts, ends, at, voyages[v],
                       previous)

MovePassage(user, r, next, at) ==
  /\ CanMove(user, r, next, at)
  /\ \E previous \in LastEvent(user.tenant) :
       /\ AppendOK(previous, user.tenant, at)
       /\ WriteMove(r, next, user.tenant, at, reservations[r], previous)

AtomicInit ==
  /\ voyages = [v \in VoyageIDs |-> NoRow]
  /\ inspections = [i \in InspectionIDs |-> NoRow]
  /\ reservations = [r \in ReservationIDs |-> NoRow]
  /\ movements = {}
  /\ audit = {}
  /\ outbox = {}

AtomicNext ==
  \E at \in Instants :
    \/ \E user \in Declarers, v \in VoyageIDs : DeclareVoyage(user, v, at)
    \/ \E user \in Officers, v \in VoyageIDs, i \in InspectionIDs,
          kind \in Kinds : OpenInspection(user, v, i, kind, at)
    \/ \E user \in Officers, v \in VoyageIDs, i \in InspectionIDs :
         PassInspectionAndRelease(user, v, i, at)
    \/ \E user \in Dispatchers, v \in VoyageIDs, r \in ReservationIDs,
          chamber \in Chambers, starts \in WindowTimes, ends \in WindowTimes :
         ReservePassage(user, v, r, chamber, starts, ends, at)
    \/ \E user \in LockOperators, r \in ReservationIDs, next \in SlotStatuses :
         MovePassage(user, r, next, at)

AtomicSpec == AtomicInit /\ [][AtomicNext]_tables

-----------------------------------------------------------------------------
(***************************************************************************)
(* Safety.                                                                 *)
(***************************************************************************)
\* A lock chamber is never promised twice: whatever the tenants, two
\* reservations of one chamber that are not cancelled have disjoint windows
\* (the check of passage.Reserve and the EXCLUDE constraint of
\* passage_reservations).
ChamberExclusive ==
  \A r, s \in ReservationIDs :
    /\ r # s
    /\ Present(reservations[r]) /\ Present(reservations[s])
    /\ reservations[r].status # "cancelled"
    /\ reservations[s].status # "cancelled"
    /\ reservations[r].chamber = reservations[s].chamber
    => \/ reservations[r].ends <= reservations[s].starts
       \/ reservations[s].ends <= reservations[r].starts

\* The status of a voyage and its inspections agree: a declared voyage has
\* none, a held one has an open one, and a voyage that was released
\* (clearance.Release) has inspections and has passed every one of them,
\* also after later requests.  Opening is possible once, so there is only one.
ReleaseGated ==
  \A v \in VoyageIDs :
    LET list == InspectionsOf(v) IN
    /\ \A i, j \in list : i = j
    /\ voyages[v].status \in {"absent", "declared"} => list = {}
    /\ voyages[v].status = "held" =>
         \E i \in list : inspections[i].status = "open"
    /\ voyages[v].status \in {"cleared", "scheduled"} =>
         list # {} /\ \A i \in list : inspections[i].status = "passed"

\* Dispatchers reserve only after release, and once: every reservation is
\* for a scheduled voyage of its own tenant, every scheduled voyage has one,
\* and no voyage has two (ReservePassage moves the voyage on in the same
\* transaction as it inserts the reservation).
OneBooking ==
  /\ \A r \in ReservationIDs : Present(reservations[r]) =>
       /\ voyages[reservations[r].voyage].status = "scheduled"
       /\ voyages[reservations[r].voyage].tenant = reservations[r].tenant
  /\ \A r, s \in ReservationIDs :
       /\ Present(reservations[r]) /\ Present(reservations[s])
       /\ reservations[r].voyage = reservations[s].voyage
       => r = s
  /\ \A v \in VoyageIDs : voyages[v].status = "scheduled" =>
       \E r \in ReservationIDs :
         Present(reservations[r]) /\ reservations[r].voyage = v

\* The audit chain of each tenant never forks and never has a gap: no two
\* events share a sequence, every sequence below an event's is taken, an
\* event is linked to the one before it, and time does not run backwards
\* along the chain (what audit.Verify recomputes, and the order audit.Append
\* enforces on one predecessor at a time).
SequencesUnique ==
  \A e, f \in audit : e.tenant = f.tenant /\ e.seq = f.seq => e = f
SequencesContiguous ==
  \A e \in audit : e.seq >= 1 /\ \A n \in 1 .. e.seq :
    \E f \in audit : f.tenant = e.tenant /\ f.seq = n
EventsLinked ==
  \A e \in audit :
    \/ e.seq = 1 /\ e.prev = NoID
    \/ \E f \in audit :
         f.tenant = e.tenant /\ f.seq = e.seq - 1 /\ f.id = e.prev
TimesOrdered ==
  \A e, f \in audit : e.tenant = f.tenant /\ e.seq <= f.seq => e.at <= f.at
AuditChain ==
  SequencesUnique /\ SequencesContiguous /\ EventsLinked /\ TimesOrdered

\* The events that the rows of the tables call for, each with its tenant.
EventsDue ==
  {<<<<"declare", v>>, voyages[v].tenant>> :
     v \in {w \in VoyageIDs : Present(voyages[w])}}
  \cup
  {<<<<"release", v>>, voyages[v].tenant>> :
     v \in {w \in VoyageIDs : voyages[w].status \in {"cleared", "scheduled"}}}
  \cup
  {<<<<"inspection-open", i>>, voyages[inspections[i].voyage].tenant>> :
     i \in {j \in InspectionIDs : Present(inspections[j])}}
  \cup
  {<<<<"reserve", r>>, reservations[r].tenant>> :
     r \in {s \in ReservationIDs : Present(reservations[s])}}
  \cup
  {<<<<m.status, m.reservation>>, reservations[m.reservation].tenant>> :
     m \in movements}

\* Every write is audited in the chain of the tenant that owns the row, and
\* nothing is audited twice or without being written: no request commits its rows
\* without its event or its event without its rows, and none leaves an
\* event in the chain of another tenant.
AuditMatchesTables ==
  /\ {<<e.id, e.tenant>> : e \in audit} = EventsDue
  /\ \A e, f \in audit : e.id = f.id => e = f

\* The jobs that the rows call for: one for each voyage declared, one for each
\* released, of the owning tenant, available from the moment the row records.
JobsDue ==
  {[id |-> <<"declare", v>>, tenant |-> voyages[v].tenant,
    availableAt |-> voyages[v].declaredAt] :
     v \in {w \in VoyageIDs : Present(voyages[w])}}
  \cup
  {[id |-> <<"release", v>>, tenant |-> voyages[v].tenant,
    availableAt |-> voyages[v].clearedAt] :
     v \in {w \in VoyageIDs : voyages[w].status \in {"cleared", "scheduled"}}}

\* A declaration or release that committed is announced, exactly once, and
\* nothing is announced that was not committed; later writes of the row do not
\* betray the job.  What other workflows announce is left open: the README
\* claims an outbox event of every one, the code writes none for them.
OutboxMatchesTables ==
  {job \in outbox : job.id[1] \in {"declare", "release"}} = JobsDue

\* The movements of a reservation tell its status, in the order they
\* happened: an exit follows its own entry in time although passage.Exit
\* compares it with the start of the window only, and a cancelled slot was
\* never entered.
MovementsMatchStatus ==
  /\ \A m \in movements : Present(reservations[m.reservation])
  /\ \A m, n \in movements :
       m.reservation = n.reservation /\ m.status = n.status => m = n
  /\ \A r \in ReservationIDs : Present(reservations[r]) =>
       LET status == reservations[r].status
           moved == {m \in movements : m.reservation = r}
       IN {m.status : m \in moved} =
            CASE status = "exited" -> {"entered", "exited"}
              [] status = "confirmed" -> {}
              [] OTHER -> {status}
  /\ \A m, n \in movements :
       /\ m.reservation = n.reservation
       /\ m.status = "entered" /\ n.status = "exited"
       => m.at <= n.at

\* A vessel enters in its own time: inside its window or in the EntryLead
\* before it, and never inside the window of another reservation that stands
\* unless it came in its lead, whatever was reserved or cancelled since.
EntryInOwnWindow ==
  \A m \in movements : m.status = "entered" =>
    LET own == reservations[m.reservation] IN
    /\ own.starts - EntryLead <= m.at /\ m.at < own.ends
    /\ \A r \in ReservationIDs \ {m.reservation} :
         /\ Present(reservations[r]) /\ reservations[r].status # "cancelled"
         /\ reservations[r].chamber = own.chamber
         /\ reservations[r].starts <= m.at /\ m.at < reservations[r].ends
         => m.at < own.starts

\* Every write of a voyage row is a step of the transition table, although
\* Declare, OpenInspection and Release assign the status without consulting
\* it; it moves the version by one, and never changes the owner or the
\* declaration of a row that exists, nor deletes one.
VoyageStep(v) ==
  voyages[v]' # voyages[v] =>
    LET old == IF Present(voyages[v]) THEN voyages[v]
                                      ELSE NewVoyage(voyages[v]'.tenant)
        new == voyages[v]'
    IN /\ <<old.status, new.status>> \in Allowed
       /\ new.version = old.version + 1
       /\ new.tenant = old.tenant
       /\ Present(voyages[v]) => new.declaredAt = old.declaredAt

TransitionsAllowed == [][\A v \in VoyageIDs : VoyageStep(v)]_tables

=============================================================================
