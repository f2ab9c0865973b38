--------------------------- MODULE WorkflowProofs ---------------------------
(***************************************************************************)
(* Proofs about the workflow, for all tenants, ids, chambers and times:    *)
(* first of AtomicWorkflow, where each request is one step; then that      *)
(* Workflow implements it, so that concurrent transactions that pass the   *)
(* row locks and the constraints of the schema behave as if each request   *)
(* ran alone at the moment it commits.  The safety of the tables follows.  *)
(***************************************************************************)
EXTENDS Workflow, TLAPS

\* One of the five requests of a user, at a given instant.
RequestOf(user, at) ==
  \/ \E v \in VoyageIDs : DeclareVoyage(user, v, at)
  \/ \E v \in VoyageIDs, i \in InspectionIDs, kind \in Kinds :
       OpenInspection(user, v, i, kind, at)
  \/ \E v \in VoyageIDs, i \in InspectionIDs :
       PassInspectionAndRelease(user, v, i, at)
  \/ \E v \in VoyageIDs, r \in ReservationIDs, chamber \in Chambers,
        starts \in Nat, ends \in Nat :
       ReservePassage(user, v, r, chamber, starts, ends, at)
  \/ \E r \in ReservationIDs, next \in SlotStatuses :
       MovePassage(user, r, next, at)

\* One step of AtomicWorkflow is one of the requests of some user.
LEMMA AtomicCases ==
  ASSUME AtomicNext
  PROVE  \E user \in Users, at \in Nat : RequestOf(user, at)
<1>1. Instants \subseteq Nat /\ WindowTimes \subseteq Nat
  BY TimeAssumption DEF Instants, WindowTimes
<1>2. /\ Declarers \subseteq Users /\ Officers \subseteq Users
      /\ Dispatchers \subseteq Users /\ LockOperators \subseteq Users
  BY DEF Declarers, Officers, Dispatchers, LockOperators
<1>3. PICK at \in Instants :
        \/ \E user \in Declarers, v \in VoyageIDs : DeclareVoyage(user, v, at)
        \/ \E user \in Officers, v \in VoyageIDs, i \in InspectionIDs,
              kind \in Kinds : OpenInspection(user, v, i, kind, at)
        \/ \E user \in Officers, v \in VoyageIDs, i \in InspectionIDs :
             PassInspectionAndRelease(user, v, i, at)
        \/ \E user \in Dispatchers, v \in VoyageIDs, r \in ReservationIDs,
              chamber \in Chambers, starts \in WindowTimes, ends \in WindowTimes :
             ReservePassage(user, v, r, chamber, starts, ends, at)
        \/ \E user \in LockOperators, r \in ReservationIDs,
              next \in SlotStatuses : MovePassage(user, r, next, at)
  BY Zenon DEF AtomicNext
<1>4. at \in Nat
  BY <1>1
<1>5. CASE \E user \in Declarers, v \in VoyageIDs : DeclareVoyage(user, v, at)
  BY <1>2, <1>4, <1>5, Zenon DEF RequestOf
<1>6. CASE \E user \in Officers, v \in VoyageIDs, i \in InspectionIDs,
              kind \in Kinds : OpenInspection(user, v, i, kind, at)
  BY <1>2, <1>4, <1>6, Zenon DEF RequestOf
<1>7. CASE \E user \in Officers, v \in VoyageIDs, i \in InspectionIDs :
             PassInspectionAndRelease(user, v, i, at)
  BY <1>2, <1>4, <1>7, Zenon DEF RequestOf
<1>8. CASE \E user \in Dispatchers, v \in VoyageIDs, r \in ReservationIDs,
              chamber \in Chambers, starts \in WindowTimes, ends \in WindowTimes :
             ReservePassage(user, v, r, chamber, starts, ends, at)
  BY <1>1, <1>2, <1>4, <1>8, Zenon DEF RequestOf
<1>9. CASE \E user \in LockOperators, r \in ReservationIDs,
              next \in SlotStatuses : MovePassage(user, r, next, at)
  BY <1>2, <1>4, <1>9, Zenon DEF RequestOf
<1> QED
  BY <1>3, <1>5, <1>6, <1>7, <1>8, <1>9

-----------------------------------------------------------------------------
(***************************************************************************)
(* Type correctness.                                                       *)
(***************************************************************************)
\* What appendAuditTx reads is nothing, and then the tenant has no event, or
\* the tenant's event of highest sequence.
LEMMA LastEventIs ==
  ASSUME NEW tenant \in Tenants, NEW previous \in LastEvent(tenant)
  PROVE  \/ /\ previous = NoEvent
            /\ \A e \in audit : e.tenant # tenant
         \/ /\ previous \in audit /\ previous.tenant = tenant
            /\ \A f \in audit : f.tenant = tenant => f.seq <= previous.seq
BY DEF LastEvent

\* The event audit.Append returns is a row of audit_events.
LEMMA AppendType ==
  ASSUME NEW tenant \in Tenants, NEW previous \in Events \cup {NoEvent},
         NEW id \in EventIDs, NEW at \in Nat
  PROVE  AppendEvent(previous, id, tenant, at) \in Events
<1>1. previous.seq \in Nat /\ previous.id \in EventIDs \cup {NoID}
  BY DEF Events, NoEvent
<1> QED
  BY <1>1 DEF AppendEvent, Events

\* Each request's audit id is an event id.
LEMMA EventIDsOf ==
  /\ \A v \in VoyageIDs :
       <<"declare", v>> \in EventIDs /\ <<"release", v>> \in EventIDs
  /\ \A i \in InspectionIDs : <<"inspection-open", i>> \in EventIDs
  /\ \A r \in ReservationIDs : <<"reserve", r>> \in EventIDs
  /\ \A r \in ReservationIDs, next \in SlotStatuses : <<next, r>> \in EventIDs
BY DEF EventIDs

\* The audit table keeps its type when a request appends its event.
LEMMA AuditTypeStep ==
  ASSUME audit \subseteq Events, NEW tenant \in Tenants,
         NEW previous \in LastEvent(tenant), NEW id \in EventIDs,
         NEW at \in Nat, AppendAudit(previous, id, tenant, at)
  PROVE  audit' \subseteq Events
<1>1. previous \in Events \cup {NoEvent}
  BY LastEventIs
<1>2. AppendEvent(previous, id, tenant, at) \in Events
  BY <1>1, AppendType
<1> QED
  BY <1>2 DEF AppendAudit

\* The row a rule returns: its type, and the fields it sets and keeps.
LEMMA DeclareRow ==
  ASSUME NEW tenant \in Tenants, NEW at \in Nat
  PROVE  LET new == Declare(NewVoyage(tenant), at) IN
         /\ new \in Voyages
         /\ new.status = "declared" /\ new.tenant = tenant
         /\ new.manifest = "hash" /\ new.declaredAt = at /\ new.version = 2
<1>1. NewVoyage(tenant) \in Voyages /\ NewVoyage(tenant).version = 1
  BY DEF NewVoyage, Voyages, VoyageStatuses, ZeroTime
<1>2. NewVoyage(tenant).version + 1 \in Nat
  BY <1>1
<1>3. Declare(NewVoyage(tenant), at) \in Voyages
  BY <1>1, <1>2 DEF Declare, Voyages, VoyageStatuses
<1> QED
  BY <1>3 DEF Declare, NewVoyage

\* clearance.OpenInspection holds a voyage: status and version change, no more.
LEMMA HoldRow ==
  ASSUME NEW voyage \in Voyages
  PROVE  LET new == Hold(voyage) IN
         /\ new \in Voyages
         /\ new.status = "held" /\ new.tenant = voyage.tenant
         /\ new.declaredAt = voyage.declaredAt /\ new.manifest = voyage.manifest
         /\ new.clearedAt = voyage.clearedAt
         /\ new.version = voyage.version + 1
<1>1. voyage.version + 1 \in Nat
  BY DEF Voyages
<1> QED
  BY <1>1 DEF Hold, Voyages, VoyageStatuses

\* clearance.Release clears a voyage: status, time and version change, no more.
LEMMA ReleaseRow ==
  ASSUME NEW voyage \in Voyages, NEW at \in Nat
  PROVE  LET new == Release(voyage, at) IN
         /\ new \in Voyages
         /\ new.status = "cleared" /\ new.tenant = voyage.tenant
         /\ new.declaredAt = voyage.declaredAt /\ new.manifest = voyage.manifest
         /\ new.clearedAt = at
         /\ new.version = voyage.version + 1
<1>1. voyage.version + 1 \in Nat
  BY DEF Voyages
<1> QED
  BY <1>1 DEF Release, Voyages, VoyageStatuses

\* clearance.Transition to "scheduled": status and version change, no more.
LEMMA ScheduleRow ==
  ASSUME NEW voyage \in Voyages
  PROVE  LET new == Transition(voyage, "scheduled") IN
         /\ new \in Voyages
         /\ new.status = "scheduled" /\ new.tenant = voyage.tenant
         /\ new.declaredAt = voyage.declaredAt /\ new.manifest = voyage.manifest
         /\ new.clearedAt = voyage.clearedAt
         /\ new.version = voyage.version + 1
<1>1. voyage.version + 1 \in Nat
  BY DEF Voyages
<1> QED
  BY <1>1 DEF Transition, Voyages, VoyageStatuses

\* CloseInspection keeps the voyage of an inspection and marks it as passed.
LEMMA CloseRow ==
  ASSUME NEW inspection \in Inspections, NEW at \in Nat
  PROVE  LET new == CloseInspection(inspection, at) IN
         /\ new \in Inspections
         /\ new.status = "passed" /\ new.voyage = inspection.voyage
         /\ new.openedAt = inspection.openedAt /\ new.closedAt = at
<1>1. inspection.version + 1 \in Nat
  BY DEF Inspections
<1> QED
  BY <1>1 DEF CloseInspection, Inspections

\* passage.Reserve and Confirm make a confirmed row of the requested window.
LEMMA ReserveRow ==
  ASSUME NEW v \in VoyageIDs, NEW tenant \in Tenants, NEW chamber \in Chambers,
         NEW starts \in Nat, NEW ends \in Nat
  PROVE  LET new == Confirm(Reserve(v, tenant, chamber, starts, ends)) IN
         /\ new \in Reservations
         /\ new.status = "confirmed" /\ new.voyage = v /\ new.tenant = tenant
         /\ new.chamber = chamber /\ new.starts = starts /\ new.ends = ends
<1> DEFINE first == Reserve(v, tenant, chamber, starts, ends)
<1>1. /\ first \in Reservations /\ first.voyage = v /\ first.tenant = tenant
      /\ first.chamber = chamber /\ first.starts = starts /\ first.ends = ends
  BY DEF Reserve, Reservations, SlotStatuses
<1> HIDE DEF first
<1>2. first.version + 1 \in Nat
  BY <1>1 DEF Reservations
<1>3. /\ Confirm(first) \in Reservations
      /\ Confirm(first).status = "confirmed"
      /\ Confirm(first).voyage = first.voyage
      /\ Confirm(first).tenant = first.tenant
      /\ Confirm(first).chamber = first.chamber
      /\ Confirm(first).starts = first.starts
      /\ Confirm(first).ends = first.ends
  BY <1>1, <1>2 DEF Confirm, Reservations, SlotStatuses
<1> QED
  BY <1>1, <1>3 DEF first

\* A movement keeps voyage, tenant, chamber and window of a reservation.
LEMMA MoveRow ==
  ASSUME NEW reservation \in Reservations, NEW next \in SlotStatuses
  PROVE  LET new == Move(reservation, next) IN
         /\ new \in Reservations
         /\ new.status = next
         /\ new.voyage = reservation.voyage /\ new.tenant = reservation.tenant
         /\ new.chamber = reservation.chamber
         /\ new.starts = reservation.starts /\ new.ends = reservation.ends
<1>1. reservation.version + 1 \in Nat
  BY DEF Reservations
<1> QED
  BY <1>1 DEF Move, Reservations

\* Every request keeps the rows of every table well formed.
LEMMA TypeStep ==
  ASSUME TypeOK, AtomicNext
  PROVE  TypeOK'
<1>1. PICK user \in Users, at \in Nat : RequestOf(user, at)
  BY AtomicCases
<1>2. user.tenant \in Tenants
  BY DEF Users
<1>3. ASSUME NEW v \in VoyageIDs, DeclareVoyage(user, v, at)
      PROVE  TypeOK'
  <2>1. PICK previous \in LastEvent(user.tenant) :
          WriteDeclare(v, user.tenant, at, previous)
    BY <1>3 DEF DeclareVoyage
  <2>2. Declare(NewVoyage(user.tenant), at) \in Voyages
    BY <1>2, DeclareRow
  <2>3. voyages' \in [VoyageIDs -> Voyages \cup {NoRow}]
    BY <2>1, <2>2 DEF WriteDeclare, TypeOK
  <2>4. audit' \subseteq Events
    BY <1>2, <2>1, AuditTypeStep, EventIDsOf DEF WriteDeclare, TypeOK
  <2>5. outbox' \subseteq Jobs
    BY <1>2, <2>1 DEF WriteDeclare, Enqueue, TypeOK, Jobs
  <2> QED
    BY <2>1, <2>3, <2>4, <2>5 DEF WriteDeclare, TypeOK
<1>4. ASSUME NEW v \in VoyageIDs, NEW i \in InspectionIDs, NEW kind \in Kinds,
             OpenInspection(user, v, i, kind, at)
      PROVE  TypeOK'
  <2>1. PICK previous \in LastEvent(user.tenant) :
          WriteOpenInspection(v, i, kind, user.tenant, at, voyages[v], previous)
    BY <1>4 DEF OpenInspection
  <2>2. voyages[v] \in Voyages
    BY <1>4 DEF OpenInspection, CanOpenInspection, VoyageFound, Present,
                TypeOK, NoRow
  <2>3. Hold(voyages[v]) \in Voyages
    BY <2>2, HoldRow
  <2>4. NewInspection(v, kind, at) \in Inspections
    BY DEF NewInspection, Inspections, ZeroTime
  <2>5. /\ voyages' \in [VoyageIDs -> Voyages \cup {NoRow}]
        /\ inspections' \in [InspectionIDs -> Inspections \cup {NoRow}]
    BY <2>1, <2>3, <2>4 DEF WriteOpenInspection, TypeOK
  <2>6. audit' \subseteq Events
    BY <1>2, <2>1, AuditTypeStep, EventIDsOf DEF WriteOpenInspection, TypeOK
  <2> QED
    BY <2>1, <2>5, <2>6 DEF WriteOpenInspection, TypeOK
<1>5. ASSUME NEW v \in VoyageIDs, NEW i \in InspectionIDs,
             PassInspectionAndRelease(user, v, i, at)
      PROVE  TypeOK'
  <2>1. PICK previous \in LastEvent(user.tenant) :
          WriteRelease(v, i, user.tenant, at, voyages[v], inspections[i], previous)
    BY <1>5 DEF PassInspectionAndRelease
  <2>2. voyages[v] \in Voyages /\ inspections[i] \in Inspections
    BY <1>5 DEF PassInspectionAndRelease, CanRelease, VoyageFound, Present,
                TypeOK, NoRow
  <2>3. Release(voyages[v], at) \in Voyages
    BY <2>2, ReleaseRow
  <2>4. CloseInspection(inspections[i], at) \in Inspections
    BY <2>2, CloseRow
  <2>5. /\ voyages' \in [VoyageIDs -> Voyages \cup {NoRow}]
        /\ inspections' \in [InspectionIDs -> Inspections \cup {NoRow}]
    BY <2>1, <2>3, <2>4 DEF WriteRelease, TypeOK
  <2>6. audit' \subseteq Events
    BY <1>2, <2>1, AuditTypeStep, EventIDsOf DEF WriteRelease, TypeOK
  <2>7. outbox' \subseteq Jobs
    BY <1>2, <2>1 DEF WriteRelease, Enqueue, TypeOK, Jobs
  <2> QED
    BY <2>1, <2>5, <2>6, <2>7 DEF WriteRelease, TypeOK
<1>6. ASSUME NEW v \in VoyageIDs, NEW r \in ReservationIDs,
             NEW chamber \in Chambers, NEW starts \in Nat, NEW ends \in Nat,
             ReservePassage(user, v, r, chamber, starts, ends, at)
      PROVE  TypeOK'
  <2>1. PICK previous \in LastEvent(user.tenant) :
          WriteReserve(v, r, user.tenant, chamber, starts, ends, at,
                       voyages[v], previous)
    BY <1>6 DEF ReservePassage
  <2>2. voyages[v] \in Voyages
    BY <1>6 DEF ReservePassage, CanReserve, VoyageFound, Present, TypeOK, NoRow
  <2>3. Transition(voyages[v], "scheduled") \in Voyages
    BY <2>2, ScheduleRow
  <2>4. Confirm(Reserve(v, user.tenant, chamber, starts, ends)) \in Reservations
    BY <1>2, ReserveRow
  <2>5. /\ voyages' \in [VoyageIDs -> Voyages \cup {NoRow}]
        /\ reservations' \in [ReservationIDs -> Reservations \cup {NoRow}]
    BY <2>1, <2>3, <2>4 DEF WriteReserve, TypeOK
  <2>6. audit' \subseteq Events
    BY <1>2, <2>1, AuditTypeStep, EventIDsOf DEF WriteReserve, TypeOK
  <2> QED
    BY <2>1, <2>5, <2>6 DEF WriteReserve, TypeOK
<1>7. ASSUME NEW r \in ReservationIDs, NEW next \in SlotStatuses,
             MovePassage(user, r, next, at)
      PROVE  TypeOK'
  <2>1. PICK previous \in LastEvent(user.tenant) :
          WriteMove(r, next, user.tenant, at, reservations[r], previous)
    BY <1>7 DEF MovePassage
  <2>2. reservations[r] \in Reservations
    BY <1>7 DEF MovePassage, CanMove, ReservationFound, Present, TypeOK, NoRow
  <2>3. Move(reservations[r], next) \in Reservations
    BY <2>2, MoveRow
  <2>4. reservations' \in [ReservationIDs -> Reservations \cup {NoRow}]
    BY <2>1, <2>3 DEF WriteMove, TypeOK
  <2>5. movements' \subseteq Movements
    BY <2>1 DEF WriteMove, TypeOK, Movements
  <2>6. audit' \subseteq Events
    BY <1>2, <2>1, AuditTypeStep, EventIDsOf DEF WriteMove, TypeOK
  <2> QED
    BY <2>1, <2>4, <2>5, <2>6 DEF WriteMove, TypeOK
<1> QED
  BY <1>1, <1>3, <1>4, <1>5, <1>6, <1>7, Zenon DEF RequestOf

\* Every table always holds well-formed rows only, for every number of
\* tenants, ids and instants: no request of internal/store writes a status,
\* an owner or a version that the schema's readers do not know.
THEOREM AtomicTypeCorrect == AtomicSpec => []TypeOK
<1>1. AtomicInit => TypeOK
  BY DEF AtomicInit, TypeOK
<1>2. TypeOK /\ [AtomicNext]_tables => TypeOK'
  <2>1. CASE AtomicNext
    BY <2>1, TypeStep
  <2>2. CASE UNCHANGED tables
    BY <2>2 DEF tables, TypeOK
  <2> QED
    BY <2>1, <2>2
<1> QED
  BY <1>1, <1>2, PTL DEF AtomicSpec

-----------------------------------------------------------------------------
(***************************************************************************)
(* What each request reads and writes, row by row.                         *)
(***************************************************************************)
LEMMA DeclareEffect ==
  ASSUME TypeOK, NEW user \in Users, NEW at \in Nat, NEW v \in VoyageIDs,
         DeclareVoyage(user, v, at)
  PROVE  /\ voyages[v].status = "absent"
         /\ voyages'[v].status = "declared"
         /\ voyages'[v].tenant = user.tenant
         /\ voyages'[v].declaredAt = at /\ voyages'[v].version = 2
         /\ \A w \in VoyageIDs \ {v} : voyages'[w] = voyages[w]
         /\ UNCHANGED <<inspections, reservations, movements>>
<1>1. user.tenant \in Tenants
  BY DEF Users
<1>2. PICK previous : WriteDeclare(v, user.tenant, at, previous)
  BY DEF DeclareVoyage
<1>3. voyages[v].status = "absent"
  BY DEF DeclareVoyage, CanDeclare, Present
<1>4. voyages'[v] = Declare(NewVoyage(user.tenant), at)
  BY <1>2 DEF WriteDeclare, TypeOK
<1>5. \A w \in VoyageIDs \ {v} : voyages'[w] = voyages[w]
  BY <1>2 DEF WriteDeclare, TypeOK
<1> QED
  BY <1>1, <1>2, <1>3, <1>4, <1>5, DeclareRow DEF WriteDeclare

\* What OpenInspection does to the tables, as facts about single rows.
LEMMA OpenEffect ==
  ASSUME TypeOK, NEW user \in Users, NEW at \in Nat, NEW v \in VoyageIDs,
         NEW i \in InspectionIDs, NEW kind \in Kinds,
         OpenInspection(user, v, i, kind, at)
  PROVE  /\ voyages[v] \in Voyages
         /\ voyages[v].status = "declared" /\ voyages[v].tenant = user.tenant
         /\ inspections[i].status = "absent"
         /\ voyages'[v].status = "held"
         /\ voyages'[v].tenant = voyages[v].tenant
         /\ voyages'[v].declaredAt = voyages[v].declaredAt
         /\ voyages'[v].version = voyages[v].version + 1
         /\ inspections'[i].status = "open" /\ inspections'[i].voyage = v
         /\ inspections'[i].openedAt = at
         /\ \A w \in VoyageIDs \ {v} : voyages'[w] = voyages[w]
         /\ \A j \in InspectionIDs \ {i} : inspections'[j] = inspections[j]
         /\ UNCHANGED <<reservations, movements>>
<1>1. PICK previous :
        WriteOpenInspection(v, i, kind, user.tenant, at, voyages[v], previous)
  BY DEF OpenInspection
<1>2. /\ voyages[v] \in Voyages
      /\ voyages[v].status = "declared" /\ voyages[v].tenant = user.tenant
      /\ inspections[i].status = "absent"
  BY DEF OpenInspection, CanOpenInspection, VoyageFound, OpenInspectionOK,
         Present, TypeOK, NoRow
<1>3. voyages'[v] = Hold(voyages[v])
  BY <1>1 DEF WriteOpenInspection, TypeOK
<1>4. inspections'[i] = NewInspection(v, kind, at)
  BY <1>1 DEF WriteOpenInspection, TypeOK
<1>5. /\ inspections'[i].status = "open" /\ inspections'[i].voyage = v
      /\ inspections'[i].openedAt = at
  BY <1>4 DEF NewInspection
<1>6. /\ \A w \in VoyageIDs \ {v} : voyages'[w] = voyages[w]
      /\ \A j \in InspectionIDs \ {i} : inspections'[j] = inspections[j]
  BY <1>1 DEF WriteOpenInspection, TypeOK
<1> QED
  BY <1>1, <1>2, <1>3, <1>5, <1>6, HoldRow DEF WriteOpenInspection

\* The same for PassInspectionAndRelease: the inspection named was open.
LEMMA ReleaseEffect ==
  ASSUME TypeOK, NEW user \in Users, NEW at \in Nat, NEW v \in VoyageIDs,
         NEW i \in InspectionIDs, PassInspectionAndRelease(user, v, i, at)
  PROVE  /\ voyages[v] \in Voyages /\ inspections[i] \in Inspections
         /\ voyages[v].status \in {"declared", "held"}
         /\ voyages[v].tenant = user.tenant
         /\ inspections[i].status = "open" /\ inspections[i].voyage = v
         /\ inspections[i].openedAt <= at
         /\ voyages'[v].status = "cleared"
         /\ voyages'[v].tenant = voyages[v].tenant
         /\ voyages'[v].declaredAt = voyages[v].declaredAt
         /\ voyages'[v].clearedAt = at
         /\ voyages'[v].version = voyages[v].version + 1
         /\ inspections'[i].status = "passed" /\ inspections'[i].voyage = v
         /\ inspections'[i].openedAt = inspections[i].openedAt
         /\ inspections'[i].closedAt = at
         /\ \A w \in VoyageIDs \ {v} : voyages'[w] = voyages[w]
         /\ \A j \in InspectionIDs \ {i} : inspections'[j] = inspections[j]
         /\ \A j \in InspectionIDs \ {i} :
              Present(inspections[j]) /\ inspections[j].voyage = v
              => inspections[j].status = "passed"
         /\ UNCHANGED <<reservations, movements>>
<1>1. PICK previous :
        WriteRelease(v, i, user.tenant, at, voyages[v], inspections[i], previous)
  BY DEF PassInspectionAndRelease
<1>2. /\ voyages[v] \in Voyages /\ inspections[i] \in Inspections
      /\ voyages[v].tenant = user.tenant
      /\ inspections[i].voyage = v
  BY DEF PassInspectionAndRelease, CanRelease, VoyageFound, Present, TypeOK,
         NoRow
<1>3. /\ inspections[i].status = "open" /\ at >= inspections[i].openedAt
      /\ voyages[v].status \in {"declared", "held"}
      /\ \A j \in InspectionsOf(v) \ {i} : inspections[j].status = "passed"
  BY DEF PassInspectionAndRelease, CanRelease, CloseInspectionOK, ReleaseOK
<1>4. \A j \in InspectionIDs \ {i} :
        Present(inspections[j]) /\ inspections[j].voyage = v
        => inspections[j].status = "passed"
  BY <1>3 DEF InspectionsOf
<1>5. voyages'[v] = Release(voyages[v], at)
  BY <1>1 DEF WriteRelease, TypeOK
<1>6. inspections'[i] = CloseInspection(inspections[i], at)
  BY <1>1 DEF WriteRelease, TypeOK
<1>7. /\ \A w \in VoyageIDs \ {v} : voyages'[w] = voyages[w]
      /\ \A j \in InspectionIDs \ {i} : inspections'[j] = inspections[j]
  BY <1>1 DEF WriteRelease, TypeOK
<1>8. inspections[i].openedAt <= at
  BY <1>2, <1>3 DEF Inspections
<1>9. /\ voyages'[v].status = "cleared"
      /\ voyages'[v].tenant = voyages[v].tenant
      /\ voyages'[v].declaredAt = voyages[v].declaredAt
      /\ voyages'[v].clearedAt = at
      /\ voyages'[v].version = voyages[v].version + 1
  BY <1>2, <1>5, ReleaseRow
<1>10. /\ inspections'[i].status = "passed" /\ inspections'[i].voyage = v
       /\ inspections'[i].openedAt = inspections[i].openedAt
       /\ inspections'[i].closedAt = at
  BY <1>2, <1>6, CloseRow
<1>11. UNCHANGED <<reservations, movements>>
  BY <1>1 DEF WriteRelease
<1> QED
  BY <1>2, <1>3, <1>4, <1>7, <1>8, <1>9, <1>10, <1>11

\* The same for ReservePassage: the new window meets no active one.
LEMMA ReserveEffect ==
  ASSUME TypeOK, NEW user \in Users, NEW at \in Nat, NEW v \in VoyageIDs,
         NEW r \in ReservationIDs, NEW chamber \in Chambers,
         NEW starts \in Nat, NEW ends \in Nat,
         ReservePassage(user, v, r, chamber, starts, ends, at)
  PROVE  /\ voyages[v] \in Voyages
         /\ voyages[v].status = "cleared" /\ voyages[v].tenant = user.tenant
         /\ reservations[r].status = "absent"
         /\ \A s \in ReservationIDs :
              /\ Present(reservations[s])
              /\ reservations[s].chamber = chamber
              /\ reservations[s].status # "cancelled"
              => reservations[s].ends <= starts \/ ends <= reservations[s].starts
         /\ voyages'[v].status = "scheduled"
         /\ voyages'[v].tenant = voyages[v].tenant
         /\ voyages'[v].declaredAt = voyages[v].declaredAt
         /\ voyages'[v].clearedAt = voyages[v].clearedAt
         /\ voyages'[v].version = voyages[v].version + 1
         /\ reservations'[r] \in Reservations
         /\ reservations'[r].status = "confirmed"
         /\ reservations'[r].voyage = v
         /\ reservations'[r].tenant = user.tenant
         /\ reservations'[r].chamber = chamber
         /\ reservations'[r].starts = starts /\ reservations'[r].ends = ends
         /\ \A w \in VoyageIDs \ {v} : voyages'[w] = voyages[w]
         /\ \A s \in ReservationIDs \ {r} : reservations'[s] = reservations[s]
         /\ UNCHANGED <<inspections, movements>>
<1>1. PICK previous :
        WriteReserve(v, r, user.tenant, chamber, starts, ends, at, voyages[v],
                     previous)
  BY DEF ReservePassage
<1>2. /\ voyages[v] \in Voyages
      /\ voyages[v].status = "cleared" /\ voyages[v].tenant = user.tenant
      /\ reservations[r].status = "absent"
  BY DEF ReservePassage, CanReserve, VoyageFound, Present, TypeOK, NoRow
<1>3. ASSUME NEW s \in ReservationIDs, Present(reservations[s]),
             reservations[s].chamber = chamber,
             reservations[s].status # "cancelled"
      PROVE  reservations[s].ends <= starts \/ ends <= reservations[s].starts
  <2>1. reservations[s].starts \in Nat /\ reservations[s].ends \in Nat
    BY <1>3 DEF TypeOK, Present, NoRow, Reservations
  <2>2. s \in ListReservations(chamber, starts, ends) =>
          ~Overlaps(starts, ends, reservations[s].starts, reservations[s].ends)
    BY DEF ReservePassage, CanReserve, ReserveOK
  <2> QED
    BY <1>3, <2>1, <2>2 DEF ListReservations, Overlaps
<1>4. voyages'[v] = Transition(voyages[v], "scheduled")
  BY <1>1 DEF WriteReserve, TypeOK
<1>5. reservations'[r] = Confirm(Reserve(v, user.tenant, chamber, starts, ends))
  BY <1>1 DEF WriteReserve, TypeOK
<1>6. /\ \A w \in VoyageIDs \ {v} : voyages'[w] = voyages[w]
      /\ \A s \in ReservationIDs \ {r} : reservations'[s] = reservations[s]
  BY <1>1 DEF WriteReserve, TypeOK
<1>7. user.tenant \in Tenants
  BY DEF Users
<1> QED
  BY <1>1, <1>2, <1>3, <1>4, <1>5, <1>6, <1>7, ScheduleRow, ReserveRow
  DEF WriteReserve

\* The same for MovePassage: a cancelled reservation never comes back.
LEMMA MoveEffect ==
  ASSUME TypeOK, NEW user \in Users, NEW at \in Nat, NEW r \in ReservationIDs,
         NEW next \in SlotStatuses, MovePassage(user, r, next, at)
  PROVE  /\ reservations[r] \in Reservations
         /\ reservations[r].tenant = user.tenant
         /\ \/ reservations[r].status = "confirmed" /\ next = "entered"
            \/ reservations[r].status = "entered" /\ next = "exited"
            \/ /\ reservations[r].status \in {"reserved", "confirmed"}
               /\ next = "cancelled"
         /\ reservations'[r] \in Reservations
         /\ reservations'[r].status = next
         /\ reservations'[r].voyage = reservations[r].voyage
         /\ reservations'[r].tenant = reservations[r].tenant
         /\ reservations'[r].chamber = reservations[r].chamber
         /\ reservations'[r].starts = reservations[r].starts
         /\ reservations'[r].ends = reservations[r].ends
         /\ \A s \in ReservationIDs \ {r} : reservations'[s] = reservations[s]
         /\ movements' = movements \cup
                           {[reservation |-> r, status |-> next, at |-> at]}
         /\ UNCHANGED <<voyages, inspections>>
<1>1. PICK previous :
        WriteMove(r, next, user.tenant, at, reservations[r], previous)
  BY DEF MovePassage
<1>2. reservations[r] \in Reservations /\ reservations[r].tenant = user.tenant
  BY DEF MovePassage, CanMove, ReservationFound, Present, TypeOK, NoRow
<1>3. \/ reservations[r].status = "confirmed" /\ next = "entered"
      \/ reservations[r].status = "entered" /\ next = "exited"
      \/ /\ reservations[r].status \in {"reserved", "confirmed"}
         /\ next = "cancelled"
  BY DEF MovePassage, CanMove, MoveOK, EnterOK, ExitOK, CancelOK
<1>4. reservations'[r] = Move(reservations[r], next)
  BY <1>1 DEF WriteMove, TypeOK
<1>5. \A s \in ReservationIDs \ {r} : reservations'[s] = reservations[s]
  BY <1>1 DEF WriteMove, TypeOK
<1> QED
  BY <1>1, <1>2, <1>3, <1>4, <1>5, MoveRow DEF WriteMove

-----------------------------------------------------------------------------
(***************************************************************************)
(* The inductive invariant.  ChamberExclusive and AuditChain are inductive *)
(* over the types alone.  ReleaseGated needs to know that a declared       *)
(* voyage has no inspection, so that opening one makes it the only one;    *)
(* OneBooking that only a scheduled voyage has a reservation.              *)
(***************************************************************************)
TablesInv ==
  TypeOK /\ ChamberExclusive /\ ReleaseGated /\ OneBooking /\ AuditChain

\* No request books a window of a chamber that is taken.
LEMMA ChamberStep ==
  ASSUME TypeOK, ChamberExclusive, AtomicNext
  PROVE  ChamberExclusive'
<1>1. PICK user \in Users, at \in Nat : RequestOf(user, at)
  BY AtomicCases
<1>2. ASSUME UNCHANGED reservations
      PROVE  ChamberExclusive'
  BY <1>2 DEF ChamberExclusive, Present
<1>3. ASSUME NEW v \in VoyageIDs, DeclareVoyage(user, v, at)
      PROVE  ChamberExclusive'
  BY <1>2, <1>3, DeclareEffect
<1>4. ASSUME NEW v \in VoyageIDs, NEW i \in InspectionIDs, NEW kind \in Kinds,
             OpenInspection(user, v, i, kind, at)
      PROVE  ChamberExclusive'
  BY <1>2, <1>4, OpenEffect
<1>5. ASSUME NEW v \in VoyageIDs, NEW i \in InspectionIDs,
             PassInspectionAndRelease(user, v, i, at)
      PROVE  ChamberExclusive'
  BY <1>2, <1>5, ReleaseEffect
<1>6. ASSUME NEW v \in VoyageIDs, NEW r \in ReservationIDs,
             NEW chamber \in Chambers, NEW starts \in Nat, NEW ends \in Nat,
             ReservePassage(user, v, r, chamber, starts, ends, at)
      PROVE  ChamberExclusive'
  <2>1. /\ \A s \in ReservationIDs :
              /\ Present(reservations[s])
              /\ reservations[s].chamber = chamber
              /\ reservations[s].status # "cancelled"
              => reservations[s].ends <= starts \/ ends <= reservations[s].starts
        /\ reservations'[r].chamber = chamber
        /\ reservations'[r].starts = starts /\ reservations'[r].ends = ends
        /\ \A s \in ReservationIDs \ {r} : reservations'[s] = reservations[s]
    BY <1>6, ReserveEffect
  <2> QED
    BY <2>1 DEF ChamberExclusive, Present
<1>7. ASSUME NEW r \in ReservationIDs, NEW next \in SlotStatuses,
             MovePassage(user, r, next, at)
      PROVE  ChamberExclusive'
  <2>1. /\ reservations[r].status \notin {"absent", "cancelled"}
        /\ reservations'[r].chamber = reservations[r].chamber
        /\ reservations'[r].starts = reservations[r].starts
        /\ reservations'[r].ends = reservations[r].ends
        /\ \A s \in ReservationIDs \ {r} : reservations'[s] = reservations[s]
    BY <1>7, MoveEffect
  <2> QED
    BY <2>1 DEF ChamberExclusive, Present
<1> QED
  BY <1>1, <1>3, <1>4, <1>5, <1>6, <1>7, Zenon DEF RequestOf

\* No request separates the status of a voyage from its inspections.
LEMMA GatedStep ==
  ASSUME TypeOK, ReleaseGated, AtomicNext
  PROVE  ReleaseGated'
<1>1. PICK user \in Users, at \in Nat : RequestOf(user, at)
  BY AtomicCases
<1>3. ASSUME NEW v \in VoyageIDs, DeclareVoyage(user, v, at)
      PROVE  ReleaseGated'
  <2>1. /\ voyages[v].status = "absent" /\ voyages'[v].status = "declared"
        /\ \A w \in VoyageIDs \ {v} : voyages'[w] = voyages[w]
        /\ inspections' = inspections
    BY <1>3, DeclareEffect
  <2> QED
    BY <2>1 DEF ReleaseGated, InspectionsOf, Present
<1>4. ASSUME NEW v \in VoyageIDs, NEW i \in InspectionIDs, NEW kind \in Kinds,
             OpenInspection(user, v, i, kind, at)
      PROVE  ReleaseGated'
  <2>1. /\ voyages[v].status = "declared" /\ voyages'[v].status = "held"
        /\ inspections[i].status = "absent"
        /\ inspections'[i].status = "open" /\ inspections'[i].voyage = v
        /\ \A w \in VoyageIDs \ {v} : voyages'[w] = voyages[w]
        /\ \A j \in InspectionIDs \ {i} : inspections'[j] = inspections[j]
    BY <1>4, OpenEffect
  <2> QED
    BY <2>1 DEF ReleaseGated, InspectionsOf, Present
<1>5. ASSUME NEW v \in VoyageIDs, NEW i \in InspectionIDs,
             PassInspectionAndRelease(user, v, i, at)
      PROVE  ReleaseGated'
  <2>1. /\ voyages'[v].status = "cleared"
        /\ inspections[i].status = "open" /\ inspections[i].voyage = v
        /\ inspections'[i].status = "passed" /\ inspections'[i].voyage = v
        /\ \A w \in VoyageIDs \ {v} : voyages'[w] = voyages[w]
        /\ \A j \in InspectionIDs \ {i} : inspections'[j] = inspections[j]
    BY <1>5, ReleaseEffect
  <2> QED
    BY <2>1 DEF ReleaseGated, InspectionsOf, Present
<1>6. ASSUME NEW v \in VoyageIDs, NEW r \in ReservationIDs,
             NEW chamber \in Chambers, NEW starts \in Nat, NEW ends \in Nat,
             ReservePassage(user, v, r, chamber, starts, ends, at)
      PROVE  ReleaseGated'
  <2>1. /\ voyages[v].status = "cleared" /\ voyages'[v].status = "scheduled"
        /\ \A w \in VoyageIDs \ {v} : voyages'[w] = voyages[w]
        /\ inspections' = inspections
    BY <1>6, ReserveEffect
  <2> QED
    BY <2>1 DEF ReleaseGated, InspectionsOf, Present
<1>7. ASSUME NEW r \in ReservationIDs, NEW next \in SlotStatuses,
             MovePassage(user, r, next, at)
      PROVE  ReleaseGated'
  <2>1. voyages' = voyages /\ inspections' = inspections
    BY <1>7, MoveEffect
  <2> QED
    BY <2>1 DEF ReleaseGated, InspectionsOf, Present
<1> QED
  BY <1>1, <1>3, <1>4, <1>5, <1>6, <1>7, Zenon DEF RequestOf

\* No request books a voyage twice, or one that was not released.
LEMMA BookingStep ==
  ASSUME TypeOK, OneBooking, AtomicNext
  PROVE  OneBooking'
<1>1. PICK user \in Users, at \in Nat : RequestOf(user, at)
  BY AtomicCases
<1>2. \A r \in ReservationIDs : Present(reservations[r]) =>
        reservations[r].voyage \in VoyageIDs
  BY DEF TypeOK, Present, NoRow, Reservations
<1>3. ASSUME NEW v \in VoyageIDs, DeclareVoyage(user, v, at)
      PROVE  OneBooking'
  <2>1. /\ voyages[v].status = "absent" /\ voyages'[v].status = "declared"
        /\ \A w \in VoyageIDs \ {v} : voyages'[w] = voyages[w]
        /\ reservations' = reservations
    BY <1>3, DeclareEffect
  <2> QED
    BY <1>2, <2>1 DEF OneBooking, Present
<1>4. ASSUME NEW v \in VoyageIDs, NEW i \in InspectionIDs, NEW kind \in Kinds,
             OpenInspection(user, v, i, kind, at)
      PROVE  OneBooking'
  <2>1. /\ voyages[v].status = "declared" /\ voyages'[v].status = "held"
        /\ \A w \in VoyageIDs \ {v} : voyages'[w] = voyages[w]
        /\ reservations' = reservations
    BY <1>4, OpenEffect
  <2> QED
    BY <1>2, <2>1 DEF OneBooking, Present
<1>5. ASSUME NEW v \in VoyageIDs, NEW i \in InspectionIDs,
             PassInspectionAndRelease(user, v, i, at)
      PROVE  OneBooking'
  <2>1. /\ voyages[v].status # "scheduled" /\ voyages'[v].status = "cleared"
        /\ \A w \in VoyageIDs \ {v} : voyages'[w] = voyages[w]
        /\ reservations' = reservations
    BY <1>5, ReleaseEffect
  <2> QED
    BY <1>2, <2>1 DEF OneBooking, Present
<1>6. ASSUME NEW v \in VoyageIDs, NEW r \in ReservationIDs,
             NEW chamber \in Chambers, NEW starts \in Nat, NEW ends \in Nat,
             ReservePassage(user, v, r, chamber, starts, ends, at)
      PROVE  OneBooking'
  <2>1. /\ voyages[v].status = "cleared" /\ voyages'[v].status = "scheduled"
        /\ voyages'[v].tenant = user.tenant
        /\ reservations[r].status = "absent"
        /\ reservations'[r].status = "confirmed"
        /\ reservations'[r].voyage = v /\ reservations'[r].tenant = user.tenant
        /\ \A w \in VoyageIDs \ {v} : voyages'[w] = voyages[w]
        /\ \A s \in ReservationIDs \ {r} : reservations'[s] = reservations[s]
    BY <1>6, ReserveEffect
  <2> QED
    BY <1>2, <2>1 DEF OneBooking, Present
<1>7. ASSUME NEW r \in ReservationIDs, NEW next \in SlotStatuses,
             MovePassage(user, r, next, at)
      PROVE  OneBooking'
  <2>1. /\ reservations[r].status # "absent"
        /\ reservations'[r].status # "absent"
        /\ reservations'[r].voyage = reservations[r].voyage
        /\ reservations'[r].tenant = reservations[r].tenant
        /\ \A s \in ReservationIDs \ {r} : reservations'[s] = reservations[s]
        /\ voyages' = voyages
    BY <1>7, MoveEffect DEF SlotStatuses
  <2> QED
    BY <1>2, <2>1 DEF OneBooking, Present
<1> QED
  BY <1>1, <1>3, <1>4, <1>5, <1>6, <1>7, Zenon DEF RequestOf

-----------------------------------------------------------------------------
(***************************************************************************)
(* The audit chain.                                                        *)
(***************************************************************************)
\* Appending after the tenant's last event, at a time audit.Append accepts,
\* keeps every tenant's chain whole.
LEMMA ChainAppend ==
  ASSUME audit \subseteq Events, AuditChain, NEW tenant \in Tenants,
         NEW previous \in LastEvent(tenant), NEW id \in EventIDs,
         NEW at \in Nat, AppendOK(previous, tenant, at),
         AppendAudit(previous, id, tenant, at)
  PROVE  AuditChain'
<1> DEFINE new == AppendEvent(previous, id, tenant, at)
<1>1. audit' = audit \cup {new}
  BY DEF AppendAudit
<1>2. /\ new.tenant = tenant /\ new.seq = previous.seq + 1
      /\ new.prev = previous.id /\ new.at = at
  BY DEF AppendEvent
<1>3. \A e \in audit : e.seq \in Nat /\ e.at \in Nat
  BY DEF Events
<1>4. previous.seq \in Nat
  BY <1>3, LastEventIs DEF NoEvent
<1>5. \A e \in audit : e.tenant = tenant => e.seq <= previous.seq
  BY LastEventIs
<1> HIDE DEF new
<1>6. SequencesUnique'
  BY <1>1, <1>2, <1>3, <1>4, <1>5 DEF AuditChain, SequencesUnique
<1>7. CASE /\ previous = NoEvent
           /\ \A e \in audit : e.tenant # tenant
  <2>1. new.seq = 1 /\ new.prev = NoID
    BY <1>2, <1>7 DEF NoEvent
  <2>2. SequencesContiguous'
    BY <1>1, <1>2, <1>3, <2>1 DEF AuditChain, SequencesContiguous
  <2>3. EventsLinked'
    BY <1>1, <2>1 DEF AuditChain, EventsLinked
  <2>4. TimesOrdered'
    BY <1>1, <1>2, <1>3, <1>7 DEF AuditChain, TimesOrdered
  <2> QED
    BY <1>6, <2>2, <2>3, <2>4 DEF AuditChain
<1>8. CASE /\ previous \in audit /\ previous.tenant = tenant
           /\ \A f \in audit : f.tenant = tenant => f.seq <= previous.seq
  <2>1. previous.at <= at
    <3>1. previous # NoEvent
      <4>1. previous.seq >= 1
        BY <1>8 DEF AuditChain, SequencesContiguous
      <4> QED
        BY <4>1 DEF NoEvent
    <3> QED
      BY <1>3, <1>8, <3>1 DEF AppendOK
  <2>2. SequencesContiguous'
    <3>1. ASSUME NEW n \in 1 .. new.seq
          PROVE  \E f \in audit' : f.tenant = tenant /\ f.seq = n
      <4>1. CASE n = new.seq
        BY <1>1, <1>2, <4>1
      <4>2. CASE n # new.seq
        <5>1. n \in 1 .. previous.seq
          BY <1>2, <1>4, <4>2
        <5> QED
          BY <1>1, <1>8, <5>1 DEF AuditChain, SequencesContiguous
      <4> QED
        BY <4>1, <4>2
    <3>2. new.seq >= 1
      BY <1>2, <1>4
    <3> QED
      BY <1>1, <1>2, <3>1, <3>2 DEF AuditChain, SequencesContiguous
  <2>3. EventsLinked'
    BY <1>1, <1>2, <1>4, <1>8 DEF AuditChain, EventsLinked
  <2>4. TimesOrdered'
    <3>1. \A e \in audit : e.tenant = tenant => e.at <= at
      BY <1>3, <1>8, <2>1 DEF AuditChain, TimesOrdered
    <3> QED
      BY <1>1, <1>2, <1>3, <1>4, <1>5, <3>1 DEF AuditChain, TimesOrdered
  <2> QED
    BY <1>6, <2>2, <2>3, <2>4 DEF AuditChain
<1> QED
  BY <1>7, <1>8, LastEventIs

\* appendAuditTx: one event of the tenant, after the tenant's last.
Appends(id, tenant, at) ==
  \E previous \in LastEvent(tenant) :
    /\ AppendOK(previous, tenant, at)
    /\ AppendAudit(previous, id, tenant, at)

\* Every request appends exactly one event, named after what it did.
LEMMA RequestAppends ==
  ASSUME NEW user \in Users, NEW at \in Nat
  PROVE  /\ \A v \in VoyageIDs :
              DeclareVoyage(user, v, at) =>
                Appends(<<"declare", v>>, user.tenant, at)
         /\ \A v \in VoyageIDs, i \in InspectionIDs, kind \in Kinds :
              OpenInspection(user, v, i, kind, at) =>
                Appends(<<"inspection-open", i>>, user.tenant, at)
         /\ \A v \in VoyageIDs, i \in InspectionIDs :
              PassInspectionAndRelease(user, v, i, at) =>
                Appends(<<"release", v>>, user.tenant, at)
         /\ \A v \in VoyageIDs, r \in ReservationIDs, chamber \in Chambers,
               starts \in Nat, ends \in Nat :
              ReservePassage(user, v, r, chamber, starts, ends, at) =>
                Appends(<<"reserve", r>>, user.tenant, at)
         /\ \A r \in ReservationIDs, next \in SlotStatuses :
              MovePassage(user, r, next, at) =>
                Appends(<<next, r>>, user.tenant, at)
<1>1. ASSUME NEW v \in VoyageIDs, DeclareVoyage(user, v, at)
      PROVE  Appends(<<"declare", v>>, user.tenant, at)
  BY <1>1, Zenon DEF DeclareVoyage, WriteDeclare, Appends
<1>2. ASSUME NEW v \in VoyageIDs, NEW i \in InspectionIDs, NEW kind \in Kinds,
             OpenInspection(user, v, i, kind, at)
      PROVE  Appends(<<"inspection-open", i>>, user.tenant, at)
  BY <1>2, Zenon DEF OpenInspection, WriteOpenInspection, Appends
<1>3. ASSUME NEW v \in VoyageIDs, NEW i \in InspectionIDs,
             PassInspectionAndRelease(user, v, i, at)
      PROVE  Appends(<<"release", v>>, user.tenant, at)
  BY <1>3, Zenon DEF PassInspectionAndRelease, WriteRelease, Appends
<1>4. ASSUME NEW v \in VoyageIDs, NEW r \in ReservationIDs,
             NEW chamber \in Chambers, NEW starts \in Nat, NEW ends \in Nat,
             ReservePassage(user, v, r, chamber, starts, ends, at)
      PROVE  Appends(<<"reserve", r>>, user.tenant, at)
  BY <1>4, Zenon DEF ReservePassage, WriteReserve, Appends
<1>5. ASSUME NEW r \in ReservationIDs, NEW next \in SlotStatuses,
             MovePassage(user, r, next, at)
      PROVE  Appends(<<next, r>>, user.tenant, at)
  BY <1>5, Zenon DEF MovePassage, WriteMove, Appends
<1> QED
  BY <1>1, <1>2, <1>3, <1>4, <1>5, Zenon

\* No request breaks a chain: each appends to the last event of its tenant.
LEMMA ChainStep ==
  ASSUME TypeOK, AuditChain, AtomicNext
  PROVE  AuditChain'
<1>1. PICK user \in Users, at \in Nat : RequestOf(user, at)
  BY AtomicCases
<1>2. PICK id \in EventIDs : Appends(id, user.tenant, at)
  BY <1>1, RequestAppends, EventIDsOf, Zenon DEF RequestOf
<1>3. user.tenant \in Tenants
  BY DEF Users
<1> QED
  BY <1>2, <1>3, ChainAppend DEF TypeOK, Appends

-----------------------------------------------------------------------------
(***************************************************************************)
(* The theorems.                                                           *)
(***************************************************************************)
LEMMA TablesInvStep ==
  ASSUME TablesInv, [AtomicNext]_tables
  PROVE  TablesInv'
<1>1. CASE AtomicNext
  BY <1>1, TypeStep, ChamberStep, GatedStep, BookingStep, ChainStep
  DEF TablesInv
<1>2. CASE UNCHANGED tables
  BY <1>2 DEF tables, TablesInv, TypeOK, ChamberExclusive, ReleaseGated,
              InspectionsOf, OneBooking, AuditChain, SequencesUnique,
              SequencesContiguous, EventsLinked, TimesOrdered, Present
<1> QED
  BY <1>1, <1>2

\* The empty database satisfies the invariant.
LEMMA TablesInvInit == AtomicInit => TablesInv
<1> SUFFICES ASSUME AtomicInit PROVE TablesInv
  OBVIOUS
<1>1. /\ \A v \in VoyageIDs : voyages[v].status = "absent"
      /\ \A i \in InspectionIDs : inspections[i].status = "absent"
      /\ \A r \in ReservationIDs : reservations[r].status = "absent"
      /\ audit = {}
  BY DEF AtomicInit, NoRow
<1>2. TypeOK
  BY DEF AtomicInit, TypeOK
<1>3. ChamberExclusive /\ OneBooking
  BY <1>1 DEF ChamberExclusive, OneBooking, Present
<1>4. ReleaseGated
  BY <1>1 DEF ReleaseGated, InspectionsOf, Present
<1>5. AuditChain
  BY <1>1 DEF AuditChain, SequencesUnique, SequencesContiguous, EventsLinked,
              TimesOrdered
<1> QED
  BY <1>2, <1>3, <1>4, <1>5 DEF TablesInv

\* Requests that take effect one at a time keep the chambers exclusive, the
\* release gated by passed inspections, the bookings one per voyage and the
\* audit chains whole.
THEOREM AtomicSafe ==
  AtomicSpec => [](ChamberExclusive /\ ReleaseGated /\ OneBooking /\ AuditChain)
<1>1. TablesInv => ChamberExclusive /\ ReleaseGated /\ OneBooking /\ AuditChain
  BY DEF TablesInv
<1>2. TablesInv /\ [AtomicNext]_tables => TablesInv'
  BY TablesInvStep
<1> QED
  BY <1>1, <1>2, TablesInvInit, PTL DEF AtomicSpec

-----------------------------------------------------------------------------
(***************************************************************************)
(* The records that the requests keep besides the rows: outbox jobs, audit *)
(* events and movements tell exactly what happened to the rows.            *)
(***************************************************************************)

(***************************************************************************)
(* Voyage rows: every write is a step of the transition table.             *)
(***************************************************************************)
\* A request that writes a voyage row takes a step that clearance.Transition
\* allows.
LEMMA VoyageStepLemma ==
  ASSUME TypeOK, AtomicNext
  PROVE  \A v \in VoyageIDs : VoyageStep(v)
<1>1. PICK user \in Users, at \in Nat : RequestOf(user, at)
  BY AtomicCases
<1>2. /\ {<<"draft", "declared">>, <<"declared", "held">>,
          <<"declared", "cleared">>, <<"held", "cleared">>,
          <<"cleared", "scheduled">>} \subseteq Allowed
  BY DEF Allowed
<1>3. ASSUME NEW v \in VoyageIDs, DeclareVoyage(user, v, at)
      PROVE  \A w \in VoyageIDs : VoyageStep(w)
  <2>1. /\ voyages[v].status = "absent"
        /\ voyages'[v].status = "declared" /\ voyages'[v].version = 2
        /\ \A w \in VoyageIDs \ {v} : voyages'[w] = voyages[w]
    BY <1>3, DeclareEffect
  <2>2. \A tenant : /\ NewVoyage(tenant).status = "draft"
                    /\ NewVoyage(tenant).version = 1
                    /\ NewVoyage(tenant).tenant = tenant
    BY DEF NewVoyage
  <2> QED
    BY <1>2, <2>1, <2>2 DEF VoyageStep, Present
<1>4. ASSUME NEW v \in VoyageIDs, NEW i \in InspectionIDs, NEW kind \in Kinds,
             OpenInspection(user, v, i, kind, at)
      PROVE  \A w \in VoyageIDs : VoyageStep(w)
  <2>1. /\ voyages[v].status = "declared" /\ voyages'[v].status = "held"
        /\ voyages'[v].tenant = voyages[v].tenant
        /\ voyages'[v].declaredAt = voyages[v].declaredAt
        /\ voyages'[v].version = voyages[v].version + 1
        /\ \A w \in VoyageIDs \ {v} : voyages'[w] = voyages[w]
    BY <1>4, OpenEffect
  <2> QED
    BY <1>2, <2>1 DEF VoyageStep, Present
<1>5. ASSUME NEW v \in VoyageIDs, NEW i \in InspectionIDs,
             PassInspectionAndRelease(user, v, i, at)
      PROVE  \A w \in VoyageIDs : VoyageStep(w)
  <2>1. /\ voyages[v].status \in {"declared", "held"}
        /\ voyages'[v].status = "cleared"
        /\ voyages'[v].tenant = voyages[v].tenant
        /\ voyages'[v].declaredAt = voyages[v].declaredAt
        /\ voyages'[v].version = voyages[v].version + 1
        /\ \A w \in VoyageIDs \ {v} : voyages'[w] = voyages[w]
    BY <1>5, ReleaseEffect
  <2> QED
    BY <1>2, <2>1 DEF VoyageStep, Present
<1>6. ASSUME NEW v \in VoyageIDs, NEW r \in ReservationIDs,
             NEW chamber \in Chambers, NEW starts \in Nat, NEW ends \in Nat,
             ReservePassage(user, v, r, chamber, starts, ends, at)
      PROVE  \A w \in VoyageIDs : VoyageStep(w)
  <2>1. /\ voyages[v].status = "cleared" /\ voyages'[v].status = "scheduled"
        /\ voyages'[v].tenant = voyages[v].tenant
        /\ voyages'[v].declaredAt = voyages[v].declaredAt
        /\ voyages'[v].version = voyages[v].version + 1
        /\ \A w \in VoyageIDs \ {v} : voyages'[w] = voyages[w]
    BY <1>6, ReserveEffect
  <2> QED
    BY <1>2, <2>1 DEF VoyageStep, Present
<1>7. ASSUME NEW r \in ReservationIDs, NEW next \in SlotStatuses,
             MovePassage(user, r, next, at)
      PROVE  \A w \in VoyageIDs : VoyageStep(w)
  <2>1. voyages' = voyages
    BY <1>7, MoveEffect
  <2> QED
    BY <2>1 DEF VoyageStep
<1> QED
  BY <1>1, <1>3, <1>4, <1>5, <1>6, <1>7, Zenon DEF RequestOf

\* Although Declare, OpenInspection and Release assign the status of a voyage
\* without consulting the table of clearance.Transition, no request ever
\* leaves that table, skips a version, changes the owner or the declaration
\* of a voyage, or deletes one.
THEOREM VoyagesFollowTransitionTable == AtomicSpec => TransitionsAllowed
<1>1. TypeOK /\ [AtomicNext]_tables => [\A v \in VoyageIDs : VoyageStep(v)]_tables
  BY VoyageStepLemma
<1> QED
  BY <1>1, AtomicTypeCorrect, PTL DEF AtomicSpec, TransitionsAllowed

-----------------------------------------------------------------------------
(***************************************************************************)
(* The outbox.                                                             *)
(***************************************************************************)
DeclareJob(v) ==
  [id |-> <<"declare", v>>, tenant |-> voyages[v].tenant,
   availableAt |-> voyages[v].declaredAt]
ReleaseJob(v) ==
  [id |-> <<"release", v>>, tenant |-> voyages[v].tenant,
   availableAt |-> voyages[v].clearedAt]
Declared == {v \in VoyageIDs : Present(voyages[v])}
Released == {v \in VoyageIDs : voyages[v].status \in {"cleared", "scheduled"}}

OutboxIsDue == outbox = JobsDue

\* Every declaration and every release enqueues its job in its own
\* transaction, and no later write of the voyage changes what the job says.
LEMMA OutboxStep ==
  ASSUME TypeOK, OutboxIsDue, AtomicNext
  PROVE  OutboxIsDue'
<1> USE DEF Present
<1>1. PICK user \in Users, at \in Nat : RequestOf(user, at)
  BY AtomicCases
<1>2. outbox = {DeclareJob(v) : v \in Declared} \cup {ReleaseJob(v) : v \in Released}
  BY DEF OutboxIsDue, JobsDue, DeclareJob, ReleaseJob, Declared, Released
<1>3. ASSUME outbox' = {DeclareJob(w)' : w \in Declared'}
                         \cup {ReleaseJob(w)' : w \in Released'}
      PROVE  OutboxIsDue'
  BY <1>3 DEF OutboxIsDue, JobsDue, DeclareJob, ReleaseJob, Declared, Released
<1>4. ASSUME Declared' = Declared, Released' = Released, outbox' = outbox,
             \A w \in Declared : DeclareJob(w)' = DeclareJob(w),
             \A w \in Released : ReleaseJob(w)' = ReleaseJob(w)
      PROVE  OutboxIsDue'
  <2>1. outbox' = {DeclareJob(w)' : w \in Declared'}
                    \cup {ReleaseJob(w)' : w \in Released'}
    BY <1>2, <1>4
  <2> QED
    BY <2>1, <1>3
<1>5. ASSUME NEW v \in VoyageIDs, DeclareVoyage(user, v, at)
      PROVE  OutboxIsDue'
  <2>1. /\ voyages[v].status = "absent" /\ voyages'[v].status = "declared"
        /\ voyages'[v].tenant = user.tenant /\ voyages'[v].declaredAt = at
        /\ \A w \in VoyageIDs \ {v} : voyages'[w] = voyages[w]
    BY <1>5, DeclareEffect
  <2>2. outbox' = outbox \cup {[id |-> <<"declare", v>>, tenant |-> user.tenant,
                                availableAt |-> at]}
    BY <1>5, Zenon DEF DeclareVoyage, WriteDeclare, Enqueue
  <2>3. DeclareJob(v)' = [id |-> <<"declare", v>>, tenant |-> user.tenant,
                          availableAt |-> at]
    BY <2>1 DEF DeclareJob
  <2>4. Declared' = Declared \cup {v} /\ Released' = Released
    BY <2>1 DEF Declared, Released
  <2>5. /\ \A w \in Declared : DeclareJob(w)' = DeclareJob(w)
        /\ \A w \in Released : ReleaseJob(w)' = ReleaseJob(w)
    BY <2>1 DEF Declared, Released, DeclareJob, ReleaseJob
  <2>6. outbox' = {DeclareJob(w)' : w \in Declared'}
                    \cup {ReleaseJob(w)' : w \in Released'}
    BY <1>2, <2>2, <2>3, <2>4, <2>5
  <2> QED
    BY <2>6, <1>3
<1>6. ASSUME NEW v \in VoyageIDs, NEW i \in InspectionIDs, NEW kind \in Kinds,
             OpenInspection(user, v, i, kind, at)
      PROVE  OutboxIsDue'
  <2>1. /\ voyages[v].status = "declared" /\ voyages'[v].status = "held"
        /\ voyages'[v].tenant = voyages[v].tenant
        /\ voyages'[v].declaredAt = voyages[v].declaredAt
        /\ \A w \in VoyageIDs \ {v} : voyages'[w] = voyages[w]
    BY <1>6, OpenEffect
  <2>2. outbox' = outbox
    BY <1>6 DEF OpenInspection, WriteOpenInspection
  <2>3. Declared' = Declared /\ Released' = Released
    BY <2>1 DEF Declared, Released
  <2>4. /\ \A w \in Declared : DeclareJob(w)' = DeclareJob(w)
        /\ \A w \in Released : ReleaseJob(w)' = ReleaseJob(w)
    BY <2>1 DEF Declared, Released, DeclareJob, ReleaseJob
  <2> QED
    BY <1>4, <2>2, <2>3, <2>4
<1>7. ASSUME NEW v \in VoyageIDs, NEW i \in InspectionIDs,
             PassInspectionAndRelease(user, v, i, at)
      PROVE  OutboxIsDue'
  <2>1. /\ voyages[v].status \in {"declared", "held"}
        /\ voyages[v].tenant = user.tenant
        /\ voyages'[v].status = "cleared"
        /\ voyages'[v].tenant = voyages[v].tenant
        /\ voyages'[v].declaredAt = voyages[v].declaredAt
        /\ voyages'[v].clearedAt = at
        /\ \A w \in VoyageIDs \ {v} : voyages'[w] = voyages[w]
    BY <1>7, ReleaseEffect
  <2>2. outbox' = outbox \cup {[id |-> <<"release", v>>, tenant |-> user.tenant,
                                availableAt |-> at]}
    BY <1>7, Zenon DEF PassInspectionAndRelease, WriteRelease, Enqueue
  <2>3. ReleaseJob(v)' = [id |-> <<"release", v>>, tenant |-> user.tenant,
                          availableAt |-> at]
    BY <2>1 DEF ReleaseJob
  <2>4. Declared' = Declared /\ Released' = Released \cup {v}
    BY <2>1 DEF Declared, Released
  <2>5. /\ \A w \in Declared : DeclareJob(w)' = DeclareJob(w)
        /\ \A w \in Released : ReleaseJob(w)' = ReleaseJob(w)
    BY <2>1 DEF Declared, Released, DeclareJob, ReleaseJob
  <2>6. outbox' = {DeclareJob(w)' : w \in Declared'}
                    \cup {ReleaseJob(w)' : w \in Released'}
    BY <1>2, <2>2, <2>3, <2>4, <2>5
  <2> QED
    BY <2>6, <1>3
<1>8. ASSUME NEW v \in VoyageIDs, NEW r \in ReservationIDs,
             NEW chamber \in Chambers, NEW starts \in Nat, NEW ends \in Nat,
             ReservePassage(user, v, r, chamber, starts, ends, at)
      PROVE  OutboxIsDue'
  <2>1. /\ voyages[v].status = "cleared" /\ voyages'[v].status = "scheduled"
        /\ voyages'[v].tenant = voyages[v].tenant
        /\ voyages'[v].declaredAt = voyages[v].declaredAt
        /\ voyages'[v].clearedAt = voyages[v].clearedAt
        /\ \A w \in VoyageIDs \ {v} : voyages'[w] = voyages[w]
    BY <1>8, ReserveEffect
  <2>2. outbox' = outbox
    BY <1>8 DEF ReservePassage, WriteReserve
  <2>3. Declared' = Declared /\ Released' = Released
    BY <2>1 DEF Declared, Released
  <2>4. /\ \A w \in Declared : DeclareJob(w)' = DeclareJob(w)
        /\ \A w \in Released : ReleaseJob(w)' = ReleaseJob(w)
    BY <2>1 DEF Declared, Released, DeclareJob, ReleaseJob
  <2> QED
    BY <1>4, <2>2, <2>3, <2>4
<1>9. ASSUME NEW r \in ReservationIDs, NEW next \in SlotStatuses,
             MovePassage(user, r, next, at)
      PROVE  OutboxIsDue'
  <2>1. voyages' = voyages /\ outbox' = outbox
    BY <1>9 DEF MovePassage, WriteMove
  <2> QED
    BY <2>1 DEF OutboxIsDue, JobsDue
<1> QED
  BY <1>1, <1>5, <1>6, <1>7, <1>8, <1>9, Zenon DEF RequestOf

-----------------------------------------------------------------------------
(***************************************************************************)
(* Movements.  That an exit follows its entry in time is no check of       *)
(* passage.Exit: it holds because both were audited in one chain, whose    *)
(* times are ordered.  The invariant therefore ties every movement to its  *)
(* event.  A slot is confirmed in the transaction that reserves it, so no  *)
(* row is ever seen as "reserved".                                         *)
(***************************************************************************)
SlotsConfirmed ==
  \A r \in ReservationIDs : reservations[r].status # "reserved"
MovementsAudited ==
  \A m \in movements : \E e \in audit :
    /\ e.id = <<m.status, m.reservation>>
    /\ e.tenant = reservations[m.reservation].tenant
    /\ e.at = m.at
EntriesTimely ==
  \A m \in movements : m.status = "entered" =>
    /\ reservations[m.reservation].starts - EntryLead <= m.at
    /\ m.at < reservations[m.reservation].ends
MovementsInv ==
  MovementsMatchStatus /\ SlotsConfirmed /\ MovementsAudited /\ EntriesTimely

\* The event a request appends is the latest of its tenant, also in time.
LEMMA AppendsEffect ==
  ASSUME audit \subseteq Events, AuditChain, NEW tenant \in Tenants,
         NEW id \in EventIDs, NEW at \in Nat, Appends(id, tenant, at)
  PROVE  \E new \in Events :
           /\ audit' = audit \cup {new}
           /\ new.id = id /\ new.tenant = tenant /\ new.at = at
           /\ \A e \in audit : e.tenant = tenant => e.at <= at
<1>1. PICK previous \in LastEvent(tenant) :
        AppendOK(previous, tenant, at) /\ AppendAudit(previous, id, tenant, at)
  BY DEF Appends
<1> DEFINE new == AppendEvent(previous, id, tenant, at)
<1>2. new \in Events
  BY AppendType, LastEventIs
<1>3. audit' = audit \cup {new}
  BY <1>1 DEF AppendAudit
<1>4. new.id = id /\ new.tenant = tenant /\ new.at = at
  BY DEF AppendEvent
<1>5. ASSUME NEW e \in audit, e.tenant = tenant
      PROVE  e.at <= at
  <2>1. /\ previous \in audit /\ previous.tenant = tenant
        /\ e.seq <= previous.seq
    BY <1>5, LastEventIs
  <2>2. previous # NoEvent
    <3>1. previous.seq >= 1
      BY <2>1 DEF AuditChain, SequencesContiguous
    <3> QED
      BY <3>1 DEF NoEvent
  <2>3. e.at <= previous.at /\ previous.at <= at
    BY <1>1, <1>5, <2>1, <2>2 DEF AuditChain, TimesOrdered, AppendOK, Events
  <2>4. e.at \in Nat /\ previous.at \in Nat
    BY <2>1 DEF Events
  <2> QED
    BY <2>3, <2>4
<1> HIDE DEF new
<1> QED
  BY <1>2, <1>3, <1>4, <1>5

\* passage.Enter admits a vessel in its window or in the lead before it.
LEMMA EntryTime ==
  ASSUME NEW user, NEW at, NEW r \in ReservationIDs,
         MovePassage(user, r, "entered", at)
  PROVE  at >= reservations[r].starts - EntryLead /\ at < reservations[r].ends
BY DEF MovePassage, CanMove, MoveOK, EnterOK

\* A step that leaves reservations and movements alone keeps their invariant.
LEMMA MovementsFrame ==
  ASSUME MovementsInv, UNCHANGED <<reservations, movements>>,
         audit \subseteq audit'
  PROVE  MovementsInv'
<1>1. MovementsMatchStatus'
  BY DEF MovementsInv, MovementsMatchStatus, Present
<1>2. SlotsConfirmed' /\ EntriesTimely'
  BY DEF MovementsInv, SlotsConfirmed, EntriesTimely
<1>3. MovementsAudited'
  BY DEF MovementsInv, MovementsAudited
<1> QED
  BY <1>1, <1>2, <1>3 DEF MovementsInv

\* A new reservation has no movement: movements are of present rows only.
LEMMA MovementsReserve ==
  ASSUME TypeOK, MovementsInv, audit \subseteq audit', movements' = movements,
         NEW r \in ReservationIDs, reservations[r].status = "absent",
         reservations'[r].status = "confirmed",
         \A s \in ReservationIDs \ {r} : reservations'[s] = reservations[s]
  PROVE  MovementsInv'
<1>1. \A m \in movements : m.reservation \in ReservationIDs \ {r}
  BY DEF TypeOK, Movements, MovementsInv, MovementsMatchStatus, Present
<1>2. \A m \in movements : reservations'[m.reservation] = reservations[m.reservation]
  BY <1>1
<1>3. MovementsMatchStatus'
  <2>1. ASSUME NEW s \in ReservationIDs, Present(reservations'[s])
        PROVE  {m.status : m \in {n \in movements : n.reservation = s}} =
                 CASE reservations'[s].status = "exited" -> {"entered", "exited"}
                   [] reservations'[s].status = "confirmed" -> {}
                   [] OTHER -> {reservations'[s].status}
    <3>1. CASE s = r
      BY <1>1, <3>1
    <3>2. CASE s # r
      BY <2>1, <3>2 DEF MovementsInv, MovementsMatchStatus
    <3> QED
      BY <3>1, <3>2
  <2> QED
    BY <1>2, <2>1 DEF MovementsInv, MovementsMatchStatus, Present
<1>4. SlotsConfirmed' /\ EntriesTimely'
  BY <1>2 DEF MovementsInv, SlotsConfirmed, EntriesTimely
<1>5. ASSUME NEW m \in movements
      PROVE  \E e \in audit' : /\ e.id = <<m.status, m.reservation>>
                               /\ e.tenant = reservations'[m.reservation].tenant
                               /\ e.at = m.at
  <2>1. PICK e \in audit : /\ e.id = <<m.status, m.reservation>>
                           /\ e.tenant = reservations[m.reservation].tenant
                           /\ e.at = m.at
    BY DEF MovementsInv, MovementsAudited
  <2> QED
    BY <1>2, <2>1
<1>6. MovementsAudited'
  BY <1>5 DEF MovementsAudited
<1> QED
  BY <1>3, <1>4, <1>6 DEF MovementsInv

\* A movement of a slot moves its history on with its status.
LEMMA MovementsMove ==
  ASSUME TypeOK, AuditChain, MovementsInv, NEW user \in Users, NEW at \in Nat,
         NEW r \in ReservationIDs, NEW next \in SlotStatuses,
         MovePassage(user, r, next, at)
  PROVE  MovementsInv'
<1> DEFINE new == [reservation |-> r, status |-> next, at |-> at]
<1>1. /\ new.reservation = r /\ new.status = next /\ new.at = at
  OBVIOUS
<1>2. movements' = movements \cup {new}
  BY MoveEffect
<1> HIDE DEF new
<1>3. /\ reservations[r].tenant = user.tenant
      /\ reservations[r].status \in {"confirmed", "entered", "reserved"}
      /\ \/ reservations[r].status = "confirmed" /\ next = "entered"
         \/ reservations[r].status = "entered" /\ next = "exited"
         \/ reservations[r].status = "confirmed" /\ next = "cancelled"
      /\ reservations'[r].status = next
      /\ reservations'[r].tenant = reservations[r].tenant
      /\ reservations'[r].starts = reservations[r].starts
      /\ reservations'[r].ends = reservations[r].ends
      /\ \A s \in ReservationIDs \ {r} : reservations'[s] = reservations[s]
  BY MoveEffect DEF MovementsInv, SlotsConfirmed
<1>4. user.tenant \in Tenants
  BY DEF Users
<1>5. PICK event \in Events :
        /\ audit' = audit \cup {event}
        /\ event.id = <<next, r>> /\ event.tenant = user.tenant /\ event.at = at
        /\ \A e \in audit : e.tenant = user.tenant => e.at <= at
  <2>1. Appends(<<next, r>>, user.tenant, at)
    BY RequestAppends, Zenon
  <2>2. <<next, r>> \in EventIDs
    BY EventIDsOf
  <2> QED
    BY <1>4, <2>1, <2>2, AppendsEffect DEF TypeOK
<1>6. \A m \in movements :
        /\ m.reservation \in ReservationIDs /\ m.at \in Nat
        /\ reservations'[m.reservation].tenant = reservations[m.reservation].tenant
        /\ reservations'[m.reservation].starts = reservations[m.reservation].starts
        /\ reservations'[m.reservation].ends = reservations[m.reservation].ends
  BY <1>3 DEF TypeOK, Movements
<1>7. /\ reservations[r].status = "confirmed" =>
           \A m \in movements : m.reservation # r
      /\ reservations[r].status = "entered" =>
           \A m \in movements : m.reservation = r => m.status = "entered"
      /\ reservations[r].status = "entered" =>
           \E m \in movements : m.reservation = r /\ m.status = "entered"
  <2>1. Present(reservations[r])
    BY <1>3 DEF Present
  <2>2. {m.status : m \in {n \in movements : n.reservation = r}} =
          CASE reservations[r].status = "exited" -> {"entered", "exited"}
            [] reservations[r].status = "confirmed" -> {}
            [] OTHER -> {reservations[r].status}
    BY <2>1 DEF MovementsInv, MovementsMatchStatus
  <2> QED
    BY <1>3, <2>2
<1>8. MovementsMatchStatus'
  <2>1. \A m \in movements' : Present(reservations'[m.reservation])
    BY <1>1, <1>2, <1>3, <1>6
    DEF MovementsInv, MovementsMatchStatus, Present, SlotStatuses
  <2>2. \A m, n \in movements' :
          m.reservation = n.reservation /\ m.status = n.status => m = n
    BY <1>1, <1>2, <1>3, <1>7 DEF MovementsInv, MovementsMatchStatus
  <2>3. ASSUME NEW s \in ReservationIDs, Present(reservations'[s])
        PROVE  {m.status : m \in {n \in movements' : n.reservation = s}} =
                 CASE reservations'[s].status = "exited" -> {"entered", "exited"}
                   [] reservations'[s].status = "confirmed" -> {}
                   [] OTHER -> {reservations'[s].status}
    <3>1. CASE s = r
      <4>1. {m.status : m \in {n \in movements' : n.reservation = s}} =
              {m.status : m \in {n \in movements : n.reservation = s}} \cup {next}
        BY <1>1, <1>2, <3>1
      <4> QED
        BY <1>3, <1>7, <3>1, <4>1
    <3>2. CASE s # r
      <4>1. {m.status : m \in {n \in movements' : n.reservation = s}} =
              {m.status : m \in {n \in movements : n.reservation = s}}
        BY <1>1, <1>2, <3>2
      <4>2. reservations'[s] = reservations[s]
        BY <1>3, <3>2
      <4> QED
        BY <2>3, <4>1, <4>2 DEF MovementsInv, MovementsMatchStatus
    <3> QED
      BY <3>1, <3>2
  <2>4. ASSUME NEW m \in movements', NEW n \in movements',
               m.reservation = n.reservation, m.status = "entered",
               n.status = "exited"
        PROVE  m.at <= n.at
    <3>1. CASE m \in movements /\ n \in movements
      BY <2>4, <3>1 DEF MovementsInv, MovementsMatchStatus
    <3>2. CASE m \in movements /\ n = new
      <4>1. PICK e \in audit :
              e.tenant = reservations[m.reservation].tenant /\ e.at = m.at
        BY <3>2 DEF MovementsInv, MovementsAudited
      <4> QED
        BY <1>1, <1>3, <1>5, <2>4, <3>2, <4>1
    <3>3. CASE m = new
      BY <1>1, <1>2, <1>3, <1>7, <2>4, <3>3
    <3> QED
      BY <1>2, <3>1, <3>2, <3>3
  <2> QED
    BY <2>1, <2>2, <2>3, <2>4 DEF MovementsMatchStatus
<1>9. SlotsConfirmed'
  BY <1>3 DEF MovementsInv, SlotsConfirmed
<1>10. MovementsAudited'
  <2>1. ASSUME NEW m \in movements'
        PROVE  \E e \in audit' :
                 /\ e.id = <<m.status, m.reservation>>
                 /\ e.tenant = reservations'[m.reservation].tenant
                 /\ e.at = m.at
    <3>1. CASE m \in movements
      <4>1. PICK e \in audit : /\ e.id = <<m.status, m.reservation>>
                               /\ e.tenant = reservations[m.reservation].tenant
                               /\ e.at = m.at
        BY <3>1 DEF MovementsInv, MovementsAudited
      <4> QED
        BY <1>5, <1>6, <3>1, <4>1
    <3>2. CASE m = new
      BY <1>1, <1>3, <1>5, <3>2
    <3> QED
      BY <1>2, <3>1, <3>2
  <2> QED
    BY <2>1 DEF MovementsAudited
<1>11. EntriesTimely'
  <2>1. next = "entered" =>
          at >= reservations[r].starts - EntryLead /\ at < reservations[r].ends
    BY EntryTime
  <2>2. reservations[r].starts - EntryLead \in Int
    BY TimeAssumption, MoveEffect DEF Reservations
  <2> QED
    BY <1>1, <1>2, <1>3, <1>6, <2>1, <2>2 DEF MovementsInv, EntriesTimely
<1> QED
  BY <1>8, <1>9, <1>10, <1>11 DEF MovementsInv

\* Every request keeps movements, slots and their events in step.
LEMMA MovementsStep ==
  ASSUME TypeOK, AuditChain, MovementsInv, AtomicNext
  PROVE  MovementsInv'
<1>1. PICK user \in Users, at \in Nat : RequestOf(user, at)
  BY AtomicCases
<1>2. ASSUME NEW id, Appends(id, user.tenant, at)
      PROVE  audit \subseteq audit'
  BY <1>2 DEF Appends, AppendAudit
<1>3. ASSUME NEW v \in VoyageIDs, DeclareVoyage(user, v, at)
      PROVE  MovementsInv'
  BY <1>2, <1>3, DeclareEffect, RequestAppends, MovementsFrame
<1>4. ASSUME NEW v \in VoyageIDs, NEW i \in InspectionIDs, NEW kind \in Kinds,
             OpenInspection(user, v, i, kind, at)
      PROVE  MovementsInv'
  BY <1>2, <1>4, OpenEffect, RequestAppends, MovementsFrame
<1>5. ASSUME NEW v \in VoyageIDs, NEW i \in InspectionIDs,
             PassInspectionAndRelease(user, v, i, at)
      PROVE  MovementsInv'
  <2>1. audit \subseteq audit'
    BY <1>2, <1>5, RequestAppends
  <2>2. UNCHANGED <<reservations, movements>>
    BY <1>5, ReleaseEffect
  <2> QED
    BY <2>1, <2>2, MovementsFrame
<1>6. ASSUME NEW v \in VoyageIDs, NEW r \in ReservationIDs,
             NEW chamber \in Chambers, NEW starts \in Nat, NEW ends \in Nat,
             ReservePassage(user, v, r, chamber, starts, ends, at)
      PROVE  MovementsInv'
  <2>1. audit \subseteq audit'
    BY <1>2, <1>6, RequestAppends
  <2>2. /\ reservations[r].status = "absent"
        /\ reservations'[r].status = "confirmed"
        /\ \A s \in ReservationIDs \ {r} : reservations'[s] = reservations[s]
        /\ movements' = movements
    BY <1>6, ReserveEffect
  <2> QED
    BY <2>1, <2>2, MovementsReserve
<1>7. ASSUME NEW r \in ReservationIDs, NEW next \in SlotStatuses,
             MovePassage(user, r, next, at)
      PROVE  MovementsInv'
  BY <1>7, MovementsMove
<1> QED
  BY <1>1, <1>3, <1>4, <1>5, <1>6, <1>7, Zenon DEF RequestOf

\* A slot that was entered is not cancelled, so its window is its own.
LEMMA EntryOwn ==
  ASSUME TypeOK, ChamberExclusive, MovementsInv
  PROVE  EntryInOwnWindow
<1> SUFFICES ASSUME NEW m \in movements, m.status = "entered",
                    NEW r \in ReservationIDs \ {m.reservation},
                    Present(reservations[r]),
                    reservations[r].status # "cancelled",
                    reservations[r].chamber = reservations[m.reservation].chamber,
                    reservations[r].starts <= m.at, m.at < reservations[r].ends
             PROVE  m.at < reservations[m.reservation].starts
  BY DEF EntryInOwnWindow, MovementsInv, EntriesTimely
<1>1. m.reservation \in ReservationIDs /\ m.at \in Nat
  BY DEF TypeOK, Movements
<1>2. Present(reservations[m.reservation])
  BY DEF MovementsInv, MovementsMatchStatus
<1>3. reservations[m.reservation].status # "cancelled"
  <2>1. {n.status : n \in {k \in movements : k.reservation = m.reservation}} =
          CASE reservations[m.reservation].status = "exited" ->
                 {"entered", "exited"}
            [] reservations[m.reservation].status = "confirmed" -> {}
            [] OTHER -> {reservations[m.reservation].status}
    BY <1>1, <1>2 DEF MovementsInv, MovementsMatchStatus
  <2> QED
    BY <2>1
<1>4. \A s \in {r, m.reservation} :
        reservations[s].starts \in Nat /\ reservations[s].ends \in Nat
  BY <1>1, <1>2 DEF TypeOK, Present, NoRow, Reservations
<1>5. \/ reservations[r].ends <= reservations[m.reservation].starts
      \/ reservations[m.reservation].ends <= reservations[r].starts
  BY <1>1, <1>2, <1>3 DEF ChamberExclusive
<1>6. m.at < reservations[m.reservation].ends
  BY DEF MovementsInv, EntriesTimely
<1> QED
  BY <1>1, <1>4, <1>5, <1>6

-----------------------------------------------------------------------------
(***************************************************************************)
(* The audit table against the others: the events due, by the request that *)
(* appends them.                                                           *)
(***************************************************************************)
Opened == {i \in InspectionIDs : Present(inspections[i])}
Reserved == {r \in ReservationIDs : Present(reservations[r])}
DeclareDue == {<<<<"declare", v>>, voyages[v].tenant>> : v \in Declared}
ReleaseDue == {<<<<"release", v>>, voyages[v].tenant>> : v \in Released}
OpenDue ==
  {<<<<"inspection-open", i>>, voyages[inspections[i].voyage].tenant>> :
     i \in Opened}
ReserveDue == {<<<<"reserve", r>>, reservations[r].tenant>> : r \in Reserved}
MoveDue ==
  {<<<<m.status, m.reservation>>, reservations[m.reservation].tenant>> :
     m \in movements}
DueNow == DeclareDue \cup ReleaseDue \cup OpenDue \cup ReserveDue \cup MoveDue

\* The ids of the events due name the rows that call for them, and no others.
LEMMA DueIDs ==
  ASSUME movements \subseteq Movements, NEW x \in DueNow
  PROVE  /\ \A v : x[1] = <<"declare", v>> => v \in Declared
         /\ \A v : x[1] = <<"release", v>> => v \in Released
         /\ \A i : x[1] = <<"inspection-open", i>> => i \in Opened
         /\ \A r : x[1] = <<"reserve", r>> => r \in Reserved
         /\ \A r : \A status \in SlotStatuses : x[1] = <<status, r>> =>
              \E m \in movements : m.reservation = r /\ m.status = status
<1>1. \A m \in movements : m.status \in SlotStatuses
  BY DEF Movements
<1>2. CASE x \in DeclareDue
  BY <1>2 DEF DeclareDue, SlotStatuses
<1>3. CASE x \in ReleaseDue
  BY <1>3 DEF ReleaseDue, SlotStatuses
<1>4. CASE x \in OpenDue
  BY <1>4 DEF OpenDue, SlotStatuses
<1>5. CASE x \in ReserveDue
  BY <1>5 DEF ReserveDue, SlotStatuses
<1>6. CASE x \in MoveDue
  BY <1>1, <1>6 DEF MoveDue, SlotStatuses
<1> QED
  BY <1>2, <1>3, <1>4, <1>5, <1>6 DEF DueNow

\* One more row and one more event of a new id keep the two in step.
LEMMA AuditMatchesAppend ==
  ASSUME audit \subseteq Events, AuditChain, AuditMatchesTables,
         NEW tenant \in Tenants, NEW id \in EventIDs, NEW at \in Nat,
         Appends(id, tenant, at), EventsDue = DueNow,
         \A x \in DueNow : x[1] # id,
         EventsDue' = DueNow \cup {<<id, tenant>>}
  PROVE  AuditMatchesTables'
<1>1. PICK new \in Events : /\ audit' = audit \cup {new}
                            /\ new.id = id /\ new.tenant = tenant
  BY AppendsEffect
<1>2. \A e \in audit : <<e.id, e.tenant>> \in DueNow
  BY DEF AuditMatchesTables
<1>3. \A e \in audit : e.id # id
  BY <1>2
<1>4. {<<e.id, e.tenant>> : e \in audit'} =
        {<<e.id, e.tenant>> : e \in audit} \cup {<<id, tenant>>}
  BY <1>1
<1>5. {<<e.id, e.tenant>> : e \in audit'} = EventsDue'
  BY <1>4 DEF AuditMatchesTables
<1>6. \A e, f \in audit' : e.id = f.id => e = f
  BY <1>1, <1>3 DEF AuditMatchesTables
<1> QED
  BY <1>5, <1>6 DEF AuditMatchesTables

\* A request appends the event that its own row calls for; the owners named
\* by all the other events stay what they were.
LEMMA AuditMatchesStep ==
  ASSUME TypeOK, AuditChain, ReleaseGated, MovementsInv, AuditMatchesTables,
         AtomicNext
  PROVE  AuditMatchesTables'
<1>1. PICK user \in Users, at \in Nat : RequestOf(user, at)
  BY AtomicCases
<1>2. user.tenant \in Tenants /\ movements \subseteq Movements
  BY DEF Users, TypeOK
<1>3. EventsDue = DueNow
  BY DEF EventsDue, DueNow, DeclareDue, ReleaseDue, OpenDue, ReserveDue,
         MoveDue, Declared, Released, Opened, Reserved
<1>4. EventsDue' = DueNow'
  BY DEF EventsDue, DueNow, DeclareDue, ReleaseDue, OpenDue, ReserveDue,
         MoveDue, Declared, Released, Opened, Reserved
<1>5. ASSUME NEW id \in EventIDs, Appends(id, user.tenant, at),
             \A x \in DueNow : x[1] # id,
             DueNow' = DueNow \cup {<<id, user.tenant>>}
      PROVE  AuditMatchesTables'
  BY <1>2, <1>3, <1>4, <1>5, AuditMatchesAppend DEF TypeOK
<1>6. \A i \in Opened : /\ inspections[i].voyage \in VoyageIDs
                        /\ Present(voyages[inspections[i].voyage])
  <2>1. \A i \in Opened : inspections[i].voyage \in VoyageIDs
    BY DEF Opened, Present, TypeOK, NoRow, Inspections
  <2> QED
    BY <2>1 DEF Opened, ReleaseGated, InspectionsOf, Present
<1>7. \A m \in movements : m.reservation \in Reserved
  BY <1>2 DEF Reserved, Movements, MovementsInv, MovementsMatchStatus
<1>8. ASSUME NEW v \in VoyageIDs, DeclareVoyage(user, v, at)
      PROVE  AuditMatchesTables'
  <2>1. /\ voyages[v].status = "absent" /\ voyages'[v].status = "declared"
        /\ voyages'[v].tenant = user.tenant
        /\ \A w \in VoyageIDs \ {v} : voyages'[w] = voyages[w]
        /\ UNCHANGED <<inspections, reservations, movements>>
    BY <1>8, DeclareEffect
  <2>2. /\ Declared' = Declared \cup {v} /\ v \notin Declared
        /\ UNCHANGED <<Released, Opened, Reserved>>
    BY <2>1 DEF Declared, Released, Opened, Reserved, Present
  <2>3. DeclareDue' = DeclareDue \cup {<<<<"declare", v>>, user.tenant>>}
    BY <2>1, <2>2 DEF DeclareDue, Declared, Present
  <2>4. ReleaseDue' = ReleaseDue
    BY <2>1, <2>2 DEF ReleaseDue, Released
  <2>5. OpenDue' = OpenDue
    BY <1>6, <2>1, <2>2 DEF OpenDue, Present
  <2>6. ReserveDue' = ReserveDue /\ MoveDue' = MoveDue
    BY <2>1, <2>2 DEF ReserveDue, MoveDue
  <2>7. DueNow' = DueNow \cup {<<<<"declare", v>>, user.tenant>>}
    BY <2>3, <2>4, <2>5, <2>6 DEF DueNow
  <2>8. \A x \in DueNow : x[1] # <<"declare", v>>
    BY <1>2, <2>2, DueIDs
  <2>9. <<"declare", v>> \in EventIDs /\ Appends(<<"declare", v>>, user.tenant, at)
    BY <1>8, EventIDsOf, RequestAppends
  <2> QED
    BY <1>5, <2>7, <2>8, <2>9
<1>9. ASSUME NEW v \in VoyageIDs, NEW i \in InspectionIDs, NEW kind \in Kinds,
             OpenInspection(user, v, i, kind, at)
      PROVE  AuditMatchesTables'
  <2>1. /\ voyages[v].status = "declared" /\ voyages[v].tenant = user.tenant
        /\ inspections[i].status = "absent"
        /\ voyages'[v].status = "held"
        /\ voyages'[v].tenant = voyages[v].tenant
        /\ inspections'[i].status = "open" /\ inspections'[i].voyage = v
        /\ \A w \in VoyageIDs \ {v} : voyages'[w] = voyages[w]
        /\ \A j \in InspectionIDs \ {i} : inspections'[j] = inspections[j]
        /\ UNCHANGED <<reservations, movements>>
    BY <1>9, OpenEffect
  <2>2. /\ Opened' = Opened \cup {i} /\ i \notin Opened
        /\ UNCHANGED <<Declared, Released, Reserved>>
    BY <2>1 DEF Declared, Released, Opened, Reserved, Present
  <2>3. DeclareDue' = DeclareDue /\ ReleaseDue' = ReleaseDue
    BY <2>1, <2>2 DEF DeclareDue, Declared, ReleaseDue, Released
  <2>4. \A w \in VoyageIDs : voyages'[w].tenant = voyages[w].tenant
    BY <2>1
  <2>5. \A j \in Opened : inspections'[j] = inspections[j]
    BY <2>1, <2>2 DEF Opened
  <2>6. OpenDue' = OpenDue \cup {<<<<"inspection-open", i>>, user.tenant>>}
    BY <1>6, <2>1, <2>2, <2>4, <2>5 DEF OpenDue
  <2>7. ReserveDue' = ReserveDue /\ MoveDue' = MoveDue
    BY <2>1, <2>2 DEF ReserveDue, MoveDue
  <2>8. DueNow' = DueNow \cup {<<<<"inspection-open", i>>, user.tenant>>}
    BY <2>3, <2>6, <2>7 DEF DueNow
  <2>9. \A x \in DueNow : x[1] # <<"inspection-open", i>>
    BY <1>2, <2>2, DueIDs
  <2>10. /\ <<"inspection-open", i>> \in EventIDs
         /\ Appends(<<"inspection-open", i>>, user.tenant, at)
    BY <1>9, EventIDsOf, RequestAppends
  <2> QED
    BY <1>5, <2>8, <2>9, <2>10
<1>10. ASSUME NEW v \in VoyageIDs, NEW i \in InspectionIDs,
              PassInspectionAndRelease(user, v, i, at)
       PROVE  AuditMatchesTables'
  <2>1. /\ voyages[v].status \in {"declared", "held"}
        /\ voyages[v].tenant = user.tenant
        /\ inspections[i].status = "open" /\ inspections[i].voyage = v
        /\ voyages'[v].status = "cleared"
        /\ voyages'[v].tenant = voyages[v].tenant
        /\ inspections'[i].status = "passed" /\ inspections'[i].voyage = v
        /\ \A w \in VoyageIDs \ {v} : voyages'[w] = voyages[w]
        /\ \A j \in InspectionIDs \ {i} : inspections'[j] = inspections[j]
        /\ UNCHANGED <<reservations, movements>>
    BY <1>10, ReleaseEffect
  <2>2. /\ Released' = Released \cup {v} /\ v \notin Released
        /\ UNCHANGED <<Declared, Opened, Reserved>>
    BY <2>1 DEF Declared, Released, Opened, Reserved, Present
  <2>3. DeclareDue' = DeclareDue
    BY <2>1, <2>2 DEF DeclareDue, Declared
  <2>4. ReleaseDue' = ReleaseDue \cup {<<<<"release", v>>, user.tenant>>}
    BY <2>1, <2>2 DEF ReleaseDue, Released
  <2>5. \A w \in VoyageIDs : voyages'[w].tenant = voyages[w].tenant
    BY <2>1
  <2>6. \A j \in Opened : inspections'[j].voyage = inspections[j].voyage
    BY <2>1 DEF Opened
  <2>7. OpenDue' = OpenDue
    BY <1>6, <2>2, <2>5, <2>6 DEF OpenDue
  <2>8. ReserveDue' = ReserveDue /\ MoveDue' = MoveDue
    BY <2>1, <2>2 DEF ReserveDue, MoveDue
  <2>9. DueNow' = DueNow \cup {<<<<"release", v>>, user.tenant>>}
    BY <2>3, <2>4, <2>7, <2>8 DEF DueNow
  <2>10. \A x \in DueNow : x[1] # <<"release", v>>
    BY <1>2, <2>2, DueIDs
  <2>11. /\ <<"release", v>> \in EventIDs
         /\ Appends(<<"release", v>>, user.tenant, at)
    BY <1>10, EventIDsOf, RequestAppends
  <2> QED
    BY <1>5, <2>9, <2>10, <2>11
<1>11. ASSUME NEW v \in VoyageIDs, NEW r \in ReservationIDs,
              NEW chamber \in Chambers, NEW starts \in Nat, NEW ends \in Nat,
              ReservePassage(user, v, r, chamber, starts, ends, at)
       PROVE  AuditMatchesTables'
  <2>1. /\ voyages[v].status = "cleared" /\ voyages'[v].status = "scheduled"
        /\ voyages'[v].tenant = voyages[v].tenant
        /\ reservations[r].status = "absent"
        /\ reservations'[r].status = "confirmed"
        /\ reservations'[r].tenant = user.tenant
        /\ \A w \in VoyageIDs \ {v} : voyages'[w] = voyages[w]
        /\ \A s \in ReservationIDs \ {r} : reservations'[s] = reservations[s]
        /\ UNCHANGED <<inspections, movements>>
    BY <1>11, ReserveEffect
  <2>2. /\ Reserved' = Reserved \cup {r} /\ r \notin Reserved
        /\ UNCHANGED <<Declared, Released, Opened>>
    BY <2>1 DEF Declared, Released, Opened, Reserved, Present
  <2>3. \A w \in VoyageIDs : voyages'[w].tenant = voyages[w].tenant
    BY <2>1
  <2>4. DeclareDue' = DeclareDue /\ ReleaseDue' = ReleaseDue
    BY <2>2, <2>3 DEF DeclareDue, Declared, ReleaseDue, Released
  <2>5. OpenDue' = OpenDue
    BY <1>6, <2>1, <2>2, <2>3 DEF OpenDue
  <2>6. \A s \in Reserved : reservations'[s] = reservations[s]
    BY <2>1, <2>2 DEF Reserved
  <2>7. ReserveDue' = ReserveDue \cup {<<<<"reserve", r>>, user.tenant>>}
    BY <2>1, <2>2, <2>6 DEF ReserveDue
  <2>8. MoveDue' = MoveDue
    BY <1>7, <2>1, <2>6 DEF MoveDue
  <2>9. DueNow' = DueNow \cup {<<<<"reserve", r>>, user.tenant>>}
    BY <2>4, <2>5, <2>7, <2>8 DEF DueNow
  <2>10. \A x \in DueNow : x[1] # <<"reserve", r>>
    BY <1>2, <2>2, DueIDs
  <2>11. /\ <<"reserve", r>> \in EventIDs
         /\ Appends(<<"reserve", r>>, user.tenant, at)
    BY <1>11, EventIDsOf, RequestAppends
  <2> QED
    BY <1>5, <2>9, <2>10, <2>11
<1>12. ASSUME NEW r \in ReservationIDs, NEW next \in SlotStatuses,
              MovePassage(user, r, next, at)
       PROVE  AuditMatchesTables'
  <2>1. /\ reservations[r].tenant = user.tenant
        /\ \/ reservations[r].status = "confirmed" /\ next = "entered"
           \/ reservations[r].status = "entered" /\ next = "exited"
           \/ reservations[r].status = "confirmed" /\ next = "cancelled"
        /\ reservations'[r].status = next
        /\ reservations'[r].tenant = reservations[r].tenant
        /\ \A s \in ReservationIDs \ {r} : reservations'[s] = reservations[s]
        /\ UNCHANGED <<voyages, inspections>>
    BY <1>12, MoveEffect DEF MovementsInv, SlotsConfirmed
  <2>2. movements' = movements \cup
                       {[reservation |-> r, status |-> next, at |-> at]}
    BY <1>12, MoveEffect
  <2>3. UNCHANGED <<Declared, Released, Opened, Reserved>>
    BY <2>1 DEF Declared, Released, Opened, Reserved, Present, SlotStatuses
  <2>4. \A s \in ReservationIDs : reservations'[s].tenant = reservations[s].tenant
    BY <2>1
  <2>5. DeclareDue' = DeclareDue /\ ReleaseDue' = ReleaseDue
    BY <2>1, <2>3 DEF DeclareDue, ReleaseDue
  <2>6. OpenDue' = OpenDue
    BY <2>1, <2>3 DEF OpenDue
  <2>7. ReserveDue' = ReserveDue
    BY <2>3, <2>4 DEF ReserveDue, Reserved
  <2>8. MoveDue' = MoveDue \cup {<<<<next, r>>, user.tenant>>}
    <3>1. \A m \in movements : m.reservation \in ReservationIDs
      BY <1>2 DEF Movements
    <3> DEFINE new == [reservation |-> r, status |-> next, at |-> at]
    <3>2. new.reservation = r /\ new.status = next
      OBVIOUS
    <3>3. movements' = movements \cup {new}
      BY <2>2
    <3> HIDE DEF new
    <3> QED
      BY <2>1, <2>4, <3>1, <3>2, <3>3 DEF MoveDue
  <2>9. DueNow' = DueNow \cup {<<<<next, r>>, user.tenant>>}
    BY <2>5, <2>6, <2>7, <2>8 DEF DueNow
  <2>10. ASSUME NEW m \in movements, m.reservation = r
         PROVE  m.status # next
    <3>1. Present(reservations[r])
      BY <2>1 DEF Present
    <3>2. {n.status : n \in {k \in movements : k.reservation = r}} =
            CASE reservations[r].status = "exited" -> {"entered", "exited"}
              [] reservations[r].status = "confirmed" -> {}
              [] OTHER -> {reservations[r].status}
      BY <3>1 DEF MovementsInv, MovementsMatchStatus
    <3>3. reservations[r].status = "entered" => m.status = "entered"
      BY <2>10, <3>2
    <3>4. reservations[r].status # "confirmed"
      BY <2>10, <3>2
    <3> QED
      BY <2>1, <3>3, <3>4
  <2>11. \A x \in DueNow : x[1] # <<next, r>>
    BY <1>2, <2>10, DueIDs
  <2>12. <<next, r>> \in EventIDs /\ Appends(<<next, r>>, user.tenant, at)
    BY <1>12, EventIDsOf, RequestAppends
  <2> QED
    BY <1>5, <2>9, <2>11, <2>12
<1> QED
  BY <1>1, <1>8, <1>9, <1>10, <1>11, <1>12, Zenon DEF RequestOf

-----------------------------------------------------------------------------
(***************************************************************************)
(* The theorems.                                                           *)
(***************************************************************************)
RecordsInv ==
  TablesInv /\ OutboxIsDue /\ MovementsInv /\ AuditMatchesTables

\* The records and the tables they tell about stay in step.
LEMMA RecordsInvStep ==
  ASSUME RecordsInv, [AtomicNext]_tables
  PROVE  RecordsInv'
<1>1. TablesInv'
  BY TablesInvStep DEF RecordsInv
<1>2. CASE AtomicNext
  BY <1>1, <1>2, OutboxStep, MovementsStep, AuditMatchesStep
  DEF RecordsInv, TablesInv
<1>3. CASE UNCHANGED tables
  <2>1. OutboxIsDue'
    BY <1>3 DEF RecordsInv, tables, OutboxIsDue, JobsDue, Present
  <2>2. MovementsInv'
    BY <1>3, MovementsFrame DEF RecordsInv, tables
  <2>3. AuditMatchesTables'
    BY <1>3 DEF RecordsInv, tables, AuditMatchesTables, EventsDue, Present
  <2> QED
    BY <1>1, <2>1, <2>2, <2>3 DEF RecordsInv
<1> QED
  BY <1>2, <1>3

\* The empty database satisfies the invariant.
LEMMA RecordsInvInit == AtomicInit => RecordsInv
<1> SUFFICES ASSUME AtomicInit PROVE RecordsInv
  OBVIOUS
<1>1. /\ \A v \in VoyageIDs : voyages[v].status = "absent"
      /\ \A i \in InspectionIDs : inspections[i].status = "absent"
      /\ \A r \in ReservationIDs : reservations[r].status = "absent"
      /\ audit = {} /\ outbox = {} /\ movements = {}
  BY DEF AtomicInit, NoRow
<1>2. OutboxIsDue
  BY <1>1 DEF OutboxIsDue, JobsDue, Present
<1>3. MovementsInv
  BY <1>1 DEF MovementsInv, MovementsMatchStatus, SlotsConfirmed,
              MovementsAudited, EntriesTimely, Present
<1>4. AuditMatchesTables
  BY <1>1 DEF AuditMatchesTables, EventsDue, Present
<1> QED
  BY <1>2, <1>3, <1>4, TablesInvInit DEF RecordsInv

\* Every behaviour of the requests keeps the invariant.
LEMMA RecordsInvAlways == AtomicSpec => []RecordsInv
<1>1. RecordsInv /\ [AtomicNext]_tables => RecordsInv'
  BY RecordsInvStep
<1> QED
  BY <1>1, RecordsInvInit, PTL DEF AtomicSpec

\* A declaration or a release is announced exactly once, with its owner and
\* time, and only if it happened: enqueueOutboxTx runs in the transaction of
\* the row, and no later write of the row betrays the job.
THEOREM OutboxExact == AtomicSpec => []OutboxMatchesTables
<1>1. ASSUME RecordsInv
      PROVE  OutboxMatchesTables
  <2>1. outbox = JobsDue
    BY <1>1 DEF RecordsInv, OutboxIsDue
  <2>2. \A job \in JobsDue : job.id[1] \in {"declare", "release"}
    BY DEF JobsDue
  <2> QED
    BY <2>1, <2>2 DEF OutboxMatchesTables
<1> QED
  BY <1>1, RecordsInvAlways, PTL

\* The audit table holds exactly the events that the rows of the other
\* tables call for, each once and in the chain of the row's owner.
THEOREM AuditExact == AtomicSpec => []AuditMatchesTables
<1>1. RecordsInv => AuditMatchesTables
  BY DEF RecordsInv
<1> QED
  BY <1>1, RecordsInvAlways, PTL

\* The movements of a slot are the history of its status, and an exit never
\* precedes its entry, although passage.Exit does not compare the two.
THEOREM MovementsExact == AtomicSpec => []MovementsMatchStatus
<1>1. RecordsInv => MovementsMatchStatus
  BY DEF RecordsInv, MovementsInv
<1> QED
  BY <1>1, RecordsInvAlways, PTL

\* No vessel enters outside its own time, nor inside the window of another
\* reservation that stands unless it came in its lead.
THEOREM EntriesInOwnWindow == AtomicSpec => []EntryInOwnWindow
<1>1. RecordsInv => EntryInOwnWindow
  BY EntryOwn DEF RecordsInv, TablesInv
<1> QED
  BY <1>1, RecordsInvAlways, PTL

-----------------------------------------------------------------------------
(***************************************************************************)
(* Overlapping transactions.                                               *)
(***************************************************************************)

(***************************************************************************)
(* What an open transaction decided on its snapshot, in terms of the rows  *)
(* it carries: nothing that others commit can change it.                   *)
(***************************************************************************)
Decided(t) ==
  /\ AppendOK(t.previous, t.tenant, t.at)
  /\ t.op = "declare" => DeclareOK(NewVoyage(t.tenant), t.at)
  /\ t.op = "open" =>
       t.voyage.tenant = t.tenant /\ OpenInspectionOK(t.voyage, t.at)
  /\ t.op = "release" =>
       /\ t.voyage.tenant = t.tenant
       /\ t.inspection.voyage = t.v
       /\ CloseInspectionOK(t.inspection, t.at)
       /\ t.voyage.status \in {"declared", "held"}
       /\ t.voyage.manifest # "none"
  /\ t.op = "reserve" =>
       /\ t.at # ZeroTime
       /\ t.voyage.tenant = t.tenant
       /\ t.voyage.status = "cleared"
       /\ WindowOK(t.chamber, t.starts, t.ends)
       /\ TransitionOK(t.voyage, "scheduled", t.starts)
  /\ t.op = "move" =>
       t.reservation.tenant = t.tenant /\ MoveOK(t.reservation, t.next, t.at)

\* The predecessor an open transaction read is still in the table.
TxInv ==
  \A p \in Requests : tx[p].op # "idle" =>
    Decided(tx[p]) /\ tx[p].previous \in audit \cup {NoEvent}

-----------------------------------------------------------------------------
\* The predecessor read from an old snapshot is the tenant's last event after
\* all when UNIQUE (tenant_id, sequence) lets the next sequence through:
\* the chain has no gaps, so nothing can lie beyond a free sequence.
LEMMA StillLast ==
  ASSUME audit \subseteq Events, AuditChain, NEW tenant \in Tenants, NEW at,
         NEW id, NEW previous \in audit \cup {NoEvent},
         AppendOK(previous, tenant, at), AuditKeysFree(previous, id, tenant)
  PROVE  previous \in LastEvent(tenant)
<1>1. \A e \in audit : e.seq \in Nat /\ e.seq >= 1
  BY DEF AuditChain, SequencesContiguous, Events
<1>2. previous.seq \in Nat
  BY <1>1 DEF NoEvent
<1>3. ASSUME NEW e \in audit, e.tenant = tenant
      PROVE  e.seq <= previous.seq
  <2>1. SUFFICES ASSUME e.seq > previous.seq PROVE FALSE
    BY <1>1, <1>2
  <2>2. previous.seq + 1 \in 1 .. e.seq
    BY <1>1, <1>2, <2>1
  <2>3. \E f \in audit : f.tenant = tenant /\ f.seq = previous.seq + 1
    BY <1>3, <2>2 DEF AuditChain, SequencesContiguous
  <2> QED
    BY <2>3 DEF AuditKeysFree
<1>4. CASE previous = NoEvent
  <2>1. \A e \in audit : e.tenant # tenant
    BY <1>1, <1>3, <1>4 DEF NoEvent
  <2> QED
    BY <1>4, <2>1 DEF LastEvent
<1>5. CASE previous \in audit /\ previous # NoEvent
  <2>1. previous.tenant = tenant
    BY <1>5 DEF AppendOK
  <2> QED
    BY <1>3, <1>5, <2>1 DEF LastEvent
<1> QED
  BY <1>4, <1>5

\* For every tenant there is a user of every role.
LEMMA UserOf ==
  ASSUME NEW tenant \in Tenants
  PROVE  /\ \E user \in Declarers : user.tenant = tenant
         /\ \E user \in Officers : user.tenant = tenant
         /\ \E user \in Dispatchers : user.tenant = tenant
         /\ \E user \in LockOperators : user.tenant = tenant
<1> DEFINE u(role) == [tenant |-> tenant, role |-> role]
<1>1. u("carrier") \in Declarers /\ u("carrier").tenant = tenant
  BY DEF Declarers, Users, Roles
<1>2. u("customs") \in Officers /\ u("customs").tenant = tenant
  BY DEF Officers, Users, Roles
<1>3. u("dispatcher") \in Dispatchers /\ u("dispatcher").tenant = tenant
  BY DEF Dispatchers, Users, Roles
<1>4. u("lock") \in LockOperators /\ u("lock").tenant = tenant
  BY DEF LockOperators, Users, Roles
<1> HIDE DEF u
<1> QED
  BY <1>1, <1>2, <1>3, <1>4

\* The tag of an open transaction tells which rows it carries.
LEMMA TxShape ==
  ASSUME TxTypeOK, NEW p \in Requests
  PROVE  /\ tx[p].op = "declare" => tx[p] \in DeclareTx
         /\ tx[p].op = "open" => tx[p] \in OpenTx
         /\ tx[p].op = "release" => tx[p] \in ReleaseTx
         /\ tx[p].op = "reserve" => tx[p] \in ReserveTx
         /\ tx[p].op = "move" => tx[p] \in MoveTx
BY DEF TxTypeOK, DeclareTx, OpenTx, ReleaseTx, ReserveTx, MoveTx, Idle

-----------------------------------------------------------------------------
(***************************************************************************)
(* Every commit is the atomic request.                                     *)
(***************************************************************************)
\* A committing DeclareVoyage, whatever has committed since its snapshot, is a
\* whole DeclareVoyage of AtomicWorkflow.
LEMMA DeclareRefines ==
  ASSUME TablesInv, TxTypeOK, TxInv, NEW p \in Requests, CommitDeclareVoyage(p)
  PROVE  AtomicNext
<1> DEFINE t == tx[p]
<1>1. t \in DeclareTx /\ t.op = "declare"
  BY TxShape DEF CommitDeclareVoyage
<1>2. t.tenant \in Tenants /\ t.v \in VoyageIDs /\ t.at \in Instants
  BY <1>1 DEF DeclareTx
<1>3. Decided(t) /\ t.previous \in audit \cup {NoEvent}
  BY <1>1 DEF TxInv
<1>4. AppendOK(t.previous, t.tenant, t.at)
  BY <1>3 DEF Decided
<1>5. t.previous \in LastEvent(t.tenant)
  BY <1>2, <1>3, <1>4, StillLast
  DEF CommitDeclareVoyage, TablesInv, TypeOK
<1>6. PICK user \in Declarers : user.tenant = t.tenant
  BY <1>2, UserOf
<1>7. CanDeclare(user, t.v, t.at)
  BY <1>1, <1>3, <1>6 DEF CommitDeclareVoyage, VoyageKeyFree, CanDeclare, Decided
<1>8. WriteDeclare(t.v, t.tenant, t.at, t.previous)
  BY DEF CommitDeclareVoyage
<1>9. DeclareVoyage(user, t.v, t.at)
  BY <1>4, <1>5, <1>6, <1>7, <1>8, Zenon DEF DeclareVoyage
<1> QED
  BY <1>2, <1>9, Zenon DEF AtomicNext

\* The same for a committing OpenInspection.
LEMMA OpenRefines ==
  ASSUME TablesInv, TxTypeOK, TxInv, NEW p \in Requests, CommitOpenInspection(p)
  PROVE  AtomicNext
<1> DEFINE t == tx[p]
<1>1. t \in OpenTx /\ t.op = "open"
  BY TxShape DEF CommitOpenInspection
<1>2. /\ t.tenant \in Tenants /\ t.v \in VoyageIDs /\ t.at \in Instants
      /\ t.i \in InspectionIDs /\ t.kind \in Kinds /\ t.voyage \in Voyages
  BY <1>1 DEF OpenTx
<1>3. Decided(t) /\ t.previous \in audit \cup {NoEvent}
  BY <1>1 DEF TxInv
<1>4. AppendOK(t.previous, t.tenant, t.at)
  BY <1>3 DEF Decided
<1>5. t.previous \in LastEvent(t.tenant)
  BY <1>2, <1>3, <1>4, StillLast DEF CommitOpenInspection, TablesInv, TypeOK
<1>6. PICK user \in Officers : user.tenant = t.tenant
  BY <1>2, UserOf
<1>7. voyages[t.v] = t.voyage
  BY DEF CommitOpenInspection, VoyageUnchanged
<1>8. CanOpenInspection(user, t.v, t.i, t.at)
  BY <1>1, <1>3, <1>6, <1>7
  DEF CommitOpenInspection, InspectionKeyFree, CanOpenInspection, Decided,
      VoyageFound, OpenInspectionOK, Present
<1>9. WriteOpenInspection(t.v, t.i, t.kind, t.tenant, t.at, voyages[t.v],
                          t.previous)
  BY <1>7 DEF CommitOpenInspection
<1>10. OpenInspection(user, t.v, t.i, t.kind, t.at)
  BY <1>4, <1>5, <1>6, <1>8, <1>9, Zenon DEF OpenInspection
<1> QED
  BY <1>2, <1>10, Zenon DEF AtomicNext

\* The list of inspections was read from the snapshot and not locked; it is
\* still the same because a voyage has only one inspection.
LEMMA ReleaseRefines ==
  ASSUME TablesInv, TxTypeOK, TxInv, NEW p \in Requests, CommitPassInspection(p)
  PROVE  AtomicNext
<1> DEFINE t == tx[p]
<1>1. t \in ReleaseTx /\ t.op = "release"
  BY TxShape DEF CommitPassInspection
<1>2. /\ t.tenant \in Tenants /\ t.v \in VoyageIDs /\ t.at \in Instants
      /\ t.i \in InspectionIDs /\ t.voyage \in Voyages
      /\ t.inspection \in Inspections
  BY <1>1 DEF ReleaseTx
<1>3. Decided(t) /\ t.previous \in audit \cup {NoEvent}
  BY <1>1 DEF TxInv
<1>4. AppendOK(t.previous, t.tenant, t.at)
  BY <1>3 DEF Decided
<1>5. t.previous \in LastEvent(t.tenant)
  BY <1>2, <1>3, <1>4, StillLast DEF CommitPassInspection, TablesInv, TypeOK
<1>6. PICK user \in Officers : user.tenant = t.tenant
  BY <1>2, UserOf
<1>7. voyages[t.v] = t.voyage /\ inspections[t.i] = t.inspection
  BY DEF CommitPassInspection, VoyageUnchanged, InspectionUnchanged
<1>8. /\ Present(inspections[t.i]) /\ inspections[t.i].voyage = t.v
      /\ VoyageFound(user.tenant, t.v)
      /\ CloseInspectionOK(inspections[t.i], t.at)
  BY <1>1, <1>2, <1>3, <1>6, <1>7
  DEF Decided, VoyageFound, Present, CloseInspectionOK
<1>9. InspectionsOf(t.v) = {t.i}
  BY <1>2, <1>8 DEF TablesInv, ReleaseGated, InspectionsOf
<1>10. ReleaseOK(voyages[t.v], InspectionsOf(t.v), t.i)
  BY <1>1, <1>3, <1>7, <1>9 DEF Decided, ReleaseOK
<1>11. CanRelease(user, t.v, t.i, t.at)
  BY <1>8, <1>10 DEF CanRelease
<1>12. WriteRelease(t.v, t.i, t.tenant, t.at, voyages[t.v], inspections[t.i],
                    t.previous)
  BY <1>7 DEF CommitPassInspection
<1>13. PassInspectionAndRelease(user, t.v, t.i, t.at)
  BY <1>4, <1>5, <1>6, <1>11, <1>12, Zenon DEF PassInspectionAndRelease
<1> QED
  BY <1>2, <1>13, Zenon DEF AtomicNext

\* The overlapping reservations were read from the snapshot and there were
\* none; the EXCLUDE constraint says that there are none now.
LEMMA ReserveRefines ==
  ASSUME TablesInv, TxTypeOK, TxInv, NEW p \in Requests, CommitReservePassage(p)
  PROVE  AtomicNext
<1> DEFINE t == tx[p]
<1>1. t \in ReserveTx /\ t.op = "reserve"
  BY TxShape DEF CommitReservePassage
<1>2. /\ t.tenant \in Tenants /\ t.v \in VoyageIDs /\ t.at \in Instants
      /\ t.r \in ReservationIDs /\ t.chamber \in Chambers
      /\ t.starts \in WindowTimes /\ t.ends \in WindowTimes /\ t.voyage \in Voyages
  BY <1>1 DEF ReserveTx
<1>3. Decided(t) /\ t.previous \in audit \cup {NoEvent}
  BY <1>1 DEF TxInv
<1>4. AppendOK(t.previous, t.tenant, t.at)
  BY <1>3 DEF Decided
<1>5. t.previous \in LastEvent(t.tenant)
  BY <1>2, <1>3, <1>4, StillLast DEF CommitReservePassage, TablesInv, TypeOK
<1>6. PICK user \in Dispatchers : user.tenant = t.tenant
  BY <1>2, UserOf
<1>7. voyages[t.v] = t.voyage
  BY DEF CommitReservePassage, VoyageUnchanged
<1>8. t.starts \in Nat /\ t.ends \in Nat
  BY <1>2, TimeAssumption DEF Instants, WindowTimes
<1>9. ASSUME NEW s \in ListReservations(t.chamber, t.starts, t.ends)
      PROVE  FALSE
  <2>1. /\ s \in ReservationIDs /\ Present(reservations[s])
        /\ reservations[s].chamber = t.chamber
        /\ reservations[s].status # "cancelled"
        /\ reservations[s].starts < t.ends /\ reservations[s].ends > t.starts
    BY <1>9 DEF ListReservations
  <2>2. reservations[s].starts \in Nat /\ reservations[s].ends \in Nat
    BY <2>1 DEF TablesInv, TypeOK, Present, NoRow, Reservations
  <2>3. reservations[s].ends <= t.starts \/ t.ends <= reservations[s].starts
    BY <2>1 DEF CommitReservePassage, NoExclusionConflict
  <2> QED
    BY <1>8, <2>1, <2>2, <2>3
<1>10. ReserveOK(t.chamber, t.starts, t.ends,
                 ListReservations(t.chamber, t.starts, t.ends))
  BY <1>1, <1>3, <1>9 DEF Decided, ReserveOK
<1>11. CanReserve(user, t.v, t.r, t.chamber, t.starts, t.ends, t.at)
  BY <1>1, <1>3, <1>6, <1>7, <1>10
  DEF CommitReservePassage, ReservationKeyFree, CanReserve, Decided,
      VoyageFound, Present
<1>12. WriteReserve(t.v, t.r, t.tenant, t.chamber, t.starts, t.ends, t.at,
                    voyages[t.v], t.previous)
  BY <1>7 DEF CommitReservePassage
<1>13. ReservePassage(user, t.v, t.r, t.chamber, t.starts, t.ends, t.at)
  BY <1>4, <1>5, <1>6, <1>11, <1>12, Zenon DEF ReservePassage
<1> QED
  BY <1>2, <1>13, Zenon DEF AtomicNext

\* The same for a committing MovePassage.
LEMMA MoveRefines ==
  ASSUME TablesInv, TxTypeOK, TxInv, NEW p \in Requests, CommitMovePassage(p)
  PROVE  AtomicNext
<1> DEFINE t == tx[p]
<1>1. t \in MoveTx /\ t.op = "move"
  BY TxShape DEF CommitMovePassage
<1>2. /\ t.tenant \in Tenants /\ t.r \in ReservationIDs /\ t.at \in Instants
      /\ t.next \in SlotStatuses /\ t.reservation \in Reservations
  BY <1>1 DEF MoveTx
<1>3. Decided(t) /\ t.previous \in audit \cup {NoEvent}
  BY <1>1 DEF TxInv
<1>4. AppendOK(t.previous, t.tenant, t.at)
  BY <1>3 DEF Decided
<1>5. t.previous \in LastEvent(t.tenant)
  BY <1>2, <1>3, <1>4, StillLast DEF CommitMovePassage, TablesInv, TypeOK
<1>6. PICK user \in LockOperators : user.tenant = t.tenant
  BY <1>2, UserOf
<1>7. reservations[t.r] = t.reservation
  BY DEF CommitMovePassage, ReservationUnchanged
<1>8. t.reservation.status # "absent"
  BY <1>2 DEF Reservations, SlotStatuses
<1>9. CanMove(user, t.r, t.next, t.at)
  BY <1>1, <1>3, <1>6, <1>7, <1>8
  DEF CanMove, Decided, ReservationFound, Present
<1>10. WriteMove(t.r, t.next, t.tenant, t.at, reservations[t.r], t.previous)
  BY <1>7 DEF CommitMovePassage
<1>11. MovePassage(user, t.r, t.next, t.at)
  BY <1>4, <1>5, <1>6, <1>9, <1>10, Zenon DEF MovePassage
<1> QED
  BY <1>2, <1>11, Zenon DEF AtomicNext

-----------------------------------------------------------------------------
(***************************************************************************)
(* The transactions keep their part of the invariant.                      *)
(***************************************************************************)
AnyTx ==
  DeclareTx \cup OpenTx \cup ReleaseTx \cup ReserveTx \cup MoveTx \cup {Idle}

\* A step that sets one transaction, to one that decided rightly or to Idle,
\* and takes no event from the audit table.
LEMMA TxSet ==
  ASSUME TxTypeOK, TxInv, NEW p \in Requests, NEW t \in AnyTx,
         tx' = [tx EXCEPT ![p] = t], audit \subseteq audit',
         t.op # "idle" => Decided(t) /\ t.previous \in audit \cup {NoEvent}
  PROVE  TxTypeOK' /\ TxInv'
<1>1. tx \in [Requests -> AnyTx]
  BY DEF TxTypeOK, AnyTx
<1>2. tx' \in [Requests -> AnyTx]
  BY <1>1
<1>3. TxTypeOK'
  BY <1>2 DEF TxTypeOK, AnyTx
<1>4. ASSUME NEW q \in Requests, tx'[q].op # "idle"
      PROVE  Decided(tx'[q]) /\ tx'[q].previous \in audit' \cup {NoEvent}
  <2>1. CASE q = p
    <3>1. tx'[q] = t
      BY <1>1, <2>1
    <3> QED
      BY <1>4, <3>1
  <2>2. CASE q # p
    <3>1. tx'[q] = tx[q]
      BY <1>1, <2>2
    <3>2. Decided(tx[q]) /\ tx[q].previous \in audit \cup {NoEvent}
      BY <1>4, <3>1 DEF TxInv
    <3> QED
      BY <3>1, <3>2
  <2> QED
    BY <2>1, <2>2
<1>5. TxInv'
  BY <1>4 DEF TxInv
<1> QED
  BY <1>3, <1>5

\* A request that begins keeps what it found on its snapshot.
LEMMA BeginStep ==
  ASSUME TablesInv, TxTypeOK, TxInv, NEW p \in Requests, Begin(p)
  PROVE  UNCHANGED tables /\ TxTypeOK' /\ TxInv'
<1>1. PICK at \in Instants :
        \/ \E user \in Declarers, v \in VoyageIDs :
             BeginDeclareVoyage(p, user, v, at)
        \/ \E user \in Officers, v \in VoyageIDs, i \in InspectionIDs,
              kind \in Kinds : BeginOpenInspection(p, user, v, i, kind, at)
        \/ \E user \in Officers, v \in VoyageIDs, i \in InspectionIDs :
             BeginPassInspection(p, user, v, i, at)
        \/ \E user \in Dispatchers, v \in VoyageIDs, r \in ReservationIDs,
              chamber \in Chambers, starts \in WindowTimes, ends \in WindowTimes :
             BeginReservePassage(p, user, v, r, chamber, starts, ends, at)
        \/ \E user \in LockOperators, r \in ReservationIDs,
              next \in SlotStatuses : BeginMovePassage(p, user, r, next, at)
  BY Zenon DEF Begin
<1>2. /\ \A user \in Declarers \cup Officers \cup Dispatchers
                       \cup LockOperators : user.tenant \in Tenants
      /\ audit \subseteq Events
  BY DEF Declarers, Officers, Dispatchers, LockOperators, Users, TablesInv,
         TypeOK
<1>3. ASSUME NEW tenant \in Tenants, NEW previous \in LastEvent(tenant)
      PROVE  previous \in audit \cup {NoEvent} /\ previous \in Previous
  BY <1>2, <1>3, LastEventIs DEF Previous
<1>4. ASSUME NEW t \in AnyTx, tx' = [tx EXCEPT ![p] = t], UNCHANGED tables,
             Decided(t), t.previous \in audit \cup {NoEvent}
      PROVE  TxTypeOK' /\ TxInv'
  BY <1>4, TxSet DEF tables
<1>5. ASSUME NEW user \in Declarers, NEW v \in VoyageIDs,
             BeginDeclareVoyage(p, user, v, at)
      PROVE  UNCHANGED tables /\ TxTypeOK' /\ TxInv'
  <2>1. PICK previous \in LastEvent(user.tenant) :
          /\ AppendOK(previous, user.tenant, at)
          /\ tx' = [tx EXCEPT ![p] =
                      [op |-> "declare", tenant |-> user.tenant, v |-> v,
                       at |-> at, previous |-> previous]]
    BY <1>5 DEF BeginDeclareVoyage
  <2> DEFINE t == [op |-> "declare", tenant |-> user.tenant, v |-> v,
                   at |-> at, previous |-> previous]
  <2>2. user.tenant \in Tenants
    BY <1>2
  <2>3. previous \in audit \cup {NoEvent} /\ previous \in Previous
    BY <1>3, <2>2
  <2>4. t \in AnyTx
    BY <2>2, <2>3 DEF AnyTx, DeclareTx
  <2>5. Decided(t)
    BY <1>5, <2>1 DEF Decided, BeginDeclareVoyage, CanDeclare
  <2>6. UNCHANGED tables
    BY <1>5 DEF BeginDeclareVoyage
  <2>7. t.previous \in audit \cup {NoEvent}
    BY <2>3
  <2>8. tx' = [tx EXCEPT ![p] = t]
    BY <2>1
  <2> HIDE DEF t
  <2> QED
    BY <1>4, <2>4, <2>5, <2>6, <2>7, <2>8
<1>6. ASSUME NEW user \in Officers, NEW v \in VoyageIDs,
             NEW i \in InspectionIDs, NEW kind \in Kinds,
             BeginOpenInspection(p, user, v, i, kind, at)
      PROVE  UNCHANGED tables /\ TxTypeOK' /\ TxInv'
  <2>1. PICK previous \in LastEvent(user.tenant) :
          /\ AppendOK(previous, user.tenant, at)
          /\ tx' = [tx EXCEPT ![p] =
                      [op |-> "open", tenant |-> user.tenant, v |-> v,
                       i |-> i, kind |-> kind, at |-> at,
                       voyage |-> voyages[v], previous |-> previous]]
    BY <1>6 DEF BeginOpenInspection
  <2> DEFINE t == [op |-> "open", tenant |-> user.tenant, v |-> v,
                   i |-> i, kind |-> kind, at |-> at,
                   voyage |-> voyages[v], previous |-> previous]
  <2>2. user.tenant \in Tenants
    BY <1>2
  <2>3. previous \in audit \cup {NoEvent} /\ previous \in Previous
    BY <1>3, <2>2
  <2>4. /\ voyages[v] \in Voyages /\ voyages[v].tenant = user.tenant
        /\ OpenInspectionOK(voyages[v], at)
    BY <1>6 DEF BeginOpenInspection, CanOpenInspection, VoyageFound, Present,
                TablesInv, TypeOK, NoRow
  <2>5. t \in AnyTx
    BY <2>2, <2>3, <2>4 DEF AnyTx, OpenTx
  <2>6. Decided(t)
    BY <2>1, <2>4 DEF Decided
  <2>7. UNCHANGED tables
    BY <1>6 DEF BeginOpenInspection
  <2>8. t.previous \in audit \cup {NoEvent}
    BY <2>3
  <2>9. tx' = [tx EXCEPT ![p] = t]
    BY <2>1
  <2> HIDE DEF t
  <2> QED
    BY <1>4, <2>5, <2>6, <2>7, <2>8, <2>9
<1>7. ASSUME NEW user \in Officers, NEW v \in VoyageIDs,
             NEW i \in InspectionIDs, BeginPassInspection(p, user, v, i, at)
      PROVE  UNCHANGED tables /\ TxTypeOK' /\ TxInv'
  <2>1. PICK previous \in LastEvent(user.tenant) :
          /\ AppendOK(previous, user.tenant, at)
          /\ tx' = [tx EXCEPT ![p] =
                      [op |-> "release", tenant |-> user.tenant, v |-> v,
                       i |-> i, at |-> at, voyage |-> voyages[v],
                       inspection |-> inspections[i], previous |-> previous]]
    BY <1>7 DEF BeginPassInspection
  <2> DEFINE t == [op |-> "release", tenant |-> user.tenant, v |-> v,
                   i |-> i, at |-> at, voyage |-> voyages[v],
                   inspection |-> inspections[i], previous |-> previous]
  <2>2. user.tenant \in Tenants
    BY <1>2
  <2>3. previous \in audit \cup {NoEvent} /\ previous \in Previous
    BY <1>3, <2>2
  <2>4. /\ voyages[v] \in Voyages /\ voyages[v].tenant = user.tenant
        /\ inspections[i] \in Inspections /\ inspections[i].voyage = v
    BY <1>7 DEF BeginPassInspection, CanRelease, VoyageFound, Present,
                TablesInv, TypeOK, NoRow
  <2>5. /\ CloseInspectionOK(inspections[i], at)
        /\ voyages[v].status \in {"declared", "held"}
        /\ voyages[v].manifest # "none"
    BY <1>7 DEF BeginPassInspection, CanRelease, ReleaseOK
  <2>6. t \in AnyTx
    BY <2>2, <2>3, <2>4 DEF AnyTx, ReleaseTx
  <2>7. Decided(t)
    BY <2>1, <2>4, <2>5 DEF Decided
  <2>8. UNCHANGED tables
    BY <1>7 DEF BeginPassInspection
  <2>9. t.previous \in audit \cup {NoEvent}
    BY <2>3
  <2>10. tx' = [tx EXCEPT ![p] = t]
    BY <2>1
  <2> HIDE DEF t
  <2> QED
    BY <1>4, <2>6, <2>7, <2>8, <2>9, <2>10
<1>8. ASSUME NEW user \in Dispatchers, NEW v \in VoyageIDs,
             NEW r \in ReservationIDs, NEW chamber \in Chambers,
             NEW starts \in WindowTimes, NEW ends \in WindowTimes,
             BeginReservePassage(p, user, v, r, chamber, starts, ends, at)
      PROVE  UNCHANGED tables /\ TxTypeOK' /\ TxInv'
  <2>1. PICK previous \in LastEvent(user.tenant) :
          /\ AppendOK(previous, user.tenant, at)
          /\ tx' = [tx EXCEPT ![p] =
                      [op |-> "reserve", tenant |-> user.tenant, v |-> v,
                       r |-> r, chamber |-> chamber, starts |-> starts,
                       ends |-> ends, at |-> at, voyage |-> voyages[v],
                       previous |-> previous]]
    BY <1>8 DEF BeginReservePassage
  <2> DEFINE t == [op |-> "reserve", tenant |-> user.tenant, v |-> v,
                   r |-> r, chamber |-> chamber, starts |-> starts,
                   ends |-> ends, at |-> at, voyage |-> voyages[v],
                   previous |-> previous]
  <2>2. user.tenant \in Tenants
    BY <1>2
  <2>3. previous \in audit \cup {NoEvent} /\ previous \in Previous
    BY <1>3, <2>2
  <2>4. /\ voyages[v] \in Voyages /\ voyages[v].tenant = user.tenant
        /\ voyages[v].status = "cleared" /\ at # ZeroTime
    BY <1>8 DEF BeginReservePassage, CanReserve, VoyageFound, Present,
                TablesInv, TypeOK, NoRow
  <2>5. /\ WindowOK(chamber, starts, ends)
        /\ TransitionOK(voyages[v], "scheduled", starts)
    BY <1>8 DEF BeginReservePassage, CanReserve, ReserveOK
  <2>6. t \in AnyTx
    BY <2>2, <2>3, <2>4 DEF AnyTx, ReserveTx
  <2>7. Decided(t)
    BY <2>1, <2>4, <2>5 DEF Decided
  <2>8. UNCHANGED tables
    BY <1>8 DEF BeginReservePassage
  <2>9. t.previous \in audit \cup {NoEvent}
    BY <2>3
  <2>10. tx' = [tx EXCEPT ![p] = t]
    BY <2>1
  <2> HIDE DEF t
  <2> QED
    BY <1>4, <2>6, <2>7, <2>8, <2>9, <2>10
<1>9. ASSUME NEW user \in LockOperators, NEW r \in ReservationIDs,
             NEW next \in SlotStatuses, BeginMovePassage(p, user, r, next, at)
      PROVE  UNCHANGED tables /\ TxTypeOK' /\ TxInv'
  <2>1. PICK previous \in LastEvent(user.tenant) :
          /\ AppendOK(previous, user.tenant, at)
          /\ tx' = [tx EXCEPT ![p] =
                      [op |-> "move", tenant |-> user.tenant, r |-> r,
                       next |-> next, at |-> at,
                       reservation |-> reservations[r], previous |-> previous]]
    BY <1>9 DEF BeginMovePassage
  <2> DEFINE t == [op |-> "move", tenant |-> user.tenant, r |-> r,
                   next |-> next, at |-> at,
                   reservation |-> reservations[r], previous |-> previous]
  <2>2. user.tenant \in Tenants
    BY <1>2
  <2>3. previous \in audit \cup {NoEvent} /\ previous \in Previous
    BY <1>3, <2>2
  <2>4. /\ reservations[r] \in Reservations
        /\ reservations[r].tenant = user.tenant
        /\ MoveOK(reservations[r], next, at)
    BY <1>9 DEF BeginMovePassage, CanMove, ReservationFound, Present,
                TablesInv, TypeOK, NoRow
  <2>5. t \in AnyTx
    BY <2>2, <2>3, <2>4 DEF AnyTx, MoveTx
  <2>6. Decided(t)
    BY <2>1, <2>4 DEF Decided
  <2>7. UNCHANGED tables
    BY <1>9 DEF BeginMovePassage
  <2>8. t.previous \in audit \cup {NoEvent}
    BY <2>3
  <2>9. tx' = [tx EXCEPT ![p] = t]
    BY <2>1
  <2> HIDE DEF t
  <2> QED
    BY <1>4, <2>5, <2>6, <2>7, <2>8, <2>9
<1> QED
  BY <1>1, <1>5, <1>6, <1>7, <1>8, <1>9, Zenon

\* A transaction that ends, by commit or abort, leaves the others as they are.
LEMMA EndStep ==
  ASSUME TxTypeOK, TxInv, NEW p \in Requests, Commit(p) \/ Abort(p)
  PROVE  TxTypeOK' /\ TxInv'
<1>1. End(p)
  BY DEF Commit, Abort, CommitDeclareVoyage, CommitOpenInspection,
         CommitPassInspection, CommitReservePassage, CommitMovePassage
<1>2. audit \subseteq audit'
  BY DEF Commit, Abort, CommitDeclareVoyage, CommitOpenInspection,
         CommitPassInspection, CommitReservePassage, CommitMovePassage,
         WriteDeclare, WriteOpenInspection, WriteRelease, WriteReserve,
         WriteMove, AppendAudit, tables
<1>3. Idle \in AnyTx /\ Idle.op = "idle"
  BY DEF AnyTx, Idle
<1> QED
  BY <1>1, <1>2, <1>3, TxSet DEF End

-----------------------------------------------------------------------------
(***************************************************************************)
(* The theorems.                                                           *)
(***************************************************************************)
WorkflowInv == TablesInv /\ TxTypeOK /\ TxInv

\* A step of the transactions is a request that takes effect, or nothing.
LEMMA StepRefines ==
  ASSUME WorkflowInv, [Next]_vars
  PROVE  [AtomicNext]_tables
<1>1. CASE Next
  <2>1. PICK p \in Requests : Begin(p) \/ Commit(p) \/ Abort(p)
    BY <1>1 DEF Next
  <2>2. CASE Begin(p)
    BY <2>2, BeginStep DEF WorkflowInv
  <2>3. CASE Commit(p)
    BY <2>3, DeclareRefines, OpenRefines, ReleaseRefines, ReserveRefines,
       MoveRefines DEF WorkflowInv, Commit
  <2>4. CASE Abort(p)
    BY <2>4 DEF Abort
  <2> QED
    BY <2>1, <2>2, <2>3, <2>4
<1>2. CASE UNCHANGED vars
  BY <1>2 DEF vars
<1> QED
  BY <1>1, <1>2

\* The invariant of the transactions is inductive.
LEMMA WorkflowInvStep ==
  ASSUME WorkflowInv, [Next]_vars
  PROVE  WorkflowInv'
<1>1. TablesInv'
  BY StepRefines, TablesInvStep DEF WorkflowInv
<1>2. TxTypeOK' /\ TxInv'
  <2>1. CASE Next
    <3>1. PICK p \in Requests : Begin(p) \/ Commit(p) \/ Abort(p)
      BY <2>1 DEF Next
    <3> QED
      BY <3>1, BeginStep, EndStep DEF WorkflowInv
  <2>2. CASE UNCHANGED vars
    BY <2>2 DEF vars, tables, WorkflowInv, TxTypeOK, TxInv
  <2> QED
    BY <2>1, <2>2
<1> QED
  BY <1>1, <1>2 DEF WorkflowInv

\* It holds of empty tables with no transaction open.
LEMMA WorkflowInvInit == Init => WorkflowInv
<1> SUFFICES ASSUME Init PROVE WorkflowInv
  OBVIOUS
<1>1. TablesInv
  BY TablesInvInit DEF Init
<1>2. \A p \in Requests : tx[p] = Idle /\ tx[p].op = "idle"
  BY DEF Init, Idle
<1>3. TxTypeOK
  BY <1>2 DEF Init, TxTypeOK
<1>4. TxInv
  BY <1>2 DEF TxInv
<1> QED
  BY <1>1, <1>3, <1>4 DEF WorkflowInv

\* The concurrent workflow of internal/store is serializable: with any number
\* of requests, tenants and rows, what the transactions of WithTx do to the
\* tables is what the requests would do one at a time.
THEOREM WorkflowImplementsAtomic == Spec => AtomicSpec
<1>1. Init => AtomicInit
  BY DEF Init
<1>2. WorkflowInv /\ [Next]_vars => [AtomicNext]_tables
  BY StepRefines
<1>3. WorkflowInv /\ [Next]_vars => WorkflowInv'
  BY WorkflowInvStep
<1> QED
  BY <1>1, <1>2, <1>3, WorkflowInvInit, PTL DEF Spec, AtomicSpec

\* The same, as the property that TLC checks.
THEOREM WorkflowSerializable == Spec => Serializable
BY WorkflowImplementsAtomic, PTL DEF AtomicSpec, Serializable

\* However the requests interleave, rows and open transactions are well formed.
THEOREM WorkflowTypeCorrect == Spec => [](TypeOK /\ TxTypeOK)
<1>1. WorkflowInv => TypeOK /\ TxTypeOK
  BY DEF WorkflowInv, TablesInv
<1>2. WorkflowInv /\ [Next]_vars => WorkflowInv'
  BY WorkflowInvStep
<1> QED
  BY <1>1, <1>2, WorkflowInvInit, PTL DEF Spec

\* However the requests interleave, no lock chamber is promised twice.
THEOREM ChamberNeverDoubleBooked == Spec => []ChamberExclusive
BY WorkflowImplementsAtomic, AtomicSafe, PTL

\* However the requests interleave, no tenant's audit chain forks, gaps or
\* runs backwards in time.
THEOREM AuditChainNeverForks == Spec => []AuditChain
BY WorkflowImplementsAtomic, AtomicSafe, PTL

\* However the requests interleave, a voyage that is cleared or scheduled has
\* passed its one inspection, a held voyage has it open, a declared one none.
THEOREM ReleaseStaysGated == Spec => []ReleaseGated
BY WorkflowImplementsAtomic, AtomicSafe, PTL

\* However the requests interleave, every scheduled voyage has exactly one
\* reservation, of its own tenant, and no other voyage has any.
THEOREM BookedOnce == Spec => []OneBooking
BY WorkflowImplementsAtomic, AtomicSafe, PTL

\* However the requests interleave, the jobs of declarations and releases, the
\* audit events and the movements tell exactly what was committed to the rows,
\* and vessels enter in their own windows.
THEOREM RecordsTellTheTables ==
  Spec => [](/\ OutboxMatchesTables /\ AuditMatchesTables
             /\ MovementsMatchStatus /\ EntryInOwnWindow)
BY WorkflowImplementsAtomic, OutboxExact, AuditExact, MovementsExact,
   EntriesInOwnWindow, PTL

\* However the requests interleave, no commit takes a voyage off the
\* transition table, skips a version or changes the owner.
THEOREM VoyagesStayOnTable == Spec => TransitionsAllowed
BY WorkflowImplementsAtomic, VoyagesFollowTransitionTable, PTL
=============================================================================
